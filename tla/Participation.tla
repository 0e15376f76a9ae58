---------------------------- MODULE Participation ----------------------------
(***************************************************************************)
(* Taking part in one campaign: users join and leave it, and the clicks,   *)
(* views and submissions of their participants earn points that are added  *)
(* to the participant's score, to the campaign's total and to the hourly   *)
(* and daily metrics.  A post on a social network counts in the hourly     *)
(* metrics only; its likes are the social job's (SocialMetrics).           *)
(*                                                                         *)
(* Every addition reads a row, computes the new value in the process and   *)
(* writes it back in a later call, so other requests may come in between.  *)
(* track-action takes the campaign from a cache (UserController and        *)
(* ParticipantController), the click redirect from the database            *)
(* (ParticipantClickTracking); the metrics are looked up on the replica.   *)
(* Any awaited call may reject: what was written before it stays.          *)
(*                                                                         *)
(* One campaign, one hour and one day.  The quality multiplier is left out *)
(* because it is always one: calculateQualityTierMultiplier compares       *)
(* objects by identity and falls to its default.                           *)
(***************************************************************************)
EXTENDS Integers, FiniteSetsExt, SequencesExt

CONSTANTS
    Participants,   \* ids a participant row can get
    Users,
    Members0,       \* who takes part at first: a function from ids to users
    Requests,       \* requests that may be under way together
    Points,         \* algorithm.pointValues: points per action
    Unused, Gone,   \* an id no row had yet, an id whose row was deleted
    Lagging,        \* does the read replica lag behind the primary?
    Kinds,          \* what users do: actions, and "join", "leave", "post"
    MaxEvents       \* bound on requests, calls that reject and the end of the campaign

Tracked == {"views", "submissions"}     \* the actions of track-action
Actions == Tracked \cup {"clicks"}
Fields == Tracked \cup {"participants", "post"}    \* the counters of an hourly metric
Row == [user : Users, score : Nat, count : [Actions -> Nat]]

ASSUME ParticipationAssumption ==
    /\ Participants # {} /\ IsFiniteSet(Participants)
    /\ Requests # {} /\ IsFiniteSet(Requests)
    /\ DOMAIN Members0 \subseteq Participants
    /\ \A p \in DOMAIN Members0 : Members0[p] \in Users
    /\ Points \in [Actions -> Nat]
    /\ Unused # Gone /\ Unused \notin Row /\ Gone \notin Row
    /\ Lagging \in BOOLEAN
    /\ Kinds \subseteq Actions \cup {"join", "leave", "post"}
    /\ MaxEvents \in Nat

VARIABLES
    total,      \* campaign.totalParticipationScore
    row,        \* the participant rows
    hourly,     \* the hourlyCampaignMetric rows of the campaign
    daily,      \* the dailyParticipantMetric rows of each participant
    posts,      \* how many social posts each participant has
    open,       \* is it within the dates of the campaign?
    replica,    \* what readPrisma sees of the metrics
    cached,     \* the total in the cached campaign, -1 if it is not cached
    request,    \* the requests under way
    \* -- history
    granted,    \* points written to the total
    credited,   \* points written to each participant
    disturbed,  \* did requests overlap, a call reject, a read return an old value?
    \* -- bounds
    requests, failures

database == <<total, row, hourly, daily, posts>>
history == <<granted, credited, disturbed>>
events == <<open, requests, failures>>
vars == <<database, replica, cached, request, history, events>>

NoCounts == [a \in Actions |-> 0]
NewRow(u) == [user |-> u, score |-> 0, count |-> NoCounts]
NewHour == [f \in Fields |-> 0]
NewDay == [score |-> 0, count |-> NoCounts]

\* A request that is at its first step; seen is the participant row it read,
\* total the campaign's, metric the metric row it goes on with.
Fresh(label, kind, p, seen) ==
    [pc |-> label, kind |-> kind, p |-> p, seen |-> seen, total |-> 0,
     id |-> 0, metric |-> NewDay]

Rest == Fresh("rest", "none", Unused, Unused)

Metrics == [hourly |-> hourly, daily |-> daily]

Init ==
    /\ total = 0
    /\ row = [p \in Participants |-> IF p \in DOMAIN Members0 THEN NewRow(Members0[p]) ELSE Unused]
    /\ hourly = << >>
    /\ daily = [p \in Participants |-> << >>]
    /\ posts = [p \in Participants |-> 0]
    /\ open = TRUE
    /\ replica = Metrics
    /\ cached = -1
    /\ request = [r \in Requests |-> Rest]
    /\ granted = 0
    /\ credited = [p \in Participants |-> 0]
    /\ disturbed = FALSE
    /\ requests = 0
    /\ failures = 0

-----------------------------------------------------------------------------
Present == {p \in Participants : row[p] \notin {Unused, Gone}}
RowsOf(u) == {p \in Present : row[p].user = u}
At(r, label) == request[r].pc = label
Quiet == \A r \in Requests : At(r, "rest")

Become(r, local) == request' = [request EXCEPT ![r] = local]
Goto(r, label) == Become(r, [request[r] EXCEPT !.pc = label])

Events == requests + failures + (IF open THEN 0 ELSE 1)

\* A request comes in; it overlaps with those under way.
Begin(r, local) ==
    /\ At(r, "rest")
    /\ Events < MaxEvents
    /\ requests' = requests + 1
    /\ Become(r, local)
    /\ disturbed' = (disturbed \/ ~Quiet)
    /\ UNCHANGED <<open, failures>>

Quietly == UNCHANGED <<disturbed, events>>

SeenMetrics == IF Lagging THEN replica ELSE Metrics

-----------------------------------------------------------------------------
(* track-action and the click redirect. *)

\* The participant is read; a request over its rate limit ends here, unseen.
ReadParticipant(r) ==
    \E p \in Present, a \in Actions \cap Kinds :
        /\ Begin(r, Fresh("campaign", a, p, row[p]))
        /\ UNCHANGED <<database, replica, cached, granted, credited>>

\* findCampaignById returns the cached campaign whatever happened since.  That the
\* campaign is over is not found out here: isCampaignOpen is async, and a promise is
\* always true.
ReadCachedCampaign(r) ==
    /\ At(r, "campaign") /\ request[r].kind \in Tracked
    /\ cached # -1
    /\ Become(r, [request[r] EXCEPT !.pc = "total", !.total = cached])
    /\ disturbed' = (disturbed \/ cached # total)
    /\ UNCHANGED <<database, replica, cached, granted, credited, events>>

\* A miss reads the campaign and puts it into the cache when the read is back.
MissCampaign(r) ==
    /\ At(r, "campaign") /\ request[r].kind \in Tracked
    /\ cached = -1
    /\ Become(r, [request[r] EXCEPT !.pc = "fill", !.total = total])
    /\ Quietly
    /\ UNCHANGED <<database, replica, cached, granted, credited>>

\* The click redirect reads the campaign from the primary.
ReadCampaign(r) ==
    /\ At(r, "campaign") /\ request[r].kind = "clicks"
    /\ Become(r, [request[r] EXCEPT !.pc = "total", !.total = total])
    /\ Quietly
    /\ UNCHANGED <<database, replica, cached, granted, credited>>

FillCache(r) ==
    /\ At(r, "fill")
    /\ cached' = request[r].total
    /\ Goto(r, "total")
    /\ Quietly
    /\ UNCHANGED <<database, replica, granted, credited>>

Earned(r) == Points[request[r].kind]

\* The new total computed from the participant's score.
UpdateCampaignFromRow(r) ==
    /\ At(r, "total")
    /\ total' = request[r].seen.score + Earned(r)
    /\ granted' = granted + Earned(r)
    /\ Goto(r, "score")
    /\ Quietly
    /\ UNCHANGED <<row, hourly, daily, posts, replica, cached, credited>>

UpdateCampaign(r) ==
    /\ At(r, "total")
    /\ total' = request[r].total + Earned(r)
    /\ granted' = granted + Earned(r)
    /\ Goto(r, "score")
    /\ Quietly
    /\ UNCHANGED <<row, hourly, daily, posts, replica, cached, credited>>

\* What an action writes: track-action both of its counters, the other one back to
\* zero, the redirect only its own.
Counted(now, seen, a) ==
    LET written == IF a = "clicks" THEN {"clicks"} ELSE Tracked
    IN  [b \in Actions |-> CASE b \notin written -> now[b]
                             [] b = a -> seen[b] + 1
                             [] OTHER -> 0]

\* A participant's score computed from the campaign's total.
UpdateParticipantFromTotal(r) ==
    LET l == request[r]
    IN  /\ At(r, "score")
        /\ l.p \in Present
        /\ row' = [row EXCEPT ![l.p].score = l.total + Earned(r),
                              ![l.p].count = Counted(@, l.seen.count, l.kind)]
        /\ credited' = [credited EXCEPT ![l.p] = @ + Earned(r)]
        /\ Goto(r, IF l.kind \in Tracked THEN "findHour" ELSE "findDay")
        /\ Quietly
        /\ UNCHANGED <<total, hourly, daily, posts, replica, cached, granted>>

\* A participant who left meanwhile cannot be updated: see Reject.
UpdateParticipant(r) ==
    LET l == request[r]
    IN  /\ At(r, "score")
        /\ l.p \in Present
        /\ row' = [row EXCEPT ![l.p].score = l.seen.score + Earned(r),
                              ![l.p].count = Counted(@, l.seen.count, l.kind)]
        /\ credited' = [credited EXCEPT ![l.p] = @ + Earned(r)]
        /\ Goto(r, IF l.kind \in Tracked THEN "findHour" ELSE "findDay")
        /\ Quietly
        /\ UNCHANGED <<total, hourly, daily, posts, replica, cached, granted>>

-----------------------------------------------------------------------------
(* upsertMetrics, hourly for the campaign and daily for a participant: find the row
   of this hour or day, create it if there is none, write the new counts. *)

FindHour(r) ==
    /\ At(r, "findHour")
    /\ LET seen == SeenMetrics.hourly
       IN  \/ /\ seen = << >>
              /\ Goto(r, "createHour")
           \/ \E i \in DOMAIN seen :
                 Become(r, [request[r] EXCEPT !.pc = "writeHour", !.id = i, !.metric = seen[i]])
    /\ disturbed' = (disturbed \/ SeenMetrics # Metrics)
    /\ UNCHANGED <<database, replica, cached, granted, credited, events>>

CreateHour(r) ==
    /\ At(r, "createHour")
    /\ hourly' = Append(hourly, NewHour)
    /\ Become(r, [request[r] EXCEPT !.pc = "writeHour", !.id = Len(hourly) + 1, !.metric = NewHour])
    /\ Quietly
    /\ UNCHANGED <<total, row, daily, posts, replica, cached, granted, credited>>

\* Only the counter of the action is written; one who leaves counts down.
WriteHour(r) ==
    LET l == request[r]
        field == IF l.kind = "leave" THEN "participants" ELSE l.kind
    IN  /\ At(r, "writeHour")
        /\ hourly' = [hourly EXCEPT ![l.id][field] =
                          l.metric[field] + (IF l.kind = "leave" THEN -1 ELSE 1)]
        /\ Goto(r, CASE l.kind = "leave" -> "delete"
                     [] l.kind = "post" -> "savePost"
                     [] OTHER -> "findDay")
        /\ Quietly
        /\ UNCHANGED <<total, row, daily, posts, replica, cached, granted, credited>>

FindDay(r) ==
    /\ At(r, "findDay")
    /\ LET seen == SeenMetrics.daily[request[r].p]
       IN  \/ /\ seen = << >>
              /\ Goto(r, "createDay")
           \/ \E i \in DOMAIN seen :
                 Become(r, [request[r] EXCEPT !.pc = "writeDay", !.id = i, !.metric = seen[i]])
    /\ disturbed' = (disturbed \/ SeenMetrics # Metrics)
    /\ UNCHANGED <<database, replica, cached, granted, credited, events>>

CreateDay(r) ==
    LET p == request[r].p
    IN  /\ At(r, "createDay")
        /\ daily' = [daily EXCEPT ![p] = Append(@, NewDay)]
        /\ Become(r, [request[r] EXCEPT !.pc = "writeDay", !.id = Len(daily[p]) + 1, !.metric = NewDay])
        /\ Quietly
        /\ UNCHANGED <<total, row, hourly, posts, replica, cached, granted, credited>>

\* A view that falls through to the case of submissions.
WriteDayFallingThrough(r) ==
    LET l == request[r]
    IN  /\ At(r, "writeDay")
        /\ daily' = [daily EXCEPT ![l.p][l.id] =
               [score |-> l.metric.score + Earned(r),
                count |-> [a \in Actions |-> IF a = l.kind \/ (l.kind = "views" /\ a = "submissions")
                                             THEN l.metric.count[a] + 1 ELSE l.metric.count[a]]]]
        /\ Become(r, Rest)
        /\ Quietly
        /\ UNCHANGED <<total, row, hourly, posts, replica, cached, granted, credited>>

\* All counters of the row are written back as they were read.
WriteDay(r) ==
    LET l == request[r]
    IN  /\ At(r, "writeDay")
        /\ daily' = [daily EXCEPT ![l.p][l.id] =
               [score |-> l.metric.score + Earned(r),
                count |-> [l.metric.count EXCEPT ![l.kind] = @ + 1]]]
        /\ Become(r, Rest)
        /\ Quietly
        /\ UNCHANGED <<total, row, hourly, posts, replica, cached, granted, credited>>

-----------------------------------------------------------------------------
(* participate and removeParticipation. *)

\* A join that does not look whether the user takes part already.
JoinUnchecked(r) ==
    /\ "join" \in Kinds
    /\ \E u \in Users : Begin(r, Fresh("join", "join", Unused, NewRow(u)))
    /\ UNCHANGED <<database, replica, cached, granted, credited>>

\* The user must not take part already.  Whether the campaign is open is asked, but
\* `await !promise` is false whatever the answer.
Join(r) ==
    /\ "join" \in Kinds
    /\ \E u \in Users :
          /\ RowsOf(u) = {}
          /\ Begin(r, Fresh("join", "join", Unused, NewRow(u)))
    /\ UNCHANGED <<database, replica, cached, granted, credited>>

CreateParticipant(r) ==
    /\ At(r, "join")
    /\ \E p \in Participants :
          /\ row[p] = Unused
          /\ row' = [row EXCEPT ![p] = request[r].seen]
          /\ Become(r, IF request[r].kind = "join" THEN Rest
                       ELSE [request[r] EXCEPT !.pc = "participant", !.p = p])
    /\ Quietly
    /\ UNCHANGED <<total, hourly, daily, posts, replica, cached, granted, credited>>

Leave(r) ==
    /\ "leave" \in Kinds
    /\ \E p \in Present : Begin(r, Fresh("findHour", "leave", p, row[p]))
    /\ UNCHANGED <<database, replica, cached, granted, credited>>

\* The points of the participant stay in the campaign's total.
RemoveParticipant(r) ==
    LET p == request[r].p
    IN  /\ At(r, "delete")
        /\ p \in Present
        /\ row' = [row EXCEPT ![p] = Gone]
        /\ Become(r, Rest)
        /\ Quietly
        /\ UNCHANGED <<total, hourly, daily, posts, replica, cached, granted, credited>>

-----------------------------------------------------------------------------
(* postToSocial and postContentGlobally. *)

\* Here the campaign's dates are looked at.  Whose participant it is, is not asked.  The
\* network is asked between the read and the metrics; a post there whose row is never
\* written is not known to anyone here.
Post(r) ==
    /\ "post" \in Kinds /\ open
    /\ \E p \in Present : Begin(r, Fresh("findHour", "post", p, row[p]))
    /\ UNCHANGED <<database, replica, cached, granted, credited>>

\* A post to the global campaign makes its user a participant; one who is posts as above.
PostContentGlobally(r) ==
    /\ "post" \in Kinds
    /\ \E u \in Users :
          /\ RowsOf(u) = {}
          /\ Begin(r, Fresh("join", "post", Unused, NewRow(u)))
    /\ UNCHANGED <<database, replica, cached, granted, credited>>

\* The new participant is read anew; if the campaign is over there is no post, but the
\* participant stays: see Reject.
FindPoster(r) ==
    /\ At(r, "participant")
    /\ request[r].p \in Present /\ open
    /\ Goto(r, "findHour")
    /\ Quietly
    /\ UNCHANGED <<database, replica, cached, granted, credited>>

NewSocialPost(r) ==
    /\ At(r, "savePost")
    /\ posts' = [posts EXCEPT ![request[r].p] = @ + 1]
    /\ Become(r, Rest)
    /\ Quietly
    /\ UNCHANGED <<total, row, hourly, daily, replica, cached, granted, credited>>

-----------------------------------------------------------------------------
\* A call rejects, or its process dies; a row that is gone cannot be written, and nothing
\* is posted for a campaign that is over.
Reject(r) ==
    /\ ~At(r, "rest")
    /\ \/ /\ Events < MaxEvents
          /\ failures' = failures + 1
       \/ /\ \/ request[r].pc \in {"score", "delete", "participant"} /\ request[r].p \notin Present
             \/ At(r, "participant") /\ ~open
          /\ UNCHANGED failures
    /\ Become(r, Rest)
    /\ disturbed' = TRUE
    /\ UNCHANGED <<database, replica, cached, granted, credited, open, requests>>

-----------------------------------------------------------------------------
(* What happens around the requests. *)

\* The entry reaches its time to live or an admin's change of a campaign drops it;
\* another reader of the campaign, or the refresh before it expires, fills it anew.
CacheChanges ==
    /\ cached' \in {-1, total}
    /\ UNCHANGED <<database, replica, request, history, events>>

CampaignEnds ==
    /\ open /\ Events < MaxEvents
    /\ open' = FALSE
    /\ UNCHANGED <<database, replica, cached, request, history, requests, failures>>

Replicate ==
    /\ Lagging
    /\ replica' = Metrics
    /\ UNCHANGED <<database, cached, request, history, events>>

Step(r) ==
    \/ ReadParticipant(r) \/ ReadCachedCampaign(r) \/ MissCampaign(r) \/ FillCache(r)
    \/ ReadCampaign(r) \/ UpdateCampaign(r) \/ UpdateParticipant(r)
    \/ FindHour(r) \/ CreateHour(r) \/ WriteHour(r)
    \/ FindDay(r) \/ CreateDay(r) \/ WriteDay(r)
    \/ Join(r) \/ CreateParticipant(r) \/ Leave(r) \/ RemoveParticipant(r)
    \/ Post(r) \/ PostContentGlobally(r) \/ FindPoster(r) \/ NewSocialPost(r)
    \/ Reject(r)

Next == CacheChanges \/ CampaignEnds \/ Replicate \/ \E r \in Requests : Step(r)

Spec == Init /\ [][Next]_vars

-----------------------------------------------------------------------------
(* Properties *)

\* Sums of weights, over the rows of a table or over participants.
SumOf(S, w) == MapThenSumSet(LAMBDA x : w[x], S)
Total(days) == SumOf(DOMAIN days, [i \in DOMAIN days |-> days[i].score])
HourlyOf(f) == SumOf(DOMAIN hourly, [i \in DOMAIN hourly |-> hourly[i][f]])
CountOf(a, days) == SumOf(DOMAIN days, [i \in DOMAIN days |-> days[i].count[a]])
\* What the actions that were counted are worth.
Worth(count) == SumOf(Actions, [a \in Actions |-> Points[a] * count[a]])

\* Lost updates and stale caches only lose points: neither the campaign's total nor
\* a participant's score exceeds the points of the actions that were written to it
\* (ParticipantController.trackAction, ParticipantClickTracking).
ScoresEarned ==
    /\ total <= granted
    /\ \A p \in Present : row[p].score <= credited[p]

\* Nor do the daily metrics, however many rows a day gets.  A row is written as a whole
\* from what was read, so its points are those of the actions it counts
\* (DailyParticipantMetricService.upsertMetrics); the counters of the participant, half
\* of which track-action resets, have no such relation.
DailyEarned ==
    \A p \in Participants :
        /\ Total(daily[p]) <= credited[p]
        /\ \A i \in DOMAIN daily[p] : daily[p][i].score = Worth(daily[p][i].count)

\* As long as requests never overlapped, none rejected and no read was stale, all
\* tables agree: the total is what the participants, those who left included, have
\* earned, and the hourly metrics count what the daily ones do, and the posts.
QuietAgree ==
    ~disturbed /\ Quiet =>
        /\ total = granted
        /\ total = SumOf(Participants, credited)
        /\ \A p \in Present : row[p].score = credited[p]
        /\ \A p \in Participants : Total(daily[p]) = credited[p]
        /\ HourlyOf("post") = SumOf(Participants, posts)
        /\ \A a \in Tracked :
              HourlyOf(a) = SumOf(Participants, [p \in Participants |-> CountOf(a, daily[p])])

\* A user gets at most as many rows as can be asked for at the same time.
JoinsBounded == \A u \in Users : Cardinality(RowsOf(u)) <= Cardinality(Requests)

=============================================================================
