----------------------------- MODULE ScoreJobs -----------------------------
(***************************************************************************)
(* The three jobs over the participants of a campaign, side by side and    *)
(* with the requests that write the same tables: cron/social, which runs   *)
(* for as long as Twitter takes to answer, cron/qualityScore and           *)
(* cron/scoreAggregate.  Nothing keeps two runs of a job apart.            *)
(***************************************************************************)
EXTENDS SocialMetrics, QualityScores, ScoreAggregate

CONSTANTS Budgets   \* bounds on how often what happens: each behaviour has one of them

Happenings == {"social", "judge", "tally", "track", "leave", "user", "twitter", "lag", "failure", "overlap"}

VARIABLES
    left,       \* what may still happen of the budget
    tracked,    \* points that trackAction gave each participant: history
    astray,     \* pages whose posts may be counted twice: history
    disturbed   \* whether anything but runs and requests one at a time happened: history

vars == <<tables, replicaVars, socialVars, qualityVars, aggregateVars,
          left, tracked, astray, disturbed>>

Init ==
    /\ TablesInit /\ SocialInit /\ QualityInit /\ AggregateInit
    /\ left \in Budgets
    /\ tracked = [p \in Participants |-> 0]
    /\ astray = 0 /\ disturbed = FALSE

AtRest ==
    /\ \A j \in SocialJobs : SocialAt(j, "rest")
    /\ \A j \in QualityJobs : judge[j].pc = "rest"
    /\ \A j \in TallyJobs : tally[j].pc = "rest"

Happens(what) == left[what] > 0 /\ left' = [left EXCEPT ![what] = @ - 1]
\* A run starts; beside another one it takes an overlap of the budget as well.
Starts(what) ==
    /\ left[what] > 0
    /\ \/ AtRest /\ left' = [left EXCEPT ![what] = @ - 1]
       \/ /\ ~AtRest /\ left["overlap"] > 0
          /\ left' = [left EXCEPT ![what] = @ - 1, !["overlap"] = @ - 1]
Quietly == disturbed' = (disturbed \/ ~AtRest \/ behind)
Fails == Happens("failure") /\ disturbed' = TRUE

\* A job at this place holds posts whose rows it has not written yet.
HoldsPage(j) == social[j].pc \notin {"rest", "page"}

\* What each part leaves alone.
OnlySocial == UNCHANGED <<replicaVars, aggregateVars, tracked>>
OnlyQuality == UNCHANGED <<replicaVars, socialVars, aggregateVars, tracked, astray>>
OnlyAggregate == UNCHANGED <<tables, replicaVars, socialVars, qualityVars, tracked, astray>>

Social(j) ==
    /\ OnlySocial
    /\ \/ StartSocial(j) /\ Starts("social") /\ Quietly /\ UNCHANGED <<qualityVars, astray>>
       \/ /\ ReadPosts(j)
          /\ astray' = IF behind \/ \E i \in SocialJobs : HoldsPage(i) THEN astray + 1 ELSE astray
          /\ UNCHANGED <<qualityVars, left, disturbed>>
       \/ SocialStep(j) /\ UNCHANGED <<qualityVars, left, astray, disturbed>>
       \/ UpdateScore(j) /\ shuffled' = QualityJobs /\ UNCHANGED <<judge, left, astray, disturbed>>
       \/ RejectScore(j) /\ UNCHANGED <<qualityVars, left, astray, disturbed>>
       \/ (Throw(j) \/ SocialDies(j)) /\ Fails /\ astray' = astray + 1 /\ UNCHANGED qualityVars

Quality(j) ==
    /\ OnlyQuality
    /\ \/ StartJudge(j) /\ Starts("judge") /\ Quietly
       \/ QualityStep(j) /\ UNCHANGED <<left, disturbed>>
       \/ JudgeDies(j) /\ Fails

Aggregate(j) ==
    /\ OnlyAggregate
    /\ \/ StartTally(j) /\ Starts("tally") /\ Quietly
       \/ AggregateStep(j) /\ UNCHANGED <<left, disturbed>>
       \/ TallyDies(j) /\ Fails

\* A request of trackAction in one piece, worth a point; its interleavings are in Participation.
Track(p) ==
    /\ p \in Present(Seen) /\ p \in Present(Tables)
    /\ score' = [score EXCEPT ![p] = Seen.score[p] + 1]
    /\ total' = Seen.total + 1
    /\ quality' = [quality EXCEPT ![p] = IF @ = << >> THEN <<Blank>> ELSE @]
    /\ \/ Seen.daily[p] = << >> /\ daily' = [daily EXCEPT ![p] = Append(@, 1)]
       \/ \E i \in DOMAIN Seen.daily[p] : daily' = [daily EXCEPT ![p][i] = Seen.daily[p][i] + 1]
    /\ tracked' = [tracked EXCEPT ![p] = @ + 1]
    /\ shuffled' = QualityJobs
    /\ UNCHANGED <<post, judge, aggregateVars>>

\* The row of the participant is deleted; its points stay in the total.
RemoveParticipation(p) ==
    /\ p \in Present(Seen) /\ p \in Present(Tables)
    /\ score' = [score EXCEPT ![p] = Gone]
    /\ shuffled' = QualityJobs
    /\ UNCHANGED <<total, daily, post, quality, tracked, judge, aggregateVars>>

\* Whatever writes a row of a user, such as the time of the last log-in.
UpdateUser ==
    /\ jumbled' = TallyJobs
    /\ UNCHANGED <<tables, tracked, qualityVars, tally, metric, completed, cut>>

Request ==
    /\ \/ Happens("track") /\ \E p \in Participants : Track(p)
       \/ Happens("leave") /\ \E p \in Participants : RemoveParticipation(p)
       \/ Happens("user") /\ UpdateUser
    /\ Quietly
    /\ UNCHANGED <<replicaVars, socialVars, astray>>

Elsewhere ==
    \/ /\ TwitterCounts /\ Happens("twitter")
       /\ UNCHANGED <<replicaVars, qualityVars, aggregateVars, tracked, astray, disturbed>>
    \/ /\ FallsBehind /\ Happens("lag") /\ disturbed' = (disturbed \/ ~AtRest)
       /\ UNCHANGED <<tables, socialVars, qualityVars, aggregateVars, tracked, astray>>
    \/ /\ CatchesUp
       /\ UNCHANGED <<tables, socialVars, qualityVars, aggregateVars, tracked, astray, left, disturbed>>

Next ==
    \/ \E j \in SocialJobs : Social(j)
    \/ \E j \in QualityJobs : Quality(j)
    \/ \E j \in TallyJobs : Aggregate(j)
    \/ Request
    \/ Elsewhere

Spec == Init /\ [][Next]_vars

-----------------------------------------------------------------------------
(* Properties *)

PointsOf(counts) == SumOf(Kinds, [k \in Kinds |-> counts[k] * Points[k]])
MostPoints == MaxCount * SumOf(Kinds, Points)
PostsOf(p) == {q \in Posts : Author[q] = p}
Earned(p) == tracked[p] + SumOf(PostsOf(p), [q \in Posts |-> PointsOf(post[q])])

\* What the runs of the social job give for a post is what the post is worth, give or take
\* its worth once for every page that was read while another run held posts or the replica
\* was behind, and for every run that a failure kept from writing its rows.
CreditPerRun ==
    \A q \in Posts : credit[q] \in -(astray * MostPoints)..((1 + astray) * MostPoints)

Quiet == AtRest /\ ~disturbed

\* As long as jobs and requests came one at a time, the score of a participant, the days
\* of a participant and the total of the campaign are the same points: those tracked and
\* those of the counts in the rows of the posts.
QuietCounted ==
    Quiet =>
        /\ \A p \in Present(Tables) : score[p] = Earned(p) /\ Total(daily[p]) = Earned(p)
        /\ total = SumOf(Participants, [p \in Participants |-> Earned(p)])

\* Likewise, a participant has one quality score, and all of them are measured against the
\* same participants although the pages of the job are written one by one.
QuietJudged ==
    Quiet =>
        /\ \A p \in Participants : Len(quality[p]) <= 1
        /\ \A p, r \in Present(Tables) : quality[r] \in {<< >>, <<Blank>>} \/ quality[p] = quality[r]

\* Likewise, every user has one metric for each run of the aggregation that came to its
\* end, and at most one for a run that a message ended.
QuietAggregated ==
    Quiet => \A u \in Participants : metric[u] \in completed..(completed + cut)
=============================================================================
