------------------------- MODULE ParticipationProofs -------------------------
(***************************************************************************)
(* Lost updates and stale caches only lose points, in the totals and in    *)
(* the days; overlapping joins give a user no more rows than requests; and *)
(* where nothing disturbs, all tables agree.  For any number of            *)
(* participants and overlapping requests and for every point table.  And   *)
(* the rate limiter that trackAction asks first lets through at most one   *)
(* request less than can be under way together beyond its limit.           *)
(***************************************************************************)
EXTENDS Participation, RateLimiter, SumTheorems, FiniteSetTheorems, SequenceTheorems, TLAPS

\* The numbers that are compared are numbers.
Numbers ==
    /\ total \in Nat /\ granted \in Nat
    /\ cached \in Nat \cup {-1}
    /\ row \in [Participants -> Row \cup {Unused, Gone}]
    /\ credited \in [Participants -> Nat]

Snapshots == {"campaign", "fill", "total", "score"}

LocalFields == {"pc", "kind", "p", "seen", "total", "id", "metric"}

\* What a request has read and may still write back was earned, where so much is
\* granted and credited; a row that is about to be created has no points.
SnapshotEarned(l, allGranted, allCredited) ==
    /\ DOMAIN l = LocalFields
    /\ l.total \in Nat /\ l.total <= allGranted
    /\ l.pc \in Snapshots =>
          /\ l.kind \in Actions
          /\ l.p \in Participants
          /\ l.seen \in Row
          /\ l.seen.score <= allCredited[l.p]
    /\ l.pc = "join" => l.seen \in Row /\ l.seen.score = 0

SnapshotsEarned ==
    /\ DOMAIN request = Requests
    /\ \A r \in Requests : SnapshotEarned(request[r], granted, credited)

TablesEarned == ScoresEarned /\ cached <= granted

\* Every table, and every copy of it that is under way, is covered by what was earned.
\* The copies make it inductive: a request may write back a total that is long stale.
ScoreInv == Numbers /\ TablesEarned /\ SnapshotsEarned

-----------------------------------------------------------------------------
\* The requests that do not move keep what they hold, as points are only ever added.
LEMMA OthersKeep ==
  ASSUME ScoreInv, NEW r \in Requests, NEW local, Become(r, local),
         granted' \in Nat, granted <= granted',
         credited' \in [Participants -> Nat],
         \A p \in Participants : credited[p] <= credited'[p],
         SnapshotEarned(local, granted', credited')
  PROVE  SnapshotsEarned'
<1>1. DOMAIN request' = Requests
  BY DEF ScoreInv, SnapshotsEarned, Become
<1>2. ASSUME NEW q \in Requests PROVE SnapshotEarned(request'[q], granted', credited')
  <2>1. CASE q = r
    <3>1. request'[q] = local
      BY <2>1 DEF ScoreInv, SnapshotsEarned, Become
    <3> QED
      BY <3>1
  <2>2. CASE q # r
    <3>1. request'[q] = request[q]
      BY <2>2 DEF ScoreInv, SnapshotsEarned, Become
    <3>2. SnapshotEarned(request[q], granted, credited)
      BY DEF ScoreInv, SnapshotsEarned
    <3> DEFINE l == request[q]
    <3>3. l.total <= granted'
      BY <3>2 DEF SnapshotEarned, ScoreInv, Numbers
    <3>4. l.pc \in Snapshots => l.seen.score <= credited'[l.p]
      BY <3>2 DEF SnapshotEarned, ScoreInv, Numbers, Row
    <3> QED
      BY <3>1, <3>2, <3>3, <3>4 DEF SnapshotEarned
  <2> QED
    BY <2>1, <2>2
<1> QED
  BY <1>1, <1>2 DEF SnapshotsEarned

\* A step of one request that writes no points and no rows.
LEMMA OnlyMoves ==
  ASSUME ScoreInv, NEW r \in Requests, NEW local, Become(r, local),
         UNCHANGED <<total, row, granted, credited, cached>>,
         SnapshotEarned(local, granted, credited)
  PROVE  ScoreInv'
<1>1. SnapshotsEarned'
  BY OthersKeep DEF ScoreInv, Numbers
<1> QED
  BY <1>1 DEF ScoreInv, Numbers, TablesEarned, ScoresEarned, Present

\* A request that goes to a label where it writes back nothing it read.
LEMMA MovedOn ==
  ASSUME NEW l, SnapshotEarned(l, granted, credited),
         NEW label, label \notin Snapshots \cup {"join"}
  PROVE  /\ SnapshotEarned([l EXCEPT !.pc = label], granted, credited)
         /\ \A i, m : SnapshotEarned([l EXCEPT !.pc = label, !.id = i, !.metric = m], granted, credited)
BY DEF SnapshotEarned, LocalFields

\* A request that is new, or over, has read no total.
LEMMA FreshEarned ==
  ASSUME ScoreInv, NEW label, NEW kind, NEW p, NEW seen,
         label \in Snapshots =>
             kind \in Actions /\ p \in Participants /\ seen \in Row /\ seen.score <= credited[p],
         label = "join" => seen \in Row /\ seen.score = 0
  PROVE  SnapshotEarned(Fresh(label, kind, p, seen), granted, credited)
<1> DEFINE l == Fresh(label, kind, p, seen)
<1>1. DOMAIN l = LocalFields /\ l.pc = label /\ l.kind = kind /\ l.p = p
      /\ l.seen = seen /\ l.total = 0
  BY DEF Fresh, LocalFields
<1>2. l.total \in Nat /\ l.total <= granted
  BY <1>1 DEF ScoreInv, Numbers
<1> HIDE DEF l
<1>3. l.pc \in Snapshots =>
        l.kind \in Actions /\ l.p \in Participants /\ l.seen \in Row /\ l.seen.score <= credited[l.p]
  BY <1>1
<1>4. l.pc = "join" => l.seen \in Row /\ l.seen.score = 0
  BY <1>1
<1>5. SnapshotEarned(l, granted, credited)
  BY <1>1, <1>2, <1>3, <1>4 DEF SnapshotEarned
<1> QED
  BY <1>5 DEF l

LEMMA RestEarned == ScoreInv => SnapshotEarned(Rest, granted, credited)
BY FreshEarned DEF Rest, Snapshots

\* The points of an action are a number, and the new counters are counters.
LEMMA ActionPoints == \A a \in Actions : Points[a] \in Nat
BY ParticipationAssumption

LEMMA CountedTyped ==
  ASSUME NEW now \in [Actions -> Nat], NEW seen \in [Actions -> Nat], NEW a \in Actions
  PROVE  Counted(now, seen, a) \in [Actions -> Nat]
BY DEF Counted

LEMMA NewRowTyped == \A u \in Users : NewRow(u) \in Row /\ NewRow(u).score = 0
BY DEF NewRow, Row, NoCounts

-----------------------------------------------------------------------------
LEMMA ScoreInit == Init => ScoreInv
<1> SUFFICES ASSUME Init PROVE ScoreInv
  OBVIOUS
<1>1. \A p \in Participants : row[p] \in Row \cup {Unused, Gone}
  BY NewRowTyped, ParticipationAssumption DEF Init
<1>2. Numbers
  BY <1>1 DEF Init, Numbers
<1>3. \A p \in Present : row[p].score = 0
  BY NewRowTyped, ParticipationAssumption DEF Init, Present
<1>4. TablesEarned
  BY <1>3 DEF Init, TablesEarned, ScoresEarned, Present
<1>5. SnapshotEarned(Rest, granted, credited)
  <2>1. /\ DOMAIN Rest = LocalFields /\ Rest.total = 0
        /\ Rest.pc = "rest"
    BY DEF Rest, Fresh, LocalFields
  <2> QED
    BY <2>1 DEF Init, SnapshotEarned, Snapshots
<1> QED
  BY <1>2, <1>4, <1>5 DEF Init, ScoreInv, SnapshotsEarned

LEMMA ScoreNext == ScoreInv /\ [Next]_vars => ScoreInv'
<1> SUFFICES ASSUME ScoreInv, [Next]_vars PROVE ScoreInv'
  OBVIOUS
<1>a. \A r \in Requests : SnapshotEarned(request[r], granted, credited)
  BY DEF ScoreInv, SnapshotsEarned
<1>b. \A p \in Present : p \in Participants /\ row[p] \in Row /\ row[p].score <= credited[p]
  BY DEF ScoreInv, Numbers, TablesEarned, ScoresEarned, Present
<1>1. ASSUME NEW r \in Requests, ReadParticipant(r) PROVE ScoreInv'
  <2> PICK p \in Present, a \in Actions \cap Kinds : Begin(r, Fresh("campaign", a, p, row[p]))
    BY <1>1 DEF ReadParticipant
  <2>1. SnapshotEarned(Fresh("campaign", a, p, row[p]), granted, credited)
    BY <1>b, FreshEarned
  <2>2. Become(r, Fresh("campaign", a, p, row[p]))
    BY DEF Begin
  <2> QED
    BY <1>1, <2>1, <2>2, OnlyMoves DEF ReadParticipant, Begin, database
<1>2. ASSUME NEW r \in Requests,
             ReadCachedCampaign(r) \/ MissCampaign(r) \/ ReadCampaign(r)
      PROVE  ScoreInv'
  <2>1. PICK label \in {"fill", "total"}, n \in {cached, total} :
          /\ n # -1
          /\ Become(r, [request[r] EXCEPT !.pc = label, !.total = n])
    BY <1>2 DEF ReadCachedCampaign, MissCampaign, ReadCampaign, ScoreInv, Numbers
  <2> DEFINE local == [request[r] EXCEPT !.pc = label, !.total = n]
  <2>2. n \in Nat /\ n <= granted
    BY <2>1 DEF ScoreInv, Numbers, TablesEarned, ScoresEarned
  <2>3. request[r].pc = "campaign"
    BY <1>2 DEF ReadCachedCampaign, MissCampaign, ReadCampaign, At
  <2>4. SnapshotEarned(local, granted, credited)
    BY <1>a, <2>2, <2>3 DEF SnapshotEarned, LocalFields, Snapshots
  <2> HIDE DEF local
  <2> QED
    BY <1>2, <2>1, <2>4, OnlyMoves
    DEF local, ReadCachedCampaign, MissCampaign, ReadCampaign, database, Quietly
<1>3. ASSUME NEW r \in Requests, FillCache(r) PROVE ScoreInv'
  <2> DEFINE local == [request[r] EXCEPT !.pc = "total"]
  <2>1. Become(r, local)
    BY <1>3 DEF FillCache, Goto
  <2>2. request[r].pc = "fill" /\ SnapshotEarned(request[r], granted, credited)
    BY <1>3, <1>a DEF FillCache, At
  <2>3. SnapshotEarned(local, granted, credited)
    BY <2>2 DEF SnapshotEarned, LocalFields, Snapshots
  <2>4. cached' = request[r].total /\ UNCHANGED <<total, row, granted, credited>>
    BY <1>3 DEF FillCache, database
  <2>5. cached' \in Nat /\ cached' <= granted
    BY <2>2, <2>4 DEF SnapshotEarned
  <2> HIDE DEF local
  <2>6. SnapshotsEarned'
    BY <2>1, <2>3, <2>4, OthersKeep DEF ScoreInv, Numbers
  <2> QED
    BY <2>4, <2>5, <2>6 DEF ScoreInv, Numbers, TablesEarned, ScoresEarned, Present
<1>4. ASSUME NEW r \in Requests, UpdateCampaign(r) PROVE ScoreInv'
  <2> DEFINE local == [request[r] EXCEPT !.pc = "score"]
  <2>1. Become(r, local)
    BY <1>4 DEF UpdateCampaign, Goto
  <2>2. request[r].pc = "total" /\ SnapshotEarned(request[r], granted, credited)
    BY <1>4, <1>a DEF UpdateCampaign, At
  <2>3. Earned(r) \in Nat
    BY <2>2, ActionPoints DEF Earned, SnapshotEarned, Snapshots
  <2>4. /\ total' = request[r].total + Earned(r) /\ granted' = granted + Earned(r)
        /\ UNCHANGED <<row, cached, credited>>
    BY <1>4 DEF UpdateCampaign
  <2>5. SnapshotEarned(local, granted, credited)
    BY <2>2 DEF SnapshotEarned, LocalFields, Snapshots
  <2> HIDE DEF local
  <2>6. granted \in Nat /\ granted' \in Nat /\ granted <= granted'
    BY <2>3, <2>4 DEF ScoreInv, Numbers
  <2>7. SnapshotEarned(local, granted', credited')
    BY <2>4, <2>5, <2>6 DEF SnapshotEarned
  <2>8. SnapshotsEarned'
    BY <2>1, <2>4, <2>6, <2>7, OthersKeep DEF ScoreInv, Numbers
  <2>9. total' \in Nat /\ total' <= granted' /\ cached' <= granted'
    BY <2>2, <2>3, <2>4, <2>6 DEF SnapshotEarned, ScoreInv, Numbers, TablesEarned
  <2> QED
    BY <2>4, <2>6, <2>8, <2>9 DEF ScoreInv, Numbers, TablesEarned, ScoresEarned, Present
<1>5. ASSUME NEW r \in Requests, UpdateParticipant(r) PROVE ScoreInv'
  <2> DEFINE l == request[r]
             p == l.p
             label == IF l.kind \in Tracked THEN "findHour" ELSE "findDay"
             local == [l EXCEPT !.pc = label]
             counts == Counted(row[p].count, l.seen.count, l.kind)
  <2>1. Become(r, local)
    BY <1>5 DEF UpdateParticipant, Goto
  <2>2. l.pc = "score" /\ p \in Present /\ SnapshotEarned(l, granted, credited)
    BY <1>5, <1>a DEF UpdateParticipant, At
  <2>3. /\ l.kind \in Actions /\ p \in Participants
        /\ l.seen \in Row /\ l.seen.score <= credited[p]
    BY <2>2 DEF SnapshotEarned, Snapshots
  <2>4. Earned(r) \in Nat
    BY <2>3, ActionPoints DEF Earned
  <2>5. row[p] \in Row
    BY <1>b, <2>2
  <2>6. counts \in [Actions -> Nat]
    BY <2>3, <2>5, CountedTyped DEF Row
  <2>7. row' = [row EXCEPT ![p].score = l.seen.score + Earned(r), ![p].count = counts]
    BY <1>5, <2>3 DEF UpdateParticipant, ScoreInv, Numbers, Row
  <2>8. row'[p] \in Row /\ row'[p].score = l.seen.score + Earned(r)
    <3> HIDE DEF counts
    <3>1. l.seen.score + Earned(r) \in Nat
      BY <2>3, <2>4 DEF Row
    <3>2. row'[p] = [row[p] EXCEPT !.score = l.seen.score + Earned(r), !.count = counts]
      BY <2>3, <2>7 DEF ScoreInv, Numbers
    <3> QED
      BY <2>5, <2>6, <3>1, <3>2 DEF Row
  <2>9. \A q \in Participants : q # p => row'[q] = row[q]
    BY <2>7 DEF ScoreInv, Numbers
  <2>10. row' \in [Participants -> Row \cup {Unused, Gone}]
    <3>1. DOMAIN row' = Participants /\ row' = [q \in DOMAIN row' |-> row'[q]]
      BY <2>7 DEF ScoreInv, Numbers
    <3> QED
      BY <2>8, <2>9, <3>1 DEF ScoreInv, Numbers
  <2>11. /\ credited' = [credited EXCEPT ![p] = @ + Earned(r)]
         /\ UNCHANGED <<total, cached, granted>>
    BY <1>5 DEF UpdateParticipant
  <2>12. /\ credited' \in [Participants -> Nat]
         /\ \A q \in Participants : credited[q] <= credited'[q]
         /\ credited'[p] = credited[p] + Earned(r)
    BY <2>3, <2>4, <2>11 DEF ScoreInv, Numbers
  <2>13. SnapshotEarned(local, granted', credited')
    <3>1. label \notin Snapshots \cup {"join"}
      BY DEF Snapshots
    <3> HIDE DEF label
    <3>2. SnapshotEarned(local, granted, credited)
      BY <2>2, <3>1, MovedOn
    <3>3. local.pc = label
      BY <2>2 DEF SnapshotEarned, LocalFields
    <3> HIDE DEF local
    <3> QED
      BY <2>11, <3>1, <3>2, <3>3 DEF SnapshotEarned
  <2> HIDE DEF local
  <2>14. SnapshotsEarned'
    <3>1. granted' \in Nat /\ granted <= granted'
      BY <2>11 DEF ScoreInv, Numbers
    <3> QED
      BY <2>1, <2>12, <2>13, <3>1, OthersKeep
  <2>15. ScoresEarned'
    <3>1. ASSUME NEW q \in Present' PROVE row'[q].score <= credited'[q]
      <4>1. CASE q = p
        BY <2>3, <2>4, <2>8, <2>12, <4>1 DEF Row, ScoreInv, Numbers
      <4>2. CASE q # p
        <5>1. q \in Present /\ row'[q] = row[q]
          BY <2>9, <4>2 DEF Present
        <5> QED
          BY <1>b, <2>12, <5>1 DEF Row, ScoreInv, Numbers
      <4> QED
        BY <4>1, <4>2
    <3> QED
      BY <2>11, <3>1 DEF ScoreInv, TablesEarned, ScoresEarned
  <2> QED
    BY <2>10, <2>11, <2>12, <2>14, <2>15 DEF ScoreInv, Numbers, TablesEarned
<1>6. ASSUME NEW r \in Requests,
             FindHour(r) \/ CreateHour(r) \/ WriteHour(r) \/ FindDay(r) \/ CreateDay(r) \/ FindPoster(r)
      PROVE  ScoreInv'
  <2>1. PICK label, i, m :
          /\ label \notin Snapshots \cup {"join"}
          /\ \/ Become(r, [request[r] EXCEPT !.pc = label])
             \/ Become(r, [request[r] EXCEPT !.pc = label, !.id = i, !.metric = m])
    BY <1>6 DEF FindHour, CreateHour, WriteHour, FindDay, CreateDay, FindPoster, Goto, Snapshots
  <2>2. UNCHANGED <<total, row, granted, credited, cached>>
    BY <1>6 DEF FindHour, CreateHour, WriteHour, FindDay, CreateDay, FindPoster, database
  <2> QED
    BY <1>a, <2>1, <2>2, MovedOn, OnlyMoves
<1>7. ASSUME NEW r \in Requests, WriteDay(r) \/ Reject(r) \/ NewSocialPost(r) PROVE ScoreInv'
  <2>1. Become(r, Rest) /\ UNCHANGED <<total, row, granted, credited, cached>>
    BY <1>7 DEF WriteDay, Reject, NewSocialPost, database
  <2> QED
    BY <2>1, RestEarned, OnlyMoves
<1>8. ASSUME NEW r \in Requests, Join(r) \/ PostContentGlobally(r) PROVE ScoreInv'
  <2> PICK u \in Users, kind \in {"join", "post"} : Begin(r, Fresh("join", kind, Unused, NewRow(u)))
    BY <1>8 DEF Join, PostContentGlobally
  <2>1. SnapshotEarned(Fresh("join", kind, Unused, NewRow(u)), granted, credited)
    BY NewRowTyped, FreshEarned DEF Snapshots
  <2>2. Become(r, Fresh("join", kind, Unused, NewRow(u)))
    BY DEF Begin
  <2>3. UNCHANGED <<total, row, granted, credited, cached>>
    BY <1>8 DEF Join, PostContentGlobally, database
  <2> QED
    BY <2>1, <2>2, <2>3, OnlyMoves
<1>9. ASSUME NEW r \in Requests, CreateParticipant(r) PROVE ScoreInv'
  <2> DEFINE Posting(p) == [request[r] EXCEPT !.pc = "participant", !.p = p]
  <2> PICK p \in Participants :
        /\ row' = [row EXCEPT ![p] = request[r].seen]
        /\ Become(r, Rest) \/ Become(r, Posting(p))
    BY <1>9 DEF CreateParticipant
  <2>1. request[r].seen \in Row /\ request[r].seen.score = 0
    BY <1>9, <1>a DEF CreateParticipant, At, SnapshotEarned
  <2>2. UNCHANGED <<total, granted, credited, cached>>
    BY <1>9 DEF CreateParticipant
  <2>3. SnapshotEarned(Posting(p), granted, credited)
    BY <1>a DEF SnapshotEarned, Snapshots, LocalFields
  <2> HIDE DEF Posting
  <2>4. SnapshotsEarned'
    BY <2>2, <2>3, RestEarned, OthersKeep DEF ScoreInv, Numbers
  <2>5. Numbers'
    BY <2>1, <2>2 DEF ScoreInv, Numbers
  <2>6. ASSUME NEW q \in Present' PROVE row'[q].score <= credited[q]
    BY <1>b, <2>1, <2>5, <2>6 DEF Present, ScoreInv, Numbers
  <2> QED
    BY <2>2, <2>4, <2>5, <2>6 DEF ScoreInv, TablesEarned, ScoresEarned
<1>10. ASSUME NEW r \in Requests, Leave(r) \/ Post(r) PROVE ScoreInv'
  <2> PICK p \in Present, kind \in {"leave", "post"} :
        Begin(r, Fresh("findHour", kind, p, row[p]))
    BY <1>10 DEF Leave, Post
  <2>1. SnapshotEarned(Fresh("findHour", kind, p, row[p]), granted, credited)
    BY FreshEarned DEF Snapshots
  <2>2. Become(r, Fresh("findHour", kind, p, row[p]))
    BY DEF Begin
  <2>3. UNCHANGED <<total, row, granted, credited, cached>>
    BY <1>10 DEF Leave, Post, database
  <2> QED
    BY <2>1, <2>2, <2>3, OnlyMoves
<1>11. ASSUME NEW r \in Requests, RemoveParticipant(r) PROVE ScoreInv'
  <2> DEFINE p == request[r].p
  <2>1. /\ row' = [row EXCEPT ![p] = Gone]
        /\ Become(r, Rest) /\ UNCHANGED <<total, granted, credited, cached>>
    BY <1>11 DEF RemoveParticipant
  <2>2. SnapshotsEarned'
    BY <2>1, RestEarned, OthersKeep DEF ScoreInv, Numbers
  <2>3. Numbers'
    BY <2>1 DEF ScoreInv, Numbers
  <2>4. ASSUME NEW q \in Present' PROVE row'[q].score <= credited[q]
    <3>1. q # p /\ q \in Present /\ row'[q] = row[q]
      BY <2>1 DEF Present, ScoreInv, Numbers
    <3> QED
      BY <1>b, <3>1
  <2> QED
    BY <2>1, <2>2, <2>3, <2>4 DEF ScoreInv, TablesEarned, ScoresEarned
<1>12. CASE CacheChanges
  <2>1. cached' \in {-1, total} /\ UNCHANGED <<total, row, granted, credited, request>>
    BY <1>12 DEF CacheChanges, database, history
  <2> QED
    BY <2>1 DEF ScoreInv, Numbers, TablesEarned, ScoresEarned, Present, SnapshotsEarned
<1>13. CASE CampaignEnds \/ Replicate \/ UNCHANGED vars
  <2>1. UNCHANGED <<total, row, granted, credited, request, cached>>
    BY <1>13 DEF CampaignEnds, Replicate, vars, database, history
  <2> QED
    BY <2>1 DEF ScoreInv, Numbers, TablesEarned, ScoresEarned, Present, SnapshotsEarned
<1> QED
  BY <1>1, <1>2, <1>3, <1>4, <1>5, <1>6, <1>7, <1>8, <1>9, <1>10, <1>11, <1>12, <1>13
  DEF Next, Step

\* No interleaving, stale cache, lagging replica or rejected call gives a campaign or
\* a participant points that were not earned.
THEOREM ScoresAreEarned == Spec => []ScoresEarned
<1>1. ScoreInv => ScoresEarned
  BY DEF ScoreInv, TablesEarned
<1> QED
  BY <1>1, ScoreInit, ScoreNext, PTL DEF Spec

-----------------------------------------------------------------------------
(* Rows of one user. *)

\* The requests that are about to create a row for u.
Joining(u) == {r \in Requests : At(r, "join") /\ request[r].seen.user = u}

\* Every row of a user beyond the first belongs to a request that found none, too.  Counted
\* with the rows still to be created it is inductive: who looks finds no row at all.
JoinInv ==
    \A u \in Users :
        /\ IsFiniteSet(RowsOf(u))
        /\ Cardinality(RowsOf(u)) + Cardinality(Joining(u)) <= Cardinality(Requests)

\* At first nobody takes part more often than requests allow.
MembersBounded ==
    \A u \in Users :
        /\ IsFiniteSet({p \in DOMAIN Members0 : Members0[p] = u})
        /\ Cardinality({p \in DOMAIN Members0 : Members0[p] = u}) <= Cardinality(Requests)

LEMMA JoiningFinite ==
  ASSUME NEW u
  PROVE  /\ IsFiniteSet(Requests) /\ Cardinality(Requests) \in Nat
         /\ IsFiniteSet(Joining(u)) /\ Cardinality(Joining(u)) \in Nat
         /\ Cardinality(Joining(u)) <= Cardinality(Requests)
<1>1. IsFiniteSet(Requests)
  BY ParticipationAssumption
<1>2. Joining(u) \subseteq Requests
  BY DEF Joining
<1> QED
  BY <1>1, <1>2, FS_Subset, FS_CardinalityType

\* A step that gives nobody a row and starts no join.
LEMMA NobodyJoins ==
  ASSUME JoinInv, \A u \in Users : RowsOf(u)' \subseteq RowsOf(u) /\ Joining(u)' \subseteq Joining(u)
  PROVE  JoinInv'
<1> SUFFICES ASSUME NEW u \in Users
             PROVE  /\ IsFiniteSet(RowsOf(u)')
                    /\ Cardinality(RowsOf(u)') + Cardinality(Joining(u)') <= Cardinality(Requests)
  BY DEF JoinInv
<1>1. /\ IsFiniteSet(RowsOf(u)) /\ Cardinality(RowsOf(u)) \in Nat
      /\ IsFiniteSet(Joining(u)) /\ Cardinality(Joining(u)) \in Nat /\ Cardinality(Requests) \in Nat
      /\ Cardinality(RowsOf(u)) + Cardinality(Joining(u)) <= Cardinality(Requests)
  BY JoiningFinite, FS_CardinalityType DEF JoinInv
<1>2. /\ IsFiniteSet(RowsOf(u)') /\ Cardinality(RowsOf(u)') <= Cardinality(RowsOf(u))
      /\ IsFiniteSet(Joining(u)') /\ Cardinality(Joining(u)') <= Cardinality(Joining(u))
  BY <1>1, FS_Subset
<1>3. Cardinality(RowsOf(u)') \in Nat /\ Cardinality(Joining(u)') \in Nat
  BY <1>2, FS_CardinalityType
<1> QED
  BY <1>1, <1>2, <1>3

\* A request goes where it joins nobody.
LEMMA OneLessJoining ==
  ASSUME ScoreInv, NEW r \in Requests, NEW local, local.pc # "join", Become(r, local)
  PROVE  \A u : Joining(u)' = Joining(u) \ {r}
<1>1. DOMAIN request = Requests
  BY DEF ScoreInv, SnapshotsEarned
<1>2. \A q \in Requests : request'[q] = IF q = r THEN local ELSE request[q]
  BY <1>1 DEF Become
<1> QED
  BY <1>2 DEF Joining, At

LEMMA SameRows ==
  ASSUME UNCHANGED row
  PROVE  \A u : RowsOf(u)' = RowsOf(u)
BY DEF RowsOf, Present

\* One who looked and found no row starts to join: nobody else's count changes, and the
\* user's is at most what is under way.
LEMMA OneMoreJoining ==
  ASSUME ScoreInv, JoinInv, NEW r \in Requests, NEW v \in Users, RowsOf(v) = {},
         NEW local, local.pc = "join", local.seen.user = v, Become(r, local), UNCHANGED row
  PROVE  JoinInv'
<1>1. DOMAIN request = Requests
  BY DEF ScoreInv, SnapshotsEarned
<1>2. \A q \in Requests : request'[q] = IF q = r THEN local ELSE request[q]
  BY <1>1 DEF Become
<1>3. ASSUME NEW u \in Users
      PROVE  /\ IsFiniteSet(RowsOf(u)')
             /\ Cardinality(RowsOf(u)') + Cardinality(Joining(u)') <= Cardinality(Requests)
  <2>1. CASE u = v
    <3>1. RowsOf(u)' = {} /\ Joining(u)' \subseteq Requests
      BY <2>1, SameRows DEF Joining
    <3>2. IsFiniteSet(Requests) /\ Cardinality(Requests) \in Nat
      BY JoiningFinite
    <3>3. IsFiniteSet(Joining(u)') /\ Cardinality(Joining(u)') <= Cardinality(Requests)
      BY <3>1, <3>2, FS_Subset
    <3>4. Cardinality(Joining(u)') \in Nat
      BY <3>3, FS_CardinalityType
    <3> QED
      BY <3>1, <3>3, <3>4, FS_EmptySet
  <2>2. CASE u # v
    <3>1. RowsOf(u)' = RowsOf(u) /\ Joining(u)' \subseteq Joining(u)
      BY <1>2, <2>2, SameRows DEF Joining, At
    <3>2. IsFiniteSet(Joining(u)) /\ IsFiniteSet(RowsOf(u))
      BY JoiningFinite DEF JoinInv
    <3>3. IsFiniteSet(Joining(u)') /\ Cardinality(Joining(u)') <= Cardinality(Joining(u))
      BY <3>1, <3>2, FS_Subset
    <3>4. /\ Cardinality(Joining(u)) \in Nat /\ Cardinality(Joining(u)') \in Nat
          /\ Cardinality(RowsOf(u)) \in Nat /\ Cardinality(Requests) \in Nat
      BY <3>2, <3>3, JoiningFinite, FS_CardinalityType
    <3>5. Cardinality(RowsOf(u)) + Cardinality(Joining(u)) <= Cardinality(Requests)
      BY DEF JoinInv
    <3> QED
      BY <3>1, <3>2, <3>3, <3>4, <3>5
  <2> QED
    BY <2>1, <2>2
<1> QED
  BY <1>3 DEF JoinInv

\* A join that is carried out becomes a row.
LEMMA OneMoreRow ==
  ASSUME ScoreInv, JoinInv, NEW r \in Requests, CreateParticipant(r)
  PROVE  JoinInv'
<1>1. PICK p \in Participants :
        /\ row[p] = Unused /\ row' = [row EXCEPT ![p] = request[r].seen]
        /\ \E local : local.pc # "join" /\ Become(r, local)
  <2>1. PICK p \in Participants :
          /\ row[p] = Unused /\ row' = [row EXCEPT ![p] = request[r].seen]
          /\ Become(r, IF request[r].kind = "join" THEN Rest
                       ELSE [request[r] EXCEPT !.pc = "participant", !.p = p])
    BY DEF CreateParticipant
  <2>2. Rest.pc # "join"
    BY DEF Rest, Fresh
  <2>3. [request[r] EXCEPT !.pc = "participant", !.p = p].pc # "join"
    BY DEF ScoreInv, SnapshotsEarned, SnapshotEarned, LocalFields
  <2> QED
    BY <2>1, <2>2, <2>3
<1>2. At(r, "join") /\ request[r].seen \in Row
  BY DEF CreateParticipant, At, ScoreInv, SnapshotsEarned, SnapshotEarned
<1>3. \A u : Joining(u)' = Joining(u) \ {r}
  BY <1>1, OneLessJoining
<1>4. DOMAIN row = Participants
  BY DEF ScoreInv, Numbers
<1>5. ASSUME NEW u \in Users PROVE RowsOf(u)' = RowsOf(u) \/ RowsOf(u)' \subseteq RowsOf(u) \cup {p}
  BY <1>1, <1>4 DEF RowsOf, Present
<1>6. ASSUME NEW u \in Users, u # request[r].seen.user PROVE RowsOf(u)' \subseteq RowsOf(u)
  BY <1>1, <1>4, <1>6 DEF RowsOf, Present
<1>7. ASSUME NEW u \in Users
      PROVE  /\ IsFiniteSet(RowsOf(u)')
             /\ Cardinality(RowsOf(u)') + Cardinality(Joining(u)') <= Cardinality(Requests)
  <2>1. /\ IsFiniteSet(RowsOf(u)) /\ Cardinality(RowsOf(u)) \in Nat
        /\ IsFiniteSet(Joining(u)) /\ Cardinality(Joining(u)) \in Nat /\ Cardinality(Requests) \in Nat
        /\ Cardinality(RowsOf(u)) + Cardinality(Joining(u)) <= Cardinality(Requests)
    BY JoiningFinite, FS_CardinalityType DEF JoinInv
  <2> DEFINE rows == RowsOf(u)
             later == RowsOf(u)'
             joins == Joining(u)
  <2>2. CASE u = request[r].seen.user
    <3>1. r \in joins
      BY <1>2, <2>2 DEF Joining
    <3>2. later \subseteq rows \cup {p}
      BY <1>5
    <3> HIDE DEF rows, later, joins
    <3>3. Cardinality(joins \ {r}) = Cardinality(joins) - 1
      BY <2>1, <3>1, FS_RemoveElement DEF joins
    <3>4. /\ IsFiniteSet(rows \cup {p})
          /\ Cardinality(rows \cup {p}) = IF p \in rows THEN Cardinality(rows) ELSE Cardinality(rows) + 1
      BY <2>1, FS_AddElement DEF rows
    <3>5. IsFiniteSet(later) /\ Cardinality(later) <= Cardinality(rows \cup {p})
      BY <3>2, <3>4, FS_Subset
    <3>6. Cardinality(later) \in Nat
      BY <3>5, FS_CardinalityType
    <3>7. Cardinality(later) + Cardinality(joins \ {r}) <= Cardinality(Requests)
      BY <2>1, <3>3, <3>4, <3>5, <3>6 DEF rows, joins
    <3> QED
      BY <1>3, <3>5, <3>7 DEF later, joins
  <2>3. CASE u # request[r].seen.user
    <3>1. later \subseteq rows /\ joins \ {r} \subseteq joins
      BY <1>6, <2>3
    <3> HIDE DEF rows, later, joins
    <3>2. /\ IsFiniteSet(later) /\ Cardinality(later) <= Cardinality(rows)
          /\ IsFiniteSet(joins \ {r}) /\ Cardinality(joins \ {r}) <= Cardinality(joins)
      BY <2>1, <3>1, FS_Subset DEF rows, joins
    <3>3. Cardinality(later) \in Nat /\ Cardinality(joins \ {r}) \in Nat
      BY <3>2, FS_CardinalityType
    <3>4. Cardinality(later) + Cardinality(joins \ {r}) <= Cardinality(Requests)
      BY <2>1, <3>2, <3>3 DEF rows, joins
    <3> QED
      BY <1>3, <3>2, <3>4 DEF later, joins
  <2> QED
    BY <2>2, <2>3
<1> QED
  BY <1>7 DEF JoinInv

LEMMA JoinInit == MembersBounded /\ Init => JoinInv
<1> SUFFICES ASSUME MembersBounded, Init, NEW u \in Users
             PROVE  /\ IsFiniteSet(RowsOf(u))
                    /\ Cardinality(RowsOf(u)) + Cardinality(Joining(u)) <= Cardinality(Requests)
  BY DEF JoinInv
<1> DEFINE members == {p \in DOMAIN Members0 : Members0[p] = u}
<1>1. RowsOf(u) \subseteq members
  BY DEF Init, RowsOf, Present, NewRow
<1>2. Joining(u) = {}
  BY DEF Init, Joining, At, Rest, Fresh
<1>3. IsFiniteSet(members) /\ Cardinality(members) <= Cardinality(Requests)
  BY DEF MembersBounded
<1> HIDE DEF members
<1>4. IsFiniteSet(RowsOf(u)) /\ Cardinality(RowsOf(u)) <= Cardinality(members)
  BY <1>1, <1>3, FS_Subset
<1>5. Cardinality(RowsOf(u)) \in Nat /\ Cardinality(members) \in Nat /\ Cardinality(Requests) \in Nat
  BY <1>3, <1>4, JoiningFinite, FS_CardinalityType
<1> QED
  BY <1>2, <1>3, <1>4, <1>5, FS_EmptySet

LEMMA JoinNext == ScoreInv /\ JoinInv /\ [Next]_vars => JoinInv'
<1> SUFFICES ASSUME ScoreInv, JoinInv, [Next]_vars PROVE JoinInv'
  OBVIOUS
<1>a. ASSUME NEW r \in Requests, NEW local, local.pc # "join", Become(r, local),
             \A u \in Users : RowsOf(u)' \subseteq RowsOf(u)
      PROVE  JoinInv'
  <2>1. \A u : Joining(u)' = Joining(u) \ {r}
    BY <1>a, OneLessJoining
  <2> QED
    BY <1>a, <2>1, NobodyJoins
<1>b. ASSUME NEW r \in Requests, NEW label, label # "join"
      PROVE  /\ [request[r] EXCEPT !.pc = label].pc # "join"
             /\ \A n : [request[r] EXCEPT !.pc = label, !.total = n].pc # "join"
             /\ \A i, m : [request[r] EXCEPT !.pc = label, !.id = i, !.metric = m].pc # "join"
  BY <1>b DEF ScoreInv, SnapshotsEarned, SnapshotEarned, LocalFields
<1>c. \A label, kind, p, seen : Fresh(label, kind, p, seen).pc = label /\ Fresh(label, kind, p, seen).seen = seen
  BY DEF Fresh
<1>1. ASSUME NEW r \in Requests, ReadParticipant(r) \/ Leave(r) \/ Post(r) PROVE JoinInv'
  <2>1. \E local : local.pc # "join" /\ Become(r, local)
    <3>1. \A label, kind, p, seen : label # "join" /\ Become(r, Fresh(label, kind, p, seen))
                                      => \E local : local.pc # "join" /\ Become(r, local)
      BY <1>c
    <3>2. "campaign" # "join" /\ "findHour" # "join"
      BY Zenon
    <3> QED
      BY <1>1, <3>1, <3>2, Zenon DEF ReadParticipant, Leave, Post, Begin
  <2>2. UNCHANGED row
    BY <1>1 DEF ReadParticipant, Leave, Post, database
  <2> QED
    BY <1>a, <2>1, <2>2, SameRows
<1>2. ASSUME NEW r \in Requests,
             \/ ReadCachedCampaign(r) \/ MissCampaign(r) \/ FillCache(r) \/ ReadCampaign(r)
             \/ UpdateCampaign(r) \/ FindHour(r) \/ CreateHour(r) \/ WriteHour(r)
             \/ FindDay(r) \/ CreateDay(r) \/ FindPoster(r)
      PROVE  JoinInv'
  <2>1. UNCHANGED row
    BY <1>2 DEF ReadCachedCampaign, MissCampaign, FillCache, ReadCampaign, UpdateCampaign, FindHour,
                CreateHour, WriteHour, FindDay, CreateDay, FindPoster, database
  <2>2. \E label : /\ label # "join"
                   /\ \/ Become(r, [request[r] EXCEPT !.pc = label])
                      \/ \E n : Become(r, [request[r] EXCEPT !.pc = label, !.total = n])
                      \/ \E i, m : Become(r, [request[r] EXCEPT !.pc = label, !.id = i, !.metric = m])
    <3>1. CASE ReadCachedCampaign(r) \/ MissCampaign(r) \/ ReadCampaign(r)
      BY <3>1 DEF ReadCachedCampaign, MissCampaign, ReadCampaign
    <3>2. CASE FillCache(r) \/ UpdateCampaign(r) \/ FindPoster(r) \/ WriteHour(r)
      BY <3>2 DEF FillCache, UpdateCampaign, FindPoster, WriteHour, Goto
    <3>3. CASE FindHour(r) \/ CreateHour(r)
      BY <3>3 DEF FindHour, CreateHour, Goto
    <3>4. CASE FindDay(r) \/ CreateDay(r)
      BY <3>4 DEF FindDay, CreateDay, Goto
    <3> QED
      BY <1>2, <3>1, <3>2, <3>3, <3>4
  <2>3. \E local : local.pc # "join" /\ Become(r, local)
    BY <1>b, <2>2
  <2> QED
    BY <1>a, <2>1, <2>3, SameRows
<1>3. ASSUME NEW r \in Requests, UpdateParticipant(r) PROVE JoinInv'
  <2> DEFINE p == request[r].p
             label == IF request[r].kind \in Tracked THEN "findHour" ELSE "findDay"
  <2>1. p \in Present /\ Become(r, [request[r] EXCEPT !.pc = label])
    BY <1>3 DEF UpdateParticipant, Goto
  <2>2. \E s, c : row' = [row EXCEPT ![p].score = s, ![p].count = c]
    BY <1>3 DEF UpdateParticipant
  <2>3. p \in Participants /\ row[p] \in Row /\ DOMAIN row = Participants
    BY <2>1 DEF Present, ScoreInv, Numbers
  <2>4. \A u \in Users : RowsOf(u)' \subseteq RowsOf(u)
    <3>1. row'[p].user = row[p].user /\ \A q \in Participants : q # p => row'[q] = row[q]
      BY <2>2, <2>3 DEF Row
    <3> QED
      BY <2>1, <3>1 DEF RowsOf, Present
  <2>5. [request[r] EXCEPT !.pc = label].pc # "join"
    BY <1>b
  <2> QED
    BY <1>a, <2>1, <2>4, <2>5
<1>4. ASSUME NEW r \in Requests, WriteDay(r) \/ NewSocialPost(r) \/ Reject(r) PROVE JoinInv'
  <2>1. Become(r, Rest) /\ UNCHANGED row
    BY <1>4 DEF WriteDay, NewSocialPost, Reject, database
  <2> QED
    BY <1>a, <1>c, <2>1, SameRows DEF Rest
<1>5. ASSUME NEW r \in Requests, Join(r) \/ PostContentGlobally(r) PROVE JoinInv'
  <2>1. PICK u \in Users, kind \in {"join", "post"} :
          RowsOf(u) = {} /\ Begin(r, Fresh("join", kind, Unused, NewRow(u)))
    BY <1>5 DEF Join, PostContentGlobally
  <2> DEFINE local == Fresh("join", kind, Unused, NewRow(u))
  <2>2. local.pc = "join" /\ local.seen.user = u
    BY <1>c DEF NewRow
  <2>3. Become(r, local) /\ UNCHANGED row
    BY <1>5, <2>1 DEF Join, PostContentGlobally, Begin, database
  <2> HIDE DEF local
  <2> QED
    BY <2>1, <2>2, <2>3, OneMoreJoining
<1>6. ASSUME NEW r \in Requests, CreateParticipant(r) PROVE JoinInv'
  BY <1>6, OneMoreRow
<1>7. ASSUME NEW r \in Requests, RemoveParticipant(r) PROVE JoinInv'
  <2> DEFINE p == request[r].p
  <2>1. row' = [row EXCEPT ![p] = Gone] /\ Become(r, Rest)
    BY <1>7 DEF RemoveParticipant
  <2>2. \A u \in Users : RowsOf(u)' \subseteq RowsOf(u)
    BY <2>1 DEF RowsOf, Present, ScoreInv, Numbers
  <2> QED
    BY <1>a, <1>c, <2>1, <2>2 DEF Rest
<1>8. CASE CacheChanges \/ CampaignEnds \/ Replicate \/ UNCHANGED vars
  <2>1. UNCHANGED <<row, request>>
    BY <1>8 DEF CacheChanges, CampaignEnds, Replicate, vars, database
  <2> QED
    BY <2>1, SameRows, NobodyJoins DEF Joining, At
<1> QED
  BY <1>1, <1>2, <1>3, <1>4, <1>5, <1>6, <1>7, <1>8 DEF Next, Step

\* Although nothing in the database keeps a user from taking part twice, a user gets no
\* more rows than requests can be under way: a row is created only by a request that saw
\* none (UserController.participate, SocialController.postContentGlobally).
THEOREM JoinsAreBounded == MembersBounded /\ Spec => []JoinsBounded
<1>1. ScoreInv /\ JoinInv => JoinsBounded
  <2> SUFFICES ASSUME JoinInv, NEW u \in Users
               PROVE  Cardinality(RowsOf(u)) <= Cardinality(Requests)
    BY DEF JoinsBounded
  <2>1. IsFiniteSet(RowsOf(u)) /\ Cardinality(RowsOf(u)) \in Nat
    BY FS_CardinalityType DEF JoinInv
  <2>2. Cardinality(Joining(u)) \in Nat /\ Cardinality(Requests) \in Nat
    BY JoiningFinite
  <2>3. Cardinality(RowsOf(u)) + Cardinality(Joining(u)) <= Cardinality(Requests)
    BY DEF JoinInv
  <2> QED
    BY <2>1, <2>2, <2>3
<1>2. MembersBounded /\ Spec => []JoinInv
  BY ScoreInit, ScoreNext, JoinInit, JoinNext, PTL DEF Spec
<1>3. Spec => []ScoreInv
  BY ScoreInit, ScoreNext, PTL DEF Spec
<1> QED
  BY <1>1, <1>2, <1>3, PTL

-----------------------------------------------------------------------------
(* Where requests go. *)

\* Request r goes to a label as it is, or begins there anew.
To(r, label) ==
    /\ Become(r, request'[r])
    /\ request'[r].pc = label /\ request'[r].kind = request[r].kind
    /\ request'[r].p = request[r].p /\ request'[r].seen = request[r].seen
Anew(r, label, kind, p, seen) ==
    /\ Become(r, request'[r])
    /\ request'[r].pc = label /\ request'[r].kind = kind
    /\ request'[r].p = p /\ request'[r].seen = seen

LEMMA Edits ==
  ASSUME ScoreInv, NEW r \in Requests
  PROVE  /\ \A label : Goto(r, label) =>
                To(r, label) /\ request'[r].total = request[r].total
         /\ \A label, n : Become(r, [request[r] EXCEPT !.pc = label, !.total = n]) =>
                To(r, label) /\ request'[r].total = n
         /\ \A label, i, m : Become(r, [request[r] EXCEPT !.pc = label, !.id = i, !.metric = m]) =>
                To(r, label) /\ request'[r].id = i /\ request'[r].metric = m
         /\ \A p : Become(r, [request[r] EXCEPT !.pc = "participant", !.p = p]) =>
                Anew(r, "participant", request[r].kind, p, request[r].seen)
         /\ \A label, kind, p, seen : Become(r, Fresh(label, kind, p, seen)) =>
                Anew(r, label, kind, p, seen)
         /\ Become(r, Rest) => Anew(r, "rest", "none", Unused, Unused)
<1>1. DOMAIN request = Requests /\ DOMAIN request[r] = LocalFields
  BY DEF ScoreInv, SnapshotsEarned, SnapshotEarned
<1>2. ASSUME NEW local, Become(r, local) PROVE request'[r] = local /\ Become(r, request'[r])
  BY <1>1, <1>2 DEF Become
<1>3. ASSUME NEW label, Goto(r, label) PROVE To(r, label) /\ request'[r].total = request[r].total
  <2> DEFINE local == [request[r] EXCEPT !.pc = label]
  <2>1. request'[r] = local /\ Become(r, request'[r])
    BY <1>2, <1>3 DEF Goto
  <2>2. /\ local.pc = label /\ local.kind = request[r].kind /\ local.p = request[r].p
        /\ local.seen = request[r].seen /\ local.total = request[r].total
    BY <1>1 DEF LocalFields
  <2> HIDE DEF local
  <2> QED
    BY <2>1, <2>2 DEF To, Anew
<1>4. ASSUME NEW label, NEW n, Become(r, [request[r] EXCEPT !.pc = label, !.total = n]) PROVE To(r, label) /\ request'[r].total = n
  <2> DEFINE local == [request[r] EXCEPT !.pc = label, !.total = n]
  <2>1. request'[r] = local /\ Become(r, request'[r])
    BY <1>2, <1>4 DEF Goto
  <2>2. /\ local.pc = label /\ local.kind = request[r].kind /\ local.p = request[r].p
        /\ local.seen = request[r].seen /\ local.total = n
    BY <1>1 DEF LocalFields
  <2> HIDE DEF local
  <2> QED
    BY <2>1, <2>2 DEF To, Anew
<1>5. ASSUME NEW label, NEW i, NEW m, Become(r, [request[r] EXCEPT !.pc = label, !.id = i, !.metric = m]) PROVE To(r, label) /\ request'[r].id = i /\ request'[r].metric = m
  <2> DEFINE local == [request[r] EXCEPT !.pc = label, !.id = i, !.metric = m]
  <2>1. request'[r] = local /\ Become(r, request'[r])
    BY <1>2, <1>5 DEF Goto
  <2>2. /\ local.pc = label /\ local.kind = request[r].kind /\ local.p = request[r].p
        /\ local.seen = request[r].seen /\ local.id = i /\ local.metric = m
    BY <1>1 DEF LocalFields
  <2> HIDE DEF local
  <2> QED
    BY <2>1, <2>2 DEF To, Anew
<1>6. ASSUME NEW p, Become(r, [request[r] EXCEPT !.pc = "participant", !.p = p]) PROVE Anew(r, "participant", request[r].kind, p, request[r].seen)
  <2> DEFINE local == [request[r] EXCEPT !.pc = "participant", !.p = p]
  <2>1. request'[r] = local /\ Become(r, request'[r])
    BY <1>2, <1>6 DEF Goto
  <2>2. /\ local.pc = "participant" /\ local.kind = request[r].kind /\ local.p = p
        /\ local.seen = request[r].seen
    BY <1>1 DEF LocalFields
  <2> HIDE DEF local
  <2> QED
    BY <2>1, <2>2 DEF To, Anew
<1>7. \A label, kind, p, seen : Become(r, Fresh(label, kind, p, seen)) => Anew(r, label, kind, p, seen)
  BY <1>2 DEF Anew, Fresh
<1> QED
  BY <1>3, <1>4, <1>5, <1>6, <1>7 DEF Rest

-----------------------------------------------------------------------------
(* Rows of the days. *)

HourSteps == {"findHour", "createHour", "writeHour"}
DaySteps == {"findDay", "createDay", "writeDay"}

\* What a request does at each place, and to whom.
Placed(l) ==
    /\ l.pc \in HourSteps => l.p \in Participants /\ l.kind \in Tracked \cup {"leave", "post"}
    /\ l.pc \in DaySteps => l.p \in Participants /\ l.kind \in Actions
    /\ l.pc = "savePost" => l.p \in Participants /\ l.kind = "post"
    /\ l.pc = "participant" => l.p \in Participants /\ l.kind = "post"
    /\ l.pc = "join" => l.kind \in {"join", "post"}

\* A row of a day whose points are those of the actions it counts.
DayRow == {d \in [score : Nat, count : [Actions -> Nat]] : d.score = Worth(d.count)}

\* The row a request is about to write back is one of them, though maybe an old one.
Reads(l, days) ==
    l.pc = "writeDay" => l.id \in DOMAIN days[l.p] /\ l.metric \in DayRow

\* The rows of the days, what the replica has of them and what requests hold of them.
RowsInv ==
    /\ daily \in [Participants -> Seq(DayRow)]
    /\ replica.daily \in [Participants -> Seq(DayRow)]
    /\ \A p \in Participants : Len(replica.daily[p]) <= Len(daily[p])
    /\ \A r \in Requests : Placed(request[r]) /\ Reads(request[r], daily)

LEMMA RestPlaced ==
  ASSUME NEW l, NEW days, l.pc \notin HourSteps \cup DaySteps \cup {"savePost", "participant", "join"}
  PROVE  Placed(l) /\ Reads(l, days)
BY DEF Placed, Reads, HourSteps, DaySteps

\* The other requests keep their rows, as rows are only added.
LEMMA RowsKept ==
  ASSUME ScoreInv, RowsInv, NEW r \in Requests, Become(r, request'[r]),
         daily' \in [Participants -> Seq(DayRow)], UNCHANGED replica,
         \A p \in Participants : Len(daily[p]) <= Len(daily'[p]),
         Placed(request'[r]), Reads(request'[r], daily')
  PROVE  RowsInv'
<1>1. ASSUME NEW p \in Participants PROVE Len(replica'.daily[p]) <= Len(daily'[p])
  <2>1. Len(replica.daily[p]) <= Len(daily[p]) /\ Len(daily[p]) <= Len(daily'[p])
    BY DEF RowsInv
  <2>2. Len(replica.daily[p]) \in Nat /\ Len(daily[p]) \in Nat /\ Len(daily'[p]) \in Nat
    BY LenProperties DEF RowsInv
  <2> QED
    BY <2>1, <2>2
<1>2. ASSUME NEW q \in Requests PROVE Placed(request'[q]) /\ Reads(request'[q], daily')
  <2>1. CASE q # r
    <3>1. request'[q] = request[q]
      BY <2>1 DEF ScoreInv, SnapshotsEarned, Become
    <3>2. Placed(request[q]) /\ Reads(request[q], daily)
      BY DEF RowsInv
    <3>3. ASSUME request[q].pc = "writeDay" PROVE request[q].id \in DOMAIN daily'[request[q].p]
      <4> DEFINE p == request[q].p
      <4>1. p \in Participants
        BY <3>2, <3>3 DEF Placed, DaySteps
      <4>2. daily[p] \in Seq(DayRow) /\ daily'[p] \in Seq(DayRow)
        BY <4>1 DEF RowsInv
      <4>3. DOMAIN daily[p] = 1..Len(daily[p]) /\ DOMAIN daily'[p] = 1..Len(daily'[p])
            /\ Len(daily[p]) \in Nat /\ Len(daily'[p]) \in Nat
        BY <4>2, LenProperties
      <4> QED
        BY <3>2, <3>3, <4>1, <4>3 DEF Reads
    <3> QED
      BY <3>1, <3>2, <3>3 DEF Reads
  <2> QED
    BY <2>1
<1>3. replica'.daily \in [Participants -> Seq(DayRow)]
  BY DEF RowsInv
<1> QED
  BY <1>1, <1>2, <1>3 DEF RowsInv

\* A step that writes no row of a day and goes where none is held.
LEMMA RowsAlone ==
  ASSUME ScoreInv, RowsInv, NEW r \in Requests, Become(r, request'[r]), UNCHANGED <<daily, replica>>,
         Placed(request'[r]), request'[r].pc # "writeDay"
  PROVE  RowsInv'
<1>1. daily' \in [Participants -> Seq(DayRow)]
  BY DEF RowsInv
<1>2. \A p \in Participants : Len(daily[p]) <= Len(daily'[p])
  BY LenProperties DEF RowsInv
<1>3. Reads(request'[r], daily')
  BY DEF Reads
<1> QED
  BY <1>1, <1>2, <1>3, RowsKept

LEMMA ActionsFinite == IsFiniteSet(Actions)
<1>1. IsFiniteSet(Tracked) /\ IsFiniteSet({"clicks"})
  <2>1. IsFiniteSet({"views"})
    BY FS_Singleton
  <2>2. IsFiniteSet({"views"} \cup {"submissions"})
    BY <2>1, FS_AddElement
  <2>3. Tracked = {"views"} \cup {"submissions"}
    BY DEF Tracked
  <2> QED
    BY <2>2, <2>3, FS_Singleton
<1> QED
  BY <1>1, FS_Union DEF Actions

\* What a row counts is worth one action more when one is counted.
LEMMA WorthOfOneMore ==
  ASSUME NEW count \in [Actions -> Nat], NEW a \in Actions
  PROVE  /\ [count EXCEPT ![a] = @ + 1] \in [Actions -> Nat]
         /\ Worth(count) \in Nat
         /\ Worth([count EXCEPT ![a] = @ + 1]) = Worth(count) + Points[a]
<1> DEFINE more == [count EXCEPT ![a] = @ + 1]
           v == [b \in Actions |-> Points[b] * more[b]]
           w == [b \in Actions |-> Points[b] * count[b]]
<1>1. IsFiniteSet(Actions)
  BY ActionsFinite
<1>2. more \in [Actions -> Nat] /\ more[a] = count[a] + 1 /\ \A b \in Actions \ {a} : more[b] = count[b]
  OBVIOUS
<1>3. \A m, n \in Nat : m * n \in Nat /\ m * (n + 1) = m * n + m
  OBVIOUS
<1> HIDE DEF more
<1>4. \A b \in Actions : v[b] \in Nat /\ w[b] \in Nat
  BY <1>2, <1>3, ActionPoints
<1>5. v[a] = w[a] + Points[a] /\ \A b \in Actions \ {a} : v[b] = w[b]
  BY <1>2, <1>3, ActionPoints
<1>6. Worth(more) = SumOver(v, Actions) /\ Worth(count) = SumOver(w, Actions)
  BY Zenon DEF Worth, SumOf, SumOver
<1> HIDE DEF v, w
<1>7. SumOver(v, Actions) = SumOver(w, Actions) + v[a] - w[a]
  <2>1. \A b \in Actions : v[b] \in Int /\ w[b] \in Int
    BY <1>4
  <2> QED
    BY <1>1, <1>5, <2>1, SumChange
<1>8. SumOver(w, Actions) \in Nat
  BY <1>1, <1>4, SumNat
<1> QED
  BY <1>2, <1>4, <1>5, <1>6, <1>7, <1>8, ActionPoints DEF more

LEMMA NewDayRow == NewDay \in DayRow /\ NewDay.score = 0 /\ \A a \in Actions : NewDay.count[a] = 0
<1> DEFINE w == [b \in Actions |-> Points[b] * NoCounts[b]]
<1>1. NoCounts \in [Actions -> Nat] /\ \A b \in Actions : NoCounts[b] = 0
  BY DEF NoCounts
<1>2. IsFiniteSet(Actions)
  BY ActionsFinite
<1>3. \A b \in Actions : w[b] = 0
  BY <1>1, ActionPoints
<1>4. Worth(NoCounts) = SumOver(w, Actions)
  BY Zenon DEF Worth, SumOf, SumOver
<1> HIDE DEF w
<1>5. Worth(NoCounts) = 0
  BY <1>2, <1>3, <1>4, SumZero
<1> QED
  BY <1>1, <1>5 DEF NewDay, DayRow

\* The steps on rows of days: one is found, one is added, one is written.
LEMMA FindsDay ==
  ASSUME ScoreInv, RowsInv, NEW r \in Requests, FindDay(r)
  PROVE  /\ request[r].pc = "findDay" /\ request[r].p \in Participants /\ request[r].kind \in Actions
         /\ \/ To(r, "createDay")
            \/ /\ To(r, "writeDay")
               /\ request'[r].id \in 1..Len(daily[request[r].p])
               /\ \E days \in {daily[request[r].p], replica.daily[request[r].p]} :
                     /\ days \in Seq(DayRow) /\ request'[r].id \in 1..Len(days)
                     /\ request'[r].metric = days[request'[r].id] /\ request'[r].metric \in DayRow
                     /\ (SeenMetrics = Metrics => days = daily[request[r].p])
<1> DEFINE p == request[r].p
           days == SeenMetrics.daily[p]
<1>1. request[r].pc = "findDay" /\ p \in Participants /\ request[r].kind \in Actions
  BY DEF FindDay, At, RowsInv, Placed, DaySteps
<1>2. /\ days \in {daily[p], replica.daily[p]}
      /\ SeenMetrics = Metrics => days = daily[p]
  BY DEF SeenMetrics, Metrics
<1>3. days \in Seq(DayRow) /\ Len(days) <= Len(daily[p])
  <2>1. daily[p] \in Seq(DayRow) /\ replica.daily[p] \in Seq(DayRow)
    BY <1>1 DEF RowsInv
  <2>2. Len(daily[p]) \in Nat /\ Len(replica.daily[p]) <= Len(daily[p])
    BY <1>1, <2>1, LenProperties DEF RowsInv
  <2> HIDE DEF days
  <2> QED
    BY <1>2, <2>1, <2>2
<1>4. /\ DOMAIN days = 1..Len(days) /\ Len(days) \in Nat /\ Len(daily[p]) \in Nat
      /\ \A i \in DOMAIN days : days[i] \in DayRow
  <2>1. daily[p] \in Seq(DayRow)
    BY <1>1 DEF RowsInv
  <2>2. Len(daily[p]) \in Nat
    BY <2>1, LenProperties
  <2> HIDE DEF days
  <2>3. days \in [1..Len(days) -> DayRow] /\ Len(days) \in Nat
    BY <1>3, LenProperties
  <2> QED
    BY <2>2, <2>3
<1>5. \/ Goto(r, "createDay")
      \/ \E i \in DOMAIN days :
            Become(r, [request[r] EXCEPT !.pc = "writeDay", !.id = i, !.metric = days[i]])
  BY DEF FindDay
<1> HIDE DEF days
<1>6. \/ To(r, "createDay")
      \/ \E i \in DOMAIN days : To(r, "writeDay") /\ request'[r].id = i /\ request'[r].metric = days[i]
  BY <1>5, Edits
<1>7. ASSUME NEW i \in DOMAIN days PROVE i \in 1..Len(days) /\ i \in 1..Len(daily[p]) /\ days[i] \in DayRow
  BY <1>3, <1>4
<1> QED
  BY <1>1, <1>2, <1>3, <1>6, <1>7

LEMMA CreatesDay ==
  ASSUME ScoreInv, RowsInv, NEW r \in Requests, CreateDay(r)
  PROVE  LET p == request[r].p
         IN  /\ request[r].pc = "createDay" /\ p \in Participants /\ request[r].kind \in Actions
             /\ To(r, "writeDay")
             /\ request'[r].id = Len(daily[p]) + 1 /\ request'[r].metric = NewDay
             /\ daily' = [daily EXCEPT ![p] = Append(daily[p], NewDay)]
             /\ daily[p] \in Seq(DayRow)
<1>1. request[r].pc = "createDay" /\ request[r].p \in Participants /\ request[r].kind \in Actions
  BY DEF CreateDay, At, RowsInv, Placed, DaySteps
<1>2. Become(r, [request[r] EXCEPT !.pc = "writeDay", !.id = Len(daily[request[r].p]) + 1, !.metric = NewDay])
  BY DEF CreateDay
<1>3. daily' = [daily EXCEPT ![request[r].p] = Append(daily[request[r].p], NewDay)]
  BY DEF CreateDay
<1>4. daily[request[r].p] \in Seq(DayRow)
  BY <1>1 DEF RowsInv
<1> DEFINE n == Len(daily[request[r].p]) + 1
<1>5. To(r, "writeDay") /\ request'[r].id = n /\ request'[r].metric = NewDay
  <2>1. Become(r, [request[r] EXCEPT !.pc = "writeDay", !.id = n, !.metric = NewDay])
    BY <1>2
  <2> HIDE DEF n
  <2>2. \A label, i, m : Become(r, [request[r] EXCEPT !.pc = label, !.id = i, !.metric = m]) =>
           To(r, label) /\ request'[r].id = i /\ request'[r].metric = m
    BY Edits
  <2> QED
    BY <2>1, <2>2, Zenon
<1> QED
  BY <1>1, <1>3, <1>4, <1>5

LEMMA WritesDay ==
  ASSUME ScoreInv, RowsInv, NEW r \in Requests, WriteDay(r)
  PROVE  LET l == request[r]
         IN  /\ l.pc = "writeDay" /\ l.p \in Participants /\ l.kind \in Actions
             /\ daily[l.p] \in Seq(DayRow) /\ l.id \in 1..Len(daily[l.p]) /\ l.metric \in DayRow
             /\ Anew(r, "rest", "none", Unused, Unused)
             /\ \E d \in DayRow :
                   /\ d.score = l.metric.score + Points[l.kind]
                   /\ d.count = [l.metric.count EXCEPT ![l.kind] = @ + 1]
                   /\ daily' = [daily EXCEPT ![l.p] = [daily[l.p] EXCEPT ![l.id] = d]]
<1> DEFINE l == request[r]
           more == [l.metric.count EXCEPT ![l.kind] = @ + 1]
           d == [score |-> l.metric.score + Points[l.kind], count |-> more]
<1>1. l.pc = "writeDay" /\ l.p \in Participants /\ l.kind \in Actions
  BY DEF WriteDay, At, RowsInv, Placed, DaySteps
<1>2. daily[l.p] \in Seq(DayRow) /\ l.metric \in DayRow
  BY <1>1 DEF RowsInv, Reads
<1>3. l.id \in 1..Len(daily[l.p])
  <2>1. l.id \in DOMAIN daily[l.p]
    BY <1>1 DEF RowsInv, Reads
  <2> QED
    BY <1>2, <2>1, LenProperties
<1>4. Anew(r, "rest", "none", Unused, Unused)
  BY Edits DEF WriteDay
<1>5. daily' = [daily EXCEPT ![l.p] = [daily[l.p] EXCEPT ![l.id] = d]]
  BY DEF WriteDay, Earned
<1>6. d \in DayRow
  <2>1. l.metric.count \in [Actions -> Nat] /\ l.metric.score = Worth(l.metric.count)
    BY <1>2 DEF DayRow
  <2>2. more \in [Actions -> Nat] /\ Worth(more) = l.metric.score + Points[l.kind] /\ l.metric.score \in Nat
    BY <1>1, <2>1, WorthOfOneMore
  <2> HIDE DEF more
  <2>3. Points[l.kind] \in Nat
    BY <1>1, ActionPoints
  <2> QED
    BY <2>2, <2>3 DEF DayRow
<1>7. d.score = l.metric.score + Points[l.kind] /\ d.count = more
  OBVIOUS
<1> HIDE DEF d
<1>8. \E e \in DayRow :
        /\ e.score = l.metric.score + Points[l.kind]
        /\ e.count = more
        /\ daily' = [daily EXCEPT ![l.p] = [daily[l.p] EXCEPT ![l.id] = e]]
  BY <1>5, <1>6, <1>7
<1> QED
  BY <1>1, <1>2, <1>3, <1>4, <1>8

LEMMA RowsInit == Init => RowsInv
<1> SUFFICES ASSUME Init PROVE RowsInv
  OBVIOUS
<1>1. \A p \in Participants : daily[p] = << >> /\ replica.daily[p] = << >>
  BY DEF Init, Metrics
<1>2. daily \in [Participants -> Seq(DayRow)] /\ replica.daily \in [Participants -> Seq(DayRow)]
  <2>1. << >> \in Seq(DayRow)
    BY EmptySeq
  <2> QED
    BY <2>1 DEF Init, Metrics
<1>3. \A p \in Participants : Len(replica.daily[p]) <= Len(daily[p])
  <2>1. Len(<< >>) <= Len(<< >>)
    OBVIOUS
  <2> QED
    BY <1>1, <2>1
<1>4. ASSUME NEW r \in Requests PROVE Placed(request[r]) /\ Reads(request[r], daily)
  <2>1. request[r].pc = "rest"
    BY DEF Init, Rest, Fresh
  <2> QED
    BY <2>1, RestPlaced DEF HourSteps, DaySteps
<1> QED
  BY <1>2, <1>3, <1>4 DEF RowsInv

LEMMA RowsNext == ScoreInv /\ RowsInv /\ [Next]_vars => RowsInv'
<1> SUFFICES ASSUME ScoreInv, RowsInv, [Next]_vars PROVE RowsInv'
  OBVIOUS
<1>a. ASSUME NEW r \in Requests
      PROVE  SnapshotEarned(request[r], granted, credited) /\ Placed(request[r])
  BY DEF ScoreInv, SnapshotsEarned, RowsInv
<1>b. Tracked \subseteq Actions
  BY DEF Actions
<1>1. ASSUME NEW r \in Requests, ReadParticipant(r) PROVE RowsInv'
  <2>1. PICK p, a : Begin(r, Fresh("campaign", a, p, row[p]))
    BY <1>1 DEF ReadParticipant
  <2>2. Anew(r, "campaign", a, p, row[p])
    BY <2>1, Edits DEF Begin
  <2>3. Placed(request'[r]) /\ request'[r].pc # "writeDay"
    BY <2>2, RestPlaced DEF Anew, HourSteps, DaySteps
  <2> QED
    BY <1>1, <2>2, <2>3, RowsAlone DEF ReadParticipant, database, Anew
<1>2. ASSUME NEW r \in Requests, ReadCachedCampaign(r) \/ MissCampaign(r) \/ ReadCampaign(r) \/ FillCache(r)
      PROVE  RowsInv'
  <2>1. PICK label \in {"total", "fill"} : To(r, label)
    <3>1. \E label \in {"total", "fill"} :
             \/ Goto(r, label)
             \/ \E n : Become(r, [request[r] EXCEPT !.pc = label, !.total = n])
      BY <1>2 DEF ReadCachedCampaign, MissCampaign, ReadCampaign, FillCache
    <3> QED
      BY <3>1, Edits
  <2>2. Placed(request'[r]) /\ request'[r].pc # "writeDay"
    BY <2>1, RestPlaced DEF To, HourSteps, DaySteps
  <2>3. UNCHANGED <<daily, replica>>
    BY <1>2 DEF ReadCachedCampaign, MissCampaign, ReadCampaign, FillCache, database
  <2> QED
    BY <2>1, <2>2, <2>3, RowsAlone DEF To
<1>3. ASSUME NEW r \in Requests, UpdateCampaign(r) PROVE RowsInv'
  <2>1. To(r, "score")
    BY <1>3, Edits DEF UpdateCampaign
  <2>2. Placed(request'[r]) /\ request'[r].pc # "writeDay"
    BY <2>1, RestPlaced DEF To, HourSteps, DaySteps
  <2> QED
    BY <1>3, <2>1, <2>2, RowsAlone DEF To, UpdateCampaign
<1>4. ASSUME NEW r \in Requests, UpdateParticipant(r) PROVE RowsInv'
  <2>1. request[r].p \in Participants /\ request[r].kind \in Actions
    BY <1>4, <1>a DEF UpdateParticipant, At, SnapshotEarned, Snapshots
  <2>2. To(r, IF request[r].kind \in Tracked THEN "findHour" ELSE "findDay")
    BY <1>4, Edits DEF UpdateParticipant
  <2>3. Placed(request'[r]) /\ request'[r].pc # "writeDay"
    BY <2>1, <2>2 DEF To, Placed, HourSteps, DaySteps
  <2> QED
    BY <1>4, <2>2, <2>3, RowsAlone DEF To, UpdateParticipant
<1>5. ASSUME NEW r \in Requests, FindHour(r) \/ CreateHour(r) PROVE RowsInv'
  <2>1. request[r].pc \in HourSteps
    BY <1>5 DEF FindHour, CreateHour, At, HourSteps
  <2>2. PICK label \in {"createHour", "writeHour"} : To(r, label)
    <3>1. CASE FindHour(r)
      BY <3>1, Edits DEF FindHour
    <3>2. CASE CreateHour(r)
      <4>1. \E i, m : Become(r, [request[r] EXCEPT !.pc = "writeHour", !.id = i, !.metric = m])
        BY <3>2 DEF CreateHour
      <4> QED
        BY <4>1, Edits
    <3> QED
      BY <1>5, <3>1, <3>2
  <2>3. Placed(request'[r]) /\ request'[r].pc # "writeDay"
    BY <1>a, <2>1, <2>2 DEF To, Placed, HourSteps, DaySteps
  <2>4. UNCHANGED <<daily, replica>>
    BY <1>5 DEF FindHour, CreateHour, database
  <2> QED
    BY <2>2, <2>3, <2>4, RowsAlone DEF To
<1>6. ASSUME NEW r \in Requests, WriteHour(r) PROVE RowsInv'
  <2>1. request[r].p \in Participants /\ request[r].kind \in Tracked \cup {"leave", "post"}
    BY <1>6, <1>a DEF WriteHour, At, Placed, HourSteps
  <2>2. To(r, CASE request[r].kind = "leave" -> "delete"
                [] request[r].kind = "post" -> "savePost"
                [] OTHER -> "findDay")
    BY <1>6, Edits DEF WriteHour
  <2>3. \/ request[r].kind = "leave" /\ To(r, "delete")
        \/ request[r].kind = "post" /\ To(r, "savePost")
        \/ request[r].kind \in Tracked /\ To(r, "findDay")
    BY <2>1, <2>2 DEF Tracked
  <2>4. Placed(request'[r]) /\ request'[r].pc # "writeDay"
    BY <1>b, <2>1, <2>3 DEF To, Placed, HourSteps, DaySteps
  <2> QED
    BY <1>6, <2>3, <2>4, RowsAlone DEF To, WriteHour
<1>7. ASSUME NEW r \in Requests, FindDay(r) PROVE RowsInv'
  <2> DEFINE p == request[r].p
  <2>1. p \in Participants /\ request[r].kind \in Actions
    BY <1>7, FindsDay
  <2>2. daily[p] \in Seq(DayRow)
    BY <2>1 DEF RowsInv
  <2>3. /\ To(r, "createDay") \/ To(r, "writeDay")
        /\ request'[r].pc = "writeDay" =>
              request'[r].id \in 1..Len(daily[p]) /\ request'[r].metric \in DayRow
    BY <1>7, FindsDay DEF To
  <2>4. Placed(request'[r])
    BY <2>1, <2>3 DEF To, Placed, HourSteps, DaySteps
  <2>5. UNCHANGED <<daily, replica>>
    BY <1>7 DEF FindDay, database
  <2>6. Reads(request'[r], daily')
    <3>1. DOMAIN daily[p] = 1..Len(daily[p])
      BY <2>2, LenProperties
    <3> QED
      BY <2>3, <2>5, <3>1 DEF Reads, To
  <2>7. daily' \in [Participants -> Seq(DayRow)] /\ \A q \in Participants : Len(daily[q]) <= Len(daily'[q])
    BY <2>5, LenProperties DEF RowsInv
  <2> QED
    BY <2>3, <2>4, <2>5, <2>6, <2>7, RowsKept DEF To
<1>8. ASSUME NEW r \in Requests, CreateDay(r) PROVE RowsInv'
  <2> DEFINE p == request[r].p
             days == Append(daily[p], NewDay)
  <2>1. /\ p \in Participants /\ request[r].kind \in Actions /\ To(r, "writeDay")
        /\ request'[r].id = Len(daily[p]) + 1 /\ request'[r].metric = NewDay
        /\ daily' = [daily EXCEPT ![p] = days] /\ daily[p] \in Seq(DayRow)
    BY <1>8, CreatesDay
  <2>2. days \in Seq(DayRow) /\ Len(days) = Len(daily[p]) + 1 /\ Len(daily[p]) \in Nat
    BY <2>1, NewDayRow, AppendProperties, LenProperties
  <2> HIDE DEF days
  <2>3. DOMAIN days = 1..Len(days)
    BY <2>2, LenProperties
  <2>4. /\ daily' \in [Participants -> Seq(DayRow)]
        /\ daily'[p] = days /\ \A q \in Participants : q # p => daily'[q] = daily[q]
    BY <2>1, <2>2 DEF RowsInv
  <2>5. ASSUME NEW q \in Participants PROVE Len(daily[q]) <= Len(daily'[q])
    <3>1. Len(daily[q]) \in Nat
      BY LenProperties DEF RowsInv
    <3> QED
      BY <2>2, <2>4, <3>1
  <2>6. Placed(request'[r])
    BY <2>1 DEF To, Placed, HourSteps, DaySteps
  <2>7. Reads(request'[r], daily')
    BY <2>1, <2>2, <2>3, <2>4, NewDayRow DEF Reads, To
  <2>8. UNCHANGED replica
    BY <1>8 DEF CreateDay
  <2> QED
    BY <2>1, <2>4, <2>5, <2>6, <2>7, <2>8, RowsKept DEF To
<1>9. ASSUME NEW r \in Requests, WriteDay(r) PROVE RowsInv'
  <2> DEFINE l == request[r]
             days == daily[l.p]
  <2>1. /\ l.p \in Participants /\ days \in Seq(DayRow) /\ l.id \in 1..Len(days)
        /\ Anew(r, "rest", "none", Unused, Unused)
    BY <1>9, WritesDay
  <2>2. PICK d \in DayRow : daily' = [daily EXCEPT ![l.p] = [days EXCEPT ![l.id] = d]]
    BY <1>9, WritesDay
  <2>3. /\ [days EXCEPT ![l.id] = d] \in Seq(DayRow)
        /\ Len([days EXCEPT ![l.id] = d]) = Len(days) /\ Len(days) \in Nat
    BY <2>1, ExceptSeq, LenProperties
  <2>4. /\ daily' \in [Participants -> Seq(DayRow)]
        /\ daily'[l.p] = [days EXCEPT ![l.id] = d]
        /\ \A q \in Participants : q # l.p => daily'[q] = daily[q]
    BY <2>1, <2>2, <2>3 DEF RowsInv
  <2>5. ASSUME NEW q \in Participants PROVE Len(daily[q]) <= Len(daily'[q])
    <3>1. Len(daily[q]) \in Nat
      BY LenProperties DEF RowsInv
    <3> QED
      BY <2>3, <2>4, <3>1
  <2>6. Placed(request'[r]) /\ Reads(request'[r], daily')
    BY <2>1, RestPlaced DEF Anew, HourSteps, DaySteps
  <2>7. UNCHANGED replica
    BY <1>9 DEF WriteDay
  <2> QED
    BY <2>1, <2>4, <2>5, <2>6, <2>7, RowsKept DEF Anew
<1>10. ASSUME NEW r \in Requests, Join(r) \/ PostContentGlobally(r) PROVE RowsInv'
  <2>1. PICK u \in Users, kind \in {"join", "post"} : Begin(r, Fresh("join", kind, Unused, NewRow(u)))
    BY <1>10 DEF Join, PostContentGlobally
  <2>2. Anew(r, "join", kind, Unused, NewRow(u))
    BY <2>1, Edits DEF Begin
  <2>3. Placed(request'[r]) /\ request'[r].pc # "writeDay"
    BY <2>2 DEF Anew, Placed, HourSteps, DaySteps
  <2>4. UNCHANGED <<daily, replica>>
    BY <1>10 DEF Join, PostContentGlobally, database
  <2> QED
    BY <2>2, <2>3, <2>4, RowsAlone DEF Anew
<1>11. ASSUME NEW r \in Requests, CreateParticipant(r) PROVE RowsInv'
  <2>1. request[r].kind \in {"join", "post"}
    BY <1>11, <1>a DEF CreateParticipant, At, Placed
  <2>2. \/ Anew(r, "rest", "none", Unused, Unused)
        \/ \E p \in Participants : request[r].kind = "post" /\ Anew(r, "participant", "post", p, request[r].seen)
    <3>1. PICK p \in Participants :
             Become(r, IF request[r].kind = "join" THEN Rest
                       ELSE [request[r] EXCEPT !.pc = "participant", !.p = p])
      BY <1>11 DEF CreateParticipant
    <3>2. CASE request[r].kind = "join"
      BY <3>1, <3>2, Edits
    <3>3. CASE request[r].kind # "join"
      <4>1. Become(r, [request[r] EXCEPT !.pc = "participant", !.p = p])
        BY <3>1, <3>3
      <4>2. Anew(r, "participant", request[r].kind, p, request[r].seen)
        BY <4>1, Edits
      <4> QED
        BY <2>1, <3>3, <4>2
    <3> QED
      BY <3>2, <3>3
  <2>3. Placed(request'[r]) /\ request'[r].pc # "writeDay"
    BY <2>2 DEF Anew, Placed, HourSteps, DaySteps
  <2> QED
    BY <1>11, <2>2, <2>3, RowsAlone DEF Anew, CreateParticipant
<1>12. ASSUME NEW r \in Requests, Leave(r) \/ Post(r) PROVE RowsInv'
  <2>1. PICK p \in Present, kind \in {"leave", "post"} : Begin(r, Fresh("findHour", kind, p, row[p]))
    BY <1>12 DEF Leave, Post
  <2>2. Anew(r, "findHour", kind, p, row[p])
    BY <2>1, Edits DEF Begin
  <2>3. Placed(request'[r]) /\ request'[r].pc # "writeDay"
    BY <2>2 DEF Anew, Placed, HourSteps, DaySteps, Present
  <2>4. UNCHANGED <<daily, replica>>
    BY <1>12 DEF Leave, Post, database
  <2> QED
    BY <2>2, <2>3, <2>4, RowsAlone DEF Anew
<1>13. ASSUME NEW r \in Requests, FindPoster(r) PROVE RowsInv'
  <2>1. To(r, "findHour")
    BY <1>13, Edits DEF FindPoster
  <2>2. Placed(request'[r]) /\ request'[r].pc # "writeDay"
    BY <1>13, <1>a, <2>1 DEF FindPoster, At, To, Placed, HourSteps, DaySteps
  <2> QED
    BY <1>13, <2>1, <2>2, RowsAlone DEF To, FindPoster, database
<1>14. ASSUME NEW r \in Requests, NewSocialPost(r) \/ Reject(r) \/ RemoveParticipant(r) PROVE RowsInv'
  <2>1. Become(r, Rest) /\ UNCHANGED <<daily, replica>>
    BY <1>14 DEF NewSocialPost, Reject, RemoveParticipant, database
  <2>2. Anew(r, "rest", "none", Unused, Unused)
    BY <2>1, Edits
  <2>3. Placed(request'[r]) /\ request'[r].pc # "writeDay"
    BY <2>2, RestPlaced DEF Anew, HourSteps, DaySteps
  <2> QED
    BY <2>1, <2>2, <2>3, RowsAlone DEF Anew
<1>15. CASE Replicate
  <2>1. replica' = Metrics /\ UNCHANGED <<daily, request>>
    BY <1>15 DEF Replicate, database
  <2>2. replica'.daily = daily
    BY <2>1 DEF Metrics
  <2>3. \A p \in Participants : Len(daily[p]) \in Nat
    BY LenProperties DEF RowsInv
  <2> QED
    BY <2>1, <2>2, <2>3 DEF RowsInv
<1>16. CASE CacheChanges \/ CampaignEnds \/ UNCHANGED vars
  <2>1. UNCHANGED <<daily, request, replica>>
    BY <1>16 DEF CacheChanges, CampaignEnds, vars, database
  <2> QED
    BY <2>1 DEF RowsInv
<1> QED
  BY <1>1, <1>2, <1>3, <1>4, <1>5, <1>6, <1>7, <1>8, <1>9, <1>10, <1>11, <1>12, <1>13, <1>14, <1>15, <1>16
  DEF Next, Step

\* Points that were credited to p and are not in the metrics yet.
Coming(l, p) ==
    IF l.pc \in HourSteps \cup DaySteps /\ l.kind \in Actions /\ l.p = p THEN Points[l.kind] ELSE 0
ToCome(p) == SumOf(Requests, [r \in Requests |-> Coming(request[r], p)])

\* Points written to the total and not to the participant yet, an action counted for the
\* hour and not for the day yet, a post counted and not saved yet.
ScoreDue(l) == IF l.pc = "score" THEN Points[l.kind] ELSE 0
CountDue(l, a) == IF l.pc \in DaySteps /\ l.kind = a THEN 1 ELSE 0
PostDue(l) == IF l.pc = "savePost" THEN 1 ELSE 0

\* The same is still to be written for both.
SameDues(l, m) ==
    /\ \A p \in Participants : Coming(l, p) = Coming(m, p)
    /\ ScoreDue(l) = ScoreDue(m) /\ PostDue(l) = PostDue(m)
    /\ \A a \in Tracked : CountDue(l, a) = CountDue(m, a)
NoDues(l) ==
    /\ \A p \in Participants : Coming(l, p) = 0
    /\ ScoreDue(l) = 0 /\ PostDue(l) = 0
    /\ \A a \in Tracked : CountDue(l, a) = 0

LEMMA NotDue ==
  ASSUME NEW l, \/ l.pc \notin HourSteps \cup DaySteps \cup {"score", "savePost"}
                \/ l.pc \in HourSteps /\ l.kind \notin Actions
  PROVE  NoDues(l)
BY DEF NoDues, Coming, ScoreDue, PostDue, CountDue, HourSteps, DaySteps

LEMMA ComingNat == \A l, p : Coming(l, p) \in Nat
BY ActionPoints DEF Coming

\* The steps that write neither points nor posts and leave no more and no less to write.
Silent(r) ==
    \/ ReadParticipant(r) \/ ReadCachedCampaign(r) \/ MissCampaign(r) \/ FillCache(r) \/ ReadCampaign(r)
    \/ FindHour(r) \/ CreateHour(r) \/ FindDay(r)
    \/ Join(r) \/ CreateParticipant(r) \/ Leave(r) \/ RemoveParticipant(r)
    \/ Post(r) \/ PostContentGlobally(r) \/ FindPoster(r)

LEMMA Idle == \A l, m : NoDues(l) /\ NoDues(m) => SameDues(l, m)
BY DEF NoDues, SameDues

LEMMA SilentSteps ==
  ASSUME ScoreInv, RowsInv, NEW r \in Requests, Silent(r)
  PROVE  /\ Become(r, request'[r])
         /\ UNCHANGED <<total, daily, posts, replica, granted, credited>>
         /\ SameDues(request'[r], request[r])
         /\ request'[r].pc = "writeDay" => FindDay(r)
<1> DEFINE l == request[r]
           m == request'[r]
<1>a. SnapshotEarned(l, granted, credited) /\ Placed(l)
  BY DEF ScoreInv, SnapshotsEarned, RowsInv
<1>1. UNCHANGED <<total, daily, posts, replica, granted, credited>>
  BY DEF Silent, ReadParticipant, ReadCachedCampaign, MissCampaign, FillCache, ReadCampaign, FindHour,
         CreateHour, FindDay, Join, CreateParticipant, Leave, RemoveParticipant, Post,
         PostContentGlobally, FindPoster, database
<1>2. CASE ReadParticipant(r)
  <2>1. PICK p, a : Begin(r, Fresh("campaign", a, p, row[p]))
    BY <1>2 DEF ReadParticipant
  <2>2. l.pc = "rest" /\ Anew(r, "campaign", a, p, row[p])
    BY <2>1, Edits DEF Begin, At
  <2>3. NoDues(l) /\ NoDues(m)
    BY <2>2, NotDue DEF Anew, HourSteps, DaySteps
  <2> QED
    BY <1>1, <2>2, <2>3, Idle DEF Anew
<1>3. CASE ReadCachedCampaign(r) \/ MissCampaign(r) \/ ReadCampaign(r) \/ FillCache(r)
  <2>1. \E label \in {"total", "fill"} : To(r, label)
    <3>1. \E label \in {"total", "fill"} :
             \/ Goto(r, label)
             \/ \E n : Become(r, [request[r] EXCEPT !.pc = label, !.total = n])
      BY <1>3 DEF ReadCachedCampaign, MissCampaign, ReadCampaign, FillCache
    <3> QED
      BY <3>1, Edits
  <2>2. l.pc \in {"campaign", "fill"}
    BY <1>3 DEF ReadCachedCampaign, MissCampaign, ReadCampaign, FillCache, At
  <2>3. NoDues(l) /\ NoDues(m)
    BY <2>1, <2>2, NotDue DEF To, HourSteps, DaySteps
  <2> QED
    BY <1>1, <2>1, <2>3, Idle DEF To
<1>4. CASE FindHour(r) \/ CreateHour(r)
  <2>1. l.pc \in {"findHour", "createHour"}
    BY <1>4 DEF FindHour, CreateHour, At
  <2>2. \E label \in {"createHour", "writeHour"} : To(r, label)
    <3>1. CASE FindHour(r)
      BY <3>1, Edits DEF FindHour
    <3>2. CASE CreateHour(r)
      <4>1. \E i, n : Become(r, [request[r] EXCEPT !.pc = "writeHour", !.id = i, !.metric = n])
        BY <3>2 DEF CreateHour
      <4> QED
        BY <4>1, Edits
    <3> QED
      BY <1>4, <3>1, <3>2
  <2>3. SameDues(m, l)
    BY <2>1, <2>2 DEF To, SameDues, Coming, ScoreDue, PostDue, CountDue, HourSteps, DaySteps
  <2> QED
    BY <1>1, <2>2, <2>3 DEF To
<1>5. CASE FindDay(r)
  <2>1. l.pc = "findDay" /\ (To(r, "createDay") \/ To(r, "writeDay"))
    BY <1>5, FindsDay
  <2>2. SameDues(m, l)
    BY <2>1 DEF To, SameDues, Coming, ScoreDue, PostDue, CountDue, HourSteps, DaySteps
  <2> QED
    BY <1>1, <1>5, <2>1, <2>2 DEF To
<1>6. CASE Join(r) \/ PostContentGlobally(r)
  <2>1. PICK u \in Users, kind \in {"join", "post"} : Begin(r, Fresh("join", kind, Unused, NewRow(u)))
    BY <1>6 DEF Join, PostContentGlobally
  <2>2. l.pc = "rest" /\ Anew(r, "join", kind, Unused, NewRow(u))
    BY <2>1, Edits DEF Begin, At
  <2>3. NoDues(l) /\ NoDues(m)
    BY <2>2, NotDue DEF Anew, HourSteps, DaySteps
  <2> QED
    BY <1>1, <2>2, <2>3, Idle DEF Anew
<1>7. CASE CreateParticipant(r)
  <2>1. l.pc = "join" /\ Become(r, m) /\ m.pc \in {"rest", "participant"}
    <3>1. PICK p \in Participants :
             Become(r, IF request[r].kind = "join" THEN Rest
                       ELSE [request[r] EXCEPT !.pc = "participant", !.p = p])
      BY <1>7 DEF CreateParticipant
    <3>2. CASE request[r].kind = "join"
      BY <1>7, <3>1, <3>2, Edits DEF CreateParticipant, At, Anew
    <3>3. CASE request[r].kind # "join"
      <4>1. Become(r, [request[r] EXCEPT !.pc = "participant", !.p = p])
        BY <3>1, <3>3
      <4>2. Anew(r, "participant", request[r].kind, p, request[r].seen)
        BY <4>1, Edits
      <4> QED
        BY <1>7, <4>2 DEF CreateParticipant, At, Anew
    <3> QED
      BY <3>2, <3>3
  <2>2. NoDues(l) /\ NoDues(m)
    BY <2>1, NotDue DEF HourSteps, DaySteps
  <2> QED
    BY <1>1, <2>1, <2>2, Idle
<1>8. CASE Leave(r) \/ Post(r)
  <2>1. PICK p \in Present, kind \in {"leave", "post"} : Begin(r, Fresh("findHour", kind, p, row[p]))
    BY <1>8 DEF Leave, Post
  <2>2. l.pc = "rest" /\ Anew(r, "findHour", kind, p, row[p])
    BY <2>1, Edits DEF Begin, At
  <2>3. NoDues(l) /\ NoDues(m)
    BY <2>2, NotDue DEF Anew, HourSteps, DaySteps, Actions, Tracked
  <2> QED
    BY <1>1, <2>2, <2>3, Idle DEF Anew
<1>9. CASE FindPoster(r)
  <2>1. l.pc = "participant" /\ To(r, "findHour") /\ l.kind = "post"
    BY <1>9, <1>a, Edits DEF FindPoster, At, Placed
  <2>2. NoDues(l) /\ NoDues(m)
    BY <2>1, NotDue DEF To, HourSteps, DaySteps, Actions, Tracked
  <2> QED
    BY <1>1, <2>1, <2>2, Idle DEF To
<1>10. CASE RemoveParticipant(r)
  <2>1. l.pc = "delete" /\ Anew(r, "rest", "none", Unused, Unused)
    BY <1>10, Edits DEF RemoveParticipant, At
  <2>2. NoDues(l) /\ NoDues(m)
    BY <2>1, NotDue DEF Anew, HourSteps, DaySteps
  <2> QED
    BY <1>1, <2>1, <2>2, Idle DEF Anew
<1> QED
  BY <1>2, <1>3, <1>4, <1>5, <1>6, <1>7, <1>8, <1>9, <1>10 DEF Silent

\* What the other steps write, and what they leave to write.
LEMMA UpdatesCampaign ==
  ASSUME ScoreInv, RowsInv, NEW r \in Requests, UpdateCampaign(r)
  PROVE  LET l == request[r]  m == request'[r]
         IN  /\ l.pc = "total" /\ To(r, "score") /\ l.kind \in Actions
             /\ NoDues(l) /\ ScoreDue(m) = Points[l.kind] /\ PostDue(m) = 0
             /\ \A p \in Participants : Coming(m, p) = 0
             /\ \A a \in Tracked : CountDue(m, a) = 0
<1>1. request[r].pc = "total" /\ To(r, "score")
  BY Edits DEF UpdateCampaign, At
<1>2. request[r].kind \in Actions
  BY <1>1 DEF ScoreInv, SnapshotsEarned, SnapshotEarned, Snapshots
<1>3. NoDues(request[r])
  BY <1>1, NotDue DEF HourSteps, DaySteps
<1> QED
  BY <1>1, <1>2, <1>3 DEF To, ScoreDue, PostDue, Coming, CountDue, HourSteps, DaySteps

LEMMA UpdatesParticipant ==
  ASSUME ScoreInv, RowsInv, NEW r \in Requests, UpdateParticipant(r)
  PROVE  LET l == request[r]  m == request'[r]
         IN  /\ l.pc = "score" /\ l.kind \in Actions /\ l.p \in Present /\ l.seen \in Row
             /\ To(r, IF l.kind \in Tracked THEN "findHour" ELSE "findDay")
             /\ ScoreDue(l) = Points[l.kind] /\ PostDue(l) = 0 /\ ScoreDue(m) = 0 /\ PostDue(m) = 0
             /\ \A p \in Participants : Coming(l, p) = 0 /\ Coming(m, p) = IF p = l.p THEN Points[l.kind] ELSE 0
             /\ \A a \in Tracked : CountDue(l, a) = 0 /\ CountDue(m, a) = 0
             /\ credited' = [credited EXCEPT ![l.p] = @ + Points[l.kind]]
             /\ UNCHANGED <<total, hourly, daily, posts, replica, granted>>
<1> DEFINE l == request[r]
           m == request'[r]
<1>1. l.pc = "score" /\ l.p \in Present /\ To(r, IF l.kind \in Tracked THEN "findHour" ELSE "findDay")
  BY Edits DEF UpdateParticipant, At
<1>2. l.kind \in Actions /\ l.seen \in Row
  BY <1>1 DEF ScoreInv, SnapshotsEarned, SnapshotEarned, Snapshots
<1>3. /\ ScoreDue(l) = Points[l.kind] /\ PostDue(l) = 0
      /\ \A p \in Participants : Coming(l, p) = 0
      /\ \A a \in Tracked : CountDue(l, a) = 0
  BY <1>1 DEF ScoreDue, PostDue, Coming, CountDue, HourSteps, DaySteps
<1>4. /\ m.pc = IF l.kind \in Tracked THEN "findHour" ELSE "findDay"
      /\ m.kind = l.kind /\ m.p = l.p
  BY <1>1 DEF To
<1>5. /\ ScoreDue(m) = 0 /\ PostDue(m) = 0
      /\ \A p \in Participants : Coming(m, p) = IF p = l.p THEN Points[l.kind] ELSE 0
      /\ \A a \in Tracked : CountDue(m, a) = 0
  BY <1>2, <1>4 DEF ScoreDue, PostDue, Coming, CountDue, HourSteps, DaySteps
<1>6. credited' = [credited EXCEPT ![l.p] = @ + Points[l.kind]]
      /\ UNCHANGED <<total, hourly, daily, posts, replica, granted>>
  BY DEF UpdateParticipant, Earned
<1> QED
  BY <1>1, <1>2, <1>3, <1>5, <1>6

LEMMA WritesHour ==
  ASSUME ScoreInv, RowsInv, NEW r \in Requests, WriteHour(r)
  PROVE  LET l == request[r]  m == request'[r]
         IN  /\ l.pc = "writeHour" /\ l.p \in Participants /\ Become(r, m)
             /\ m.pc # "writeDay" /\ m.pc # "rest"
             /\ ScoreDue(l) = 0 /\ PostDue(l) = 0 /\ ScoreDue(m) = 0
             /\ \A p \in Participants : Coming(l, p) = Coming(m, p)
             /\ \A a \in Tracked : CountDue(l, a) = 0
             /\ \/ l.kind = "leave" /\ PostDue(m) = 0 /\ \A a \in Tracked : CountDue(m, a) = 0
                \/ l.kind = "post" /\ PostDue(m) = 1 /\ \A a \in Tracked : CountDue(m, a) = 0
                \/ /\ l.kind \in Tracked /\ PostDue(m) = 0
                   /\ \A a \in Tracked : CountDue(m, a) = IF a = l.kind THEN 1 ELSE 0
             /\ m.pc \in {"delete", "savePost", "findDay"}
<1> DEFINE l == request[r]
           m == request'[r]
<1>1. l.pc = "writeHour"
  BY DEF WriteHour, At
<1>2. l.p \in Participants /\ l.kind \in Tracked \cup {"leave", "post"}
  BY <1>1 DEF RowsInv, Placed, HourSteps
<1>3. To(r, CASE l.kind = "leave" -> "delete" [] l.kind = "post" -> "savePost" [] OTHER -> "findDay")
  BY Edits DEF WriteHour
<1>4. \/ l.kind = "leave" /\ To(r, "delete")
      \/ l.kind = "post" /\ To(r, "savePost")
      \/ l.kind \in Tracked /\ To(r, "findDay")
  BY <1>2, <1>3 DEF Tracked
<1>5. /\ ScoreDue(l) = 0 /\ PostDue(l) = 0 /\ \A a \in Tracked : CountDue(l, a) = 0
  BY <1>1 DEF ScoreDue, PostDue, CountDue, DaySteps
<1>6. l.kind \in Actions <=> l.kind \in Tracked
  BY <1>2 DEF Actions, Tracked
<1>7. CASE l.kind = "leave" /\ To(r, "delete")
  BY <1>1, <1>2, <1>5, <1>6, <1>7 DEF To, ScoreDue, PostDue, Coming, CountDue, HourSteps, DaySteps, Tracked
<1>8. CASE l.kind = "post" /\ To(r, "savePost")
  BY <1>1, <1>2, <1>5, <1>6, <1>8 DEF To, ScoreDue, PostDue, Coming, CountDue, HourSteps, DaySteps, Tracked
<1>9. CASE l.kind \in Tracked /\ To(r, "findDay")
  BY <1>1, <1>2, <1>5, <1>6, <1>9 DEF To, ScoreDue, PostDue, Coming, CountDue, HourSteps, DaySteps
<1> QED
  BY <1>4, <1>7, <1>8, <1>9

LEMMA DayDues ==
  ASSUME ScoreInv, RowsInv, NEW r \in Requests
  PROVE  /\ CreateDay(r) => SameDues(request'[r], request[r])
         /\ WriteDay(r) =>
               /\ NoDues(request'[r]) /\ ScoreDue(request[r]) = 0 /\ PostDue(request[r]) = 0
               /\ \A p \in Participants :
                     Coming(request[r], p) = IF p = request[r].p THEN Points[request[r].kind] ELSE 0
               /\ \A a \in Tracked : CountDue(request[r], a) = IF a = request[r].kind THEN 1 ELSE 0
<1>1. CASE CreateDay(r)
  <2>1. request[r].pc = "createDay" /\ To(r, "writeDay")
    BY <1>1, CreatesDay
  <2> QED
    BY <1>1, <2>1 DEF To, SameDues, ScoreDue, PostDue, Coming, CountDue, HourSteps, DaySteps, WriteDay, At
<1>2. CASE WriteDay(r)
  <2>1. /\ request[r].pc = "writeDay" /\ request[r].kind \in Actions
        /\ Anew(r, "rest", "none", Unused, Unused)
    BY <1>2, WritesDay
  <2>2. NoDues(request'[r])
    BY <2>1, NotDue DEF Anew, HourSteps, DaySteps
  <2> QED
    BY <1>2, <2>1, <2>2 DEF ScoreDue, PostDue, Coming, CountDue, HourSteps, DaySteps, CreateDay, At
<1> QED
  BY <1>1, <1>2

LEMMA SavesPost ==
  ASSUME ScoreInv, RowsInv, NEW r \in Requests, NewSocialPost(r)
  PROVE  LET l == request[r]
         IN  /\ l.pc = "savePost" /\ l.p \in Participants /\ Anew(r, "rest", "none", Unused, Unused)
             /\ NoDues(request'[r]) /\ PostDue(l) = 1 /\ ScoreDue(l) = 0
             /\ \A p \in Participants : Coming(l, p) = 0
             /\ \A a \in Tracked : CountDue(l, a) = 0
<1>1. request[r].pc = "savePost" /\ Anew(r, "rest", "none", Unused, Unused)
  BY Edits DEF NewSocialPost, At
<1>2. request[r].p \in Participants
  BY <1>1 DEF RowsInv, Placed
<1>3. NoDues(request'[r])
  BY <1>1, NotDue DEF Anew, HourSteps, DaySteps
<1> QED
  BY <1>1, <1>2, <1>3 DEF ScoreDue, PostDue, Coming, CountDue, HourSteps, DaySteps

\* One request that moves changes what is to come by what it has.
LEMMA SumsAreSums == \A S, w : SumOf(S, w) = SumOver(w, S)
BY Zenon DEF SumOf, SumOver

LEMMA ToComeNat == \A p : ToCome(p) \in Nat
<1> SUFFICES ASSUME NEW p PROVE ToCome(p) \in Nat
  OBVIOUS
<1> DEFINE w == [q \in Requests |-> Coming(request[q], p)]
<1>1. ToCome(p) = SumOver(w, Requests)
  BY Zenon DEF ToCome, SumOf, SumOver
<1>2. \A q \in Requests : w[q] \in Nat
  BY ComingNat
<1> HIDE DEF w
<1> QED
  BY <1>1, <1>2, SumNat, ParticipationAssumption

LEMMA ToComeChanges ==
  ASSUME ScoreInv, NEW r \in Requests, Become(r, request'[r])
  PROVE  \A p : ToCome(p)' = ToCome(p) + Coming(request'[r], p) - Coming(request[r], p)
<1> SUFFICES ASSUME NEW p PROVE ToCome(p)' = ToCome(p) + Coming(request'[r], p) - Coming(request[r], p)
  OBVIOUS
<1> DEFINE v == [q \in Requests |-> Coming(request'[q], p)]
           w == [q \in Requests |-> Coming(request[q], p)]
<1>1. ToCome(p) = SumOver(w, Requests)
  BY Zenon DEF ToCome, SumOf, SumOver
<1>5. ToCome(p)' = SumOver(v, Requests)
  BY SumsAreSums DEF ToCome
<1>2. \A q \in Requests : v[q] \in Int /\ w[q] \in Int
  BY ComingNat
<1>3. \A q \in Requests \ {r} : v[q] = w[q]
  BY DEF ScoreInv, SnapshotsEarned, Become
<1>4. v[r] = Coming(request'[r], p) /\ w[r] = Coming(request[r], p)
  OBVIOUS
<1> HIDE DEF v, w
<1> QED
  BY <1>1, <1>5, <1>2, <1>3, <1>4, SumChange, ParticipationAssumption

-----------------------------------------------------------------------------
(* Points of the days. *)

\* w says how many points were ever written to each row of a day.  A row, and every old
\* copy of it, has no more than that, though it may have less after a lost update; and no
\* participant was credited with less than was written and is still to come.
Covers(w) ==
    /\ w \in [Participants -> [Nat -> Nat]]
    /\ \A p \in Participants :
          /\ \A i \in 1..Len(daily[p]) : daily[p][i].score <= w[p][i]
          /\ \A i \in 1..Len(replica.daily[p]) : replica.daily[p][i].score <= w[p][i]
          /\ SumOf(1..Len(daily[p]), w[p]) + ToCome(p) <= credited[p]
    /\ \A r \in Requests :
          At(r, "writeDay") => request[r].metric.score <= w[request[r].p][request[r].id]

DayInv == \E w : Covers(w)

\* Lengths are numbers, places in a sequence are, and rows have points.
LEMMA DayTypes ==
  ASSUME RowsInv, NEW p \in Participants
  PROVE  /\ daily[p] \in Seq(DayRow) /\ replica.daily[p] \in Seq(DayRow)
         /\ Len(daily[p]) \in Nat /\ Len(replica.daily[p]) \in Nat
         /\ DOMAIN daily[p] = 1..Len(daily[p])
         /\ Len(replica.daily[p]) <= Len(daily[p])
         /\ \A i \in 1..Len(daily[p]) : daily[p][i] \in DayRow
         /\ \A i \in 1..Len(replica.daily[p]) : replica.daily[p][i] \in DayRow
<1>1. daily[p] \in Seq(DayRow) /\ replica.daily[p] \in Seq(DayRow) /\ Len(replica.daily[p]) <= Len(daily[p])
  BY DEF RowsInv
<1> QED
  BY <1>1, LenProperties, ElementOfSeq

LEMMA RowScore == \A d \in DayRow : d.score \in Nat /\ d.count \in [Actions -> Nat] /\ d.score = Worth(d.count)
BY DEF DayRow

LEMMA SumOfWritten ==
  ASSUME NEW w \in [Participants -> [Nat -> Nat]], NEW p \in Participants, NEW n \in Nat
  PROVE  /\ IsFiniteSet(1..n) /\ \A i \in 1..n : w[p][i] \in Nat
         /\ SumOf(1..n, w[p]) \in Nat /\ SumOf(1..n, w[p]) = SumOver(w[p], 1..n)
<1>1. IsFiniteSet(1..n)
  BY FS_Interval
<1>2. \A i \in 1..n : w[p][i] \in Nat
  OBVIOUS
<1>3. SumOver(w[p], 1..n) \in Nat
  BY <1>1, <1>2, SumNat
<1> QED
  BY <1>1, <1>2, <1>3, SumsAreSums

LEMMA Longer == \A m, n \in Nat : m <= n => \A i \in 1..m : i \in 1..n /\ i \in Nat
OBVIOUS

LEMMA Written == \A w \in [Participants -> [Nat -> Nat]] : \A p \in Participants, i \in Nat : w[p][i] \in Nat
OBVIOUS

LEMMA Chain == \A i, j, k \in Nat : i <= j /\ j <= k => i <= k
OBVIOUS

\* One request moves, and no less was written to any row than before.
LEMMA DayGoes ==
  ASSUME ScoreInv, RowsInv, RowsInv', NEW w, Covers(w), NEW v \in [Participants -> [Nat -> Nat]],
         NEW r \in Requests, Become(r, request'[r]), UNCHANGED replica,
         \A p \in Participants : \A i \in 1..Len(daily[p]) : w[p][i] <= v[p][i],
         \A p \in Participants : \A i \in 1..Len(daily'[p]) : daily'[p][i].score <= v[p][i],
         request'[r].pc = "writeDay" => request'[r].metric.score <= v[request'[r].p][request'[r].id],
         \A p \in Participants : SumOf(1..Len(daily'[p]), v[p]) + ToCome(p)' <= credited'[p]
  PROVE  Covers(v)'
<1>a. w \in [Participants -> [Nat -> Nat]]
  BY DEF Covers
<1>1. ASSUME NEW p \in Participants, NEW i \in 1..Len(replica.daily[p])
      PROVE  replica'.daily[p][i].score <= v[p][i]
  <2>0. /\ Len(daily[p]) \in Nat /\ Len(replica.daily[p]) \in Nat /\ Len(replica.daily[p]) <= Len(daily[p])
        /\ replica.daily[p][i] \in DayRow
    BY DayTypes
  <2>1. i \in 1..Len(daily[p]) /\ i \in Nat /\ replica.daily[p][i].score \in Nat
    <3>1. i \in 1..Len(daily[p]) /\ i \in Nat
      BY <2>0, Longer, Zenon
    <3>2. replica.daily[p][i].score \in Nat
      BY <2>0, RowScore, Zenon
    <3> QED
      BY <3>1, <3>2
  <2>2. replica.daily[p][i].score <= w[p][i] /\ w[p][i] <= v[p][i]
    BY <2>1 DEF Covers
  <2>3. w[p][i] \in Nat /\ v[p][i] \in Nat
    BY <1>a, <2>1
  <2>4. replica'.daily[p][i] = replica.daily[p][i]
    OBVIOUS
  <2>5. replica.daily[p][i].score <= v[p][i]
    BY <2>1, <2>2, <2>3, Chain, Zenon
  <2> QED
    BY <2>4, <2>5, Zenon
<1>2. ASSUME NEW q \in Requests, request'[q].pc = "writeDay"
      PROVE  request'[q].metric.score <= v[request'[q].p][request'[q].id]
  <2>1. CASE q = r
    BY <1>2, <2>1
  <2>2. CASE q # r
    <3> DEFINE l == request[q]
    <3>1. request'[q] = l
      BY <2>2 DEF ScoreInv, SnapshotsEarned, Become
    <3>2. l.p \in Participants /\ l.id \in DOMAIN daily[l.p] /\ l.metric \in DayRow
      <4>1. Placed(l) /\ Reads(l, daily) /\ l.pc = "writeDay"
        BY <1>2, <3>1 DEF RowsInv
      <4> QED
        BY <4>1 DEF Placed, Reads, DaySteps
    <3>3. l.id \in 1..Len(daily[l.p]) /\ l.id \in Nat
      <4>1. DOMAIN daily[l.p] = 1..Len(daily[l.p]) /\ Len(daily[l.p]) \in Nat
        BY <3>2, DayTypes
      <4> QED
        BY <3>2, <4>1
    <3>4. l.metric.score <= w[l.p][l.id] /\ w[l.p][l.id] <= v[l.p][l.id]
      <4>1. l.pc = "writeDay"
        BY <1>2, <3>1
      <4>2. l.metric.score <= w[l.p][l.id]
        BY <4>1 DEF Covers, At
      <4> HIDE DEF l
      <4>3. w[l.p][l.id] <= v[l.p][l.id]
        BY <3>2, <3>3, Zenon
      <4> QED
        BY <4>2, <4>3
    <3>5. l.metric.score \in Nat /\ w[l.p][l.id] \in Nat /\ v[l.p][l.id] \in Nat
      BY <1>a, <3>2, <3>3, RowScore, Written, Zenon
    <3>6. l.metric.score <= v[l.p][l.id]
      <4> DEFINE i == l.metric.score
                 j == w[l.p][l.id]
                 k == v[l.p][l.id]
      <4>1. i \in Nat /\ j \in Nat /\ k \in Nat /\ i <= j /\ j <= k
        BY <3>4, <3>5
      <4> HIDE DEF i, j, k
      <4>2. i <= k
        BY <4>1, Chain
      <4> QED
        BY <4>2 DEF i, k
    <3> QED
      BY <3>1, <3>6, Zenon
  <2> QED
    BY <2>1, <2>2
<1> QED
  BY <1>1, <1>2 DEF Covers, At

\* A step that writes no row: a participant is credited with what is then to come.
LEMMA DayKept ==
  ASSUME ScoreInv, RowsInv, RowsInv', DayInv,
         NEW r \in Requests, Become(r, request'[r]), UNCHANGED <<daily, replica>>,
         credited' \in [Participants -> Nat],
         \A p \in Participants : Coming(request'[r], p) - Coming(request[r], p) <= credited'[p] - credited[p],
         \A w : Covers(w) /\ request'[r].pc = "writeDay" =>
                   request'[r].metric.score <= w[request'[r].p][request'[r].id]
  PROVE  DayInv'
<1>1. PICK w : Covers(w)
  BY DEF DayInv
<1>2. w \in [Participants -> [Nat -> Nat]]
  BY <1>1 DEF Covers
<1>3. \A p \in Participants : \A i \in 1..Len(daily[p]) : w[p][i] <= w[p][i] /\ daily'[p][i].score <= w[p][i]
  <2> SUFFICES ASSUME NEW p \in Participants, NEW i \in 1..Len(daily[p])
               PROVE  w[p][i] <= w[p][i] /\ daily[p][i].score <= w[p][i]
    OBVIOUS
  <2>1. w[p][i] \in Nat
    <3>1. Len(daily[p]) \in Nat
      BY DayTypes
    <3>2. i \in Nat
      BY <3>1
    <3> QED
      BY <1>2, <3>2
  <2>2. daily[p][i].score <= w[p][i]
    BY <1>1 DEF Covers
  <2> QED
    BY <2>1, <2>2
<1>4. ASSUME NEW p \in Participants PROVE SumOf(1..Len(daily'[p]), w[p]) + ToCome(p)' <= credited'[p]
  <2>1. SumOf(1..Len(daily[p]), w[p]) \in Nat
    BY <1>2, DayTypes, SumOfWritten
  <2>2. SumOf(1..Len(daily[p]), w[p]) + ToCome(p) <= credited[p]
    BY <1>1 DEF Covers
  <2>3. ToCome(p)' = ToCome(p) + Coming(request'[r], p) - Coming(request[r], p) /\ ToCome(p) \in Nat
    BY ToComeChanges, ToComeNat
  <2>4. Coming(request'[r], p) \in Nat /\ Coming(request[r], p) \in Nat
    BY ComingNat
  <2>5. credited[p] \in Nat /\ credited'[p] \in Nat
    BY DEF ScoreInv, Numbers
  <2>6. daily'[p] = daily[p]
    OBVIOUS
  <2>7. Coming(request'[r], p) - Coming(request[r], p) <= credited'[p] - credited[p]
    OBVIOUS
  <2> QED
    BY <2>1, <2>2, <2>3, <2>4, <2>5, <2>6, <2>7
<1>5. Covers(w)'
  <2>1. \A p \in Participants : \A i \in 1..Len(daily[p]) : w[p][i] <= w[p][i]
    BY <1>3
  <2>2. \A p \in Participants : \A i \in 1..Len(daily'[p]) : daily'[p][i].score <= w[p][i]
    BY <1>3
  <2>3. request'[r].pc = "writeDay" => request'[r].metric.score <= w[request'[r].p][request'[r].id]
    BY <1>1
  <2> QED
    BY <1>1, <1>2, <1>4, <2>1, <2>2, <2>3, DayGoes
<1> QED
  BY <1>5 DEF DayInv


\* One weight changes by e.
Differ(S, f, g, n, e) ==
    /\ IsFiniteSet(S) /\ n \in S /\ e \in Int /\ f[n] = g[n] + e
    /\ \A i \in S : f[i] \in Int /\ g[i] \in Int
    /\ \A i \in S \ {n} : f[i] = g[i]

LEMMA SumUp == \A S, f, g, n, e : Differ(S, f, g, n, e) => SumOf(S, f) = SumOf(S, g) + e /\ SumOf(S, g) \in Int
<1> SUFFICES ASSUME NEW S, NEW f, NEW g, NEW n, NEW e, Differ(S, f, g, n, e)
             PROVE  SumOf(S, f) = SumOf(S, g) + e /\ SumOf(S, g) \in Int
  OBVIOUS
<1>0. /\ IsFiniteSet(S) /\ n \in S /\ e \in Int /\ f[n] = g[n] + e
      /\ \A i \in S : f[i] \in Int /\ g[i] \in Int
      /\ \A i \in S \ {n} : f[i] = g[i]
  BY DEF Differ
<1>1. SumOf(S, f) = SumOver(f, S) /\ SumOf(S, g) = SumOver(g, S)
  BY SumsAreSums
<1>2. SumOver(g, S) \in Int
  BY <1>0, SumType
<1>3. SumOver(f, S) = SumOver(g, S) + f[n] - g[n]
  BY <1>0, SumChange
<1>4. f[n] \in Int /\ g[n] \in Int
  BY <1>0
<1> QED
  BY <1>0, <1>1, <1>2, <1>3, <1>4

\* What was written to row n of p, changed to k.
Raised(v, w, p, n, k) ==
    /\ v \in [Participants -> [Nat -> Nat]] /\ w \in [Participants -> [Nat -> Nat]]
    /\ p \in Participants /\ n \in Nat /\ k \in Nat /\ v[p][n] = k
    /\ \A i \in Nat : i # n => v[p][i] = w[p][i]
    /\ \A q \in Participants : q # p => v[q] = w[q]

LEMMA Raise ==
  ASSUME NEW w \in [Participants -> [Nat -> Nat]], NEW p \in Participants, NEW n \in Nat, NEW k \in Nat
  PROVE  \E v : Raised(v, w, p, n, k)
<1> DEFINE v == [w EXCEPT ![p] = [w[p] EXCEPT ![n] = k]]
<1>1. Raised(v, w, p, n, k)
  BY DEF Raised
<1> QED
  BY <1>1

\* One row more, or one row with more, in the sum.
Lengthened(v, w, p, n, k) == n \in Nat /\ Raised(v, w, p, n + 1, k)
LEMMA LongerSum ==
  \A v, w, p, n, k : Lengthened(v, w, p, n, k) => SumOf(1..(n + 1), v[p]) = SumOf(1..n, w[p]) + k
<1> SUFFICES ASSUME NEW v, NEW w, NEW p, NEW n, NEW k, Lengthened(v, w, p, n, k)
             PROVE  SumOf(1..(n + 1), v[p]) = SumOf(1..n, w[p]) + k
  OBVIOUS
<1>n. n \in Nat /\ n + 1 \in Nat
  BY DEF Lengthened
<1>m. PICK m : m = n + 1
  OBVIOUS
<1>r. Raised(v, w, p, m, k)
  BY <1>m DEF Lengthened
<1> DEFINE f == v[p]
           g == w[p]
<1>0. f \in [Nat -> Nat] /\ g \in [Nat -> Nat] /\ f[m] = k /\ k \in Nat /\ \A i \in Nat : i # m => f[i] = g[i]
  BY <1>r DEF Raised
<1>1. IsFiniteSet(1..n)
  BY <1>n, FS_Interval
<1>2. 1..m = (1..n) \cup {m} /\ m \notin 1..n /\ \A i \in 1..n : i \in Nat /\ i # m
  BY <1>n, <1>m
<1>3. \A i \in 1..n : f[i] \in Nat /\ g[i] \in Nat
  BY <1>0, <1>2
<1>4. \A i \in 1..n : f[i] = g[i]
  BY <1>0, <1>2, Zenon
<1> DEFINE S == 1..n
<1>5. 1..m = S \cup {m} /\ m \notin S /\ IsFiniteSet(S) /\ \A i \in S : f[i] = g[i] /\ f[i] \in Int /\ g[i] \in Int
  BY <1>1, <1>2, <1>3, <1>4
<1> HIDE DEF f, g, S
<1>6. SumOf(S, f) = SumOver(f, S) /\ SumOf(S, g) = SumOver(g, S) /\ SumOf(S \cup {m}, f) = SumOver(f, S \cup {m})
  BY SumsAreSums
<1>7. SumOver(f, S) = SumOver(g, S)
  BY <1>5, SumSame
<1>8. SumOver(f, S \cup {m}) = SumOver(f, S) + f[m]
  <2>1. f[m] \in Int
    BY <1>0
  <2> QED
    BY <1>5, <2>1, SumAdd
<1>9. SumOf(1..m, f) = SumOf(S, g) + k
  BY <1>0, <1>5, <1>6, <1>7, <1>8, Zenon
<1> QED
  BY <1>9, <1>m DEF f, g, S

Added(v, w, p, n, e, m) == m \in Nat /\ n \in 1..m /\ e \in Nat /\ Raised(v, w, p, n, w[p][n] + e)
LEMMA RaisedSum ==
  \A v, w, p, n, e, m : Added(v, w, p, n, e, m) => SumOf(1..m, v[p]) = SumOf(1..m, w[p]) + e
<1> SUFFICES ASSUME NEW v, NEW w, NEW p, NEW n, NEW e, NEW m, Added(v, w, p, n, e, m)
             PROVE  SumOf(1..m, v[p]) = SumOf(1..m, w[p]) + e
  OBVIOUS
<1>m. m \in Nat /\ n \in 1..m /\ e \in Nat
  BY DEF Added
<1> DEFINE f == v[p]
           g == w[p]
           S == 1..m
<1>a. f \in [Nat -> Nat] /\ g \in [Nat -> Nat] /\ f[n] = g[n] + e /\ \A i \in Nat : i # n => f[i] = g[i]
  BY DEF Added, Raised
<1>b. IsFiniteSet(S)
  <2>1. IsFiniteSet(1..m)
    BY <1>m, FS_Interval
  <2> QED
    BY <2>1
<1>c. n \in S /\ S \subseteq Nat
  BY <1>m
<1> HIDE DEF f, g, S
<1>1. \A i \in Nat : f[i] \in Int /\ g[i] \in Int
  BY <1>a
<1>2. \A i \in S : f[i] \in Int /\ g[i] \in Int
  BY <1>c, <1>1, Zenon
<1>3. \A i \in S \ {n} : f[i] = g[i]
  BY <1>a, <1>c, Zenon
<1>4. e \in Int
  BY <1>m
<1>5. SumOf(S, f) = SumOf(S, g) + e
  <2>1. Differ(S, f, g, n, e)
    BY <1>a, <1>b, <1>c, <1>2, <1>3, <1>4 DEF Differ
  <2> QED
    BY <2>1, SumUp
<1> QED
  BY <1>5 DEF f, g, S

\* Nothing but the row changes, and that grows.
LEMMA RaisedGrows ==
  \A v, w, p, n, k : Raised(v, w, p, n, k) =>
     \A q \in Participants, i \in Nat :
        /\ w[q][i] \in Nat /\ v[q][i] \in Nat
        /\ w[p][n] <= k => w[q][i] <= v[q][i]
        /\ ~(q = p /\ i = n) => v[q][i] = w[q][i]
<1> SUFFICES ASSUME NEW v, NEW w, NEW p, NEW n, NEW k, Raised(v, w, p, n, k),
                    NEW q \in Participants, NEW i \in Nat
             PROVE  /\ w[q][i] \in Nat /\ v[q][i] \in Nat
                    /\ w[p][n] <= k => w[q][i] <= v[q][i]
                    /\ ~(q = p /\ i = n) => v[q][i] = w[q][i]
  OBVIOUS
<1>1. w[q][i] \in Nat /\ v[q][i] \in Nat
  BY DEF Raised
<1>2. CASE q = p /\ i = n
  BY <1>1, <1>2 DEF Raised
<1>3. CASE ~(q = p /\ i = n)
  <2>1. v[q][i] = w[q][i]
    BY <1>3 DEF Raised
  <2> QED
    BY <1>1, <1>3, <2>1
<1> QED
  BY <1>2, <1>3

LEMMA Places ==
  ASSUME NEW n \in Nat
  PROVE  /\ n + 1 \in Nat /\ n + 1 \in 1..(n + 1) /\ n + 1 \notin 1..n
         /\ \A i \in 1..(n + 1) : i # n + 1 => i \in 1..n
         /\ \A i \in 1..n : i \in Nat /\ i # n + 1 /\ i \in 1..(n + 1)
OBVIOUS

\* A request that creates the row of the day: nothing was written to it yet.
LEMMA DayCreated ==
  ASSUME ScoreInv, RowsInv, RowsInv', DayInv, NEW r \in Requests, CreateDay(r)
  PROVE  DayInv'
<1>1. PICK w : Covers(w)
  BY DEF DayInv
<1> DEFINE p == request[r].p
           n == Len(daily[p])
<1>2. /\ p \in Participants /\ To(r, "writeDay")
      /\ request'[r].id = n + 1 /\ request'[r].metric = NewDay
      /\ daily' = [daily EXCEPT ![p] = Append(daily[p], NewDay)] /\ daily[p] \in Seq(DayRow)
  BY CreatesDay
<1>a. UNCHANGED <<replica, credited>>
  BY DEF CreateDay
<1>b. n \in Nat
  BY <1>2, DayTypes
<1>3. w \in [Participants -> [Nat -> Nat]] /\ n + 1 \in Nat
  BY <1>1, <1>b DEF Covers
<1>6. /\ daily'[p] = Append(daily[p], NewDay) /\ \A q \in Participants : q # p => daily'[q] = daily[q]
  BY <1>2 DEF RowsInv
<1>7. /\ Len(daily'[p]) = n + 1 /\ daily'[p][n + 1] = NewDay
      /\ \A i \in 1..n : daily'[p][i] = daily[p][i]
  BY <1>2, <1>6, NewDayRow, AppendProperties
<1>c. request'[r].p = p /\ Become(r, request'[r])
  BY <1>2 DEF To
<1> HIDE DEF n, p
<1>4. PICK v : Raised(v, w, p, n + 1, 0)
  <2>1. \E v : Raised(v, w, p, n + 1, 0)
    BY <1>2, <1>3, Raise
  <2> QED
    BY <2>1
<1>5. v \in [Participants -> [Nat -> Nat]] /\ v[p][n + 1] = 0
  BY <1>4 DEF Raised
<1>8. ASSUME NEW q \in Participants, NEW i \in 1..Len(daily[q])
      PROVE  w[q][i] <= v[q][i] /\ w[q][i] = v[q][i]
  <2>0. Len(daily[q]) \in Nat
    BY DayTypes
  <2>1. i \in Nat /\ (q = p => i # n + 1)
    <3>1. i \in Nat
      BY <2>0
    <3>2. q = p => i \in 1..n
      BY DEF n
    <3> QED
      BY <1>b, <3>1, <3>2, Places
  <2>2. w[q][i] = v[q][i] /\ w[q][i] \in Nat
    <3>1. \A j \in Nat : w[q][j] \in Nat /\ (~(q = p /\ j = n + 1) => v[q][j] = w[q][j])
      BY <1>4, RaisedGrows
    <3> QED
      BY <2>1, <3>1, Zenon
  <2>3. w[q][i] <= w[q][i]
    BY <2>2
  <2> QED
    BY <2>2, <2>3, Zenon
<1>9. ASSUME NEW q \in Participants, NEW i \in 1..Len(daily'[q]) PROVE daily'[q][i].score <= v[q][i]
  <2>1. CASE q = p /\ i = n + 1
    <3>1. daily'[q][i] = NewDay /\ v[q][i] = 0
      BY <1>5, <1>7, <2>1
    <3>2. NewDay.score <= 0
      BY NewDayRow
    <3> QED
      BY <3>1, <3>2, Zenon
  <2>2. CASE ~(q = p /\ i = n + 1)
    <3>1. i \in 1..Len(daily[q]) /\ daily'[q][i] = daily[q][i]
      <4>1. CASE q = p
        <5>1. i \in 1..(n + 1) /\ i # n + 1
          BY <1>7, <2>2, <4>1, Zenon
        <5>2. i \in 1..n
          BY <1>b, <5>1, Places
        <5> QED
          BY <1>7, <4>1, <5>2 DEF n
      <4>2. CASE q # p
        BY <1>6, <4>2
      <4> QED
        BY <4>1, <4>2
    <3>2. daily[q][i].score <= w[q][i]
      BY <1>1, <3>1 DEF Covers
    <3> QED
      BY <1>8, <3>1, <3>2, Zenon
  <2> QED
    BY <2>1, <2>2
<1>10. ASSUME NEW q \in Participants PROVE SumOf(1..Len(daily'[q]), v[q]) + ToCome(q)' <= credited'[q]
  <2>1. ToCome(q)' = ToCome(q)
    <3>1. Coming(request'[r], q) = Coming(request[r], q)
      BY DayDues DEF SameDues
    <3>2. ToCome(q)' = ToCome(q) + Coming(request'[r], q) - Coming(request[r], q)
      BY <1>c, ToComeChanges
    <3>3. ToCome(q) \in Nat /\ Coming(request[r], q) \in Nat
      BY ToComeNat, ComingNat
    <3> QED
      BY <3>1, <3>2, <3>3
  <2>2. SumOf(1..Len(daily[q]), w[q]) + ToCome(q) <= credited[q]
    BY <1>1 DEF Covers
  <2>3. SumOf(1..Len(daily'[q]), v[q]) = SumOf(1..Len(daily[q]), w[q])
    <3>1. CASE q # p
      BY <1>4, <1>6, <3>1 DEF Raised
    <3>2. CASE q = p
      <4>1. SumOf(1..(n + 1), v[p]) = SumOf(1..n, w[p]) + 0
        <5>1. Lengthened(v, w, p, n, 0)
          BY <1>4, <1>b DEF Lengthened
        <5> QED
          BY <5>1, LongerSum
      <4>2. SumOf(1..n, w[p]) \in Nat
        BY <1>2, <1>3, <1>b, SumOfWritten
      <4>3. SumOf(1..(n + 1), v[p]) = SumOf(1..n, w[p])
        BY <4>1, <4>2
      <4> QED
        BY <1>7, <3>2, <4>3, Zenon DEF n
    <3> QED
      BY <3>1, <3>2
  <2> QED
    BY <1>a, <2>1, <2>2, <2>3, Zenon
<1>11. request'[r].metric.score <= v[request'[r].p][request'[r].id]
  <2>1. request'[r].metric = NewDay /\ request'[r].p = p /\ request'[r].id = n + 1
    BY <1>2, <1>c DEF n
  <2>2. NewDay.score <= 0
    BY NewDayRow
  <2> QED
    BY <1>5, <2>1, <2>2, Zenon
<1>12. Covers(v)'
  <2>2. \A q \in Participants : \A i \in 1..Len(daily[q]) : w[q][i] <= v[q][i]
    BY <1>8
  <2> QED
    BY <1>1, <1>5, <1>9, <1>10, <1>11, <1>a, <1>c, <2>2, DayGoes
<1> QED
  BY <1>12 DEF DayInv

\* A request that writes the row writes its points on top of what it read.
LEMMA DayWritten ==
  ASSUME ScoreInv, RowsInv, RowsInv', DayInv, NEW r \in Requests, WriteDay(r)
  PROVE  DayInv'
<1>1. PICK w : Covers(w)
  BY DEF DayInv
<1> DEFINE l == request[r]
           p == l.p
           n == l.id
           e == Points[l.kind]
<1>2. /\ l.pc = "writeDay" /\ p \in Participants /\ l.kind \in Actions
      /\ daily[p] \in Seq(DayRow) /\ n \in 1..Len(daily[p]) /\ l.metric \in DayRow
      /\ Anew(r, "rest", "none", Unused, Unused)
  BY WritesDay
<1>a. UNCHANGED <<replica, credited>>
  BY DEF WriteDay
<1>3. PICK d \in DayRow : d.score = l.metric.score + e /\ daily' = [daily EXCEPT ![p] = [daily[p] EXCEPT ![n] = d]]
  BY WritesDay
<1>b. Len(daily[p]) \in Nat
  BY <1>2, DayTypes
<1>c. Become(r, request'[r]) /\ request'[r].pc # "writeDay"
  BY <1>2 DEF Anew
<1>4. e \in Nat /\ n \in Nat /\ w \in [Participants -> [Nat -> Nat]]
  <2>1. e \in Nat
    BY <1>2, ActionPoints
  <2>2. n \in Nat
    BY <1>2, <1>b
  <2> QED
    BY <1>1, <2>1, <2>2 DEF Covers
<1>7. /\ daily'[p] = [daily[p] EXCEPT ![n] = d] /\ \A q \in Participants : q # p => daily'[q] = daily[q]
  BY <1>2, <1>3 DEF RowsInv
<1>8. /\ Len(daily'[p]) = Len(daily[p]) /\ daily'[p][n] = d
      /\ \A i \in 1..Len(daily[p]) : i # n => daily'[p][i] = daily[p][i]
  BY <1>2, <1>7, ExceptSeq
<1>11. l.metric.score <= w[p][n] /\ l.metric.score \in Nat
  <2>1. l.metric.score <= w[p][n]
    BY <1>1, <1>2 DEF Covers, At
  <2> QED
    BY <1>2, <2>1, RowScore
<1>d. w[p][n] \in Nat
  BY <1>2, <1>4, Written
<1>e. \A q \in Participants : Coming(request'[r], q) = 0 /\ Coming(request[r], q) = IF q = p THEN e ELSE 0
  BY DayDues DEF NoDues
<1> DEFINE k == w[p][n] + e
<1>f. d.score <= k /\ k \in Nat /\ w[p][n] <= k
  BY <1>3, <1>4, <1>11, <1>d
<1> HIDE DEF e, n, p, l
<1>5. PICK v : Raised(v, w, p, n, k)
  <2> HIDE DEF k
  <2>1. \E v : Raised(v, w, p, n, k)
    BY <1>2, <1>4, <1>f, Raise
  <2> QED
    BY <2>1
<1>6. v \in [Participants -> [Nat -> Nat]] /\ v[p][n] = k
  BY <1>5 DEF Raised
<1>9. ASSUME NEW q \in Participants, NEW i \in 1..Len(daily[q])
      PROVE  w[q][i] <= v[q][i] /\ w[q][i] \in Nat /\ v[q][i] \in Nat
             /\ (~(q = p /\ i = n) => v[q][i] = w[q][i])
  <2> HIDE DEF k
  <2>1. i \in Nat
    <3>1. Len(daily[q]) \in Nat
      BY DayTypes
    <3> QED
      BY <3>1
  <2>2. \A j \in Nat : /\ w[q][j] \in Nat /\ v[q][j] \in Nat
                       /\ w[q][j] <= v[q][j]
                       /\ ~(q = p /\ j = n) => v[q][j] = w[q][j]
    BY <1>5, <1>f, RaisedGrows
  <2> QED
    BY <2>1, <2>2, Zenon
<1>10. \A q \in Participants : Len(daily'[q]) = Len(daily[q])
  BY <1>7, <1>8
<1>12. ASSUME NEW q \in Participants, NEW i \in 1..Len(daily'[q]) PROVE daily'[q][i].score <= v[q][i]
  <2> HIDE DEF k
  <2>1. CASE q = p /\ i = n
    <3>1. daily'[q][i] = d /\ v[q][i] = k
      BY <1>6, <1>8, <2>1
    <3> QED
      BY <1>f, <3>1, Zenon
  <2>2. CASE ~(q = p /\ i = n)
    <3>0. i \in 1..Len(daily[q])
      BY <1>10, Zenon
    <3>1. daily'[q][i] = daily[q][i]
      BY <1>7, <1>8, <2>2, <3>0, Zenon
    <3>2. daily[q][i].score <= w[q][i]
      BY <1>1, <3>0 DEF Covers
    <3>3. v[q][i] = w[q][i]
      BY <1>9, <2>2, <3>0, Zenon
    <3> QED
      BY <3>1, <3>2, <3>3, Zenon
  <2> QED
    BY <2>1, <2>2
<1>13. ASSUME NEW q \in Participants PROVE SumOf(1..Len(daily'[q]), v[q]) + ToCome(q)' <= credited'[q]
  <2> DEFINE more == IF q = p THEN e ELSE 0
  <2>0. more \in Nat
    BY <1>4
  <2>1. ToCome(q)' = ToCome(q) + 0 - more
    <3>1. Coming(request'[r], q) = 0 /\ Coming(request[r], q) = more
      BY <1>e
    <3>2. ToCome(q)' = ToCome(q) + Coming(request'[r], q) - Coming(request[r], q)
      BY <1>c, ToComeChanges
    <3> QED
      BY <3>1, <3>2, Zenon
  <2>2. SumOf(1..Len(daily[q]), w[q]) + ToCome(q) <= credited[q]
    BY <1>1 DEF Covers
  <2>3. SumOf(1..Len(daily[q]), w[q]) \in Nat
    <3>1. Len(daily[q]) \in Nat
      BY DayTypes
    <3> QED
      BY <1>4, <3>1, SumOfWritten
  <2>4. SumOf(1..Len(daily[q]), v[q]) = SumOf(1..Len(daily[q]), w[q]) + more
    <3>1. CASE q # p
      <4>1. v[q] = w[q] /\ more = 0
        BY <1>5, <3>1 DEF Raised
      <4>2. \A i \in Nat : i + 0 = i
        OBVIOUS
      <4> QED
        BY <2>3, <4>1, <4>2, Zenon
    <3>2. CASE q = p
      <4>1. more = e
        BY <3>2
      <4>2. SumOf(1..Len(daily[p]), v[p]) = SumOf(1..Len(daily[p]), w[p]) + e
        <5>1. Added(v, w, p, n, e, Len(daily[p]))
          BY <1>2, <1>4, <1>5, <1>b DEF Added, k
        <5> QED
          BY <5>1, RaisedSum
      <4> QED
        BY <3>2, <4>1, <4>2, Zenon
    <3> QED
      BY <3>1, <3>2
  <2>5. Len(daily'[q]) = Len(daily[q]) /\ credited'[q] = credited[q]
    BY <1>10, <1>a
  <2>6. ToCome(q) \in Nat /\ credited[q] \in Nat
    BY ToComeNat DEF ScoreInv, Numbers
  <2> DEFINE a == SumOf(1..Len(daily[q]), w[q])
             b == ToCome(q)
             c == credited[q]
  <2>7. a \in Nat /\ b \in Nat /\ c \in Nat /\ a + b <= c
    BY <2>2, <2>3, <2>6
  <2>8. SumOf(1..Len(daily'[q]), v[q]) = a + more /\ ToCome(q)' = b + 0 - more /\ credited'[q] = c
    BY <2>1, <2>4, <2>5, Zenon
  <2> HIDE DEF a, b, c, more
  <2>9. (a + more) + (b + 0 - more) <= c
    BY <2>0, <2>7
  <2> QED
    BY <2>8, <2>9, Zenon
<1>14. Covers(v)'
  <2>2. \A q \in Participants : \A i \in 1..Len(daily[q]) : w[q][i] <= v[q][i]
    BY <1>9
  <2> QED
    BY <1>1, <1>6, <1>12, <1>13, <1>a, <1>c, <2>2, DayGoes
<1> QED
  BY <1>14 DEF DayInv

\* Nothing is to come where requests rest.
LEMMA NothingToCome ==
  ASSUME \A r \in Requests : NoDues(request[r])
  PROVE  \A p \in Participants : ToCome(p) = 0
<1> SUFFICES ASSUME NEW p \in Participants PROVE ToCome(p) = 0
  OBVIOUS
<1> DEFINE w == [q \in Requests |-> Coming(request[q], p)]
<1>1. ToCome(p) = SumOver(w, Requests)
  BY Zenon DEF ToCome, SumOf, SumOver
<1>2. \A q \in Requests : w[q] = 0
  BY DEF NoDues
<1> HIDE DEF w
<1> QED
  BY <1>1, <1>2, SumZero, ParticipationAssumption

LEMMA DayInit == Init => DayInv
<1> SUFFICES ASSUME Init PROVE DayInv
  OBVIOUS
<1> DEFINE w == [p \in Participants |-> [i \in Nat |-> 0]]
<1>1. w \in [Participants -> [Nat -> Nat]] /\ \A p \in Participants, i \in Nat : w[p][i] = 0
  OBVIOUS
<1> HIDE DEF w
<1>2. ASSUME NEW p \in Participants
      PROVE  /\ 1..Len(daily[p]) = {} /\ 1..Len(replica.daily[p]) = {}
             /\ SumOf(1..Len(daily[p]), w[p]) + ToCome(p) <= credited[p]
  <2>1. daily[p] = << >> /\ replica.daily[p] = << >> /\ credited[p] = 0
    BY DEF Init, Metrics
  <2>2. Len(<< >>) = 0 /\ 1..0 = {}
    OBVIOUS
  <2>3. 1..Len(daily[p]) = {} /\ 1..Len(replica.daily[p]) = {}
    BY <2>1, <2>2
  <2>4. SumOf({}, w[p]) = 0
    BY SumEmpty, SumsAreSums
  <2>5. ToCome(p) = 0
    <3>1. \A r \in Requests : request[r].pc = "rest"
      BY DEF Init, Rest, Fresh
    <3>2. \A r \in Requests : NoDues(request[r])
      BY <3>1, NotDue DEF HourSteps, DaySteps
    <3> QED
      BY <3>2, NothingToCome
  <2> QED
    BY <2>1, <2>3, <2>4, <2>5
<1>3. \A r \in Requests : ~At(r, "writeDay")
  BY DEF Init, Rest, Fresh, At
<1>4. Covers(w)
  BY <1>1, <1>2, <1>3 DEF Covers
<1> QED
  BY <1>4 DEF DayInv

\* A row that is found has no more than was written to it.
LEMMA FoundCovered ==
  ASSUME ScoreInv, RowsInv, NEW r \in Requests, FindDay(r), request'[r].pc = "writeDay",
         NEW w, Covers(w)
  PROVE  request'[r].metric.score <= w[request'[r].p][request'[r].id]
<1> DEFINE p == request[r].p
           n == request'[r].id
<1>1. p \in Participants /\ request[r].pc = "findDay"
  BY FindsDay
<1>2. To(r, "writeDay") /\ \E days \in {daily[p], replica.daily[p]} : n \in 1..Len(days) /\ request'[r].metric = days[n]
  BY FindsDay DEF To
<1>3. request'[r].p = p
  BY <1>2 DEF To
<1>4. \/ n \in 1..Len(daily[p]) /\ request'[r].metric = daily[p][n]
      \/ n \in 1..Len(replica.daily[p]) /\ request'[r].metric = replica.daily[p][n]
  BY <1>2
<1>5. request'[r].metric.score <= w[p][n]
  <2> HIDE DEF p, n
  <2>1. /\ \A i \in 1..Len(daily[p]) : daily[p][i].score <= w[p][i]
        /\ \A i \in 1..Len(replica.daily[p]) : replica.daily[p][i].score <= w[p][i]
    BY <1>1 DEF Covers
  <2> QED
    BY <1>4, <2>1, Zenon
<1> QED
  BY <1>3, <1>5

LEMMA DayNext == ScoreInv /\ RowsInv /\ RowsInv' /\ DayInv /\ [Next]_vars => DayInv'
<1> SUFFICES ASSUME ScoreInv, RowsInv, RowsInv', DayInv, [Next]_vars PROVE DayInv'
  OBVIOUS
<1>a. credited \in [Participants -> Nat]
  BY DEF ScoreInv, Numbers
<1>b. \A i \in Nat : i - i <= i - i /\ 0 - i <= 0
  OBVIOUS
<1>c. ASSUME NEW r \in Requests, Become(r, request'[r]), UNCHANGED <<daily, replica, credited>>,
             request'[r].pc # "writeDay" \/ FindDay(r),
             \A p \in Participants : Coming(request'[r], p) = Coming(request[r], p) \/ Coming(request'[r], p) = 0
      PROVE  DayInv'
  <2>1. \A p \in Participants : Coming(request'[r], p) - Coming(request[r], p) <= credited'[p] - credited[p]
    <3> SUFFICES ASSUME NEW p \in Participants
                 PROVE  Coming(request'[r], p) - Coming(request[r], p) <= credited[p] - credited[p]
      BY <1>c
    <3>1. Coming(request[r], p) \in Nat /\ credited[p] \in Nat
      BY <1>a, ComingNat
    <3>2. credited[p] - credited[p] = 0
      BY <3>1
    <3>3. Coming(request'[r], p) - Coming(request[r], p) <= 0
      BY <1>c, <3>1
    <3> QED
      BY <3>2, <3>3
  <2>2. \A w : Covers(w) /\ request'[r].pc = "writeDay" =>
                   request'[r].metric.score <= w[request'[r].p][request'[r].id]
    BY <1>c, FoundCovered
  <2> QED
    BY <1>a, <1>c, <2>1, <2>2, DayKept
<1>1. ASSUME NEW r \in Requests, Silent(r) PROVE DayInv'
  <2>1. /\ Become(r, request'[r]) /\ UNCHANGED <<daily, replica, credited>>
        /\ SameDues(request'[r], request[r])
        /\ request'[r].pc = "writeDay" => FindDay(r)
    BY <1>1, SilentSteps
  <2>2. \A p \in Participants : Coming(request'[r], p) = Coming(request[r], p)
    BY <2>1 DEF SameDues
  <2> QED
    BY <1>c, <2>1, <2>2
<1>2. ASSUME NEW r \in Requests, UpdateCampaign(r) PROVE DayInv'
  <2>1. To(r, "score") /\ NoDues(request[r]) /\ \A p \in Participants : Coming(request'[r], p) = 0
    BY <1>2, UpdatesCampaign
  <2>2. UNCHANGED <<daily, replica, credited>>
    BY <1>2 DEF UpdateCampaign
  <2> QED
    BY <1>c, <2>1, <2>2 DEF To
<1>3. ASSUME NEW r \in Requests, UpdateParticipant(r) PROVE DayInv'
  <2> DEFINE l == request[r]
  <2>1. /\ l.kind \in Actions /\ l.p \in Present
        /\ To(r, IF l.kind \in Tracked THEN "findHour" ELSE "findDay")
        /\ \A p \in Participants : Coming(l, p) = 0 /\ Coming(request'[r], p) = IF p = l.p THEN Points[l.kind] ELSE 0
        /\ credited' = [credited EXCEPT ![l.p] = @ + Points[l.kind]]
        /\ UNCHANGED <<daily, replica>>
    BY <1>3, UpdatesParticipant
  <2>2. Points[l.kind] \in Nat /\ l.p \in Participants
    BY <2>1, ActionPoints DEF Present
  <2>3. credited' \in [Participants -> Nat]
    BY <1>a, <2>1, <2>2
  <2>4. ASSUME NEW p \in Participants
        PROVE  Coming(request'[r], p) - Coming(request[r], p) <= credited'[p] - credited[p]
    <3>1. credited'[p] = credited[p] + (IF p = l.p THEN Points[l.kind] ELSE 0) /\ credited[p] \in Nat
      BY <1>a, <2>1, <2>2
    <3> QED
      BY <2>1, <2>2, <3>1
  <2>5. Become(r, request'[r]) /\ request'[r].pc # "writeDay"
    BY <2>1 DEF To
  <2> QED
    BY <2>1, <2>3, <2>4, <2>5, DayKept
<1>4. ASSUME NEW r \in Requests, WriteHour(r) PROVE DayInv'
  <2>1. /\ Become(r, request'[r]) /\ request'[r].pc # "writeDay"
        /\ \A p \in Participants : Coming(request[r], p) = Coming(request'[r], p)
    BY <1>4, WritesHour
  <2>2. UNCHANGED <<daily, replica, credited>>
    BY <1>4 DEF WriteHour
  <2> QED
    BY <1>c, <2>1, <2>2
<1>5. ASSUME NEW r \in Requests, NewSocialPost(r) \/ Reject(r) PROVE DayInv'
  <2>1. Anew(r, "rest", "none", Unused, Unused)
    BY <1>5, Edits DEF NewSocialPost, Reject
  <2>2. NoDues(request'[r])
    BY <2>1, NotDue DEF Anew, HourSteps, DaySteps
  <2>3. UNCHANGED <<daily, replica, credited>>
    BY <1>5 DEF NewSocialPost, Reject, database
  <2> QED
    BY <1>c, <2>1, <2>2, <2>3 DEF Anew, NoDues
<1>6. ASSUME UNCHANGED <<daily, credited, request>>, replica' \in {replica, Metrics} PROVE DayInv'
  <2>1. PICK w : Covers(w)
    BY DEF DayInv
  <2>2. \A p : ToCome(p)' = ToCome(p)
    BY <1>6 DEF ToCome
  <2>3. \A p \in Participants : replica'.daily[p] \in {replica.daily[p], daily[p]}
    BY <1>6 DEF Metrics
  <2>4. /\ w \in [Participants -> [Nat -> Nat]]
        /\ \A p \in Participants :
              /\ \A i \in 1..Len(daily[p]) : daily[p][i].score <= w[p][i]
              /\ \A i \in 1..Len(replica.daily[p]) : replica.daily[p][i].score <= w[p][i]
              /\ SumOf(1..Len(daily[p]), w[p]) + ToCome(p) <= credited[p]
        /\ \A r \in Requests :
              At(r, "writeDay") => request[r].metric.score <= w[request[r].p][request[r].id]
    BY <2>1 DEF Covers
  <2>5. \A p \in Participants : \A i \in 1..Len(replica'.daily[p]) : replica'.daily[p][i].score <= w[p][i]
    BY <2>3, <2>4
  <2>6. \A p \in Participants : SumOf(1..Len(daily'[p]), w[p]) + ToCome(p)' <= credited'[p]
    BY <1>6, <2>2, <2>4
  <2>7. \A r \in Requests : At(r, "writeDay")' => request'[r].metric.score <= w[request'[r].p][request'[r].id]
    BY <1>6, <2>4 DEF At
  <2>8. \A p \in Participants : \A i \in 1..Len(daily'[p]) : daily'[p][i].score <= w[p][i]
    BY <1>6, <2>4
  <2>9. Covers(w)'
    BY <2>4, <2>5, <2>6, <2>7, <2>8 DEF Covers
  <2> QED
    BY <2>9 DEF DayInv
<1>7. ASSUME CacheChanges \/ CampaignEnds \/ Replicate \/ UNCHANGED vars PROVE DayInv'
  BY <1>6, <1>7 DEF CacheChanges, CampaignEnds, Replicate, vars, database, history
<1> QED
  BY <1>1, <1>2, <1>3, <1>4, <1>5, <1>7, DayCreated, DayWritten DEF Next, Step, Silent

\* The points of the days never exceed what a participant was credited with
\* (DailyParticipantMetricService.upsertMetrics), and are those of the actions counted.
THEOREM DailyIsEarned == Spec => []DailyEarned
<1>1. ScoreInv /\ RowsInv /\ DayInv => DailyEarned
  <2> SUFFICES ASSUME ScoreInv, RowsInv, DayInv, NEW p \in Participants
               PROVE  /\ Total(daily[p]) <= credited[p]
                      /\ \A i \in DOMAIN daily[p] : daily[p][i].score = Worth(daily[p][i].count)
    BY DEF DailyEarned
  <2>1. PICK w : Covers(w)
    BY DEF DayInv
  <2> DEFINE days == daily[p]
             S == DOMAIN days
             f == [i \in S |-> days[i].score]
  <2>2. /\ Len(days) \in Nat /\ S = 1..Len(days)
        /\ \A i \in 1..Len(days) : days[i] \in DayRow
    BY DayTypes
  <2>3. \A i \in S : f[i] \in Nat /\ days[i].score = Worth(days[i].count)
    BY <2>2, RowScore
  <2>4. w \in [Participants -> [Nat -> Nat]]
    BY <2>1 DEF Covers
  <2>5. IsFiniteSet(S) /\ SumOf(S, w[p]) \in Nat /\ SumOf(S, w[p]) = SumOver(w[p], S) /\ \A i \in S : w[p][i] \in Nat
    BY <2>2, <2>4, SumOfWritten
  <2>6. \A i \in S : f[i] <= w[p][i]
    <3>1. \A i \in 1..Len(daily[p]) : daily[p][i].score <= w[p][i]
      BY <2>1 DEF Covers
    <3> QED
      BY <2>2, <3>1
  <2>7. SumOf(S, w[p]) + ToCome(p) <= credited[p] /\ ToCome(p) \in Nat /\ credited[p] \in Nat
    <3>1. SumOf(1..Len(daily[p]), w[p]) + ToCome(p) <= credited[p]
      BY <2>1 DEF Covers
    <3> QED
      BY <2>2, <3>1, ToComeNat DEF ScoreInv, Numbers
  <2>8. Total(days) = SumOver(f, S)
    BY SumsAreSums DEF Total
  <2>9. SumOver(f, S) <= SumOver(w[p], S) /\ SumOver(f, S) \in Nat
    <3> DEFINE g == w[p]
    <3>1. \A i \in S : f[i] \in Nat /\ g[i] \in Nat /\ f[i] <= g[i]
      BY <2>3, <2>5, <2>6
    <3> HIDE DEF S, f, g
    <3>2. \A i \in S : f[i] \in Int /\ g[i] \in Int /\ f[i] <= g[i]
      BY <3>1
    <3>3. SumOver(f, S) <= SumOver(g, S)
      BY <2>5, <3>2, SumOrder
    <3>4. SumOver(f, S) \in Nat
      BY <2>5, <3>1, SumNat
    <3> QED
      BY <3>3, <3>4 DEF g
  <2> HIDE DEF f, S, days
  <2>10. Total(days) <= credited[p]
    <3> DEFINE a == SumOver(f, S)
               b == SumOver(w[p], S)
               c == ToCome(p)
               d == credited[p]
    <3>1. a \in Nat /\ b \in Nat /\ c \in Nat /\ d \in Nat /\ a <= b /\ b + c <= d
      BY <2>5, <2>7, <2>9
    <3> HIDE DEF a, b, c, d
    <3>2. a <= d
      BY <3>1
    <3> QED
      BY <2>8, <3>2 DEF a, d
  <2> QED
    BY <2>3, <2>10 DEF S, days
<1> QED
  BY <1>1, ScoreInit, ScoreNext, RowsInit, RowsNext, DayInit, DayNext, PTL DEF Spec

-----------------------------------------------------------------------------
(* When nothing disturbs. *)

\* What a request has read is what is there.
Current(l) ==
    /\ l.pc \in Snapshots => l.p \in Present /\ l.seen = row[l.p]
    /\ l.pc \in {"fill", "total"} => l.total = total
    /\ l.pc = "writeHour" => l.id \in DOMAIN hourly /\ l.metric = hourly[l.id]
    /\ l.pc = "writeDay" => l.metric = daily[l.p][l.id]

\* The tables differ by what one request has still to write.
DaysOf(a) == SumOf(Participants, [p \in Participants |-> CountOf(a, daily[p])])
RowsAgree ==
    /\ \A p \in Present : row[p].score = credited[p]
    /\ \A p \in Participants : row[p] = Unused => credited[p] = 0
Balanced(l) ==
    /\ total = granted
    /\ granted = SumOf(Participants, credited) + ScoreDue(l)
    /\ RowsAgree
    /\ \A p \in Participants : Total(daily[p]) + Coming(l, p) = credited[p]
    /\ HourlyOf("post") = SumOf(Participants, posts) + PostDue(l)
    /\ \A a \in Tracked : HourlyOf(a) = DaysOf(a) + CountDue(l, a)

Alone(r) == \A q \in Requests \ {r} : At(q, "rest")
Orderly(r) == Alone(r) /\ Current(request[r]) /\ Balanced(request[r])

\* As long as nothing was disturbed at most one request is under way, what it read is
\* what is there, and the tables differ by what it has still to write.
HoursTyped == hourly \in Seq([Fields -> Int]) /\ posts \in [Participants -> Int]
QuietInv == ~disturbed => HoursTyped /\ \E r \in Requests : Orderly(r)

\* Where nothing is read yet, or no longer needed, there is nothing to agree with.
LEMMA NothingRead ==
  ASSUME NEW l, l.pc \notin Snapshots \cup {"writeHour", "writeDay"}
  PROVE  Current(l)
BY DEF Current, Snapshots

LEMMA NothingReadNext ==
  ASSUME NEW r, request'[r].pc \notin Snapshots \cup {"writeHour", "writeDay"}
  PROVE  Current(request[r])'
BY DEF Current, Snapshots

\* A request that moves, or begins while none is under way, is the one under way.
LEMMA Mover ==
  ASSUME QuietInv, ~disturbed, NEW r \in Requests, ~At(r, "rest") \/ Quiet
  PROVE  HoursTyped /\ Orderly(r)
<1>1. PICK s \in Requests : Orderly(s)
  BY DEF QuietInv
<1>2. CASE s = r
  BY <1>1, <1>2 DEF QuietInv
<1>3. CASE s # r
  <2>1. At(r, "rest") /\ Quiet
    BY <1>1, <1>3 DEF Orderly, Alone
  <2>2. request[r].pc = "rest" /\ request[s].pc = "rest" /\ Alone(r)
    BY <2>1 DEF Quiet, At, Alone
  <2>3. NoDues(request[r]) /\ NoDues(request[s]) /\ Current(request[r])
    BY <2>2, NotDue, NothingRead DEF HourSteps, DaySteps, Snapshots
  <2>4. SameDues(request[s], request[r])
    BY <2>3, Idle
  <2>5. Balanced(request[r])
    BY <1>1, <2>4 DEF Orderly, Balanced, SameDues
  <2> QED
    BY <2>2, <2>3, <2>5 DEF QuietInv, Orderly
<1> QED
  BY <1>2, <1>3

LEMMA StaysAlone ==
  ASSUME ScoreInv, NEW r \in Requests, Alone(r), Become(r, request'[r])
  PROVE  Alone(r)'
<1>1. \A q \in Requests \ {r} : request'[q] = request[q]
  BY DEF ScoreInv, SnapshotsEarned, Become
<1> QED
  BY <1>1 DEF Alone, At

\* A step that leaves the same to write, and the points and counts as they are.
LEMMA StaysBalanced ==
  ASSUME NEW r, Balanced(request[r]), SameDues(request'[r], request[r]),
         UNCHANGED <<total, granted, credited, posts>>, RowsAgree',
         \A p \in Participants : Total(daily'[p]) = Total(daily[p]),
         \A f \in Fields : HourlyOf(f)' = HourlyOf(f),
         \A a \in Tracked : DaysOf(a)' = DaysOf(a)
  PROVE  Balanced(request[r])'
<1>1. Tracked \subseteq Fields /\ "post" \in Fields
  BY DEF Fields
<1>2. \A p \in Participants : Coming(request'[r], p) = Coming(request[r], p)
  BY DEF SameDues
<1>3. /\ ScoreDue(request'[r]) = ScoreDue(request[r]) /\ PostDue(request'[r]) = PostDue(request[r])
      /\ \A a \in Tracked : CountDue(request'[r], a) = CountDue(request[r], a)
  BY DEF SameDues
<1>4. SumOf(Participants, credited)' = SumOf(Participants, credited) /\ SumOf(Participants, posts)' = SumOf(Participants, posts)
  OBVIOUS
<1>5. total' = granted' /\ granted' = SumOf(Participants, credited)' + ScoreDue(request'[r])
  BY <1>3, <1>4 DEF Balanced
<1>6. \A p \in Participants : Total(daily'[p]) + Coming(request'[r], p) = credited'[p]
  BY <1>2 DEF Balanced
<1>7. HourlyOf("post")' = SumOf(Participants, posts)' + PostDue(request'[r])
  BY <1>1, <1>3, <1>4 DEF Balanced
<1>8. \A a \in Tracked : HourlyOf(a)' = DaysOf(a)' + CountDue(request'[r], a)
  BY <1>1, <1>3 DEF Balanced
<1> QED
  BY <1>5, <1>6, <1>7, <1>8 DEF Balanced

LEMMA SameTables ==
  ASSUME NEW r, Balanced(request[r]), SameDues(request'[r], request[r]), UNCHANGED <<database, granted, credited>>
  PROVE  Balanced(request[r])'
<1>1. UNCHANGED <<total, row, hourly, daily, posts>>
  BY DEF database
<1>2. RowsAgree'
  BY <1>1 DEF Balanced, RowsAgree, Present
<1>3. \A f \in Fields : HourlyOf(f)' = HourlyOf(f)
  BY <1>1 DEF HourlyOf
<1>4. \A a \in Tracked : DaysOf(a)' = DaysOf(a)
  BY <1>1 DEF DaysOf
<1> QED
  BY <1>1, <1>2, <1>3, <1>4, StaysBalanced

\* The steps that write nothing: what they read is what is there, or it would disturb.
Reading(r) ==
    \/ ReadParticipant(r) \/ ReadCachedCampaign(r) \/ MissCampaign(r) \/ FillCache(r) \/ ReadCampaign(r)
    \/ FindHour(r) \/ FindDay(r)
    \/ Join(r) \/ Leave(r) \/ Post(r) \/ PostContentGlobally(r) \/ FindPoster(r)

LEMMA ReadsCurrent ==
  ASSUME ScoreInv, RowsInv, NEW r \in Requests, Reading(r), ~disturbed', Current(request[r]), UNCHANGED database
  PROVE  Current(request[r])'
<1> DEFINE l == request[r]
           m == request'[r]
<1>a. UNCHANGED <<total, row, hourly, daily>> /\ Present' = Present
  BY DEF database, Present
<1>1. CASE ReadParticipant(r)
  <2>1. PICK p \in Present, a \in Actions : Begin(r, Fresh("campaign", a, p, row[p]))
    BY <1>1 DEF ReadParticipant
  <2>2. Anew(r, "campaign", a, p, row[p])
    BY <2>1, Edits DEF Begin
  <2>3. m.pc = "campaign" /\ m.p \in Present' /\ m.seen = row'[m.p]
    BY <1>a, <2>2 DEF Anew
  <2> QED
    BY <2>3 DEF Current
<1>2. CASE ReadCachedCampaign(r) \/ MissCampaign(r) \/ ReadCampaign(r) \/ FillCache(r)
  <2>1. \E label \in {"total", "fill"} : To(r, label) /\ m.total = total
    <3>1. CASE ReadCachedCampaign(r)
      <4>1. cached = total
        BY <3>1 DEF ReadCachedCampaign
      <4>2. Become(r, [request[r] EXCEPT !.pc = "total", !.total = cached])
        BY <3>1 DEF ReadCachedCampaign
      <4> QED
        BY <4>1, <4>2, Edits
    <3>2. CASE MissCampaign(r) \/ ReadCampaign(r)
      <4>1. \E label \in {"total", "fill"} : Become(r, [request[r] EXCEPT !.pc = label, !.total = total])
        BY <3>2 DEF MissCampaign, ReadCampaign
      <4> QED
        BY <4>1, Edits
    <3>3. CASE FillCache(r)
      <4>1. Goto(r, "total") /\ l.pc = "fill"
        BY <3>3 DEF FillCache, At
      <4>2. l.total = total
        BY <4>1 DEF Current
      <4> QED
        BY <4>1, <4>2, Edits
    <3> QED
      BY <1>2, <3>1, <3>2, <3>3
  <2>2. l.pc \in {"campaign", "fill"}
    BY <1>2 DEF ReadCachedCampaign, MissCampaign, ReadCampaign, FillCache, At
  <2>3. l.p \in Present /\ l.seen = row[l.p]
    BY <2>2 DEF Current, Snapshots
  <2>4. m.pc \in {"total", "fill"} /\ m.p \in Present' /\ m.seen = row'[m.p] /\ m.total = total'
    BY <1>a, <2>1, <2>3 DEF To
  <2> QED
    BY <2>4 DEF Current
<1>3. CASE FindHour(r)
  <2>1. SeenMetrics.hourly = hourly
    <3>1. SeenMetrics = Metrics
      BY <1>3 DEF FindHour
    <3> QED
      BY <3>1 DEF Metrics
  <2>2. \/ Goto(r, "createHour")
        \/ \E i \in DOMAIN hourly : Become(r, [request[r] EXCEPT !.pc = "writeHour", !.id = i, !.metric = hourly[i]])
    BY <1>3, <2>1 DEF FindHour
  <2>3. CASE Goto(r, "createHour")
    <3>1. To(r, "createHour")
      BY <2>3, Edits
    <3> QED
      BY <3>1, NothingReadNext DEF To, Snapshots
  <2>4. CASE \E i \in DOMAIN hourly : Become(r, [request[r] EXCEPT !.pc = "writeHour", !.id = i, !.metric = hourly[i]])
    <3>1. \E i \in DOMAIN hourly : To(r, "writeHour") /\ m.id = i /\ m.metric = hourly[i]
      <4>1. \A i, h : Become(r, [request[r] EXCEPT !.pc = "writeHour", !.id = i, !.metric = h]) =>
               To(r, "writeHour") /\ m.id = i /\ m.metric = h
        BY Edits
      <4> QED
        BY <2>4, <4>1, Zenon
    <3>2. m.pc = "writeHour" /\ m.id \in DOMAIN hourly' /\ m.metric = hourly'[m.id]
      BY <1>a, <3>1 DEF To
    <3> QED
      BY <3>2 DEF Current, Snapshots
  <2> QED
    BY <2>2, <2>3, <2>4
<1>4. CASE FindDay(r)
  <2>1. SeenMetrics = Metrics
    BY <1>4 DEF FindDay
  <2>2. \/ To(r, "createDay")
        \/ To(r, "writeDay") /\ m.metric = daily[l.p][m.id]
    BY <1>4, <2>1, FindsDay
  <2>3. CASE To(r, "createDay")
    BY <2>3, NothingReadNext DEF To, Snapshots
  <2>4. CASE To(r, "writeDay") /\ m.metric = daily[l.p][m.id]
    <3>1. m.pc = "writeDay" /\ m.metric = daily'[m.p][m.id]
      BY <1>a, <2>4 DEF To
    <3> QED
      BY <3>1 DEF Current, Snapshots
  <2> QED
    BY <2>2, <2>3, <2>4
<1>5. CASE Join(r) \/ Leave(r) \/ Post(r) \/ PostContentGlobally(r)
  <2>1. \E label \in {"join", "findHour"} : \E kind, p, seen : Become(r, Fresh(label, kind, p, seen))
    BY <1>5 DEF Join, Leave, Post, PostContentGlobally, Begin
  <2>2. m.pc \in {"join", "findHour"}
    BY <2>1, Edits DEF Anew
  <2> QED
    BY <2>2, NothingReadNext DEF Snapshots
<1>6. CASE FindPoster(r)
  <2>1. To(r, "findHour")
    BY <1>6, Edits DEF FindPoster
  <2> QED
    BY <2>1, NothingReadNext DEF To, Snapshots
<1> QED
  BY <1>1, <1>2, <1>3, <1>4, <1>5, <1>6 DEF Reading

LEMMA QuietReads ==
  ASSUME ScoreInv, RowsInv, HoursTyped, NEW r \in Requests, Orderly(r), Reading(r), ~disturbed'
  PROVE  HoursTyped' /\ Orderly(r)'
<1>1. UNCHANGED database
  BY DEF Reading, ReadParticipant, ReadCachedCampaign, MissCampaign, FillCache, ReadCampaign, FindHour,
         FindDay, Join, Leave, Post, PostContentGlobally, FindPoster
<1>2. Silent(r)
  BY DEF Reading, Silent
<1>3. Become(r, request'[r]) /\ UNCHANGED <<granted, credited>> /\ SameDues(request'[r], request[r])
  BY <1>2, SilentSteps
<1>4. Current(request[r])'
  BY <1>1, ReadsCurrent DEF Orderly
<1>5. Balanced(request[r])'
  BY <1>1, <1>3, SameTables DEF Orderly
<1>6. Alone(r)'
  BY <1>3, StaysAlone DEF Orderly
<1> QED
  BY <1>1, <1>4, <1>5, <1>6 DEF HoursTyped, Orderly, database

-----------------------------------------------------------------------------
(* Sums over the rows of a table. *)

\* One row more, without weight.
Extended(n, f, g) == n \in Nat /\ g[n + 1] = 0 /\ \A i \in 1..n : f[i] \in Int /\ g[i] = f[i]
LEMMA SumExtended == \A n, f, g : Extended(n, f, g) => SumOf(1..(n + 1), g) = SumOf(1..n, f)
<1> SUFFICES ASSUME NEW n, NEW f, NEW g, Extended(n, f, g) PROVE SumOf(1..(n + 1), g) = SumOf(1..n, f)
  OBVIOUS
<1> DEFINE S == 1..n
<1>0. n \in Nat /\ g[n + 1] = 0 /\ \A i \in S : f[i] \in Int /\ g[i] = f[i]
  BY DEF Extended
<1>1. IsFiniteSet(S)
  <2>1. IsFiniteSet(1..n)
    BY <1>0, FS_Interval
  <2> QED
    BY <2>1
<1>m. PICK m : m = n + 1
  OBVIOUS
<1>2. 1..m = S \cup {m} /\ m \notin S
  BY <1>0, <1>m
<1> HIDE DEF S
<1>3. SumOf(S, f) = SumOver(f, S) /\ SumOf(1..m, g) = SumOver(g, S \cup {m})
  BY <1>2, SumsAreSums
<1>4. SumOver(g, S) = SumOver(f, S) /\ SumOver(f, S) \in Int
  BY <1>0, <1>1, SumSame, SumType
<1>5. g[m] = 0 /\ g[m] \in Int /\ \A i \in S : g[i] \in Int
  BY <1>0, <1>m
<1>6. SumOver(g, S \cup {m}) = SumOver(g, S) + g[m]
  BY <1>1, <1>2, <1>5, SumAdd
<1>7. SumOf(1..m, g) = SumOf(S, f)
  <2>1. SumOver(g, S) + 0 = SumOver(g, S)
    BY <1>4
  <2> QED
    BY <1>3, <1>4, <1>5, <1>6, <2>1, Zenon
<1> QED
  BY <1>7, <1>m DEF S

LEMMA SumEqual ==
  \A S, f, g : IsFiniteSet(S) /\ (\A i \in S : f[i] = g[i]) => SumOf(S, f) = SumOf(S, g)
<1> SUFFICES ASSUME NEW S, NEW f, NEW g, IsFiniteSet(S), \A i \in S : f[i] = g[i] PROVE SumOf(S, f) = SumOf(S, g)
  OBVIOUS
<1>1. SumOver(f, S) = SumOver(g, S)
  BY SumSame
<1> QED
  BY <1>1, SumsAreSums

LEMMA RowTyped == \A d \in DayRow : d.score \in Int /\ \A a \in Actions : d.count[a] \in Int
BY DEF DayRow

\* A new row of a day adds nothing, a row written what it has more than before.
LEMMA NewDayAdds ==
  ASSUME NEW days \in Seq(DayRow)
  PROVE  /\ Total(Append(days, NewDay)) = Total(days)
         /\ \A a \in Actions : CountOf(a, Append(days, NewDay)) = CountOf(a, days)
<1>1. PICK more : more = Append(days, NewDay)
  OBVIOUS
<1>2. PICK n \in Nat : n = Len(days)
  BY LenProperties
<1>3. /\ DOMAIN days = 1..n /\ DOMAIN more = 1..(n + 1) /\ more[n + 1] = NewDay
      /\ \A i \in 1..n : more[i] = days[i] /\ days[i] \in DayRow /\ i \in 1..(n + 1)
  <2>1. /\ Len(more) = n + 1 /\ more[n + 1] = NewDay /\ more \in Seq(DayRow)
        /\ \A i \in 1..n : more[i] = days[i]
    BY <1>1, <1>2, NewDayRow, AppendProperties
  <2>2. DOMAIN days = 1..n /\ DOMAIN more = 1..(n + 1)
    BY <1>2, <2>1, LenProperties
  <2>3. \A i \in 1..n : days[i] \in DayRow /\ i \in 1..(n + 1)
    BY <1>2, ElementOfSeq
  <2> QED
    BY <2>1, <2>2, <2>3
<1>4. n + 1 \in 1..(n + 1)
  BY <1>2
<1>5. Total(more) = Total(days)
  <2> DEFINE f == [i \in DOMAIN days |-> days[i].score]
             g == [i \in DOMAIN more |-> more[i].score]
  <2>1. Extended(n, f, g)
    <3>1. g[n + 1] = 0
      BY <1>3, <1>4, NewDayRow
    <3>2. \A i \in 1..n : f[i] \in Int /\ g[i] = f[i]
      BY <1>3, RowTyped
    <3> HIDE DEF f, g
    <3> QED
      BY <3>1, <3>2 DEF Extended
  <2>2. Total(more) = SumOf(DOMAIN more, g) /\ Total(days) = SumOf(DOMAIN days, f)
    BY DEF Total
  <2> HIDE DEF f, g
  <2>3. SumOf(1..(n + 1), g) = SumOf(1..n, f)
    BY <2>1, SumExtended
  <2> QED
    BY <1>3, <2>2, <2>3, Zenon
<1>6. ASSUME NEW a \in Actions PROVE CountOf(a, more) = CountOf(a, days)
  <2> DEFINE f == [i \in DOMAIN days |-> days[i].count[a]]
             g == [i \in DOMAIN more |-> more[i].count[a]]
  <2>1. Extended(n, f, g)
    <3>1. g[n + 1] = 0
      BY <1>3, <1>4, NewDayRow
    <3>2. \A i \in 1..n : f[i] \in Int /\ g[i] = f[i]
      BY <1>3, RowTyped
    <3> HIDE DEF f, g
    <3> QED
      BY <3>1, <3>2 DEF Extended
  <2>2. CountOf(a, more) = SumOf(DOMAIN more, g) /\ CountOf(a, days) = SumOf(DOMAIN days, f)
    BY DEF CountOf
  <2> HIDE DEF f, g
  <2>3. SumOf(1..(n + 1), g) = SumOf(1..n, f)
    BY <2>1, SumExtended
  <2> QED
    BY <1>3, <2>2, <2>3, Zenon
<1> QED
  BY <1>1, <1>5, <1>6

LEMMA WrittenDayAdds ==
  ASSUME NEW days \in Seq(DayRow), NEW n \in 1..Len(days), NEW d \in DayRow
  PROVE  /\ Total(days) \in Int
         /\ \A e \in Int : d.score = days[n].score + e => Total([days EXCEPT ![n] = d]) = Total(days) + e
         /\ \A a \in Actions : CountOf(a, days) \in Int
         /\ \A a \in Actions, e \in Int :
               d.count[a] = days[n].count[a] + e => CountOf(a, [days EXCEPT ![n] = d]) = CountOf(a, days) + e
<1> DEFINE new == [days EXCEPT ![n] = d]
           S == DOMAIN days
<1>1. /\ S = 1..Len(days) /\ Len(days) \in Nat
  BY LenProperties
<1>2. DOMAIN new = S /\ new[n] = d /\ n \in S /\ \A i \in S \ {n} : new[i] = days[i]
  BY <1>1, ExceptSeq
<1>3. IsFiniteSet(S)
  <2>1. IsFiniteSet(1..Len(days))
    BY <1>1, FS_Interval
  <2> QED
    BY <1>1, <2>1, Zenon
<1>4. \A i \in S : days[i] \in DayRow /\ new[i] \in DayRow
  <2>1. \A i \in S : days[i] \in DayRow
    BY <1>1, ElementOfSeq
  <2> HIDE DEF new, S
  <2> QED
    BY <1>2, <2>1
<1> HIDE DEF new, S
<1>5. Total(days) \in Int /\ \A e \in Int : d.score = days[n].score + e => Total(new) = Total(days) + e
  <2> DEFINE f == [i \in S |-> days[i].score]
             g == [i \in S |-> new[i].score]
  <2>1. Total(days) = SumOf(S, f) /\ Total(new) = SumOf(S, g)
    BY <1>2 DEF Total, S
  <2>2. \A i \in S : f[i] \in Int /\ g[i] \in Int
    BY <1>4, RowTyped
  <2>3. f[n] = days[n].score /\ g[n] = d.score /\ \A i \in S \ {n} : g[i] = f[i]
    BY <1>2
  <2> HIDE DEF f, g
  <2>4. SumOf(S, f) \in Int
    BY <1>3, <2>2, SumType, SumsAreSums
  <2>5. ASSUME NEW e \in Int, d.score = days[n].score + e PROVE SumOf(S, g) = SumOf(S, f) + e
    <3>1. Differ(S, g, f, n, e)
      BY <1>2, <1>3, <2>2, <2>3, <2>5 DEF Differ
    <3> QED
      BY <3>1, SumUp
  <2> QED
    BY <2>1, <2>4, <2>5
<1>6. ASSUME NEW a \in Actions
      PROVE  CountOf(a, days) \in Int
             /\ \A e \in Int : d.count[a] = days[n].count[a] + e => CountOf(a, new) = CountOf(a, days) + e
  <2> DEFINE f == [i \in S |-> days[i].count[a]]
             g == [i \in S |-> new[i].count[a]]
  <2>1. CountOf(a, days) = SumOf(S, f) /\ CountOf(a, new) = SumOf(S, g)
    BY <1>2 DEF CountOf, S
  <2>2. \A i \in S : f[i] \in Int /\ g[i] \in Int
    BY <1>4, RowTyped
  <2>3. f[n] = days[n].count[a] /\ g[n] = d.count[a] /\ \A i \in S \ {n} : g[i] = f[i]
    BY <1>2
  <2> HIDE DEF f, g
  <2>4. SumOf(S, f) \in Int
    BY <1>3, <2>2, SumType, SumsAreSums
  <2>5. ASSUME NEW e \in Int, d.count[a] = days[n].count[a] + e PROVE SumOf(S, g) = SumOf(S, f) + e
    <3>1. Differ(S, g, f, n, e)
      BY <1>2, <1>3, <2>2, <2>3, <2>5 DEF Differ
    <3> QED
      BY <3>1, SumUp
  <2> QED
    BY <2>1, <2>4, <2>5
<1> QED
  BY <1>5, <1>6 DEF new

LEMMA PlacesFinite == ASSUME NEW T, NEW s \in Seq(T) PROVE IsFiniteSet(DOMAIN s)
<1>1. DOMAIN s = 1..Len(s) /\ Len(s) \in Nat
  BY LenProperties
<1>2. IsFiniteSet(1..Len(s))
  BY <1>1, FS_Interval
<1> QED
  BY <1>1, <1>2, Zenon

\* The same of the hours.
LEMMA NewHourRow == NewHour \in [Fields -> Int] /\ \A f \in Fields : NewHour[f] = 0
BY DEF NewHour

LEMMA NewHourAdds ==
  ASSUME HoursTyped, hourly' = Append(hourly, NewHour)
  PROVE  /\ hourly' \in Seq([Fields -> Int])
         /\ Len(hourly) + 1 \in DOMAIN hourly' /\ hourly'[Len(hourly) + 1] = NewHour
         /\ \A f \in Fields : HourlyOf(f)' = HourlyOf(f)
<1>1. hourly \in Seq([Fields -> Int])
  BY DEF HoursTyped
<1>2. PICK n \in Nat : n = Len(hourly)
  BY <1>1, LenProperties
<1>3. /\ DOMAIN hourly = 1..n /\ DOMAIN hourly' = 1..(n + 1) /\ hourly'[n + 1] = NewHour
      /\ hourly' \in Seq([Fields -> Int])
      /\ \A i \in 1..n : hourly'[i] = hourly[i] /\ hourly[i] \in [Fields -> Int] /\ i \in 1..(n + 1)
  <2>1. /\ Len(hourly') = n + 1 /\ hourly'[n + 1] = NewHour /\ hourly' \in Seq([Fields -> Int])
        /\ \A i \in 1..n : hourly'[i] = hourly[i]
    BY <1>1, <1>2, NewHourRow, AppendProperties
  <2>2. DOMAIN hourly = 1..n /\ DOMAIN hourly' = 1..(n + 1)
    BY <1>1, <1>2, <2>1, LenProperties
  <2>3. \A i \in 1..n : hourly[i] \in [Fields -> Int] /\ i \in 1..(n + 1)
    BY <1>1, <1>2, ElementOfSeq
  <2> QED
    BY <2>1, <2>2, <2>3
<1>4. n + 1 \in 1..(n + 1)
  BY <1>2
<1>5. ASSUME NEW a \in Fields PROVE HourlyOf(a)' = HourlyOf(a)
  <2> DEFINE f == [i \in DOMAIN hourly |-> hourly[i][a]]
             g == [i \in DOMAIN hourly' |-> hourly'[i][a]]
  <2>1. Extended(n, f, g)
    <3>1. g[n + 1] = 0
      BY <1>3, <1>4, NewHourRow
    <3>2. \A i \in 1..n : f[i] \in Int /\ g[i] = f[i]
      BY <1>3
    <3> HIDE DEF f, g
    <3> QED
      BY <3>1, <3>2 DEF Extended
  <2>2. HourlyOf(a)' = SumOf(DOMAIN hourly', g) /\ HourlyOf(a) = SumOf(DOMAIN hourly, f)
    BY DEF HourlyOf
  <2> HIDE DEF f, g
  <2>3. SumOf(1..(n + 1), g) = SumOf(1..n, f)
    BY <2>1, SumExtended
  <2> QED
    BY <1>3, <2>2, <2>3, Zenon
<1> QED
  BY <1>2, <1>3, <1>4, <1>5

LEMMA HourlyInt == ASSUME HoursTyped PROVE \A a \in Fields : HourlyOf(a) \in Int
<1> SUFFICES ASSUME NEW a \in Fields PROVE HourlyOf(a) \in Int
  OBVIOUS
<1> DEFINE f == [i \in DOMAIN hourly |-> hourly[i][a]]
           S == DOMAIN hourly
<1>1. HourlyOf(a) = SumOver(f, S)
  BY SumsAreSums DEF HourlyOf
<1>2. hourly \in Seq([Fields -> Int])
  BY DEF HoursTyped
<1>3. S = 1..Len(hourly) /\ Len(hourly) \in Nat
  BY <1>2, LenProperties
<1>4. \A i \in S : hourly[i] \in [Fields -> Int]
  BY <1>2, <1>3, ElementOfSeq
<1>5. \A i \in S : f[i] \in Int
  BY <1>4
<1>6. IsFiniteSet(S)
  <2>1. IsFiniteSet(1..Len(hourly))
    BY <1>3, FS_Interval
  <2> QED
    BY <1>3, <2>1, Zenon
<1> HIDE DEF f, S
<1> QED
  BY <1>1, <1>5, <1>6, SumType

LEMMA WrittenHourAdds ==
  ASSUME HoursTyped, NEW n \in DOMAIN hourly, NEW c \in Fields, NEW e \in Int,
         hourly' = [hourly EXCEPT ![n][c] = hourly[n][c] + e]
  PROVE  /\ hourly' \in Seq([Fields -> Int])
         /\ HourlyOf(c)' = HourlyOf(c) + e
         /\ \A a \in Fields : a # c => HourlyOf(a)' = HourlyOf(a)
<1> DEFINE S == DOMAIN hourly
<1>1. hourly \in Seq([Fields -> Int])
  BY DEF HoursTyped
<1>2. S = 1..Len(hourly) /\ Len(hourly) \in Nat
  BY <1>1, LenProperties
<1>3. \A i \in S : hourly[i] \in [Fields -> Int]
  BY <1>1, <1>2, ElementOfSeq
<1>4. PICK h : h = [hourly[n] EXCEPT ![c] = hourly[n][c] + e]
  OBVIOUS
<1>5. h \in [Fields -> Int] /\ h[c] = hourly[n][c] + e /\ \A a \in Fields : a # c => h[a] = hourly[n][a]
  <2>1. hourly[n] \in [Fields -> Int]
    BY <1>3
  <2> QED
    BY <1>4, <2>1
<1>6. hourly' = [hourly EXCEPT ![n] = h]
  BY <1>4
<1>7. hourly' \in Seq([Fields -> Int])
  BY <1>1, <1>2, <1>5, <1>6, ExceptSeq
<1>8. DOMAIN hourly' = S /\ hourly'[n] = h /\ n \in S /\ \A i \in S \ {n} : hourly'[i] = hourly[i]
  BY <1>6
<1>9. IsFiniteSet(S)
  BY <1>1, PlacesFinite
<1>10. \A i \in S : hourly'[i] \in [Fields -> Int]
  BY <1>3, <1>5, <1>8
<1> HIDE DEF S
<1>11. ASSUME NEW a \in Fields
       PROVE  /\ a = c => HourlyOf(a)' = HourlyOf(a) + e
              /\ a # c => HourlyOf(a)' = HourlyOf(a)
  <2> DEFINE f == [i \in S |-> hourly[i][a]]
             g == [i \in S |-> hourly'[i][a]]
  <2>1. HourlyOf(a)' = SumOf(S, g) /\ HourlyOf(a) = SumOf(S, f)
    BY <1>8 DEF HourlyOf, S
  <2>2. \A i \in S : f[i] \in Int /\ g[i] \in Int
    BY <1>3, <1>10
  <2>3. f[n] = hourly[n][a] /\ g[n] = h[a] /\ \A i \in S \ {n} : g[i] = f[i]
    BY <1>8
  <2> HIDE DEF f, g
  <2>4. CASE a = c
    <3>1. Differ(S, g, f, n, e)
      BY <1>5, <1>8, <1>9, <2>2, <2>3, <2>4 DEF Differ
    <3> QED
      BY <2>1, <2>4, <3>1, SumUp
  <2>5. CASE a # c
    <3>1. \A i \in S : g[i] = f[i]
      BY <1>5, <2>3, <2>5
    <3> QED
      BY <1>9, <2>1, <2>5, <3>1, SumEqual
  <2> QED
    BY <2>4, <2>5
<1> QED
  BY <1>7, <1>11

-----------------------------------------------------------------------------
(* The steps that write. *)

LEMMA RowsNumbers ==
  ASSUME ScoreInv
  PROVE  /\ DOMAIN row = Participants /\ \A p \in Present : p \in Participants /\ row[p] \in Row
         /\ credited \in [Participants -> Nat] /\ total \in Nat /\ granted \in Nat
BY DEF ScoreInv, Numbers, Present

LEMMA RowsStayAgreed == ASSUME RowsAgree, UNCHANGED <<row, credited>> PROVE RowsAgree'
BY DEF RowsAgree, Present

LEMMA QuietCreateHour ==
  ASSUME ScoreInv, RowsInv, HoursTyped, NEW r \in Requests, Orderly(r), CreateHour(r)
  PROVE  HoursTyped' /\ Orderly(r)'
<1> DEFINE n == Len(hourly) + 1
<1>1. hourly' = Append(hourly, NewHour) /\ UNCHANGED <<total, row, daily, posts, granted, credited>>
  BY DEF CreateHour
<1>2. /\ hourly' \in Seq([Fields -> Int]) /\ n \in DOMAIN hourly' /\ hourly'[n] = NewHour
      /\ \A f \in Fields : HourlyOf(f)' = HourlyOf(f)
  BY <1>1, NewHourAdds
<1>3. Become(r, request'[r]) /\ SameDues(request'[r], request[r])
  BY SilentSteps DEF Silent
<1>4. RowsAgree' /\ (\A a \in Tracked : DaysOf(a)' = DaysOf(a)) /\ \A p \in Participants : Total(daily'[p]) = Total(daily[p])
  <2>1. RowsAgree'
    BY <1>1, RowsStayAgreed DEF Orderly, Balanced
  <2> QED
    BY <1>1, <2>1 DEF DaysOf
<1>5. Balanced(request[r])'
  BY <1>1, <1>2, <1>3, <1>4, StaysBalanced DEF Orderly
<1>6. Current(request[r])'
  <2>1. Become(r, [request[r] EXCEPT !.pc = "writeHour", !.id = n, !.metric = NewHour])
    BY DEF CreateHour
  <2> HIDE DEF n
  <2>2. \A i, h : Become(r, [request[r] EXCEPT !.pc = "writeHour", !.id = i, !.metric = h]) =>
           To(r, "writeHour") /\ request'[r].id = i /\ request'[r].metric = h
    BY Edits
  <2>3. To(r, "writeHour") /\ request'[r].id = n /\ request'[r].metric = NewHour
    BY <2>1, <2>2, Zenon
  <2> QED
    BY <1>2, <2>3 DEF To, Current, Snapshots
<1>7. Alone(r)'
  BY <1>3, StaysAlone DEF Orderly
<1> QED
  BY <1>1, <1>2, <1>5, <1>6, <1>7 DEF HoursTyped, Orderly

LEMMA QuietCreateDay ==
  ASSUME ScoreInv, RowsInv, HoursTyped, NEW r \in Requests, Orderly(r), CreateDay(r)
  PROVE  HoursTyped' /\ Orderly(r)'
<1> DEFINE p == request[r].p
           n == Len(daily[p])
<1>1. /\ p \in Participants /\ To(r, "writeDay")
      /\ request'[r].id = n + 1 /\ request'[r].metric = NewDay
      /\ daily' = [daily EXCEPT ![p] = Append(daily[p], NewDay)] /\ daily[p] \in Seq(DayRow)
  BY CreatesDay
<1>2. UNCHANGED <<total, row, hourly, posts, granted, credited>>
  BY DEF CreateDay
<1>3. daily'[p] = Append(daily[p], NewDay) /\ \A q \in Participants : q # p => daily'[q] = daily[q]
  BY <1>1 DEF RowsInv
<1>4. Become(r, request'[r]) /\ SameDues(request'[r], request[r]) /\ request'[r].p = p /\ request'[r].pc = "writeDay"
  BY <1>1, DayDues DEF To
<1>5. daily'[p][n + 1] = NewDay
  BY <1>1, <1>3, NewDayRow, AppendProperties
<1> HIDE DEF n, p
<1>6. ASSUME NEW q \in Participants
      PROVE  Total(daily'[q]) = Total(daily[q]) /\ \A a \in Actions : CountOf(a, daily'[q]) = CountOf(a, daily[q])
  BY <1>1, <1>3, NewDayAdds
<1>7. ASSUME NEW a \in Tracked PROVE DaysOf(a)' = DaysOf(a)
  <2> DEFINE f == [q \in Participants |-> CountOf(a, daily[q])]
             g == [q \in Participants |-> CountOf(a, daily'[q])]
  <2>1. DaysOf(a)' = SumOf(Participants, g) /\ DaysOf(a) = SumOf(Participants, f)
    BY DEF DaysOf
  <2>2. \A q \in Participants : f[q] = g[q]
    BY <1>6 DEF Actions
  <2> HIDE DEF f, g
  <2> QED
    BY <2>1, <2>2, SumEqual, ParticipationAssumption
<1>8. \A f \in Fields : HourlyOf(f)' = HourlyOf(f)
  BY <1>2 DEF HourlyOf
<1>9. RowsAgree'
  BY <1>2, RowsStayAgreed DEF Orderly, Balanced
<1>10. Balanced(request[r])'
  BY <1>2, <1>4, <1>6, <1>7, <1>8, <1>9, StaysBalanced DEF Orderly
<1>11. Current(request[r])'
  <2>1. request'[r].metric = daily'[request'[r].p][request'[r].id]
    BY <1>1, <1>4, <1>5 DEF n, p
  <2> QED
    BY <1>4, <2>1 DEF Current, Snapshots
<1>12. Alone(r)'
  BY <1>4, StaysAlone DEF Orderly
<1> QED
  BY <1>2, <1>10, <1>11, <1>12 DEF HoursTyped, Orderly

LEMMA QuietMembers ==
  ASSUME ScoreInv, RowsInv, HoursTyped, NEW r \in Requests, Orderly(r), CreateParticipant(r) \/ RemoveParticipant(r)
  PROVE  HoursTyped' /\ Orderly(r)'
<1>1. UNCHANGED <<total, hourly, daily, posts, granted, credited>>
  BY DEF CreateParticipant, RemoveParticipant
<1>2. Become(r, request'[r]) /\ SameDues(request'[r], request[r])
  BY SilentSteps DEF Silent
<1>3. request'[r].pc \in {"rest", "participant"}
  <2>1. CASE CreateParticipant(r)
    <3>1. PICK p \in Participants :
             Become(r, IF request[r].kind = "join" THEN Rest
                       ELSE [request[r] EXCEPT !.pc = "participant", !.p = p])
      BY <2>1 DEF CreateParticipant
    <3>2. CASE request[r].kind = "join"
      BY <3>1, <3>2, Edits DEF Anew
    <3>3. CASE request[r].kind # "join"
      <4>1. Become(r, [request[r] EXCEPT !.pc = "participant", !.p = p])
        BY <3>1, <3>3
      <4>2. Anew(r, "participant", request[r].kind, p, request[r].seen)
        BY <4>1, Edits
      <4> QED
        BY <4>2 DEF Anew
    <3> QED
      BY <3>2, <3>3
  <2>2. CASE RemoveParticipant(r)
    <3>1. Become(r, Rest)
      BY <2>2 DEF RemoveParticipant
    <3> QED
      BY <3>1, Edits DEF Anew
  <2> QED
    BY <2>1, <2>2
<1>4. RowsAgree'
  <2>0. RowsAgree /\ DOMAIN row = Participants
    BY RowsNumbers DEF Orderly, Balanced
  <2>1. CASE CreateParticipant(r)
    <3>1. PICK p \in Participants : row[p] = Unused /\ row' = [row EXCEPT ![p] = request[r].seen] /\ At(r, "join")
      BY <2>1 DEF CreateParticipant
    <3>2. request[r].seen.score = 0 /\ request[r].seen \in Row
      BY <3>1 DEF ScoreInv, SnapshotsEarned, SnapshotEarned, At
    <3>3. credited[p] = 0 /\ row'[p] = request[r].seen /\ \A q \in Participants : q # p => row'[q] = row[q]
      BY <2>0, <3>1 DEF RowsAgree
    <3> QED
      BY <1>1, <2>0, <3>2, <3>3 DEF RowsAgree, Present
  <2>2. CASE RemoveParticipant(r)
    <3> DEFINE p == request[r].p
    <3>1. p \in Present /\ row' = [row EXCEPT ![p] = Gone]
      BY <2>2 DEF RemoveParticipant
    <3>2. row'[p] = Gone /\ \A q \in Participants : q # p => row'[q] = row[q]
      BY <2>0, <3>1 DEF Present
    <3> QED
      BY <1>1, <2>0, <3>2, ParticipationAssumption DEF RowsAgree, Present
  <2> QED
    BY <2>1, <2>2
<1>5. (\A f \in Fields : HourlyOf(f)' = HourlyOf(f)) /\ (\A a \in Tracked : DaysOf(a)' = DaysOf(a))
      /\ \A p \in Participants : Total(daily'[p]) = Total(daily[p])
  BY <1>1 DEF HourlyOf, DaysOf
<1>6. Balanced(request[r])'
  BY <1>1, <1>2, <1>4, <1>5, StaysBalanced DEF Orderly
<1>7. Current(request[r])'
  BY <1>3, NothingReadNext DEF Snapshots
<1>8. Alone(r)'
  BY <1>2, StaysAlone DEF Orderly
<1> QED
  BY <1>1, <1>6, <1>7, <1>8 DEF HoursTyped, Orderly

LEMMA TotalInt == \A days \in Seq(DayRow) : Total(days) \in Int /\ \A a \in Actions : CountOf(a, days) \in Int
<1> SUFFICES ASSUME NEW days \in Seq(DayRow) PROVE Total(days) \in Int /\ \A a \in Actions : CountOf(a, days) \in Int
  OBVIOUS
<1> DEFINE S == DOMAIN days
<1>1. IsFiniteSet(S)
  BY PlacesFinite
<1>2. \A i \in S : days[i] \in DayRow
  <2>1. S = 1..Len(days)
    BY LenProperties
  <2> QED
    BY <2>1, ElementOfSeq
<1>3. Total(days) \in Int
  <2> DEFINE f == [i \in S |-> days[i].score]
  <2>1. Total(days) = SumOver(f, S)
    BY SumsAreSums DEF Total
  <2>2. \A i \in S : f[i] \in Int
    BY <1>2, RowTyped
  <2> HIDE DEF f, S
  <2> QED
    BY <1>1, <2>1, <2>2, SumType
<1>4. ASSUME NEW a \in Actions PROVE CountOf(a, days) \in Int
  <2> DEFINE f == [i \in S |-> days[i].count[a]]
  <2>1. CountOf(a, days) = SumOver(f, S)
    BY SumsAreSums DEF CountOf
  <2>2. \A i \in S : f[i] \in Int
    BY <1>2, RowTyped
  <2> HIDE DEF f, S
  <2> QED
    BY <1>1, <2>1, <2>2, SumType
<1> QED
  BY <1>3, <1>4

LEMMA QuietUpdateCampaign ==
  ASSUME ScoreInv, RowsInv, HoursTyped, NEW r \in Requests, Orderly(r), UpdateCampaign(r)
  PROVE  HoursTyped' /\ Orderly(r)'
<1> DEFINE l == request[r]
           m == request'[r]
           e == Points[l.kind]
<1>1. /\ l.pc = "total" /\ To(r, "score") /\ l.kind \in Actions
      /\ NoDues(l) /\ ScoreDue(m) = e /\ PostDue(m) = 0
      /\ \A p \in Participants : Coming(m, p) = 0
      /\ \A a \in Tracked : CountDue(m, a) = 0
  BY UpdatesCampaign
<1>2. /\ total' = l.total + e /\ granted' = granted + e
      /\ UNCHANGED <<row, hourly, daily, posts, credited>>
  BY DEF UpdateCampaign, Earned
<1>3. l.total = total /\ l.p \in Present /\ l.seen = row[l.p]
  BY <1>1 DEF Orderly, Current, Snapshots
<1>4. /\ \A p \in Participants : Coming(l, p) = 0
      /\ ScoreDue(l) = 0 /\ PostDue(l) = 0 /\ \A a \in Tracked : CountDue(l, a) = 0
  BY <1>1 DEF NoDues
<1> HIDE DEF e
<1>5. e \in Nat
  BY <1>1, ActionPoints DEF e
<1>6. /\ total = granted /\ granted = SumOf(Participants, credited) + 0 /\ RowsAgree
      /\ \A p \in Participants : Total(daily[p]) + 0 = credited[p]
      /\ HourlyOf("post") = SumOf(Participants, posts) + 0
      /\ \A a \in Tracked : HourlyOf(a) = DaysOf(a) + 0
  BY <1>4 DEF Orderly, Balanced
<1>7. total' = granted' /\ granted' = SumOf(Participants, credited) + e
  <2>1. granted \in Nat /\ SumOf(Participants, credited) \in Int
    <3>1. IsFiniteSet(Participants) /\ \A p \in Participants : credited[p] \in Int
      BY RowsNumbers, ParticipationAssumption
    <3> QED
      BY <3>1, RowsNumbers, SumType, SumsAreSums
  <2>2. granted = SumOf(Participants, credited)
    BY <1>6, <2>1
  <2> QED
    BY <1>2, <1>3, <1>6, <2>2
<1>8. RowsAgree' /\ (\A f \in Fields : HourlyOf(f)' = HourlyOf(f)) /\ \A a \in Tracked : DaysOf(a)' = DaysOf(a)
  BY <1>2, <1>6, RowsStayAgreed DEF HourlyOf, DaysOf
<1>9. Balanced(request[r])'
  <2>1. total' = granted' /\ granted' = SumOf(Participants, credited') + ScoreDue(m)
    BY <1>1, <1>2, <1>7 DEF e
  <2>2. \A p \in Participants : Total(daily'[p]) + Coming(m, p) = credited'[p]
    BY <1>1, <1>2, <1>6
  <2>3. HourlyOf("post")' = SumOf(Participants, posts') + PostDue(m)
    BY <1>1, <1>2, <1>6, <1>8 DEF Fields
  <2>4. \A a \in Tracked : HourlyOf(a)' = DaysOf(a)' + CountDue(m, a)
    BY <1>1, <1>6, <1>8 DEF Fields
  <2> QED
    BY <1>8, <2>1, <2>2, <2>3, <2>4 DEF Balanced
<1>10. Current(request[r])'
  <2>1. m.pc = "score" /\ m.p \in Present' /\ m.seen = row'[m.p]
    BY <1>1, <1>2, <1>3 DEF To, Present
  <2> QED
    BY <2>1 DEF Current
<1>11. Alone(r)'
  BY <1>1, StaysAlone DEF Orderly, To
<1> QED
  BY <1>2, <1>9, <1>10, <1>11 DEF HoursTyped, Orderly

LEMMA QuietUpdateParticipant ==
  ASSUME ScoreInv, RowsInv, HoursTyped, NEW r \in Requests, Orderly(r), UpdateParticipant(r)
  PROVE  HoursTyped' /\ Orderly(r)'
<1> DEFINE l == request[r]
           m == request'[r]
           e == Points[l.kind]
<1>1. /\ l.pc = "score" /\ l.kind \in Actions /\ l.p \in Present /\ l.seen \in Row
      /\ To(r, IF l.kind \in Tracked THEN "findHour" ELSE "findDay")
      /\ ScoreDue(l) = e /\ PostDue(l) = 0 /\ ScoreDue(m) = 0 /\ PostDue(m) = 0
      /\ \A p \in Participants : Coming(l, p) = 0 /\ Coming(m, p) = IF p = l.p THEN e ELSE 0
      /\ \A a \in Tracked : CountDue(l, a) = 0 /\ CountDue(m, a) = 0
      /\ credited' = [credited EXCEPT ![l.p] = @ + e]
      /\ UNCHANGED <<total, hourly, daily, posts, granted>>
  BY UpdatesParticipant
<1>2. /\ row'[l.p].score = l.seen.score + e /\ row'[l.p] \in Row
      /\ \A q \in Participants : q # l.p => row'[q] = row[q]
  <2>1. row' = [row EXCEPT ![l.p].score = l.seen.score + e,
                           ![l.p].count = Counted(@, l.seen.count, l.kind)]
    BY DEF UpdateParticipant, Earned
  <2>2. row[l.p] \in Row /\ DOMAIN row = Participants /\ l.p \in Participants
    BY <1>1, RowsNumbers
  <2>3. \A q \in Participants : q # l.p => row'[q] = row[q]
    BY <2>1, <2>2
  <2> DEFINE n == l.seen.score + e
             c == Counted(row[l.p].count, l.seen.count, l.kind)
  <2>4. n \in Nat /\ c \in [Actions -> Nat]
    <3>1. row[l.p].count \in [Actions -> Nat] /\ l.seen.count \in [Actions -> Nat] /\ l.seen.score \in Nat
      BY <1>1, <2>2 DEF Row
    <3>2. c \in [Actions -> Nat]
      BY <1>1, <3>1, CountedTyped
    <3> QED
      BY <1>1, <3>1, <3>2, ActionPoints
  <2>5. row'[l.p] = [row[l.p] EXCEPT !.score = n, !.count = c]
    BY <2>1, <2>2
  <2> HIDE DEF n, c
  <2>6. row'[l.p].score = n /\ row'[l.p] \in Row
    BY <2>2, <2>4, <2>5 DEF Row
  <2> QED
    BY <2>3, <2>6 DEF n
<1>3. l.seen = row[l.p] /\ l.p \in Participants
  BY <1>1, RowsNumbers DEF Orderly, Current, Snapshots
<1> HIDE DEF e
<1>4. e \in Nat
  BY <1>1, ActionPoints DEF e
<1>5. /\ total = granted /\ granted = SumOf(Participants, credited) + e /\ RowsAgree
      /\ \A p \in Participants : Total(daily[p]) + 0 = credited[p]
      /\ HourlyOf("post") = SumOf(Participants, posts) + 0
      /\ \A a \in Tracked : HourlyOf(a) = DaysOf(a) + 0
  BY <1>1 DEF Orderly, Balanced
<1>6. credited \in [Participants -> Nat] /\ IsFiniteSet(Participants) /\ DOMAIN row = Participants
  BY RowsNumbers, ParticipationAssumption
<1>7. /\ credited'[l.p] = credited[l.p] + e /\ \A q \in Participants : q # l.p => credited'[q] = credited[q]
      /\ \A q \in Participants : credited[q] \in Int /\ credited'[q] \in Int
  BY <1>1, <1>3, <1>4, <1>6 DEF e
<1>8. SumOf(Participants, credited') = SumOf(Participants, credited) + e /\ SumOf(Participants, credited) \in Int
  <2>1. Differ(Participants, credited', credited, l.p, e)
    BY <1>3, <1>4, <1>6, <1>7 DEF Differ
  <2> QED
    BY <2>1, SumUp
<1>9. RowsAgree'
  <2>1. row'[l.p].score = credited'[l.p]
    BY <1>1, <1>2, <1>3, <1>5, <1>7 DEF RowsAgree
  <2>2. \A q \in Participants : q # l.p => row'[q] = row[q] /\ credited'[q] = credited[q]
    BY <1>2, <1>7
  <2>3. row'[l.p] # Unused
    BY <1>2, ParticipationAssumption
  <2> QED
    BY <1>5, <2>1, <2>2, <2>3 DEF RowsAgree, Present
<1>10. Balanced(request[r])'
  <2>1. total' = granted' /\ granted' = SumOf(Participants, credited') + ScoreDue(m)
    <3>1. SumOf(Participants, credited') + 0 = SumOf(Participants, credited')
      BY <1>4, <1>8
    <3> QED
      BY <1>1, <1>5, <1>8, <3>1
  <2>2. ASSUME NEW p \in Participants PROVE Total(daily'[p]) + Coming(m, p) = credited'[p]
    <3>1. Total(daily[p]) + 0 = credited[p] /\ credited[p] \in Int /\ credited'[p] \in Int
      BY <1>5, <1>7
    <3>2. Total(daily[p]) \in Int
      <4>1. daily[p] \in Seq(DayRow)
        BY DayTypes
      <4> QED
        BY <4>1, TotalInt
    <3>3. Total(daily[p]) = credited[p] /\ daily'[p] = daily[p]
      BY <1>1, <3>1, <3>2
    <3>4. Coming(m, p) = IF p = l.p THEN e ELSE 0
      BY <1>1 DEF e
    <3>5. CASE p = l.p
      BY <1>7, <3>3, <3>4, <3>5
    <3>6. CASE p # l.p
      BY <1>7, <3>1, <3>3, <3>4, <3>6
    <3> QED
      BY <3>5, <3>6
  <2>3. HourlyOf("post")' = SumOf(Participants, posts') + PostDue(m)
    BY <1>1, <1>5 DEF HourlyOf
  <2>4. \A a \in Tracked : HourlyOf(a)' = DaysOf(a)' + CountDue(m, a)
    BY <1>1, <1>5 DEF HourlyOf, DaysOf
  <2> QED
    BY <1>9, <2>1, <2>2, <2>3, <2>4 DEF Balanced
<1>11. m.pc \in {"findHour", "findDay"} /\ Become(r, request'[r])
  BY <1>1 DEF To
<1>12. Current(request[r])'
  BY <1>11, NothingReadNext DEF Snapshots
<1>13. Alone(r)'
  BY <1>11, StaysAlone DEF Orderly
<1> QED
  BY <1>1, <1>10, <1>12, <1>13 DEF HoursTyped, Orderly

\* Sums of the posts and of what the days count are numbers.
LEMMA PostsInt == ASSUME HoursTyped PROVE SumOf(Participants, posts) \in Int
<1>1. IsFiniteSet(Participants) /\ \A p \in Participants : posts[p] \in Int
  BY ParticipationAssumption DEF HoursTyped
<1> QED
  BY <1>1, SumType, SumsAreSums

LEMMA DaysInt == ASSUME RowsInv PROVE \A a \in Tracked : DaysOf(a) \in Int
<1> SUFFICES ASSUME NEW a \in Tracked PROVE DaysOf(a) \in Int
  OBVIOUS
<1> DEFINE f == [p \in Participants |-> CountOf(a, daily[p])]
<1>1. DaysOf(a) = SumOver(f, Participants)
  BY SumsAreSums DEF DaysOf
<1>2. \A p \in Participants : f[p] \in Int
  BY TotalInt, DayTypes DEF Actions
<1> HIDE DEF f
<1> QED
  BY <1>1, <1>2, SumType, ParticipationAssumption

LEMMA QuietWriteHour ==
  ASSUME ScoreInv, RowsInv, HoursTyped, NEW r \in Requests, Orderly(r), WriteHour(r)
  PROVE  HoursTyped' /\ Orderly(r)'
<1> DEFINE l == request[r]
           m == request'[r]
<1>c. PICK c : c = IF l.kind = "leave" THEN "participants" ELSE l.kind
  OBVIOUS
<1>e. PICK e : e = IF l.kind = "leave" THEN -1 ELSE 1
  OBVIOUS
<1>1. /\ l.pc = "writeHour" /\ l.p \in Participants /\ Become(r, m)
      /\ ScoreDue(l) = 0 /\ PostDue(l) = 0 /\ ScoreDue(m) = 0
      /\ \A p \in Participants : Coming(l, p) = Coming(m, p)
      /\ \A a \in Tracked : CountDue(l, a) = 0
      /\ \/ l.kind = "leave" /\ PostDue(m) = 0 /\ \A a \in Tracked : CountDue(m, a) = 0
         \/ l.kind = "post" /\ PostDue(m) = 1 /\ \A a \in Tracked : CountDue(m, a) = 0
         \/ /\ l.kind \in Tracked /\ PostDue(m) = 0
            /\ \A a \in Tracked : CountDue(m, a) = IF a = l.kind THEN 1 ELSE 0
      /\ m.pc \in {"delete", "savePost", "findDay"}
  BY WritesHour
<1>2. /\ hourly' = [hourly EXCEPT ![l.id][c] = l.metric[c] + e]
      /\ UNCHANGED <<total, row, daily, posts, granted, credited>>
  BY <1>c, <1>e DEF WriteHour
<1>3. l.id \in DOMAIN hourly /\ l.metric = hourly[l.id]
  BY <1>1 DEF Orderly, Current
<1>4. l.kind \in Tracked \cup {"leave", "post"} /\ c \in Fields /\ e \in Int
  BY <1>1, <1>c, <1>e DEF Fields
<1>5. /\ hourly' \in Seq([Fields -> Int])
      /\ HourlyOf(c)' = HourlyOf(c) + e
      /\ \A a \in Fields : a # c => HourlyOf(a)' = HourlyOf(a)
  <2>1. hourly' = [hourly EXCEPT ![l.id][c] = hourly[l.id][c] + e]
    BY <1>2, <1>3
  <2> QED
    BY <1>3, <1>4, <2>1, WrittenHourAdds
<1>6. /\ total = granted /\ granted = SumOf(Participants, credited) + ScoreDue(l) /\ RowsAgree
      /\ \A p \in Participants : Total(daily[p]) + Coming(l, p) = credited[p]
      /\ HourlyOf("post") = SumOf(Participants, posts) + 0
      /\ \A a \in Tracked : HourlyOf(a) = DaysOf(a) + 0
  BY <1>1 DEF Orderly, Balanced
<1>7. /\ SumOf(Participants, posts) \in Int /\ \A a \in Tracked : DaysOf(a) \in Int
      /\ Tracked \subseteq Fields /\ "post" \in Fields /\ "post" \notin Tracked /\ "participants" \notin Tracked
      /\ "leave" \notin Tracked
  BY PostsInt, DaysInt DEF Tracked, Fields
<1>8. HourlyOf("post")' = SumOf(Participants, posts) + PostDue(m)
  <2>1. CASE l.kind = "post"
    <3>1. c = "post" /\ e = 1 /\ PostDue(m) = 1
      BY <1>1, <1>7, <1>c, <1>e, <2>1
    <3> QED
      BY <1>5, <1>6, <1>7, <3>1
  <2>2. CASE l.kind # "post"
    <3>1. c # "post" /\ PostDue(m) = 0
      BY <1>1, <1>c, <2>2
    <3> QED
      BY <1>5, <1>6, <1>7, <3>1
  <2> QED
    BY <2>1, <2>2
<1>9. ASSUME NEW a \in Tracked PROVE HourlyOf(a)' = DaysOf(a) + CountDue(m, a)
  <2>0. HourlyOf(a) = DaysOf(a) + 0 /\ DaysOf(a) \in Int /\ a \in Fields
    BY <1>6, <1>7
  <2>1. CASE l.kind = a
    <3>1. c = a /\ e = 1 /\ CountDue(m, a) = 1
      BY <1>1, <1>7, <1>c, <1>e, <2>1
    <3> QED
      BY <1>5, <2>0, <3>1
  <2>2. CASE l.kind # a
    <3>1. c # a /\ CountDue(m, a) = 0
      BY <1>1, <1>7, <1>c, <2>2
    <3> QED
      BY <1>5, <2>0, <3>1
  <2> QED
    BY <2>1, <2>2
<1>10. Balanced(request[r])'
  <2>1. total' = granted' /\ granted' = SumOf(Participants, credited') + ScoreDue(m)
    BY <1>1, <1>2, <1>6
  <2>2. \A p \in Participants : Total(daily'[p]) + Coming(m, p) = credited'[p]
    BY <1>1, <1>2, <1>6
  <2>3. HourlyOf("post")' = SumOf(Participants, posts') + PostDue(m)
    BY <1>2, <1>8
  <2>4. \A a \in Tracked : HourlyOf(a)' = DaysOf(a)' + CountDue(m, a)
    BY <1>2, <1>9 DEF DaysOf
  <2>5. RowsAgree'
    BY <1>2, <1>6, RowsStayAgreed
  <2> QED
    BY <2>1, <2>2, <2>3, <2>4, <2>5 DEF Balanced
<1>11. Current(request[r])'
  BY <1>1, NothingReadNext DEF Snapshots
<1>12. Alone(r)'
  BY <1>1, StaysAlone DEF Orderly
<1> QED
  BY <1>2, <1>5, <1>10, <1>11, <1>12 DEF HoursTyped, Orderly

LEMMA QuietWriteDay ==
  ASSUME ScoreInv, RowsInv, HoursTyped, NEW r \in Requests, Orderly(r), WriteDay(r)
  PROVE  HoursTyped' /\ Orderly(r)'
<1> DEFINE l == request[r]
           m == request'[r]
           p == l.p
           n == l.id
           e == Points[l.kind]
<1>1. /\ l.pc = "writeDay" /\ p \in Participants /\ l.kind \in Actions
      /\ daily[p] \in Seq(DayRow) /\ n \in 1..Len(daily[p]) /\ l.metric \in DayRow
      /\ Anew(r, "rest", "none", Unused, Unused)
  BY WritesDay
<1>2. PICK d \in DayRow :
        /\ d.score = l.metric.score + e
        /\ d.count = [l.metric.count EXCEPT ![l.kind] = @ + 1]
        /\ daily' = [daily EXCEPT ![p] = [daily[p] EXCEPT ![n] = d]]
  BY WritesDay
<1>3. UNCHANGED <<total, row, hourly, posts, granted, credited>>
  BY DEF WriteDay
<1>4. l.metric = daily[p][n]
  BY <1>1 DEF Orderly, Current
<1>5. /\ NoDues(m) /\ ScoreDue(l) = 0 /\ PostDue(l) = 0
      /\ \A q \in Participants : Coming(l, q) = IF q = p THEN e ELSE 0
      /\ \A a \in Tracked : CountDue(l, a) = IF a = l.kind THEN 1 ELSE 0
  BY DayDues
<1>6. daily'[p] = [daily[p] EXCEPT ![n] = d] /\ \A q \in Participants : q # p => daily'[q] = daily[q]
  BY <1>1, <1>2 DEF RowsInv
<1>7. e \in Nat /\ Become(r, m) /\ m.pc = "rest"
  BY <1>1, ActionPoints DEF Anew
<1>8. ASSUME NEW a \in Actions
      PROVE  d.count[a] = daily[p][n].count[a] + (IF a = l.kind THEN 1 ELSE 0)
  <2>1. l.metric.count \in [Actions -> Nat]
    BY <1>1 DEF DayRow
  <2>2. l.metric.count[a] \in Nat
    BY <2>1
  <2>3. d.count[a] = l.metric.count[a] + (IF a = l.kind THEN 1 ELSE 0)
    BY <1>1, <1>2, <2>1, <2>2
  <2> QED
    BY <1>4, <2>3
<1>9. d.score = daily[p][n].score + e
  BY <1>2, <1>4
<1>10. /\ total = granted /\ granted = SumOf(Participants, credited) + ScoreDue(l) /\ RowsAgree
       /\ \A q \in Participants : Total(daily[q]) + Coming(l, q) = credited[q]
       /\ HourlyOf("post") = SumOf(Participants, posts) + PostDue(l)
       /\ \A a \in Tracked : HourlyOf(a) = DaysOf(a) + CountDue(l, a)
  BY DEF Orderly, Balanced
<1> HIDE DEF e, n, p
<1>11. /\ Total(daily'[p]) = Total(daily[p]) + e /\ Total(daily[p]) \in Int
       /\ \A a \in Actions : CountOf(a, daily'[p]) = CountOf(a, daily[p]) + (IF a = l.kind THEN 1 ELSE 0)
       /\ \A a \in Actions : CountOf(a, daily[p]) \in Int /\ CountOf(a, daily'[p]) \in Int
  <2> DEFINE days == daily[p]
             k(a) == IF a = l.kind THEN 1 ELSE 0
  <2>1. days \in Seq(DayRow) /\ n \in 1..Len(days) /\ d \in DayRow /\ e \in Int
    BY <1>1, <1>7 DEF p, n
  <2>2. d.score = days[n].score + e /\ \A a \in Actions : k(a) \in Int /\ d.count[a] = days[n].count[a] + k(a)
    BY <1>8, <1>9
  <2>3. daily'[p] = [days EXCEPT ![n] = d]
    BY <1>6
  <2> HIDE DEF days, k
  <2>4. /\ Total(days) \in Int
        /\ \A i \in Int : d.score = days[n].score + i => Total([days EXCEPT ![n] = d]) = Total(days) + i
        /\ \A a \in Actions : CountOf(a, days) \in Int
        /\ \A a \in Actions, i \in Int :
              d.count[a] = days[n].count[a] + i => CountOf(a, [days EXCEPT ![n] = d]) = CountOf(a, days) + i
    BY <2>1, WrittenDayAdds
  <2>5. Total(daily'[p]) = Total(days) + e
    BY <2>1, <2>2, <2>3, <2>4
  <2>6. ASSUME NEW a \in Actions
        PROVE  CountOf(a, daily'[p]) = CountOf(a, days) + k(a) /\ CountOf(a, days) \in Int /\ CountOf(a, daily'[p]) \in Int
    <3>1. k(a) \in Int /\ d.count[a] = days[n].count[a] + k(a)
      BY <2>2
    <3>2. CountOf(a, daily'[p]) = CountOf(a, days) + k(a) /\ CountOf(a, days) \in Int
      <4>1. PICK i \in Int : i = k(a)
        BY <3>1
      <4>2. CountOf(a, [days EXCEPT ![n] = d]) = CountOf(a, days) + i /\ CountOf(a, days) \in Int
        BY <2>4, <3>1, <4>1
      <4> QED
        BY <2>3, <4>1, <4>2, Zenon
    <3> QED
      BY <3>1, <3>2
  <2> QED
    BY <2>4, <2>5, <2>6 DEF days, k
<1>12. ASSUME NEW a \in Tracked PROVE DaysOf(a)' = DaysOf(a) + (IF a = l.kind THEN 1 ELSE 0)
  <2> DEFINE f == [q \in Participants |-> CountOf(a, daily[q])]
             g == [q \in Participants |-> CountOf(a, daily'[q])]
             k == IF a = l.kind THEN 1 ELSE 0
  <2>1. DaysOf(a)' = SumOf(Participants, g) /\ DaysOf(a) = SumOf(Participants, f)
    BY DEF DaysOf
  <2>2. a \in Actions /\ k \in Int
    BY DEF Actions
  <2>3. p \in Participants /\ IsFiniteSet(Participants)
    BY <1>1, ParticipationAssumption DEF p
  <2>4. f[p] \in Int /\ g[p] \in Int /\ g[p] = f[p] + k
    BY <1>11, <2>2, <2>3
  <2>5. ASSUME NEW q \in Participants \ {p} PROVE g[q] = f[q] /\ f[q] \in Int
    BY <1>6, <2>2, TotalInt, DayTypes
  <2> HIDE DEF f, g, k
  <2>6. Differ(Participants, g, f, p, k)
    BY <2>2, <2>3, <2>4, <2>5 DEF Differ
  <2> QED
    BY <2>1, <2>6, SumUp DEF k
<1>13. Balanced(request[r])'
  <2>1. total' = granted' /\ granted' = SumOf(Participants, credited') + ScoreDue(m)
    BY <1>3, <1>5, <1>10 DEF NoDues
  <2>2. ASSUME NEW q \in Participants PROVE Total(daily'[q]) + Coming(m, q) = credited'[q]
    <3>1. Total(daily[q]) + Coming(l, q) = credited[q] /\ Coming(m, q) = 0 /\ credited'[q] = credited[q]
      BY <1>3, <1>5, <1>10 DEF NoDues
    <3>2. Coming(l, q) = IF q = p THEN e ELSE 0
      BY <1>5 DEF p, e
    <3>3. CASE q = p
      BY <1>7, <1>11, <3>1, <3>2, <3>3
    <3>4. CASE q # p
      BY <1>6, <3>1, <3>2, <3>4
    <3> QED
      BY <3>3, <3>4
  <2>3. HourlyOf("post")' = SumOf(Participants, posts') + PostDue(m)
    BY <1>3, <1>5, <1>10 DEF NoDues, HourlyOf
  <2>4. ASSUME NEW a \in Tracked PROVE HourlyOf(a)' = DaysOf(a)' + CountDue(m, a)
    <3>1. HourlyOf(a)' = HourlyOf(a) /\ HourlyOf(a) = DaysOf(a) + CountDue(l, a)
      BY <1>3, <1>10 DEF HourlyOf
    <3>2. CountDue(m, a) = 0 /\ CountDue(l, a) = IF a = l.kind THEN 1 ELSE 0
      BY <1>5 DEF NoDues
    <3>3. DaysOf(a) \in Int
      BY DaysInt
    <3> QED
      BY <1>12, <3>1, <3>2, <3>3
  <2>5. RowsAgree'
    BY <1>3, <1>10, RowsStayAgreed
  <2> QED
    BY <2>1, <2>2, <2>3, <2>4, <2>5 DEF Balanced
<1>14. Current(request[r])'
  BY <1>7, NothingReadNext DEF Snapshots
<1>15. Alone(r)'
  BY <1>7, StaysAlone DEF Orderly
<1> QED
  BY <1>3, <1>13, <1>14, <1>15 DEF HoursTyped, Orderly

LEMMA QuietSavePost ==
  ASSUME ScoreInv, RowsInv, HoursTyped, NEW r \in Requests, Orderly(r), NewSocialPost(r)
  PROVE  HoursTyped' /\ Orderly(r)'
<1> DEFINE l == request[r]
           m == request'[r]
           p == l.p
<1>1. /\ l.pc = "savePost" /\ p \in Participants /\ Become(r, m) /\ m.pc = "rest"
      /\ NoDues(m) /\ PostDue(l) = 1 /\ ScoreDue(l) = 0
      /\ \A q \in Participants : Coming(l, q) = 0
      /\ \A a \in Tracked : CountDue(l, a) = 0
  BY SavesPost DEF Anew
<1>2. posts' = [posts EXCEPT ![p] = @ + 1] /\ UNCHANGED <<total, row, hourly, daily, granted, credited>>
  BY DEF NewSocialPost
<1>3. /\ NoDues(m) /\ ScoreDue(m) = 0 /\ PostDue(m) = 0
      /\ \A q \in Participants : Coming(m, q) = 0
      /\ \A a \in Tracked : CountDue(m, a) = 0
  BY <1>1 DEF NoDues
<1>4. /\ total = granted /\ granted = SumOf(Participants, credited) + 0 /\ RowsAgree
      /\ \A q \in Participants : Total(daily[q]) + 0 = credited[q]
      /\ HourlyOf("post") = SumOf(Participants, posts) + 1
      /\ \A a \in Tracked : HourlyOf(a) = DaysOf(a) + 0
  BY <1>1 DEF Orderly, Balanced
<1>5. posts \in [Participants -> Int] /\ IsFiniteSet(Participants)
  BY ParticipationAssumption DEF HoursTyped
<1> HIDE DEF p
<1>6. /\ posts' \in [Participants -> Int] /\ posts'[p] = posts[p] + 1
      /\ \A q \in Participants \ {p} : posts'[q] = posts[q]
  BY <1>1, <1>2, <1>5 DEF p
<1>7. SumOf(Participants, posts') = SumOf(Participants, posts) + 1 /\ SumOf(Participants, posts) \in Int
  <2>1. Differ(Participants, posts', posts, p, 1)
    BY <1>1, <1>5, <1>6 DEF Differ, p
  <2> QED
    BY <2>1, SumUp
<1>8. Balanced(request[r])'
  <2>1. total' = granted' /\ granted' = SumOf(Participants, credited') + ScoreDue(m)
    BY <1>2, <1>3, <1>4
  <2>2. \A q \in Participants : Total(daily'[q]) + Coming(m, q) = credited'[q]
    BY <1>2, <1>3, <1>4
  <2>3. HourlyOf("post")' = SumOf(Participants, posts') + PostDue(m)
    <3>1. HourlyOf("post")' = HourlyOf("post")
      BY <1>2 DEF HourlyOf
    <3> QED
      BY <1>3, <1>4, <1>7, <3>1
  <2>4. \A a \in Tracked : HourlyOf(a)' = DaysOf(a)' + CountDue(m, a)
    BY <1>2, <1>3, <1>4 DEF HourlyOf, DaysOf
  <2>5. RowsAgree'
    BY <1>2, <1>4, RowsStayAgreed
  <2> QED
    BY <2>1, <2>2, <2>3, <2>4, <2>5 DEF Balanced
<1>9. Current(request[r])'
  BY <1>1, NothingReadNext DEF Snapshots
<1>10. Alone(r)'
  BY <1>1, StaysAlone DEF Orderly
<1>11. HoursTyped'
  BY <1>2, <1>6 DEF HoursTyped
<1> QED
  BY <1>8, <1>9, <1>10, <1>11 DEF Orderly

-----------------------------------------------------------------------------
LEMMA QuietInit == Init => QuietInv
<1> SUFFICES ASSUME Init PROVE HoursTyped /\ \E r \in Requests : Orderly(r)
  BY DEF QuietInv
<1>1. PICK r \in Requests : TRUE
  BY ParticipationAssumption
<1>2. \A q \in Requests : request[q].pc = "rest"
  BY DEF Init, Rest, Fresh
<1>3. Alone(r) /\ Current(request[r]) /\ NoDues(request[r])
  BY <1>2, NothingRead, NotDue DEF Alone, At, Snapshots, HourSteps, DaySteps
<1>4. HoursTyped
  <2>1. hourly = << >> /\ posts = [p \in Participants |-> 0]
    BY DEF Init
  <2> QED
    BY <2>1, EmptySeq DEF HoursTyped
<1>5. IsFiniteSet(Participants)
  BY ParticipationAssumption
<1>6. SumOf(Participants, credited) = 0 /\ SumOf(Participants, posts) = 0
  <2>1. \A p \in Participants : credited[p] = 0 /\ posts[p] = 0
    BY DEF Init
  <2> QED
    BY <1>5, <2>1, SumZero, SumsAreSums
<1>a. DOMAIN << >> = {} /\ \A w : SumOf({}, w) = 0
  BY SumEmpty, SumsAreSums
<1>7. \A f : HourlyOf(f) = 0
  <2>1. DOMAIN hourly = {}
    BY <1>a DEF Init
  <2> QED
    BY <1>a, <2>1 DEF HourlyOf
<1>8. \A p \in Participants : Total(daily[p]) = 0 /\ \A a : CountOf(a, daily[p]) = 0
  <2> SUFFICES ASSUME NEW p \in Participants PROVE Total(daily[p]) = 0 /\ \A a : CountOf(a, daily[p]) = 0
    OBVIOUS
  <2>1. DOMAIN daily[p] = {}
    BY <1>a DEF Init
  <2> QED
    BY <1>a, <2>1 DEF Total, CountOf
<1>9. \A a : DaysOf(a) = 0
  <2> SUFFICES ASSUME NEW a PROVE DaysOf(a) = 0
    OBVIOUS
  <2> DEFINE f == [p \in Participants |-> CountOf(a, daily[p])]
  <2>1. DaysOf(a) = SumOver(f, Participants)
    BY SumsAreSums DEF DaysOf
  <2>2. \A p \in Participants : f[p] = 0
    BY <1>8
  <2> HIDE DEF f
  <2> QED
    BY <1>5, <2>1, <2>2, SumZero
<1>10. RowsAgree
  <2>1. \A p \in Participants : credited[p] = 0
    BY DEF Init
  <2>2. \A p \in Present : row[p].score = 0
    BY NewRowTyped, ParticipationAssumption DEF Init, Present
  <2> QED
    BY <2>1, <2>2 DEF RowsAgree, Present
<1>11. Balanced(request[r])
  <2>1. total = granted /\ granted = 0 /\ \A p \in Participants : credited[p] = 0
    BY DEF Init
  <2> QED
    BY <1>3, <1>6, <1>7, <1>8, <1>9, <1>10, <2>1 DEF Balanced, NoDues
<1> QED
  BY <1>3, <1>4, <1>11 DEF Orderly

\* Who moves was under way, or no one was: a request that begins beside another disturbs.
LEMMA MovesOrDisturbs ==
  ASSUME NEW r \in Requests, Step(r), ~disturbed'
  PROVE  ~disturbed /\ (~At(r, "rest") \/ Quiet)
<1>1. CASE \E l : Begin(r, l)
  <2>1. disturbed' = (disturbed \/ ~Quiet)
    BY <1>1, Zenon DEF Begin
  <2> QED
    BY <2>1, Zenon
<1>2. CASE Quietly /\ ~At(r, "rest")
  <2>1. disturbed' = disturbed
    BY <1>2 DEF Quietly
  <2> QED
    BY <1>2, <2>1, Zenon
<1>3. CASE ReadCachedCampaign(r)
  <2>1. disturbed' = (disturbed \/ cached # total)
    BY <1>3, Zenon DEF ReadCachedCampaign
  <2>2. ~At(r, "rest")
    BY <1>3 DEF ReadCachedCampaign, At
  <2> QED
    BY <2>1, <2>2, Zenon
<1>4. CASE FindHour(r) \/ FindDay(r)
  <2>1. disturbed' = (disturbed \/ SeenMetrics # Metrics)
    BY <1>4, Zenon DEF FindHour, FindDay
  <2>2. ~At(r, "rest")
    BY <1>4 DEF FindHour, FindDay, At
  <2> QED
    BY <2>1, <2>2, Zenon
<1>5. ~Reject(r)
  BY Zenon DEF Reject
<1>6. ReadParticipant(r) \/ Join(r) \/ Leave(r) \/ Post(r) \/ PostContentGlobally(r) => \E l : Begin(r, l)
  <2>1. ReadParticipant(r) => \E l : Begin(r, l)
    BY Zenon DEF ReadParticipant
  <2>2. Join(r) \/ Leave(r) \/ Post(r) \/ PostContentGlobally(r) => \E l : Begin(r, l)
    BY Zenon DEF Join, Leave, Post, PostContentGlobally
  <2> QED
    BY <2>1, <2>2, Zenon
<1>7. \/ MissCampaign(r) \/ FillCache(r) \/ ReadCampaign(r) \/ UpdateCampaign(r)
      \/ UpdateParticipant(r) \/ CreateHour(r) \/ WriteHour(r) \/ CreateDay(r) \/ WriteDay(r)
      \/ CreateParticipant(r) \/ RemoveParticipant(r) \/ FindPoster(r) \/ NewSocialPost(r)
      => Quietly /\ \E label : label # "rest" /\ At(r, label)
  <2>1. MissCampaign(r) \/ FillCache(r) \/ ReadCampaign(r) \/ UpdateCampaign(r) \/ UpdateParticipant(r)
        => Quietly /\ \E label : label # "rest" /\ At(r, label)
    BY Zenon DEF MissCampaign, FillCache, ReadCampaign, UpdateCampaign, UpdateParticipant
  <2>2. CreateHour(r) \/ WriteHour(r) \/ CreateDay(r) \/ WriteDay(r)
        => Quietly /\ \E label : label # "rest" /\ At(r, label)
    BY Zenon DEF CreateHour, WriteHour, CreateDay, WriteDay
  <2>3. CreateParticipant(r) \/ RemoveParticipant(r) \/ FindPoster(r) \/ NewSocialPost(r)
        => Quietly /\ \E label : label # "rest" /\ At(r, label)
    BY Zenon DEF CreateParticipant, RemoveParticipant, FindPoster, NewSocialPost
  <2> QED
    BY <2>1, <2>2, <2>3, Zenon
<1>8. \A label : label # "rest" /\ At(r, label) => ~At(r, "rest")
  BY DEF At
<1> QED
  BY <1>1, <1>2, <1>3, <1>4, <1>5, <1>6, <1>7, <1>8 DEF Step

LEMMA QuietNext == ScoreInv /\ RowsInv /\ QuietInv /\ [Next]_vars => QuietInv'
<1> SUFFICES ASSUME ScoreInv, RowsInv, QuietInv, [Next]_vars, ~disturbed'
             PROVE  HoursTyped' /\ \E r \in Requests : Orderly(r)'
  BY DEF QuietInv
<1>1. ASSUME NEW r \in Requests, Step(r)
      PROVE  HoursTyped' /\ \E s \in Requests : Orderly(s)'
  <2>1. ~disturbed /\ (~At(r, "rest") \/ Quiet)
    BY <1>1, MovesOrDisturbs
  <2>2. HoursTyped /\ Orderly(r)
    BY <2>1, Mover
  <2>3. ~Reject(r)
    BY DEF Reject
  <2>4. CASE Reading(r)
    BY <2>2, <2>4, QuietReads
  <2>5. CASE ~Reading(r)
    <3>1. \/ CreateHour(r) \/ CreateDay(r) \/ CreateParticipant(r) \/ RemoveParticipant(r)
          \/ UpdateCampaign(r) \/ UpdateParticipant(r) \/ WriteHour(r) \/ WriteDay(r) \/ NewSocialPost(r)
      BY <1>1, <2>3, <2>5 DEF Step, Reading
    <3> QED
      BY <2>2, <3>1, QuietCreateHour, QuietCreateDay, QuietMembers, QuietUpdateCampaign,
         QuietUpdateParticipant, QuietWriteHour, QuietWriteDay, QuietSavePost
  <2> QED
    BY <2>4, <2>5
<1>2. ASSUME CacheChanges \/ CampaignEnds \/ Replicate \/ UNCHANGED vars
      PROVE  HoursTyped' /\ \E s \in Requests : Orderly(s)'
  <2>1. UNCHANGED <<total, row, hourly, daily, posts, request, granted, credited, disturbed>>
    BY <1>2 DEF CacheChanges, CampaignEnds, Replicate, vars, database, history
  <2>2. PICK r \in Requests : Orderly(r)
    BY <2>1 DEF QuietInv
  <2>3. HoursTyped'
    BY <2>1 DEF QuietInv, HoursTyped
  <2>4. SameDues(request'[r], request[r])
    BY <2>1 DEF SameDues
  <2>5. Balanced(request[r])'
    BY <2>1, <2>2, <2>4, SameTables DEF Orderly, database
  <2>6. Current(request[r])' /\ Alone(r)'
    BY <2>1, <2>2 DEF Orderly, Current, Alone, At, Present
  <2> QED
    BY <2>3, <2>5, <2>6 DEF Orderly
<1> QED
  BY <1>1, <1>2 DEF Next

\* As long as no requests overlap, none rejects and nothing old is read, the campaign's
\* total, the participants' scores, the hourly and the daily metrics and the posts agree
\* (ParticipantController, CampaignMetricService, DailyParticipantMetricService).
THEOREM QuietTablesAgree == Spec => []QuietAgree
<1>1. ScoreInv /\ RowsInv /\ QuietInv => QuietAgree
  <2> SUFFICES ASSUME ScoreInv, RowsInv, QuietInv, ~disturbed, Quiet
               PROVE  /\ total = granted
                      /\ total = SumOf(Participants, credited)
                      /\ \A p \in Present : row[p].score = credited[p]
                      /\ \A p \in Participants : Total(daily[p]) = credited[p]
                      /\ HourlyOf("post") = SumOf(Participants, posts)
                      /\ \A a \in Tracked : HourlyOf(a) = DaysOf(a)
    BY DEF QuietAgree, DaysOf
  <2>1. PICK r \in Requests : Orderly(r)
    BY DEF QuietInv
  <2>2. request[r].pc = "rest"
    BY DEF Quiet, At
  <2>3. NoDues(request[r])
    BY <2>2, NotDue DEF HourSteps, DaySteps
  <2>4. /\ total = granted /\ granted = SumOf(Participants, credited) + 0 /\ RowsAgree
        /\ \A q \in Participants : Total(daily[q]) + 0 = credited[q]
        /\ HourlyOf("post") = SumOf(Participants, posts) + 0
        /\ \A a \in Tracked : HourlyOf(a) = DaysOf(a) + 0
    BY <2>1, <2>3 DEF Orderly, Balanced, NoDues
  <2>5. \A p \in Participants : Total(daily[p]) \in Int
    BY DayTypes, TotalInt
  <2>6. SumOf(Participants, posts) \in Int /\ \A a \in Tracked : DaysOf(a) \in Int
    BY PostsInt, DaysInt DEF QuietInv
  <2>7. SumOf(Participants, credited) \in Int
    <3>1. IsFiniteSet(Participants) /\ \A p \in Participants : credited[p] \in Int
      BY RowsNumbers, ParticipationAssumption
    <3> QED
      BY <3>1, SumType, SumsAreSums
  <2>8. total = SumOf(Participants, credited)
    BY <2>4, <2>7
  <2>9. \A p \in Participants : Total(daily[p]) = credited[p]
    BY <2>4, <2>5
  <2>10. HourlyOf("post") = SumOf(Participants, posts) /\ \A a \in Tracked : HourlyOf(a) = DaysOf(a)
    BY <2>4, <2>6
  <2> QED
    BY <2>4, <2>8, <2>9, <2>10 DEF RowsAgree
<1> QED
  BY <1>1, ScoreInit, ScoreNext, RowsInit, RowsNext, QuietInit, QuietNext, PTL DEF Spec

-----------------------------------------------------------------------------
(* The rate limiter, which trackAction asks first. *)

\* The requests that passed the check and have not been counted yet.
Passed == {r \in Callers : CallerAt(r, "incr")}

\* What is counted and what is about to be counted stay within the bound; the
\* bound on the counter alone is not inductive.
Slack == Count + Cardinality(Passed) <= MaxRequests + Cardinality(Callers) - 1

\* The requests that passed can be counted, and are at most all of them.
LEMMA PassedBounded ==
    /\ Cardinality(Callers) \in Nat \ {0}
    /\ IsFiniteSet(Passed)
    /\ Cardinality(Passed) \in Nat
    /\ Cardinality(Passed) <= Cardinality(Callers)
<1>1. IsFiniteSet(Callers) /\ Callers # {} /\ Passed \subseteq Callers
  BY LimiterAssumption DEF Passed
<1> QED
  BY <1>1, FS_Subset, FS_CardinalityType, FS_EmptySet

\* The counter is a number, whether or not there is a key.
LEMMA CountNat == LimiterTypeOK => Count \in Nat
BY DEF LimiterTypeOK, Count

\* INCR yields a counter that has one more than before.
LEMMA IncrementedByOne ==
  ASSUME LimiterTypeOK
  PROVE  /\ Incremented \in [count : Nat, expires : BOOLEAN]
         /\ Incremented.count = Count + 1
BY DEF LimiterTypeOK, Incremented, Count

LEMMA OutsideTyped == Outside \in [pc : {"get", "incr", "expire"}, seen : 0 .. MaxRequests - 1]
<1>1. 0 \in 0 .. MaxRequests - 1
  BY LimiterAssumption
<1> QED
  BY <1>1 DEF Outside

LEMMA LimiterTypeInit == LimiterInit => LimiterTypeOK
<1> SUFFICES ASSUME LimiterInit PROVE LimiterTypeOK
  OBVIOUS
<1>1. deaths \in 0 .. MaxDeaths
  BY LimiterAssumption DEF LimiterInit
<1> QED
  BY <1>1, OutsideTyped DEF LimiterInit, LimiterTypeOK

\* The read of the counter is the only step that brings in a new number, and it
\* passes only below the limit.
LEMMA LimiterTypeNext == LimiterTypeOK /\ [LimiterNext]_limiterVars => LimiterTypeOK'
<1> SUFFICES ASSUME LimiterTypeOK, [LimiterNext]_limiterVars PROVE LimiterTypeOK'
  OBVIOUS
<1>0. Outside \in [pc : {"get", "incr", "expire"}, seen : 0 .. MaxRequests - 1]
  BY OutsideTyped
<1>1. ASSUME NEW r \in Callers, Get(r) PROVE LimiterTypeOK'
  <2>1. Count \in 0 .. MaxRequests - 1
    BY <1>1, CountNat, LimiterAssumption DEF Get
  <2> QED
    BY <1>1, <2>1 DEF Get, LimiterTypeOK
<1>2. ASSUME NEW r \in Callers, Incr(r) PROVE LimiterTypeOK'
  <2>1. counter' \in [count : Nat, expires : BOOLEAN]
    BY <1>2, IncrementedByOne DEF Incr
  <2>2. caller' \in [Callers -> [pc : {"get", "incr", "expire"}, seen : 0 .. MaxRequests - 1]]
    BY <1>0, <1>2 DEF Incr, LimiterTypeOK
  <2> QED
    BY <1>2, <2>1, <2>2 DEF Incr, LimiterTypeOK
<1>3. ASSUME NEW r \in Callers, Expire(r) PROVE LimiterTypeOK'
  BY <1>0, <1>3 DEF Expire, LimiterTypeOK
<1>4. ASSUME NEW r \in Callers, Die(r) PROVE LimiterTypeOK'
  BY <1>0, <1>4, LimiterAssumption DEF Die, LimiterTypeOK
<1>5. CASE WindowEnds
  BY <1>5 DEF WindowEnds, LimiterTypeOK
<1>6. CASE UNCHANGED limiterVars
  BY <1>6 DEF limiterVars, LimiterTypeOK
<1> QED
  BY <1>1, <1>2, <1>3, <1>4, <1>5, <1>6 DEF LimiterNext, Call, Refuse

\* Types, and a request that passed has read a counter below the limit.
THEOREM LimiterTypes == LimiterSpec => []LimiterTypeOK
BY LimiterTypeInit, LimiterTypeNext, PTL DEF LimiterSpec

\* A step that counts nothing and lets nobody pass keeps the bound.
LEMMA SlackKept ==
  ASSUME LimiterTypeOK, Slack, LimiterTypeOK', Count' <= Count, Passed' \subseteq Passed
  PROVE  Slack'
<1>1. Cardinality(Passed') <= Cardinality(Passed) /\ Cardinality(Passed') \in Nat
  BY PassedBounded, FS_Subset, FS_CardinalityType
<1>2. Count \in Nat /\ Count' \in Nat
  BY CountNat DEF LimiterTypeOK, Count
<1> QED
  BY <1>1, <1>2, PassedBounded, LimiterAssumption DEF Slack

LEMMA SlackInit == LimiterInit => Slack
<1> SUFFICES ASSUME LimiterInit PROVE Slack
  OBVIOUS
<1>1. Count = 0 /\ Passed = {}
  BY DEF LimiterInit, Count, Passed, CallerAt, Outside
<1> QED
  BY <1>1, PassedBounded, FS_EmptySet, LimiterAssumption DEF Slack

LEMMA SlackNext == LimiterTypeOK /\ LimiterTypeOK' /\ Slack /\ [LimiterNext]_limiterVars => Slack'
<1> SUFFICES ASSUME LimiterTypeOK, LimiterTypeOK', Slack, [LimiterNext]_limiterVars PROVE Slack'
  OBVIOUS
<1>0. /\ Count \in Nat
      /\ caller \in [Callers -> [pc : {"get", "incr", "expire"}, seen : 0 .. MaxRequests - 1]]
  BY CountNat DEF LimiterTypeOK
<1>1. ASSUME NEW r \in Callers, Get(r) PROVE Slack'
  <2>1. Count' = Count /\ Count <= MaxRequests - 1
    BY <1>0, <1>1, LimiterAssumption DEF Get, Count
  <2>2. Cardinality(Passed') \in Nat /\ Cardinality(Passed') <= Cardinality(Callers)
    <3>1. IsFiniteSet(Callers) /\ Passed' \subseteq Callers
      BY LimiterAssumption DEF Passed
    <3> QED
      BY <3>1, FS_Subset, FS_CardinalityType
  <2> QED
    BY <1>0, <2>1, <2>2, PassedBounded, LimiterAssumption DEF Slack
<1>2. ASSUME NEW r \in Callers, Incr(r) PROVE Slack'
  <2>1. Count' = Count + 1
    BY <1>2, IncrementedByOne, LimiterAssumption DEF Incr, Count
  <2>2. r \in Passed /\ Passed' = Passed \ {r}
    BY <1>0, <1>2 DEF Incr, Passed, CallerAt, Outside
  <2>3. Cardinality(Passed') = Cardinality(Passed) - 1
    BY <2>2, PassedBounded, FS_RemoveElement
  <2> QED
    BY <1>0, <2>1, <2>3, PassedBounded, LimiterAssumption DEF Slack
<1>3. ASSUME NEW r \in Callers, Expire(r) PROVE Slack'
  <2>1. Count' = Count
    BY <1>3, LimiterAssumption DEF Expire, Count, LimiterTypeOK
  <2>2. Passed' \subseteq Passed
    BY <1>0, <1>3 DEF Expire, Passed, CallerAt, Outside
  <2> QED
    BY <1>0, <2>1, <2>2, SlackKept
<1>4. ASSUME NEW r \in Callers, Die(r) PROVE Slack'
  <2>1. Count' = Count
    BY <1>4 DEF Die, Count
  <2>2. Passed' \subseteq Passed
    BY <1>0, <1>4 DEF Die, Passed, CallerAt, Outside
  <2> QED
    BY <1>0, <2>1, <2>2, SlackKept
<1>5. CASE WindowEnds
  <2>1. Count' = 0 /\ Passed' = Passed
    BY <1>5 DEF WindowEnds, Count, Passed, CallerAt
  <2> QED
    BY <1>0, <2>1, SlackKept
<1>6. CASE UNCHANGED limiterVars
  <2>1. Count' = Count /\ Passed' = Passed
    BY <1>6 DEF limiterVars, Count, Passed, CallerAt
  <2> QED
    BY <1>0, <2>1, SlackKept
<1> QED
  BY <1>1, <1>2, <1>3, <1>4, <1>5, <1>6 DEF LimiterNext, Call, Refuse

LEMMA SlackBounds == LimiterTypeOK /\ Slack => OverrunBounded
BY CountNat, PassedBounded, LimiterAssumption DEF Slack, OverrunBounded

\* However the requests of a key interleave, a window counts at most one request
\* less than can be under way together beyond the limit.
THEOREM OverrunIsBounded == LimiterSpec => []OverrunBounded
<1>1. LimiterInit => LimiterTypeOK /\ Slack
  BY LimiterTypeInit, SlackInit
<1>2. LimiterTypeOK /\ Slack /\ [LimiterNext]_limiterVars => (LimiterTypeOK /\ Slack)'
  BY LimiterTypeNext, SlackNext
<1> QED
  BY <1>1, <1>2, SlackBounds, PTL DEF LimiterSpec

=============================================================================
