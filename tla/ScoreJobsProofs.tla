-------------------------- MODULE ScoreJobsProofs --------------------------
(***************************************************************************)
(* The jobs over the participants of a campaign, for any number of runs,   *)
(* participants, posts and page sizes: where runs and requests came one at *)
(* a time every user has the metrics of the completed runs, the quality    *)
(* scores have one yardstick, and scores, days and total agree; and        *)
(* however runs overlap, a post is credited once, and once more for each   *)
(* page that may have been counted twice.                                  *)
(***************************************************************************)
EXTENDS ScoreJobs, SumTheorems, FiniteSetTheorems, SequenceTheorems, TLAPS

-----------------------------------------------------------------------------
(* One at a time. *)

SocialRests == \A j \in SocialJobs : SocialAt(j, "rest")
QualityRests == \A j \in QualityJobs : judge[j].pc = "rest"
TallyRests == \A j \in TallyJobs : tally[j].pc = "rest"

\* The jobs are functions on their runs.
Runs ==
    /\ social = [j \in SocialJobs |-> social[j]]
    /\ judge = [j \in QualityJobs |-> judge[j]]
    /\ tally = [j \in TallyJobs |-> tally[j]]

\* As long as nothing was disturbed, a run that is under way is the only one, and what it
\* reads is current.
LoneInv ==
    /\ Runs
    /\ ~disturbed =>
          /\ \A j \in SocialJobs : ~SocialAt(j, "rest") =>
                /\ ~behind /\ QualityRests /\ TallyRests
                /\ \A i \in SocialJobs \ {j} : SocialAt(i, "rest")
          /\ \A j \in QualityJobs : judge[j].pc # "rest" =>
                /\ ~behind /\ SocialRests /\ TallyRests
                /\ \A i \in QualityJobs \ {j} : judge[i].pc = "rest"
          /\ \A j \in TallyJobs : tally[j].pc # "rest" =>
                /\ ~behind /\ SocialRests /\ QualityRests
                /\ \A i \in TallyJobs \ {j} : tally[i].pc = "rest"

\* After so many pages so many rows were read.
PagesRead(page, n, count) ==
    /\ page \in Nat /\ page <= PageCount(n, RowsPerPage)
    /\ count = Min({n, page * RowsPerPage})

-----------------------------------------------------------------------------
(* The aggregation. *)

Metrics == completed..(completed + cut)

\* A user has the metric of the run under way as soon as its page is saved.
Tallied(l) ==
    /\ l.pc \in {"page", "users"}
    /\ DOMAIN l = {"pc", "page", "read", "todo", "toSave"}
    /\ l.read \subseteq Participants
    /\ PagesRead(l.page, Cardinality(Participants), Cardinality(l.read))
    /\ l.todo \subseteq l.read /\ l.toSave \subseteq l.read
    /\ l.pc = "page" => l.todo = {} /\ l.toSave = {}
    /\ \A u \in Participants :
          metric[u] \in IF u \in l.read \ (l.todo \cup l.toSave)
                        THEN (completed + 1)..(completed + 1 + cut) ELSE Metrics

TallyInv ==
    ~disturbed =>
        /\ metric \in [Participants -> Nat] /\ completed \in Nat /\ cut \in Nat
        /\ TallyRests => \A u \in Participants : metric[u] \in Metrics
        /\ \A j \in TallyJobs : tally[j].pc # "rest" => j \notin jumbled /\ Tallied(tally[j])

-----------------------------------------------------------------------------
(* The quality scores. *)

Here == Present(Tables)

Alike == \A p, r \in Here : quality[r] \in {<< >>, <<Blank>>} \/ quality[p] = quality[r]

\* Those that were rated have the yardstick of all that were.
Judged(l) ==
    /\ l.pc \in {"page", "lookUp", "upsert"}
    /\ DOMAIN l = {"pc", "n", "page", "rated", "found"}
    /\ l.n = Cardinality(Here)
    /\ l.rated \in Seq(Here) /\ IsInjective(l.rated)
    /\ PagesRead(l.page, l.n, Cardinality(Range(l.rated)))
    /\ l.pc = "page" => \A p \in Range(l.rated) : quality[p] = <<Range(l.rated)>>
    /\ l.pc = "upsert" =>
          \A i \in DOMAIN l.rated : l.found[i] = IF quality[l.rated[i]] = << >> THEN 0 ELSE 1

JudgeInv ==
    ~disturbed =>
        /\ quality \in [Participants -> Seq(SUBSET Participants)]
        /\ score = [p \in Participants |-> score[p]]
        /\ \A p \in Participants : Len(quality[p]) <= 1
        /\ QualityRests => Alike
        /\ \A j \in QualityJobs : judge[j].pc # "rest" => j \notin shuffled /\ Judged(judge[j])
        /\ \A j \in SocialJobs : SocialAt(j, "newQuality") => quality[Whose(j)] = << >>

-----------------------------------------------------------------------------
(* The points. *)

Working == {"campaign", "quality", "newQuality", "findDay", "createDay", "writeDay", "update", "list"}
Days == {"findDay", "createDay", "writeDay"}

Before == {"rest", "page", "fetch", "post"}

Shaped(l) ==
    /\ DOMAIN l = {"pc", "page", "todo", "saved", "had", "got", "at"}
    /\ DOMAIN l.at = {"q", "kind", "score", "total", "id", "day", "left"}

\* What a run holds: the posts of its page, those whose points it gave, and the one at hand.
Held(l) ==
    /\ Shaped(l)
    /\ l.pc \in Before \cup Working
    /\ l.todo \subseteq Posts /\ l.saved \subseteq Posts /\ l.todo \cap l.saved = {}
    /\ l.had \in [Posts -> Counts] /\ l.got \in [Posts -> Counts]
    /\ l.pc \in Working => l.at.q \in l.todo
    /\ l.pc = "update" => l.at.left \in {{"score", "total"}, {"score"}, {"total"}}
    /\ l.pc \in Before => l.at = AtPost
    /\ l.pc \in {"rest", "page"} => l.todo = {}
    /\ l.pc \in {"rest", "page", "fetch"} => l.saved = {}

HeldInv ==
    /\ twitter \in [Posts -> Counts] /\ post \in [Posts -> Counts]
    /\ behind \in BOOLEAN /\ (behind => old.post \in [Posts -> Counts])
    /\ \A j \in SocialJobs : Held(social[j])

\* The points of what is new of a post.
New(l, q) == PointsOf(l.got[q]) - PointsOf(l.had[q])
NewOf(l, k) == (l.got[l.at.q][k] - l.had[l.at.q][k]) * Points[k]

\* What was given for the post at hand.
OnDay(l) ==
    IF l.pc \in {"update", "list"} THEN New(l, l.at.q)
    ELSE IF l.pc \in Days /\ l.at.kind = "shares" THEN NewOf(l, "likes") ELSE 0
Given(l, what) ==
    IF l.pc = "list" \/ (l.pc = "update" /\ what \notin l.at.left) THEN New(l, l.at.q) ELSE 0

\* The points of each participant, where the posts that a run holds count as it found them.
Weights(l) == [q \in Posts |-> PointsOf(IF q \in l.saved THEN l.got[q] ELSE post[q])]
Dues(l) == [p \in Participants |-> tracked[p] + SumOf(PostsOf(p), Weights(l))]
AtHand(l, p, n) == IF l.pc \in Working /\ Author[l.at.q] = p THEN n ELSE 0

\* Scores, days and total against these points.
Even(l, dues) ==
    /\ \A p \in Here :
          /\ score[p] = dues[p] + AtHand(l, p, Given(l, "score"))
          /\ Total(daily[p]) = dues[p] + AtHand(l, p, OnDay(l))
    /\ total = SumOf(Participants, dues) + Given(l, "total")
Balanced(l) == Even(l, Dues(l))

\* What a run has read is what is there.
Current(l) ==
    /\ \A q \in l.todo \cup l.saved : l.had[q] = post[q]
    /\ l.pc \in Working =>
          /\ Author[l.at.q] \in Here
          /\ (l.pc # "update" \/ "score" \in l.at.left) /\ l.pc # "list" => l.at.score = score[Author[l.at.q]]
          /\ l.pc \notin {"campaign", "list"} /\ (l.pc # "update" \/ "total" \in l.at.left) => l.at.total = total
          /\ l.pc = "writeDay" => /\ l.at.id \in DOMAIN daily[Author[l.at.q]]
                                  /\ l.at.day = daily[Author[l.at.q]][l.at.id]
          /\ l.pc \in {"campaign", "quality", "newQuality"} => l.at.kind = "likes"
          /\ l.pc \in Days => l.at.kind \in Kinds

PointsTyped ==
    /\ score \in [Participants -> Int \cup {Gone}] /\ total \in Int
    /\ daily \in [Participants -> Seq(Int)] /\ tracked \in [Participants -> Int]

CountInv ==
    ~disturbed =>
        /\ PointsTyped
        /\ SocialRests => Balanced(Idle)
        /\ \A j \in SocialJobs : ~SocialAt(j, "rest") => Balanced(social[j]) /\ Current(social[j])

-----------------------------------------------------------------------------
(* Credits. *)

\* A run that gave the points of a post and has not written its row, or may still give them.
Counted(l, q) ==
    \/ q \in l.saved
    \/ /\ l.pc = "list" \/ (l.pc = "update" /\ "score" \notin l.at.left)
       /\ l.at.q = q
ToCount(l, q) == q \in l.todo /\ ~Counted(l, q)
ExtraOf(l, q) == IF Counted(l, q) THEN New(l, q) ELSE 0
PendingOf(l, q) == IF q \in l.todo \cup l.saved THEN 1 ELSE 0

\* K are the runs that were counted as astray when they read their page.  The credit of a
\* post but for their points, and how often it may be off.
Extra(K, q) == SumOf(K, [j \in SocialJobs |-> ExtraOf(social[j], q)])
Pending(K, q) == SumOf(K, [j \in SocialJobs |-> PendingOf(social[j], q)])
Gap(K, q) == credit[q] - Extra(K, q)
Slack(K, q) == astray - Pending(K, q)
Near(x, c, n) == x - PointsOf(c) \in -(MostPoints * n)..(MostPoints * n)
Fits(K, q, c) == Near(Gap(K, q), c, Slack(K, q))

\* Another run credits the post with what it has got, or with what it found; as long as
\* none has, it is credited with the counts in its row.
ExplainedAt(K, q) ==
    /\ \A j \in SocialJobs \ K :
          /\ Counted(social[j], q) => Fits(K, q, social[j].got[q])
          /\ ToCount(social[j], q) => Fits(K, q, social[j].had[q])
    /\ (\A j \in SocialJobs \ K : ~Counted(social[j], q)) => Fits(K, q, post[q])

Explained(K) ==
    /\ K \subseteq SocialJobs
    /\ \A i, j \in SocialJobs \ K : HoldsPage(i) /\ HoldsPage(j) => i = j
    /\ \A q \in Posts : ExplainedAt(K, q)

CreditInv == credit \in [Posts -> Int] /\ astray \in Nat /\ \E K \in SUBSET SocialJobs : Explained(K)
-----------------------------------------------------------------------------
(* Pages. *)

LEMMA LeastOfTwo == \A a, b \in Int : Min({a, b}) = IF a <= b THEN a ELSE b
<1> SUFFICES ASSUME NEW a \in Int, NEW b \in Int PROVE Min({a, b}) = IF a <= b THEN a ELSE b
  OBVIOUS
<1> DEFINE m == IF a <= b THEN a ELSE b
<1>1. m \in {a, b} /\ \A y \in {a, b} : m =< y
  OBVIOUS
<1>2. \A x \in {a, b} : (\A y \in {a, b} : x =< y) => x = m
  OBVIOUS
<1> QED
  BY <1>1, <1>2, Zenon DEF Min

LEMMA GreatestOfTwo == \A a, b \in Int : Max({a, b}) = IF a >= b THEN a ELSE b
<1> SUFFICES ASSUME NEW a \in Int, NEW b \in Int PROVE Max({a, b}) = IF a >= b THEN a ELSE b
  OBVIOUS
<1> DEFINE m == IF a >= b THEN a ELSE b
<1>1. m \in {a, b} /\ \A y \in {a, b} : m >= y
  OBVIOUS
<1>2. \A x \in {a, b} : (\A y \in {a, b} : x >= y) => x = m
  OBVIOUS
<1> QED
  BY <1>1, <1>2, Zenon DEF Max

\* As many pages as it takes.
LEMMA PagesSuffice ==
  ASSUME NEW n \in Nat
  PROVE  /\ PageCount(n, RowsPerPage) \in Nat
         /\ PageCount(n, RowsPerPage) * RowsPerPage >= n
         /\ \A page \in Nat : page < PageCount(n, RowsPerPage) => page * RowsPerPage < n
<1>1. RowsPerPage \in Nat \ {0}
  BY TableAssumption
<1>2. ASSUME NEW k \in Nat \ {0}, NEW m \in Nat, m = n + k - 1
      PROVE  m \div k \in Nat /\ (m \div k) * k >= n /\ \A page \in Nat : page < m \div k => page * k < n
  <2>1. m < k * (m \div k) + k /\ k * (m \div k) <= m /\ m \div k \in Nat
    OBVIOUS
  <2>2. k * (m \div k) = (m \div k) * k /\ (m \div k) * k \in Nat
    BY <2>1
  <2>3. ASSUME NEW page \in Nat, page < m \div k PROVE page * k < n
    <3> DEFINE d == m \div k
    <3>1. d \in Nat /\ page + 1 <= d /\ d * k <= m /\ d * k \in Nat
      BY <2>1, <2>2, <2>3
    <3> HIDE DEF d
    <3>2. (page + 1) * k <= d * k
      BY <3>1
    <3>3. (page + 1) * k = page * k + k /\ page * k \in Nat
      OBVIOUS
    <3> QED
      BY <1>2, <3>1, <3>2, <3>3
  <2> QED
    BY <1>2, <2>1, <2>2, <2>3
<1>3. n + RowsPerPage - 1 \in Nat
  BY <1>1
<1> QED
  BY <1>1, <1>2, <1>3 DEF PageCount

LEMMA NoPageRead == \A n \in Nat : PagesRead(0, n, 0)
<1> SUFFICES ASSUME NEW n \in Nat PROVE PagesRead(0, n, 0)
  OBVIOUS
<1>1. RowsPerPage \in Nat /\ 0 * RowsPerPage = 0
  BY TableAssumption
<1>2. PICK k : k = 0 * RowsPerPage
  OBVIOUS
<1>3. Min({n, k}) = 0
  BY <1>1, <1>2, LeastOfTwo
<1>4. PageCount(n, RowsPerPage) \in Nat
  BY PagesSuffice
<1> QED
  BY <1>2, <1>3, <1>4 DEF PagesRead

\* The last page has the last row.
LEMMA AllPagesRead ==
  \A count, page : \A n \in Nat : PagesRead(page, n, count) /\ page = PageCount(n, RowsPerPage) => count = n
<1> SUFFICES ASSUME NEW n \in Nat, NEW count, NEW page, PagesRead(page, n, count), page = PageCount(n, RowsPerPage)
             PROVE  count = n
  OBVIOUS
<1>1. page \in Nat /\ page * RowsPerPage >= n /\ page * RowsPerPage \in Int
  BY PagesSuffice, TableAssumption
<1>2. count = Min({n, page * RowsPerPage})
  BY DEF PagesRead
<1> QED
  BY <1>1, <1>2, LeastOfTwo

\* A page has rows that were not read, and as many as belong to it.
LEMMA OnePageMore ==
  ASSUME NEW n \in Nat, NEW count \in Nat, NEW page, PagesRead(page, n, count),
         page < PageCount(n, RowsPerPage),
         NEW rows, Cardinality(rows) = n - count,
         NEW S \in PagesOf(rows, n, RowsPerPage, page)
  PROVE  S \subseteq rows /\ PagesRead(page + 1, n, count + Cardinality(S))
<1>1. RowsPerPage \in Nat /\ page \in Nat
  BY TableAssumption DEF PagesRead
<1>2. PICK k : k = page * RowsPerPage
  OBVIOUS
<1>3. k \in Nat /\ k < n /\ (page + 1) * RowsPerPage = k + RowsPerPage
  BY <1>1, <1>2, PagesSuffice
<1>4. count = k
  BY <1>2, <1>3, LeastOfTwo DEF PagesRead
<1>5. PICK here : here = OnPage(n, RowsPerPage, page)
  OBVIOUS
<1>6. here = IF RowsPerPage <= n - k THEN RowsPerPage ELSE n - k
  <2>1. here = Max({0, Min({RowsPerPage, n - k})})
    BY <1>2, <1>5 DEF OnPage
  <2>2. n - k \in Int
    BY <1>3
  <2>3. Min({RowsPerPage, n - k}) = IF RowsPerPage <= n - k THEN RowsPerPage ELSE n - k
    BY <1>1, <2>2, LeastOfTwo
  <2>4. PICK m : m = Min({RowsPerPage, n - k})
    OBVIOUS
  <2>5. m \in Int /\ m >= 0
    BY <1>1, <1>3, <2>3, <2>4
  <2>6. Max({0, m}) = m
    BY <2>5, GreatestOfTwo
  <2> QED
    BY <2>1, <2>3, <2>4, <2>6
<1>7. S \subseteq rows /\ Cardinality(S) = Min({here, Cardinality(rows)})
  BY <1>5 DEF PagesOf, kSubset
<1>8. Cardinality(S) = here
  <2>1. here \in Int /\ here <= n - k /\ n - k \in Int
    BY <1>1, <1>3, <1>6
  <2>2. Cardinality(rows) = n - k
    BY <1>4
  <2> QED
    BY <1>7, <2>1, <2>2, LeastOfTwo
<1>9. PICK m : m = (page + 1) * RowsPerPage
  OBVIOUS
<1>10. count + Cardinality(S) = Min({n, m})
  <2>1. m \in Int /\ m = k + RowsPerPage
    BY <1>1, <1>3, <1>9
  <2>2. Min({n, m}) = IF n <= m THEN n ELSE m
    BY <2>1, LeastOfTwo
  <2> QED
    BY <1>1, <1>3, <1>4, <1>6, <1>8, <2>1, <2>2
<1>11. page + 1 \in Nat /\ page + 1 <= PageCount(n, RowsPerPage)
  BY <1>1, PagesSuffice
<1> QED
  BY <1>7, <1>9, <1>10, <1>11 DEF PagesRead

-----------------------------------------------------------------------------
(* One run at a time. *)

\* How a run moves: it was under way, or nothing else is and the replica is not behind.
Moves(busy) == ~disturbed' => ~disturbed /\ (busy \/ (AtRest /\ ~behind))

LEMMA SocialMoves ==
  ASSUME NEW j \in SocialJobs, Social(j)
  PROVE  /\ \E new : social' = [social EXCEPT ![j] = new]
         /\ Moves(~SocialAt(j, "rest"))
         /\ UNCHANGED <<judge, tally, behind>>
<1>1. CASE StartSocial(j) /\ Starts("social") /\ Quietly /\ UNCHANGED <<qualityVars, astray>>
  BY <1>1 DEF Social, OnlySocial, replicaVars, aggregateVars, qualityVars, StartSocial, Quietly, Moves, Goto, Run
<1>2. CASE /\ ReadPosts(j)
           /\ UNCHANGED <<qualityVars, left, disturbed>>
  BY <1>2 DEF Social, OnlySocial, replicaVars, aggregateVars, qualityVars, ReadPosts, Moves, Run, SocialAt
<1>3. CASE SocialStep(j) /\ UNCHANGED <<qualityVars, left, astray, disturbed>>
  BY <1>3 DEF Social, OnlySocial, replicaVars, aggregateVars, qualityVars, Moves, Run, Goto, SocialAt, SocialStep,
     GetPosts, ReadAuthor, ReadTotal, FindQuality, CreateQuality, FindDay, CreateDay, WriteDay, UpdateTotal,
     ListPost, SavePosts, Written
<1>4. CASE UpdateScore(j) /\ shuffled' = QualityJobs /\ UNCHANGED <<judge, left, astray, disturbed>>
  BY <1>4 DEF Social, OnlySocial, replicaVars, aggregateVars, UpdateScore, Moves, Run, SocialAt, Written
<1>5. CASE RejectScore(j) /\ UNCHANGED <<qualityVars, left, astray, disturbed>>
  BY <1>5 DEF Social, OnlySocial, replicaVars, aggregateVars, qualityVars, RejectScore, Throw, Moves, Run, SocialAt
<1>6. CASE (Throw(j) \/ SocialDies(j)) /\ Fails /\ astray' = astray + 1 /\ UNCHANGED qualityVars
  BY <1>6 DEF Social, OnlySocial, replicaVars, aggregateVars, qualityVars, Throw, SocialDies, Fails, Moves, Run
<1> QED
  BY <1>1, <1>2, <1>3, <1>4, <1>5, <1>6 DEF Social

LEMMA QualityMoves ==
  ASSUME NEW j \in QualityJobs, Quality(j)
  PROVE  /\ \E new : judge' = [judge EXCEPT ![j] = new]
         /\ Moves(judge[j].pc # "rest")
         /\ UNCHANGED <<social, tally, behind>>
<1>1. CASE StartJudge(j) /\ Starts("judge") /\ Quietly
  BY <1>1 DEF Quality, OnlyQuality, replicaVars, aggregateVars, socialVars, StartJudge, Quietly, Moves, Judge
<1>2. CASE QualityStep(j) /\ UNCHANGED <<left, disturbed>>
  BY <1>2 DEF Quality, OnlyQuality, replicaVars, aggregateVars, socialVars, QualityStep, RateParticipants, LookUpQuality,
     UpsertQuality, Moves, Judge
<1>3. CASE JudgeDies(j) /\ Fails
  BY <1>3 DEF Quality, OnlyQuality, replicaVars, aggregateVars, socialVars, JudgeDies, Fails, Moves, Judge
<1> QED
  BY <1>1, <1>2, <1>3 DEF Quality

LEMMA TallyMoves ==
  ASSUME NEW j \in TallyJobs, Aggregate(j)
  PROVE  /\ \E new : tally' = [tally EXCEPT ![j] = new]
         /\ Moves(tally[j].pc # "rest")
         /\ UNCHANGED <<social, judge, behind>>
<1>1. CASE StartTally(j) /\ Starts("tally") /\ Quietly
  BY <1>1 DEF Aggregate, OnlyAggregate, replicaVars, qualityVars, socialVars, StartTally, Quietly, Moves, Tally
<1>2. CASE AggregateStep(j) /\ UNCHANGED <<left, disturbed>>
  BY <1>2 DEF Aggregate, OnlyAggregate, replicaVars, qualityVars, socialVars, AggregateStep, ReadUsers, SumScores,
     SaveMetrics, Moves, Tally
<1>3. CASE TallyDies(j) /\ Fails
  BY <1>3 DEF Aggregate, OnlyAggregate, replicaVars, qualityVars, socialVars, TallyDies, Fails, Moves, Tally
<1> QED
  BY <1>1, <1>2, <1>3 DEF Aggregate

\* A request or the world outside moves no run; where nothing is disturbed by it a request
\* finds everything at rest, and the replica falls behind only then.
LEMMA OthersMove ==
  ASSUME Request \/ Elsewhere \/ UNCHANGED vars
  PROVE  /\ UNCHANGED <<social, judge, tally>>
         /\ ~disturbed' => ~disturbed
         /\ ~disturbed' /\ Request => AtRest /\ ~behind
         /\ ~disturbed' /\ behind' => behind \/ AtRest
<1>1. Request => UNCHANGED <<social, judge, tally, behind>> /\ (~disturbed' => ~disturbed /\ AtRest /\ ~behind)
  BY DEF Request, Track, RemoveParticipation, UpdateUser, qualityVars, aggregateVars, socialVars, replicaVars, Quietly
<1>2. CASE Elsewhere
  <2>1. UNCHANGED <<social, judge, tally>>
    BY <1>2 DEF Elsewhere, TwitterCounts, FallsBehind, CatchesUp, qualityVars, aggregateVars, socialVars, replicaVars
  <2>2. \/ UNCHANGED <<behind, disturbed>>
        \/ disturbed' = (disturbed \/ ~AtRest)
        \/ behind' = FALSE /\ UNCHANGED disturbed
    BY <1>2, Zenon DEF Elsewhere, FallsBehind, CatchesUp, replicaVars
  <2>3. ~disturbed' /\ Request => AtRest /\ ~behind
    BY <1>1
  <2>4. ~disturbed' => ~disturbed
    BY <2>2
  <2>5. ~disturbed' /\ behind' => behind \/ AtRest
    BY <2>2
  <2> QED
    BY <2>1, <2>3, <2>4, <2>5
<1>3. CASE UNCHANGED vars
  <2>1. UNCHANGED <<social, judge, tally, behind, disturbed>>
    BY <1>3 DEF vars, qualityVars, aggregateVars, socialVars, replicaVars
  <2> QED
    BY <1>1, <2>1
<1> QED
  BY <1>1, <1>2, <1>3

LEMMA LoneInit == Init => LoneInv
<1> SUFFICES ASSUME Init PROVE LoneInv
  OBVIOUS
<1>1. AtRest /\ Runs
  BY DEF Init, SocialInit, QualityInit, AggregateInit, Idle, NotJudging, NotTallying, AtRest, SocialAt, Runs
<1> QED
  BY <1>1 DEF LoneInv, AtRest

LEMMA LoneNext == LoneInv /\ [Next]_vars => LoneInv'
<1> SUFFICES ASSUME LoneInv, [Next]_vars PROVE LoneInv'
  OBVIOUS
<1> USE DEF SocialRests, QualityRests, TallyRests, SocialAt
<1>1. ASSUME NEW j \in SocialJobs, Social(j) PROVE LoneInv'
  <2>1. PICK new : social' = [social EXCEPT ![j] = new]
    BY <1>1, SocialMoves
  <2>2. Moves(~SocialAt(j, "rest")) /\ UNCHANGED <<judge, tally, behind>>
    BY <1>1, SocialMoves
  <2>3. Runs' /\ \A i \in SocialJobs \ {j} : social'[i] = social[i]
    BY <2>1, <2>2 DEF LoneInv, Runs
  <2>4. ~disturbed' => ~behind /\ QualityRests /\ TallyRests /\ \A i \in SocialJobs \ {j} : SocialAt(i, "rest")
    BY <2>2 DEF LoneInv, Moves, AtRest
  <2> QED
    BY <2>2, <2>3, <2>4 DEF LoneInv
<1>2. ASSUME NEW j \in QualityJobs, Quality(j) PROVE LoneInv'
  <2>1. PICK new : judge' = [judge EXCEPT ![j] = new]
    BY <1>2, QualityMoves
  <2>2. Moves(judge[j].pc # "rest") /\ UNCHANGED <<social, tally, behind>>
    BY <1>2, QualityMoves
  <2>3. Runs' /\ \A i \in QualityJobs \ {j} : judge'[i] = judge[i]
    BY <2>1, <2>2 DEF LoneInv, Runs
  <2>4. ~disturbed' => ~behind /\ SocialRests /\ TallyRests /\ \A i \in QualityJobs \ {j} : judge[i].pc = "rest"
    BY <2>2 DEF LoneInv, Moves, AtRest
  <2> QED
    BY <2>2, <2>3, <2>4 DEF LoneInv
<1>3. ASSUME NEW j \in TallyJobs, Aggregate(j) PROVE LoneInv'
  <2>1. PICK new : tally' = [tally EXCEPT ![j] = new]
    BY <1>3, TallyMoves
  <2>2. Moves(tally[j].pc # "rest") /\ UNCHANGED <<social, judge, behind>>
    BY <1>3, TallyMoves
  <2>3. Runs' /\ \A i \in TallyJobs \ {j} : tally'[i] = tally[i]
    BY <2>1, <2>2 DEF LoneInv, Runs
  <2>4. ~disturbed' => ~behind /\ SocialRests /\ QualityRests /\ \A i \in TallyJobs \ {j} : tally[i].pc = "rest"
    BY <2>2 DEF LoneInv, Moves, AtRest
  <2> QED
    BY <2>2, <2>3, <2>4 DEF LoneInv
<1>4. ASSUME Request \/ Elsewhere \/ UNCHANGED vars PROVE LoneInv'
  <2>1. UNCHANGED <<social, judge, tally>> /\ (~disturbed' => ~disturbed /\ (behind' => behind \/ AtRest))
    BY <1>4, OthersMove
  <2> QED
    BY <2>1 DEF LoneInv, Runs, AtRest
<1> QED
  BY <1>1, <1>2, <1>3, <1>4 DEF Next

-----------------------------------------------------------------------------
(* Metrics of the aggregation. *)

LEMMA PageOf ==
  ASSUME NEW S, IsFiniteSet(S), NEW read \in SUBSET S, NEW page,
         PagesRead(page, Cardinality(S), Cardinality(read)), page # PageCount(Cardinality(S), RowsPerPage),
         NEW more \in PagesOf(S \ read, Cardinality(S), RowsPerPage, page)
  PROVE  /\ more \subseteq S \ read
         /\ PagesRead(page + 1, Cardinality(S), Cardinality(read \cup more))
<1>1. IsFiniteSet(read) /\ Cardinality(read) \in Nat /\ Cardinality(S) \in Nat
  BY FS_Subset, FS_CardinalityType
<1>2. S \cap read = read
  OBVIOUS
<1>3. Cardinality(S \ read) = Cardinality(S) - Cardinality(read)
  BY <1>2, FS_Difference
<1>4. page < PageCount(Cardinality(S), RowsPerPage)
  BY <1>1, PagesSuffice DEF PagesRead
<1>5. more \subseteq S \ read /\ PagesRead(page + 1, Cardinality(S), Cardinality(read) + Cardinality(more))
  BY <1>1, <1>3, <1>4, OnePageMore
<1>6. IsFiniteSet(S \ read)
  BY FS_Difference
<1>7. IsFiniteSet(more) /\ Cardinality(more) \in Nat
  BY <1>5, <1>6, FS_Subset, FS_CardinalityType
<1>8. read \cap more = {}
  BY <1>5
<1>9. Cardinality(read \cup more) = Cardinality(read) + Cardinality(more)
  BY <1>1, <1>7, <1>8, FS_Union, FS_EmptySet
<1> QED
  BY <1>5, <1>9

LEMMA EverybodyRead ==
  ASSUME NEW S, IsFiniteSet(S), NEW read \in SUBSET S, NEW page,
         PagesRead(page, Cardinality(S), Cardinality(read)), page = PageCount(Cardinality(S), RowsPerPage)
  PROVE  read = S
<1>1. Cardinality(S) \in Nat
  BY FS_CardinalityType
<1>2. Cardinality(read) = Cardinality(S)
  BY <1>1, AllPagesRead
<1> QED
  BY <1>2, FS_Subset

\* Steps of which the aggregation takes no notice.
LEMMA TallyStays ==
  ASSUME TallyInv, UNCHANGED <<tally, metric, completed, cut>>,
         ~disturbed' => ~disturbed, ~disturbed' => TallyRests \/ jumbled' = jumbled
  PROVE  TallyInv'
BY DEF TallyInv, Tallied, TallyRests, Metrics

\* A step of a run concerns only the run.
LEMMA TallyStep ==
  ASSUME LoneInv, NEW j \in TallyJobs, NEW m, tally' = [tally EXCEPT ![j] = m],
         ~disturbed, tally[j].pc # "rest" \/ AtRest
  PROVE  /\ tally'[j] = m
         /\ TallyRests' <=> m.pc = "rest"
         /\ \A i \in TallyJobs \ {j} : tally'[i].pc = "rest"
<1>1. tally = [i \in TallyJobs |-> tally[i]]
  BY DEF LoneInv, Runs
<1>2. \A i \in TallyJobs \ {j} : tally[i].pc = "rest"
  BY DEF LoneInv, AtRest
<1> QED
  BY <1>1, <1>2 DEF TallyRests

LEMMA TallyNextStep ==
  ASSUME LoneInv, TallyInv, ~disturbed, ~disturbed', NEW j \in TallyJobs, NEW m,
         tally' = [tally EXCEPT ![j] = m], tally[j].pc # "rest" \/ AtRest,
         metric' \in [Participants -> Nat], completed' \in Nat, cut' \in Nat,
         m.pc = "rest" => \A u \in Participants : metric'[u] \in Metrics',
         m.pc # "rest" => j \notin jumbled' /\ Tallied(m)'
  PROVE  TallyInv'
<1>1. /\ tally'[j] = m
      /\ TallyRests' <=> m.pc = "rest"
      /\ \A i \in TallyJobs \ {j} : tally'[i].pc = "rest"
  BY TallyStep
<1>2. \A i \in TallyJobs : tally'[i].pc # "rest" => i = j /\ i \notin jumbled' /\ Tallied(tally[i])'
  BY <1>1
<1> QED
  BY <1>1, <1>2 DEF TallyInv

LEMMA TallyStarts ==
  ASSUME LoneInv, TallyInv, NEW j \in TallyJobs, StartTally(j), ~disturbed, ~disturbed', AtRest
  PROVE  TallyInv'
<1> DEFINE m == [NotTallying EXCEPT !.pc = "page"]
<1>1. tally' = [tally EXCEPT ![j] = m] /\ UNCHANGED <<metric, completed, cut>> /\ j \notin jumbled'
  BY DEF StartTally, Tally
<1>2. /\ m.pc = "page" /\ DOMAIN m = {"pc", "page", "read", "todo", "toSave"}
      /\ m.page = 0 /\ m.read = {} /\ m.todo = {} /\ m.toSave = {}
  BY DEF NotTallying
<1> HIDE DEF m
<1>3. TallyRests /\ \A u \in Participants : metric[u] \in Metrics
  BY DEF AtRest, TallyInv, TallyRests
<1>4. metric \in [Participants -> Nat] /\ completed \in Nat /\ cut \in Nat
  BY DEF TallyInv
<1>5. PagesRead(m.page, Cardinality(Participants), Cardinality(m.read))
  <2>1. Cardinality(m.read) = 0 /\ Cardinality(Participants) \in Nat
    BY <1>2, FS_EmptySet, FS_CardinalityType, TableAssumption
  <2> QED
    BY <1>2, <2>1, NoPageRead
<1>6. Tallied(m)'
  BY <1>1, <1>2, <1>3, <1>5 DEF Tallied, Metrics
<1> QED
  BY <1>1, <1>2, <1>4, <1>6, TallyNextStep

LEMMA TallyReads ==
  ASSUME LoneInv, TallyInv, NEW j \in TallyJobs, ReadUsers(j), ~disturbed, ~disturbed'
  PROVE  TallyInv'
<1> DEFINE l == tally[j]
           n == Cardinality(Participants)
<1>1. l.pc = "page" /\ Tallied(l) /\ j \notin jumbled
  BY DEF ReadUsers, TallyInv
<1>2. /\ l.read \in SUBSET Participants /\ l.todo = {} /\ l.toSave = {}
      /\ PagesRead(l.page, n, Cardinality(l.read))
      /\ DOMAIN l = {"pc", "page", "read", "todo", "toSave"}
      /\ \A u \in Participants :
            metric[u] \in IF u \in l.read THEN (completed + 1)..(completed + 1 + cut) ELSE Metrics
  BY <1>1 DEF Tallied
<1>3. metric \in [Participants -> Nat] /\ completed \in Nat /\ cut \in Nat /\ IsFiniteSet(Participants)
  BY TableAssumption DEF TallyInv
<1>4. UNCHANGED <<metric, jumbled, cut>>
  BY DEF ReadUsers
<1>5. CASE l.page = PageCount(n, RowsPerPage) /\ Tally(j, NotTallying) /\ completed' = completed + 1
  <2>1. l.read = Participants
    BY <1>2, <1>3, <1>5, EverybodyRead
  <2>2. \A u \in Participants : metric'[u] \in Metrics'
    BY <1>2, <1>4, <1>5, <2>1 DEF Metrics
  <2>3. NotTallying.pc = "rest" /\ tally' = [tally EXCEPT ![j] = NotTallying]
    BY <1>5 DEF NotTallying, Tally
  <2> HIDE DEF l
  <2>4. metric' \in [Participants -> Nat] /\ completed' \in Nat /\ cut' \in Nat
    BY <1>3, <1>4, <1>5
  <2> QED
    BY <1>1, <2>2, <2>3, <2>4, TallyNextStep DEF l
<1>6. ASSUME l.page < PageCount(n, RowsPerPage), UNCHANGED completed,
             NEW page \in PagesOf(Participants \ l.read, n, RowsPerPage, l.page),
             Tally(j, [l EXCEPT !.pc = "users", !.page = @ + 1, !.read = @ \cup page, !.todo = page])
      PROVE  TallyInv'
  <2>m. PICK m : m = [l EXCEPT !.pc = "users", !.page = @ + 1, !.read = @ \cup page, !.todo = page]
    OBVIOUS
  <2>1. /\ m.pc = "users" /\ m.page = l.page + 1 /\ m.read = l.read \cup page /\ m.todo = page /\ m.toSave = {}
        /\ DOMAIN m = {"pc", "page", "read", "todo", "toSave"}
    BY <1>2, <2>m
  <2>2. tally' = [tally EXCEPT ![j] = m]
    BY <1>6, <2>m DEF Tally
  <2>0. /\ page \in PagesOf(Participants \ l.read, n, RowsPerPage, l.page) /\ completed' = completed
        /\ l.read \in SUBSET Participants /\ PagesRead(l.page, n, Cardinality(l.read))
    BY <1>2, <1>6
  <2> HIDE DEF l
  <2>3. l.page # PageCount(n, RowsPerPage)
    <3>1. PageCount(n, RowsPerPage) \in Nat
      BY <1>3, FS_CardinalityType, PagesSuffice
    <3> QED
      BY <1>2, <1>6, <3>1 DEF PagesRead
  <2>4. page \subseteq Participants \ l.read /\ PagesRead(m.page, n, Cardinality(m.read))
    <3>1. /\ page \subseteq Participants \ l.read
          /\ PagesRead(l.page + 1, n, Cardinality(l.read \cup page))
      BY <1>3, <2>0, <2>3, PageOf
    <3> QED
      BY <2>1, <3>1
  <2>5. Tallied(m)'
    <3>1. \A u \in Participants : u \in m.read \ (m.todo \cup m.toSave) <=> u \in l.read
      BY <2>1, <2>4
    <3> QED
      BY <1>2, <1>4, <2>0, <2>1, <2>4, <3>1 DEF Tallied, Metrics
  <2> QED
    BY <1>1, <1>3, <1>4, <2>0, <2>1, <2>2, <2>5, TallyNextStep DEF l
<1>7. \/ l.page = PageCount(n, RowsPerPage) /\ Tally(j, NotTallying) /\ completed' = completed + 1
      \/ /\ l.page < PageCount(n, RowsPerPage) /\ UNCHANGED completed
         /\ \E page \in PagesOf(Participants \ l.read, n, RowsPerPage, l.page) :
               Tally(j, [l EXCEPT !.pc = "users", !.page = @ + 1, !.read = @ \cup page, !.todo = page])
  BY <1>1 DEF ReadUsers
<1> QED
  BY <1>5, <1>6, <1>7

LEMMA TallySums ==
  ASSUME LoneInv, TallyInv, NEW j \in TallyJobs, SumScores(j), ~disturbed, ~disturbed'
  PROVE  TallyInv'
<1> DEFINE l == tally[j]
<1>1. l.pc = "users" /\ Tallied(l) /\ j \notin jumbled
  BY DEF SumScores, TallyInv
<1>2. /\ l.read \subseteq Participants /\ l.todo \subseteq l.read /\ l.toSave \subseteq l.read
      /\ PagesRead(l.page, Cardinality(Participants), Cardinality(l.read))
      /\ DOMAIN l = {"pc", "page", "read", "todo", "toSave"}
      /\ \A u \in Participants :
            metric[u] \in IF u \in l.read \ (l.todo \cup l.toSave)
                          THEN (completed + 1)..(completed + 1 + cut) ELSE Metrics
  BY <1>1 DEF Tallied
<1>3. metric \in [Participants -> Nat] /\ completed \in Nat /\ cut \in Nat
  BY DEF TallyInv
<1>4. UNCHANGED <<metric, jumbled, completed>>
  BY DEF SumScores
<1>5. ASSUME NEW u \in l.todo, UNCHANGED cut, Tally(j, [l EXCEPT !.todo = @ \ {u}, !.toSave = @ \cup {u}])
      PROVE  TallyInv'
  <2>m. PICK m : m = [l EXCEPT !.todo = @ \ {u}, !.toSave = @ \cup {u}]
    OBVIOUS
  <2>1. /\ m.pc = "users" /\ m.page = l.page /\ m.read = l.read /\ m.todo = l.todo \ {u} /\ m.toSave = l.toSave \cup {u}
        /\ DOMAIN m = {"pc", "page", "read", "todo", "toSave"}
    BY <1>1, <1>2, <2>m
  <2>2. tally' = [tally EXCEPT ![j] = m] /\ cut' = cut
    BY <1>5, <2>m DEF Tally
  <2> HIDE DEF l
  <2>3. Tallied(m)'
    <3>1. m.todo \cup m.toSave = l.todo \cup l.toSave /\ m.todo \subseteq m.read /\ m.toSave \subseteq m.read
      BY <1>2, <1>5, <2>1
    <3> QED
      BY <1>2, <1>4, <2>1, <2>2, <3>1 DEF Tallied, Metrics
  <2> QED
    BY <1>1, <1>3, <1>4, <2>1, <2>2, <2>3, TallyNextStep DEF l
<1>6. CASE Tally(j, NotTallying) /\ cut' = cut + 1
  <2>1. \A u \in Participants : metric'[u] \in Metrics'
    BY <1>2, <1>3, <1>4, <1>6 DEF Metrics
  <2>2. NotTallying.pc = "rest" /\ tally' = [tally EXCEPT ![j] = NotTallying]
    BY <1>6 DEF NotTallying, Tally
  <2>3. metric' \in [Participants -> Nat] /\ completed' \in Nat /\ cut' \in Nat
    BY <1>3, <1>4, <1>6
  <2> QED
    BY <1>1, <2>1, <2>2, <2>3, TallyNextStep
<1> QED
  BY <1>5, <1>6 DEF SumScores

LEMMA TallySaves ==
  ASSUME LoneInv, TallyInv, NEW j \in TallyJobs, SaveMetrics(j), ~disturbed, ~disturbed'
  PROVE  TallyInv'
<1> DEFINE l == tally[j]
<1>m. PICK m : m = [l EXCEPT !.pc = "page", !.toSave = {}]
  OBVIOUS
<1>1. l.pc = "users" /\ l.todo = {} /\ Tallied(l) /\ j \notin jumbled
  BY DEF SaveMetrics, TallyInv
<1>2. /\ l.read \subseteq Participants /\ l.toSave \subseteq l.read
      /\ PagesRead(l.page, Cardinality(Participants), Cardinality(l.read))
      /\ DOMAIN l = {"pc", "page", "read", "todo", "toSave"}
      /\ \A u \in Participants :
            metric[u] \in IF u \in l.read \ l.toSave THEN (completed + 1)..(completed + 1 + cut) ELSE Metrics
  BY <1>1 DEF Tallied
<1>3. metric \in [Participants -> Nat] /\ completed \in Nat /\ cut \in Nat
  BY DEF TallyInv
<1>4. /\ metric' = [u \in Participants |-> IF u \in l.toSave THEN metric[u] + 1 ELSE metric[u]]
      /\ tally' = [tally EXCEPT ![j] = m]
      /\ UNCHANGED <<jumbled, completed, cut>>
  BY <1>m DEF SaveMetrics, Tally
<1>5. /\ m.pc = "page" /\ m.page = l.page /\ m.read = l.read /\ m.todo = {} /\ m.toSave = {}
      /\ DOMAIN m = {"pc", "page", "read", "todo", "toSave"}
  BY <1>1, <1>2, <1>m
<1> HIDE DEF l
<1>6. \A u \in Participants : metric'[u] \in IF u \in l.read THEN (completed + 1)..(completed + 1 + cut) ELSE Metrics
  BY <1>2, <1>3, <1>4 DEF Metrics
<1>7. Tallied(m)'
  BY <1>2, <1>4, <1>5, <1>6 DEF Tallied, Metrics
<1>8. metric' \in [Participants -> Nat]
  BY <1>3, <1>4
<1> QED
  BY <1>1, <1>3, <1>4, <1>5, <1>7, <1>8, TallyNextStep DEF l

LEMMA TallyInit == Init => TallyInv
BY DEF Init, AggregateInit, TallyInv, TallyRests, NotTallying, Metrics

LEMMA TallyNext == LoneInv /\ TallyInv /\ [Next]_vars => TallyInv'
<1> SUFFICES ASSUME LoneInv, TallyInv, [Next]_vars PROVE TallyInv'
  OBVIOUS
<1>1. ASSUME NEW j \in SocialJobs, Social(j) PROVE TallyInv'
  <2>1. UNCHANGED <<tally, metric, completed, cut, jumbled>>
    BY <1>1 DEF Social, OnlySocial, aggregateVars
  <2>2. ~disturbed' => ~disturbed
    BY <1>1, SocialMoves DEF Moves
  <2> QED
    BY <2>1, <2>2, TallyStays
<1>2. ASSUME NEW j \in QualityJobs, Quality(j) PROVE TallyInv'
  <2>1. UNCHANGED <<tally, metric, completed, cut, jumbled>>
    BY <1>2 DEF Quality, OnlyQuality, aggregateVars
  <2>2. ~disturbed' => ~disturbed
    BY <1>2, QualityMoves DEF Moves
  <2> QED
    BY <2>1, <2>2, TallyStays
<1>3. ASSUME NEW j \in TallyJobs, Aggregate(j) PROVE TallyInv'
  <2>1. CASE disturbed'
    BY <2>1 DEF TallyInv
  <2>2. CASE ~disturbed'
    <3>1. ~disturbed /\ (tally[j].pc # "rest" \/ AtRest)
      BY <1>3, <2>2, TallyMoves DEF Moves
    <3>2. ~TallyDies(j) \/ ~Fails
      BY <2>2 DEF Fails
    <3>3. CASE StartTally(j)
      <4>1. AtRest
        BY <3>1, <3>3 DEF StartTally
      <4> QED
        BY <2>2, <3>1, <3>3, <4>1, TallyStarts
    <3> QED
      BY <1>3, <2>2, <3>1, <3>2, <3>3, TallyReads, TallySums, TallySaves DEF Aggregate, AggregateStep
  <2> QED
    BY <2>1, <2>2
<1>4. ASSUME Request \/ Elsewhere \/ UNCHANGED vars PROVE TallyInv'
  <2>1. UNCHANGED <<tally, metric, completed, cut>> /\ (Request \/ jumbled' = jumbled)
    BY <1>4 DEF Request, Elsewhere, Track, RemoveParticipation, UpdateUser, aggregateVars, vars
  <2>2. (~disturbed' => ~disturbed) /\ (~disturbed' /\ Request => TallyRests)
    BY <1>4, OthersMove DEF AtRest, TallyRests
  <2> QED
    BY <2>1, <2>2, TallyStays
<1> QED
  BY <1>1, <1>2, <1>3, <1>4 DEF Next

\* Where runs and requests came one at a time every user has a metric for each completed
\* run of the aggregation, and at most one for a run that a message ended (scoreAggregate).
THEOREM QuietRunsAggregated == Spec => []QuietAggregated
<1>1. TallyInv => QuietAggregated
  BY DEF TallyInv, QuietAggregated, Quiet, AtRest, TallyRests, Metrics
<1> QED
  BY <1>1, LoneInit, LoneNext, TallyInit, TallyNext, PTL DEF Spec

-----------------------------------------------------------------------------
(* What each step of the social job does to its run. *)

Others == {"page", "todo", "saved", "had", "got"}

Becomes(j, label) ==
    /\ social'[j].pc = label
    /\ Shaped(social'[j])
    /\ \A i \in SocialJobs \ {j} : social'[i] = social[i]
Keeps(j, fields) == \A f \in fields : social'[j][f] = social[j][f]
KeepsAt(j, fields) == \A f \in fields : social'[j].at[f] = social[j].at[f]

LEMMA AtPostShaped ==
  /\ DOMAIN AtPost = {"q", "kind", "score", "total", "id", "day", "left"}
  /\ AtPost.kind = "likes" /\ AtPost.left = {}
BY DEF AtPost

LEMMA IdleShaped ==
  /\ Shaped(Idle) /\ Idle.pc = "rest" /\ Idle.todo = {} /\ Idle.saved = {} /\ Idle.at = AtPost
  /\ Idle.had = [q \in Posts |-> NoCounts] /\ Idle.got = [q \in Posts |-> NoCounts]
BY AtPostShaped DEF Idle, Shaped

LEMMA RunIs ==
  ASSUME LoneInv, NEW j \in SocialJobs, NEW x, Run(j, x)
  PROVE  social'[j] = x /\ \A i \in SocialJobs \ {j} : social'[i] = social[i]
BY DEF LoneInv, Runs, Run

LEMMA JobShaped == ASSUME HeldInv, NEW j \in SocialJobs PROVE Shaped(social[j])
BY DEF HeldInv, Held

LEMMA GotoIs ==
  ASSUME LoneInv, HeldInv, NEW j \in SocialJobs, NEW label, Goto(j, label)
  PROVE  Becomes(j, label) /\ Keeps(j, Others \cup {"at"})
<1>1. PICK x : x = [social[j] EXCEPT !.pc = label]
  OBVIOUS
<1>2. Run(j, x)
  BY <1>1 DEF Goto
<1>3. Shaped(social[j])
  BY JobShaped
<1>4. social'[j] = x /\ \A i \in SocialJobs \ {j} : social'[i] = social[i]
  BY <1>2, RunIs
<1> QED
  BY <1>1, <1>3, <1>4 DEF Becomes, Keeps, Others, Shaped

LEMMA StartIs ==
  ASSUME LoneInv, HeldInv, NEW j \in SocialJobs, StartSocial(j)
  PROVE  social[j].pc = "rest" /\ Becomes(j, "page") /\ Keeps(j, Others \cup {"at"})
BY GotoIs DEF StartSocial, SocialAt

LEMMA ReadPostsIs ==
  ASSUME LoneInv, HeldInv, NEW j \in SocialJobs, ReadPosts(j)
  PROVE  /\ social[j].pc = "page"
         /\ \/ Becomes(j, "rest") /\ social'[j] = Idle
            \/ \E rows \in SUBSET Posts :
                  /\ Becomes(j, "fetch")
                  /\ social'[j].todo = rows /\ social'[j].saved = {}
                  /\ social'[j].had = [q \in Posts |-> IF q \in rows THEN Seen.post[q] ELSE NoCounts]
                  /\ Keeps(j, {"got", "at"})
<1>0. social[j].pc = "page" /\ Shaped(social[j])
  BY JobShaped DEF ReadPosts, SocialAt
<1>1. CASE Run(j, Idle)
  <2>1. social'[j] = Idle /\ \A i \in SocialJobs \ {j} : social'[i] = social[i]
    BY <1>1, RunIs
  <2> QED
    BY <1>0, <2>1, IdleShaped DEF Becomes
<1>2. ASSUME NEW rows \in PagesOf(Posts, Cardinality(Posts), PostsPerPage, social[j].page),
             Run(j, [social[j] EXCEPT !.pc = "fetch", !.page = @ + 1, !.todo = rows, !.saved = {},
                            !.had = [q \in Posts |-> IF q \in rows THEN Seen.post[q] ELSE NoCounts]])
      PROVE  \E r \in SUBSET Posts :
                  /\ Becomes(j, "fetch")
                  /\ social'[j].todo = r /\ social'[j].saved = {}
                  /\ social'[j].had = [q \in Posts |-> IF q \in r THEN Seen.post[q] ELSE NoCounts]
                  /\ Keeps(j, {"got", "at"})
  <2>1. PICK had : had = [q \in Posts |-> IF q \in rows THEN Seen.post[q] ELSE NoCounts]
    OBVIOUS
  <2>2. PICK x : x = [social[j] EXCEPT !.pc = "fetch", !.page = @ + 1, !.todo = rows, !.saved = {}, !.had = had]
    OBVIOUS
  <2>3. social'[j] = x /\ \A i \in SocialJobs \ {j} : social'[i] = social[i]
    BY <1>2, <2>1, <2>2, RunIs
  <2>4. rows \in SUBSET Posts
    BY <1>2 DEF PagesOf, kSubset
  <2>5. Becomes(j, "fetch") /\ social'[j].todo = rows /\ social'[j].saved = {} /\ social'[j].had = had /\ Keeps(j, {"got", "at"})
    BY <1>0, <2>2, <2>3 DEF Becomes, Keeps, Shaped
  <2> QED
    BY <2>1, <2>4, <2>5
<1> QED
  BY <1>0, <1>1, <1>2 DEF ReadPosts

LEMMA GetPostsIs ==
  ASSUME LoneInv, HeldInv, NEW j \in SocialJobs, GetPosts(j)
  PROVE  /\ social[j].pc = "fetch" /\ Becomes(j, "post")
         /\ social'[j].todo \subseteq social[j].todo
         /\ social'[j].got = [q \in Posts |-> IF q \in social'[j].todo THEN twitter[q] ELSE NoCounts]
         /\ Keeps(j, {"saved", "had", "at"})
<1>0. social[j].pc = "fetch" /\ Shaped(social[j])
  BY JobShaped DEF GetPosts, SocialAt
<1>1. PICK answered \in SUBSET social[j].todo :
         Run(j, [social[j] EXCEPT !.pc = "post", !.todo = answered,
                               !.got = [q \in Posts |-> IF q \in answered THEN twitter[q] ELSE NoCounts]])
  BY DEF GetPosts
<1>2. PICK got : got = [q \in Posts |-> IF q \in answered THEN twitter[q] ELSE NoCounts]
  OBVIOUS
<1>3. PICK x : x = [social[j] EXCEPT !.pc = "post", !.todo = answered, !.got = got]
  OBVIOUS
<1>4. social'[j] = x /\ \A i \in SocialJobs \ {j} : social'[i] = social[i]
  BY <1>1, <1>2, <1>3, RunIs
<1>5. Becomes(j, "post") /\ social'[j].todo = answered /\ social'[j].got = got /\ Keeps(j, {"saved", "had", "at"})
  BY <1>0, <1>3, <1>4 DEF Becomes, Keeps, Shaped
<1> QED
  BY <1>0, <1>2, <1>5

LEMMA ReadAuthorIs ==
  ASSUME LoneInv, HeldInv, NEW j \in SocialJobs, ReadAuthor(j)
  PROVE  /\ social[j].pc = "post" /\ Keeps(j, {"saved", "had", "got"})
         /\ \/ \E q \in social[j].todo :
                  /\ Author[q] \in Present(Seen)
                  /\ Becomes(j, "campaign") /\ Keeps(j, {"todo"})
                  /\ social'[j].at.q = q /\ social'[j].at.score = Seen.score[Author[q]]
                  /\ KeepsAt(j, {"kind", "total", "id", "day", "left"})
            \/ Becomes(j, "post") /\ social'[j].todo = {} /\ Keeps(j, {"at"})
<1>0. social[j].pc = "post" /\ Shaped(social[j])
  BY JobShaped DEF ReadAuthor, SocialAt
<1>1. PICK q \in social[j].todo :
         IF Author[q] \in Present(Seen)
         THEN Run(j, [social[j] EXCEPT !.pc = "campaign", !.at.q = q, !.at.score = Seen.score[Author[q]]])
         ELSE Run(j, [social[j] EXCEPT !.todo = {}])
  BY DEF ReadAuthor
<1>2. CASE Author[q] \in Present(Seen)
  <2>0. PICK n : n = Seen.score[Author[q]]
    OBVIOUS
  <2>1. PICK x : x = [social[j] EXCEPT !.pc = "campaign", !.at.q = q, !.at.score = n]
    OBVIOUS
  <2>2. social'[j] = x /\ \A i \in SocialJobs \ {j} : social'[i] = social[i]
    BY <1>1, <1>2, <2>0, <2>1, RunIs
  <2>3. /\ x.pc = "campaign" /\ DOMAIN x = DOMAIN social[j] /\ DOMAIN x.at = DOMAIN social[j].at
        /\ x.todo = social[j].todo /\ x.saved = social[j].saved /\ x.had = social[j].had /\ x.got = social[j].got
        /\ x.at.q = q /\ x.at.score = n
        /\ x.at.kind = social[j].at.kind /\ x.at.total = social[j].at.total /\ x.at.id = social[j].at.id
        /\ x.at.day = social[j].at.day /\ x.at.left = social[j].at.left
    BY <1>0, <2>1 DEF Shaped
  <2>4. Becomes(j, "campaign")
    BY <1>0, <2>2, <2>3 DEF Becomes, Shaped
  <2>5. Keeps(j, {"todo", "saved", "had", "got"}) /\ KeepsAt(j, {"kind", "total", "id", "day", "left"})
    BY <2>2, <2>3 DEF Keeps, KeepsAt
  <2> QED
    BY <1>0, <1>2, <2>0, <2>2, <2>3, <2>4, <2>5 DEF Keeps
<1>3. CASE Author[q] \notin Present(Seen)
  <2>1. PICK x : x = [social[j] EXCEPT !.todo = {}]
    OBVIOUS
  <2>2. social'[j] = x /\ \A i \in SocialJobs \ {j} : social'[i] = social[i]
    BY <1>1, <1>3, <2>1, RunIs
  <2>3. Becomes(j, "post") /\ social'[j].todo = {} /\ Keeps(j, {"saved", "had", "got", "at"})
    BY <1>0, <2>1, <2>2 DEF Becomes, Keeps, Shaped
  <2> QED
    BY <1>0, <2>3 DEF Keeps
<1> QED
  BY <1>2, <1>3

LEMMA ReadTotalIs ==
  ASSUME LoneInv, HeldInv, NEW j \in SocialJobs, ReadTotal(j)
  PROVE  /\ social[j].pc = "campaign" /\ Becomes(j, "quality") /\ Keeps(j, Others)
         /\ social'[j].at.total = Seen.total /\ KeepsAt(j, {"q", "kind", "score", "id", "day", "left"})
<1>0. social[j].pc = "campaign" /\ Shaped(social[j])
  BY JobShaped DEF ReadTotal, SocialAt
<1>1. PICK n : n = Seen.total
  OBVIOUS
<1>2. PICK x : x = [social[j] EXCEPT !.pc = "quality", !.at.total = n]
  OBVIOUS
<1>3. social'[j] = x /\ \A i \in SocialJobs \ {j} : social'[i] = social[i]
  BY <1>1, <1>2, RunIs DEF ReadTotal
<1> QED
  BY <1>0, <1>1, <1>2, <1>3 DEF Becomes, Keeps, KeepsAt, Shaped, Others

LEMMA QualityIs ==
  ASSUME LoneInv, HeldInv, NEW j \in SocialJobs, FindQuality(j) \/ CreateQuality(j)
  PROVE  /\ FindQuality(j) => social[j].pc = "quality"
         /\ CreateQuality(j) => social[j].pc = "newQuality"
         /\ \/ /\ FindQuality(j) /\ quality[Whose(j)] = << >> /\ Becomes(j, "newQuality")
            \/ Becomes(j, "findDay")
         /\ Keeps(j, Others \cup {"at"})
BY GotoIs DEF FindQuality, CreateQuality, SocialAt

LEMMA FindDayIs ==
  ASSUME LoneInv, HeldInv, NEW j \in SocialJobs, FindDay(j)
  PROVE  /\ social[j].pc = "findDay" /\ Keeps(j, Others)
         /\ \/ Becomes(j, "createDay") /\ Keeps(j, {"at"}) /\ Seen.daily[Whose(j)] = << >>
            \/ \E i \in DOMAIN Seen.daily[Whose(j)] :
                  /\ Becomes(j, "writeDay")
                  /\ social'[j].at.id = i /\ social'[j].at.day = Seen.daily[Whose(j)][i]
                  /\ KeepsAt(j, {"q", "kind", "score", "total", "left"})
<1>0. social[j].pc = "findDay" /\ Shaped(social[j])
  BY JobShaped DEF FindDay, SocialAt
<1>1. CASE Goto(j, "createDay") /\ Seen.daily[Whose(j)] = << >>
  BY <1>0, <1>1, GotoIs DEF Keeps
<1>2. ASSUME NEW i \in DOMAIN Seen.daily[Whose(j)],
             Run(j, [social[j] EXCEPT !.pc = "writeDay", !.at.id = i, !.at.day = Seen.daily[Whose(j)][i]])
      PROVE  /\ Keeps(j, Others) /\ Becomes(j, "writeDay")
             /\ social'[j].at.id = i /\ social'[j].at.day = Seen.daily[Whose(j)][i]
             /\ KeepsAt(j, {"q", "kind", "score", "total", "left"})
  <2>1. PICK n : n = Seen.daily[Whose(j)][i]
    OBVIOUS
  <2>2. PICK x : x = [social[j] EXCEPT !.pc = "writeDay", !.at.id = i, !.at.day = n]
    OBVIOUS
  <2>3. social'[j] = x /\ \A k \in SocialJobs \ {j} : social'[k] = social[k]
    BY <1>2, <2>1, <2>2, RunIs
  <2>4. /\ x.pc = "writeDay" /\ x.at.id = i /\ x.at.day = n
        /\ DOMAIN x = DOMAIN social[j] /\ DOMAIN x.at = DOMAIN social[j].at
        /\ x.page = social[j].page /\ x.todo = social[j].todo /\ x.saved = social[j].saved
        /\ x.had = social[j].had /\ x.got = social[j].got
        /\ x.at.q = social[j].at.q /\ x.at.kind = social[j].at.kind /\ x.at.score = social[j].at.score
        /\ x.at.total = social[j].at.total /\ x.at.left = social[j].at.left
    BY <1>0, <2>2 DEF Shaped
  <2>5. Becomes(j, "writeDay")
    BY <1>0, <2>3, <2>4 DEF Becomes, Shaped
  <2>6. Keeps(j, Others)
    BY <2>3, <2>4 DEF Keeps, Others
  <2>7. KeepsAt(j, {"q", "kind", "score", "total", "left"})
    BY <2>3, <2>4 DEF KeepsAt
  <2> QED
    BY <2>1, <2>3, <2>4, <2>5, <2>6, <2>7
<1>3. \/ Goto(j, "createDay") /\ Seen.daily[Whose(j)] = << >>
      \/ \E i \in DOMAIN Seen.daily[Whose(j)] :
            Run(j, [social[j] EXCEPT !.pc = "writeDay", !.at.id = i, !.at.day = Seen.daily[Whose(j)][i]])
  BY Zenon DEF FindDay
<1> QED
  BY <1>0, <1>1, <1>2, <1>3, Zenon

LEMMA CreateDayIs ==
  ASSUME LoneInv, HeldInv, NEW j \in SocialJobs, CreateDay(j)
  PROVE  /\ social[j].pc = "createDay" /\ Becomes(j, "writeDay") /\ Keeps(j, Others)
         /\ social'[j].at.id = Len(daily[Whose(j)]) + 1 /\ social'[j].at.day = 0
         /\ KeepsAt(j, {"q", "kind", "score", "total", "left"})
<1>0. social[j].pc = "createDay" /\ Shaped(social[j])
  BY JobShaped DEF CreateDay, SocialAt
<1>1. PICK n : n = Len(daily[Whose(j)]) + 1
  OBVIOUS
<1>2. PICK x : x = [social[j] EXCEPT !.pc = "writeDay", !.at.id = n, !.at.day = 0]
  OBVIOUS
<1>3. social'[j] = x /\ \A k \in SocialJobs \ {j} : social'[k] = social[k]
  BY <1>1, <1>2, RunIs DEF CreateDay
<1>4. /\ x.pc = "writeDay" /\ x.at.id = n /\ x.at.day = 0
      /\ DOMAIN x = DOMAIN social[j] /\ DOMAIN x.at = DOMAIN social[j].at
      /\ x.page = social[j].page /\ x.todo = social[j].todo /\ x.saved = social[j].saved
      /\ x.had = social[j].had /\ x.got = social[j].got
      /\ x.at.q = social[j].at.q /\ x.at.kind = social[j].at.kind /\ x.at.score = social[j].at.score
      /\ x.at.total = social[j].at.total /\ x.at.left = social[j].at.left
  BY <1>0, <1>2 DEF Shaped
<1>5. Becomes(j, "writeDay")
  BY <1>0, <1>3, <1>4 DEF Becomes, Shaped
<1>6. Keeps(j, Others)
  BY <1>3, <1>4 DEF Keeps, Others
<1>7. KeepsAt(j, {"q", "kind", "score", "total", "left"})
  BY <1>3, <1>4 DEF KeepsAt
<1> QED
  BY <1>0, <1>1, <1>3, <1>4, <1>5, <1>6, <1>7

LEMMA WriteDayIs ==
  ASSUME LoneInv, HeldInv, NEW j \in SocialJobs, WriteDay(j)
  PROVE  /\ social[j].pc = "writeDay" /\ Keeps(j, Others) /\ KeepsAt(j, {"q", "score", "total"})
         /\ IF social[j].at.kind = "likes"
            THEN Becomes(j, "findDay") /\ social'[j].at.kind = "shares"
            ELSE Becomes(j, "update") /\ social'[j].at.left = {"score", "total"}
<1>0. social[j].pc = "writeDay" /\ Shaped(social[j])
  BY JobShaped DEF WriteDay, SocialAt
<1>1. CASE social[j].at.kind = "likes"
  <2>1. PICK x : x = [social[j] EXCEPT !.pc = "findDay", !.at.kind = "shares", !.at.id = 0, !.at.day = 0]
    OBVIOUS
  <2>2. social'[j] = x /\ \A k \in SocialJobs \ {j} : social'[k] = social[k]
    BY <1>1, <2>1, RunIs DEF WriteDay
  <2>3. /\ x.pc = "findDay" /\ x.at.kind = "shares"
        /\ DOMAIN x = DOMAIN social[j] /\ DOMAIN x.at = DOMAIN social[j].at
        /\ x.page = social[j].page /\ x.todo = social[j].todo /\ x.saved = social[j].saved
        /\ x.had = social[j].had /\ x.got = social[j].got
        /\ x.at.q = social[j].at.q /\ x.at.score = social[j].at.score /\ x.at.total = social[j].at.total
    BY <1>0, <2>1 DEF Shaped
  <2>4. Becomes(j, "findDay")
    BY <1>0, <2>2, <2>3 DEF Becomes, Shaped
  <2>5. Keeps(j, Others)
    BY <2>2, <2>3 DEF Keeps, Others
  <2>6. KeepsAt(j, {"q", "score", "total"})
    BY <2>2, <2>3 DEF KeepsAt
  <2> QED
    BY <1>0, <1>1, <2>2, <2>3, <2>4, <2>5, <2>6
<1>2. CASE social[j].at.kind # "likes"
  <2>1. PICK x : x = [social[j] EXCEPT !.pc = "update", !.at.id = 0, !.at.day = 0, !.at.left = {"score", "total"}]
    OBVIOUS
  <2>2. social'[j] = x /\ \A k \in SocialJobs \ {j} : social'[k] = social[k]
    BY <1>2, <2>1, RunIs DEF WriteDay
  <2>3. /\ x.pc = "update" /\ x.at.left = {"score", "total"}
        /\ DOMAIN x = DOMAIN social[j] /\ DOMAIN x.at = DOMAIN social[j].at
        /\ x.page = social[j].page /\ x.todo = social[j].todo /\ x.saved = social[j].saved
        /\ x.had = social[j].had /\ x.got = social[j].got
        /\ x.at.q = social[j].at.q /\ x.at.score = social[j].at.score /\ x.at.total = social[j].at.total
    BY <1>0, <2>1 DEF Shaped
  <2>4. Becomes(j, "update")
    BY <1>0, <2>2, <2>3 DEF Becomes, Shaped
  <2>5. Keeps(j, Others)
    BY <2>2, <2>3 DEF Keeps, Others
  <2>6. KeepsAt(j, {"q", "score", "total"})
    BY <2>2, <2>3 DEF KeepsAt
  <2> QED
    BY <1>0, <1>2, <2>2, <2>3, <2>4, <2>5, <2>6
<1> QED
  BY <1>1, <1>2

LEMMA WrittenIs ==
  ASSUME LoneInv, HeldInv, NEW j \in SocialJobs, NEW what, Written(j, what)
  PROVE  /\ Keeps(j, Others) /\ KeepsAt(j, {"q", "kind", "score", "total", "id", "day"})
         /\ IF social[j].at.left = {what}
            THEN Becomes(j, "list")
            ELSE Becomes(j, social[j].pc) /\ social'[j].at.left = social[j].at.left \ {what}
<1>0. Shaped(social[j])
  BY JobShaped
<1>1. CASE social[j].at.left = {what}
  <2>1. PICK x : x = [social[j] EXCEPT !.pc = "list", !.at.left = {}]
    OBVIOUS
  <2>2. social'[j] = x /\ \A k \in SocialJobs \ {j} : social'[k] = social[k]
    BY <1>1, <2>1, RunIs DEF Written
  <2> QED
    BY <1>0, <1>1, <2>1, <2>2 DEF Becomes, Keeps, KeepsAt, Shaped, Others
<1>2. CASE social[j].at.left # {what}
  <2>1. PICK x : x = [social[j] EXCEPT !.at.left = @ \ {what}]
    OBVIOUS
  <2>2. social'[j] = x /\ \A k \in SocialJobs \ {j} : social'[k] = social[k]
    BY <1>2, <2>1, RunIs DEF Written
  <2> QED
    BY <1>0, <1>2, <2>1, <2>2 DEF Becomes, Keeps, KeepsAt, Shaped, Others
<1> QED
  BY <1>1, <1>2

LEMMA ListPostIs ==
  ASSUME LoneInv, HeldInv, NEW j \in SocialJobs, ListPost(j)
  PROVE  /\ social[j].pc = "list" /\ Becomes(j, "post") /\ Keeps(j, {"had", "got"})
         /\ social'[j].todo = social[j].todo \ {social[j].at.q}
         /\ social'[j].saved = social[j].saved \cup {social[j].at.q}
         /\ social'[j].at = AtPost
<1>0. social[j].pc = "list" /\ Shaped(social[j])
  BY JobShaped DEF ListPost, SocialAt
<1>1. PICK x : x = [social[j] EXCEPT !.pc = "post", !.todo = @ \ {social[j].at.q}, !.saved = @ \cup {social[j].at.q}, !.at = AtPost]
  OBVIOUS
<1>2. social'[j] = x /\ \A k \in SocialJobs \ {j} : social'[k] = social[k]
  BY <1>1, RunIs DEF ListPost
<1> QED
  BY <1>0, <1>1, <1>2, AtPostShaped DEF Becomes, Keeps, Shaped

LEMMA SavePostsIs ==
  ASSUME LoneInv, HeldInv, NEW j \in SocialJobs, SavePosts(j)
  PROVE  /\ social[j].pc = "post" /\ social[j].todo = {} /\ Becomes(j, "page")
         /\ social'[j].todo = {} /\ social'[j].saved = {} /\ social'[j].at = AtPost
         /\ social'[j].had = Idle.had /\ social'[j].got = Idle.got
         /\ post' = [q \in Posts |-> IF q \in social[j].saved THEN social[j].got[q] ELSE post[q]]
<1>0. social[j].pc = "post" /\ social[j].todo = {}
  BY DEF SavePosts, SocialAt
<1>n. PICK n : n = social[j].page
  OBVIOUS
<1>1. PICK x : x = [Idle EXCEPT !.pc = "page", !.page = n]
  OBVIOUS
<1>2. social'[j] = x /\ \A k \in SocialJobs \ {j} : social'[k] = social[k]
  BY <1>n, <1>1, RunIs DEF SavePosts
<1>3. post' = [q \in Posts |-> IF q \in social[j].saved THEN social[j].got[q] ELSE post[q]]
  BY DEF SavePosts
<1> QED
  BY <1>0, <1>1, <1>2, <1>3, IdleShaped DEF Becomes, Shaped

LEMMA ThrowIs ==
  ASSUME LoneInv, HeldInv, NEW j \in SocialJobs, Throw(j)
  PROVE  /\ Becomes(j, "post") /\ Keeps(j, {"saved", "had", "got"})
         /\ social[j].pc \in {"post"} \cup Working
         /\ social'[j].todo = {} /\ social'[j].at = AtPost
<1>0. Shaped(social[j])
  BY JobShaped
<1>1. PICK x : x = [social[j] EXCEPT !.pc = "post", !.todo = {}, !.at = AtPost]
  OBVIOUS
<1>2. social'[j] = x /\ \A k \in SocialJobs \ {j} : social'[k] = social[k]
  BY <1>1, RunIs DEF Throw
<1>3. social[j].pc \in {"post"} \cup Working
  BY DEF Throw, Working
<1> QED
  BY <1>0, <1>1, <1>2, <1>3, AtPostShaped DEF Becomes, Keeps, Shaped

LEMMA DiesIs ==
  ASSUME LoneInv, NEW j \in SocialJobs, SocialDies(j)
  PROVE  Becomes(j, "rest") /\ social'[j] = Idle
<1>1. social'[j] = Idle /\ \A k \in SocialJobs \ {j} : social'[k] = social[k]
  BY RunIs DEF SocialDies
<1> QED
  BY <1>1, IdleShaped DEF Becomes

-----------------------------------------------------------------------------
(* What the runs of the social job hold. *)

LEMMA SocialOutside ==
  ASSUME NEW j \in SocialJobs, Social(j)
  PROVE  UNCHANGED <<twitter, behind, old>> /\ (SavePosts(j) \/ post' = post)
<1>1. UNCHANGED <<behind, old>>
  BY Zenon DEF Social, OnlySocial, replicaVars
<1>2. ASSUME StartSocial(j) \/ ReadPosts(j) \/ UpdateScore(j) \/ RejectScore(j) \/ Throw(j) \/ SocialDies(j)
      PROVE  UNCHANGED <<twitter, post>>
  BY <1>2, Zenon DEF StartSocial, ReadPosts, UpdateScore, RejectScore, Throw, SocialDies, tables
<1>3. ASSUME SocialStep(j)
      PROVE  UNCHANGED twitter /\ (SavePosts(j) \/ post' = post)
  BY <1>3, Zenon DEF SocialStep, GetPosts, ReadAuthor, ReadTotal, FindQuality, CreateQuality, FindDay, CreateDay, WriteDay,
     UpdateTotal, ListPost, SavePosts, tables
<1> QED
  BY <1>1, <1>2, <1>3, Zenon DEF Social

LEMMA SeenPosts == HeldInv => Seen.post \in [Posts -> Counts]
BY DEF HeldInv, Seen, Tables

LEMMA Zeros == NoCounts \in Counts
BY TableAssumption DEF NoCounts, Counts

LEMMA IdleHeld == Held(Idle)
BY IdleShaped, Zeros DEF Held, Before, Working

\* Fields that stay.
LEMMA KeptFields ==
  ASSUME NEW j \in SocialJobs, Keeps(j, Others)
  PROVE  /\ social'[j].todo = social[j].todo /\ social'[j].saved = social[j].saved
         /\ social'[j].had = social[j].had /\ social'[j].got = social[j].got
BY DEF Keeps, Others

\* A run that works on a post goes on with it.
LEMMA GoesOn ==
  ASSUME HeldInv, NEW j \in SocialJobs, NEW label, Becomes(j, label), Keeps(j, Others),
         social[j].pc \in Working, label \in Working, social'[j].at.q = social[j].at.q,
         label = "update" => social'[j].at.left \in {{"score", "total"}, {"score"}, {"total"}}
  PROVE  Held(social'[j])
<1>1. PICK l, m : l = social[j] /\ m = social'[j]
  OBVIOUS
<1>2. Held(l) /\ Shaped(m) /\ m.pc = label /\ l.pc \in Working
  BY <1>1 DEF HeldInv, Becomes
<1>3. m.todo = l.todo /\ m.saved = l.saved /\ m.had = l.had /\ m.got = l.got /\ m.at.q = l.at.q
  BY <1>1, KeptFields
<1>4. l.at.q \in l.todo /\ l.todo \subseteq Posts /\ l.saved \subseteq Posts /\ l.todo \cap l.saved = {}
      /\ l.had \in [Posts -> Counts] /\ l.got \in [Posts -> Counts]
  BY <1>2 DEF Held
<1>5. label \notin Before
  BY DEF Working, Before
<1> QED
  BY <1>1, <1>2, <1>3, <1>4, <1>5 DEF Held, Before

LEMMA WorkHeld ==
  ASSUME LoneInv, HeldInv, NEW j \in SocialJobs,
         \/ ReadTotal(j) \/ FindQuality(j) \/ CreateQuality(j) \/ FindDay(j) \/ CreateDay(j) \/ WriteDay(j)
         \/ UpdateScore(j) \/ UpdateTotal(j)
  PROVE  Held(social'[j])
<1>1. CASE ReadTotal(j)
  BY <1>1, ReadTotalIs, GoesOn DEF KeepsAt, Working
<1>2. CASE FindQuality(j) \/ CreateQuality(j)
  <2>1. Keeps(j, Others) /\ social'[j].at = social[j].at
    BY <1>2, QualityIs DEF Keeps
  <2>2. social[j].pc \in {"quality", "newQuality"} /\ (Becomes(j, "newQuality") \/ Becomes(j, "findDay"))
    BY <1>2, QualityIs
  <2> QED
    BY <2>1, <2>2, GoesOn DEF Working
<1>3. CASE FindDay(j)
  <2>1. Keeps(j, Others) /\ social'[j].at.q = social[j].at.q
    BY <1>3, FindDayIs DEF Keeps, KeepsAt
  <2>2. social[j].pc = "findDay" /\ (Becomes(j, "createDay") \/ Becomes(j, "writeDay"))
    BY <1>3, FindDayIs
  <2> QED
    BY <2>1, <2>2, GoesOn DEF Working
<1>4. CASE CreateDay(j)
  BY <1>4, CreateDayIs, GoesOn DEF KeepsAt, Working
<1>5. CASE WriteDay(j)
  BY <1>5, WriteDayIs, GoesOn DEF KeepsAt, Working
<1>6. ASSUME NEW what \in {"score", "total"}, social[j].pc = "update", what \in social[j].at.left, Written(j, what)
      PROVE  Held(social'[j])
  <2>1. Keeps(j, Others) /\ social'[j].at.q = social[j].at.q
    BY <1>6, WrittenIs DEF KeepsAt
  <2>2. social[j].at.left \in {{"score", "total"}, {"score"}, {"total"}}
    BY <1>6 DEF HeldInv, Held
  <2>3. CASE social[j].at.left = {what}
    BY <1>6, <2>1, <2>3, WrittenIs, GoesOn DEF Working
  <2>4. CASE social[j].at.left # {what}
    <3>1. Becomes(j, "update") /\ social'[j].at.left = social[j].at.left \ {what}
      BY <1>6, <2>4, WrittenIs
    <3>2. social'[j].at.left \in {{"score", "total"}, {"score"}, {"total"}}
      BY <1>6, <2>2, <2>4, <3>1
    <3> QED
      BY <1>6, <2>1, <3>1, <3>2, GoesOn DEF Working
  <2> QED
    BY <2>3, <2>4
<1>7. CASE UpdateScore(j)
  BY <1>6, <1>7 DEF UpdateScore, SocialAt
<1>8. CASE UpdateTotal(j)
  BY <1>6, <1>8 DEF UpdateTotal, SocialAt
<1> QED
  BY <1>1, <1>2, <1>3, <1>4, <1>5, <1>7, <1>8

LEMMA PageHeld ==
  ASSUME LoneInv, HeldInv, NEW j \in SocialJobs,
         StartSocial(j) \/ ReadPosts(j) \/ GetPosts(j) \/ ReadAuthor(j) \/ ListPost(j) \/ SavePosts(j) \/ Throw(j)
         \/ SocialDies(j)
  PROVE  Held(social'[j])
<1>1. PICK l, m : l = social[j] /\ m = social'[j]
  OBVIOUS
<1>2. Held(l)
  BY <1>1 DEF HeldInv
<1>3. /\ l.todo \subseteq Posts /\ l.saved \subseteq Posts /\ l.todo \cap l.saved = {}
      /\ l.had \in [Posts -> Counts] /\ l.got \in [Posts -> Counts]
  BY <1>2 DEF Held
<1>4. CASE StartSocial(j)
  <2>1. Shaped(m) /\ m.pc = "page" /\ m.todo = l.todo /\ m.saved = l.saved /\ m.had = l.had /\ m.got = l.got /\ m.at = l.at
        /\ l.pc = "rest"
    BY <1>1, <1>4, StartIs DEF Becomes, Keeps, Others
  <2> QED
    BY <1>1, <1>2, <2>1 DEF Held, Before, Working
<1>5. CASE ReadPosts(j)
  <2>0. l.pc = "page" /\ l.at = AtPost
    BY <1>1, <1>2, <1>5, ReadPostsIs DEF Held, Before
  <2>1. CASE m = Idle
    BY <1>1, <2>1, IdleHeld
  <2>2. ASSUME NEW rows \in SUBSET Posts, Becomes(j, "fetch"), m.todo = rows, m.saved = {},
               m.had = [q \in Posts |-> IF q \in rows THEN Seen.post[q] ELSE NoCounts], Keeps(j, {"got", "at"})
        PROVE  Held(m)
    <3>1. Shaped(m) /\ m.pc = "fetch" /\ m.got = l.got /\ m.at = AtPost
      BY <1>1, <2>0, <2>2 DEF Becomes, Keeps
    <3>2. m.had \in [Posts -> Counts]
      BY <2>2, SeenPosts, Zeros
    <3> QED
      BY <1>3, <2>2, <3>1, <3>2 DEF Held, Before, Working
  <2> QED
    BY <1>1, <1>5, <2>1, <2>2, ReadPostsIs
<1>6. CASE GetPosts(j)
  <2>1. /\ l.pc = "fetch" /\ Shaped(m) /\ m.pc = "post" /\ m.todo \subseteq l.todo
        /\ m.got = [q \in Posts |-> IF q \in m.todo THEN twitter[q] ELSE NoCounts]
        /\ m.saved = l.saved /\ m.had = l.had /\ m.at = l.at
    BY <1>1, <1>6, GetPostsIs DEF Becomes, Keeps
  <2>2. m.got \in [Posts -> Counts]
    BY <2>1, Zeros DEF HeldInv
  <2>3. l.saved = {} /\ l.at = AtPost
    BY <1>2, <2>1 DEF Held, Before
  <2> QED
    BY <1>1, <1>3, <2>1, <2>2, <2>3 DEF Held, Before, Working
<1>7. CASE ReadAuthor(j)
  <2>0. l.pc = "post" /\ m.saved = l.saved /\ m.had = l.had /\ m.got = l.got /\ Shaped(m) /\ l.at = AtPost
    BY <1>1, <1>2, <1>7, ReadAuthorIs DEF Becomes, Keeps, Held, Before
  <2>1. ASSUME NEW q \in l.todo, m.pc = "campaign", m.todo = l.todo, m.at.q = q
        PROVE  Held(m)
    <3>1. m.pc \in Working /\ m.pc \notin Before /\ m.pc \notin {"rest", "page", "fetch", "update"}
      BY <2>1 DEF Working, Before
    <3>2. m.at.q \in m.todo /\ m.todo = l.todo
      BY <2>1
    <3> HIDE <2>1
    <3> QED
      BY <1>3, <2>0, <3>1, <3>2 DEF Held
  <2>2. CASE m.pc = "post" /\ m.todo = {} /\ m.at = l.at
    BY <1>1, <1>3, <2>0, <2>2 DEF Held, Before, Working
  <2>3. \/ \E q \in l.todo : m.pc = "campaign" /\ m.todo = l.todo /\ m.at.q = q
        \/ m.pc = "post" /\ m.todo = {} /\ m.at = l.at
    BY <1>1, <1>7, ReadAuthorIs DEF Becomes, Keeps
  <2> QED
    BY <1>1, <2>1, <2>2, <2>3
<1>8. CASE ListPost(j)
  <2>1. /\ l.pc = "list" /\ Shaped(m) /\ m.pc = "post" /\ m.had = l.had /\ m.got = l.got
        /\ m.todo = l.todo \ {l.at.q} /\ m.saved = l.saved \cup {l.at.q} /\ m.at = AtPost
    BY <1>1, <1>8, ListPostIs DEF Becomes, Keeps
  <2>2. l.at.q \in l.todo
    BY <1>2, <2>1 DEF Held, Working
  <2> QED
    BY <1>1, <1>3, <2>1, <2>2 DEF Held, Before, Working
<1>9. CASE SavePosts(j)
  <2>1. /\ Shaped(m) /\ m.pc = "page" /\ m.todo = {} /\ m.saved = {} /\ m.at = AtPost
        /\ m.had = Idle.had /\ m.got = Idle.got
    BY <1>1, <1>9, SavePostsIs DEF Becomes
  <2>2. m.had \in [Posts -> Counts] /\ m.got \in [Posts -> Counts]
    BY <2>1, IdleHeld DEF Held
  <2> QED
    BY <1>1, <2>1, <2>2 DEF Held, Before, Working
<1>10. CASE Throw(j)
  <2>1. Shaped(m) /\ m.pc = "post" /\ m.todo = {} /\ m.at = AtPost /\ m.saved = l.saved /\ m.had = l.had /\ m.got = l.got
    BY <1>1, <1>10, ThrowIs DEF Becomes, Keeps
  <2> QED
    BY <1>1, <1>3, <2>1 DEF Held, Before, Working
<1>11. CASE SocialDies(j)
  BY <1>11, DiesIs, IdleHeld
<1> QED
  BY <1>4, <1>5, <1>6, <1>7, <1>8, <1>9, <1>10, <1>11

LEMMA SocialHeld ==
  ASSUME LoneInv, HeldInv, NEW j \in SocialJobs, Social(j)
  PROVE  Held(social'[j]) /\ \A i \in SocialJobs \ {j} : social'[i] = social[i]
<1>1. Held(social'[j])
  BY WorkHeld, PageHeld DEF Social, SocialStep, RejectScore
<1>2. PICK new : social' = [social EXCEPT ![j] = new]
  BY SocialMoves
<1>3. \A i \in SocialJobs \ {j} : social'[i] = social[i]
  BY <1>2 DEF LoneInv, Runs
<1> QED
  BY <1>1, <1>3

LEMMA HeldInit == Init => HeldInv
<1> SUFFICES ASSUME Init PROVE HeldInv
  OBVIOUS
<1>1. /\ twitter \in [Posts -> {[k \in Kinds |-> MaxCount]}] /\ post = [q \in Posts |-> NoCounts] /\ behind = FALSE
      /\ social = [j \in SocialJobs |-> Idle]
  BY DEF Init, TablesInit, SocialInit
<1>2. [k \in Kinds |-> MaxCount] \in Counts
  BY TableAssumption DEF Counts
<1>3. twitter \in [Posts -> Counts] /\ post \in [Posts -> Counts]
  BY <1>1, <1>2, Zeros
<1> QED
  BY <1>1, <1>3, IdleHeld DEF HeldInv

LEMMA HeldNext == LoneInv /\ HeldInv /\ [Next]_vars => HeldInv'
<1> SUFFICES ASSUME LoneInv, HeldInv, [Next]_vars PROVE HeldInv'
  OBVIOUS
<1>1. ASSUME NEW j \in SocialJobs, Social(j) PROVE HeldInv'
  <2>1. \A i \in SocialJobs : Held(social'[i])
    BY <1>1, SocialHeld DEF HeldInv
  <2>2. UNCHANGED <<twitter, behind, old>>
    BY <1>1, SocialOutside
  <2>3. post' \in [Posts -> Counts]
    <3>1. CASE SavePosts(j)
      <4>1. post' = [q \in Posts |-> IF q \in social[j].saved THEN social[j].got[q] ELSE post[q]]
        BY <3>1, SavePostsIs
      <4>2. social[j].got \in [Posts -> Counts]
        BY DEF HeldInv, Held
      <4> QED
        BY <4>1, <4>2 DEF HeldInv
    <3> QED
      BY <1>1, <3>1, SocialOutside DEF HeldInv
  <2> QED
    BY <2>1, <2>2, <2>3 DEF HeldInv
<1>2. CASE \/ \E j \in QualityJobs : Quality(j)
           \/ \E j \in TallyJobs : Aggregate(j)
           \/ Request
           \/ UNCHANGED vars
  <2>1. UNCHANGED <<social, twitter, behind, old, post>>
    BY <1>2 DEF Quality, OnlyQuality, StartJudge, QualityStep, RateParticipants, LookUpQuality, UpsertQuality, JudgeDies,
       Aggregate, OnlyAggregate, Request, Track, RemoveParticipation, UpdateUser, vars, tables, socialVars, replicaVars
  <2> QED
    BY <2>1 DEF HeldInv
<1>3. CASE Elsewhere
  <2>1. CASE TwitterCounts /\ UNCHANGED replicaVars
    <3>1. UNCHANGED <<social, post, behind, old>>
      BY <2>1 DEF TwitterCounts, tables, replicaVars
    <3>2. PICK q \in Posts, k \in Kinds, n \in 0..MaxCount : twitter' = [twitter EXCEPT ![q][k] = n]
      BY <2>1 DEF TwitterCounts
    <3>3. PICK c : c = [twitter[q] EXCEPT ![k] = n]
      OBVIOUS
    <3>4. c \in Counts
      BY <3>3 DEF HeldInv, Counts
    <3>5. twitter' = [twitter EXCEPT ![q] = c]
      BY <3>2, <3>3
    <3>6. twitter' \in [Posts -> Counts]
      BY <3>4, <3>5 DEF HeldInv
    <3> QED
      BY <3>1, <3>6 DEF HeldInv
  <2>2. CASE FallsBehind /\ UNCHANGED <<tables, socialVars>>
    BY <2>2 DEF FallsBehind, tables, socialVars, HeldInv, Tables
  <2>3. CASE CatchesUp /\ UNCHANGED <<tables, socialVars>>
    BY <2>3 DEF CatchesUp, tables, socialVars, HeldInv
  <2> QED
    BY <1>3, <2>1, <2>2, <2>3 DEF Elsewhere
<1> QED
  BY <1>1, <1>2, <1>3 DEF Next
-----------------------------------------------------------------------------
(* Everybody rated, once. *)

LEMMA Listed ==
  ASSUME NEW S, IsFiniteSet(S)
  PROVE  /\ SetToSeq(S) \in Seq(S) /\ IsInjective(SetToSeq(S)) /\ Range(SetToSeq(S)) = S
<1>1. PICK n : n = Cardinality(S)
  OBVIOUS
<1>2. PICK f : f = SetToSeq(S)
  OBVIOUS
<1>3. n \in Nat
  BY <1>1, FS_CardinalityType
<1>4. \E g \in [1..n -> S] : IsInjective(g)
  <2>1. PICK m \in Nat : ExistsBijection(1..m, S)
    BY FS_NatBijection
  <2>2. m = n
    BY <1>1, <2>1, FS_CountingElements
  <2> QED
    BY <2>1, <2>2 DEF ExistsBijection, Bijection, Injection
<1>5. f \in [1..n -> S] /\ IsInjective(f)
  BY <1>1, <1>2, <1>4 DEF SetToSeq
<1>6. Range(f) \subseteq S
  BY <1>5 DEF Range
<1>7. f \in Bijection(1..n, Range(f))
  BY <1>5 DEF Range, Bijection, Injection, Surjection
<1>8. Cardinality(Range(f)) = n
  BY <1>3, <1>7, FS_CountingElements DEF ExistsBijection
<1>9. Range(f) = S
  BY <1>1, <1>6, <1>8, FS_Subset
<1>10. f \in Seq(S)
  BY <1>3, <1>5
<1> QED
  BY <1>2, <1>5, <1>9, <1>10

Joined(s, T) == s \o SetToSeq(T)

LEMMA ListedAfter ==
  ASSUME NEW S, NEW s \in Seq(S), IsInjective(s), NEW T \in SUBSET S, IsFiniteSet(T), Range(s) \cap T = {}
  PROVE  Joined(s, T) \in Seq(S) /\ IsInjective(Joined(s, T)) /\ Range(Joined(s, T)) = Range(s) \cup T
<1>t. PICK t : t = Joined(s, T)
  OBVIOUS
<1>1. PICK u : u = SetToSeq(T)
  OBVIOUS
<1>2. u \in Seq(T) /\ IsInjective(u) /\ Range(u) = T
  BY <1>1, Listed
<1>3. u \in Seq(S)
  BY <1>2
<1>4. t = s \o u
  BY <1>1, <1>t DEF Joined
<1>5. /\ t \in Seq(S) /\ Len(t) = Len(s) + Len(u)
      /\ \A i \in 1..(Len(s) + Len(u)) : t[i] = IF i <= Len(s) THEN s[i] ELSE u[i - Len(s)]
  BY <1>3, <1>4, ConcatProperties
<1>6. Len(s) \in Nat /\ Len(u) \in Nat /\ DOMAIN s = 1..Len(s) /\ DOMAIN u = 1..Len(u) /\ DOMAIN t = 1..(Len(s) + Len(u))
  BY <1>2, <1>3, <1>5, LenProperties
<1>7. \A i \in DOMAIN t : IF i <= Len(s) THEN i \in DOMAIN s /\ t[i] = s[i] ELSE i - Len(s) \in DOMAIN u /\ t[i] = u[i - Len(s)]
  BY <1>5, <1>6
<1>8. \A i \in DOMAIN s : i \in DOMAIN t /\ t[i] = s[i]
  BY <1>5, <1>6
<1>9. \A i \in DOMAIN u : i + Len(s) \in DOMAIN t /\ t[i + Len(s)] = u[i]
  <2> SUFFICES ASSUME NEW i \in DOMAIN u PROVE i + Len(s) \in DOMAIN t /\ t[i + Len(s)] = u[i]
    OBVIOUS
  <2>1. PICK k : k = i + Len(s)
    OBVIOUS
  <2>2. k \in DOMAIN t /\ ~(k <= Len(s)) /\ k - Len(s) = i
    BY <1>6, <2>1
  <2> QED
    BY <1>7, <2>1, <2>2
<1>10. Range(t) = Range(s) \cup T
  <2>1. \A i \in DOMAIN t : t[i] \in Range(s) \/ t[i] \in Range(u)
    BY <1>7 DEF Range
  <2>2. \A i \in DOMAIN s : s[i] \in Range(t)
    BY <1>8 DEF Range
  <2>3. \A i \in DOMAIN u : u[i] \in Range(t)
    <3> SUFFICES ASSUME NEW i \in DOMAIN u PROVE u[i] \in Range(t)
      OBVIOUS
    <3>1. PICK k \in DOMAIN t : t[k] = u[i]
      BY <1>9
    <3> QED
      BY <3>1 DEF Range
  <2>4. Range(t) \subseteq Range(s) \cup Range(u)
    BY <2>1 DEF Range
  <2>5. Range(s) \subseteq Range(t) /\ Range(u) \subseteq Range(t)
    BY <2>2, <2>3 DEF Range
  <2> QED
    BY <1>2, <2>4, <2>5
<1>11. IsInjective(t)
  <2> SUFFICES ASSUME NEW a \in DOMAIN t, NEW b \in DOMAIN t, t[a] = t[b] PROVE a = b
    BY DEF IsInjective
  <2>1. a \in Int /\ b \in Int
    BY <1>6
  <2>2. CASE a <= Len(s) /\ b <= Len(s)
    BY <1>7, <2>2 DEF IsInjective
  <2>3. CASE ~(a <= Len(s)) /\ ~(b <= Len(s))
    <3>1. a - Len(s) = b - Len(s)
      BY <1>2, <1>7, <2>3 DEF IsInjective
    <3> QED
      BY <1>6, <2>1, <3>1
  <2>4. ASSUME NEW c \in DOMAIN s, NEW d \in DOMAIN u PROVE s[c] # u[d]
    BY <1>2 DEF Range
  <2> QED
    BY <1>7, <2>2, <2>3, <2>4
<1> QED
  BY <1>t, <1>5, <1>10, <1>11

-----------------------------------------------------------------------------
(* One yardstick. *)

\* Steps beside the runs of the quality scores: somebody who had no score gets an empty one.
LEMMA StaysAlike ==
  ASSUME Alike, Here' \subseteq Here,
         \/ quality' = quality
         \/ \E w \in Participants : quality[w] = << >> /\ quality' = [quality EXCEPT ![w] = <<Blank>>],
         quality \in [Participants -> Seq(SUBSET Participants)]
  PROVE  Alike'
<1>1. CASE quality' = quality
  BY <1>1 DEF Alike
<1>2. ASSUME NEW w \in Participants, quality[w] = << >>, quality' = [quality EXCEPT ![w] = <<Blank>>]
      PROVE  Alike'
  <2>1. quality'[w] = <<Blank>> /\ \A p \in Participants \ {w} : quality'[p] = quality[p]
    BY <1>2
  <2>2. \A p \in Here' : p \in Here /\ p \in Participants
    BY DEF Here, Present
  <2> QED
    BY <1>2, <2>1, <2>2 DEF Alike
<1> QED
  BY <1>1, <1>2

LEMMA BesideJudging ==
  ASSUME JudgeInv, ~disturbed, QualityRests, judge' = judge, Here' \subseteq Here, DOMAIN score' = Participants,
         score' = [p \in DOMAIN score' |-> score'[p]],
         \/ quality' = quality
         \/ \E w \in Participants : quality[w] = << >> /\ quality' = [quality EXCEPT ![w] = <<Blank>>],
         \A j \in SocialJobs : SocialAt(j, "newQuality")' => quality'[Whose(j)'] = << >>
  PROVE  JudgeInv'
<1>1. /\ quality \in [Participants -> Seq(SUBSET Participants)]
      /\ \A p \in Participants : Len(quality[p]) <= 1
      /\ Alike
  BY DEF JudgeInv
<1>2. Alike'
  BY <1>1, StaysAlike
<1>3. QualityRests' /\ \A j \in QualityJobs : judge'[j].pc = "rest"
  BY DEF QualityRests
<1>4. /\ quality' \in [Participants -> Seq(SUBSET Participants)]
      /\ \A p \in Participants : Len(quality'[p]) <= 1
  <2>1. CASE quality' = quality
    BY <1>1, <2>1
  <2>2. ASSUME NEW w \in Participants, quality' = [quality EXCEPT ![w] = <<Blank>>]
        PROVE  /\ quality' \in [Participants -> Seq(SUBSET Participants)]
               /\ \A p \in Participants : Len(quality'[p]) <= 1
    <3>1. <<Blank>> \in Seq(SUBSET Participants) /\ Len(<<Blank>>) = 1
      BY DEF Blank
    <3> QED
      BY <1>1, <2>2, <3>1
  <2> QED
    BY <2>1, <2>2
<1> QED
  BY <1>2, <1>3, <1>4 DEF JudgeInv

\* What the social job does to scores and quality scores.
LEMMA SocialWrites ==
  ASSUME NEW j \in SocialJobs, Social(j)
  PROVE  (CreateQuality(j) \/ quality' = quality) /\ (UpdateScore(j) \/ score' = score)
<1>1. ASSUME StartSocial(j) \/ ReadPosts(j) \/ RejectScore(j) \/ Throw(j) \/ SocialDies(j)
      PROVE  score' = score /\ quality' = quality
  BY <1>1, Zenon DEF StartSocial, ReadPosts, RejectScore, Throw, SocialDies, tables
<1>2. ASSUME SocialStep(j)
      PROVE  score' = score /\ (CreateQuality(j) \/ quality' = quality)
  BY <1>2, Zenon DEF SocialStep, GetPosts, ReadAuthor, ReadTotal, FindQuality, CreateQuality, FindDay, CreateDay,
     WriteDay, UpdateTotal, ListPost, SavePosts, tables
<1>3. UpdateScore(j) => quality' = quality
  BY Zenon DEF UpdateScore
<1> QED
  BY <1>1, <1>2, <1>3, Zenon DEF Social

LEMMA NewQualityIs ==
  ASSUME LoneInv, HeldInv, NEW j \in SocialJobs, Social(j), SocialAt(j, "newQuality")'
  PROVE  FindQuality(j) /\ quality[Whose(j)] = << >> /\ Whose(j)' = Whose(j)
<1>1. social'[j].pc = "newQuality"
  BY DEF SocialAt
<1>2. ~StartSocial(j) /\ ~ReadPosts(j) /\ ~GetPosts(j) /\ ~ReadAuthor(j) /\ ~ListPost(j) /\ ~SavePosts(j)
      /\ ~Throw(j) /\ ~SocialDies(j)
  BY <1>1, StartIs, ReadPostsIs, GetPostsIs, ReadAuthorIs, ListPostIs, SavePostsIs, ThrowIs, DiesIs DEF Becomes
<1>3. ~ReadTotal(j) /\ ~FindDay(j) /\ ~CreateDay(j) /\ ~WriteDay(j)
  BY <1>1, ReadTotalIs, FindDayIs, CreateDayIs, WriteDayIs DEF Becomes
<1>4. ~UpdateScore(j) /\ ~UpdateTotal(j)
  BY <1>1, WrittenIs DEF Becomes, UpdateScore, UpdateTotal, SocialAt
<1>5. FindQuality(j) \/ CreateQuality(j)
  BY <1>2, <1>3, <1>4 DEF Social, SocialStep, RejectScore
<1>6. FindQuality(j) /\ quality[Whose(j)] = << >>
  BY <1>1, <1>5, QualityIs DEF Becomes
<1>7. social'[j].at = social[j].at
  BY <1>5, QualityIs DEF Keeps
<1> QED
  BY <1>6, <1>7 DEF Whose

LEMMA JudgeSocial ==
  ASSUME LoneInv, HeldInv, JudgeInv, NEW j \in SocialJobs, Social(j), ~disturbed'
  PROVE  JudgeInv'
<1>1. ~disturbed /\ (~SocialAt(j, "rest") \/ AtRest) /\ judge' = judge
  BY SocialMoves DEF Moves
<1>2. QualityRests /\ \A i \in SocialJobs \ {j} : SocialAt(i, "rest")
  BY <1>1 DEF LoneInv, AtRest, QualityRests
<1>3. \A i \in SocialJobs \ {j} : social'[i].pc = "rest"
  BY <1>2, SocialHeld DEF SocialAt
<1>4. score = [p \in Participants |-> score[p]]
  BY <1>1 DEF JudgeInv
<1>5. /\ DOMAIN score' = Participants /\ score' = [p \in DOMAIN score' |-> score'[p]]
      /\ Here' \subseteq Here
  <2>1. CASE UpdateScore(j)
    <3>1. score[Whose(j)] # Gone
      BY <2>1 DEF UpdateScore
    <3>2. PICK w, n : score' = [score EXCEPT ![w] = n] /\ w = Whose(j)
      BY <2>1, Zenon DEF UpdateScore
    <3>3. DOMAIN score' = Participants /\ \A p \in Participants : p # w => score'[p] = score[p]
      BY <1>4, <3>2
    <3> QED
      BY <1>4, <3>1, <3>2, <3>3 DEF Here, Present, Tables
  <2>2. CASE score' = score
    BY <1>4, <2>2 DEF Here, Present, Tables
  <2> QED
    BY <2>1, <2>2, SocialWrites
<1>6. /\ \/ quality' = quality
         \/ \E w \in Participants : quality[w] = << >> /\ quality' = [quality EXCEPT ![w] = <<Blank>>]
      /\ SocialAt(j, "newQuality")' => quality'[Whose(j)'] = << >>
  <2>1. CASE CreateQuality(j)
    <3>1. social[j].pc = "newQuality" /\ ~FindQuality(j)
      BY <2>1 DEF CreateQuality, FindQuality, SocialAt
    <3>2. PICK w : w = Whose(j)
      OBVIOUS
    <3>3. quality[w] = << >>
      BY <1>1, <3>1, <3>2 DEF JudgeInv, SocialAt
    <3>4. w \in Participants
      <4>1. social[j].at.q \in Posts
        BY <3>1 DEF HeldInv, Held, Working
      <4> QED
        BY <3>2, <4>1, TableAssumption DEF Whose
    <3>5. PICK x : x = Append(quality[w], Blank)
      OBVIOUS
    <3>6. quality' = [quality EXCEPT ![w] = x]
      BY <2>1, <3>2, <3>5 DEF CreateQuality
    <3>7. x = <<Blank>>
      BY <3>3, <3>5
    <3> QED
      BY <3>1, <3>3, <3>4, <3>6, <3>7, NewQualityIs
  <2>2. CASE quality' = quality
    BY <2>2, NewQualityIs
  <2> QED
    BY <2>1, <2>2, SocialWrites
<1>7. \A i \in SocialJobs : SocialAt(i, "newQuality")' => quality'[Whose(i)'] = << >>
  BY <1>3, <1>6 DEF SocialAt
<1> QED
  BY <1>1, <1>2, <1>5, <1>6, <1>7, BesideJudging

LEMMA JudgeStep ==
  ASSUME LoneInv, JudgeInv, ~disturbed, ~disturbed', NEW j \in QualityJobs, NEW m,
         judge' = [judge EXCEPT ![j] = m], judge[j].pc # "rest" \/ AtRest, UNCHANGED <<social, score>>,
         quality' \in [Participants -> Seq(SUBSET Participants)], \A p \in Participants : Len(quality'[p]) <= 1,
         m.pc = "rest" => Alike',
         m.pc # "rest" => j \notin shuffled' /\ Judged(m)'
  PROVE  JudgeInv'
<1>1. judge = [i \in QualityJobs |-> judge[i]]
  BY DEF LoneInv, Runs
<1>2. SocialRests /\ \A i \in QualityJobs \ {j} : judge[i].pc = "rest"
  BY DEF LoneInv, AtRest, SocialRests
<1>3. judge'[j] = m /\ \A i \in QualityJobs \ {j} : judge'[i].pc = "rest"
  BY <1>1, <1>2
<1>4. QualityRests' => m.pc = "rest"
  BY <1>3 DEF QualityRests
<1>5. \A i \in SocialJobs : ~SocialAt(i, "newQuality")'
  BY <1>2 DEF SocialRests, SocialAt
<1>6. \A i \in QualityJobs : judge'[i].pc # "rest" => i = j /\ i \notin shuffled' /\ Judged(judge[i])'
  BY <1>3
<1>7. score' = [p \in Participants |-> score'[p]]
  BY DEF JudgeInv
<1> QED
  BY <1>4, <1>5, <1>6, <1>7 DEF JudgeInv

LEMMA HereFinite == IsFiniteSet(Here) /\ Here \subseteq Participants /\ Cardinality(Here) \in Nat
<1>1. Here \subseteq Participants
  BY DEF Here, Present
<1> QED
  BY <1>1, TableAssumption, FS_Subset, FS_CardinalityType

LEMMA JudgeStarts ==
  ASSUME LoneInv, JudgeInv, NEW j \in QualityJobs, StartJudge(j), ~disturbed, ~disturbed', AtRest, ~behind,
         UNCHANGED social
  PROVE  JudgeInv'
<1>n. PICK n : n = Cardinality(Here)
  OBVIOUS
<1>m. PICK m : m = [NotJudging EXCEPT !.pc = "page", !.n = n]
  OBVIOUS
<1>1. Seen = Tables
  BY DEF Seen
<1>2. judge' = [judge EXCEPT ![j] = m] /\ j \notin shuffled' /\ UNCHANGED <<score, quality>>
  BY <1>n, <1>m, <1>1 DEF StartJudge, Judge, tables, Here
<1>3. m.pc = "page" /\ DOMAIN m = {"pc", "n", "page", "rated", "found"} /\ m.n = n /\ m.page = 0 /\ m.rated = << >>
  BY <1>m DEF NotJudging
<1>4. m.rated \in Seq(Here) /\ IsInjective(m.rated) /\ Range(m.rated) = {}
  BY <1>3 DEF IsInjective, Range
<1>5. PagesRead(m.page, m.n, Cardinality(Range(m.rated)))
  <2>1. Cardinality(Range(m.rated)) = 0
    BY <1>4, FS_EmptySet
  <2>2. n \in Nat
    BY <1>n, HereFinite
  <2> QED
    BY <1>3, <2>1, <2>2, NoPageRead
<1>6. Here' = Here
  BY <1>2 DEF Here, Present, Tables
<1>7. Judged(m)'
  BY <1>n, <1>2, <1>3, <1>4, <1>5, <1>6 DEF Judged
<1> QED
  BY <1>2, <1>3, <1>7, JudgeStep DEF JudgeInv

LEMMA JudgeRates ==
  ASSUME LoneInv, JudgeInv, NEW j \in QualityJobs, RateParticipants(j), ~disturbed, ~disturbed', UNCHANGED social
  PROVE  JudgeInv'
<1>1. PICK l : l = judge[j]
  OBVIOUS
<1>2. l.pc = "page" /\ j \notin shuffled /\ Judged(l) /\ ~behind
  BY <1>1 DEF RateParticipants, JudgeInv, LoneInv
<1>3. Seen = Tables /\ Present(Seen) = Here
  BY <1>2 DEF Seen, Here
<1>4. UNCHANGED <<score, quality, shuffled>> /\ Here' = Here
  BY DEF RateParticipants, tables, Here, Present, Tables
<1>5. /\ DOMAIN l = {"pc", "n", "page", "rated", "found"} /\ l.n = Cardinality(Here)
      /\ l.rated \in Seq(Here) /\ IsInjective(l.rated)
      /\ PagesRead(l.page, l.n, Cardinality(Range(l.rated)))
      /\ \A p \in Range(l.rated) : quality[p] = <<Range(l.rated)>>
  BY <1>2 DEF Judged
<1>6. Range(l.rated) \in SUBSET Here
  <2>1. DOMAIN l.rated = 1..Len(l.rated) /\ \A i \in 1..Len(l.rated) : l.rated[i] \in Here
    BY <1>5, LenProperties, ElementOfSeq
  <2> QED
    BY <2>1 DEF Range
<1>7. CASE l.page = PageCount(l.n, RowsPerPage) /\ Judge(j, NotJudging)
  <2>1. Range(l.rated) = Here
    BY <1>5, <1>6, <1>7, HereFinite, EverybodyRead
  <2>2. Alike'
    BY <1>4, <1>5, <2>1 DEF Alike
  <2>3. judge' = [judge EXCEPT ![j] = NotJudging] /\ NotJudging.pc = "rest"
    BY <1>7 DEF Judge, NotJudging
  <2> QED
    BY <1>1, <1>2, <1>4, <2>2, <2>3, JudgeStep DEF JudgeInv
<1>8. ASSUME l.page < PageCount(l.n, RowsPerPage),
             NEW page \in PagesOf(Here \ Range(l.rated), l.n, RowsPerPage, l.page),
             Judge(j, [l EXCEPT !.pc = "lookUp", !.page = @ + 1, !.rated = @ \o SetToSeq(page)])
      PROVE  JudgeInv'
  <2>1. PICK t : t = l.rated \o SetToSeq(page)
    OBVIOUS
  <2>2. PICK m : m = [l EXCEPT !.pc = "lookUp", !.page = @ + 1, !.rated = t]
    OBVIOUS
  <2>3. judge' = [judge EXCEPT ![j] = m]
    BY <1>8, <2>1, <2>2 DEF Judge
  <2>4. m.pc = "lookUp" /\ DOMAIN m = DOMAIN l /\ m.n = l.n /\ m.page = l.page + 1 /\ m.rated = t
    BY <1>5, <2>2
  <2>5. PICK read : read = Range(l.rated)
    OBVIOUS
  <2>6. l.page # PageCount(l.n, RowsPerPage)
    <3>1. PageCount(l.n, RowsPerPage) \in Nat /\ l.page \in Nat
      BY <1>5, HereFinite, PagesSuffice DEF PagesRead
    <3> QED
      BY <1>8, <3>1
  <2>7. page \subseteq Here \ read /\ PagesRead(l.page + 1, l.n, Cardinality(read \cup page))
    <3>1. PICK S : S = Here
      OBVIOUS
    <3>2. /\ IsFiniteSet(S) /\ read \in SUBSET S /\ l.n = Cardinality(S)
          /\ PagesRead(l.page, Cardinality(S), Cardinality(read)) /\ l.page # PageCount(Cardinality(S), RowsPerPage)
      BY <1>5, <1>6, <2>5, <2>6, <3>1, HereFinite
    <3>3. page \in PagesOf(S \ read, Cardinality(S), RowsPerPage, l.page)
      BY <1>8, <2>5, <3>1, <3>2
    <3> QED
      BY <3>1, <3>2, <3>3, PageOf
  <2>8. IsFiniteSet(page) /\ page \in SUBSET Here /\ Range(l.rated) \cap page = {}
    BY <2>5, <2>7, HereFinite, FS_Subset
  <2>9. t \in Seq(Here) /\ IsInjective(t) /\ Range(t) = read \cup page
    <3>1. PICK s, S : s = l.rated /\ S = Here
      OBVIOUS
    <3>2. s \in Seq(S) /\ IsInjective(s) /\ t = Joined(s, page) /\ Range(s) = read /\ Range(s) \cap page = {}
      BY <1>5, <2>1, <2>5, <2>8, <3>1 DEF Joined
    <3>3. page \in SUBSET S /\ IsFiniteSet(page)
      BY <2>8, <3>1
    <3>4. t \in Seq(S) /\ IsInjective(t) /\ Range(t) = Range(s) \cup page
      BY <3>2, <3>3, ListedAfter
    <3> QED
      BY <3>1, <3>2, <3>4
  <2>10. Judged(m)'
    BY <1>4, <1>5, <2>4, <2>7, <2>9 DEF Judged
  <2> QED
    BY <1>1, <1>2, <1>4, <2>3, <2>4, <2>10, JudgeStep DEF JudgeInv
<1>9. \/ l.page = PageCount(l.n, RowsPerPage) /\ Judge(j, NotJudging)
      \/ /\ l.page < PageCount(l.n, RowsPerPage)
         /\ \E page \in PagesOf(Here \ Range(l.rated), l.n, RowsPerPage, l.page) :
               Judge(j, [l EXCEPT !.pc = "lookUp", !.page = @ + 1, !.rated = @ \o SetToSeq(page)])
  BY <1>1, <1>2, <1>3, <1>5, Zenon DEF RateParticipants
<1> QED
  BY <1>7, <1>8, <1>9, Zenon

LEMMA JudgeLooksUp ==
  ASSUME LoneInv, JudgeInv, NEW j \in QualityJobs, LookUpQuality(j), ~disturbed, ~disturbed', UNCHANGED social
  PROVE  JudgeInv'
<1>1. PICK l : l = judge[j]
  OBVIOUS
<1>2. l.pc = "lookUp" /\ j \notin shuffled /\ Judged(l) /\ ~behind
  BY <1>1 DEF LookUpQuality, JudgeInv, LoneInv
<1>3. Seen.quality = quality
  BY <1>2 DEF Seen, Tables
<1>4. UNCHANGED <<score, quality, shuffled>> /\ Here' = Here
  BY DEF LookUpQuality, tables, Here, Present, Tables
<1>5. /\ DOMAIN l = {"pc", "n", "page", "rated", "found"}
      /\ l.rated \in Seq(Here)
  BY <1>2 DEF Judged
<1>6. quality \in [Participants -> Seq(SUBSET Participants)] /\ \A p \in Participants : Len(quality[p]) <= 1
  BY DEF JudgeInv
<1>7. PICK found : /\ DOMAIN found = DOMAIN l.rated
                   /\ \A i \in DOMAIN found :
                         found[i] \in IF quality[l.rated[i]] = << >> THEN {0} ELSE DOMAIN quality[l.rated[i]]
                   /\ Judge(j, [l EXCEPT !.pc = "upsert", !.found = found])
  BY <1>1, <1>3 DEF LookUpQuality
<1>8. \A i \in DOMAIN l.rated : found[i] = IF quality[l.rated[i]] = << >> THEN 0 ELSE 1
  <2> SUFFICES ASSUME NEW i \in DOMAIN l.rated PROVE found[i] = IF quality[l.rated[i]] = << >> THEN 0 ELSE 1
    OBVIOUS
  <2>1. PICK s : s = quality[l.rated[i]]
    OBVIOUS
  <2>2. s \in Seq(SUBSET Participants) /\ Len(s) <= 1
    <3>1. l.rated[i] \in Participants
      BY <1>5, LenProperties, ElementOfSeq, HereFinite
    <3> QED
      BY <1>6, <2>1, <3>1
  <2>3. DOMAIN s = 1..Len(s) /\ Len(s) \in Nat /\ (s # << >> => Len(s) # 0)
    BY <2>2, LenProperties, EmptySeq
  <2>4. s # << >> => DOMAIN s = {1}
    BY <2>2, <2>3
  <2> QED
    BY <1>7, <2>1, <2>4
<1>9. PICK m : m = [l EXCEPT !.pc = "upsert", !.found = found]
  OBVIOUS
<1>10. judge' = [judge EXCEPT ![j] = m]
  BY <1>7, <1>9 DEF Judge
<1>11. m.pc = "upsert" /\ DOMAIN m = DOMAIN l /\ m.n = l.n /\ m.page = l.page /\ m.rated = l.rated /\ m.found = found
  BY <1>5, <1>9
<1>12. Judged(m)'
  BY <1>2, <1>4, <1>8, <1>11 DEF Judged
<1> QED
  BY <1>1, <1>2, <1>4, <1>6, <1>10, <1>11, <1>12, JudgeStep

LEMMA JudgeUpserts ==
  ASSUME LoneInv, JudgeInv, NEW j \in QualityJobs, UpsertQuality(j), ~disturbed, ~disturbed', UNCHANGED social
  PROVE  JudgeInv'
<1>1. PICK l : l = judge[j]
  OBVIOUS
<1>2. l.pc = "upsert" /\ j \notin shuffled /\ Judged(l)
  BY <1>1 DEF UpsertQuality, JudgeInv
<1>4. UNCHANGED <<score, shuffled>> /\ Here' = Here
  BY DEF UpsertQuality, Here, Present, Tables
<1>5. /\ DOMAIN l = {"pc", "n", "page", "rated", "found"} /\ l.rated \in Seq(Here) /\ IsInjective(l.rated)
      /\ \A i \in DOMAIN l.rated : l.found[i] = IF quality[l.rated[i]] = << >> THEN 0 ELSE 1
  BY <1>2 DEF Judged
<1>6. quality \in [Participants -> Seq(SUBSET Participants)] /\ \A p \in Participants : Len(quality[p]) <= 1
  BY DEF JudgeInv
<1> DEFINE At(p) == {i \in DOMAIN l.rated : l.rated[i] = p}
           New1(p) == {i \in At(p) : l.found[i] = 0}
           Rows(p) == [n \in 1..(Len(quality[p]) + Cardinality(New1(p))) |->
                         IF n > Len(quality[p]) \/ \E i \in At(p) : l.found[i] = n
                         THEN Range(l.rated) ELSE quality[p][n]]
<1>7. /\ quality' = [p \in Participants |-> Rows(p)]
      /\ Judge(j, [l EXCEPT !.pc = "page", !.found = << >>])
  BY <1>1, Zenon DEF UpsertQuality
<1>8. PICK all : all = Range(l.rated)
  OBVIOUS
<1>9. all \subseteq Here /\ Here \subseteq Participants
  <2>1. DOMAIN l.rated = 1..Len(l.rated) /\ \A i \in 1..Len(l.rated) : l.rated[i] \in Here
    BY <1>5, LenProperties, ElementOfSeq
  <2> QED
    BY <1>8, <2>1, HereFinite DEF Range
<1>10. ASSUME NEW p \in Participants PROVE quality'[p] = IF p \in all THEN <<all>> ELSE quality[p]
  <2>1. PICK s : s = quality[p]
    OBVIOUS
  <2>2. s \in Seq(SUBSET Participants) /\ Len(s) \in Nat /\ Len(s) <= 1 /\ DOMAIN s = 1..Len(s) /\ (s = << >> <=> Len(s) = 0)
    BY <1>6, <2>1, LenProperties, EmptySeq
  <2>3. CASE p \in all
    <3>1. PICK k \in DOMAIN l.rated : l.rated[k] = p
      BY <1>8, <2>3 DEF Range
    <3>2. At(p) = {k}
      BY <1>5, <3>1 DEF IsInjective
    <3>3. l.found[k] = IF s = << >> THEN 0 ELSE 1
      BY <1>5, <2>1, <3>1
    <3>4. New1(p) = IF s = << >> THEN {k} ELSE {}
      BY <3>2, <3>3
    <3>5. Cardinality(New1(p)) = IF s = << >> THEN 1 ELSE 0
      BY <3>4, FS_EmptySet, FS_Singleton
    <3>6. Len(s) + Cardinality(New1(p)) = 1
      BY <2>2, <3>5
    <3>7. \A n \in 1..1 : n > Len(s) \/ \E i \in At(p) : l.found[i] = n
      BY <2>2, <3>2, <3>3
    <3>8. Rows(p) = [n \in 1..1 |-> all]
      BY <1>8, <2>1, <3>6, <3>7
    <3>9. [n \in 1..1 |-> all] = <<all>>
      OBVIOUS
    <3> QED
      BY <1>7, <2>3, <3>8, <3>9
  <2>4. CASE p \notin all
    <3>1. At(p) = {}
      BY <1>8, <2>4 DEF Range
    <3>2. Cardinality(New1(p)) = 0
      BY <3>1, FS_EmptySet
    <3>3. Rows(p) = [n \in 1..Len(s) |-> s[n]]
      <4>1. Len(s) + Cardinality(New1(p)) = Len(s)
        BY <2>2, <3>2
      <4>2. \A n \in 1..Len(s) : ~(n > Len(s) \/ \E i \in At(p) : l.found[i] = n)
        BY <2>2, <3>1
      <4> QED
        BY <2>1, <4>1, <4>2
    <3>4. [n \in 1..Len(s) |-> s[n]] = s
      BY <2>2
    <3> QED
      BY <1>7, <2>1, <2>4, <3>3, <3>4
  <2> QED
    BY <2>3, <2>4
<1>11. DOMAIN quality' = Participants /\ quality' = [p \in DOMAIN quality' |-> quality'[p]]
  BY <1>7
<1> HIDE DEF At, New1, Rows
<1>12. <<all>> \in Seq(SUBSET Participants) /\ Len(<<all>>) = 1
  BY <1>9
<1>13. quality' \in [Participants -> Seq(SUBSET Participants)] /\ \A p \in Participants : Len(quality'[p]) <= 1
  <2>1. ASSUME NEW p \in Participants PROVE quality'[p] \in Seq(SUBSET Participants) /\ Len(quality'[p]) <= 1
    <3>1. CASE p \in all
      <4>1. PICK one : one = <<all>>
        OBVIOUS
      <4>2. one \in Seq(SUBSET Participants) /\ Len(one) = 1
        BY <1>12, <4>1, Zenon
      <4>3. quality'[p] = one
        BY <1>10, <3>1, <4>1, Zenon
      <4>4. quality'[p] \in Seq(SUBSET Participants) /\ Len(quality'[p]) = 1
        BY <4>2, <4>3, Zenon
      <4> QED
        BY <4>4
    <3>2. CASE p \notin all
      BY <1>6, <1>10, <3>2
    <3> QED
      BY <3>1, <3>2
  <2> QED
    BY <1>11, <2>1
<1>14. PICK m : m = [l EXCEPT !.pc = "page", !.found = << >>]
  OBVIOUS
<1>15. judge' = [judge EXCEPT ![j] = m]
  BY <1>7, <1>14 DEF Judge
<1>16. m.pc = "page" /\ DOMAIN m = DOMAIN l /\ m.n = l.n /\ m.page = l.page /\ m.rated = l.rated
  BY <1>5, <1>14
<1>17. Judged(m)'
  <2>1. \A p \in Range(m.rated) : quality'[p] = <<Range(m.rated)>>
    BY <1>8, <1>9, <1>10, <1>16
  <2> QED
    BY <1>2, <1>4, <1>16, <2>1 DEF Judged
<1> QED
  BY <1>1, <1>2, <1>4, <1>13, <1>15, <1>16, <1>17, JudgeStep

LEMMA JudgeRequest ==
  ASSUME LoneInv, JudgeInv, Request, ~disturbed'
  PROVE  JudgeInv'
<1>1. ~disturbed /\ AtRest /\ ~behind /\ UNCHANGED <<social, judge>>
  BY OthersMove
<1>2. QualityRests /\ \A j \in SocialJobs : ~SocialAt(j, "newQuality")'
  BY <1>1 DEF AtRest, QualityRests, SocialAt
<1>3. Seen = Tables /\ score = [p \in Participants |-> score[p]]
  BY <1>1 DEF Seen, JudgeInv
<1>4. quality \in [Participants -> Seq(SUBSET Participants)] /\ \A p \in Participants : Len(quality[p]) <= 1
  BY <1>1 DEF JudgeInv
<1>5. ASSUME NEW p \in Here, NEW n, score' = [score EXCEPT ![p] = n]
      PROVE  /\ DOMAIN score' = Participants /\ score' = [q \in DOMAIN score' |-> score'[q]]
             /\ Here' \subseteq Here
  BY <1>3, <1>5 DEF Here, Present, Tables
<1>6. ASSUME NEW p \in Participants, Track(p) PROVE JudgeInv'
  <2>1. p \in Here
    BY <1>6 DEF Track, Here
  <2>2. PICK n : score' = [score EXCEPT ![p] = n]
    BY <1>6, Zenon DEF Track
  <2>3. quality' = [quality EXCEPT ![p] = IF quality[p] = << >> THEN <<Blank>> ELSE quality[p]]
    BY <1>6, Zenon DEF Track
  <2>4. \/ quality' = quality
        \/ \E w \in Participants : quality[w] = << >> /\ quality' = [quality EXCEPT ![w] = <<Blank>>]
    <3>1. CASE quality[p] = << >>
      BY <2>3, <3>1
    <3>2. CASE quality[p] # << >>
      BY <1>4, <2>3, <3>2
    <3> QED
      BY <3>1, <3>2
  <2> QED
    BY <1>1, <1>2, <1>5, <2>1, <2>2, <2>4, BesideJudging
<1>7. ASSUME NEW p \in Participants, RemoveParticipation(p) PROVE JudgeInv'
  <2>1. p \in Here /\ score' = [score EXCEPT ![p] = Gone] /\ quality' = quality
    BY <1>7 DEF RemoveParticipation, Here
  <2> QED
    BY <1>1, <1>2, <1>5, <2>1, BesideJudging
<1>8. CASE UpdateUser
  <2>1. UNCHANGED <<score, quality>>
    BY <1>8 DEF UpdateUser, tables
  <2>2. Here' = Here
    BY <2>1 DEF Here, Present, Tables
  <2> QED
    BY <1>1, <1>2, <1>3, <2>1, <2>2, BesideJudging
<1> QED
  BY <1>6, <1>7, <1>8 DEF Request

LEMMA JudgeInit == Init => JudgeInv
<1> SUFFICES ASSUME Init PROVE JudgeInv
  OBVIOUS
<1>1. /\ quality = [p \in Participants |-> << >>] /\ score = [p \in Participants |-> 0]
      /\ \A j \in QualityJobs : judge[j].pc = "rest"
      /\ \A j \in SocialJobs : social[j].pc = "rest"
  BY DEF Init, TablesInit, QualityInit, SocialInit, Idle, NotJudging
<1>2. Alike
  BY <1>1 DEF Alike, Here, Present, Tables
<1>3. << >> \in Seq(SUBSET Participants) /\ Len(<< >>) = 0
  OBVIOUS
<1>4. quality \in [Participants -> Seq(SUBSET Participants)] /\ \A p \in Participants : Len(quality[p]) <= 1
  BY <1>1, <1>3
<1> QED
  BY <1>1, <1>2, <1>4 DEF JudgeInv, SocialAt

LEMMA JudgeNext == LoneInv /\ HeldInv /\ JudgeInv /\ [Next]_vars => JudgeInv'
<1> SUFFICES ASSUME LoneInv, HeldInv, JudgeInv, [Next]_vars, ~disturbed' PROVE JudgeInv'
  BY DEF JudgeInv
<1>1. ASSUME NEW j \in SocialJobs, Social(j) PROVE JudgeInv'
  BY <1>1, JudgeSocial
<1>2. ASSUME NEW j \in QualityJobs, Quality(j) PROVE JudgeInv'
  <2>1. ~disturbed /\ (judge[j].pc # "rest" \/ (AtRest /\ ~behind)) /\ social' = social
    BY <1>2, QualityMoves DEF Moves
  <2>2. ~Fails
    BY DEF Fails
  <2>3. CASE StartJudge(j)
    BY <2>1, <2>3, JudgeStarts DEF StartJudge
  <2>4. CASE QualityStep(j)
    BY <2>1, <2>4, JudgeRates, JudgeLooksUp, JudgeUpserts DEF QualityStep
  <2> QED
    BY <1>2, <2>2, <2>3, <2>4 DEF Quality
<1>3. CASE (\E j \in TallyJobs : Aggregate(j)) \/ Elsewhere \/ UNCHANGED vars
  <2>1. UNCHANGED <<score, quality, judge, shuffled, social>>
    BY <1>3, Zenon DEF Aggregate, OnlyAggregate, Elsewhere, TwitterCounts, FallsBehind, CatchesUp, vars, tables, qualityVars, socialVars
  <2>2. ~disturbed
    BY <1>3, TallyMoves, OthersMove DEF Moves
  <2>3. Here' = Here
    BY <2>1 DEF Here, Present, Tables
  <2> QED
    BY <2>1, <2>2, <2>3 DEF JudgeInv, Judged, Alike, QualityRests, SocialAt, Whose
<1>4. CASE Request
  BY <1>4, JudgeRequest
<1> QED
  BY <1>1, <1>2, <1>3, <1>4 DEF Next

\* Where runs and requests came one at a time each participant has one quality score and all
\* of them are measured against the same participants, although the job writes them page by
\* page and measures each page against those it had read by then (qualityScore).
THEOREM QuietRunsJudged == Spec => []QuietJudged
<1>1. JudgeInv => QuietJudged
  BY DEF JudgeInv, QuietJudged, Quiet, AtRest, QualityRests, Alike, Here
<1> QED
  BY <1>1, LoneInit, LoneNext, HeldInit, HeldNext, JudgeInit, JudgeNext, PTL DEF Spec

-----------------------------------------------------------------------------
(* Points. *)

LEMMA SumsAreSums == \A S, w : SumOf(S, w) = SumOver(w, S)
BY DEF SumOf, SumOver

LEMMA PointsAre ==
  ASSUME NEW c \in Counts
  PROVE  /\ PointsOf(c) = c["likes"] * Points["likes"] + c["shares"] * Points["shares"]
         /\ \A k \in Kinds : c[k] \in Nat /\ Points[k] \in Nat /\ c[k] * Points[k] \in Nat /\ c[k] <= MaxCount
<1>1. PICK w : w = [k \in Kinds |-> c[k] * Points[k]]
  OBVIOUS
<1>2. Points \in [Kinds -> Nat] /\ MaxCount \in Nat
  BY TableAssumption
<1>3. \A k \in Kinds : c[k] \in Nat /\ Points[k] \in Nat /\ c[k] <= MaxCount
  BY <1>2 DEF Counts
<1>4. \A a, b \in Nat : a * b \in Nat
  OBVIOUS
<1>5. \A k \in Kinds : w[k] = c[k] * Points[k] /\ w[k] \in Int /\ c[k] * Points[k] \in Nat
  BY <1>1, <1>3, <1>4
<1>6. SumOver(w, Kinds) = w["likes"] + w["shares"]
  <2>1. "likes" \in Kinds /\ "shares" \in Kinds /\ "shares" \notin {"likes"}
    BY DEF Kinds
  <2>2. IsFiniteSet({}) /\ IsFiniteSet({"likes"})
    BY FS_EmptySet, FS_Singleton
  <2>3. SumOver(w, {} \cup {"likes"}) = SumOver(w, {}) + w["likes"]
    BY <1>5, <2>1, <2>2, SumAdd
  <2>4. {} \cup {"likes"} = {"likes"} /\ {"likes"} \cup {"shares"} = Kinds
    BY DEF Kinds
  <2>5. SumOver(w, {"likes"}) = w["likes"]
    <3>1. SumOver(w, {"likes"}) = SumOver(w, {} \cup {"likes"})
      BY <2>4, Zenon
    <3> QED
      BY <1>5, <2>1, <2>3, <3>1, SumEmpty
  <2>6. SumOver(w, {"likes"} \cup {"shares"}) = SumOver(w, {"likes"}) + w["shares"]
    BY <1>5, <2>1, <2>2, SumAdd
  <2>7. SumOver(w, Kinds) = SumOver(w, {"likes"} \cup {"shares"})
    BY <2>4, Zenon
  <2> QED
    BY <2>5, <2>6, <2>7
<1>7. PointsOf(c) = SumOver(w, Kinds)
  BY <1>1, SumsAreSums DEF PointsOf
<1>8. "likes" \in Kinds /\ "shares" \in Kinds
  BY DEF Kinds
<1> QED
  BY <1>3, <1>5, <1>6, <1>7, <1>8

LEMMA PointsType == \A c \in Counts : PointsOf(c) \in Nat
<1> SUFFICES ASSUME NEW c \in Counts PROVE PointsOf(c) \in Nat
  OBVIOUS
<1>1. "likes" \in Kinds /\ "shares" \in Kinds
  BY DEF Kinds
<1> QED
  BY <1>1, PointsAre

LEMMA NoPoints == PointsOf(NoCounts) = 0
<1>1. NoCounts["likes"] = 0 /\ NoCounts["shares"] = 0
  BY DEF NoCounts, Kinds
<1>2. Points["likes"] \in Nat /\ Points["shares"] \in Nat
  BY TableAssumption DEF Kinds
<1>3. PointsOf(NoCounts) = NoCounts["likes"] * Points["likes"] + NoCounts["shares"] * Points["shares"]
  BY Zeros, PointsAre
<1> QED
  BY <1>1, <1>2, <1>3

\* What is new of a post is what is new of either kind.
LEMMA NewIs ==
  ASSUME NEW l, l.got \in [Posts -> Counts], l.had \in [Posts -> Counts], l.at.q \in Posts
  PROVE  /\ New(l, l.at.q) = NewOf(l, "likes") + NewOf(l, "shares")
         /\ New(l, l.at.q) \in Int /\ \A k \in Kinds : NewOf(l, k) \in Int
<1>1. PICK g, h : g = l.got[l.at.q] /\ h = l.had[l.at.q]
  OBVIOUS
<1>2. g \in Counts /\ h \in Counts
  BY <1>1
<1>3. "likes" \in Kinds /\ "shares" \in Kinds
  BY DEF Kinds
<1>4. /\ PointsOf(g) = g["likes"] * Points["likes"] + g["shares"] * Points["shares"]
      /\ PointsOf(h) = h["likes"] * Points["likes"] + h["shares"] * Points["shares"]
      /\ \A k \in Kinds : /\ g[k] \in Nat /\ h[k] \in Nat /\ Points[k] \in Nat
                          /\ g[k] * Points[k] \in Nat /\ h[k] * Points[k] \in Nat
  BY <1>2, PointsAre
<1>5. \A a, b, c \in Nat : (a - b) * c = a * c - b * c
  OBVIOUS
<1>6. \A k \in Kinds : NewOf(l, k) = g[k] * Points[k] - h[k] * Points[k]
  BY <1>1, <1>4, <1>5 DEF NewOf
<1>7. New(l, l.at.q) = PointsOf(g) - PointsOf(h)
  BY <1>1 DEF New
<1> QED
  BY <1>3, <1>4, <1>6, <1>7

\* The rows of a day.
LEMMA RowAdded ==
  ASSUME NEW days \in Seq(Int), NEW n \in Int
  PROVE  Total(Append(days, n)) = Total(days) + n /\ Total(days) \in Int
<1>1. PICK more, k : more = Append(days, n) /\ k = Len(days)
  OBVIOUS
<1>2. k \in Nat /\ DOMAIN days = 1..k /\ \A i \in 1..k : days[i] \in Int
  BY <1>1, LenProperties, ElementOfSeq
<1>3. /\ more \in Seq(Int) /\ Len(more) = k + 1 /\ more[k + 1] = n /\ \A i \in 1..k : more[i] = days[i]
  BY <1>1, AppendProperties
<1>4. DOMAIN more = 1..(k + 1) /\ 1..(k + 1) = (1..k) \cup {k + 1} /\ k + 1 \notin 1..k
  <2>1. DOMAIN more = 1..(k + 1)
    BY <1>3, LenProperties
  <2>2. 1..(k + 1) = (1..k) \cup {k + 1} /\ k + 1 \notin 1..k
    BY <1>2
  <2> QED
    BY <2>1, <2>2
<1>5. IsFiniteSet(1..k)
  BY <1>2, FS_Interval
<1>6. \A i \in 1..k : more[i] \in Int
  BY <1>2, <1>3
<1>7. SumOver(more, (1..k) \cup {k + 1}) = SumOver(more, 1..k) + more[k + 1]
  <2>1. PICK S, x : S = 1..k /\ x = k + 1
    OBVIOUS
  <2>2. IsFiniteSet(S) /\ x \notin S /\ more[x] \in Int /\ \A y \in S : more[y] \in Int
    BY <1>3, <1>4, <1>5, <1>6, <2>1
  <2>3. SumOver(more, S \cup {x}) = SumOver(more, S) + more[x]
    BY <2>2, SumAdd
  <2> QED
    BY <2>1, <2>3
<1>8. SumOver(more, 1..k) = SumOver(days, 1..k)
  BY <1>3, <1>5, SumSame
<1>9. SumOver(days, 1..k) \in Int
  BY <1>2, <1>5, SumType
<1>10. Total(days) = SumOver(days, 1..k) /\ Total(more) = SumOver(more, (1..k) \cup {k + 1})
  <2>1. Total(days) = SumOver(days, DOMAIN days) /\ Total(more) = SumOver(more, DOMAIN more)
    BY SumsAreSums DEF Total
  <2> QED
    BY <1>2, <1>4, <2>1, Zenon
<1> QED
  BY <1>1, <1>3, <1>7, <1>8, <1>9, <1>10

LEMMA RowWritten ==
  ASSUME NEW days \in Seq(Int), NEW i \in DOMAIN days, NEW n \in Int
  PROVE  /\ [days EXCEPT ![i] = n] \in Seq(Int)
         /\ Total([days EXCEPT ![i] = n]) = Total(days) + (n - days[i])
<1>1. PICK new, S : new = [days EXCEPT ![i] = n] /\ S = DOMAIN days
  OBVIOUS
<1>2. S = 1..Len(days) /\ Len(days) \in Nat /\ \A k \in S : days[k] \in Int
  BY <1>1, LenProperties, ElementOfSeq
<1>3. IsFiniteSet(S)
  <2>1. IsFiniteSet(1..Len(days))
    BY <1>2, FS_Interval
  <2> QED
    BY <1>2, <2>1, Zenon
<1>4. DOMAIN new = S /\ new[i] = n /\ i \in S /\ \A k \in S \ {i} : new[k] = days[k]
  BY <1>1
<1>5. \A k \in S : days[k] \in Int /\ new[k] \in Int
  BY <1>2, <1>4
<1>6. SumOver(new, S) = SumOver(days, S) + new[i] - days[i]
  BY <1>3, <1>4, <1>5, SumChange
<1>7. SumOver(days, S) \in Int
  BY <1>3, <1>5, SumType
<1>8. Total(days) = SumOver(days, S) /\ Total(new) = SumOver(new, S)
  <2>1. Total(days) = SumOver(days, DOMAIN days) /\ Total(new) = SumOver(new, DOMAIN new)
    BY SumsAreSums DEF Total
  <2> QED
    BY <1>1, <1>4, <2>1, Zenon
<1>9. new \in Seq(Int)
  BY <1>1
<1> QED
  BY <1>1, <1>4, <1>5, <1>6, <1>7, <1>8, <1>9

-----------------------------------------------------------------------------
(* What the participants are due. *)

LEMMA DuesType ==
  ASSUME post \in [Posts -> Counts], tracked \in [Participants -> Int], NEW l, l.got \in [Posts -> Counts]
  PROVE  Weights(l) \in [Posts -> Int] /\ Dues(l) \in [Participants -> Int]
<1>1. PICK w : w = Weights(l)
  OBVIOUS
<1>2. w = [q \in Posts |-> PointsOf(IF q \in l.saved THEN l.got[q] ELSE post[q])]
  BY <1>1 DEF Weights
<1>3. w \in [Posts -> Int]
  <2>1. ASSUME NEW q \in Posts PROVE PointsOf(IF q \in l.saved THEN l.got[q] ELSE post[q]) \in Int
    <3>1. (IF q \in l.saved THEN l.got[q] ELSE post[q]) \in Counts
      OBVIOUS
    <3> QED
      BY <3>1, PointsType
  <2> QED
    BY <1>2, <2>1
<1>4. ASSUME NEW p \in Participants PROVE SumOf(PostsOf(p), w) \in Int
  <2>1. IsFiniteSet(PostsOf(p)) /\ PostsOf(p) \subseteq Posts
    BY TableAssumption, FS_Subset DEF PostsOf
  <2>2. \A q \in PostsOf(p) : w[q] \in Int
    BY <1>3, <2>1
  <2> QED
    BY <2>1, <2>2, SumType, SumsAreSums
<1>5. Dues(l) = [p \in Participants |-> tracked[p] + SumOf(PostsOf(p), w)]
  BY <1>1 DEF Dues
<1> QED
  BY <1>1, <1>3, <1>4, <1>5

LEMMA DuesKept ==
  ASSUME NEW l, NEW m, UNCHANGED tracked,
         \A q \in Posts : (IF q \in m.saved THEN m.got[q] ELSE post'[q]) = (IF q \in l.saved THEN l.got[q] ELSE post[q])
  PROVE  Dues(m)' = Dues(l)
<1>1. Weights(m)' = Weights(l)
  BY DEF Weights
<1> QED
  BY <1>1 DEF Dues

\* A post that is listed adds what is new of it to what its author is due.
LEMMA DuesListed ==
  ASSUME post \in [Posts -> Counts], tracked \in [Participants -> Int], UNCHANGED <<post, tracked>>,
         NEW l, NEW m, l.got \in [Posts -> Counts], m.got = l.got, NEW r \in Posts, r \notin l.saved,
         m.saved = l.saved \cup {r}
  PROVE  \A p \in Participants :
            Dues(m)'[p] = Dues(l)[p] + (IF Author[r] = p THEN PointsOf(l.got[r]) - PointsOf(post[r]) ELSE 0)
<1>1. PICK v, w : v = Weights(l) /\ w = Weights(m)'
  OBVIOUS
<1>2. v \in [Posts -> Int] /\ Dues(l) \in [Participants -> Int]
  BY <1>1, DuesType
<1>3. /\ v = [q \in Posts |-> PointsOf(IF q \in l.saved THEN l.got[q] ELSE post[q])]
      /\ w = [q \in Posts |-> PointsOf(IF q \in m.saved THEN l.got[q] ELSE post[q])]
  BY <1>1 DEF Weights
<1>4. /\ w[r] = PointsOf(l.got[r]) /\ v[r] = PointsOf(post[r]) /\ w[r] \in Int /\ v[r] \in Int
      /\ \A q \in Posts \ {r} : w[q] = v[q]
  BY <1>3, PointsType
<1>5. \A q \in Posts : v[q] \in Int /\ w[q] \in Int
  BY <1>2, <1>4
<1>6. ASSUME NEW p \in Participants
      PROVE  SumOf(PostsOf(p), w) = SumOf(PostsOf(p), v) + (IF Author[r] = p THEN w[r] - v[r] ELSE 0)
  <2>1. PICK S : S = PostsOf(p)
    OBVIOUS
  <2>2. IsFiniteSet(S) /\ S \subseteq Posts /\ (r \in S <=> Author[r] = p)
    BY <2>1, TableAssumption, FS_Subset DEF PostsOf
  <2>3. \A q \in S : v[q] \in Int /\ w[q] \in Int
    BY <1>5, <2>2
  <2>4. SumOver(v, S) \in Int
    BY <2>2, <2>3, SumType
  <2>5. CASE r \in S
    <3>1. SumOver(w, S) = SumOver(v, S) + w[r] - v[r]
      BY <1>4, <2>2, <2>3, <2>5, SumChange
    <3> QED
      BY <1>4, <2>1, <2>2, <2>4, <2>5, <3>1, SumsAreSums
  <2>6. CASE r \notin S
    <3>1. SumOver(w, S) = SumOver(v, S)
      BY <1>4, <2>2, <2>6, SumSame
    <3> QED
      BY <2>1, <2>2, <2>4, <2>6, <3>1, SumsAreSums
  <2> QED
    BY <2>5, <2>6
<1>7. /\ Dues(l) = [p \in Participants |-> tracked[p] + SumOf(PostsOf(p), v)]
      /\ Dues(m)' = [p \in Participants |-> tracked[p] + SumOf(PostsOf(p), w)]
  BY <1>1 DEF Dues
<1>8. \A p \in Participants : SumOf(PostsOf(p), v) \in Int
  <2> SUFFICES ASSUME NEW p \in Participants PROVE SumOf(PostsOf(p), v) \in Int
    OBVIOUS
  <2>1. IsFiniteSet(PostsOf(p)) /\ \A q \in PostsOf(p) : v[q] \in Int
    BY <1>5, TableAssumption, FS_Subset DEF PostsOf
  <2> QED
    BY <2>1, SumType, SumsAreSums
<1> QED
  BY <1>4, <1>6, <1>7, <1>8

LEMMA DuesTracked ==
  ASSUME post \in [Posts -> Counts], tracked \in [Participants -> Int], UNCHANGED post, NEW a \in Participants,
         tracked' = [tracked EXCEPT ![a] = tracked[a] + 1]
  PROVE  \A p \in Participants : Dues(Idle)'[p] = Dues(Idle)[p] + (IF a = p THEN 1 ELSE 0)
<1>1. Weights(Idle)' = Weights(Idle)
  BY DEF Weights
<1>2. PICK s : s = [p \in Participants |-> SumOf(PostsOf(p), Weights(Idle))]
  OBVIOUS
<1>3. /\ Dues(Idle) = [p \in Participants |-> tracked[p] + s[p]]
      /\ Dues(Idle)' = [p \in Participants |-> tracked'[p] + s[p]]
  BY <1>1, <1>2 DEF Dues
<1>4. \A p \in Participants : s[p] \in Int
  <2>1. Idle.got \in [Posts -> Counts]
    BY IdleHeld DEF Held
  <2>2. Weights(Idle) \in [Posts -> Int]
    BY <2>1, DuesType
  <2> SUFFICES ASSUME NEW p \in Participants PROVE s[p] \in Int
    OBVIOUS
  <2>3. IsFiniteSet(PostsOf(p)) /\ \A q \in PostsOf(p) : Weights(Idle)[q] \in Int
    BY <2>2, TableAssumption, FS_Subset DEF PostsOf
  <2> QED
    BY <1>2, <2>3, SumType, SumsAreSums
<1>5. \A p \in Participants : tracked[p] \in Int /\ tracked'[p] = tracked[p] + (IF a = p THEN 1 ELSE 0)
  OBVIOUS
<1>6. PICK D, E : D = Dues(Idle) /\ E = Dues(Idle)'
  OBVIOUS
<1>7. \A p \in Participants : D[p] = tracked[p] + s[p] /\ E[p] = tracked'[p] + s[p]
  BY <1>3, <1>6
<1>8. \A p \in Participants : E[p] = D[p] + (IF a = p THEN 1 ELSE 0)
  <2> SUFFICES ASSUME NEW p \in Participants PROVE E[p] = D[p] + (IF a = p THEN 1 ELSE 0)
    OBVIOUS
  <2>1. PICK t, k : t = tracked[p] /\ k = s[p] /\ t \in Int /\ k \in Int
    BY <1>4, <1>5
  <2>2. CASE a = p
    <3>1. D[p] = t + k /\ E[p] = (t + 1) + k
      BY <1>5, <1>7, <2>1, <2>2
    <3> QED
      BY <2>1, <2>2, <3>1
  <2>3. CASE a # p
    <3>1. D[p] = t + k /\ E[p] = (t + 0) + k
      BY <1>5, <1>7, <2>1, <2>3
    <3> QED
      BY <2>1, <2>3, <3>1
  <2> QED
    BY <2>2, <2>3
<1> QED
  BY <1>6, <1>8, Zenon

\* The sum changes by what one participant is due more.
LEMMA SumOfDues ==
  ASSUME NEW D, NEW E, NEW a \in Participants, NEW n \in Int, \A p \in Participants : D[p] \in Int,
         \A p \in Participants : E[p] = D[p] + (IF a = p THEN n ELSE 0)
  PROVE  SumOf(Participants, E) = SumOf(Participants, D) + n /\ SumOf(Participants, D) \in Int
<1>1. IsFiniteSet(Participants)
  BY TableAssumption
<1>2. \A p \in Participants : E[p] \in Int /\ D[p] \in Int
  OBVIOUS
<1>3. E[a] = D[a] + n /\ \A p \in Participants \ {a} : E[p] = D[p]
  OBVIOUS
<1>4. SumOver(E, Participants) = SumOver(D, Participants) + E[a] - D[a]
  BY <1>1, <1>2, <1>3, SumChange
<1>5. SumOver(D, Participants) \in Int
  BY <1>1, SumType
<1> QED
  BY <1>2, <1>3, <1>4, <1>5, SumsAreSums

-----------------------------------------------------------------------------
(* The balance. *)

\* Nothing was given for the post at hand.
LEMMA NothingGiven ==
  ASSUME NEW l,
         \/ l.pc \in Before
         \/ l.pc \in {"campaign", "quality", "newQuality"}
         \/ l.pc \in Days /\ l.at.kind = "likes"
  PROVE  /\ Given(l, "score") = 0 /\ Given(l, "total") = 0 /\ OnDay(l) = 0
         /\ \A p : AtHand(l, p, 0) = 0
BY DEF Before, Days, Given, OnDay, AtHand

LEMMA EvenKept ==
  ASSUME NEW l, NEW m, NEW D, Even(l, D), UNCHANGED <<score, total>>,
         \A p \in Participants : Total(daily'[p]) = Total(daily[p]),
         Given(m, "score") = Given(l, "score"), Given(m, "total") = Given(l, "total"), OnDay(m) = OnDay(l),
         \A p \in Participants, n \in {Given(l, "score"), OnDay(l)} : AtHand(m, p, n) = AtHand(l, p, n)
  PROVE  Even(m, D)'
<1>1. Here' = Here /\ Here \subseteq Participants
  BY DEF Here, Present, Tables
<1>2. ASSUME NEW p \in Here
      PROVE  /\ score'[p] = D[p] + AtHand(m, p, Given(m, "score"))
             /\ Total(daily'[p]) = D[p] + AtHand(m, p, OnDay(m))
  <2>1. score[p] = D[p] + AtHand(l, p, Given(l, "score")) /\ Total(daily[p]) = D[p] + AtHand(l, p, OnDay(l))
    BY DEF Even
  <2>2. p \in Participants
    BY <1>1
  <2> QED
    BY <2>1, <2>2
<1>3. total' = SumOf(Participants, D) + Given(m, "total")
  BY DEF Even
<1> QED
  BY <1>1, <1>2, <1>3 DEF Even

\* Steps at which nothing has been given for the post at hand.
LEMMA StillBalanced ==
  ASSUME NEW l, NEW m, Balanced(l), UNCHANGED <<score, total, daily, tracked>>,
         Given(l, "score") = 0 /\ Given(l, "total") = 0 /\ OnDay(l) = 0 /\ \A p : AtHand(l, p, 0) = 0,
         Given(m, "score") = 0 /\ Given(m, "total") = 0 /\ OnDay(m) = 0 /\ \A p : AtHand(m, p, 0) = 0,
         \A q \in Posts : (IF q \in m.saved THEN m.got[q] ELSE post'[q]) = (IF q \in l.saved THEN l.got[q] ELSE post[q])
  PROVE  Balanced(m)'
<1>1. PICK D : D = Dues(l)
  OBVIOUS
<1>2. Dues(m)' = D
  BY <1>1, DuesKept
<1>3. Even(l, D)
  BY <1>1 DEF Balanced
<1>4. Even(m, D)'
  BY <1>3, EvenKept
<1> QED
  BY <1>2, <1>4 DEF Balanced

-----------------------------------------------------------------------------
(* The points of a run, step by step. *)

\* A run that is under way.
LEMMA CountAt ==
  ASSUME LoneInv, HeldInv, CountInv, ~disturbed, NEW j \in SocialJobs, social[j].pc # "rest"
  PROVE  /\ Balanced(social[j]) /\ Current(social[j]) /\ Held(social[j]) /\ Shaped(social[j])
         /\ ~behind /\ Seen = Tables /\ PointsTyped /\ post \in [Posts -> Counts]
BY DEF CountInv, LoneInv, HeldInv, Held, SocialAt, Seen

LEMMA CountStep ==
  ASSUME LoneInv, HeldInv, ~disturbed, ~disturbed', NEW j \in SocialJobs, Social(j), NEW m, m = social'[j],
         PointsTyped', IF m.pc = "rest" THEN Balanced(Idle)' ELSE Balanced(m)' /\ Current(m)'
  PROVE  CountInv'
<1>1. ~SocialAt(j, "rest") \/ AtRest
  BY SocialMoves DEF Moves
<1>2. \A i \in SocialJobs \ {j} : social'[i].pc = "rest"
  BY <1>1, SocialHeld DEF LoneInv, AtRest, SocialAt
<1>3. SocialRests' => m.pc = "rest"
  BY DEF SocialRests, SocialAt
<1>4. ASSUME NEW i \in SocialJobs, ~SocialAt(i, "rest")' PROVE social'[i] = m /\ m.pc # "rest"
  BY <1>2, <1>4 DEF SocialAt
<1>5. ASSUME NEW i \in SocialJobs, ~SocialAt(i, "rest")' PROVE Balanced(social[i])' /\ Current(social[i])'
  BY <1>4, <1>5
<1> QED
  BY <1>3, <1>5 DEF CountInv

LEMMA SocialTracks == ASSUME NEW j \in SocialJobs, Social(j) PROVE UNCHANGED tracked
BY DEF Social, OnlySocial

LEMMA CountStarts ==
  ASSUME LoneInv, HeldInv, CountInv, NEW j \in SocialJobs, Social(j), StartSocial(j), ~disturbed, ~disturbed', AtRest
  PROVE  CountInv'
<1>1. PICK l, m : l = social[j] /\ m = social'[j]
  OBVIOUS
<1>2. l.pc = "rest" /\ m.pc = "page" /\ m.todo = l.todo /\ m.saved = l.saved /\ Held(l)
  BY <1>1, StartIs DEF Becomes, Keeps, Others, HeldInv
<1>3. m.todo = {} /\ m.saved = {}
  BY <1>2 DEF Held
<1>4. UNCHANGED <<score, total, daily, tracked, post>>
  BY SocialTracks DEF StartSocial, tables
<1>5. Balanced(Idle) /\ PointsTyped
  BY DEF CountInv, SocialRests, AtRest
<1>6. Idle.pc = "rest" /\ Idle.saved = {}
  BY IdleShaped
<1>7. Balanced(m)'
  BY <1>2, <1>3, <1>4, <1>5, <1>6, NothingGiven, StillBalanced DEF Before
<1>8. Current(m)'
  BY <1>2, <1>3 DEF Current, Working
<1> QED
  BY <1>1, <1>2, <1>4, <1>5, <1>7, <1>8, CountStep DEF PointsTyped

LEMMA CountReads ==
  ASSUME LoneInv, HeldInv, CountInv, NEW j \in SocialJobs, Social(j), ReadPosts(j), ~disturbed, ~disturbed'
  PROVE  CountInv'
<1>1. PICK l, m : l = social[j] /\ m = social'[j]
  OBVIOUS
<1>2. l.pc = "page"
  BY <1>1, ReadPostsIs
<1>3. Balanced(l) /\ Held(l) /\ PointsTyped /\ Seen.post = post
  BY <1>1, <1>2, CountAt DEF Tables
<1>4. UNCHANGED <<score, total, daily, tracked, post>>
  BY SocialTracks DEF ReadPosts, tables
<1>5. l.saved = {}
  BY <1>2, <1>3 DEF Held
<1>6. CASE m = Idle
  <2>1. Idle.pc = "rest" /\ Idle.saved = {}
    BY IdleShaped
  <2>2. Balanced(Idle)'
    BY <1>2, <1>3, <1>4, <1>5, <2>1, NothingGiven, StillBalanced DEF Before
  <2> QED
    BY <1>1, <1>3, <1>4, <1>6, <2>1, <2>2, CountStep DEF PointsTyped
<1>7. ASSUME NEW rows \in SUBSET Posts, m.pc = "fetch", m.todo = rows, m.saved = {},
             m.had = [q \in Posts |-> IF q \in rows THEN Seen.post[q] ELSE NoCounts]
      PROVE  CountInv'
  <2>1. Balanced(m)'
    BY <1>2, <1>3, <1>4, <1>5, <1>7, NothingGiven, StillBalanced DEF Before
  <2>2. \A q \in m.todo \cup m.saved : m.had[q] = post'[q]
    BY <1>3, <1>4, <1>7
  <2>3. Current(m)'
    BY <1>7, <2>2 DEF Current, Working
  <2> QED
    BY <1>1, <1>3, <1>4, <1>7, <2>1, <2>3, CountStep DEF PointsTyped
<1> QED
  BY <1>1, <1>6, <1>7, ReadPostsIs DEF Becomes

LEMMA CountGets ==
  ASSUME LoneInv, HeldInv, CountInv, NEW j \in SocialJobs, Social(j), GetPosts(j), ~disturbed, ~disturbed'
  PROVE  CountInv'
<1>1. PICK l, m : l = social[j] /\ m = social'[j]
  OBVIOUS
<1>2. l.pc = "fetch" /\ m.pc = "post" /\ m.todo \subseteq l.todo /\ m.saved = l.saved /\ m.had = l.had
  BY <1>1, GetPostsIs DEF Becomes, Keeps
<1>3. Balanced(l) /\ Current(l) /\ Held(l) /\ PointsTyped
  BY <1>1, <1>2, CountAt
<1>4. UNCHANGED <<score, total, daily, tracked, post>>
  BY SocialTracks DEF GetPosts, tables
<1>5. l.saved = {}
  BY <1>2, <1>3 DEF Held
<1>6. Balanced(m)'
  BY <1>2, <1>3, <1>4, <1>5, NothingGiven, StillBalanced DEF Before
<1>7. Current(m)'
  BY <1>2, <1>3, <1>4 DEF Current, Working
<1> QED
  BY <1>1, <1>2, <1>3, <1>4, <1>6, <1>7, CountStep DEF PointsTyped

LEMMA CountAuthor ==
  ASSUME LoneInv, HeldInv, CountInv, NEW j \in SocialJobs, Social(j), ReadAuthor(j), ~disturbed, ~disturbed'
  PROVE  CountInv'
<1>1. PICK l, m : l = social[j] /\ m = social'[j]
  OBVIOUS
<1>2. l.pc = "post" /\ m.saved = l.saved /\ m.had = l.had /\ m.got = l.got
  BY <1>1, ReadAuthorIs DEF Keeps
<1>3. Balanced(l) /\ Current(l) /\ Held(l) /\ PointsTyped /\ Seen = Tables
  BY <1>1, <1>2, CountAt
<1>4. UNCHANGED <<score, total, daily, tracked, post>> /\ Here' = Here
  BY SocialTracks DEF ReadAuthor, tables, Here, Present, Tables
<1>5. l.at.kind = "likes"
  BY <1>2, <1>3, AtPostShaped DEF Held, Before
<1>6. ASSUME NEW q \in l.todo, Author[q] \in Here, m.pc = "campaign", m.todo = l.todo, m.at.q = q,
             m.at.score = score[Author[q]], m.at.kind = l.at.kind
      PROVE  CountInv'
  <2>1. Balanced(m)'
    BY <1>2, <1>3, <1>4, <1>6, NothingGiven, StillBalanced DEF Before
  <2>2. Current(m)'
    BY <1>2, <1>3, <1>4, <1>5, <1>6 DEF Current, Working, Days
  <2> QED
    BY <1>1, <1>3, <1>4, <1>6, <2>1, <2>2, CountStep DEF PointsTyped
<1>7. CASE m.pc = "post" /\ m.todo = {}
  <2>1. Balanced(m)'
    BY <1>2, <1>3, <1>4, <1>7, NothingGiven, StillBalanced DEF Before
  <2>2. Current(m)'
    BY <1>2, <1>3, <1>4, <1>7 DEF Current, Working
  <2> QED
    BY <1>1, <1>3, <1>4, <1>7, <2>1, <2>2, CountStep DEF PointsTyped
<1>8. \/ \E q \in l.todo : /\ Author[q] \in Here /\ m.pc = "campaign" /\ m.todo = l.todo /\ m.at.q = q
                           /\ m.at.score = score[Author[q]] /\ m.at.kind = l.at.kind
      \/ m.pc = "post" /\ m.todo = {}
  BY <1>1, <1>3, ReadAuthorIs DEF Becomes, Keeps, KeepsAt, Here, Tables
<1> QED
  BY <1>6, <1>7, <1>8

LEMMA CountTotal ==
  ASSUME LoneInv, HeldInv, CountInv, NEW j \in SocialJobs, Social(j), ReadTotal(j), ~disturbed, ~disturbed'
  PROVE  CountInv'
<1>1. PICK l, m : l = social[j] /\ m = social'[j]
  OBVIOUS
<1>2. /\ l.pc = "campaign" /\ m.pc = "quality" /\ m.todo = l.todo /\ m.saved = l.saved /\ m.had = l.had /\ m.got = l.got
      /\ m.at.q = l.at.q /\ m.at.score = l.at.score /\ m.at.kind = l.at.kind /\ m.at.total = Seen.total
  BY <1>1, ReadTotalIs DEF Becomes, Keeps, KeepsAt, Others
<1>3. Balanced(l) /\ Current(l) /\ PointsTyped /\ Seen.total = total
  BY <1>1, <1>2, CountAt DEF Tables
<1>4. UNCHANGED <<score, total, daily, tracked, post>> /\ Here' = Here
  BY SocialTracks DEF ReadTotal, tables, Here, Present, Tables
<1>5. Balanced(m)'
  BY <1>2, <1>3, <1>4, NothingGiven, StillBalanced
<1>6. Current(m)'
  BY <1>2, <1>3, <1>4 DEF Current, Working, Days
<1> QED
  BY <1>1, <1>2, <1>3, <1>4, <1>5, <1>6, CountStep DEF PointsTyped

LEMMA CountQuality ==
  ASSUME LoneInv, HeldInv, CountInv, NEW j \in SocialJobs, Social(j), FindQuality(j) \/ CreateQuality(j),
         ~disturbed, ~disturbed'
  PROVE  CountInv'
<1>1. PICK l, m : l = social[j] /\ m = social'[j]
  OBVIOUS
<1>2. /\ l.pc \in {"quality", "newQuality"} /\ m.pc \in {"newQuality", "findDay"}
      /\ m.todo = l.todo /\ m.saved = l.saved /\ m.had = l.had /\ m.got = l.got /\ m.at = l.at
  BY <1>1, QualityIs DEF Becomes, Keeps, Others
<1>3. Balanced(l) /\ Current(l) /\ PointsTyped
  BY <1>1, <1>2, CountAt
<1>4. UNCHANGED <<score, total, daily, tracked, post>> /\ Here' = Here
  BY SocialTracks DEF FindQuality, CreateQuality, tables, Here, Present, Tables
<1>5. l.at.kind = "likes"
  BY <1>2, <1>3 DEF Current, Working
<1>6. Balanced(m)'
  BY <1>2, <1>3, <1>4, <1>5, NothingGiven, StillBalanced DEF Days
<1>7. Current(m)'
  BY <1>2, <1>3, <1>4, <1>5 DEF Current, Working, Days, Kinds
<1> QED
  BY <1>1, <1>2, <1>3, <1>4, <1>6, <1>7, CountStep DEF PointsTyped

LEMMA CountSaves ==
  ASSUME LoneInv, HeldInv, CountInv, NEW j \in SocialJobs, Social(j), SavePosts(j), ~disturbed, ~disturbed'
  PROVE  CountInv'
<1>1. PICK l, m : l = social[j] /\ m = social'[j]
  OBVIOUS
<1>2. /\ l.pc = "post" /\ m.pc = "page" /\ m.todo = {} /\ m.saved = {}
      /\ post' = [q \in Posts |-> IF q \in l.saved THEN l.got[q] ELSE post[q]]
  BY <1>1, SavePostsIs DEF Becomes
<1>3. Balanced(l) /\ PointsTyped
  BY <1>1, <1>2, CountAt
<1>4. UNCHANGED <<score, total, daily, tracked>>
  BY SocialTracks DEF SavePosts
<1>5. Balanced(m)'
  BY <1>2, <1>3, <1>4, NothingGiven, StillBalanced DEF Before
<1>6. Current(m)'
  BY <1>2 DEF Current, Working
<1> QED
  BY <1>1, <1>2, <1>3, <1>4, <1>5, <1>6, CountStep DEF PointsTyped

LEMMA GivenType ==
  ASSUME NEW l, Held(l), l.pc \in Working
  PROVE  /\ Given(l, "score") \in Int /\ Given(l, "total") \in Int /\ OnDay(l) \in Int /\ l.at.q \in Posts
         /\ l.got \in [Posts -> Counts] /\ l.had \in [Posts -> Counts]
         /\ New(l, l.at.q) = NewOf(l, "likes") + NewOf(l, "shares")
         /\ New(l, l.at.q) \in Int /\ \A k \in Kinds : NewOf(l, k) \in Int
<1>1. l.got \in [Posts -> Counts] /\ l.had \in [Posts -> Counts] /\ l.at.q \in Posts
  BY DEF Held
<1>2. /\ New(l, l.at.q) = NewOf(l, "likes") + NewOf(l, "shares")
      /\ New(l, l.at.q) \in Int /\ \A k \in Kinds : NewOf(l, k) \in Int
  BY <1>1, NewIs
<1>3. "likes" \in Kinds
  BY DEF Kinds
<1> QED
  BY <1>1, <1>2, <1>3 DEF Given, OnDay

\* A step adds a to the score and b to the days of the participant, and c to the total.
Adds(r, a, b, c) ==
    /\ Here' = Here
    /\ \A p \in Here : /\ score'[p] = score[p] + (IF r = p THEN a ELSE 0)
                       /\ Total(daily'[p]) = Total(daily[p]) + (IF r = p THEN b ELSE 0)
    /\ total' = total + c
Gives(l, m, a, b, c) ==
    /\ Given(m, "score") = Given(l, "score") + a
    /\ OnDay(m) = OnDay(l) + b
    /\ Given(m, "total") = Given(l, "total") + c

\* What a step adds to the score, the day or the total, it has given.
LEMMA EvenMoved ==
  ASSUME NEW l, NEW m, NEW D, NEW r, Even(l, D), l.pc \in Working, m.pc \in Working,
         Author[l.at.q] = r, Author[m.at.q] = r, NEW a \in Int, NEW b \in Int, NEW c \in Int,
         Given(l, "score") \in Int, Given(l, "total") \in Int, OnDay(l) \in Int,
         D \in [Participants -> Int], SumOf(Participants, D) \in Int, Adds(r, a, b, c), Gives(l, m, a, b, c)
  PROVE  Even(m, D)'
<1>1. Here \subseteq Participants
  BY DEF Here, Present
<1>2. PICK s, d, t : s = Given(l, "score") /\ d = OnDay(l) /\ t = Given(l, "total")
  OBVIOUS
<1>3. s \in Int /\ d \in Int /\ t \in Int
  BY <1>2
<1>0. Given(m, "score") = s + a /\ OnDay(m) = d + b /\ Given(m, "total") = t + c
  BY <1>2 DEF Gives
<1>4. ASSUME NEW p \in Here
      PROVE  /\ score'[p] = D[p] + AtHand(m, p, Given(m, "score"))
             /\ Total(daily'[p]) = D[p] + AtHand(m, p, OnDay(m))
  <2>1. score[p] = D[p] + (IF r = p THEN s ELSE 0) /\ Total(daily[p]) = D[p] + (IF r = p THEN d ELSE 0)
    BY <1>2 DEF Even, AtHand
  <2>2. D[p] \in Int
    BY <1>1
  <2>3. PICK n : n = D[p] /\ n \in Int
    BY <2>2
  <2>4. AtHand(m, p, s + a) = (IF r = p THEN s + a ELSE 0) /\ AtHand(m, p, d + b) = (IF r = p THEN d + b ELSE 0)
    BY DEF AtHand
  <2>5. CASE r = p
    <3>1. score'[p] = (n + s) + a /\ Total(daily'[p]) = (n + d) + b
      BY <2>1, <2>3, <2>5 DEF Adds
    <3>2. score'[p] = n + (s + a) /\ Total(daily'[p]) = n + (d + b)
      BY <1>3, <2>3, <3>1
    <3> QED
      BY <1>0, <2>3, <2>4, <2>5, <3>2
  <2>6. CASE r # p
    <3>1. score'[p] = (n + 0) + 0 /\ Total(daily'[p]) = (n + 0) + 0
      BY <2>1, <2>3, <2>6 DEF Adds
    <3>2. score'[p] = n + 0 /\ Total(daily'[p]) = n + 0
      BY <2>3, <3>1
    <3> QED
      BY <1>0, <2>3, <2>4, <2>6, <3>2
  <2> QED
    BY <2>5, <2>6
<1>5. total' = SumOf(Participants, D) + Given(m, "total")
  <2>1. PICK k : k = SumOf(Participants, D)
    OBVIOUS
  <2>2. k \in Int /\ total = k + t
    BY <1>2, <2>1 DEF Even
  <2> QED
    BY <1>0, <1>3, <2>1, <2>2 DEF Adds
<1> QED
  BY <1>4, <1>5 DEF Even, Adds

\* Another step of a run that works on a post.
LEMMA CountWorks ==
  ASSUME LoneInv, HeldInv, CountInv, ~disturbed, NEW j \in SocialJobs, Social(j), UNCHANGED post,
         NEW l, NEW m, l = social[j], m = social'[j], Keeps(j, Others), KeepsAt(j, {"q"}),
         l.pc \in Working, m.pc \in Working, NEW a \in Int, NEW b \in Int, NEW c \in Int,
         Adds(Author[l.at.q], a, b, c), Gives(l, m, a, b, c)
  PROVE  Balanced(m)'
<1>1. PICK D : D = Dues(l)
  OBVIOUS
<1>2. m.saved = l.saved /\ m.got = l.got /\ m.at.q = l.at.q
  BY KeptFields DEF KeepsAt
<1>3. UNCHANGED tracked
  BY SocialTracks
<1>4. Dues(m)' = D
  BY <1>1, <1>2, <1>3, DuesKept
<1>5. Balanced(l) /\ Held(l) /\ PointsTyped /\ post \in [Posts -> Counts]
  BY CountAt DEF Working
<1>6. Even(l, D)
  BY <1>1, <1>5 DEF Balanced
<1>7. Given(l, "score") \in Int /\ Given(l, "total") \in Int /\ OnDay(l) \in Int /\ l.got \in [Posts -> Counts]
  BY <1>5, GivenType
<1>8. D \in [Participants -> Int]
  BY <1>1, <1>5, <1>7, DuesType DEF PointsTyped
<1>9. SumOf(Participants, D) \in Int
  BY <1>8, TableAssumption, SumType, SumsAreSums
<1>10. Even(m, D)'
  <2>1. PICK r : r = Author[l.at.q]
    OBVIOUS
  <2>2. Adds(r, a, b, c)
    BY <2>1
  <2>3. Author[m.at.q] = r
    BY <1>2, <2>1
  <2> QED
    BY <1>6, <1>7, <1>8, <1>9, <2>1, <2>2, <2>3, EvenMoved
<1> QED
  BY <1>4, <1>10 DEF Balanced

LEMMA PointsHere ==
  ASSUME PointsTyped
  PROVE  \A p \in Here : p \in Participants /\ score[p] \in Int /\ daily[p] \in Seq(Int) /\ Total(daily[p]) \in Int
<1> SUFFICES ASSUME NEW p \in Here
             PROVE  p \in Participants /\ score[p] \in Int /\ daily[p] \in Seq(Int) /\ Total(daily[p]) \in Int
  OBVIOUS
<1>1. p \in Participants /\ score[p] # Gone
  BY DEF Here, Present, Tables
<1>2. daily[p] \in Seq(Int) /\ score[p] \in Int
  BY <1>1 DEF PointsTyped
<1> QED
  BY <1>1, <1>2, RowAdded

LEMMA CountFindDay ==
  ASSUME LoneInv, HeldInv, CountInv, NEW j \in SocialJobs, Social(j), FindDay(j), ~disturbed, ~disturbed'
  PROVE  CountInv'
<1>1. PICK l, m : l = social[j] /\ m = social'[j]
  OBVIOUS
<1>2. /\ l.pc = "findDay" /\ m.pc \in {"createDay", "writeDay"} /\ Keeps(j, Others) /\ KeepsAt(j, {"q"})
      /\ m.at.q = l.at.q /\ m.at.kind = l.at.kind /\ m.at.score = l.at.score /\ m.at.total = l.at.total
  BY <1>1, FindDayIs DEF Becomes, Keeps, KeepsAt
<1>3. Balanced(l) /\ Current(l) /\ Held(l) /\ PointsTyped /\ Seen.daily = daily
  BY <1>1, <1>2, CountAt DEF Tables
<1>4. m.pc = "writeDay" => m.at.id \in DOMAIN daily[Author[l.at.q]] /\ m.at.day = daily[Author[l.at.q]][m.at.id]
  BY <1>1, <1>3, FindDayIs DEF Becomes, Whose
<1>5. UNCHANGED <<score, total, daily, tracked, post>> /\ Here' = Here
  BY SocialTracks DEF FindDay, tables, Here, Present, Tables
<1>6. m.todo = l.todo /\ m.saved = l.saved /\ m.had = l.had /\ m.got = l.got
  BY <1>1, <1>2, KeptFields
<1>7. Given(l, "score") = 0 /\ Given(l, "total") = 0 /\ Given(m, "score") = 0 /\ Given(m, "total") = 0
  BY <1>2 DEF Given
<1>8. OnDay(m) = OnDay(l) /\ l.pc \in Working /\ m.pc \in Working
  BY <1>2, <1>6 DEF OnDay, Days, NewOf, Working
<1>9. OnDay(l) \in Int
  BY <1>3, <1>8, GivenType
<1>10. \A p \in Here : score[p] \in Int /\ Total(daily[p]) \in Int
  BY <1>3, PointsHere
<1>11. Balanced(m)'
  <2>1. total \in Int
    BY <1>3 DEF PointsTyped
  <2>2. Adds(Author[l.at.q], 0, 0, 0)
    BY <1>5, <1>10, <2>1 DEF Adds
  <2>3. Gives(l, m, 0, 0, 0)
    BY <1>7, <1>8, <1>9 DEF Gives
  <2> QED
    BY <1>1, <1>2, <1>5, <1>8, <2>2, <2>3, CountWorks
<1>12. Current(m)'
  BY <1>2, <1>3, <1>4, <1>5, <1>6, <1>8 DEF Current, Days
<1> QED
  BY <1>1, <1>2, <1>3, <1>5, <1>11, <1>12, CountStep DEF PointsTyped

LEMMA CountCreateDay ==
  ASSUME LoneInv, HeldInv, CountInv, NEW j \in SocialJobs, Social(j), CreateDay(j), ~disturbed, ~disturbed'
  PROVE  CountInv'
<1>1. PICK l, m, r : l = social[j] /\ m = social'[j] /\ r = Author[l.at.q]
  OBVIOUS
<1>2. /\ l.pc = "createDay" /\ m.pc = "writeDay" /\ Keeps(j, Others) /\ KeepsAt(j, {"q"})
      /\ m.at.q = l.at.q /\ m.at.kind = l.at.kind /\ m.at.score = l.at.score /\ m.at.total = l.at.total
      /\ m.at.id = Len(daily[r]) + 1 /\ m.at.day = 0
  BY <1>1, CreateDayIs DEF Becomes, KeepsAt, Whose
<1>3. Balanced(l) /\ Current(l) /\ Held(l) /\ PointsTyped
  BY <1>1, <1>2, CountAt
<1>4. UNCHANGED <<score, total, tracked, post>> /\ Here' = Here
  BY SocialTracks DEF CreateDay, Here, Present, Tables
<1>5. m.todo = l.todo /\ m.saved = l.saved /\ m.had = l.had /\ m.got = l.got
  BY <1>1, <1>2, KeptFields
<1>6. Given(l, "score") = 0 /\ Given(l, "total") = 0 /\ Given(m, "score") = 0 /\ Given(m, "total") = 0
  BY <1>2 DEF Given
<1>7. OnDay(m) = OnDay(l) /\ l.pc \in Working /\ m.pc \in Working
  BY <1>2, <1>5 DEF OnDay, Days, NewOf, Working
<1>8. OnDay(l) \in Int /\ total \in Int
  BY <1>3, <1>7, GivenType DEF PointsTyped
<1>9. r \in Here
  BY <1>1, <1>3, <1>7 DEF Current
<1>10. r \in Participants /\ daily[r] \in Seq(Int)
  BY <1>3, <1>9, PointsHere
<1>11. PICK days, n : days = Append(daily[r], 0) /\ n = Len(daily[r]) + 1
  OBVIOUS
<1>12. days \in Seq(Int) /\ n \in DOMAIN days /\ days[n] = 0
  <2>1. Len(daily[r]) \in Nat
    BY <1>10, LenProperties
  <2>2. days \in Seq(Int) /\ Len(days) = n /\ days[n] = 0
    BY <1>10, <1>11, AppendProperties
  <2>3. DOMAIN days = 1..n
    BY <2>2, LenProperties
  <2> QED
    BY <1>11, <2>1, <2>2, <2>3
<1>13. Total(days) = Total(daily[r]) + 0
  BY <1>10, <1>11, RowAdded
<1>14. daily' = [daily EXCEPT ![r] = days]
  BY <1>1, <1>11 DEF CreateDay, Whose
<1>15. daily' \in [Participants -> Seq(Int)] /\ daily'[r] = days /\ \A p \in Participants \ {r} : daily'[p] = daily[p]
  BY <1>3, <1>10, <1>12, <1>14 DEF PointsTyped
<1>16. Balanced(m)'
  <2>1. Adds(r, 0, 0, 0)
    BY <1>3, <1>4, <1>8, <1>13, <1>15, PointsHere DEF Adds
  <2>2. Gives(l, m, 0, 0, 0)
    BY <1>6, <1>7, <1>8 DEF Gives
  <2> QED
    BY <1>1, <1>2, <1>4, <1>7, <2>1, <2>2, CountWorks
<1>17. Current(m)'
  <2>1. \A q \in m.todo \cup m.saved : m.had[q] = post'[q]
    BY <1>3, <1>4, <1>5 DEF Current
  <2>2. Author[m.at.q] \in Here' /\ m.at.score = score'[Author[m.at.q]] /\ m.at.total = total' /\ m.at.kind \in Kinds
    BY <1>2, <1>3, <1>4, <1>7 DEF Current, Days
  <2>3. Author[m.at.q] = r /\ m.at.id \in DOMAIN daily'[r] /\ m.at.day = daily'[r][m.at.id]
    BY <1>1, <1>2, <1>11, <1>12, <1>15
  <2> QED
    BY <1>2, <2>1, <2>2, <2>3 DEF Current
<1> QED
  BY <1>1, <1>2, <1>3, <1>4, <1>15, <1>16, <1>17, CountStep DEF PointsTyped

LEMMA CountWriteDay ==
  ASSUME LoneInv, HeldInv, CountInv, NEW j \in SocialJobs, Social(j), WriteDay(j), ~disturbed, ~disturbed'
  PROVE  CountInv'
<1>1. PICK l, m, r, b : l = social[j] /\ m = social'[j] /\ r = Author[l.at.q] /\ b = NewOf(l, l.at.kind)
  OBVIOUS
<1>2. /\ l.pc = "writeDay" /\ Keeps(j, Others) /\ KeepsAt(j, {"q"})
      /\ m.at.q = l.at.q /\ m.at.score = l.at.score /\ m.at.total = l.at.total
      /\ IF l.at.kind = "likes" THEN m.pc = "findDay" /\ m.at.kind = "shares"
         ELSE m.pc = "update" /\ m.at.left = {"score", "total"}
  BY <1>1, WriteDayIs DEF Becomes, KeepsAt
<1>3. Balanced(l) /\ Current(l) /\ Held(l) /\ PointsTyped
  BY <1>1, <1>2, CountAt
<1>4. UNCHANGED <<score, total, tracked, post>> /\ Here' = Here
  BY SocialTracks DEF WriteDay, Here, Present, Tables
<1>5. m.todo = l.todo /\ m.saved = l.saved /\ m.had = l.had /\ m.got = l.got
  BY <1>1, <1>2, KeptFields
<1>6. l.pc \in Working /\ m.pc \in Working /\ l.at.kind \in Kinds /\ (l.at.kind = "likes" \/ l.at.kind = "shares")
  BY <1>2, <1>3 DEF Working, Current, Days, Kinds
<1>7. /\ l.at.q \in Posts /\ b \in Int /\ total \in Int
      /\ New(l, l.at.q) = NewOf(l, "likes") + NewOf(l, "shares")
      /\ \A k \in Kinds : NewOf(l, k) \in Int
  BY <1>1, <1>3, <1>6, GivenType DEF PointsTyped
<1>8. "likes" \in Kinds
  BY DEF Kinds
<1>9. Gives(l, m, 0, b, 0)
  <2>1. Given(l, "score") = 0 /\ Given(l, "total") = 0
    BY <1>2 DEF Given
  <2>2. Given(m, "score") = 0 /\ Given(m, "total") = 0
    BY <1>2 DEF Given
  <2>3. CASE l.at.kind = "likes"
    <3>1. OnDay(l) = 0 /\ OnDay(m) = NewOf(m, "likes") /\ NewOf(m, "likes") = b
      BY <1>1, <1>2, <1>5, <2>3 DEF OnDay, Days, NewOf
    <3> QED
      BY <1>7, <2>1, <2>2, <3>1 DEF Gives
  <2>4. CASE l.at.kind = "shares"
    <3>1. OnDay(l) = NewOf(l, "likes") /\ OnDay(m) = New(m, m.at.q)
      BY <1>2, <2>4 DEF OnDay, Days
    <3>2. New(m, m.at.q) = New(l, l.at.q) /\ b = NewOf(l, "shares")
      BY <1>1, <1>2, <1>5, <2>4 DEF New
    <3>3. OnDay(m) = OnDay(l) + b
      BY <1>7, <3>1, <3>2
    <3> QED
      BY <2>1, <2>2, <3>3 DEF Gives
  <2> QED
    BY <1>6, <2>3, <2>4
<1>10. r \in Here /\ l.at.id \in DOMAIN daily[r] /\ l.at.day = daily[r][l.at.id]
  BY <1>1, <1>2, <1>3, <1>6 DEF Current
<1>11. r \in Participants /\ daily[r] \in Seq(Int)
  BY <1>3, <1>10, PointsHere
<1>12. PICK old1, i, n, days : /\ old1 = daily[r] /\ i = l.at.id /\ n = l.at.day + b
                               /\ days = [old1 EXCEPT ![i] = n]
  OBVIOUS
<1>13. old1 \in Seq(Int) /\ i \in DOMAIN old1 /\ old1[i] \in Int /\ n = old1[i] + b /\ n \in Int
  <2>1. old1 \in Seq(Int) /\ i \in DOMAIN old1 /\ n = old1[i] + b
    BY <1>10, <1>11, <1>12
  <2> QED
    BY <1>7, <2>1
<1>14. days \in Seq(Int) /\ Total(days) = Total(old1) + (n - old1[i])
  BY <1>12, <1>13, RowWritten
<1>15. daily' = [daily EXCEPT ![r] = days]
  <2>1. daily' = [daily EXCEPT ![Whose(j)][l.at.id] = l.at.day + Adjusted(j, l.at.kind)]
    BY <1>1, Zenon DEF WriteDay
  <2>2. Whose(j) = r /\ Adjusted(j, l.at.kind) = b
    BY <1>1 DEF Whose, Adjusted, NewOf
  <2>3. daily' = [daily EXCEPT ![r][i] = n]
    BY <1>12, <2>1, <2>2
  <2> QED
    BY <1>12, <2>3
<1>16. daily' \in [Participants -> Seq(Int)] /\ daily'[r] = days /\ \A p \in Participants \ {r} : daily'[p] = daily[p]
  BY <1>3, <1>11, <1>14, <1>15 DEF PointsTyped
<1>17. Total(days) = Total(daily[r]) + b
  <2>1. n - old1[i] = b
    BY <1>7, <1>13
  <2> QED
    BY <1>12, <1>14, <2>1
<1>18. Balanced(m)'
  <2>1. Adds(r, 0, b, 0)
    BY <1>3, <1>4, <1>7, <1>16, <1>17, PointsHere DEF Adds
  <2> QED
    BY <1>1, <1>2, <1>4, <1>6, <1>7, <1>9, <2>1, CountWorks
<1>19. Current(m)'
  <2>1. \A q \in m.todo \cup m.saved : m.had[q] = post'[q]
    BY <1>3, <1>4, <1>5 DEF Current
  <2>2. Author[m.at.q] \in Here' /\ m.at.score = score'[Author[m.at.q]] /\ m.at.total = total'
    BY <1>2, <1>3, <1>4, <1>6 DEF Current
  <2> QED
    BY <1>2, <2>1, <2>2 DEF Current, Days, Kinds
<1> QED
  BY <1>1, <1>2, <1>3, <1>4, <1>16, <1>18, <1>19, CountStep DEF PointsTyped

\* One of the writes of the pair comes through.
LEMMA WrittenFor ==
  ASSUME LoneInv, HeldInv, NEW j \in SocialJobs, NEW what \in {"score", "total"}, NEW l, NEW m,
         l = social[j], m = social'[j], l.pc = "update", what \in l.at.left, Written(j, what)
  PROVE  /\ Keeps(j, Others) /\ KeepsAt(j, {"q"}) /\ m.pc \in {"update", "list"}
         /\ m.todo = l.todo /\ m.saved = l.saved /\ m.had = l.had /\ m.got = l.got
         /\ m.at.q = l.at.q /\ m.at.score = l.at.score /\ m.at.total = l.at.total
         /\ m.pc = "list" => l.at.left = {what}
         /\ m.pc = "update" => m.at.left = l.at.left \ {what}
         /\ Given(l, what) = 0 /\ Given(m, what) = New(l, l.at.q)
         /\ \A w \in {"score", "total"} \ {what} : Given(m, w) = Given(l, w)
         /\ OnDay(m) = New(l, l.at.q) /\ OnDay(l) = New(l, l.at.q)
<1>1. /\ Keeps(j, Others) /\ KeepsAt(j, {"q"})
      /\ m.at.q = l.at.q /\ m.at.score = l.at.score /\ m.at.total = l.at.total
  BY WrittenIs DEF KeepsAt
<1>2. IF l.at.left = {what} THEN m.pc = "list" ELSE m.pc = "update" /\ m.at.left = l.at.left \ {what}
  BY WrittenIs DEF Becomes
<1>3. m.todo = l.todo /\ m.saved = l.saved /\ m.had = l.had /\ m.got = l.got
  BY <1>1, KeptFields
<1>4. New(m, m.at.q) = New(l, l.at.q)
  BY <1>1, <1>3 DEF New
<1>5. Given(l, what) = 0 /\ OnDay(l) = New(l, l.at.q)
  BY DEF Given, OnDay
<1>6. Given(m, what) = New(l, l.at.q) /\ OnDay(m) = New(l, l.at.q)
  BY <1>2, <1>4 DEF Given, OnDay
<1>7. ASSUME NEW w \in {"score", "total"} \ {what} PROVE Given(m, w) = Given(l, w)
  BY <1>2, <1>4 DEF Given
<1> QED
  BY <1>1, <1>2, <1>3, <1>5, <1>6, <1>7

LEMMA CountUpdateScore ==
  ASSUME LoneInv, HeldInv, CountInv, NEW j \in SocialJobs, Social(j), UpdateScore(j), ~disturbed, ~disturbed'
  PROVE  CountInv'
<1>1. PICK l, m, r, n : l = social[j] /\ m = social'[j] /\ r = Author[l.at.q] /\ n = New(l, l.at.q)
  OBVIOUS
<1>2. l.pc = "update" /\ "score" \in l.at.left /\ Written(j, "score")
  BY <1>1 DEF UpdateScore, SocialAt
<1>3. Balanced(l) /\ Current(l) /\ Held(l) /\ PointsTyped
  BY <1>1, <1>2, CountAt
<1>4. UNCHANGED <<total, daily, tracked, post>>
  BY SocialTracks DEF UpdateScore
<1>5. /\ Keeps(j, Others) /\ KeepsAt(j, {"q"}) /\ m.pc \in {"update", "list"}
      /\ m.todo = l.todo /\ m.saved = l.saved /\ m.had = l.had /\ m.got = l.got
      /\ m.at.q = l.at.q /\ m.at.score = l.at.score /\ m.at.total = l.at.total
      /\ m.pc = "list" => l.at.left = {"score"}
      /\ m.pc = "update" => m.at.left = l.at.left \ {"score"}
      /\ Given(l, "score") = 0 /\ Given(m, "score") = n
      /\ Given(m, "total") = Given(l, "total") /\ OnDay(m) = n /\ OnDay(l) = n
  BY <1>1, <1>2, WrittenFor
<1>6. l.pc \in Working /\ m.pc \in Working
  BY <1>2, <1>5 DEF Working
<1>7. /\ l.at.q \in Posts /\ n \in Int /\ total \in Int /\ Given(l, "total") \in Int
      /\ n = NewOf(l, "likes") + NewOf(l, "shares")
  BY <1>1, <1>3, <1>6, GivenType DEF PointsTyped
<1>8. r \in Here /\ l.at.score = score[r]
  BY <1>1, <1>2, <1>3, <1>6 DEF Current
<1>9. r \in Participants /\ score[r] \in Int
  BY <1>3, <1>8, PointsHere
<1>10. score' = [score EXCEPT ![r] = l.at.score + n]
  <2>1. score' = [score EXCEPT ![Whose(j)] = l.at.score + AdjustedScore(j)]
    BY <1>1 DEF UpdateScore
  <2>2. Whose(j) = r /\ AdjustedScore(j) = n
    BY <1>1, <1>7 DEF Whose, AdjustedScore, Adjusted, NewOf
  <2> QED
    BY <2>1, <2>2
<1>11. /\ score' \in [Participants -> Int \cup {Gone}]
       /\ score'[r] = score[r] + n /\ score'[r] \in Int /\ \A p \in Participants \ {r} : score'[p] = score[p]
  BY <1>3, <1>7, <1>8, <1>9, <1>10 DEF PointsTyped
<1>12. Here' = Here
  <2>1. score'[r] # Gone /\ score[r] # Gone
    BY <1>9, <1>11, TableAssumption
  <2> QED
    BY <1>11, <2>1 DEF Here, Present, Tables
<1>13. Balanced(m)'
  <2>1. Adds(r, n, 0, 0)
    BY <1>3, <1>4, <1>7, <1>11, <1>12, PointsHere DEF Adds
  <2>2. Gives(l, m, n, 0, 0)
    BY <1>5, <1>7 DEF Gives
  <2> QED
    BY <1>1, <1>4, <1>5, <1>6, <1>7, <2>1, <2>2, CountWorks
<1>14. Current(m)'
  <2>1. \A q \in m.todo \cup m.saved : m.had[q] = post'[q]
    BY <1>3, <1>4, <1>5 DEF Current
  <2>2. Author[m.at.q] \in Here'
    BY <1>1, <1>5, <1>8, <1>12
  <2>3. m.pc = "update" /\ "total" \in m.at.left => m.at.total = total'
    BY <1>2, <1>3, <1>4, <1>5, <1>6 DEF Current
  <2>4. m.pc = "update" => "score" \notin m.at.left
    BY <1>5
  <2> QED
    BY <1>5, <2>1, <2>2, <2>3, <2>4 DEF Current, Days
<1> QED
  BY <1>1, <1>3, <1>4, <1>5, <1>11, <1>13, <1>14, CountStep DEF PointsTyped

LEMMA CountUpdateTotal ==
  ASSUME LoneInv, HeldInv, CountInv, NEW j \in SocialJobs, Social(j), UpdateTotal(j), ~disturbed, ~disturbed'
  PROVE  CountInv'
<1>1. PICK l, m, r, n : l = social[j] /\ m = social'[j] /\ r = Author[l.at.q] /\ n = New(l, l.at.q)
  OBVIOUS
<1>2. l.pc = "update" /\ "total" \in l.at.left /\ Written(j, "total")
  BY <1>1 DEF UpdateTotal, SocialAt
<1>3. Balanced(l) /\ Current(l) /\ Held(l) /\ PointsTyped
  BY <1>1, <1>2, CountAt
<1>4. UNCHANGED <<score, daily, tracked, post>> /\ Here' = Here
  BY SocialTracks DEF UpdateTotal, Here, Present, Tables
<1>5. /\ Keeps(j, Others) /\ KeepsAt(j, {"q"}) /\ m.pc \in {"update", "list"}
      /\ m.todo = l.todo /\ m.saved = l.saved /\ m.had = l.had /\ m.got = l.got
      /\ m.at.q = l.at.q /\ m.at.score = l.at.score /\ m.at.total = l.at.total
      /\ m.pc = "list" => l.at.left = {"total"}
      /\ m.pc = "update" => m.at.left = l.at.left \ {"total"}
      /\ Given(l, "total") = 0 /\ Given(m, "total") = n
      /\ Given(m, "score") = Given(l, "score") /\ OnDay(m) = n /\ OnDay(l) = n
  BY <1>1, <1>2, WrittenFor
<1>6. l.pc \in Working /\ m.pc \in Working
  BY <1>2, <1>5 DEF Working
<1>7. /\ l.at.q \in Posts /\ n \in Int /\ total \in Int /\ Given(l, "score") \in Int
      /\ n = NewOf(l, "likes") + NewOf(l, "shares")
  BY <1>1, <1>3, <1>6, GivenType DEF PointsTyped
<1>8. total' = total + n
  <2>1. total' = social[j].at.total + AdjustedScore(j)
    BY DEF UpdateTotal
  <2>2. AdjustedScore(j) = n
    BY <1>1, <1>7 DEF AdjustedScore, Adjusted, NewOf
  <2>3. l.at.total = total
    BY <1>2, <1>3, <1>6 DEF Current
  <2> QED
    BY <1>1, <2>1, <2>2, <2>3
<1>9. Balanced(m)'
  <2>1. Adds(r, 0, 0, n)
    BY <1>3, <1>4, <1>8, PointsHere DEF Adds
  <2>2. Gives(l, m, 0, 0, n)
    BY <1>5, <1>7 DEF Gives
  <2> QED
    BY <1>1, <1>4, <1>5, <1>6, <1>7, <2>1, <2>2, CountWorks
<1>10. Current(m)'
  <2>1. \A q \in m.todo \cup m.saved : m.had[q] = post'[q]
    BY <1>3, <1>4, <1>5 DEF Current
  <2>2. Author[m.at.q] \in Here'
    BY <1>3, <1>4, <1>5, <1>6 DEF Current
  <2>3. m.pc = "update" /\ "score" \in m.at.left => m.at.score = score'[Author[m.at.q]]
    BY <1>2, <1>3, <1>4, <1>5, <1>6 DEF Current
  <2>4. m.pc = "update" => "total" \notin m.at.left
    BY <1>5
  <2> QED
    BY <1>5, <2>1, <2>2, <2>3, <2>4 DEF Current, Days
<1> QED
  BY <1>1, <1>3, <1>4, <1>5, <1>7, <1>8, <1>9, <1>10, CountStep DEF PointsTyped

LEMMA CountLists ==
  ASSUME LoneInv, HeldInv, CountInv, NEW j \in SocialJobs, Social(j), ListPost(j), ~disturbed, ~disturbed'
  PROVE  CountInv'
<1>1. PICK l, m, q, n : l = social[j] /\ m = social'[j] /\ q = l.at.q /\ n = New(l, l.at.q)
  OBVIOUS
<1>2. /\ l.pc = "list" /\ m.pc = "post" /\ m.todo = l.todo \ {q} /\ m.saved = l.saved \cup {q}
      /\ m.had = l.had /\ m.got = l.got
  BY <1>1, ListPostIs DEF Becomes, Keeps
<1>3. Balanced(l) /\ Current(l) /\ Held(l) /\ PointsTyped /\ post \in [Posts -> Counts]
  BY <1>1, <1>2, CountAt
<1>4. UNCHANGED <<score, total, daily, tracked, post>> /\ Here' = Here
  BY SocialTracks DEF ListPost, tables, Here, Present, Tables
<1>5. q \in Posts /\ q \in l.todo /\ q \notin l.saved /\ l.got \in [Posts -> Counts] /\ n \in Int
  BY <1>1, <1>2, <1>3, GivenType DEF Held, Working
<1>6. PICK D, E : D = Dues(l) /\ E = Dues(m)'
  OBVIOUS
<1>7. D \in [Participants -> Int] /\ \A p \in Participants : D[p] \in Int
  BY <1>3, <1>5, <1>6, DuesType DEF PointsTyped
<1>8. n = PointsOf(l.got[q]) - PointsOf(post[q])
  BY <1>1, <1>3, <1>5 DEF New, Current
<1>9. \A p \in Participants : E[p] = D[p] + (IF Author[q] = p THEN n ELSE 0)
  <2>1. tracked \in [Participants -> Int] /\ UNCHANGED <<post, tracked>>
    BY <1>3, <1>4 DEF PointsTyped
  <2>2. \A p \in Participants :
           Dues(m)'[p] = Dues(l)[p] + (IF Author[q] = p THEN PointsOf(l.got[q]) - PointsOf(post[q]) ELSE 0)
    BY <1>2, <1>3, <1>5, <2>1, DuesListed
  <2> QED
    BY <1>6, <1>8, <2>2
<1>10. PICK a : a = Author[q] /\ a \in Participants
  BY <1>5, TableAssumption
<1>11. SumOf(Participants, E) = SumOf(Participants, D) + n
  <2>1. \A p \in Participants : E[p] = D[p] + (IF a = p THEN n ELSE 0)
    BY <1>9, <1>10
  <2>2. n \in Int /\ a \in Participants /\ \A p \in Participants : D[p] \in Int
    BY <1>5, <1>7, <1>10
  <2> QED
    BY <2>1, <2>2, SumOfDues
<1>12. Even(m, E)'
  <2>1. Even(l, D)
    BY <1>3, <1>6 DEF Balanced
  <2>2. Given(l, "score") = n /\ Given(l, "total") = n /\ OnDay(l) = n
    BY <1>1, <1>2 DEF Given, OnDay
  <2>3. Given(m, "score") = 0 /\ Given(m, "total") = 0 /\ OnDay(m) = 0
    BY <1>2, NothingGiven DEF Before
  <2>4. Here \subseteq Participants /\ \A p : AtHand(m, p, 0) = 0 /\ AtHand(l, p, n) = IF a = p THEN n ELSE 0
    BY <1>1, <1>2, <1>10 DEF AtHand, Working, Here, Present
  <2>5. ASSUME NEW p \in Here PROVE score'[p] = E[p] + 0 /\ Total(daily'[p]) = E[p] + 0
    <3>1. score[p] = D[p] + (IF a = p THEN n ELSE 0) /\ Total(daily[p]) = D[p] + (IF a = p THEN n ELSE 0)
      BY <2>1, <2>2, <2>4 DEF Even
    <3>2. E[p] = D[p] + (IF a = p THEN n ELSE 0) /\ D[p] \in Int
      BY <1>7, <1>9, <1>10, <2>4
    <3>3. E[p] \in Int
      BY <1>5, <3>2
    <3> QED
      BY <1>4, <3>1, <3>2, <3>3
  <2>6. total' = SumOf(Participants, E) + 0
    <3>1. total = SumOf(Participants, D) + n /\ total \in Int
      BY <1>3, <2>1, <2>2 DEF Even, PointsTyped
    <3> QED
      BY <1>4, <1>11, <3>1
  <2> QED
    BY <1>4, <2>3, <2>4, <2>5, <2>6 DEF Even
<1>13. Balanced(m)'
  BY <1>6, <1>12 DEF Balanced
<1>14. Current(m)'
  <2>1. m.todo \cup m.saved = l.todo \cup l.saved
    BY <1>2, <1>5
  <2> QED
    BY <1>2, <1>3, <1>4, <2>1 DEF Current, Working
<1> QED
  BY <1>1, <1>2, <1>3, <1>4, <1>13, <1>14, CountStep DEF PointsTyped

\* At rest the points of each participant are the score and the total of the days.
LEMMA AtRestEven ==
  ASSUME NEW D, D \in [Participants -> Int]
  PROVE  /\ Even(Idle, D) => /\ \A p \in Here : score[p] = D[p] /\ Total(daily[p]) = D[p]
                             /\ total = SumOf(Participants, D)
         /\ /\ \A p \in Here' : score'[p] = D[p] /\ Total(daily'[p]) = D[p]
            /\ total' = SumOf(Participants, D)
            => Even(Idle, D)'
<1>1. /\ Given(Idle, "score") = 0 /\ Given(Idle, "total") = 0 /\ OnDay(Idle) = 0
      /\ \A p : AtHand(Idle, p, 0) = 0
  BY IdleShaped, NothingGiven DEF Before
<1>2. SumOf(Participants, D) \in Int
  BY TableAssumption, SumType, SumsAreSums
<1>3. Here \subseteq Participants /\ Here' \subseteq Participants
  BY DEF Here, Present
<1>4. \A p \in Participants : D[p] \in Int /\ D[p] + 0 = D[p]
  OBVIOUS
<1> QED
  BY <1>1, <1>2, <1>3, <1>4 DEF Even

LEMMA DuesAtRest ==
  ASSUME CountInv, HeldInv, ~disturbed
  PROVE  Dues(Idle) \in [Participants -> Int] /\ PointsTyped /\ post \in [Posts -> Counts]
         /\ tracked \in [Participants -> Int]
<1>1. Idle.got \in [Posts -> Counts]
  BY IdleHeld DEF Held
<1>2. PointsTyped /\ post \in [Posts -> Counts] /\ tracked \in [Participants -> Int]
  BY DEF CountInv, HeldInv, PointsTyped
<1> QED
  BY <1>1, <1>2, DuesType

LEMMA CountTracks ==
  ASSUME CountInv, HeldInv, ~disturbed, ~behind, AtRest, AtRest', NEW a \in Participants, Track(a)
  PROVE  CountInv'
<1>1. Seen = Tables /\ a \in Here
  BY DEF Seen, Track, Here
<1>2. PICK D, E : D = Dues(Idle) /\ E = Dues(Idle)'
  OBVIOUS
<1>3. D \in [Participants -> Int] /\ PointsTyped /\ post \in [Posts -> Counts] /\ tracked \in [Participants -> Int]
  BY <1>2, DuesAtRest
<1>4. Balanced(Idle)
  BY DEF CountInv, SocialRests, AtRest
<1>5. \A p \in Here : score[p] = D[p] /\ Total(daily[p]) = D[p]
  BY <1>2, <1>3, <1>4, AtRestEven DEF Balanced
<1>6. total = SumOf(Participants, D)
  BY <1>2, <1>3, <1>4, AtRestEven DEF Balanced
<1>7. /\ score' = [score EXCEPT ![a] = score[a] + 1] /\ total' = total + 1 /\ post' = post
      /\ tracked' = [tracked EXCEPT ![a] = tracked[a] + 1]
  BY <1>1 DEF Track, Tables
<1>8. score[a] \in Int /\ daily[a] \in Seq(Int)
  BY <1>1, <1>3, PointsHere
<1>9. score' \in [Participants -> Int \cup {Gone}] /\ score'[a] = score[a] + 1 /\ \A p \in Participants \ {a} : score'[p] = score[p]
  BY <1>3, <1>7, <1>8 DEF PointsTyped
<1>10. Here' = Here
  <2>1. score'[a] # Gone /\ score[a] # Gone
    BY <1>8, <1>9, TableAssumption
  <2> QED
    BY <1>9, <2>1 DEF Here, Present, Tables
<1>11. PICK days : days \in Seq(Int) /\ Total(days) = Total(daily[a]) + 1 /\ daily' = [daily EXCEPT ![a] = days]
  <2>1. CASE daily' = [daily EXCEPT ![a] = Append(daily[a], 1)]
    <3>1. PICK d : d = Append(daily[a], 1)
      OBVIOUS
    <3>2. d \in Seq(Int) /\ Total(d) = Total(daily[a]) + 1
      BY <1>8, <3>1, RowAdded, AppendProperties
    <3> QED
      BY <2>1, <3>1, <3>2
  <2>2. ASSUME NEW i \in DOMAIN daily[a], daily' = [daily EXCEPT ![a][i] = daily[a][i] + 1]
        PROVE  \E d : d \in Seq(Int) /\ Total(d) = Total(daily[a]) + 1 /\ daily' = [daily EXCEPT ![a] = d]
    <3>1. PICK was, n, d : was = daily[a] /\ n = was[i] + 1 /\ d = [was EXCEPT ![i] = n]
      OBVIOUS
    <3>2. was \in Seq(Int) /\ i \in DOMAIN was /\ was[i] \in Int /\ n \in Int
      BY <1>8, <3>1
    <3>3. d \in Seq(Int) /\ Total(d) = Total(was) + (n - was[i])
      BY <3>1, <3>2, RowWritten
    <3>4. daily' = [daily EXCEPT ![a] = d]
      BY <2>2, <3>1
    <3>5. n - was[i] = 1
      BY <3>1, <3>2
    <3> QED
      BY <3>1, <3>3, <3>4, <3>5
  <2>3. \/ daily' = [daily EXCEPT ![a] = Append(daily[a], 1)]
        \/ \E i \in DOMAIN daily[a] : daily' = [daily EXCEPT ![a][i] = daily[a][i] + 1]
    <3>1. \/ daily' = [daily EXCEPT ![a] = Append(daily[a], 1)]
          \/ \E i \in DOMAIN Seen.daily[a] : daily' = [daily EXCEPT ![a][i] = Seen.daily[a][i] + 1]
      BY Zenon DEF Track
    <3>2. Seen.daily = daily
      BY <1>1 DEF Tables
    <3> QED
      BY <3>1, <3>2, Zenon
  <2> QED
    BY <2>1, <2>2, <2>3, Zenon
<1>12. daily' \in [Participants -> Seq(Int)] /\ daily'[a] = days /\ \A p \in Participants \ {a} : daily'[p] = daily[p]
  BY <1>3, <1>11 DEF PointsTyped
<1>13. \A p \in Participants : E[p] = D[p] + (IF a = p THEN 1 ELSE 0)
  <2>1. \A p \in Participants : Dues(Idle)'[p] = Dues(Idle)[p] + (IF a = p THEN 1 ELSE 0)
    BY <1>3, <1>7, DuesTracked
  <2> QED
    BY <1>2, <2>1
<1>14. tracked' \in [Participants -> Int] /\ total' \in Int
  BY <1>3, <1>7 DEF PointsTyped
<1>15. E \in [Participants -> Int]
  <2>2. E = [p \in Participants |-> E[p]]
    BY <1>2 DEF Dues
  <2>3. \A p \in Participants : E[p] \in Int
    BY <1>3, <1>13
  <2> QED
    BY <2>2, <2>3
<1>16. SumOf(Participants, E) = SumOf(Participants, D) + 1
  <2>1. \A p \in Participants : D[p] \in Int
    BY <1>3
  <2> QED
    BY <1>13, <2>1, SumOfDues
<1>17. Even(Idle, E)'
  <2>1. total' = SumOf(Participants, E)
    BY <1>6, <1>7, <1>16
  <2>2. ASSUME NEW p \in Here' PROVE score'[p] = E[p] /\ Total(daily'[p]) = E[p]
    <3>1. p \in Here /\ p \in Participants /\ D[p] \in Int /\ score[p] = D[p] /\ Total(daily[p]) = D[p]
      BY <1>3, <1>5, <1>10, PointsHere
    <3>2. CASE a = p
      BY <1>9, <1>11, <1>12, <1>13, <3>1, <3>2
    <3>3. CASE a # p
      BY <1>9, <1>12, <1>13, <3>1, <3>3
    <3> QED
      BY <3>2, <3>3
  <2> QED
    BY <1>15, <2>1, <2>2, AtRestEven
<1>18. Balanced(Idle)'
  BY <1>2, <1>17 DEF Balanced
<1>19. \A j \in SocialJobs : SocialAt(j, "rest")'
  BY DEF AtRest
<1> QED
  BY <1>9, <1>12, <1>14, <1>18, <1>19 DEF CountInv, PointsTyped

LEMMA CountRequest ==
  ASSUME CountInv, HeldInv, Request, ~disturbed'
  PROVE  CountInv'
<1>1. ~disturbed /\ AtRest /\ ~behind /\ UNCHANGED social
  BY OthersMove
<1>2. SocialRests /\ \A j \in SocialJobs : SocialAt(j, "rest")'
  BY <1>1 DEF AtRest, SocialRests, SocialAt
<1>3. PICK D : D = Dues(Idle)
  OBVIOUS
<1>4. D \in [Participants -> Int] /\ PointsTyped /\ Balanced(Idle)
  BY <1>1, <1>2, <1>3, DuesAtRest DEF CountInv
<1>5. /\ \A p \in Here : score[p] = D[p] /\ Total(daily[p]) = D[p]
      /\ total = SumOf(Participants, D)
  BY <1>3, <1>4, AtRestEven DEF Balanced
<1>6. ASSUME UNCHANGED <<total, daily, post, tracked>>, score' \in [Participants -> Int \cup {Gone}],
             \A p \in Here' : p \in Here /\ score'[p] = score[p]
      PROVE  CountInv'
  <2>1. Dues(Idle)' = D
    BY <1>3, <1>6, DuesKept
  <2>2. \A p \in Here' : score'[p] = D[p] /\ Total(daily'[p]) = D[p]
    BY <1>5, <1>6
  <2>3. total' = SumOf(Participants, D)
    BY <1>5, <1>6
  <2>4. Even(Idle, D)'
    BY <1>4, <2>2, <2>3, AtRestEven
  <2>5. Balanced(Idle)'
    BY <2>1, <2>4 DEF Balanced
  <2> QED
    BY <1>2, <1>4, <1>6, <2>5 DEF CountInv, PointsTyped
<1>7. ASSUME NEW a \in Participants, RemoveParticipation(a) PROVE CountInv'
  <2>1. UNCHANGED <<total, daily, post, tracked>> /\ score' = [score EXCEPT ![a] = Gone]
    BY <1>7 DEF RemoveParticipation
  <2>2. score \in [Participants -> Int \cup {Gone}]
    BY <1>4 DEF PointsTyped
  <2>3. score' \in [Participants -> Int \cup {Gone}] /\ \A p \in Participants : p # a => score'[p] = score[p]
    BY <2>1, <2>2
  <2>4. \A p \in Here' : p \in Here /\ score'[p] = score[p]
    BY <2>1, <2>2, <2>3 DEF Here, Present, Tables
  <2> QED
    BY <1>6, <2>1, <2>3, <2>4
<1>8. CASE UpdateUser
  <2>1. UNCHANGED <<score, total, daily, post, tracked>>
    BY <1>8 DEF UpdateUser, tables
  <2>2. Here' = Here /\ score' \in [Participants -> Int \cup {Gone}]
    BY <1>4, <2>1 DEF Here, Present, Tables, PointsTyped
  <2> QED
    BY <1>6, <2>1, <2>2
<1>9. ASSUME NEW a \in Participants, Track(a) PROVE CountInv'
  <2>1. UNCHANGED <<judge, tally>>
    BY <1>9 DEF Track, aggregateVars
  <2>2. AtRest'
    BY <1>1, <2>1 DEF AtRest, SocialAt
  <2> QED
    BY <1>1, <1>9, <2>2, CountTracks
<1> QED
  BY <1>6, <1>7, <1>8, <1>9 DEF Request

\* Steps of which the points take no notice.
LEMMA CountStays ==
  ASSUME CountInv, UNCHANGED <<social, score, total, daily, post, tracked>>, ~disturbed' => ~disturbed
  PROVE  CountInv'
<1>1. Here' = Here
  BY DEF Here, Present, Tables
<1>2. \A l : Dues(l)' = Dues(l)
  BY DEF Dues, Weights
<1>3. ASSUME NEW l, Balanced(l) PROVE Balanced(l)'
  <2>1. PICK D : D = Dues(l)
    OBVIOUS
  <2>2. Dues(l)' = D /\ Even(l, D)
    BY <1>2, <1>3, <2>1 DEF Balanced
  <2>3. Even(l, D)'
    BY <1>1, <2>2 DEF Even
  <2> QED
    BY <2>2, <2>3 DEF Balanced
<1>4. ASSUME NEW l, Current(l) PROVE Current(l)'
  BY <1>1, <1>4 DEF Current
<1>5. SocialRests' => SocialRests
  BY DEF SocialRests, SocialAt
<1>6. ASSUME ~disturbed PROVE PointsTyped'
  BY <1>6 DEF CountInv, PointsTyped
<1>7. ASSUME ~disturbed, NEW j \in SocialJobs, ~SocialAt(j, "rest")'
      PROVE  Balanced(social[j])' /\ Current(social[j])'
  <2>1. PICK l : l = social[j] /\ l = social'[j]
    OBVIOUS
  <2>2. Balanced(l) /\ Current(l)
    BY <1>7, <2>1 DEF CountInv, SocialAt
  <2>3. Balanced(l)' /\ Current(l)'
    BY <1>3, <1>4, <2>2
  <2> QED
    BY <2>1, <2>3
<1>8. ASSUME ~disturbed, SocialRests PROVE Balanced(Idle)'
  <2>1. Balanced(Idle)
    BY <1>8 DEF CountInv
  <2> QED
    BY <1>3, <2>1
<1> QED
  BY <1>5, <1>6, <1>7, <1>8 DEF CountInv

LEMMA CountSocial ==
  ASSUME LoneInv, HeldInv, CountInv, NEW j \in SocialJobs, Social(j), ~disturbed'
  PROVE  CountInv'
<1>1. ~disturbed /\ (~SocialAt(j, "rest") \/ (AtRest /\ ~behind))
  BY SocialMoves DEF Moves
<1>2. ~Fails
  BY DEF Fails
<1>3. CASE StartSocial(j)
  BY <1>1, <1>3, CountStarts DEF StartSocial
<1>4. CASE ReadPosts(j)
  BY <1>1, <1>4, CountReads
<1>5. CASE SocialStep(j)
  BY <1>1, <1>5, CountGets, CountAuthor, CountTotal, CountQuality, CountFindDay, CountCreateDay, CountWriteDay,
     CountUpdateTotal, CountLists, CountSaves DEF SocialStep
<1>6. CASE UpdateScore(j)
  BY <1>1, <1>6, CountUpdateScore
<1>7. ~RejectScore(j)
  <2> SUFFICES ASSUME RejectScore(j) PROVE FALSE
    OBVIOUS
  <2>1. social[j].pc = "update" /\ score[Author[social[j].at.q]] = Gone
    BY DEF RejectScore, SocialAt, Whose
  <2>2. Current(social[j])
    BY <1>1, <2>1, CountAt
  <2>3. Author[social[j].at.q] \in Here
    BY <2>1, <2>2 DEF Current, Working
  <2> QED
    BY <2>1, <2>3 DEF Here, Present, Tables
<1> QED
  BY <1>2, <1>3, <1>4, <1>5, <1>6, <1>7 DEF Social

LEMMA CountInit == Init => CountInv
<1> SUFFICES ASSUME Init PROVE CountInv
  OBVIOUS
<1>1. /\ score = [p \in Participants |-> 0] /\ total = 0 /\ daily = [p \in Participants |-> << >>]
      /\ post = [q \in Posts |-> NoCounts] /\ tracked = [p \in Participants |-> 0]
      /\ social = [j \in SocialJobs |-> Idle]
  BY DEF Init, TablesInit, SocialInit
<1>2. PointsTyped
  <2>1. << >> \in Seq(Int)
    OBVIOUS
  <2> QED
    BY <1>1, <2>1 DEF PointsTyped
<1>3. PICK D, w : D = Dues(Idle) /\ w = Weights(Idle)
  OBVIOUS
<1>4. Idle.saved = {} /\ Idle.pc = "rest" /\ Idle.got \in [Posts -> Counts]
  BY IdleShaped, IdleHeld DEF Held
<1>5. D \in [Participants -> Int]
  <2>1. post \in [Posts -> Counts] /\ tracked \in [Participants -> Int]
    BY <1>1, Zeros
  <2> QED
    BY <1>3, <1>4, <2>1, DuesType
<1>6. PointsOf(NoCounts) = 0
  BY NoPoints
<1>7. \A q \in Posts : w[q] = 0
  BY <1>1, <1>3, <1>4, <1>6 DEF Weights
<1>8. \A p \in Participants : D[p] = 0
  <2> SUFFICES ASSUME NEW p \in Participants PROVE D[p] = 0
    OBVIOUS
  <2>1. IsFiniteSet(PostsOf(p)) /\ \A q \in PostsOf(p) : w[q] = 0
    BY <1>7, TableAssumption, FS_Subset DEF PostsOf
  <2>2. SumOf(PostsOf(p), w) = 0
    BY <2>1, SumZero, SumsAreSums
  <2>3. D[p] = tracked[p] + SumOf(PostsOf(p), w)
    BY <1>3 DEF Dues
  <2> QED
    BY <1>1, <2>2, <2>3
<1>9. SumOf(Participants, D) = 0
  BY <1>8, TableAssumption, SumZero, SumsAreSums
<1>10. Total(<< >>) = 0
  <2>1. DOMAIN << >> = {}
    OBVIOUS
  <2>2. Total(<< >>) = SumOver(<< >>, DOMAIN << >>)
    BY SumsAreSums DEF Total
  <2> QED
    BY <2>1, <2>2, SumEmpty
<1>11. Balanced(Idle)
  <2>1. /\ Given(Idle, "score") = 0 /\ Given(Idle, "total") = 0 /\ OnDay(Idle) = 0
        /\ \A p : AtHand(Idle, p, 0) = 0
    BY <1>4, NothingGiven DEF Before
  <2>2. Here \subseteq Participants
    BY DEF Here, Present
  <2>3. Even(Idle, D)
    BY <1>1, <1>8, <1>9, <1>10, <2>1, <2>2 DEF Even
  <2> QED
    BY <1>3, <2>3 DEF Balanced
<1> QED
  BY <1>1, <1>2, <1>4, <1>11 DEF CountInv, SocialAt

LEMMA CountNext == LoneInv /\ HeldInv /\ CountInv /\ [Next]_vars => CountInv'
<1> SUFFICES ASSUME LoneInv, HeldInv, CountInv, [Next]_vars, ~disturbed' PROVE CountInv'
  BY DEF CountInv
<1>1. ASSUME NEW j \in SocialJobs, Social(j) PROVE CountInv'
  BY <1>1, CountSocial
<1>2. CASE Request
  BY <1>2, CountRequest
<1>3. CASE (\E j \in QualityJobs : Quality(j)) \/ (\E j \in TallyJobs : Aggregate(j)) \/ Elsewhere \/ UNCHANGED vars
  <2>1. UNCHANGED <<social, score, total, daily, post, tracked>>
    BY <1>3, Zenon DEF Quality, OnlyQuality, StartJudge, JudgeDies, QualityStep, RateParticipants, LookUpQuality, UpsertQuality,
       Aggregate, OnlyAggregate, Elsewhere, TwitterCounts, FallsBehind, CatchesUp, vars, tables, socialVars
  <2>2. ~disturbed
    BY <1>3, QualityMoves, TallyMoves, OthersMove DEF Moves
  <2> QED
    BY <2>1, <2>2, CountStays
<1> QED
  BY <1>1, <1>2, <1>3 DEF Next

\* Where runs and requests came one at a time the score of a participant and the points of its
\* days are those tracked and those of the counts in the rows of its posts, and the total of
\* the campaign is what all of them have earned (social, updatePostMetrics and trackAction).
THEOREM QuietRunsCounted == Spec => []QuietCounted
<1>1. HeldInv /\ CountInv => QuietCounted
  <2> SUFFICES ASSUME HeldInv, CountInv, AtRest, ~disturbed
               PROVE  /\ \A p \in Present(Tables) : score[p] = Earned(p) /\ Total(daily[p]) = Earned(p)
                      /\ total = SumOf(Participants, [p \in Participants |-> Earned(p)])
    BY DEF QuietCounted, Quiet
  <2>1. PICK D, w : D = Dues(Idle) /\ w = Weights(Idle)
    OBVIOUS
  <2>2. D \in [Participants -> Int] /\ Balanced(Idle)
    BY <2>1, DuesAtRest DEF CountInv, SocialRests, AtRest
  <2>3. /\ \A p \in Here : score[p] = D[p] /\ Total(daily[p]) = D[p]
        /\ total = SumOf(Participants, D)
    BY <2>1, <2>2, AtRestEven DEF Balanced
  <2>4. w = [q \in Posts |-> PointsOf(post[q])]
    BY <2>1, IdleShaped DEF Weights
  <2>5. D = [p \in Participants |-> tracked[p] + SumOf(PostsOf(p), w)]
    BY <2>1 DEF Dues
  <2>6. \A p \in Participants : Earned(p) = tracked[p] + SumOf(PostsOf(p), w)
    BY <2>4 DEF Earned
  <2>7. D = [p \in Participants |-> Earned(p)] /\ \A p \in Participants : D[p] = Earned(p)
    BY <2>5, <2>6
  <2>8. Here \subseteq Participants
    BY DEF Here, Present
  <2> QED
    BY <2>3, <2>7, <2>8 DEF Here
<1> QED
  BY <1>1, LoneInit, LoneNext, HeldInit, HeldNext, CountInit, CountNext, PTL DEF Spec

-----------------------------------------------------------------------------
(* What a post can be worth. *)

LEMMA WorthOfAPost ==
  /\ MostPoints \in Nat
  /\ \A c \in Counts : PointsOf(c) \in Nat /\ PointsOf(c) <= MostPoints
<1>1. MaxCount \in Nat /\ Points["likes"] \in Nat /\ Points["shares"] \in Nat /\ \A k \in Kinds : Points[k] \in Int
  BY TableAssumption DEF Kinds
<1>2. IsFiniteSet(Kinds)
  <2>1. IsFiniteSet({"likes"}) /\ IsFiniteSet({"shares"})
    BY FS_Singleton
  <2>2. IsFiniteSet({"likes"} \cup {"shares"}) /\ {"likes"} \cup {"shares"} = Kinds
    BY <2>1, FS_Union DEF Kinds
  <2> QED
    BY <2>2
<1>3. SumOf(Kinds, Points) = Points["likes"] + Points["shares"]
  <2>1. SumOver(Points, {"likes"} \cup {"shares"}) = SumOver(Points, {"likes"}) + Points["shares"]
    BY <1>1, FS_Singleton, SumAdd
  <2>2. SumOver(Points, {} \cup {"likes"}) = SumOver(Points, {}) + Points["likes"]
    BY <1>1, FS_EmptySet, SumAdd
  <2>3. {"likes"} \cup {"shares"} = Kinds /\ {} \cup {"likes"} = {"likes"}
    BY DEF Kinds
  <2>4. SumOver(Points, Kinds) = SumOver(Points, {"likes"}) + Points["shares"]
    BY <2>1, <2>3, Zenon
  <2>5. SumOver(Points, {"likes"}) = SumOver(Points, {}) + Points["likes"]
    BY <2>2, <2>3, Zenon
  <2> QED
    BY <1>1, <2>4, <2>5, SumEmpty, SumsAreSums
<1>4. \A a, b, c \in Nat : a * (b + c) = a * b + a * c /\ a * b \in Nat /\ a * c \in Nat
  OBVIOUS
<1>5. /\ MostPoints = MaxCount * Points["likes"] + MaxCount * Points["shares"]
      /\ MaxCount * Points["likes"] \in Nat /\ MaxCount * Points["shares"] \in Nat
  BY <1>1, <1>3, <1>4 DEF MostPoints
<1>6. \A a, b, c \in Nat : a <= b => a * c <= b * c
  OBVIOUS
<1>7. ASSUME NEW c \in Counts PROVE PointsOf(c) \in Nat /\ PointsOf(c) <= MostPoints
  <2>1. "likes" \in Kinds /\ "shares" \in Kinds
    BY DEF Kinds
  <2>2. /\ PointsOf(c) = c["likes"] * Points["likes"] + c["shares"] * Points["shares"]
        /\ c["likes"] \in Nat /\ c["shares"] \in Nat /\ c["likes"] <= MaxCount /\ c["shares"] <= MaxCount
        /\ c["likes"] * Points["likes"] \in Nat /\ c["shares"] * Points["shares"] \in Nat
    BY <2>1, PointsAre
  <2>3. c["likes"] * Points["likes"] <= MaxCount * Points["likes"] /\ c["shares"] * Points["shares"] <= MaxCount * Points["shares"]
    BY <1>1, <1>6, <2>2
  <2> QED
    BY <1>5, <2>2, <2>3
<1> QED
  BY <1>5, <1>7

LEMMA NewBounded ==
  ASSUME NEW l, Held(l), NEW q \in Posts
  PROVE  /\ New(l, q) \in Int /\ New(l, q) \in -MostPoints..MostPoints
         /\ ExtraOf(l, q) \in Int /\ PendingOf(l, q) \in {0, 1}
         /\ Counted(l, q) => PendingOf(l, q) = 1
         /\ ExtraOf(l, q) <= MostPoints * PendingOf(l, q)
         /\ -ExtraOf(l, q) <= MostPoints * PendingOf(l, q)
<1>1. l.got[q] \in Counts /\ l.had[q] \in Counts
  BY DEF Held
<1>2. PICK g, h : g = PointsOf(l.got[q]) /\ h = PointsOf(l.had[q])
  OBVIOUS
<1>3. g \in Nat /\ h \in Nat /\ g <= MostPoints /\ h <= MostPoints /\ MostPoints \in Nat
  BY <1>1, <1>2, WorthOfAPost
<1>4. New(l, q) \in Int /\ New(l, q) \in -MostPoints..MostPoints
  BY <1>2, <1>3 DEF New
<1>5. Counted(l, q) => PendingOf(l, q) = 1
  BY DEF Counted, PendingOf, Held, Working
<1>6. PendingOf(l, q) \in {0, 1} /\ (PendingOf(l, q) = 0 => ~Counted(l, q))
  BY <1>5 DEF PendingOf
<1>7. PICK e, p : e = ExtraOf(l, q) /\ p = PendingOf(l, q)
  OBVIOUS
<1>8. e \in Int /\ e <= MostPoints * p /\ -e <= MostPoints * p
  <2>1. CASE p = 1
    BY <1>3, <1>4, <1>7, <2>1 DEF ExtraOf
  <2>2. CASE p = 0
    BY <1>3, <1>6, <1>7, <2>2 DEF ExtraOf
  <2> QED
    BY <1>6, <1>7, <2>1, <2>2
<1> QED
  BY <1>4, <1>5, <1>6, <1>7, <1>8

\* What the runs of K have given and hold.
LEMMA ExtraBounded ==
  ASSUME HeldInv, NEW K \in SUBSET SocialJobs, NEW q \in Posts
  PROVE  /\ Extra(K, q) \in Int /\ Pending(K, q) \in Int /\ Pending(K, q) >= 0
         /\ Extra(K, q) \in -(MostPoints * Pending(K, q))..(MostPoints * Pending(K, q))
<1>1. IsFiniteSet(K) /\ K \subseteq SocialJobs
  BY SocialAssumption, FS_Subset
<1>2. PICK e, p, n : /\ e = [j \in SocialJobs |-> ExtraOf(social[j], q)] /\ p = [j \in SocialJobs |-> PendingOf(social[j], q)]
                     /\ n = [j \in SocialJobs |-> -ExtraOf(social[j], q)]
  OBVIOUS
<1>3. \A j \in K : /\ e[j] \in Int /\ p[j] \in Int /\ n[j] \in Int /\ p[j] >= 0 /\ n[j] = -e[j]
                   /\ 1 * e[j] <= MostPoints * p[j] /\ 1 * n[j] <= MostPoints * p[j]
  <2> SUFFICES ASSUME NEW j \in K
               PROVE  /\ e[j] \in Int /\ p[j] \in Int /\ n[j] \in Int /\ p[j] >= 0 /\ n[j] = -e[j]
                      /\ 1 * e[j] <= MostPoints * p[j] /\ 1 * n[j] <= MostPoints * p[j]
    OBVIOUS
  <2>1. Held(social[j]) /\ j \in SocialJobs
    BY <1>1 DEF HeldInv
  <2>2. PICK x, y : x = ExtraOf(social[j], q) /\ y = PendingOf(social[j], q)
    OBVIOUS
  <2>3. x \in Int /\ y \in {0, 1} /\ x <= MostPoints * y /\ -x <= MostPoints * y
    BY <2>1, <2>2, NewBounded
  <2>4. e[j] = x /\ p[j] = y /\ n[j] = -x
    BY <1>2, <2>1, <2>2
  <2> QED
    BY <2>3, <2>4
<1>4. MostPoints \in Int /\ 1 \in Int
  BY WorthOfAPost
<1>5. 1 * SumOver(e, K) <= MostPoints * SumOver(p, K) /\ 1 * SumOver(n, K) <= MostPoints * SumOver(p, K)
  BY <1>1, <1>3, <1>4, SumScaled
<1>6. SumOver(e, K) \in Int /\ SumOver(p, K) \in Int /\ SumOver(n, K) \in Int
  BY <1>1, <1>3, SumType
<1>7. SumOver(p, K) \in Nat
  BY <1>1, <1>3, SumNat
<1>8. SumOver(n, K) = -SumOver(e, K)
  <2>2. \A j \in K : (-1) * e[j] <= 1 * n[j] /\ 1 * n[j] <= (-1) * e[j]
    BY <1>3
  <2>3. (-1) * SumOver(e, K) <= 1 * SumOver(n, K)
    BY <1>1, <1>3, <2>2, SumScaled
  <2>4. 1 * SumOver(n, K) <= (-1) * SumOver(e, K)
    BY <1>1, <1>3, <2>2, SumScaled
  <2> QED
    BY <1>6, <2>3, <2>4
<1>9. Extra(K, q) = SumOver(e, K) /\ Pending(K, q) = SumOver(p, K)
  BY <1>2, SumsAreSums DEF Extra, Pending
<1>10. PICK x, y, z : x = SumOver(e, K) /\ y = SumOver(p, K) /\ z = MostPoints * y
  OBVIOUS
<1>11. x \in Int /\ y \in Nat /\ z \in Int /\ x <= z /\ -x <= z
  BY <1>4, <1>5, <1>6, <1>7, <1>8, <1>10
<1> QED
  BY <1>9, <1>10, <1>11

-----------------------------------------------------------------------------
(* How far off the credit of a post is. *)

LEMMA HoldsIs ==
  ASSUME NEW l, Held(l), NEW q
  PROVE  /\ PendingOf(l, q) = IF Counted(l, q) \/ ToCount(l, q) THEN 1 ELSE 0
         /\ l.pc \in {"rest", "page"} => ~Counted(l, q) /\ ~ToCount(l, q) /\ ExtraOf(l, q) = 0 /\ PendingOf(l, q) = 0
<1>1. Counted(l, q) => q \in l.todo \cup l.saved
  BY DEF Counted, Held, Working
<1>2. q \in l.todo \cup l.saved <=> Counted(l, q) \/ ToCount(l, q)
  BY <1>1 DEF Counted, ToCount
<1>3. l.pc \in {"rest", "page"} => l.todo = {} /\ l.saved = {}
  BY DEF Held
<1> QED
  BY <1>1, <1>2, <1>3 DEF PendingOf, ExtraOf

\* With more slack the credit may move.
LEMMA NearStill ==
  ASSUME NEW x \in Int, NEW y \in Int, NEW c \in Counts, NEW k \in Counts, NEW s \in Int, NEW t \in Int, NEW n \in Nat,
         t >= s + n, (y - PointsOf(k)) - (x - PointsOf(c)) \in -(MostPoints * n)..(MostPoints * n), Near(x, c, s)
  PROVE  Near(y, k, t)
<1>1. PICK a, b, M : a = PointsOf(c) /\ b = PointsOf(k) /\ M = MostPoints
  OBVIOUS
<1>2. a \in Nat /\ b \in Nat /\ M \in Nat
  BY <1>1, WorthOfAPost
<1>3. \A u, v \in Int : M * (u + v) = M * u + M * v /\ M * u \in Int /\ M * v \in Int
  BY <1>2
<1>4. \A u, v \in Int : u <= v => M * u <= M * v
  BY <1>2
<1>5. M * (s + n) = M * s + M * n /\ M * s \in Int /\ M * n \in Int /\ M * t \in Int /\ M * (s + n) <= M * t
  <2>1. n \in Int /\ s + n \in Int /\ s + n <= t
    OBVIOUS
  <2>2. M * (s + n) <= M * t
    BY <1>4, <2>1
  <2>3. M * (s + n) = M * s + M * n /\ M * s \in Int /\ M * n \in Int
    BY <1>3, <2>1
  <2>4. M * t \in Int
    BY <1>3
  <2> QED
    BY <2>2, <2>3, <2>4
<1>6. PICK ms, mn, mt : ms = M * s /\ mn = M * n /\ mt = M * t
  OBVIOUS
<1>7. x - a \in -ms..ms /\ (y - b) - (x - a) \in -mn..mn /\ ms \in Int /\ mn \in Int /\ mt \in Int /\ ms + mn <= mt
  BY <1>1, <1>5, <1>6 DEF Near
<1>8. y - b \in -mt..mt
  BY <1>2, <1>7
<1> QED
  BY <1>1, <1>6, <1>8 DEF Near

Shifted(j, l, m, K, q) ==
    /\ Extra(K, q) \in Int /\ Pending(K, q) \in Int
    /\ Extra(K, q)' = Extra(K, q) + (IF j \in K THEN ExtraOf(m, q) - ExtraOf(l, q) ELSE 0)
    /\ Pending(K, q)' = Pending(K, q) + (IF j \in K THEN PendingOf(m, q) - PendingOf(l, q) ELSE 0)
    /\ ExtraOf(l, q) \in Int /\ ExtraOf(m, q) \in Int /\ PendingOf(l, q) \in {0, 1} /\ PendingOf(m, q) \in {0, 1}

\* A run of K that changes what it has given and holds.
LEMMA SumsMove ==
  ASSUME HeldInv, NEW j \in SocialJobs, \A i \in SocialJobs \ {j} : social'[i] = social[i],
         NEW l, NEW m, l = social[j], m = social'[j], Held(m), NEW K \in SUBSET SocialJobs, NEW q \in Posts
  PROVE  Shifted(j, l, m, K, q)
<1>1. IsFiniteSet(K) /\ K \subseteq SocialJobs
  BY SocialAssumption, FS_Subset
<1>2. PICK e, p, f, r : /\ e = [i \in SocialJobs |-> ExtraOf(social[i], q)] /\ p = [i \in SocialJobs |-> PendingOf(social[i], q)]
                        /\ f = [i \in SocialJobs |-> ExtraOf(social'[i], q)] /\ r = [i \in SocialJobs |-> PendingOf(social'[i], q)]
  OBVIOUS
<1>3. \A i \in SocialJobs : Held(social[i]) /\ Held(social'[i])
  BY DEF HeldInv
<1>4. \A i \in SocialJobs : /\ e[i] \in Int /\ p[i] \in {0, 1} /\ f[i] \in Int /\ r[i] \in {0, 1}
                            /\ e[i] = ExtraOf(social[i], q) /\ f[i] = ExtraOf(social'[i], q)
                            /\ p[i] = PendingOf(social[i], q) /\ r[i] = PendingOf(social'[i], q)
  BY <1>2, <1>3, NewBounded
<1>5. \A i \in K : e[i] \in Int /\ p[i] \in Int /\ f[i] \in Int /\ r[i] \in Int
  BY <1>1, <1>4
<1>6. \A i \in SocialJobs \ {j} : f[i] = e[i] /\ r[i] = p[i]
  BY <1>4
<1>7. SumOver(e, K) \in Int /\ SumOver(p, K) \in Int
  BY <1>1, <1>5, SumType
<1>8. /\ Extra(K, q) = SumOver(e, K) /\ Pending(K, q) = SumOver(p, K)
      /\ Extra(K, q)' = SumOver(f, K) /\ Pending(K, q)' = SumOver(r, K)
  BY <1>2, SumsAreSums DEF Extra, Pending
<1>9. CASE j \in K
  <2>1. \A i \in K \ {j} : f[i] = e[i] /\ r[i] = p[i]
    BY <1>1, <1>6
  <2>2. SumOver(f, K) = SumOver(e, K) + f[j] - e[j] /\ SumOver(r, K) = SumOver(p, K) + r[j] - p[j]
    BY <1>1, <1>5, <1>9, <2>1, SumChange
  <2>3. f[j] = ExtraOf(m, q) /\ e[j] = ExtraOf(l, q) /\ r[j] = PendingOf(m, q) /\ p[j] = PendingOf(l, q)
    BY <1>4
  <2>4. e[j] \in Int /\ f[j] \in Int /\ r[j] \in Int /\ p[j] \in Int
    BY <1>5, <1>9
  <2>5. /\ SumOver(f, K) = SumOver(e, K) + (f[j] - e[j])
        /\ SumOver(r, K) = SumOver(p, K) + (r[j] - p[j])
    BY <1>7, <2>2, <2>4
  <2> QED
    BY <1>4, <1>7, <1>8, <1>9, <2>3, <2>5 DEF Shifted
<1>10. CASE j \notin K
  <2>1. \A i \in K : f[i] = e[i] /\ r[i] = p[i]
    BY <1>1, <1>6, <1>10
  <2>2. SumOver(f, K) = SumOver(e, K) /\ SumOver(r, K) = SumOver(p, K)
    BY <1>1, <2>1, SumSame
  <2>3. \A x \in Int : x + 0 = x
    OBVIOUS
  <2> QED
    BY <1>4, <1>7, <1>8, <1>10, <2>2, <2>3 DEF Shifted
<1> QED
  BY <1>9, <1>10

\* What every step of a run leaves.
Beside(j, l, m, K, q) ==
    /\ \A i \in SocialJobs \ {j} : social'[i] = social[i]
    /\ l = social[j] /\ m = social'[j] /\ Held(m)
    /\ K \in SUBSET SocialJobs /\ ExplainedAt(K, q)
    /\ credit[q] \in Int /\ astray \in Nat /\ astray' \in Nat /\ astray' >= astray

\* The post is not touched, or the run no longer wants to count it.
LEMMA SameAt ==
  ASSUME HeldInv, NEW j \in SocialJobs, NEW l, NEW m, NEW K, NEW q \in Posts, Beside(j, l, m, K, q),
         credit'[q] = credit[q], post'[q] = post[q],
         Counted(m, q) <=> Counted(l, q), ToCount(m, q) => ToCount(l, q),
         Counted(m, q) \/ ToCount(m, q) => m.had[q] = l.had[q], Counted(m, q) => m.got[q] = l.got[q]
  PROVE  ExplainedAt(K, q)'
<1>1. K \in SUBSET SocialJobs /\ Held(m) /\ Held(l)
  BY DEF Beside, HeldInv
<1>2. PICK x, y, s, t : x = Gap(K, q) /\ y = Gap(K, q)' /\ s = Slack(K, q) /\ t = Slack(K, q)'
  OBVIOUS
<1>3. ExtraOf(m, q) = ExtraOf(l, q)
  BY DEF ExtraOf, New
<1>4. PendingOf(m, q) \in {0, 1} /\ PendingOf(l, q) \in {0, 1} /\ PendingOf(m, q) <= PendingOf(l, q)
  BY <1>1, HoldsIs
<1>5. /\ Extra(K, q) \in Int /\ Pending(K, q) \in Int /\ Extra(K, q)' = Extra(K, q)
      /\ Pending(K, q)' \in Int /\ Pending(K, q)' <= Pending(K, q)
  <2>1. /\ Extra(K, q) \in Int /\ Pending(K, q) \in Int
        /\ Extra(K, q)' = Extra(K, q) + (IF j \in K THEN ExtraOf(m, q) - ExtraOf(l, q) ELSE 0)
        /\ Pending(K, q)' = Pending(K, q) + (IF j \in K THEN PendingOf(m, q) - PendingOf(l, q) ELSE 0)
        /\ ExtraOf(l, q) \in Int
    BY <1>1, SumsMove DEF Beside, Shifted
  <2> QED
    BY <1>3, <1>4, <2>1
<1>6. x = credit[q] - Extra(K, q) /\ y = credit'[q] - Extra(K, q)' /\ s = astray - Pending(K, q) /\ t = astray' - Pending(K, q)'
  BY <1>2 DEF Gap, Slack
<1>7. x \in Int /\ y = x /\ s \in Int /\ t \in Int /\ t >= s + 0
  BY <1>5, <1>6 DEF Beside
<1>8. ASSUME NEW c \in Counts, Fits(K, q, c) PROVE Fits(K, q, c)'
  <2>1. Near(x, c, s)
    BY <1>2, <1>8 DEF Fits
  <2>2. (y - PointsOf(c)) - (x - PointsOf(c)) \in -(MostPoints * 0)..(MostPoints * 0)
    <3>1. PointsOf(c) \in Nat /\ MostPoints * 0 = 0
      BY WorthOfAPost
    <3> QED
      BY <1>7, <3>1
  <2>3. Near(y, c, t)
    BY <1>7, <2>1, <2>2, NearStill
  <2> QED
    BY <1>2, <2>3 DEF Fits
<1>9. \A i \in SocialJobs : /\ social[i].got[q] \in Counts /\ social[i].had[q] \in Counts
                            /\ Counted(social'[i], q) <=> Counted(social[i], q)
                            /\ ToCount(social'[i], q) => ToCount(social[i], q)
                            /\ Counted(social'[i], q) => social'[i].got[q] = social[i].got[q]
                            /\ ToCount(social'[i], q) => social'[i].had[q] = social[i].had[q]
  BY DEF HeldInv, Held, Beside
<1>10. post[q] \in Counts /\ ExplainedAt(K, q)
  BY DEF HeldInv, Beside
<1>11. ASSUME NEW i \in SocialJobs \ K
       PROVE  (/\ Counted(social[i], q) => Fits(K, q, social[i].got[q])
               /\ ToCount(social[i], q) => Fits(K, q, social[i].had[q]))'
  <2>1. PICK g, h : g = social[i].got[q] /\ h = social[i].had[q]
    OBVIOUS
  <2>2. g \in Counts /\ h \in Counts /\ (Counted(social[i], q) => Fits(K, q, g)) /\ (ToCount(social[i], q) => Fits(K, q, h))
    BY <1>9, <1>10, <2>1 DEF ExplainedAt
  <2>3. (Counted(social[i], q) => Fits(K, q, g)') /\ (ToCount(social[i], q) => Fits(K, q, h)')
    BY <1>8, <2>2
  <2>4. (Counted(social'[i], q) => social'[i].got[q] = g) /\ (ToCount(social'[i], q) => social'[i].had[q] = h)
    BY <1>9, <2>1
  <2> QED
    BY <1>9, <2>3, <2>4 DEF Fits
<1>12. ((\A i \in SocialJobs \ K : ~Counted(social[i], q)) => Fits(K, q, post[q]))'
  <2>1. PICK c : c = post[q]
    OBVIOUS
  <2>2. (\A i \in SocialJobs \ K : ~Counted(social[i], q)) => Fits(K, q, c)'
    BY <1>8, <1>10, <2>1 DEF ExplainedAt
  <2> QED
    BY <1>9, <2>1, <2>2 DEF Fits
<1> QED
  BY <1>11, <1>12 DEF ExplainedAt

LEMMA GapMoves ==
  ASSUME HeldInv, NEW j \in SocialJobs, NEW l, NEW m, NEW K, NEW q \in Posts, Beside(j, l, m, K, q),
         NEW n \in Int, credit'[q] = credit[q] + n
  PROVE  /\ Gap(K, q) \in Int /\ Slack(K, q) \in Int /\ Gap(K, q)' \in Int /\ Slack(K, q)' \in Int
         /\ j \in K => /\ Gap(K, q)' = Gap(K, q) + n - (ExtraOf(m, q) - ExtraOf(l, q))
                       /\ Slack(K, q)' = Slack(K, q) + (astray' - astray) - (PendingOf(m, q) - PendingOf(l, q))
         /\ j \notin K => /\ Gap(K, q)' = Gap(K, q) + n
                          /\ Slack(K, q)' = Slack(K, q) + (astray' - astray)
         /\ ExtraOf(l, q) \in Int /\ ExtraOf(m, q) \in Int /\ PendingOf(l, q) \in {0, 1} /\ PendingOf(m, q) \in {0, 1}
<1>1. PICK e, f, p, r : e = Extra(K, q) /\ f = Extra(K, q)' /\ p = Pending(K, q) /\ r = Pending(K, q)'
  OBVIOUS
<1>2. PICK v, w, x, y : v = ExtraOf(l, q) /\ w = ExtraOf(m, q) /\ x = PendingOf(l, q) /\ y = PendingOf(m, q)
  OBVIOUS
<1>3. PICK c, a, b : c = credit[q] /\ a = astray /\ b = astray' /\ c \in Int /\ a \in Int /\ b \in Int
  BY DEF Beside
<1>4. /\ e \in Int /\ p \in Int /\ v \in Int /\ w \in Int /\ x \in {0, 1} /\ y \in {0, 1}
      /\ j \in K => f = e + (w - v) /\ r = p + (y - x)
      /\ j \notin K => f = e /\ r = p
  <2>1. /\ \A i \in SocialJobs \ {j} : social'[i] = social[i]
        /\ l = social[j] /\ m = social'[j] /\ Held(m) /\ K \in SUBSET SocialJobs
    BY DEF Beside
  <2>2. Shifted(j, l, m, K, q)
    BY <2>1, SumsMove
  <2>3. e \in Int /\ p \in Int /\ v \in Int /\ w \in Int /\ x \in {0, 1} /\ y \in {0, 1}
    BY <1>1, <1>2, <2>2 DEF Shifted
  <2>4. CASE j \in K
    BY <1>1, <1>2, <2>2, <2>3, <2>4 DEF Shifted
  <2>5. CASE j \notin K
    BY <1>1, <1>2, <2>2, <2>3, <2>5 DEF Shifted
  <2> QED
    BY <2>3, <2>4, <2>5
<1>5. Gap(K, q) = c - e /\ Slack(K, q) = a - p /\ Gap(K, q)' = (c + n) - f /\ Slack(K, q)' = b - r
  BY <1>1, <1>3 DEF Gap, Slack
<1>6. CASE j \in K
  <2>1. /\ Gap(K, q) \in Int /\ Slack(K, q) \in Int /\ Gap(K, q)' \in Int /\ Slack(K, q)' \in Int
    BY <1>3, <1>4, <1>5, <1>6
  <2>2. (c + n) - f = (c - e) + n - (w - v) /\ b - r = (a - p) + (b - a) - (y - x)
    BY <1>3, <1>4, <1>6
  <2> QED
    BY <1>2, <1>3, <1>4, <1>5, <1>6, <2>1, <2>2
<1>7. CASE j \notin K
  BY <1>2, <1>3, <1>4, <1>5, <1>7
<1> QED
  BY <1>6, <1>7

\* Another run neither counted the post nor is about to.
Untouched(K, j, q) == \A i \in SocialJobs \ (K \cup {j}) : ~Counted(social[i], q) /\ ~ToCount(social[i], q)

\* The run gave the points of the post; it writes the row, or it never will.
LEMMA DropAt ==
  ASSUME HeldInv, NEW j \in SocialJobs, NEW l, NEW m, NEW K, NEW q \in Posts, Beside(j, l, m, K, q),
         credit'[q] = credit[q], Counted(l, q), ~Counted(m, q), ~ToCount(m, q),
         post'[q] = l.got[q] \/ (post'[q] = post[q] /\ astray' >= astray + 1),
         j \notin K => Untouched(K, j, q)
  PROVE  ExplainedAt(K, q)'
<1>1. PICK x, y, s, t, n : x = Gap(K, q) /\ y = Gap(K, q)' /\ s = Slack(K, q) /\ t = Slack(K, q)' /\ n = New(l, q)
  OBVIOUS
<1>2. Held(l) /\ Held(m) /\ astray \in Int /\ astray' \in Int /\ astray' >= astray
  BY DEF Beside, HeldInv
<1>d. PICK d : d = astray' - astray /\ d \in Nat /\ (astray' >= astray + 1 => d >= 1)
  BY <1>2
<1>3. n \in Int /\ n \in -(MostPoints * 1)..(MostPoints * 1)
  <2>1. MostPoints * 1 = MostPoints
    BY WorthOfAPost
  <2> QED
    BY <1>1, <1>2, <2>1, NewBounded
<1>4. ExtraOf(l, q) = n /\ ExtraOf(m, q) = 0 /\ PendingOf(l, q) = 1 /\ PendingOf(m, q) = 0
  BY <1>1, <1>2, HoldsIs DEF ExtraOf
<1>5. /\ x \in Int /\ s \in Int /\ y \in Int /\ t \in Int
      /\ j \in K => y = x + n /\ t >= s + 1
      /\ j \notin K => y = x /\ t = s + d
  <2>1. credit'[q] = credit[q] + 0
    BY DEF Beside
  <2>2. /\ Gap(K, q) \in Int /\ Slack(K, q) \in Int /\ Gap(K, q)' \in Int /\ Slack(K, q)' \in Int
        /\ j \in K => /\ Gap(K, q)' = Gap(K, q) + 0 - (ExtraOf(m, q) - ExtraOf(l, q))
                      /\ Slack(K, q)' = Slack(K, q) + (astray' - astray) - (PendingOf(m, q) - PendingOf(l, q))
        /\ j \notin K => /\ Gap(K, q)' = Gap(K, q) + 0
                         /\ Slack(K, q)' = Slack(K, q) + (astray' - astray)
    BY <2>1, GapMoves
  <2> QED
    BY <1>1, <1>d, <1>3, <1>4, <2>2
<1>6. l.got[q] \in Counts /\ l.had[q] \in Counts /\ post[q] \in Counts
  BY <1>2 DEF Held, HeldInv
<1>7. PICK a, b, o : a = PointsOf(l.got[q]) /\ b = PointsOf(l.had[q]) /\ o = PointsOf(post[q])
  OBVIOUS
<1>8. /\ a \in Nat /\ b \in Nat /\ o \in Nat /\ n = a - b /\ MostPoints \in Nat /\ MostPoints * 1 = MostPoints
      /\ a <= MostPoints /\ b <= MostPoints /\ o <= MostPoints
  BY <1>1, <1>6, <1>7, WorthOfAPost DEF New
<1>9. ExplainedAt(K, q)
  BY DEF Beside
<1>10. CASE j \in K
  <2>0. y = x + n /\ t >= s + 1
    BY <1>5, <1>10
  <2>1. ASSUME NEW c \in Counts, NEW k \in Counts, (y - PointsOf(k)) - (x - PointsOf(c)) \in -(MostPoints * 1)..(MostPoints * 1),
               Fits(K, q, c)
        PROVE  Fits(K, q, k)'
    <3>1. Near(x, c, s)
      BY <1>1, <2>1 DEF Fits
    <3>2. Near(y, k, t)
      BY <1>5, <2>0, <2>1, <3>1, NearStill
    <3> QED
      BY <1>1, <3>2 DEF Fits
  <2>2. ASSUME NEW c \in Counts, Fits(K, q, c) PROVE Fits(K, q, c)'
    <3>1. PointsOf(c) \in Nat
      BY WorthOfAPost
    <3>2. (y - PointsOf(c)) - (x - PointsOf(c)) \in -(MostPoints * 1)..(MostPoints * 1)
      BY <1>3, <1>5, <2>0, <3>1
    <3> QED
      BY <2>1, <2>2, <3>2
  <2>3. ASSUME NEW i \in SocialJobs \ K
        PROVE  (/\ Counted(social[i], q) => Fits(K, q, social[i].got[q])
                /\ ToCount(social[i], q) => Fits(K, q, social[i].had[q]))'
    <3>1. PICK g, h : g = social[i].got[q] /\ h = social[i].had[q]
      OBVIOUS
    <3>2. g \in Counts /\ h \in Counts
      BY <3>1 DEF HeldInv, Held
    <3>3. (Counted(social[i], q) => Fits(K, q, g)) /\ (ToCount(social[i], q) => Fits(K, q, h))
      BY <1>9, <3>1 DEF ExplainedAt
    <3>4. (Counted(social[i], q) => Fits(K, q, g)') /\ (ToCount(social[i], q) => Fits(K, q, h)')
      BY <2>2, <3>2, <3>3
    <3>5. social'[i] = social[i]
      BY <1>10 DEF Beside
    <3> QED
      BY <3>1, <3>4, <3>5 DEF Fits
  <2>4. ASSUME \A i \in SocialJobs \ K : ~Counted(social'[i], q) PROVE Fits(K, q, post[q])'
    <3>1. \A i \in SocialJobs \ K : ~Counted(social[i], q)
      BY <1>10, <2>4 DEF Beside
    <3>2. PICK c, k : c = post[q] /\ k = post'[q]
      OBVIOUS
    <3>3. Fits(K, q, c) /\ c \in Counts
      BY <1>6, <1>9, <3>1, <3>2 DEF ExplainedAt
    <3>4. CASE k = l.got[q]
      <4>1. (y - PointsOf(k)) - (x - PointsOf(c)) = o - b
        BY <1>5, <1>7, <1>8, <2>0, <3>2, <3>4
      <4>2. (y - PointsOf(k)) - (x - PointsOf(c)) \in -(MostPoints * 1)..(MostPoints * 1)
        BY <1>8, <4>1
      <4>3. Fits(K, q, k)'
        BY <1>6, <2>1, <3>3, <3>4, <4>2
      <4> QED
        BY <3>2, <4>3 DEF Fits
    <3>5. CASE k = c
      <4>1. Fits(K, q, k)'
        BY <2>2, <3>3, <3>5
      <4> QED
        BY <3>2, <4>1 DEF Fits
    <3> QED
      BY <3>2, <3>4, <3>5
  <2> QED
    BY <2>3, <2>4 DEF ExplainedAt
<1>11. CASE j \notin K
  <2>1. \A i \in SocialJobs \ K : ~Counted(social'[i], q) /\ ~ToCount(social'[i], q)
    BY <1>11 DEF Untouched, Beside
  <2>2. Fits(K, q, l.got[q])
    BY <1>9, <1>11 DEF ExplainedAt, Beside
  <2>3. PICK c, k : c = l.got[q] /\ k = post'[q]
    OBVIOUS
  <2>4. Near(x, c, s) /\ c \in Counts /\ k \in Counts
    BY <1>1, <1>6, <2>2, <2>3 DEF Fits
  <2>5. Near(y, k, t)
    <3>1. CASE k = c
      <4>1. (y - PointsOf(k)) - (x - PointsOf(c)) \in -(MostPoints * 0)..(MostPoints * 0) /\ t >= s + 0
        <5>1. y = x /\ t = s + d /\ PointsOf(k) = a /\ PointsOf(c) = a
          BY <1>5, <1>7, <1>11, <2>3, <3>1
        <5>2. (y - PointsOf(k)) - (x - PointsOf(c)) = 0 /\ MostPoints * 0 = 0
          BY <1>5, <1>8, <5>1
        <5> QED
          BY <1>d, <1>5, <5>1, <5>2
      <4> QED
        BY <1>5, <2>4, <4>1, NearStill
    <3>2. CASE k = post[q] /\ astray' >= astray + 1
      <4>1. (y - PointsOf(k)) - (x - PointsOf(c)) = a - o
        BY <1>5, <1>7, <1>8, <1>11, <2>3, <3>2
      <4>2. (y - PointsOf(k)) - (x - PointsOf(c)) \in -(MostPoints * 1)..(MostPoints * 1)
        BY <1>8, <4>1
      <4>3. t >= s + 1
        BY <1>d, <1>5, <1>11, <3>2
      <4> QED
        BY <1>5, <2>4, <4>2, <4>3, NearStill
    <3> QED
      BY <2>3, <3>1, <3>2
  <2>6. Fits(K, q, post[q])'
    BY <1>1, <2>3, <2>5 DEF Fits
  <2> QED
    BY <2>1, <2>6 DEF ExplainedAt
<1> QED
  BY <1>10, <1>11

\* The run gives the points of the post.
LEMMA GiveAt ==
  ASSUME HeldInv, NEW j \in SocialJobs, NEW l, NEW m, NEW K, NEW q \in Posts, Beside(j, l, m, K, q),
         credit'[q] = credit[q] + New(l, q), ToCount(l, q), Counted(m, q),
         m.got[q] = l.got[q], m.had[q] = l.had[q], post'[q] = post[q], astray' = astray,
         j \notin K => Untouched(K, j, q)
  PROVE  ExplainedAt(K, q)'
<1>1. PICK x, y, s, t, n : x = Gap(K, q) /\ y = Gap(K, q)' /\ s = Slack(K, q) /\ t = Slack(K, q)' /\ n = New(l, q)
  OBVIOUS
<1>2. Held(l) /\ Held(m) /\ astray \in Int
  BY DEF Beside, HeldInv
<1>3. n \in Int
  BY <1>1, <1>2, NewBounded
<1>4. ExtraOf(l, q) = 0 /\ ExtraOf(m, q) = n /\ PendingOf(l, q) = 1 /\ PendingOf(m, q) = 1
  BY <1>1, <1>2, HoldsIs DEF ExtraOf, ToCount, New
<1>5. /\ x \in Int /\ s \in Int /\ t = s
      /\ j \in K => y = x
      /\ j \notin K => y = x + n
  <2>1. credit'[q] = credit[q] + n
    BY <1>1
  <2>2. /\ Gap(K, q) \in Int /\ Slack(K, q) \in Int
        /\ j \in K => /\ Gap(K, q)' = Gap(K, q) + n - (ExtraOf(m, q) - ExtraOf(l, q))
                      /\ Slack(K, q)' = Slack(K, q) + (astray' - astray) - (PendingOf(m, q) - PendingOf(l, q))
        /\ j \notin K => /\ Gap(K, q)' = Gap(K, q) + n
                         /\ Slack(K, q)' = Slack(K, q) + (astray' - astray)
    BY <1>3, <2>1, GapMoves
  <2> QED
    BY <1>1, <1>2, <1>3, <1>4, <2>2
<1>6. l.got[q] \in Counts /\ l.had[q] \in Counts
  BY <1>2 DEF Held
<1>7. ExplainedAt(K, q)
  BY DEF Beside
<1>8. CASE j \in K
  <2>1. \A c : Fits(K, q, c)' <=> Fits(K, q, c)
    BY <1>1, <1>5, <1>8 DEF Fits
  <2>2. \A i \in SocialJobs \ K : social'[i] = social[i]
    BY <1>8 DEF Beside
  <2> QED
    BY <1>7, <2>1, <2>2 DEF ExplainedAt, Fits
<1>9. CASE j \notin K
  <2>1. \A i \in SocialJobs \ (K \cup {j}) : ~Counted(social'[i], q) /\ ~ToCount(social'[i], q)
    BY <1>9 DEF Untouched, Beside
  <2>2. Fits(K, q, l.had[q])
    BY <1>7, <1>9 DEF ExplainedAt, Beside
  <2>3. PICK c, k : c = l.had[q] /\ k = l.got[q]
    OBVIOUS
  <2>4. Near(x, c, s) /\ c \in Counts /\ k \in Counts
    BY <1>1, <1>6, <2>2, <2>3 DEF Fits
  <2>5. (y - PointsOf(k)) - (x - PointsOf(c)) \in -(MostPoints * 0)..(MostPoints * 0) /\ t >= s + 0 /\ y \in Int
    <3>1. n = PointsOf(k) - PointsOf(c) /\ PointsOf(k) \in Nat /\ PointsOf(c) \in Nat /\ MostPoints * 0 = 0
      BY <1>1, <2>3, <2>4, WorthOfAPost DEF New
    <3> QED
      BY <1>3, <1>5, <1>9, <3>1
  <2>6. Near(y, k, t)
    BY <1>5, <2>4, <2>5, NearStill
  <2>7. social'[j] = m /\ Counted(m, q) /\ m.got[q] = k /\ ~ToCount(m, q)
    BY <2>3 DEF Beside, ToCount
  <2>8. Fits(K, q, social[j].got[q])'
    BY <1>1, <2>6, <2>7 DEF Fits
  <2> QED
    BY <1>9, <2>1, <2>7, <2>8 DEF ExplainedAt
<1> QED
  BY <1>8, <1>9

-----------------------------------------------------------------------------
(* The runs that may have counted twice. *)

LEMMA NoneHold ==
  ASSUME HeldInv, NEW K \in SUBSET SocialJobs, \A i \in K : ~HoldsPage(i), NEW q \in Posts
  PROVE  Extra(K, q) = 0 /\ Pending(K, q) = 0
<1>1. PICK e, p : e = [i \in SocialJobs |-> ExtraOf(social[i], q)] /\ p = [i \in SocialJobs |-> PendingOf(social[i], q)]
  OBVIOUS
<1>2. \A i \in K : e[i] = 0 /\ p[i] = 0
  <2> SUFFICES ASSUME NEW i \in K PROVE e[i] = 0 /\ p[i] = 0
    OBVIOUS
  <2>1. Held(social[i]) /\ social[i].pc \in {"rest", "page"}
    BY DEF HeldInv, HoldsPage
  <2>2. ExtraOf(social[i], q) = 0 /\ PendingOf(social[i], q) = 0
    BY <2>1, HoldsIs
  <2> QED
    BY <1>1, <2>2
<1>3. IsFiniteSet(K)
  BY SocialAssumption, FS_Subset
<1>4. SumOver(e, K) = 0 /\ SumOver(p, K) = 0
  BY <1>2, <1>3, SumZero
<1> QED
  BY <1>1, <1>4, SumsAreSums DEF Extra, Pending

\* A run that holds no posts may be taken for one of them.
LEMMA Joins ==
  ASSUME HeldInv, NEW K, Explained(K), NEW j \in SocialJobs, ~HoldsPage(j)
  PROVE  Explained(K \cup {j})
<1>1. CASE j \in K
  <2>1. K \cup {j} = K
    BY <1>1
  <2> QED
    BY <2>1, Zenon
<1>2. CASE j \notin K
  <2>1. PICK L : L = K \cup {j}
    OBVIOUS
  <2>2. K \in SUBSET SocialJobs /\ L \in SUBSET SocialJobs /\ IsFiniteSet(K)
    BY <2>1, SocialAssumption, FS_Subset DEF Explained
  <2>3. \A q \in Posts : ~Counted(social[j], q) /\ ~ToCount(social[j], q) /\ ExtraOf(social[j], q) = 0 /\ PendingOf(social[j], q) = 0
    <3>1. Held(social[j]) /\ social[j].pc \in {"rest", "page"}
      BY DEF HeldInv, HoldsPage
    <3> QED
      BY <3>1, HoldsIs
  <2>4. ASSUME NEW q \in Posts PROVE Extra(L, q) = Extra(K, q) /\ Pending(L, q) = Pending(K, q)
    <3>1. PICK e, p : e = [i \in SocialJobs |-> ExtraOf(social[i], q)] /\ p = [i \in SocialJobs |-> PendingOf(social[i], q)]
      OBVIOUS
    <3>2. \A i \in SocialJobs : e[i] = ExtraOf(social[i], q) /\ e[i] \in Int /\ p[i] = PendingOf(social[i], q) /\ p[i] \in Int
      BY <3>1, NewBounded DEF HeldInv
    <3>3. e[j] = 0 /\ p[j] = 0 /\ \A i \in K : e[i] \in Int /\ p[i] \in Int
      BY <2>2, <2>3, <3>2
    <3>4. SumOver(e, L) = SumOver(e, K) + e[j] /\ SumOver(p, L) = SumOver(p, K) + p[j]
      <4>1. IsFiniteSet(K) /\ j \notin K /\ e[j] \in Int /\ p[j] \in Int
        BY <1>2, <2>2, <3>3
      <4>2. SumOver(e, K \cup {j}) = SumOver(e, K) + e[j]
        BY <3>3, <4>1, SumAdd
      <4>3. SumOver(p, K \cup {j}) = SumOver(p, K) + p[j]
        BY <3>3, <4>1, SumAdd
      <4> QED
        BY <2>1, <4>2, <4>3, Zenon
    <3>5. SumOver(e, K) \in Int /\ SumOver(p, K) \in Int
      BY <2>2, <3>3, SumType
    <3>6. SumOver(e, L) = SumOver(e, K) /\ SumOver(p, L) = SumOver(p, K)
      BY <3>3, <3>4, <3>5
    <3> QED
      BY <3>1, <3>6, SumsAreSums DEF Extra, Pending
  <2>5. \A q \in Posts : \A c : Fits(L, q, c) <=> Fits(K, q, c)
    BY <2>4 DEF Fits, Gap, Slack
  <2>6. \A q \in Posts : ExplainedAt(K, q) => ExplainedAt(L, q)
    <3> SUFFICES ASSUME NEW q \in Posts, ExplainedAt(K, q) PROVE ExplainedAt(L, q)
      OBVIOUS
    <3>1. \A i \in SocialJobs \ L : i \in SocialJobs \ K
      BY <2>1
    <3>2. (\A i \in SocialJobs \ L : ~Counted(social[i], q)) => \A i \in SocialJobs \ K : ~Counted(social[i], q)
      BY <2>1, <2>3
    <3> QED
      BY <2>5, <3>1, <3>2 DEF ExplainedAt
  <2>7. Explained(L)
    BY <2>1, <2>2, <2>6 DEF Explained
  <2> QED
    BY <2>1, <2>7
<1> QED
  BY <1>1, <1>2

\* A run of K reads its page.
LEMMA RiseAt ==
  ASSUME HeldInv, NEW j \in SocialJobs, NEW l, NEW m, NEW K, NEW q \in Posts, Beside(j, l, m, K, q), j \in K,
         credit'[q] = credit[q], post'[q] = post[q], astray' = astray + 1, PendingOf(l, q) = 0,
         ~Counted(l, q), ~Counted(m, q)
  PROVE  ExplainedAt(K, q)'
<1>1. PICK x, y, s, t : x = Gap(K, q) /\ y = Gap(K, q)' /\ s = Slack(K, q) /\ t = Slack(K, q)'
  OBVIOUS
<1>2. astray \in Int /\ ExtraOf(l, q) = 0 /\ ExtraOf(m, q) = 0 /\ credit[q] \in Int
  BY DEF Beside, ExtraOf
<1>3. x \in Int /\ y = x /\ s \in Int /\ t \in Int /\ t >= s + 0
  <2>1. credit'[q] = credit[q] + 0
    BY <1>2
  <2>2. /\ Gap(K, q) \in Int /\ Slack(K, q) \in Int
        /\ Gap(K, q)' = Gap(K, q) + 0 - (ExtraOf(m, q) - ExtraOf(l, q))
        /\ Slack(K, q)' = Slack(K, q) + (astray' - astray) - (PendingOf(m, q) - PendingOf(l, q))
        /\ PendingOf(m, q) \in {0, 1}
    BY <2>1, GapMoves
  <2> QED
    BY <1>1, <1>2, <2>2
<1>4. ASSUME NEW c \in Counts, Fits(K, q, c) PROVE Fits(K, q, c)'
  <2>1. Near(x, c, s)
    BY <1>1, <1>4 DEF Fits
  <2>2. (y - PointsOf(c)) - (x - PointsOf(c)) \in -(MostPoints * 0)..(MostPoints * 0)
    <3>1. PointsOf(c) \in Nat /\ MostPoints * 0 = 0
      BY WorthOfAPost
    <3> QED
      BY <1>3, <3>1
  <2>3. Near(y, c, t)
    BY <1>3, <2>1, <2>2, NearStill
  <2> QED
    BY <1>1, <2>3 DEF Fits
<1>5. post[q] \in Counts /\ ExplainedAt(K, q)
  BY DEF HeldInv, Beside
<1>6. \A i \in SocialJobs \ K : social'[i] = social[i] /\ social[i].got[q] \in Counts /\ social[i].had[q] \in Counts
  BY DEF Beside, HeldInv, Held
<1>7. ASSUME NEW i \in SocialJobs \ K
      PROVE  (/\ Counted(social[i], q) => Fits(K, q, social[i].got[q])
              /\ ToCount(social[i], q) => Fits(K, q, social[i].had[q]))'
  <2>1. PICK g, h : g = social[i].got[q] /\ h = social[i].had[q]
    OBVIOUS
  <2>2. g \in Counts /\ h \in Counts /\ (Counted(social[i], q) => Fits(K, q, g)) /\ (ToCount(social[i], q) => Fits(K, q, h))
    BY <1>5, <1>6, <2>1 DEF ExplainedAt
  <2>3. (Counted(social[i], q) => Fits(K, q, g)') /\ (ToCount(social[i], q) => Fits(K, q, h)')
    BY <1>4, <2>2
  <2> QED
    BY <1>6, <2>1, <2>3 DEF Fits
<1>8. ((\A i \in SocialJobs \ K : ~Counted(social[i], q)) => Fits(K, q, post[q]))'
  <2>1. PICK c : c = post[q]
    OBVIOUS
  <2>2. (\A i \in SocialJobs \ K : ~Counted(social[i], q)) => Fits(K, q, c)'
    BY <1>4, <1>5, <2>1 DEF ExplainedAt
  <2> QED
    BY <1>6, <2>1, <2>2 DEF Fits
<1> QED
  BY <1>7, <1>8 DEF ExplainedAt

\* Of the runs outside of K no other one holds posts.
LEMMA LoneHolder ==
  ASSUME HeldInv, NEW K, Explained(K), NEW j \in SocialJobs \ K, HoldsPage(j), NEW q \in Posts
  PROVE  Untouched(K, j, q)
<1> SUFFICES ASSUME NEW i \in SocialJobs \ (K \cup {j}) PROVE ~Counted(social[i], q) /\ ~ToCount(social[i], q)
  BY DEF Untouched
<1>1. ~HoldsPage(i)
  BY DEF Explained
<1>2. Held(social[i]) /\ social[i].pc \in {"rest", "page"}
  BY <1>1 DEF HoldsPage, HeldInv
<1> QED
  BY <1>2, HoldsIs

LEMMA ExplainedOn ==
  ASSUME NEW j \in SocialJobs, NEW K, Explained(K), \A i \in SocialJobs \ {j} : social'[i] = social[i],
         j \in K \/ HoldsPage(j)' => j \in K \/ HoldsPage(j), \A q \in Posts : ExplainedAt(K, q)',
         credit' \in [Posts -> Int], astray' \in Nat
  PROVE  CreditInv'
<1>1. \A i \in SocialJobs \ K : HoldsPage(i)' => HoldsPage(i)
  BY DEF HoldsPage
<1>2. Explained(K)' /\ K \in SUBSET SocialJobs
  BY <1>1 DEF Explained
<1> QED
  BY <1>2 DEF CreditInv

-----------------------------------------------------------------------------
(* The credits. *)

Kept(l, m, q) ==
    /\ Counted(m, q) <=> Counted(l, q)
    /\ ToCount(m, q) => ToCount(l, q)
    /\ Counted(m, q) \/ ToCount(m, q) => m.had[q] = l.had[q]
    /\ Counted(m, q) => m.got[q] = l.got[q]

\* Steps that count nothing, at which the posts of the run stay or become fewer.
LEMMA StepKeeps ==
  ASSUME LoneInv, HeldInv, NEW j \in SocialJobs, NEW l, NEW m, l = social[j], m = social'[j], Held(m),
         \/ StartSocial(j) \/ (ReadPosts(j) /\ m = Idle)
         \/ GetPosts(j) \/ ReadAuthor(j) \/ ReadTotal(j) \/ FindQuality(j) \/ CreateQuality(j) \/ FindDay(j) \/ CreateDay(j)
         \/ WriteDay(j) \/ UpdateTotal(j) \/ ListPost(j) \/ RejectScore(j),
         NEW q \in Posts
  PROVE  Kept(l, m, q)
<1>1. Held(l)
  BY DEF HeldInv
<1>2. CASE StartSocial(j) \/ (ReadPosts(j) /\ m = Idle)
  <2>1. l.pc \in {"rest", "page"} /\ m.pc \in {"rest", "page"}
    BY <1>2, StartIs, ReadPostsIs, IdleShaped DEF Becomes
  <2>2. ~Counted(l, q) /\ ~ToCount(l, q) /\ ~Counted(m, q) /\ ~ToCount(m, q)
    BY <1>1, <2>1, HoldsIs
  <2> QED
    BY <2>2 DEF Kept
<1>3. CASE GetPosts(j)
  <2>1. l.pc = "fetch" /\ m.pc = "post" /\ m.todo \subseteq l.todo /\ m.saved = l.saved /\ m.had = l.had /\ l.saved = {}
    BY <1>1, <1>3, GetPostsIs DEF Becomes, Keeps, Held
  <2> QED
    BY <2>1 DEF Kept, Counted, ToCount
<1>4. CASE ReadAuthor(j)
  <2>1. /\ l.pc = "post" /\ m.pc \in {"campaign", "post"} /\ m.todo \subseteq l.todo
        /\ m.saved = l.saved /\ m.had = l.had /\ m.got = l.got
    BY <1>4, ReadAuthorIs DEF Becomes, Keeps
  <2> QED
    BY <2>1 DEF Kept, Counted, ToCount
<1>5. CASE ReadTotal(j) \/ FindQuality(j) \/ CreateQuality(j) \/ FindDay(j) \/ CreateDay(j) \/ WriteDay(j)
  <2>1. /\ m.todo = l.todo /\ m.saved = l.saved /\ m.had = l.had /\ m.got = l.got
        /\ l.pc \in Working \ {"update", "list"}
        /\ m.pc \in Working \ {"list"} /\ (m.pc = "update" => m.at.left = {"score", "total"})
    BY <1>5, ReadTotalIs, QualityIs, FindDayIs, CreateDayIs, WriteDayIs DEF Becomes, Keeps, Others, Working
  <2> QED
    BY <2>1 DEF Kept, Counted, ToCount
<1>6. CASE UpdateTotal(j)
  <2>1. l.pc = "update" /\ "total" \in l.at.left /\ Written(j, "total")
    BY <1>6 DEF UpdateTotal, SocialAt
  <2>2. /\ m.pc \in {"update", "list"} /\ m.todo = l.todo /\ m.saved = l.saved /\ m.had = l.had /\ m.got = l.got
        /\ m.at.q = l.at.q /\ (m.pc = "list" => l.at.left = {"total"}) /\ (m.pc = "update" => m.at.left = l.at.left \ {"total"})
    BY <2>1, WrittenFor
  <2> QED
    BY <2>1, <2>2 DEF Kept, Counted, ToCount
<1>7. CASE ListPost(j)
  <2>1. /\ l.pc = "list" /\ m.pc = "post" /\ m.todo = l.todo \ {l.at.q} /\ m.saved = l.saved \cup {l.at.q}
        /\ m.had = l.had /\ m.got = l.got
    BY <1>7, ListPostIs DEF Becomes, Keeps
  <2> QED
    BY <2>1 DEF Kept, Counted, ToCount
<1>8. CASE RejectScore(j)
  <2>1. l.pc = "update" /\ "score" \in l.at.left
    BY <1>8 DEF RejectScore, SocialAt
  <2>2. m.pc = "post" /\ m.todo = {} /\ m.saved = l.saved /\ m.had = l.had /\ m.got = l.got
    BY <1>8, ThrowIs DEF RejectScore, Becomes, Keeps
  <2> QED
    BY <2>1, <2>2 DEF Kept, Counted, ToCount
<1> QED
  BY <1>2, <1>3, <1>4, <1>5, <1>6, <1>7, <1>8

LEMMA KeptAt ==
  ASSUME HeldInv, NEW j \in SocialJobs, NEW l, NEW m, NEW K, NEW q \in Posts, Beside(j, l, m, K, q), Kept(l, m, q),
         credit'[q] = credit[q], post'[q] = post[q]
  PROVE  ExplainedAt(K, q)'
BY SameAt DEF Kept

LEMMA BesideSocial ==
  ASSUME LoneInv, HeldInv, CreditInv, NEW j \in SocialJobs, Social(j), NEW l, NEW m, l = social[j], m = social'[j],
         NEW K, Explained(K)
  PROVE  /\ astray' \in Nat /\ \A q \in Posts : Beside(j, l, m, K, q)
         /\ Held(l) /\ Held(m) /\ \A i \in SocialJobs \ {j} : social'[i] = social[i]
<1>1. astray \in Nat /\ credit \in [Posts -> Int]
  BY DEF CreditInv
<1>2. astray' = astray \/ astray' = astray + 1
  BY Zenon DEF Social
<1>3. astray' \in Nat /\ astray' >= astray
  BY <1>1, <1>2
<1>4. Held(l) /\ Held(m) /\ \A i \in SocialJobs \ {j} : social'[i] = social[i]
  BY SocialHeld DEF HeldInv
<1> QED
  BY <1>1, <1>3, <1>4 DEF Beside, Explained

LEMMA CreditKeeps ==
  ASSUME LoneInv, HeldInv, CreditInv, NEW j \in SocialJobs, Social(j), credit' = credit, post' = post,
         \/ StartSocial(j) \/ (ReadPosts(j) /\ social'[j] = Idle)
         \/ GetPosts(j) \/ ReadAuthor(j) \/ ReadTotal(j) \/ FindQuality(j) \/ CreateQuality(j) \/ FindDay(j) \/ CreateDay(j)
         \/ WriteDay(j) \/ UpdateTotal(j) \/ ListPost(j) \/ RejectScore(j)
  PROVE  CreditInv'
<1>1. PICK K : Explained(K)
  BY DEF CreditInv
<1>2. PICK l, m : l = social[j] /\ m = social'[j]
  OBVIOUS
<1>3. /\ astray' \in Nat /\ \A q \in Posts : Beside(j, l, m, K, q)
      /\ Held(m) /\ \A i \in SocialJobs \ {j} : social'[i] = social[i]
  BY <1>1, <1>2, BesideSocial
<1>4. \A q \in Posts : Kept(l, m, q)
  BY <1>2, <1>3, StepKeeps
<1>5. \A q \in Posts : ExplainedAt(K, q)'
  BY <1>3, <1>4, KeptAt
<1>6. HoldsPage(j)' => HoldsPage(j)
  <2>1. CASE StartSocial(j) \/ (ReadPosts(j) /\ m = Idle)
    BY <1>2, <2>1, StartIs, IdleShaped DEF Becomes, HoldsPage
  <2>2. CASE ~(StartSocial(j) \/ (ReadPosts(j) /\ m = Idle))
    <3>1. l.pc \notin {"rest", "page"}
      BY <1>2, <2>2, GetPostsIs, ReadAuthorIs, ReadTotalIs, QualityIs, FindDayIs, CreateDayIs, WriteDayIs, ListPostIs
      DEF UpdateTotal, RejectScore, SocialAt
    <3> QED
      BY <1>2, <3>1 DEF HoldsPage
  <2> QED
    BY <2>1, <2>2
<1>7. credit' \in [Posts -> Int]
  BY DEF CreditInv
<1> QED
  BY <1>1, <1>3, <1>5, <1>6, <1>7, ExplainedOn

LEMMA CreditGiven ==
  ASSUME LoneInv, HeldInv, CreditInv, NEW j \in SocialJobs, Social(j), UpdateScore(j), astray' = astray
  PROVE  CreditInv'
<1>1. PICK K : Explained(K)
  BY DEF CreditInv
<1>2. PICK l, m, r : l = social[j] /\ m = social'[j] /\ r = l.at.q
  OBVIOUS
<1>3. /\ astray' \in Nat /\ \A q \in Posts : Beside(j, l, m, K, q)
      /\ Held(l) /\ Held(m) /\ \A i \in SocialJobs \ {j} : social'[i] = social[i]
  BY <1>1, <1>2, BesideSocial
<1>4. l.pc = "update" /\ "score" \in l.at.left /\ Written(j, "score") /\ post' = post
  BY <1>2 DEF UpdateScore, SocialAt
<1>5. /\ m.pc \in {"update", "list"} /\ m.todo = l.todo /\ m.saved = l.saved /\ m.had = l.had /\ m.got = l.got
      /\ m.at.q = r /\ (m.pc = "update" => m.at.left = l.at.left \ {"score"})
  BY <1>2, <1>4, WrittenFor
<1>6. PICK n : n = New(l, r)
  OBVIOUS
<1>7. r \in Posts /\ n \in Int /\ n = NewOf(l, "likes") + NewOf(l, "shares")
  BY <1>2, <1>3, <1>4, <1>6, GivenType DEF Working
<1>8. credit' = [credit EXCEPT ![r] = credit[r] + n]
  <2>1. credit' = [credit EXCEPT ![l.at.q] = credit[l.at.q] + AdjustedScore(j)]
    BY <1>2 DEF UpdateScore
  <2>2. AdjustedScore(j) = n
    BY <1>2, <1>7 DEF AdjustedScore, Adjusted, NewOf
  <2> QED
    BY <1>2, <2>1, <2>2
<1>9. /\ credit' \in [Posts -> Int] /\ credit'[r] = credit[r] + n
      /\ \A q \in Posts \ {r} : credit'[q] = credit[q]
  <2>1. credit \in [Posts -> Int]
    BY DEF CreditInv
  <2> QED
    BY <1>7, <1>8, <2>1
<1>10. HoldsPage(j)
  BY <1>2, <1>4 DEF HoldsPage
<1>11. ExplainedAt(K, r)'
  <2>1. r \in l.todo /\ r \notin l.saved
    BY <1>2, <1>3, <1>4 DEF Held, Working
  <2>2. ToCount(l, r) /\ Counted(m, r)
    BY <1>2, <1>4, <1>5, <2>1 DEF ToCount, Counted
  <2>3. j \notin K => Untouched(K, j, r)
    BY <1>1, <1>7, <1>10, LoneHolder
  <2>4. Beside(j, l, m, K, r) /\ credit'[r] = credit[r] + New(l, r)
    BY <1>3, <1>6, <1>7, <1>9
  <2> QED
    BY <1>4, <1>5, <1>7, <2>2, <2>3, <2>4, GiveAt
<1>12. ASSUME NEW q \in Posts \ {r} PROVE ExplainedAt(K, q)'
  <2>1. Kept(l, m, q)
    BY <1>2, <1>4, <1>5 DEF Kept, Counted, ToCount
  <2> QED
    BY <1>3, <1>4, <1>9, <2>1, KeptAt
<1>13. \A q \in Posts : ExplainedAt(K, q)'
  BY <1>11, <1>12
<1> QED
  BY <1>1, <1>3, <1>9, <1>10, <1>13, ExplainedOn

\* A run that leaves posts, because it writes their rows or because it fails.
LEMMA CreditDropped ==
  ASSUME LoneInv, HeldInv, CreditInv, NEW j \in SocialJobs, Social(j), credit' = credit, NEW l, NEW m,
         l = social[j], m = social'[j],
         \A q \in Posts :
            \/ Kept(l, m, q) /\ post'[q] = post[q]
            \/ /\ Counted(l, q) /\ ~Counted(m, q) /\ ~ToCount(m, q)
               /\ post'[q] = l.got[q] \/ (post'[q] = post[q] /\ astray' >= astray + 1),
         HoldsPage(j)' => HoldsPage(j)
  PROVE  CreditInv'
<1>1. PICK K : Explained(K)
  BY DEF CreditInv
<1>2. /\ astray' \in Nat /\ \A q \in Posts : Beside(j, l, m, K, q)
      /\ Held(l) /\ \A i \in SocialJobs \ {j} : social'[i] = social[i]
  BY <1>1, BesideSocial
<1>3. ASSUME NEW q \in Posts PROVE ExplainedAt(K, q)'
  <2>1. Beside(j, l, m, K, q) /\ credit'[q] = credit[q]
    BY <1>2
  <2>2. CASE Kept(l, m, q) /\ post'[q] = post[q]
    BY <2>1, <2>2, KeptAt
  <2>3. CASE /\ Counted(l, q) /\ ~Counted(m, q) /\ ~ToCount(m, q)
             /\ post'[q] = l.got[q] \/ (post'[q] = post[q] /\ astray' >= astray + 1)
    <3>1. HoldsPage(j)
      BY <1>2, <2>3, HoldsIs DEF HoldsPage
    <3>2. j \notin K => Untouched(K, j, q)
      BY <1>1, <3>1, LoneHolder
    <3> QED
      BY <2>1, <2>3, <3>2, DropAt
  <2> QED
    BY <2>2, <2>3
<1>4. credit' \in [Posts -> Int]
  BY DEF CreditInv
<1> QED
  BY <1>1, <1>2, <1>3, <1>4, ExplainedOn

LEMMA CreditSaved ==
  ASSUME LoneInv, HeldInv, CreditInv, NEW j \in SocialJobs, Social(j), SavePosts(j)
  PROVE  CreditInv'
<1>1. PICK l, m : l = social[j] /\ m = social'[j]
  OBVIOUS
<1>2. /\ l.pc = "post" /\ l.todo = {} /\ m.pc = "page" /\ m.todo = {} /\ m.saved = {}
      /\ post' = [q \in Posts |-> IF q \in l.saved THEN l.got[q] ELSE post[q]]
  BY <1>1, SavePostsIs DEF Becomes
<1>3. credit' = credit
  BY DEF SavePosts
<1>4. ASSUME NEW q \in Posts
      PROVE  \/ Kept(l, m, q) /\ post'[q] = post[q]
             \/ /\ Counted(l, q) /\ ~Counted(m, q) /\ ~ToCount(m, q)
                /\ post'[q] = l.got[q] \/ (post'[q] = post[q] /\ astray' >= astray + 1)
  <2>1. ~Counted(m, q) /\ ~ToCount(m, q)
    BY <1>2 DEF Counted, ToCount
  <2>2. CASE q \in l.saved
    BY <1>2, <2>1, <2>2 DEF Counted
  <2>3. CASE q \notin l.saved
    BY <1>2, <2>1, <2>3 DEF Counted, Kept
  <2> QED
    BY <2>2, <2>3
<1>5. HoldsPage(j)' => HoldsPage(j)
  BY <1>1, <1>2 DEF HoldsPage
<1> QED
  BY <1>1, <1>3, <1>4, <1>5, CreditDropped

LEMMA CreditFails ==
  ASSUME LoneInv, HeldInv, CreditInv, NEW j \in SocialJobs, Social(j), Throw(j) \/ SocialDies(j), astray' = astray + 1
  PROVE  CreditInv'
<1>1. PICK l, m : l = social[j] /\ m = social'[j]
  OBVIOUS
<1>2. UNCHANGED <<credit, post>>
  BY DEF Throw, SocialDies, tables
<1>3. \/ m = Idle /\ m.pc = "rest" /\ m.saved = {} /\ m.todo = {}
      \/ /\ l.pc \in {"post"} \cup Working
         /\ m.pc = "post" /\ m.todo = {} /\ m.saved = l.saved /\ m.had = l.had /\ m.got = l.got
  BY <1>1, ThrowIs, DiesIs, IdleShaped DEF Becomes, Keeps
<1>4. astray' >= astray + 1
  BY DEF CreditInv
<1>5. ASSUME NEW q \in Posts
      PROVE  \/ Kept(l, m, q) /\ post'[q] = post[q]
             \/ /\ Counted(l, q) /\ ~Counted(m, q) /\ ~ToCount(m, q)
                /\ post'[q] = l.got[q] \/ (post'[q] = post[q] /\ astray' >= astray + 1)
  <2>1. ~ToCount(m, q) /\ (Counted(m, q) => Counted(l, q) /\ m.had[q] = l.had[q] /\ m.got[q] = l.got[q])
    BY <1>3 DEF Counted, ToCount
  <2>2. CASE Counted(m, q) <=> Counted(l, q)
    BY <1>2, <2>1, <2>2 DEF Kept
  <2>3. CASE Counted(l, q) /\ ~Counted(m, q)
    BY <1>2, <1>4, <2>1, <2>3
  <2> QED
    BY <2>1, <2>2, <2>3
<1>6. HoldsPage(j)' => HoldsPage(j)
  BY <1>1, <1>3 DEF HoldsPage, Working
<1> QED
  BY <1>1, <1>2, <1>5, <1>6, CreditDropped

LEMMA CreditReadAstray ==
  ASSUME LoneInv, HeldInv, CreditInv, NEW j \in SocialJobs, Social(j), ReadPosts(j), social'[j] # Idle,
         UNCHANGED <<credit, post>>, astray' = astray + 1
  PROVE  CreditInv'
<1>1. PICK l, m : l = social[j] /\ m = social'[j]
  OBVIOUS
<1>2. l.pc = "page" /\ m.pc = "fetch" /\ m.saved = {}
  BY <1>1, ReadPostsIs DEF Becomes
<1>3. ~HoldsPage(j)
  BY <1>1, <1>2 DEF HoldsPage
<1>4. PICK K : Explained(K) /\ j \in K
  <2>1. PICK L : Explained(L)
    BY DEF CreditInv
  <2>2. Explained(L \cup {j}) /\ j \in L \cup {j}
    BY <1>3, <2>1, Joins
  <2> QED
    BY <2>2
<1>5. /\ astray' \in Nat /\ \A q \in Posts : Beside(j, l, m, K, q)
      /\ Held(l) /\ \A i \in SocialJobs \ {j} : social'[i] = social[i]
  BY <1>1, <1>4, BesideSocial
<1>6. ASSUME NEW q \in Posts PROVE ExplainedAt(K, q)'
  <2>1. ~Counted(l, q) /\ PendingOf(l, q) = 0
    BY <1>2, <1>5, HoldsIs
  <2>2. ~Counted(m, q)
    BY <1>2 DEF Counted
  <2>3. Beside(j, l, m, K, q) /\ credit'[q] = credit[q] /\ post'[q] = post[q]
    BY <1>5
  <2> QED
    BY <1>4, <2>1, <2>2, <2>3, RiseAt
<1>7. credit' \in [Posts -> Int]
  BY DEF CreditInv
<1> QED
  BY <1>4, <1>5, <1>6, <1>7, ExplainedOn

LEMMA CreditReadAlone ==
  ASSUME LoneInv, HeldInv, CreditInv, NEW j \in SocialJobs, Social(j), ReadPosts(j), social'[j] # Idle,
         UNCHANGED <<credit, post>>, astray' = astray, ~behind, \A i \in SocialJobs : ~HoldsPage(i)
  PROVE  CreditInv'
<1>1. PICK l, m, none : l = social[j] /\ m = social'[j] /\ none = {}
  OBVIOUS
<1>2. l.pc = "page" /\ m.pc = "fetch" /\ m.saved = {} /\ \A q \in m.todo \cap Posts : m.had[q] = post[q]
  <2>1. PICK rows \in SUBSET Posts : /\ Becomes(j, "fetch") /\ m.todo = rows /\ m.saved = {}
                                     /\ m.had = [q \in Posts |-> IF q \in rows THEN Seen.post[q] ELSE NoCounts]
    BY <1>1, ReadPostsIs
  <2>2. Seen.post = post
    BY DEF Seen, Tables
  <2>3. l.pc = "page" /\ m.pc = "fetch"
    BY <1>1, <2>1, ReadPostsIs DEF Becomes
  <2> QED
    BY <2>1, <2>2, <2>3
<1>3. \A i \in SocialJobs \ {j} : social'[i] = social[i] /\ ~HoldsPage(i)'
  BY SocialHeld DEF HoldsPage
<1>4. ASSUME NEW i \in SocialJobs, NEW q \in Posts PROVE ~Counted(social[i], q) /\ ~ToCount(social[i], q)
  <2>1. Held(social[i]) /\ social[i].pc \in {"rest", "page"}
    BY DEF HeldInv, HoldsPage
  <2> QED
    BY <2>1, HoldsIs
<1>5. PICK K : Explained(K)
  BY DEF CreditInv
<1>6. ASSUME NEW q \in Posts PROVE ExplainedAt(none, q)'
  <2>1. Fits(K, q, post[q])
    BY <1>4, <1>5 DEF Explained, ExplainedAt
  <2>2. Extra(K, q) = 0 /\ Pending(K, q) = 0
    BY <1>5, NoneHold DEF Explained
  <2>3. credit[q] \in Int /\ astray \in Int
    BY DEF CreditInv
  <2>4. Near(credit[q], post[q], astray)
    <3>1. Gap(K, q) = credit[q] /\ Slack(K, q) = astray
      BY <2>2, <2>3 DEF Gap, Slack
    <3> QED
      BY <2>1, <3>1 DEF Fits
  <2>5. Extra(none, q)' = 0 /\ Pending(none, q)' = 0
    <3>1. \A w : SumOf(none, w) = 0
      BY <1>1, SumEmpty, SumsAreSums
    <3> QED
      BY <3>1 DEF Extra, Pending
  <2>6. Gap(none, q)' = credit[q] /\ Slack(none, q)' = astray
    BY <2>3, <2>5 DEF Gap, Slack
  <2>7. PICK c : c = post[q]
    OBVIOUS
  <2>8. Fits(none, q, c)'
    BY <2>4, <2>6, <2>7 DEF Fits
  <2>9. ~Counted(m, q) /\ (ToCount(m, q) => m.had[q] = c)
    BY <1>2, <2>7 DEF Counted, ToCount
  <2>10. \A i \in SocialJobs : ~Counted(social'[i], q) /\ (ToCount(social'[i], q) => social'[i].had[q] = c)
    BY <1>1, <1>3, <1>4, <2>9
  <2> QED
    BY <2>7, <2>8, <2>10 DEF ExplainedAt, Fits
<1>7. Explained(none)'
  BY <1>1, <1>3, <1>6 DEF Explained
<1>8. credit' \in [Posts -> Int] /\ astray' \in Nat
  BY DEF CreditInv
<1> QED
  BY <1>1, <1>7, <1>8 DEF CreditInv

LEMMA CreditSocial ==
  ASSUME LoneInv, HeldInv, CreditInv, NEW j \in SocialJobs, Social(j)
  PROVE  CreditInv'
<1>1. StartSocial(j) \/ ReadPosts(j) \/ GetPosts(j) \/ ReadAuthor(j) \/ ReadTotal(j) \/ FindQuality(j) \/ CreateQuality(j)
      \/ FindDay(j) \/ CreateDay(j) \/ WriteDay(j) \/ UpdateTotal(j) \/ ListPost(j)
      => UNCHANGED <<credit, post>>
  BY Zenon DEF StartSocial, ReadPosts, GetPosts, ReadAuthor, ReadTotal, FindQuality, CreateQuality, FindDay, CreateDay,
     WriteDay, UpdateTotal, ListPost, tables
<1>2. RejectScore(j) => UNCHANGED <<credit, post>>
  BY Zenon DEF RejectScore, Throw
<1>3. CASE ReadPosts(j) /\ astray' = IF behind \/ \E i \in SocialJobs : HoldsPage(i) THEN astray + 1 ELSE astray
  <2>1. CASE social'[j] = Idle
    BY <1>1, <1>3, <2>1, CreditKeeps
  <2>2. CASE social'[j] # Idle /\ (behind \/ \E i \in SocialJobs : HoldsPage(i))
    BY <1>1, <1>3, <2>2, CreditReadAstray
  <2>3. CASE social'[j] # Idle /\ ~(behind \/ \E i \in SocialJobs : HoldsPage(i))
    <3>1. ~behind /\ \A i \in SocialJobs : ~HoldsPage(i)
      BY <2>3
    <3>2. astray' = astray
      BY <1>3, <2>3
    <3> QED
      BY <1>1, <1>3, <2>3, <3>1, <3>2, CreditReadAlone
  <2> QED
    BY <2>1, <2>2, <2>3
<1>4. CASE StartSocial(j)
  BY <1>1, <1>4, CreditKeeps
<1>5. CASE SocialStep(j)
  BY <1>1, <1>5, CreditKeeps, CreditSaved DEF SocialStep
<1>6. CASE UpdateScore(j) /\ astray' = astray
  BY <1>6, CreditGiven
<1>7. CASE RejectScore(j)
  BY <1>2, <1>7, CreditKeeps
<1>8. CASE (Throw(j) \/ SocialDies(j)) /\ astray' = astray + 1
  BY <1>8, CreditFails
<1>9. \/ StartSocial(j) \/ SocialStep(j) \/ RejectScore(j) \/ (UpdateScore(j) /\ astray' = astray)
      \/ (ReadPosts(j) /\ astray' = IF behind \/ \E i \in SocialJobs : HoldsPage(i) THEN astray + 1 ELSE astray)
      \/ ((Throw(j) \/ SocialDies(j)) /\ astray' = astray + 1)
  BY Zenon DEF Social
<1> QED
  BY <1>3, <1>4, <1>5, <1>6, <1>7, <1>8, <1>9

LEMMA CreditInit == Init => CreditInv
<1> SUFFICES ASSUME Init PROVE CreditInv
  OBVIOUS
<1>1. /\ post = [q \in Posts |-> NoCounts] /\ credit = [q \in Posts |-> 0] /\ astray = 0
      /\ social = [j \in SocialJobs |-> Idle]
  BY DEF Init, TablesInit, SocialInit
<1>2. PICK none : none = {}
  OBVIOUS
<1>3. PointsOf(NoCounts) = 0
  BY NoPoints
<1>4. ASSUME NEW q \in Posts PROVE ExplainedAt(none, q)
  <2>1. \A i \in SocialJobs : ~Counted(social[i], q) /\ ~ToCount(social[i], q)
    BY <1>1, IdleHeld, IdleShaped, HoldsIs
  <2>2. Extra(none, q) = 0 /\ Pending(none, q) = 0
    <3>1. \A w : SumOf(none, w) = 0
      BY <1>2, SumEmpty, SumsAreSums
    <3> QED
      BY <3>1 DEF Extra, Pending
  <2>3. Gap(none, q) = 0 /\ Slack(none, q) = 0
    BY <1>1, <2>2 DEF Gap, Slack
  <2>4. Near(0, NoCounts, 0)
    <3>1. MostPoints * 0 = 0
      BY WorthOfAPost
    <3> QED
      BY <1>3, <3>1 DEF Near
  <2>5. Fits(none, q, post[q])
    BY <1>1, <2>3, <2>4 DEF Fits
  <2> QED
    BY <2>1, <2>5 DEF ExplainedAt
<1>5. Explained(none)
  BY <1>1, <1>2, <1>4, IdleShaped DEF Explained, HoldsPage
<1> QED
  BY <1>1, <1>2, <1>5 DEF CreditInv

LEMMA CreditStays ==
  ASSUME CreditInv, UNCHANGED <<social, post, credit, astray>>
  PROVE  CreditInv'
<1>1. PICK K : Explained(K) /\ K \in SUBSET SocialJobs
  BY DEF CreditInv
<1>2. \A q \in Posts : \A c : Fits(K, q, c)' <=> Fits(K, q, c)
  BY DEF Fits, Gap, Slack, Extra, Pending
<1>3. \A q \in Posts : ExplainedAt(K, q) => ExplainedAt(K, q)'
  BY <1>2 DEF ExplainedAt, Fits
<1>4. Explained(K)'
  BY <1>1, <1>3 DEF Explained, HoldsPage
<1> QED
  BY <1>1, <1>4 DEF CreditInv

LEMMA CreditNext == LoneInv /\ HeldInv /\ CreditInv /\ [Next]_vars => CreditInv'
<1> SUFFICES ASSUME LoneInv, HeldInv, CreditInv, [Next]_vars PROVE CreditInv'
  OBVIOUS
<1>1. ASSUME NEW j \in SocialJobs, Social(j) PROVE CreditInv'
  BY <1>1, CreditSocial
<1>2. CASE Request
  <2>1. UNCHANGED <<social, credit, astray>>
    BY <1>2 DEF Request, socialVars
  <2>2. UNCHANGED post
    BY <1>2, Zenon DEF Request, Track, RemoveParticipation, UpdateUser, tables
  <2> QED
    BY <2>1, <2>2, CreditStays
<1>3. CASE (\E j \in QualityJobs : Quality(j)) \/ (\E j \in TallyJobs : Aggregate(j)) \/ Elsewhere \/ UNCHANGED vars
  <2>1. UNCHANGED <<social, post, credit, astray>>
    BY <1>3, Zenon DEF Quality, OnlyQuality, StartJudge, JudgeDies, QualityStep, RateParticipants, LookUpQuality, UpsertQuality,
       Aggregate, OnlyAggregate, Elsewhere, TwitterCounts, FallsBehind, CatchesUp, vars, tables, socialVars
  <2> QED
    BY <2>1, CreditStays
<1> QED
  BY <1>1, <1>2, <1>3 DEF Next

\* However runs of the social job overlap, fail or read a replica that is behind: what they
\* give for a post is what it is worth, give or take its worth once for each page that was
\* read while another run held posts, and for each run that was kept from writing its rows
\* (social and updatePostMetrics).
THEOREM RunsCreditOnce == Spec => []CreditPerRun
<1>1. HeldInv /\ CreditInv => CreditPerRun
  <2> SUFFICES ASSUME HeldInv, CreditInv, NEW q \in Posts
               PROVE  credit[q] \in -(astray * MostPoints)..((1 + astray) * MostPoints)
    BY DEF CreditPerRun
  <2>1. PICK K \in SUBSET SocialJobs : ExplainedAt(K, q)
    BY DEF CreditInv, Explained
  <2>2. PICK c \in Counts : Fits(K, q, c)
    <3>1. CASE \A j \in SocialJobs \ K : ~Counted(social[j], q)
      <4>1. Fits(K, q, post[q]) /\ post[q] \in Counts
        BY <2>1, <3>1 DEF ExplainedAt, HeldInv
      <4> QED
        BY <4>1
    <3>2. ASSUME NEW j \in SocialJobs \ K, Counted(social[j], q) PROVE \E d \in Counts : Fits(K, q, d)
      <4>1. Fits(K, q, social[j].got[q]) /\ social[j].got[q] \in Counts
        BY <2>1, <3>2 DEF ExplainedAt, HeldInv, Held
      <4> QED
        BY <4>1
    <3> QED
      BY <3>1, <3>2
  <2>3. PICK e, p, a, r, n, M : /\ e = Extra(K, q) /\ p = Pending(K, q) /\ a = astray /\ r = credit[q] /\ n = PointsOf(c)
                                /\ M = MostPoints
    OBVIOUS
  <2>4. /\ e \in Int /\ p \in Int /\ p >= 0 /\ a \in Nat /\ r \in Int /\ n \in Nat /\ n <= M /\ M \in Nat
        /\ e \in -(M * p)..(M * p)
    BY <2>3, ExtraBounded, WorthOfAPost DEF CreditInv
  <2>5. (r - e) - n \in -(M * (a - p))..(M * (a - p))
    BY <2>2, <2>3 DEF Fits, Near, Gap, Slack
  <2>6. /\ M * (a - p) = M * a - M * p /\ a * M = M * a /\ (1 + a) * M = M + M * a
        /\ M * a \in Int /\ M * p \in Int
    BY <2>4
  <2>7. PICK x, y : x = M * a /\ y = M * p
    OBVIOUS
  <2>8. r \in -x..(M + x)
    BY <2>4, <2>5, <2>6, <2>7
  <2> QED
    BY <2>3, <2>6, <2>7, <2>8
<1> QED
  BY <1>1, LoneInit, LoneNext, HeldInit, HeldNext, CreditInit, CreditNext, PTL DEF Spec
=============================================================================
