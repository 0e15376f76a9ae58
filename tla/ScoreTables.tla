---------------------------- MODULE ScoreTables ----------------------------
(***************************************************************************)
(* The tables that the daily and hourly jobs over the participants of one  *)
(* open campaign read and write: posts on Twitter with the likes and       *)
(* shares counted so far, scores, the campaign's total, daily metrics and  *)
(* quality scores.  Reads of the jobs go to the replica (readPrisma)       *)
(* unless said otherwise, writes to the primary.                           *)
(***************************************************************************)
EXTENDS Integers, FiniteSetsExt, SequencesExt

CONSTANTS
    Participants,   \* each of them a user of its own
    Posts,
    Author,         \* whose post it is
    Points,         \* algorithm.pointValues of "likes" and "shares"
    MaxCount,       \* bound on the likes and on the shares of a post
    PostsPerPage,   \* posts a job reads at a time
    RowsPerPage,    \* participants or users a job reads at a time
    Gone            \* the score of a participant who left

Kinds == {"likes", "shares"}
Counts == [Kinds -> 0..MaxCount]
NoCounts == [k \in Kinds |-> 0]

ASSUME TableAssumption ==
    /\ IsFiniteSet(Participants) /\ IsFiniteSet(Posts)
    /\ Author \in [Posts -> Participants]
    /\ Points \in [Kinds -> Nat]
    /\ MaxCount \in Nat /\ PostsPerPage \in Nat \ {0} /\ RowsPerPage \in Nat \ {0}
    /\ Gone \notin Int

VARIABLES
    score,      \* participant.participationScore
    total,      \* campaign.totalParticipationScore
    daily,      \* the points in the rows of each participant's day
    post,       \* the counts in each row of social_post
    quality,    \* the rows of quality_score: with whom each participant was compared
    behind,     \* whether the read replica is behind
    old         \* if so, the tables as it has them

tables == <<score, total, daily, post, quality>>
replicaVars == <<behind, old>>

Tables == [score |-> score, total |-> total, daily |-> daily, post |-> post, quality |-> quality]
Seen == IF behind THEN old ELSE Tables

Blank == {}     \* a quality score that findByParticipantOrCreate made, all tiers zero

TablesInit ==
    /\ score = [p \in Participants |-> 0]
    /\ total = 0
    /\ daily = [p \in Participants |-> << >>]
    /\ post = [q \in Posts |-> NoCounts]
    /\ quality = [p \in Participants |-> << >>]
    /\ behind = FALSE /\ old = << >>

FallsBehind == ~behind /\ behind' = TRUE /\ old' = Tables
CatchesUp == behind /\ behind' = FALSE /\ old' = << >>

Present(seen) == {p \in Participants : seen.score[p] # Gone}

\* Sums of weights, which are functions; the rows of a day are their points.
SumOf(S, w) == MapThenSumSet(LAMBDA x : w[x], S)
Total(days) == SumOf(DOMAIN days, days)

\* skip and take over n rows without an order; those in "rows" may come.
PageCount(n, take) == (n + take - 1) \div take
OnPage(n, take, page) == Max({0, Min({take, n - page * take})})
PagesOf(rows, n, take, page) == kSubset(Min({OnPage(n, take, page), Cardinality(rows)}), rows)

=============================================================================
