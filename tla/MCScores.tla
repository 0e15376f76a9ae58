------------------------------ MODULE MCScores ------------------------------
(***************************************************************************)
(* Each behaviour has one of the budgets below: two social jobs side by    *)
(* side with a failure, runs of the social job one after the other with    *)
(* changes on Twitter, a lag or requests in between, and the jobs beside   *)
(* each other with what else writes the tables they read.                  *)
(*                                                                         *)
(* Two participants with a post each and a page of the social job for      *)
(* both posts; participants and users come one to a page, so that the      *)
(* other jobs need two.  The points of a like and of a share differ so     *)
(* that sums tell them apart.                                              *)
(***************************************************************************)
EXTENDS ScoreJobs, TLC

CONSTANTS p1, p2, q1, q2

SomeAuthor == q1 :> p1 @@ q2 :> p2
SomePoints == [k \in Kinds |-> IF k = "likes" THEN 1 ELSE 2]
Symmetry == Permutations(SocialJobs) \cup Permutations(QualityJobs)

Budget(counts) == counts @@ [h \in Happenings |-> 0]
SomeBudgets == {
    Budget("social" :> 2 @@ "overlap" :> 1 @@ "failure" :> 1),
    Budget("social" :> 2 @@ "twitter" :> 1 @@ "lag" :> 1),
    Budget("social" :> 2 @@ "twitter" :> 1 @@ "track" :> 1 @@ "leave" :> 1),
    Budget("social" :> 3 @@ "twitter" :> 2),
    Budget("social" :> 1 @@ "judge" :> 1 @@ "overlap" :> 1 @@ "lag" :> 1),
    Budget("social" :> 1 @@ "judge" :> 1 @@ "tally" :> 1 @@ "overlap" :> 2),
    Budget("social" :> 1 @@ "judge" :> 1 @@ "tally" :> 2 @@ "track" :> 1 @@ "leave" :> 1),
    Budget("judge" :> 2 @@ "overlap" :> 1 @@ "track" :> 1 @@ "lag" :> 1),
    Budget("judge" :> 2 @@ "overlap" :> 1 @@ "leave" :> 1 @@ "failure" :> 1),
    Budget("tally" :> 2 @@ "track" :> 1 @@ "user" :> 1 @@ "leave" :> 1 @@ "failure" :> 1)}
=============================================================================
