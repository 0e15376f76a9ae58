--------------------------- MODULE MCParticipation ---------------------------
(***************************************************************************)
(* Two requests that may overlap, over a lagging replica.  One user takes  *)
(* part from the start and an id is left for each of two joins, so that    *)
(* one user can leave and come back and two joins can meet.  Views stand   *)
(* for both actions of track-action, clicks for the redirect; their points *)
(* differ so that sums tell them apart.  Who posts may be new here.  A call *)
(* that rejects takes one of the three events.  Requests are               *)
(* interchangeable for safety.                                             *)
(***************************************************************************)
EXTENDS Participation, TLC

CONSTANTS p1, p2, p3, u1, u2

OneMember == p1 :> u1
SomePoints == [a \in Actions |-> CASE a = "views" -> 1 [] a = "submissions" -> 2 [] OTHER -> 3]
SomeKinds == {"views", "clicks", "join", "leave", "post"}
Symmetry == Permutations(Requests)

=============================================================================
