----------------------------- MODULE MCRewards -----------------------------
(***************************************************************************)
(* A limit of one for each kind of reward; pages of one or two transfers. *)
(***************************************************************************)
EXTENDS CoiinRewards, TLC

Limits == [a \in Rewards |-> 1]
Symmetry == Permutations(Users) \cup Permutations(Requests) \cup Permutations(Jobs)

=============================================================================
