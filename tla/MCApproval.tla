----------------------------- MODULE MCApproval -----------------------------
(***************************************************************************)
(* A crypto campaign and a raffle, or a campaign in coiin, of one          *)
(* organisation whose funds cover two of three approvals.                  *)
(***************************************************************************)
EXTENDS CampaignApproval, TLC

CONSTANTS c1, c2
Budgets == [c \in Campaigns |-> IF c = c1 THEN 2 ELSE 1]
Symmetry == Permutations(Decisions)

=============================================================================
