--------------------------- MODULE MCAuditOverlap ---------------------------
(***************************************************************************)
(* Two overlapping jobs over one campaign of two participants on a page    *)
(* each, with a third who may join between them; a replica that lags; and  *)
(* users and admins who keep going.  Jobs                                  *)
(* are interchangeable, so runs without liveness may use JobSymmetry.      *)
(***************************************************************************)
EXTENDS CampaignAudit, TLC

CONSTANTS c1, j1, j2

MCTier(filled, threshold, coiins) ==
    [filled |-> filled, threshold |-> threshold, totalCoiins |-> coiins]

MCTiers == c1 :> <<MCTier(TRUE, 1, 20), MCTier(FALSE, 0, 0)>>

MCMembers == c1 :> {1, 3}
MCScores == c1 :> (1 :> 1 @@ 2 :> 0 @@ 3 :> 2)

MCBudget == c1 :> 3000

MCAmounts == {Share(c, t, s) : c \in Campaigns, t \in Totals, s \in Scores}

JobSymmetry == Permutations(Jobs)

=============================================================================
