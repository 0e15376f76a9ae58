---------------------------- MODULE MCAuditRetry ----------------------------
(***************************************************************************)
(* One job at a time, dying up to twice at any point, over two campaigns   *)
(* of one organisation whose scores stand still.  c1 has three pages and   *)
(* scores whose shares round up to more than the whole; c2 has two, one of *)
(* them with nothing to pay, is the platform's own and pays no fee.  c3 is *)
(* a raffle that an admin may send to be audited.                          *)
(***************************************************************************)
EXTENDS CampaignAudit, TLC

CONSTANTS c1, c2, c3, j1

MCTier(filled, threshold, coiins) ==
    [filled |-> filled, threshold |-> threshold, totalCoiins |-> coiins]

MCTiers == (c1 :> <<MCTier(TRUE, 1, 10), MCTier(TRUE, 8, 30), MCTier(FALSE, 0, 0)>>)
        @@ (c2 :> <<MCTier(TRUE, 1, 5), MCTier(TRUE, 6, 10), MCTier(FALSE, 0, 0)>>)
        @@ (c3 :> <<MCTier(TRUE, 1, 10)>>)

MCMembers == (c1 :> {1, 2, 3}) @@ (c2 :> {1, 3}) @@ (c3 :> {})
MCScores == (c1 :> (1 :> 1 @@ 2 :> 1 @@ 3 :> 4)) @@ (c2 :> (1 :> 0 @@ 2 :> 0 @@ 3 :> 6))
         @@ (c3 :> (1 :> 0 @@ 2 :> 0 @@ 3 :> 0))

\* Deaths and a reopening draw fees and shares again: the organisation has blocked
\* enough for the audit to come to an end all the same.
MCBudget == (c1 :> 3500) @@ (c2 :> 3500) @@ (c3 :> 0)

MCAmounts == {Share(c, t, s) : c \in Campaigns, t \in Totals, s \in Scores}

=============================================================================
