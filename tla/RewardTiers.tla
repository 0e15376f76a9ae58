----------------------------- MODULE RewardTiers -----------------------------
(***************************************************************************)
(* The reward arithmetic of controllers/helpers.ts: which tier of a        *)
(* campaign's algorithm a participation score reaches, the pool that tier  *)
(* pays, the platform's fee on it and one participant's share of the rest. *)
(*                                                                         *)
(* A tier table is a sequence of entries, key "1" first.  The form always  *)
(* submits a fixed number of keys and leaves the unused ones as blank      *)
(* strings, so an entry carries a flag that says whether it is filled in.  *)
(* A tier pays whole tokens; fees and shares are counted in the fraction   *)
(* of a token in which the code's decimals are exact (see below).          *)
(***************************************************************************)
EXTENDS Integers, Sequences, FiniteSets

Tier == [filled : BOOLEAN, threshold : Nat, totalCoiins : Nat]

\* A table the admin form can submit: at least one tier, the filled ones first
\* and in increasing order of threshold.
IsTierTable(tiers) ==
    /\ tiers \in Seq(Tier)
    /\ tiers # << >>
    /\ tiers[1].filled
    /\ \A k, l \in DOMAIN tiers : k < l /\ tiers[l].filled =>
          tiers[k].filled /\ tiers[k].threshold < tiers[l].threshold

NumOfTiers(tiers) == Cardinality({k \in DOMAIN tiers : tiers[k].filled})

\* The keys at which the scan of the table stops: the first tier that the score
\* has not reached, or the first blank one.
StopsAt(totalParticipation, tiers) ==
    {k \in DOMAIN tiers : tiers[k].filled => totalParticipation < tiers[k].threshold}

\* The entry reported when the scan falls off the end of the table.
BaseTier == [currentTier |-> 1, currentTotal |-> 1]

TierAt(tiers, k) == [currentTier |-> k, currentTotal |-> tiers[k].totalCoiins]

\* The key at which the scan stopped, instead of the one before it.
StoppedKey(k) == k

PreviousKey(k) == IF k < 2 THEN 1 ELSE k - 1

FirstOf(keys) == CHOOSE k \in keys : \A l \in keys : k <= l

CalculateTier(totalParticipation, tiers) ==
    LET top == NumOfTiers(tiers)
        stops == StopsAt(totalParticipation, tiers)
    IN  IF totalParticipation > tiers[top].threshold
        THEN TierAt(tiers, top)
        ELSE IF stops # {}
             THEN TierAt(tiers, PreviousKey(FirstOf(stops)))
             ELSE BaseTier

-----------------------------------------------------------------------------
(* BigNumber multiplies exactly and divides to a number of decimal places, *)
(* half a unit of the last place rounded up.  With precision units to 1    *)
(* (10^20 in the code), a fee rate of one part in feeDivisor and amounts   *)
(* counted in feeDivisor * precision units to a token, every amount the    *)
(* code computes is a whole number of units.                               *)

\* The fee on a pool of so many tokens.
CampaignFee(tokens, precision) == tokens * precision

\* What the fee leaves of them, in parts of feeDivisor to a token.
AfterCampaignFee(tokens, feeDivisor) == tokens * (feeDivisor - 1)

\* score / totalScore, rounded half up.
Percentage(totalScore, score, precision) ==
    (2 * score * precision + totalScore) \div (2 * totalScore)

\* A participant's share of what the fee leaves: the product is not rounded.
CalculateParticipantPayout(rest, totalScore, score, precision) ==
    IF totalScore = 0 THEN 0 ELSE rest * Percentage(totalScore, score, precision)

=============================================================================
