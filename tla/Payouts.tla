------------------------------ MODULE Payouts ------------------------------
(***************************************************************************)
(* A user's way to a blockchain: identity verification, then withdrawals.  *)
(* TatumController.withdraw asks, on the replica, whether an application   *)
(* of the second level is approved, and for nothing else of Kyc.           *)
(***************************************************************************)
EXTENDS Kyc, Withdrawal

CONSTANTS
    Owner,      \* the user whose account it is
    Scenarios   \* bounds: how many applications, overlaps and unfounded webhooks there are (no
                \* applications: nobody registers), who withdraws, how often, how many failures

ASSUME PayoutAssumption ==
    /\ Owner \in Users
    /\ Scenarios \subseteq [applications : Nat, overlaps : Nat, unfounded : Nat,
                        withdraws : SUBSET Requests, withdrawals : Nat, failures : Nat]

VARIABLES scenario

payoutVars == <<vars, kycVars, scenario>>

\* Without registrations the user has been identified before.
Identified ==
    /\ verdict = [level \in 1..2 |-> [of |-> Owner, level |-> level, state |-> "A"]]
    /\ record = [level \in 1..2 |-> [of |-> Owner, level |-> level, app |-> level, status |-> "APPROVED"]]
    /\ recordReplica = record
    /\ handler = [h \in Handlers |-> Resting]
    /\ overlaps = 0 /\ unfounded = {}

PayoutInit ==
    /\ scenario \in Scenarios
    /\ Init
    /\ IF scenario.applications > 0 THEN KycInit ELSE Identified

Register ==
    /\ scenario.applications > 0
    /\ KycNext
    /\ Len(verdict') <= scenario.applications
    /\ overlaps' <= scenario.overlaps /\ Cardinality(unfounded') <= scenario.unfounded
    /\ UNCHANGED <<vars, scenario>>

IsLevel2Approved == MaybeApproved(Owner, 2)

GatedWithdraw(r) ==
    /\ At(r, "rest") => IsLevel2Approved
    /\ Withdraw(r)
    /\ Len(withdrawal') <= scenario.withdrawals /\ failures' <= scenario.failures
    /\ UNCHANGED <<kycVars, scenario>>

Copy == (Replicate \/ Sync) /\ UNCHANGED <<kycVars, scenario>>

PayoutNext == Register \/ (\E r \in scenario.withdraws : GatedWithdraw(r)) \/ Copy

PayoutSpec == PayoutInit /\ [][PayoutNext]_payoutVars

\* Kubernetes starts the job again and again.
FairPayoutSpec == PayoutSpec /\ WF_payoutVars(Sync /\ UNCHANGED <<kycVars, scenario>>)

-----------------------------------------------------------------------------
\* Acuant approved the application, or a webhook may have said so in its place.
Passed(a, level) ==
    /\ verdict[a].of = Owner /\ verdict[a].level = level
    /\ verdict[a].state = "A" \/ a \in unfounded

\* Money leaves for a chain only after an application of the second level was approved and
\* before it one of the first, both of this user and each by Acuant or by a webhook about
\* that very application, whatever handlers overlapped and however late the verdicts came
\* (TatumController 141, KycController 113).
WithdrawalsIdentified ==
    withdrawal # << >> => \E a, b \in DOMAIN verdict : a < b /\ Passed(a, 1) /\ Passed(b, 2)
=============================================================================
