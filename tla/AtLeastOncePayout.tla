--------------------------- MODULE AtLeastOncePayout ---------------------------
(***************************************************************************)
(* What the audit promises a campaign's participants, without jobs, pages, *)
(* blockages or accounts: a reward may be paid more than once as long as   *)
(* it is not yet settled, a settled reward is never paid again, and a      *)
(* campaign is closed only when everything it owes is settled.             *)
(***************************************************************************)
EXTENDS Naturals

CONSTANTS
    Campaigns,
    Claims,     \* what can be paid
    Owed        \* the claims each campaign has to meet

VARIABLES
    payments,   \* how often each claim was paid
    settled,    \* claims on record as paid
    closed      \* campaigns that count as audited

vars == <<payments, settled, closed>>

Init ==
    /\ payments = [r \in Claims |-> 0]
    /\ settled = {}
    /\ closed = {}

Pay ==
    /\ payments' \in [Claims -> Nat]
    /\ \A r \in Claims :
          \/ payments'[r] = payments[r]
          \/ r \notin settled /\ payments'[r] = payments[r] + 1
    /\ UNCHANGED <<settled, closed>>

Settle ==
    /\ settled' \in SUBSET Claims
    /\ settled \subseteq settled'
    /\ \A r \in settled' : payments[r] > 0
    /\ UNCHANGED <<payments, closed>>

Close(c) ==
    /\ Owed[c] \subseteq settled
    /\ closed' = closed \cup {c}
    /\ UNCHANGED <<payments, settled>>

Reopen(c) ==
    /\ closed' = closed \ {c}
    /\ UNCHANGED <<payments, settled>>

Next == Pay \/ Settle \/ \E c \in Campaigns : Close(c) \/ Reopen(c)

Spec == Init /\ [][Next]_vars

=============================================================================
