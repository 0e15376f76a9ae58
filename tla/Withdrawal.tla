----------------------------- MODULE Withdrawal -----------------------------
(***************************************************************************)
(* Withdrawals from one account to a blockchain                            *)
(* (TatumController.withdraw, TatumService.withdrawFundsToBlockchain), by  *)
(* the path of ETH, BSC and MATIC: Tatum stores the withdrawal, a custodial*)
(* wallet sends it, Tatum completes it, and if one of the two fails it is  *)
(* cancelled.  Then the transfer is recorded, the fee is collected, and    *)
(* the balance in the database is written from what was read before.  A    *)
(* job writes there what Tatum says (fixTransfer, updateTatumBalances).    *)
(*                                                                         *)
(* Tatum's ledger and the chain are external: what they promise is taken   *)
(* from how the code calls them.  A call may reject, it may take effect    *)
(* and its answer be lost, and the process may die between any two.        *)
(***************************************************************************)
EXTENDS Integers, FiniteSets, Sequences

CONSTANTS
    Requests,       \* requests to withdraw that may be under way together
    Balance,        \* what the account holds at first
    Amount, Fee,    \* what is asked for each time, and the part of it that is the fee
    SubCustodial,   \* whether the fee is collected in the ledger: tokens, not native coins
    Lagging,        \* whether the replica may be behind
    MaxWithdrawals, \* bound on withdrawals that are stored
    MaxFailures     \* bound on calls that reject, answers that are lost and deaths

ASSUME WithdrawalAssumption ==
    /\ IsFiniteSet(Requests)
    /\ {Balance, Amount, Fee, MaxWithdrawals, MaxFailures} \subseteq Nat
    /\ Fee < Amount
    /\ SubCustodial \in BOOLEAN /\ Lagging \in BOOLEAN

VARIABLES
    available,      \* the account's balance in Tatum's ledger
    withdrawal,     \* the withdrawals Tatum stored, each with what became of it
    recorded,       \* the balance in the database
    replica,        \* the same, as the reader sees it
    request,        \* the requests
    sync,           \* the job that copies balances from Tatum
    failures

vars == <<available, withdrawal, recorded, replica, request, sync, failures>>
ledger == <<available, withdrawal>>
books == <<recorded, replica>>

Statuses == {"stored", "completed", "cancelled"}
Fees == {"none", "moved", "recorded"}
Withdrawals == [status : Statuses, sent : BOOLEAN, row : BOOLEAN, fee : Fees]
NewWithdrawal == [status |-> "stored", sent |-> FALSE, row |-> FALSE, fee |-> "none"]

\* Where a request is, its withdrawal (0: none) and the balance it read.
Idle == [pc |-> "rest", id |-> 0, seen |-> 0]
NoSync == [pc |-> "rest", seen |-> 0]

Init ==
    /\ available = Balance
    /\ withdrawal = << >>
    /\ recorded = Balance /\ replica = Balance
    /\ request = [r \in Requests |-> Idle]
    /\ sync = NoSync
    /\ failures = 0

\* What readPrisma shows.
Seen == IF Lagging THEN replica ELSE recorded
Replicate ==
    /\ Lagging /\ replica # recorded
    /\ replica' = recorded
    /\ UNCHANGED <<ledger, recorded, request, sync, failures>>

-----------------------------------------------------------------------------
(* Steps of a request *)

At(r, label) == request[r].pc = label
Mine(r) == withdrawal[request[r].id]
Become(r, local) == request' = [request EXCEPT ![r] = local]
Goto(r, label) == Become(r, IF label = "rest" THEN Idle ELSE [request[r] EXCEPT !.pc = label])

\* Who catches the error of a call.  An error in sending or completing cancels the
\* withdrawal, one in collecting the fee is passed over, every other ends the request.
OnError(label) ==
    CASE label \in {"send", "complete"} -> "cancel"
      [] label \in {"fee", "fee row"} -> "update"
      [] OTHER -> "rest"

Fail == failures < MaxFailures /\ failures' = failures + 1

\* The call took effect; its answer arrives or is lost.
Proceed(r, label) ==
    \/ Goto(r, label) /\ UNCHANGED failures
    \/ Goto(r, OnError(request[r].pc)) /\ Fail

\* The user, the token of the verification and the currency are looked up: the currency
\* on the replica, with the balance that is written back at the end.
ReceiveWithdraw(r) ==
    /\ At(r, "rest")
    /\ Become(r, [pc |-> "check", id |-> 0, seen |-> Seen])
    /\ UNCHANGED <<ledger, books, sync, failures>>

CheckBalance(r) ==
    /\ At(r, "check")
    /\ Goto(r, IF available >= Amount THEN "store" ELSE "rest")
    /\ UNCHANGED <<ledger, books, sync, failures>>

\* A ledger that trusts the check.
StoreUnchecked(r) ==
    LET stored == Append(withdrawal, NewWithdrawal)
        next == [request[r] EXCEPT !.pc = "send", !.id = Len(stored)]
    IN  /\ At(r, "store") /\ Len(withdrawal) < MaxWithdrawals
        /\ withdrawal' = stored
        /\ available' = available - (Amount - Fee)
        /\ \/ Become(r, next) /\ UNCHANGED failures
           \/ Become(r, Idle) /\ Fail
        /\ UNCHANGED <<books, sync>>

\* Tatum takes the amount without the fee; it refuses what the account does not hold.
StoreWithdrawal(r) ==
    LET stored == Append(withdrawal, NewWithdrawal)
        next == [request[r] EXCEPT !.pc = "send", !.id = Len(stored)]
    IN  /\ At(r, "store") /\ Len(withdrawal) < MaxWithdrawals
        /\ \/ /\ available >= Amount - Fee
              /\ withdrawal' = stored
              /\ available' = available - (Amount - Fee)
              /\ \/ Become(r, next) /\ UNCHANGED failures
                 \/ Become(r, Idle) /\ Fail
           \/ /\ available < Amount - Fee
              /\ Become(r, Idle)
              /\ UNCHANGED <<ledger, failures>>
        /\ UNCHANGED <<books, sync>>

SendToChain(r) ==
    /\ At(r, "send")
    /\ withdrawal' = [withdrawal EXCEPT ![request[r].id] = [Mine(r) EXCEPT !.sent = TRUE]]
    /\ Proceed(r, "complete")
    /\ UNCHANGED <<available, books, sync>>

\* A withdrawal that is left open after it was sent.
LeaveOpen(r) ==
    /\ At(r, "complete")
    /\ Proceed(r, "row")
    /\ UNCHANGED <<ledger, books, sync>>

CompleteWithdrawal(r) ==
    /\ At(r, "complete")
    /\ withdrawal' = [withdrawal EXCEPT ![request[r].id] = [Mine(r) EXCEPT !.status = "completed"]]
    /\ Proceed(r, "row")
    /\ UNCHANGED <<available, books, sync>>

\* The account gets back what was taken, whether or not it was sent; Tatum refuses to
\* cancel what is complete.  The request ends with an error in any case.
CancelWithdrawal(r) ==
    /\ At(r, "cancel")
    /\ IF Mine(r).status = "stored"
       THEN /\ withdrawal' = [withdrawal EXCEPT ![request[r].id] = [Mine(r) EXCEPT !.status = "cancelled"]]
            /\ available' = available + (Amount - Fee)
       ELSE UNCHANGED ledger
    /\ Become(r, Idle)
    /\ UNCHANGED <<books, sync, failures>>

SaveTransfer(r) ==
    /\ At(r, "row")
    /\ withdrawal' = [withdrawal EXCEPT ![request[r].id] = [Mine(r) EXCEPT !.row = TRUE]]
    /\ Proceed(r, IF SubCustodial THEN "fee" ELSE "update")
    /\ UNCHANGED <<available, books, sync>>

TransferFee(r) ==
    /\ At(r, "fee")
    /\ IF available >= Fee
       THEN /\ available' = available - Fee
            /\ withdrawal' = [withdrawal EXCEPT ![request[r].id] = [Mine(r) EXCEPT !.fee = "moved"]]
            /\ Proceed(r, "fee row")
       ELSE Goto(r, OnError("fee")) /\ UNCHANGED <<ledger, failures>>
    /\ UNCHANGED <<books, sync>>

SaveFee(r) ==
    /\ At(r, "fee row")
    /\ withdrawal' = [withdrawal EXCEPT ![request[r].id] = [Mine(r) EXCEPT !.fee = "recorded"]]
    /\ Proceed(r, "update")
    /\ UNCHANGED <<available, books, sync>>

\* The fee taken off again, on top of the amount.
UpdateBalanceTwice(r) ==
    /\ At(r, "update")
    /\ recorded' = request[r].seen - Amount - Fee
    /\ Become(r, Idle)
    /\ UNCHANGED <<ledger, replica, sync, failures>>

UpdateBalance(r) ==
    /\ At(r, "update")
    /\ recorded' = request[r].seen - Amount
    /\ Become(r, Idle)
    /\ UNCHANGED <<ledger, replica, sync, failures>>

\* The next call rejects, or the process dies.
Reject(r) ==
    /\ ~At(r, "rest")
    /\ \E label \in {OnError(request[r].pc), "rest"} : Goto(r, label)
    /\ Fail
    /\ UNCHANGED <<ledger, books, sync>>

-----------------------------------------------------------------------------
(* The job: a page of balances is fetched, then written in one transaction. *)

FetchBalances ==
    /\ sync.pc = "rest"
    /\ sync' = [pc |-> "write", seen |-> available]
    /\ UNCHANGED <<ledger, books, request, failures>>

\* A job that only takes money off.
WriteLower ==
    /\ sync.pc = "write"
    /\ recorded' = IF sync.seen < recorded THEN sync.seen ELSE recorded
    /\ sync' = NoSync
    /\ UNCHANGED <<ledger, replica, request, failures>>

WriteBalances ==
    /\ sync.pc = "write"
    /\ recorded' = sync.seen
    /\ sync' = NoSync
    /\ UNCHANGED <<ledger, replica, request, failures>>

-----------------------------------------------------------------------------
Withdraw(r) ==
    \/ ReceiveWithdraw(r) \/ CheckBalance(r)
    \/ StoreWithdrawal(r) \/ SendToChain(r) \/ CompleteWithdrawal(r) \/ CancelWithdrawal(r)
    \/ SaveTransfer(r) \/ TransferFee(r) \/ SaveFee(r) \/ UpdateBalance(r)
    \/ Reject(r)

Sync == FetchBalances \/ WriteBalances

Next == Replicate \/ Sync \/ \E r \in Requests : Withdraw(r)

Spec == Init /\ [][Next]_vars

\* Kubernetes starts the job again and again.  A request may stop anywhere.
FairSpec == Spec /\ WF_vars(Sync)

-----------------------------------------------------------------------------
(* Properties *)

InFlight == {request[r].id : r \in Requests}

\* A request that works on a withdrawal works on one that is stored in the ledger, each on
\* its own, and the account is never overdrawn.
TypeOK ==
    /\ available \in Nat /\ withdrawal \in Seq(Withdrawals)
    /\ recorded \in Int /\ replica \in Int /\ sync.seen \in Nat /\ failures \in Nat
    /\ \A r \in Requests :
          LET l == request[r]
          IN  /\ l.pc \in {"send", "complete", "cancel", "row", "fee", "fee row", "update"}
                    => l.id \in DOMAIN withdrawal
              /\ l.pc \in {"rest", "check", "store"} => l.id = 0
              /\ \A s \in Requests : l.id # 0 /\ request[s].id = l.id => s = r

\* What was sent is complete and on record, what was not is cancelled, and so is a fee.
Consistent(w) ==
    \/ w.status = "completed" /\ w.sent /\ w.row /\ w.fee # "moved"
    \/ w.status = "cancelled" /\ ~w.sent

\* A withdrawal that nobody works on any more and that is left inconsistent - stored for
\* good, sent and refunded, complete but not on record - took a failure of its own
\* (TatumService 407-427, 480-514).
Stranded == {w \in DOMAIN withdrawal : ~Consistent(withdrawal[w]) /\ w \notin InFlight}
StrandedPerFailure == Cardinality(Stranded) <= failures

\* However late a balance is written, the database shows no less than what is left if
\* every withdrawal ever stored had gone through: updates may be lost, but none is taken
\* off twice (TatumController 176-180, fixTransfer 172-180).
NotUnderstated == recorded + Amount * Len(withdrawal) >= Balance

\* Once no more is withdrawn the database gets to agree with the ledger, because the job
\* overwrites what requests left behind, and stays so.
Converges == <>[](recorded = available)

=============================================================================
