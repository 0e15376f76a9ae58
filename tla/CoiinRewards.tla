---------------------------- MODULE CoiinRewards ----------------------------
(***************************************************************************)
(* Rewards in coiin: a user who logs in or shares gets a PENDING transfer, *)
(* so many in a window (UserService.transferCoiinReward), and a job that   *)
(* runs every six hours pays what is open (cron/fixTransfer).  The job     *)
(* marks each transfer of a page SUCCEEDED and then pays the page in one   *)
(* batch.  Admins move coiin at once and leave transfers behind, too       *)
(* (TatumController.transferCrypto).                                       *)
(*                                                                         *)
(* Amounts are left out: each transfer is worth one coin.                  *)
(***************************************************************************)
EXTENDS Naturals, FiniteSets, Sequences

CONSTANTS
    Users,
    Org,            \* the wallet of the admin's organisation
    Raiinmaker,     \* the wallet whose account pays
    Requests,       \* requests for a reward that may be under way together
    Admins,         \* transfers that admins make, which may overlap
    MoveKinds,      \* what they do: ADD to a user's wallet, REMOVE from it, or either
    Jobs,           \* settling jobs that may overlap
    Rewards,        \* LOGIN_REWARD, PARTICIPATION_REWARD, SHARING_REWARD, or some of them
    Limit,          \* how many of each a user gets in a window
    PageSize,
    Funds,          \* what Raiinmaker's own account holds at first
    Lagging,        \* whether the replica may be behind
    MaxTransfers,   \* bound on the length of the table
    MaxFailures,    \* bound on calls that reject
    MaxAborts,      \* bound on jobs that end early
    MaxTopUps       \* bound on what is paid into the account of Raiinmaker

Wallets == Users \cup {Org, Raiinmaker}
Actions == Rewards \cup {"TRANSFER", "COIIN_PURCHASE"}
Statuses == {"PENDING", "FAILED", "SUCCEEDED"}

ASSUME RewardAssumption ==
    /\ IsFiniteSet(Requests) /\ IsFiniteSet(Jobs)
    /\ MoveKinds \subseteq {"ADD", "REMOVE"}
    /\ {Org, Raiinmaker} \cap Users = {} /\ Org # Raiinmaker
    /\ {"TRANSFER", "COIIN_PURCHASE"} \cap Rewards = {}
    /\ Limit \in [Rewards -> Nat \ {0}]
    /\ PageSize \in Nat \ {0} /\ Lagging \in BOOLEAN
    /\ {Funds, MaxTransfers, MaxFailures, MaxAborts, MaxTopUps} \subseteq Nat

VARIABLES
    transfer,   \* the table of transfers, in the order of their creation
    paid,       \* how often Tatum credited the wallet of each of them
    replica,    \* the table as the reader sees it
    request,    \* the requests for a reward
    admin,      \* the transfers of admins
    job,        \* the settling jobs
    funds,      \* what Raiinmaker's own account holds
    \* -- history and bounds
    aborted,    \* jobs that ended early
    failures, topUps

vars == <<transfer, paid, replica, request, admin, job, funds, aborted, failures, topUps>>
table == <<transfer, paid>>
others == <<admin, failures, topUps>>

NewTransfer(w, action, type, status) ==
    [wallet |-> w, action |-> action, type |-> type, status |-> status, recent |-> TRUE]
Transfer == [wallet : Wallets, action : Actions, type : {"CREDIT", "DEBIT"},
             status : Statuses, recent : BOOLEAN]

NoRequest == [pc |-> "rest", user |-> Org, reward |-> "none"]
NoMove == [pc |-> "rest", user |-> Org, kind |-> "none", moved |-> FALSE]
MoveDone == [NoMove EXCEPT !.pc = "done"]
NoJob == [pc |-> "rest", pages |-> 0, page |-> 0, todo |-> {}, batch |-> {}]

Init ==
    /\ transfer = << >> /\ paid = << >> /\ replica = << >>
    /\ request = [r \in Requests |-> NoRequest]
    /\ admin = [a \in Admins |-> NoMove]
    /\ job = [j \in Jobs |-> NoJob]
    /\ funds = Funds
    /\ aborted = 0 /\ failures = 0 /\ topUps = 0

\* What readPrisma shows.
Seen == IF Lagging THEN replica ELSE transfer
Replicate ==
    /\ Lagging /\ replica # transfer
    /\ replica' = transfer
    /\ UNCHANGED <<table, request, job, funds, aborted, others>>

\* The transfers of this user and kind that count in the current window.
Counted(t, u, a) == {i \in DOMAIN t : t[i].wallet = u /\ t[i].action = a /\ t[i].recent}
\* A query that leaves out the status.
OpenAll(t) == DOMAIN t
Open(t) == {i \in DOMAIN t : t[i].status # "SUCCEEDED"}

-----------------------------------------------------------------------------
(* Requests for a reward *)

Ask(r, local) == request' = [request EXCEPT ![r] = local]

ReceiveRequest(r) ==
    /\ request[r].pc = "rest" /\ Len(transfer) < MaxTransfers
    /\ \E u \in Users, a \in Rewards : Ask(r, [pc |-> "look", user |-> u, reward |-> a])
    /\ UNCHANGED <<table, replica, job, funds, aborted, others>>

\* A look-up that lets one more through.
LookUpOffByOne(r) ==
    LET l == request[r]
    IN  /\ l.pc = "look"
        /\ Ask(r, IF Cardinality(Counted(Seen, l.user, l.reward)) <= Limit[l.reward]
                  THEN [l EXCEPT !.pc = "create"] ELSE NoRequest)
        /\ UNCHANGED <<table, replica, job, funds, aborted, others>>

\* Sharing is counted twice, right after another; the second count decides, the first
\* one only refuses more.  Accounts are older than a day, so that a login counts.
LookUp(r) ==
    LET l == request[r]
    IN  /\ l.pc = "look"
        /\ Ask(r, IF Cardinality(Counted(Seen, l.user, l.reward)) < Limit[l.reward]
                  THEN [l EXCEPT !.pc = "create"] ELSE NoRequest)
        /\ UNCHANGED <<table, replica, job, funds, aborted, others>>

NewReward(r) ==
    LET l == request[r]
    IN  /\ l.pc = "create" /\ Len(transfer) < MaxTransfers
        /\ transfer' = Append(transfer, NewTransfer(l.user, l.reward, "CREDIT", "PENDING"))
        /\ paid' = Append(paid, 0)
        /\ Ask(r, NoRequest)
        /\ UNCHANGED <<replica, job, funds, aborted, others>>

\* Transfers that leave the window: those of a week together, at its end; those for
\* sharing one by one, a day after their creation.
Leaving ==
    {{i \in DOMAIN transfer : transfer[i].action \in Rewards \ {"SHARING_REWARD"}}}
    \cup {{i \in 1..n : transfer[i].action = "SHARING_REWARD"} : n \in DOMAIN transfer}
Aged(t, old) == [i \in DOMAIN t |-> IF i \in old THEN [t[i] EXCEPT !.recent = FALSE] ELSE t[i]]

WindowEnds ==
    /\ \E old \in Leaving :
          /\ \E i \in old : transfer[i].recent
          /\ transfer' = Aged(transfer, old)
          /\ replica' = Aged(replica, old)
    /\ UNCHANGED <<paid, request, job, funds, aborted, others>>

(* Transfers of admins *)

\* An admin adds coiin to a user's wallet or takes some.  Balance and amount are compared
\* as strings, so whether they are moved is open.  If Tatum rejects, nothing is written.
TransferCrypto(a) ==
    /\ admin[a].pc = "rest" /\ Len(transfer) + 2 <= MaxTransfers
    /\ \E u \in Users, kind \in MoveKinds, moved \in BOOLEAN :
          admin' = [admin EXCEPT ![a] = [pc |-> "credit", user |-> u, kind |-> kind, moved |-> moved]]
    /\ UNCHANGED <<table, replica, request, job, funds, aborted, failures, topUps>>

\* Moved or not, the two sides are written, one after the other; an ADD is PENDING anyway.
\* A request that dies between them goes no further.
MoveRow(l, type) ==
    NewTransfer(IF (l.kind = "ADD") = (type = "CREDIT") THEN l.user ELSE Org, "TRANSFER", type,
                IF l.moved \/ l.kind = "ADD" THEN "PENDING" ELSE "FAILED")

RecordMove(a, type, next) ==
    /\ Len(transfer) < MaxTransfers
    /\ transfer' = Append(transfer, MoveRow(admin[a], type))
    /\ paid' = Append(paid, IF admin[a].moved /\ type = "CREDIT" THEN 1 ELSE 0)
    /\ admin' = [admin EXCEPT ![a] = next]
    /\ UNCHANGED <<replica, request, job, funds, aborted, failures, topUps>>

CreditMove(a) == admin[a].pc = "credit" /\ RecordMove(a, "CREDIT", [admin[a] EXCEPT !.pc = "debit"])
DebitMove(a) == admin[a].pc = "debit" /\ RecordMove(a, "DEBIT", MoveDone)

-----------------------------------------------------------------------------
(* The settling job *)

Run(j, local) == job' = [job EXCEPT ![j] = local]

StartJob(j) ==
    LET n == Cardinality(Open(Seen))
    IN  /\ job[j].pc = "rest" /\ n > 0
        /\ Run(j, [pc |-> "page", pages |-> (n + PageSize - 1) \div PageSize, page |-> 0,
                   todo |-> {}, batch |-> {}])
        /\ UNCHANGED <<table, replica, request, funds, aborted, others>>

\* Pages that are counted from one.
OnPageFromOne(n, page) ==
    LET skip == (page + 1) * PageSize
    IN  IF n <= skip THEN 0 ELSE IF n - skip < PageSize THEN n - skip ELSE PageSize

\* How many of n transfers are behind those that are skipped, at most a page.
OnPage(n, page) ==
    LET skip == page * PageSize
    IN  IF n <= skip THEN 0 ELSE IF n - skip < PageSize THEN n - skip ELSE PageSize

\* The query has no order: any transfers, as many as are left after those it skips.
ReadPage(j) ==
    LET l == job[j]
        open == Open(Seen)
    IN  /\ l.pc = "page"
        /\ IF l.page = l.pages THEN Run(j, NoJob)
           ELSE \E rows \in {S \in SUBSET open : Cardinality(S) = OnPage(Cardinality(open), l.page)} :
                    Run(j, [l EXCEPT !.pc = "mark", !.todo = rows])
        /\ UNCHANGED <<table, replica, request, funds, aborted, others>>

\* A mark that is left to the next run.
MarkNothing(j) ==
    LET l == job[j]
    IN  /\ l.pc = "mark"
        /\ \E i \in l.todo : Run(j, [l EXCEPT !.todo = @ \ {i}, !.batch = @ \cup {i}])
        /\ UNCHANGED <<table, replica, request, funds, aborted, others>>

MarkTransfer(j) ==
    LET l == job[j]
    IN  /\ l.pc = "mark"
        /\ \E i \in l.todo :
              /\ transfer' = [transfer EXCEPT ![i].status = "SUCCEEDED"]
              /\ Run(j, [l EXCEPT !.todo = @ \ {i}, !.batch = @ \cup {i}])
        /\ UNCHANGED <<paid, replica, request, funds, aborted, others>>

\* What Raiinmaker pays to itself stays in the account.
Leaves(batch) == {i \in batch : transfer[i].wallet # Raiinmaker}

\* A batch sent for no transfer but the last that was marked.
SendLastOnly(j) ==
    LET l == job[j]
    IN  /\ l.pc = "mark" /\ l.todo = {}
        /\ Cardinality(l.batch) <= funds
        /\ funds' = funds - Cardinality(Leaves(l.batch))
        /\ paid' = [i \in DOMAIN paid |->
                       IF i \in l.batch /\ \A k \in l.batch : k <= i THEN paid[i] + 1 ELSE paid[i]]
        /\ Run(j, [l EXCEPT !.pc = "page", !.page = @ + 1, !.batch = {}])
        /\ UNCHANGED <<transfer, replica, request, aborted, others>>

\* Tatum takes all of the batch or, if the account cannot pay it, nothing: see Exit.
TransferFundsBatch(j) ==
    LET l == job[j]
    IN  /\ l.pc = "mark" /\ l.todo = {}
        /\ Cardinality(l.batch) <= funds
        /\ funds' = funds - Cardinality(Leaves(l.batch))
        /\ paid' = [i \in DOMAIN paid |-> IF i \in l.batch THEN paid[i] + 1 ELSE paid[i]]
        /\ Run(j, [l EXCEPT !.pc = "page", !.page = @ + 1, !.batch = {}])
        /\ UNCHANGED <<transfer, replica, request, aborted, others>>

\* An error ends the job, whatever is marked by then.
Exit(j) ==
    LET l == job[j]
    IN  /\ l.pc # "rest" /\ aborted < MaxAborts
        /\ \/ /\ l.todo = {} /\ Cardinality(l.batch) > funds
              /\ UNCHANGED failures
           \/ /\ failures < MaxFailures
              /\ failures' = failures + 1
        /\ Run(j, NoJob)
        /\ aborted' = aborted + 1
        /\ UNCHANGED <<table, replica, request, funds, admin, topUps>>

TopUp ==
    /\ topUps < MaxTopUps
    /\ topUps' = topUps + 1
    /\ funds' = funds + 1
    /\ UNCHANGED <<table, replica, request, job, aborted, admin, failures>>

Reward(r) == ReceiveRequest(r) \/ LookUp(r) \/ NewReward(r)
Move(a) == TransferCrypto(a) \/ CreditMove(a) \/ DebitMove(a)
Settle(j) == StartJob(j) \/ ReadPage(j) \/ MarkTransfer(j) \/ TransferFundsBatch(j) \/ Exit(j)

Next ==
    \/ Replicate \/ WindowEnds \/ TopUp
    \/ \E r \in Requests : Reward(r)
    \/ \E a \in Admins : Move(a)
    \/ \E j \in Jobs : Settle(j)

Spec == Init /\ [][Next]_vars

\* Kubernetes starts the job again and again and a job that runs goes on; the replica
\* catches up.  Nothing is asked of users and admins.
FairSpec == Spec /\ WF_vars(Replicate) /\ \A j \in Jobs : WF_vars(Settle(j))

-----------------------------------------------------------------------------
(* Properties *)

RequestLocal == {NoRequest} \cup [pc : {"look", "create"}, user : Users, reward : Rewards]
AdminLocal ==
    {NoMove, MoveDone} \cup [pc : {"credit", "debit"}, user : Users, kind : MoveKinds, moved : BOOLEAN]

TypeOK ==
    /\ transfer \in Seq(Transfer) /\ replica \in Seq(Transfer)
    /\ paid \in Seq(Nat) /\ Len(paid) = Len(transfer) /\ Len(replica) <= Len(transfer)
    /\ request \in [Requests -> RequestLocal] /\ admin \in [Admins -> AdminLocal]
    /\ \A j \in Jobs :
          /\ job[j].pc \in {"rest", "page", "mark"}
          /\ job[j].page <= job[j].pages
          /\ job[j].todo \subseteq DOMAIN transfer /\ job[j].batch \subseteq DOMAIN transfer
          /\ Cardinality(job[j].todo \cup job[j].batch) <= PageSize
    /\ {funds, aborted, failures, topUps} \subseteq Nat

\* A user gets at most so many rewards of a kind in a window as the limit and the other
\* requests under way together allow (UserService 302-318), if reads see the last write.
RewardsBounded ==
    \A u \in Users, a \in Rewards :
        Cardinality(Counted(transfer, u, a)) < Limit[a] + Cardinality(Requests)

\* No wallet but Raiinmaker's own, from which it comes, is credited twice for one transfer,
\* or at all for a debit (fixTransfer 15-73).
NothingOverpaid ==
    \A i \in Leaves(DOMAIN transfer) : paid[i] <= IF transfer[i].type = "CREDIT" THEN 1 ELSE 0

\* Transfers marked SUCCEEDED that nobody paid, or is about to pay, are at most a page
\* for each job that ended early; however many jobs overlap and whatever they read.
Lost == {i \in Leaves(DOMAIN transfer) :
            transfer[i].status = "SUCCEEDED" /\ paid[i] = 0 /\ \A j \in Jobs : i \notin job[j].batch}
LostPerAbort == Cardinality(Lost) <= PageSize * aborted

\* A PENDING reward has not been paid: nobody pays before the mark.
PendingIsUnpaid ==
    \A i \in Open(transfer) : transfer[i].action \in Rewards => paid[i] = 0

\* A job that skips pages of a table from which it removes rows misses some of them, but
\* the runs that follow settle them all.
EventuallySettled == \A i \in 1..MaxTransfers :
    i \in Open(transfer) ~> i \in DOMAIN transfer \ Open(transfer)

=============================================================================
