------------------------- MODULE CoiinRewardsProofs -------------------------
(***************************************************************************)
(* What the settling job guarantees, for any number of users, requests,    *)
(* jobs and failures: nothing PENDING is paid, and a job that ends early   *)
(* loses no more than its page.  Where reads see the last write, a window  *)
(* holds no more rewards than the limit and the requests under way allow,  *)
(* and a single job pays no reward twice.  With the purchases of           *)
(* CoiinPurchases beside them, a buyer gets a coin for each delivery of    *)
(* Stripe's event at most, and none unless the card paid.                  *)
(***************************************************************************)
EXTENDS CoiinPurchases, SumTheorems, TLAPS

\* A job works on transfers that are in the table, at most a page of them, and those in
\* its batch are marked.
JobOK(l, t) ==
    /\ l \in [pc : {"rest", "page", "mark"}, pages : Nat, page : Nat,
              todo : SUBSET (DOMAIN t), batch : SUBSET (DOMAIN t)]
    /\ l.page <= l.pages /\ (l.pc = "mark" => l.page < l.pages)
    /\ IsFiniteSet(l.todo \cup l.batch) /\ Cardinality(l.todo \cup l.batch) <= PageSize
    /\ l.pc # "mark" => l.todo = {} /\ l.batch = {}
    /\ \A i \in l.batch : t[i].status = "SUCCEEDED"

\* Transfers that no admin made.
Automatic == Rewards \cup {"COIIN_PURCHASE"}

Unpaid(t, p) == \A i \in DOMAIN t : t[i].status # "SUCCEEDED" /\ t[i].action \in Automatic => p[i] = 0

\* The inductive invariant.
RewardInv ==
    /\ transfer \in Seq(Transfer) /\ replica \in Seq(Transfer) /\ Len(replica) <= Len(transfer)
    /\ paid \in Seq(Nat) /\ Len(paid) = Len(transfer)
    /\ Unpaid(transfer, paid)
    /\ request \in [Requests -> RequestLocal]
    /\ DOMAIN job = Jobs /\ \A j \in Jobs : JobOK(job[j], transfer)
    /\ {funds, aborted, failures, topUps} \subseteq Nat /\ admin \in [Admins -> AdminLocal]

\* A later table: it has all transfers of the earlier one, and what was marked stays so.
Later(t, u) ==
    /\ DOMAIN t \subseteq DOMAIN u
    /\ \A i \in DOMAIN t : t[i].status = "SUCCEEDED" => u[i].status = "SUCCEEDED"

LEMMA LaterJobs ==
  ASSUME NEW t, NEW u, Later(t, u), NEW l, JobOK(l, t)
  PROVE  JobOK(l, u)
<1>1. l \in [pc : {"rest", "page", "mark"}, pages : Nat, page : Nat,
             todo : SUBSET (DOMAIN u), batch : SUBSET (DOMAIN u)]
  BY DEF JobOK, Later
<1>2. \A i \in l.batch : u[i].status = "SUCCEEDED"
  BY DEF JobOK, Later
<1> QED
  BY <1>1, <1>2 DEF JobOK

LEMMA IdleJobOK == \A t : JobOK(NoJob, t)
<1>1. IsFiniteSet({}) /\ Cardinality({}) = 0
  BY FS_EmptySet
<1>2. {} \cup {} = {}
  OBVIOUS
<1> QED
  BY <1>1, <1>2, RewardAssumption DEF JobOK, NoJob

LEMMA Element ==
  ASSUME NEW S, NEW seq \in Seq(S), NEW i \in DOMAIN seq
  PROVE  seq[i] \in S
OBVIOUS

LEMMA Concat ==
  ASSUME NEW S, NEW s \in Seq(S), NEW t \in Seq(S)
  PROVE  s \o t \in Seq(S) /\ Len(s \o t) = Len(s) + Len(t)
OBVIOUS

LEMMA AppendIsConcat ==
  ASSUME NEW S, NEW s \in Seq(S), NEW e \in S
  PROVE  Append(s, e) = s \o <<e>> /\ <<e>> \in Seq(S)
OBVIOUS

LEMMA FunctionIsSequence ==
  ASSUME NEW S, NEW n \in Nat, NEW f \in [1..n -> S]
  PROVE  f \in Seq(S) /\ Len(f) = n /\ DOMAIN f = 1..n
OBVIOUS

LEMMA AgedOK ==
  ASSUME NEW t \in Seq(Transfer), NEW old
  PROVE  LET u == Aged(t, old)
         IN  /\ u \in Seq(Transfer) /\ Len(u) = Len(t) /\ Later(t, u)
             /\ \A i \in DOMAIN t :
                   /\ u[i].status = t[i].status /\ u[i].action = t[i].action
                   /\ u[i].wallet = t[i].wallet /\ u[i].type = t[i].type
<1> DEFINE u == Aged(t, old)
<1>1. ASSUME NEW i \in DOMAIN t
      PROVE  /\ u[i] \in Transfer /\ u[i].status = t[i].status
             /\ u[i].action = t[i].action /\ u[i].wallet = t[i].wallet /\ u[i].type = t[i].type
  <2>1. t[i] \in Transfer
    BY Element
  <2> DEFINE e == [t[i] EXCEPT !.recent = FALSE]
  <2>2. /\ e \in Transfer /\ e.status = t[i].status
        /\ e.action = t[i].action /\ e.wallet = t[i].wallet /\ e.type = t[i].type
    BY <2>1 DEF Transfer
  <2>3. u[i] = IF i \in old THEN e ELSE t[i]
    BY DEF Aged
  <2> QED
    BY <2>1, <2>2, <2>3
<1>2. DOMAIN t = 1..Len(t) /\ Len(t) \in Nat /\ DOMAIN u = DOMAIN t
  BY DEF Aged
<1>3. u \in [1..Len(t) -> Transfer]
  <2>1. u = [i \in 1..Len(t) |-> u[i]]
    BY <1>2 DEF Aged
  <2> HIDE DEF u
  <2> QED
    BY <1>1, <1>2, <2>1
<1>4. u \in Seq(Transfer) /\ Len(u) = Len(t)
  <2> HIDE DEF u
  <2> QED
    BY <1>2, <1>3, FunctionIsSequence
<1> QED
  BY <1>1, <1>2, <1>4 DEF Later

LEMMA Marked ==
  ASSUME NEW t \in Seq(Transfer), NEW i \in DOMAIN t
  PROVE  LET u == [t EXCEPT ![i].status = "SUCCEEDED"]
         IN  /\ u \in Seq(Transfer) /\ Len(u) = Len(t) /\ DOMAIN u = DOMAIN t /\ Later(t, u)
             /\ u[i].status = "SUCCEEDED"
             /\ \A k \in DOMAIN t :
                   /\ u[k].action = t[k].action /\ u[k].type = t[k].type
                   /\ u[k].wallet = t[k].wallet /\ u[k].recent = t[k].recent
                   /\ k # i => u[k] = t[k]
<1> DEFINE m == [t[i] EXCEPT !.status = "SUCCEEDED"]
           u == [t EXCEPT ![i] = m]
<1>1. t[i] \in Transfer
  BY Element
<1>2. /\ m \in Transfer /\ m.status = "SUCCEEDED" /\ m.action = t[i].action /\ m.type = t[i].type
      /\ m.wallet = t[i].wallet /\ m.recent = t[i].recent
  BY <1>1 DEF Transfer, Statuses
<1>3. [t EXCEPT ![i].status = "SUCCEEDED"] = u
  OBVIOUS
<1> HIDE DEF m
<1>4. u \in Seq(Transfer) /\ Len(u) = Len(t) /\ DOMAIN u = DOMAIN t
  BY <1>2
<1>5. \A k \in DOMAIN t : u[k] = IF k = i THEN m ELSE t[k]
  OBVIOUS
<1>6. Later(t, u)
  BY <1>2, <1>4, <1>5 DEF Later
<1> QED
  BY <1>2, <1>3, <1>4, <1>5, <1>6

-----------------------------------------------------------------------------
LEMMA RewardInit == Init => RewardInv
<1> SUFFICES ASSUME Init PROVE RewardInv
  OBVIOUS
<1>1. transfer = << >> /\ paid = << >> /\ replica = << >>
  BY DEF Init
<1>2. /\ << >> \in Seq(Transfer) /\ << >> \in Seq(Nat) /\ Len(<< >>) = 0 /\ DOMAIN << >> = {}
  OBVIOUS
<1>3. request \in [Requests -> RequestLocal]
  BY DEF Init, RequestLocal
<1>4. DOMAIN job = Jobs /\ \A j \in Jobs : JobOK(job[j], transfer)
  BY IdleJobOK DEF Init
<1>5. {funds, aborted, failures, topUps} \subseteq Nat /\ admin \in [Admins -> AdminLocal]
  BY RewardAssumption DEF Init, AdminLocal
<1> QED
  BY <1>1, <1>2, <1>3, <1>4, <1>5 DEF RewardInv, Unpaid

\* A step that leaves the table as it is.
LEMMA SameTable ==
  ASSUME RewardInv, UNCHANGED table, replica' = replica \/ replica' = transfer,
         request' \in [Requests -> RequestLocal],
         DOMAIN job' = Jobs, \A j \in Jobs : JobOK(job'[j], transfer),
         {funds', aborted', failures', topUps'} \subseteq Nat, admin' \in [Admins -> AdminLocal]
  PROVE  RewardInv'
<1>1. replica' \in Seq(Transfer) /\ Len(replica') <= Len(transfer)
  <2>1. transfer \in Seq(Transfer) /\ Len(transfer) \in Nat
    BY DEF RewardInv
  <2> QED
    BY <2>1 DEF RewardInv
<1>2. Unpaid(transfer', paid')
  BY DEF RewardInv, table, Unpaid
<1> QED
  BY <1>1, <1>2 DEF RewardInv, table

\* One job changes its local state.
LEMMA OneJob ==
  ASSUME RewardInv, NEW j \in Jobs, NEW local, Run(j, local), NEW t,
         \A k \in Jobs : JobOK(job[k], t), JobOK(local, t)
  PROVE  DOMAIN job' = Jobs /\ \A k \in Jobs : JobOK(job'[k], t)
<1>1. DOMAIN job = Jobs
  BY DEF RewardInv
<1>2. DOMAIN job' = Jobs /\ \A k \in Jobs : job'[k] = IF k = j THEN local ELSE job[k]
  BY <1>1 DEF Run
<1> QED
  BY <1>2

\* The table grows or its transfers change, and no job takes a step.
LEMMA LaterTable ==
  ASSUME RewardInv, transfer' \in Seq(Transfer), Later(transfer, transfer'),
         paid' \in Seq(Nat), Len(paid') = Len(transfer'), Unpaid(transfer', paid'),
         replica' \in Seq(Transfer), Len(replica') <= Len(transfer'),
         request' \in [Requests -> RequestLocal], UNCHANGED job,
         {funds', aborted', failures', topUps'} \subseteq Nat, admin' \in [Admins -> AdminLocal]
  PROVE  RewardInv'
<1>1. \A j \in Jobs : JobOK(job[j], transfer')
  BY LaterJobs DEF RewardInv
<1> QED
  BY <1>1 DEF RewardInv

LEMMA Appended ==
  ASSUME RewardInv, NEW rows \in Seq(Transfer), NEW more \in Seq(Nat), Len(more) = Len(rows),
         \A i \in DOMAIN rows :
            rows[i].status # "SUCCEEDED" /\ rows[i].action \in Automatic => more[i] = 0
  PROVE  /\ transfer \o rows \in Seq(Transfer) /\ Later(transfer, transfer \o rows)
         /\ paid \o more \in Seq(Nat) /\ Len(paid \o more) = Len(transfer \o rows)
         /\ Unpaid(transfer \o rows, paid \o more)
         /\ Len(replica) <= Len(transfer \o rows)
<1> DEFINE t == transfer \o rows
           p == paid \o more
           n == Len(transfer)
<1>1. /\ transfer \in Seq(Transfer) /\ paid \in Seq(Nat) /\ Len(paid) = n
      /\ replica \in Seq(Transfer) /\ Len(replica) <= n /\ Unpaid(transfer, paid)
      /\ n \in Nat /\ Len(rows) \in Nat /\ Len(replica) \in Nat
  BY DEF RewardInv
<1>2. t \in Seq(Transfer) /\ Len(t) = n + Len(rows) /\ p \in Seq(Nat) /\ Len(p) = n + Len(rows)
  <2>1. t \in Seq(Transfer) /\ Len(t) = n + Len(rows)
    BY <1>1, Concat
  <2>2. p \in Seq(Nat) /\ Len(p) = n + Len(rows)
    <3> DEFINE N == Nat
    <3>1. paid \in Seq(N) /\ more \in Seq(N)
      BY <1>1
    <3> HIDE DEF N
    <3>2. p \in Seq(N) /\ Len(p) = Len(paid) + Len(more)
      BY <3>1, Concat
    <3> QED
      BY <1>1, <3>2 DEF N
  <2> QED
    BY <2>1, <2>2
<1>3. DOMAIN t = 1..(n + Len(rows)) /\ DOMAIN transfer = 1..n /\ DOMAIN rows = 1..Len(rows)
  BY <1>1, <1>2
<1>4. \A i \in 1..n : t[i] = transfer[i] /\ p[i] = paid[i]
  BY <1>1
<1>5. \A i \in 1..(n + Len(rows)) :
        i \notin 1..n => i - n \in 1..Len(rows) /\ t[i] = rows[i - n] /\ p[i] = more[i - n]
  BY <1>1
<1>6. Later(transfer, t)
  BY <1>1, <1>3, <1>4 DEF Later
<1>7. Unpaid(t, p)
  <2> SUFFICES ASSUME NEW i \in DOMAIN t, t[i].status # "SUCCEEDED", t[i].action \in Automatic
               PROVE  p[i] = 0
    BY DEF Unpaid
  <2>1. CASE i \in 1..n
    BY <2>1, <1>1, <1>3, <1>4 DEF Unpaid
  <2>2. CASE i \notin 1..n
    BY <2>2, <1>3, <1>5
  <2> QED
    BY <2>1, <2>2
<1> QED
  BY <1>1, <1>2, <1>6, <1>7

LEMMA NewTransferOK ==
  ASSUME NEW w \in Wallets, NEW action \in Actions, NEW type \in {"CREDIT", "DEBIT"},
         NEW status \in Statuses
  PROVE  NewTransfer(w, action, type, status) \in Transfer
BY DEF NewTransfer, Transfer

-----------------------------------------------------------------------------
\* One side of an admin's transfer is written.
LEMMA MoveRecorded ==
  ASSUME RewardInv, NEW a \in Admins, CreditMove(a) \/ DebitMove(a)
  PROVE  /\ admin' \in [Admins -> AdminLocal]
         /\ UNCHANGED <<replica, request, job, funds, aborted, failures, topUps>>
         /\ \E rows \in Seq(Transfer), more \in Seq(Nat) :
               /\ transfer' = transfer \o rows /\ paid' = paid \o more
               /\ Len(rows) = 1 /\ Len(more) = 1
               /\ \A i \in DOMAIN rows : rows[i].action = "TRANSFER" /\ rows[i].status # "SUCCEEDED"
<1> DEFINE l == admin[a]
<1>a. transfer \in Seq(Transfer) /\ paid \in Seq(Nat) /\ admin \in [Admins -> AdminLocal]
  BY DEF RewardInv
<1>1. /\ l.pc \in {"credit", "debit"} /\ l.user \in Users /\ l.moved \in BOOLEAN
      /\ [l EXCEPT !.pc = "debit"] \in AdminLocal /\ MoveDone \in AdminLocal
  <2>1. l.pc \in {"credit", "debit"}
    BY DEF CreditMove, DebitMove
  <2>2. l \in AdminLocal /\ NoMove.pc = "rest" /\ MoveDone.pc = "done" /\ MoveDone \in AdminLocal
    BY <1>a DEF NoMove, MoveDone, AdminLocal
  <2> HIDE DEF l
  <2>3. l \in [pc : {"credit", "debit"}, user : Users, kind : MoveKinds, moved : BOOLEAN]
    BY <2>1, <2>2 DEF AdminLocal
  <2>4. [l EXCEPT !.pc = "debit"] \in [pc : {"credit", "debit"}, user : Users, kind : MoveKinds, moved : BOOLEAN]
    BY <2>3
  <2> QED
    BY <2>2, <2>3, <2>4 DEF AdminLocal
<1>2. PICK type \in {"CREDIT", "DEBIT"}, next \in AdminLocal : RecordMove(a, type, next)
  BY <1>1 DEF CreditMove, DebitMove
<1> DEFINE row == MoveRow(l, type)
           coin == IF l.moved /\ type = "CREDIT" THEN 1 ELSE 0
           rows == <<row>>
           more == <<coin>>
<1>3. row \in Transfer /\ row.action = "TRANSFER" /\ row.status # "SUCCEEDED"
  <2> DEFINE to == IF (l.kind = "ADD") = (type = "CREDIT") THEN l.user ELSE Org
             status == IF l.moved \/ l.kind = "ADD" THEN "PENDING" ELSE "FAILED"
  <2>1. to \in Wallets /\ status \in Statuses /\ status # "SUCCEEDED" /\ "TRANSFER" \in Actions
    BY <1>1 DEF Wallets, Statuses, Actions
  <2>2. row = NewTransfer(to, "TRANSFER", type, status)
    BY DEF MoveRow
  <2> HIDE DEF to, status
  <2>3. NewTransfer(to, "TRANSFER", type, status) \in Transfer
    BY <2>1, NewTransferOK
  <2> QED
    BY <2>1, <2>2, <2>3 DEF NewTransfer
<1>4. transfer' = Append(transfer, row) /\ paid' = Append(paid, coin)
      /\ admin' = [admin EXCEPT ![a] = next]
      /\ UNCHANGED <<replica, request, job, funds, aborted, failures, topUps>>
  BY <1>2 DEF RecordMove
<1>5. coin \in Nat
  OBVIOUS
<1> HIDE DEF row, coin, l
<1>6. transfer' = transfer \o rows /\ rows \in Seq(Transfer)
  BY <1>a, <1>3, <1>4, AppendIsConcat
<1>7. paid' = paid \o more /\ more \in Seq(Nat)
  <2> DEFINE N == Nat
  <2>1. paid \in Seq(N) /\ coin \in N
    BY <1>a, <1>5
  <2> HIDE DEF N
  <2>2. paid' = paid \o more /\ more \in Seq(N)
    BY <1>4, <2>1, AppendIsConcat
  <2> QED
    BY <2>2 DEF N
<1>8. Len(rows) = 1 /\ Len(more) = 1
      /\ \A i \in DOMAIN rows : rows[i].action = "TRANSFER" /\ rows[i].status # "SUCCEEDED"
  BY <1>3
<1> HIDE DEF rows, more
<1> QED
  BY <1>a, <1>4, <1>6, <1>7, <1>8

\* An admin decides on a transfer: the table stays.
LEMMA MoveStarted ==
  ASSUME RewardInv, NEW a \in Admins, TransferCrypto(a)
  PROVE  /\ admin' \in [Admins -> AdminLocal]
         /\ UNCHANGED <<table, replica, request, job, funds, aborted, failures, topUps>>
<1>1. PICK u \in Users, kind \in MoveKinds, moved \in BOOLEAN :
        admin' = [admin EXCEPT ![a] = [pc |-> "credit", user |-> u, kind |-> kind, moved |-> moved]]
  BY DEF TransferCrypto
<1>2. [pc |-> "credit", user |-> u, kind |-> kind, moved |-> moved] \in AdminLocal
  BY <1>1 DEF AdminLocal
<1> QED
  BY <1>1, <1>2 DEF TransferCrypto, RewardInv

LEMMA RewardNext == RewardInv /\ [Next]_vars => RewardInv'
<1> SUFFICES ASSUME RewardInv, [Next]_vars PROVE RewardInv'
  OBVIOUS
<1>a. /\ transfer \in Seq(Transfer) /\ replica \in Seq(Transfer) /\ Len(replica) <= Len(transfer)
      /\ paid \in Seq(Nat) /\ Len(paid) = Len(transfer) /\ Len(transfer) \in Nat
      /\ DOMAIN paid = DOMAIN transfer /\ DOMAIN transfer = 1..Len(transfer)
      /\ DOMAIN replica \subseteq DOMAIN transfer
      /\ Unpaid(transfer, paid) /\ request \in [Requests -> RequestLocal]
      /\ funds \in Nat /\ aborted \in Nat /\ admin \in [Admins -> AdminLocal] /\ failures \in Nat /\ topUps \in Nat
  BY DEF RewardInv
<1>b. DOMAIN job = Jobs /\ \A j \in Jobs : JobOK(job[j], transfer)
  BY DEF RewardInv
<1>c. NoRequest \in RequestLocal
  BY DEF RequestLocal
<1>1. CASE Replicate
  BY <1>1, <1>a, <1>b, SameTable DEF Replicate, others, table
<1>2. CASE WindowEnds
  <2>1. PICK old : transfer' = Aged(transfer, old) /\ replica' = Aged(replica, old)
    BY <1>2 DEF WindowEnds
  <2> DEFINE t == Aged(transfer, old)
             s == Aged(replica, old)
  <2>2. /\ t \in Seq(Transfer) /\ Len(t) = Len(transfer) /\ Later(transfer, t)
        /\ \A i \in DOMAIN transfer : t[i].status = transfer[i].status /\ t[i].action = transfer[i].action
    BY <1>a, AgedOK
  <2>3. s \in Seq(Transfer) /\ Len(s) = Len(replica)
    BY <1>a, AgedOK
  <2>4. DOMAIN t = DOMAIN transfer
    BY DEF Aged
  <2>5. Unpaid(t, paid)
    BY <1>a, <2>2, <2>4 DEF Unpaid
  <2>6. transfer' = t /\ replica' = s /\ UNCHANGED <<paid, request, job, funds, aborted, others>>
    BY <1>2, <2>1 DEF WindowEnds
  <2> HIDE DEF t, s
  <2> QED
    BY <1>a, <2>2, <2>3, <2>5, <2>6, LaterTable DEF others
<1>3. CASE TopUp
  BY <1>3, <1>a, <1>b, SameTable DEF TopUp
<1>4. ASSUME NEW r \in Requests, ReceiveRequest(r) PROVE RewardInv'
  <2>1. PICK u, a : u \in Users /\ a \in Rewards /\ Ask(r, [pc |-> "look", user |-> u, reward |-> a])
    BY <1>4 DEF ReceiveRequest
  <2>2. [pc |-> "look", user |-> u, reward |-> a] \in RequestLocal
    BY <2>1 DEF RequestLocal
  <2>3. request' \in [Requests -> RequestLocal]
    BY <1>a, <2>1, <2>2 DEF Ask
  <2> QED
    BY <1>4, <1>a, <1>b, <2>3, SameTable DEF ReceiveRequest, others
<1>5. ASSUME NEW r \in Requests, LookUp(r) PROVE RewardInv'
  <2>1. request[r] \in [pc : {"look", "create"}, user : Users, reward : Rewards]
    BY <1>5, <1>a DEF LookUp, RequestLocal, NoRequest
  <2>2. [request[r] EXCEPT !.pc = "create"] \in RequestLocal
    BY <2>1 DEF RequestLocal
  <2>3. request' \in [Requests -> RequestLocal]
    BY <1>5, <1>a, <1>c, <2>2 DEF LookUp, Ask
  <2> QED
    BY <1>5, <1>a, <1>b, <2>3, SameTable DEF LookUp, others
<1>6. ASSUME NEW r \in Requests, NewReward(r) PROVE RewardInv'
  <2> DEFINE row == NewTransfer(request[r].user, request[r].reward, "CREDIT", "PENDING")
             rows == <<row>>
             more == <<0>>
  <2>1. request[r].user \in Users /\ request[r].reward \in Rewards
    BY <1>6, <1>a DEF NewReward, RequestLocal, NoRequest
  <2>2. /\ transfer' = Append(transfer, row) /\ paid' = Append(paid, 0) /\ Ask(r, NoRequest)
        /\ UNCHANGED <<replica, job, funds, aborted, others>>
    BY <1>6 DEF NewReward
  <2>3. row \in Transfer
    BY <2>1, NewTransferOK DEF Actions, Statuses, Wallets
  <2> HIDE DEF row
  <2>4. rows \in Seq(Transfer) /\ more \in Seq(Nat) /\ Len(rows) = 1 /\ Len(more) = 1
        /\ DOMAIN rows = 1..1 /\ more[1] = 0
    BY <2>3
  <2>5. transfer' = transfer \o rows /\ paid' = paid \o more
    <3>1. Append(transfer, row) = transfer \o rows
      BY <1>a, <2>3, AppendIsConcat
    <3> DEFINE N == Nat
    <3>2. paid \in Seq(N) /\ 0 \in N
      BY <1>a
    <3> HIDE DEF N
    <3>3. Append(paid, 0) = paid \o more
      BY <3>2, AppendIsConcat
    <3> QED
      BY <2>2, <3>1, <3>3
  <2>a. \A i \in DOMAIN rows : rows[i].action \in Automatic => more[i] = 0
    BY <2>4
  <2> HIDE DEF rows, more
  <2>6. request' \in [Requests -> RequestLocal]
    BY <1>a, <1>c, <2>2 DEF Ask
  <2> QED
    <3>1. /\ transfer' \in Seq(Transfer) /\ Later(transfer, transfer')
          /\ paid' \in Seq(Nat) /\ Len(paid') = Len(transfer') /\ Unpaid(transfer', paid')
          /\ Len(replica) <= Len(transfer')
      BY <2>4, <2>5, <2>a, Appended
    <3> QED
      BY <1>a, <2>2, <2>6, <3>1, LaterTable DEF others
<1>7. ASSUME NEW a \in Admins, Move(a) PROVE RewardInv'
  <2>1. CASE TransferCrypto(a)
    BY <1>a, <1>b, <2>1, MoveStarted, SameTable
  <2>2. CASE CreditMove(a) \/ DebitMove(a)
    <3>1. PICK rows \in Seq(Transfer), more \in Seq(Nat) :
             /\ transfer' = transfer \o rows /\ paid' = paid \o more
             /\ Len(rows) = 1 /\ Len(more) = 1
             /\ \A i \in DOMAIN rows : rows[i].action = "TRANSFER" /\ rows[i].status # "SUCCEEDED"
      BY <2>2, MoveRecorded
    <3>2. /\ admin' \in [Admins -> AdminLocal]
          /\ UNCHANGED <<replica, request, job, funds, aborted, failures, topUps>>
      BY <2>2, MoveRecorded
    <3>3. \A i \in DOMAIN rows : rows[i].action \notin Automatic
      BY <3>1, RewardAssumption DEF Automatic
    <3> QED
      BY <1>a, <3>1, <3>2, <3>3, Appended, LaterTable
  <2> QED
    BY <1>7, <2>1, <2>2 DEF Move
<1>8. ASSUME NEW j \in Jobs, StartJob(j) PROVE RewardInv'
  <2> DEFINE n == Cardinality(Open(Seen))
             local == [pc |-> "page", pages |-> (n + PageSize - 1) \div PageSize, page |-> 0,
                       todo |-> {}, batch |-> {}]
  <2>1. Seen \in Seq(Transfer)
    BY <1>a DEF Seen
  <2>2. IsFiniteSet(Open(Seen))
    <3>1. Open(Seen) \subseteq 1..Len(Seen) /\ Len(Seen) \in Nat
      BY <2>1 DEF Open
    <3>2. IsFiniteSet(1..Len(Seen))
      BY <3>1, FS_Interval
    <3> QED
      BY <3>1, <3>2, FS_Subset
  <2>3. n \in Nat
    BY <2>2, FS_CardinalityType
  <2>4. (n + PageSize - 1) \div PageSize \in Nat
    BY <2>3, RewardAssumption
  <2>5. JobOK(local, transfer)
    <3> DEFINE pages == (n + PageSize - 1) \div PageSize
    <3>1. /\ local \in [pc : {"rest", "page", "mark"}, pages : Nat, page : Nat,
                        todo : SUBSET (DOMAIN transfer), batch : SUBSET (DOMAIN transfer)]
          /\ local.pc = "page" /\ local.page = 0 /\ local.pages = pages
          /\ local.todo = {} /\ local.batch = {}
      <4> DEFINE none == {}
                 first == 0
      <4>1. pages \in Nat /\ first \in Nat /\ none \in SUBSET (DOMAIN transfer)
        BY <2>4
      <4>2. local = [pc |-> "page", pages |-> pages, page |-> first, todo |-> none, batch |-> none]
        OBVIOUS
      <4>3. local.page = 0 /\ local.todo = {} /\ local.batch = {}
        OBVIOUS
      <4> HIDE DEF pages, none, first, local
      <4> QED
        BY <4>1, <4>2, <4>3
    <3>2. IsFiniteSet({} \cup {}) /\ Cardinality({} \cup {}) = 0
      <4>1. {} \cup {} = {}
        OBVIOUS
      <4> QED
        BY <4>1, FS_EmptySet
    <3>3. 0 <= pages
      BY <2>4
    <3> HIDE DEF local, pages
    <3> QED
      BY <3>1, <3>2, <3>3, RewardAssumption DEF JobOK
  <2>6. Run(j, local) /\ UNCHANGED <<table, replica, request, funds, aborted, others>>
    BY <1>8 DEF StartJob
  <2> HIDE DEF local
  <2>7. DOMAIN job' = Jobs /\ \A k \in Jobs : JobOK(job'[k], transfer)
    BY <1>b, <2>5, <2>6, OneJob
  <2> QED
    BY <1>a, <2>6, <2>7, SameTable DEF others
<1>9. ASSUME NEW j \in Jobs, ReadPage(j) PROVE RewardInv'
  <2> DEFINE l == job[j]
  <2>1. /\ l.pc = "page" /\ JobOK(l, transfer) /\ l.batch = {}
        /\ UNCHANGED <<table, replica, request, funds, aborted, others>>
    BY <1>9, <1>b DEF ReadPage, JobOK
  <2>2. CASE l.page = l.pages
    <3>1. Run(j, NoJob)
      BY <1>9, <2>2 DEF ReadPage
    <3>2. DOMAIN job' = Jobs /\ \A k \in Jobs : JobOK(job'[k], transfer)
      BY <1>b, <3>1, IdleJobOK, OneJob
    <3> QED
      BY <1>a, <2>1, <3>2, SameTable DEF others
  <2>3. CASE l.page # l.pages
    <3>1. PICK rows : /\ rows \subseteq Open(Seen)
                      /\ Cardinality(rows) = OnPage(Cardinality(Open(Seen)), l.page)
                      /\ Run(j, [l EXCEPT !.pc = "mark", !.todo = rows])
      BY <1>9, <2>3 DEF ReadPage
    <3>2. Seen \in Seq(Transfer) /\ DOMAIN Seen \subseteq DOMAIN transfer
      BY <1>a DEF Seen
    <3>3. rows \subseteq DOMAIN transfer
      BY <3>1, <3>2 DEF Open
    <3>4. IsFiniteSet(DOMAIN transfer) /\ IsFiniteSet(rows) /\ IsFiniteSet(Open(Seen))
      <4>1. IsFiniteSet(1..Len(transfer))
        BY <1>a, FS_Interval
      <4>2. Open(Seen) \subseteq DOMAIN transfer
        BY <3>2 DEF Open
      <4> QED
        BY <1>a, <3>3, <4>1, <4>2, FS_Subset
    <3>5. Cardinality(rows) <= PageSize
      <4>1. Cardinality(Open(Seen)) \in Nat /\ l.page \in Nat
        BY <2>1, <3>4, FS_CardinalityType DEF JobOK
      <4>2. l.page * PageSize \in Nat
        BY <4>1, RewardAssumption
      <4> QED
        BY <3>1, <4>1, <4>2, RewardAssumption DEF OnPage
    <3> DEFINE local == [l EXCEPT !.pc = "mark", !.todo = rows]
    <3>6. /\ local \in [pc : {"rest", "page", "mark"}, pages : Nat, page : Nat,
                        todo : SUBSET (DOMAIN transfer), batch : SUBSET (DOMAIN transfer)]
          /\ local.pc = "mark" /\ local.page = l.page /\ local.pages = l.pages
          /\ local.todo = rows /\ local.batch = {}
      BY <2>1, <3>3 DEF JobOK
    <3>7. l.page < l.pages
      BY <2>1, <2>3 DEF JobOK
    <3>8. rows \cup {} = rows
      OBVIOUS
    <3>9. Run(j, local)
      BY <3>1
    <3> HIDE DEF local
    <3>10. JobOK(local, transfer)
      BY <3>4, <3>5, <3>6, <3>7, <3>8 DEF JobOK
    <3>11. DOMAIN job' = Jobs /\ \A k \in Jobs : JobOK(job'[k], transfer)
      BY <1>b, <3>9, <3>10, OneJob
    <3> QED
      BY <1>a, <2>1, <3>11, SameTable DEF others
  <2> QED
    BY <2>2, <2>3
<1>10. ASSUME NEW j \in Jobs, MarkTransfer(j) PROVE RewardInv'
  <2> DEFINE l == job[j]
  <2>1. PICK i : /\ i \in l.todo /\ transfer' = [transfer EXCEPT ![i].status = "SUCCEEDED"]
                 /\ Run(j, [l EXCEPT !.todo = @ \ {i}, !.batch = @ \cup {i}])
    BY <1>10 DEF MarkTransfer
  <2>2. l.pc = "mark" /\ UNCHANGED <<paid, replica, request, funds, aborted, others>>
    BY <1>10 DEF MarkTransfer
  <2>3. JobOK(l, transfer) /\ i \in DOMAIN transfer
    BY <1>b, <2>1 DEF JobOK
  <2>4. /\ transfer' \in Seq(Transfer) /\ Len(transfer') = Len(transfer)
        /\ DOMAIN transfer' = DOMAIN transfer /\ Later(transfer, transfer')
        /\ transfer'[i].status = "SUCCEEDED"
        /\ \A k \in DOMAIN transfer :
              transfer'[k].action = transfer[k].action /\ (k # i => transfer'[k] = transfer[k])
    BY <1>a, <2>1, <2>3, Marked
  <2>5. Unpaid(transfer', paid)
    BY <1>a, <2>4 DEF Unpaid
  <2> DEFINE local == [l EXCEPT !.todo = @ \ {i}, !.batch = @ \cup {i}]
  <2>6. /\ local \in [pc : {"rest", "page", "mark"}, pages : Nat, page : Nat,
                      todo : SUBSET (DOMAIN transfer'), batch : SUBSET (DOMAIN transfer')]
        /\ local.pc = "mark" /\ local.page = l.page /\ local.pages = l.pages
        /\ local.todo = l.todo \ {i} /\ local.batch = l.batch \cup {i}
    BY <2>2, <2>3, <2>4 DEF JobOK
  <2>7. JobOK(l, transfer')
    BY <2>3, <2>4, LaterJobs
  <2>8. Run(j, local)
    BY <2>1
  <2> HIDE DEF local
  <2>9. local.todo \cup local.batch = l.todo \cup l.batch
    BY <2>1, <2>6
  <2>10. JobOK(local, transfer')
    BY <2>2, <2>4, <2>6, <2>7, <2>9 DEF JobOK
  <2>11. \A k \in Jobs : JobOK(job[k], transfer')
    BY <1>b, <2>4, LaterJobs
  <2>12. DOMAIN job' = Jobs /\ \A k \in Jobs : JobOK(job'[k], transfer')
    BY <2>8, <2>10, <2>11, OneJob
  <2> QED
    BY <1>a, <2>2, <2>4, <2>5, <2>12 DEF RewardInv, others
<1>11. ASSUME NEW j \in Jobs, TransferFundsBatch(j) PROVE RewardInv'
  <2> DEFINE l == job[j]
             p == [i \in DOMAIN paid |-> IF i \in l.batch THEN paid[i] + 1 ELSE paid[i]]
             local == [l EXCEPT !.pc = "page", !.page = @ + 1, !.batch = {}]
  <2>1. /\ l.pc = "mark" /\ l.todo = {} /\ Cardinality(l.batch) <= funds
        /\ funds' = funds - Cardinality(Leaves(l.batch)) /\ paid' = p /\ Run(j, local)
        /\ UNCHANGED <<transfer, replica, request, aborted, others>>
    BY <1>11 DEF TransferFundsBatch
  <2>2. JobOK(l, transfer)
    BY <1>b
  <2>3. p \in Seq(Nat) /\ Len(p) = Len(paid)
    <3>1. p \in [1..Len(paid) -> Nat]
      BY <1>a
    <3> HIDE DEF p
    <3> QED
      BY <1>a, <3>1, FunctionIsSequence
  <2>4. Unpaid(transfer, p)
    <3> SUFFICES ASSUME NEW i \in DOMAIN transfer, transfer[i].status # "SUCCEEDED",
                        transfer[i].action \in Automatic
                 PROVE  p[i] = 0
      BY DEF Unpaid
    <3>1. i \notin l.batch
      BY <2>2 DEF JobOK
    <3> QED
      BY <1>a, <3>1 DEF Unpaid
  <2>5. funds' \in Nat
    <3>1. l.todo \cup l.batch = l.batch
      BY <2>1
    <3>2. IsFiniteSet(l.batch) /\ Cardinality(l.batch) \in Nat
      BY <2>2, <3>1, FS_CardinalityType DEF JobOK
    <3>3. Leaves(l.batch) \subseteq l.batch
      BY DEF Leaves
    <3>4. Cardinality(Leaves(l.batch)) \in Nat /\ Cardinality(Leaves(l.batch)) <= Cardinality(l.batch)
      BY <3>2, <3>3, FS_Subset, FS_CardinalityType
    <3> QED
      BY <1>a, <2>1, <3>2, <3>4
  <2>6. JobOK(local, transfer)
    <3>1. /\ local \in [pc : {"rest", "page", "mark"}, pages : Nat, page : Nat,
                        todo : SUBSET (DOMAIN transfer), batch : SUBSET (DOMAIN transfer)]
          /\ local.pc = "page" /\ local.page = l.page + 1 /\ local.pages = l.pages
          /\ local.todo = {} /\ local.batch = {}
      <4>1. l \in [pc : {"rest", "page", "mark"}, pages : Nat, page : Nat,
                   todo : SUBSET (DOMAIN transfer), batch : SUBSET (DOMAIN transfer)]
        BY <2>2 DEF JobOK
      <4>2. l.page + 1 \in Nat /\ {} \in SUBSET (DOMAIN transfer)
        BY <4>1
      <4> QED
        BY <2>1, <4>1, <4>2
    <3>2. IsFiniteSet({} \cup {}) /\ Cardinality({} \cup {}) = 0
      <4>1. {} \cup {} = {}
        OBVIOUS
      <4> QED
        BY <4>1, FS_EmptySet
    <3>3. l.page + 1 <= l.pages
      BY <2>1, <2>2 DEF JobOK
    <3> HIDE DEF local
    <3> QED
      BY <3>1, <3>2, <3>3, RewardAssumption DEF JobOK
  <2> HIDE DEF local, p
  <2>7. DOMAIN job' = Jobs /\ \A k \in Jobs : JobOK(job'[k], transfer)
    BY <1>b, <2>1, <2>6, OneJob
  <2> QED
    BY <1>a, <2>1, <2>3, <2>4, <2>5, <2>7 DEF RewardInv, others
<1>12. ASSUME NEW j \in Jobs, Exit(j) PROVE RewardInv'
  <2>1. /\ Run(j, NoJob) /\ UNCHANGED <<table, replica, request, funds, admin, topUps>>
        /\ aborted' = aborted + 1 /\ failures' \in {failures, failures + 1}
    BY <1>12 DEF Exit
  <2>2. DOMAIN job' = Jobs /\ \A k \in Jobs : JobOK(job'[k], transfer)
    BY <1>b, <2>1, IdleJobOK, OneJob
  <2>3. aborted' \in Nat /\ failures' \in Nat
    BY <1>a, <2>1
  <2> QED
    BY <1>a, <2>1, <2>2, <2>3, SameTable
<1>13. CASE UNCHANGED vars
  BY <1>13, <1>a, <1>b, SameTable DEF vars, others, table
<1> QED
  BY <1>1, <1>2, <1>3, <1>4, <1>5, <1>6, <1>7, <1>8, <1>9, <1>10, <1>11, <1>12, <1>13
  DEF Next, Reward, Settle

LEMMA RewardTypes == RewardInv => TypeOK
<1> SUFFICES ASSUME RewardInv PROVE TypeOK
  OBVIOUS
<1>1. \A j \in Jobs :
        /\ job[j].pc \in {"rest", "page", "mark"}
        /\ job[j].page <= job[j].pages
        /\ job[j].todo \subseteq DOMAIN transfer /\ job[j].batch \subseteq DOMAIN transfer
        /\ Cardinality(job[j].todo \cup job[j].batch) <= PageSize
  BY DEF RewardInv, JobOK
<1> QED
  BY <1>1 DEF RewardInv, TypeOK

LEMMA InvUnpaid == RewardInv => PendingIsUnpaid
BY DEF RewardInv, Unpaid, PendingIsUnpaid, Open, Automatic

\* A settling job never works on a page it did not count, on more than a page, or on a
\* transfer that is not in the table (fixTransfer 26-73).
THEOREM RewardTypeCorrect == Spec => []TypeOK
BY RewardTypes, RewardInit, RewardNext, PTL DEF Spec

\* However many jobs overlap, whatever they read and wherever they end: a reward that is
\* still PENDING has not been paid.
THEOREM PendingRewardsAreUnpaid == Spec => []PendingIsUnpaid
BY InvUnpaid, RewardInit, RewardNext, PTL DEF Spec

-----------------------------------------------------------------------------
(* What is lost *)

LEMMA LostIsFinite == RewardInv => IsFiniteSet(Lost)
<1> SUFFICES ASSUME RewardInv PROVE IsFiniteSet(Lost)
  OBVIOUS
<1>1. Len(transfer) \in Nat /\ DOMAIN transfer = 1..Len(transfer)
  BY DEF RewardInv
<1>2. IsFiniteSet(1..Len(transfer))
  BY <1>1, FS_Interval
<1> QED
  BY <1>1, <1>2, FS_Subset DEF Lost, Leaves

\* A step after which nothing more is lost.
LEMMA NoMoreLost ==
  ASSUME RewardInv, LostPerAbort, Lost' \subseteq Lost, aborted' = aborted
  PROVE  LostPerAbort'
<1>1. IsFiniteSet(Lost)
  BY LostIsFinite
<1>2. IsFiniteSet(Lost') /\ Cardinality(Lost') <= Cardinality(Lost)
  BY <1>1, FS_Subset
<1>3. Cardinality(Lost) \in Nat /\ Cardinality(Lost') \in Nat /\ PageSize * aborted \in Nat
  <2>1. PageSize \in Nat /\ aborted \in Nat
    BY RewardAssumption DEF RewardInv
  <2>2. Cardinality(Lost) \in Nat /\ Cardinality(Lost') \in Nat
    BY <1>1, <1>2, FS_CardinalityType
  <2> QED
    BY <2>1, <2>2
<1> QED
  BY <1>2, <1>3 DEF LostPerAbort

\* New transfers are not lost: they are not marked.
LEMMA AppendedLost ==
  ASSUME RewardInv, NEW rows \in Seq(Transfer), NEW more,
         \A i \in DOMAIN rows : rows[i].status # "SUCCEEDED",
         transfer' = transfer \o rows, paid' = paid \o more, more \in Seq(Nat), UNCHANGED job
  PROVE  Lost' \subseteq Lost
<1> DEFINE n == Len(transfer)
<1>1. /\ transfer \in Seq(Transfer) /\ paid \in Seq(Nat) /\ Len(paid) = n
      /\ n \in Nat /\ DOMAIN transfer = 1..n
  BY DEF RewardInv
<1>2. \A i \in 1..n : transfer'[i] = transfer[i] /\ paid'[i] = paid[i]
  BY <1>1
<1>3. \A i \in DOMAIN transfer' : i \notin 1..n => transfer'[i].status # "SUCCEEDED"
  BY <1>1
<1> QED
  BY <1>1, <1>2, <1>3 DEF Lost, Leaves

LEMMA LostNext == RewardInv /\ LostPerAbort /\ [Next]_vars => LostPerAbort'
<1> SUFFICES ASSUME RewardInv, LostPerAbort, [Next]_vars PROVE LostPerAbort'
  OBVIOUS
<1>a. DOMAIN job = Jobs /\ \A j \in Jobs : JobOK(job[j], transfer)
  BY DEF RewardInv
<1>b. transfer \in Seq(Transfer) /\ DOMAIN paid = DOMAIN transfer /\ paid \in [DOMAIN paid -> Nat]
  <2>1. /\ transfer \in Seq(Transfer) /\ paid \in Seq(Nat) /\ Len(paid) = Len(transfer)
    BY DEF RewardInv
  <2> QED
    BY <2>1
<1>c. ASSUME UNCHANGED <<table, job, aborted>> PROVE LostPerAbort'
  <2>1. Lost' = Lost
    BY <1>c DEF Lost, Leaves, table
  <2> QED
    BY <1>c, <2>1, NoMoreLost
<1>d. ASSUME UNCHANGED <<table, aborted>>, NEW j \in Jobs, NEW local, Run(j, local),
             local.batch = job[j].batch
      PROVE  LostPerAbort'
  <2>1. \A k \in Jobs : job'[k].batch = job[k].batch
    BY <1>a, <1>d DEF Run
  <2>2. Lost' = Lost
    BY <1>d, <2>1 DEF Lost, Leaves, table
  <2> QED
    BY <1>d, <2>2, NoMoreLost
<1>1. CASE Replicate
  BY <1>1, <1>c DEF Replicate
<1>2. CASE WindowEnds
  <2>1. PICK old : transfer' = Aged(transfer, old)
    BY <1>2 DEF WindowEnds
  <2>2. \A i \in DOMAIN transfer :
           transfer'[i].status = transfer[i].status /\ transfer'[i].wallet = transfer[i].wallet
    BY <1>b, <2>1, AgedOK
  <2>3. DOMAIN transfer' = DOMAIN transfer
    BY <2>1 DEF Aged
  <2>4. UNCHANGED <<paid, job, aborted>>
    BY <1>2 DEF WindowEnds
  <2>5. Lost' \subseteq Lost
    BY <2>2, <2>3, <2>4 DEF Lost, Leaves
  <2> QED
    BY <2>4, <2>5, NoMoreLost
<1>3. CASE TopUp
  BY <1>3, <1>c DEF TopUp
<1>4. ASSUME NEW r \in Requests, Reward(r) PROVE LostPerAbort'
  <2>1. CASE ReceiveRequest(r)
    BY <2>1, <1>c DEF ReceiveRequest
  <2>2. CASE LookUp(r)
    BY <2>2, <1>c DEF LookUp
  <2>3. CASE NewReward(r)
    <3> DEFINE l == request[r]
               row == NewTransfer(l.user, l.reward, "CREDIT", "PENDING")
    <3>1. /\ l.pc = "create" /\ transfer' = Append(transfer, row) /\ paid' = Append(paid, 0)
          /\ UNCHANGED <<replica, job, funds, aborted, others>>
      BY <2>3 DEF NewReward
    <3>2. l.user \in Users /\ l.reward \in Rewards
      <4>1. l \in RequestLocal
        BY DEF RewardInv
      <4> QED
        BY <3>1, <4>1 DEF RequestLocal, NoRequest
    <3>3. row \in Transfer /\ row.status = "PENDING"
      <4>1. row \in Transfer
        BY <3>2, NewTransferOK DEF Wallets, Actions, Statuses
      <4> QED
        BY <4>1 DEF NewTransfer
    <3> HIDE DEF row
    <3>4. transfer' = transfer \o <<row>> /\ <<row>> \in Seq(Transfer)
      BY <1>b, <3>1, <3>3, AppendIsConcat
    <3>5. paid' = paid \o <<0>> /\ <<0>> \in Seq(Nat)
      <4> DEFINE N == Nat
                 zero == 0
      <4>1. paid \in Seq(N) /\ zero \in N /\ paid' = Append(paid, zero)
        BY <3>1 DEF RewardInv
      <4> HIDE DEF N, zero
      <4>2. paid' = paid \o <<zero>> /\ <<zero>> \in Seq(N)
        BY <4>1, AppendIsConcat
      <4> QED
        BY <4>2 DEF N, zero
    <3>6. \A i \in DOMAIN <<row>> : <<row>>[i].status # "SUCCEEDED"
      BY <3>3
    <3>7. Lost' \subseteq Lost
      BY <3>1, <3>4, <3>5, <3>6, AppendedLost
    <3> QED
      BY <3>1, <3>7, NoMoreLost
  <2> QED
    BY <1>4, <2>1, <2>2, <2>3 DEF Reward
<1>5. ASSUME NEW a \in Admins, Move(a) PROVE LostPerAbort'
  <2>1. CASE TransferCrypto(a)
    <3>1. UNCHANGED <<table, job, aborted>>
      BY <2>1 DEF TransferCrypto
    <3>2. Lost' = Lost
      BY <3>1 DEF Lost, Leaves, table
    <3> QED
      BY <3>1, <3>2, NoMoreLost
  <2>2. CASE CreditMove(a) \/ DebitMove(a)
    <3>1. PICK rows \in Seq(Transfer), more \in Seq(Nat) :
             /\ transfer' = transfer \o rows /\ paid' = paid \o more
             /\ \A i \in DOMAIN rows : rows[i].action = "TRANSFER" /\ rows[i].status # "SUCCEEDED"
      BY <2>2, MoveRecorded
    <3>2. UNCHANGED <<job, aborted>>
      BY <2>2, MoveRecorded
    <3>3. Lost' \subseteq Lost
      BY <3>1, <3>2, AppendedLost
    <3> QED
      BY <3>2, <3>3, NoMoreLost
  <2> QED
    BY <1>5, <2>1, <2>2 DEF Move
<1>6. ASSUME NEW j \in Jobs, StartJob(j) PROVE LostPerAbort'
  <2> DEFINE local == [pc |-> "page", pages |-> (Cardinality(Open(Seen)) + PageSize - 1) \div PageSize,
                       page |-> 0, todo |-> {}, batch |-> {}]
  <2>1. job[j].pc = "rest" /\ Run(j, local) /\ UNCHANGED <<table, aborted>>
    BY <1>6 DEF StartJob
  <2>2. job[j].batch = {} /\ local.batch = {}
    BY <1>a, <2>1 DEF JobOK
  <2> HIDE DEF local
  <2> QED
    BY <1>d, <2>1, <2>2
<1>7. ASSUME NEW j \in Jobs, ReadPage(j) PROVE LostPerAbort'
  <2> DEFINE l == job[j]
  <2>1. /\ l.pc = "page" /\ l.batch = {} /\ UNCHANGED <<table, aborted>>
        /\ JobOK(l, transfer)
    BY <1>7, <1>a DEF ReadPage, JobOK
  <2>2. CASE Run(j, NoJob)
    BY <1>d, <2>1, <2>2 DEF NoJob
  <2>3. ASSUME NEW rows, Run(j, [l EXCEPT !.pc = "mark", !.todo = rows]) PROVE LostPerAbort'
    <3>1. [l EXCEPT !.pc = "mark", !.todo = rows].batch = l.batch
      BY <2>1 DEF JobOK
    <3> QED
      BY <1>d, <2>1, <2>3, <3>1
  <2> QED
    BY <1>7, <2>2, <2>3 DEF ReadPage
<1>8. ASSUME NEW j \in Jobs, MarkTransfer(j) PROVE LostPerAbort'
  <2> DEFINE l == job[j]
  <2>1. PICK i : /\ i \in l.todo /\ transfer' = [transfer EXCEPT ![i].status = "SUCCEEDED"]
                 /\ Run(j, [l EXCEPT !.todo = @ \ {i}, !.batch = @ \cup {i}])
    BY <1>8 DEF MarkTransfer
  <2>2. UNCHANGED <<paid, aborted>>
    BY <1>8 DEF MarkTransfer
  <2>3. JobOK(l, transfer) /\ i \in DOMAIN transfer
    BY <1>a, <2>1 DEF JobOK
  <2>4. DOMAIN transfer' = DOMAIN transfer /\ \A k \in DOMAIN transfer : k # i => transfer'[k] = transfer[k]
    BY <1>b, <2>1, <2>3, Marked
  <2> DEFINE local == [l EXCEPT !.todo = @ \ {i}, !.batch = @ \cup {i}]
  <2>5. local.batch = l.batch \cup {i}
    BY <2>3 DEF JobOK
  <2>6. Run(j, local)
    BY <2>1
  <2> HIDE DEF local
  <2>7. \A k \in Jobs : job[k].batch \subseteq job'[k].batch
    BY <1>a, <2>5, <2>6 DEF Run
  <2>8. i \in job'[j].batch
    BY <1>a, <2>5, <2>6 DEF Run
  <2>9. Lost' \subseteq Lost
    BY <2>2, <2>4, <2>7, <2>8 DEF Lost, Leaves
  <2> QED
    BY <2>2, <2>9, NoMoreLost
<1>9. ASSUME NEW j \in Jobs, TransferFundsBatch(j) PROVE LostPerAbort'
  <2> DEFINE l == job[j]
             local == [l EXCEPT !.pc = "page", !.page = @ + 1, !.batch = {}]
  <2>1. /\ paid' = [i \in DOMAIN paid |-> IF i \in l.batch THEN paid[i] + 1 ELSE paid[i]]
        /\ Run(j, local) /\ UNCHANGED <<transfer, aborted>>
    BY <1>9 DEF TransferFundsBatch
  <2> HIDE DEF local
  <2>2. \A i \in DOMAIN transfer : paid'[i] = 0 => paid[i] = 0 /\ i \notin l.batch
    BY <1>b, <2>1
  <2>3. \A k \in Jobs : k # j => job'[k] = job[k]
    BY <1>a, <2>1 DEF Run
  <2>4. Lost' \subseteq Lost
    BY <2>1, <2>2, <2>3 DEF Lost, Leaves
  <2> QED
    BY <2>1, <2>4, NoMoreLost
<1>10. ASSUME NEW j \in Jobs, Exit(j) PROVE LostPerAbort'
  <2> DEFINE batch == job[j].batch
  <2>1. Run(j, NoJob) /\ UNCHANGED table /\ aborted' = aborted + 1
    BY <1>10 DEF Exit
  <2>2. \A k \in Jobs : k # j => job'[k] = job[k]
    BY <1>a, <2>1 DEF Run
  <2>3. Lost' \subseteq Lost \cup batch
    BY <2>1, <2>2 DEF Lost, Leaves, table
  <2>4. IsFiniteSet(batch) /\ Cardinality(batch) <= PageSize /\ Cardinality(batch) \in Nat
    <3> DEFINE all == job[j].todo \cup batch
    <3>1. IsFiniteSet(all) /\ Cardinality(all) <= PageSize
      BY <1>a DEF JobOK
    <3>2. IsFiniteSet(batch) /\ Cardinality(batch) <= Cardinality(all)
      BY <3>1, FS_Subset
    <3>3. Cardinality(batch) \in Nat /\ Cardinality(all) \in Nat
      BY <3>1, <3>2, FS_CardinalityType
    <3> HIDE DEF batch, all
    <3> QED
      BY <3>1, <3>2, <3>3, RewardAssumption
  <2>5. IsFiniteSet(Lost) /\ Cardinality(Lost) \in Nat
    BY LostIsFinite, FS_CardinalityType
  <2>6. /\ IsFiniteSet(Lost \cup batch)
        /\ Cardinality(Lost \cup batch) <= Cardinality(Lost) + Cardinality(batch)
    <3>1. /\ IsFiniteSet(Lost \cup batch) /\ IsFiniteSet(Lost \cap batch)
          /\ Cardinality(Lost \cup batch)
               = Cardinality(Lost) + Cardinality(batch) - Cardinality(Lost \cap batch)
      BY <2>4, <2>5, FS_Union, FS_Intersection
    <3>2. Cardinality(Lost \cap batch) \in Nat
      BY <3>1, FS_CardinalityType
    <3> QED
      BY <2>4, <2>5, <3>1, <3>2
  <2>7. /\ IsFiniteSet(Lost') /\ Cardinality(Lost') <= Cardinality(Lost \cup batch)
        /\ Cardinality(Lost') \in Nat /\ Cardinality(Lost \cup batch) \in Nat
    BY <2>3, <2>6, FS_Subset, FS_CardinalityType
  <2>8. Cardinality(Lost) <= PageSize * aborted
    BY DEF LostPerAbort
  <2>9. PageSize \in Nat /\ aborted \in Nat
    BY RewardAssumption DEF RewardInv
  <2>10. PageSize * (aborted + 1) = PageSize * aborted + PageSize /\ PageSize * aborted \in Nat
    BY <2>9
  <2>11. Cardinality(Lost') <= PageSize * aborted + PageSize
    BY <2>4, <2>5, <2>6, <2>7, <2>8, <2>9, <2>10
  <2> QED
    BY <2>1, <2>10, <2>11 DEF LostPerAbort
<1>11. CASE UNCHANGED vars
  BY <1>11, <1>c DEF vars, table
<1> QED
  BY <1>1, <1>2, <1>3, <1>4, <1>5, <1>6, <1>7, <1>8, <1>9, <1>10, <1>11 DEF Next, Settle

\* However many jobs overlap and whatever the replica shows, a job that ends early costs
\* at most a page of transfers that are marked and never paid (fixTransfer 46-72).
THEOREM AnAbortLosesAPage == Spec => []LostPerAbort
<1>1. Init => LostPerAbort
  <2> SUFFICES ASSUME Init PROVE LostPerAbort
    OBVIOUS
  <2>1. Lost = {}
    BY DEF Init, Lost, Leaves
  <2>2. Cardinality(Lost) = 0
    BY <2>1, FS_EmptySet
  <2> QED
    BY <2>2, RewardAssumption DEF LostPerAbort, Init
<1> QED
  BY <1>1, RewardInit, RewardNext, LostNext, PTL DEF Spec

-----------------------------------------------------------------------------
(* What a user gets in a window *)

\* The requests that passed the look-up and are about to create a reward.
Creating(u, a) ==
    {r \in Requests : request[r].pc = "create" /\ request[r].user = u /\ request[r].reward = a}

\* They count as well: all of them looked before any of them has created one.
WindowInv ==
    \A u \in Users, a \in Rewards :
        Cardinality(Counted(transfer, u, a)) + Cardinality(Creating(u, a))
            < Limit[a] + Cardinality(Requests)

LEMMA OneMoreElement ==
  ASSUME NEW S, IsFiniteSet(S), NEW x
  PROVE  /\ IsFiniteSet(S \cup {x}) /\ Cardinality(S \cup {x}) \in Nat
         /\ Cardinality(S \cup {x}) <= Cardinality(S) + 1
<1>1. /\ IsFiniteSet(S \cup {x})
      /\ Cardinality(S \cup {x}) = IF x \in S THEN Cardinality(S) ELSE Cardinality(S) + 1
  BY FS_AddElement
<1>2. Cardinality(S) \in Nat /\ Cardinality(S \cup {x}) \in Nat
  BY <1>1, FS_CardinalityType
<1> QED
  BY <1>1, <1>2

LEMMA WindowFinite ==
  ASSUME RewardInv, NEW u, NEW a \in Rewards
  PROVE  /\ IsFiniteSet(Counted(transfer, u, a)) /\ Cardinality(Counted(transfer, u, a)) \in Nat
         /\ IsFiniteSet(Creating(u, a)) /\ Cardinality(Creating(u, a)) \in Nat
         /\ Cardinality(Creating(u, a)) <= Cardinality(Requests)
         /\ Cardinality(Requests) \in Nat /\ Limit[a] \in Nat
<1>0. Len(transfer) \in Nat /\ DOMAIN transfer = 1..Len(transfer)
  BY DEF RewardInv
<1>1. Len(transfer) \in Nat /\ DOMAIN transfer = 1..Len(transfer) /\ IsFiniteSet(1..Len(transfer))
  BY <1>0, FS_Interval
<1>2. Counted(transfer, u, a) \subseteq 1..Len(transfer) /\ Creating(u, a) \subseteq Requests
  BY <1>1 DEF Counted, Creating
<1>3. IsFiniteSet(Requests) /\ Limit[a] \in Nat
  BY RewardAssumption
<1>4. IsFiniteSet(Counted(transfer, u, a)) /\ IsFiniteSet(Creating(u, a))
  BY <1>1, <1>2, <1>3, FS_Subset
<1>5. Cardinality(Creating(u, a)) <= Cardinality(Requests)
  BY <1>2, <1>3, FS_Subset
<1>6. /\ Cardinality(Counted(transfer, u, a)) \in Nat /\ Cardinality(Creating(u, a)) \in Nat
      /\ Cardinality(Requests) \in Nat
  BY <1>3, <1>4, FS_CardinalityType
<1> QED
  BY <1>3, <1>4, <1>5, <1>6

LEMMA InvWindow == RewardInv /\ WindowInv => RewardsBounded
<1> SUFFICES ASSUME RewardInv, WindowInv, NEW u \in Users, NEW a \in Rewards
             PROVE  Cardinality(Counted(transfer, u, a)) < Limit[a] + Cardinality(Requests)
  BY DEF RewardsBounded
<1> QED
  BY WindowFinite DEF WindowInv

LEMMA WindowInit == Init => WindowInv
<1> SUFFICES ASSUME Init, NEW u \in Users, NEW a \in Rewards
             PROVE  Cardinality(Counted(transfer, u, a)) + Cardinality(Creating(u, a))
                       < Limit[a] + Cardinality(Requests)
  BY DEF WindowInv
<1>1. Counted(transfer, u, a) = {} /\ Creating(u, a) = {}
  BY DEF Init, Counted, Creating, NoRequest
<1>2. Cardinality(Requests) \in Nat /\ Limit[a] \in Nat \ {0}
  BY FS_CardinalityType, RewardAssumption
<1> QED
  BY <1>1, <1>2, FS_EmptySet

\* A step after which no more transfers count and no more requests are about to create one.
LEMMA NoMoreCounted ==
  ASSUME RewardInv, RewardInv', NEW u \in Users, NEW a \in Rewards, WindowInv,
         Counted(transfer', u, a) \subseteq Counted(transfer, u, a),
         Creating(u, a)' \subseteq Creating(u, a)
  PROVE  Cardinality(Counted(transfer', u, a)) + Cardinality(Creating(u, a)')
            < Limit[a] + Cardinality(Requests)
<1> DEFINE C == Counted(transfer, u, a)
           D == Counted(transfer', u, a)
           K == Creating(u, a)
           L == Creating(u, a)'
<1>1. /\ IsFiniteSet(C) /\ Cardinality(C) \in Nat /\ IsFiniteSet(K) /\ Cardinality(K) \in Nat
      /\ Cardinality(Requests) \in Nat /\ Limit[a] \in Nat
  BY WindowFinite
<1>2. D \subseteq C /\ L \subseteq K /\ Cardinality(C) + Cardinality(K) < Limit[a] + Cardinality(Requests)
  BY DEF WindowInv
<1> HIDE DEF C, D, K, L
<1>3. Cardinality(D) <= Cardinality(C) /\ Cardinality(L) <= Cardinality(K)
  BY <1>1, <1>2, FS_Subset
<1>4. Cardinality(D) \in Nat /\ Cardinality(L) \in Nat
  BY <1>1, <1>2, FS_Subset, FS_CardinalityType
<1> QED
  BY <1>1, <1>2, <1>3, <1>4 DEF C, D, K, L

\* What counts after the rows of the table have changed in other columns.
LEMMA SameCounted ==
  ASSUME NEW t, DOMAIN transfer = DOMAIN t,
         \A i \in DOMAIN t : /\ t[i].wallet = transfer[i].wallet /\ t[i].action = transfer[i].action
                             /\ t[i].recent => transfer[i].recent
  PROVE  \A u, a : Counted(t, u, a) \subseteq Counted(transfer, u, a)
BY DEF Counted

\* New rows that are no rewards do not count.
LEMMA AppendedCounted ==
  ASSUME RewardInv, NEW rows \in Seq(Transfer), \A i \in DOMAIN rows : rows[i].action \notin Rewards
  PROVE  \A u : \A a \in Rewards : Counted(transfer \o rows, u, a) \subseteq Counted(transfer, u, a)
<1> DEFINE n == Len(transfer)
           t == transfer \o rows
<1>1. transfer \in Seq(Transfer) /\ n \in Nat /\ DOMAIN transfer = 1..n
  BY DEF RewardInv
<1>2. \A i \in 1..n : t[i] = transfer[i]
  BY <1>1
<1>3. \A i \in DOMAIN t : i \notin 1..n => t[i].action \notin Rewards
  BY <1>1
<1> HIDE DEF t
<1> QED
  BY <1>1, <1>2, <1>3 DEF Counted, t

LEMMA WindowNext ==
  ASSUME ~Lagging, RewardInv, RewardInv', WindowInv, [Next]_vars
  PROVE  WindowInv'
<1>a. /\ transfer \in Seq(Transfer) /\ Len(transfer) \in Nat /\ DOMAIN transfer = 1..Len(transfer)
      /\ request \in [Requests -> RequestLocal] /\ \A j \in Jobs : JobOK(job[j], transfer)
      /\ Seen = transfer
  BY DEF RewardInv, Seen
\* Nothing more counts.
<1>b. ASSUME \A u : \A a \in Rewards : /\ Counted(transfer', u, a) \subseteq Counted(transfer, u, a)
                                       /\ Creating(u, a)' \subseteq Creating(u, a)
      PROVE  WindowInv'
  <2>1. \A u \in Users, a \in Rewards :
           Cardinality(Counted(transfer', u, a)) + Cardinality(Creating(u, a)')
              < Limit[a] + Cardinality(Requests)
    BY <1>b, NoMoreCounted
  <2> QED
    BY <2>1 DEF WindowInv, Counted
<1>c. UNCHANGED request => \A u, a : Creating(u, a)' \subseteq Creating(u, a)
  BY DEF Creating
<1>1. CASE UNCHANGED <<transfer, request>>
  BY <1>1, <1>b, <1>c
<1>2. CASE WindowEnds
  <2>1. PICK old : transfer' = Aged(transfer, old) /\ UNCHANGED request
    BY <1>2 DEF WindowEnds
  <2>2. DOMAIN transfer' = DOMAIN transfer
    BY <2>1 DEF Aged
  <2>3. ASSUME NEW i \in DOMAIN transfer
        PROVE  /\ transfer'[i].wallet = transfer[i].wallet /\ transfer'[i].action = transfer[i].action
               /\ transfer'[i].recent => transfer[i].recent
    <3>1. transfer[i] \in Transfer
      BY <1>a, Element
    <3>2. [transfer[i] EXCEPT !.recent = FALSE].recent = FALSE
      BY <3>1 DEF Transfer
    <3>3. transfer'[i] = IF i \in old THEN [transfer[i] EXCEPT !.recent = FALSE] ELSE transfer[i]
      BY <2>1 DEF Aged
    <3>4. transfer'[i].wallet = transfer[i].wallet /\ transfer'[i].action = transfer[i].action
      BY <1>a, <2>1, AgedOK
    <3> QED
      BY <3>2, <3>3, <3>4
  <2>4. \A u, a : Counted(transfer', u, a) \subseteq Counted(transfer, u, a)
    BY <2>2, <2>3 DEF Counted
  <2> QED
    BY <1>b, <1>c, <2>1, <2>4
<1>3. ASSUME NEW r \in Requests, ReceiveRequest(r) PROVE WindowInv'
  <2>1. PICK u, a : Ask(r, [pc |-> "look", user |-> u, reward |-> a]) /\ UNCHANGED transfer
    BY <1>3 DEF ReceiveRequest, table
  <2>2. \A x, b : Creating(x, b)' \subseteq Creating(x, b)
    BY <1>a, <2>1 DEF Creating, Ask
  <2> QED
    BY <1>b, <2>1, <2>2
<1>4. ASSUME NEW r \in Requests, LookUp(r) PROVE WindowInv'
  <2> DEFINE l == request[r]
             local == [l EXCEPT !.pc = "create"]
  <2>1. l \in [pc : {"look", "create"}, user : Users, reward : Rewards] /\ UNCHANGED transfer /\ l.pc = "look"
    BY <1>4, <1>a DEF LookUp, RequestLocal, NoRequest, table
  <2>2. local.user = l.user /\ local.reward = l.reward
    BY <2>1
  <2>3. CASE Ask(r, NoRequest)
    <3>1. \A x, b : Creating(x, b)' \subseteq Creating(x, b)
      BY <1>a, <2>3 DEF Creating, Ask, NoRequest
    <3> QED
      BY <1>b, <2>1, <3>1
  <2>4. CASE Ask(r, local) /\ Cardinality(Counted(transfer, l.user, l.reward)) < Limit[l.reward]
    <3> HIDE DEF local
    <3>1. \A k \in Requests : request'[k] = IF k = r THEN local ELSE request[k]
      BY <1>a, <2>4 DEF Ask
    <3> SUFFICES ASSUME NEW u \in Users, NEW a \in Rewards
                 PROVE  Cardinality(Counted(transfer', u, a)) + Cardinality(Creating(u, a)')
                           < Limit[a] + Cardinality(Requests)
      BY DEF WindowInv, Counted
    <3>2. CASE u = l.user /\ a = l.reward
      <4>1. Cardinality(Counted(transfer, u, a)) < Limit[a] /\ Counted(transfer', u, a) = Counted(transfer, u, a)
        BY <2>1, <2>4, <3>2
      <4>2. Creating(u, a)' \subseteq Requests
        BY DEF Creating
      <4>3. /\ IsFiniteSet(Requests) /\ Cardinality(Requests) \in Nat /\ Limit[a] \in Nat
            /\ Cardinality(Counted(transfer, u, a)) \in Nat
        BY WindowFinite, RewardAssumption
      <4>4. Cardinality(Creating(u, a)') \in Nat /\ Cardinality(Creating(u, a)') <= Cardinality(Requests)
        BY <4>2, <4>3, FS_Subset, FS_CardinalityType
      <4> QED
        BY <4>1, <4>3, <4>4
    <3>3. CASE ~(u = l.user /\ a = l.reward)
      <4>1. Creating(u, a)' \subseteq Creating(u, a)
        BY <2>2, <3>1, <3>3 DEF Creating
      <4> QED
        BY <2>1, <4>1, NoMoreCounted
    <3> QED
      BY <3>2, <3>3
  <2> QED
    BY <1>4, <1>a, <2>3, <2>4 DEF LookUp
<1>5. ASSUME NEW r \in Requests, NewReward(r) PROVE WindowInv'
  <2> DEFINE l == request[r]
             row == NewTransfer(l.user, l.reward, "CREDIT", "PENDING")
             n == Len(transfer)
  <2>1. l \in [pc : {"look", "create"}, user : Users, reward : Rewards] /\ l.pc = "create"
    BY <1>5, <1>a DEF NewReward, RequestLocal, NoRequest
  <2>2. transfer' = Append(transfer, row) /\ Ask(r, NoRequest)
    BY <1>5 DEF NewReward
  <2>3. row \in Transfer /\ row.wallet = l.user /\ row.action = l.reward
    <3>1. row \in Transfer
      BY <2>1, NewTransferOK DEF Actions, Statuses, Wallets
    <3> QED
      BY <3>1 DEF NewTransfer
  <2> HIDE DEF row
  <2>4. /\ DOMAIN transfer' = 1..(n + 1) /\ transfer'[n + 1] = row
        /\ \A i \in 1..n : transfer'[i] = transfer[i]
    BY <1>a, <2>2, <2>3
  <2>5. \A k \in Requests : request'[k] = IF k = r THEN NoRequest ELSE request[k]
    BY <1>a, <2>2 DEF Ask
  <2> SUFFICES ASSUME NEW u \in Users, NEW a \in Rewards
               PROVE  Cardinality(Counted(transfer', u, a)) + Cardinality(Creating(u, a)')
                         < Limit[a] + Cardinality(Requests)
    BY DEF WindowInv, Counted
  <2>6. CASE u = l.user /\ a = l.reward
    <3> DEFINE C == Counted(transfer, u, a)
               D == Counted(transfer', u, a)
               K == Creating(u, a)
               M == Creating(u, a)'
    <3>1. D \subseteq C \cup {n + 1} /\ M = K \ {r} /\ r \in K
      BY <1>a, <2>1, <2>4, <2>5, <2>6 DEF Counted, Creating, NoRequest
    <3>2. /\ IsFiniteSet(C) /\ Cardinality(C) \in Nat /\ IsFiniteSet(K) /\ Cardinality(K) \in Nat
          /\ Cardinality(Requests) \in Nat /\ Limit[a] \in Nat
      BY WindowFinite
    <3>3. Cardinality(C) + Cardinality(K) < Limit[a] + Cardinality(Requests)
      BY DEF WindowInv
    <3> HIDE DEF C, D, K, M
    <3>4. IsFiniteSet(C \cup {n + 1}) /\ Cardinality(C \cup {n + 1}) \in Nat
          /\ Cardinality(C \cup {n + 1}) <= Cardinality(C) + 1
      BY <3>2, OneMoreElement
    <3>5. Cardinality(M) = Cardinality(K) - 1
      BY <3>1, <3>2, FS_RemoveElement
    <3>6. Cardinality(D) \in Nat /\ Cardinality(D) <= Cardinality(C \cup {n + 1})
      BY <3>1, <3>4, FS_Subset, FS_CardinalityType
    <3>7. Cardinality(D) + Cardinality(M) < Limit[a] + Cardinality(Requests)
      BY <3>2, <3>3, <3>4, <3>5, <3>6
    <3> QED
      BY <3>7 DEF D, M
  <2>7. CASE ~(u = l.user /\ a = l.reward)
    <3>1. Counted(transfer', u, a) \subseteq Counted(transfer, u, a)
      BY <1>a, <2>3, <2>4, <2>7 DEF Counted
    <3>2. Creating(u, a)' \subseteq Creating(u, a)
      BY <2>5, <2>7 DEF Creating, NoRequest
    <3> QED
      BY <3>1, <3>2, NoMoreCounted
  <2> QED
    BY <2>6, <2>7
<1>6. ASSUME NEW a \in Admins, Move(a) PROVE WindowInv'
  <2>1. CASE TransferCrypto(a)
    BY <1>1, <2>1 DEF TransferCrypto, table
  <2>2. CASE CreditMove(a) \/ DebitMove(a)
    <3>1. PICK rows \in Seq(Transfer), more \in Seq(Nat) :
             /\ transfer' = transfer \o rows
             /\ \A i \in DOMAIN rows : rows[i].action = "TRANSFER"
      BY <2>2, MoveRecorded
    <3>2. UNCHANGED request
      BY <2>2, MoveRecorded
    <3>3. \A i \in DOMAIN rows : rows[i].action \notin Rewards
      BY <3>1, RewardAssumption
    <3>4. \A x : \A r \in Rewards : Counted(transfer', x, r) \subseteq Counted(transfer, x, r)
      BY <3>1, <3>3, AppendedCounted
    <3> QED
      BY <1>b, <1>c, <3>2, <3>4
  <2> QED
    BY <1>6, <2>1, <2>2 DEF Move
<1>7. ASSUME NEW j \in Jobs, MarkTransfer(j) PROVE WindowInv'
  <2>1. PICK i \in job[j].todo : transfer' = [transfer EXCEPT ![i].status = "SUCCEEDED"]
    BY <1>7 DEF MarkTransfer
  <2>2. i \in DOMAIN transfer
    BY <1>a, <2>1 DEF JobOK
  <2>3. /\ DOMAIN transfer' = DOMAIN transfer
        /\ \A k \in DOMAIN transfer :
              /\ transfer'[k].action = transfer[k].action
              /\ transfer'[k].wallet = transfer[k].wallet /\ transfer'[k].recent = transfer[k].recent
    BY <1>a, <2>1, <2>2, Marked
  <2>4. \A u, a : Counted(transfer', u, a) \subseteq Counted(transfer, u, a)
    BY <2>3 DEF Counted
  <2> QED
    BY <1>7, <1>b, <1>c, <2>4 DEF MarkTransfer
<1>8. CASE Replicate \/ TopUp \/ \E j \in Jobs : StartJob(j) \/ ReadPage(j) \/ TransferFundsBatch(j) \/ Exit(j)
  BY <1>1, <1>8 DEF Replicate, TopUp, StartJob, ReadPage, TransferFundsBatch, Exit, table
<1>9. CASE UNCHANGED vars
  BY <1>1, <1>9 DEF vars
<1> QED
  BY <1>2, <1>3, <1>4, <1>5, <1>6, <1>7, <1>8, <1>9 DEF Next, Reward, Settle

\* If reads see the last write, a user gets at most as many rewards of a kind in a window
\* as the limit allows, and one more for each other request under way (UserService 302-318).
THEOREM RewardsPerWindow ==
  ASSUME ~Lagging
  PROVE  Spec => []RewardsBounded
<1>1. RewardInv /\ RewardInv' /\ WindowInv /\ [Next]_vars => WindowInv'
  BY WindowNext
<1> QED
  BY <1>1, InvWindow, RewardInit, RewardNext, WindowInit, PTL DEF Spec

-----------------------------------------------------------------------------
(* What is paid twice *)

SingleJob == \A i, j \in Jobs : i = j

\* A reward is paid at most once; what is in a batch has not been paid yet, and what a job
\* is still to mark has not been marked.
Once(i) ==
    /\ paid[i] <= 1
    /\ \A j \in Jobs : /\ i \in job[j].batch => paid[i] = 0
                       /\ i \in job[j].todo => transfer[i].status # "SUCCEEDED"

PaidOnce == \A i \in DOMAIN transfer : transfer[i].action \in Automatic => Once(i)

\* A step of the job on a table whose rows keep all but their status.
LEMMA OnceAfter ==
  ASSUME RewardInv, PaidOnce, DOMAIN transfer' = DOMAIN transfer,
         \A i \in DOMAIN transfer :
            /\ transfer'[i].action = transfer[i].action
            /\ transfer[i].action \in Automatic =>
                  /\ paid'[i] <= 1
                  /\ \A j \in Jobs : /\ i \in job'[j].batch => paid'[i] = 0
                                     /\ i \in job'[j].todo => transfer'[i].status # "SUCCEEDED"
  PROVE  PaidOnce'
BY DEF PaidOnce, Once

\* New transfers: rewards among them are credits nobody paid.
LEMMA OnceAppended ==
  ASSUME RewardInv, PaidOnce, NEW rows \in Seq(Transfer), NEW more \in Seq(Nat), Len(more) = Len(rows),
         \A i \in DOMAIN rows : rows[i].action \in Automatic => more[i] <= 1,
         transfer' = transfer \o rows, paid' = paid \o more, UNCHANGED job
  PROVE  PaidOnce'
<1> DEFINE n == Len(transfer)
<1>1. /\ transfer \in Seq(Transfer) /\ paid \in Seq(Nat) /\ Len(paid) = n
      /\ n \in Nat /\ DOMAIN transfer = 1..n /\ Len(rows) \in Nat
      /\ \A j \in Jobs : job[j].todo \subseteq 1..n /\ job[j].batch \subseteq 1..n
  <2>1. /\ transfer \in Seq(Transfer) /\ paid \in Seq(Nat) /\ Len(paid) = n
        /\ n \in Nat /\ DOMAIN transfer = 1..n /\ Len(rows) \in Nat
    BY DEF RewardInv
  <2>2. \A j \in Jobs : job[j].todo \subseteq DOMAIN transfer /\ job[j].batch \subseteq DOMAIN transfer
    BY DEF RewardInv, JobOK
  <2> QED
    BY <2>1, <2>2
<1>2. \A i \in 1..n : transfer'[i] = transfer[i] /\ paid'[i] = paid[i]
  BY <1>1
<1>3. \A i \in DOMAIN transfer' :
        i \notin 1..n => i - n \in DOMAIN rows /\ transfer'[i] = rows[i - n] /\ paid'[i] = more[i - n]
  BY <1>1
<1> SUFFICES ASSUME NEW i \in DOMAIN transfer', transfer'[i].action \in Automatic
             PROVE  Once(i)'
  BY DEF PaidOnce
<1>4. CASE i \in 1..n
  BY <1>1, <1>2, <1>4 DEF PaidOnce, Once
<1>5. CASE i \notin 1..n
  <2>1. paid'[i] <= 1
    BY <1>3, <1>5
  <2> QED
    BY <1>1, <1>5, <2>1 DEF Once
<1> QED
  BY <1>4, <1>5

LEMMA OnceNext ==
  ASSUME SingleJob, ~Lagging, RewardInv, PaidOnce, [Next]_vars
  PROVE  PaidOnce'
<1>a. /\ transfer \in Seq(Transfer) /\ Len(transfer) \in Nat /\ DOMAIN transfer = 1..Len(transfer)
      /\ DOMAIN job = Jobs /\ \A j \in Jobs : JobOK(job[j], transfer)
      /\ paid \in Seq(Nat) /\ DOMAIN paid = DOMAIN transfer /\ Unpaid(transfer, paid)
      /\ request \in [Requests -> RequestLocal] /\ Seen = transfer
  BY DEF RewardInv, Seen
<1>b. \A i \in DOMAIN transfer : transfer[i].action \in Automatic => Once(i)
  BY DEF PaidOnce
<1>1. CASE UNCHANGED <<transfer, paid, job>>
  BY <1>1 DEF PaidOnce, Once
<1>2. CASE WindowEnds
  <2>1. PICK old : transfer' = Aged(transfer, old) /\ UNCHANGED <<paid, job>>
    BY <1>2 DEF WindowEnds
  <2>2. DOMAIN transfer' = DOMAIN transfer
    BY <2>1 DEF Aged
  <2>3. ASSUME NEW i \in DOMAIN transfer
        PROVE  /\ transfer'[i].action = transfer[i].action /\ transfer'[i].type = transfer[i].type
               /\ transfer'[i].status = transfer[i].status
    <3>1. transfer[i] \in Transfer
      BY <1>a, Element
    <3>2. [transfer[i] EXCEPT !.recent = FALSE].type = transfer[i].type
      BY <3>1 DEF Transfer
    <3>3. transfer'[i] = IF i \in old THEN [transfer[i] EXCEPT !.recent = FALSE] ELSE transfer[i]
      BY <2>1 DEF Aged
    <3> QED
      BY <1>a, <2>1, <3>2, <3>3, AgedOK
  <2> QED
    BY <1>b, <2>1, <2>2, <2>3, OnceAfter DEF Once
<1>3. ASSUME NEW r \in Requests, NewReward(r) PROVE PaidOnce'
  <2> DEFINE l == request[r]
             row == NewTransfer(l.user, l.reward, "CREDIT", "PENDING")
             rows == <<row>>
             more == <<0>>
  <2>1. l.user \in Users /\ l.reward \in Rewards
    BY <1>3, <1>a DEF NewReward, RequestLocal, NoRequest
  <2>2. transfer' = Append(transfer, row) /\ paid' = Append(paid, 0) /\ UNCHANGED job
    BY <1>3 DEF NewReward
  <2>3. row \in Transfer /\ row.type = "CREDIT"
    <3>1. row \in Transfer
      BY <2>1, NewTransferOK DEF Actions, Statuses, Wallets
    <3> QED
      BY <3>1 DEF NewTransfer
  <2> HIDE DEF row
  <2>4. transfer' = transfer \o rows /\ rows \in Seq(Transfer)
    BY <1>a, <2>2, <2>3, AppendIsConcat
  <2>5. paid' = paid \o more /\ more \in Seq(Nat)
    <3> DEFINE N == Nat
               zero == 0
    <3>1. paid \in Seq(N) /\ zero \in N /\ paid' = Append(paid, zero)
      BY <1>a, <2>2
    <3> HIDE DEF N, zero
    <3>2. paid' = paid \o <<zero>> /\ <<zero>> \in Seq(N)
      BY <3>1, AppendIsConcat
    <3> QED
      BY <3>2 DEF N, zero
  <2>6. /\ Len(rows) = 1 /\ Len(more) = 1
        /\ \A i \in DOMAIN rows : rows[i].action \in Automatic => more[i] <= 1
    BY <2>3
  <2> HIDE DEF rows, more
  <2> QED
    BY <2>2, <2>4, <2>5, <2>6, OnceAppended
<1>4. ASSUME NEW a \in Admins, Move(a) PROVE PaidOnce'
  <2>1. CASE TransferCrypto(a)
    BY <1>1, <2>1 DEF TransferCrypto, table
  <2>2. CASE CreditMove(a) \/ DebitMove(a)
    <3>1. PICK rows \in Seq(Transfer), more \in Seq(Nat) :
             /\ transfer' = transfer \o rows /\ paid' = paid \o more
             /\ Len(rows) = 1 /\ Len(more) = 1
             /\ \A i \in DOMAIN rows : rows[i].action = "TRANSFER"
      BY <2>2, MoveRecorded
    <3>2. UNCHANGED job
      BY <2>2, MoveRecorded
    <3>3. \A i \in DOMAIN rows : rows[i].action \notin Automatic
      BY <3>1, RewardAssumption DEF Automatic
    <3> QED
      BY <3>1, <3>2, <3>3, OnceAppended
  <2> QED
    BY <1>4, <2>1, <2>2 DEF Move
<1>5. ASSUME NEW j \in Jobs, StartJob(j) PROVE PaidOnce'
  <2> DEFINE local == [pc |-> "page", pages |-> (Cardinality(Open(Seen)) + PageSize - 1) \div PageSize,
                       page |-> 0, todo |-> {}, batch |-> {}]
  <2>1. Run(j, local) /\ UNCHANGED <<transfer, paid>> /\ local.todo = {} /\ local.batch = {}
    BY <1>5 DEF StartJob, table
  <2> HIDE DEF local
  <2>2. \A k \in Jobs : job'[k].todo = {} /\ job'[k].batch = {}
    BY <1>a, <2>1 DEF Run, SingleJob
  <2> QED
    BY <1>b, <2>1, <2>2, OnceAfter DEF Once
<1>6. ASSUME NEW j \in Jobs, ReadPage(j) PROVE PaidOnce'
  <2> DEFINE l == job[j]
  <2>1. l.pc = "page" /\ l.batch = {} /\ UNCHANGED <<transfer, paid>> /\ JobOK(l, transfer)
    BY <1>6, <1>a DEF ReadPage, JobOK, table
  <2>2. PICK local : /\ Run(j, local) /\ local.batch = {}
                     /\ local.todo \subseteq Open(transfer)
    <3>1. CASE Run(j, NoJob)
      <4>1. NoJob.batch = {} /\ NoJob.todo = {}
        BY DEF NoJob
      <4> QED
        BY <3>1, <4>1
    <3>2. ASSUME NEW rows \in SUBSET Open(transfer), Run(j, [l EXCEPT !.pc = "mark", !.todo = rows])
          PROVE  \E local : Run(j, local) /\ local.batch = {} /\ local.todo \subseteq Open(transfer)
      <4> DEFINE local == [l EXCEPT !.pc = "mark", !.todo = rows]
      <4>1. local.batch = {} /\ local.todo = rows
        BY <2>1 DEF JobOK
      <4> QED
        BY <3>2, <4>1
    <3> QED
      BY <1>6, <1>a, <3>1, <3>2 DEF ReadPage
  <2>3. \A k \in Jobs : job'[k].todo \subseteq Open(transfer) /\ job'[k].batch = {}
    BY <1>a, <2>2 DEF Run, SingleJob
  <2> QED
    BY <1>b, <2>1, <2>3, OnceAfter DEF Once, Open
<1>7. ASSUME NEW j \in Jobs, MarkTransfer(j) PROVE PaidOnce'
  <2> DEFINE l == job[j]
  <2>1. PICK i : /\ i \in l.todo /\ transfer' = [transfer EXCEPT ![i].status = "SUCCEEDED"]
                 /\ Run(j, [l EXCEPT !.todo = @ \ {i}, !.batch = @ \cup {i}])
    BY <1>7 DEF MarkTransfer
  <2>2. UNCHANGED paid /\ JobOK(l, transfer) /\ i \in DOMAIN transfer
    BY <1>7, <1>a, <2>1 DEF MarkTransfer, JobOK
  <2>3. /\ DOMAIN transfer' = DOMAIN transfer
        /\ \A k \in DOMAIN transfer :
              /\ transfer'[k].action = transfer[k].action /\ transfer'[k].type = transfer[k].type
              /\ k # i => transfer'[k] = transfer[k]
    BY <1>a, <2>1, <2>2, Marked
  <2> DEFINE local == [l EXCEPT !.todo = @ \ {i}, !.batch = @ \cup {i}]
  <2>4. local.todo = l.todo \ {i} /\ local.batch = l.batch \cup {i} /\ Run(j, local)
    BY <2>1, <2>2 DEF JobOK
  <2> HIDE DEF local
  <2>5. \A k \in Jobs : job'[k].todo = l.todo \ {i} /\ job'[k].batch = l.batch \cup {i}
    BY <1>a, <2>4 DEF Run, SingleJob
  <2>6. transfer[i].action \in Automatic => paid[i] = 0
    BY <1>a, <1>b, <2>1, <2>2 DEF Once, Unpaid
  <2> QED
    BY <1>b, <2>2, <2>3, <2>5, <2>6, OnceAfter DEF Once
<1>8. ASSUME NEW j \in Jobs, TransferFundsBatch(j) PROVE PaidOnce'
  <2> DEFINE l == job[j]
             local == [l EXCEPT !.pc = "page", !.page = @ + 1, !.batch = {}]
  <2>1. /\ paid' = [i \in DOMAIN paid |-> IF i \in l.batch THEN paid[i] + 1 ELSE paid[i]]
        /\ Run(j, local) /\ UNCHANGED transfer /\ l.todo = {} /\ JobOK(l, transfer)
    BY <1>8, <1>a DEF TransferFundsBatch
  <2>2. local.todo = {} /\ local.batch = {}
    BY <2>1 DEF JobOK
  <2> HIDE DEF local
  <2>3. \A k \in Jobs : job'[k].todo = {} /\ job'[k].batch = {}
    BY <1>a, <2>1, <2>2 DEF Run, SingleJob
  <2>4. \A i \in DOMAIN transfer : transfer[i].action \in Automatic => paid'[i] <= 1
    BY <1>a, <1>b, <2>1 DEF Once
  <2> QED
    BY <1>b, <2>1, <2>3, <2>4, OnceAfter
<1>9. ASSUME NEW j \in Jobs, Exit(j) PROVE PaidOnce'
  <2>1. Run(j, NoJob) /\ UNCHANGED <<transfer, paid>> /\ NoJob.todo = {} /\ NoJob.batch = {}
    BY <1>9 DEF Exit, table, NoJob
  <2>2. \A k \in Jobs : job'[k].todo = {} /\ job'[k].batch = {}
    BY <1>a, <2>1 DEF Run, SingleJob
  <2> QED
    BY <1>b, <2>1, <2>2, OnceAfter DEF Once
<1>10. CASE Replicate \/ TopUp \/ \E r \in Requests : ReceiveRequest(r) \/ LookUp(r)
  BY <1>1, <1>10 DEF Replicate, TopUp, ReceiveRequest, LookUp, table
<1>11. CASE UNCHANGED vars
  BY <1>1, <1>11 DEF vars
<1> QED
  BY <1>2, <1>3, <1>4, <1>5, <1>6, <1>7, <1>8, <1>9, <1>10, <1>11 DEF Next, Reward, Settle

\* Without admins no transfer takes coiin but from Raiinmaker.
OwnRow(row) == row.action \in Automatic /\ (row.type = "CREDIT" \/ row.wallet = Raiinmaker)
NoAdmins == \A i \in DOMAIN transfer : OwnRow(transfer[i])

LEMMA NoAdminsNext ==
  ASSUME ~(\E a \in Admins : Move(a)), RewardInv, NoAdmins, [Next]_vars
  PROVE  NoAdmins'
<1>a. /\ transfer \in Seq(Transfer) /\ Len(transfer) \in Nat /\ DOMAIN transfer = 1..Len(transfer)
      /\ \A j \in Jobs : JobOK(job[j], transfer)
      /\ request \in [Requests -> RequestLocal]
  BY DEF RewardInv
<1>1. CASE UNCHANGED transfer
  BY <1>1 DEF NoAdmins
<1>b. ASSUME DOMAIN transfer' = DOMAIN transfer,
             \A i \in DOMAIN transfer : /\ transfer'[i].action = transfer[i].action
                                        /\ transfer'[i].type = transfer[i].type
                                        /\ transfer'[i].wallet = transfer[i].wallet
      PROVE  NoAdmins'
  BY <1>b DEF NoAdmins, OwnRow
<1>2. CASE WindowEnds
  <2>1. PICK old : transfer' = Aged(transfer, old)
    BY <1>2 DEF WindowEnds
  <2>2. DOMAIN transfer' = DOMAIN transfer
    BY <2>1 DEF Aged
  <2> QED
    BY <1>a, <1>b, <2>1, <2>2, AgedOK
<1>3. ASSUME NEW r \in Requests, NewReward(r) PROVE NoAdmins'
  <2> DEFINE l == request[r]
             row == NewTransfer(l.user, l.reward, "CREDIT", "PENDING")
  <2>1. l.user \in Users /\ l.reward \in Rewards
    BY <1>3, <1>a DEF NewReward, RequestLocal, NoRequest
  <2>2. transfer' = Append(transfer, row)
    BY <1>3 DEF NewReward
  <2>3. row \in Transfer /\ OwnRow(row)
    <3>1. row \in Transfer
      BY <2>1, NewTransferOK DEF Actions, Statuses, Wallets
    <3> QED
      BY <2>1, <3>1 DEF NewTransfer, OwnRow, Automatic
  <2> HIDE DEF row
  <2> QED
    BY <1>a, <2>2, <2>3 DEF NoAdmins
<1>5. ASSUME NEW j \in Jobs, MarkTransfer(j) PROVE NoAdmins'
  <2>1. PICK i \in job[j].todo : transfer' = [transfer EXCEPT ![i].status = "SUCCEEDED"]
    BY <1>5 DEF MarkTransfer
  <2>2. i \in DOMAIN transfer
    BY <1>a, <2>1 DEF JobOK
  <2> QED
    BY <1>a, <1>b, <2>1, <2>2, Marked
<1>6. CASE Replicate \/ TopUp \/ \E r \in Requests : ReceiveRequest(r) \/ LookUp(r)
  BY <1>1, <1>6 DEF Replicate, TopUp, ReceiveRequest, LookUp, table
<1>7. CASE \E j \in Jobs : StartJob(j) \/ ReadPage(j) \/ TransferFundsBatch(j) \/ Exit(j)
  BY <1>1, <1>7 DEF StartJob, ReadPage, TransferFundsBatch, Exit, table
<1>8. CASE UNCHANGED vars
  BY <1>1, <1>8 DEF vars
<1> QED
  BY <1>2, <1>3, <1>5, <1>6, <1>7, <1>8 DEF Next, Reward, Settle

LEMMA InvOverpaid == RewardInv /\ PaidOnce /\ NoAdmins => NothingOverpaid
BY DEF RewardInv, PaidOnce, NoAdmins, OwnRow, Once, NothingOverpaid, Leaves

\* One job at a time that reads the last write pays each transfer once at most, however
\* often it ends early and starts over, unless admins move coiin (fixTransfer 15-73).
\* With admins the rewards are still paid once (OnceNext lets admins move); it is the
\* transfers the admins leave PENDING that are paid again.
THEOREM OneJobPaysOnce ==
  ASSUME SingleJob, ~Lagging, Admins = {}
  PROVE  Spec => []NothingOverpaid
<1>1. Init => PaidOnce /\ NoAdmins
  BY DEF Init, PaidOnce, NoAdmins
<1>2. ~(\E a \in Admins : Move(a))
  OBVIOUS
<1>3. RewardInv /\ PaidOnce /\ NoAdmins /\ [Next]_vars => (PaidOnce /\ NoAdmins)'
  BY <1>2, OnceNext, NoAdminsNext
<1> QED
  BY <1>1, <1>3, InvOverpaid, RewardInit, RewardNext, PTL DEF Spec

-----------------------------------------------------------------------------
(* Purchases of coiin, beside the rewards *)

\* Deliveries under way that may still add a credit, and those that have moved the coin and
\* not recorded it.
MayCredit(l, p) ==
    l.of = p /\ (l.pc \in {"status", "balance", "pay"} \/ (l.pc = "credit" /\ ~l.moved))
MustRecord(l, p) == l.of = p /\ l.pc = "credit" /\ l.moved
Crediting(p) == {w \in Webhooks : MayCredit(webhook[w], p)}
Recording(p) == {w \in Webhooks : MustRecord(webhook[w], p)}
One(condition) == IF condition THEN 1 ELSE 0

\* Each coin moved without a transfer, each credit and each delivery that may still bring
\* one about has a delivery of its own; without a payment there is none of the former.
Accounted(p) ==
    LET b == purchase[p]
    IN  /\ b.credits \subseteq DOMAIN transfer
        /\ Cardinality(Recording(p)) <= b.unrecorded
        /\ b.unrecorded + Cardinality(b.credits) + Cardinality(Crediting(p)) <= b.deliveries
        /\ b.card # "paid" =>
              /\ b.unrecorded = 0 /\ b.credits = {}
              /\ \A w \in Webhooks : webhook[w].of = p => webhook[w].pc \in {"rest", "status"}

Purchase == [status : Statuses, card : {"open", "paid", "declined"}, deliveries : Nat,
             unrecorded : Nat, credits : SUBSET Nat]
Webhook == [pc : {"rest", "status", "balance", "pay", "credit", "debit"}, of : Nat, moved : BOOLEAN]

PurchaseInv ==
    /\ purchase \in Seq(Purchase) /\ webhook \in [Webhooks -> Webhook] /\ scenario \in Scenarios
    /\ \A w \in Webhooks : /\ webhook[w].pc # "rest" => webhook[w].of \in DOMAIN purchase
                           /\ webhook[w].moved => webhook[w].pc \in {"credit", "debit"}
    /\ \A p \in DOMAIN purchase : Accounted(p)

\* One element more, one less.
LEMMA OneMoves ==
  ASSUME NEW S, IsFiniteSet(S), NEW x
  PROVE  /\ Cardinality(S) \in Nat
         /\ x \in S => Cardinality(S \ {x}) = Cardinality(S) - 1
         /\ x \notin S => Cardinality(S \cup {x}) = Cardinality(S) + 1
<1>1. x \in S => Cardinality(S \ {x}) = Cardinality(S) - 1
  BY FS_RemoveElement
<1>2. x \notin S => Cardinality(S \cup {x}) = Cardinality(S) + 1
  BY FS_AddElement
<1> QED
  BY <1>1, <1>2, FS_CardinalityType

\* What is counted is finite.
LEMMA HooksFinite ==
  ASSUME NEW p
  PROVE  IsFiniteSet(Crediting(p)) /\ IsFiniteSet(Recording(p))
<1>1. Crediting(p) \subseteq Webhooks /\ Recording(p) \subseteq Webhooks
  BY DEF Crediting, Recording
<1> QED
  BY <1>1, PurchaseAssumption, FS_Subset

\* The transfers that a webhook does not write.
LEMMA SettlingBeside ==
  ASSUME RewardInv, PaidOnce, NoAdmins, UNCHANGED <<table, replica, request, job>>,
         {funds', aborted', failures', topUps'} \subseteq Nat, admin' \in [Admins -> AdminLocal]
  PROVE  RewardInv' /\ PaidOnce' /\ NoAdmins'
<1>1. RewardInv'
  BY SameTable DEF RewardInv
<1> QED
  BY <1>1 DEF PaidOnce, NoAdmins, Once, table

\* A transfer that a webhook writes.
LEMMA SettlingBooked ==
  ASSUME RewardInv, PaidOnce, NoAdmins, NEW w, NEW to \in {Org, Raiinmaker},
         NEW type \in {"CREDIT", "DEBIT"}, NEW status \in Statuses,
         type = "CREDIT" \/ to = Raiinmaker,
         type = "CREDIT" /\ webhook[w].moved => status = "SUCCEEDED",
         Purchased(w, to, type, status)
  PROVE  /\ RewardInv' /\ PaidOnce' /\ NoAdmins'
         /\ Len(transfer') = Len(transfer) + 1
<1> DEFINE row == NewTransfer(to, "COIIN_PURCHASE", type, status)
           coin == IF type = "CREDIT" /\ webhook[w].moved THEN 1 ELSE 0
           rows == <<row>>
           more == <<coin>>
<1>a. /\ transfer \in Seq(Transfer) /\ Len(transfer) \in Nat /\ DOMAIN transfer = 1..Len(transfer)
      /\ paid \in Seq(Nat) /\ replica \in Seq(Transfer)
      /\ request \in [Requests -> RequestLocal]
      /\ {funds, aborted, failures, topUps} \subseteq Nat /\ admin \in [Admins -> AdminLocal]
  BY DEF RewardInv
<1>1. /\ transfer' = Append(transfer, row) /\ paid' = Append(paid, coin)
      /\ UNCHANGED <<replica, request, job, funds, aborted, others>>
  BY DEF Purchased
<1>2. row \in Transfer /\ OwnRow(row) /\ row.status = status /\ row.action \in Automatic
  <2>1. row \in Transfer
    BY NewTransferOK DEF Actions, Wallets
  <2> QED
    BY <2>1 DEF NewTransfer, OwnRow, Automatic
<1>3. coin \in 0..1 /\ (status # "SUCCEEDED" => coin = 0)
  OBVIOUS
<1> HIDE DEF row, coin
<1>4. transfer' = transfer \o rows /\ rows \in Seq(Transfer)
  BY <1>a, <1>1, <1>2, AppendIsConcat
<1>5. paid' = paid \o more /\ more \in Seq(Nat)
  <2> DEFINE N == Nat
  <2>1. paid \in Seq(N) /\ coin \in N
    BY <1>a, <1>3
  <2> HIDE DEF N
  <2>2. Append(paid, coin) = paid \o <<coin>> /\ <<coin>> \in Seq(N)
    BY <2>1, AppendIsConcat
  <2> QED
    BY <1>1, <2>2 DEF N
<1>6. /\ Len(rows) = 1 /\ Len(more) = 1
      /\ \A i \in DOMAIN rows : more[i] <= 1 /\ (rows[i].status # "SUCCEEDED" => more[i] = 0)
  BY <1>2, <1>3
<1> HIDE DEF rows, more
<1>7. /\ transfer' \in Seq(Transfer) /\ Later(transfer, transfer')
      /\ paid' \in Seq(Nat) /\ Len(paid') = Len(transfer') /\ Unpaid(transfer', paid')
      /\ Len(replica) <= Len(transfer')
  BY <1>4, <1>5, <1>6, Appended
<1>8. RewardInv'
  BY <1>a, <1>1, <1>7, LaterTable DEF others
<1>9. PaidOnce'
  BY <1>1, <1>4, <1>5, <1>6, OnceAppended
<1>10. NoAdmins'
  BY <1>a, <1>1, <1>2 DEF NoAdmins
<1>11. Len(transfer') = Len(transfer) + 1
  BY <1>a, <1>1
<1> QED
  BY <1>8, <1>9, <1>10, <1>11

\* So is the table.
LEMMA TableFinite == RewardInv => IsFiniteSet(DOMAIN transfer)
<1> SUFFICES ASSUME RewardInv PROVE IsFiniteSet(DOMAIN transfer)
  OBVIOUS
<1>1. Len(transfer) \in Nat /\ DOMAIN transfer = 1..Len(transfer)
  BY DEF RewardInv
<1> QED
  BY <1>1, FS_Interval

\* A purchase that neither the step nor its webhook touches.
LEMMA OthersAccounted ==
  ASSUME PurchaseInv, NEW v \in Webhooks, NEW local, webhook' = [webhook EXCEPT ![v] = local],
         NEW q \in DOMAIN purchase, webhook[v].pc = "rest" \/ webhook[v].of # q,
         local.pc = "rest" \/ local.of # q, purchase'[q] = purchase[q],
         DOMAIN transfer \subseteq DOMAIN transfer'
  PROVE  Accounted(q)'
<1>1. Accounted(q) /\ \A w \in Webhooks : webhook'[w] = IF w = v THEN local ELSE webhook[w]
  BY DEF PurchaseInv
<1>2. Crediting(q)' = Crediting(q)
  <2>1. ASSUME NEW w \in Webhooks PROVE w \in Crediting(q)' <=> w \in Crediting(q)
    BY <1>1 DEF Crediting, MayCredit
  <2> QED
    BY <2>1 DEF Crediting
<1>3. Recording(q)' = Recording(q)
  <2>1. ASSUME NEW w \in Webhooks PROVE w \in Recording(q)' <=> w \in Recording(q)
    BY <1>1 DEF Recording, MustRecord
  <2> QED
    BY <2>1 DEF Recording
<1>4. \A w \in Webhooks : webhook'[w].of = q => \/ webhook'[w].pc = "rest"
                                                \/ webhook'[w] = webhook[w]
  BY <1>1
<1>5. purchase'[q].card # "paid" =>
         \A w \in Webhooks : webhook'[w].of = q => webhook'[w].pc \in {"rest", "status"}
  BY <1>1, <1>4 DEF Accounted
<1> QED
  BY <1>1, <1>2, <1>3, <1>5 DEF Accounted

\* A set of webhooks when one of them takes a step.
LEMMA HooksMove ==
  ASSUME NEW S, IsFiniteSet(S), NEW v, NEW old \in BOOLEAN, NEW new \in BOOLEAN, old <=> v \in S,
         NEW T, T = IF new THEN S \cup {v} ELSE S \ {v}
  PROVE  /\ Cardinality(S) \in Nat /\ Cardinality(T) \in Nat
         /\ Cardinality(T) = Cardinality(S) + One(new) - One(old)
<1>1. IsFiniteSet(S \cup {v}) /\ IsFiniteSet(S \ {v})
  BY FS_AddElement, FS_RemoveElement
<1>2. IsFiniteSet(T)
  BY <1>1
<1>3. Cardinality(S) \in Nat /\ Cardinality(T) \in Nat
  BY <1>2, FS_CardinalityType
<1>4. CASE new /\ old
  <2>1. T = S
    BY <1>4
  <2>2. One(new) = 1 /\ One(old) = 1
    BY <1>4 DEF One
  <2> QED
    BY <1>3, <2>1, <2>2
<1>5. CASE new /\ ~old
  BY <1>3, <1>5, FS_AddElement DEF One
<1>6. CASE ~new /\ old
  BY <1>3, <1>6, FS_RemoveElement DEF One
<1>7. CASE ~new /\ ~old
  <2>1. T = S
    BY <1>7
  <2> QED
    BY <1>3, <1>7, <2>1 DEF One
<1> QED
  BY <1>4, <1>5, <1>6, <1>7

\* The counts of a purchase when a webhook takes a step.
LEMMA CountsMove ==
  ASSUME NEW v \in Webhooks, NEW local \in Webhook, NEW p, webhook \in [Webhooks -> Webhook],
         webhook' = [webhook EXCEPT ![v] = local]
  PROVE  /\ Cardinality(Crediting(p)) \in Nat /\ Cardinality(Crediting(p)') \in Nat
         /\ Cardinality(Crediting(p)') =
               Cardinality(Crediting(p)) + One(MayCredit(local, p)) - One(MayCredit(webhook[v], p))
         /\ Cardinality(Recording(p)) \in Nat /\ Cardinality(Recording(p)') \in Nat
         /\ Cardinality(Recording(p)') =
               Cardinality(Recording(p)) + One(MustRecord(local, p)) - One(MustRecord(webhook[v], p))
<1>1. \A w \in Webhooks : webhook'[w] = IF w = v THEN local ELSE webhook[w]
  OBVIOUS
<1> DEFINE credits == MayCredit(local, p)
           credited == MayCredit(webhook[v], p)
           records == MustRecord(local, p)
           recorded == MustRecord(webhook[v], p)
<1>2. credits \in BOOLEAN /\ credited \in BOOLEAN /\ records \in BOOLEAN /\ recorded \in BOOLEAN
  BY DEF MayCredit, MustRecord, Webhook
<1>3. (credited <=> v \in Crediting(p)) /\ (recorded <=> v \in Recording(p))
  BY DEF Crediting, Recording
<1>4. /\ Crediting(p)' = {w \in Webhooks : MayCredit(webhook'[w], p)}
      /\ Recording(p)' = {w \in Webhooks : MustRecord(webhook'[w], p)}
  BY DEF Crediting, Recording, MayCredit, MustRecord
<1>5. /\ Crediting(p)' = IF credits THEN Crediting(p) \cup {v} ELSE Crediting(p) \ {v}
      /\ Recording(p)' = IF records THEN Recording(p) \cup {v} ELSE Recording(p) \ {v}
  BY <1>1, <1>4 DEF Crediting, Recording
<1> HIDE DEF credits, credited, records, recorded
<1>6. /\ Cardinality(Crediting(p)) \in Nat /\ Cardinality(Crediting(p)') \in Nat
      /\ Cardinality(Crediting(p)') = Cardinality(Crediting(p)) + One(credits) - One(credited)
  <2> DEFINE S == Crediting(p)
             T == Crediting(p)'
  <2>1. IsFiniteSet(S) /\ (credited <=> v \in S) /\ T = IF credits THEN S \cup {v} ELSE S \ {v}
    BY <1>3, <1>5, HooksFinite
  <2> HIDE DEF S, T
  <2>2. Cardinality(S) \in Nat /\ Cardinality(T) \in Nat /\ Cardinality(T) = Cardinality(S) + One(credits) - One(credited)
    BY <1>2, <2>1, HooksMove
  <2> QED
    BY <2>2 DEF S, T
<1>7. /\ Cardinality(Recording(p)) \in Nat /\ Cardinality(Recording(p)') \in Nat
      /\ Cardinality(Recording(p)') = Cardinality(Recording(p)) + One(records) - One(recorded)
  <2> DEFINE S == Recording(p)
             T == Recording(p)'
  <2>1. IsFiniteSet(S) /\ (recorded <=> v \in S) /\ T = IF records THEN S \cup {v} ELSE S \ {v}
    BY <1>3, <1>5, HooksFinite
  <2> HIDE DEF S, T
  <2>2. Cardinality(S) \in Nat /\ Cardinality(T) \in Nat /\ Cardinality(T) = Cardinality(S) + One(records) - One(recorded)
    BY <1>2, <2>1, HooksMove
  <2> QED
    BY <2>2 DEF S, T
<1> QED
  BY <1>6, <1>7 DEF credits, credited, records, recorded

\* A step of a webhook keeps the invariant if its purchase pays for what the webhook holds.
LEMMA HookStep ==
  ASSUME RewardInv, PurchaseInv, NEW v \in Webhooks, NEW local \in Webhook,
         NEW p \in DOMAIN purchase, NEW b \in Purchase,
         webhook' = [webhook EXCEPT ![v] = local], purchase' = [purchase EXCEPT ![p] = b],
         webhook[v].pc = "rest" \/ webhook[v].of = p, local.pc = "rest" \/ local.of = p,
         local.moved => local.pc \in {"credit", "debit"},
         UNCHANGED scenario, DOMAIN transfer \subseteq DOMAIN transfer',
         b.credits \subseteq DOMAIN transfer',
         NEW n \in Nat, n = Cardinality(b.credits), NEW m \in Nat, m = Cardinality(purchase[p].credits),
         One(MustRecord(local, p)) - One(MustRecord(webhook[v], p))
            <= b.unrecorded - purchase[p].unrecorded,
         b.unrecorded + n + One(MayCredit(local, p)) - b.deliveries
            <= purchase[p].unrecorded + m + One(MayCredit(webhook[v], p)) - purchase[p].deliveries,
         b.card # "paid" => /\ purchase[p].card # "paid" /\ b.unrecorded = 0 /\ b.credits = {}
                            /\ local.pc \in {"rest", "status"}
  PROVE  PurchaseInv'
<1>1. /\ webhook \in [Webhooks -> Webhook] /\ purchase \in Seq(Purchase)
      /\ \A w \in Webhooks : webhook'[w] = IF w = v THEN local ELSE webhook[w]
      /\ Accounted(p)
  BY DEF PurchaseInv
<1>2. webhook' \in [Webhooks -> Webhook]
  BY <1>1
<1>3. purchase' \in Seq(Purchase) /\ DOMAIN purchase' = DOMAIN purchase /\ purchase'[p] = b
      /\ \A q \in DOMAIN purchase : q # p => purchase'[q] = purchase[q]
  BY <1>1
<1>4. \A w \in Webhooks : /\ webhook'[w].pc # "rest" => webhook'[w].of \in DOMAIN purchase'
                          /\ webhook'[w].moved => webhook'[w].pc \in {"credit", "debit"}
  BY <1>1, <1>3 DEF PurchaseInv
<1>5. ASSUME NEW q \in DOMAIN purchase, q # p PROVE Accounted(q)'
  <2>1. /\ webhook[v].pc = "rest" \/ webhook[v].of # q
        /\ local.pc = "rest" \/ local.of # q
        /\ purchase'[q] = purchase[q]
    BY <1>3, <1>5
  <2> QED
    BY <2>1, OthersAccounted, Zenon
<1>6. purchase[p] \in Purchase
  BY <1>1, Element
<1>7. Accounted(p)'
  <2>1. /\ Cardinality(Recording(p)) <= purchase[p].unrecorded
        /\ purchase[p].unrecorded + m + Cardinality(Crediting(p)) <= purchase[p].deliveries
    BY <1>1 DEF Accounted
  <2>2. /\ purchase[p].unrecorded \in Nat /\ purchase[p].deliveries \in Nat
        /\ b.unrecorded \in Nat /\ b.deliveries \in Nat
    BY <1>6 DEF Purchase
  <2> DEFINE c0 == Cardinality(Crediting(p))
             c1 == Cardinality(Crediting(p)')
             r0 == Cardinality(Recording(p))
             r1 == Cardinality(Recording(p)')
             a0 == One(MayCredit(webhook[v], p))
             a1 == One(MayCredit(local, p))
             o0 == One(MustRecord(webhook[v], p))
             o1 == One(MustRecord(local, p))
  <2>3. /\ c0 \in Nat /\ c1 \in Nat /\ c1 = c0 + a1 - a0
        /\ r0 \in Nat /\ r1 \in Nat /\ r1 = r0 + o1 - o0
    BY <1>1, CountsMove
  <2>4. a0 \in Nat /\ a1 \in Nat /\ o0 \in Nat /\ o1 \in Nat
    BY DEF One
  <2>5. /\ o1 - o0 <= b.unrecorded - purchase[p].unrecorded
        /\ b.unrecorded + n + a1 - b.deliveries <= purchase[p].unrecorded + m + a0 - purchase[p].deliveries
        /\ r0 <= purchase[p].unrecorded
        /\ purchase[p].unrecorded + m + c0 <= purchase[p].deliveries
    BY <2>1
  <2> HIDE DEF c0, c1, r0, r1, a0, a1, o0, o1
  <2>6. r1 <= b.unrecorded /\ b.unrecorded + n + c1 <= b.deliveries
    BY <2>2, <2>3, <2>4, <2>5
  <2>7. b.card # "paid" => /\ b.unrecorded = 0 /\ b.credits = {}
                           /\ \A w \in Webhooks : webhook'[w].of = p => webhook'[w].pc \in {"rest", "status"}
    BY <1>1 DEF Accounted
  <2> QED
    BY <1>3, <2>6, <2>7 DEF Accounted, c1, r1
<1> QED
  BY <1>2, <1>3, <1>4, <1>5, <1>7 DEF PurchaseInv

\* What is known of a webhook and of its purchase.
LEMMA HookKnows ==
  ASSUME PurchaseInv, NEW v \in Webhooks, ~WebhookAt(v, "rest")
  PROVE  LET p == Of(v)
         IN  /\ p \in DOMAIN purchase /\ purchase[p] \in Purchase /\ webhook[v] \in Webhook
             /\ Accounted(p) /\ webhook[v].of = p
             /\ DOMAIN purchase = 1..Len(purchase)
<1>1. purchase \in Seq(Purchase) /\ webhook \in [Webhooks -> Webhook]
  BY DEF PurchaseInv
<1>2. Of(v) \in DOMAIN purchase
  BY DEF PurchaseInv, WebhookAt, Of
<1>3. purchase[Of(v)] \in Purchase
  BY <1>1, <1>2, Element
<1> QED
  BY <1>1, <1>2, <1>3 DEF PurchaseInv, Of

\* The invariant of both.
Booked == RewardInv /\ PaidOnce /\ NoAdmins /\ PurchaseInv

\* A delivery is counted before it can credit anything.
LEMMA HookReceives ==
  ASSUME Booked, NEW v \in Webhooks, StripeWebhook(v)
  PROVE  Booked'
<1>a. RewardInv /\ PurchaseInv /\ purchase \in Seq(Purchase) /\ webhook \in [Webhooks -> Webhook]
  BY DEF Booked, PurchaseInv
<1>1. PICK p \in DOMAIN purchase :
         /\ purchase[p].card # "open"
         /\ purchase' = [purchase EXCEPT ![p].deliveries = @ + 1]
         /\ Handle(v, [NoWebhook EXCEPT !.pc = "status", !.of = p])
  BY DEF StripeWebhook
<1>2. webhook[v].pc = "rest" /\ UNCHANGED <<vars, scenario>>
  BY DEF StripeWebhook, WebhookAt
<1> DEFINE b == [purchase[p] EXCEPT !.deliveries = @ + 1]
           local == [NoWebhook EXCEPT !.pc = "status", !.of = p]
<1>3. purchase[p] \in Purchase /\ Accounted(p) /\ p \in Nat
  <2>1. DOMAIN purchase = 1..Len(purchase) /\ Len(purchase) \in Nat
    BY <1>a
  <2> QED
    BY <1>a, <2>1, Element DEF PurchaseInv
<1>4. /\ b \in Purchase /\ b.card = purchase[p].card /\ b.unrecorded = purchase[p].unrecorded
      /\ b.credits = purchase[p].credits /\ b.deliveries = purchase[p].deliveries + 1
      /\ purchase' = [purchase EXCEPT ![p] = b]
      /\ purchase[p].deliveries \in Nat /\ purchase[p].unrecorded \in Nat
  BY <1>1, <1>3 DEF Purchase
<1>5. /\ local \in Webhook /\ local.pc = "status" /\ local.of = p /\ local.moved = FALSE
      /\ webhook' = [webhook EXCEPT ![v] = local]
  BY <1>1, <1>3 DEF Webhook, NoWebhook, Handle
<1> HIDE DEF b, local
<1>6. PICK n \in Nat : n = Cardinality(b.credits)
  <2>1. b.credits \subseteq DOMAIN transfer
    BY <1>3, <1>4 DEF Accounted
  <2> QED
    BY <1>a, <2>1, TableFinite, FS_Subset, FS_CardinalityType
<1>7. /\ One(MustRecord(local, p)) = 0 /\ One(MustRecord(webhook[v], p)) = 0
      /\ One(MayCredit(local, p)) = 1 /\ One(MayCredit(webhook[v], p)) = 0
  BY <1>2, <1>5 DEF One, MustRecord, MayCredit
<1>8. UNCHANGED transfer /\ b.credits \subseteq DOMAIN transfer'
  BY <1>2, <1>3, <1>4 DEF vars, Accounted
<1>9. b.card # "paid" => b.unrecorded = 0 /\ b.credits = {} /\ purchase[p].card # "paid"
  BY <1>3, <1>4 DEF Accounted
<1>10. PurchaseInv'
  <2>1. /\ webhook[v].pc = "rest" \/ webhook[v].of = p
        /\ local.pc = "rest" \/ local.of = p
        /\ local.moved => local.pc \in {"credit", "debit"}
        /\ One(MustRecord(local, p)) - One(MustRecord(webhook[v], p))
              <= b.unrecorded - purchase[p].unrecorded
        /\ b.unrecorded + n + One(MayCredit(local, p)) - b.deliveries
              <= purchase[p].unrecorded + n + One(MayCredit(webhook[v], p)) - purchase[p].deliveries
        /\ b.card # "paid" => /\ purchase[p].card # "paid" /\ b.unrecorded = 0 /\ b.credits = {}
                              /\ local.pc \in {"rest", "status"}
        /\ n = Cardinality(purchase[p].credits) /\ DOMAIN transfer \subseteq DOMAIN transfer'
        /\ UNCHANGED scenario
    BY <1>2, <1>4, <1>5, <1>6, <1>7, <1>8, <1>9
  <2> QED
    BY <1>a, <1>4, <1>5, <1>6, <1>8, <2>1, HookStep
<1>11. RewardInv' /\ PaidOnce' /\ NoAdmins'
  <2>1. UNCHANGED <<table, replica, request, job>> /\ {funds', aborted', failures', topUps'} \subseteq Nat /\ admin' \in [Admins -> AdminLocal]
    BY <1>2 DEF vars, table, Booked, RewardInv
  <2> QED
    BY <2>1, SettlingBeside DEF Booked
<1> QED
  BY <1>10, <1>11 DEF Booked

\* A step of a webhook that books no transfer.
LEMMA HookGoesOn ==
  ASSUME RewardInv, PurchaseInv, NEW v \in Webhooks, ~WebhookAt(v, "rest"),
         NEW p \in DOMAIN purchase, p = Of(v), NEW local \in Webhook, NEW b \in Purchase,
         webhook' = [webhook EXCEPT ![v] = local], purchase' = [purchase EXCEPT ![p] = b],
         local.pc = "rest" \/ local.of = p, local.moved => local.pc \in {"credit", "debit"},
         UNCHANGED <<scenario, transfer>>,
         b.credits = purchase[p].credits, b.card = purchase[p].card, b.deliveries = purchase[p].deliveries,
         b.card # "paid" => b.unrecorded = purchase[p].unrecorded /\ local.pc \in {"rest", "status"},
         One(MustRecord(local, p)) - One(MustRecord(webhook[v], p))
            <= b.unrecorded - purchase[p].unrecorded,
         b.unrecorded + One(MayCredit(local, p))
            <= purchase[p].unrecorded + One(MayCredit(webhook[v], p))
  PROVE  PurchaseInv'
<1>1. Accounted(p) /\ webhook[v].of = p /\ purchase[p] \in Purchase
  BY HookKnows
<1>2. b.credits \subseteq DOMAIN transfer
  BY <1>1 DEF Accounted
<1>3. PICK n \in Nat : n = Cardinality(b.credits)
  BY <1>2, TableFinite, FS_Subset, FS_CardinalityType
<1>4. /\ b.unrecorded \in Nat /\ b.deliveries \in Nat /\ purchase[p].unrecorded \in Nat
      /\ One(MayCredit(local, p)) \in Nat /\ One(MayCredit(webhook[v], p)) \in Nat
  BY <1>1 DEF Purchase, One
<1>5. b.unrecorded + n + One(MayCredit(local, p)) - b.deliveries
         <= purchase[p].unrecorded + n + One(MayCredit(webhook[v], p)) - purchase[p].deliveries
  BY <1>3, <1>4
<1>6. b.card # "paid" => /\ purchase[p].card # "paid" /\ b.unrecorded = 0 /\ b.credits = {}
                         /\ local.pc \in {"rest", "status"}
  BY <1>1 DEF Accounted
<1>7. /\ webhook[v].pc = "rest" \/ webhook[v].of = p
      /\ n = Cardinality(purchase[p].credits) /\ DOMAIN transfer \subseteq DOMAIN transfer'
      /\ b.credits \subseteq DOMAIN transfer' /\ UNCHANGED scenario
  BY <1>1, <1>2, <1>3
<1> QED
  BY <1>3, <1>5, <1>6, <1>7, HookStep

\* What a step that books nothing leaves to the settling job.
LEMMA HookBooked ==
  ASSUME Booked, PurchaseInv', UNCHANGED <<table, replica, request, job, aborted, admin, topUps>>,
         funds' \in Nat, failures' \in Nat
  PROVE  Booked'
<1>1. {funds', aborted', failures', topUps'} \subseteq Nat /\ admin' \in [Admins -> AdminLocal]
  BY DEF Booked, RewardInv
<1>2. RewardInv' /\ PaidOnce' /\ NoAdmins'
  BY <1>1, SettlingBeside DEF Booked
<1> QED
  BY <1>2 DEF Booked

\* The outcome of the charge: a declined card ends the delivery.
LEMMA HookUpdates ==
  ASSUME Booked, NEW v \in Webhooks, UpdateTransferStatus(v)
  PROVE  Booked'
<1>a. webhook[v].pc = "status" /\ ~WebhookAt(v, "rest") /\ UNCHANGED <<vars, scenario>> /\ RewardInv /\ PurchaseInv
  BY DEF UpdateTransferStatus, WebhookAt, Booked
<1>p. PICK p \in DOMAIN purchase : p = Of(v)
  BY <1>a, HookKnows
<1>1. /\ purchase[p] \in Purchase /\ webhook[v] \in Webhook /\ webhook[v].of = p
      /\ webhook \in [Webhooks -> Webhook] /\ Accounted(p)
  BY <1>a, <1>p, HookKnows DEF PurchaseInv
<1>2. PICK status \in Statuses, local \in {[webhook[v] EXCEPT !.pc = "balance"], NoWebhook} :
         /\ purchase' = [purchase EXCEPT ![p].status = status] /\ Handle(v, local)
         /\ local.pc = "rest" \/ purchase[p].card = "paid"
  BY <1>p DEF UpdateTransferStatus, HandleNext, Statuses, NoWebhook
<1> DEFINE b == [purchase[p] EXCEPT !.status = status]
<1>3. /\ b \in Purchase /\ b.card = purchase[p].card /\ b.unrecorded = purchase[p].unrecorded
      /\ b.credits = purchase[p].credits /\ b.deliveries = purchase[p].deliveries
      /\ purchase' = [purchase EXCEPT ![p] = b] /\ purchase[p].unrecorded \in Nat
  BY <1>1, <1>2 DEF Purchase
<1>4. /\ local \in Webhook /\ webhook' = [webhook EXCEPT ![v] = local]
      /\ local.pc = "rest" \/ (local.of = p /\ local.pc = "balance")
      /\ local.moved = FALSE /\ webhook[v].moved = FALSE
  <2>1. webhook[v].moved = FALSE
    BY <1>a, <1>1 DEF PurchaseInv, Webhook
  <2>2. CASE local = NoWebhook
    BY <1>2, <2>1, <2>2 DEF Webhook, NoWebhook, Handle
  <2>3. CASE local = [webhook[v] EXCEPT !.pc = "balance"]
    <3>1. local \in Webhook /\ local.pc = "balance" /\ local.of = p /\ local.moved = FALSE
      BY <1>1, <2>1, <2>3 DEF Webhook
    <3> QED
      BY <1>2, <2>1, <3>1 DEF Handle
  <2> QED
    BY <1>2, <2>2, <2>3
<1> HIDE DEF b
<1>5. /\ One(MustRecord(local, p)) = 0 /\ One(MustRecord(webhook[v], p)) = 0
      /\ One(MayCredit(local, p)) \in 0..1 /\ One(MayCredit(webhook[v], p)) = 1
  BY <1>a, <1>1, <1>4 DEF One, MustRecord, MayCredit
<1>6. /\ local.pc = "rest" \/ local.of = p
      /\ local.moved => local.pc \in {"credit", "debit"}
      /\ UNCHANGED <<scenario, transfer>>
      /\ b.card # "paid" => b.unrecorded = purchase[p].unrecorded /\ local.pc \in {"rest", "status"}
      /\ One(MustRecord(local, p)) - One(MustRecord(webhook[v], p))
            <= b.unrecorded - purchase[p].unrecorded
      /\ b.unrecorded + One(MayCredit(local, p))
            <= purchase[p].unrecorded + One(MayCredit(webhook[v], p))
  BY <1>a, <1>2, <1>3, <1>4, <1>5 DEF vars
<1>7. PurchaseInv'
  BY <1>a, <1>p, <1>3, <1>4, <1>6, HookGoesOn
<1> QED
  BY <1>a, <1>7, HookBooked DEF vars, table, Booked, RewardInv

\* A webhook that only moves on, to a label at which it may add no more than before.
LEMMA HookChecks ==
  ASSUME Booked, NEW v \in Webhooks, CheckBalance(v)
  PROVE  Booked'
<1>a. webhook[v].pc = "balance" /\ ~WebhookAt(v, "rest") /\ UNCHANGED <<vars, purchase, scenario>>
      /\ RewardInv /\ PurchaseInv
  BY DEF CheckBalance, WebhookAt, Booked
<1>p. PICK p \in DOMAIN purchase : p = Of(v)
  BY <1>a, HookKnows
<1>1. /\ purchase[p] \in Purchase /\ webhook[v] \in Webhook /\ webhook[v].of = p
      /\ webhook \in [Webhooks -> Webhook] /\ purchase \in Seq(Purchase) /\ Accounted(p)
  BY <1>a, <1>p, HookKnows DEF PurchaseInv
<1>2. PICK label \in {"pay", "credit"} : webhook' = [webhook EXCEPT ![v] = [webhook[v] EXCEPT !.pc = label]]
  BY DEF CheckBalance, HandleNext, Handle
<1> DEFINE local == [webhook[v] EXCEPT !.pc = label]
           b == purchase[p]
<1>3. local \in Webhook /\ local.pc = label /\ local.of = p /\ local.moved = FALSE /\ webhook[v].moved = FALSE
  BY <1>a, <1>1, <1>2 DEF PurchaseInv, Webhook
<1>4. webhook' = [webhook EXCEPT ![v] = local] /\ purchase' = [purchase EXCEPT ![p] = b]
  BY <1>a, <1>1, <1>2
<1>5. b.card = "paid" /\ b.unrecorded \in Nat
  BY <1>a, <1>1 DEF Accounted, Purchase
<1> HIDE DEF local
<1>6. /\ One(MustRecord(local, p)) = 0 /\ One(MustRecord(webhook[v], p)) = 0
      /\ One(MayCredit(local, p)) = 1 /\ One(MayCredit(webhook[v], p)) = 1
  BY <1>a, <1>1, <1>2, <1>3 DEF One, MustRecord, MayCredit
<1>7. /\ local.pc = "rest" \/ local.of = p
      /\ local.moved => local.pc \in {"credit", "debit"}
      /\ UNCHANGED <<scenario, transfer>>
      /\ b.card # "paid" => b.unrecorded = purchase[p].unrecorded /\ local.pc \in {"rest", "status"}
      /\ One(MustRecord(local, p)) - One(MustRecord(webhook[v], p))
            <= b.unrecorded - purchase[p].unrecorded
      /\ b.unrecorded + One(MayCredit(local, p))
            <= purchase[p].unrecorded + One(MayCredit(webhook[v], p))
  BY <1>a, <1>3, <1>5, <1>6 DEF vars
<1>8. PurchaseInv'
  BY <1>a, <1>p, <1>1, <1>3, <1>4, <1>7, HookGoesOn
<1> QED
  BY <1>a, <1>8, HookBooked DEF vars, table, Booked, RewardInv

\* A webhook that ends leaves what it had claimed to the next delivery, or to nobody.
LEMMA HookFails ==
  ASSUME Booked, NEW v \in Webhooks, ~WebhookAt(v, "rest"), Handle(v, NoWebhook),
         UNCHANGED <<table, replica, request, job, aborted, admin, topUps, purchase, scenario>>,
         funds' \in Nat, failures' \in Nat
  PROVE  Booked'
<1>a. RewardInv /\ PurchaseInv /\ webhook[v].pc # "rest"
  BY DEF Booked, WebhookAt
<1>p. PICK p \in DOMAIN purchase : p = Of(v)
  BY <1>a, HookKnows
<1>1. /\ purchase[p] \in Purchase /\ webhook[v] \in Webhook /\ webhook[v].of = p
      /\ webhook \in [Webhooks -> Webhook] /\ purchase \in Seq(Purchase) /\ Accounted(p)
  BY <1>a, <1>p, HookKnows DEF PurchaseInv
<1> DEFINE local == NoWebhook
           b == purchase[p]
<1>3. local \in Webhook /\ local.pc = "rest" /\ local.moved = FALSE
  BY DEF NoWebhook, Webhook
<1>4. webhook' = [webhook EXCEPT ![v] = local] /\ purchase' = [purchase EXCEPT ![p] = b]
  BY <1>a, <1>1 DEF Handle
<1>5. b.unrecorded \in Nat
  BY <1>1 DEF Purchase
<1> HIDE DEF local
<1>6. /\ One(MustRecord(local, p)) = 0 /\ One(MustRecord(webhook[v], p)) \in Nat
      /\ One(MayCredit(local, p)) = 0 /\ One(MayCredit(webhook[v], p)) \in Nat
  BY <1>3 DEF One, MustRecord, MayCredit
<1>7. /\ local.pc = "rest" \/ local.of = p
      /\ local.moved => local.pc \in {"credit", "debit"}
      /\ UNCHANGED <<scenario, transfer>>
      /\ b.card # "paid" => b.unrecorded = purchase[p].unrecorded /\ local.pc \in {"rest", "status"}
      /\ One(MustRecord(local, p)) - One(MustRecord(webhook[v], p))
            <= b.unrecorded - purchase[p].unrecorded
      /\ b.unrecorded + One(MayCredit(local, p))
            <= purchase[p].unrecorded + One(MayCredit(webhook[v], p))
  BY <1>3, <1>5, <1>6 DEF table
<1>8. PurchaseInv'
  BY <1>a, <1>p, <1>1, <1>3, <1>4, <1>7, HookGoesOn
<1> QED
  BY <1>8, HookBooked

\* The coin moves: what the delivery may still credit becomes a coin to be recorded.
LEMMA HookPays ==
  ASSUME Booked, NEW v \in Webhooks, TransferFunds(v), funds > 0, funds' = funds - 1,
         purchase' = [purchase EXCEPT ![Of(v)].unrecorded = @ + 1],
         Handle(v, [webhook[v] EXCEPT !.pc = "credit", !.moved = TRUE])
  PROVE  Booked'
<1>a. /\ webhook[v].pc = "pay" /\ ~WebhookAt(v, "rest") /\ RewardInv /\ PurchaseInv
      /\ UNCHANGED <<table, replica, request, job, aborted, others, scenario>>
  BY DEF TransferFunds, WebhookAt, Booked
<1>p. PICK p \in DOMAIN purchase : p = Of(v)
  BY <1>a, HookKnows
<1>1. /\ purchase[p] \in Purchase /\ webhook[v] \in Webhook /\ webhook[v].of = p
      /\ webhook \in [Webhooks -> Webhook] /\ Accounted(p)
  BY <1>a, <1>p, HookKnows DEF PurchaseInv
<1> DEFINE local == [webhook[v] EXCEPT !.pc = "credit", !.moved = TRUE]
           b == [purchase[p] EXCEPT !.unrecorded = @ + 1]
<1>3. /\ local \in Webhook /\ local.pc = "credit" /\ local.of = p /\ local.moved = TRUE
      /\ webhook[v].moved = FALSE
  BY <1>a, <1>1 DEF PurchaseInv, Webhook
<1>4. webhook' = [webhook EXCEPT ![v] = local] /\ purchase' = [purchase EXCEPT ![p] = b]
  BY <1>p, <1>1 DEF Handle
<1>5. /\ b \in Purchase /\ b.card = purchase[p].card /\ b.unrecorded = purchase[p].unrecorded + 1
      /\ b.credits = purchase[p].credits /\ b.deliveries = purchase[p].deliveries
      /\ purchase[p].card = "paid" /\ purchase[p].unrecorded \in Nat
  BY <1>a, <1>1 DEF Accounted, Purchase
<1> HIDE DEF local, b
<1>6. /\ One(MustRecord(local, p)) = 1 /\ One(MustRecord(webhook[v], p)) = 0
      /\ One(MayCredit(local, p)) = 0 /\ One(MayCredit(webhook[v], p)) = 1
  BY <1>a, <1>1, <1>3 DEF One, MustRecord, MayCredit
<1>7. /\ local.pc = "rest" \/ local.of = p
      /\ local.moved => local.pc \in {"credit", "debit"}
      /\ UNCHANGED <<scenario, transfer>>
      /\ b.card # "paid" => b.unrecorded = purchase[p].unrecorded /\ local.pc \in {"rest", "status"}
      /\ One(MustRecord(local, p)) - One(MustRecord(webhook[v], p))
            <= b.unrecorded - purchase[p].unrecorded
      /\ b.unrecorded + One(MayCredit(local, p))
            <= purchase[p].unrecorded + One(MayCredit(webhook[v], p))
  BY <1>a, <1>3, <1>5, <1>6 DEF table
<1>8. PurchaseInv'
  BY <1>a, <1>p, <1>3, <1>4, <1>5, <1>7, HookGoesOn
<1>9. funds' \in Nat /\ failures' \in Nat
  BY <1>a DEF RewardInv, others
<1> QED
  BY <1>a, <1>8, <1>9, HookBooked DEF others

\* The credit of the buyer takes the place of the coin that was moved, or of the delivery
\* that may still bring one about.
LEMMA HookCredits ==
  ASSUME Booked, NEW v \in Webhooks, CreditBuyer(v)
  PROVE  Booked'
<1>a. /\ webhook[v].pc = "credit" /\ ~WebhookAt(v, "rest") /\ RewardInv /\ PaidOnce /\ NoAdmins /\ PurchaseInv
      /\ Purchased(v, Org, "CREDIT", IF webhook[v].moved THEN "SUCCEEDED" ELSE "PENDING")
      /\ Recorded(v) /\ HandleNext(v, "debit")
  BY DEF CreditBuyer, WebhookAt, Booked
<1>p. PICK p \in DOMAIN purchase : p = Of(v)
  BY <1>a, HookKnows
<1>1. /\ purchase[p] \in Purchase /\ webhook[v] \in Webhook /\ webhook[v].of = p
      /\ webhook \in [Webhooks -> Webhook] /\ Accounted(p)
  BY <1>a, <1>p, HookKnows DEF PurchaseInv
<1>2. /\ RewardInv' /\ PaidOnce' /\ NoAdmins' /\ Len(transfer') = Len(transfer) + 1
      /\ Len(transfer) \in Nat /\ DOMAIN transfer = 1..Len(transfer) /\ DOMAIN transfer' = 1..Len(transfer')
  <2>1. (IF webhook[v].moved THEN "SUCCEEDED" ELSE "PENDING") \in Statuses
    BY DEF Statuses
  <2>2. RewardInv' /\ PaidOnce' /\ NoAdmins' /\ Len(transfer') = Len(transfer) + 1
    BY <1>a, <2>1, SettlingBooked
  <2> QED
    BY <1>a, <2>2 DEF RewardInv
<1> DEFINE new == Len(transfer) + 1
           local == [webhook[v] EXCEPT !.pc = "debit"]
           left == IF webhook[v].moved THEN purchase[p].unrecorded - 1 ELSE purchase[p].unrecorded
           b == [purchase[p] EXCEPT !.credits = @ \cup {new}, !.unrecorded = left]
<1>3. local \in Webhook /\ local.pc = "debit" /\ local.of = p /\ local.moved = webhook[v].moved
      /\ webhook[v].moved \in BOOLEAN
  BY <1>1 DEF Webhook
<1>4. webhook' = [webhook EXCEPT ![v] = local]
  BY <1>a DEF HandleNext, Handle
<1>5. purchase' = [purchase EXCEPT ![p] = b]
  BY <1>a, <1>p, <1>1 DEF Recorded
<1>6. purchase[p].unrecorded \in Nat /\ left \in Nat /\ purchase[p].deliveries \in Nat
      /\ purchase[p].credits \subseteq DOMAIN transfer
  <2>1. purchase[p].unrecorded \in Nat /\ purchase[p].deliveries \in Nat
        /\ purchase[p].credits \subseteq DOMAIN transfer
    BY <1>1 DEF Purchase, Accounted
  <2>2. webhook[v].moved => purchase[p].unrecorded # 0
    <3> SUFFICES ASSUME webhook[v].moved, purchase[p].unrecorded = 0 PROVE FALSE
      OBVIOUS
    <3>1. v \in Recording(p)
      BY <1>a, <1>1 DEF Recording, MustRecord
    <3>2. Cardinality(Recording(p)) \in Nat /\ Cardinality(Recording(p)) <= 0
      BY <1>1, HooksFinite, FS_CardinalityType DEF Accounted
    <3>3. Cardinality(Recording(p)) = 0
      BY <3>2
    <3>4. Recording(p) = {}
      BY <3>3, HooksFinite, FS_EmptySet
    <3> QED
      BY <3>1, <3>4
  <2> QED
    BY <2>1, <2>2
<1> HIDE DEF left
<1>7. /\ b \in Purchase /\ b.card = purchase[p].card /\ b.unrecorded = left
      /\ b.credits = purchase[p].credits \cup {new} /\ b.deliveries = purchase[p].deliveries
      /\ purchase[p].card = "paid" /\ new \notin purchase[p].credits
  <2>1. purchase[p].card = "paid"
    BY <1>a, <1>1 DEF Accounted
  <2>2. new \notin purchase[p].credits /\ purchase[p].credits \cup {new} \in SUBSET Nat
    BY <1>2, <1>6
  <2> HIDE DEF new
  <2> DEFINE more == purchase[p].credits \cup {new}
  <2>3. more \in SUBSET Nat /\ b = [purchase[p] EXCEPT !.credits = more, !.unrecorded = left]
    BY <2>2
  <2> HIDE DEF more
  <2>4. /\ b \in Purchase /\ b.card = purchase[p].card /\ b.unrecorded = left
        /\ b.credits = more /\ b.deliveries = purchase[p].deliveries
    BY <1>1, <1>6, <2>3 DEF Purchase
  <2> QED
    BY <2>1, <2>2, <2>4 DEF more
<1>8. PICK m \in Nat : m = Cardinality(purchase[p].credits) /\ m + 1 = Cardinality(b.credits)
  <2>1. IsFiniteSet(purchase[p].credits)
    BY <1>a, <1>6, TableFinite, FS_Subset
  <2> DEFINE before == purchase[p].credits
             m == Cardinality(before)
  <2>2. b.credits = before \cup {new} /\ new \notin before
    BY <1>7
  <2> HIDE DEF b, new, before
  <2>3. m \in Nat /\ Cardinality(before \cup {new}) = m + 1
    BY <2>1, <2>2, OneMoves DEF before
  <2>4. m + 1 = Cardinality(b.credits)
    BY <2>2, <2>3
  <2> HIDE DEF m
  <2> QED
    BY <2>3, <2>4 DEF m, before
<1> HIDE DEF b, local
<1>9. /\ One(MustRecord(local, p)) = 0 /\ One(MayCredit(local, p)) = 0
      /\ One(MustRecord(webhook[v], p)) = IF webhook[v].moved THEN 1 ELSE 0
      /\ One(MayCredit(webhook[v], p)) = IF webhook[v].moved THEN 0 ELSE 1
  BY <1>a, <1>1, <1>3 DEF One, MustRecord, MayCredit
<1>10. /\ One(MustRecord(local, p)) - One(MustRecord(webhook[v], p))
             <= b.unrecorded - purchase[p].unrecorded
       /\ b.unrecorded + (m + 1) + One(MayCredit(local, p)) - b.deliveries
             <= purchase[p].unrecorded + m + One(MayCredit(webhook[v], p)) - purchase[p].deliveries
  <2>1. /\ b.unrecorded = left /\ b.deliveries = purchase[p].deliveries
        /\ purchase[p].unrecorded \in Nat /\ purchase[p].deliveries \in Nat
    BY <1>6, <1>7
  <2>2. CASE webhook[v].moved
    <3>1. left = purchase[p].unrecorded - 1 /\ One(MustRecord(webhook[v], p)) = 1 /\ One(MayCredit(webhook[v], p)) = 0
      BY <1>9, <2>2 DEF left
    <3> QED
      BY <1>9, <2>1, <3>1
  <2>3. CASE ~webhook[v].moved
    <3>1. left = purchase[p].unrecorded /\ One(MustRecord(webhook[v], p)) = 0 /\ One(MayCredit(webhook[v], p)) = 1
      BY <1>9, <2>3 DEF left
    <3> QED
      BY <1>9, <2>1, <3>1
  <2> QED
    BY <2>2, <2>3
<1>11. /\ webhook[v].pc = "rest" \/ webhook[v].of = p
       /\ local.pc = "rest" \/ local.of = p
       /\ local.moved => local.pc \in {"credit", "debit"}
       /\ UNCHANGED scenario /\ DOMAIN transfer \subseteq DOMAIN transfer'
       /\ b.credits \subseteq DOMAIN transfer' /\ m + 1 \in Nat
       /\ b.card # "paid" => /\ purchase[p].card # "paid" /\ b.unrecorded = 0 /\ b.credits = {}
                             /\ local.pc \in {"rest", "status"}
  BY <1>a, <1>1, <1>2, <1>3, <1>6, <1>7, <1>8 DEF Purchased
<1>12. PurchaseInv'
  BY <1>a, <1>3, <1>4, <1>5, <1>7, <1>8, <1>10, <1>11, HookStep
<1> QED
  BY <1>2, <1>12 DEF Booked

\* The second transfer is none of the buyer's.
LEMMA HookDebits ==
  ASSUME Booked, NEW v \in Webhooks, DebitRaiinmaker(v)
  PROVE  Booked'
<1>a. /\ webhook[v].pc = "debit" /\ ~WebhookAt(v, "rest") /\ RewardInv /\ PaidOnce /\ NoAdmins /\ PurchaseInv
      /\ Purchased(v, Raiinmaker, "DEBIT", IF webhook[v].moved THEN "SUCCEEDED" ELSE "PENDING")
      /\ Handle(v, NoWebhook) /\ UNCHANGED purchase
  BY DEF DebitRaiinmaker, WebhookAt, Booked
<1>p. PICK p \in DOMAIN purchase : p = Of(v)
  BY <1>a, HookKnows
<1>1. /\ purchase[p] \in Purchase /\ webhook[v] \in Webhook /\ webhook[v].of = p
      /\ webhook \in [Webhooks -> Webhook] /\ purchase \in Seq(Purchase) /\ Accounted(p)
  BY <1>a, <1>p, HookKnows DEF PurchaseInv
<1>2. /\ RewardInv' /\ PaidOnce' /\ NoAdmins' /\ Len(transfer') = Len(transfer) + 1
      /\ Len(transfer) \in Nat /\ DOMAIN transfer = 1..Len(transfer) /\ DOMAIN transfer' = 1..Len(transfer')
  <2>1. (IF webhook[v].moved THEN "SUCCEEDED" ELSE "PENDING") \in Statuses
    BY DEF Statuses
  <2>2. RewardInv' /\ PaidOnce' /\ NoAdmins' /\ Len(transfer') = Len(transfer) + 1
    BY <1>a, <2>1, SettlingBooked
  <2> QED
    BY <1>a, <2>2 DEF RewardInv
<1> DEFINE local == NoWebhook
           b == purchase[p]
<1>3. local \in Webhook /\ local.pc = "rest" /\ local.moved = FALSE
  BY DEF NoWebhook, Webhook
<1>4. webhook' = [webhook EXCEPT ![v] = local] /\ purchase' = [purchase EXCEPT ![p] = b]
  BY <1>a, <1>1 DEF Handle
<1>5. b.unrecorded \in Nat /\ b.deliveries \in Nat /\ b.card = "paid" /\ b.credits \subseteq DOMAIN transfer
  BY <1>a, <1>1 DEF Purchase, Accounted
<1> HIDE DEF local
<1>6. PICK m \in Nat : m = Cardinality(b.credits)
  BY <1>a, <1>5, TableFinite, FS_Subset, FS_CardinalityType
<1>7. /\ One(MustRecord(local, p)) = 0 /\ One(MustRecord(webhook[v], p)) \in Nat
      /\ One(MayCredit(local, p)) = 0 /\ One(MayCredit(webhook[v], p)) \in Nat
  BY <1>3 DEF One, MustRecord, MayCredit
<1>8. /\ One(MustRecord(local, p)) - One(MustRecord(webhook[v], p))
            <= b.unrecorded - purchase[p].unrecorded
      /\ b.unrecorded + m + One(MayCredit(local, p)) - b.deliveries
            <= purchase[p].unrecorded + m + One(MayCredit(webhook[v], p)) - purchase[p].deliveries
  BY <1>5, <1>6, <1>7
<1>9. /\ webhook[v].pc = "rest" \/ webhook[v].of = p
      /\ local.pc = "rest" \/ local.of = p
      /\ local.moved => local.pc \in {"credit", "debit"}
      /\ UNCHANGED scenario /\ DOMAIN transfer \subseteq DOMAIN transfer'
      /\ b.credits \subseteq DOMAIN transfer'
      /\ b.card # "paid" => /\ purchase[p].card # "paid" /\ b.unrecorded = 0 /\ b.credits = {}
                            /\ local.pc \in {"rest", "status"}
  BY <1>a, <1>1, <1>2, <1>3, <1>5 DEF Purchased
<1>10. PurchaseInv'
  BY <1>a, <1>1, <1>3, <1>4, <1>6, <1>8, <1>9, HookStep
<1> QED
  BY <1>2, <1>10 DEF Booked

\* No step takes a transfer away.
LEMMA TableGrows ==
  ASSUME RewardInv, [Next]_vars
  PROVE  DOMAIN transfer \subseteq DOMAIN transfer'
<1>a. transfer \in Seq(Transfer) /\ Len(transfer) \in Nat /\ DOMAIN transfer = 1..Len(transfer)
  BY DEF RewardInv
<1>1. CASE UNCHANGED transfer
  BY <1>1
<1>2. CASE WindowEnds
  BY <1>2 DEF WindowEnds, Aged
<1>3. ASSUME NEW r \in Requests, NewReward(r) PROVE DOMAIN transfer \subseteq DOMAIN transfer'
  <2>1. PICK row : transfer' = Append(transfer, row)
    BY <1>3 DEF NewReward
  <2>2. DOMAIN transfer' = 1..Len(transfer) + 1
    BY <1>a, <2>1
  <2> QED
    BY <1>a, <2>2
<1>4. ASSUME NEW a \in Admins, Move(a) PROVE DOMAIN transfer \subseteq DOMAIN transfer'
  <2>1. CASE TransferCrypto(a)
    BY <1>1, <2>1 DEF TransferCrypto, table
  <2>2. CASE CreditMove(a) \/ DebitMove(a)
    <3>1. PICK row : transfer' = Append(transfer, row)
      BY <2>2 DEF CreditMove, DebitMove, RecordMove
    <3>2. DOMAIN transfer' = 1..Len(transfer) + 1
      BY <1>a, <3>1
    <3> QED
      BY <1>a, <3>2
  <2> QED
    BY <1>4, <2>1, <2>2 DEF Move
<1>5. ASSUME NEW j \in Jobs, MarkTransfer(j) PROVE DOMAIN transfer \subseteq DOMAIN transfer'
  BY <1>5 DEF MarkTransfer
<1>6. CASE Replicate \/ TopUp \/ \E r \in Requests : ReceiveRequest(r) \/ LookUp(r)
  BY <1>1, <1>6 DEF Replicate, TopUp, ReceiveRequest, LookUp, table
<1>7. CASE \E j \in Jobs : StartJob(j) \/ ReadPage(j) \/ TransferFundsBatch(j) \/ Exit(j)
  BY <1>1, <1>7 DEF StartJob, ReadPage, TransferFundsBatch, Exit, table
<1>8. CASE UNCHANGED vars
  BY <1>1, <1>8 DEF vars
<1> QED
  BY <1>2, <1>3, <1>4, <1>5, <1>6, <1>7, <1>8 DEF Next, Reward, Settle

\* A step of one webhook.
LEMMA HookNext ==
  ASSUME Booked, NEW v \in Webhooks, WebhookStep(v)
  PROVE  Booked'
<1>1. CASE CheckBalance(v) \/ StripeWebhook(v) \/ UpdateTransferStatus(v) \/ CreditBuyer(v) \/ DebitRaiinmaker(v)
  BY <1>1, HookReceives, HookUpdates, HookChecks, HookCredits, HookDebits
<1>2. CASE TransferFunds(v)
  <2>1. CASE UNCHANGED <<purchase, funds>> /\ Handle(v, NoWebhook)
    <3>1. ~WebhookAt(v, "rest") /\ funds' \in Nat /\ failures' \in Nat
          /\ UNCHANGED <<table, replica, request, job, aborted, admin, topUps, purchase, scenario>>
      BY <1>2, <2>1 DEF TransferFunds, WebhookAt, others, Booked, RewardInv
    <3> QED
      BY <2>1, <3>1, HookFails
  <2> QED
    BY <1>2, <2>1, HookPays DEF TransferFunds
<1>3. CASE WebhookFails(v)
  <2>1. ~WebhookAt(v, "rest") /\ funds' \in Nat /\ failures' \in Nat /\ Handle(v, NoWebhook)
        /\ UNCHANGED <<table, replica, request, job, aborted, admin, topUps, purchase, scenario>>
    BY <1>3 DEF WebhookFails, Booked, RewardInv
  <2> QED
    BY <2>1, HookFails
<1> QED
  BY <1>1, <1>2, <1>3 DEF WebhookStep

\* A step of the rewards and the settling job leaves the purchases alone.
LEMMA BesideBooked ==
  ASSUME SingleJob, ~Lagging, Booked, [Next]_vars, admin' = admin, UNCHANGED purchaseVars
  PROVE  Booked'
<1>a. RewardInv /\ PaidOnce /\ NoAdmins /\ PurchaseInv
  BY DEF Booked
<1>1. ~(\E a \in Admins : Move(a))
  <2> SUFFICES ASSUME NEW a \in Admins, Move(a) PROVE FALSE
    OBVIOUS
  <2>1. admin \in [Admins -> AdminLocal]
    BY <1>a DEF RewardInv
  <2>2. CASE TransferCrypto(a)
    <3>1. admin'[a].pc = "credit" /\ admin[a].pc = "rest"
      BY <2>1, <2>2 DEF TransferCrypto
    <3> QED
      BY <3>1
  <2>3. CASE CreditMove(a)
    <3>1. admin'[a].pc = "debit" /\ admin[a].pc = "credit"
      BY <2>1, <2>3 DEF CreditMove, RecordMove, AdminLocal, NoMove, MoveDone
    <3> QED
      BY <3>1
  <2>4. CASE DebitMove(a)
    <3>1. admin'[a].pc = "done" /\ admin[a].pc = "debit"
      BY <2>1, <2>4 DEF DebitMove, RecordMove, MoveDone, NoMove
    <3> QED
      BY <3>1
  <2> QED
    BY <2>2, <2>3, <2>4 DEF Move
<1>2. RewardInv' /\ PaidOnce' /\ NoAdmins'
  BY <1>a, <1>1, RewardNext, OnceNext, NoAdminsNext
<1>3. DOMAIN transfer \subseteq DOMAIN transfer'
  BY <1>a, TableGrows
<1>4. UNCHANGED <<purchase, webhook, scenario>>
  BY DEF purchaseVars
<1>5. ASSUME NEW p \in DOMAIN purchase PROVE Accounted(p)'
  <2>1. Accounted(p) /\ Crediting(p)' = Crediting(p) /\ Recording(p)' = Recording(p)
    BY <1>a, <1>4 DEF PurchaseInv, Crediting, Recording, MayCredit, MustRecord
  <2> QED
    BY <1>3, <1>4, <2>1 DEF Accounted
<1> QED
  BY <1>a, <1>2, <1>4, <1>5 DEF Booked, PurchaseInv

\* At first nothing is bought.
LEMMA BookedInit == PurchaseInit => Booked
<1> SUFFICES ASSUME PurchaseInit PROVE Booked
  OBVIOUS
<1>1. RewardInv
  BY RewardInit DEF PurchaseInit
<1>2. PaidOnce /\ NoAdmins
  BY DEF PurchaseInit, Init, PaidOnce, NoAdmins
<1>3. purchase \in Seq(Purchase) /\ DOMAIN purchase = {}
  BY DEF PurchaseInit
<1>4. webhook \in [Webhooks -> Webhook] /\ \A w \in Webhooks : webhook[w].pc = "rest" /\ ~webhook[w].moved
  BY DEF PurchaseInit, NoWebhook, Webhook
<1>5. scenario \in Scenarios
  BY DEF PurchaseInit
<1> QED
  BY <1>1, <1>2, <1>3, <1>4, <1>5 DEF Booked, PurchaseInv

\* A new purchase has no delivery and nothing to account for.
LEMMA NewPurchaseBooked ==
  ASSUME Booked, PurchaseCoiin
  PROVE  Booked'
<1>a. /\ RewardInv /\ PurchaseInv /\ purchase \in Seq(Purchase) /\ webhook \in [Webhooks -> Webhook]
      /\ Len(purchase) \in Nat /\ DOMAIN purchase = 1..Len(purchase)
  BY DEF Booked, PurchaseInv
<1>1. purchase' = Append(purchase, NewPurchase) /\ UNCHANGED <<vars, webhook, scenario>>
  BY DEF PurchaseCoiin
<1> DEFINE new == Len(purchase) + 1
<1>2. NewPurchase \in Purchase
  BY DEF NewPurchase, Purchase, Statuses
<1>3. /\ purchase' \in Seq(Purchase) /\ DOMAIN purchase' = 1..new /\ purchase'[new] = NewPurchase
      /\ \A p \in DOMAIN purchase : purchase'[p] = purchase[p]
  BY <1>a, <1>1, <1>2
<1>4. ASSUME NEW p PROVE Crediting(p)' = Crediting(p) /\ Recording(p)' = Recording(p)
  BY <1>1 DEF Crediting, Recording, MayCredit, MustRecord
<1>5. ASSUME NEW p \in DOMAIN purchase PROVE Accounted(p)'
  BY <1>1, <1>3, <1>4 DEF Accounted, PurchaseInv, vars, Booked
<1>6. \A w \in Webhooks : webhook[w].of = new => webhook[w].pc = "rest"
  <2>1. new \notin DOMAIN purchase
    BY <1>a
  <2> QED
    BY <1>a, <2>1 DEF PurchaseInv
<1>7. ASSUME NEW p, p = new PROVE Accounted(p)'
  <2>1. Crediting(p) = {} /\ Recording(p) = {}
    BY <1>6, <1>7 DEF Crediting, Recording, MayCredit, MustRecord
  <2>2. Cardinality(Crediting(p)') = 0 /\ Cardinality(Recording(p)') = 0
    BY <1>4, <2>1, FS_EmptySet
  <2>3. purchase'[p] = NewPurchase
    BY <1>3, <1>7
  <2>4. /\ purchase'[p].credits = {} /\ purchase'[p].unrecorded = 0 /\ purchase'[p].deliveries = 0
        /\ purchase'[p].card = "open"
    BY <2>3 DEF NewPurchase
  <2>5. Cardinality(purchase'[p].credits) = 0
    BY <2>4, FS_EmptySet
  <2> QED
    BY <1>1, <1>6, <1>7, <2>2, <2>4, <2>5 DEF Accounted
<1>8. ASSUME NEW p \in DOMAIN purchase' PROVE Accounted(p)'
  <2>1. p \in DOMAIN purchase \/ p = new
    BY <1>a, <1>3
  <2> QED
    BY <1>5, <1>7, <2>1
<1>9. PurchaseInv'
  BY <1>1, <1>3, <1>8, <1>a DEF PurchaseInv
<1>10. RewardInv' /\ PaidOnce' /\ NoAdmins'
  <2>1. UNCHANGED <<table, replica, request, job>> /\ {funds', aborted', failures', topUps'} \subseteq Nat /\ admin' \in [Admins -> AdminLocal]
    BY <1>1 DEF vars, table, Booked, RewardInv
  <2> QED
    BY <2>1, SettlingBeside DEF Booked
<1> QED
  BY <1>9, <1>10 DEF Booked

\* A charge is settled before Stripe tells of it.
LEMMA ChargeBooked ==
  ASSUME Booked, NEW p \in DOMAIN purchase, ChargePaymentMethod(p)
  PROVE  Booked'
<1>a. /\ RewardInv /\ PurchaseInv /\ purchase \in Seq(Purchase)
      /\ purchase[p].card = "open" /\ UNCHANGED <<vars, webhook, scenario>>
  BY DEF Booked, PurchaseInv, ChargePaymentMethod
<1>1. PICK outcome \in {"paid", "declined"} : purchase' = [purchase EXCEPT ![p].card = outcome]
  BY DEF ChargePaymentMethod
<1> DEFINE b == [purchase[p] EXCEPT !.card = outcome]
<1>2. purchase[p] \in Purchase
  BY <1>a, Element
<1>3. /\ b \in Purchase /\ b.credits = purchase[p].credits /\ b.unrecorded = purchase[p].unrecorded
      /\ b.deliveries = purchase[p].deliveries /\ purchase' = [purchase EXCEPT ![p] = b]
  BY <1>1, <1>2 DEF Purchase
<1> HIDE DEF b
<1>4. /\ purchase' \in Seq(Purchase) /\ DOMAIN purchase' = DOMAIN purchase /\ purchase'[p] = b
      /\ \A q \in DOMAIN purchase : q # p => purchase'[q] = purchase[q]
  BY <1>a, <1>3
<1>5. ASSUME NEW q \in DOMAIN purchase PROVE Accounted(q)'
  <2>1. Accounted(q) /\ Crediting(q)' = Crediting(q) /\ Recording(q)' = Recording(q) /\ Accounted(p)
        /\ UNCHANGED <<webhook, transfer>>
    BY <1>a DEF PurchaseInv, Crediting, Recording, MayCredit, MustRecord, vars
  <2>2. CASE q # p
    BY <1>4, <2>1, <2>2 DEF Accounted
  <2>3. CASE q = p
    <3>1. /\ purchase'[q].credits = purchase[q].credits /\ purchase'[q].unrecorded = purchase[q].unrecorded
          /\ purchase'[q].deliveries = purchase[q].deliveries
          /\ purchase[q].card # "paid"
      BY <1>a, <1>3, <1>4, <2>3
    <3> QED
      BY <2>1, <3>1 DEF Accounted
  <2> QED
    BY <2>2, <2>3
<1>6. PurchaseInv'
  BY <1>a, <1>4, <1>5 DEF PurchaseInv
<1>7. RewardInv' /\ PaidOnce' /\ NoAdmins'
  <2>1. UNCHANGED <<table, replica, request, job>> /\ {funds', aborted', failures', topUps'} \subseteq Nat /\ admin' \in [Admins -> AdminLocal]
    BY <1>a DEF vars, table, Booked, RewardInv
  <2> QED
    BY <2>1, SettlingBeside DEF Booked
<1> QED
  BY <1>6, <1>7 DEF Booked

\* Every step of the composition.
LEMMA BookedNext ==
  ASSUME SingleJob, ~Lagging
  PROVE  Booked /\ [PurchaseNext]_<<vars, purchaseVars>> => Booked'
<1> SUFFICES ASSUME Booked, [PurchaseNext]_<<vars, purchaseVars>> PROVE Booked'
  OBVIOUS
<1>1. CASE PurchaseCoiin
  BY <1>1, NewPurchaseBooked
<1>2. CASE \E p \in DOMAIN purchase : ChargePaymentMethod(p)
  BY <1>2, ChargeBooked
<1>3. CASE \E w \in Webhooks : WebhookStep(w)
  BY <1>3, HookNext
<1>4. ASSUME [Next]_vars, admin' = admin, UNCHANGED purchaseVars PROVE Booked'
  BY <1>4, BesideBooked
<1>5. CASE (Replicate \/ WindowEnds \/ TopUp) /\ Besides
  <2>1. [Next]_vars /\ UNCHANGED purchaseVars
    BY <1>5 DEF Next, Besides
  <2>2. admin' = admin
    BY <1>5 DEF Replicate, WindowEnds, TopUp, others
  <2> QED
    BY <1>4, <2>1, <2>2
<1>6. CASE \E r \in scenario.requests : Reward(r) /\ Besides
  <2>1. PICK r \in scenario.requests : Reward(r) /\ Besides
    BY <1>6
  <2>2. r \in Requests
    BY <2>1, PurchaseAssumption DEF Booked, PurchaseInv
  <2>3. [Next]_vars /\ UNCHANGED purchaseVars
    BY <2>1, <2>2 DEF Next, Besides
  <2>4. admin' = admin
    BY <2>1 DEF Reward, ReceiveRequest, LookUp, NewReward, others
  <2> QED
    BY <1>4, <2>3, <2>4
<1>7. CASE \E j \in Jobs : Settle(j) /\ Besides
  <2>1. PICK j \in Jobs : Settle(j) /\ Besides
    BY <1>7
  <2>2. [Next]_vars /\ UNCHANGED purchaseVars
    BY <2>1 DEF Next, Besides
  <2>3. admin' = admin
    BY <2>1 DEF Settle, StartJob, ReadPage, MarkTransfer, TransferFundsBatch, Exit, others
  <2> QED
    BY <1>4, <2>2, <2>3
<1>8. CASE UNCHANGED <<vars, purchaseVars>>
  <2>1. [Next]_vars /\ admin' = admin /\ UNCHANGED purchaseVars
    BY <1>8 DEF vars
  <2> QED
    BY <1>4, <2>1
<1> QED
  BY <1>1, <1>2, <1>3, <1>5, <1>6, <1>7, <1>8 DEF PurchaseNext

\* No credit pays more than one coin, so what a buyer received is counted by the deliveries.
LEMMA InvCredited == Booked => CreditedPerDelivery
<1> SUFFICES ASSUME Booked, NEW p \in DOMAIN purchase
             PROVE  Received(p) <= IF purchase[p].card = "paid" THEN purchase[p].deliveries ELSE 0
  BY DEF CreditedPerDelivery
<1>a. RewardInv /\ PaidOnce /\ NoAdmins /\ PurchaseInv /\ Accounted(p) /\ purchase[p] \in Purchase
  BY Element DEF Booked, PurchaseInv
<1> DEFINE credits == purchase[p].credits
           bound == Cardinality(credits)
           sum == SumOver(paid, credits)
           c == Cardinality(Crediting(p))
<1>1. credits \subseteq DOMAIN transfer /\ IsFiniteSet(credits)
  BY <1>a, TableFinite, FS_Subset DEF Accounted
<1>2. \A i \in credits : paid[i] \in Int /\ paid[i] <= 1
  <2> TAKE i \in credits
  <2>1. i \in DOMAIN transfer /\ i \in DOMAIN paid /\ paid \in Seq(Nat)
    BY <1>1, <1>a DEF RewardInv
  <2>2. paid[i] \in Nat
    BY <2>1, Element
  <2>3. paid[i] <= 1
    BY <1>a, <2>1, <2>2 DEF PaidOnce, NoAdmins, OwnRow, Once
  <2> QED
    BY <2>2, <2>3
<1>3. sum <= bound
  BY <1>1, <1>2, SumCounts
<1>4. sum \in Int
  BY <1>1, <1>2, SumType
<1>5. bound \in Nat /\ c \in Nat
  BY <1>1, HooksFinite, FS_CardinalityType
<1>6. Received(p) = purchase[p].unrecorded + sum
  BY Zenon DEF Received, SumOver
<1>7. /\ purchase[p].unrecorded \in Nat /\ purchase[p].deliveries \in Nat
      /\ purchase[p].unrecorded + bound + c <= purchase[p].deliveries
      /\ purchase[p].card # "paid" => purchase[p].unrecorded = 0 /\ credits = {}
  BY <1>a DEF Purchase, Accounted
<1>8. credits = {} => bound = 0
  BY FS_EmptySet
<1> HIDE DEF sum, bound, c
<1>9. Received(p) <= purchase[p].deliveries
  BY <1>3, <1>4, <1>5, <1>6, <1>7
<1>10. purchase[p].card # "paid" => Received(p) <= 0
  BY <1>3, <1>4, <1>5, <1>6, <1>7, <1>8
<1> QED
  BY <1>9, <1>10

\* However many webhooks are handled together, whatever fails between the coiin and its
\* transfer, and while the settling job pays what a webhook left PENDING: a buyer gets at
\* most a coin for each delivery, and nothing if the card did not pay (StripeController).
THEOREM BuyersCreditedPerDelivery ==
  ASSUME SingleJob, ~Lagging
  PROVE  PurchaseSpec => []CreditedPerDelivery
<1>1. PurchaseInit => Booked
  BY BookedInit
<1>2. Booked /\ [PurchaseNext]_<<vars, purchaseVars>> => Booked'
  BY BookedNext
<1> QED
  BY <1>1, <1>2, InvCredited, PTL DEF PurchaseSpec

\* With purchases in the table, too, one job that reads its own writes pays no transfer
\* twice (cron/fixTransfer).
THEOREM PurchasesPaidOnce ==
  ASSUME SingleJob, ~Lagging
  PROVE  PurchaseSpec => []NothingOverpaid
<1>1. PurchaseInit => Booked
  BY BookedInit
<1>2. Booked /\ [PurchaseNext]_<<vars, purchaseVars>> => Booked'
  BY BookedNext
<1>3. Booked => NothingOverpaid
  BY InvOverpaid DEF Booked
<1> QED
  BY <1>1, <1>2, <1>3, PTL DEF PurchaseSpec

=============================================================================
