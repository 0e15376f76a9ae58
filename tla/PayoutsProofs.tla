--------------------------- MODULE PayoutsProofs ---------------------------
(***************************************************************************)
(* Withdrawals and who may make them, for any numbers of users, handlers,  *)
(* applications, overlaps, requests, failures and withdrawals and for any  *)
(* amounts.  First the withdrawals by themselves; then that money leaves   *)
(* only for an identified user; then the rows that overlapping handlers    *)
(* leave, and that what is composed withdraws as the part alone does.      *)
(***************************************************************************)
EXTENDS Payouts, FiniteSetTheorems, SequenceTheorems, TLAPS

(* Withdrawals: what a request knows, and what is left half done. *)

Working == {"send", "complete", "cancel", "row", "fee", "fee row", "update"}
RequestLabels == {"rest", "check", "store"} \cup Working
Locals == [pc : RequestLabels, id : Nat, seen : Int]

\* What a request knows of its withdrawal, step by step.
Stage(label, w) ==
    /\ label = "send" => w.status = "stored" /\ ~w.sent /\ ~w.row /\ w.fee = "none"
    /\ label = "complete" => w.status = "stored" /\ w.sent /\ ~w.row /\ w.fee = "none"
    /\ label = "cancel" => w.status # "cancelled" /\ ~w.row /\ w.fee = "none"
    /\ label = "row" => w.status = "completed" /\ w.sent /\ ~w.row /\ w.fee = "none"
    /\ label = "fee" => w.status = "completed" /\ w.sent /\ w.row /\ w.fee = "none"
    /\ label = "fee row" => w.status = "completed" /\ w.sent /\ w.row /\ w.fee = "moved"
    /\ label = "update" => w.status = "completed" /\ w.sent /\ w.row

\* A request whose withdrawal will be consistent if no further call fails.
Promising(label, w) ==
    \/ label \in {"send", "complete", "row", "fee", "fee row"}
    \/ label = "cancel" /\ w.status = "stored" /\ ~w.sent

LocalOK(l, t) ==
    /\ l \in Locals
    /\ l.pc \notin Working => l.id = 0
    /\ l.pc \in Working => l.id \in DOMAIN t /\ Stage(l.pc, t[l.id])

RequestsOK(q, t) ==
    /\ DOMAIN q = Requests
    /\ \A r \in Requests : LocalOK(q[r], t)
    /\ \A r, s \in Requests : q[r].id # 0 /\ q[s].id = q[r].id => r = s

\* The withdrawals that are stranded or will be, whatever happens.
Bad(q, t) == {w \in DOMAIN t :
                 /\ ~Consistent(t[w])
                 /\ \A r \in Requests : ~(q[r].id = w /\ Promising(q[r].pc, t[w]))}
BadBound(q, t, n) == Cardinality(Bad(q, t)) <= n

\* The inductive invariant.
StepInv ==
    /\ available \in Nat /\ withdrawal \in Seq(Withdrawals)
    /\ recorded \in Int /\ replica \in Int /\ failures \in Nat
    /\ sync \in [pc : {"rest", "write"}, seen : Nat]
    /\ RequestsOK(request, withdrawal)
    /\ BadBound(request, withdrawal, failures)

LEMMA Element ==
  ASSUME NEW S, NEW seq \in Seq(S), NEW i \in DOMAIN seq
  PROVE  seq[i] \in S
OBVIOUS

LEMMA Replaced ==
  ASSUME NEW S, NEW seq \in Seq(S), NEW i \in DOMAIN seq, NEW e \in S
  PROVE  LET t == [seq EXCEPT ![i] = e]
         IN  /\ t \in Seq(S) /\ Len(t) = Len(seq) /\ DOMAIN t = DOMAIN seq
             /\ t[i] = e /\ \A k \in DOMAIN t : k # i => t[k] = seq[k]
OBVIOUS

LEMMA Appended ==
  ASSUME NEW S, NEW seq \in Seq(S), NEW e \in S
  PROVE  LET t == Append(seq, e)
         IN  /\ t \in Seq(S) /\ Len(t) = Len(seq) + 1 /\ DOMAIN seq \subseteq DOMAIN t
             /\ Len(t) \in DOMAIN t /\ Len(t) \notin DOMAIN seq /\ t[Len(t)] = e
             /\ \A k \in DOMAIN t : k # Len(t) => k \in DOMAIN seq /\ t[k] = seq[k]
OBVIOUS

LEMMA BadIsFinite ==
  ASSUME NEW q, NEW t \in Seq(Withdrawals)
  PROVE  IsFiniteSet(Bad(q, t)) /\ Cardinality(Bad(q, t)) \in Nat
<1>1. DOMAIN t = 1..Len(t) /\ Len(t) \in Nat
  OBVIOUS
<1>2. IsFiniteSet(DOMAIN t)
  BY <1>1, FS_Interval
<1>3. Bad(q, t) \subseteq DOMAIN t
  BY DEF Bad
<1> QED
  BY <1>2, <1>3, FS_Subset, FS_CardinalityType

\* A request goes on with local after a step that left the withdrawal i as t shows it:
\* i is as it should be, or may become so, or was bad before.
Harmless(i, t, local) ==
    i \in DOMAIN t =>
        \/ Consistent(t[i])
        \/ local.id = i /\ Promising(local.pc, t[i])
        \/ i \in Bad(request, withdrawal)

\* A step of request r, which touches the withdrawal i (0: none): it fails or is harmless.
LEMMA OwnStep ==
  ASSUME StepInv, NEW r \in Requests, NEW i \in Nat, NEW t \in Seq(Withdrawals), NEW local,
         DOMAIN withdrawal \subseteq DOMAIN t,
         \A k \in DOMAIN t : k # i => k \in DOMAIN withdrawal /\ t[k] = withdrawal[k],
         request[r].id \in {0, i}, local.id \in {0, i},
         i # 0 => \A s \in Requests \ {r} : request[s].id # i,
         LocalOK(local, t), Become(r, local), NEW n \in Nat,
         n = failures + 1 \/ (n = failures /\ Harmless(i, t, local))
  PROVE  RequestsOK(request', t) /\ BadBound(request', t, n)
<1>1. /\ DOMAIN request = Requests /\ \A s \in Requests : LocalOK(request[s], withdrawal)
      /\ \A s, u \in Requests : request[s].id # 0 /\ request[u].id = request[s].id => s = u
  BY DEF StepInv, RequestsOK
<1>2. DOMAIN request' = Requests /\ \A s \in Requests : request'[s] = IF s = r THEN local ELSE request[s]
  BY <1>1 DEF Become
<1>3. 0 \notin DOMAIN t
  OBVIOUS
<1>4. ASSUME NEW s \in Requests, s # r, request[s].id \in DOMAIN withdrawal
      PROVE  request[s].id # i /\ t[request[s].id] = withdrawal[request[s].id]
  <2>1. request[s].id # 0
    BY <1>3, <1>4
  <2>2. request[s].id # i
    BY <1>4, <2>1
  <2> QED
    BY <1>4, <2>2
<1>5. \A s \in Requests : LocalOK(request'[s], t)
  <2> SUFFICES ASSUME NEW s \in Requests, s # r PROVE LocalOK(request[s], t)
    BY <1>2
  <2> QED
    BY <1>1, <1>4 DEF LocalOK
<1>6. \A s, u \in Requests : request'[s].id # 0 /\ request'[u].id = request'[s].id => s = u
  BY <1>1, <1>2
<1>7. RequestsOK(request', t)
  BY <1>2, <1>5, <1>6 DEF RequestsOK
<1> DEFINE before == Bad(request, withdrawal)
           after == Bad(request', t)
<1>8. after \subseteq before \cup {i}
  <2> SUFFICES ASSUME NEW w \in after, w # i PROVE w \in before
    OBVIOUS
  <2>1. w \in DOMAIN t /\ ~Consistent(t[w]) /\ w \in DOMAIN withdrawal /\ t[w] = withdrawal[w]
    BY DEF Bad
  <2>2. ASSUME NEW s \in Requests, request[s].id = w, Promising(request[s].pc, withdrawal[w])
        PROVE  FALSE
    <3>1. s # r
      BY <1>3, <2>1, <2>2
    <3>2. request'[s] = request[s]
      BY <1>2, <3>1
    <3> QED
      BY <2>1, <2>2, <3>2 DEF Bad
  <2> QED
    BY <2>1, <2>2 DEF Bad
<1>9. IsFiniteSet(before) /\ Cardinality(before) \in Nat /\ IsFiniteSet(after) /\ Cardinality(after) \in Nat
  BY BadIsFinite DEF StepInv
<1>10. Cardinality(before) <= failures /\ failures \in Nat
  BY DEF StepInv, BadBound
<1>11. CASE n = failures + 1
  <2> HIDE DEF before, after
  <2>1. IsFiniteSet(before \cup {i}) /\ Cardinality(before \cup {i}) <= Cardinality(before) + 1
    <3>1. /\ IsFiniteSet(before \cup {i})
          /\ Cardinality(before \cup {i}) = IF i \in before THEN Cardinality(before) ELSE Cardinality(before) + 1
      BY <1>9, FS_AddElement
    <3> QED
      BY <1>9, <3>1
  <2>2. Cardinality(after) <= Cardinality(before \cup {i})
    BY <1>8, <2>1, FS_Subset
  <2>3. Cardinality(before \cup {i}) \in Nat
    BY <2>1, FS_CardinalityType
  <2>4. Cardinality(after) <= n
    BY <1>9, <1>10, <1>11, <2>1, <2>2, <2>3
  <2> QED
    BY <1>7, <2>4 DEF BadBound, after
<1>12. CASE n = failures /\ Harmless(i, t, local)
  <2>1. i \in after => i \in before
    <3> SUFFICES ASSUME i \in after PROVE i \in before
      OBVIOUS
    <3>1. i \in DOMAIN t /\ ~Consistent(t[i])
      BY DEF Bad
    <3>2. ~(local.id = i /\ Promising(local.pc, t[i]))
      BY <1>2 DEF Bad
    <3> QED
      BY <1>12, <3>1, <3>2 DEF Harmless
  <2>2. after \subseteq before
    BY <1>8, <2>1
  <2> HIDE DEF before, after
  <2>3. Cardinality(after) <= Cardinality(before)
    BY <1>9, <2>2, FS_Subset
  <2>4. Cardinality(after) <= n
    BY <1>9, <1>10, <1>12, <2>3
  <2> QED
    BY <1>7, <2>4 DEF BadBound, after
<1> QED
  BY <1>11, <1>12

-----------------------------------------------------------------------------
\* A request that works on a withdrawal, in the terms of OwnStep.
LEMMA HeldByOne ==
  ASSUME StepInv, NEW r \in Requests, request[r].pc \in Working
  PROVE  LET i == request[r].id
         IN  /\ i \in DOMAIN withdrawal /\ i \in Nat \ {0}
             /\ withdrawal[i] \in Withdrawals /\ Stage(request[r].pc, withdrawal[i])
             /\ \A s \in Requests \ {r} : request[s].id # i
<1> DEFINE i == request[r].id
<1>1. LocalOK(request[r], withdrawal) /\ withdrawal \in Seq(Withdrawals)
  BY DEF StepInv, RequestsOK
<1>2. i \in DOMAIN withdrawal /\ Stage(request[r].pc, withdrawal[i])
  BY <1>1 DEF LocalOK
<1>3. i \in Nat \ {0} /\ withdrawal[i] \in Withdrawals
  BY <1>1, <1>2, Element
<1>4. \A s \in Requests \ {r} : request[s].id # i
  BY <1>3 DEF StepInv, RequestsOK
<1> QED
  BY <1>2, <1>3, <1>4

\* A request ends.
LEMMA IdleOK == \A t : LocalOK(Idle, t)
BY DEF LocalOK, Idle, Locals, RequestLabels, Working

\* Request r goes to another step after it changed its withdrawal to m.
LEMMA GoesOn ==
  ASSUME StepInv, NEW r \in Requests, request[r].pc \in Working,
         NEW m \in Withdrawals, NEW label \in Working \cup {"rest"},
         label # "rest" => Stage(label, m), Goto(r, label), NEW n \in Nat,
         n = failures + 1 \/ (n = failures /\ \/ Consistent(m)
                                              \/ Promising(label, m)
                                              \/ request[r].id \in Bad(request, withdrawal))
  PROVE  LET t == [withdrawal EXCEPT ![request[r].id] = m]
         IN  t \in Seq(Withdrawals) /\ RequestsOK(request', t) /\ BadBound(request', t, n)
<1> DEFINE i == request[r].id
           t == [withdrawal EXCEPT ![i] = m]
           local == IF label = "rest" THEN Idle ELSE [request[r] EXCEPT !.pc = label]
<1>1. /\ i \in DOMAIN withdrawal /\ i \in Nat \ {0}
      /\ \A s \in Requests \ {r} : request[s].id # i
  BY HeldByOne
<1>2. withdrawal \in Seq(Withdrawals) /\ request[r] \in Locals
  BY DEF StepInv, RequestsOK, LocalOK
<1>3. /\ t \in Seq(Withdrawals) /\ DOMAIN t = DOMAIN withdrawal
      /\ t[i] = m /\ \A k \in DOMAIN t : k # i => t[k] = withdrawal[k]
  BY <1>1, <1>2, Replaced
<1>4. label # "rest" => local \in Locals /\ local.pc = label /\ local.id = i
  BY <1>2 DEF Locals, RequestLabels
<1>5. label = "rest" => local = Idle
  OBVIOUS
<1>6. Become(r, local)
  BY DEF Goto
<1> HIDE DEF t, local
<1>7. LocalOK(local, t)
  BY <1>1, <1>3, <1>4, <1>5, IdleOK DEF LocalOK, Working
<1>8. local.id \in {0, i}
  BY <1>4, <1>5 DEF Idle
<1>9. n = failures => Harmless(i, t, local)
  <2>1. Promising(label, m) => label # "rest"
    BY DEF Promising
  <2>2. failures # failures + 1
    BY DEF StepInv
  <2> QED
    BY <1>3, <1>4, <2>1, <2>2 DEF Harmless
<1>10. n = failures + 1 \/ (n = failures /\ Harmless(i, t, local))
  BY <1>9
<1>11. DOMAIN withdrawal \subseteq DOMAIN t
  BY <1>3
<1>12. \A k \in DOMAIN t : k # i => k \in DOMAIN withdrawal /\ t[k] = withdrawal[k]
  BY <1>3
<1>13. RequestsOK(request', t) /\ BadBound(request', t, n)
  BY <1>1, <1>3, <1>6, <1>7, <1>8, <1>10, <1>11, <1>12, OwnStep
<1> QED
  BY <1>3, <1>13 DEF t

\* A call of a working request took effect, and its answer arrives or is lost.
LEMMA Proceeds ==
  ASSUME StepInv, NEW r \in Requests, request[r].pc \in Working,
         NEW m \in Withdrawals, NEW label \in Working,
         Stage(label, m), Consistent(m) \/ Promising(label, m) \/ request[r].id \in Bad(request, withdrawal),
         OnError(request[r].pc) \in {"cancel", "update", "rest"},
         OnError(request[r].pc) # "rest" => Stage(OnError(request[r].pc), m),
         Proceed(r, label)
  PROVE  LET t == [withdrawal EXCEPT ![request[r].id] = m]
         IN  /\ t \in Seq(Withdrawals) /\ failures' \in Nat
             /\ RequestsOK(request', t) /\ BadBound(request', t, failures')
<1>1. failures \in Nat
  BY DEF StepInv
<1>2. CASE Goto(r, label) /\ UNCHANGED failures
  BY <1>1, <1>2, GoesOn
<1>3. CASE Goto(r, OnError(request[r].pc)) /\ Fail
  <2> DEFINE onError == OnError(request[r].pc)
  <2>1. failures' = failures + 1 /\ failures' \in Nat
    BY <1>1, <1>3 DEF Fail
  <2>2. onError \in Working \cup {"rest"}
    BY DEF Working
  <2>3. Goto(r, onError) /\ (onError # "rest" => Stage(onError, m))
    BY <1>3
  <2> HIDE DEF onError
  <2> QED
    BY <2>1, <2>2, <2>3, GoesOn
<1> QED
  BY <1>2, <1>3 DEF Proceed

\* A request without a withdrawal takes a step that leaves the ledger alone.
LEMMA NoLedger ==
  ASSUME StepInv, NEW r \in Requests, request[r].pc \notin Working,
         NEW local, LocalOK(local, withdrawal), local.id = 0, Become(r, local),
         NEW n \in Nat, n \in {failures, failures + 1}
  PROVE  RequestsOK(request', withdrawal) /\ BadBound(request', withdrawal, n)
<1> DEFINE zero == 0
<1>1. withdrawal \in Seq(Withdrawals) /\ request[r].id = zero /\ local.id = zero /\ zero \in Nat
  BY DEF StepInv, RequestsOK, LocalOK
<1>2. zero \notin DOMAIN withdrawal
  BY <1>1
<1>3. Harmless(zero, withdrawal, local)
  BY <1>2 DEF Harmless
<1>4. zero # 0 => \A s \in Requests \ {r} : request[s].id # zero
  OBVIOUS
<1> HIDE DEF zero
<1>5. \A k \in DOMAIN withdrawal : k # zero => k \in DOMAIN withdrawal /\ withdrawal[k] = withdrawal[k]
  OBVIOUS
<1>6. n = failures + 1 \/ (n = failures /\ Harmless(zero, withdrawal, local))
  BY <1>3
<1>7. request[r].id \in {0, zero} /\ local.id \in {0, zero}
  BY <1>1
<1> QED
  BY <1>1, <1>4, <1>5, <1>6, <1>7, OwnStep

\* What a request that gives up leaves behind.
LEMMA GivenUp ==
  ASSUME StepInv, NEW r \in Requests, request[r].pc \in Working,
         ~Consistent(withdrawal[request[r].id]),
         ~Promising(request[r].pc, withdrawal[request[r].id])
  PROVE  request[r].id \in Bad(request, withdrawal)
<1> DEFINE i == request[r].id
<1>1. i \in DOMAIN withdrawal /\ \A s \in Requests \ {r} : request[s].id # i
  BY HeldByOne
<1>2. \A s \in Requests : ~(request[s].id = i /\ Promising(request[s].pc, withdrawal[i]))
  BY <1>1
<1> QED
  BY <1>1, <1>2 DEF Bad

LEMMA Same ==
  ASSUME NEW S, NEW t \in Seq(S), NEW i \in DOMAIN t
  PROVE  [t EXCEPT ![i] = t[i]] = t
OBVIOUS

\* What is left of the invariant, given the requests.
LEMMA Rest ==
  ASSUME StepInv, available' \in Nat, withdrawal' \in Seq(Withdrawals),
         recorded' \in Int, replica' \in Int, UNCHANGED sync, failures' \in Nat,
         RequestsOK(request', withdrawal'), BadBound(request', withdrawal', failures')
  PROVE  StepInv'
BY DEF StepInv

LEMMA StepsOfRequest ==
  ASSUME StepInv, NEW r \in Requests, Withdraw(r)
  PROVE  StepInv'
<1> DEFINE l == request[r]
           i == l.id
           w == withdrawal[i]
<1>a. /\ available \in Nat /\ withdrawal \in Seq(Withdrawals) /\ recorded \in Int /\ replica \in Int
      /\ failures \in Nat /\ l \in Locals
  BY DEF StepInv, RequestsOK, LocalOK
<1>b. Amount \in Nat /\ Fee \in Nat /\ Fee < Amount
  BY WithdrawalAssumption
<1>c. ASSUME l.pc \in Working PROVE i \in DOMAIN withdrawal /\ w \in Withdrawals /\ Stage(l.pc, w)
  BY <1>c, HeldByOne
<1>1. CASE ReceiveWithdraw(r)
  <2> DEFINE local == [pc |-> "check", id |-> 0, seen |-> Seen]
  <2>1. /\ l.pc = "rest" /\ Become(r, local) /\ UNCHANGED <<ledger, books, sync, failures>>
    BY <1>1 DEF ReceiveWithdraw, At
  <2>2. Seen \in Int /\ 0 \in Nat
    BY <1>a DEF Seen
  <2>3. LocalOK(local, withdrawal) /\ local.id = 0
    BY <2>2 DEF LocalOK, Locals, RequestLabels, Working
  <2> HIDE DEF local
  <2>4. RequestsOK(request', withdrawal) /\ BadBound(request', withdrawal, failures)
    BY <1>a, <2>1, <2>3, NoLedger DEF Working
  <2> QED
    BY <1>a, <2>1, <2>4, Rest DEF ledger, books
<1>2. CASE CheckBalance(r)
  <2>1. /\ l.pc = "check" /\ UNCHANGED <<ledger, books, sync, failures>>
        /\ Goto(r, "store") \/ Goto(r, "rest")
    BY <1>2 DEF CheckBalance, At
  <2>2. LocalOK(l, withdrawal)
    BY DEF StepInv, RequestsOK
  <2>3. PICK local : Become(r, local) /\ local \in {Idle, [l EXCEPT !.pc = "store"]}
    BY <2>1 DEF Goto
  <2>4. LocalOK(local, withdrawal) /\ local.id = 0
    <3>1. l.id = 0
      BY <2>1, <2>2 DEF LocalOK, Working
    <3>2. CASE local = Idle
      BY <3>2, IdleOK DEF Idle
    <3>3. CASE local = [l EXCEPT !.pc = "store"]
      BY <1>a, <3>1, <3>3 DEF LocalOK, Locals, RequestLabels, Working
    <3> QED
      BY <2>3, <3>2, <3>3
  <2>5. RequestsOK(request', withdrawal) /\ BadBound(request', withdrawal, failures)
    BY <1>a, <2>1, <2>3, <2>4, NoLedger DEF Working
  <2> QED
    BY <1>a, <2>1, <2>5, Rest DEF ledger, books
<1>3. CASE StoreWithdrawal(r)
  <2> DEFINE t == Append(withdrawal, NewWithdrawal)
             n == Len(t)
             next == [l EXCEPT !.pc = "send", !.id = n]
  <2>1. l.pc = "store" /\ UNCHANGED <<books, sync>>
    BY <1>3 DEF StoreWithdrawal, At
  <2>2. LocalOK(l, withdrawal) /\ l.id = 0
    BY <2>1 DEF StepInv, RequestsOK, LocalOK, Working
  <2>3. CASE available < Amount - Fee
    <3>1. Become(r, Idle) /\ UNCHANGED <<ledger, failures>>
      BY <1>3, <1>a, <1>b, <2>3 DEF StoreWithdrawal
    <3>2. LocalOK(Idle, withdrawal) /\ Idle.id = 0
      BY IdleOK DEF Idle
    <3>3. RequestsOK(request', withdrawal) /\ BadBound(request', withdrawal, failures)
      BY <1>a, <2>1, <3>1, <3>2, NoLedger DEF Working
    <3> QED
      BY <1>a, <2>1, <3>1, <3>3, Rest DEF ledger, books
  <2>4. CASE available >= Amount - Fee
    <3>1. /\ withdrawal' = t /\ available' = available - (Amount - Fee)
          /\ \/ Become(r, next) /\ UNCHANGED failures
             \/ Become(r, Idle) /\ Fail
      BY <1>3, <1>a, <1>b, <2>4 DEF StoreWithdrawal
    <3>2. available' \in Nat
      BY <1>a, <1>b, <2>4, <3>1
    <3>3. NewWithdrawal \in Withdrawals /\ Stage("send", NewWithdrawal)
      BY DEF NewWithdrawal, Withdrawals, Statuses, Fees, Stage
    <3>4. /\ t \in Seq(Withdrawals) /\ DOMAIN withdrawal \subseteq DOMAIN t /\ n \in DOMAIN t
          /\ n \notin DOMAIN withdrawal /\ t[n] = NewWithdrawal
          /\ \A k \in DOMAIN t : k # n => k \in DOMAIN withdrawal /\ t[k] = withdrawal[k]
      BY <1>a, <3>3, Appended
    <3>5. n \in Nat
      BY <1>a
    <3>6. /\ next \in Locals /\ next.pc = "send" /\ next.id = n
      BY <1>a, <3>5 DEF Locals, RequestLabels, Working
    <3> HIDE DEF t, n, next
    <3>7. LocalOK(next, t) /\ LocalOK(Idle, t)
      BY <3>3, <3>4, <3>6, IdleOK DEF LocalOK, Working
    <3>8. \A s \in Requests \ {r} : request[s].id # n
      <4>1. \A s \in Requests : request[s].id # 0 => request[s].id \in DOMAIN withdrawal
        BY DEF StepInv, RequestsOK, LocalOK
      <4>2. n # 0
        BY <3>4
      <4> QED
        BY <3>4, <4>1, <4>2
    <3>9. l.id \in {0, n} /\ next.id \in {0, n} /\ Idle.id \in {0, n}
      BY <2>2, <3>6 DEF Idle
    <3>10. Harmless(n, t, next)
      BY <3>6 DEF Harmless, Promising
    <3>11. CASE Become(r, next) /\ UNCHANGED failures
      <4>1. RequestsOK(request', t) /\ BadBound(request', t, failures)
        BY <1>a, <3>4, <3>5, <3>7, <3>8, <3>9, <3>10, <3>11, OwnStep
      <4> QED
        BY <1>a, <2>1, <3>1, <3>2, <3>4, <3>11, <4>1, Rest DEF books
    <3>12. CASE Become(r, Idle) /\ Fail
      <4>1. failures' = failures + 1 /\ failures' \in Nat
        BY <1>a, <3>12 DEF Fail
      <4>2. RequestsOK(request', t) /\ BadBound(request', t, failures')
        BY <1>a, <3>4, <3>5, <3>7, <3>8, <3>9, <3>12, <4>1, OwnStep
      <4> QED
        BY <1>a, <2>1, <3>1, <3>2, <3>4, <4>1, <4>2, Rest DEF books
    <3> QED
      BY <3>1, <3>11, <3>12
  <2> QED
    BY <1>a, <1>b, <2>3, <2>4
<1>4. CASE SendToChain(r)
  <2> DEFINE m == [w EXCEPT !.sent = TRUE]
             t == [withdrawal EXCEPT ![i] = m]
  <2>1. /\ l.pc = "send" /\ withdrawal' = t /\ Proceed(r, "complete")
        /\ UNCHANGED <<available, books, sync>>
    BY <1>4 DEF SendToChain, At, Mine
  <2>2. w \in Withdrawals /\ Stage("send", w)
    BY <1>c, <2>1 DEF Working
  <2>3. m \in Withdrawals /\ Stage("complete", m) /\ Stage("cancel", m)
    BY <2>2 DEF Stage, Withdrawals, Statuses
  <2>4. Promising("complete", m) /\ OnError(l.pc) = "cancel" /\ l.pc \in Working /\ "complete" \in Working
    BY <2>1 DEF Promising, OnError, Working
  <2> HIDE DEF m
  <2>5. /\ t \in Seq(Withdrawals) /\ failures' \in Nat
        /\ RequestsOK(request', t) /\ BadBound(request', t, failures')
    BY <2>1, <2>3, <2>4, Proceeds
  <2> HIDE DEF t
  <2> QED
    BY <1>a, <2>1, <2>5, Rest DEF books
<1>5. CASE CompleteWithdrawal(r)
  <2> DEFINE m == [w EXCEPT !.status = "completed"]
             t == [withdrawal EXCEPT ![i] = m]
  <2>1. /\ l.pc = "complete" /\ withdrawal' = t /\ Proceed(r, "row")
        /\ UNCHANGED <<available, books, sync>>
    BY <1>5 DEF CompleteWithdrawal, At, Mine
  <2>2. w \in Withdrawals /\ Stage("complete", w)
    BY <1>c, <2>1 DEF Working
  <2>3. m \in Withdrawals /\ Stage("row", m) /\ Stage("cancel", m)
    BY <2>2 DEF Stage, Withdrawals, Statuses
  <2>4. Promising("row", m) /\ OnError(l.pc) = "cancel" /\ l.pc \in Working /\ "row" \in Working
    BY <2>1 DEF Promising, OnError, Working
  <2> HIDE DEF m
  <2>5. /\ t \in Seq(Withdrawals) /\ failures' \in Nat
        /\ RequestsOK(request', t) /\ BadBound(request', t, failures')
    BY <2>1, <2>3, <2>4, Proceeds
  <2> HIDE DEF t
  <2> QED
    BY <1>a, <2>1, <2>5, Rest DEF books
<1>6. CASE CancelWithdrawal(r)
  <2>1. l.pc = "cancel" /\ Become(r, Idle) /\ UNCHANGED <<books, sync, failures>>
    BY <1>6 DEF CancelWithdrawal, At
  <2>2. w \in Withdrawals /\ Stage("cancel", w) /\ l.pc \in Working /\ i \in DOMAIN withdrawal
    BY <1>c, <2>1 DEF Working
  <2>3. Goto(r, "rest")
    BY <2>1 DEF Goto
  <2>4. CASE w.status = "stored"
    <3> DEFINE m == [w EXCEPT !.status = "cancelled"]
               t == [withdrawal EXCEPT ![i] = m]
    <3>1. withdrawal' = t /\ available' = available + (Amount - Fee)
      BY <1>6, <2>4 DEF CancelWithdrawal, Mine
    <3>2. m \in Withdrawals
      BY <2>2 DEF Withdrawals, Statuses
    <3>3. Consistent(m) \/ i \in Bad(request, withdrawal)
      <4>1. CASE w.sent
        <5>1. ~Consistent(w) /\ ~Promising(l.pc, w)
          BY <2>1, <2>4, <4>1 DEF Consistent, Promising
        <5> QED
          BY <2>2, <5>1, GivenUp
      <4>2. CASE ~w.sent
        BY <2>2, <4>2 DEF Consistent, Withdrawals
      <4> QED
        BY <4>1, <4>2
    <3>4. available' \in Nat
      BY <1>a, <1>b, <3>1
    <3> HIDE DEF m
    <3>5. t \in Seq(Withdrawals) /\ RequestsOK(request', t) /\ BadBound(request', t, failures)
      BY <1>a, <2>2, <2>3, <3>2, <3>3, GoesOn
    <3> HIDE DEF t
    <3> QED
      BY <1>a, <2>1, <3>1, <3>4, <3>5, Rest DEF books
  <2>5. CASE w.status # "stored"
    <3>1. UNCHANGED ledger
      BY <1>6, <2>5 DEF CancelWithdrawal, Mine
    <3>2. ~Consistent(w) /\ ~Promising(l.pc, w)
      BY <2>1, <2>2, <2>5 DEF Consistent, Promising, Stage
    <3>3. i \in Bad(request, withdrawal)
      BY <2>2, <3>2, GivenUp
    <3>4. [withdrawal EXCEPT ![i] = w] = withdrawal
      BY <1>a, <2>2, Same
    <3>5. /\ RequestsOK(request', [withdrawal EXCEPT ![i] = w])
          /\ BadBound(request', [withdrawal EXCEPT ![i] = w], failures)
      BY <1>a, <2>2, <2>3, <3>3, GoesOn
    <3> QED
      BY <1>a, <2>1, <3>1, <3>4, <3>5, Rest DEF books, ledger
  <2> QED
    BY <2>4, <2>5
<1>7. CASE SaveTransfer(r)
  <2> DEFINE m == [w EXCEPT !.row = TRUE]
             t == [withdrawal EXCEPT ![i] = m]
             label == IF SubCustodial THEN "fee" ELSE "update"
  <2>1. /\ l.pc = "row" /\ withdrawal' = t /\ Proceed(r, label)
        /\ UNCHANGED <<available, books, sync>>
    BY <1>7 DEF SaveTransfer, At, Mine
  <2>2. w \in Withdrawals /\ Stage("row", w)
    BY <1>c, <2>1 DEF Working
  <2>3. m \in Withdrawals /\ Stage("fee", m) /\ Stage("update", m) /\ Consistent(m)
    BY <2>2 DEF Stage, Withdrawals, Statuses, Consistent
  <2>4. OnError(l.pc) = "rest" /\ l.pc \in Working /\ label \in Working /\ Stage(label, m)
    BY <2>1, <2>3 DEF OnError, Working
  <2> HIDE DEF m, label
  <2>5. /\ t \in Seq(Withdrawals) /\ failures' \in Nat
        /\ RequestsOK(request', t) /\ BadBound(request', t, failures')
    BY <2>1, <2>3, <2>4, Proceeds
  <2> HIDE DEF t
  <2> QED
    BY <1>a, <2>1, <2>5, Rest DEF books
<1>8. CASE TransferFee(r)
  <2>1. l.pc = "fee" /\ UNCHANGED <<books, sync>>
    BY <1>8 DEF TransferFee, At
  <2>2. w \in Withdrawals /\ Stage("fee", w) /\ i \in DOMAIN withdrawal /\ l.pc \in Working
    BY <1>c, <2>1 DEF Working
  <2>3. OnError(l.pc) = "update" /\ OnError("fee") = "update"
    BY <2>1 DEF OnError
  <2>4. CASE available >= Fee
    <3> DEFINE m == [w EXCEPT !.fee = "moved"]
               t == [withdrawal EXCEPT ![i] = m]
    <3>1. withdrawal' = t /\ available' = available - Fee /\ Proceed(r, "fee row")
      BY <1>8, <2>4 DEF TransferFee, Mine
    <3>2. m \in Withdrawals /\ Stage("fee row", m) /\ Stage("update", m)
      BY <2>2 DEF Stage, Withdrawals, Fees
    <3>3. Promising("fee row", m) /\ "fee row" \in Working
      BY DEF Promising, Working
    <3>a. available' \in Nat
      <4>1. available' = available - Fee
        BY <3>1
      <4>2. available \in Nat
        BY <1>a
      <4> HIDE DEF l, i, w, m, t
      <4> QED
        BY <1>b, <2>4, <4>1, <4>2
    <3> HIDE DEF m
    <3>4. /\ t \in Seq(Withdrawals) /\ failures' \in Nat
          /\ RequestsOK(request', t) /\ BadBound(request', t, failures')
      BY <2>2, <2>3, <3>1, <3>2, <3>3, Proceeds
    <3> HIDE DEF t
    <3> QED
      BY <1>a, <2>1, <3>1, <3>a, <3>4, Rest DEF books
  <2>5. CASE ~(available >= Fee)
    <3>1. Goto(r, "update") /\ UNCHANGED <<ledger, failures>>
      BY <1>8, <2>3, <2>5 DEF TransferFee
    <3>2. Stage("update", w) /\ Consistent(w) /\ "update" \in Working
      BY <2>2 DEF Stage, Consistent, Working
    <3>3. [withdrawal EXCEPT ![i] = w] = withdrawal
      BY <1>a, <2>2, Same
    <3>4. /\ RequestsOK(request', [withdrawal EXCEPT ![i] = w])
          /\ BadBound(request', [withdrawal EXCEPT ![i] = w], failures)
      BY <1>a, <2>2, <3>1, <3>2, GoesOn
    <3> QED
      BY <1>a, <2>1, <3>1, <3>3, <3>4, Rest DEF books, ledger
  <2> QED
    BY <2>4, <2>5
<1>9. CASE SaveFee(r)
  <2> DEFINE m == [w EXCEPT !.fee = "recorded"]
             t == [withdrawal EXCEPT ![i] = m]
  <2>1. /\ l.pc = "fee row" /\ withdrawal' = t /\ Proceed(r, "update")
        /\ UNCHANGED <<available, books, sync>>
    BY <1>9 DEF SaveFee, At, Mine
  <2>2. w \in Withdrawals /\ Stage("fee row", w)
    BY <1>c, <2>1 DEF Working
  <2>3. m \in Withdrawals /\ Stage("update", m) /\ Consistent(m)
    BY <2>2 DEF Stage, Withdrawals, Fees, Consistent
  <2>4. OnError(l.pc) = "update" /\ l.pc \in Working /\ "update" \in Working
    BY <2>1 DEF OnError, Working
  <2> HIDE DEF m
  <2>5. /\ t \in Seq(Withdrawals) /\ failures' \in Nat
        /\ RequestsOK(request', t) /\ BadBound(request', t, failures')
    BY <2>1, <2>3, <2>4, Proceeds
  <2> HIDE DEF t
  <2> QED
    BY <1>a, <2>1, <2>5, Rest DEF books
<1>10. CASE UpdateBalance(r)
  <2>1. /\ l.pc = "update" /\ recorded' = l.seen - Amount /\ Become(r, Idle)
        /\ UNCHANGED <<ledger, replica, sync, failures>>
    BY <1>10 DEF UpdateBalance, At
  <2>2. w \in Withdrawals /\ Stage("update", w) /\ i \in DOMAIN withdrawal /\ l.pc \in Working
    BY <1>c, <2>1 DEF Working
  <2>3. Consistent(w) \/ i \in Bad(request, withdrawal)
    <3>1. ~Consistent(w) => ~Promising(l.pc, w)
      BY <2>1 DEF Promising
    <3> QED
      BY <2>2, <3>1, GivenUp
  <2>4. Goto(r, "rest") /\ recorded' \in Int
    <3>1. l.seen \in Int
      BY <1>a DEF Locals
    <3> QED
      BY <1>b, <2>1, <3>1 DEF Goto
  <2>5. [withdrawal EXCEPT ![i] = w] = withdrawal
    BY <1>a, <2>2, Same
  <2>6. /\ RequestsOK(request', [withdrawal EXCEPT ![i] = w])
        /\ BadBound(request', [withdrawal EXCEPT ![i] = w], failures)
    BY <1>a, <2>2, <2>3, <2>4, GoesOn
  <2> QED
    BY <1>a, <2>1, <2>4, <2>5, <2>6, Rest DEF ledger
<1>11. CASE Reject(r)
  <2>1. PICK label \in {OnError(l.pc), "rest"} : Goto(r, label)
    BY <1>11 DEF Reject
  <2>2. l.pc # "rest" /\ failures' = failures + 1 /\ failures' \in Nat /\ UNCHANGED <<ledger, books, sync>>
    BY <1>11, <1>a DEF Reject, At, Fail
  <2>3. CASE l.pc \in Working
    <3>1. i \in DOMAIN withdrawal /\ w \in Withdrawals /\ Stage(l.pc, w)
      BY <1>c, <2>3
    <3>2. label \in Working \cup {"rest"} /\ (label # "rest" => Stage(label, w))
      BY <2>1, <3>1 DEF OnError, Working, Stage
    <3>3. [withdrawal EXCEPT ![i] = w] = withdrawal
      BY <1>a, <3>1, Same
    <3>4. /\ RequestsOK(request', [withdrawal EXCEPT ![i] = w])
          /\ BadBound(request', [withdrawal EXCEPT ![i] = w], failures')
      BY <2>1, <2>2, <2>3, <3>1, <3>2, GoesOn
    <3> QED
      BY <1>a, <2>2, <3>3, <3>4, Rest DEF ledger, books
  <2>4. CASE l.pc \notin Working
    <3>1. label = "rest"
      BY <2>1, <2>4 DEF OnError, Working
    <3>2. Become(r, Idle) /\ LocalOK(Idle, withdrawal) /\ Idle.id = 0
      BY <2>1, <3>1, IdleOK DEF Goto, Idle
    <3>3. RequestsOK(request', withdrawal) /\ BadBound(request', withdrawal, failures')
      BY <2>2, <2>4, <3>2, NoLedger
    <3> QED
      BY <1>a, <2>2, <3>3, Rest DEF ledger, books
  <2> QED
    BY <2>3, <2>4
<1> QED
  BY <1>1, <1>2, <1>3, <1>4, <1>5, <1>6, <1>7, <1>8, <1>9, <1>10, <1>11 DEF Withdraw

-----------------------------------------------------------------------------
LEMMA StepInit == Init => StepInv
<1> SUFFICES ASSUME Init PROVE StepInv
  OBVIOUS
<1>1. Balance \in Nat /\ IsFiniteSet(Requests)
  BY WithdrawalAssumption
<1>2. DOMAIN withdrawal = {} /\ withdrawal \in Seq(Withdrawals)
  BY DEF Init
<1>3. Bad(request, withdrawal) = {}
  BY <1>2 DEF Bad
<1>4. BadBound(request, withdrawal, failures)
  BY <1>3, FS_EmptySet DEF BadBound, Init
<1>5. RequestsOK(request, withdrawal)
  BY IdleOK DEF RequestsOK, Init, Idle
<1>6. /\ available \in Nat /\ recorded \in Int /\ replica \in Int /\ failures \in Nat
      /\ sync \in [pc : {"rest", "write"}, seen : Nat]
  BY <1>1 DEF Init, NoSync
<1> QED
  BY <1>2, <1>4, <1>5, <1>6 DEF StepInv

LEMMA StepNext == StepInv /\ [Next]_vars => StepInv'
<1> SUFFICES ASSUME StepInv, [Next]_vars PROVE StepInv'
  OBVIOUS
<1>1. CASE Replicate
  BY <1>1 DEF StepInv, Replicate, ledger
<1>2. CASE FetchBalances
  BY <1>2 DEF StepInv, FetchBalances, ledger, books
<1>3. CASE WriteBalances
  BY <1>3 DEF StepInv, WriteBalances, ledger, NoSync
<1>4. CASE \E r \in Requests : Withdraw(r)
  BY <1>4, StepsOfRequest
<1>5. CASE UNCHANGED vars
  BY <1>5 DEF StepInv, vars
<1> QED
  BY <1>1, <1>2, <1>3, <1>4, <1>5 DEF Next, Sync

\* Every request works on a withdrawal of its own that the ledger has stored, and the
\* account is never overdrawn, however requests overlap (TatumController 159-180).
THEOREM WithdrawalTypes == Spec => []TypeOK
<1>1. StepInv => TypeOK
  <2> SUFFICES ASSUME StepInv PROVE TypeOK
    OBVIOUS
  <2>1. \A r \in Requests : LocalOK(request[r], withdrawal)
    BY DEF StepInv, RequestsOK
  <2>2. \A r, s \in Requests : request[r].id # 0 /\ request[s].id = request[r].id => s = r
    BY DEF StepInv, RequestsOK
  <2>3. \A r \in Requests :
          /\ request[r].pc \in {"send", "complete", "cancel", "row", "fee", "fee row", "update"}
               => request[r].id \in DOMAIN withdrawal
          /\ request[r].pc \in {"rest", "check", "store"} => request[r].id = 0
    BY <2>1 DEF LocalOK, Working
  <2>4. /\ available \in Nat /\ withdrawal \in Seq(Withdrawals)
        /\ recorded \in Int /\ replica \in Int /\ sync.seen \in Nat /\ failures \in Nat
    BY DEF StepInv
  <2> QED
    BY <2>2, <2>3, <2>4 DEF TypeOK
<1> QED
  BY StepInit, StepNext, <1>1, PTL DEF Spec

\* No overlap of requests alone leaves a withdrawal half done: each one that nobody works
\* on and that is inconsistent has a failure of its own, however many there are
\* (TatumService 407-427, 480-514).
THEOREM StrandedNeedsAFailure == Spec => []StrandedPerFailure
<1>1. StepInv => StrandedPerFailure
  <2> SUFFICES ASSUME StepInv PROVE StrandedPerFailure
    OBVIOUS
  <2>1. Stranded \subseteq Bad(request, withdrawal)
    BY DEF Stranded, InFlight, Bad
  <2>2. IsFiniteSet(Bad(request, withdrawal)) /\ Cardinality(Bad(request, withdrawal)) \in Nat
    BY BadIsFinite DEF StepInv
  <2>3. IsFiniteSet(Stranded) /\ Cardinality(Stranded) <= Cardinality(Bad(request, withdrawal))
    BY <2>1, <2>2, FS_Subset
  <2>4. Cardinality(Stranded) \in Nat
    BY <2>3, FS_CardinalityType
  <2> QED
    BY <2>2, <2>3, <2>4 DEF StepInv, BadBound, StrandedPerFailure
<1> QED
  BY StepInit, StepNext, <1>1, PTL DEF Spec

-----------------------------------------------------------------------------
(* The balance in the database. *)

\* x is no less than what is left if n withdrawals had gone through.
Covers(x, n) == x + Amount * n >= Balance

\* The withdrawals whose fee is still in the account.  Each makes the ledger cover one
\* fee more than it must: the fee is taken later than the rest.
FeeDue(t) == {w \in DOMAIN t : t[w].fee = "none"}
LedgerCovers(x, t) == x + Amount * Len(t) >= Balance + Fee * Cardinality(FeeDue(t))

\* What a request will write, if it gets to, covers; one that has not stored its
\* withdrawal yet is going to take it off.
LocalCovers(l, n) ==
    /\ l.pc \in {"check", "store"} => Covers(l.seen, n)
    /\ l.pc \in Working => Covers(l.seen - Amount, n)

BooksInv ==
    /\ Covers(recorded, Len(withdrawal)) /\ Covers(replica, Len(withdrawal))
    /\ sync.pc = "write" => Covers(sync.seen, Len(withdrawal))
    /\ \A r \in Requests : LocalCovers(request[r], Len(withdrawal))
    /\ LedgerCovers(available, withdrawal)

LEMMA CoversLonger ==
  ASSUME NEW x \in Int, NEW n \in Nat, NEW m \in Nat, n <= m, Covers(x, n)
  PROVE  Covers(x, m)
<1>1. Amount \in Nat /\ Balance \in Nat
  BY WithdrawalAssumption
<1>2. Amount * n <= Amount * m
  BY <1>1
<1>3. Amount * n \in Int /\ Amount * m \in Int
  BY <1>1
<1> QED
  BY <1>1, <1>2, <1>3 DEF Covers

\* A withdrawal that is stored takes one amount more.
LEMMA CoversOneMore ==
  ASSUME NEW x \in Int, NEW n \in Nat
  PROVE  /\ Covers(x, n) => Covers(x - Amount, n + 1)
         /\ Amount * (n + 1) = Amount * n + Amount
<1>1. Amount \in Nat /\ Balance \in Nat
  BY WithdrawalAssumption
<1>2. Amount * (n + 1) = Amount * n + Amount
  BY <1>1
<1>3. Amount * n \in Int
  BY <1>1
<1> QED
  BY <1>1, <1>2, <1>3 DEF Covers

LEMMA FeeDueFinite ==
  ASSUME NEW t \in Seq(Withdrawals)
  PROVE  IsFiniteSet(FeeDue(t)) /\ Cardinality(FeeDue(t)) \in Nat
<1>1. DOMAIN t = 1..Len(t) /\ Len(t) \in Nat
  OBVIOUS
<1>2. IsFiniteSet(DOMAIN t)
  BY <1>1, FS_Interval
<1>3. FeeDue(t) \subseteq DOMAIN t
  BY DEF FeeDue
<1> QED
  BY <1>2, <1>3, FS_Subset, FS_CardinalityType

LEMMA LedgerCoversAll ==
  ASSUME NEW x \in Int, NEW t \in Seq(Withdrawals), LedgerCovers(x, t)
  PROVE  Covers(x, Len(t))
<1> DEFINE due == Cardinality(FeeDue(t))
<1>1. {Amount, Fee, Balance} \subseteq Nat /\ due \in Nat /\ Len(t) \in Nat
  BY WithdrawalAssumption, FeeDueFinite
<1>2. x + Amount * Len(t) >= Balance + Fee * due
  BY DEF LedgerCovers
<1> HIDE DEF due
<1>3. Fee * due \in Nat /\ Amount * Len(t) \in Nat
  BY <1>1
<1> QED
  BY <1>1, <1>2, <1>3 DEF Covers

\* A step of a request that leaves the database alone.
LEMMA BooksStep ==
  ASSUME StepInv, BooksInv, NEW r \in Requests, NEW local, Become(r, local),
         withdrawal' \in Seq(Withdrawals), Len(withdrawal) <= Len(withdrawal'),
         UNCHANGED <<books, sync>>,
         LocalCovers(local, Len(withdrawal')), LedgerCovers(available', withdrawal')
  PROVE  BooksInv'
<1> DEFINE n == Len(withdrawal)
           m == Len(withdrawal')
<1>1. n \in Nat /\ m \in Nat /\ n <= m
  BY DEF StepInv
<1>2. recorded \in Int /\ replica \in Int /\ sync.seen \in Int
  BY DEF StepInv
<1>3. DOMAIN request = Requests /\ \A s \in Requests : request[s].seen \in Int
  BY DEF StepInv, RequestsOK, LocalOK, Locals
<1>4. Amount \in Int
  BY WithdrawalAssumption
<1> HIDE DEF n, m
<1>5. ASSUME NEW s \in Requests, s # r PROVE LocalCovers(request'[s], m)
  <2>1. request'[s] = request[s] /\ LocalCovers(request[s], n)
    BY <1>3, <1>5 DEF Become, BooksInv, n
  <2>2. request[s].seen \in Int /\ request[s].seen - Amount \in Int
    BY <1>3, <1>4
  <2> QED
    BY <1>1, <2>1, <2>2, CoversLonger DEF LocalCovers
<1>6. \A s \in Requests : LocalCovers(request'[s], m)
  BY <1>3, <1>5 DEF Become, m
<1>7. Covers(recorded, m) /\ Covers(replica, m) /\ (sync.pc = "write" => Covers(sync.seen, m))
  BY <1>1, <1>2, CoversLonger DEF BooksInv, n
<1> QED
  BY <1>6, <1>7 DEF BooksInv, books, m

\* A request that works on a withdrawal goes on; what it read does not change.
LEMMA BooksGoOn ==
  ASSUME StepInv, BooksInv, NEW r \in Requests, request[r].pc \in Working,
         NEW label \in Working \cup {"rest"}, Goto(r, label),
         withdrawal' \in Seq(Withdrawals), Len(withdrawal') = Len(withdrawal),
         UNCHANGED <<books, sync>>, LedgerCovers(available', withdrawal')
  PROVE  BooksInv'
<1> DEFINE local == IF label = "rest" THEN Idle ELSE [request[r] EXCEPT !.pc = label]
<1>1. Become(r, local)
  BY DEF Goto
<1>2. LocalCovers(request[r], Len(withdrawal)) /\ request[r] \in Locals
  BY DEF BooksInv, StepInv, RequestsOK, LocalOK
<1>3. LocalCovers(local, Len(withdrawal))
  BY <1>2 DEF LocalCovers, Working, Idle, Locals
<1>4. Len(withdrawal) <= Len(withdrawal')
  BY DEF StepInv
<1> HIDE DEF local
<1> QED
  BY <1>1, <1>3, <1>4, BooksStep

\* The ledger after a change of one withdrawal that leaves its fee as due as it was.
LEMMA SameFees ==
  ASSUME NEW t \in Seq(Withdrawals), NEW i \in DOMAIN t, NEW m \in Withdrawals,
         m.fee = "none" <=> t[i].fee = "none"
  PROVE  FeeDue([t EXCEPT ![i] = m]) = FeeDue(t)
<1> DEFINE u == [t EXCEPT ![i] = m]
<1>1. DOMAIN u = DOMAIN t /\ u[i] = m /\ \A k \in DOMAIN u : k # i => u[k] = t[k]
  BY Replaced
<1> HIDE DEF u
<1>2. FeeDue(u) = FeeDue(t)
  BY <1>1 DEF FeeDue
<1> QED
  BY <1>2 DEF u

\* A working request changes its withdrawal, but not whether its fee is due, and
\* proceeds or gives up; the account may have got something back.
LEMMA BooksChange ==
  ASSUME StepInv, BooksInv, NEW r \in Requests, request[r].pc \in Working,
         NEW m \in Withdrawals, m.fee = "none" <=> withdrawal[request[r].id].fee = "none",
         withdrawal' = [withdrawal EXCEPT ![request[r].id] = m],
         available' \in Nat, available <= available',
         NEW label \in Working \cup {"rest"}, Goto(r, label), UNCHANGED <<books, sync>>
  PROVE  BooksInv'
<1> DEFINE i == request[r].id
           due == Cardinality(FeeDue(withdrawal))
           n == Len(withdrawal)
<1>1. i \in DOMAIN withdrawal /\ withdrawal \in Seq(Withdrawals) /\ available \in Nat
  BY HeldByOne DEF StepInv
<1>2. withdrawal' \in Seq(Withdrawals) /\ Len(withdrawal') = n
  BY <1>1, Replaced
<1>3. FeeDue(withdrawal') = FeeDue(withdrawal)
  BY <1>1, SameFees
<1>4. available + Amount * n >= Balance + Fee * due
  BY DEF BooksInv, LedgerCovers
<1>5. {Amount, Fee, Balance} \subseteq Nat /\ due \in Nat /\ n \in Nat
  BY <1>1, FeeDueFinite, WithdrawalAssumption
<1>6. available' + Amount * Len(withdrawal') >= Balance + Fee * Cardinality(FeeDue(withdrawal'))
  <2> DEFINE most == Amount * n
             fees == Fee * due
  <2>1. most \in Nat /\ fees \in Nat
    BY <1>5
  <2>2. available + most >= Balance + fees
    BY <1>4
  <2> HIDE DEF most, fees
  <2>3. available' + most >= Balance + fees
    BY <1>1, <1>5, <2>1, <2>2
  <2> QED
    BY <1>2, <1>3, <2>3 DEF due, most, fees
<1> QED
  BY <1>2, <1>6, BooksGoOn DEF LedgerCovers

\* The same of a call whose answer may be lost.
LEMMA BooksProceed ==
  ASSUME StepInv, BooksInv, NEW r \in Requests, request[r].pc \in Working,
         NEW m \in Withdrawals, m.fee = "none" <=> withdrawal[request[r].id].fee = "none",
         withdrawal' = [withdrawal EXCEPT ![request[r].id] = m],
         NEW label \in Working, Proceed(r, label), UNCHANGED <<available, books, sync>>
  PROVE  BooksInv'
<1>1. PICK next \in Working \cup {"rest"} : Goto(r, next)
  BY DEF Proceed, OnError, Working
<1>2. available' \in Nat /\ available <= available'
  BY DEF StepInv
<1> QED
  BY <1>1, <1>2, BooksChange

LEMMA BooksOfRequest ==
  ASSUME StepInv, BooksInv, NEW r \in Requests, Withdraw(r)
  PROVE  BooksInv'
<1> DEFINE l == request[r]
           i == l.id
           w == withdrawal[i]
           n == Len(withdrawal)
<1>a. /\ available \in Nat /\ withdrawal \in Seq(Withdrawals) /\ n \in Nat
      /\ recorded \in Int /\ replica \in Int
      /\ DOMAIN request = Requests /\ l \in Locals
      /\ LocalCovers(l, n) /\ LedgerCovers(available, withdrawal)
  BY DEF StepInv, RequestsOK, LocalOK, BooksInv
<1>b. {Amount, Fee, Balance} \subseteq Nat /\ Fee < Amount
  BY WithdrawalAssumption
<1>c. l.pc \in Working => /\ i \in DOMAIN withdrawal /\ w \in Withdrawals
                          /\ Stage(l.pc, w) /\ [withdrawal EXCEPT ![i] = w] = withdrawal
  BY <1>a, HeldByOne, Same
<1>d. ASSUME NEW local, Become(r, local), UNCHANGED <<ledger, books, sync>>, LocalCovers(local, n)
      PROVE  BooksInv'
  <2>1. withdrawal' \in Seq(Withdrawals) /\ Len(withdrawal) <= Len(withdrawal')
    BY <1>a, <1>d DEF ledger
  <2> QED
    BY <1>a, <1>d, <2>1, BooksStep DEF ledger
<1>e. LocalCovers(Idle, n)
  BY DEF LocalCovers, Idle, Working
<1>1. CASE ReceiveWithdraw(r)
  <2> DEFINE local == [pc |-> "check", id |-> 0, seen |-> Seen]
  <2>1. Become(r, local) /\ UNCHANGED <<ledger, books, sync>>
    BY <1>1 DEF ReceiveWithdraw
  <2>2. Covers(Seen, n)
    BY DEF Seen, BooksInv
  <2>3. LocalCovers(local, n)
    BY <2>2 DEF LocalCovers, Working
  <2> HIDE DEF local
  <2> QED
    BY <1>d, <2>1, <2>3
<1>2. CASE CheckBalance(r)
  <2>1. l.pc = "check" /\ UNCHANGED <<ledger, books, sync>>
    BY <1>2 DEF CheckBalance, At
  <2>2. CASE Become(r, Idle)
    BY <1>d, <1>e, <2>1, <2>2
  <2>3. CASE Become(r, [l EXCEPT !.pc = "store"])
    <3>1. LocalCovers([l EXCEPT !.pc = "store"], n)
      BY <1>a, <2>1 DEF LocalCovers, Locals, Working
    <3> QED
      BY <1>d, <2>1, <2>3, <3>1
  <2> QED
    BY <1>2, <2>2, <2>3 DEF CheckBalance, Goto
<1>3. CASE StoreWithdrawal(r)
  <2>1. l.pc = "store" /\ UNCHANGED <<books, sync>>
    BY <1>3 DEF StoreWithdrawal, At
  <2>2. CASE available < Amount - Fee
    BY <1>3, <1>a, <1>b, <1>d, <1>e, <2>1, <2>2 DEF StoreWithdrawal
  <2>3. CASE available >= Amount - Fee
    <3> DEFINE t == Append(withdrawal, NewWithdrawal)
               next == [l EXCEPT !.pc = "send", !.id = Len(t)]
               due == Cardinality(FeeDue(withdrawal))
    <3>1. /\ withdrawal' = t /\ available' = available - (Amount - Fee)
          /\ Become(r, next) \/ Become(r, Idle)
      BY <1>3, <1>a, <1>b, <2>3 DEF StoreWithdrawal
    <3>2. NewWithdrawal \in Withdrawals /\ NewWithdrawal.fee = "none"
      BY DEF NewWithdrawal, Withdrawals, Statuses, Fees
    <3>3. /\ t \in Seq(Withdrawals) /\ Len(t) = n + 1 /\ DOMAIN withdrawal \subseteq DOMAIN t
          /\ Len(t) \in DOMAIN t /\ Len(t) \notin DOMAIN withdrawal /\ t[Len(t)] = NewWithdrawal
          /\ \A k \in DOMAIN t : k # Len(t) => k \in DOMAIN withdrawal /\ t[k] = withdrawal[k]
      BY <1>a, <3>2, Appended
    <3>4. next.pc = "send" /\ next.seen = l.seen /\ l.seen \in Int
      BY <1>a DEF Locals
    <3> HIDE DEF t, next
    <3>5. FeeDue(t) = FeeDue(withdrawal) \cup {n + 1} /\ n + 1 \notin FeeDue(withdrawal)
      BY <3>2, <3>3 DEF FeeDue
    <3>6. Cardinality(FeeDue(t)) = due + 1 /\ due \in Nat
      BY <1>a, <3>5, FeeDueFinite, FS_AddElement
    <3>7. LocalCovers(next, n + 1) /\ LocalCovers(Idle, n + 1)
      <4>1. Covers(l.seen, n)
        BY <1>a, <2>1 DEF LocalCovers
      <4>2. Covers(l.seen - Amount, n + 1)
        BY <1>a, <3>4, <4>1, CoversOneMore
      <4> QED
        BY <3>4, <4>2 DEF LocalCovers, Idle, Working
    <3>8. LedgerCovers(available', t)
      <4> DEFINE most == Amount * n
                 fees == Fee * due
      <4>1. Amount * (n + 1) = most + Amount /\ Fee * (due + 1) = fees + Fee
        BY <1>a, <1>b, <3>6, CoversOneMore
      <4>2. most \in Nat /\ fees \in Nat /\ available + most >= Balance + fees
        BY <1>a, <1>b, <3>6 DEF LedgerCovers
      <4> HIDE DEF most, fees
      <4>3. available' + (most + Amount) >= Balance + (fees + Fee)
        BY <1>a, <1>b, <3>1, <4>2
      <4> QED
        BY <3>3, <3>6, <4>1, <4>3 DEF LedgerCovers
    <3>9. Len(withdrawal) <= Len(withdrawal')
      BY <1>a, <3>1, <3>3
    <3> QED
      BY <2>1, <3>1, <3>3, <3>7, <3>8, <3>9, BooksStep
  <2> QED
    BY <1>a, <1>b, <2>2, <2>3
<1>4. CASE SendToChain(r)
  <2> DEFINE m == [w EXCEPT !.sent = TRUE]
  <2>1. /\ l.pc \in Working /\ withdrawal' = [withdrawal EXCEPT ![i] = m]
        /\ Proceed(r, "complete") /\ UNCHANGED <<available, books, sync>>
    BY <1>4 DEF SendToChain, At, Mine, Working
  <2>2. m \in Withdrawals /\ m.fee = w.fee
    BY <1>c, <2>1 DEF Withdrawals
  <2> HIDE DEF m
  <2> QED
    BY <2>1, <2>2, BooksProceed DEF Working
<1>5. CASE CompleteWithdrawal(r)
  <2> DEFINE m == [w EXCEPT !.status = "completed"]
  <2>1. /\ l.pc \in Working /\ withdrawal' = [withdrawal EXCEPT ![i] = m]
        /\ Proceed(r, "row") /\ UNCHANGED <<available, books, sync>>
    BY <1>5 DEF CompleteWithdrawal, At, Mine, Working
  <2>2. m \in Withdrawals /\ m.fee = w.fee
    BY <1>c, <2>1 DEF Withdrawals, Statuses
  <2> HIDE DEF m
  <2> QED
    BY <2>1, <2>2, BooksProceed DEF Working
<1>6. CASE CancelWithdrawal(r)
  <2>1. l.pc \in Working /\ Goto(r, "rest") /\ UNCHANGED <<books, sync>>
    BY <1>6 DEF CancelWithdrawal, At, Goto, Working
  <2>2. CASE w.status = "stored"
    <3> DEFINE m == [w EXCEPT !.status = "cancelled"]
    <3>1. withdrawal' = [withdrawal EXCEPT ![i] = m] /\ available' = available + (Amount - Fee)
      BY <1>6, <2>2 DEF CancelWithdrawal, Mine
    <3>2. m \in Withdrawals /\ m.fee = w.fee
      BY <1>c, <2>1 DEF Withdrawals, Statuses
    <3>3. available' \in Nat /\ available <= available'
      BY <1>a, <1>b, <3>1
    <3> HIDE DEF m
    <3> QED
      BY <2>1, <3>1, <3>2, <3>3, BooksChange
  <2>3. CASE w.status # "stored"
    <3>1. UNCHANGED ledger
      BY <1>6, <2>3 DEF CancelWithdrawal, Mine
    <3> QED
      BY <1>d, <1>e, <2>1, <3>1 DEF Goto
  <2> QED
    BY <2>2, <2>3
<1>7. CASE SaveTransfer(r)
  <2> DEFINE m == [w EXCEPT !.row = TRUE]
  <2>1. /\ l.pc \in Working /\ withdrawal' = [withdrawal EXCEPT ![i] = m]
        /\ Proceed(r, IF SubCustodial THEN "fee" ELSE "update")
        /\ UNCHANGED <<available, books, sync>>
    BY <1>7 DEF SaveTransfer, At, Mine, Working
  <2>2. m \in Withdrawals /\ m.fee = w.fee
    BY <1>c, <2>1 DEF Withdrawals
  <2> HIDE DEF m
  <2>3. (IF SubCustodial THEN "fee" ELSE "update") \in Working
    BY DEF Working
  <2> QED
    BY <2>1, <2>2, <2>3, BooksProceed
<1>8. CASE TransferFee(r)
  <2>1. l.pc = "fee" /\ l.pc \in Working /\ UNCHANGED <<books, sync>>
    BY <1>8 DEF TransferFee, At, Working
  <2>2. CASE available >= Fee
    <3> DEFINE m == [w EXCEPT !.fee = "moved"]
               t == [withdrawal EXCEPT ![i] = m]
               due == Cardinality(FeeDue(withdrawal))
    <3>1. withdrawal' = t /\ available' = available - Fee /\ Proceed(r, "fee row")
      BY <1>8, <2>2 DEF TransferFee, Mine
    <3>2. m \in Withdrawals /\ m.fee = "moved" /\ w.fee = "none"
      BY <1>c, <2>1 DEF Withdrawals, Fees, Stage
    <3>3. PICK label \in Working \cup {"rest"} : Goto(r, label)
      BY <3>1 DEF Proceed, OnError, Working
    <3> HIDE DEF m
    <3>4. /\ t \in Seq(Withdrawals) /\ Len(t) = n /\ DOMAIN t = DOMAIN withdrawal
          /\ t[i] = m /\ \A k \in DOMAIN t : k # i => t[k] = withdrawal[k]
      BY <1>a, <1>c, <2>1, <3>2, Replaced
    <3> HIDE DEF t
    <3>5. FeeDue(t) = FeeDue(withdrawal) \ {i} /\ i \in FeeDue(withdrawal)
      BY <1>c, <2>1, <3>2, <3>4 DEF FeeDue
    <3>6. Cardinality(FeeDue(t)) = due - 1 /\ due \in Nat
      <4> DEFINE before == FeeDue(withdrawal)
      <4>1. IsFiniteSet(before) /\ due = Cardinality(before) /\ due \in Nat
        BY <1>a, FeeDueFinite
      <4> HIDE DEF before, due
      <4>2. Cardinality(before \ {i}) = IF i \in before THEN Cardinality(before) - 1 ELSE Cardinality(before)
        BY <4>1, FS_RemoveElement
      <4> QED
        BY <3>5, <4>1, <4>2 DEF before
    <3> HIDE DEF due
    <3>7. LedgerCovers(available', t)
      <4> DEFINE most == Amount * n
                 fees == Fee * due
      <4>1. Fee * (due - 1) = fees - Fee
        BY <1>b, <3>6
      <4>2. most \in Nat /\ fees \in Nat /\ available + most >= Balance + fees
        BY <1>a, <1>b, <3>6 DEF LedgerCovers, due
      <4> HIDE DEF most, fees
      <4>3. available' = available - Fee /\ available \in Nat
        BY <1>a, <3>1
      <4> HIDE DEF l, i, w, n
      <4>4. available' + most >= Balance + (fees - Fee)
        BY <1>b, <4>2, <4>3
      <4>5. Amount * Len(t) = most /\ Fee * Cardinality(FeeDue(t)) = fees - Fee
        BY <3>4, <3>6, <4>1 DEF most, n
      <4>6. available' + Amount * Len(t) >= Balance + Fee * Cardinality(FeeDue(t))
        BY <4>4, <4>5, Zenon
      <4> QED
        BY <4>6 DEF LedgerCovers
    <3> QED
      BY <2>1, <3>1, <3>3, <3>4, <3>7, BooksGoOn
  <2>3. CASE ~(available >= Fee)
    <3>1. Goto(r, "update") /\ UNCHANGED <<ledger, failures>>
      BY <1>8, <2>3 DEF TransferFee, OnError
    <3> QED
      BY <1>a, <2>1, <3>1, BooksGoOn DEF ledger, Working
  <2> QED
    BY <2>2, <2>3
<1>9. CASE SaveFee(r)
  <2> DEFINE m == [w EXCEPT !.fee = "recorded"]
  <2>1. /\ l.pc = "fee row" /\ l.pc \in Working /\ withdrawal' = [withdrawal EXCEPT ![i] = m]
        /\ Proceed(r, "update") /\ UNCHANGED <<available, books, sync>>
    BY <1>9 DEF SaveFee, At, Mine, Working
  <2>2. m \in Withdrawals /\ m.fee # "none" /\ w.fee # "none"
    BY <1>c, <2>1 DEF Withdrawals, Fees, Stage
  <2> HIDE DEF m
  <2> QED
    BY <2>1, <2>2, BooksProceed DEF Working
<1>10. CASE UpdateBalance(r)
  <2>1. /\ l.pc = "update" /\ recorded' = l.seen - Amount /\ Become(r, Idle)
        /\ UNCHANGED <<ledger, replica, sync, failures>>
    BY <1>10 DEF UpdateBalance, At
  <2>2. Covers(l.seen - Amount, n)
    BY <1>a, <2>1 DEF LocalCovers, Working
  <2>3. ASSUME NEW s \in Requests PROVE LocalCovers(request'[s], n)
    <3>1. request'[s] = IF s = r THEN Idle ELSE request[s]
      BY <1>a, <2>1 DEF Become
    <3> QED
      BY <1>e, <3>1 DEF BooksInv
  <2> QED
    BY <2>1, <2>2, <2>3 DEF BooksInv, ledger
<1>11. CASE Reject(r)
  <2>1. PICK label \in {OnError(l.pc), "rest"} : Goto(r, label)
    BY <1>11 DEF Reject
  <2>2. UNCHANGED <<ledger, books, sync>>
    BY <1>11 DEF Reject
  <2>3. CASE label = "rest"
    <3>1. Become(r, Idle)
      BY <2>1, <2>3 DEF Goto
    <3> QED
      BY <1>d, <1>e, <2>2, <3>1
  <2>4. CASE label # "rest"
    <3>1. l.pc \in Working /\ label \in Working
      BY <2>1, <2>4 DEF OnError, Working
    <3>2. withdrawal' = withdrawal /\ available' = available /\ UNCHANGED <<books, sync>>
      BY <2>2 DEF ledger
    <3> QED
      BY <1>a, <2>1, <3>1, <3>2, BooksGoOn
  <2> QED
    BY <2>3, <2>4
<1> QED
  BY <1>1, <1>2, <1>3, <1>4, <1>5, <1>6, <1>7, <1>8, <1>9, <1>10, <1>11 DEF Withdraw

LEMMA BooksInit == Init => BooksInv
<1> SUFFICES ASSUME Init PROVE BooksInv
  OBVIOUS
<1>1. {Amount, Fee, Balance} \subseteq Nat
  BY WithdrawalAssumption
<1>2. Len(withdrawal) = 0 /\ FeeDue(withdrawal) = {}
  BY DEF Init, FeeDue
<1>3. Covers(Balance, 0) /\ LedgerCovers(available, withdrawal)
  BY <1>1, <1>2, FS_EmptySet DEF Covers, LedgerCovers, Init
<1>4. \A r \in Requests : LocalCovers(request[r], 0)
  BY DEF Init, Idle, LocalCovers, Working
<1> QED
  BY <1>2, <1>3, <1>4 DEF BooksInv, Init, NoSync

LEMMA BooksNext == StepInv /\ BooksInv /\ [Next]_vars => BooksInv'
<1> SUFFICES ASSUME StepInv, BooksInv, [Next]_vars PROVE BooksInv'
  OBVIOUS
<1>1. CASE Replicate
  BY <1>1 DEF BooksInv, Replicate, ledger
<1>2. CASE FetchBalances
  <2>1. Covers(available, Len(withdrawal))
    BY LedgerCoversAll DEF StepInv, BooksInv
  <2> QED
    BY <1>2, <2>1 DEF BooksInv, FetchBalances, ledger, books
<1>3. CASE WriteBalances
  BY <1>3 DEF BooksInv, WriteBalances, ledger, NoSync
<1>4. CASE \E r \in Requests : Withdraw(r)
  BY <1>4, BooksOfRequest
<1>5. CASE UNCHANGED vars
  BY <1>5 DEF BooksInv, vars
<1> QED
  BY <1>1, <1>2, <1>3, <1>4, <1>5 DEF Next, Sync

\* However requests, their lost answers and the job overlap, and however late a balance is
\* written from an old read, the database never shows less than what is left if everything
\* stored had gone through (TatumController 176-180, fixTransfer 172-180).
THEOREM BalanceNotUnderstated == Spec => []NotUnderstated
<1>1. StepInv /\ BooksInv => NotUnderstated
  BY DEF BooksInv, Covers, NotUnderstated
<1> QED
  BY StepInit, StepNext, BooksInit, BooksNext, <1>1, PTL DEF Spec

-----------------------------------------------------------------------------
(* Money leaves only for an identified user.  The property speaks of       *)
(* applications, the gate reads a row on a replica that may be late,       *)
(* and rows are written by handlers from what they read before: so the     *)
(* invariant follows the verdicts from Acuant through the handlers and the *)
(* rows to the replica.                                                    *)

Verdicts == [of : Applicants, level : 1..2, state : {"R", "A", "D"}]
RowStatuses == {"PENDING", "APPROVED", "REJECTED"}
Rows == [of : Applicants, level : 1..2, app : Nat, status : RowStatuses]
Labels == {"rest", "find", "poll", "submit", "upsert", "status"}
Owners == Applicants \cup {0}
Reads == Rows \cup {<< >>}
KycStatuses == RowStatuses \cup {""}
Local == [pc : Labels, of : Owners, level : 0..2, row : Nat, read : Reads, app : Nat, status : KycStatuses]

\* An application of the user for the level was approved, by Acuant or, if it is among u, by a
\* webhook about it.
Good(v, u, a) == v[a].state = "A" \/ a \in u
ApprovedIn(v, u, of, level) ==
    \E a \in DOMAIN v : v[a].of = of /\ v[a].level = level /\ Good(v, u, a)

\* The application is one of the user for the level.
IsFor(v, app, of, level) == app \in DOMAIN v /\ v[app].of = of /\ v[app].level = level

\* A status that may be written for the user and level.
Honest(v, u, status, of, level) ==
    status \in RowStatuses /\ (status = "APPROVED" => ApprovedIn(v, u, of, level))

SoundRow(v, u, row) ==
    /\ row \in Rows
    /\ IsFor(v, row.app, row.of, row.level)
    /\ Honest(v, u, row.status, row.of, row.level)

\* Second levels are submitted after a first one was approved.
InOrder(v, u) ==
    \A b \in DOMAIN v :
        v[b].of \in Users /\ v[b].level = 2 =>
            \E a \in DOMAIN v : a < b /\ v[a].of = v[b].of /\ v[a].level = 1 /\ Good(v, u, a)

\* No row, or one of the user and level.
OwnRow(rows, i, of, level) == i \in DOMAIN rows /\ rows[i].of = of /\ rows[i].level = level

SoundHandler(v, u, rows, l) ==
    /\ l \in Local
    /\ l.pc # "rest" => l.of \in Applicants /\ l.level \in 1..2
    /\ l.pc \in {"find", "poll", "submit"} /\ l.of \in Users /\ l.level = 2 => ApprovedIn(v, u, l.of, 1)
    /\ l.pc = "find" => l.row = 0
    /\ l.pc \in {"poll", "status"} => OwnRow(rows, l.row, l.of, l.level)
    /\ l.pc \in {"submit", "upsert"} => l.row = 0 \/ OwnRow(rows, l.row, l.of, l.level)
    /\ l.pc = "poll" => l.read \in Rows /\ IsFor(v, l.read.app, l.of, l.level)
    /\ l.pc = "upsert" => IsFor(v, l.app, l.of, l.level)
    /\ l.pc \in {"upsert", "status"} => Honest(v, u, l.status, l.of, l.level)

KycInv ==
    /\ verdict \in Seq(Verdicts) /\ InOrder(verdict, unfounded)
    /\ record \in Seq(Rows) /\ recordReplica \in Seq(Rows)
    /\ \A i \in DOMAIN record : SoundRow(verdict, unfounded, record[i])
    /\ \A i \in DOMAIN recordReplica :
          SoundRow(verdict, unfounded, recordReplica[i]) /\ OwnRow(record, i, recordReplica[i].of, recordReplica[i].level)
    /\ DOMAIN handler = Handlers
    /\ \A h \in Handlers : SoundHandler(verdict, unfounded, record, handler[h])

IsIdentified(v, u) ==
    \E a, b \in DOMAIN v :
        /\ a < b
        /\ v[a].of = Owner /\ v[a].level = 1 /\ Good(v, u, a)
        /\ v[b].of = Owner /\ v[b].level = 2 /\ Good(v, u, b)

\* Who is past the gate has been identified.
GateInv ==
    withdrawal # << >> \/ (\E r \in Requests : request[r].pc # "rest") => IsIdentified(verdict, unfounded)

PayoutInv == KycInv /\ DOMAIN request = Requests /\ scenario.withdraws \subseteq Requests /\ GateInv

-----------------------------------------------------------------------------
(* What Acuant or a webhook said is not taken back. *)

\* v grows into w, u into x: applications are added, verdicts are given, none is changed.
Grows(v, u, w, x) ==
    /\ DOMAIN v \subseteq DOMAIN w /\ u \subseteq x
    /\ \A a \in DOMAIN v :
          /\ w[a].of = v[a].of /\ w[a].level = v[a].level
          /\ v[a].state = "A" => w[a].state = "A"

LEMMA FactsStay ==
    ASSUME NEW v, NEW u, NEW w, NEW x, Grows(v, u, w, x)
    PROVE  /\ \A of, level : ApprovedIn(v, u, of, level) => ApprovedIn(w, x, of, level)
           /\ \A app, of, level : IsFor(v, app, of, level) => IsFor(w, app, of, level)
           /\ \A status, of, level : Honest(v, u, status, of, level) => Honest(w, x, status, of, level)
           /\ \A row : SoundRow(v, u, row) => SoundRow(w, x, row)
           /\ \A rows, l : SoundHandler(v, u, rows, l) => SoundHandler(w, x, rows, l)
           /\ IsIdentified(v, u) => IsIdentified(w, x)
           /\ DOMAIN v = DOMAIN w /\ InOrder(v, u) => InOrder(w, x)
<1>0. \A a \in DOMAIN v : Good(v, u, a) => Good(w, x, a)
  BY DEF Grows, Good
<1>1. \A of, level : ApprovedIn(v, u, of, level) => ApprovedIn(w, x, of, level)
  BY <1>0 DEF Grows, ApprovedIn
<1>2. \A app, of, level : IsFor(v, app, of, level) => IsFor(w, app, of, level)
  BY DEF Grows, IsFor
<1>3. \A status, of, level : Honest(v, u, status, of, level) => Honest(w, x, status, of, level)
  BY <1>1 DEF Honest
<1>4. \A row : SoundRow(v, u, row) => SoundRow(w, x, row)
  BY <1>2, <1>3 DEF SoundRow
<1>5. \A rows, l : SoundHandler(v, u, rows, l) => SoundHandler(w, x, rows, l)
  BY <1>1, <1>2, <1>3 DEF SoundHandler
<1>6. IsIdentified(v, u) => IsIdentified(w, x)
  BY <1>0 DEF Grows, IsIdentified
<1>7. DOMAIN v = DOMAIN w /\ InOrder(v, u) => InOrder(w, x)
  BY <1>0 DEF Grows, InOrder
<1> QED
  BY <1>1, <1>2, <1>3, <1>4, <1>5, <1>6, <1>7

\* Rows keep their user and level, so a handler's row stays its own.
LEMMA OwnRowsStay ==
    ASSUME NEW v, NEW u, NEW rows, NEW later,
           \A i \in DOMAIN rows : OwnRow(later, i, rows[i].of, rows[i].level)
    PROVE  /\ \A i, of, level : OwnRow(rows, i, of, level) => OwnRow(later, i, of, level)
           /\ \A l : SoundHandler(v, u, rows, l) => SoundHandler(v, u, later, l)
<1>1. \A i, of, level : OwnRow(rows, i, of, level) => OwnRow(later, i, of, level)
  BY DEF OwnRow
<1>2. \A l : SoundHandler(v, u, rows, l) => SoundHandler(v, u, later, l)
  BY <1>1 DEF SoundHandler
<1>3. QED
  BY <1>1, <1>2

LEMMA RestIsLocal == Resting \in Local /\ Resting.row = 0
BY DEF Resting, Local, Labels, Owners, Reads, KycStatuses

LEMMA RestIsSound == ASSUME NEW v, NEW u, NEW rows PROVE SoundHandler(v, u, rows, Resting)
BY RestIsLocal DEF SoundHandler, Resting

\* A step of one handler that leaves the tables alone.
LEMMA HandlerMoves ==
    ASSUME KycInv, NEW h \in Handlers, NEW local, SoundHandler(verdict, unfounded', record, local),
           Handle(h, local), UNCHANGED <<verdict, record, recordReplica>>, unfounded \subseteq unfounded'
    PROVE  KycInv'
<1>1. Grows(verdict, unfounded, verdict, unfounded')
  BY DEF Grows
<1>2. DOMAIN handler' = Handlers /\ \A g \in Handlers : SoundHandler(verdict, unfounded', record, handler'[g])
  BY <1>1, FactsStay DEF KycInv, Handle
<1>3. /\ InOrder(verdict, unfounded')
      /\ \A i \in DOMAIN record : SoundRow(verdict, unfounded', record[i])
      /\ \A i \in DOMAIN recordReplica : SoundRow(verdict, unfounded', recordReplica[i])
  BY <1>1, FactsStay DEF KycInv
<1> QED
  BY <1>2, <1>3 DEF KycInv

-----------------------------------------------------------------------------
(* Every step of Kyc preserves the invariant and lets the verdicts grow. *)

Unchanged == UNCHANGED <<verdict, record, recordReplica, unfounded>>

LEMMA GrowsWhenUnchanged == ASSUME NEW v, NEW u PROVE Grows(v, u, v, u)
BY DEF Grows

\* What the gate sees on the replica is true.
LEMMA GateIsHonest ==
    ASSUME KycInv, NEW of, NEW level, MaybeApproved(of, level)
    PROVE  ApprovedIn(verdict, unfounded, of, level)
<1>1. PICK i \in RowsOf(recordReplica, of, level) : recordReplica[i].status = "APPROVED"
  BY DEF MaybeApproved
<1>2. i \in DOMAIN recordReplica /\ recordReplica[i].of = of /\ recordReplica[i].level = level
  BY DEF RowsOf
<1>3. SoundRow(verdict, unfounded, recordReplica[i])
  BY <1>2 DEF KycInv
<1>4. QED
  BY <1>1, <1>2, <1>3 DEF SoundRow, Honest

LEMMA VerifyKeepsInv == ASSUME KycInv, NEW h \in Handlers, VerifyKyc(h) PROVE KycInv' /\ Unchanged
<1>1. PICK of \in Applicants, level \in 1..2 :
        /\ of \in Users /\ level = 2 => MaybeApproved(of, 1)
        /\ Handle(h, [Resting EXCEPT !.pc = "find", !.of = of, !.level = level])
  BY DEF VerifyKyc
<1> DEFINE local == [Resting EXCEPT !.pc = "find", !.of = of, !.level = level]
<1>2. of \in Users /\ level = 2 => ApprovedIn(verdict, unfounded, of, 1)
  BY <1>1, GateIsHonest
<1>3. SoundHandler(verdict, unfounded, record, local)
  <2>1. local \in Local
    <3>1. "find" \in Labels /\ of \in Owners /\ level \in 0..2
      BY DEF Labels, Owners
    <3>2. QED
      BY <3>1, RestIsLocal DEF Local
  <2>2. local.pc = "find" /\ local.of = of /\ local.level = level /\ local.row = 0
    BY RestIsLocal DEF Local
  <2>3. QED
    BY <1>2, <2>1, <2>2 DEF SoundHandler
<1>4. UNCHANGED <<verdict, record, recordReplica, unfounded>>
  BY DEF VerifyKyc
<1>5. QED
  BY <1>1, <1>3, <1>4, HandlerMoves DEF Unchanged

LEMMA FindKeepsInv == ASSUME KycInv, NEW h \in Handlers, FindKycApplication(h) PROVE KycInv' /\ Unchanged
<1> DEFINE l == handler[h]
<1>1. UNCHANGED <<verdict, record, recordReplica, unfounded>>
  BY DEF FindKycApplication
<1>2. l.pc = "find" /\ SoundHandler(verdict, unfounded, record, l)
  BY DEF FindKycApplication, HandlerAt, KycInv
<1>3. CASE Handle(h, [l EXCEPT !.pc = "submit"]) /\ RowsOf(recordReplica, l.of, l.level) = {}
  <2>1. SoundHandler(verdict, unfounded, record, [l EXCEPT !.pc = "submit"])
    BY <1>2 DEF SoundHandler, Local, Labels
  <2>2. QED
    BY <1>1, <1>3, <2>1, HandlerMoves DEF Unchanged
<1>4. CASE \E i \in RowsOf(recordReplica, l.of, l.level) :
              LET found == [l EXCEPT !.row = i, !.read = recordReplica[i]]
              IN  Handle(h, Resting) \/ Handle(h, [found EXCEPT !.pc = "poll"])
                  \/ Handle(h, [found EXCEPT !.pc = "submit"])
  <2>1. PICK i \in RowsOf(recordReplica, l.of, l.level) :
              LET found == [l EXCEPT !.row = i, !.read = recordReplica[i]]
              IN  Handle(h, Resting) \/ Handle(h, [found EXCEPT !.pc = "poll"])
                  \/ Handle(h, [found EXCEPT !.pc = "submit"])
    BY <1>4
  <2> DEFINE found == [l EXCEPT !.row = i, !.read = recordReplica[i]]
  <2>2. /\ i \in DOMAIN recordReplica /\ recordReplica[i].of = l.of /\ recordReplica[i].level = l.level
        /\ SoundRow(verdict, unfounded, recordReplica[i]) /\ OwnRow(record, i, l.of, l.level)
    BY DEF RowsOf, KycInv
  <2>3. i \in Nat
    BY <2>2 DEF KycInv
  <2>4. SoundHandler(verdict, unfounded, record, [found EXCEPT !.pc = "poll"])
    BY <1>2, <2>2, <2>3 DEF SoundHandler, Local, SoundRow, Labels, Reads
  <2>5. SoundHandler(verdict, unfounded, record, [found EXCEPT !.pc = "submit"])
    BY <1>2, <2>2, <2>3 DEF SoundHandler, Local, SoundRow, Labels, Reads
  <2>6. QED
    BY <1>1, <2>1, <2>4, <2>5, RestIsSound, HandlerMoves DEF Unchanged
<1>5. QED
  BY <1>3, <1>4 DEF FindKycApplication

LEMMA PollKeepsInv == ASSUME KycInv, NEW h \in Handlers, PollAcuant(h) PROVE KycInv' /\ Unchanged
<1> DEFINE l == handler[h]
           status == ApplicationStatus(verdict[l.read.app].state)
<1>1. UNCHANGED <<verdict, record, recordReplica, unfounded>>
  BY DEF PollAcuant
<1>2. l.pc = "poll" /\ SoundHandler(verdict, unfounded, record, l)
  BY DEF PollAcuant, HandlerAt, KycInv
<1>3. IsFor(verdict, l.read.app, l.of, l.level)
  BY <1>2 DEF SoundHandler
<1>4. Honest(verdict, unfounded, status, l.of, l.level)
  BY <1>3 DEF IsFor, Honest, ApprovedIn, Good, ApplicationStatus, RowStatuses
<1>5. SoundHandler(verdict, unfounded, record, [l EXCEPT !.pc = "status", !.status = status])
  BY <1>2, <1>4 DEF SoundHandler, Local, Honest, Labels, KycStatuses
<1>6. QED
  BY <1>1, <1>5, RestIsSound, HandlerMoves DEF Unchanged, PollAcuant

LEMMA AboutToWrite ==
    ASSUME NEW of \in Owners, NEW level \in 0..2, NEW row \in Nat, NEW seen \in Reads, NEW status \in KycStatuses
    PROVE  [Resting EXCEPT !.pc = "status", !.of = of, !.level = level, !.row = row, !.read = seen,
                           !.status = status] \in Local
<1>1. "status" \in Labels
  BY DEF Labels
<1>2. QED
  BY <1>1, RestIsLocal DEF Local

\* What a webhook says, and of what row.
Hears(h, a, i, state) ==
    /\ recordReplica[i].app = a
    /\ state # "R"
    /\ Handle(h, [Resting EXCEPT !.pc = "status", !.of = recordReplica[i].of,
                  !.level = recordReplica[i].level, !.row = i, !.read = recordReplica[i],
                  !.status = ApplicationStatus(state)])
    /\ CountOverlap(h, recordReplica[i].of, recordReplica[i].level)
    /\ a \in unfounded' \/ state = verdict[a].state
    /\ unfounded \subseteq unfounded'
    /\ UNCHANGED <<verdict, record, recordReplica>> /\ HandlerAt(h, "rest")

LEMMA WebhookHears ==
    ASSUME NEW h \in Handlers, KycWebhook(h)
    PROVE  \E a \in DOMAIN verdict, i \in DOMAIN recordReplica, state \in {"R", "A", "D"} :
               Hears(h, a, i, state)
<1>1. PICK a \in DOMAIN verdict, i \in DOMAIN recordReplica, state \in {"R", "A", "D"} :
          recordReplica[i].app = a /\ Notify(h, a, i, state)
  BY DEF KycWebhook
<1>2. state # "R"
  BY <1>1 DEF Notify, ApplicationStatus
<1> QED
  BY <1>1, <1>2 DEF Hears, Notify

LEMMA WebhookKeepsInv ==
    ASSUME KycInv, NEW h \in Handlers, KycWebhook(h)
    PROVE  KycInv' /\ Grows(verdict, unfounded, verdict', unfounded')
<1>2. PICK a \in DOMAIN verdict, i \in DOMAIN recordReplica, state \in {"R", "A", "D"} : Hears(h, a, i, state)
  BY WebhookHears
<1>1. UNCHANGED <<verdict, record, recordReplica>> /\ unfounded \subseteq unfounded'
  BY <1>2 DEF Hears
<1> DEFINE read == recordReplica[i]
           status == ApplicationStatus(state)
<1>3. SoundRow(verdict, unfounded, read) /\ OwnRow(record, i, read.of, read.level) /\ i \in Nat
  BY DEF KycInv
<1>4. Honest(verdict, unfounded', status, read.of, read.level)
  BY <1>2, <1>3 DEF Hears, SoundRow, IsFor, Honest, ApprovedIn, Good, ApplicationStatus, RowStatuses
<1> DEFINE local == [Resting EXCEPT !.pc = "status", !.of = read.of, !.level = read.level,
                                    !.row = i, !.read = read, !.status = status]
<1>5. SoundHandler(verdict, unfounded', record, local)
  <2>1. read \in Rows /\ status \in RowStatuses
    BY <1>3, <1>4 DEF SoundRow, Honest
  <2>2. read.of \in Applicants /\ read.level \in 1..2
    BY <2>1 DEF Rows
  <2> HIDE DEF read, status
  <2>3. local \in Local
    <3>1. read.of \in Owners /\ read.level \in 0..2
      BY <2>2 DEF Owners
    <3>2. read \in Reads
      BY <2>1 DEF Reads
    <3>3. status \in KycStatuses
      BY <2>1 DEF KycStatuses
    <3>4. QED
      BY <1>3, <3>1, <3>2, <3>3, AboutToWrite
  <2>4. /\ local.pc = "status" /\ local.of = read.of /\ local.level = read.level
        /\ local.row = i /\ local.status = status
    BY RestIsLocal DEF Local
  <2>5. QED
    BY <1>3, <1>4, <2>2, <2>3, <2>4 DEF SoundHandler
<1>6. Grows(verdict, unfounded, verdict', unfounded')
  BY <1>1 DEF Grows
<1> QED
  BY <1>1, <1>2, <1>5, <1>6, HandlerMoves DEF Hears

LEMMA SubmitKeepsInv ==
    ASSUME KycInv, NEW h \in Handlers, SubmitApplication(h)
    PROVE  KycInv' /\ Grows(verdict, unfounded, verdict', unfounded')
<1> DEFINE l == handler[h]
           n == Len(verdict) + 1
<1>1. PICK state \in {"R", "A", "D"} :
        /\ verdict' = Append(verdict, [of |-> l.of, level |-> l.level, state |-> state])
        /\ Handle(h, [l EXCEPT !.pc = "upsert", !.app = Len(verdict) + 1, !.status = ApplicationStatus(state)])
  BY DEF SubmitApplication
<1>2. UNCHANGED <<record, recordReplica, unfounded>>
  BY DEF SubmitApplication
<1>3. l.pc = "submit" /\ SoundHandler(verdict, unfounded, record, l)
  BY DEF SubmitApplication, HandlerAt, KycInv
<1>4. l.of \in Applicants /\ l.level \in 1..2
  BY <1>3 DEF SoundHandler
<1> DEFINE new == [of |-> l.of, level |-> l.level, state |-> state]
<1>5. new \in Verdicts
  BY <1>4 DEF Verdicts
<1> HIDE DEF new
<1>6. /\ verdict' \in Seq(Verdicts) /\ DOMAIN verdict' = DOMAIN verdict \cup {n}
      /\ \A a \in DOMAIN verdict : verdict'[a] = verdict[a] /\ a < n
      /\ verdict'[n] = new /\ n \in Nat /\ n \notin DOMAIN verdict
  BY <1>1, <1>5 DEF KycInv, new
<1>7. Grows(verdict, unfounded, verdict', unfounded')
  BY <1>2, <1>6 DEF Grows
<1>8. new.of = l.of /\ new.level = l.level /\ new.state = state
  BY DEF new
<1>9. InOrder(verdict', unfounded')
  <2> SUFFICES ASSUME NEW b \in DOMAIN verdict', verdict'[b].of \in Users, verdict'[b].level = 2
               PROVE  \E a \in DOMAIN verdict' : a < b /\ verdict'[a].of = verdict'[b].of
                            /\ verdict'[a].level = 1 /\ Good(verdict', unfounded', a)
    BY DEF InOrder
  <2>1. CASE b \in DOMAIN verdict
    BY <1>2, <1>6, <2>1 DEF KycInv, InOrder, Good
  <2>2. CASE b = n
    <3>1. ApprovedIn(verdict, unfounded, l.of, 1)
      BY <1>3, <1>6, <1>8, <2>2 DEF SoundHandler
    <3>2. QED
      BY <1>2, <1>6, <1>8, <2>2, <3>1 DEF ApprovedIn, Good
  <2>3. QED
    BY <1>6, <2>1, <2>2
<1> DEFINE local == [l EXCEPT !.pc = "upsert", !.app = n, !.status = ApplicationStatus(state)]
<1>10. SoundHandler(verdict', unfounded', record, local)
  <2>1. IsFor(verdict', n, l.of, l.level)
    BY <1>6, <1>8 DEF IsFor
  <2>2. ApplicationStatus(state) \in RowStatuses
    BY DEF ApplicationStatus, RowStatuses
  <2>3. Honest(verdict', unfounded', ApplicationStatus(state), l.of, l.level)
    BY <1>6, <1>8, <2>2 DEF Honest, ApprovedIn, Good, ApplicationStatus
  <2>4. "upsert" \in Labels /\ ApplicationStatus(state) \in KycStatuses
    BY <2>2 DEF Labels, KycStatuses
  <2>5. local \in Local
    BY <1>3, <1>6, <2>4 DEF SoundHandler, Local
  <2>6. /\ local.pc = "upsert" /\ local.of = l.of /\ local.level = l.level /\ local.row = l.row
        /\ local.app = n /\ local.status = ApplicationStatus(state)
    BY <1>3 DEF SoundHandler, Local
  <2>7. QED
    BY <1>3, <1>4, <2>1, <2>3, <2>5, <2>6 DEF SoundHandler
<1>11. DOMAIN handler' = Handlers /\ \A g \in Handlers : SoundHandler(verdict', unfounded', record, handler'[g])
  BY <1>1, <1>7, <1>10, FactsStay DEF KycInv, Handle
<1>12. /\ \A i \in DOMAIN record : SoundRow(verdict', unfounded', record[i])
       /\ \A i \in DOMAIN recordReplica : SoundRow(verdict', unfounded', recordReplica[i])
  BY <1>7, FactsStay DEF KycInv
<1>13. KycInv'
  BY <1>2, <1>6, <1>9, <1>11, <1>12 DEF KycInv
<1>14. QED
  BY <1>7, <1>13

\* A handler writes a row and is done.
LEMMA RecordsMove ==
    ASSUME KycInv, NEW h \in Handlers, Handle(h, Resting), UNCHANGED <<verdict, recordReplica, unfounded>>,
           record' \in Seq(Rows),
           \A i \in DOMAIN record' : SoundRow(verdict, unfounded, record'[i]),
           \A i \in DOMAIN record : OwnRow(record', i, record[i].of, record[i].level)
    PROVE  KycInv' /\ Grows(verdict, unfounded, verdict', unfounded')
<1>1. DOMAIN handler' = Handlers /\ \A g \in Handlers : SoundHandler(verdict, unfounded, record', handler'[g])
  BY RestIsSound, OwnRowsStay DEF KycInv, Handle
<1>2. \A i \in DOMAIN recordReplica :
         OwnRow(record', i, recordReplica[i].of, recordReplica[i].level)
  BY OwnRowsStay DEF KycInv
<1>3. KycInv'
  BY <1>1, <1>2 DEF KycInv
<1>4. QED
  BY <1>3, GrowsWhenUnchanged

LEMMA UpsertKeepsInv ==
    ASSUME KycInv, NEW h \in Handlers, Upsert(h)
    PROVE  KycInv' /\ Grows(verdict, unfounded, verdict', unfounded')
<1> DEFINE l == handler[h]
           row == [of |-> l.of, level |-> l.level, app |-> l.app, status |-> l.status]
<1>1. /\ record' = IF l.row = 0 THEN Append(record, row) ELSE [record EXCEPT ![l.row] = row]
      /\ Handle(h, Resting) /\ UNCHANGED <<verdict, recordReplica, unfounded>>
  BY DEF Upsert
<1>2. l.pc = "upsert" /\ SoundHandler(verdict, unfounded, record, l)
  BY DEF Upsert, HandlerAt, KycInv
<1>3. /\ l.row = 0 \/ OwnRow(record, l.row, l.of, l.level)
      /\ IsFor(verdict, l.app, l.of, l.level) /\ Honest(verdict, unfounded, l.status, l.of, l.level)
      /\ l.of \in Applicants /\ l.level \in 1..2 /\ l.app \in Nat
  BY <1>2 DEF SoundHandler, Local
<1>4. row \in Rows
  BY <1>3 DEF Rows, Honest
<1>5. row.of = l.of /\ row.level = l.level /\ SoundRow(verdict, unfounded, row)
  BY <1>3, <1>4 DEF SoundRow
<1> HIDE DEF row
<1>6. CASE l.row = 0
  <2>1. /\ record' \in Seq(Rows) /\ DOMAIN record' = DOMAIN record \cup {Len(record) + 1}
        /\ \A i \in DOMAIN record : record'[i] = record[i]
        /\ record'[Len(record) + 1] = row
    BY <1>1, <1>4, <1>6 DEF KycInv
  <2>2. QED
    BY <1>1, <1>5, <2>1, RecordsMove DEF KycInv, OwnRow
<1>7. CASE l.row # 0
  <2>1. /\ record' \in Seq(Rows) /\ DOMAIN record' = DOMAIN record
        /\ \A i \in DOMAIN record : record'[i] = IF i = l.row THEN row ELSE record[i]
    BY <1>1, <1>3, <1>4, <1>7 DEF KycInv, OwnRow
  <2>2. QED
    BY <1>1, <1>3, <1>5, <1>7, <2>1, RecordsMove DEF KycInv, OwnRow
<1>8. QED
  BY <1>6, <1>7

LEMMA UpdateKeepsInv ==
    ASSUME KycInv, NEW h \in Handlers, UpdateStatus(h)
    PROVE  KycInv' /\ Grows(verdict, unfounded, verdict', unfounded')
<1> DEFINE l == handler[h]
           row == [record[l.row] EXCEPT !.status = l.status]
<1>1. /\ record' = [record EXCEPT ![l.row] = row]
      /\ Handle(h, Resting) /\ UNCHANGED <<verdict, recordReplica, unfounded>>
  BY DEF UpdateStatus
<1>2. l.pc = "status" /\ SoundHandler(verdict, unfounded, record, l)
  BY DEF UpdateStatus, HandlerAt, KycInv
<1>3. OwnRow(record, l.row, l.of, l.level) /\ Honest(verdict, unfounded, l.status, l.of, l.level)
  BY <1>2 DEF SoundHandler
<1>4. l.row \in DOMAIN record /\ SoundRow(verdict, unfounded, record[l.row])
  BY <1>3 DEF OwnRow, KycInv
<1>5. row \in Rows /\ row.of = l.of /\ row.level = l.level /\ row.app = record[l.row].app
      /\ row.status = l.status
  BY <1>3, <1>4 DEF SoundRow, Rows, Honest, OwnRow
<1>6. SoundRow(verdict, unfounded, row)
  BY <1>3, <1>4, <1>5 DEF SoundRow, OwnRow
<1> HIDE DEF row
<1>7. /\ record' \in Seq(Rows) /\ DOMAIN record' = DOMAIN record
      /\ \A i \in DOMAIN record : record'[i] = IF i = l.row THEN row ELSE record[i]
  BY <1>1, <1>4, <1>5 DEF KycInv
<1>8. QED
  BY <1>1, <1>3, <1>5, <1>6, <1>7, RecordsMove DEF KycInv, OwnRow

LEMMA DecideKeepsInv == ASSUME KycInv, Decide PROVE KycInv' /\ Grows(verdict, unfounded, verdict', unfounded')
<1>1. UNCHANGED <<record, recordReplica, handler, unfounded>>
  BY DEF Decide
<1>2. PICK a \in DOMAIN verdict, state \in {"A", "D"} :
        verdict[a].state = "R" /\ verdict' = [verdict EXCEPT ![a].state = state]
  BY DEF Decide
<1>3. /\ verdict' \in Seq(Verdicts) /\ DOMAIN verdict' = DOMAIN verdict
      /\ \A b \in DOMAIN verdict :
            /\ verdict'[b].of = verdict[b].of /\ verdict'[b].level = verdict[b].level
            /\ verdict[b].state = "A" => verdict'[b].state = "A"
  <2> DEFINE decided == [verdict[a] EXCEPT !.state = state]
  <2>1. verdict[a] \in Verdicts
    BY DEF KycInv
  <2>2. decided \in Verdicts /\ decided.of = verdict[a].of /\ decided.level = verdict[a].level
    BY <2>1 DEF Verdicts
  <2> HIDE DEF decided
  <2>3. verdict' = [verdict EXCEPT ![a] = decided]
    BY <1>2 DEF decided
  <2>4. /\ verdict' \in Seq(Verdicts) /\ DOMAIN verdict' = DOMAIN verdict
        /\ \A b \in DOMAIN verdict : verdict'[b] = IF b = a THEN decided ELSE verdict[b]
    BY <2>2, <2>3 DEF KycInv
  <2>5. QED
    BY <1>2, <2>2, <2>4
<1>4. Grows(verdict, unfounded, verdict', unfounded')
  BY <1>1, <1>3 DEF Grows
<1>5. InOrder(verdict', unfounded')
  BY <1>3, <1>4, FactsStay DEF KycInv
<1>6. /\ \A i \in DOMAIN record : SoundRow(verdict', unfounded', record[i])
      /\ \A i \in DOMAIN recordReplica : SoundRow(verdict', unfounded', recordReplica[i])
      /\ \A g \in Handlers : SoundHandler(verdict', unfounded', record, handler[g])
  BY <1>4, FactsStay DEF KycInv
<1>7. KycInv'
  BY <1>1, <1>3, <1>5, <1>6 DEF KycInv
<1>8. QED
  BY <1>4, <1>7

LEMMA KycStepKeepsInv == ASSUME KycInv, KycNext PROVE KycInv' /\ Grows(verdict, unfounded, verdict', unfounded')
<1>1. ASSUME NEW h \in Handlers,
             VerifyKyc(h) \/ FindKycApplication(h) \/ PollAcuant(h)
      PROVE  KycInv' /\ Grows(verdict, unfounded, verdict', unfounded')
  <2>1. KycInv' /\ Unchanged
    BY <1>1, VerifyKeepsInv, FindKeepsInv, PollKeepsInv
  <2>2. verdict' = verdict /\ unfounded' = unfounded
    BY <2>1 DEF Unchanged
  <2>3. QED
    BY <2>1, <2>2, GrowsWhenUnchanged
<1>2. ASSUME NEW h \in Handlers, Abandon(h) PROVE KycInv' /\ Grows(verdict, unfounded, verdict', unfounded')
  <2>1. Handle(h, Resting) /\ UNCHANGED <<verdict, record, recordReplica, unfounded>>
    BY <1>2 DEF Abandon
  <2>2. SoundHandler(verdict, unfounded, record, Resting)
    BY RestIsSound
  <2>3. KycInv'
    BY <2>1, <2>2, HandlerMoves
  <2>4. QED
    BY <2>1, <2>3, GrowsWhenUnchanged
<1>3. ASSUME ReplicateRecords PROVE KycInv' /\ Grows(verdict, unfounded, verdict', unfounded')
  <2>1. KycInv'
    BY <1>3 DEF ReplicateRecords, KycInv, OwnRow
  <2>2. QED
    BY <1>3, <2>1, GrowsWhenUnchanged DEF ReplicateRecords
<1>4. QED
  BY <1>1, <1>2, <1>3, WebhookKeepsInv, SubmitKeepsInv, UpsertKeepsInv, UpdateKeepsInv, DecideKeepsInv DEF KycNext

-----------------------------------------------------------------------------
(* The gate and the withdrawals. *)

\* An approved second level has an approved first one before it.
LEMMA ApprovedIsIdentified ==
    ASSUME KycInv, ApprovedIn(verdict, unfounded, Owner, 2)
    PROVE  IsIdentified(verdict, unfounded)
<1>1. PICK b \in DOMAIN verdict : verdict[b].of = Owner /\ verdict[b].level = 2 /\ Good(verdict, unfounded, b)
  BY DEF ApprovedIn
<1>2. PICK a \in DOMAIN verdict : a < b /\ verdict[a].of = Owner /\ verdict[a].level = 1
                                 /\ Good(verdict, unfounded, a)
  BY <1>1, PayoutAssumption DEF KycInv, InOrder
<1>3. QED
  BY <1>1, <1>2 DEF IsIdentified

LEMMA WithdrawKeepsDomain ==
    ASSUME DOMAIN request = Requests, NEW r \in Requests, Withdraw(r)
    PROVE  DOMAIN request' = Requests
BY DEF Withdraw, ReceiveWithdraw, CheckBalance, StoreWithdrawal, SendToChain, CompleteWithdrawal,
       CancelWithdrawal, SaveTransfer, TransferFee, SaveFee, UpdateBalance, Reject, Proceed, Goto, Become

LEMMA StepKeepsInv == ASSUME PayoutInv, [PayoutNext]_payoutVars PROVE PayoutInv'
<1>1. ASSUME Register PROVE PayoutInv'
  <2>1. KycInv' /\ Grows(verdict, unfounded, verdict', unfounded') /\ UNCHANGED <<request, withdrawal, scenario>>
    BY <1>1, KycStepKeepsInv DEF PayoutInv, Register, vars
  <2>2. IsIdentified(verdict, unfounded) => IsIdentified(verdict', unfounded')
    BY <2>1, FactsStay
  <2>3. QED
    BY <2>1, <2>2 DEF PayoutInv, GateInv
<1>2. ASSUME NEW r \in Requests, GatedWithdraw(r) PROVE PayoutInv'
  <2>1. UNCHANGED kycVars /\ Withdraw(r) /\ UNCHANGED scenario
    BY <1>2 DEF GatedWithdraw
  <2>2. KycInv'
    BY <2>1 DEF PayoutInv, KycInv, kycVars
  <2>3. IsIdentified(verdict, unfounded)
    <3>1. CASE At(r, "rest")
      <4>1. MaybeApproved(Owner, 2)
        BY <1>2, <3>1 DEF GatedWithdraw, IsLevel2Approved
      <4>2. QED
        BY <4>1, GateIsHonest, ApprovedIsIdentified DEF PayoutInv
    <3>2. CASE ~At(r, "rest")
      BY <3>2 DEF PayoutInv, GateInv, At
    <3>3. QED
      BY <3>1, <3>2
  <2>4. DOMAIN request' = Requests
    BY <2>1, WithdrawKeepsDomain DEF PayoutInv
  <2>5. QED
    BY <2>1, <2>2, <2>3, <2>4 DEF PayoutInv, GateInv, kycVars
<1>3. ASSUME UNCHANGED <<kycVars, request, withdrawal, scenario>> PROVE PayoutInv'
  BY <1>3 DEF PayoutInv, KycInv, GateInv, kycVars
<1>4. Copy => UNCHANGED <<kycVars, request, withdrawal, scenario>>
  BY DEF Copy, Replicate, Sync, FetchBalances, WriteBalances, ledger, books
<1>6. UNCHANGED payoutVars => UNCHANGED <<kycVars, request, withdrawal, scenario>>
  BY DEF payoutVars, vars
<1>7. (\E r \in scenario.withdraws : GatedWithdraw(r)) => \E r \in Requests : GatedWithdraw(r)
  BY DEF PayoutInv
<1>8. QED
  BY <1>1, <1>2, <1>3, <1>4, <1>6, <1>7 DEF PayoutNext

LEMMA PairIsSeq == ASSUME NEW S, NEW pair \in [1..2 -> S] PROVE pair \in Seq(S)
<1>1. 2 \in Nat
  BY SMT
<1>2. [1..2 -> S] \in {[1..n -> S] : n \in Nat}
  BY <1>1, Zenon
<1> QED
  BY <1>2, SeqDef, Zenon

LEMMA KycStartsSound == KycInit => KycInv
<1> SUFFICES ASSUME KycInit PROVE KycInv
  OBVIOUS
<1>1. verdict = << >> /\ record = << >> /\ recordReplica = << >> /\ handler = [h \in Handlers |-> Resting]
  BY DEF KycInit
<1>2. QED
  BY <1>1, RestIsSound DEF KycInv, InOrder

LEMMA IdentifiedStartsSound == Identified => KycInv /\ IsIdentified(verdict, unfounded)
<1> SUFFICES ASSUME Identified PROVE KycInv /\ IsIdentified(verdict, unfounded)
  OBVIOUS
<1> DEFINE V(level) == [of |-> Owner, level |-> level, state |-> "A"]
           R(level) == [of |-> Owner, level |-> level, app |-> level, status |-> "APPROVED"]
<1>1. /\ verdict = [level \in 1..2 |-> V(level)]
      /\ record = [level \in 1..2 |-> R(level)] /\ recordReplica = record
      /\ handler = [h \in Handlers |-> Resting]
  BY DEF Identified
<1>2. \A level \in 1..2 : V(level) \in Verdicts /\ R(level) \in Rows
  BY PayoutAssumption DEF Verdicts, Rows, Applicants, RowStatuses
<1>3. \A level \in 1..2 : /\ V(level).of = Owner /\ V(level).level = level /\ V(level).state = "A"
                           /\ R(level).of = Owner /\ R(level).level = level
                           /\ R(level).app = level /\ R(level).status = "APPROVED"
  OBVIOUS
<1> HIDE DEF V, R
<1>4. verdict \in Seq(Verdicts) /\ record \in Seq(Rows)
  <2>1. verdict \in [1..2 -> Verdicts] /\ record \in [1..2 -> Rows]
    BY <1>1, <1>2
  <2>2. QED
    BY <2>1, PairIsSeq
<1>5. DOMAIN verdict = 1..2 /\ DOMAIN record = 1..2
      /\ \A level \in 1..2 : verdict[level] = V(level) /\ record[level] = R(level)
  BY <1>1
<1>6. IsIdentified(verdict, unfounded)
  BY <1>3, <1>5 DEF IsIdentified, Good
<1>7. InOrder(verdict, unfounded)
  <2>1. /\ 1 \in DOMAIN verdict /\ 1 < 2 /\ verdict[1].level = 1 /\ Good(verdict, unfounded, 1)
        /\ \A b \in DOMAIN verdict : verdict[b].of = verdict[1].of /\ (verdict[b].level = 2 => b = 2)
    BY <1>3, <1>5 DEF Good
  <2>2. QED
    BY <2>1 DEF InOrder
<1>8. \A i \in DOMAIN record : SoundRow(verdict, unfounded, record[i])
  BY <1>2, <1>3, <1>5 DEF SoundRow, IsFor, Honest, ApprovedIn, Good, RowStatuses
<1>9. QED
  BY <1>1, <1>4, <1>6, <1>7, <1>8, RestIsSound DEF KycInv, OwnRow

LEMMA InitHolds == PayoutInit => PayoutInv
<1> SUFFICES ASSUME PayoutInit PROVE PayoutInv
  OBVIOUS
<1>1. withdrawal = << >> /\ request = [r \in Requests |-> Idle] /\ scenario \in Scenarios
  BY DEF PayoutInit, Init
<1>2. KycInv
  BY KycStartsSound, IdentifiedStartsSound DEF PayoutInit
<1>3. scenario.withdraws \subseteq Requests
  BY <1>1, PayoutAssumption
<1>4. QED
  BY <1>1, <1>2, <1>3 DEF PayoutInv, GateInv, Idle

\* No withdrawal is ever stored for an owner without an approved application of the first
\* level and, after it, one of the second, each approved by Acuant or by a webhook about that
\* very application, whatever handlers overlap, webhooks come late or replicas lag
\* (TatumController 141, KycController 113).
THEOREM OnlyTheIdentifiedWithdraw == PayoutSpec => []WithdrawalsIdentified
<1>1. PayoutInv => WithdrawalsIdentified
  BY DEF PayoutInv, GateInv, IsIdentified, WithdrawalsIdentified, Passed, Good
<1>2. QED
  BY InitHolds, StepKeepsInv, <1>1, PTL DEF PayoutSpec

-----------------------------------------------------------------------------
(* Superfluous rows and wrong verdicts: one overlap for each. *)

Busy(l) == l.pc \in {"poll", "submit", "upsert", "status"}
Active == {h \in Handlers : Busy(handler[h])}
SameKey(l, m) == l.of = m.of /\ l.level = m.level

\* What the handler found is no longer so: it creates a row beside another, or writes the
\* verdict on an application that the row no longer holds.
Doomed(rows, l) ==
    \/ l.pc \in {"submit", "upsert"} /\ l.row = 0 /\ RowsOf(rows, l.of, l.level) # {}
    \/ l.pc \in {"poll", "status"} /\ rows[l.row].app # l.read.app

\* What the handler is to write is what Acuant says, or the row will hold a verdict to come,
\* unless a webhook said otherwise of the application (u).
Truthful(v, u, l) ==
    /\ l.pc = "upsert" => l.status \in {"PENDING", ApplicationStatus(v[l.app].state)}
    /\ l.pc = "status" => /\ IsFor(v, l.read.app, l.of, l.level)
                          /\ \/ l.read.app \in u
                             \/ /\ v[l.read.app].state # "R"
                                /\ l.status = ApplicationStatus(v[l.read.app].state)

\* For every user and level at most one handler has not paid an overlap for its read: the
\* one that came first, as long as nobody spoilt what it found.
Spared(E) ==
    /\ E \subseteq Active
    /\ \A g, h \in E : SameKey(handler[g], handler[h]) => g = h
    /\ \A h \in E : ~Doomed(record, handler[h])

Cost(E) == Cardinality(Superfluous) + Cardinality(Wrong) + Cardinality(Active \ E)

\* Everyone else pays in advance for the one row it may spoil.
OverlapInv ==
    /\ overlaps \in Nat
    /\ \A h \in Handlers : Truthful(verdict, unfounded, handler[h])
    /\ \E E : Spared(E) /\ Cost(E) <= overlaps

\* A set that grows by at most one, shrinks by one, or trades one member for another.
LEMMA OneMore ==
    ASSUME NEW S, IsFiniteSet(S), NEW x, NEW T, T \subseteq S \cup {x}
    PROVE  IsFiniteSet(T) /\ Cardinality(T) \in Nat /\ Cardinality(T) <= Cardinality(S) + 1
<1>1. Cardinality(S) \in Nat
  BY FS_CardinalityType
<1>2. /\ IsFiniteSet(S \cup {x})
      /\ Cardinality(S \cup {x}) = IF x \in S THEN Cardinality(S) ELSE Cardinality(S) + 1
  BY FS_AddElement
<1>3. IsFiniteSet(T) /\ Cardinality(T) <= Cardinality(S \cup {x})
  BY <1>2, FS_Subset
<1>4. Cardinality(T) \in Nat
  BY <1>3, FS_CardinalityType
<1> QED
  BY <1>1, <1>2, <1>3, <1>4

LEMMA OneLess ==
    ASSUME NEW S, IsFiniteSet(S), NEW x \in S, NEW T, T \subseteq S \ {x}
    PROVE  IsFiniteSet(T) /\ Cardinality(T) \in Nat /\ Cardinality(T) <= Cardinality(S) - 1
<1>1. Cardinality(S) \in Nat
  BY FS_CardinalityType
<1>2. IsFiniteSet(S \ {x}) /\ Cardinality(S \ {x}) = Cardinality(S) - 1
  BY FS_RemoveElement
<1>3. IsFiniteSet(T) /\ Cardinality(T) <= Cardinality(S \ {x})
  BY <1>2, FS_Subset
<1>4. Cardinality(T) \in Nat
  BY <1>3, FS_CardinalityType
<1> QED
  BY <1>1, <1>2, <1>3, <1>4

LEMMA OneTraded ==
    ASSUME NEW S, IsFiniteSet(S), NEW x \in S, NEW y, NEW T, T \subseteq (S \ {x}) \cup {y}
    PROVE  IsFiniteSet(T) /\ Cardinality(T) \in Nat /\ Cardinality(T) <= Cardinality(S)
<1>1. Cardinality(S) \in Nat
  BY FS_CardinalityType
<1>2. IsFiniteSet(S \ {x}) /\ Cardinality(S \ {x}) = Cardinality(S) - 1
  BY FS_RemoveElement
<1>3. IsFiniteSet(T) /\ Cardinality(T) \in Nat /\ Cardinality(T) <= Cardinality(S \ {x}) + 1
  BY <1>2, OneMore
<1> QED
  BY <1>1, <1>2, <1>3

LEMMA NoneMore ==
    ASSUME NEW S, IsFiniteSet(S), NEW T, T \subseteq S
    PROVE  IsFiniteSet(T) /\ Cardinality(T) \in Nat /\ Cardinality(T) <= Cardinality(S)
BY FS_Subset, FS_CardinalityType

LEMMA CountsFinite ==
    ASSUME KycInv, NEW E
    PROVE  /\ IsFiniteSet(Superfluous) /\ Cardinality(Superfluous) \in Nat
           /\ IsFiniteSet(Wrong) /\ Cardinality(Wrong) \in Nat
           /\ IsFiniteSet(Active \ E) /\ Cardinality(Active \ E) \in Nat
<1>1. IsFiniteSet(DOMAIN record)
  <2>1. Len(record) \in Nat /\ DOMAIN record = 1..Len(record)
    BY DEF KycInv
  <2> QED
    BY <2>1, FS_Interval
<1>2. Superfluous \subseteq DOMAIN record /\ Wrong \subseteq DOMAIN record
  BY DEF Superfluous, Wrong
<1>3. IsFiniteSet(Handlers)
  BY KycAssumption
<1>4. Active \ E \subseteq Handlers
  BY DEF Active
<1> QED
  BY <1>1, <1>2, <1>3, <1>4, NoneMore

\* No verdict changes once it is given.
Settled(v, u, w, x) ==
    /\ DOMAIN v \subseteq DOMAIN w /\ u \subseteq x
    /\ \A a \in DOMAIN v : /\ w[a].of = v[a].of /\ w[a].level = v[a].level
                           /\ v[a].state # "R" => w[a].state = v[a].state

LEMMA TruthStays ==
    ASSUME NEW v, NEW u, NEW w, NEW x, Settled(v, u, w, x), NEW rows, NEW l, SoundHandler(v, u, rows, l), Truthful(v, u, l)
    PROVE  Truthful(w, x, l)
<1>1. \A a \in DOMAIN v : ApplicationStatus(v[a].state) \in {"PENDING", ApplicationStatus(w[a].state)}
  BY DEF Settled, ApplicationStatus
<1>2. l.pc = "upsert" => l.app \in DOMAIN v
  BY DEF SoundHandler, IsFor
<1> QED
  BY <1>1, <1>2 DEF Truthful, Settled, IsFor

LEMMA NothingGoesWrong ==
    ASSUME KycInv, Settled(verdict, unfounded, verdict', unfounded'), UNCHANGED record
    PROVE  Superfluous' = Superfluous /\ Wrong' \subseteq Wrong
<1>1. \A a \in DOMAIN verdict :
         ApplicationStatus(verdict[a].state) \in {"PENDING", ApplicationStatus(verdict'[a].state)}
  BY DEF Settled, ApplicationStatus
<1>2. \A i \in DOMAIN record : record[i].app \in DOMAIN verdict
  BY DEF KycInv, SoundRow, IsFor
<1>3. Superfluous' = Superfluous
  BY DEF Superfluous, RowsOf
<1> QED
  BY <1>1, <1>2, <1>3 DEF Wrong, Settled

\* A handler goes on with what it found, or is done.
LEMMA HandlerGoesOn ==
    ASSUME KycInv, OverlapInv, Settled(verdict, unfounded, verdict', unfounded'), UNCHANGED record,
           overlaps' \in Nat, overlaps <= overlaps',
           NEW h \in Handlers, NEW local, Handle(h, local), Truthful(verdict', unfounded', local),
           Busy(local) => /\ Busy(handler[h]) /\ SameKey(local, handler[h])
                          /\ Doomed(record, local) => Doomed(record, handler[h])
    PROVE  OverlapInv'
<1>1. PICK E : Spared(E) /\ Cost(E) <= overlaps
  BY DEF OverlapInv
<1>2. \A g \in Handlers : handler'[g] = IF g = h THEN local ELSE handler[g]
  BY DEF Handle, KycInv
<1>3. \A g \in Handlers : Truthful(verdict', unfounded', handler'[g])
  BY <1>2, TruthStays DEF OverlapInv, KycInv
<1> DEFINE F == IF Busy(local) THEN E ELSE E \ {h}
<1>4. \A g \in F : g \in E /\ Busy(handler'[g]) /\ SameKey(handler'[g], handler[g])
                   /\ (Doomed(record, handler'[g]) => Doomed(record, handler[g]))
  BY <1>1, <1>2 DEF Spared, Active, SameKey
<1>5. Spared(F)'
  BY <1>1, <1>4 DEF Spared, Active, SameKey
<1>6. (Active \ F)' \subseteq Active \ E
  BY <1>2 DEF Active
<1> HIDE DEF F
<1>7. /\ Cardinality(Superfluous') = Cardinality(Superfluous) /\ Cardinality(Superfluous) \in Nat
      /\ Cardinality(Wrong') \in Nat /\ Cardinality(Wrong') <= Cardinality(Wrong) /\ Cardinality(Wrong) \in Nat
      /\ Cardinality((Active \ F)') \in Nat /\ Cardinality((Active \ F)') <= Cardinality(Active \ E)
      /\ Cardinality(Active \ E) \in Nat
  BY <1>6, CountsFinite, NothingGoesWrong, NoneMore
<1>8. Cost(F)' <= overlaps'
  BY <1>1, <1>7 DEF Cost, OverlapInv
<1> QED
  BY <1>3, <1>5, <1>8 DEF OverlapInv

\* A handler has read: it pays for the read, unless nobody else is at the same rows and the
\* replica has caught up.
LEMMA HandlerReads ==
    ASSUME KycInv, OverlapInv, UNCHANGED <<verdict, record>>, unfounded \subseteq unfounded',
           NEW h \in Handlers, ~Busy(handler[h]), NEW local, Busy(local), Handle(h, local),
           CountOverlap(h, local.of, local.level), Truthful(verdict, unfounded', local),
           record = recordReplica => ~Doomed(record, local)
    PROVE  OverlapInv'
<1>0. Settled(verdict, unfounded, verdict', unfounded')
  BY DEF Settled
<1>1. PICK E : Spared(E) /\ Cost(E) <= overlaps
  BY DEF OverlapInv
<1>2. \A g \in Handlers : handler'[g] = IF g = h THEN local ELSE handler[g]
  BY DEF Handle, KycInv
<1>3. \A g \in Handlers : Truthful(verdict', unfounded', handler'[g])
  BY <1>0, <1>2, TruthStays DEF OverlapInv, KycInv
<1>4. h \notin E /\ \A g \in E : g \in Handlers /\ handler'[g] = handler[g] /\ Busy(handler[g])
  BY <1>1, <1>2 DEF Spared, Active
<1>5. /\ Cardinality(Superfluous') = Cardinality(Superfluous)
      /\ Cardinality(Wrong') \in Nat /\ Cardinality(Wrong') <= Cardinality(Wrong)
  BY <1>0, CountsFinite, NothingGoesWrong, NoneMore
<1>6. CASE overlaps' = overlaps + 1
  <2>1. Spared(E)'
    BY <1>1, <1>2, <1>4 DEF Spared, Active, SameKey
  <2>2. (Active \ E)' \subseteq (Active \ E) \cup {h}
    BY <1>2 DEF Active
  <2>3. /\ Cardinality((Active \ E)') \in Nat /\ Cardinality((Active \ E)') <= Cardinality(Active \ E) + 1
        /\ Cardinality(Superfluous) \in Nat /\ Cardinality(Wrong) \in Nat /\ Cardinality(Active \ E) \in Nat
    BY <2>2, CountsFinite, OneMore
  <2>4. overlaps' \in Nat /\ Cost(E)' <= overlaps'
    BY <1>1, <1>5, <1>6, <2>3 DEF Cost, OverlapInv
  <2> QED
    BY <1>3, <2>1, <2>4 DEF OverlapInv
<1>7. CASE /\ record = recordReplica /\ UNCHANGED overlaps
           /\ \A g \in Handlers \ {h} : ~HandlerAt(g, "rest") =>
                 ~(handler[g].of = local.of /\ handler[g].level = local.level)
  <2>1. \A g \in E : ~SameKey(local, handler[g])
    BY <1>4, <1>7 DEF SameKey, HandlerAt, Busy
  <2> DEFINE F == E \cup {h}
  <2>2. Spared(F)'
    <3>1. F \subseteq Active'
      BY <1>2, <1>4 DEF Active
    <3>2. ASSUME NEW g \in F, NEW k \in F, SameKey(handler'[g], handler'[k]) PROVE g = k
      BY <1>1, <1>2, <1>4, <2>1, <3>2 DEF Spared, SameKey
    <3>3. \A g \in F : ~Doomed(record', handler'[g])
      BY <1>1, <1>2, <1>4, <1>7 DEF Spared
    <3> QED
      BY <3>1, <3>2, <3>3 DEF Spared
  <2>3. (Active \ F)' \subseteq Active \ E
    BY <1>2 DEF Active
  <2> HIDE DEF F
  <2>4. /\ Cardinality((Active \ F)') \in Nat /\ Cardinality((Active \ F)') <= Cardinality(Active \ E)
        /\ Cardinality(Superfluous) \in Nat /\ Cardinality(Wrong) \in Nat /\ Cardinality(Active \ E) \in Nat
    BY <2>3, CountsFinite, NoneMore
  <2>5. overlaps' \in Nat /\ Cost(F)' <= overlaps'
    BY <1>1, <1>5, <1>7, <2>4 DEF Cost, OverlapInv
  <2> QED
    BY <1>3, <2>2, <2>5 DEF OverlapInv
<1> QED
  BY <1>6, <1>7 DEF CountOverlap

LEMMA SettledWhenUnchanged == ASSUME NEW v, NEW u PROVE Settled(v, u, v, u)
BY DEF Settled

LEMMA VerifyOverlaps == ASSUME KycInv, OverlapInv, NEW h \in Handlers, VerifyKyc(h) PROVE OverlapInv'
<1>1. PICK of \in Applicants, level \in 1..2 :
         Handle(h, [Resting EXCEPT !.pc = "find", !.of = of, !.level = level])
  BY DEF VerifyKyc
<1> DEFINE local == [Resting EXCEPT !.pc = "find", !.of = of, !.level = level]
<1>2. local.pc = "find"
  BY RestIsLocal DEF Local
<1>3. UNCHANGED <<verdict, record, overlaps, unfounded>>
  BY DEF VerifyKyc
<1> HIDE DEF local
<1>4. ~Busy(local) /\ Truthful(verdict', unfounded', local)
  BY <1>2 DEF Busy, Truthful
<1> QED
  BY <1>1, <1>3, <1>4, SettledWhenUnchanged, HandlerGoesOn DEF local, OverlapInv

LEMMA RestOverlaps ==
    ASSUME KycInv, OverlapInv, UNCHANGED <<verdict, record, unfounded>>, overlaps' \in Nat, overlaps <= overlaps',
           NEW h \in Handlers, Handle(h, Resting)
    PROVE  OverlapInv'
<1>1. ~Busy(Resting) /\ Truthful(verdict', unfounded', Resting)
  BY DEF Busy, Truthful, Resting
<1> QED
  BY <1>1, SettledWhenUnchanged, HandlerGoesOn

LEMMA FindOverlaps == ASSUME KycInv, OverlapInv, NEW h \in Handlers, FindKycApplication(h) PROVE OverlapInv'
<1> DEFINE l == handler[h]
<1>1. UNCHANGED <<verdict, record, recordReplica, unfounded>> /\ CountOverlap(h, l.of, l.level)
  BY DEF FindKycApplication
<1>2. l.pc = "find" /\ l \in Local /\ l.row = 0 /\ ~Busy(l)
  BY DEF FindKycApplication, HandlerAt, KycInv, SoundHandler, Busy
<1>3. CASE Handle(h, [l EXCEPT !.pc = "submit"]) /\ RowsOf(recordReplica, l.of, l.level) = {}
  <2> DEFINE local == [l EXCEPT !.pc = "submit"]
  <2>1. local.pc = "submit" /\ local.of = l.of /\ local.level = l.level /\ local.row = 0
    BY <1>2 DEF Local
  <2> HIDE DEF local
  <2>2. Busy(local) /\ Truthful(verdict, unfounded, local) /\ (record = recordReplica => ~Doomed(record, local))
    BY <1>3, <2>1 DEF Busy, Truthful, Doomed
  <2> QED
    BY <1>1, <1>2, <1>3, <2>1, <2>2, HandlerReads DEF local
<1>4. CASE Handle(h, Resting)
  <2>1. overlaps' \in Nat /\ overlaps <= overlaps'
    BY <1>1 DEF CountOverlap, OverlapInv
  <2> QED
    BY <1>1, <1>4, <2>1, RestOverlaps
<1>5. CASE \E i \in RowsOf(recordReplica, l.of, l.level) :
              LET found == [l EXCEPT !.row = i, !.read = recordReplica[i]]
              IN  Handle(h, [found EXCEPT !.pc = "poll"]) \/ Handle(h, [found EXCEPT !.pc = "submit"])
  <2>1. PICK i \in RowsOf(recordReplica, l.of, l.level), label \in {"poll", "submit"} :
            Handle(h, [l EXCEPT !.row = i, !.read = recordReplica[i], !.pc = label])
    BY <1>5
  <2> DEFINE local == [l EXCEPT !.row = i, !.read = recordReplica[i], !.pc = label]
  <2>2. /\ local.pc = label /\ local.of = l.of /\ local.level = l.level
        /\ local.row = i /\ local.read = recordReplica[i]
    BY <1>2 DEF Local
  <2> HIDE DEF local
  <2>3. i # 0
    BY DEF RowsOf, KycInv
  <2>4. Busy(local) /\ Truthful(verdict, unfounded, local) /\ (record = recordReplica => ~Doomed(record, local))
    BY <2>1, <2>2, <2>3 DEF Busy, Truthful, Doomed
  <2> QED
    BY <1>1, <1>2, <2>1, <2>2, <2>4, HandlerReads DEF local
<1> QED
  BY <1>3, <1>4, <1>5 DEF FindKycApplication

LEMMA PollOverlaps == ASSUME KycInv, OverlapInv, NEW h \in Handlers, PollAcuant(h) PROVE OverlapInv'
<1> DEFINE l == handler[h]
           status == ApplicationStatus(verdict[l.read.app].state)
           local == [l EXCEPT !.pc = "status", !.status = status]
<1>1. UNCHANGED <<verdict, record, overlaps, unfounded>>
  BY DEF PollAcuant
<1>2. l.pc = "poll" /\ l \in Local /\ IsFor(verdict, l.read.app, l.of, l.level)
  BY DEF PollAcuant, HandlerAt, KycInv, SoundHandler
<1>3. CASE Handle(h, Resting)
  BY <1>1, <1>3, RestOverlaps DEF OverlapInv
<1>4. CASE status # "PENDING" /\ Handle(h, local)
  <2>1. /\ local.pc = "status" /\ local.of = l.of /\ local.level = l.level
        /\ local.row = l.row /\ local.read = l.read /\ local.status = status
    BY <1>2 DEF Local
  <2>2. verdict[l.read.app].state # "R"
    BY <1>4 DEF ApplicationStatus
  <2>3. /\ Truthful(verdict', unfounded', local) /\ Busy(l) /\ SameKey(local, l)
        /\ Doomed(record, local) => Doomed(record, l)
    BY <1>1, <1>2, <2>1, <2>2 DEF Truthful, Busy, SameKey, Doomed
  <2> HIDE DEF local
  <2> QED
    BY <1>1, <1>4, <2>3, SettledWhenUnchanged, HandlerGoesOn DEF OverlapInv
<1> QED
  BY <1>3, <1>4 DEF PollAcuant

LEMMA SubmitOverlaps == ASSUME KycInv, OverlapInv, NEW h \in Handlers, SubmitApplication(h) PROVE OverlapInv'
<1> DEFINE l == handler[h]
           n == Len(verdict) + 1
<1>1. PICK state \in {"R", "A", "D"} :
        /\ verdict' = Append(verdict, [of |-> l.of, level |-> l.level, state |-> state])
        /\ Handle(h, [l EXCEPT !.pc = "upsert", !.app = Len(verdict) + 1, !.status = ApplicationStatus(state)])
  BY DEF SubmitApplication
<1>2. UNCHANGED <<record, overlaps, unfounded>>
  BY DEF SubmitApplication
<1>3. l.pc = "submit" /\ l \in Local
  BY DEF SubmitApplication, HandlerAt, KycInv, SoundHandler
<1> DEFINE new == [of |-> l.of, level |-> l.level, state |-> state]
           local == [l EXCEPT !.pc = "upsert", !.app = n, !.status = ApplicationStatus(state)]
<1>4. new.state = state
  OBVIOUS
<1>5. /\ local.pc = "upsert" /\ local.of = l.of /\ local.level = l.level
      /\ local.row = l.row /\ local.app = n /\ local.status = ApplicationStatus(state)
  BY <1>3 DEF Local
<1>6. Handle(h, local) /\ verdict' = Append(verdict, new)
  BY <1>1
<1> HIDE DEF new, local
<1>7. /\ DOMAIN verdict \subseteq DOMAIN verdict' /\ verdict'[n] = new
      /\ \A a \in DOMAIN verdict : verdict'[a] = verdict[a]
  BY <1>6 DEF KycInv
<1>8. Settled(verdict, unfounded, verdict', unfounded')
  BY <1>2, <1>7 DEF Settled
<1>9. /\ Truthful(verdict', unfounded', local) /\ Busy(l) /\ SameKey(local, l)
      /\ Doomed(record, local) => Doomed(record, l)
  BY <1>3, <1>4, <1>5, <1>7 DEF Truthful, Busy, SameKey, Doomed
<1> QED
  BY <1>2, <1>6, <1>8, <1>9, HandlerGoesOn DEF OverlapInv

LEMMA WebhookOverlaps == ASSUME KycInv, OverlapInv, NEW h \in Handlers, KycWebhook(h) PROVE OverlapInv'
<1>2. PICK a \in DOMAIN verdict, i \in DOMAIN recordReplica, state \in {"R", "A", "D"} : Hears(h, a, i, state)
  BY WebhookHears
<1>1. UNCHANGED <<verdict, record, recordReplica>> /\ HandlerAt(h, "rest") /\ unfounded \subseteq unfounded'
  BY <1>2 DEF Hears
<1> DEFINE read == recordReplica[i]
           status == ApplicationStatus(state)
           local == [Resting EXCEPT !.pc = "status", !.of = read.of, !.level = read.level,
                                    !.row = i, !.read = read, !.status = status]
<1>3. IsFor(verdict, read.app, read.of, read.level)
  BY DEF KycInv, SoundRow
<1>4. a \in unfounded' \/ (verdict[a].state # "R" /\ state = verdict[a].state)
  BY <1>2 DEF Hears
<1>5. /\ Handle(h, local) /\ CountOverlap(h, read.of, read.level) /\ read.app = a
  BY <1>2 DEF Hears
<1> HIDE DEF read
<1>6. /\ local.pc = "status" /\ local.of = read.of /\ local.level = read.level
      /\ local.row = i /\ local.read = read /\ local.status = status
  BY DEF Resting
<1> HIDE DEF local
<1>7. Busy(local) /\ Truthful(verdict, unfounded', local)
  BY <1>3, <1>4, <1>5, <1>6 DEF Busy, Truthful
<1>8. record = recordReplica => ~Doomed(record, local)
  BY <1>6 DEF Doomed, read
<1>9. ~Busy(handler[h])
  BY <1>1 DEF Busy, HandlerAt
<1> QED
  BY <1>1, <1>5, <1>6, <1>7, <1>8, <1>9, HandlerReads

\* A write that changes what the handlers at the same rows found: whoever of them was spared
\* takes over what the writer paid.
LEMMA WriterSpoils ==
    ASSUME KycInv, NEW E, Spared(E), NEW h \in Active, Handle(h, Resting),
           \A g \in E : ~SameKey(handler[g], handler[h]) /\ Doomed(record', handler[g])
                            => Doomed(record, handler[g])
    PROVE  \E F : Spared(F)' /\ Cardinality((Active \ F)') \in Nat
                  /\ Cardinality((Active \ F)') <= Cardinality(Active \ E)
<1>1. \A g \in Handlers : handler'[g] = IF g = h THEN Resting ELSE handler[g]
  BY DEF Handle, KycInv
<1>2. ~Busy(Resting)
  BY DEF Busy, Resting
<1> PICK F : F = {g \in E : ~SameKey(handler[g], handler[h])}
  OBVIOUS
<1>3. \A g \in F : g \in E /\ g \in Handlers /\ handler'[g] = handler[g] /\ ~SameKey(handler[g], handler[h])
  BY <1>1 DEF Spared, Active, SameKey
<1>4. Spared(F)'
  BY <1>3 DEF Spared, Active
<1>5. IsFiniteSet(Active \ E)
  BY CountsFinite
<1>6. CASE h \in E
  <2>1. \A g \in E : g \in F \/ g = h
    BY <1>6 DEF Spared
  <2>2. (Active \ F)' \subseteq Active \ E
    BY <1>1, <1>2, <2>1 DEF Active
  <2> QED
    BY <1>4, <1>5, <2>2, NoneMore
<1>7. CASE h \notin E
  <2>1. PICK e : \A g \in E : g \in F \/ g = e
    BY DEF Spared, SameKey
  <2>2. (Active \ F)' \subseteq ((Active \ E) \ {h}) \cup {e}
    BY <1>1, <1>2, <2>1 DEF Active
  <2>3. h \in Active \ E
    BY <1>7
  <2>4. Cardinality((Active \ F)') \in Nat /\ Cardinality((Active \ F)') <= Cardinality(Active \ E)
    BY <1>5, <2>2, <2>3, OneTraded
  <2> QED
    BY <1>4, <2>4
<1> QED
  BY <1>6, <1>7

\* A write by a handler that has paid for it.
LEMMA DoomedWrites ==
    ASSUME KycInv, NEW E, Spared(E), NEW h \in Active, Doomed(record, handler[h]), Handle(h, Resting),
           \A g \in E : Doomed(record', handler[g]) => Doomed(record, handler[g])
    PROVE  /\ Spared(E)' /\ Cardinality((Active \ E)') \in Nat
           /\ Cardinality((Active \ E)') <= Cardinality(Active \ E) - 1
<1>1. \A g \in Handlers : handler'[g] = IF g = h THEN Resting ELSE handler[g]
  BY DEF Handle, KycInv
<1>2. h \notin E /\ ~Busy(Resting)
  BY DEF Spared, Busy, Resting
<1>3. \A g \in E : g \in Handlers /\ handler'[g] = handler[g]
  BY <1>1, <1>2 DEF Spared, Active
<1>4. Spared(E)'
  BY <1>3 DEF Spared, Active
<1>5. (Active \ E)' \subseteq (Active \ E) \ {h} /\ h \in Active \ E
  BY <1>1, <1>2 DEF Active
<1>6. IsFiniteSet(Active \ E)
  BY CountsFinite
<1> QED
  BY <1>4, <1>5, <1>6, OneLess

LEMMA WriterStaysTruthful ==
    ASSUME KycInv, OverlapInv, NEW h \in Handlers, Handle(h, Resting), UNCHANGED <<verdict, unfounded>>
    PROVE  \A g \in Handlers : Truthful(verdict', unfounded', handler'[g])
<1>1. \A g \in Handlers : handler'[g] = IF g = h THEN Resting ELSE handler[g]
  BY DEF Handle, KycInv
<1>2. Truthful(verdict, unfounded, Resting)
  BY DEF Truthful, Resting
<1> QED
  BY <1>1, <1>2 DEF OverlapInv

LEMMA UpsertOverlaps == ASSUME KycInv, OverlapInv, NEW h \in Handlers, Upsert(h) PROVE OverlapInv'
<1> DEFINE l == handler[h]
           row == [of |-> l.of, level |-> l.level, app |-> l.app, status |-> l.status]
           n == Len(record) + 1
<1>1. /\ record' = IF l.row = 0 THEN Append(record, row) ELSE [record EXCEPT ![l.row] = row]
      /\ Handle(h, Resting) /\ UNCHANGED <<verdict, overlaps, unfounded>>
  BY DEF Upsert
<1>2. l.pc = "upsert" /\ h \in Active /\ SoundHandler(verdict, unfounded, record, l)
  BY DEF Upsert, HandlerAt, KycInv, Active, Busy
<1>3. /\ l.row = 0 \/ OwnRow(record, l.row, l.of, l.level)
      /\ IsFor(verdict, l.app, l.of, l.level)
  BY <1>2 DEF SoundHandler
<1>4. row.of = l.of /\ row.level = l.level /\ row.app = l.app /\ row.status = l.status
  OBVIOUS
<1>5. row.status \in {"PENDING", ApplicationStatus(verdict[row.app].state)}
  BY <1>2, <1>4 DEF OverlapInv, Truthful
<1>6. PICK E : Spared(E) /\ Cost(E) <= overlaps
  BY DEF OverlapInv
<1>7. \A g \in E : g \in Handlers /\ Busy(handler[g]) /\ SoundHandler(verdict, unfounded, record, handler[g])
  BY <1>6 DEF Spared, Active, KycInv
<1>8. \A g \in E : handler[g].pc \in {"poll", "status"}
                    => OwnRow(record, handler[g].row, handler[g].of, handler[g].level)
  BY <1>7 DEF SoundHandler
<1>9. /\ Cardinality(Superfluous) \in Nat /\ Cardinality(Wrong) \in Nat /\ Cardinality(Active \ E) \in Nat
      /\ IsFiniteSet(Superfluous) /\ IsFiniteSet(Wrong) /\ overlaps' = overlaps /\ overlaps \in Nat
  BY <1>1, CountsFinite DEF OverlapInv
<1>10. \A g \in Handlers : Truthful(verdict', unfounded', handler'[g])
  BY <1>1, WriterStaysTruthful
<1> HIDE DEF row
<1>11. CASE l.row = 0
  <2>1. /\ DOMAIN record' = DOMAIN record \cup {n} /\ n \notin DOMAIN record /\ n \in Nat
        /\ \A i \in DOMAIN record : record'[i] = record[i] /\ i < n /\ i \in Nat
        /\ record'[n] = row
    BY <1>1, <1>11 DEF KycInv
  <2> HIDE DEF n
  <2>2. \A of, level : RowsOf(record', of, level) =
            IF of = l.of /\ level = l.level THEN RowsOf(record, of, level) \cup {n} ELSE RowsOf(record, of, level)
    BY <1>4, <2>1 DEF RowsOf
  <2>3. Wrong' \subseteq Wrong
    BY <1>1, <1>5, <2>1 DEF Wrong
  <2>4. \A g \in E : /\ ~SameKey(handler[g], l) /\ Doomed(record', handler[g]) => Doomed(record, handler[g])
                     /\ RowsOf(record, l.of, l.level) # {} /\ Doomed(record', handler[g])
                            => Doomed(record, handler[g])
    BY <1>8, <2>1, <2>2 DEF Doomed, SameKey, OwnRow
  <2>5. CASE RowsOf(record, l.of, l.level) # {}
    <3>1. Superfluous' \subseteq Superfluous \cup {n}
      BY <2>1 DEF Superfluous, RowsOf
    <3>2. Doomed(record, l)
      BY <1>2, <1>11, <2>5 DEF Doomed
    <3>3. /\ Spared(E)' /\ Cardinality((Active \ E)') \in Nat
          /\ Cardinality((Active \ E)') <= Cardinality(Active \ E) - 1
      BY <1>1, <1>2, <1>6, <2>4, <2>5, <3>2, DoomedWrites
    <3>4. /\ Cardinality(Superfluous') \in Nat /\ Cardinality(Superfluous') <= Cardinality(Superfluous) + 1
          /\ Cardinality(Wrong') \in Nat /\ Cardinality(Wrong') <= Cardinality(Wrong)
      BY <1>9, <2>3, <3>1, OneMore, NoneMore
    <3>5. Cost(E)' <= overlaps'
      BY <1>6, <1>9, <3>3, <3>4 DEF Cost
    <3> QED
      BY <1>9, <1>10, <3>3, <3>5 DEF OverlapInv
  <2>6. CASE RowsOf(record, l.of, l.level) = {}
    <3>1. Superfluous' \subseteq Superfluous
      <4>1. n \notin Superfluous'
        BY <1>4, <2>1, <2>2, <2>6 DEF Superfluous
      <4>2. \A i \in DOMAIN record : i \in Superfluous' => i \in Superfluous
        BY <2>1 DEF Superfluous, RowsOf
      <4> QED
        BY <2>1, <4>1, <4>2 DEF Superfluous
    <3>2. PICK F : Spared(F)' /\ Cardinality((Active \ F)') \in Nat
                   /\ Cardinality((Active \ F)') <= Cardinality(Active \ E)
      BY <1>1, <1>2, <1>6, <2>4, WriterSpoils
    <3>3. /\ Cardinality(Superfluous') \in Nat /\ Cardinality(Superfluous') <= Cardinality(Superfluous)
          /\ Cardinality(Wrong') \in Nat /\ Cardinality(Wrong') <= Cardinality(Wrong)
      BY <1>9, <2>3, <3>1, NoneMore
    <3>4. Cost(F)' <= overlaps'
      BY <1>6, <1>9, <3>2, <3>3 DEF Cost
    <3> QED
      BY <1>9, <1>10, <3>2, <3>4 DEF OverlapInv
  <2> QED
    BY <2>5, <2>6
<1>12. CASE l.row # 0
  <2>1. l.row \in DOMAIN record /\ record[l.row].of = l.of /\ record[l.row].level = l.level
    BY <1>3, <1>12 DEF OwnRow
  <2>2. /\ DOMAIN record' = DOMAIN record
        /\ \A i \in DOMAIN record : record'[i] = IF i = l.row THEN row ELSE record[i]
    BY <1>1, <1>12, <2>1 DEF KycInv
  <2>3. \A i \in DOMAIN record : record'[i].of = record[i].of /\ record'[i].level = record[i].level
    BY <1>4, <2>1, <2>2
  <2>4. \A of, level : RowsOf(record', of, level) = RowsOf(record, of, level)
    BY <2>2, <2>3 DEF RowsOf
  <2>5. Superfluous' \subseteq Superfluous
    BY <2>2, <2>3, <2>4 DEF Superfluous
  <2>6. Wrong' \subseteq Wrong
    BY <1>1, <1>5, <2>2 DEF Wrong
  <2>7. \A g \in E : ~SameKey(handler[g], l) /\ Doomed(record', handler[g]) => Doomed(record, handler[g])
    BY <1>8, <2>1, <2>2, <2>4 DEF Doomed, SameKey, OwnRow
  <2>8. PICK F : Spared(F)' /\ Cardinality((Active \ F)') \in Nat
                 /\ Cardinality((Active \ F)') <= Cardinality(Active \ E)
    BY <1>1, <1>2, <1>6, <2>7, WriterSpoils
  <2>9. /\ Cardinality(Superfluous') \in Nat /\ Cardinality(Superfluous') <= Cardinality(Superfluous)
        /\ Cardinality(Wrong') \in Nat /\ Cardinality(Wrong') <= Cardinality(Wrong)
    BY <1>9, <2>5, <2>6, NoneMore
  <2>10. Cost(F)' <= overlaps'
    BY <1>6, <1>9, <2>8, <2>9 DEF Cost
  <2> QED
    BY <1>9, <1>10, <2>8, <2>10 DEF OverlapInv
<1> QED
  BY <1>11, <1>12

LEMMA UpdateOverlaps == ASSUME KycInv, OverlapInv, NEW h \in Handlers, UpdateStatus(h) PROVE OverlapInv'
<1> DEFINE l == handler[h]
           row == [record[l.row] EXCEPT !.status = l.status]
<1>1. /\ record' = [record EXCEPT ![l.row] = row]
      /\ Handle(h, Resting) /\ UNCHANGED <<verdict, overlaps, unfounded>>
  BY DEF UpdateStatus
<1>2. l.pc = "status" /\ h \in Active /\ SoundHandler(verdict, unfounded, record, l)
  BY DEF UpdateStatus, HandlerAt, KycInv, Active, Busy
<1>3. l.row \in DOMAIN record /\ record[l.row] \in Rows
  BY <1>2 DEF SoundHandler, OwnRow, KycInv, SoundRow
<1>4. /\ row.of = record[l.row].of /\ row.level = record[l.row].level /\ row.app = record[l.row].app
      /\ row.status = l.status
  BY <1>3 DEF Rows
<1> HIDE DEF row
<1>5. /\ DOMAIN record' = DOMAIN record
      /\ \A i \in DOMAIN record : record'[i] = IF i = l.row THEN row ELSE record[i]
  BY <1>1, <1>3 DEF KycInv
<1>6. \A i \in DOMAIN record : /\ record'[i].of = record[i].of /\ record'[i].level = record[i].level
                               /\ record'[i].app = record[i].app
  BY <1>4, <1>5
<1>7. \A of, level : RowsOf(record', of, level) = RowsOf(record, of, level)
  BY <1>5, <1>6 DEF RowsOf
<1>8. PICK E : Spared(E) /\ Cost(E) <= overlaps
  BY DEF OverlapInv
<1>9. \A g \in E : Doomed(record', handler[g]) => Doomed(record, handler[g])
  <2>1. \A g \in E : g \in Handlers /\ SoundHandler(verdict, unfounded, record, handler[g])
    BY <1>8 DEF Spared, Active, KycInv
  <2>2. \A g \in E : handler[g].pc \in {"poll", "status"} => handler[g].row \in DOMAIN record
    BY <2>1 DEF SoundHandler, OwnRow
  <2> QED
    BY <1>6, <1>7, <2>2 DEF Doomed
<1>10. /\ Cardinality(Superfluous) \in Nat /\ Cardinality(Wrong) \in Nat /\ Cardinality(Active \ E) \in Nat
       /\ IsFiniteSet(Superfluous) /\ IsFiniteSet(Wrong) /\ overlaps' = overlaps /\ overlaps \in Nat
  BY <1>1, CountsFinite DEF OverlapInv
<1>11. \A g \in Handlers : Truthful(verdict', unfounded', handler'[g])
  BY <1>1, WriterStaysTruthful
<1>12. Superfluous' \subseteq Superfluous
  BY <1>5, <1>6, <1>7 DEF Superfluous
<1>13. CASE Doomed(record, l)
  <2>1. Wrong' \subseteq Wrong \cup {l.row}
    BY <1>1, <1>5 DEF Wrong
  <2>2. /\ Spared(E)' /\ Cardinality((Active \ E)') \in Nat
        /\ Cardinality((Active \ E)') <= Cardinality(Active \ E) - 1
    BY <1>1, <1>2, <1>8, <1>9, <1>13, DoomedWrites
  <2>3. /\ Cardinality(Superfluous') \in Nat /\ Cardinality(Superfluous') <= Cardinality(Superfluous)
        /\ Cardinality(Wrong') \in Nat /\ Cardinality(Wrong') <= Cardinality(Wrong) + 1
    BY <1>10, <1>12, <2>1, OneMore, NoneMore
  <2>4. Cost(E)' <= overlaps'
    BY <1>8, <1>10, <2>2, <2>3 DEF Cost
  <2> QED
    BY <1>10, <1>11, <2>2, <2>4 DEF OverlapInv
<1>14. CASE ~Doomed(record, l)
  <2>1. row.app \in unfounded \/ l.status = ApplicationStatus(verdict[row.app].state)
    BY <1>2, <1>4, <1>14 DEF Doomed, OverlapInv, Truthful
  <2>2. Wrong' \subseteq Wrong
    BY <1>1, <1>4, <1>5, <2>1 DEF Wrong
  <2>3. PICK F : Spared(F)' /\ Cardinality((Active \ F)') \in Nat
                 /\ Cardinality((Active \ F)') <= Cardinality(Active \ E)
    BY <1>1, <1>2, <1>8, <1>9, WriterSpoils
  <2>4. /\ Cardinality(Superfluous') \in Nat /\ Cardinality(Superfluous') <= Cardinality(Superfluous)
        /\ Cardinality(Wrong') \in Nat /\ Cardinality(Wrong') <= Cardinality(Wrong)
    BY <1>10, <1>12, <2>2, NoneMore
  <2>5. Cost(F)' <= overlaps'
    BY <1>8, <1>10, <2>3, <2>4 DEF Cost
  <2> QED
    BY <1>10, <1>11, <2>3, <2>5 DEF OverlapInv
<1> QED
  BY <1>13, <1>14

\* Nobody's read is touched.
LEMMA OthersOverlap ==
    ASSUME KycInv, OverlapInv, Settled(verdict, unfounded, verdict', unfounded'), UNCHANGED <<record, handler, overlaps, unfounded>>
    PROVE  OverlapInv'
<1>1. PICK E : Spared(E) /\ Cost(E) <= overlaps
  BY DEF OverlapInv
<1>2. Spared(E)' /\ (Active \ E)' = Active \ E
  BY <1>1 DEF Spared, Active
<1>3. \A g \in Handlers : Truthful(verdict', unfounded', handler'[g])
  BY TruthStays DEF OverlapInv, KycInv
<1>4. /\ IsFiniteSet(Wrong) /\ Cardinality(Superfluous) \in Nat /\ Cardinality(Wrong) \in Nat
      /\ Cardinality(Active \ E) \in Nat
  BY CountsFinite
<1>5. Superfluous' = Superfluous /\ Wrong' \subseteq Wrong
  BY NothingGoesWrong
<1>6. Cardinality(Wrong') \in Nat /\ Cardinality(Wrong') <= Cardinality(Wrong)
  BY <1>4, <1>5, NoneMore
<1>7. /\ Cardinality((Active \ E)') = Cardinality(Active \ E)
      /\ Cardinality(Superfluous') = Cardinality(Superfluous)
  BY <1>2, <1>5
<1>8. overlaps' = overlaps /\ overlaps \in Nat
  BY DEF OverlapInv
<1>9. Cost(E)' <= overlaps'
  BY <1>1, <1>4, <1>6, <1>7, <1>8 DEF Cost
<1> QED
  BY <1>2, <1>3, <1>8, <1>9 DEF OverlapInv

LEMMA DecideOverlaps == ASSUME KycInv, OverlapInv, Decide PROVE OverlapInv'
<1>1. UNCHANGED <<record, handler, overlaps, unfounded>>
  BY DEF Decide
<1>2. PICK a \in DOMAIN verdict, state \in {"A", "D"} :
        verdict[a].state = "R" /\ verdict' = [verdict EXCEPT ![a].state = state]
  BY DEF Decide
<1>3. verdict[a] \in Verdicts
  BY DEF KycInv
<1> DEFINE decided == [verdict[a] EXCEPT !.state = state]
<1>4. decided.of = verdict[a].of /\ decided.level = verdict[a].level
  BY <1>3 DEF Verdicts
<1>5. verdict' = [verdict EXCEPT ![a] = decided]
  BY <1>2
<1> HIDE DEF decided
<1>6. /\ DOMAIN verdict' = DOMAIN verdict
      /\ \A b \in DOMAIN verdict : verdict'[b] = IF b = a THEN decided ELSE verdict[b]
  BY <1>5 DEF KycInv
<1>7. Settled(verdict, unfounded, verdict', unfounded')
  BY <1>1, <1>2, <1>4, <1>6 DEF Settled
<1> QED
  BY <1>1, <1>7, OthersOverlap

LEMMA OverlapInit == KycInit \/ Identified => OverlapInv
<1> SUFFICES ASSUME KycInit \/ Identified PROVE OverlapInv
  OBVIOUS
<1>1. handler = [h \in Handlers |-> Resting] /\ overlaps = 0 /\ KycInv
  BY KycStartsSound, IdentifiedStartsSound DEF KycInit, Identified
<1>2. Active = {} /\ \A h \in Handlers : Truthful(verdict, unfounded, handler[h])
  BY <1>1 DEF Active, Busy, Truthful, Resting
<1>3. Superfluous = {} /\ Wrong = {}
  <2>1. CASE KycInit
    BY <2>1 DEF KycInit, Superfluous, Wrong
  <2>2. CASE Identified
    <3>1. /\ DOMAIN record = 1..2 /\ record[1].level = 1 /\ record[2].level = 2
          /\ \A i \in 1..2 : record[i].app = i /\ record[i].status = "APPROVED" /\ verdict[i].state = "A"
      BY <2>2 DEF Identified
    <3>2. \A i \in 1..2, k \in 1..2 : record[k].level = record[i].level => k = i
      BY <3>1
    <3> QED
      BY <3>1, <3>2 DEF Superfluous, Wrong, RowsOf, ApplicationStatus
  <2> QED
    BY <2>1, <2>2
<1>4. Spared({}) /\ Active \ {} = {}
  BY <1>2 DEF Spared
<1>5. Cost({}) <= overlaps
  BY <1>1, <1>3, <1>4, FS_EmptySet DEF Cost
<1> QED
  BY <1>1, <1>2, <1>4, <1>5 DEF OverlapInv

LEMMA OverlapNext == ASSUME KycInv, OverlapInv, KycNext PROVE OverlapInv'
<1>1. ASSUME NEW h \in Handlers, Abandon(h) PROVE OverlapInv'
  <2>1. Handle(h, Resting) /\ UNCHANGED <<verdict, record, overlaps, unfounded>>
    BY <1>1 DEF Abandon
  <2> QED
    BY <2>1, RestOverlaps DEF OverlapInv
<1>2. CASE ReplicateRecords
  <2>1. UNCHANGED <<verdict, record, handler, overlaps, unfounded>>
    BY <1>2 DEF ReplicateRecords
  <2> QED
    BY <2>1, SettledWhenUnchanged, OthersOverlap
<1> QED
  BY <1>1, <1>2, VerifyOverlaps, FindOverlaps, PollOverlaps, SubmitOverlaps, UpsertOverlaps, WebhookOverlaps,
     UpdateOverlaps, DecideOverlaps DEF KycNext

\* A second row of a user for a level, and a verdict in a row that neither Acuant nor a webhook
\* gave on its application, each take a read beside another handler or on a late replica, and
\* no such read makes two of them (VerificationApplicationService.upsert, KycController 52-138).
THEOREM RecordsTakeOverlaps == PayoutSpec => []RecordsPerOverlap
<1>1. KycInv /\ OverlapInv => RecordsPerOverlap
  <2> SUFFICES ASSUME KycInv, OverlapInv PROVE Cardinality(Superfluous) + Cardinality(Wrong) <= overlaps
    BY DEF RecordsPerOverlap
  <2>1. PICK E : Cost(E) <= overlaps
    BY DEF OverlapInv
  <2>2. Cardinality(Superfluous) \in Nat /\ Cardinality(Wrong) \in Nat /\ Cardinality(Active \ E) \in Nat
    BY CountsFinite
  <2> QED
    BY <2>1, <2>2 DEF Cost, OverlapInv
<1>2. PayoutInit => OverlapInv
  BY OverlapInit DEF PayoutInit
<1>3. PayoutInv /\ OverlapInv /\ [PayoutNext]_payoutVars => OverlapInv'
  <2> SUFFICES ASSUME PayoutInv, OverlapInv, [PayoutNext]_payoutVars PROVE OverlapInv'
    OBVIOUS
  <2>1. KycNext \/ UNCHANGED kycVars
    BY DEF PayoutNext, Register, GatedWithdraw, Copy, payoutVars
  <2>2. CASE KycNext
    BY <2>2, OverlapNext DEF PayoutInv
  <2>3. CASE UNCHANGED kycVars
    BY <2>3, SettledWhenUnchanged, OthersOverlap DEF PayoutInv, kycVars
  <2> QED
    BY <2>1, <2>2, <2>3
<1>4. PayoutInv => KycInv
  BY DEF PayoutInv
<1> QED
  BY <1>1, <1>2, <1>3, <1>4, InitHolds, StepKeepsInv, PTL DEF PayoutSpec

-----------------------------------------------------------------------------
\* Identity verification, the gate and the scenario only choose among the steps of
\* Withdrawal: what is proved of withdrawals alone holds here.
THEOREM PayoutsAreWithdrawals == PayoutSpec => Spec
<1>1. PayoutInit => Init
  BY DEF PayoutInit
<1>2. PayoutInv /\ [PayoutNext]_payoutVars => [Next]_vars
  <2> SUFFICES ASSUME PayoutInv, PayoutNext \/ UNCHANGED payoutVars PROVE Next \/ UNCHANGED vars
    OBVIOUS
  <2>1. ASSUME NEW r \in scenario.withdraws, GatedWithdraw(r) PROVE Next
    <3>1. r \in Requests /\ Withdraw(r)
      BY <2>1 DEF GatedWithdraw, PayoutInv
    <3> QED
      BY <3>1 DEF Next
  <2>2. CASE Register \/ Copy \/ UNCHANGED payoutVars
    BY <2>2 DEF Register, Copy, payoutVars, Next
  <2> QED
    BY <2>1, <2>2 DEF PayoutNext
<1> QED
  BY <1>1, <1>2, InitHolds, StepKeepsInv, PTL DEF PayoutSpec, Spec
=============================================================================
