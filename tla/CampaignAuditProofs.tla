------------------------- MODULE CampaignAuditProofs -------------------------
(***************************************************************************)
(* What TLAPS proves of the campaign audit, for any number of campaigns,   *)
(* participants, jobs, pages and failures.                                 *)
(***************************************************************************)
EXTENDS CampaignAudit, SumTheorems, TLAPS

\* While a page is being paid there is a page left to count down.
PageBeingPaid ==
    \A j \in Jobs : job[j].pc \in {"lookup", "record"} => job[j].pages > 0

TypeInv == TypeOK /\ PageBeingPaid

-----------------------------------------------------------------------------
\* The number of pages is a natural number.
LEMMA PageCountNat == \A n \in Nat : PageCount(n) \in Nat
<1>1. SUFFICES ASSUME NEW n \in Nat PROVE (n + PageSize - 1) \div PageSize \in Nat
  BY DEF PageCount
<1>2. PageSize \in Nat \ {0}
  BY BoundsAssumption
<1>3. n + PageSize - 1 \in Nat
  BY <1>2
<1> QED
  BY <1>2, <1>3

\* The eligible participants of a campaign can be counted.
LEMMA EligibleFinite ==
  ASSUME TypeOK, NEW c \in Campaigns
  PROVE  Cardinality(Eligible(c)) \in Nat
<1>1. Eligible(c) \subseteq Participants
  BY DEF TypeOK, Eligible
<1>2. IsFiniteSet(Eligible(c))
  BY <1>1, ParticipantsAssumption, FS_Subset
<1> QED
  BY <1>2, FS_CardinalityType

\* A job that takes on a local state of the right shape keeps the type of jobs.
LEMMA BecomeTyped ==
  ASSUME TypeInv, NEW j \in Jobs, NEW local \in JobState, Become(j, local),
         local.cur = Nobody <=> local.pc \in {"idle", "next"},
         local.pc \in {"lookup", "record"} => local.pages > 0
  PROVE  /\ job' \in [Jobs -> JobState]
         /\ \A i \in Jobs : job'[i].cur = Nobody <=> job'[i].pc \in {"idle", "next"}
         /\ PageBeingPaid'
BY DEF TypeInv, TypeOK, PageBeingPaid, Become

\* A job that starts out, or over, has the right shape.
LEMMA FreshTyped ==
  ASSUME NEW label \in {"idle", "next", "unblock"}, NEW campaigns \in SUBSET Campaigns,
         NEW c \in Campaigns \cup {Nobody}, NEW t \in Totals \cup {0}
  PROVE  /\ Fresh(label, campaigns, c, t) \in JobState
         /\ Fresh(label, campaigns, c, t).cur = c
         /\ Fresh(label, campaigns, c, t).pc = label
BY DEF Fresh, JobState

LEMMA IdleTyped == Idle \in JobState /\ Idle.cur = Nobody /\ Idle.pc = "idle"
BY FreshTyped DEF Idle

\* A job that only moves on keeps everything it holds.
LEMMA Relabelled ==
  ASSUME NEW local \in JobState,
         NEW label \in {"count", "page", "record", "payout"}
  PROVE  LET moved == [local EXCEPT !.pc = label]
         IN  /\ moved \in JobState /\ moved.pc = label
             /\ moved.cur = local.cur /\ moved.pages = local.pages
             /\ moved.batch = local.batch
BY DEF JobState

-----------------------------------------------------------------------------
LEMMA TypeInit == Init => TypeInv
<1> SUFFICES ASSUME Init PROVE TypeInv
  OBVIOUS
<1>1. job \in [Jobs -> JobState] /\ \A j \in Jobs : job[j] = Idle
  BY IdleTyped DEF Init
<1>2. /\ \A j \in Jobs : job[j].cur = Nobody <=> job[j].pc \in {"idle", "next"}
      /\ PageBeingPaid
  BY <1>1, IdleTyped DEF PageBeingPaid
<1>3. total \in [Campaigns -> Totals]
  BY ParticipantsAssumption DEF Init, Total0
<1> QED
  BY <1>1, <1>2, <1>3, ParticipantsAssumption, BoundsAssumption
  DEF Init, TypeInv, TypeOK, AuditStatus

\* Each action keeps the types: it leaves its job with a typed local state, and
\* what it writes outside has its type.
LEMMA TypeNext == TypeInv /\ [Next]_vars => TypeInv'
<1> SUFFICES ASSUME TypeInv, [Next]_vars PROVE TypeInv'
  OBVIOUS
<1> USE DEF TypeInv
<1>a. \A j \in Jobs : /\ job[j] \in JobState
                      /\ job[j].pc \in {"idle", "next"} <=> job[j].cur = Nobody
  BY DEF TypeOK
<1>b. feePaid \in [Campaigns -> Nat]
  BY DEF TypeOK
<1>1. ASSUME NEW j \in Jobs, Select(j) PROVE TypeInv'
  <2> DEFINE local == Fresh("next", Due, Nobody, 0)
  <2>1. local \in JobState /\ local.cur = Nobody /\ local.pc = "next"
    BY FreshTyped DEF Due
  <2>2. Become(j, local)
    BY <1>1 DEF Select
  <2> HIDE DEF local
  <2> QED
    BY <1>1, <2>1, <2>2, BecomeTyped DEF Select, TypeOK, database, ledger, bounds
<1>2. ASSUME NEW j \in Jobs, ReadCampaign(j) PROVE TypeInv'
  <2> PICK c \in job[j].todo :
        Become(j, Fresh("unblock", job[j].todo \ {c}, c, total[c]))
    BY <1>2 DEF ReadCampaign
  <2> DEFINE local == Fresh("unblock", job[j].todo \ {c}, c, total[c])
  <2>1. c \in Campaigns /\ job[j].todo \subseteq Campaigns /\ c # Nobody
    BY <1>a, CampaignsAssumption DEF JobState
  <2>2. total[c] \in Totals
    BY <2>1 DEF TypeOK
  <2>3. local \in JobState /\ local.cur # Nobody /\ local.pc = "unblock"
    BY <2>1, <2>2, FreshTyped
  <2> HIDE DEF local
  <2> QED
    BY <1>2, <2>3, BecomeTyped DEF local, ReadCampaign, TypeOK, database, ledger, bounds
<1>3. ASSUME NEW j \in Jobs, Exit(j) \/ InvalidType(j) \/ Throw(j) \/ Die(j) PROVE TypeInv'
  <2>1. Become(j, Idle)
    BY <1>3 DEF Exit, InvalidType, Throw, Die, Forget
  <2>2. failures' \in 0 .. MaxFailures /\ traffic' = traffic
    BY <1>3, BoundsAssumption DEF Exit, InvalidType, Throw, Die, TypeOK, bounds
  <2> QED
    BY <1>3, <2>1, <2>2, BecomeTyped, IdleTyped
    DEF Exit, InvalidType, Throw, Die, TypeOK, database, ledger
<1>4. ASSUME NEW j \in Jobs, UnblockAccountBalance(j) PROVE TypeInv'
  <2> DEFINE local == [job[j] EXCEPT !.pc = "count"]
  <2>1. local \in JobState /\ local.cur # Nobody /\ local.pc = "count"
    BY <1>4, <1>a, Relabelled DEF UnblockAccountBalance, At
  <2>2. Become(j, local) /\ UNCHANGED <<database, replica, feePaid, paid, bounds>>
    BY <1>4 DEF UnblockAccountBalance
  <2>3. blockage' \in [Campaigns -> {"held", "released"}]
    BY <1>4 DEF UnblockAccountBalance, TypeOK
  <2> HIDE DEF local
  <2> QED
    BY <2>1, <2>2, <2>3, BecomeTyped DEF TypeOK, database, bounds
<1>5. ASSUME NEW j \in Jobs, CountParticipants(j) PROVE TypeInv'
  <2> DEFINE n == PageCount(Cardinality(Eligible(job[j].cur)))
             local == [job[j] EXCEPT !.pc = "fee", !.pages = n]
  <2>1. job[j].cur \in Campaigns
    BY <1>5, <1>a DEF JobState, CountParticipants, At, TypeOK
  <2>2. n \in Nat
    BY <2>1, EligibleFinite, PageCountNat
  <2>3. Become(j, local)
    BY <1>5 DEF CountParticipants
  <2> HIDE DEF n
  <2>4. local \in JobState /\ local.cur # Nobody /\ local.pc = "fee"
    BY <1>a, <2>1, <2>2, CampaignsAssumption DEF JobState
  <2> HIDE DEF local
  <2> QED
    BY <1>5, <2>3, <2>4, BecomeTyped
    DEF CountParticipants, TypeOK, database, ledger, bounds
<1>6. ASSUME NEW j \in Jobs, TransferFee(j) PROVE TypeInv'
  <2> DEFINE local == [job[j] EXCEPT !.pc = "page"]
  <2>1. local \in JobState /\ local.cur # Nobody /\ local.pc = "page"
    BY <1>6, <1>a, Relabelled DEF TransferFee, At
  <2>2. Become(j, local) /\ UNCHANGED <<database, replica, blockage, paid, bounds>>
    BY <1>6 DEF TransferFee
  <2>3. \/ feePaid' = feePaid
        \/ feePaid' = [feePaid EXCEPT ![job[j].cur] = @ + 1]
    BY <1>6 DEF TransferFee
  <2>4. feePaid' \in [Campaigns -> Nat]
    BY <1>b, <2>3
  <2> HIDE DEF local
  <2> QED
    BY <2>1, <2>2, <2>4, BecomeTyped DEF TypeOK, database, bounds
<1>7. ASSUME NEW j \in Jobs, ReadPage(j) PROVE TypeInv'
  <2> DEFINE local == [job[j] EXCEPT !.pc = "lookup", !.batch = {},
                                     !.unseen = SharesOfPage(j) \cap Positive]
  <2>1. SharesOfPage(j) \cap Positive \subseteq Rewards
    BY DEF Positive
  <2>2. local \in JobState /\ local.cur # Nobody /\ local.pc = "lookup" /\ local.pages > 0
    BY <1>7, <1>a, <2>1 DEF JobState, ReadPage, At
  <2>3. Become(j, local)
    BY <1>7 DEF ReadPage
  <2> HIDE DEF local
  <2> QED
    BY <1>7, <2>2, <2>3, BecomeTyped DEF ReadPage, TypeOK, database, ledger, bounds
<1>8. ASSUME NEW j \in Jobs, LookUp(j) PROVE TypeInv'
  <2> PICK r \in job[j].unseen :
        Become(j, IF AlreadyTransferred(r)
                  THEN [job[j] EXCEPT !.unseen = @ \ {r}]
                  ELSE [job[j] EXCEPT !.unseen = @ \ {r}, !.batch = @ \cup {r},
                                      !.totalPayout = @ + Amount(r)])
    BY <1>8 DEF LookUp
  <2> DEFINE local == IF AlreadyTransferred(r)
                  THEN [job[j] EXCEPT !.unseen = @ \ {r}]
                  ELSE [job[j] EXCEPT !.unseen = @ \ {r}, !.batch = @ \cup {r},
                                      !.totalPayout = @ + Amount(r)]
  <2>1. r \in Rewards
    BY <1>a DEF JobState
  <2>2. Amount(r) \in Int
    BY <2>1, AmountsAssumption DEF Amount, Rewards
  <2>3. /\ local \in JobState /\ local.cur # Nobody
        /\ local.pc = "lookup" /\ local.pages > 0
    <3>1. /\ job[j].pc = "lookup" /\ job[j].cur # Nobody /\ job[j].pages > 0
          /\ job[j].unseen \subseteq Rewards /\ job[j].batch \subseteq Rewards
          /\ job[j].totalPayout \in Int
      BY <1>8, <1>a DEF JobState, LookUp, At, TypeOK, PageBeingPaid
    <3>2. CASE AlreadyTransferred(r)
      BY <3>1, <3>2, <1>a DEF JobState
    <3>3. CASE ~AlreadyTransferred(r)
      <4>1. job[j].totalPayout + Amount(r) \in Int
        BY <3>1, <2>2
      <4> QED
        BY <3>1, <3>3, <4>1, <2>1, <1>a DEF JobState
    <3> QED
      BY <3>2, <3>3
  <2> HIDE DEF local
  <2> QED
    BY <1>8, <2>3, BecomeTyped DEF local, LookUp, TypeOK, database, ledger, bounds
<1>9. ASSUME NEW j \in Jobs, TransferFundsBatch(j) PROVE TypeInv'
  <2> DEFINE local == [job[j] EXCEPT !.pc = "record"]
  <2>1. /\ local \in JobState /\ local.cur # Nobody
        /\ local.pc = "record" /\ local.pages > 0
    BY <1>9, <1>a, Relabelled DEF TransferFundsBatch, At, PageBeingPaid
  <2>2. Become(j, local) /\ UNCHANGED <<database, replica, blockage, feePaid, bounds>>
    BY <1>9 DEF TransferFundsBatch
  <2>3. paid' \in [Rewards -> Nat]
    BY <1>9 DEF TransferFundsBatch, BatchTransfer, MoveFunds, TypeOK
  <2> HIDE DEF local
  <2> QED
    BY <2>1, <2>2, <2>3, BecomeTyped DEF TypeOK, database, bounds
<1>10. ASSUME NEW j \in Jobs, CreateTransfers(j) PROVE TypeInv'
  <2> DEFINE local == [job[j] EXCEPT !.pc = "page", !.pages = @ - 1,
                                     !.skip = @ + PageSize]
  <2>1. local \in JobState /\ local.cur # Nobody /\ local.pc = "page"
    <3>1. job[j].cur # Nobody /\ job[j].pages - 1 \in Nat /\ job[j].skip + PageSize \in Nat
      BY <1>10, <1>a, BoundsAssumption
      DEF JobState, CreateTransfers, At, TypeOK, PageBeingPaid
    <3> QED
      BY <3>1, <1>a DEF JobState
  <2>2. Become(j, local)
    BY <1>10 DEF CreateTransfers
  <2>3. transfer' \in [Rewards -> Nat]
    BY <1>10 DEF CreateTransfers, TypeOK
  <2> HIDE DEF local
  <2> QED
    BY <1>10, <2>1, <2>2, <2>3, BecomeTyped
    DEF CreateTransfers, TypeOK, ledger, bounds
<1>11. ASSUME NEW j \in Jobs, SetAudited(j) PROVE TypeInv'
  <2> DEFINE local == [job[j] EXCEPT !.pc = "payout"]
  <2>1. local \in JobState /\ local.cur # Nobody /\ local.pc = "payout"
    BY <1>11, <1>a, Relabelled DEF SetAudited, At
  <2>2. Become(j, local)
    BY <1>11 DEF SetAudited
  <2>3. auditStatus' \in [Campaigns -> AuditStatus]
    BY <1>11 DEF SetAudited, TypeOK, AuditStatus
  <2> HIDE DEF local
  <2> QED
    BY <1>11, <2>1, <2>2, <2>3, BecomeTyped DEF SetAudited, TypeOK, ledger, bounds
<1>12. ASSUME NEW j \in Jobs, CreatePayoutRow(j) PROVE TypeInv'
  <2> DEFINE local == Fresh("next", job[j].todo, Nobody, 0)
  <2>1. local \in JobState /\ local.cur = Nobody /\ local.pc = "next"
    <3>1. job[j].todo \in SUBSET Campaigns
      BY <1>a DEF JobState
    <3> QED
      BY <3>1, FreshTyped
  <2>2. Become(j, local)
    BY <1>12 DEF CreatePayoutRow
  <2> HIDE DEF local
  <2> QED
    BY <1>12, <2>1, <2>2, BecomeTyped DEF CreatePayoutRow, TypeOK, ledger, bounds
<1>13. ASSUME Replicate PROVE TypeInv'
  BY <1>13 DEF Replicate, TypeOK, PageBeingPaid, database, ledger, bounds
<1>14. ASSUME NEW c \in Campaigns, NEW p \in Participants, Track(c, p) PROVE TypeInv'
  BY <1>14, BoundsAssumption
  DEF Track, Traffic, TypeOK, PageBeingPaid, ledger
<1>15. ASSUME NEW c \in Campaigns, NEW p \in Participants, BlacklistParticipant(c, p)
       PROVE  TypeInv'
  BY <1>15, BoundsAssumption
  DEF BlacklistParticipant, Traffic, TypeOK, PageBeingPaid, ledger
<1>16. ASSUME NEW c \in Campaigns, NEW p \in Participants, RemoveParticipation(c, p)
       PROVE  TypeInv'
  BY <1>16, BoundsAssumption
  DEF RemoveParticipation, Traffic, TypeOK, PageBeingPaid, ledger
<1>17. ASSUME NEW c \in Campaigns, NEW p \in Participants, Participate(c, p) PROVE TypeInv'
  BY <1>17, BoundsAssumption, ParticipantsAssumption
  DEF Participate, Traffic, TypeOK, PageBeingPaid, ledger
<1>18. ASSUME NEW c \in Campaigns, PayoutCampaignRewards(c) PROVE TypeInv'
  BY <1>18, BoundsAssumption
  DEF PayoutCampaignRewards, Traffic, TypeOK, AuditStatus, PageBeingPaid, ledger
<1>19. CASE UNCHANGED vars
  BY <1>19 DEF TypeOK, PageBeingPaid, vars, database, ledger, bounds
<1> QED
  BY <1>1, <1>2, <1>3, <1>4, <1>5, <1>6, <1>7, <1>8, <1>9, <1>10, <1>11, <1>12,
     <1>13, <1>14, <1>15, <1>16, <1>17, <1>18, <1>19
  DEF Next, Step, Users

\* Every reachable state of the audit is typed, whatever the constants, and a job
\* holds a campaign exactly while it works on it (index.ts, 31-69).
THEOREM AuditTypes == Spec => []TypeOK
<1>1. TypeInv => TypeOK
  BY DEF TypeInv
<1> QED
  BY <1>1, TypeInit, TypeNext, PTL DEF Spec

-----------------------------------------------------------------------------
(* The ledger and the records. *)

\* Whether a job's local state is between the payment and the row of reward r.
Holds(local, r) == local.pc = "record" /\ r \in local.batch

\* A step of job j changes who is in flight by j alone.
LEMMA InFlightChange ==
  ASSUME TypeOK, NEW j \in Jobs, NEW local, Become(j, local), NEW r \in Rewards
  PROVE  InFlight(r)' = IF Holds(local, r) THEN InFlight(r) \cup {j} ELSE InFlight(r) \ {j}
BY DEF TypeOK, Become, InFlight, At, Holds

\* The jobs in flight can be counted, and counting follows one of them.
LEMMA InFlightCount ==
  ASSUME NEW r \in Rewards, NEW j \in Jobs
  PROVE  /\ Cardinality(InFlight(r)) \in Nat
         /\ Cardinality(InFlight(r) \ {j}) \in Nat
         /\ Cardinality(InFlight(r) \cup {j}) =
              IF j \in InFlight(r) THEN Cardinality(InFlight(r))
                                   ELSE Cardinality(InFlight(r)) + 1
         /\ Cardinality(InFlight(r) \ {j}) =
              IF j \in InFlight(r) THEN Cardinality(InFlight(r)) - 1
                                   ELSE Cardinality(InFlight(r))
<1>1. IsFiniteSet(InFlight(r))
  BY CampaignsAssumption, FS_Subset DEF InFlight
<1> QED
  BY <1>1, FS_CardinalityType, FS_AddElement, FS_RemoveElement

\* A step that neither pays nor records, of a job that is at neither moment,
\* leaves every account of a reward alone.
LEMMA LedgerKept ==
  ASSUME LedgerMatchesRecords, NEW j \in Jobs,
         \A i \in Jobs \ {j} : job'[i] = job[i],
         job[j].pc # "record", job'[j].pc # "record",
         transfer' = transfer, paid' = paid, failures' = failures
  PROVE  LedgerMatchesRecords'
<1>1. ASSUME NEW r \in Rewards PROVE InFlight(r)' = InFlight(r)
  BY <1>1 DEF InFlight, At
<1> QED
  BY <1>1 DEF LedgerMatchesRecords

LEMMA LedgerInit == Init => LedgerMatchesRecords
<1> SUFFICES ASSUME Init, NEW r \in Rewards
             PROVE  /\ transfer[r] + Cardinality(InFlight(r)) <= paid[r]
                    /\ paid[r] <= transfer[r] + Cardinality(InFlight(r)) + failures
  BY DEF LedgerMatchesRecords
<1>1. InFlight(r) = {}
  BY DEF Init, InFlight, At, Idle, Fresh
<1> QED
  BY <1>1, FS_EmptySet DEF Init

LEMMA LedgerNext == TypeOK /\ LedgerMatchesRecords /\ [Next]_vars => LedgerMatchesRecords'
<1> SUFFICES ASSUME TypeOK, LedgerMatchesRecords, [Next]_vars PROVE LedgerMatchesRecords'
  OBVIOUS
<1>1. ASSUME NEW j \in Jobs, NEW r \in Rewards
      PROVE  /\ transfer[r] \in Nat /\ paid[r] \in Nat /\ failures \in Nat
             /\ Cardinality(InFlight(r)) \in Nat
             /\ transfer[r] + Cardinality(InFlight(r)) <= paid[r]
             /\ paid[r] <= transfer[r] + Cardinality(InFlight(r)) + failures
  <2>1. transfer[r] \in Nat /\ paid[r] \in Nat /\ failures \in Nat
    BY <1>1, BoundsAssumption DEF TypeOK
  <2>2. Cardinality(InFlight(r)) \in Nat
    BY <1>1, InFlightCount
  <2> QED
    BY <1>1, <2>1, <2>2 DEF LedgerMatchesRecords
<1>2. ASSUME NEW j \in Jobs,
             \/ Select(j) \/ ReadCampaign(j) \/ Exit(j) \/ InvalidType(j) \/ CountParticipants(j) \/ ReadPage(j)
             \/ LookUp(j) \/ Throw(j)
      PROVE  LedgerMatchesRecords'
  <2>1. job[j].pc # "record" /\ transfer' = transfer /\ paid' = paid /\ failures' = failures
    BY <1>2 DEF Select, ReadCampaign, Exit, InvalidType, CountParticipants, ReadPage, LookUp, Throw,
                Rejected, At, database, ledger, bounds
  <2>2. job[j] \in JobState /\ \A local : Become(j, local) => job'[j] = local
    BY DEF TypeOK, Become
  <2>3. \A i \in Jobs \ {j} : job'[i] = job[i]
    BY <1>2 DEF Select, ReadCampaign, Exit, InvalidType, CountParticipants, ReadPage, LookUp, Throw,
                Forget, Become, TypeOK
  <2>4. CASE Select(j) \/ ReadCampaign(j) \/ Exit(j) \/ InvalidType(j) \/ Throw(j)
    <3>1. \A label, todo, c, t : Fresh(label, todo, c, t).pc = label
      BY DEF Fresh
    <3>2. CASE Select(j)
      BY <2>1, <2>2, <2>3, <3>1, <3>2, LedgerKept DEF Select
    <3>3. CASE ReadCampaign(j)
      BY <2>1, <2>2, <2>3, <3>1, <3>3, LedgerKept DEF ReadCampaign
    <3>4. CASE Exit(j) \/ InvalidType(j) \/ Throw(j)
      BY <2>1, <2>2, <2>3, <3>1, <3>4, LedgerKept DEF Exit, InvalidType, Throw, Forget, Idle
    <3> QED
      BY <2>4, <3>2, <3>3, <3>4
  <2>5. CASE CountParticipants(j) \/ ReadPage(j)
    <3>1. job'[j].pc # "record"
      <4>1. CASE CountParticipants(j)
        <5>1. PICK n : Become(j, [job[j] EXCEPT !.pc = "fee", !.pages = n])
          BY <4>1, Zenon DEF CountParticipants
        <5> QED
          BY <2>2, <5>1 DEF JobState
      <4>2. CASE ReadPage(j)
        BY <2>2, <4>2 DEF ReadPage, JobState
      <4> QED
        BY <2>5, <4>1, <4>2
    <3> QED
      BY <2>1, <2>3, <3>1, LedgerKept
  <2>6. CASE LookUp(j)
    <3>1. PICK r \in job[j].unseen :
            Become(j, IF AlreadyTransferred(r)
                      THEN [job[j] EXCEPT !.unseen = @ \ {r}]
                      ELSE [job[j] EXCEPT !.unseen = @ \ {r}, !.batch = @ \cup {r},
                                          !.totalPayout = @ + Amount(r)])
      BY <2>6 DEF LookUp
    <3>2. job'[j].pc = job[j].pc
      BY <2>2, <3>1 DEF JobState
    <3> QED
      BY <2>1, <2>3, <3>2, LedgerKept
  <2> QED
    BY <1>2, <2>4, <2>5, <2>6
<1>3. ASSUME NEW j \in Jobs,
             \/ UnblockAccountBalance(j) \/ TransferFee(j) \/ SetAudited(j)
             \/ CreatePayoutRow(j)
      PROVE  LedgerMatchesRecords'
  <2>1. /\ job[j].pc # "record"
        /\ transfer' = transfer /\ paid' = paid /\ failures' = failures
    BY <1>3 DEF UnblockAccountBalance, TransferFee, SetAudited, CreatePayoutRow, At,
                database, ledger, bounds
  <2>2. job[j] \in JobState /\ \A local : Become(j, local) => job'[j] = local
    BY DEF TypeOK, Become
  <2>3. /\ \A i \in Jobs \ {j} : job'[i] = job[i]
        /\ job'[j].pc # "record"
    BY <1>3, <2>2 DEF UnblockAccountBalance, TransferFee, SetAudited, CreatePayoutRow,
                      Become, Fresh, JobState, TypeOK
  <2> QED
    BY <2>1, <2>3, LedgerKept
<1>4. ASSUME NEW j \in Jobs, TransferFundsBatch(j) PROVE LedgerMatchesRecords'
  <2> DEFINE local == [job[j] EXCEPT !.pc = "record"]
  <2>1. /\ Become(j, local) /\ local.pc = "record" /\ local.batch = job[j].batch
        /\ job[j].pc = "lookup"
        /\ transfer' = transfer /\ failures' = failures
        /\ paid' = [r \in Rewards |-> IF r \in job[j].batch THEN paid[r] + 1 ELSE paid[r]]
    BY <1>4 DEF TransferFundsBatch, BatchTransfer, MoveFunds, At, TypeOK, JobState,
                database, bounds
  <2> HIDE DEF local
  <2> SUFFICES ASSUME NEW r \in Rewards
               PROVE  /\ transfer[r] + Cardinality(InFlight(r)') <= paid'[r]
                      /\ paid'[r] <= transfer[r] + Cardinality(InFlight(r)') + failures
    BY <2>1 DEF LedgerMatchesRecords
  <2>2. j \notin InFlight(r)
    BY <2>1 DEF InFlight, At
  <2>3. CASE r \in job[j].batch
    <3>1. InFlight(r)' = InFlight(r) \cup {j}
      BY <2>1, <2>3, InFlightChange DEF Holds
    <3> QED
      BY <1>1, <2>1, <2>2, <2>3, <3>1, InFlightCount
  <2>4. CASE r \notin job[j].batch
    <3>1. InFlight(r)' = InFlight(r) \ {j}
      BY <2>1, <2>4, InFlightChange DEF Holds
    <3> QED
      BY <1>1, <2>1, <2>2, <2>4, <3>1, InFlightCount
  <2> QED
    BY <2>3, <2>4
<1>5. ASSUME NEW j \in Jobs, CreateTransfers(j) PROVE LedgerMatchesRecords'
  <2> DEFINE local == [job[j] EXCEPT !.pc = "page", !.pages = @ - 1, !.skip = @ + PageSize]
  <2>1. /\ Become(j, local) /\ local.pc = "page" /\ job[j].pc = "record"
        /\ paid' = paid /\ failures' = failures
        /\ transfer' = [r \in Rewards |-> IF r \in job[j].batch THEN transfer[r] + 1
                                                                 ELSE transfer[r]]
    BY <1>5 DEF CreateTransfers, At, TypeOK, JobState, ledger, bounds
  <2> HIDE DEF local
  <2> SUFFICES ASSUME NEW r \in Rewards
               PROVE  /\ transfer'[r] + Cardinality(InFlight(r)') <= paid[r]
                      /\ paid[r] <= transfer'[r] + Cardinality(InFlight(r)') + failures
    BY <2>1 DEF LedgerMatchesRecords
  <2>2. j \in InFlight(r) <=> r \in job[j].batch
    BY <2>1 DEF InFlight, At
  <2>3. InFlight(r)' = InFlight(r) \ {j}
    BY <2>1, InFlightChange DEF Holds
  <2>4. /\ Cardinality(InFlight(r)) \in Nat
        /\ Cardinality(InFlight(r)') = IF r \in job[j].batch
                                       THEN Cardinality(InFlight(r)) - 1
                                       ELSE Cardinality(InFlight(r))
    BY <2>2, <2>3, InFlightCount
  <2>5. /\ transfer[r] \in Nat /\ paid[r] \in Nat /\ failures \in Nat
        /\ transfer[r] + Cardinality(InFlight(r)) <= paid[r]
        /\ paid[r] <= transfer[r] + Cardinality(InFlight(r)) + failures
    BY <1>1
  <2>6. transfer'[r] = IF r \in job[j].batch THEN transfer[r] + 1 ELSE transfer[r]
    BY <2>1
  <2> QED
    BY <2>4, <2>5, <2>6
<1>6. ASSUME NEW j \in Jobs, Die(j) PROVE LedgerMatchesRecords'
  <2>1. /\ Become(j, Idle) /\ Idle.pc # "record"
        /\ transfer' = transfer /\ paid' = paid /\ failures' = failures + 1
    BY <1>6, IdleTyped DEF Die, Forget, database, ledger
  <2> SUFFICES ASSUME NEW r \in Rewards
               PROVE  /\ transfer[r] + Cardinality(InFlight(r)') <= paid[r]
                      /\ paid[r] <= transfer[r] + Cardinality(InFlight(r)') + failures'
    BY <2>1 DEF LedgerMatchesRecords
  <2>2. InFlight(r)' = InFlight(r) \ {j}
    BY <2>1, InFlightChange DEF Holds
  <2>3. /\ Cardinality(InFlight(r)) \in Nat
        /\ Cardinality(InFlight(r)') \in Nat
        /\ Cardinality(InFlight(r)') <= Cardinality(InFlight(r))
        /\ Cardinality(InFlight(r)) <= Cardinality(InFlight(r)') + 1
    <3>1. /\ Cardinality(InFlight(r)) \in Nat
          /\ Cardinality(InFlight(r)') \in Nat
          /\ Cardinality(InFlight(r)') = IF j \in InFlight(r)
                                         THEN Cardinality(InFlight(r)) - 1
                                         ELSE Cardinality(InFlight(r))
      BY <2>2, InFlightCount
    <3> QED
      BY <3>1
  <2>4. /\ transfer[r] \in Nat /\ paid[r] \in Nat /\ failures \in Nat
        /\ transfer[r] + Cardinality(InFlight(r)) <= paid[r]
        /\ paid[r] <= transfer[r] + Cardinality(InFlight(r)) + failures
    BY <1>1
  <2> QED
    BY <2>1, <2>3, <2>4
<1>7. ASSUME Replicate \/ Users \/ UNCHANGED vars PROVE LedgerMatchesRecords'
  <2>1. /\ job' = job /\ transfer' = transfer /\ paid' = paid /\ failures' = failures
    BY <1>7 DEF Replicate, Users, Track, BlacklistParticipant, Participate,
                RemoveParticipation, PayoutCampaignRewards, vars, database, ledger, bounds
  <2>2. \A r \in Rewards : InFlight(r)' = InFlight(r)
    BY <2>1 DEF InFlight, At
  <2> QED
    BY <2>1, <2>2 DEF LedgerMatchesRecords
<1> QED
  BY <1>2, <1>3, <1>4, <1>5, <1>6, <1>7 DEF Next, Step

\* However many jobs overlap and wherever they die, the records never claim a
\* payment that was not made, and the payments without a record number at most
\* the jobs about to write one plus the jobs that died (auditFunctions.ts, 178-183).
THEOREM LedgerAgrees == Spec => []LedgerMatchesRecords
<1>1. TypeInv => TypeOK
  BY DEF TypeInv
<1> QED
  BY <1>1, TypeInit, TypeNext, LedgerInit, LedgerNext, PTL DEF Spec

-----------------------------------------------------------------------------
(* One job at a time, and a replica that keeps up. *)

OneJob == \A i, j \in Jobs : i = j

\* What makes the look-up enough: no reward of the page at hand has a row yet, and
\* none ever has two.
NothingRecordedTwice ==
    /\ \A j \in Jobs : job[j].pc \in {"lookup", "record"} =>
          \A r \in job[j].batch : transfer[r] = 0
    /\ \A r \in Rewards : transfer[r] <= 1

LEMMA RecordedInit == Init => NothingRecordedTwice
BY DEF Init, NothingRecordedTwice, Idle, Fresh

\* A step that writes no row and leaves its job away from the look-up and the
\* payment keeps the rows single.
LEMMA RecordedKept ==
  ASSUME NothingRecordedTwice, NEW j \in Jobs,
         \A i \in Jobs \ {j} : job'[i] = job[i],
         \/ job'[j].pc \notin {"lookup", "record"}
         \/ \A r \in job'[j].batch : transfer[r] = 0,
         transfer' = transfer
  PROVE  NothingRecordedTwice'
BY DEF NothingRecordedTwice

LEMMA RecordedNext ==
  ASSUME OneJob, ~Lagging
  PROVE  TypeOK /\ NothingRecordedTwice /\ [Next]_vars => NothingRecordedTwice'
<1> SUFFICES ASSUME TypeOK, NothingRecordedTwice, [Next]_vars PROVE NothingRecordedTwice'
  OBVIOUS
<1>a. ASSUME NEW j \in Jobs
      PROVE  /\ job[j] \in JobState
             /\ \A local : Become(j, local) =>
                   job'[j] = local /\ \A i \in Jobs \ {j} : job'[i] = job[i]
  BY DEF TypeOK, Become
<1>b. \A label, todo, c, t : Fresh(label, todo, c, t).pc = label
  BY DEF Fresh
<1>1. ASSUME NEW j \in Jobs,
             \/ Select(j) \/ Exit(j) \/ InvalidType(j) \/ Throw(j) \/ Die(j) \/ CreatePayoutRow(j)
      PROVE  NothingRecordedTwice'
  <2>1. PICK label, todo : /\ label \in {"idle", "next"}
                          /\ Become(j, Fresh(label, todo, Nobody, 0))
    BY <1>1 DEF Select, Exit, InvalidType, Throw, Die, CreatePayoutRow, Forget, Idle
  <2>2. transfer' = transfer
    BY <1>1 DEF Select, Exit, InvalidType, Throw, Die, CreatePayoutRow, database
  <2> QED
    BY <1>a, <1>b, <2>1, <2>2, RecordedKept
<1>2. ASSUME NEW j \in Jobs, ReadCampaign(j) PROVE NothingRecordedTwice'
  <2>1. PICK c \in job[j].todo : Become(j, Fresh("unblock", job[j].todo \ {c}, c, total[c]))
    BY <1>2 DEF ReadCampaign
  <2>2. transfer' = transfer
    BY <1>2 DEF ReadCampaign, database
  <2> QED
    BY <1>a, <1>b, <2>1, <2>2, RecordedKept
<1>3. ASSUME NEW j \in Jobs,
             UnblockAccountBalance(j) \/ TransferFee(j) \/ SetAudited(j)
      PROVE  NothingRecordedTwice'
  <2>1. transfer' = transfer
    BY <1>3 DEF UnblockAccountBalance, TransferFee, SetAudited, database
  <2>2. PICK label \in {"count", "page", "payout"} : Become(j, [job[j] EXCEPT !.pc = label])
    BY <1>3 DEF UnblockAccountBalance, TransferFee, SetAudited
  <2>3. job'[j].pc = label
    BY <1>a, <2>2 DEF JobState
  <2> QED
    BY <1>a, <2>1, <2>2, <2>3, RecordedKept
<1>4. ASSUME NEW j \in Jobs, CountParticipants(j) PROVE NothingRecordedTwice'
  <2>1. PICK n : Become(j, [job[j] EXCEPT !.pc = "fee", !.pages = n])
    BY <1>4, Zenon DEF CountParticipants
  <2>2. job'[j].pc = "fee"
    <3>1. job'[j] = [job[j] EXCEPT !.pc = "fee", !.pages = n]
      BY <1>a, <2>1, Zenon
    <3> QED
      BY <1>a, <3>1 DEF JobState
  <2>3. transfer' = transfer
    BY <1>4 DEF CountParticipants, database
  <2> QED
    BY <1>a, <2>1, <2>2, <2>3, RecordedKept
<1>5. ASSUME NEW j \in Jobs, ReadPage(j) PROVE NothingRecordedTwice'
  <2>1. PICK rewards : Become(j, [job[j] EXCEPT !.pc = "lookup", !.batch = {},
                                               !.unseen = rewards])
    BY <1>5, Zenon DEF ReadPage
  <2>2. job'[j].batch = {}
    <3>1. job'[j] = [job[j] EXCEPT !.pc = "lookup", !.batch = {}, !.unseen = rewards]
      BY <1>a, <2>1, Zenon
    <3> QED
      BY <1>a, <3>1 DEF JobState
  <2>3. transfer' = transfer
    BY <1>5 DEF ReadPage, database
  <2> QED
    BY <1>a, <2>1, <2>2, <2>3, RecordedKept
<1>6. ASSUME NEW j \in Jobs, LookUp(j) PROVE NothingRecordedTwice'
  <2>1. PICK r \in job[j].unseen :
          Become(j, IF AlreadyTransferred(r)
                    THEN [job[j] EXCEPT !.unseen = @ \ {r}]
                    ELSE [job[j] EXCEPT !.unseen = @ \ {r}, !.batch = @ \cup {r},
                                        !.totalPayout = @ + Amount(r)])
    BY <1>6 DEF LookUp
  <2>2. r \in Rewards /\ transfer[r] \in Nat
    BY <1>a DEF JobState, TypeOK
  <2>3. \A q \in job[j].batch : transfer[q] = 0
    BY <1>6 DEF LookUp, At, NothingRecordedTwice
  <2>4. transfer' = transfer
    BY <1>6 DEF LookUp, database
  <2>5. CASE AlreadyTransferred(r)
    <3>1. job'[j].batch = job[j].batch
      BY <1>a, <2>1, <2>5 DEF JobState
    <3> QED
      BY <1>a, <2>1, <2>3, <2>4, <3>1, RecordedKept
  <2>6. CASE ~AlreadyTransferred(r)
    <3>1. transfer[r] = 0
      BY <2>2, <2>6 DEF AlreadyTransferred, SeenTransfer
    <3>2. job'[j].batch = job[j].batch \cup {r}
      <4>1. job'[j] = [job[j] EXCEPT !.unseen = @ \ {r}, !.batch = @ \cup {r},
                                     !.totalPayout = @ + Amount(r)]
        BY <1>a, <2>1, <2>6, Zenon
      <4> QED
        BY <1>a, <4>1 DEF JobState
    <3> QED
      BY <1>a, <2>1, <2>3, <2>4, <3>1, <3>2, RecordedKept
  <2> QED
    BY <2>5, <2>6
<1>7. ASSUME NEW j \in Jobs, TransferFundsBatch(j) PROVE NothingRecordedTwice'
  <2>1. /\ Become(j, [job[j] EXCEPT !.pc = "record"]) /\ job[j].pc = "lookup"
        /\ transfer' = transfer
    BY <1>7 DEF TransferFundsBatch, At, database
  <2>2. job'[j].batch = job[j].batch
    BY <1>a, <2>1 DEF JobState
  <2>3. \A r \in job[j].batch : transfer[r] = 0
    BY <2>1 DEF NothingRecordedTwice
  <2> QED
    BY <1>a, <2>1, <2>2, <2>3, RecordedKept
<1>8. ASSUME NEW j \in Jobs, CreateTransfers(j) PROVE NothingRecordedTwice'
  <2>1. /\ Become(j, [job[j] EXCEPT !.pc = "page", !.pages = @ - 1, !.skip = @ + PageSize])
        /\ job[j].pc = "record"
        /\ transfer' = [r \in Rewards |-> IF r \in job[j].batch THEN transfer[r] + 1
                                                                 ELSE transfer[r]]
    BY <1>8 DEF CreateTransfers, At
  <2>2. job'[j].pc = "page"
    <3>1. job'[j] = [job[j] EXCEPT !.pc = "page", !.pages = @ - 1, !.skip = @ + PageSize]
      BY <1>a, <2>1, Zenon
    <3> QED
      BY <1>a, <3>1 DEF JobState
  <2>3. \A i \in Jobs : i = j
    BY DEF OneJob
  <2>4. \A r \in Rewards : transfer'[r] <= 1
    BY <2>1 DEF NothingRecordedTwice
  <2> QED
    BY <2>2, <2>3, <2>4 DEF NothingRecordedTwice
<1>9. ASSUME Replicate \/ Users \/ UNCHANGED vars PROVE NothingRecordedTwice'
  <2>1. job' = job /\ transfer' = transfer
    BY <1>9 DEF Replicate, Users, Track, BlacklistParticipant, Participate,
                RemoveParticipation, PayoutCampaignRewards, vars, database
  <2> QED
    BY <2>1 DEF NothingRecordedTwice
<1> QED
  BY <1>1, <1>2, <1>3, <1>4, <1>5, <1>6, <1>7, <1>8, <1>9 DEF Next, Step

\* No reward that has a row is paid: the only step that pays is the batch call, and
\* what is in the batch has none.
LEMMA PaidWhileUnrecorded ==
  TypeOK /\ NothingRecordedTwice /\ [Next]_vars
    => [\A r \in Rewards : transfer[r] > 0 => paid'[r] = paid[r]]_vars
<1> SUFFICES ASSUME TypeOK, NothingRecordedTwice, Next, NEW r \in Rewards, transfer[r] > 0
             PROVE  paid'[r] = paid[r]
  BY DEF vars, ledger
<1>1. ASSUME NEW j \in Jobs, TransferFundsBatch(j) PROVE paid'[r] = paid[r]
  <2>1. r \notin job[j].batch
    BY <1>1 DEF TransferFundsBatch, At, NothingRecordedTwice
  <2> QED
    BY <1>1, <2>1 DEF TransferFundsBatch, BatchTransfer, MoveFunds
<1>2. ASSUME NEW j \in Jobs, Step(j) \/ Die(j), ~TransferFundsBatch(j) PROVE paid' = paid
  BY <1>2 DEF Step, Die, Select, ReadCampaign, Exit, InvalidType, UnblockAccountBalance,
              CountParticipants, TransferFee, ReadPage, LookUp, CreateTransfers, SetAudited,
              CreatePayoutRow, Throw, ledger
<1>3. ASSUME Replicate \/ Users PROVE paid' = paid
  BY <1>3 DEF Replicate, Users, Track, BlacklistParticipant, Participate,
              RemoveParticipation, PayoutCampaignRewards, ledger
<1> QED
  BY <1>1, <1>2, <1>3 DEF Next

\* With one job at a time and reads that see the last write, a reward on record is
\* never paid again, through any number of crashes, retries and reopened audits
\* (auditFunctions.ts, 157-178).
THEOREM RecordedRewardsAreFinal ==
  ASSUME OneJob, ~Lagging
  PROVE  Spec => RecordedIsFinal
<1>1. TypeInv => TypeOK
  BY DEF TypeInv
<1>2. TypeOK /\ NothingRecordedTwice /\ [Next]_vars => NothingRecordedTwice'
  BY RecordedNext
<1> QED
  BY <1>1, <1>2, TypeInit, TypeNext, RecordedInit, PaidWhileUnrecorded, PTL
  DEF Spec, RecordedIsFinal

\* Under the same conditions the excess over one payment is bounded by the number
\* of jobs that died.
THEOREM DuplicatesNeedFailures ==
  ASSUME OneJob, ~Lagging
  PROVE  Spec => []OverpaidOncePerFailure
<1>1. TypeInv => TypeOK
  BY DEF TypeInv
<1>2. TypeOK /\ NothingRecordedTwice /\ [Next]_vars => NothingRecordedTwice'
  BY RecordedNext
<1>3. TypeOK /\ LedgerMatchesRecords /\ NothingRecordedTwice => OverpaidOncePerFailure
  <2> SUFFICES ASSUME TypeOK, LedgerMatchesRecords, NothingRecordedTwice, NEW r \in Rewards
               PROVE  paid[r] <= 1 + failures
    BY DEF OverpaidOncePerFailure
  <2>1. /\ transfer[r] \in Nat /\ paid[r] \in Nat /\ failures \in Nat /\ transfer[r] <= 1
        /\ paid[r] <= transfer[r] + Cardinality(InFlight(r)) + failures
    BY BoundsAssumption DEF TypeOK, LedgerMatchesRecords, NothingRecordedTwice
  <2>2. CASE InFlight(r) = {}
    BY <2>1, <2>2, FS_EmptySet
  <2>3. ASSUME NEW j \in InFlight(r) PROVE paid[r] <= 1 + failures
    <3>1. InFlight(r) = {j}
      BY <2>3 DEF InFlight, OneJob
    <3>2. transfer[r] = 0
      BY <2>3 DEF InFlight, At, NothingRecordedTwice
    <3>3. Cardinality(InFlight(r)) = 1
      BY <3>1, FS_Singleton
    <3> QED
      BY <2>1, <3>2, <3>3
  <2> QED
    BY <2>2, <2>3
<1> QED
  BY <1>1, <1>2, <1>3, TypeInit, TypeNext, LedgerInit, LedgerNext, RecordedInit, PTL
  DEF Spec

-----------------------------------------------------------------------------
(* The audit implements AtLeastOncePayout. *)

\* Nobody earns, joins, leaves or is blacklisted meanwhile; reopening is allowed.
ScoresStandStill == Kinds \subseteq {"reopen"}

StillInv ==
    /\ member = Members0 /\ score = Score0 /\ total = Total0
    /\ blacklist = [c \in Campaigns |-> {}]

\* The place of a participant in a set, in the order in which pages are cut.
PlaceIn(S, p) == Cardinality({q \in S : q <= p})

\* Places count from one to the number of those who have one.
LEMMA PlaceBounds ==
  ASSUME NEW S \in SUBSET Participants, NEW p \in S
  PROVE  /\ IsFiniteSet(S) /\ Cardinality(S) \in Nat
         /\ PlaceIn(S, p) \in Nat /\ 1 <= PlaceIn(S, p) /\ PlaceIn(S, p) <= Cardinality(S)
<1> DEFINE before == {q \in S : q <= p}
<1>1. IsFiniteSet(S) /\ Cardinality(S) \in Nat
  BY ParticipantsAssumption, FS_Subset, FS_CardinalityType
<1>2. p \in Nat
  BY ParticipantsAssumption
<1>3. before \subseteq S /\ p \in before
  BY <1>2
<1> HIDE DEF before
<1>4. IsFiniteSet(before) /\ Cardinality(before) <= Cardinality(S)
  BY <1>1, <1>3, FS_Subset
<1>5. Cardinality(before) \in Nat /\ Cardinality(before) # 0
  BY <1>3, <1>4, FS_CardinalityType, FS_EmptySet
<1> QED
  BY <1>1, <1>4, <1>5 DEF PlaceIn, before

Place(c, p) == PlaceIn(Members0[c], p)

Owes(c, p) == Reward0(c, p) \in Positive
OnRecord(c, p) == transfer[Reward0(c, p)] > 0

\* What a job has done for its campaign: the pages behind it are on record, the page at hand
\* is on record, still to be looked up, or in the batch, and the pages ahead reach the last
\* participant.
AheadOf(c, l) == l.skip + l.pages * PageSize >= Cardinality(Members0[c])

Progress(l) ==
    LET c == l.cur
    IN  /\ l.pc \notin {"idle", "next", "payout"} => l.snapshot = Total0[c]
        /\ l.pc \in {"unblock", "count", "fee"} => l.skip = 0
        /\ l.pc \in {"fee", "page", "lookup", "record"} => AheadOf(c, l)
        /\ l.pc \in {"page", "lookup", "record"} =>
              \A p \in Members0[c] : Place(c, p) <= l.skip /\ Owes(c, p) => OnRecord(c, p)
        /\ l.pc \in {"lookup", "record"} =>
              \A p \in Members0[c] : l.skip < Place(c, p) /\ Place(c, p) <= l.skip + PageSize /\ Owes(c, p)
                  => OnRecord(c, p) \/ Reward0(c, p) \in l.unseen \cup l.batch
        /\ l.pc = "record" => l.unseen = {}

ProgressInv == StillInv /\ \A j \in Jobs : Progress(job[j])

LEMMA PagesReach == \A n \in Nat : PageCount(n) * PageSize >= n /\ PageCount(n) \in Nat
<1>1. PageSize \in Nat \ {0}
  BY BoundsAssumption
<1>2. ASSUME NEW n \in Nat, NEW m \in Nat, NEW k \in Nat \ {0}, m = n + k - 1
      PROVE  (m \div k) * k >= n
  <2>1. m < k * (m \div k) + k /\ m \div k \in Nat
    OBVIOUS
  <2>2. k * (m \div k) = (m \div k) * k /\ (m \div k) * k \in Nat
    BY <2>1
  <2> QED
    BY <1>2, <2>1, <2>2
<1>3. ASSUME NEW n \in Nat PROVE PageCount(n) * PageSize >= n
  <2>1. n + PageSize - 1 \in Nat
    BY <1>1
  <2> QED
    BY <1>1, <1>2, <2>1 DEF PageCount
<1> QED
  BY <1>3, PageCountNat

\* Every participant has a place, from the first to the number of participants.
LEMMA PlacesCounted ==
  ASSUME NEW c \in Campaigns
  PROVE  /\ Cardinality(Members0[c]) \in Nat
         /\ \A p \in Members0[c] :
               /\ Place(c, p) \in Nat /\ 1 <= Place(c, p)
               /\ Place(c, p) <= Cardinality(Members0[c])
<1>1. Members0[c] \in SUBSET Participants
  BY ParticipantsAssumption
<1>2. Cardinality(Members0[c]) \in Nat
  BY <1>1, ParticipantsAssumption, FS_Subset, FS_CardinalityType
<1> QED
  BY <1>1, <1>2, PlaceBounds DEF Place

\* While scores stand still a page is a stretch of the places.
LEMMA PageOfPlaces ==
  ASSUME StillInv, NEW c \in Campaigns, NEW skip \in Nat
  PROVE  /\ Eligible(c) = Members0[c]
         /\ Page(c, skip) = {p \in Members0[c] : skip < Place(c, p) /\ Place(c, p) <= skip + PageSize}
<1>1. Eligible(c) = Members0[c]
  BY DEF StillInv, Eligible
<1>2. PageSize \in Nat
  BY BoundsAssumption
<1>3. Page(c, skip) = {p \in Members0[c] : Place(c, p) \in skip + 1 .. skip + PageSize}
  BY <1>1 DEF Page, Place, PlaceIn
<1>4. \A p \in Members0[c] : Place(c, p) \in Nat
  BY PlacesCounted
<1> QED
  BY <1>1, <1>2, <1>3, <1>4

\* What a job shares out is what the campaign owes.
LEMMA SharesAreOwed ==
  ASSUME StillInv, NEW j \in Jobs, job[j].cur \in Campaigns, job[j].snapshot = Total0[job[j].cur]
  PROVE  SharesOfPage(j) = {Reward0(job[j].cur, p) : p \in Page(job[j].cur, job[j].skip)}
BY DEF SharesOfPage, Reward0, StillInv

LEMMA ProgressInit == Init => ProgressInv
BY DEF Init, ProgressInv, StillInv, Progress, Idle, Fresh

\* Rows are only added, so what other jobs have done stays done.
LEMMA ProgressKept ==
  ASSUME TypeOK, ProgressInv, NEW j \in Jobs,
         \A i \in Jobs \ {j} : job'[i] = job[i],
         UNCHANGED <<member, score, total, blacklist>>,
         \A r \in Rewards : transfer[r] > 0 => transfer'[r] > 0,
         Progress(job[j])'
  PROVE  ProgressInv'
<1>1. \A c, p : Owes(c, p) /\ OnRecord(c, p) => OnRecord(c, p)'
  BY DEF Owes, OnRecord, Positive
<1>2. \A i \in Jobs \ {j} : Progress(job[i])'
  BY <1>1 DEF ProgressInv, Progress, AheadOf
<1>3. StillInv'
  BY DEF ProgressInv, StillInv
<1> QED
  BY <1>2, <1>3 DEF ProgressInv

LEMMA ProgressOfJob ==
  ASSUME TypeOK, ProgressInv, NEW j \in Jobs, NEW local, Become(j, local),
         UNCHANGED <<member, score, total, blacklist, transfer>>, Progress(local)
  PROVE  ProgressInv'
<1>1. job'[j] = local /\ \A i \in Jobs \ {j} : job'[i] = job[i]
  BY DEF TypeOK, Become
<1>2. Progress(job[j])'
  BY <1>1 DEF Progress, AheadOf, OnRecord
<1> QED
  BY <1>1, <1>2, ProgressKept

LEMMA ProgressNext ==
  ASSUME ScoresStandStill, ~Lagging
  PROVE  TypeInv /\ ProgressInv /\ [Next]_vars => ProgressInv'
<1> SUFFICES ASSUME TypeInv, ProgressInv, [Next]_vars PROVE ProgressInv'
  OBVIOUS
<1>t. TypeOK
  BY DEF TypeInv
<1>a. ASSUME NEW j \in Jobs
      PROVE  /\ job[j] \in JobState /\ Progress(job[j])
             /\ job[j].pc \notin {"idle", "next"} => job[j].cur \in Campaigns
  BY <1>t DEF TypeOK, ProgressInv, JobState
<1>s. PageSize \in Nat \ {0}
  BY BoundsAssumption
<1>1. ASSUME NEW j \in Jobs,
             \/ Select(j) \/ Exit(j) \/ InvalidType(j) \/ Throw(j) \/ Die(j) \/ CreatePayoutRow(j)
      PROVE  ProgressInv'
  <2>1. PICK label, todo : /\ label \in {"idle", "next"}
                          /\ Become(j, Fresh(label, todo, Nobody, 0))
    BY <1>1 DEF Select, Exit, InvalidType, Throw, Die, CreatePayoutRow, Forget, Idle
  <2>2. UNCHANGED <<member, score, total, blacklist, transfer>>
    BY <1>1 DEF Select, Exit, InvalidType, Throw, Die, CreatePayoutRow, database
  <2>3. Progress(Fresh(label, todo, Nobody, 0))
    BY <2>1 DEF Fresh, Progress
  <2> QED
    BY <1>t, <2>1, <2>2, <2>3, ProgressOfJob
<1>2. ASSUME NEW j \in Jobs, ReadCampaign(j) PROVE ProgressInv'
  <2>1. PICK c \in job[j].todo : Become(j, Fresh("unblock", job[j].todo \ {c}, c, total[c]))
    BY <1>2 DEF ReadCampaign
  <2>2. UNCHANGED <<member, score, total, blacklist, transfer>>
    BY <1>2 DEF ReadCampaign, database
  <2>3. total[c] = Total0[c]
    BY DEF ProgressInv, StillInv
  <2>4. Progress(Fresh("unblock", job[j].todo \ {c}, c, total[c]))
    BY <2>3 DEF Fresh, Progress
  <2> QED
    BY <1>t, <2>1, <2>2, <2>4, ProgressOfJob
<1>3. ASSUME NEW j \in Jobs, UnblockAccountBalance(j) \/ SetAudited(j) PROVE ProgressInv'
  <2>1. PICK label \in {"count", "payout"} : /\ Become(j, [job[j] EXCEPT !.pc = label])
                                             /\ label = "count" => job[j].pc = "unblock"
    BY <1>3 DEF UnblockAccountBalance, SetAudited, At
  <2> DEFINE local == [job[j] EXCEPT !.pc = label]
  <2>2. /\ local.pc = label /\ local.cur = job[j].cur /\ local.snapshot = job[j].snapshot
        /\ local.skip = job[j].skip
    BY <1>a DEF JobState
  <2> HIDE DEF local
  <2>3. Progress(local)
    BY <1>a, <2>1, <2>2 DEF Progress
  <2>4. UNCHANGED <<member, score, total, blacklist, transfer>>
    BY <1>3 DEF UnblockAccountBalance, SetAudited, database
  <2> QED
    BY <1>t, <2>1, <2>3, <2>4, ProgressOfJob DEF local
<1>4. ASSUME NEW j \in Jobs, CountParticipants(j) PROVE ProgressInv'
  <2> DEFINE c == job[j].cur
             n == PageCount(Cardinality(Eligible(c)))
             local == [job[j] EXCEPT !.pc = "fee", !.pages = n]
  <2>1. Become(j, local) /\ job[j].pc = "count" /\ UNCHANGED <<member, score, total, blacklist, transfer>>
    BY <1>4 DEF CountParticipants, At, database
  <2>2. c \in Campaigns /\ job[j].skip = 0 /\ job[j].snapshot = Total0[c]
    BY <1>a, <2>1 DEF Progress
  <2>3. n = PageCount(Cardinality(Members0[c]))
    BY <2>2 DEF ProgressInv, StillInv, Eligible
  <2>4. n * PageSize >= Cardinality(Members0[c]) /\ n * PageSize \in Nat
    <3>1. Cardinality(Members0[c]) \in Nat
      BY <2>2, PlacesCounted
    <3>2. n \in Nat /\ n * PageSize >= Cardinality(Members0[c])
      BY <2>3, <3>1, PagesReach
    <3> QED
      BY <1>s, <3>2
  <2> HIDE DEF n
  <2>5. /\ local.pc = "fee" /\ local.cur = c /\ local.snapshot = job[j].snapshot
        /\ local.skip = job[j].skip /\ local.pages = n
    BY <1>a DEF JobState
  <2> HIDE DEF local, c
  <2>6. AheadOf(c, local)
    BY <2>2, <2>4, <2>5 DEF AheadOf
  <2>7. Progress(local)
    BY <2>2, <2>5, <2>6 DEF Progress
  <2> QED
    BY <1>t, <2>1, <2>7, ProgressOfJob
<1>5. ASSUME NEW j \in Jobs, TransferFee(j) PROVE ProgressInv'
  <2> DEFINE c == job[j].cur
             local == [job[j] EXCEPT !.pc = "page"]
  <2>1. Become(j, local) /\ job[j].pc = "fee" /\ UNCHANGED <<member, score, total, blacklist, transfer>>
    BY <1>5 DEF TransferFee, At, database
  <2>2. c \in Campaigns /\ job[j].skip = 0 /\ job[j].snapshot = Total0[c] /\ AheadOf(c, job[j])
    BY <1>a, <2>1 DEF Progress
  <2>3. /\ local.pc = "page" /\ local.cur = c /\ local.snapshot = job[j].snapshot
        /\ local.skip = job[j].skip /\ local.pages = job[j].pages
    BY <1>a DEF JobState
  <2> HIDE DEF local, c
  <2>4. \A p \in Members0[c] : ~(Place(c, p) <= 0)
    BY <2>2, PlacesCounted
  <2>5. Progress(local)
    BY <2>2, <2>3, <2>4 DEF Progress, AheadOf
  <2> QED
    BY <1>t, <2>1, <2>5, ProgressOfJob
<1>6. ASSUME NEW j \in Jobs, ReadPage(j) PROVE ProgressInv'
  <2> DEFINE c == job[j].cur
             shares == SharesOfPage(j) \cap Positive
             local == [job[j] EXCEPT !.pc = "lookup", !.batch = {}, !.unseen = shares]
  <2>1. Become(j, local) /\ job[j].pc = "page" /\ UNCHANGED <<member, score, total, blacklist, transfer>>
    BY <1>6 DEF ReadPage, At, database
  <2>2. c \in Campaigns /\ job[j].snapshot = Total0[c] /\ AheadOf(c, job[j])
        /\ (\A p \in Members0[c] : Place(c, p) <= job[j].skip /\ Owes(c, p) => OnRecord(c, p))
    BY <1>a, <2>1 DEF Progress
  <2>3. job[j].skip \in Nat
    BY <1>a DEF JobState
  <2>4. \A p \in Members0[c] : job[j].skip < Place(c, p) /\ Place(c, p) <= job[j].skip + PageSize /\ Owes(c, p)
                                => Reward0(c, p) \in shares
    <3>1. SharesOfPage(j) = {Reward0(c, p) : p \in Page(c, job[j].skip)}
      BY <2>2, SharesAreOwed DEF ProgressInv
    <3>2. Page(c, job[j].skip)
             = {p \in Members0[c] : job[j].skip < Place(c, p) /\ Place(c, p) <= job[j].skip + PageSize}
      BY <2>2, <2>3, PageOfPlaces DEF ProgressInv
    <3> QED
      BY <3>1, <3>2 DEF Owes
  <2> HIDE DEF shares
  <2>5. /\ local.pc = "lookup" /\ local.cur = c /\ local.snapshot = job[j].snapshot
        /\ local.skip = job[j].skip /\ local.pages = job[j].pages
        /\ local.unseen = shares /\ local.batch = {}
    BY <1>a DEF JobState
  <2> HIDE DEF local, c
  <2>6. Progress(local)
    BY <2>2, <2>4, <2>5 DEF Progress, AheadOf
  <2> QED
    BY <1>t, <2>1, <2>6, ProgressOfJob
<1>7. ASSUME NEW j \in Jobs, LookUp(j) PROVE ProgressInv'
  <2> DEFINE c == job[j].cur
  <2>1. PICK r \in job[j].unseen :
          Become(j, IF AlreadyTransferred(r)
                    THEN [job[j] EXCEPT !.unseen = @ \ {r}]
                    ELSE [job[j] EXCEPT !.unseen = @ \ {r}, !.batch = @ \cup {r},
                                        !.totalPayout = @ + Amount(r)])
    BY <1>7 DEF LookUp
  <2>2. job[j].pc = "lookup" /\ UNCHANGED <<member, score, total, blacklist, transfer>>
    BY <1>7 DEF LookUp, At, database
  <2>3. PICK local : /\ Become(j, local) /\ local.pc = "lookup" /\ local.cur = c
                     /\ local.snapshot = job[j].snapshot /\ local.skip = job[j].skip
                     /\ local.pages = job[j].pages /\ local.unseen = job[j].unseen \ {r}
                     /\ transfer[r] > 0 \/ r \in local.batch
                     /\ job[j].batch \subseteq local.batch
    <3>1. CASE AlreadyTransferred(r)
      <4> DEFINE local == [job[j] EXCEPT !.unseen = @ \ {r}]
      <4>1. transfer[r] > 0
        BY <3>1 DEF AlreadyTransferred, SeenTransfer
      <4>2. /\ local.pc = "lookup" /\ local.cur = c
            /\ local.snapshot = job[j].snapshot /\ local.skip = job[j].skip
            /\ local.pages = job[j].pages /\ local.unseen = job[j].unseen \ {r}
            /\ local.batch = job[j].batch
        BY <1>a, <2>2 DEF JobState
      <4>3. Become(j, local)
        BY <2>1, <3>1, Zenon
      <4> QED
        BY <4>1, <4>2, <4>3
    <3>2. CASE ~AlreadyTransferred(r)
      <4> DEFINE n == job[j].totalPayout + Amount(r)
                 local == [job[j] EXCEPT !.unseen = @ \ {r}, !.batch = @ \cup {r}, !.totalPayout = n]
      <4>1. Become(j, local)
        BY <2>1, <3>2, Zenon
      <4> HIDE DEF n
      <4>2. /\ local.pc = "lookup" /\ local.cur = c
            /\ local.snapshot = job[j].snapshot /\ local.skip = job[j].skip
            /\ local.pages = job[j].pages /\ local.unseen = job[j].unseen \ {r}
            /\ local.batch = job[j].batch \cup {r}
        BY <1>a, <2>2 DEF JobState
      <4> QED
        BY <4>1, <4>2
    <3> QED
      BY <3>1, <3>2
  <2>4. Progress(job[j])
    BY <1>a
  <2> HIDE DEF c
  <2>5. Progress(local)
    BY <2>2, <2>3, <2>4 DEF Progress, AheadOf, OnRecord, c
  <2> QED
    BY <1>t, <2>2, <2>3, <2>5, ProgressOfJob
<1>8. ASSUME NEW j \in Jobs, TransferFundsBatch(j) PROVE ProgressInv'
  <2> DEFINE local == [job[j] EXCEPT !.pc = "record"]
  <2>1. /\ Become(j, local) /\ job[j].pc = "lookup" /\ job[j].unseen = {}
        /\ UNCHANGED <<member, score, total, blacklist, transfer>>
    BY <1>8 DEF TransferFundsBatch, At, database
  <2>2. /\ local.pc = "record" /\ local.cur = job[j].cur /\ local.snapshot = job[j].snapshot
        /\ local.skip = job[j].skip /\ local.pages = job[j].pages
        /\ local.unseen = job[j].unseen /\ local.batch = job[j].batch
    BY <1>a DEF JobState
  <2> HIDE DEF local
  <2>3. Progress(local)
    BY <1>a, <2>1, <2>2 DEF Progress, AheadOf
  <2> QED
    BY <1>t, <2>1, <2>3, ProgressOfJob
<1>9. ASSUME NEW j \in Jobs, CreateTransfers(j) PROVE ProgressInv'
  <2> DEFINE c == job[j].cur
             local == [job[j] EXCEPT !.pc = "page", !.pages = @ - 1, !.skip = @ + PageSize]
  <2>1. /\ Become(j, local) /\ job[j].pc = "record"
        /\ transfer' = [r \in Rewards |-> IF r \in job[j].batch THEN transfer[r] + 1 ELSE transfer[r]]
        /\ UNCHANGED <<member, score, total, blacklist>>
    BY <1>9 DEF CreateTransfers, At
  <2>2. /\ local.pc = "page" /\ local.cur = c /\ local.snapshot = job[j].snapshot
        /\ local.skip = job[j].skip + PageSize /\ local.pages = job[j].pages - 1
    BY <1>a DEF JobState
  <2>3. job'[j] = local /\ \A i \in Jobs \ {j} : job'[i] = job[i]
    BY <1>t, <2>1 DEF TypeOK, Become
  <2> HIDE DEF local
  <2>4. \A r \in Rewards : /\ transfer[r] > 0 => transfer'[r] > 0
                           /\ r \in job[j].batch => transfer'[r] > 0
    BY <1>t, <2>1 DEF TypeOK
  <2>5. Progress(job[j]) /\ c \in Campaigns /\ job[j].unseen = {}
    BY <1>a, <2>1 DEF Progress
  <2>6. AheadOf(c, local)
    <3>1. job[j].pages \in Nat /\ job[j].skip \in Nat
      BY <1>a DEF JobState
    <3> DEFINE ahead == job[j].pages * PageSize
               left == (job[j].pages - 1) * PageSize
    <3>2. left = ahead - PageSize /\ ahead \in Int
      BY <1>s, <3>1
    <3>3. job[j].skip + ahead >= Cardinality(Members0[c])
      BY <2>1, <2>5 DEF Progress, AheadOf
    <3>4. Cardinality(Members0[c]) \in Nat
      BY <2>5, PlacesCounted
    <3> HIDE DEF ahead, left
    <3>5. (job[j].skip + PageSize) + left >= Cardinality(Members0[c])
      BY <1>s, <3>1, <3>2, <3>3, <3>4
    <3> DEFINE reach == local.skip + local.pages * PageSize
    <3>6. reach = (job[j].skip + PageSize) + left
      BY <2>2, Zenon DEF left
    <3>7. AheadOf(c, local) <=> reach >= Cardinality(Members0[c])
      BY Zenon DEF AheadOf
    <3> HIDE DEF reach
    <3>8. reach >= Cardinality(Members0[c])
      BY <3>5, <3>6
    <3> QED
      BY <3>7, <3>8
  <2>7. \A p \in Members0[c] : Place(c, p) <= local.skip /\ Owes(c, p) => transfer'[Reward0(c, p)] > 0
    <3> SUFFICES ASSUME NEW p \in Members0[c], Place(c, p) <= local.skip, Owes(c, p)
                 PROVE  transfer'[Reward0(c, p)] > 0
      OBVIOUS
    <3>1. Place(c, p) \in Nat /\ job[j].skip \in Nat /\ Reward0(c, p) \in Rewards
      BY <1>a, <2>5, PlacesCounted DEF JobState, Owes, Positive
    <3>2. CASE Place(c, p) <= job[j].skip
      BY <2>1, <2>4, <2>5, <3>1, <3>2 DEF Progress, OnRecord
    <3>3. CASE job[j].skip < Place(c, p)
      BY <2>1, <2>2, <2>4, <2>5, <3>1, <3>3 DEF Progress, OnRecord
    <3> QED
      BY <3>1, <3>2, <3>3
  <2>8. Progress(job[j])'
    BY <2>1, <2>2, <2>3, <2>5, <2>6, <2>7 DEF Progress, AheadOf, OnRecord
  <2> QED
    BY <1>t, <2>1, <2>3, <2>4, <2>8, ProgressKept
<1>10. CASE Replicate \/ Users \/ UNCHANGED vars
  <2>1. UNCHANGED <<member, score, total, blacklist, transfer, job>>
    BY <1>10 DEF ScoresStandStill, Replicate, Users, Traffic, Track, BlacklistParticipant, Participate,
                RemoveParticipation, PayoutCampaignRewards, vars, database
  <2> QED
    BY <2>1 DEF ProgressInv, StillInv, Progress, AheadOf, OnRecord
<1> QED
  BY <1>1, <1>2, <1>3, <1>4, <1>5, <1>6, <1>7, <1>8, <1>9, <1>10 DEF Next, Step

\* A campaign is closed when everybody who is owed something is on record.
LEMMA ClosedIsSettled ==
  ASSUME TypeOK, ProgressInv, NEW j \in Jobs, SetAudited(j)
  PROVE  job[j].cur \in Campaigns /\ \A r \in Owed[job[j].cur] : transfer[r] > 0
<1> DEFINE c == job[j].cur
<1>1. job[j] \in JobState /\ job[j].pc = "page" /\ job[j].pages = 0 /\ Progress(job[j])
  BY DEF SetAudited, At, TypeOK, ProgressInv
<1>2. c \in Campaigns
  BY <1>1 DEF TypeOK, JobState
<1>3. job[j].skip \in Nat /\ Cardinality(Members0[c]) \in Nat /\ PageSize \in Nat
  BY <1>1, <1>2, PlacesCounted, BoundsAssumption DEF JobState
<1>4. job[j].skip >= Cardinality(Members0[c])
  BY <1>1, <1>3 DEF Progress, AheadOf
<1>5. \A p \in Members0[c] : Place(c, p) <= job[j].skip
  BY <1>2, <1>3, <1>4, PlacesCounted
<1>6. \A p \in Members0[c] : Reward0(c, p) \in Positive => transfer[Reward0(c, p)] > 0
  BY <1>1, <1>5 DEF Progress, Owes, OnRecord
<1>7. Owed[c] = {Reward0(c, p) : p \in Members0[c]} \cap Positive
  BY <1>2 DEF Owed
<1> QED
  BY <1>2, <1>6, <1>7

LEMMA ContractInit == Init => Contract!Init
<1> SUFFICES ASSUME Init PROVE Contract!Init
  OBVIOUS
<1>1. {r \in Rewards : transfer[r] > 0} = {} /\ {c \in Campaigns : auditStatus[c] = "AUDITED"} = {}
  BY DEF Init
<1> QED
  BY <1>1 DEF Init, Contract!Init

\* The step of the audit and the step of the contract: the batch call pays, the rows settle,
\* AUDITED closes, an admin reopens; nothing else shows.
LEMMA ContractNext ==
  ASSUME OneJob, ~Lagging
  PROVE  TypeOK /\ LedgerMatchesRecords' /\ TypeOK' /\ NothingRecordedTwice /\ ProgressInv /\ [Next]_vars
            => [Contract!Next]_Contract!vars
<1> SUFFICES ASSUME TypeOK, LedgerMatchesRecords', TypeOK', NothingRecordedTwice, ProgressInv, [Next]_vars
             PROVE  Contract!Next \/ UNCHANGED Contract!vars
  OBVIOUS
<1>1. ASSUME NEW j \in Jobs, TransferFundsBatch(j) PROVE Contract!Pay
  <2>1. /\ paid' = [r \in Rewards |-> IF r \in job[j].batch THEN paid[r] + 1 ELSE paid[r]]
        /\ UNCHANGED <<transfer, auditStatus>>
    BY <1>1 DEF TransferFundsBatch, BatchTransfer, MoveFunds, database
  <2>2. \A r \in job[j].batch : transfer[r] = 0
    BY <1>1 DEF TransferFundsBatch, At, NothingRecordedTwice
  <2>3. paid' \in [Rewards -> Nat]
    BY DEF TypeOK
  <2>4. \A r \in Rewards : \/ paid'[r] = paid[r]
                           \/ r \notin {q \in Rewards : transfer[q] > 0} /\ paid'[r] = paid[r] + 1
    BY <2>1, <2>2
  <2> QED
    BY <2>1, <2>3, <2>4 DEF Contract!Pay
<1>2. ASSUME NEW j \in Jobs, CreateTransfers(j) PROVE Contract!Settle
  <2>1. /\ transfer' = [r \in Rewards |-> IF r \in job[j].batch THEN transfer[r] + 1 ELSE transfer[r]]
        /\ UNCHANGED <<paid, auditStatus>>
    BY <1>2 DEF CreateTransfers, ledger
  <2>2. \A r \in Rewards : transfer[r] > 0 => transfer'[r] > 0
    BY <2>1 DEF TypeOK
  <2>3. ASSUME NEW r \in Rewards, transfer'[r] > 0 PROVE paid[r] > 0
    <3>1. /\ transfer'[r] \in Nat /\ paid'[r] \in Nat
          /\ transfer'[r] + Cardinality(InFlight(r)') <= paid'[r]
      BY DEF TypeOK, LedgerMatchesRecords
    <3>2. Cardinality(InFlight(r)') \in Nat
      <4>1. InFlight(r)' \subseteq Jobs /\ IsFiniteSet(Jobs)
        BY CampaignsAssumption DEF InFlight
      <4> QED
        BY <4>1, FS_Subset, FS_CardinalityType
    <3> QED
      BY <2>1, <2>3, <3>1, <3>2
  <2>4. /\ {r \in Rewards : transfer'[r] > 0} \in SUBSET Rewards
        /\ {r \in Rewards : transfer[r] > 0} \subseteq {r \in Rewards : transfer'[r] > 0}
        /\ \A r \in {q \in Rewards : transfer'[q] > 0} : paid[r] > 0
    BY <2>2, <2>3
  <2> QED
    BY <2>1, <2>4 DEF Contract!Settle
<1>3. ASSUME NEW j \in Jobs, SetAudited(j) PROVE \E c \in Campaigns : Contract!Close(c)
  <2> DEFINE c == job[j].cur
  <2>1. c \in Campaigns /\ \A r \in Owed[c] : transfer[r] > 0
    BY <1>3, ClosedIsSettled
  <2>2. /\ auditStatus' = [auditStatus EXCEPT ![c] = "AUDITED"] /\ UNCHANGED <<paid, transfer>>
    BY <1>3 DEF SetAudited, ledger
  <2> HIDE DEF c
  <2>3. {d \in Campaigns : auditStatus'[d] = "AUDITED"} = {d \in Campaigns : auditStatus[d] = "AUDITED"} \cup {c}
    BY <2>1, <2>2 DEF TypeOK
  <2>4. Owed[c] \subseteq {r \in Rewards : transfer[r] > 0}
    BY <2>1 DEF Owed, Positive
  <2> QED
    BY <2>1, <2>2, <2>3, <2>4 DEF Contract!Close
<1>4. ASSUME NEW c \in Campaigns, PayoutCampaignRewards(c) PROVE Contract!Reopen(c)
  <2>1. auditStatus' = [auditStatus EXCEPT ![c] = "PENDING"] /\ UNCHANGED <<paid, transfer>>
    BY <1>4 DEF PayoutCampaignRewards, ledger
  <2>2. {d \in Campaigns : auditStatus'[d] = "AUDITED"} = {d \in Campaigns : auditStatus[d] = "AUDITED"} \ {c}
    BY <2>1 DEF TypeOK
  <2> QED
    BY <2>1, <2>2 DEF Contract!Reopen
<1>5. ASSUME UNCHANGED <<paid, transfer, auditStatus>> PROVE UNCHANGED Contract!vars
  BY <1>5 DEF Contract!vars
<1>6. ASSUME NEW j \in Jobs, Step(j) \/ Die(j),
             ~TransferFundsBatch(j), ~CreateTransfers(j), ~SetAudited(j)
      PROVE  UNCHANGED <<paid, transfer, auditStatus>>
  BY <1>6 DEF Step, Die, Select, ReadCampaign, Exit, InvalidType, UnblockAccountBalance,
              CountParticipants, TransferFee, ReadPage, LookUp, CreatePayoutRow, Throw, ledger, database
<1>7. ASSUME NEW c \in Campaigns, NEW p \in Participants,
             Track(c, p) \/ BlacklistParticipant(c, p) \/ Participate(c, p) \/ RemoveParticipation(c, p)
      PROVE  UNCHANGED <<paid, transfer, auditStatus>>
  BY <1>7 DEF Track, BlacklistParticipant, Participate, RemoveParticipation, ledger
<1>8. Replicate \/ UNCHANGED vars => UNCHANGED <<paid, transfer, auditStatus>>
  BY DEF Replicate, vars, ledger, database
<1> QED
  BY <1>1, <1>2, <1>3, <1>4, <1>5, <1>6, <1>7, <1>8 DEF Next, Users, Contract!Next

\* With one job at a time and reads that see the last write, and while scores stand still,
\* every step of the audit is one that the contract allows: only what is not on record is
\* paid, only what was paid is recorded, and a campaign is closed when all its pages together
\* have paid everybody who is owed something, through crashes and reopenings
\* (auditFunctions.ts, campaignAudit/index.ts).
THEOREM AuditKeepsContract ==
  ASSUME OneJob, ~Lagging, ScoresStandStill
  PROVE  Spec => ImplementsContract
<1>1. TypeInv => TypeOK
  BY DEF TypeInv
<1>2. TypeOK /\ NothingRecordedTwice /\ [Next]_vars => NothingRecordedTwice'
  BY RecordedNext
<1>3. TypeInv /\ ProgressInv /\ [Next]_vars => ProgressInv'
  BY ProgressNext
<1>4. TypeOK /\ LedgerMatchesRecords' /\ TypeOK' /\ NothingRecordedTwice /\ ProgressInv /\ [Next]_vars
        => [Contract!Next]_Contract!vars
  BY ContractNext
<1> QED
  BY <1>1, <1>2, <1>3, <1>4, TypeInit, TypeNext, LedgerInit, LedgerNext, RecordedInit, ProgressInit,
     ContractInit, PTL
  DEF Spec, ImplementsContract, Contract!Spec

-----------------------------------------------------------------------------
(* Who is missed when users come and go. *)

\* A set of naturals that is not empty has a first.
LEMMA FirstOfAll ==
  ASSUME NEW keys, keys \subseteq Nat, keys # {}
  PROVE  \E k \in keys : \A l \in keys : k <= l
<1> DEFINE less == {ss \in Nat \X Nat : ss[1] < ss[2]}
<1>1. IsWellFoundedOn(less, Nat)
  BY NatLessThanWellFounded, Zenon DEF OpToRel
<1>2. \A x, y \in Nat : y < x => <<y, x>> \in less
  OBVIOUS
<1> HIDE DEF less
<1>3. PICK k \in keys : \A l \in keys : <<l, k>> \notin less
  BY <1>1, WFMin, Zenon
<1>4. \A l \in keys : k \in Nat /\ l \in Nat /\ ~(l < k)
  BY <1>2, <1>3, Zenon
<1>5. \A l \in keys : k <= l
  BY <1>4
<1> QED
  BY <1>3, <1>5

LEMMA FirstIsIn ==
  ASSUME NEW keys, keys \subseteq Nat, keys # {}
  PROVE  FirstOf(keys) \in keys /\ \A l \in keys : FirstOf(keys) <= l
BY FirstOfAll DEF FirstOf

\* A tier table has tiers, one of which is reached.
LEMMA TopIsTier ==
  ASSUME NEW tiers, IsTierTable(tiers)
  PROVE  NumOfTiers(tiers) \in DOMAIN tiers
<1>1. tiers \in Seq(Tier) /\ Len(tiers) \in Nat /\ Len(tiers) # 0 /\ DOMAIN tiers = 1..Len(tiers)
  BY DEF IsTierTable
<1> DEFINE filled == {k \in DOMAIN tiers : tiers[k].filled}
<1>2. 1 \in filled /\ filled \subseteq 1..Len(tiers)
  BY <1>1 DEF IsTierTable
<1>3. IsFiniteSet(1..Len(tiers)) /\ Cardinality(1..Len(tiers)) = Len(tiers)
  BY <1>1, FS_Interval
<1> HIDE DEF filled
<1>4. IsFiniteSet(filled) /\ Cardinality(filled) <= Len(tiers)
  BY <1>2, <1>3, FS_Subset
<1>5. Cardinality(filled) \in Nat /\ Cardinality(filled) # 0
  BY <1>2, <1>4, FS_CardinalityType, FS_EmptySet
<1> QED
  BY <1>1, <1>4, <1>5 DEF NumOfTiers, filled

\* The tokens of the reached tier are a number, whatever the score.
LEMMA CoiinsAreNumber ==
  ASSUME NEW c \in Campaigns, NEW points
  PROVE  TierCoiins(c, points) \in Nat
<1> DEFINE tiers == Tiers[c]
           stops == StopsAt(points, tiers)
<1>1. IsTierTable(tiers) /\ NumOfTiers(tiers) \in DOMAIN tiers
  BY AmountsAssumption, TopIsTier
<1>2. tiers \in Seq(Tier) /\ Len(tiers) \in Nat /\ DOMAIN tiers = 1..Len(tiers)
  BY <1>1 DEF IsTierTable
<1>3. \A k \in DOMAIN tiers : TierAt(tiers, k).currentTotal \in Nat
  <2> SUFFICES ASSUME NEW k \in DOMAIN tiers PROVE tiers[k].totalCoiins \in Nat
    BY DEF TierAt
  <2>1. tiers[k] \in Tier
    BY <1>2
  <2> QED
    BY <2>1 DEF Tier
<1>4. stops \subseteq DOMAIN tiers /\ stops \subseteq Nat
  BY <1>2 DEF StopsAt
<1> HIDE DEF stops, tiers
<1>5. ASSUME stops # {} PROVE PreviousKey(FirstOf(stops)) \in DOMAIN tiers
  <2>1. FirstOf(stops) \in DOMAIN tiers
    BY <1>4, <1>5, FirstIsIn
  <2> QED
    BY <1>2, <2>1 DEF PreviousKey
<1>6. CalculateTier(points, tiers).currentTotal \in Nat
  BY <1>1, <1>3, <1>5 DEF CalculateTier, BaseTier, stops
<1> QED
  BY <1>6 DEF TierCoiins, tiers

\* Half up: twice a rounded quotient is within the divisor of twice the quotient.
LEMMA RoundsHalfUp ==
  ASSUME NEW t \in Nat \ {0}, NEW n \in Nat
  PROVE  LET q == (2 * n + t) \div (2 * t)
         IN  q \in Nat /\ 2 * (t * q) <= 2 * n + t /\ 2 * n < 2 * (t * q) + t
<1> DEFINE q == (2 * n + t) \div (2 * t)
<1>1. \A m \in Nat, d \in Nat \ {0} : m \div d \in Nat /\ d * (m \div d) <= m /\ m < d * (m \div d) + d
  OBVIOUS
<1>2. 2 * n + t \in Nat /\ 2 * t \in Nat \ {0}
  OBVIOUS
<1>3. q \in Nat /\ (2 * t) * q <= 2 * n + t /\ 2 * n + t < (2 * t) * q + 2 * t
  BY <1>1, <1>2
<1> HIDE DEF q
<1>4. (2 * t) * q = 2 * (t * q) /\ t * q \in Nat
  BY <1>3
<1>5. 2 * (t * q) <= 2 * n + t /\ 2 * n < 2 * (t * q) + t
  BY <1>3, <1>4
<1> QED
  BY <1>3, <1>5 DEF q

\* A share of a campaign's total, which the code calls a percentage, is a number.
LEMMA PercentageIsNumber ==
  ASSUME NEW t \in Nat \ {0}, NEW s \in Nat
  PROVE  /\ Percentage(t, s, Precision) \in Nat
         /\ 2 * (t * Percentage(t, s, Precision)) <= 2 * (s * Precision) + t
         /\ 2 * (s * Precision) < 2 * (t * Percentage(t, s, Precision)) + t
<1>1. s * Precision \in Nat /\ 2 * s * Precision = 2 * (s * Precision)
  BY BoundsAssumption
<1> DEFINE n == s * Precision
<1> HIDE DEF n
<1>2. Percentage(t, s, Precision) = (2 * n + t) \div (2 * t)
  BY <1>1 DEF Percentage, n
<1>3. n \in Nat
  BY <1>1 DEF n
<1> QED
  BY <1>2, <1>3, RoundsHalfUp DEF n

\* Who has no score has no share.
LEMMA NothingForNothing ==
  ASSUME NEW c \in Campaigns, NEW t \in Totals
  PROVE  Share(c, t, 0) = 0
<1>1. AfterFee(c, t) \in Int
  BY CoiinsAreNumber, BoundsAssumption DEF AfterFee, AfterCampaignFee
<1>2. t \in Nat
  BY ParticipantsAssumption
<1>3. t # 0 => Percentage(t, 0, Precision) = 0
  <2> SUFFICES ASSUME t # 0 PROVE Percentage(t, 0, Precision) = 0
    OBVIOUS
  <2> DEFINE q == Percentage(t, 0, Precision)
  <2>1. q \in Nat /\ 2 * (t * q) <= 2 * (0 * Precision) + t
    BY <1>2, PercentageIsNumber
  <2>2. 0 * Precision = 0
    BY BoundsAssumption
  <2> HIDE DEF q
  <2>3. \A m \in Nat : m # 0 => t <= t * m
    BY <1>2
  <2> QED
    BY <1>2, <2>1, <2>2, <2>3 DEF q
<1> QED
  BY <1>1, <1>3 DEF Share, CalculateParticipantPayout

\* Those who are owed a share and have not been paid any.
Unpaid(c) == {p \in Eligible(c) : /\ Share(c, total[c], score[c][p]) > 0
                                  /\ \A a \in Amounts : paid[<<c, p, a>>] = 0}

\* The unpaid that a job will not pay any more, since it has looked at all places up to seen
\* and will not look beyond end, unless they are among the named.
Overlooked(c, seen, end, named) ==
    {p \in Unpaid(c) : /\ PlaceIn(Eligible(c), p) <= seen \/ PlaceIn(Eligible(c), p) > end
                       /\ \A a \in Amounts : <<c, p, a>> \notin named}

\* The places a job has looked at, and those it will.
Seen(l) == IF l.pc \in {"lookup", "record"} THEN l.skip + PageSize ELSE l.skip
End(l) == l.skip + l.pages * PageSize

\* What a job knows of its campaign: the score it divides by, that what it has left behind is
\* paid, and that those it passes over are no more than there were changes.
Missing(l) ==
    /\ l.pc \notin {"idle", "next", "payout"} => l.snapshot = Total0[l.cur]
    /\ l.pc \in {"unblock", "count", "fee"} => l.skip = 0
    /\ l.pc \in {"unblock", "count", "fee", "page", "record"} =>
          l.unseen = {} /\ \A r \in l.batch : paid[r] > 0
    /\ l.pc \in {"fee", "page", "lookup", "record"} =>
          Cardinality(Overlooked(l.cur, Seen(l), End(l), l.unseen \cup l.batch)) <= traffic

MissedInv ==
    /\ total = Total0
    /\ \A r \in Rewards : transfer[r] > 0 \/ replica.transfer[r] > 0 => paid[r] > 0
    /\ \A c \in Campaigns : auditStatus[c] = "AUDITED" => Cardinality(Unpaid(c)) <= traffic
    /\ \A j \in Jobs : Missing(job[j])

\* No two share a place.
LEMMA PlacesDiffer ==
  ASSUME NEW S \in SUBSET Participants, NEW p \in S, NEW q \in S, PlaceIn(S, p) = PlaceIn(S, q)
  PROVE  p = q
<1> DEFINE before(x) == {y \in S : y <= x}
<1>1. IsFiniteSet(S) /\ p \in Nat /\ q \in Nat /\ S \subseteq Nat
  BY ParticipantsAssumption, FS_Subset
<1>2. p \in before(p) /\ q \in before(q) /\ before(p) \subseteq S /\ before(q) \subseteq S
  BY <1>1
<1>3. IsFiniteSet(before(p)) /\ IsFiniteSet(before(q))
  BY <1>1, <1>2, FS_Subset
<1>4. before(p) \subseteq before(q) \/ before(q) \subseteq before(p)
  <2>1. p <= q => \A y \in S : y <= p => y <= q
    BY <1>1
  <2>2. q <= p => \A y \in S : y <= q => y <= p
    BY <1>1
  <2>3. p <= q \/ q <= p
    BY <1>1
  <2> QED
    BY <2>1, <2>2, <2>3
<1>5. q \in before(p) /\ p \in before(q) => p = q
  BY <1>1
<1>6. Cardinality(before(p)) = Cardinality(before(q))
  BY DEF PlaceIn
<1> HIDE DEF before
<1>7. before(p) = before(q)
  BY <1>3, <1>4, <1>6, FS_Subset
<1> QED
  BY <1>2, <1>5, <1>7

\* At most one is at a place.
LEMMA OneAtAPlace ==
  ASSUME NEW S \in SUBSET Participants, NEW k
  PROVE  \E x : \A p \in S : PlaceIn(S, p) = k => p = x
<1>1. CASE \E x \in S : PlaceIn(S, x) = k
  <2>1. PICK x \in S : PlaceIn(S, x) = k
    BY <1>1
  <2>2. \A p \in S : PlaceIn(S, p) = k => p = x
    BY <2>1, PlacesDiffer
  <2> QED
    BY <2>2
<1>2. CASE ~\E x \in S : PlaceIn(S, x) = k
  BY <1>2
<1> QED
  BY <1>1, <1>2

\* Who leaves moves those behind up by one place.
LEMMA PlaceWithout ==
  ASSUME NEW S \in SUBSET Participants, NEW q \in S, NEW p \in S \ {q}
  PROVE  PlaceIn(S \ {q}, p) = PlaceIn(S, p) \/ PlaceIn(S \ {q}, p) = PlaceIn(S, p) - 1
<1> DEFINE before == {y \in S : y <= p}
           left == {y \in S \ {q} : y <= p}
<1>1. left = before \ {q} /\ before \subseteq S
  OBVIOUS
<1>2. IsFiniteSet(S)
  BY ParticipantsAssumption, FS_Subset
<1> HIDE DEF before, left
<1>3. IsFiniteSet(before)
  BY <1>1, <1>2, FS_Subset
<1>4. Cardinality(left) = Cardinality(before) \/ Cardinality(left) = Cardinality(before) - 1
  BY <1>1, <1>3, FS_RemoveElement
<1> QED
  BY <1>4 DEF PlaceIn, before, left

LEMMA OneMoreAtMost ==
  ASSUME NEW S, IsFiniteSet(S), NEW x, NEW T, T \subseteq S \cup {x}
  PROVE  Cardinality(T) \in Nat /\ Cardinality(T) <= Cardinality(S) + 1
<1>0. Cardinality(S) \in Nat
  BY FS_CardinalityType
<1>1. IsFiniteSet(S \cup {x}) /\ Cardinality(S \cup {x}) <= Cardinality(S) + 1
  BY <1>0, FS_AddElement
<1>2. IsFiniteSet(T) /\ Cardinality(T) <= Cardinality(S \cup {x})
  BY <1>1, FS_Subset
<1>3. Cardinality(T) \in Nat /\ Cardinality(S \cup {x}) \in Nat
  BY <1>1, <1>2, FS_CardinalityType
<1> QED
  BY <1>0, <1>1, <1>2, <1>3

\* The eligible and the unpaid among them are participants.
LEMMA UnpaidFinite ==
  ASSUME TypeOK, NEW c \in Campaigns
  PROVE  /\ Eligible(c) \in SUBSET Participants
         /\ IsFiniteSet(Unpaid(c)) /\ Cardinality(Unpaid(c)) \in Nat
         /\ \A seen, end, named : /\ IsFiniteSet(Overlooked(c, seen, end, named))
                                  /\ Cardinality(Overlooked(c, seen, end, named)) \in Nat
                                  /\ Cardinality(Overlooked(c, seen, end, named)) <= Cardinality(Unpaid(c))
<1>1. Eligible(c) \in SUBSET Participants
  BY DEF TypeOK, Eligible
<1>2. Unpaid(c) \subseteq Participants
  BY <1>1 DEF Unpaid
<1>3. IsFiniteSet(Unpaid(c)) /\ Cardinality(Unpaid(c)) \in Nat
  BY <1>2, ParticipantsAssumption, FS_Subset, FS_CardinalityType
<1>4. ASSUME NEW seen, NEW end, NEW named
      PROVE  /\ IsFiniteSet(Overlooked(c, seen, end, named))
             /\ Cardinality(Overlooked(c, seen, end, named)) \in Nat
             /\ Cardinality(Overlooked(c, seen, end, named)) <= Cardinality(Unpaid(c))
  <2>1. Overlooked(c, seen, end, named) \subseteq Unpaid(c)
    BY DEF Overlooked
  <2> QED
    BY <1>3, <2>1, FS_Subset, FS_CardinalityType
<1> QED
  BY <1>1, <1>3, <1>4


\* While rows stay and payments are only added nobody new is unpaid or overlooked.
LEMMA OverlookedShrinks ==
  ASSUME TypeOK, UNCHANGED <<member, blacklist, score, total>>,
         \A r \in Rewards : paid[r] > 0 => paid'[r] > 0,
         NEW c \in Campaigns
  PROVE  /\ Eligible(c)' = Eligible(c)
         /\ Unpaid(c)' \subseteq Unpaid(c)
         /\ \A seen, end, named :
               Overlooked(c, seen, end, named)' \subseteq Overlooked(c, seen, end, named)
<1>1. Eligible(c)' = Eligible(c) /\ Eligible(c) \subseteq Participants
  BY DEF Eligible, TypeOK
<1>2. ASSUME NEW p \in Participants, NEW a \in Amounts, paid'[<<c, p, a>>] = 0
      PROVE  paid[<<c, p, a>>] = 0
  <2>1. <<c, p, a>> \in Rewards
    BY DEF Rewards
  <2> DEFINE r == <<c, p, a>>
  <2>2. r \in Rewards /\ paid'[r] = 0
    BY <1>2, <2>1
  <2> HIDE DEF r
  <2>3. paid[r] = 0
    <3>1. paid \in [Rewards -> Nat]
      BY DEF TypeOK
    <3>2. paid[r] \in Nat /\ ~(paid'[r] > 0)
      BY <2>2, <3>1
    <3> QED
      BY <2>2, <3>2
  <2> QED
    BY <2>3 DEF r
<1>3. Unpaid(c)' \subseteq Unpaid(c)
  <2> SUFFICES ASSUME NEW p \in Unpaid(c)' PROVE p \in Unpaid(c)
    OBVIOUS
  <2>1. /\ p \in Eligible(c) /\ Share(c, total[c], score[c][p]) > 0
        /\ \A a \in Amounts : paid'[<<c, p, a>>] = 0
    <3>1. total' = total /\ score' = score
      OBVIOUS
    <3> QED
      BY <1>1, <3>1, Zenon DEF Unpaid
  <2>2. \A a \in Amounts : paid[<<c, p, a>>] = 0
    BY <1>1, <1>2, <2>1
  <2> QED
    BY <2>1, <2>2, Zenon DEF Unpaid
<1>4. ASSUME NEW seen, NEW end, NEW named
      PROVE  Overlooked(c, seen, end, named)' \subseteq Overlooked(c, seen, end, named)
  BY <1>1, <1>3, Zenon DEF Overlooked
<1> QED
  BY <1>1, <1>3, <1>4


\* What was known of a job stays known while rows stay and payments are only added.
LEMMA MissingKept ==
  ASSUME TypeOK, UNCHANGED <<member, blacklist, score, total, traffic>>,
         \A r \in Rewards : paid[r] > 0 => paid'[r] > 0,
         NEW l \in JobState, l.cur = Nobody => l.pc \in {"idle", "next"}, Missing(l)
  PROVE  Missing(l)'
<1> DEFINE over == Overlooked(l.cur, Seen(l), End(l), l.unseen \cup l.batch)
<1>1. l.batch \subseteq Rewards /\ l.cur \in Campaigns \cup {Nobody}
  BY DEF JobState
<1>2. ASSUME l.pc \in {"fee", "page", "lookup", "record"}
      PROVE  Cardinality(over') <= traffic
  <2>1. l.cur \in Campaigns
    BY <1>1, <1>2
  <2>2. Cardinality(over) <= traffic /\ IsFiniteSet(over) /\ Cardinality(over) \in Nat
    BY <1>2, <2>1, UnpaidFinite DEF Missing
  <2>3. over' \subseteq over
    BY <2>1, OverlookedShrinks, Zenon DEF Seen, End
  <2> HIDE DEF over
  <2>4. IsFiniteSet(over') /\ Cardinality(over') <= Cardinality(over)
    BY <2>2, <2>3, FS_Subset
  <2>5. Cardinality(over') \in Nat /\ traffic \in Int
    BY <2>4, FS_CardinalityType DEF TypeOK
  <2> QED
    BY <2>2, <2>4, <2>5
<1>3. /\ l.pc \notin {"idle", "next", "payout"} => l.snapshot = Total0[l.cur]
      /\ l.pc \in {"unblock", "count", "fee"} => l.skip = 0
      /\ l.pc \in {"unblock", "count", "fee", "page", "record"} =>
            l.unseen = {} /\ \A r \in l.batch : paid'[r] > 0
  BY <1>1 DEF Missing
<1>4. Cardinality(over') <= traffic' <=> Cardinality(over') <= traffic
  OBVIOUS
<1>5. over' = Overlooked(l.cur, Seen(l), End(l), l.unseen \cup l.batch)'
  OBVIOUS
<1> HIDE DEF over
<1> QED
  BY <1>2, <1>3, <1>4, <1>5, Zenon DEF Missing

\* A step of a job that only adds payments, and audits only when few are unpaid.
LEMMA MissedKept ==
  ASSUME TypeOK, MissedInv, NEW j \in Jobs,
         \A i \in Jobs \ {j} : job'[i] = job[i],
         UNCHANGED <<member, blacklist, score, total, traffic>>,
         \A r \in Rewards : paid[r] > 0 => paid'[r] > 0,
         \A r \in Rewards : transfer'[r] > 0 \/ replica'.transfer[r] > 0 => paid'[r] > 0,
         \A c \in Campaigns : auditStatus'[c] = "AUDITED" =>
            auditStatus[c] = "AUDITED" \/ Cardinality(Unpaid(c)) <= traffic,
         Missing(job[j])'
  PROVE  MissedInv'
<1>1. ASSUME NEW i \in Jobs \ {j} PROVE Missing(job[i])'
  <2>1. PICK l : l = job[i]
    OBVIOUS
  <2>2. l \in JobState /\ (l.cur = Nobody => l.pc \in {"idle", "next"}) /\ Missing(l)
    BY <2>1 DEF TypeOK, MissedInv
  <2>3. Missing(l)'
    BY <2>2, MissingKept
  <2>4. job'[i] = l
    BY <2>1
  <2> QED
    BY <2>3, <2>4, Zenon DEF Missing, Seen, End
<1>2. ASSUME NEW c \in Campaigns, auditStatus'[c] = "AUDITED"
      PROVE  Cardinality(Unpaid(c)') <= traffic'
  <2>1. Cardinality(Unpaid(c)) <= traffic
    BY <1>2 DEF MissedInv
  <2>2. IsFiniteSet(Unpaid(c)) /\ Cardinality(Unpaid(c)) \in Nat /\ Unpaid(c)' \subseteq Unpaid(c)
    BY UnpaidFinite, OverlookedShrinks
  <2> DEFINE before == Unpaid(c)
             after == Unpaid(c)'
  <2> HIDE DEF before, after
  <2>3. IsFiniteSet(after) /\ Cardinality(after) <= Cardinality(before)
    BY <2>2, FS_Subset DEF before, after
  <2>4. Cardinality(after) \in Nat /\ traffic \in Int
    BY <2>3, FS_CardinalityType DEF TypeOK
  <2>5. Cardinality(after) <= traffic
    BY <2>1, <2>2, <2>3, <2>4 DEF before
  <2> QED
    BY <2>5 DEF after
<1>3. total' = Total0
  BY DEF MissedInv
<1> QED
  BY <1>1, <1>2, <1>3, Zenon DEF MissedInv

\* A step within a job.
LEMMA MissedOfJob ==
  ASSUME TypeOK, MissedInv, NEW j \in Jobs, NEW l, Become(j, l),
         UNCHANGED <<member, blacklist, score, total, traffic, paid, transfer, replica, auditStatus>>,
         Missing(l)
  PROVE  MissedInv'
<1>1. job'[j] = l /\ \A i \in Jobs \ {j} : job'[i] = job[i]
  BY DEF TypeOK, Become
<1>2. \A r \in Rewards : transfer'[r] > 0 \/ replica'.transfer[r] > 0 => paid'[r] > 0
  BY DEF MissedInv
<1>3. Overlooked(l.cur, Seen(l), End(l), l.unseen \cup l.batch)'
         = Overlooked(l.cur, Seen(l), End(l), l.unseen \cup l.batch)
  BY Zenon DEF Overlooked, Unpaid, Eligible, Seen, End
<1>4. Missing(job[j])'
  BY <1>1, <1>3, Zenon DEF Missing
<1> QED
  BY <1>1, <1>2, <1>4, MissedKept


\* Each change by a user costs at most one more.
LEMMA MissedByChange ==
  ASSUME TypeOK, MissedInv, UNCHANGED <<total, transfer, replica, paid, job>>,
         traffic' = traffic + 1,
         \A c \in Campaigns : auditStatus'[c] = "AUDITED" => auditStatus[c] = "AUDITED",
         \A c \in Campaigns : Unpaid(c)' \subseteq Unpaid(c),
         \A c \in Campaigns, seen, end \in Int : \A named : \E x :
            Overlooked(c, seen, end, named)' \subseteq Overlooked(c, seen, end, named) \cup {x}
  PROVE  MissedInv'
<1>0. traffic \in Int
  BY DEF TypeOK
<1>1. ASSUME NEW l \in JobState, l.cur = Nobody => l.pc \in {"idle", "next"}, Missing(l)
      PROVE  Missing(l)'
  <2> DEFINE over == Overlooked(l.cur, Seen(l), End(l), l.unseen \cup l.batch)
  <2>1. ASSUME l.pc \in {"fee", "page", "lookup", "record"}
        PROVE  Cardinality(over') <= traffic'
    <3>1. l.cur \in Campaigns /\ l.skip \in Int /\ l.pages \in Int
      BY <1>1, <2>1 DEF JobState
    <3>2. Seen(l) \in Int /\ End(l) \in Int
      BY <3>1, BoundsAssumption DEF Seen, End
    <3>3. Cardinality(over) <= traffic /\ IsFiniteSet(over) /\ Cardinality(over) \in Nat
      BY <1>1, <2>1, <3>1, UnpaidFinite DEF Missing
    <3>4. PICK x : over' \subseteq over \cup {x}
      <4>1. PICK seen, end, named :
              /\ seen \in Int /\ end \in Int
              /\ seen = Seen(l) /\ end = End(l) /\ named = l.unseen \cup l.batch
        BY <3>2
      <4>2. over = Overlooked(l.cur, seen, end, named)
        BY <4>1
      <4>3. over' = Overlooked(l.cur, seen, end, named)'
        BY <4>1 DEF Seen, End, Overlooked
      <4>4. \E x : Overlooked(l.cur, seen, end, named)'
                     \subseteq Overlooked(l.cur, seen, end, named) \cup {x}
        BY <3>1, <4>1
      <4> HIDE DEF over
      <4> QED
        BY <4>2, <4>3, <4>4
    <3> HIDE DEF over
    <3>5. Cardinality(over') \in Nat /\ Cardinality(over') <= Cardinality(over) + 1
      BY <3>3, <3>4, OneMoreAtMost
    <3> QED
      BY <1>0, <3>3, <3>5
  <2>2. /\ l.pc \notin {"idle", "next", "payout"} => l.snapshot = Total0[l.cur]
        /\ l.pc \in {"unblock", "count", "fee"} => l.skip = 0
        /\ l.pc \in {"unblock", "count", "fee", "page", "record"} =>
              l.unseen = {} /\ \A r \in l.batch : paid'[r] > 0
    BY <1>1 DEF Missing
  <2>3. over' = Overlooked(l.cur, Seen(l), End(l), l.unseen \cup l.batch)'
    OBVIOUS
  <2> HIDE DEF over
  <2> QED
    BY <2>1, <2>2, <2>3, Zenon DEF Missing
<1>2. ASSUME NEW i \in Jobs PROVE Missing(job[i])'
  <2>1. PICK l : l = job[i]
    OBVIOUS
  <2>2. l \in JobState /\ (l.cur = Nobody => l.pc \in {"idle", "next"}) /\ Missing(l)
    BY <2>1 DEF TypeOK, MissedInv
  <2>3. Missing(l)'
    BY <1>1, <2>2
  <2>4. job'[i] = l
    BY <2>1
  <2> QED
    BY <2>3, <2>4, Zenon DEF Missing, Seen, End
<1>3. ASSUME NEW c \in Campaigns, auditStatus'[c] = "AUDITED"
      PROVE  Cardinality(Unpaid(c)') <= traffic'
  <2>1. Cardinality(Unpaid(c)) <= traffic
    BY <1>3 DEF MissedInv
  <2>2. IsFiniteSet(Unpaid(c)) /\ Cardinality(Unpaid(c)) \in Nat /\ Unpaid(c)' \subseteq Unpaid(c)
    BY UnpaidFinite
  <2> DEFINE before == Unpaid(c)
             after == Unpaid(c)'
  <2> HIDE DEF before, after
  <2>3. IsFiniteSet(after) /\ Cardinality(after) <= Cardinality(before)
    BY <2>2, FS_Subset DEF before, after
  <2>4. Cardinality(after) \in Nat
    BY <2>3, FS_CardinalityType
  <2>5. Cardinality(after) <= traffic'
    BY <1>0, <2>1, <2>2, <2>3, <2>4 DEF before
  <2> QED
    BY <2>5 DEF after
<1>4. total' = Total0 /\ \A r \in Rewards : transfer'[r] > 0 \/ replica'.transfer[r] > 0 => paid'[r] > 0
  BY DEF MissedInv
<1> QED
  BY <1>2, <1>3, <1>4, Zenon DEF MissedInv

\* Who leaves shifts at most one from beyond what was seen to within it.
LEMMA LeavingShiftsOne ==
  ASSUME TypeOK, NEW c \in Campaigns, NEW q \in Eligible(c), Eligible(c)' = Eligible(c) \ {q},
         UNCHANGED <<score, total, paid>>, NEW seen \in Int, NEW end \in Int, NEW named
  PROVE  /\ Unpaid(c)' \subseteq Unpaid(c)
         /\ \E x : Overlooked(c, seen, end, named)' \subseteq Overlooked(c, seen, end, named) \cup {x}
<1> DEFINE S == Eligible(c)
<1>0. S \in SUBSET Participants
  BY UnpaidFinite
<1>1. Unpaid(c)' \subseteq Unpaid(c) /\ Unpaid(c)' \subseteq S \ {q}
  BY Zenon DEF Unpaid
<1>2. PICK x : \A p \in S : PlaceIn(S, p) = seen + 1 => p = x
  BY <1>0, OneAtAPlace
<1>3. ASSUME NEW p \in Overlooked(c, seen, end, named)', p # x
      PROVE  p \in Overlooked(c, seen, end, named)
  <2>1. /\ p \in Unpaid(c)' /\ \A a \in Amounts : <<c, p, a>> \notin named
        /\ PlaceIn(S \ {q}, p) <= seen \/ PlaceIn(S \ {q}, p) > end
    BY Zenon DEF Overlooked
  <2>2. p \in S \ {q} /\ p \in Unpaid(c)
    BY <1>1, <2>1
  <2> HIDE DEF S
  <2>3. PlaceIn(S \ {q}, p) = PlaceIn(S, p) \/ PlaceIn(S \ {q}, p) = PlaceIn(S, p) - 1
    BY <1>0, <2>2, PlaceWithout DEF S
  <2>4. PlaceIn(S, p) \in Nat /\ PlaceIn(S, p) # seen + 1
    BY <1>0, <1>2, <1>3, <2>2, PlaceBounds
  <2>5. PlaceIn(S, p) <= seen \/ PlaceIn(S, p) > end
    BY <2>1, <2>3, <2>4
  <2> QED
    BY <2>1, <2>2, <2>5 DEF Overlooked, S
<1>4. Overlooked(c, seen, end, named)' \subseteq Overlooked(c, seen, end, named) \cup {x}
  BY <1>3
<1> QED
  BY <1>1, <1>4

\* Who joins pushes at most one beyond the last page, and is owed nothing.
LEMMA JoiningShiftsOne ==
  ASSUME TypeOK, MissedInv, NEW c \in Campaigns, NEW q \in Participants \ Eligible(c),
         Eligible(c)' \in {Eligible(c), Eligible(c) \cup {q}},
         \A p \in Eligible(c) : score'[c][p] = score[c][p],
         score'[c][q] = 0,
         UNCHANGED <<total, paid>>, NEW seen \in Int, NEW end \in Int, NEW named
  PROVE  /\ Unpaid(c)' \subseteq Unpaid(c)
         /\ \E x : Overlooked(c, seen, end, named)' \subseteq Overlooked(c, seen, end, named) \cup {x}
<1> DEFINE S == Eligible(c)
           T == Eligible(c)'
<1>0. S \in SUBSET Participants /\ T \in {S, S \cup {q}}
  BY UnpaidFinite
<1>a. Share(c, total[c], score'[c][q]) = 0
  <2>1. total[c] \in Totals
    BY DEF TypeOK
  <2> QED
    BY <2>1, NothingForNothing
<1>1. Unpaid(c)' \subseteq Unpaid(c)
  <2> SUFFICES ASSUME NEW p \in Unpaid(c)' PROVE p \in Unpaid(c)
    OBVIOUS
  <2>1. /\ p \in T /\ Share(c, total[c], score'[c][p]) > 0
        /\ \A a \in Amounts : paid[<<c, p, a>>] = 0
    BY Zenon DEF Unpaid
  <2>2. p # q
    BY <1>a, <2>1
  <2>3. p \in S
    BY <1>0, <2>1, <2>2
  <2>4. score'[c][p] = score[c][p]
    BY <2>3
  <2> QED
    BY <2>1, <2>3, <2>4, Zenon DEF Unpaid
<1>2. PICK x : \A p \in S : PlaceIn(S, p) = end => p = x
  BY <1>0, OneAtAPlace
<1>3. ASSUME NEW p \in Overlooked(c, seen, end, named)', p # x
      PROVE  p \in Overlooked(c, seen, end, named)
  <2>1. /\ p \in Unpaid(c)' /\ \A a \in Amounts : <<c, p, a>> \notin named
        /\ PlaceIn(T, p) <= seen \/ PlaceIn(T, p) > end
    BY Zenon DEF Overlooked
  <2>2. p \in Unpaid(c)
    BY <1>1, <2>1
  <2>3. p \in S
    BY <2>2 DEF Unpaid
  <2> HIDE DEF S, T
  <2>4. PlaceIn(S, p) = PlaceIn(T, p) \/ PlaceIn(S, p) = PlaceIn(T, p) - 1
    <3>1. CASE T = S
      BY <3>1
    <3>2. CASE T = S \cup {q}
      <4>1. T \in SUBSET Participants /\ q \in T /\ p \in T \ {q} /\ T \ {q} = S
        BY <1>0, <2>3, <3>2 DEF S
      <4> QED
        BY <4>1, PlaceWithout
    <3> QED
      BY <1>0, <3>1, <3>2
  <2>5. PlaceIn(S, p) \in Nat /\ PlaceIn(S, p) # end
    BY <1>0, <1>2, <1>3, <2>3, PlaceBounds
  <2>6. PlaceIn(T, p) \in Int
    <3>1. T \in SUBSET Participants /\ p \in T
      BY <1>0, <2>3
    <3> QED
      BY <3>1, PlaceBounds
  <2>7. PlaceIn(S, p) <= seen \/ PlaceIn(S, p) > end
    BY <2>1, <2>4, <2>5, <2>6
  <2> QED
    BY <2>1, <2>2, <2>7 DEF Overlooked, S
<1>4. Overlooked(c, seen, end, named)' \subseteq Overlooked(c, seen, end, named) \cup {x}
  BY <1>3
<1> QED
  BY <1>1, <1>4

\* Fewer than a few are few.
LEMMA FewOverlooked ==
  ASSUME TypeOK, NEW c \in Campaigns, NEW seen, NEW end, NEW named,
         Cardinality(Overlooked(c, seen, end, named)) <= traffic,
         NEW T, T \subseteq Overlooked(c, seen, end, named)
  PROVE  Cardinality(T) <= traffic
<1> DEFINE over == Overlooked(c, seen, end, named)
<1>1. IsFiniteSet(over) /\ Cardinality(over) \in Nat
  BY UnpaidFinite
<1> HIDE DEF over
<1>2. IsFiniteSet(T) /\ Cardinality(T) <= Cardinality(over)
  BY <1>1, FS_Subset DEF over
<1>3. Cardinality(T) \in Nat /\ traffic \in Int
  BY <1>2, FS_CardinalityType DEF TypeOK
<1>4. Cardinality(over) <= traffic
  BY DEF over
<1> QED
  BY <1>1, <1>2, <1>3, <1>4

\* Nobody who was paid is unpaid.
LEMMA UnpaidUnnamed ==
  ASSUME TypeOK, NEW c \in Campaigns, NEW p \in Unpaid(c), NEW a \in Amounts,
         paid[<<c, p, a>>] > 0
  PROVE  FALSE
<1>1. <<c, p, a>> \in Rewards
  BY UnpaidFinite DEF Rewards, Unpaid
<1>2. paid[<<c, p, a>>] = 0
  BY DEF Unpaid
<1> QED
  BY <1>2

LEMMA MissedInit == Init => MissedInv
<1> SUFFICES ASSUME Init PROVE MissedInv
  OBVIOUS
<1>1. \A j \in Jobs : Missing(job[j])
  BY DEF Init, Missing, Idle, Fresh
<1>2. \A r \in Rewards : transfer[r] = 0 /\ replica.transfer[r] = 0
  BY DEF Init
<1> QED
  BY <1>1, <1>2 DEF Init, MissedInv

\* Nobody's score changes while nobody is tracked.
LEMMA MissedNext ==
  ASSUME "track" \notin Kinds
  PROVE  TypeInv /\ MissedInv /\ [Next]_vars => MissedInv'
<1> SUFFICES ASSUME TypeInv, MissedInv, [Next]_vars PROVE MissedInv'
  OBVIOUS
<1>t. TypeOK
  BY DEF TypeInv
<1>a. ASSUME NEW j \in Jobs
      PROVE  /\ job[j] \in JobState /\ Missing(job[j])
             /\ job[j].pc \notin {"idle", "next"} => job[j].cur \in Campaigns
  BY <1>t DEF TypeOK, MissedInv, JobState
<1>s. PageSize \in Nat \ {0}
  BY BoundsAssumption
<1> DEFINE still == <<member, blacklist, score, total, traffic, paid, transfer, replica, auditStatus>>
<1>1. ASSUME NEW j \in Jobs, Select(j) \/ Exit(j) \/ InvalidType(j) \/ Throw(j) \/ Die(j) \/ CreatePayoutRow(j)
      PROVE  MissedInv'
  <2>1. PICK label, todo : /\ label \in {"idle", "next"}
                          /\ Become(j, Fresh(label, todo, Nobody, 0))
    BY <1>1 DEF Select, Exit, InvalidType, Throw, Die, CreatePayoutRow, Forget, Idle
  <2>2. UNCHANGED still
    BY <1>1 DEF Select, Exit, InvalidType, Throw, Die, CreatePayoutRow, database, ledger, bounds
  <2>3. Missing(Fresh(label, todo, Nobody, 0))
    BY <2>1 DEF Fresh, Missing
  <2> QED
    BY <1>t, <2>1, <2>2, <2>3, MissedOfJob
<1>2. ASSUME NEW j \in Jobs, ReadCampaign(j) PROVE MissedInv'
  <2>1. PICK c \in job[j].todo : Become(j, Fresh("unblock", job[j].todo \ {c}, c, total[c]))
    BY <1>2 DEF ReadCampaign
  <2>2. UNCHANGED still
    BY <1>2 DEF ReadCampaign, database, ledger, bounds
  <2>3. total[c] = Total0[c]
    BY DEF MissedInv
  <2>4. Missing(Fresh("unblock", job[j].todo \ {c}, c, total[c]))
    BY <2>3 DEF Fresh, Missing
  <2> QED
    BY <1>t, <2>1, <2>2, <2>4, MissedOfJob
<1>3. ASSUME NEW j \in Jobs, UnblockAccountBalance(j) PROVE MissedInv'
  <2> DEFINE local == [job[j] EXCEPT !.pc = "count"]
  <2>1. Become(j, local) /\ job[j].pc = "unblock" /\ UNCHANGED still
    BY <1>3 DEF UnblockAccountBalance, At, database, bounds
  <2>2. /\ local.pc = "count" /\ local.cur = job[j].cur /\ local.snapshot = job[j].snapshot
        /\ local.skip = job[j].skip /\ local.unseen = job[j].unseen /\ local.batch = job[j].batch
    BY <1>a DEF JobState
  <2> HIDE DEF local
  <2>3. Missing(local)
    BY <1>a, <2>1, <2>2 DEF Missing
  <2> QED
    BY <1>t, <2>1, <2>3, MissedOfJob
<1>4. ASSUME NEW j \in Jobs, CountParticipants(j) PROVE MissedInv'
  <2> DEFINE c == job[j].cur
             n == PageCount(Cardinality(Eligible(c)))
             local == [job[j] EXCEPT !.pc = "fee", !.pages = n]
             over == Overlooked(c, 0, End(local), local.unseen \cup local.batch)
  <2>1. Become(j, local) /\ job[j].pc = "count" /\ UNCHANGED still
    BY <1>4 DEF CountParticipants, At, database, ledger, bounds
  <2>2. /\ c \in Campaigns /\ job[j].skip = 0 /\ job[j].snapshot = Total0[c]
        /\ job[j].unseen = {} /\ \A r \in job[j].batch : paid[r] > 0
    BY <1>a, <2>1 DEF Missing
  <2>3. n * PageSize >= Cardinality(Eligible(c)) /\ n * PageSize \in Nat
    <3>1. Cardinality(Eligible(c)) \in Nat
      BY <1>t, <2>2, EligibleFinite
    <3>2. n \in Nat /\ n * PageSize >= Cardinality(Eligible(c))
      BY <3>1, PagesReach
    <3> QED
      BY <1>s, <3>2
  <2> HIDE DEF n
  <2>4. /\ local.pc = "fee" /\ local.cur = c /\ local.snapshot = job[j].snapshot
        /\ local.skip = job[j].skip /\ local.pages = n
        /\ local.unseen = job[j].unseen /\ local.batch = job[j].batch
    BY <1>a DEF JobState
  <2> HIDE DEF local, c
  <2>5. End(local) = n * PageSize
    <3>1. End(local) = 0 + n * PageSize
      BY <2>2, <2>4, Zenon DEF End
    <3> DEFINE end == n * PageSize
    <3>2. end \in Nat
      BY <2>3
    <3> HIDE DEF end
    <3>3. 0 + end = end
      BY <3>2
    <3> QED
      BY <3>1, <3>3 DEF end
  <2>6. over = {}
    <3>1. Eligible(c) \in SUBSET Participants /\ Cardinality(Eligible(c)) \in Nat
      BY <1>t, <2>2, UnpaidFinite, EligibleFinite
    <3> DEFINE end == End(local)
    <3>2. end \in Nat /\ end >= Cardinality(Eligible(c))
      BY <2>3, <2>5
    <3> HIDE DEF end
    <3>3. \A p \in Eligible(c) : ~(PlaceIn(Eligible(c), p) <= 0) /\ ~(PlaceIn(Eligible(c), p) > end)
      BY <3>1, <3>2, PlaceBounds
    <3> QED
      BY <3>3, Zenon DEF Overlooked, Unpaid, end
  <2>7. Cardinality(over) <= traffic
    <3> HIDE DEF over
    <3>1. Cardinality(over) = 0
      BY <2>6, FS_EmptySet
    <3>2. traffic \in 0 .. MaxTraffic
      BY <1>t DEF TypeOK
    <3> QED
      BY <3>1, <3>2, BoundsAssumption
  <2>8. over = Overlooked(local.cur, Seen(local), End(local), local.unseen \cup local.batch)
    BY <2>2, <2>4 DEF Seen
  <2> HIDE DEF over
  <2>9. Missing(local)
    BY <2>2, <2>4, <2>7, <2>8 DEF Missing
  <2> QED
    BY <1>t, <2>1, <2>9, MissedOfJob
<1>5. ASSUME NEW j \in Jobs, TransferFee(j) PROVE MissedInv'
  <2> DEFINE local == [job[j] EXCEPT !.pc = "page"]
  <2>1. Become(j, local) /\ job[j].pc = "fee" /\ UNCHANGED still
    BY <1>5 DEF TransferFee, At, database, bounds
  <2>2. /\ local.pc = "page" /\ local.cur = job[j].cur /\ local.snapshot = job[j].snapshot
        /\ local.skip = job[j].skip /\ local.pages = job[j].pages
        /\ local.unseen = job[j].unseen /\ local.batch = job[j].batch
    BY <1>a DEF JobState
  <2> HIDE DEF local
  <2>3. Seen(local) = Seen(job[j]) /\ End(local) = End(job[j])
    BY <2>1, <2>2 DEF Seen, End
  <2>4. Missing(local)
    BY <1>a, <2>1, <2>2, <2>3 DEF Missing
  <2> QED
    BY <1>t, <2>1, <2>4, MissedOfJob
<1>6. ASSUME NEW j \in Jobs, ReadPage(j) PROVE MissedInv'
  <2> DEFINE c == job[j].cur
             shares == SharesOfPage(j) \cap Positive
             local == [job[j] EXCEPT !.pc = "lookup", !.batch = {}, !.unseen = shares]
             skip == job[j].skip
             end == End(job[j])
             before == Overlooked(c, skip, end, job[j].batch)
             after == Overlooked(c, skip + PageSize, end, shares)
  <2>1. Become(j, local) /\ job[j].pc = "page" /\ UNCHANGED still
    BY <1>6 DEF ReadPage, At, database, ledger, bounds
  <2>2. /\ c \in Campaigns /\ job[j].snapshot = Total0[c] /\ job[j].unseen = {}
        /\ \A r \in job[j].batch : paid[r] > 0
    BY <1>a, <2>1 DEF Missing
  <2>3. Cardinality(before) <= traffic
    <3>1. job[j].unseen \cup job[j].batch = job[j].batch /\ Seen(job[j]) = skip
      BY <2>1, <2>2 DEF Seen
    <3> QED
      BY <1>a, <2>1, <3>1 DEF Missing
  <2>4. after \subseteq before
    <3> SUFFICES ASSUME NEW p \in after PROVE p \in before
      OBVIOUS
    <3> DEFINE place == PlaceIn(Eligible(c), p)
               a == Share(c, total[c], score[c][p])
    <3>1. /\ p \in Unpaid(c)
          /\ place <= skip + PageSize \/ place > end
          /\ \A b \in Amounts : <<c, p, b>> \notin shares
      BY Zenon DEF Overlooked
    <3>2. p \in Eligible(c) /\ p \in Participants /\ a > 0
      BY <1>t, <2>2, <3>1, UnpaidFinite DEF Unpaid
    <3>3. a \in Amounts
      <4>1. total[c] \in Totals /\ score[c][p] \in Scores
        BY <1>t, <2>2, <3>2 DEF TypeOK
      <4> QED
        BY <2>2, <4>1, AmountsAssumption
    <3>4. <<c, p, a>> \in Positive
      BY <2>2, <3>2, <3>3 DEF Positive, Rewards, Amount
    <3>5. place \in Nat /\ skip \in Nat
      BY <1>a, <1>t, <2>2, <3>2, UnpaidFinite, PlaceBounds DEF JobState
    <3>6. ~(place \in skip + 1 .. skip + PageSize)
      <4> SUFFICES ASSUME place \in skip + 1 .. skip + PageSize PROVE FALSE
        OBVIOUS
      <4>1. p \in Page(c, skip)
        BY <3>2, Zenon DEF Page, PlaceIn
      <4>2. a = Share(c, job[j].snapshot, score[c][p])
        BY <2>2 DEF MissedInv
      <4>3. <<c, p, a>> \in SharesOfPage(j)
        BY <4>1, <4>2, Zenon DEF SharesOfPage
      <4> QED
        BY <3>1, <3>3, <3>4, <4>3
    <3>7. \A b \in Amounts : <<c, p, b>> \notin job[j].batch
      BY <1>t, <2>2, <3>1, UnpaidUnnamed
    <3> HIDE DEF place, a, c, skip, end
    <3>8. place <= skip \/ place > end
      BY <1>s, <3>1, <3>5, <3>6
    <3> QED
      BY <3>1, <3>7, <3>8, Zenon DEF Overlooked, place
  <2>5. Cardinality(after) <= traffic
    BY <1>t, <2>2, <2>3, <2>4, FewOverlooked
  <2> HIDE DEF shares
  <2>6. /\ local.pc = "lookup" /\ local.cur = c /\ local.snapshot = job[j].snapshot
        /\ local.skip = skip /\ local.pages = job[j].pages
        /\ local.unseen = shares /\ local.batch = {}
    BY <1>a DEF JobState
  <2> HIDE DEF local
  <2>7. Seen(local) = skip + PageSize /\ End(local) = end
    BY <2>6 DEF Seen, End
  <2>8. local.unseen \cup local.batch = shares
    BY <2>6
  <2> HIDE DEF c, end, skip
  <2>9. Cardinality(Overlooked(local.cur, Seen(local), End(local), local.unseen \cup local.batch)) <= traffic
    BY <2>5, <2>6, <2>7, <2>8
  <2>10. Missing(local)
    BY <2>2, <2>6, <2>9 DEF Missing
  <2> QED
    BY <1>t, <2>1, <2>10, MissedOfJob
<1>7. ASSUME NEW j \in Jobs, LookUp(j) PROVE MissedInv'
  <2> DEFINE c == job[j].cur
             named == job[j].unseen \cup job[j].batch
  <2>1. PICK r \in job[j].unseen :
          Become(j, IF AlreadyTransferred(r)
                    THEN [job[j] EXCEPT !.unseen = @ \ {r}]
                    ELSE [job[j] EXCEPT !.unseen = @ \ {r}, !.batch = @ \cup {r},
                                        !.totalPayout = @ + Amount(r)])
    BY <1>7 DEF LookUp
  <2>2. job[j].pc = "lookup" /\ UNCHANGED still /\ c \in Campaigns /\ r \in Rewards
    BY <1>a, <1>7 DEF LookUp, At, database, ledger, bounds, JobState
  <2>3. PICK local : /\ Become(j, local) /\ local.pc = "lookup" /\ local.cur = c
                     /\ local.snapshot = job[j].snapshot /\ local.skip = job[j].skip
                     /\ local.pages = job[j].pages /\ local.unseen = job[j].unseen \ {r}
                     /\ paid[r] > 0 \/ r \in local.batch
                     /\ job[j].batch \subseteq local.batch
    <3>1. CASE AlreadyTransferred(r)
      <4> DEFINE local == [job[j] EXCEPT !.unseen = @ \ {r}]
      <4>1. paid[r] > 0
        BY <2>2, <3>1 DEF AlreadyTransferred, SeenTransfer, MissedInv
      <4>2. /\ local.pc = "lookup" /\ local.cur = c
            /\ local.snapshot = job[j].snapshot /\ local.skip = job[j].skip
            /\ local.pages = job[j].pages /\ local.unseen = job[j].unseen \ {r}
            /\ local.batch = job[j].batch
        BY <1>a, <2>2 DEF JobState
      <4>3. Become(j, local)
        BY <2>1, <3>1, Zenon
      <4> QED
        BY <4>1, <4>2, <4>3
    <3>2. CASE ~AlreadyTransferred(r)
      <4> DEFINE n == job[j].totalPayout + Amount(r)
                 local == [job[j] EXCEPT !.unseen = @ \ {r}, !.batch = @ \cup {r}, !.totalPayout = n]
      <4>1. Become(j, local)
        BY <2>1, <3>2, Zenon
      <4> HIDE DEF n
      <4>2. /\ local.pc = "lookup" /\ local.cur = c
            /\ local.snapshot = job[j].snapshot /\ local.skip = job[j].skip
            /\ local.pages = job[j].pages /\ local.unseen = job[j].unseen \ {r}
            /\ local.batch = job[j].batch \cup {r}
        BY <1>a, <2>2 DEF JobState
      <4> QED
        BY <4>1, <4>2
    <3> QED
      BY <3>1, <3>2
  <2>4. Seen(local) = Seen(job[j]) /\ End(local) = End(job[j])
    BY <2>2, <2>3 DEF Seen, End
  <2> DEFINE later == local.unseen \cup local.batch
  <2>5. \A q \in named : q \in later \/ paid[q] > 0
    BY <2>3
  <2> HIDE DEF later, named
  <2>6. Overlooked(c, Seen(local), End(local), later) \subseteq Overlooked(c, Seen(job[j]), End(job[j]), named)
    <3> SUFFICES ASSUME NEW p \in Overlooked(c, Seen(local), End(local), later)
                 PROVE  p \in Overlooked(c, Seen(job[j]), End(job[j]), named)
      OBVIOUS
    <3> HIDE DEF c
    <3>1. /\ p \in Unpaid(c)
          /\ PlaceIn(Eligible(c), p) <= Seen(job[j]) \/ PlaceIn(Eligible(c), p) > End(job[j])
          /\ \A a \in Amounts : <<c, p, a>> \notin later
      BY <2>4, Zenon DEF Overlooked
    <3>2. \A a \in Amounts : <<c, p, a>> \notin named
      BY <1>t, <2>2, <2>5, <3>1, UnpaidUnnamed
    <3> QED
      BY <3>1, <3>2, Zenon DEF Overlooked
  <2>7. Cardinality(Overlooked(c, Seen(job[j]), End(job[j]), named)) <= traffic
    BY <1>a, <2>2 DEF Missing, named
  <2>8. Cardinality(Overlooked(c, Seen(local), End(local), later)) <= traffic
    BY <1>t, <2>2, <2>6, <2>7, FewOverlooked
  <2>9. job[j].snapshot = Total0[c]
    BY <1>a, <2>2 DEF Missing
  <2> HIDE DEF c
  <2>10. Missing(local)
    BY <2>3, <2>8, <2>9 DEF Missing, later
  <2> QED
    BY <1>t, <2>2, <2>3, <2>10, MissedOfJob
<1>8. ASSUME NEW j \in Jobs, TransferFundsBatch(j) PROVE MissedInv'
  <2> DEFINE c == job[j].cur
             local == [job[j] EXCEPT !.pc = "record"]
             named == job[j].unseen \cup job[j].batch
  <2>1. /\ Become(j, local) /\ job[j].pc = "lookup" /\ job[j].unseen = {}
        /\ UNCHANGED <<member, blacklist, score, total, traffic, transfer, replica, auditStatus>>
        /\ paid' = [r \in Rewards |-> IF r \in job[j].batch THEN paid[r] + 1 ELSE paid[r]]
    BY <1>8 DEF TransferFundsBatch, BatchTransfer, MoveFunds, At, database, bounds
  <2>2. \A r \in Rewards : /\ paid[r] > 0 => paid'[r] > 0
                           /\ r \in job[j].batch => paid'[r] > 0
    BY <1>t, <2>1 DEF TypeOK
  <2>3. /\ local.pc = "record" /\ local.cur = c /\ local.snapshot = job[j].snapshot
        /\ local.skip = job[j].skip /\ local.pages = job[j].pages
        /\ local.unseen = job[j].unseen /\ local.batch = job[j].batch
    BY <1>a DEF JobState
  <2>4. job'[j] = local /\ \A i \in Jobs \ {j} : job'[i] = job[i]
    BY <1>t, <2>1 DEF TypeOK, Become
  <2> HIDE DEF local
  <2>5. /\ c \in Campaigns /\ job[j].snapshot = Total0[c] /\ job[j].batch \subseteq Rewards
        /\ Cardinality(Overlooked(c, Seen(job[j]), End(job[j]), named)) <= traffic
    BY <1>a, <2>1 DEF Missing, JobState
  <2> HIDE DEF c, named
  <2>6. PICK seen, end, names : seen = Seen(job[j]) /\ end = End(job[j]) /\ names = named
    OBVIOUS
  <2>7. /\ Seen(job[j])' = seen /\ End(job[j])' = end
        /\ (job[j].unseen \cup job[j].batch)' = names
    <3>1. Seen(local) = Seen(job[j]) /\ End(local) = End(job[j])
      BY <2>1, <2>3 DEF Seen, End
    <3>2. Seen(job[j])' = Seen(local) /\ End(job[j])' = End(local)
      BY <2>4 DEF Seen, End
    <3> QED
      BY <2>3, <2>4, <2>6, <3>1, <3>2 DEF named
  <2>8. PICK d : d = c
    OBVIOUS
  <2>9. Cardinality(Overlooked(d, seen, end, names)') <= traffic'
    <3>1. Overlooked(d, seen, end, names)' \subseteq Overlooked(d, seen, end, names)
      BY <1>t, <2>1, <2>2, <2>5, <2>8, OverlookedShrinks
    <3>2. Cardinality(Overlooked(d, seen, end, names)) <= traffic
      BY <2>5, <2>6, <2>8
    <3> DEFINE after == Overlooked(d, seen, end, names)'
    <3> HIDE DEF after
    <3>3. Cardinality(after) <= traffic
      BY <1>t, <2>5, <2>8, <3>1, <3>2, FewOverlooked DEF after
    <3> QED
      BY <2>1, <3>3 DEF after
  <2>10. job'[j].cur = d /\ job'[j].pc = "record" /\ job'[j].snapshot = Total0[d]
         /\ job'[j].unseen = {} /\ \A r \in job'[j].batch : paid'[r] > 0
    BY <2>1, <2>2, <2>3, <2>4, <2>5, <2>8
  <2>11. Overlooked(job[j].cur, Seen(job[j]), End(job[j]), job[j].unseen \cup job[j].batch)'
          = Overlooked(d, seen, end, names)'
    BY <2>7, <2>10, Zenon DEF Overlooked, Unpaid, Eligible
  <2>12. Missing(job[j])'
    BY <2>9, <2>10, <2>11 DEF Missing
  <2>13. \A r \in Rewards : transfer'[r] > 0 \/ replica'.transfer[r] > 0 => paid'[r] > 0
    BY <2>1, <2>2 DEF MissedInv
  <2> QED
    BY <1>t, <2>1, <2>2, <2>4, <2>12, <2>13, MissedKept
<1>9. ASSUME NEW j \in Jobs, CreateTransfers(j) PROVE MissedInv'
  <2> DEFINE c == job[j].cur
             local == [job[j] EXCEPT !.pc = "page", !.pages = @ - 1, !.skip = @ + PageSize]
             over == Overlooked(c, Seen(job[j]), End(job[j]), job[j].unseen \cup job[j].batch)
  <2>1. /\ Become(j, local) /\ job[j].pc = "record"
        /\ transfer' = [r \in Rewards |-> IF r \in job[j].batch THEN transfer[r] + 1 ELSE transfer[r]]
        /\ UNCHANGED <<member, blacklist, score, total, traffic, paid, replica, auditStatus>>
    BY <1>9 DEF CreateTransfers, At, ledger, bounds
  <2>2. /\ local.pc = "page" /\ local.cur = c /\ local.snapshot = job[j].snapshot
        /\ local.skip = job[j].skip + PageSize /\ local.pages = job[j].pages - 1
        /\ local.unseen = job[j].unseen /\ local.batch = job[j].batch
    BY <1>a DEF JobState
  <2>3. job'[j] = local /\ \A i \in Jobs \ {j} : job'[i] = job[i]
    BY <1>t, <2>1 DEF TypeOK, Become
  <2>4. /\ c \in Campaigns /\ job[j].snapshot = Total0[c] /\ job[j].unseen = {}
        /\ \A r \in job[j].batch : paid[r] > 0
        /\ Cardinality(over) <= traffic
    BY <1>a, <2>1 DEF Missing
  <2>5. Seen(local) = Seen(job[j])
    BY <2>1, <2>2 DEF Seen
  <2> HIDE DEF local
  <2>6. End(local) = End(job[j])
    <3>1. job[j].pages \in Nat /\ job[j].skip \in Nat
      BY <1>a DEF JobState
    <3> DEFINE ahead == job[j].pages * PageSize
               left == (job[j].pages - 1) * PageSize
    <3>2. left = ahead - PageSize /\ ahead \in Int
      BY <1>s, <3>1
    <3>3. End(local) = (job[j].skip + PageSize) + left
      BY <2>2, Zenon DEF End
    <3>4. End(job[j]) = job[j].skip + ahead
      BY DEF End
    <3> HIDE DEF ahead, left
    <3> QED
      BY <1>s, <3>1, <3>2, <3>3, <3>4
  <2>7. Overlooked(job[j].cur, Seen(job[j]), End(job[j]), job[j].unseen \cup job[j].batch)' = over
    <3>1. Seen(job[j])' = Seen(local) /\ End(job[j])' = End(local)
      BY <2>3 DEF Seen, End
    <3> QED
      BY <2>1, <2>2, <2>3, <2>5, <2>6, <3>1, Zenon DEF Overlooked, Unpaid, Eligible
  <2> HIDE DEF over, c
  <2>8. Missing(job[j])'
    BY <2>1, <2>2, <2>3, <2>4, <2>7 DEF Missing
  <2>9. \A r \in Rewards : transfer'[r] > 0 \/ replica'.transfer[r] > 0 => paid'[r] > 0
    BY <2>1, <2>4 DEF MissedInv
  <2>10. \A r \in Rewards : paid[r] > 0 => paid'[r] > 0
    BY <2>1
  <2> QED
    BY <1>t, <2>1, <2>3, <2>8, <2>9, <2>10, MissedKept
<1>10. ASSUME NEW j \in Jobs, SetAudited(j) PROVE MissedInv'
  <2> DEFINE c == job[j].cur
             skip == job[j].skip
             named == job[j].unseen \cup job[j].batch
             local == [job[j] EXCEPT !.pc = "payout"]
  <2>1. /\ Become(j, local) /\ job[j].pc = "page" /\ job[j].pages = 0
        /\ auditStatus' = [auditStatus EXCEPT ![c] = "AUDITED"]
        /\ UNCHANGED <<member, blacklist, score, total, traffic, paid, transfer, replica>>
    BY <1>10 DEF SetAudited, At, ledger, bounds
  <2>2. local.pc = "payout"
    BY <1>a DEF JobState
  <2>3. job'[j] = local /\ \A i \in Jobs \ {j} : job'[i] = job[i]
    BY <1>t, <2>1 DEF TypeOK, Become
  <2> HIDE DEF local
  <2>4. Seen(job[j]) = skip /\ End(job[j]) = skip /\ skip \in Nat
    BY <1>a, <1>s, <2>1 DEF Seen, End, JobState
  <2>5. /\ c \in Campaigns /\ job[j].unseen = {} /\ \A r \in named : paid[r] > 0
        /\ Cardinality(Overlooked(c, skip, skip, named)) <= traffic
    BY <1>a, <2>1, <2>4 DEF Missing
  <2> HIDE DEF skip, named, c
  <2>6. Unpaid(c) \subseteq Overlooked(c, skip, skip, named)
    <3> SUFFICES ASSUME NEW p \in Unpaid(c) PROVE p \in Overlooked(c, skip, skip, named)
      OBVIOUS
    <3>1. p \in Eligible(c) /\ Eligible(c) \in SUBSET Participants
      BY <1>t, <2>5, UnpaidFinite DEF Unpaid
    <3>2. PlaceIn(Eligible(c), p) \in Nat
      BY <3>1, PlaceBounds
    <3>3. PlaceIn(Eligible(c), p) <= skip \/ PlaceIn(Eligible(c), p) > skip
      BY <2>4, <3>2
    <3>4. \A a \in Amounts : <<c, p, a>> \notin named
      BY <1>t, <2>5, UnpaidUnnamed
    <3> QED
      BY <3>3, <3>4, Zenon DEF Overlooked
  <2>7. Cardinality(Unpaid(c)) <= traffic
    BY <1>t, <2>5, <2>6, FewOverlooked
  <2>8. \A d \in Campaigns : auditStatus'[d] = "AUDITED" =>
            auditStatus[d] = "AUDITED" \/ Cardinality(Unpaid(d)) <= traffic
    BY <1>t, <2>1, <2>7 DEF TypeOK
  <2>9. Missing(job[j])'
    BY <2>2, <2>3 DEF Missing
  <2>10. \A r \in Rewards : /\ paid[r] > 0 => paid'[r] > 0
                            /\ transfer'[r] > 0 \/ replica'.transfer[r] > 0 => paid'[r] > 0
    BY <2>1 DEF MissedInv
  <2> QED
    BY <1>t, <2>1, <2>3, <2>8, <2>9, <2>10, MissedKept
<1>11. CASE Replicate \/ UNCHANGED vars
  <2>1. /\ UNCHANGED <<member, blacklist, score, total, traffic, paid, transfer, auditStatus, job>>
        /\ replica' = replica \/ replica' = [transfer |-> transfer, auditStatus |-> auditStatus]
    BY <1>11 DEF Replicate, vars, database, ledger, bounds
  <2>2. \A r \in Rewards : transfer'[r] > 0 \/ replica'.transfer[r] > 0 => paid'[r] > 0
    BY <2>1 DEF MissedInv
  <2>3. \A c : Unpaid(c)' = Unpaid(c)
    BY <2>1, Zenon DEF Unpaid, Eligible
  <2>4. \A c, seen, end, named : Overlooked(c, seen, end, named)' = Overlooked(c, seen, end, named)
    BY <2>1, <2>3, Zenon DEF Overlooked, Eligible
  <2>5. ASSUME NEW j \in Jobs PROVE Missing(job[j])'
    <3>1. Missing(job[j])
      BY DEF MissedInv
    <3>2. Seen(job[j])' = Seen(job[j]) /\ End(job[j])' = End(job[j])
      BY <2>1 DEF Seen, End
    <3>3. Overlooked(job[j].cur, Seen(job[j]), End(job[j]), job[j].unseen \cup job[j].batch)'
           = Overlooked(job[j].cur, Seen(job[j]), End(job[j]), job[j].unseen \cup job[j].batch)
      BY <2>1, <2>3, <3>2, Zenon DEF Overlooked, Eligible
    <3> QED
      BY <2>1, <3>1, <3>3, Zenon DEF Missing
  <2> QED
    BY <2>1, <2>2, <2>3, <2>5, Zenon DEF MissedInv
<1>12. CASE Users
  <2>1. ASSUME NEW c \in Campaigns, PayoutCampaignRewards(c) PROVE MissedInv'
    <3>1. /\ UNCHANGED <<member, blacklist, score, total, paid, transfer, replica, job>>
          /\ traffic' = traffic + 1 /\ auditStatus' = [auditStatus EXCEPT ![c] = "PENDING"]
      BY <2>1 DEF PayoutCampaignRewards, Traffic, ledger
    <3>2. \A d \in Campaigns : auditStatus'[d] = "AUDITED" => auditStatus[d] = "AUDITED"
      BY <1>t, <3>1 DEF TypeOK
    <3>3. \A d \in Campaigns : Unpaid(d)' \subseteq Unpaid(d)
      BY <3>1, Zenon DEF Unpaid, Eligible
    <3>4. \A d \in Campaigns, seen, end \in Int : \A named : \E x :
            Overlooked(d, seen, end, named)' \subseteq Overlooked(d, seen, end, named) \cup {x}
      BY <3>1, Zenon DEF Overlooked, Unpaid, Eligible
    <3> QED
      BY <1>t, <3>1, <3>2, <3>3, <3>4, MissedByChange
  <2>2. ASSUME NEW c \in Campaigns, NEW p \in Participants,
               BlacklistParticipant(c, p) \/ Participate(c, p) \/ RemoveParticipation(c, p)
        PROVE  MissedInv'
    <3>1. /\ UNCHANGED <<total, paid, transfer, replica, job, auditStatus>> /\ traffic' = traffic + 1
      BY <2>2 DEF BlacklistParticipant, Participate, RemoveParticipation, Traffic, ledger
    <3>2. \A d \in Campaigns \ {c} : Eligible(d)' = Eligible(d) /\ score'[d] = score[d]
      BY <1>t, <2>2 DEF BlacklistParticipant, Participate, RemoveParticipation, Eligible, TypeOK
    <3>3. ASSUME NEW seen \in Int, NEW end \in Int, NEW named
          PROVE  /\ Unpaid(c)' \subseteq Unpaid(c)
                 /\ \E x : Overlooked(c, seen, end, named)' \subseteq Overlooked(c, seen, end, named) \cup {x}
      <4>1. CASE BlacklistParticipant(c, p)
        <5>1. p \in Eligible(c) /\ Eligible(c)' = Eligible(c) \ {p} /\ score' = score
          BY <1>t, <4>1 DEF BlacklistParticipant, Eligible, TypeOK
        <5> QED
          BY <1>t, <3>1, <5>1, LeavingShiftsOne
      <4>2. CASE RemoveParticipation(c, p)
        <5>1. Eligible(c)' = Eligible(c) \ {p} /\ score' = score
          BY <1>t, <4>2 DEF RemoveParticipation, Eligible, TypeOK
        <5>2. CASE p \in Eligible(c)
          BY <1>t, <3>1, <5>1, <5>2, LeavingShiftsOne
        <5>3. CASE p \notin Eligible(c)
          <6>1. Eligible(c)' = Eligible(c)
            BY <5>1, <5>3
          <6>2. Unpaid(c)' = Unpaid(c)
            BY <3>1, <5>1, <6>1, Zenon DEF Unpaid
          <6> QED
            BY <6>1, <6>2, Zenon DEF Overlooked
        <5> QED
          BY <5>2, <5>3
      <4>3. CASE Participate(c, p)
        <5>1. /\ p \notin Eligible(c) /\ Eligible(c)' \in {Eligible(c), Eligible(c) \cup {p}}
              /\ score'[c][p] = 0 /\ \A q \in Eligible(c) : score'[c][q] = score[c][q]
          BY <1>t, <4>3 DEF Participate, Eligible, TypeOK
        <5> QED
          BY <1>t, <3>1, <5>1, JoiningShiftsOne
      <4> QED
        BY <2>2, <4>1, <4>2, <4>3
    <3>4. ASSUME NEW d \in Campaigns PROVE Unpaid(d)' \subseteq Unpaid(d)
      <4>1. CASE d = c
        BY <3>3, <4>1
      <4>2. CASE d # c
        BY <3>1, <3>2, <4>2, Zenon DEF Unpaid
      <4> QED
        BY <4>1, <4>2
    <3>5. ASSUME NEW d \in Campaigns, NEW seen \in Int, NEW end \in Int, NEW named
          PROVE  \E x : Overlooked(d, seen, end, named)' \subseteq Overlooked(d, seen, end, named) \cup {x}
      <4>1. CASE d = c
        BY <3>3, <4>1
      <4>2. CASE d # c
        BY <3>2, <3>4, <4>2, Zenon DEF Overlooked
      <4> QED
        BY <4>1, <4>2
    <3> QED
      BY <1>t, <3>1, <3>4, <3>5, MissedByChange
  <2>3. ASSUME NEW c \in Campaigns, NEW p \in Participants, Track(c, p) PROVE FALSE
    BY <2>3 DEF Track, Traffic
  <2> QED
    BY <1>12, <2>1, <2>2, <2>3 DEF Users
<1> QED
  BY <1>1, <1>2, <1>3, <1>4, <1>5, <1>6, <1>7, <1>8, <1>9, <1>10, <1>11, <1>12 DEF Next, Step

\* While nobody's score changes, each participant who joins, leaves or is blacklisted during
\* an audit costs at most one participant the reward, and each reopening none: whatever the
\* size of the pages, however many jobs overlap and die, and however far the replica lags
\* (auditFunctions.ts:36, 130).
THEOREM EachChangeMissesOne ==
  ASSUME "track" \notin Kinds
  PROVE  Spec => []MissedAtMostOncePerChange
<1>1. TypeInv /\ MissedInv => MissedAtMostOncePerChange
  BY DEF MissedInv, MissedAtMostOncePerChange, Unpaid
<1> QED
  BY <1>1, TypeInit, TypeNext, MissedInit, MissedNext, PTL DEF Spec

-----------------------------------------------------------------------------
(* What an audit pays out: sums over payments become sums of shares, whose *)
(* rounded sum the total of the scores keeps near what the fee leaves.     *)

\* A set of keys that has a member and a bound has a last.
LEMMA LastKey ==
  ASSUME NEW n \in Nat, NEW keys \in SUBSET (1..n), keys # {}
  PROVE  \E k \in keys : \A l \in keys : l <= k
<1> DEFINE bounds0 == {i \in Nat : \A l \in keys : l <= i}
           k == FirstOf(bounds0)
<1>1. n \in bounds0 /\ bounds0 \subseteq Nat
  OBVIOUS
<1>2. k \in bounds0
  BY <1>1, FirstIsIn
<1>3. \A i \in bounds0 : k <= i
  BY <1>1, FirstIsIn
<1> HIDE DEF k
<1>4. k \in keys
  <2> SUFFICES ASSUME k \notin keys PROVE FALSE
    OBVIOUS
  <2>1. k \in Nat /\ \A l \in keys : l <= k /\ l \in Nat /\ l # k /\ l >= 1
    BY <1>2
  <2>2. k >= 1 /\ k - 1 \in Nat
    <3>1. PICK l \in keys : TRUE
      OBVIOUS
    <3>2. l <= k /\ l \in Nat /\ l >= 1
      BY <2>1, <3>1
    <3> QED
      BY <2>1, <3>2
  <2>3. k - 1 \in bounds0
    BY <2>1, <2>2
  <2> QED
    BY <1>3, <2>1, <2>3
<1> QED
  BY <1>2, <1>4

\* The tiers that are filled in are the first ones.
LEMMA FilledAreFirst ==
  ASSUME NEW tiers, IsTierTable(tiers)
  PROVE  /\ {k \in DOMAIN tiers : tiers[k].filled} = 1..NumOfTiers(tiers)
         /\ NumOfTiers(tiers) \in DOMAIN tiers
<1> DEFINE filled == {k \in DOMAIN tiers : tiers[k].filled}
<1>1. tiers \in Seq(Tier) /\ Len(tiers) \in Nat /\ DOMAIN tiers = 1..Len(tiers)
  BY DEF IsTierTable
<1>2. \A k, l \in DOMAIN tiers : k < l /\ l \in filled => k \in filled
  BY DEF IsTierTable
<1>3. filled \in SUBSET (1..Len(tiers)) /\ filled # {}
  <2>1. 1 \in DOMAIN tiers
    BY <1>1 DEF IsTierTable
  <2>2. 1 \in filled
    BY <2>1 DEF IsTierTable
  <2> QED
    BY <1>1, <2>2
<1>4. NumOfTiers(tiers) = Cardinality(filled)
  BY DEF NumOfTiers
<1> HIDE DEF filled
<1>5. PICK m \in filled : \A l \in filled : l <= m
  BY <1>1, <1>3, LastKey
<1>6. filled = 1..m /\ m \in Nat /\ m >= 1
  <2>1. m \in 1..Len(tiers)
    BY <1>3
  <2>2. ASSUME NEW k \in 1..m PROVE k \in filled
    BY <1>1, <1>2, <2>1
  <2>3. ASSUME NEW k \in filled PROVE k \in 1..m
    <3>1. k \in 1..Len(tiers) /\ k <= m
      BY <1>3, <1>5
    <3> QED
      BY <1>1, <2>1, <3>1
  <2>4. filled = 1..m
    BY <2>2, <2>3, Zenon
  <2>5. m \in Nat /\ m >= 1
    BY <1>1, <2>1
  <2> QED
    BY <2>4, <2>5
<1>7. Cardinality(1..m) = m
  BY <1>6, FS_Interval
<1> QED
  BY <1>1, <1>3, <1>4, <1>5, <1>6, <1>7 DEF filled

\* The scan of the table reports what the score earns.
LEMMA TierIsPromised ==
  ASSUME NEW c \in Campaigns, NEW points \in Nat
  PROVE  TierCoiins(c, points) = Promised(c, points)
<1> DEFINE tiers == Tiers[c]
           thr(k) == tiers[k].threshold
           filled == {k \in DOMAIN tiers : tiers[k].filled}
           reached == {k \in filled : thr(k) <= points}
           top == NumOfTiers(tiers)
           stops == StopsAt(points, tiers)
<1>1. IsTierTable(tiers)
  BY AmountsAssumption
<1>2. tiers \in Seq(Tier) /\ Len(tiers) \in Nat /\ DOMAIN tiers = 1..Len(tiers)
  BY <1>1 DEF IsTierTable
<1>3. filled = 1..top /\ top \in DOMAIN tiers
  BY <1>1, FilledAreFirst
<1>4. \A k \in DOMAIN tiers : thr(k) \in Nat
  <2> SUFFICES ASSUME NEW k \in DOMAIN tiers PROVE thr(k) \in Nat
    OBVIOUS
  <2>1. tiers[k] \in Tier
    BY <1>2
  <2> QED
    BY <2>1 DEF Tier
<1>5. \A k, l \in filled : k <= l => thr(k) <= thr(l)
  <2> SUFFICES ASSUME NEW k \in filled, NEW l \in filled, k <= l PROVE thr(k) <= thr(l)
    OBVIOUS
  <2>1. CASE k = l
    BY <1>4, <2>1
  <2>2. CASE k # l
    <3>1. k \in DOMAIN tiers /\ l \in DOMAIN tiers /\ tiers[l].filled /\ k < l
      BY <1>2, <2>2
    <3>2. thr(k) < thr(l)
      BY <1>1, <3>1 DEF IsTierTable
    <3> QED
      BY <1>4, <3>1, <3>2
  <2> QED
    BY <2>1, <2>2
<1>6. stops = {k \in DOMAIN tiers : k \in filled => points < thr(k)}
  BY DEF StopsAt
<1>7. TierCoiins(c, points) =
         IF points > thr(top) THEN tiers[top].totalCoiins
         ELSE IF stops # {} THEN tiers[PreviousKey(FirstOf(stops))].totalCoiins
         ELSE BaseTier.currentTotal
  BY DEF TierCoiins, CalculateTier, TierAt
<1>8. Promised(c, points) =
         IF reached = {} THEN tiers[1].totalCoiins
         ELSE IF filled = DOMAIN tiers /\ points = thr(Len(tiers)) THEN BaseTier.currentTotal
         ELSE tiers[LastOf(reached)].totalCoiins
  BY DEF Promised
<1>9. 1 \in filled /\ top \in filled /\ top \in Nat /\ \A k \in filled : 1 <= k /\ k <= top /\ k \in Nat
  BY <1>2, <1>3
<1>10. stops # {} => FirstOf(stops) \in stops /\ \A k \in stops : FirstOf(stops) <= k
  <2>1. stops \subseteq Nat
    BY <1>2, <1>6
  <2> HIDE DEF stops
  <2> QED
    BY <2>1, FirstIsIn
<1>11. \A k \in reached : (\A l \in reached : l <= k) => LastOf(reached) = k
  <2> SUFFICES ASSUME NEW k \in reached, \A l \in reached : l <= k PROVE LastOf(reached) = k
    OBVIOUS
  <2>1. reached \subseteq Nat
    BY <1>2
  <2> HIDE DEF reached
  <2>2. LastOf(reached) \in reached /\ \A l \in reached : l <= LastOf(reached)
    BY DEF LastOf
  <2>3. k <= LastOf(reached) /\ LastOf(reached) <= k
    BY <2>2
  <2>4. k \in Nat /\ LastOf(reached) \in Nat
    BY <2>1, <2>2
  <2> QED
    BY <2>3, <2>4
<1> HIDE DEF tiers, filled, reached, top, stops, thr
<1>r. \A k : k \in reached <=> k \in filled /\ thr(k) <= points
  BY DEF reached
<1>12. CASE reached = {}
  <2>1. \A k \in filled : points < thr(k)
    BY <1>2, <1>3, <1>4, <1>9, <1>12, <1>r
  <2>2. 1 \in stops /\ ~(points > thr(top))
    <3>1. 1 \in DOMAIN tiers /\ points < thr(1) /\ points < thr(top) /\ thr(top) \in Nat
      BY <1>2, <1>3, <1>4, <1>9, <2>1
    <3> QED
      BY <1>6, <3>1
  <2>3. FirstOf(stops) = 1
    <3>1. FirstOf(stops) \in stops /\ FirstOf(stops) <= 1
      BY <1>10, <2>2
    <3>2. FirstOf(stops) \in 1..Len(tiers)
      BY <1>2, <1>6, <3>1
    <3> QED
      BY <1>2, <3>1, <3>2
  <2>4. PreviousKey(1) = 1
    BY DEF PreviousKey
  <2> QED
    BY <1>7, <1>8, <1>12, <2>2, <2>3, <2>4
<1>13. CASE filled = DOMAIN tiers /\ points = thr(Len(tiers))
  <2>1. top = Len(tiers)
    BY <1>2, <1>3, <1>9, <1>13
  <2>2. \A k \in filled : thr(k) <= points
    BY <1>4, <1>5, <1>9, <1>13, <2>1
  <2>3. stops = {} /\ ~(points > thr(top)) /\ top \in reached
    BY <1>3, <1>4, <1>6, <1>9, <1>13, <1>r, <2>1, <2>2
  <2> QED
    BY <1>7, <1>8, <1>13, <2>3
<1>14. CASE reached # {} /\ ~(filled = DOMAIN tiers /\ points = thr(Len(tiers)))
  <2>0. Promised(c, points) = tiers[LastOf(reached)].totalCoiins
    BY <1>8, <1>14
  <2>1. CASE points > thr(top)
    <3>1. top \in reached /\ \A l \in reached : l <= top
      BY <1>3, <1>4, <1>9, <1>r, <2>1
    <3> QED
      BY <1>7, <1>11, <2>0, <2>1, <3>1
  <2>2. CASE ~(points > thr(top)) /\ stops # {}
    <3> DEFINE f == FirstOf(stops)
    <3>1. f \in stops /\ (\A k \in stops : f <= k) /\ f \in DOMAIN tiers /\ f \in Nat /\ f >= 1
      BY <1>2, <1>6, <1>10, <2>2
    <3> HIDE DEF f
    <3>2. PICK r \in reached : TRUE
      BY <1>14
    <3>3. r \in filled /\ thr(r) <= points /\ thr(1) <= thr(r)
      BY <1>5, <1>9, <1>r, <3>2
    <3>4. thr(1) <= points
      BY <1>2, <1>3, <1>4, <1>9, <3>3
    <3>5. f # 1
      BY <1>2, <1>3, <1>4, <1>6, <1>9, <3>1, <3>4
    <3>6. f - 1 \in DOMAIN tiers /\ f - 1 \notin stops
      BY <1>2, <3>1, <3>5
    <3>7. f - 1 \in reached
      BY <1>4, <1>6, <1>r, <3>6
    <3>8. \A l \in reached : l <= f - 1
      <4> SUFFICES ASSUME NEW l \in reached, ~(l <= f - 1) PROVE FALSE
        OBVIOUS
      <4>1. l \in filled /\ thr(l) <= points /\ l \in Nat /\ l <= top
        BY <1>9, <1>r
      <4>2. f <= l /\ f \in filled
        BY <1>3, <1>9, <3>1, <4>1
      <4>3. thr(f) <= thr(l) /\ points < thr(f)
        BY <1>5, <1>6, <3>1, <4>1, <4>2
      <4>4. l \in DOMAIN tiers
        BY <1>2, <1>3, <4>1
      <4> QED
        BY <1>4, <3>1, <4>1, <4>3, <4>4
    <3>9. PreviousKey(f) = f - 1
      BY <3>1, <3>5 DEF PreviousKey
    <3> QED
      BY <1>7, <1>11, <2>0, <2>2, <3>7, <3>8, <3>9 DEF f
  <2>3. CASE ~(points > thr(top)) /\ stops = {}
    <3>1. \A k \in DOMAIN tiers : k \in filled /\ ~(points < thr(k))
      BY <1>6, <2>3
    <3>2. filled = DOMAIN tiers
      BY <1>2, <1>3, <3>1
    <3>3. top = Len(tiers)
      BY <1>2, <1>3, <1>9, <3>2
    <3>4. points = thr(top)
      BY <1>3, <1>4, <2>3, <3>1
    <3> QED
      BY <1>14, <3>2, <3>3, <3>4
  <2> QED
    BY <2>1, <2>2, <2>3
<1> QED
  BY <1>12, <1>13, <1>14

\* What each participant of a campaign is owed.
ShareOf(c) == [p \in Participants |-> Share(c, Total0[c], Score0[c][p])]

\* The reward a participant is owed names the share.
LEMMA SharesAreNumbers ==
  ASSUME NEW c \in Campaigns, NEW p \in Participants
  PROVE  /\ Reward0(c, p) \in Rewards /\ Reward0(c, p) = <<c, p, ShareOf(c)[p]>>
         /\ Amount(Reward0(c, p)) = ShareOf(c)[p] /\ ShareOf(c)[p] \in Nat
<1>1. Score0[c][p] \in Scores /\ Total0[c] \in Totals
  BY ParticipantsAssumption
<1>2. Share(c, Total0[c], Score0[c][p]) \in Amounts
  BY <1>1, AmountsAssumption
<1>3. ShareOf(c)[p] \in Amounts /\ Reward0(c, p) = <<c, p, ShareOf(c)[p]>>
  BY <1>2 DEF ShareOf, Reward0
<1>4. <<c, p, ShareOf(c)[p]>> \in Rewards
  BY <1>3 DEF Rewards
<1>5. ShareOf(c)[p] \in Nat
  BY <1>3, AmountsAssumption, Zenon
<1>6. Amount(Reward0(c, p)) = ShareOf(c)[p]
  BY <1>3 DEF Amount
<1> QED
  BY <1>3, <1>4, <1>5, <1>6

\* The payments of a campaign, and what they add up to.
PaymentsOf(payments, c) == {r \in Rewards : r[1] = c /\ payments[r] > 0}
PaidOut(payments, c) == MapThenSumSet(LAMBDA r : Amount(r) * payments[r], PaymentsOf(payments, c))

\* What a campaign's payments add up to, as a sum of weights.
LEMMA PaidOutSum ==
  ASSUME NEW c, NEW payments, IsFiniteSet(PaymentsOf(payments, c)),
         NEW w, \A r \in PaymentsOf(payments, c) : w[r] = Amount(r) * payments[r]
  PROVE  PaidOut(payments, c) = SumOver(w, PaymentsOf(payments, c))
<1> DEFINE R == PaymentsOf(payments, c)
           Each(f, s) == IF s = {} THEN 0 ELSE Amount(Pick(s)) * payments[Pick(s)] + f[s \ {Pick(s)}]
           Of(f) == f = [s \in SUBSET R |-> Each(f, s)]
           h == CHOOSE f : Of(f)
<1>1. \A f : Of(f) <=> IsSum(f, w, R)
  <2> SUFFICES ASSUME NEW f PROVE Of(f) <=> IsSum(f, w, R)
    OBVIOUS
  <2>1. \A s \in SUBSET R : Each(f, s) = Add(w, f, s)
    BY Picked, Zenon DEF Add
  <2> QED
    BY <2>1, Zenon DEF IsSum
<1>2. PaidOut(payments, c) = h[R]
  BY Zenon DEF PaidOut, MapThenSumSet, MapThenFoldSet, Pick
<1>3. Of(h)
  BY <1>1, SumExists, Zenon
<1> HIDE DEF h, Of
<1>4. IsSum(h, w, R)
  BY <1>1, <1>3
<1> QED
  BY <1>2, <1>4, SumIs

\* The total of a campaign is the sum of its participants' scores.
LEMMA TotalIs == ASSUME NEW c \in Campaigns PROVE Total0[c] = SumOver(Score0[c], Members0[c])
BY Zenon DEF Total0, SumOver, MapThenSumSet, MapThenFoldSet

\* Those who took part when the audit began can be counted.
LEMMA MembersAre ==
  ASSUME NEW c \in Campaigns
  PROVE  Members0[c] \in SUBSET Participants /\ IsFiniteSet(Members0[c])
<1>1. Members0[c] \in SUBSET Participants
  BY ParticipantsAssumption
<1> QED
  BY <1>1, ParticipantsAssumption, FS_Subset

\* What rounding may add to a sum of shares or take from it: half a unit per participant.
LEMMA SharesRound ==
  ASSUME NEW c \in Campaigns
  PROVE  LET n == Cardinality(Members0[c])
             rest == AfterFee(c, Total0[c])
             sum == SumOver(ShareOf(c), Members0[c])
         IN  /\ n \in Nat /\ rest \in Nat /\ sum \in Nat
             /\ 2 * sum <= rest * (2 * Precision + n)
             /\ Total0[c] > 0 => 2 * sum >= rest * (2 * Precision - n)
<1> DEFINE t == Total0[c]
           M == Members0[c]
           n == Cardinality(M)
           rest == AfterFee(c, t)
           share == ShareOf(c)
           points == Score0[c]
           sum == SumOver(share, M)
           q(p) == Percentage(t, points[p], Precision)
<1>1. IsFiniteSet(M) /\ M \in SUBSET Participants /\ n \in Nat
  BY MembersAre, FS_CardinalityType
<1>2. t \in Nat /\ Precision \in Nat
  BY ParticipantsAssumption, BoundsAssumption
<1>3. rest \in Nat
  <2>1. TierCoiins(c, t) \in Nat /\ FeeDivisor - 1 \in Nat
    BY CoiinsAreNumber, BoundsAssumption
  <2>2. \A a, b \in Nat : a * b \in Nat
    OBVIOUS
  <2> QED
    BY <2>1, <2>2 DEF AfterFee, AfterCampaignFee
<1>4. \A p \in M : share[p] \in Nat /\ points[p] \in Nat
  BY <1>1, SharesAreNumbers, ParticipantsAssumption
<1>5. \A p \in M : share[p] = IF t = 0 THEN 0 ELSE rest * q(p)
  BY <1>1 DEF ShareOf, Share, CalculateParticipantPayout
<1>6. t = SumOver(points, M)
  BY TotalIs
<1> HIDE DEF t, M, n, rest, share, points
<1>7. sum \in Nat
  BY <1>1, <1>4, SumNat
<1>8. CASE t = 0
  <2>1. \A p \in M : share[p] = 0
    BY <1>5, <1>8
  <2>2. sum = 0
    BY <1>1, <2>1, SumZero
  <2>3. rest * (2 * Precision + n) \in Nat
    <3>1. 2 * Precision + n \in Nat
      BY <1>1, <1>2
    <3>2. \A a, b \in Nat : a * b \in Nat
      OBVIOUS
    <3> QED
      BY <1>3, <3>1, <3>2
  <2> QED
    BY <1>1, <1>3, <1>7, <1>8, <2>2, <2>3 DEF t, M, n, rest, share
<1>9. CASE t # 0
  <2> DEFINE k == 2 * t
             m == 2 * (Precision * rest)
             d == rest * t
  <2>1. Precision * rest \in Nat /\ rest * t \in Nat /\ k \in Nat /\ m \in Nat /\ d \in Nat
    BY <1>2, <1>3
  <2>2. ASSUME NEW p \in M
        PROVE  k * share[p] <= m * points[p] + d /\ m * points[p] - d <= k * share[p]
    <3> DEFINE s == points[p]
               w == q(p)
    <3>1. s \in Nat /\ t \in Nat \ {0}
      BY <1>2, <1>4, <1>9, <2>2
    <3>2. w \in Nat /\ 2 * (t * w) <= 2 * (s * Precision) + t /\ 2 * (s * Precision) < 2 * (t * w) + t
      BY <3>1, PercentageIsNumber
    <3>3. share[p] = rest * w
      BY <1>5, <1>9, <2>2
    <3> HIDE DEF s, w
    <3>4. \A a \in Nat : 2 * (t * w) <= a => rest * (2 * (t * w)) <= rest * a
      BY <1>3, <3>1, <3>2
    <3>5. \A a \in Nat : 2 * (s * Precision) <= a => rest * (2 * (s * Precision)) <= rest * a
      BY <1>2, <1>3, <3>1
    <3>6. s * Precision \in Nat /\ t * w \in Nat
      BY <1>2, <3>1, <3>2
    <3>7. /\ rest * (2 * (t * w)) <= rest * (2 * (s * Precision) + t)
          /\ rest * (2 * (s * Precision)) <= rest * (2 * (t * w) + t)
      BY <3>1, <3>2, <3>4, <3>5, <3>6
    <3>8. /\ rest * (2 * (t * w)) = k * (rest * w)
          /\ rest * (2 * (s * Precision)) = m * s
      BY <1>2, <1>3, <3>1, <3>2
    <3>9. /\ rest * (2 * (s * Precision) + t) = m * s + d
          /\ rest * (2 * (t * w) + t) = k * (rest * w) + d
      BY <1>2, <1>3, <3>1, <3>2, <3>6, <3>8
    <3>10. m * s \in Nat /\ k * (rest * w) \in Nat
      <4>1. rest * w \in Nat
        BY <1>3, <3>2
      <4>2. \A a, b \in Nat : a * b \in Nat
        OBVIOUS
      <4> QED
        BY <2>1, <3>1, <4>1, <4>2
    <3> HIDE DEF k, m, d
    <3>11. k * share[p] <= m * s + d /\ m * s - d <= k * share[p]
      BY <2>1, <3>3, <3>7, <3>8, <3>9, <3>10
    <3> QED
      BY <3>11 DEF s
  <2> HIDE DEF k, m, d
  <2>3. k * sum <= m * t + d * n
    <3>1. \A p \in M : share[p] \in Int /\ points[p] \in Int /\ k * share[p] <= m * points[p] + d
      BY <1>4, <2>2
    <3>2. k \in Int /\ m \in Int /\ d \in Int
      BY <2>1
    <3>3. k * SumOver(share, M) <= m * SumOver(points, M) + d * Cardinality(M)
      BY <1>1, <3>1, <3>2, SumRounded
    <3> QED
      BY <1>6, <3>3 DEF n
  <2>4. m * t <= k * sum + d * n
    <3>1. \A p \in M : share[p] \in Int /\ points[p] \in Int /\ m * points[p] <= k * share[p] + d
      <4> SUFFICES ASSUME NEW p \in M
                   PROVE  share[p] \in Int /\ points[p] \in Int /\ m * points[p] <= k * share[p] + d
        OBVIOUS
      <4>1. share[p] \in Nat /\ points[p] \in Nat /\ m * points[p] - d <= k * share[p]
        BY <1>4, <2>2
      <4>2. m * points[p] \in Int /\ k * share[p] \in Int /\ d \in Int
        BY <2>1, <4>1
      <4> QED
        BY <4>1, <4>2
    <3>2. k \in Int /\ m \in Int /\ d \in Int
      BY <2>1
    <3>3. m * SumOver(points, M) <= k * SumOver(share, M) + d * Cardinality(M)
      BY <1>1, <3>1, <3>2, SumRounded
    <3> QED
      BY <1>6, <3>3 DEF n
  <2>5. /\ k * sum = t * (2 * sum)
        /\ m * t = t * (rest * (2 * Precision))
        /\ d * n = t * (rest * n)
    BY <1>1, <1>2, <1>3, <1>7 DEF k, m, d
  <2>6. rest * (2 * Precision) \in Nat /\ rest * n \in Nat /\ 2 * sum \in Nat
    <3>1. \A a, b \in Nat : a * b \in Nat
      OBVIOUS
    <3> QED
      BY <1>1, <1>2, <1>3, <1>7, <3>1
  <2> HIDE DEF sum
  <2>7. \A a, b, e \in Nat : t * a <= t * b + t * e => a <= b + e
    <3> SUFFICES ASSUME NEW a \in Nat, NEW b \in Nat, NEW e \in Nat, t * a <= t * b + t * e, a > b + e
                 PROVE  FALSE
      OBVIOUS
    <3>1. t * (b + e + 1) <= t * a
      <4>1. b + e + 1 <= a
        OBVIOUS
      <4>2. \A x, y \in Nat : x <= y => t * x <= t * y
        BY <1>2
      <4> QED
        BY <4>1, <4>2
    <3>2. t * (b + e + 1) = t * b + t * e + t
      BY <1>2
    <3>3. t * b \in Nat /\ t * e \in Nat /\ t * a \in Nat
      BY <1>2
    <3> QED
      BY <1>2, <1>9, <3>1, <3>2, <3>3
  <2>8. 2 * sum <= rest * (2 * Precision) + rest * n
    BY <2>3, <2>5, <2>6, <2>7
  <2>9. rest * (2 * Precision) <= 2 * sum + rest * n
    BY <2>4, <2>5, <2>6, <2>7
  <2>10. /\ rest * (2 * Precision + n) = rest * (2 * Precision) + rest * n
         /\ rest * (2 * Precision - n) = rest * (2 * Precision) - rest * n
    BY <1>1, <1>2, <1>3
  <2>11. 2 * sum <= rest * (2 * Precision + n) /\ 2 * sum >= rest * (2 * Precision - n)
    BY <2>6, <2>8, <2>9, <2>10
  <2> QED
    BY <1>1, <1>3, <1>7, <2>11 DEF t, M, n, rest, share, sum
<1> QED
  BY <1>8, <1>9

\* The payments of a campaign are of shares that are owed.
OnlyShares(payments, c) ==
    \A p \in Participants, a \in Amounts : payments[<<c, p, a>>] > 0 =>
        p \in Members0[c] /\ <<c, p, a>> = Reward0(c, p)

\* What each participant has been paid.
PaymentTo(payments, c) == [p \in Participants |-> ShareOf(c)[p] * payments[Reward0(c, p)]]

\* What was paid out adds up to what each was paid.
LEMMA PaidOutIs ==
  ASSUME NEW c \in Campaigns, NEW payments \in [Rewards -> Nat], OnlyShares(payments, c)
  PROVE  PaidOut(payments, c) = SumOver(PaymentTo(payments, c), Members0[c])
<1> DEFINE M == Members0[c]
           P == {p \in M : payments[Reward0(c, p)] > 0}
           Q == M \ P
           R == PaymentsOf(payments, c)
           f == [p \in P |-> Reward0(c, p)]
           v == PaymentTo(payments, c)
           w == [r \in R |-> Amount(r) * payments[r]]
<1>1. /\ IsFiniteSet(M) /\ IsFiniteSet(P) /\ IsFiniteSet(Q) /\ P \cap Q = {} /\ P \cup Q = M
      /\ M \in SUBSET Participants /\ P \in SUBSET M /\ Q \in SUBSET M
  BY MembersAre, FS_Subset
<1>2. \A p \in P : f[p] = Reward0(c, p) /\ f[p] = <<c, p, ShareOf(c)[p]>>
  BY <1>1, SharesAreNumbers
<1>3. \A p, q \in P : f[p] = f[q] => p = q
  <2> HIDE DEF f, P
  <2> QED
    BY <1>2
<1>4. ASSUME NEW r \in R PROVE r \in {f[p] : p \in P}
  <2>1. r \in Rewards /\ r[1] = c /\ payments[r] > 0
    BY DEF PaymentsOf
  <2>2. PICK p \in Participants, a \in Amounts : r = <<c, p, a>>
    BY <2>1 DEF Rewards
  <2>3. p \in Members0[c] /\ r = Reward0(c, p)
    BY <2>1, <2>2 DEF OnlyShares
  <2>4. p \in P
    BY <2>1, <2>3
  <2> QED
    BY <1>2, <2>3, <2>4
<1>5. ASSUME NEW p \in P PROVE f[p] \in R
  <2>1. p \in Participants /\ payments[Reward0(c, p)] > 0
    BY <1>1
  <2>2. Reward0(c, p) \in Rewards /\ Reward0(c, p)[1] = c
    BY <2>1, SharesAreNumbers
  <2> QED
    BY <1>2, <2>1, <2>2 DEF PaymentsOf
<1>6. R = {f[p] : p \in P}
  BY <1>4, <1>5
<1>7. \A p \in M : v[p] \in Int
  <2> SUFFICES ASSUME NEW p \in M PROVE v[p] \in Int
    OBVIOUS
  <2>1. p \in Participants /\ Reward0(c, p) \in Rewards /\ ShareOf(c)[p] \in Nat
    BY <1>1, SharesAreNumbers
  <2>2. payments[Reward0(c, p)] \in Nat
    BY <2>1
  <2> QED
    BY <2>1, <2>2 DEF PaymentTo
<1>8. \A p \in P : w[f[p]] \in Int /\ v[p] = w[f[p]]
  <2> SUFFICES ASSUME NEW p \in P PROVE w[f[p]] \in Int /\ v[p] = w[f[p]]
    OBVIOUS
  <2>1. f[p] \in R /\ f[p] = Reward0(c, p) /\ p \in Participants
    BY <1>1, <1>2, <1>5
  <2>2. Amount(Reward0(c, p)) = ShareOf(c)[p]
    BY <2>1, SharesAreNumbers
  <2>3. w[f[p]] = Amount(f[p]) * payments[f[p]]
    BY <2>1
  <2>4. v[p] = ShareOf(c)[p] * payments[Reward0(c, p)]
    BY <2>1 DEF PaymentTo
  <2>5. v[p] \in Int
    BY <1>1, <1>7
  <2> HIDE DEF w, f, R, v
  <2> QED
    BY <2>1, <2>2, <2>3, <2>4, <2>5
<1>9. \A r \in R : w[r] = Amount(r) * payments[r]
  OBVIOUS
<1>10. \A p \in Q : v[p] = 0
  <2> SUFFICES ASSUME NEW p \in Q PROVE v[p] = 0
    OBVIOUS
  <2>1. p \in Participants /\ Reward0(c, p) \in Rewards /\ ShareOf(c)[p] \in Nat
    BY <1>1, SharesAreNumbers
  <2>2. payments[Reward0(c, p)] \in Nat /\ ~(payments[Reward0(c, p)] > 0)
    BY <2>1
  <2>3. payments[Reward0(c, p)] = 0
    BY <2>2
  <2> QED
    BY <2>1, <2>3 DEF PaymentTo
<1> HIDE DEF M, R, P, Q, f, v, w
<1>11. IsFiniteSet(R) /\ SumOver(w, R) = SumOver(v, P)
  <2>1. IsFiniteSet({f[p] : p \in P}) /\ SumOver(w, {f[p] : p \in P}) = SumOver(v, P)
    BY <1>1, <1>3, <1>8, SumNamed
  <2> QED
    BY <1>6, <2>1
<1>12. PaidOut(payments, c) = SumOver(w, R)
  BY <1>9, <1>11, PaidOutSum DEF R
<1>13. SumOver(v, Q) = 0 /\ SumOver(v, P) \in Int
  BY <1>1, <1>7, <1>10, SumZero, SumType
<1>14. SumOver(v, M) = SumOver(v, P) + SumOver(v, Q)
  <2>1. \A y \in P \cup Q : v[y] \in Int
    BY <1>1, <1>7
  <2> QED
    BY <1>1, <2>1, SumDisjoint
<1> QED
  BY <1>11, <1>12, <1>13, <1>14 DEF M, v

\* What a job may pay, and what has been paid: rewards that name a share.
IsShare(r) == \E c \in Campaigns : \E p \in Members0[c] : r = Reward0(c, p)

\* The inductive invariant: only shares are paid or about to be, and an audited campaign has
\* them all on record.
SharesInv ==
    /\ \A r \in Rewards : paid[r] > 0 => IsShare(r)
    /\ \A j \in Jobs : \A r \in job[j].unseen \cup job[j].batch : IsShare(r)
    /\ \A c \in Campaigns : auditStatus[c] = "AUDITED" => \A r \in Owed[c] : transfer[r] > 0

LEMMA SharesInit == Init => SharesInv
BY DEF Init, SharesInv, Idle, Fresh

\* A step of a job keeps it, if what the job goes on to name, what it pays and what it closes
\* are as they should be.
LEMMA SharesOfJob ==
  ASSUME TypeOK, SharesInv, NEW j \in Jobs, NEW local, Become(j, local),
         \A r \in local.unseen \cup local.batch : IsShare(r),
         \A r \in Rewards : paid'[r] > 0 => paid[r] > 0 \/ IsShare(r),
         \A r \in Rewards : transfer[r] > 0 => transfer'[r] > 0,
         \A c \in Campaigns : auditStatus'[c] = "AUDITED" =>
             auditStatus[c] = "AUDITED" \/ \A r \in Owed[c] : transfer[r] > 0
  PROVE  SharesInv'
<1>1. job'[j] = local /\ \A i \in Jobs \ {j} : job'[i] = job[i]
  BY DEF TypeOK, Become
<1>2. \A r \in Rewards : paid'[r] > 0 => IsShare(r)
  BY DEF SharesInv
<1>3. ASSUME NEW i \in Jobs, NEW r \in job'[i].unseen \cup job'[i].batch PROVE IsShare(r)
  <2>1. CASE i = j
    BY <1>1, <1>3, <2>1
  <2>2. CASE i # j
    BY <1>1, <1>3, <2>2 DEF SharesInv
  <2> QED
    BY <2>1, <2>2
<1>4. ASSUME NEW c \in Campaigns, auditStatus'[c] = "AUDITED", NEW r \in Owed[c]
      PROVE  transfer'[r] > 0
  <2>1. r \in Rewards
    BY DEF Owed, Positive
  <2>2. transfer[r] > 0
    BY <1>4 DEF SharesInv
  <2> QED
    BY <2>1, <2>2
<1> QED
  BY <1>2, <1>3, <1>4 DEF SharesInv, IsShare

\* A step that only moves a job on, or lets others in, keeps it.
LEMMA SharesOfStep ==
  ASSUME TypeOK, SharesInv, NEW j \in Jobs, NEW local, Become(j, local),
         \A r \in local.unseen \cup local.batch : IsShare(r),
         UNCHANGED <<paid, transfer, auditStatus>>
  PROVE  SharesInv'
BY SharesOfJob

\* Each step of the audit keeps it: pages are cut from the members, divided by the total, as
\* they were at first, and a campaign is closed when all who are owed are on record.
LEMMA SharesNext ==
  ASSUME ScoresStandStill
  PROVE  TypeOK /\ ProgressInv /\ SharesInv /\ [Next]_vars => SharesInv'
<1> SUFFICES ASSUME TypeOK, ProgressInv, SharesInv, [Next]_vars PROVE SharesInv'
  OBVIOUS
<1>a. ASSUME NEW j \in Jobs
      PROVE  /\ job[j] \in JobState /\ Progress(job[j])
             /\ job[j].pc \notin {"idle", "next"} => job[j].cur \in Campaigns
             /\ \A r \in job[j].unseen \cup job[j].batch : IsShare(r)
  BY DEF TypeOK, ProgressInv, JobState, SharesInv
<1>1. ASSUME NEW j \in Jobs,
             \/ Select(j) \/ ReadCampaign(j) \/ Exit(j) \/ InvalidType(j) \/ Throw(j) \/ Die(j)
             \/ CreatePayoutRow(j)
      PROVE  SharesInv'
  <2>1. PICK label, todo, c, snapshot : Become(j, Fresh(label, todo, c, snapshot))
    BY <1>1 DEF Select, ReadCampaign, Exit, InvalidType, Throw, Die, CreatePayoutRow, Forget, Idle
  <2>2. UNCHANGED <<paid, transfer, auditStatus>>
    BY <1>1 DEF Select, ReadCampaign, Exit, InvalidType, Throw, Die, CreatePayoutRow, database, ledger
  <2> DEFINE local == Fresh(label, todo, c, snapshot)
  <2>3. local.unseen = {} /\ local.batch = {} /\ Become(j, local)
    BY <2>1 DEF Fresh
  <2> HIDE DEF local
  <2> QED
    BY <2>2, <2>3, SharesOfStep
<1>2. ASSUME NEW j \in Jobs, UnblockAccountBalance(j) \/ CountParticipants(j) \/ TransferFee(j)
      PROVE  SharesInv'
  <2>1. PICK label, pages : Become(j, [job[j] EXCEPT !.pc = label, !.pages = pages])
    <3>1. [job[j] EXCEPT !.pc = "count"] = [job[j] EXCEPT !.pc = "count", !.pages = job[j].pages]
      BY <1>a DEF JobState
    <3>2. [job[j] EXCEPT !.pc = "page"] = [job[j] EXCEPT !.pc = "page", !.pages = job[j].pages]
      BY <1>a DEF JobState
    <3> QED
      BY <1>2, <3>1, <3>2 DEF UnblockAccountBalance, CountParticipants, TransferFee
  <2>2. UNCHANGED <<paid, transfer, auditStatus>>
    BY <1>2 DEF UnblockAccountBalance, CountParticipants, TransferFee, database, ledger
  <2> DEFINE local == [job[j] EXCEPT !.pc = label, !.pages = pages]
  <2>3. local.unseen = job[j].unseen /\ local.batch = job[j].batch /\ Become(j, local)
    BY <1>a, <2>1 DEF JobState
  <2> HIDE DEF local
  <2> QED
    BY <1>a, <2>2, <2>3, SharesOfStep
<1>3. ASSUME NEW j \in Jobs, ReadPage(j) PROVE SharesInv'
  <2> DEFINE c == job[j].cur
             shares == SharesOfPage(j) \cap Positive
             local == [job[j] EXCEPT !.pc = "lookup", !.batch = {}, !.unseen = shares]
  <2>1. Become(j, local) /\ job[j].pc = "page" /\ UNCHANGED <<paid, transfer, auditStatus>>
    BY <1>3 DEF ReadPage, At, database, ledger
  <2>2. c \in Campaigns /\ job[j].snapshot = Total0[c]
    BY <1>a, <2>1 DEF Progress
  <2>3. ASSUME NEW r \in SharesOfPage(j) PROVE IsShare(r)
    <3>1. PICK p \in Page(c, job[j].skip) : r = <<c, p, Share(c, job[j].snapshot, score[c][p])>>
      BY <2>3 DEF SharesOfPage
    <3>2. p \in Members0[c] /\ score = Score0
      BY <2>2, <3>1 DEF Page, Eligible, ProgressInv, StillInv
    <3>3. r = Reward0(c, p)
      BY <2>2, <3>1, <3>2 DEF Reward0
    <3> QED
      BY <2>2, <3>2, <3>3 DEF IsShare
  <2> HIDE DEF shares
  <2>4. local.unseen = shares /\ local.batch = {}
    BY <1>a DEF JobState
  <2>5. \A r \in local.unseen \cup local.batch : IsShare(r)
    BY <2>3, <2>4 DEF shares
  <2> HIDE DEF local
  <2> QED
    BY <2>1, <2>5, SharesOfStep
<1>4. ASSUME NEW j \in Jobs, LookUp(j) PROVE SharesInv'
  <2>1. PICK r \in job[j].unseen :
          Become(j, IF AlreadyTransferred(r)
                    THEN [job[j] EXCEPT !.unseen = @ \ {r}]
                    ELSE [job[j] EXCEPT !.unseen = @ \ {r}, !.batch = @ \cup {r},
                                        !.totalPayout = @ + Amount(r)])
    BY <1>4 DEF LookUp
  <2>2. UNCHANGED <<paid, transfer, auditStatus>>
    BY <1>4 DEF LookUp, database, ledger
  <2> DEFINE n == job[j].totalPayout + Amount(r)
             one == [job[j] EXCEPT !.unseen = @ \ {r}]
             two == [job[j] EXCEPT !.unseen = @ \ {r}, !.batch = @ \cup {r}, !.totalPayout = n]
             local == IF AlreadyTransferred(r) THEN one ELSE two
  <2>3. Become(j, local)
    BY <2>1
  <2> HIDE DEF n
  <2>4. one.unseen \cup one.batch \subseteq job[j].unseen \cup job[j].batch
    BY <1>a DEF JobState
  <2>5. two.unseen \cup two.batch \subseteq job[j].unseen \cup job[j].batch
    BY <1>a, <2>1 DEF JobState
  <2> HIDE DEF one, two
  <2>6. local.unseen \cup local.batch \subseteq job[j].unseen \cup job[j].batch
    BY <2>4, <2>5
  <2>7. \A q \in local.unseen \cup local.batch : IsShare(q)
    BY <1>a, <2>6
  <2> HIDE DEF local
  <2> QED
    BY <2>2, <2>3, <2>7, SharesOfStep
<1>5. ASSUME NEW j \in Jobs, TransferFundsBatch(j) PROVE SharesInv'
  <2> DEFINE local == [job[j] EXCEPT !.pc = "record"]
  <2>1. /\ Become(j, local) /\ UNCHANGED <<transfer, auditStatus>>
        /\ paid' = [r \in Rewards |-> IF r \in job[j].batch THEN paid[r] + 1 ELSE paid[r]]
    BY <1>5 DEF TransferFundsBatch, BatchTransfer, MoveFunds, database
  <2>2. local.unseen = job[j].unseen /\ local.batch = job[j].batch
    BY <1>a DEF JobState
  <2> HIDE DEF local
  <2>3. \A r \in Rewards : paid'[r] > 0 => paid[r] > 0 \/ IsShare(r)
    BY <1>a, <2>1
  <2> QED
    BY <1>a, <2>1, <2>2, <2>3, SharesOfJob
<1>6. ASSUME NEW j \in Jobs, CreateTransfers(j) PROVE SharesInv'
  <2> DEFINE local == [job[j] EXCEPT !.pc = "page", !.pages = @ - 1, !.skip = @ + PageSize]
  <2>1. /\ Become(j, local) /\ UNCHANGED <<paid, auditStatus>>
        /\ transfer' = [r \in Rewards |-> IF r \in job[j].batch THEN transfer[r] + 1 ELSE transfer[r]]
    BY <1>6 DEF CreateTransfers, ledger
  <2>2. local.unseen = job[j].unseen /\ local.batch = job[j].batch
    BY <1>a DEF JobState
  <2> HIDE DEF local
  <2>3. \A r \in Rewards : transfer[r] > 0 => transfer'[r] > 0
    <3>1. transfer \in [Rewards -> Nat]
      BY DEF TypeOK
    <3> QED
      BY <2>1, <3>1
  <2> QED
    BY <1>a, <2>1, <2>2, <2>3, SharesOfJob
<1>7. ASSUME NEW j \in Jobs, SetAudited(j) PROVE SharesInv'
  <2> DEFINE c == job[j].cur
             local == [job[j] EXCEPT !.pc = "payout"]
  <2>1. /\ Become(j, local) /\ UNCHANGED <<paid, transfer>>
        /\ auditStatus' = [auditStatus EXCEPT ![c] = "AUDITED"]
    BY <1>7 DEF SetAudited, ledger
  <2>2. local.unseen = job[j].unseen /\ local.batch = job[j].batch
    BY <1>a DEF JobState
  <2>3. c \in Campaigns /\ \A r \in Owed[c] : transfer[r] > 0
    BY <1>7, ClosedIsSettled
  <2> HIDE DEF local, c
  <2>4. \A d \in Campaigns : auditStatus'[d] = "AUDITED" =>
           auditStatus[d] = "AUDITED" \/ \A r \in Owed[d] : transfer[r] > 0
    <3>1. auditStatus \in [Campaigns -> AuditStatus]
      BY DEF TypeOK
    <3> QED
      BY <2>1, <2>3, <3>1
  <2> QED
    BY <1>a, <2>1, <2>2, <2>4, SharesOfJob
<1>8. CASE Replicate \/ Users \/ UNCHANGED vars
  <2>1. UNCHANGED <<paid, transfer, job>>
    BY <1>8 DEF ScoresStandStill, Replicate, Users, Traffic, Track, BlacklistParticipant, Participate,
                RemoveParticipation, PayoutCampaignRewards, vars, database, ledger
  <2>2. \A c \in Campaigns : auditStatus'[c] = "AUDITED" => auditStatus[c] = "AUDITED"
    <3>1. auditStatus \in [Campaigns -> AuditStatus]
      BY DEF TypeOK
    <3>2. \/ auditStatus' = auditStatus
          \/ \E d \in Campaigns : auditStatus' = [auditStatus EXCEPT ![d] = "PENDING"]
      BY <1>8 DEF Replicate, Users, Track, BlacklistParticipant, Participate,
                  RemoveParticipation, PayoutCampaignRewards, vars, database
    <3> QED
      BY <3>1, <3>2
  <2> QED
    BY <2>1, <2>2 DEF SharesInv, IsShare
<1> QED
  BY <1>1, <1>2, <1>3, <1>4, <1>5, <1>6, <1>7, <1>8 DEF Next, Step

\* What was paid out stays near the pool of the tier, however often it was paid.
LEMMA SharesFit ==
  ASSUME TypeOK, StillInv, SharesInv, OverpaidOncePerFailure, LedgerMatchesRecords
  PROVE  WithinPool
<1> SUFFICES ASSUME NEW c \in Campaigns
             PROVE  LET rest == Promised(c, total[c]) * (FeeDivisor - 1)
                        rounding == Cardinality(member[c])
                    IN  /\ 2 * SharesDrawn(c) <= (1 + failures) * (rest * (2 * Precision + rounding))
                        /\ auditStatus[c] = "AUDITED" /\ total[c] > 0 =>
                              2 * SharesDrawn(c) >= rest * (2 * Precision - rounding)
  BY DEF WithinPool
<1> DEFINE M == Members0[c]
           n == Cardinality(M)
           rest == AfterFee(c, Total0[c])
           share == ShareOf(c)
           v == PaymentTo(paid, c)
           k == 1 + failures
           drawn == SharesDrawn(c)
           sum == SumOver(share, M)
           most == rest * (2 * Precision + n)
           least == rest * (2 * Precision - n)
<1>1. Promised(c, total[c]) * (FeeDivisor - 1) = rest /\ member[c] = M /\ total[c] = Total0[c]
  <2>1. total[c] = Total0[c] /\ member[c] = M
    BY DEF StillInv
  <2>2. Total0[c] \in Nat
    BY ParticipantsAssumption
  <2>3. TierCoiins(c, Total0[c]) = Promised(c, Total0[c])
    BY <2>2, TierIsPromised
  <2> QED
    BY <2>1, <2>3 DEF AfterFee, AfterCampaignFee
<1>2. k \in Nat /\ k >= 1 /\ paid \in [Rewards -> Nat] /\ transfer \in [Rewards -> Nat]
  BY BoundsAssumption DEF TypeOK
<1>3. n \in Nat /\ rest \in Nat /\ sum \in Nat /\ 2 * sum <= most
      /\ (Total0[c] > 0 => 2 * sum >= least)
  BY SharesRound
<1>4. M \in SUBSET Participants /\ IsFiniteSet(M)
  BY MembersAre
<1>5. ASSUME NEW p \in M
      PROVE  share[p] \in Nat /\ v[p] \in Nat /\ v[p] <= k * share[p]
  <2> DEFINE a == share[p]
             b == paid[Reward0(c, p)]
  <2>1. a \in Nat /\ Reward0(c, p) \in Rewards
    BY <1>4, SharesAreNumbers
  <2>2. b \in Nat /\ b <= k
    BY <1>2, <2>1 DEF OverpaidOncePerFailure
  <2>3. v[p] = a * b
    BY <1>4 DEF PaymentTo
  <2> HIDE DEF a, b, k
  <2>4. a * b \in Nat /\ a * b <= k * a
    BY <1>2, <2>1, <2>2
  <2> QED
    BY <2>1, <2>3, <2>4 DEF a
<1>6. drawn = SumOver(v, M)
  <2>1. drawn = PaidOut(paid, c)
    BY Zenon DEF SharesDrawn, PaidOut, PaymentsOf
  <2>2. ASSUME NEW p \in Participants, NEW a \in Amounts, paid[<<c, p, a>>] > 0
        PROVE  p \in Members0[c] /\ <<c, p, a>> = Reward0(c, p)
    <3>1. <<c, p, a>> \in Rewards
      BY DEF Rewards
    <3>2. PICK d \in Campaigns : \E q \in Members0[d] : <<c, p, a>> = Reward0(d, q)
      BY <2>2, <3>1 DEF SharesInv, IsShare
    <3>3. PICK q \in Members0[d] : <<c, p, a>> = Reward0(d, q)
      BY <3>2
    <3>4. c = d /\ p = q
      BY <3>3 DEF Reward0
    <3> QED
      BY <3>3, <3>4
  <2>3. OnlyShares(paid, c)
    BY <2>2 DEF OnlyShares
  <2> QED
    BY <1>2, <2>1, <2>3, PaidOutIs
<1> HIDE DEF M, n, rest, share, v, k, drawn, sum
<1>7. drawn \in Nat
  BY <1>4, <1>5, <1>6, SumNat
<1>8. drawn <= k * sum
  <2>1. \A p \in M : v[p] \in Int /\ share[p] \in Int /\ 1 * v[p] <= k * share[p]
    BY <1>5
  <2>2. 1 * SumOver(v, M) <= k * SumOver(share, M)
    BY <1>2, <1>4, <2>1, SumScaled
  <2> QED
    BY <1>6, <1>7, <2>2 DEF sum
<1>9. 2 * drawn <= k * most
  <2>1. most \in Nat /\ k * sum \in Nat
    <3>1. 2 * Precision + n \in Nat
      BY <1>3, BoundsAssumption
    <3>2. \A a, b \in Nat : a * b \in Nat
      OBVIOUS
    <3> QED
      BY <1>2, <1>3, <3>1, <3>2
  <2> HIDE DEF most
  <2>2. k * (2 * sum) <= k * most
    <3>1. \A a, b \in Nat : a <= b => k * a <= k * b
      BY <1>2
    <3> QED
      BY <1>3, <2>1, <3>1
  <2>3. k * (2 * sum) = 2 * (k * sum) /\ k * most \in Nat
    BY <1>2, <1>3, <2>1
  <2> QED
    BY <1>7, <1>8, <2>1, <2>2, <2>3
<1>10. ASSUME auditStatus[c] = "AUDITED", Total0[c] > 0 PROVE 2 * drawn >= least
  <2>1. ASSUME NEW p \in M PROVE share[p] <= v[p]
    <3> DEFINE r == Reward0(c, p)
               a == share[p]
               b == paid[r]
    <3>1. a \in Nat /\ r \in Rewards /\ r = <<c, p, a>> /\ Amount(r) = a /\ p \in Participants
      BY <1>4, SharesAreNumbers DEF share
    <3>2. v[p] = a * b /\ b \in Nat
      BY <1>2, <3>1 DEF PaymentTo, v, share
    <3>3. ASSUME a > 0 PROVE b > 0
      <4>1. r \in Owed[c]
        BY <3>1, <3>3 DEF Owed, Positive, M
      <4>2. transfer[r] > 0
        BY <1>10, <4>1 DEF SharesInv
      <4>3. transfer[r] + Cardinality(InFlight(r)) <= paid[r] /\ Cardinality(InFlight(r)) \in Nat
        <5>1. IsFiniteSet(InFlight(r))
          <6>1. InFlight(r) \subseteq Jobs
            BY DEF InFlight
          <6> QED
            BY <6>1, CampaignsAssumption, FS_Subset
        <5> QED
          BY <3>1, <5>1, FS_CardinalityType DEF LedgerMatchesRecords
      <4>4. transfer[r] \in Nat
        BY <1>2, <3>1
      <4> QED
        BY <3>2, <4>2, <4>3, <4>4
    <3> HIDE DEF a, b
    <3>4. a <= a * b
      BY <3>1, <3>2, <3>3
    <3> QED
      BY <3>2, <3>4 DEF a
  <2>2. \A p \in M : share[p] \in Int /\ v[p] \in Int /\ share[p] <= v[p]
    BY <1>5, <2>1
  <2>3. sum <= drawn
    BY <1>4, <1>6, <2>2, SumOrder DEF sum
  <2>4. least \in Int
    <3>1. 2 * Precision - n \in Int
      BY <1>3, BoundsAssumption
    <3> QED
      BY <1>3, <3>1
  <2> HIDE DEF least
  <2> QED
    BY <1>3, <1>7, <1>10, <2>3, <2>4
<1> QED
  BY <1>1, <1>9, <1>10 DEF M, n, rest, k, drawn

\* With one job at a time, reads that see the last write and scores that stand still, an
\* audited campaign has paid out the pool of the tier its score earns less the fee, and never
\* more than that and once again per death, but for half a unit per share: whatever the tiers,
\* scores, budgets and pages (auditFunctions.ts:57-133, helpers.ts:139-181).
THEOREM AuditStaysWithinPool ==
  ASSUME OneJob, ~Lagging, ScoresStandStill
  PROVE  Spec => []WithinPool
<1>1. TypeInv => TypeOK
  BY DEF TypeInv
<1>2. TypeInv /\ ProgressInv /\ [Next]_vars => ProgressInv'
  BY ProgressNext
<1>3. TypeOK /\ ProgressInv /\ SharesInv /\ [Next]_vars => SharesInv'
  BY SharesNext
<1>4. Spec => []OverpaidOncePerFailure
  BY DuplicatesNeedFailures
<1>5. Spec => []LedgerMatchesRecords
  BY LedgerAgrees
<1>6. TypeOK /\ ProgressInv /\ SharesInv /\ OverpaidOncePerFailure /\ LedgerMatchesRecords => WithinPool
  BY SharesFit DEF ProgressInv
<1> QED
  BY <1>1, <1>2, <1>3, <1>4, <1>5, <1>6, TypeInit, TypeNext, ProgressInit, SharesInit, PTL DEF Spec

=============================================================================
