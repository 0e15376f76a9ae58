---------------------------- MODULE CampaignAudit ----------------------------
(***************************************************************************)
(* The campaign-audit cron (cron/campaignAudit): it closes every campaign  *)
(* whose end date has passed by releasing the blocked budget, paying the   *)
(* platform's fee and then, page by page, every participant's share, and   *)
(* records what it paid.  The money lives in Tatum's ledger, the records   *)
(* in Postgres: nothing makes the two change together.                     *)
(*                                                                         *)
(* A job is one pod of the hourly CronJob.  It may be killed, or one of    *)
(* its awaited calls may reject, between any two steps: what it held in    *)
(* memory is lost, what it did outside stays, and a later job starts over. *)
(* The CronJob sets no concurrencyPolicy, so two jobs may overlap, and the *)
(* look-ups go to a read replica that may lag behind.                      *)
(*                                                                         *)
(* The campaigns here are the ones the job selects when they are PENDING:  *)
(* ended, APPROVED and not global.  It does not ask for their type, and a  *)
(* campaign that is not of type "crypto", a raffle say, ends its run.      *)
(***************************************************************************)
EXTENDS RewardTiers, FiniteSetsExt

CONSTANTS
    Campaigns,      \* ended campaigns
    Crypto,         \* those of type "crypto"
    Sent,           \* those an admin has sent to be audited before we look
    Participants,   \* participant rows, named by their place in primary-key order
    Jobs,           \* pods that run the cron
    Nobody,         \* no campaign
    Tiers,          \* the tier table of each campaign
    Members0,       \* who takes part in each campaign at first
    Score0,         \* the score of each participant at first
    Stored,         \* campaigns whose tatumBlockageId was stored at approval
    Own,            \* campaigns of the raiinmaker organisation: they pay no fee
    Budget,         \* the coiinTotal blocked for each campaign at approval
    FeeDivisor,     \* the fee is one part in FeeDivisor of the pool
    Precision,      \* a quotient is rounded to one part in Precision
    PageSize,       \* participants paid per page (take)
    Amounts,        \* the amounts a share can have
    Scores, Totals, \* bounds: the scores of a participant and of a campaign
    UnblockTwice,   \* does Tatum accept the release of a released blockage?
    Lagging,        \* does the read replica lag behind the primary?
    MaxFailures,    \* bound on jobs that die before they are done
    Kinds,          \* what users and admins do meanwhile, a subset of TrafficKinds
    MaxTraffic      \* bound on how often they do it

TrafficKinds == {"track", "blacklist", "participate", "remove", "reopen"}

\* What names a reward: campaign, participant and amount.  It is the key of the
\* look-up that decides whether a reward was already transferred.
Rewards == Campaigns \X Participants \X Amounts

\* The tokens the reached tier pays, the platform's fee on them, what it leaves of them.
TierCoiins(c, points) == CalculateTier(points, Tiers[c]).currentTotal

Fee(c, points) == CampaignFee(TierCoiins(c, points), Precision)

AfterFee(c, points) == AfterCampaignFee(TierCoiins(c, points), FeeDivisor)

Share(c, points, own) ==
    CalculateParticipantPayout(AfterFee(c, points), points, own, Precision)

Total0 == [c \in Campaigns |-> MapThenSumSet(LAMBDA p : Score0[c][p], Members0[c])]

ASSUME CampaignsAssumption ==
    /\ Nobody \notin Campaigns
    /\ IsFiniteSet(Campaigns) /\ IsFiniteSet(Jobs)
    /\ Crypto \subseteq Campaigns /\ Sent \subseteq Campaigns
    /\ Stored \subseteq Campaigns /\ Own \subseteq Campaigns
    /\ UnblockTwice \in BOOLEAN /\ Lagging \in BOOLEAN
    /\ Kinds \subseteq TrafficKinds

ASSUME ParticipantsAssumption ==
    /\ Participants \subseteq Nat /\ IsFiniteSet(Participants)
    /\ Members0 \in [Campaigns -> SUBSET Participants]
    /\ Scores \subseteq Nat /\ 0 \in Scores /\ Totals \subseteq Nat
    /\ Score0 \in [Campaigns -> [Participants -> Scores]]
    /\ \A c \in Campaigns : Total0[c] \in Totals

ASSUME BoundsAssumption ==
    /\ PageSize \in Nat \ {0}
    /\ FeeDivisor \in Nat \ {0} /\ Precision \in Nat \ {0}
    /\ MaxFailures \in Nat /\ MaxTraffic \in Nat

ASSUME AmountsAssumption ==
    /\ Amounts \subseteq Nat
    /\ Budget \in [Campaigns -> Nat]
    /\ \A c \in Campaigns : IsTierTable(Tiers[c])
    /\ \A c \in Campaigns, t \in Totals, s \in Scores : Share(c, t, s) \in Amounts

VARIABLES
    \* -- Postgres, primary
    auditStatus,    \* "DEFAULT", "PENDING" or "AUDITED", per campaign
    total,          \* campaign.totalParticipationScore
    score,          \* participant.participationScore
    member,         \* participants of the campaign
    blacklist,      \* those with the blacklist flag
    transfer,       \* how many CAMPAIGN_REWARD rows exist for a reward
    payoutRow,      \* amounts of the CAMPAIGN_REWARD_PAYOUT rows, in order
    \* -- Postgres, replica
    replica,        \* what readPrisma sees of transfer and auditStatus
    \* -- Tatum
    blockage,       \* "held" or "released", per campaign
    available,      \* what the organisation's account can spend
    feePaid,        \* how many times the fee was moved, per campaign
    paid,           \* how many times a reward was moved
    \* -- the pods
    job,
    \* -- bounds
    failures, traffic

database == <<auditStatus, total, score, member, blacklist, transfer, payoutRow>>
ledger == <<blockage, available, feePaid, paid>>
bounds == <<failures, traffic>>
vars == <<database, replica, ledger, job, bounds>>

-----------------------------------------------------------------------------
\* A job with campaigns todo ahead, at campaign c or at none.
Fresh(label, todo, c, snapshot) ==
    [pc |-> label, todo |-> todo, cur |-> c, snapshot |-> snapshot, pages |-> 0,
     skip |-> 0, unseen |-> {}, batch |-> {}, totalPayout |-> 0]

Idle == Fresh("idle", {}, Nobody, 0)

Init ==
    /\ auditStatus = [c \in Campaigns |-> IF c \in Sent THEN "PENDING" ELSE "DEFAULT"]
    /\ score = Score0
    /\ member = Members0
    /\ total = Total0
    /\ blacklist = [c \in Campaigns |-> {}]
    /\ transfer = [r \in Rewards |-> 0]
    /\ replica = [transfer |-> transfer, auditStatus |-> auditStatus]
    /\ payoutRow = [c \in Campaigns |-> << >>]
    /\ blockage = [c \in Campaigns |-> "held"]
    /\ available = 0
    /\ feePaid = [c \in Campaigns |-> 0]
    /\ paid = [r \in Rewards |-> 0]
    /\ job = [j \in Jobs |-> Idle]
    /\ failures = 0
    /\ traffic = 0

-----------------------------------------------------------------------------
(* What a job computes from what it reads. *)

Eligible(c) == member[c] \ blacklist[c]

PageCount(n) == (n + PageSize - 1) \div PageSize

\* An offset that counts from the row before.
PageOffByOne(c, skip) ==
    LET place(p) == Cardinality({q \in Eligible(c) : q <= p})
    IN  {p \in Eligible(c) : place(p) \in skip .. skip + PageSize - 1}

\* Rows skip + 1 .. skip + take of the eligible participants.  Prisma completes
\* a paginated query without orderBy with the primary key.
Page(c, skip) ==
    LET place(p) == Cardinality({q \in Eligible(c) : q <= p})
    IN  {p \in Eligible(c) : place(p) \in skip + 1 .. skip + PageSize}

Amount(r) == r[3]

Positive == {r \in Rewards : Amount(r) > 0}

Sum(rewards) == MapThenSumSet(Amount, rewards)

\* No look-up at all.
NeverTransferred(r) == FALSE

\* What a job reads.  That it may also read scores and members late adds nothing:
\* no job writes them, so a late read is an early change by a user made later.
SeenTransfer == IF Lagging THEN replica.transfer ELSE transfer
SeenAuditStatus == IF Lagging THEN replica.auditStatus ELSE auditStatus

AlreadyTransferred(r) == SeenTransfer[r] > 0

At(j, label) == job[j].pc = label

\* The local state of job j after a step.
Become(j, local) == job' = [job EXCEPT ![j] = local]

\* A job that leaves the campaign it was at behind.
ForgetButCampaign(j) == Become(j, Fresh("idle", {}, job[j].cur, 0))

Forget(j) == Become(j, Idle)

\* A client that swallows the error of the batch call.
MoveFundsOrNothing(batch) ==
    \/ /\ available' = available - Sum(batch)
       /\ paid' = [r \in Rewards |-> IF r \in batch THEN paid[r] + 1 ELSE paid[r]]
    \/ UNCHANGED <<available, paid>>

MoveFunds(batch) ==
    /\ available' = available - Sum(batch)
    /\ paid' = [r \in Rewards |-> IF r \in batch THEN paid[r] + 1 ELSE paid[r]]

\* The batch call: all of it, and only if the account covers it.
BatchTransfer(batch) ==
    /\ Sum(batch) <= available
    /\ MoveFunds(batch)

-----------------------------------------------------------------------------
(* The steps of a job, in program order. *)

\* The campaigns the job selects, whatever their type.
Due == {c \in Campaigns : SeenAuditStatus[c] = "PENDING"}

Select(j) ==
    /\ At(j, "idle")
    /\ Due # {}
    /\ Become(j, Fresh("next", Due, Nobody, 0))
    /\ UNCHANGED <<database, replica, ledger, bounds>>

\* The next campaign is read again, but whether it is still PENDING is not asked.
\* The selection has no order, so it may be any of those ahead.
ReadCampaign(j) ==
    /\ At(j, "next")
    /\ \E c \in job[j].todo \cap Crypto :
          Become(j, Fresh("unblock", job[j].todo \ {c}, c, total[c]))
    /\ UNCHANGED <<database, replica, ledger, bounds>>

\* It is of another type: the switch throws, and the campaigns behind it wait for
\* the next run, which selects it again.
InvalidType(j) ==
    /\ At(j, "next")
    /\ job[j].todo \ Crypto # {}
    /\ Forget(j)
    /\ UNCHANGED <<database, replica, ledger, bounds>>

Exit(j) ==
    /\ At(j, "next")
    /\ job[j].todo = {}
    /\ Forget(j)
    /\ UNCHANGED <<database, replica, ledger, bounds>>

\* A Tatum that refuses to release what is released, and a caller unaware of it.
UnblockOnce(j) ==
    LET c == job[j].cur
    IN  /\ At(j, "unblock")
        /\ c \in Stored /\ blockage[c] = "held"
        /\ blockage' = [blockage EXCEPT ![c] = "released"]
        /\ available' = available + Budget[c]
        /\ Become(j, [job[j] EXCEPT !.pc = "count"])
        /\ UNCHANGED <<database, replica, feePaid, paid, bounds>>

\* Tatum deletes the blockage and the blocked budget becomes spendable.
UnblockAccountBalance(j) ==
    LET c == job[j].cur
    IN  /\ At(j, "unblock")
        /\ c \in Stored
        /\ \/ /\ blockage[c] = "held"
              /\ blockage' = [blockage EXCEPT ![c] = "released"]
              /\ available' = available + Budget[c]
           \/ /\ blockage[c] = "released" /\ UnblockTwice
              /\ UNCHANGED <<blockage, available>>
        /\ Become(j, [job[j] EXCEPT !.pc = "count"])
        /\ UNCHANGED <<database, replica, feePaid, paid, bounds>>

CountParticipants(j) ==
    /\ At(j, "count")
    /\ Become(j, [job[j] EXCEPT !.pc = "fee",
                                !.pages = PageCount(Cardinality(Eligible(job[j].cur)))])
    /\ UNCHANGED <<database, replica, ledger, bounds>>

TransferFee(j) ==
    LET c == job[j].cur
        fee == Fee(c, job[j].snapshot)
    IN  /\ At(j, "fee")
        /\ IF c \in Own
           THEN UNCHANGED <<available, feePaid>>
           ELSE /\ fee <= available
                /\ available' = available - fee
                /\ feePaid' = [feePaid EXCEPT ![c] = @ + 1]
        /\ Become(j, [job[j] EXCEPT !.pc = "page"])
        /\ UNCHANGED <<database, replica, blockage, paid, bounds>>

\* The shares of one page, from the scores as they are now and the campaign's
\* total as it was when the campaign was read.
SharesOfPage(j) ==
    LET c == job[j].cur
    IN  {<<c, p, Share(c, job[j].snapshot, score[c][p])>> : p \in Page(c, job[j].skip)}

\* Lists of the page declared outside the loop over the pages.
ReadPageKeepingBatch(j) ==
    /\ At(j, "page")
    /\ job[j].pages > 0
    /\ Become(j, [job[j] EXCEPT !.pc = "lookup", !.unseen = SharesOfPage(j) \cap Positive])
    /\ UNCHANGED <<database, replica, ledger, bounds>>

ReadPage(j) ==
    /\ At(j, "page")
    /\ job[j].pages > 0
    /\ Become(j, [job[j] EXCEPT !.pc = "lookup", !.batch = {},
                                !.unseen = SharesOfPage(j) \cap Positive])
    /\ UNCHANGED <<database, replica, ledger, bounds>>

\* The next participant of the page: into the batch unless a transfer row is found.
LookUp(j) ==
    /\ At(j, "lookup")
    /\ \E r \in job[j].unseen :
       /\ \A q \in job[j].unseen : r[2] <= q[2]
       /\ Become(j, IF AlreadyTransferred(r)
                    THEN [job[j] EXCEPT !.unseen = @ \ {r}]
                    ELSE [job[j] EXCEPT !.unseen = @ \ {r}, !.batch = @ \cup {r},
                                        !.totalPayout = @ + Amount(r)])
    /\ UNCHANGED <<database, replica, ledger, bounds>>

TransferFundsBatch(j) ==
    LET batch == job[j].batch
    IN  /\ At(j, "lookup")
        /\ job[j].unseen = {}
        /\ BatchTransfer(batch)
        /\ Become(j, [job[j] EXCEPT !.pc = "record"])
        /\ UNCHANGED <<database, replica, blockage, feePaid, bounds>>

\* The fee moved inside the loop over the pages.
CreateTransfersThenFee(j) ==
    LET batch == job[j].batch
    IN  /\ At(j, "record")
        /\ transfer' = [r \in Rewards |-> IF r \in batch THEN transfer[r] + 1 ELSE transfer[r]]
        /\ Become(j, [job[j] EXCEPT !.pc = IF job[j].pages > 1 THEN "fee" ELSE "page",
                                    !.pages = @ - 1, !.skip = @ + PageSize])
        /\ UNCHANGED <<auditStatus, total, score, member, blacklist, payoutRow,
                       replica, ledger, bounds>>

\* One createMany for the page.  The notes to DragonChain and CoiinChain that
\* follow change nothing here; that they may reject is a failure of the next step.
CreateTransfers(j) ==
    LET batch == job[j].batch
    IN  /\ At(j, "record")
        /\ transfer' = [r \in Rewards |-> IF r \in batch THEN transfer[r] + 1 ELSE transfer[r]]
        /\ Become(j, [job[j] EXCEPT !.pc = "page", !.pages = @ - 1,
                                    !.skip = @ + PageSize])
        /\ UNCHANGED <<auditStatus, total, score, member, blacklist, payoutRow,
                       replica, ledger, bounds>>

\* AUDITED before the last page is paid.
SetAuditedEarly(j) ==
    /\ At(j, "page")
    /\ auditStatus' = [auditStatus EXCEPT ![job[j].cur] = "AUDITED"]
    /\ Become(j, [job[j] EXCEPT !.pc = "payout"])
    /\ UNCHANGED <<total, score, member, blacklist, transfer, payoutRow,
                   replica, ledger, bounds>>

SetAudited(j) ==
    /\ At(j, "page")
    /\ job[j].pages = 0
    /\ auditStatus' = [auditStatus EXCEPT ![job[j].cur] = "AUDITED"]
    /\ Become(j, [job[j] EXCEPT !.pc = "payout"])
    /\ UNCHANGED <<total, score, member, blacklist, transfer, payoutRow,
                   replica, ledger, bounds>>

CreatePayoutRow(j) ==
    /\ At(j, "payout")
    /\ payoutRow' = [payoutRow EXCEPT ![job[j].cur] = Append(@, job[j].totalPayout)]
    /\ Become(j, Fresh("next", job[j].todo, Nobody, 0))
    /\ UNCHANGED <<auditStatus, total, score, member, blacklist, transfer,
                   replica, ledger, bounds>>

\* What always rejects in the state the job has reached: the whole run ends, the
\* campaigns still to do included.
Rejected(j) ==
    LET c == job[j].cur
    IN  \/ At(j, "unblock") /\ c \notin Stored
        \/ At(j, "unblock") /\ blockage[c] = "released" /\ ~UnblockTwice
        \/ At(j, "fee") /\ c \notin Own /\ Fee(c, job[j].snapshot) > available
        \/ At(j, "lookup") /\ job[j].unseen = {} /\ Sum(job[j].batch) > available

Throw(j) ==
    /\ Rejected(j)
    /\ Forget(j)
    /\ UNCHANGED <<database, replica, ledger, bounds>>

\* The pod is killed, or a call rejects that need not.
Die(j) ==
    /\ ~At(j, "idle")
    /\ failures < MaxFailures
    /\ failures' = failures + 1
    /\ Forget(j)
    /\ UNCHANGED <<database, replica, ledger, traffic>>

Step(j) ==
    \/ Select(j) \/ ReadCampaign(j) \/ InvalidType(j) \/ Exit(j)
    \/ UnblockAccountBalance(j) \/ CountParticipants(j) \/ TransferFee(j)
    \/ ReadPage(j) \/ LookUp(j) \/ TransferFundsBatch(j) \/ CreateTransfers(j)
    \/ SetAudited(j) \/ CreatePayoutRow(j) \/ Throw(j)

-----------------------------------------------------------------------------
(* What goes on around the job. *)

Traffic(kind) ==
    /\ kind \in Kinds
    /\ traffic < MaxTraffic
    /\ traffic' = traffic + 1

Replicate ==
    /\ Lagging
    /\ replica' = [transfer |-> transfer, auditStatus |-> auditStatus]
    /\ replica' # replica
    /\ UNCHANGED <<database, ledger, job, bounds>>

\* A click or view is tracked: an ended campaign does not refuse it.
Track(c, p) ==
    /\ Traffic("track")
    /\ p \in member[c]
    /\ score[c][p] + 1 \in Scores /\ total[c] + 1 \in Totals
    /\ score' = [score EXCEPT ![c][p] = @ + 1]
    /\ total' = [total EXCEPT ![c] = @ + 1]
    /\ UNCHANGED <<auditStatus, member, blacklist, transfer, payoutRow,
                   replica, ledger, job, failures>>

\* The flag is set; the campaign's total keeps the participant's score.
BlacklistParticipant(c, p) ==
    /\ Traffic("blacklist")
    /\ p \in Eligible(c)
    /\ blacklist' = [blacklist EXCEPT ![c] = @ \cup {p}]
    /\ UNCHANGED <<auditStatus, total, score, member, transfer, payoutRow,
                   replica, ledger, job, failures>>

Participate(c, p) ==
    /\ Traffic("participate")
    /\ p \in Participants \ member[c]
    /\ member' = [member EXCEPT ![c] = @ \cup {p}]
    /\ score' = [score EXCEPT ![c][p] = 0]
    /\ UNCHANGED <<auditStatus, total, blacklist, transfer, payoutRow,
                   replica, ledger, job, failures>>

\* The row is deleted; the campaign's total keeps its score.
RemoveParticipation(c, p) ==
    /\ Traffic("remove")
    /\ p \in member[c]
    /\ member' = [member EXCEPT ![c] = @ \ {p}]
    /\ blacklist' = [blacklist EXCEPT ![c] = @ \ {p}]
    /\ UNCHANGED <<auditStatus, total, score, transfer, payoutRow,
                   replica, ledger, job, failures>>

\* POST /payout-campaign-rewards: whatever status and type were, it becomes PENDING.
PayoutCampaignRewards(c) ==
    /\ Traffic("reopen")
    /\ auditStatus' = [auditStatus EXCEPT ![c] = "PENDING"]
    /\ UNCHANGED <<total, score, member, blacklist, transfer, payoutRow,
                   replica, ledger, job, failures>>

Users ==
    \/ \E c \in Campaigns, p \in Participants :
          \/ Track(c, p) \/ BlacklistParticipant(c, p)
          \/ Participate(c, p) \/ RemoveParticipation(c, p)
    \/ \E c \in Campaigns : PayoutCampaignRewards(c)

Next ==
    \/ \E j \in Jobs : Step(j) \/ Die(j)
    \/ Replicate
    \/ Users

Spec == Init /\ [][Next]_vars

\* Kubernetes keeps starting the job every hour and a running job keeps taking
\* steps; nothing is assumed of users, admins or failures.
Fairness == \A j \in Jobs : WF_vars(Step(j))

FairSpec == Spec /\ Fairness

-----------------------------------------------------------------------------
(* Properties *)

AuditStatus == {"DEFAULT", "PENDING", "AUDITED"}

JobState == [pc : {"idle", "next", "unblock", "count", "fee", "page", "lookup",
                  "record", "payout"},
            todo : SUBSET Campaigns, cur : Campaigns \cup {Nobody}, snapshot : Totals \cup {0},
            pages : Nat, skip : Nat, unseen : SUBSET Rewards, batch : SUBSET Rewards,
            totalPayout : Int]

\* Every variable has its type; a job is busy with a campaign exactly between
\* reading it and recording its payout.
TypeOK ==
    /\ auditStatus \in [Campaigns -> AuditStatus]
    /\ total \in [Campaigns -> Totals]
    /\ score \in [Campaigns -> [Participants -> Scores]]
    /\ member \in [Campaigns -> SUBSET Participants]
    /\ blacklist \in [Campaigns -> SUBSET Participants]
    /\ transfer \in [Rewards -> Nat]
    /\ replica \in [transfer : [Rewards -> Nat],
                   auditStatus : [Campaigns -> AuditStatus]]
    /\ blockage \in [Campaigns -> {"held", "released"}]
    /\ feePaid \in [Campaigns -> Nat]
    /\ paid \in [Rewards -> Nat]
    /\ job \in [Jobs -> JobState]
    /\ \A j \in Jobs : job[j].cur = Nobody <=> job[j].pc \in {"idle", "next"}
    /\ failures \in 0 .. MaxFailures /\ traffic \in 0 .. MaxTraffic

InFlight(r) == {j \in Jobs : At(j, "record") /\ r \in job[j].batch}

\* The ledger and the records agree up to the jobs that are between the two: every
\* CAMPAIGN_REWARD row is backed by a payment, every payment has its row unless a
\* job is about to write it, or died before it could, whoever overlaps.
LedgerMatchesRecords ==
    \A r \in Rewards :
        /\ transfer[r] + Cardinality(InFlight(r)) <= paid[r]
        /\ paid[r] <= transfer[r] + Cardinality(InFlight(r)) + failures

\* The look-up makes a retry safe: once a reward is on record no later run, be
\* it after a crash or after an admin asked for the payout again, pays it again.
\* It takes a single job at a time and a replica that does not lag.
RecordedIsFinal ==
    [][\A r \in Rewards : transfer[r] > 0 => paid'[r] = paid[r]]_vars

\* Each job that dies can cost one duplicate of a reward and no more: the window
\* between transferFundsBatch and createMany is the only way to pay twice.
OverpaidOncePerFailure == \A r \in Rewards : paid[r] <= 1 + failures

\* While users come and go during the audit, each thing they do costs at most
\* one participant the reward: pages are counted once and cut by offset, so a
\* row that leaves shifts one row out of sight and a row that joins pushes one
\* beyond the last page.
MissedAtMostOncePerChange ==
    \A c \in Campaigns : auditStatus[c] = "AUDITED" =>
        Cardinality({p \in Eligible(c) :
            /\ Share(c, total[c], score[c][p]) > 0
            /\ \A a \in Amounts : paid[<<c, p, a>>] = 0}) <= traffic

LastOf(keys) == CHOOSE k \in keys : \A l \in keys : l <= k

\* The tokens a score earns by the words of the form: the entry of the last threshold
\* that is reached, else the first.  A score right at the last threshold of a table that
\* has no blank entry gets what the scan starts with.
Promised(c, points) ==
    LET filled == {k \in DOMAIN Tiers[c] : Tiers[c][k].filled}
        reached == {k \in filled : Tiers[c][k].threshold <= points}
    IN  IF reached = {} THEN Tiers[c][1].totalCoiins
        ELSE IF filled = DOMAIN Tiers[c] /\ points = Tiers[c][Len(Tiers[c])].threshold
             THEN BaseTier.currentTotal
             ELSE Tiers[c][LastOf(reached)].totalCoiins

\* The shares a campaign has drawn from the organisation's account.
SharesDrawn(c) ==
    MapThenSumSet(LAMBDA r : Amount(r) * paid[r], {r \in Rewards : r[1] = c /\ paid[r] > 0})

\* While scores stand still, a campaign pays out what the tier its score earns promises,
\* less the fee: an audited campaign no less and none more than once over and once again
\* per death, up to half a unit per participant, by which each share is rounded.
WithinPool ==
    \A c \in Campaigns :
        LET rest == Promised(c, total[c]) * (FeeDivisor - 1)
            rounding == Cardinality(member[c])
        IN  /\ 2 * SharesDrawn(c) <= (1 + failures) * (rest * (2 * Precision + rounding))
            /\ auditStatus[c] = "AUDITED" /\ total[c] > 0 =>
                  2 * SharesDrawn(c) >= rest * (2 * Precision - rounding)

\* The fee is drawn again only when a job has died or an admin has asked for the payout
\* again.  It takes funds that cover the audit: a job that the ledger refuses a batch
\* has drawn the fee already, and so has every run that tries again.
FeePerAttempt == \A c \in Campaigns : feePaid[c] <= 1 + failures + traffic

\* If the jobs stop dying, every campaign of type "crypto" is audited in the end, the ones
\* an admin sends back included, unless a campaign of another type has been sent too: that
\* one is never audited and can end every run.
EventuallyAudited ==
    \A c \in Crypto :
        auditStatus[c] = "PENDING" ~>
            \/ auditStatus[c] = "AUDITED"
            \/ \E d \in Campaigns \ Crypto : auditStatus[d] = "PENDING"

-----------------------------------------------------------------------------
(* The audit implements the at-least-once contract while scores stand still. *)

Reward0(c, p) == <<c, p, Share(c, Total0[c], Score0[c][p])>>

Owed == [c \in Campaigns |-> {Reward0(c, p) : p \in Members0[c]} \cap Positive]

Contract == INSTANCE AtLeastOncePayout WITH
    Claims   <- Rewards,
    payments <- paid,
    settled  <- {r \in Rewards : transfer[r] > 0},
    closed   <- {c \in Campaigns : auditStatus[c] = "AUDITED"}

\* Every step of the audit is a payment of unsettled rewards, a settlement of paid
\* ones, a close with nothing owed, a reopening, or invisible.
ImplementsContract == Contract!Spec

=============================================================================
