# Verification of the Raiinmaker server

This directory holds TLA+ models of the server in `src/` (a TypeScript service: Ts.ED
controllers, Prisma on Postgres with a read replica, Redis, the ledger of Tatum, and cron
jobs on Kubernetes), the TLC configurations that check them on small instances, and
proofs, checked by TLAPS, that hold for every size.

The server keeps campaigns that companies pay for. Users join a campaign, share posts,
earn points, and when it ends its budget is divided among them. Money is in Tatum's
ledger, records are in Postgres, and no transaction covers both: most of what can go
wrong in this code goes wrong between two awaited calls. So every module takes **one
awaited call that changes or reads shared state as one step**; between two steps other
requests, other pods, the replica and failures may come in.

Paths below are relative to `src/src/`; `v1` stands for `controllers/v1`.

## 1. Inventory

### Components that are modelled

| Component | State | Operations | What is hard |
|---|---|---|---|
| **Campaign audit** `cron/campaignAudit` | audit status, transfers, the Tatum ledger, what a pod has in memory | select due campaigns, release the blockage, draw the fee, pay page by page, record, close | pods die between payment and record; jobs overlap; the replica lags; users change the pages meanwhile |
| **Reward arithmetic** `controllers/helpers.ts` | none | tier of a score, fee, share | boundaries, blank tiers, division |
| **Rate limiter** `util/rateLimiter.ts` | one counter per key in Redis | read, increment, expire | three calls, not one |
| **Participation and scoring** `v1/ParticipantController`, `v1/UserController`, `v1/SocialController`, click redirect, metric services | total of a campaign, rows of participants, hourly and daily metrics, a cache | track, click, join, leave, post | read-modify-write across calls, two kinds of cache staleness, look-up-then-create |
| **Campaign lifecycle** `v1/CampaignController`, `CampaignService` | rows, a cache, blockages in Tatum | create, approve, deny, delete, audit | decisions on stale copies, money blocked before the row is written |
| **Coiin rewards** `UserService`, `TransferService`, `cron/fixTransfer` | table of transfers, Raiinmaker's account | request a reward, move by an admin, settle | marked before paid, pages of a shrinking table, overlapping jobs |
| **Purchases of coiin** `v1/StripeController` | transfers of dollars, the card, two transfers of coiin | purchase, charge, webhook | Stripe repeats and duplicates events; coiin moves before it is recorded |
| **Withdrawals** `v1/TatumController`, `TatumService`, `cron/fixTransfer` | Tatum's ledger, the chain, the balance in the database | store, send, complete, cancel, record, collect the fee, write the balance | an error handler that compensates too much or too little, lost answers, lost updates |
| **Identity verification** `v1/KycController`, `VerificationApplicationService` | Acuant's verdicts, one row per user and level | register for two levels, poll, webhook | verdicts late, repeated and out of order; look-up-then-create on the replica |
| **Codes and tokens** `VerificationService` | verification rows | create, mail, confirm, hand out, spend | looked up on the replica, used up in a later call |
| **Sessions** `SessionService`, `UserAuthMiddleware` | one row per log-in | open, prolong, log out, expire | a look-up decides whether others are logged out |
| **Accounts** `v1/AuthenticationController`, `v1/UserController`, `UserService` | five rows per user, a cache | sign up, log in, recover, change or reset the password, move the e-mail, delete, ban | five writes without a transaction, stale copies of a user |
| **Social job** `cron/social` | posts, scores, total, days | ask Twitter, add, write the counts | runs that die, overlap, or last for hours |
| **Quality scores** `cron/qualityScore`, `QualityScoreService` | a tier per participant | rate a page, write all tiers | each page overwrites the last with another yardstick |
| **Score aggregation** `cron/scoreAggregate` | a metric of the day per user | sum, notify, write | a message ends the run |

How they meet: a decision (lifecycle) blocks the money that the audit releases, and stores
the id the audit needs; participation and the social job produce the scores and rows the
audit reads page by page; a join or share asks for a coiin reward; the job that settles
rewards also settles the purchases that Raiinmaker's account could not pay at once, and
copies the ledger's balances over those that withdrawals write; a withdrawal needs
a token and two approved applications. `CampaignAudit` contains the user traffic it is
disturbed by, `CampaignApproval` the audit as one step, `Withdrawal` the balance job,
`CoiinPurchases` the rewards and their job,
`Accounts` composes tokens and sessions with the users, `ScoreJobs` the three jobs with the
requests that write their tables, and `Payouts` identity verification with the withdrawals
it stands before, so that each interaction is checked where both sides change the same state.

What makes each correct:

* *audit*: every participant is paid what the tier says, nobody twice beyond what a crash
  explains, records and ledger agree, a campaign is closed only when all is recorded, and
  it is closed in the end;
* *limiter*: the excess over the limit is bounded, and a key is not refused for ever;
* *participation*: no interleaving invents points, and undisturbed all tables agree;
* *lifecycle*: an approved campaign knows the blockage that holds its budget, and no other
  money is blocked;
* *rewards*: limits hold up to the requests under way, nothing is paid twice, what is lost is
  bounded by the jobs that ended early, everything is settled in the end;
* *purchases*: a buyer is credited once per event at most, and only if the card paid;
* *withdrawals*: nothing is left half done unless a call failed, the account is not
  overdrawn, and the database gets to agree with the ledger; money leaves only for a user
  who was approved at both levels;
* *accounts*: a token is used once, an address belongs to who presented its code, a sign-up
  is whole or refused before it wrote, a user has one live session — but for what failures
  and requests that meet explain;
* *score jobs*: a like is counted once but for runs that met or were cut short; tables agree,
  tiers share a yardstick and every user gets a metric as long as nothing overlaps.

### Components that are not modelled (yet)

`PROJECT.json` lists each with the reason; section 7 says which of them are worth a module
and which have no protocol to model.

## 2. Modules

| Module | Models | Builds on |
|---|---|---|
| `RewardTiers` | `calculateTier`, fee, `calculateParticipantPayout` | |
| `AtLeastOncePayout` | abstract specification of a payout | |
| `CampaignAudit` | the audit job with its surroundings | `RewardTiers`; implements `AtLeastOncePayout` |
| `RateLimiter` | `limit` | |
| `Participation` | tracking, clicks, posts, join and leave | |
| `CampaignApproval` | lifecycle and blockages | |
| `CoiinRewards` | rewards and `fixFailedCoiinTransfers` | |
| `CoiinPurchases` | buying coiin by card | `CoiinRewards` |
| `Withdrawal` | withdrawals and `updateTatumBalances` | |
| `Kyc` | applications of two levels and Acuant's verdicts | |
| `Payouts` | who may withdraw | `Kyc`, `Withdrawal` |
| `VerificationTokens` | the queries of `VerificationService` | |
| `Sessions` | the queries of `SessionService` | |
| `Accounts` | the requests that touch an account | `VerificationTokens`, `Sessions` |
| `ScoreTables` | the tables of the score jobs | |
| `SocialMetrics`, `QualityScores`, `ScoreAggregate` | one job each | `ScoreTables` |
| `ScoreJobs` | the three jobs beside each other and the requests | the three |
| `MC…` | finite instances for TLC | one each (`CampaignAudit` has two) |
| `SumTheorems` | theorems about sums over finite sets | |
| `…Proofs` | theorems | the module of that name; `PayoutsProofs` also those of `Kyc` and `Withdrawal`, `CoiinRewardsProofs` of `CoiinPurchases`, `ParticipationProofs` of `RateLimiter`; all but `CampaignApprovalProofs`, `AccountsProofs` and `PayoutsProofs` take `SumTheorems` |

Conventions. An actor (pod, request, decision) is a record in a function `job`, `request`
or `decision`; its field `pc` names the call it makes next, the other fields are the local
variables of the handler that are alive across an await. `Become` and `Goto` set it. A
definition carries the name of the function it translates where there is one. `Seen` is
what `readPrisma` returns: the replica if `Lagging`, else the primary; `Replicate` catches
up. A call that rejects ends its handler as the code's `catch` says; `MaxFailures` bounds
how often. Definitions right before the one they resemble, named for a mistake
(`LeaveOpen`, `StoreUnchecked`), are deliberate faults: they are not part of any
specification and show that the properties notice them.

### CampaignAudit

`Select` is the query for due campaigns, `ReadCampaign` takes the next of them,
`UnblockAccountBalance`, `CountParticipants`, `TransferFee`, then for each page `ReadPage`,
one `LookUp` for each reward, `TransferFundsBatch` and `CreateTransfers`, and at the end
`SetAudited` and `CreatePayoutRow`. `Throw` is the `catch` of `main` (the job ends, the
campaigns behind are not audited), `Die` the loss of the pod. `Users` holds `Track`,
`BlacklistParticipant`, `Participate`, `RemoveParticipation` and the admin's
`PayoutCampaignRewards`, which sets an audited campaign PENDING again.
A reward is named by campaign, participant *and amount*, because the look-up that keeps a
retry from paying again compares the amount, too (`auditFunctions.ts:134-140`).
The query for due campaigns has no filter on the type, so the model has campaigns of other
types, too: `InvalidType` is the `default: throw` of the loop, which ends the run at the
first one (`campaignAudit/index.ts:58-64`). `Sent` are the campaigns an admin has sent to
the audit before a behaviour starts.

Amounts count units in which everything the code computes is whole. `BigNumber` multiplies
exactly and divides to 20 places, half a unit up (`util/index.ts:78`,
`controllers/helpers.ts:179-180`); so with `Precision` for 10^20 and a fee of one part in
`FeeDivisor`, a token has `FeeDivisor * Precision` units, `Percentage` is a number of parts
in `Precision` that may be rounded up, and a share is an exact product. The instances have a
`Precision` of 10 so that the rounding shows.

### Participation

One campaign, one hour, one day. A tracked action reads the participant and the campaign
(`trackAction` from the cache, the click redirect from the database), then writes total,
score, hour and day in four calls, the metrics after a look-up on the replica. A post
(`Post`, or `PostContentGlobally` by one who does not take part yet) is counted in the hour and
then gets its row (`NewSocialPost`); the social network itself is not modelled. History
variables `granted` and `credited` count the points that were written to the total and to
each participant; `disturbed` remembers whether requests overlapped, a call rejected or a
read was stale. The quality multiplier is left out because it is always one: the code
compares objects by identity and falls to its default. Whether the campaign is open stops
only those who post: `postToSocial` awaits the answer (`v1/SocialController.ts:176`; `open`,
`CampaignEnds`), while whoever joins meets `await !promise` (`v1/UserController.ts:396`) and
whoever is tracked `!promise` (`v1/ParticipantController.ts:461`), which are false whatever
the promise gives. One who posts globally when the campaign is over is left a participant
without a post.

### CampaignApproval

A decision takes a campaign, perhaps from a cache it does not reset, checks the balance,
blocks the budget and writes status and blockage id of *its copy* back. The audit is one
step that releases the blockage on record. `redecided` collects the campaigns for which the
code promises nothing: decided twice, deleted, or with a failed decision.

### CoiinRewards

Transfers are a sequence in the order of creation, each worth one coin. A request looks the
recent ones up and creates its own; `WindowEnds` lets the transfers of one kind leave the
window of a day or a week. The settling job counts pages, reads one, marks each of its
transfers, and pays the page in one batch; when the batch or a row fails the job ends
(`Exit`). An admin's move is three calls: `TransferCrypto` reads the balance and moves the
coiin or does not, `CreditMove` and `DebitMove` write the two transfers it leaves behind, and
jobs may come in between; a request that dies there takes no further step. `TopUp` a deposit into Raiinmaker's account. The transfers that the job pays to that very
account stay in it, so only what is in `Leaves` draws on its funds.

### CoiinPurchases

`PurchaseCoiin` writes the transfer of dollars, `ChargePaymentMethod` is the charge, and
each delivery of the event a webhook: `UpdateTransferStatus`, `CheckBalance`,
`TransferFunds` if the account holds more than the purchase, then `CreditBuyer` and
`DebitRaiinmaker` write two transfers, PENDING if nothing moved. `WebhookFails` covers a
call that rejects, a process that dies and a row that the look-up on the replica does not
find. `unrecorded` counts coins that moved without a transfer that says so. Stripe is
external: it sends an event after the charge, again while it is not answered, and may send
it twice. `scenario` separates rewards from purchases, since the only thing they
share is the account and the job. An admin's moves are left to `rewards_overlap`.

### Withdrawal

A withdrawal is a record of what became of it: its status in Tatum, whether it was *sent*
to the chain, whether the database has its *row*, and the *fee*. `OnError` says who catches
the error of which call: between store and complete the handler cancels
(`TatumService.ts:419-422`), around the fee it goes on (`509-511`), elsewhere the request
ends. A call may take effect and its answer be lost (`Proceed`), it may reject or the
process die before it (`Reject`). Tatum is external; what is assumed of it is that storing a
withdrawal takes the amount without the fee and refuses what the account does not hold,
that cancelling gives that back unless the withdrawal is complete, and that an account
cannot be overdrawn. The balance in the database is one number where the code keeps two
that it always writes together.

### Payouts

`GatedWithdraw` is `Withdraw` behind `isLevel2Approved`, which reads the row of the second
level on the replica and nothing else. A request or webhook of `Kyc` is a *handler*: it
reads the row (`VerifyKyc`, `FindKycApplication`, `KycWebhook`), polls or submits, and
writes by the id of the row it read (`Upsert`, `UpdateStatus`). `verdict` is the list of
applications at Acuant; a webhook may come for any of them at any time, twice or never.
Updates that the code starts and does not await are left out on purpose: Prisma's promises
are lazy, so `getApplication`'s update and `clearApplication`'s delete never run.

**What a webhook says is not trusted by the model.** The route is open and the body carries
no signature (`v1/KycController.ts:174`, `middleware/UserAuthMiddleware.ts:22`), and the
handler asks Acuant nothing: it takes application and verdict from the body. So `Notify`
takes any verdict on an application that a row holds, and `unfounded` remembers the
applications of which a webhook said something else than Acuant had. The properties name
this exception openly: `WithdrawalsIdentified` says *approved by Acuant or by a webhook about
that very application*, `RecordsPerOverlap` leaves out the rows of such applications. With
`unfounded = {}`, that is if webhooks are authentic, they say what Acuant said; that they are
is an assumption about the deployment, which nothing in the code establishes.

`scenario` bounds a behaviour: how many applications, overlaps and unfounded webhooks, who
withdraws, how many failures. A behaviour with applications starts with a new user, one without with an identified user.

### Accounts

`VerificationTokens` and `Sessions` have one operator per query; `Accounts` strings them
together as the handlers do. `Receive` takes a request of a kind; authenticated kinds pass
`VerifySession` and `Touch` first, as the middleware does. Then: `CheckNewUser` …
`CreateCurrency` for a sign-up, `Login` and `LoginReward`, `FindSession`, `LogoutFirst` and
`OpenSession` for whoever gets a session, `StartVerification` … `Mail` for a code,
`CheckCode`, `Prolong`, `SetVerified` and `HandOut` for its confirmation, `CheckToken` and
`SpendToken` for the token of a sign-up, a recovery, a password reset or a withdrawal.
A password stands for what its hash depends on, the e-mail of the account. `Fail` is a call
that rejects, `FallBehind` and `CatchUp` the replica, `Time` the expiry of tokens, sessions
and cached copies. `uses`, `crossed`, `abandoned` and `crossings` count what the
properties speak of and allow for. `crossed` grows at the look-up of a token or a code, and
only if another request has yet to write what it did with the row or the replica has not
heard of the write: a second acceptance that nothing of the kind explains is a violation.

### ScoreJobs

One open campaign. A run of the social job reads a page of posts, asks for their counts,
and for each post `ReadAuthor`, `ReadTotal`, quality and day, then writes score, total and
day, and `SavePosts` writes the counts of the page; `Throw` is its `catch`, `SocialDies`
the loss of the pod. A tier is represented by the participants it was measured against, a
metric of the day by its number. `left` bounds a behaviour: how many runs, overlaps,
failures, lags and requests; `disturbed` remembers that anything overlapped or failed.
Offset paging is modelled with the order Postgres may return: a row that was written since
the run began may appear on any page (`shuffled`, `jumbled`).

### RateLimiter

One key. `Get`, `Incr` and `Expire` are the three calls of Redis, `WindowEnds` is the
expiry, `Die` the process that ends inside `limit`; `torn` remembers that a window ended or
a process died there. Its state and specification are named for it (`caller`, `LimiterSpec`),
since `ParticipationProofs` extends it beside `Participation`.

## 3. Runs

Passing runs:

| Run | Instance | Shows |
|---|---|---|
| `audit_retry` | 2 crypto campaigns of 3 and 2 participants and a raffle that may be sent to the audit, scores of a sixth of the total, ten units to a token, pages of 1, 1 job at a time, 2 deaths, 1 reopening | `OverpaidOncePerFailure`, `WithinPool`, `FeePerAttempt`, `RecordedIsFinal`; the audit implements `AtLeastOncePayout`; `EventuallyAudited` |
| `audit_overlap` | 1 campaign, 2 jobs, lagging replica, 1 change by a user or admin | `LedgerMatchesRecords`, `MissedAtMostOncePerChange` |
| `rate_limit` | limit 2, 3 requests, 1 death | `OverrunBounded`, `ServedAgain` |
| `participation` | 2 users, 3 ids, 2 overlapping requests, cache, lagging replica, 3 events (requests, posts included, failures, or the end of the campaign) | `ScoresEarned`, `QuietAgree`, `DailyEarned`, `JoinsBounded` |
| `approval` | a crypto campaign and a raffle, 2 overlapping decisions, 3 in all, 1 failure | `ApprovedIsBlocked`, `BlockageAccounted` |
| `rewards` | two scenarios: 2 overlapping requests of 2 kinds and 3 transfers, or a purchase whose event is delivered 3 times with 2 failing webhooks; 1 job, 4 aborts, 1 top-up | `RewardsBounded`, `NothingOverpaid`, `CreditedPerDelivery`, `EventuallySettled` |
| `rewards_overlap` | 2 jobs, pages of 2, 3 transfers, lagging replica, an admin who takes coiin from a user, 1 failure, 1 abort, 1 top-up | `LostPerAbort`, `PendingIsUnpaid` |
| `accounts` | 2 e-mails, 2 names, 2 overlapping requests of every kind, 3 users, 3 sessions, lagging replica, stale cache, 3 events | `SpentOnce`, `UnprovenPerFailure`, `IncompletePerFailure`, `SessionsBounded` |
| `scores` | 2 participants with a post each, ten budgets: two social or quality jobs, one aggregation, an overlap or two, a failure, a lag, a request of each sort | `CreditPerRun`, `QuietCounted`, `QuietJudged`, `QuietAggregated` |
| `payouts` | five scenarios: 2 requests with 2 failures or 3 withdrawals; a new user with 2 handlers and 3 applications and an overlap, 3 and an application subject to unfounded webhooks, or 2 and both | `StrandedPerFailure`, `NotUnderstated`, `Converges`, `RecordsPerOverlap`, `WithdrawalsIdentified` |

`audit_retry`, `accounts`, `approval` and `payouts` also check the `TypeOK` of
their module. It says more than types where a pointer could dangle: a blockage id belongs
to its campaign, and a request works on a withdrawal, a token or a session that exists.

One run is meant to find a violation, of a statement of the repository that the code does
not keep:

| Run | Statement | What happens |
|---|---|---|
| `approval_coiin` | `auditFunctions.ts:54` insists on a blockage id | a campaign in coiin is approved, its money is blocked, and the id is dropped (`CampaignController.ts:752`) |

Why the bounds are enough. The hazards are races of two actors, so two requests or jobs meet
all of them, and three withdrawals or transfers let a pair overlap before or after an
undisturbed one. Pages of one and two elements over three rows have a first, a middle and a
last page; in `scores` rows come one to a page, so that two pages show what a page does to
the one before it. Failures are bounded by one to three because each property that mentions
them counts them: one more failure allows one more exception. Two deaths are needed for a
crash during a retry. Scores of 1, 1 and 4 of 6 are rounded to 2, 2 and 7 tenths, so that the
shares add up to more than the pool. A reopening brings either an audited campaign back or
the raffle in, before or behind the others. An admin who takes coiin away leaves
transfers that are PENDING or FAILED, as the balance has it; one who adds coiin leaves
PENDING ones in any case. An event of `accounts` is a request that starts, a failure or a lag:
three are two requests that meet and one that failed, or one that follows. Three
applications are one of each level and one that is repeated. The budgets and scenarios
separate what does not disturb each other, which keeps longer behaviours of each kind
within reach. What depends on the number of actors is proved for all numbers where section
5 says so.

Symmetry is used in runs without liveness only, over interchangeable actors. Deadlock is
checked except in the runs of the audit, the rewards, the accounts and the score jobs: there
a bounded instance does come to rest (all audited, the table full and the job out of
aborts, the events or the budget used up). In the others something can always go on.

## 4. Fairness

* `CampaignAudit`: weak fairness of each job's steps. Kubernetes starts a pod every hour,
  and a pod that lives goes on; deaths are bounded, so `EventuallyAudited` says *once pods
  stop dying*. It speaks of campaigns of type `crypto` and leaves out the case that one of
  another type is PENDING, since that one may end every run before the others are reached.
  The instance's budget covers what its deaths and its reopening draw again.
* `CoiinRewards` and `CoiinPurchases`: the job, as above, and the replica. Users, buyers,
  Stripe, admins and deposits are not fair.
  `EventuallySettled` needs the deposit only in so far as the instance's account would
  otherwise be empty: aborts are bounded, so a job that ended for lack of money ends that
  way a bounded number of times.
* `RateLimiter`: the end of a window (Redis expires keys by itself) and of each call.
* `Payouts`: only the balance job of `Withdrawal`. A request or a handler may stop
  anywhere, and is never fair. The job runs after the two settling phases of `fixTransfer`;
  that it is reached assumes that they end without an error in some run.
* `Participation`, `CampaignApproval`, `Accounts` and `ScoreJobs` have no liveness: nothing
  there is promised to happen.

## 5. Proofs

All theorems are about `Spec` (`LimiterSpec`, `PurchaseSpec`, `PayoutSpec` in those
modules), without fairness, for all values of the constants that meet
the `ASSUME`s of the module (finite sets of actors, natural bounds; TLC evaluates them in
every run).

| Theorem | Statement | Argument |
|---|---|---|
| `AuditTypes` | `TypeOK` | with `PageBeingPaid`: a job that pays has a page left, so the count of pages stays natural |
| `LedgerAgrees` | `LedgerMatchesRecords` | inductive given `TypeOK`; each step changes payments, rows and the jobs between the two by the same reward, a death adds one to `failures` |
| `EachChangeMissesOne` | `MissedAtMostOncePerChange`, while nobody is tracked | `MissedInv`: those a job has passed over — unpaid, at a place it has looked at or beyond its last page, and not in its hands — are at most the changes; who leaves moves one place into sight of nobody, who joins moves one beyond the last page and has no share. `MissedAtMostOncePerChange` alone says nothing of a job on its way |
| `RecordedRewardsAreFinal` | `RecordedIsFinal`, for one job and no lag | `NothingRecordedTwice`: what is in a batch has no row |
| `DuplicatesNeedFailures` | `OverpaidOncePerFailure`, same conditions | from `LedgerAgrees` and `NothingRecordedTwice` |
| `LimiterTypes`, `OverrunIsBounded` | `LimiterTypeOK`, `OverrunBounded` | `Slack`: the count plus the requests about to increment stays below the limit plus all requests; `OverrunBounded` alone is not inductive because a request that has read does not look again |
| `ScoresAreEarned` | `ScoresEarned` | `ScoreInv`: also every copy of a total or score that a request or the cache holds was earned, since it may be written back at any time |
| `ApprovalTypes`, `ApprovedKnowsBlockage` | `TypeOK`, `ApprovedIsBlocked` | `ApprovalInv`: rows, cache and copies refer to blockages of their own campaign, and what is about to be written is sound |
| `BlockagesAreAccounted` | `BlockageAccounted` | `AccountInv`: what the one decision about a campaign knows at each label (`Way`, `Taken`): row and cached copy are as at creation until it writes, and the blockages in Tatum are the one it holds or none |
| `RewardTypeCorrect`, `PendingRewardsAreUnpaid` | `TypeOK`, `PendingIsUnpaid` | `RewardInv`: what is in a batch is marked, what is not marked is unpaid |
| `AnAbortLosesAPage` | `LostPerAbort` | what a job that ends leaves marked and unpaid is part of its batch, at most a page |
| `RewardsPerWindow` | `RewardsBounded`, without lag | `WindowInv`: the counted rewards *plus the requests about to create one* stay below the limit plus the requests |
| `OneJobPaysOnce` | `NothingOverpaid`, for one job, no lag and no admins | `PaidOnce`: what is in the batch of the only job was marked by it and is unpaid; `NoAdmins`: every transfer is a reward or part of a purchase |
| `BuyersCreditedPerDelivery`, `PurchasesPaidOnce` | `CreditedPerDelivery`, `NothingOverpaid`, both of `PurchaseSpec`, for one job and no lag | `PurchaseInv`: coins moved without a transfer, credits *and the webhooks that may still bring one about* have a delivery each, and each webhook that moved a coin finds it among those to be recorded. `PaidOnce` then bounds what a credit pays, by the webhook or by the settling job, and `SumCounts` adds it up. `CreditedPerDelivery` alone is not inductive, since it knows nothing of a webhook that is under way or of a transfer left PENDING |
| `WithdrawalTypes`, `StrandedNeedsAFailure` | `TypeOK`, `StrandedPerFailure` | `StepInv`: withdrawals that are stranded *or will be whatever happens next* (`Bad`) are at most the failures; `Stranded` alone is not inductive, because a sent withdrawal whose request is about to cancel it is lost before it is stranded. Each request knows the stage of its own withdrawal (`Stage`), and no two share one |
| `OnlyTheIdentifiedWithdraw` | `WithdrawalsIdentified` | `KycInv`: a row, its copy on the replica, and what a handler read or is about to write say APPROVED only if an application of that user and level was approved, by Acuant or by a webhook about it, and an application of the second level is later than an approved one of the first; `GateInv`: a request that is past the gate found such a row. The property alone is not inductive because the gate believes a copy |
| `AuditKeepsContract` | `ImplementsContract`, for one job, no lag and scores that stand still | a step simulation. `ProgressInv`: the pages behind a job are on record, the page at hand is on record, still to be looked up or in the batch, and the pages ahead reach the last participant. Places are counted by cardinalities, so page sizes need not divide anything |
| `AuditStaysWithinPool` | `WithinPool`, for one job, no lag and scores that stand still | `SharesInv`: what was paid of a campaign, to anybody and at any time, are the shares that its score earns, so that with `DuplicatesNeedFailures` each was drawn at most once and once more per death, and all of them by an audited campaign (`ProgressInv`). `TierIsPromised`: the scan of the table finds the tier the property names. `SharesRound`, by `SumRounded`: rounding each share half up moves their sum by at most half a unit for each participant |
| `JoinsAreBounded` | `JoinsBounded`, if it holds at first (`MembersBounded`) | `JoinInv`: rows of a user *plus the requests about to create one* are at most the requests; who looks finds no row at all |
| `DailyIsEarned` | `DailyEarned` | `RowsInv`: every row of a day, and every copy of one, has the points of its counts, and the replica has no rows the primary lacks. `DayInv`: *there are* weights, the points ever written to each row, that bound the row, its copy on the replica and what a request is about to write to it, and add up, with what is still to come, to at most what was credited. The property alone is not inductive: a lost update lowers the sum, and the copy that is written back later raises it again by more than one action. The weights stand for the history the model does not keep |
| `QuietTablesAgree` | `QuietAgree` | `QuietInv`: while nothing is disturbed some request is the only one under way (`Alone`), what it has read is what is there (`Current`), and each two tables differ by exactly what its label says it has still to write (`Balanced`); at rest that is nothing |
| `RunsCreditOnce` | `CreditPerRun` | `CreditInv`: *there is* a set of runs that were counted in `astray` when they read their page, beside which at most one run holds a page. What was given for a post, less the points of those runs, is what that one run has got if it gave them already, what it found if it will, and else what the row says, up to one worth for each count of `astray` that is not spoken for by a post those runs still hold (`Slack`). The property alone is not inductive, since it does not know who holds which post, nor what the row lacks; the set stands for history that the model does not keep |
| `QuietRunsCounted` | `QuietCounted` | `CountInv`: the run under way holds what is there (`Current`), and scores, days and total differ from what the rows of posts account for by what the run has given for the posts it will write, and for the post at hand by what its label says (`Balanced`) |
| `QuietRunsJudged` | `QuietJudged` | `JudgeInv`: those rated so far are listed once, all have the yardstick of the last page, and the last page has read everybody (`PagesRead`) |
| `QuietRunsAggregated` | `QuietAggregated` | `TallyInv`: a user has the metric of the run under way once its page is saved, and the last page has read everybody |
| `BalanceNotUnderstated` | `NotUnderstated` | `BooksInv`: each number on its way to the row — recorded, on the replica, read by a request or the job, less the amount it is about to take off — covers the withdrawals stored so far |
| `RecordsTakeOverlaps` | `RecordsPerOverlap` | `OverlapInv`: superfluous rows, wrong verdicts (but for applications in `unfounded`) *and the handlers that may still make one* are at most the overlaps. One handler of each user may be spared, since it read before all others |
| `PayoutsAreWithdrawals` | `PayoutSpec => Spec` of `Withdrawal` | each step of the composition is a step of `Withdrawal` or leaves its variables alone; so its theorems hold in `Payouts`, too |
| `AccountTypes` | `TypeOK` | `AccountsInv`: at each label a request has the kind, token, user and session that the code on the way there established (`Sound`), and the replica of the tokens is an earlier version of the primary (`Earlier`) |
| `TokensSpentOnce` | `SpentOnce` | `SpendInv`: the acceptances of a verified row, *the requests about to give it a new life* and whichever is more of its own life and *the requests about to use it* are at most one and its crossed look-ups; while the row is not verified the same bounds the requests about to verify it |
| `AddressesProven` | `UnprovenPerFailure` | `ProvenInv`: accounts whose e-mail nobody proved *and no request at `verified` is about to, for that very e-mail*, are at most the failures |
| `SignUpsComplete` | `IncompletePerFailure` | `PartsInv`: each label of a sign-up knows the parts it has made |
| `SessionsAreBounded` | `SessionsBounded` | `SessionInv`: the live sessions of a user number at most the crossings, or one more *with the latest among them*, since that is the only one a log-in looks at; for a request about to open one at most the crossings, and for one about to prolong its session the same with that session added |

Hypotheses are named in the theorems. `OneJob`, `~Lagging` and `ScoresStandStill` describe
the `audit_retry` instance; without them the statements are false, as section 6 tells. So
it is with `SingleJob`, `~Lagging` and `Admins = {}` for `CoiinRewards` (in
`CoiinPurchases` no admin acts): two jobs may read
the same page, a late replica hides what was just given, and what an admin moved is paid
again. `MissedAtMostOncePerChange` needs that scores stand still, since
one point may lift a campaign into a tier in which many shares are positive that were not.
`MembersBounded` is a property of the initial rows.

Sums are the one place where the proofs need induction over data. `SumTheorems` has it as
the search for a least counterexample (`WFMin`): a set of naturals that holds 0 and each
successor is all of them (`Induction`), and so for finite sets (`SetInduction`), both with
the property as a set instead of an operator. From there: what is added to a set adds its
weight, disjoint sets add up, larger weights give larger sums, weights in proportion give
sums in proportion, up to half a unit for each weight that is rounded, a renaming keeps the
sum, and a sum of weights of at most one is at most a count.

Of `Participation`, `RowsInv` and `QuietInv` were checked by TLC on
`participation` before they were proved; `DayInv` was not, since its
weights range over functions. The proofs use that a campaign's ids are finitely many and
that `Unused` and `Gone` are no rows.

The theorems of `ScoreJobs` rest on `LoneInv`: while nothing was disturbed, a run under way is
the only one and the replica is not behind. `LoneInv`, `HeldInv` (what a run of the social job
holds at each label) and the four invariants of the table were checked by TLC on `scores` before they were proved. `SocialAssumption`, that there are finitely many runs
of the social job, is there for `RunsCreditOnce`, which counts them.

Model-checked only: everything under fairness (`EventuallyAudited`, `ServedAgain`,
`EventuallySettled`, `Converges`), since liveness is beyond this prover, and `FeePerAttempt`,
which holds only while the account can pay every batch: what an account can pay depends on
the budgets of all campaigns, the fees and shares drawn twice included, and the instance
fixes them. Every other property of a passing run has a theorem, under the hypotheses named
here.
`RewardsPerWindow` is about the `Spec` of `CoiinRewards`, without purchases.

## 6. What the models tell

What holds is narrower than one might wish, and the properties say how narrow:

* a pod that dies between the batch and `createMany` costs a duplicate, one per death;
* overlapping audits pay every reward as often as they overlap (`LedgerMatchesRecords`
  holds, "paid once" does not, which is why `RecordedIsFinal` is about one job without lag);
* a participant who leaves, joins or is blacklisted during an audit can cost one other
  participant the reward;
* overlapping joins give a user several rows, each of which has a share; as the audit looks a
  reward up by amount, campaign and wallet (`auditFunctions.ts:134-140`), rows with equal
  shares are paid once and rows with different shares are each paid;
* a campaign that is not of type `crypto` and is sent to the audit when it has ended, a
  raffle say, ends every run at its turn, is never audited, and keeps the campaigns behind it
  from being audited (`campaignAudit/index.ts:24-31`, `58-64`);
* each share is rounded for itself, so the shares of a campaign may add up to more than its
  pool, by half a unit of the 20th place for each participant (a sixth each for six users);
* when the account cannot pay a page, the run ends after the fee was drawn, and so does each
  run that follows, every hour: nothing remembers that the fee was drawn;
* a score right at the last threshold of a table without blank tiers falls to `BaseTier`, one
  token for the whole campaign (`controllers/helpers.ts`);
* tracked points are lost under overlap and stale caches, never invented;
* an aborted settling job loses up to a page of rewards that stay marked as paid;
* what an admin moves is paid once more: `transferCrypto` moves the coiin at once
  (`v1/TatumController.ts:290`) and then writes both sides as PENDING transfers, which the
  settling job pays out of Raiinmaker's account, the debited side as well as the credited
  one (`fixTransfer/index.ts:18-24`); of a move that was refused it pays the two FAILED
  transfers, though the admin was told that it failed;
* an event of Stripe that comes again, because its webhook died or Stripe sent it twice,
  credits the buyer again: the webhook does not look at the status it overwrites;
* a withdrawal whose completion fails is refunded although it was sent;
* a withdrawal that overlaps another is not taken off the balance in the database until the
  balance job runs.

*The rate limiter*: a window that ends between read and increment leaves a counter that
nobody expires, although `util/rateLimiter.ts:21` speaks of expiring it in a day.
`ServedAgain` leaves exactly that case out (`torn`).

*Accounts*:

* a token is accepted twice when two requests look it up, or one soon after the other on the
  replica; a confirmation that comes late gives a used token a new life. The type of a
  token is never looked at, so a code for a sign-up opens a withdrawal;
* `recoverUserAccountStep2` creates a new row without a wallet: the recovered account cannot
  log in and the old one is unchanged. What it gets as a token is no session either;
* the hash of a password includes the e-mail, so moving the e-mail locks the password until
  a reset;
* an expired session that is shown again logs out all sessions of its user;
* the reset of the cache of users names other arguments than the copies are kept under, so
  a ban or a new status is believed only when the copy expires.

*Score jobs*:

* `updatePostMetrics` returns the very post it changed, so the differences of likes and
  shares in `social/index.ts:212-237` are always zero and nothing of a social score is
  written to the ledger;
* a participant who left ends the page at its first post: what came before it on the page
  is saved, what stands behind it is skipped, run after run, until the post is gone;
* a tier is measured against the pages read so far until the last page rewrites all of them;
* the message about a crypto campaign is sent in a `return` (`scoreAggregate.ts:92`): no
  metric of that page or a later one is written.

*Payouts*:

* the webhook stores the document under the id of the application's row and updates the
  reason of some row of the owner;
* `User.kycStatus`, which admins set, is read by nobody: the gate reads the row of the second
  level only, and only the registration for it asks for the first;
* whoever knows the id of an application can have it approved or rejected by a webhook, and
  the owner is told the id (`kycId`); `WithdrawalsIdentified` holds only with that exception.

*Older withdrawals* (`controllers/withdraw.ts`, not modelled): `newFromWithdraw` stores the
action `WITHDRAW` (`models/Transfer.ts:263`, `util/constants.ts:170`) and `update` looks for
`withdraw` (`withdraw.ts:80`), so no filed withdrawal is ever found and every approval throws
at line 83 before it pays or debits. The sums of pending withdrawals (`Transfer.ts:99`, `113`)
compare with `withdraw`, too, and are zero.

These are bounded or described by properties instead of reported as violations, because no
text in the repository promises more.

## 7. Plan and what is not modelled

Done: the core, in the order `CampaignAudit`, `RateLimiter`, `Participation`,
`CampaignApproval`, `CoiinRewards`, `Withdrawal`; then `Accounts`, `ScoreJobs` and `Payouts`
with their parts, `CoiinPurchases`, and posting in `Participation`.

Worth a module next:

1. *Custodial addresses*: `findOrCreateCurrency` looks up and creates; a found address is
   never marked as taken (`TatumService.ts:227`), which stays without effect as long as each
   account generates its own.
2. *Organisations*: `newOrg` writes its rows one by one, without a transaction.
3. *Coiin watcher*: remembers the last block in S3; no CronJob of the chart starts it.

Known to matter and outside the present models: the audit divides scores as they are when a
page is read by the total as it was when the campaign was (`auditFunctions.ts:133`), so
shares need not add up to one.

Left out: single-row reads and writes without a protocol (profiles, media, templates, market
data), notes to DragonChain and CoiinChain that nothing reads back, Xoxoday orders (a
constant refuses all of them, `v1/XoxodayController.ts:130`), the GraphQL handlers that
repeat v1, the largest part of the code by lines (types, schemas, inputs, wiring) and pure
I/O. The numeric clustering of the quality score is out of TLC's reach.

## 8. Running

    tlc -workers 2 -config MCAuditRetry.cfg MCAuditRetry
    tlapm CampaignAuditProofs.tla

Each run takes between seconds and about three minutes.
