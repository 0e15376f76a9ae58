CONSTANTS
    c1 = c1
    c2 = c2
    c3 = c3
    j1 = j1
    Campaigns = {c1, c2, c3}
    Crypto = {c1, c2}
    Sent = {c1, c2}
    Participants = {1, 2, 3}
    Jobs = {j1}
    Nobody = Nobody
    Tiers <- MCTiers
    Members0 <- MCMembers
    Score0 <- MCScores
    Stored = {c1, c2}
    Own = {c2}
    Budget <- MCBudget
    FeeDivisor = 10
    Precision = 10
    PageSize = 1
    Amounts <- MCAmounts
    Scores = {0, 1, 4, 6}
    Totals = {0, 6}
    UnblockTwice = TRUE
    Lagging = FALSE
    MaxFailures = 2
    Kinds = {"reopen"}
    MaxTraffic = 1
SPECIFICATION FairSpec
INVARIANT TypeOK
INVARIANT OverpaidOncePerFailure
INVARIANT WithinPool
INVARIANT FeePerAttempt
PROPERTY RecordedIsFinal
PROPERTY ImplementsContract
PROPERTY EventuallyAudited
CHECK_DEADLOCK FALSE
