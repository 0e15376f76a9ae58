CONSTANTS
    c1 = c1
    j1 = j1
    j2 = j2
    Campaigns = {c1}
    Crypto = {c1}
    Sent = {c1}
    Participants = {1, 2, 3}
    Jobs = {j1, j2}
    Nobody = Nobody
    Tiers <- MCTiers
    Members0 <- MCMembers
    Score0 <- MCScores
    Stored = {c1}
    Own = {}
    Budget <- MCBudget
    FeeDivisor = 10
    Precision = 10
    PageSize = 1
    Amounts <- MCAmounts
    Scores = {0, 1, 2}
    Totals = {3, 4}
    UnblockTwice = TRUE
    Lagging = TRUE
    MaxFailures = 0
    Kinds = {"track", "blacklist", "participate", "remove"}
    MaxTraffic = 1
SYMMETRY JobSymmetry
SPECIFICATION Spec
INVARIANT LedgerMatchesRecords
INVARIANT MissedAtMostOncePerChange
CHECK_DEADLOCK FALSE
