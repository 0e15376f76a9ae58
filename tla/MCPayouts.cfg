CONSTANTS
    r1 = r1
    r2 = r2
    Requests = {r1, r2}
    Balance = 6
    Amount = 3
    Fee = 1
    SubCustodial = TRUE
    Lagging = TRUE
    MaxWithdrawals = 3
    MaxFailures = 2
    Users = {u1}
    Admins = {}
    Handlers = {h1, h2}
    MaxApplications = 3
    MaxOverlaps = 1
    MaxUnfounded = 1
    Owner = u1
    Scenarios <- SomeScenarios
SPECIFICATION FairPayoutSpec
INVARIANT TypeOK
INVARIANT StrandedPerFailure
INVARIANT NotUnderstated
INVARIANT RecordsPerOverlap
INVARIANT WithdrawalsIdentified
PROPERTY Converges
