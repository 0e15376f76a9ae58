CONSTANTS
    Users = {u1}
    Org = Org
    Raiinmaker = Raiinmaker
    r1 = r1
    r2 = r2
    Webhooks = {w1, w2}
    Scenarios <- SomeScenarios
    Requests = {r1, r2}
    Admins = {}
    MoveKinds = {}
    Jobs = {j1}
    Rewards = {"SHARING_REWARD", "LOGIN_REWARD"}
    Limit <- Limits
    PageSize = 1
    Lagging = FALSE
    MaxTransfers = 4
    MaxFailures = 2
    MaxAborts = 4
    Funds = 1
    MaxTopUps = 1
SPECIFICATION FairPurchaseSpec
INVARIANT RewardsBounded
INVARIANT NothingOverpaid
INVARIANT CreditedPerDelivery
PROPERTY EventuallySettled
CHECK_DEADLOCK FALSE
