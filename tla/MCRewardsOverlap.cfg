CONSTANTS
    Users = {u1}
    Org = Org
    Raiinmaker = Raiinmaker
    Requests = {r1}
    Admins = {a1}
    MoveKinds = {"REMOVE"}
    Jobs = {j1, j2}
    Rewards = {"LOGIN_REWARD"}
    Limit <- Limits
    PageSize = 2
    Lagging = TRUE
    MaxTransfers = 3
    MaxFailures = 1
    MaxAborts = 1
    Funds = 1
    MaxTopUps = 1
SPECIFICATION Spec
SYMMETRY Symmetry
INVARIANT LostPerAbort
INVARIANT PendingIsUnpaid
CHECK_DEADLOCK FALSE
