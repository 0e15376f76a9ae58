CONSTANTS
    c1 = c1
    c2 = c2
    Campaigns = {c1}
    Raffles = {}
    Coiin = {c1}
    Budget <- Budgets
    Funds = 5
    Decisions = {d1}
    None = None
    MaxDecisions = 2
    MaxFailures = 0
SPECIFICATION Spec
INVARIANT AuditFindsBlockage
