CONSTANTS
    c1 = c1
    c2 = c2
    Campaigns = {c1, c2}
    Raffles = {c2}
    Coiin = {}
    Budget <- Budgets
    Funds = 5
    Decisions = {d1, d2}
    None = None
    MaxDecisions = 3
    MaxFailures = 1
SPECIFICATION Spec
SYMMETRY Symmetry
INVARIANT TypeOK
INVARIANT ApprovedIsBlocked
INVARIANT BlockageAccounted
