CONSTANTS
    Callers = {r1, r2, r3}
    MaxRequests = 2
    NoKey = NoKey
    MaxDeaths = 1
SPECIFICATION FairLimiterSpec
INVARIANT OverrunBounded
PROPERTY ServedAgain
