CONSTANTS
    p1 = p1
    p2 = p2
    q1 = q1
    q2 = q2
    Participants = {p1, p2}
    Posts = {q1, q2}
    Author <- SomeAuthor
    Points <- SomePoints
    MaxCount = 1
    PostsPerPage = 2
    RowsPerPage = 1
    Gone = Gone
    SocialJobs = {s1, s2}
    QualityJobs = {j1, j2}
    TallyJobs = {t1}
    Crypto = TRUE
    Notified = {p1}
    Budgets <- SomeBudgets
SPECIFICATION Spec
SYMMETRY Symmetry
INVARIANT CreditPerRun
INVARIANT QuietCounted
INVARIANT QuietJudged
INVARIANT QuietAggregated
CHECK_DEADLOCK FALSE
