CONSTANTS
    p1 = p1
    p2 = p2
    p3 = p3
    u1 = u1
    u2 = u2
    Participants = {p1, p2, p3}
    Users = {u1, u2}
    Members0 <- OneMember
    Requests = {r1, r2}
    Points <- SomePoints
    Unused = Unused
    Gone = Gone
    Lagging = TRUE
    Kinds <- SomeKinds
    MaxEvents = 3
SPECIFICATION Spec
SYMMETRY Symmetry
INVARIANT ScoresEarned
INVARIANT QuietAgree
INVARIANT DailyEarned
INVARIANT JoinsBounded
