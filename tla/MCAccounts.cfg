CONSTANTS
    mail1 = mail1
    mail2 = mail2
    ann = ann
    bob = bob
    None = None
    Emails = {mail1, mail2}
    Names = {ann, bob}
    Requests = {r1, r2}
    Kinds <- SomeKinds
    Population <- Populations
    MaxTokens = 1
    MaxSessions = 3
    MaxUsers = 3
    MaxEvents = 3
SPECIFICATION Spec
INVARIANT TypeOK
INVARIANT SpentOnce
INVARIANT UnprovenPerFailure
INVARIANT IncompletePerFailure
INVARIANT SessionsBounded
CHECK_DEADLOCK FALSE
SYMMETRY Symmetry
