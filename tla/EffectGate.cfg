SPECIFICATION Spec
CONSTANTS
    e1 = e1
    e2 = e2
    Effect <- MCEffect
    NoEffect = none
    AuthenticatedAt = 1
    ExpiresAt = 2
    FreshUntil = 2
    MaxTime = 2
    MaxReceipts = 5
    MaxClaims = 1
    MaxOperations = 2
SYMMETRY Symmetry
INVARIANTS
    TypeOK
    ChainValid
    OneChild
    OutcomeMatchesEffect
    NothingForgotten
    RecoveryHasRequirement
CHECK_DEADLOCK FALSE
