\* A user whose subscription comes and goes, with two requests at a time.
CONSTANTS
    Circle = {c1, c2, c3, c4}
    Request = {r1, r2}
    Limit = 1
    Budget = 1
    IsAdmin = FALSE
    MayUpgrade = TRUE
    MayEnrol = TRUE
SYMMETRY Symmetry
SPECIFICATION Spec
INVARIANTS
    TypeOK
    AllowanceBounded
PROPERTIES
    LapsedCannotGrow
    ChargesAreRestores
    ImplementsFreeTier
CHECK_DEADLOCK FALSE
