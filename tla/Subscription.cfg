\* A subscription with up to five events, two syncs at a time.
CONSTANTS
    Sync = {r1, r2}
    MaxEvents = 5
SYMMETRY Symmetry
SPECIFICATION CacheSpec
INVARIANTS
    CacheTypeOK
    RowSettles
PROPERTY GrandfatherKept
CHECK_DEADLOCK FALSE
