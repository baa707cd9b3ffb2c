\* Two refreshes at a time, of the same or of different tokens.
CONSTANTS
    u1 = u1
    u2 = u2
    f1 = f1
    f2 = f2
    User = {u1, u2}
    Family = {f1, f2}
    OwnerOf <- MCOwnerOf
    Token = {t1, t2, t3, t4}
    Request = {r1, r2}
    NoToken = NoToken
    NoFamily = NoFamily
SPECIFICATION Spec
SYMMETRY Symmetry
INVARIANTS
    TypeOK
    OneLivePerFamily
    RotatedIsRetired
PROPERTY ImplementsFamilies
CHECK_DEADLOCK FALSE
