\* Two refreshes that overlap, for the promise about a reused token.
CONSTANTS
    u1 = u1
    u2 = u2
    f1 = f1
    f2 = f2
    User = {u1, u2}
    Family = {f1, f2}
    OwnerOf <- MCOwnerOf
    Token = {t1, t2, t3, t4}
    Request = {r1, r2}
    NoToken = NoToken
    NoFamily = NoFamily
SPECIFICATION Spec
INVARIANT ReplayedFamilyIsRevoked
CHECK_DEADLOCK FALSE
