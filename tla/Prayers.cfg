\* Two users, one of whom is an admin, a circle, two contacts and two prayers.
CONSTANTS
    u1 = u1
    u2 = u2
    c1 = c1
    w1 = w1
    w2 = w2
    User = {u1, u2}
    Admin = {u2}
    Circle = {c1}
    Leader <- MCLeader
    Contact = {1, 2}
    Prayer = {1, 2}
    Access = {1, 2, 3}
    Word = {w1, w2}
    PrayerCreate <- OneBody
    Request = {r1, r2}
    Empty = Empty
    None = None
SPECIFICATION Spec
SYMMETRY Symmetry
INVARIANTS
    TypeOK
    NoDoubleAccess
    NoOrphans
    SharersKeepAccess
CONSTRAINT Followed
CHECK_DEADLOCK FALSE
