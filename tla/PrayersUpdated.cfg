\* One user, who edits a prayer with some of its fields.
CONSTANTS
    u1 = u1
    u2 = u2
    c1 = c1
    w1 = w1
    w2 = w2
    User = {u1}
    Admin = {}
    Circle = {c1}
    Leader <- MCLeader
    Contact = {1, 2}
    Prayer = {1}
    Access = {1, 2}
    Word = {w1, w2}
    PrayerCreate <- Bodies
    Request = {r1}
    Empty = Empty
    None = None
SPECIFICATION Spec
PROPERTY OmittedFieldsKept
CONSTRAINT Followed
CHECK_DEADLOCK FALSE
