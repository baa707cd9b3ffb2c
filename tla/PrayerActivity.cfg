\* The creator and two others, two requests at a time, each of which may fail.
CONSTANTS
    User = {u1, u2, u3}
    Creator = u1
    Comment = {1, 2}
    MaxPrayed = 3
    Request = {r1, r2}
    None = None
SPECIFICATION Spec
SYMMETRY Symmetry
INVARIANTS
    TypeOK
    PrayedAreCounted
    OncePerWindow
    ShareTold
CONSTRAINT Followed
CHECK_DEADLOCK FALSE
