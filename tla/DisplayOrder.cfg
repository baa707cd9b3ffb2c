\* Three rows, two requests at a time.
CONSTANTS
    Item = {i1, i2, i3}
    Request = {r1, r2}
    MaxPlace = 2
    NoItem = NoItem
SPECIFICATION Spec
SYMMETRY Symmetry
INVARIANTS
    TypeOK
    PlacesDiffer
    InOrderOfCreation
    Renumbered
ACTION_CONSTRAINT Followed
CHECK_DEADLOCK FALSE
