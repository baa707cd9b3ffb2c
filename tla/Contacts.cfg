\* Two requests at a time, each of which may fail.
CONSTANTS
    User = {u1, u2}
    Subject = {1, 2, 3, 4}
    Ask = {1, 2}
    Request = {r1, r2}
    NoUser = NoUser
    NoSubject = NoSubject
    NoAsk = NoAsk
SPECIFICATION Spec
SYMMETRY Symmetry
INVARIANTS
    TypeOK
    PendingIsAsked
    AnswersBounded
    IndividualsHaveNoMembers
    CardsFollowMembers
CONSTRAINT Followed
CHECK_DEADLOCK FALSE
ACTION_CONSTRAINT OfTheCircle
