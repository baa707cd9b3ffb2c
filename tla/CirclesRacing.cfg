\* Two requests at a time; any statement may fail.
CONSTANTS
    User = {u1, u2, u3}
    Admin = {}
    Invite = {i1}
    Request = {r1, r2}
    MayFail = TRUE
    NoUser = NoUser
    NoInvite = NoInvite
SPECIFICATION Spec
SYMMETRY Symmetry
INVARIANTS
    InviteSpent
    AdmissionsBounded
PROPERTY NewOwnerWasActive
CONSTRAINT Followed
CHECK_DEADLOCK FALSE
