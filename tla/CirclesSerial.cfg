\* One request at a time, each running to its end.
CONSTANTS
    User = {u1, u2, u3}
    Admin = {u3}
    Invite = {i1}
    Request = {r1}
    MayFail = FALSE
    NoUser = NoUser
    NoInvite = NoInvite
SPECIFICATION FairSpec
INVARIANTS
    TypeOK
    OwnedUnlessAdrift
PROPERTIES
    DeletionCompletes
CHECK_DEADLOCK FALSE
