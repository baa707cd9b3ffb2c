\* Two requests at a time, each of which may fail.
CONSTANTS
    p1 = p1
    p2 = p2
    s1 = s1
    s2 = s2
    s3 = s3
    User = {u1, u2}
    Sub = {s1, s2, s3}
    Provider = {p1, p2}
    ProviderOf <- TwoAndOne
    m1 = m1
    m2 = m2
    Mail = {m1, m2}
    Lower <- ToFirst
    Link = {l1}
    Code = {c1}
    Request = {r1, r2}
    MaxLinkAttempts = 2
    MaxCodeAttempts = 2
    NoUser = NoUser
    NoSub = NoSub
    NoMail = NoMail
    NoLink = NoLink
    NoCode = NoCode
SPECIFICATION Spec
SYMMETRY Symmetry
INVARIANTS
    TypeOK
    KeepsSignIn
    ClaimedOnce
    AttemptsCounted
PROPERTY NoPartialAccount
CONSTRAINT Followed
CHECK_DEADLOCK FALSE
