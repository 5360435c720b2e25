SPECIFICATION Spec
CONSTANTS
    Clients = {"c1", "c2"}
    ProfileIds = {P1, P2, P3}
    Users = {U1}
    Tokens = {T1, T2}
    Data = {D1, D2}
    Named = {D2}
    Kinds <- AllKinds
    Fallible = TRUE
    MaxCalls = 4
    EmailConfirmTokenLifetime = 86400
    RequestFlags = {FALSE}
    NeedConfirmEmail <- MCNeedConfirmEmail
    IsEmailVerified <- MCIsEmailVerified
    P1 = P1
    P2 = P2
    P3 = P3
    U1 = U1
    U2 = U2
    T1 = T1
    T2 = T2
    T3 = T3
    D1 = D1
    D2 = D2
    Absent = Absent
    NoUser = NoUser
    NoId = NoId
    NoToken = NoToken
    None = None
    Idle = Idle
INVARIANTS
    TypeOK
    SentHasMail
