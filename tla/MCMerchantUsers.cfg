CONSTANTS
    C1 = C1
    C2 = C2
    E1 = E1
    E2 = E2
    U1 = U1
    U2 = U2
    Developer = Developer
    ViewOnly = ViewOnly
    Id1 = Id1
    Id2 = Id2
    Id3 = Id3
    Clients <- TwoClients
    Emails <- MCEmails
    Users <- MCUsers
    RoleNames <- MCRoleNames
    RoleIds <- MCRoleIds
    Fallible <- AllServices
    MaxCalls = 4
    Absent = Absent
    Gone = Gone
    NoUser = NoUser
    Idle = Idle
SYMMETRY MCSymmetry
INIT Init
NEXT Next
INVARIANTS
    TypeOK
