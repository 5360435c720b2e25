SPECIFICATION Spec
CONSTANTS
    Clients = {"c1", "c2"}
    Merchants = {M1, M2}
    ProjectIds = {J1, J2}
    Data = {D1, D2}
    Statuses = {Draft, Live, Deleted}
    Kinds <- AllKinds
    Fallible = TRUE
    MaxCalls = 4
    NeedChangeStatusToDraft <- MCNeedChangeStatusToDraft
    IsDeleted <- MCIsDeleted
    M1 = M1
    M2 = M2
    J1 = J1
    J2 = J2
    D1 = D1
    D2 = D2
    Draft = Draft
    Live = Live
    Deleted = Deleted
    Absent = Absent
    Miss = Miss
    NoId = NoId
    None = None
    Idle = Idle
    NoMerchant = NoMerchant
INVARIANTS
    TypeOK
    OwnProjectsOnly
    CacheHoldsStoredVersions
