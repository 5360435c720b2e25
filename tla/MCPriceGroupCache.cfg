CONSTANTS
    I1 = I1
    I2 = I2
    RA = RA
    RB = RB
    C1 = C1
    C2 = C2
    Ids <- MCIds
    Regions <- MCRegions
    Clients <- MCClients
    InitStore <- MCInitStore
    Absent = Absent
    NotFound = NotFound
    Idle = Idle
    Written = Written
    NoId = NoId
    NoRegion = NoRegion
    CacherGetSucceeds = FALSE
    MaxCalls = 3
INIT Init
NEXT Next
INVARIANT TypeOK
