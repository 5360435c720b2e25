CONSTANTS
    M1 = M1
    M2 = M2
    M3 = M3
    U1 = U1
    U2 = U2
    Partial = Partial
    Complete = Complete
    S1 = S1
    P1 = P1
    On = On
    Off = Off
    Clients <- TwoClients
    MerchantIds <- MCMerchantIds
    Users <- MCUsers
    Data <- MCData
    S3Names <- MCS3Names
    PaymentMethods <- OneMethod
    Settings <- MCSettings
    Kinds <- AllKinds
    Fallible = TRUE
    MaxCalls = 2
    InitMerchants <- MCInitMerchants
    ChangesAllowed <- MCChangesAllowed
    CanChangeStatusToSigning <- MCCanChangeStatusToSigning
    NeedMarkESignAgreementAsSigned <- MCNeedMarkESignAgreementAsSigned
    Absent = Absent
    NoId = NoId
    NoUser = NoUser
    NoS3 = NoS3
    NoPM = NoPM
    NoStatus = NoStatus
    Custom = Custom
    None = None
    Idle = Idle
INIT Init
NEXT Next
INVARIANTS
    TypeOK
    SignedIffSignatures
    PaymentMethodsRecorded
