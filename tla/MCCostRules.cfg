SPECIFICATION Spec
CONSTANTS
    AZ = AZ
    US = US
    F1 = F1
    F2 = F2
    I1 = I1
    I2 = I2
    I3 = I3
    I4 = I4
    Wildcard = Wildcard
    Absent = Absent
    NotFound = NotFound
    Countries = {AZ, US}
    RuleCountries = {AZ, Wildcard}
    Thresholds <- MCThresholds
    Queries <- MCQueries
    Fees = {F1, F2}
    RuleIds = {I1, I2, I3, I4}
SYMMETRY MCSymmetry
INVARIANTS
    TypeOK
    SelectsGreatestThreshold
