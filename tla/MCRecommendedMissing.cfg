CONSTANTS
    R1 = R1
    R2 = R2
    Regions <- MCRegions
    Source = R1
    Amounts <- MCAmounts
    Fractions <- MCFractions
    TableChoices <- MCTables
    Converted <- MCConverted
    NoTable = NoTable
    None = None
    Panic = Panic
INIT Init
NEXT Next
INVARIANT
    MissingRegionTableSkipped
