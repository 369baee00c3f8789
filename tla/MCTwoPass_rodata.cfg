\* A bare .data is written where .rodata is.
CONSTANTS
    MaxLines = 0
    MaxTidyLines = 0
    NoLabel = NoLabel
    SmallImm = 4
    Modulus = 32
    Names <- MCNames
    TypeOf <- MCTypeOf
    MapOrder <- MCMapOrder
    Labels <- MCLabels
    Sources <- RodataSources
SPECIFICATION Spec
INVARIANT LabelsMatch
CHECK_DEADLOCK FALSE
