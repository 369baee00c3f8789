\* A section .text.* is written over by .text.
CONSTANTS
    MaxLines = 0
    MaxTidyLines = 0
    NoLabel = NoLabel
    SmallImm = 4
    Modulus = 32
    Names <- MCNames
    TypeOf <- MCTypeOf
    MapOrder <- MCMapOrder
    Labels <- MCLabels
    Sources <- StartupSources
SPECIFICATION Spec
INVARIANT BytesKept
CHECK_DEADLOCK FALSE
