\* Every source of up to three lines, of every form the passes tell apart, and
\* every disciplined one of up to five lines of the forms a careful programmer
\* writes; each that assembles is run at two addresses.
CONSTANTS
    MaxLines = 3
    MaxTidyLines = 5
    NoLabel = NoLabel
    SmallImm = 4
    Modulus = 32
    Names <- MCNames
    TypeOf <- MCTypeOf
    MapOrder <- MCMapOrder
    Labels <- MCLabels
    Sources <- MCSources
    LoadAddresses = {0, 100}
    MemSize = 125
    BranchReach = 8
    JumpReach = 16
SPECIFICATION ToolchainSpec
INVARIANTS TypeOK LabelInv LabelsAgree OwnBytes SectionsApart NoDanglingReference ReportedSizes
PROPERTIES Implements RunsAsWritten
\* The programs end.
CHECK_DEADLOCK FALSE
