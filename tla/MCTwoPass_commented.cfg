\* A section directive with a comment is ignored.
CONSTANTS
    MaxLines = 0
    MaxTidyLines = 0
    NoLabel = NoLabel
    SmallImm = 4
    Modulus = 32
    Names <- MCNames
    TypeOf <- MCTypeOf
    MapOrder <- MCMapOrder
    Labels <- MCLabels
    Sources <- CommentedSources
SPECIFICATION Spec
INVARIANT DirectiveObeyed
CHECK_DEADLOCK FALSE
