\* .word main
CONSTANTS
    MaxLen = 1
    Wrap = 8
    Texts <- LabelTexts
    Units = {4}
    Defined <- MCDefined
SPECIFICATION Spec
PROPERTY OperandsEnd
CHECK_DEADLOCK FALSE
