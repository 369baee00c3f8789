\* Every text of up to four characters, for each of the three directives.
CONSTANTS
    MaxLen = 4
    Wrap = 8
    Texts <- MCTexts
    Units = {1, 2, 4}
    Defined <- MCDefined
SPECIFICATION Spec
INVARIANTS TypeOK CountsAgree NeverShort
PROPERTY NumbersEnd
\* The scan ends.
CHECK_DEADLOCK FALSE
