\* Every text of up to five tokens (four with parentheses); instructions with
\* up to three operands in every spacing and with every sort of comment.
CONSTANTS
    MaxTokens = 5
    Unread = Unread
    Unset = Unset
    Cases <- MCCases
SPECIFICATION LinesSpec
INVARIANTS LinesTypeOK ReadAsWritten PassesAgree ExpansionReadBack
\* A line is read twice.
CHECK_DEADLOCK FALSE
