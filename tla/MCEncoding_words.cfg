\* Every mnemonic with registers and numbers of every sort, at an address.
CONSTANTS
    NoValue = NoValue
    Lines <- MCLines
    Pcs = {4096}
SPECIFICATION Spec
INVARIANTS TypeOK RoundTrip HarmContained
\* A word has one life.
CHECK_DEADLOCK FALSE
