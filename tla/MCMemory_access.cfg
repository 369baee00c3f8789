\* Two words; every access width at every address.
CONSTANTS
    Bits = 4
    MemSize = 8
    Addrs <- MCAddrs
    Values <- MCValues
SPECIFICATION Spec
INVARIANTS TypeOK InBounds
PROPERTY Implements
