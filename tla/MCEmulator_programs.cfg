\* Programs of two and three instructions at two addresses, and two calls of
\* the host in a row.
CONSTANTS
    Bits = 8
    Reg <- MCReg
    Decode <- MCDecode
    Images <- NoImages
    Starts = {}
    StackTop = 144
    StatSize = 8
    StatCopied = 4
    MemSize = 24
    Files <- MCFiles
    LoadAddresses = {0, 16}
    MaxSteps = 6
    HostBytes = {0, 3}
    HostMax = 2
SPECIFICATION RunSpec
INVARIANTS RunTypeOK Verdict
PROPERTIES ImplementsIsa HostStaysInside Terminates
\* The process ends.
CHECK_DEADLOCK FALSE
