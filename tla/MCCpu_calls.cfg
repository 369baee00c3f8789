\* CPU::step called again and again, after errors and the exit too.
CONSTANTS
    Bits = 8
    MemSize = 24
    Reg <- MCReg
    Decode <- MCDecode
    StackTop = 144
    Images <- MCImages
    Starts <- MCStarts
    HostBytes = {0, 3}
    HostMax = 2
    StatSize = 8
    StatCopied = 4
SPECIFICATION Spec
INVARIANTS TypeOK ZeroRegister
PROPERTY CleanStops
\* The division that traps ends the process.
CHECK_DEADLOCK FALSE
