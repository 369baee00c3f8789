\* Every pair of six-bit words, of which an addi holds three bits.
CONSTANTS
    Bits = 6
    LoBits = 3
SPECIFICATION Spec
INVARIANTS ProductHalves DivisionLaw AluLaws 
\* One evaluation, then the end.
CHECK_DEADLOCK FALSE
