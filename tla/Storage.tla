------------------------------ MODULE Storage ------------------------------
(***************************************************************************)
(* What the emulator's memory promises: a meaningful access is granted,    *)
(* with the value last stored there; any other is refused and changes      *)
(* nothing.                                                                *)
(***************************************************************************)
EXTENDS WordMemory

VARIABLES
    mem,        \* the words
    call,       \* the last access: [op, n, a, v]
    granted,    \* whether it was granted
    value       \* what it read, if it was a read and granted, else 0

Init ==
    /\ mem = [w \in 0 .. MemSize \div 4 - 1 |-> 0]
    /\ call.op = "none"
    /\ granted = TRUE
    /\ value = 0

Read ==
    /\ call'.op = "read" /\ Meaningful(call'.n, call'.a)
    /\ granted' = TRUE
    /\ value' = Digits(mem, call'.n, call'.a)
    /\ UNCHANGED mem

Write ==
    /\ call'.op = "write" /\ Meaningful(call'.n, call'.a)
    /\ granted' = TRUE
    /\ mem' = WithDigits(mem, call'.n, call'.a, call'.v)
    /\ value' = 0

Refuse ==
    /\ ~Meaningful(call'.n, call'.a)
    /\ granted' = FALSE
    /\ value' = 0
    /\ UNCHANGED mem

Next == Read \/ Write \/ Refuse

Spec == Init /\ [][Next]_<<mem, call, granted, value>>
=============================================================================
