------------------------------- MODULE Memory -------------------------------
(***************************************************************************)
(* Class Memory: a zeroed array of bytes behind six accessors, one pair    *)
(* for each width.  Any of them may be called at any time with any         *)
(* address; a call is atomic (the emulator is one thread).                 *)
(***************************************************************************)
EXTENDS MemoryAccess

CONSTANTS
    Addrs,      \* bound: the addresses used
    Values      \* bound: the values written

ASSUME CallsAssumption == Addrs \subseteq Word /\ Values \subseteq Word

VARIABLES
    data,       \* the array
    call,       \* the last call
    status,     \* its memory_status_t, read and write errors being one
    value       \* what it stored through its output parameter, else 0

vars == <<data, call, status, value>>

Init ==
    /\ data = [b \in 0 .. MemSize - 1 |-> 0]
    /\ call = [op |-> "none", n |-> 1, a |-> 0, v |-> 0]
    /\ status = "ok"
    /\ value = 0

\* read8, read16, read32.  An element beyond the array, should a call reach
\* one, reads as anything.
Read(n, a) ==
    /\ call' = [op |-> "read", n |-> n, a |-> a, v |-> 0]
    /\ status' = Check(n, a)
    /\ \/ status' # "ok" /\ value' = 0
       \/ /\ status' = "ok"
          /\ \E beyond \in IF Touched(n, a) \subseteq DOMAIN data THEN {0} ELSE Byte :
                value' = Loaded([b \in Touched(n, a) |->
                             IF b \in DOMAIN data THEN data[b] ELSE beyond], n, a)
    /\ UNCHANGED data

\* write8, write16, write32.
Write(n, a, v) ==
    /\ call' = [op |-> "write", n |-> n, a |-> a, v |-> v]
    /\ status' = Check(n, a)
    /\ data' = IF status' = "ok" THEN Stored(data, n, a, v) ELSE data
    /\ value' = 0

Next ==
    \E n \in Widths, a \in Addrs :
        \/ Read(n, a)
        \/ \E v \in Values : Write(n, a, v)

Spec == Init /\ [][Next]_vars

----------------------------------------------------------------------------
(* Properties.                                                             *)

\* Every element stays a byte, every value read fits the width asked for.
TypeOK ==
    /\ data \in Memories
    /\ status \in {"ok", "misaligned", "error"}
    /\ value \in 0 .. Radix ^ call.n - 1

\* "Bounds checking on all access" (emulator/README.md): a call that
\* succeeds used elements of the array only.
InBounds == status = "ok" => Touched(call.n, call.a) \subseteq DOMAIN data

Layout == INSTANCE WordMemory
Promise == INSTANCE Storage
    WITH mem <- Layout!WordsOf(data), granted <- (status = "ok")

\* The byte array is a memory of words: overlapping accesses of every width
\* (read8 to write32) see each other's values in little-endian order, and a
\* refused one leaves no trace.
Implements == Promise!Spec
=============================================================================
