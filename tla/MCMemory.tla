------------------------------ MODULE MCMemory ------------------------------
(***************************************************************************)
(* Memory on arrays of at most two words of one-bit bytes.                 *)
(***************************************************************************)
EXTENDS Memory

\* Every address of the array, the first ones beyond it and the last one of
\* the address space.
MCAddrs == 0 .. 9 \cup {15}
MCValues == {5, 10, 15}
=============================================================================
