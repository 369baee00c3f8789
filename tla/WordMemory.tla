---------------------------- MODULE WordMemory ----------------------------
(***************************************************************************)
(* A memory as its user thinks of it: an array of words, of which an       *)
(* aligned access of 1, 2 or 4 bytes reads or replaces some digits to the  *)
(* base 2^(Bits/4).  No array of bytes and no byte order appears.          *)
(***************************************************************************)
EXTENDS Words

CONSTANT MemSize    \* in bytes

Base == 2 ^ (Bits \div 4)

\* The accesses that mean something: aligned, and wholly inside.
Meaningful(n, a) == a % n = 0 /\ a + n <= MemSize

\* The n digits at address a of the words m.
Digits(m, n, a) == (m[a \div 4] \div Base ^ (a % 4)) % Base ^ n

\* m with those digits replaced by the lowest ones of v.
WithDigits(m, n, a, v) ==
    [m EXCEPT ![a \div 4] =
        @ + ((v % Base ^ n) - Digits(m, n, a)) * Base ^ (a % 4)]

\* The words a function from addresses to bytes holds.
WordsOf(bytes) ==
    [w \in 0 .. MemSize \div 4 - 1 |->
        bytes[4 * w] + Base * (bytes[4 * w + 1]
            + Base * (bytes[4 * w + 2] + Base * bytes[4 * w + 3]))]
=============================================================================
