------------------------------- MODULE MCCpu -------------------------------
(***************************************************************************)
(* The processor alone on six words of memory, called over and over.      *)
(***************************************************************************)
EXTENDS Cpu

P == INSTANCE Programs

MCReg == {0, 2, 10, 11, 12, 17}
MCDecode == P!Decoder

Image(words) ==
    [b \in 0 .. 23 |->
        LET bytes == P!Bytes(words) IN IF b < Len(bytes) THEN bytes[b + 1] ELSE 0]

\* Three instructions out of a few of each kind, then zeros; one or two that
\* set arguments of a system call, the call and its number; the division
\* that traps.
MCImages ==
    {Image(<<i, j, k>>) :
        i, j, k \in {1, 3, 8, 9, 11, 13, 17, 18, 19, 20, 25, 27, 29, 30}}
      \cup {Image(<<32, i, j, 25, 7, number>>) :
        i, j \in {3, 4, 34, 35, 36}, number \in {64, 63, 56, 57, 214, 80, 62}}
      \cup {Image(<<2, 3, 22>>)}
MCStarts == {0, 6}
=============================================================================
