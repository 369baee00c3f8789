----------------------------- MODULE MCEmulator -----------------------------
(***************************************************************************)
(* The emulator program on small files.                                    *)
(***************************************************************************)
EXTENDS Emulator

P == INSTANCE Programs

MCReg == {0, 2, 10, 11, 12, 17}
MCDecode == P!Decoder

\* Every program of two or three instructions of the first thirty-one, of
\* which those of two fit at address 16 too; none at all; some of four words;
\* one too large.
MCPrograms ==
    P!Assembled([1 .. 3 -> 1 .. 31] \cup [1 .. 2 -> 1 .. 31] \cup
        {<<>>, <<16, 21, 19, 225>>, <<2, 3, 22, 22>>, <<1, 1, 1, 1, 1, 1, 1>>})

\* A call number, two instructions that set arguments, two calls.
MCCalls ==
    P!Assembled({<<32, i, j, 25, 25, number>> :
        i, j \in {2, 3, 29, 33, 34, 35, 36},
        number \in {93, 64, 63, 56, 57, 214, 80, 62}})

MCFiles == MCPrograms \cup MCCalls

\* No images: the memory's contents come from the file.
NoImages == {}
=============================================================================
