----------------------------- MODULE MCEncoding -----------------------------
(***************************************************************************)
(* Encoding on every mnemonic, with operands of every sort.                *)
(***************************************************************************)
EXTENDS Encoding

Register(n) == [reg |-> n, imm |-> NoValue]
Number(i) == [reg |-> -1, imm |-> i]
Empty == Number(0)
Unknown == [reg |-> -1, imm |-> NoValue]

\* Around the ends of every field, with bits set on both sides of each cut.
MCNumbers ==
    {-2147479552, -1048576, -1044480, -524288, -4098, -4096, -2730, -2049, -2048, -1, 1, 5, 31, 32,
     1365, 2047, 2048, 4095, 4096, 6826, 8190, 8192, 349525, 1048575, 1052670, 1052672, 2147483647}
Registers == {Register(10), Register(21), Register(31)}

\* Three registers, of which one may be replaced by anything else.
Operands ==
    [1 .. 3 -> Registers] \cup
    {[b EXCEPT ![k] = o] : b \in [1 .. 3 -> Registers], k \in 1 .. 3,
                           o \in {Unknown, Empty} \cup {Number(i) : i \in MCNumbers}}
MCLines == {[op |-> op, a |-> a] : op \in Mnemonics \cup {"push"}, a \in Operands}
=============================================================================
