------------------------------ MODULE Programs ------------------------------
(***************************************************************************)
(* The instructions and programs the emulator is checked on: a processor   *)
(* of eight-bit words, whose instruction number k is the k-th of Code;     *)
(* every other word is one decode() rejects, as zero is in the code.       *)
(***************************************************************************)
EXTENDS Integers, Sequences

\* alu, load and jump instructions with destination d, sources s and t and
\* an immediate.
Ins(kind, op, alt, d, s, t, imm) ==
    [kind |-> kind, op |-> op, alt |-> alt, rd |-> d, rs1 |-> s, rs2 |-> t, imm |-> imm]
Imm(op, d, s, imm) == Ins("aluimm", op, FALSE, d, s, 0, imm)
Reg3(kind, op, d, s, t) == Ins(kind, op, FALSE, d, s, t, 0)
Put(op, t, imm, s) == Ins("store", op, FALSE, 0, s, t, imm)
Get(op, d, imm, s) == Ins("load", op, FALSE, d, s, 0, imm)
If(op, s, t, imm) == Ins("branch", op, FALSE, 0, s, t, imm)
System(op) == Ins("system", op, FALSE, 0, 0, 0, 0)

Code == <<
    Imm("add", 10, 10, 1),                      \* 1   addi a0, a0, 1
    Imm("add", 10, 0, 128),                     \* 2   li   a0, -128
    Imm("add", 11, 0, 255),                     \* 3   li   a1, -1
    Ins("alu", "add", TRUE, 11, 0, 10, 0),      \* 4   neg  a1, a0
    Ins("aluimm", "sr", TRUE, 12, 10, 0, 2),    \* 5   srai a2, a0, 2
    Reg3("alu", "slt", 12, 10, 11),             \* 6   slt  a2, a0, a1
    Ins("lui", "", FALSE, 11, 0, 0, 12),        \* 7   lui  a1
    Ins("auipc", "", FALSE, 10, 0, 0, 4),       \* 8   auipc a0
    Ins("jal", "", FALSE, 10, 0, 0, 252),       \* 9   jal  a0, .-4
    Ins("jal", "", FALSE, 0, 0, 0, 8),          \* 10  j    .+8
    Ins("jalr", "", FALSE, 10, 10, 0, 5),       \* 11  jalr a0, a0, 5
    If("beq", 10, 11, 8),                       \* 12  beq  a0, a1, .+8
    If("bne", 10, 11, 252),                     \* 13  bne  a0, a1, .-4
    If("blt", 10, 11, 8),                       \* 14  blt  a0, a1, .+8
    If("bgeu", 10, 11, 248),                    \* 15  bgeu a0, a1, .-8
    Get("lw", 10, 12, 0),                       \* 16  lw   a0, 12(zero)
    Get("lb", 11, 4, 0),                        \* 17  lb   a1, 4(zero)
    Get("lhu", 12, 0, 11),                      \* 18  lhu  a2, 0(a1)
    Put("sw", 10, 0, 11),                       \* 19  sw   a0, 0(a1)
    Put("sb", 10, 8, 0),                        \* 20  sb   a0, 8(zero)
    Put("sh", 11, 12, 10),                      \* 21  sh   a1, 12(a0)
    Reg3("muldiv", "div", 10, 10, 11),          \* 22  div  a0, a0, a1
    Reg3("muldiv", "mulhsu", 12, 10, 11),       \* 23  mulhsu a2, a0, a1
    Put("sw", 10, 252, 2),                      \* 24  sw   a0, -4(sp)
    System("ecall"),                            \* 25
    System("ebreak"),                           \* 26
    Get("illegal", 10, 0, 0),                   \* 27
    System("illegal"),                          \* 28
    Imm("add", 17, 0, 93),                      \* 29  li   a7, 93
    Imm("add", 0, 0, 5),                        \* 30  li   zero, 5
    Get("lh", 11, 14, 0),                       \* 31  lh   a1, 14(zero)
    Get("lw", 17, 20, 0),                       \* 32  lw   a7, 20(zero)
    Imm("add", 11, 0, 16),                      \* 33  li   a1, 16
    Imm("add", 11, 0, 20),                      \* 34  li   a1, 20
    Imm("add", 12, 0, 2),                       \* 35  li   a2, 2
    Imm("add", 12, 0, 248)                      \* 36  li   a2, 248
>>

Decoder ==
    [w \in 0 .. 255 |->
        IF w \in DOMAIN Code THEN Code[w] ELSE Ins("none", "", FALSE, 0, 0, 0, 0)]

\* The bytes, of two bits each, of a sequence of words.
Bytes(words) ==
    [k \in 1 .. 4 * Len(words) |-> (words[(k + 3) \div 4] \div 4 ^ ((k - 1) % 4)) % 4]
Assembled(S) == {Bytes(words) : words \in S}
=============================================================================
