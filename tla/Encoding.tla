------------------------------ MODULE Encoding ------------------------------
(***************************************************************************)
(* The life of one instruction word: Assembler::encode_instruction makes   *)
(* it from a mnemonic and three operands with the functions of Encoder,    *)
(* Instruction::decode takes it apart again in the emulator, and           *)
(* CPU::execute picks what to do from its fields.                          *)
(*                                                                         *)
(* A word is the set of the positions of its one bits, so | is union, & is *)
(* intersection and a shift moves positions.  Operators whose name starts  *)
(* with Bad are faulty variants of the one that follows, which the         *)
(* properties were tried on.                                               *)
(***************************************************************************)
EXTENDS Integers

CONSTANTS
    Lines,      \* bound: the instructions assembled, a set of Line
    Pcs,        \* bound: the addresses they are assembled for
    NoValue     \* what parse_imm makes of a name that is no label: exit(1)

\* An operand is what the two conversions make of its text: reg_num, -1 for
\* what is no register, and parse_imm, 0 for an empty operand and the address
\* for a label.
Operand == [reg : -1 .. 31, imm : Int \cup {NoValue}]
Line == [op : STRING, a : [1 .. 3 -> Operand]]

ASSUME LinesAssumption == Lines \subseteq Line
ASSUME PcsAssumption == Pcs \subseteq Int
ASSUME NoValueAssumption == NoValue \notin Int

VARIABLES
    line, pc,   \* the instruction and its address (never change)
    stage,      \* "source", "encoded", "executed", or "failed"
    word,       \* what is in the file
    ins         \* what the emulator executes

vars == <<line, pc, stage, word, ins>>

----------------------------------------------------------------------------
(* Words.                                                                  *)

Bit == 0 .. 31

\* The bits of an int32_t.
Ones(i) == {k \in Bit : IF k = 31 THEN i < 0 ELSE (i \div 2 ^ k) % 2 = 1}

BadLeft(v, k) == {b + k : b \in v}
\* v << k and, of an int32_t, v >> 1
Left(v, k) == {b \in Bit : b - k \in v}
Half(v) == {b \in Bit : IF b = 31 THEN b \in v ELSE b + 1 \in v}

\* ((v >> from) & (2^n - 1)) << to
Field(v, from, n, to) == {b \in to .. to + n - 1 : b - to + from \in v}

SignExtend(v, n) == {b \in Bit : IF b < n THEN b \in v ELSE n - 1 \in v}

----------------------------------------------------------------------------
(* The assembler.                                                          *)

LOAD == {0, 1}                  \* 0x03
OP_IMM == {0, 1, 4}             \* 0x13
AUIPC == {0, 1, 2, 4}           \* 0x17
STORE == {0, 1, 5}              \* 0x23
OP == {0, 1, 4, 5}              \* 0x33
LUI == {0, 1, 2, 4, 5}          \* 0x37
BRANCH == {0, 1, 5, 6}          \* 0x63
JALR == {0, 1, 2, 5, 6}         \* 0x67
JAL == {0, 1, 2, 3, 5, 6}       \* 0x6F
SYSTEM == {0, 1, 4, 5, 6}       \* 0x73

Encode_r(funct7, rs2, rs1, funct3, rd, opcode) ==
    UNION {Left(funct7, 25), Left(rs2, 20), Left(rs1, 15), Left(funct3, 12), Left(rd, 7), opcode}

Encode_i(imm, rs1, funct3, rd, opcode) ==
    UNION {Field(imm, 0, 12, 20), Left(rs1, 15), Left(funct3, 12), Left(rd, 7), opcode}

\* The immediate put in unmasked.
BadEncode_s(imm, rs2, rs1, funct3, opcode) ==
    UNION {Left(imm, 20), Left(rs2, 20), Left(rs1, 15), Left(funct3, 12),
           Field(imm, 0, 5, 7), opcode}
Encode_s(imm, rs2, rs1, funct3, opcode) ==
    UNION {Field(imm, 5, 7, 25), Left(rs2, 20), Left(rs1, 15), Left(funct3, 12),
           Field(imm, 0, 5, 7), opcode}

\* imm >> 1 is taken first, so bit k of the immediate is bit k - 1 of u.
Encode_b(imm, rs2, rs1, funct3, opcode) ==
    LET u == Half(imm)
    IN  UNION {Field(u, 11, 1, 31), Field(u, 4, 6, 25), Left(rs2, 20), Left(rs1, 15),
               Left(funct3, 12), Field(u, 0, 4, 8), Field(u, 10, 1, 7), opcode}

Encode_u(imm, rd, opcode) == UNION {Field(imm, 12, 20, 12), Left(rd, 7), opcode}

Encode_j(imm, rd, opcode) ==
    LET u == Half(imm)
    IN  UNION {Field(u, 19, 1, 31), Field(u, 0, 10, 21), Field(u, 10, 1, 20),
               Field(u, 11, 8, 12), Left(rd, 7), opcode}

\* The mnemonics, with their funct3 and funct7.
RegisterOps ==
    [add |-> [f7 |-> {}, f3 |-> {}],      sub |-> [f7 |-> {5}, f3 |-> {}],
     sll |-> [f7 |-> {}, f3 |-> {0}],     slt |-> [f7 |-> {}, f3 |-> {1}],
     sltu |-> [f7 |-> {}, f3 |-> {0, 1}], xor |-> [f7 |-> {}, f3 |-> {2}],
     srl |-> [f7 |-> {}, f3 |-> {0, 2}],  sra |-> [f7 |-> {5}, f3 |-> {0, 2}],
     or |-> [f7 |-> {}, f3 |-> {1, 2}],   and |-> [f7 |-> {}, f3 |-> {0, 1, 2}],
     mul |-> [f7 |-> {0}, f3 |-> {}],     mulh |-> [f7 |-> {0}, f3 |-> {0}],
     mulhsu |-> [f7 |-> {0}, f3 |-> {1}], mulhu |-> [f7 |-> {0}, f3 |-> {0, 1}],
     div |-> [f7 |-> {0}, f3 |-> {2}],    divu |-> [f7 |-> {0}, f3 |-> {0, 2}],
     rem |-> [f7 |-> {0}, f3 |-> {1, 2}], remu |-> [f7 |-> {0}, f3 |-> {0, 1, 2}]]
ImmediateOps ==
    [addi |-> {}, slti |-> {1}, sltiu |-> {0, 1}, xori |-> {2}, ori |-> {1, 2}, andi |-> {0, 1, 2}]
ShiftOps ==
    [slli |-> [f7 |-> {}, f3 |-> {0}], srli |-> [f7 |-> {}, f3 |-> {0, 2}],
     srai |-> [f7 |-> {5}, f3 |-> {0, 2}]]
LoadOps == [lb |-> {}, lh |-> {0}, lw |-> {1}, lbu |-> {2}, lhu |-> {0, 2}]
StoreOps == [sb |-> {}, sh |-> {0}, sw |-> {1}]
BranchOps ==
    [beq |-> {}, bne |-> {0}, blt |-> {2}, bge |-> {0, 2}, bltu |-> {1, 2}, bgeu |-> {0, 1, 2}]

\* Which operand goes through parse_imm, if any, and which through reg_num.
NumberAt(op) ==
    IF op \in UNION {DOMAIN ImmediateOps, DOMAIN ShiftOps, DOMAIN BranchOps, {"jalr"}} THEN {3}
    ELSE IF op \in UNION {DOMAIN LoadOps, DOMAIN StoreOps, {"jal", "lui", "auipc"}} THEN {2}
    ELSE {}
RegistersAt(op) ==
    IF op \in {"ecall", "ebreak"} THEN {}
    ELSE IF op \in {"jal", "lui", "auipc"} THEN {1} ELSE (1 .. 3) \ NumberAt(op)

Mnemonics ==
    UNION {DOMAIN RegisterOps, DOMAIN ImmediateOps, DOMAIN ShiftOps, DOMAIN LoadOps,
           DOMAIN StoreOps, DOMAIN BranchOps,
           {"jal", "jalr", "lui", "auipc", "ecall", "ebreak"}}

Encoded(l, at) ==
    LET op == l.op
        reg(k) == Ones(l.a[k].reg)
        imm(k) == Ones(l.a[k].imm)
        offset(k) == Ones(l.a[k].imm - at)
    IN
    CASE op \in DOMAIN RegisterOps ->
            Encode_r(RegisterOps[op].f7, reg(3), reg(2), RegisterOps[op].f3, reg(1), OP)
      [] op \in DOMAIN ImmediateOps -> Encode_i(imm(3), reg(2), ImmediateOps[op], reg(1), OP_IMM)
      [] op \in DOMAIN ShiftOps ->
            Encode_r(ShiftOps[op].f7, imm(3) \cap 0 .. 4, reg(2), ShiftOps[op].f3, reg(1), OP_IMM)
      [] op \in DOMAIN LoadOps -> Encode_i(imm(2), reg(3), LoadOps[op], reg(1), LOAD)
      [] op \in DOMAIN StoreOps -> Encode_s(imm(2), reg(1), reg(3), StoreOps[op], STORE)
      [] op \in DOMAIN BranchOps -> Encode_b(offset(3), reg(2), reg(1), BranchOps[op], BRANCH)
      [] op = "jal" -> Encode_j(offset(2), reg(1), JAL)
      [] op = "jalr" -> Encode_i(imm(3), reg(2), {}, reg(1), JALR)
      [] op = "lui" -> Encode_u(Left(imm(2), 12), reg(1), LUI)
      [] op = "auipc" -> Encode_u(Left(imm(2), 12), reg(1), AUIPC)
      [] op = "ecall" -> Encode_i({}, {}, {}, {}, SYSTEM)
      [] op = "ebreak" -> Encode_i({0}, {}, {}, {}, SYSTEM)

\* An unknown mnemonic, or a name where parse_imm wants a number or a label.
\* What is no register is not noticed.
Unencodable(l) == l.op \notin Mnemonics \/ \E k \in NumberAt(l.op) : l.a[k].imm = NoValue

----------------------------------------------------------------------------
(* The emulator.                                                           *)

Extract_b_imm(w) ==
    SignExtend(UNION {Field(w, 31, 1, 12), Field(w, 7, 1, 11), Field(w, 25, 6, 5),
                      Field(w, 8, 4, 1)}, 13)
BadExtract_j_imm(w) ==
    SignExtend(UNION {Field(w, 31, 1, 20), Field(w, 12, 8, 12), Field(w, 20, 1, 11),
                      Field(w, 21, 10, 1)}, 20)
Extract_j_imm(w) ==
    SignExtend(UNION {Field(w, 31, 1, 20), Field(w, 12, 8, 12), Field(w, 20, 1, 11),
                      Field(w, 21, 10, 1)}, 21)

\* decode's immediate, by the format of the opcode.
Immediate(w) ==
    LET opcode == Field(w, 0, 7, 0) IN
    CASE opcode \in {LOAD, OP_IMM, JALR, SYSTEM} -> SignExtend(Field(w, 20, 12, 0), 12)
      [] opcode = STORE -> SignExtend(Field(w, 25, 7, 5) \cup Field(w, 7, 5, 0), 12)
      [] opcode = BRANCH -> Extract_b_imm(w)
      [] opcode \in {LUI, AUIPC} -> Field(w, 12, 20, 12)
      [] opcode = JAL -> Extract_j_imm(w)

\* What funct3 selects in execute_alu, execute_mul_div, execute_load,
\* execute_store and execute_branch.
AluCodes ==
    [add |-> {}, sll |-> {0}, slt |-> {1}, sltu |-> {0, 1}, xor |-> {2}, sr |-> {0, 2},
     or |-> {1, 2}, and |-> {0, 1, 2}]
MulCodes ==
    [mul |-> {}, mulh |-> {0}, mulhsu |-> {1}, mulhu |-> {0, 1}, div |-> {2},
     divu |-> {0, 2}, rem |-> {1, 2}, remu |-> {0, 1, 2}]
LoadCodes == [lb |-> {}, lh |-> {0}, lw |-> {1}, lbu |-> {2}, lhu |-> {0, 2}]
StoreCodes == [sb |-> {}, sh |-> {0}, sw |-> {1}]
BranchCodes ==
    [beq |-> {}, bne |-> {0}, blt |-> {2}, bge |-> {0, 2}, bltu |-> {1, 2}, bgeu |-> {0, 1, 2}]
SystemCodes == [ecall |-> {}, ebreak |-> {0}]

Selected(codes, f) ==
    IF \E name \in DOMAIN codes : codes[name] = f
    THEN CHOOSE name \in DOMAIN codes : codes[name] = f ELSE "illegal"

\* CPU::execute: the operation, and the fields it reads of the instruction.
\* A shift takes its amount and, in bit 10, its kind from the immediate.
Executed(w) ==
    LET opcode == Field(w, 0, 7, 0)
        f3 == Field(w, 12, 3, 0)
        f7 == Field(w, 25, 7, 0)
        d == Field(w, 7, 5, 0)
        s == Field(w, 15, 5, 0)
        t == Field(w, 20, 5, 0)
        imm == Immediate(w)
        shift == f3 \in {{0}, {0, 2}}
    IN
    CASE opcode = OP /\ f7 = {0} ->
            [kind |-> "muldiv", op |-> Selected(MulCodes, f3), rd |-> d, rs1 |-> s, rs2 |-> t]
      [] opcode = OP /\ f7 # {0} ->
            [kind |-> "alu", op |-> Selected(AluCodes, f3), alt |-> 5 \in f7,
             rd |-> d, rs1 |-> s, rs2 |-> t]
      [] opcode = OP_IMM ->
            [kind |-> "aluimm", op |-> Selected(AluCodes, f3), alt |-> shift /\ 10 \in imm,
             rd |-> d, rs1 |-> s, imm |-> IF shift THEN imm \cap 0 .. 4 ELSE imm]
      [] opcode = LOAD ->
            [kind |-> "load", op |-> Selected(LoadCodes, f3), rd |-> d, rs1 |-> s, imm |-> imm]
      [] opcode = STORE ->
            [kind |-> "store", op |-> Selected(StoreCodes, f3), rs1 |-> s, rs2 |-> t, imm |-> imm]
      [] opcode = BRANCH ->
            [kind |-> "branch", op |-> Selected(BranchCodes, f3), rs1 |-> s, rs2 |-> t, imm |-> imm]
      [] opcode = JALR -> [kind |-> "jalr", rd |-> d, rs1 |-> s, imm |-> imm]
      [] opcode = JAL -> [kind |-> "jal", rd |-> d, imm |-> imm]
      [] opcode = LUI -> [kind |-> "lui", rd |-> d, imm |-> imm]
      [] opcode = AUIPC -> [kind |-> "auipc", rd |-> d, imm |-> imm]
      [] opcode = SYSTEM -> [kind |-> "system", op |-> Selected(SystemCodes, imm \cap 0 .. 11)]
      [] OTHER -> [kind |-> "none"]

----------------------------------------------------------------------------
Init ==
    /\ line \in Lines /\ pc \in Pcs
    /\ stage = "source" /\ word = {} /\ ins = [kind |-> "none"]

Encode_instruction ==
    /\ stage = "source" /\ ~Unencodable(line)
    /\ word' = Encoded(line, pc)
    /\ stage' = "encoded"
    /\ UNCHANGED <<line, pc, ins>>

\* exit(1)
Reject ==
    /\ stage = "source" /\ Unencodable(line)
    /\ stage' = "failed"
    /\ UNCHANGED <<line, pc, word, ins>>

Execute ==
    /\ stage = "encoded"
    /\ ins' = Executed(word)
    /\ stage' = "executed"
    /\ UNCHANGED <<line, pc, word>>

Next == Encode_instruction \/ Reject \/ Execute

Spec == Init /\ [][Next]_vars

----------------------------------------------------------------------------
(* Properties.                                                             *)

\* A word has 32 bits, whatever was shifted into it.
TypeOK ==
    /\ line \in Line /\ pc \in Int
    /\ stage \in {"source", "encoded", "executed", "failed"}
    /\ word \subseteq Bit

\* What an instruction of RISC-V means, told from its mnemonic.
Operation(op) ==
    CASE op \in {"add", "sub", "addi"} -> "add"
      [] op \in {"sra", "srl", "srai", "srli"} -> "sr"
      [] op = "slli" -> "sll"
      [] op = "slti" -> "slt"
      [] op = "sltiu" -> "sltu"
      [] op = "xori" -> "xor"
      [] op = "ori" -> "or"
      [] op = "andi" -> "and"
      [] OTHER -> op

Meant(l, at) ==
    LET op == l.op
        name == Operation(op)
        reg(k) == Ones(l.a[k].reg)
        imm(k) == Ones(l.a[k].imm)
        from(k) == Ones(l.a[k].imm - at)
    IN
    CASE op \in {"add", "sub", "sll", "slt", "sltu", "xor", "srl", "sra", "or", "and"} ->
            [kind |-> "alu", op |-> name, alt |-> op \in {"sub", "sra"},
             rd |-> reg(1), rs1 |-> reg(2), rs2 |-> reg(3)]
      [] op \in {"mul", "mulh", "mulhsu", "mulhu", "div", "divu", "rem", "remu"} ->
            [kind |-> "muldiv", op |-> name, rd |-> reg(1), rs1 |-> reg(2), rs2 |-> reg(3)]
      [] op \in {"addi", "slti", "sltiu", "xori", "ori", "andi", "slli", "srli", "srai"} ->
            [kind |-> "aluimm", op |-> name, alt |-> op = "srai",
             rd |-> reg(1), rs1 |-> reg(2), imm |-> imm(3)]
      [] op \in {"lb", "lh", "lw", "lbu", "lhu"} ->
            [kind |-> "load", op |-> name, rd |-> reg(1), rs1 |-> reg(3), imm |-> imm(2)]
      [] op \in {"sb", "sh", "sw"} ->
            [kind |-> "store", op |-> name, rs1 |-> reg(3), rs2 |-> reg(1), imm |-> imm(2)]
      [] op \in {"beq", "bne", "blt", "bge", "bltu", "bgeu"} ->
            [kind |-> "branch", op |-> name, rs1 |-> reg(1), rs2 |-> reg(2), imm |-> from(3)]
      [] op = "jalr" -> [kind |-> op, rd |-> reg(1), rs1 |-> reg(2), imm |-> imm(3)]
      [] op = "jal" -> [kind |-> op, rd |-> reg(1), imm |-> from(2)]
      [] op \in {"lui", "auipc"} -> [kind |-> op, rd |-> reg(1), imm |-> Left(imm(2), 12)]
      [] op \in {"ecall", "ebreak"} -> [kind |-> "system", op |-> op]

\* The numbers that fit the field of an instruction.
Between(i, least, greatest) == least <= i /\ i <= greatest
Fits(op, i, at) ==
    CASE op \in {"slli", "srli", "srai"} -> Between(i, 0, 31)
      [] op \in {"beq", "bne", "blt", "bge", "bltu", "bgeu"} ->
            Between(i - at, -4096, 4095) /\ (i - at) % 2 = 0
      [] op = "jal" -> Between(i - at, -1048576, 1048575) /\ (i - at) % 2 = 0
      [] op \in {"lui", "auipc"} -> Between(i, -524288, 1048575)
      [] OTHER -> Between(i, -2048, 2047)

RegistersNamed(l) == \A k \in RegistersAt(l.op) : l.a[k].reg # -1
WellFormed(l, at) ==
    /\ l.op \in Mnemonics /\ RegistersNamed(l)
    /\ \A k \in NumberAt(l.op) : l.a[k].imm # NoValue /\ Fits(l.op, l.a[k].imm, at)

\* A well-formed instruction is accepted and executed as written: the same
\* operation on the same registers with the same number, which took the way
\* through encode_instruction's and execute's separate tables and through the
\* scattered immediates of encode.cpp and instructions.cpp.
RoundTrip ==
    WellFormed(line, pc) =>
        /\ stage # "failed"
        /\ stage = "executed" => ins = Meant(line, pc)

\* The bits of a number that have a place in the word.
Held(op) ==
    CASE op \in {"slli", "srli", "srai"} -> 0 .. 4
      [] op \in {"beq", "bne", "blt", "bge", "bltu", "bgeu"} -> 1 .. 12
      [] op = "jal" -> 1 .. 20
      [] op \in {"lui", "auipc"} -> 12 .. 31
      [] OTHER -> 0 .. 11

\* What no check of encode_instruction stops does bounded harm.  A number of
\* any size, which is masked and not refused, spoils only itself: its held
\* bits, the operation and the registers are as written.  A misspelt
\* register, whose -1 spills over the word, never changes the opcode.
HarmContained ==
    stage = "executed" =>
        LET m == Meant(line, pc)
        IN  /\ ins.kind = m.kind \/ {ins.kind, m.kind} = {"alu", "muldiv"}
            /\ RegistersNamed(line) =>
                  /\ DOMAIN ins = DOMAIN m
                  /\ \A f \in DOMAIN m \ {"imm"} : ins[f] = m[f]
                  /\ NumberAt(line.op) # {} =>
                        ins.imm \cap Held(line.op) = m.imm \cap Held(line.op)
=============================================================================
