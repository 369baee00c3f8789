-------------------------------- MODULE Cpu --------------------------------
(***************************************************************************)
(* Class CPU: fetch, decode and execute over a Memory.  One action is one  *)
(* call of CPU::step; the disjuncts of Next are the ways such a call can   *)
(* go.  The caller may call again after an error or after the exit, as     *)
(* the class lets it.                                                      *)
(*                                                                         *)
(* A word is Bits bits, four bytes; the code has 32.  What the bits of an  *)
(* instruction mean is the constant Decode; the host's answers to write,   *)
(* read, open, close and fstat are free.  Operators whose name starts with *)
(* Bad are faulty variants of the one that follows, which the properties   *)
(* were tried on.                                                          *)
(***************************************************************************)
EXTENDS Alu, MemoryAccess, Sequences

CONSTANTS
    Reg,        \* the registers programs use
    Decode,     \* Instruction::decode, a function on words
    StackTop,   \* STACK_TOP, the initial sp
    Images,     \* bound: the memories it may be started on
    Starts,     \* bound: the initial program counters
    HostBytes,  \* bound: the bytes the host delivers ...
    HostMax,    \* bound: ... and how many at most in a read
    StatSize,   \* sizeof(struct stat)
    StatCopied  \* what fstat copies of it, at most 64 bytes in the code

Kinds == {"alu", "muldiv", "aluimm", "load", "store", "branch", "jal", "jalr",
          "lui", "auipc", "system", "none"}

\* A decoded instruction.  op is what funct3, funct7 and for SYSTEM the
\* immediate select within the kind, "illegal" when they select nothing; alt
\* is bit 5 of funct7; imm is already extended.  Kind "none" is an opcode
\* decode() rejects.
Instructions ==
    [kind : Kinds, op : STRING, alt : BOOLEAN,
     rd : Reg, rs1 : Reg, rs2 : Reg, imm : Word]

\* What the switch of each execute function tells apart.
Ops(kind) ==
    CASE kind \in {"alu", "aluimm"} -> AluOp
      [] kind = "muldiv" -> MulOp
      [] kind = "load" -> {"lb", "lh", "lw", "lbu", "lhu", "illegal"}
      [] kind = "store" -> {"sb", "sh", "sw", "illegal"}
      [] kind = "branch" -> {"beq", "bne", "blt", "bge", "bltu", "bgeu", "illegal"}
      [] kind = "system" -> {"ecall", "ebreak", "illegal"}
      [] OTHER -> STRING

ASSUME RegAssumption == Reg \subseteq 0 .. 31 /\ {0, 2, 10, 11, 12, 17} \subseteq Reg
ASSUME DecodeAssumption ==
    /\ DOMAIN Decode = Word
    /\ \A w \in Word : Decode[w] \in Instructions /\ Decode[w].op \in Ops(Decode[w].kind)
ASSUME StartAssumption == StackTop \in Word /\ Images \subseteq Memories /\ Starts \subseteq Word
ASSUME HostAssumption ==
    /\ HostBytes \subseteq Byte /\ HostMax \in Nat
    /\ StatSize \in Nat /\ StatCopied \in 0 .. StatSize

VARIABLES
    x,          \* the registers
    pc,
    running,
    data,       \* the memory's bytes
    status      \* what the last call returned; "killed" if it did not return

cpuVars == <<x, pc, running, data, status>>

InitialRegisters == [r \in Reg |-> IF r = 2 THEN StackTop ELSE 0]

Init ==
    /\ x = InitialRegisters
    /\ pc \in Starts
    /\ running = TRUE
    /\ data \in Images
    /\ status = "ok"

RegRead(r) == IF r = 0 THEN 0 ELSE x[r]
BadRegWrite(r, v) == [x EXCEPT ![r] = v]
RegWrite(r, v) == IF r = 0 THEN x ELSE [x EXCEPT ![r] = v]

----------------------------------------------------------------------------
(* Fetch and decode.                                                       *)

Stopped ==
    /\ status # "killed" /\ ~running
    /\ status' = "exit"
    /\ UNCHANGED <<x, pc, running, data>>

Fetchable == Check(4, pc) = "ok"

FetchFails ==
    /\ status # "killed" /\ running /\ ~Fetchable
    /\ status' = IF Check(4, pc) = "misaligned" THEN "fetch_misaligned"
                 ELSE "fetch_out_of_bounds"
    /\ UNCHANGED <<x, pc, running, data>>

\* The instruction the call works on, and the pc fetch() leaves.
I == Decode[Loaded(data, 4, pc)]
Fetched == Wrap(pc + 4)

Fetches(kind) ==
    /\ status # "killed" /\ running /\ Fetchable
    /\ I.kind = kind

\* The call fails after the fetch: only the pc has moved.
FailsWith(error) ==
    /\ status' = error
    /\ pc' = Fetched
    /\ UNCHANGED <<x, running, data>>

\* The call succeeds, with these registers, memory and pc.
Succeeds(registers, bytes, target) ==
    /\ x' = registers
    /\ data' = bytes
    /\ pc' = target
    /\ status' = "ok"
    /\ UNCHANGED running

Illegal ==
    \E kind \in {"load", "store", "branch", "system"} :
        Fetches(kind) /\ I.op = "illegal" /\ FailsWith("illegal")

Undecodable == Fetches("none") /\ FailsWith("decode")

----------------------------------------------------------------------------
(* Execute.                                                                *)

AluRegister ==
    /\ Fetches("alu")
    /\ Succeeds(RegWrite(I.rd, Alu(I.op, I.alt, FALSE, RegRead(I.rs1), RegRead(I.rs2))),
                data, Fetched)

AluImmediate ==
    /\ Fetches("aluimm")
    /\ Succeeds(RegWrite(I.rd, Alu(I.op, I.alt, TRUE, RegRead(I.rs1), I.imm)),
                data, Fetched)

Multiply ==
    /\ Fetches("muldiv")
    /\ Succeeds(RegWrite(I.rd, MulDiv(I.op, RegRead(I.rs1), RegRead(I.rs2))),
                data, Fetched)

\* Undefined in C: where the host's division traps, as on x86, the emulator
\* dies; elsewhere the quotient wraps, which is Multiply's result.
Trap ==
    /\ Fetches("muldiv")
    /\ Overflows(I.op, RegRead(I.rs1), RegRead(I.rs2))
    /\ status' = "killed"
    /\ UNCHANGED <<x, pc, running, data>>

Width(op) == CASE op \in {"lb", "lbu", "sb"} -> 1
               [] op \in {"lh", "lhu", "sh"} -> 2
               [] op \in {"lw", "sw"} -> 4
Address == Wrap(RegRead(I.rs1) + I.imm)
Refused == Check(Width(I.op), Address) # "ok"

Extended(op, v) == IF op \in {"lb", "lh"} THEN SignExtend(v, Width(op) * ByteBits) ELSE v

Load ==
    /\ Fetches("load") /\ I.op # "illegal" /\ ~Refused
    /\ Succeeds(RegWrite(I.rd, Extended(I.op, Loaded(data, Width(I.op), Address))),
                data, Fetched)

Store ==
    /\ Fetches("store") /\ I.op # "illegal" /\ ~Refused
    /\ Succeeds(x, Stored(data, Width(I.op), Address, RegRead(I.rs2)), Fetched)

\* A load that writes its register, with whatever it has, before it fails.
BadAccessFails ==
    /\ Fetches("load") /\ I.op # "illegal" /\ Refused
    /\ status' = "execution"
    /\ x' = RegWrite(I.rd, 1)
    /\ pc' = Fetched
    /\ UNCHANGED <<running, data>>
AccessFails ==
    \E kind \in {"load", "store"} :
        /\ Fetches(kind) /\ I.op # "illegal" /\ Refused
        /\ FailsWith("execution")

\* execute_branch's comparison; the pc it and jal and auipc start from is
\* the fetched one, already past the instruction.
Taken(op, a, b) ==
    CASE op = "beq" -> a = b
      [] op = "bne" -> a # b
      [] op = "blt" -> Signed(a) < Signed(b)
      [] op = "bge" -> Signed(a) >= Signed(b)
      [] op = "bltu" -> a < b
      [] op = "bgeu" -> a >= b

BadRelative(imm) == Wrap(Fetched + imm)
Relative(imm) == Wrap(Fetched + imm - 4)

Branch ==
    /\ Fetches("branch") /\ I.op # "illegal"
    /\ Succeeds(x, data, IF Taken(I.op, RegRead(I.rs1), RegRead(I.rs2))
                         THEN Relative(I.imm) ELSE Fetched)

Jal == Fetches("jal") /\ Succeeds(RegWrite(I.rd, Fetched), data, Relative(I.imm))

\* The base register is read before the link is written over it; & ~1.
Jump == LET t == Wrap(RegRead(I.rs1) + I.imm) IN t - (t % 2)

Jalr == Fetches("jalr") /\ Succeeds(RegWrite(I.rd, Fetched), data, Jump)

Lui == Fetches("lui") /\ Succeeds(RegWrite(I.rd, I.imm), data, Fetched)

Auipc == Fetches("auipc") /\ Succeeds(RegWrite(I.rd, Relative(I.imm)), data, Fetched)

Ebreak == Fetches("system") /\ I.op = "ebreak" /\ Succeeds(x, data, Fetched)

----------------------------------------------------------------------------
(* handle_syscall.  The number is in a7, the arguments in a0, a1 and a2,   *)
(* the answer goes to a0.                                                  *)

Calls(number) == Fetches("system") /\ I.op = "ecall" /\ x[17] = number

Answers(bytes, answer) == Succeeds([x EXCEPT ![10] = Wrap(answer)], bytes, Fetched)

Exit ==
    /\ Calls(93)
    /\ running' = FALSE
    /\ pc' = Fetched
    /\ status' = "exit"
    /\ UNCHANGED <<x, data>>

\* size_t is wider than a register: the sum does not wrap.
BadFits(size) == Wrap(x[11] + size) <= MemSize
Fits(size) == x[11] + size <= MemSize

Write ==
    /\ Calls(64)
    /\ \E written \in -1 .. HostMax :
        /\ IF Fits(x[12]) THEN written <= x[12] ELSE written = -1
        /\ Answers(data, written)

\* What the host puts at buf, byte by byte.
Filled(buf, bytes) ==
    [b \in DOMAIN data |->
        IF b - buf + 1 \in DOMAIN bytes THEN bytes[b - buf + 1] ELSE data[b]]

Read ==
    /\ Calls(63)
    /\ \/ Answers(data, -1)
       \/ \E count \in 0 .. HostMax : \E bytes \in [1 .. count -> HostBytes] :
            /\ Fits(x[12]) /\ count <= x[12]
            /\ Answers(Filled(x[11], bytes), count)

\* The path is read up to a zero byte, 255 bytes or the end of the memory.
OpenAt == Calls(56) /\ \E fd \in {-1, 3} : Answers(data, fd)

Close == Calls(57) /\ \E result \in {-1, 0} : Answers(data, result)

\* -ENOMEM
Brk == Calls(214) /\ Answers(data, -12)

\* The copy is left out, but not the answer, if the buffer does not fit.
Fstat ==
    /\ Calls(80)
    /\ \/ Answers(data, -1)
       \/ ~Fits(StatSize) /\ Answers(data, 0)
       \/ /\ Fits(StatSize)
          /\ \E b \in HostBytes :
                Answers(Filled(x[11], [k \in 1 .. StatCopied |-> b]), 0)

Known == {93, 64, 63, 56, 57, 214, 80}

\* -ENOSYS
UnknownCall ==
    /\ Fetches("system") /\ I.op = "ecall" /\ x[17] \notin Known
    /\ Answers(data, -38)

Syscall ==
    \/ Exit \/ Write \/ Read \/ OpenAt \/ Close \/ Brk \/ Fstat \/ UnknownCall

\* One call of CPU::step.
Step ==
    \/ Stopped \/ FetchFails \/ Undecodable \/ Illegal
    \/ AluRegister \/ AluImmediate \/ Multiply \/ Trap
    \/ Load \/ Store \/ AccessFails
    \/ Branch \/ Jal \/ Jalr \/ Lui \/ Auipc
    \/ Ebreak \/ Syscall

Spec == Init /\ [][Step]_cpuVars

----------------------------------------------------------------------------
(* Properties.                                                             *)

Errors == {"fetch_misaligned", "fetch_out_of_bounds", "decode", "illegal", "execution"}

\* Registers, pc and memory keep their widths; a call returns one of the
\* statuses of cpu_status_t.
TypeOK ==
    /\ x \in [Reg -> Word] /\ pc \in Word
    /\ running \in BOOLEAN
    /\ data \in Memories
    /\ status \in {"ok", "exit", "killed"} \cup Errors

\* x0 stays zero in the array too, which get_register hides but a syscall
\* that read x[] directly would not.
ZeroRegister == x[0] = 0

\* A call that returns an error has changed nothing the program could see,
\* and the processor runs only until the first exit: from then on every call
\* says so and changes nothing.
CleanStops ==
    [][/\ status' \in Errors => UNCHANGED <<x, data, running>>
       /\ ~running => status' = "exit" /\ UNCHANGED <<x, pc, running, data>>]_cpuVars
=============================================================================
