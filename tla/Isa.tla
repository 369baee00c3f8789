-------------------------------- MODULE Isa --------------------------------
(***************************************************************************)
(* The machine a RISC-V program is written for: the pc is the address of   *)
(* the instruction being executed, targets, links and auipc are reckoned   *)
(* from it, the memory is an array of words, and an instruction that       *)
(* cannot be executed stops the machine at itself with nothing changed.    *)
(* What an ecall other than exit does is up to the system: it may change   *)
(* a0 and bytes of the buffer at a1, within the memory.                    *)
(***************************************************************************)
EXTENDS Alu, WordMemory

CONSTANTS Reg, Decode, StackTop

VARIABLES
    mode,       \* "off", "run", "exit" or "fault"
    regs, at,   \* the registers and the address of the current instruction
    mem         \* the words

Init == mode = "off"

\* A program is placed and started at an address of its choice.
Boot ==
    /\ mode = "off" /\ mode' = "run"
    /\ regs' = [r \in Reg |-> IF r = 2 THEN StackTop ELSE 0]

Code == Decode[Digits(mem, 4, at)]
Running(kind) == mode = "run" /\ Meaningful(4, at) /\ Code.kind = kind
A == regs[Code.rs1]
B == regs[Code.rs2]

Sets(v) == regs' = [r \in Reg |-> IF r = Code.rd /\ r # 0 THEN v ELSE regs[r]]
Goes(target) == at' = Wrap(target) /\ mode' = "run"

Compute ==
    /\ \/ Running("alu") /\ Sets(Alu(Code.op, Code.alt, FALSE, A, B))
       \/ Running("aluimm") /\ Sets(Alu(Code.op, Code.alt, TRUE, A, Code.imm))
       \/ Running("muldiv") /\ Sets(MulDiv(Code.op, A, B))
       \/ Running("lui") /\ Sets(Code.imm)
       \/ Running("auipc") /\ Sets(Wrap(at + Code.imm))
    /\ Goes(at + 4)
    /\ UNCHANGED mem

\* The size of an access and the address of a load or store.
Size == [lb |-> 1, lbu |-> 1, sb |-> 1, lh |-> 2, lhu |-> 2, sh |-> 2, lw |-> 4, sw |-> 4]
Place == Wrap(A + Code.imm)
Accessible == Code.op \in DOMAIN Size /\ Meaningful(Size[Code.op], Place)

\* lb and lh read two's complement numbers.
Reads(v) ==
    IF Code.op \in {"lb", "lh"} /\ 2 * v >= Base ^ Size[Code.op]
    THEN Wrap(v - Base ^ Size[Code.op]) ELSE v

Load ==
    /\ Running("load") /\ Accessible
    /\ Sets(Reads(Digits(mem, Size[Code.op], Place)))
    /\ Goes(at + 4)
    /\ UNCHANGED mem

Store ==
    /\ Running("store") /\ Accessible
    /\ mem' = WithDigits(mem, Size[Code.op], Place, B)
    /\ Goes(at + 4)
    /\ UNCHANGED regs

Holds ==
    [beq |-> A = B, bne |-> A # B, bltu |-> A < B, bgeu |-> A >= B,
     blt |-> Signed(A) < Signed(B), bge |-> Signed(A) >= Signed(B)]

Branch ==
    /\ Running("branch") /\ Code.op \in DOMAIN Holds
    /\ Goes(IF Holds[Code.op] THEN at + Code.imm ELSE at + 4)
    /\ UNCHANGED <<regs, mem>>

Jump ==
    /\ \/ Running("jal") /\ Goes(at + Code.imm)
       \/ Running("jalr") /\ Goes(2 * (Wrap(A + Code.imm) \div 2))
    /\ Sets(Wrap(at + 4))
    /\ UNCHANGED mem

Break == Running("system") /\ Code.op = "ebreak" /\ Goes(at + 4) /\ UNCHANGED <<regs, mem>>

Exit ==
    /\ Running("system") /\ Code.op = "ecall" /\ regs[17] = 93
    /\ mode' = "exit"
    /\ UNCHANGED <<regs, at, mem>>

SystemCall ==
    /\ Running("system") /\ Code.op = "ecall" /\ regs[17] # 93
    /\ Goes(at + 4)
    /\ \E answer \in Word : regs' = [regs EXCEPT ![10] = answer]
    /\ \A b \in 0 .. MemSize - 1 :
          Digits(mem', 1, b) # Digits(mem, 1, b) =>
              \/ regs[17] = 63 /\ b \in regs[11] .. regs[11] + regs[12] - 1
              \/ regs[17] = 80 /\ b >= regs[11]

\* Nothing above can be done with the instruction.
Fault ==
    /\ mode = "run" /\ mode' = "fault"
    /\ \/ ~Meaningful(4, at)
       \/ Running("none")
       \/ \E kind \in {"load", "store"} : Running(kind) /\ ~Accessible
       \/ Running("branch") /\ Code.op \notin DOMAIN Holds
       \/ Running("system") /\ Code.op \notin {"ecall", "ebreak"}
    /\ UNCHANGED <<regs, at, mem>>

Next ==
    \/ Boot \/ Compute \/ Load \/ Store \/ Branch \/ Jump
    \/ Break \/ Exit \/ SystemCall \/ Fault

Spec == Init /\ [][Next]_<<mode, regs, at, mem>>
=============================================================================
