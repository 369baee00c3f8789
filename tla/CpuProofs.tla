----------------------------- MODULE CpuProofs -----------------------------
(***************************************************************************)
(* What holds of the processor, and of the emulator's loop around it, for  *)
(* every width, memory, decoder, program file, step limit and host.        *)
(***************************************************************************)
EXTENDS Emulator, WordProofs

\* The register file stays one, with a zero in its first place.
RegisterFile == DOMAIN x = Reg /\ ZeroRegister

\* reg_write leaves x[0] alone and adds no register.
LEMMA RegWriteKeeps ==
    ASSUME RegisterFile, NEW r, NEW v
    PROVE  DOMAIN RegWrite(r, v) = Reg /\ RegWrite(r, v)[0] = 0
  BY RegAssumption DEF RegisterFile, ZeroRegister, RegWrite

\* Whatever a successful instruction makes of the register file is one.
LEMMA SucceedsKeeps ==
    ASSUME RegisterFile, NEW registers, NEW bytes, NEW target,
           DOMAIN registers = Reg, registers[0] = 0,
           Succeeds(registers, bytes, target)
    PROVE  RegisterFile'
  BY DEF RegisterFile, ZeroRegister, Succeeds

\* So does what leaves the registers as they are.
LEMMA UnchangedKeeps ==
    ASSUME RegisterFile, UNCHANGED x
    PROVE  RegisterFile'
  BY DEF RegisterFile, ZeroRegister

\* handle_syscall writes x[] directly, but only its element 10.
LEMMA AnswersKeeps ==
    ASSUME RegisterFile, NEW bytes, NEW answer, Answers(bytes, answer)
    PROVE  RegisterFile'
<1> DEFINE registers == [x EXCEPT ![10] = Wrap(answer)]
<1>1. Succeeds(registers, bytes, Fetched)
  BY DEF Answers
<1>2. DOMAIN registers = Reg /\ registers[0] = 0
  BY RegAssumption DEF RegisterFile, ZeroRegister
<1> HIDE DEF registers
<1> QED
  BY <1>1, <1>2, SucceedsKeeps

\* Hence every call keeps the register file.
LEMMA SyscallKeeps ==
    ASSUME RegisterFile, Syscall
    PROVE  RegisterFile'
<1>1. CASE Exit
  BY <1>1, UnchangedKeeps DEF Exit
<1>2. CASE Write
  BY <1>2, AnswersKeeps DEF Write
<1>3. CASE Read
  BY <1>3, AnswersKeeps DEF Read
<1>4. CASE OpenAt
  BY <1>4, AnswersKeeps DEF OpenAt
<1>5. CASE Close
  BY <1>5, AnswersKeeps DEF Close
<1>6. CASE Brk
  BY <1>6, AnswersKeeps DEF Brk
<1>7. CASE Fstat
  BY <1>7, AnswersKeeps DEF Fstat
<1>8. CASE UnknownCall
  BY <1>8, AnswersKeeps DEF UnknownCall
<1> QED
  BY <1>1, <1>2, <1>3, <1>4, <1>5, <1>6, <1>7, <1>8 DEF Syscall

\* An instruction that writes its destination through reg_write.
LEMMA WritesKeeps ==
    ASSUME RegisterFile, NEW v, NEW bytes, NEW target,
           Succeeds(RegWrite(I.rd, v), bytes, target)
    PROVE  RegisterFile'
<1> DEFINE registers == RegWrite(I.rd, v)
<1>1. DOMAIN registers = Reg /\ registers[0] = 0
  BY RegWriteKeeps
<1>2. Succeeds(registers, bytes, target)
  OBVIOUS
<1> HIDE DEF registers
<1> QED
  BY <1>1, <1>2, SucceedsKeeps

\* Hence every instruction does.
LEMMA StepKeeps ==
    ASSUME RegisterFile, [Step]_cpuVars
    PROVE  RegisterFile'
<1>1. CASE Stopped \/ FetchFails \/ Trap \/ UNCHANGED cpuVars
  BY <1>1, UnchangedKeeps DEF Stopped, FetchFails, Trap, cpuVars
<1>2. CASE Undecodable \/ Illegal \/ AccessFails
  BY <1>2, UnchangedKeeps DEF Undecodable, Illegal, AccessFails, FailsWith
<1>3. CASE AluRegister
  BY <1>3, WritesKeeps DEF AluRegister
<1>4. CASE AluImmediate
  BY <1>4, WritesKeeps DEF AluImmediate
<1>5. CASE Multiply
  BY <1>5, WritesKeeps DEF Multiply
<1>6. CASE Load
  BY <1>6, WritesKeeps DEF Load
<1>7. CASE Store \/ Branch \/ Ebreak
  BY <1>7, UnchangedKeeps DEF Store, Branch, Ebreak, Succeeds
<1>8. CASE Jal
  BY <1>8, WritesKeeps DEF Jal
<1>9. CASE Jalr
  BY <1>9, WritesKeeps DEF Jalr
<1>10. CASE Lui \/ Auipc
  BY <1>10, WritesKeeps DEF Lui, Auipc
<1>11. CASE Syscall
  BY <1>11, SyscallKeeps
<1> QED
  BY <1>1, <1>2, <1>3, <1>4, <1>5, <1>6, <1>7, <1>8, <1>9, <1>10, <1>11 DEF Step

\* No instruction and no system call ever puts anything into x0
\* (reg_write's test, and handle_syscall's writes that go round it).
THEOREM ZeroRegisterAlways == Spec => []ZeroRegister
<1>1. Init => RegisterFile
  BY RegAssumption DEF Init, InitialRegisters, RegisterFile, ZeroRegister
<1>2. RegisterFile /\ [Step]_cpuVars => RegisterFile'
  BY StepKeeps
<1>3. RegisterFile => ZeroRegister
  BY DEF RegisterFile
<1> QED
  BY <1>1, <1>2, <1>3, PTL DEF Spec

----------------------------------------------------------------------------
(* CPU::step's failures and its end.                                       *)

\* One call, judged by what it returns.
Clean ==
    /\ status' \in Errors => UNCHANGED <<x, data, running>>
    /\ ~running => status' = "exit" /\ UNCHANGED <<x, pc, running, data>>

\* A successful call of step is no failure, and follows no exit.
LEMMA SucceedsClean ==
    ASSUME running, NEW registers, NEW bytes, NEW target,
           Succeeds(registers, bytes, target)
    PROVE  Clean
  BY DEF Succeeds, Clean, Errors

\* Every system call is clean.
LEMMA SyscallClean ==
    ASSUME Syscall
    PROVE  Clean
<1>1. CASE Exit
  BY <1>1 DEF Exit, Calls, Fetches, Clean, Errors
<1>2. CASE Write
  BY <1>2, SucceedsClean DEF Write, Calls, Fetches, Answers
<1>3. CASE Read
  BY <1>3, SucceedsClean DEF Read, Calls, Fetches, Answers
<1>4. CASE OpenAt \/ Close \/ Brk \/ UnknownCall
  BY <1>4, SucceedsClean DEF OpenAt, Close, Brk, UnknownCall, Calls, Fetches, Answers
<1>5. CASE Fstat
  BY <1>5, SucceedsClean DEF Fstat, Calls, Fetches, Answers
<1> QED
  BY <1>1, <1>2, <1>3, <1>4, <1>5 DEF Syscall

\* Every outcome of step is.
LEMMA StepClean ==
    ASSUME Step
    PROVE  Clean
<1>1. CASE Stopped
  BY <1>1 DEF Stopped, Clean, Errors
<1>2. CASE FetchFails \/ Trap
  BY <1>2 DEF FetchFails, Trap, Fetches, Clean, Errors
<1>3. CASE Undecodable \/ Illegal \/ AccessFails
  BY <1>3 DEF Undecodable, Illegal, AccessFails, Fetches, FailsWith, Clean
<1>4. CASE AluRegister \/ AluImmediate \/ Multiply
  BY <1>4, SucceedsClean DEF AluRegister, AluImmediate, Multiply, Fetches
<1>5. CASE Load \/ Store
  BY <1>5, SucceedsClean DEF Load, Store, Fetches
<1>6. CASE Branch \/ Jal \/ Jalr \/ Lui \/ Auipc \/ Ebreak
  BY <1>6, SucceedsClean DEF Branch, Jal, Jalr, Lui, Auipc, Ebreak, Fetches
<1>7. CASE Syscall
  BY <1>7, SyscallClean
<1> QED
  BY <1>1, <1>2, <1>3, <1>4, <1>5, <1>6, <1>7 DEF Step

\* A call of CPU::step that fails has changed nothing but the pc, and none
\* after the exit changes anything.
THEOREM CleanStopsAlways == Spec => CleanStops
<1>1. [Step]_cpuVars => [Clean]_cpuVars
  BY StepClean
<1> QED
  BY <1>1, PTL DEF Spec, CleanStops, Clean

----------------------------------------------------------------------------
(* Types.                                                                  *)

\* A fetch that is let through finds an instruction.
LEMMA Decoded ==
    ASSUME MemSize >= 4, TypeOK, Fetchable
    PROVE  I \in Instructions /\ I.op \in Ops(I.kind)
<1>1. pc \in Nat /\ pc \in Int /\ 4 \in Widths /\ data \in Memories
  BY DEF TypeOK, Word, Widths
<1>2. Touched(4, pc) \subseteq 0 .. MemSize - 1
  BY <1>1, CheckSuffices DEF Fetchable
<1>3. \A i \in 0 .. 4 - 1 : data[pc + i] \in Byte
  <2>1. \A i \in 0 .. 4 - 1 : pc + i \in Touched(4, pc)
    BY <1>1 DEF Touched
  <2> QED BY <1>1, <1>2, <2>1 DEF Memories
<1>4. Loaded(data, 4, pc) \in Word
  BY <1>1, <1>3, LoadedInRange
<1> QED BY <1>4, DecodeAssumption DEF I

\* Registers hold words.
LEMMA RegReadInWord ==
    ASSUME TypeOK, NEW r \in Reg
    PROVE  RegRead(r) \in Word
BY ModulusEven DEF TypeOK, RegRead, Word

\* What is written to them is one.
LEMMA RegWriteInWords ==
    ASSUME TypeOK, NEW r, NEW v \in Word
    PROVE  RegWrite(r, v) \in [Reg -> Word]
BY DEF TypeOK, RegWrite

\* So is the address of the next instruction.
LEMMA TargetsInWord ==
    ASSUME TypeOK
    PROVE  Fetched \in Word /\ \A imm \in Word : Relative(imm) \in Word
<1>1. pc \in Int /\ \A w \in Word : w \in Int
  BY DEF TypeOK, Word
<1>2. Fetched \in Word
  <2>1. pc + 4 \in Int
    BY <1>1
  <2> QED BY <2>1, WrapInWord DEF Fetched
<1>3. ASSUME NEW imm \in Word PROVE Relative(imm) \in Word
  <2>1. Fetched + imm - 4 \in Int
    BY <1>1, <1>2
  <2> QED BY <2>1, WrapInWord DEF Relative
<1> QED BY <1>2, <1>3

\* A successful instruction keeps the types.
LEMMA SucceedsTypes ==
    ASSUME TypeOK, NEW registers \in [Reg -> Word], NEW bytes \in Memories,
           NEW target \in Word, Succeeds(registers, bytes, target)
    PROVE  TypeOK'
BY DEF TypeOK, Succeeds

\* An instruction that writes its destination and goes on.
LEMMA WritesTypes ==
    ASSUME TypeOK, NEW r, NEW v \in Word, NEW target \in Word,
           Succeeds(RegWrite(r, v), data, target)
    PROVE  TypeOK'
<1>1. RegWrite(r, v) \in [Reg -> Word] /\ data \in Memories
  BY RegWriteInWords DEF TypeOK
<1> QED BY <1>1, SucceedsTypes

\* A call keeps the types, whatever the host answers.
LEMMA AnswersTypes ==
    ASSUME TypeOK, NEW bytes \in Memories, NEW answer \in Int, Answers(bytes, answer)
    PROVE  TypeOK'
<1> DEFINE registers == [x EXCEPT ![10] = Wrap(answer)]
<1>1. registers \in [Reg -> Word]
  BY WrapInWord DEF TypeOK
<1>2. Succeeds(registers, bytes, Fetched) /\ Fetched \in Word
  BY TargetsInWord DEF Answers
<1> HIDE DEF registers
<1> QED BY <1>1, <1>2, SucceedsTypes

\* The bytes a call fills in leave the memory one.
LEMMA FilledTypes ==
    ASSUME TypeOK, NEW buf, NEW bytes, \A k \in DOMAIN bytes : bytes[k] \in Byte
    PROVE  Filled(buf, bytes) \in Memories
BY DEF TypeOK, Filled, Memories

\* Every call keeps the types.
LEMMA SyscallTypes ==
    ASSUME TypeOK, Syscall
    PROVE  TypeOK'
<1>1. data \in Memories
  BY DEF TypeOK
<1>2. CASE Exit
  BY <1>2, TargetsInWord DEF TypeOK, Exit
<1>3. CASE Write
  <2>1. PICK written \in -1 .. HostMax : Answers(data, written)
    BY <1>3 DEF Write
  <2>2. written \in Int
    BY HostAssumption
  <2> QED BY <1>1, <2>1, <2>2, AnswersTypes
<1>4. CASE Read
  <2>1. CASE Answers(data, -1)
    BY <1>1, <2>1, AnswersTypes
  <2>2. ASSUME NEW count \in 0 .. HostMax, NEW bytes \in [1 .. count -> HostBytes],
               Answers(Filled(x[11], bytes), count)
        PROVE  TypeOK'
    <3>1. Filled(x[11], bytes) \in Memories /\ count \in Int
      BY FilledTypes, HostAssumption
    <3> QED BY <2>2, <3>1, AnswersTypes
  <2> QED BY <1>4, <2>1, <2>2 DEF Read
<1>5. CASE OpenAt
  BY <1>1, <1>5, AnswersTypes DEF OpenAt
<1>6. CASE Close
  BY <1>1, <1>6, AnswersTypes DEF Close
<1>7. CASE Brk
  BY <1>1, <1>7, AnswersTypes DEF Brk
<1>8. CASE Fstat
  <2>1. CASE Answers(data, -1) \/ Answers(data, 0)
    BY <1>1, <2>1, AnswersTypes
  <2>2. ASSUME NEW b \in HostBytes, Answers(Filled(x[11], [k \in 1 .. StatCopied |-> b]), 0)
        PROVE  TypeOK'
    <3>1. Filled(x[11], [k \in 1 .. StatCopied |-> b]) \in Memories
      BY FilledTypes, HostAssumption
    <3> QED BY <2>2, <3>1, AnswersTypes
  <2> QED BY <1>8, <2>1, <2>2 DEF Fstat
<1>9. CASE UnknownCall
  BY <1>1, <1>9, AnswersTypes DEF UnknownCall
<1> QED
  BY <1>2, <1>3, <1>4, <1>5, <1>6, <1>7, <1>8, <1>9 DEF Syscall

\* A load that is let through delivers a word, extended or not.
LEMMA LoadInWord ==
    ASSUME MemSize >= 4, TypeOK, Fetches("load"), I.op # "illegal", ~Refused
    PROVE  Extended(I.op, Loaded(data, Width(I.op), Address)) \in Word
<1> DEFINE n == Width(I.op)
           v == Loaded(data, n, Address)
<1>1. I.kind = "load" /\ I.op \in {"lb", "lh", "lw", "lbu", "lhu"}
      /\ I.rs1 \in Reg /\ I.imm \in Word
  BY Decoded DEF Fetches, Ops, Instructions
<1>2. n \in Widths /\ (I.op = "lb" => n = 1) /\ (I.op = "lh" => n = 2)
  BY <1>1 DEF Width, Widths
<1>3. Address \in Word
  <2>1. RegRead(I.rs1) + I.imm \in Int
    BY <1>1, RegReadInWord DEF Word
  <2> QED BY <2>1, WrapInWord DEF Address
<1>4. Touched(n, Address) \subseteq 0 .. MemSize - 1
  <2>1. Address \in Nat /\ Check(n, Address) = "ok"
    BY <1>3 DEF Refused, Word
  <2> QED BY <1>2, <2>1, CheckSuffices
<1>5. v \in Word
  <2>1. Address \in Int
    BY <1>3 DEF Word
  <2>2. \A i \in 0 .. n - 1 : data[Address + i] \in Byte
    <3>1. \A i \in 0 .. n - 1 : Address + i \in Touched(n, Address)
      BY <1>2, <2>1 DEF Touched, Widths
    <3> QED BY <1>4, <3>1 DEF TypeOK, Memories
  <2> QED BY <1>2, <2>1, <2>2, LoadedInRange
<1>6. n \in {1, 2, 4} /\ n * ByteBits \in 1 .. Bits
  BY <1>2, RadixPowers DEF Widths
<1>7. SignExtend(v, n * ByteBits) \in Word
  <2> HIDE DEF n, v
  <2> QED BY <1>5, <1>6, SignExtendInWord
<1> QED BY <1>5, <1>7 DEF Extended

\* Every instruction keeps the types.
LEMMA StepTypes ==
    ASSUME MemSize >= 4, TypeOK, [Step]_cpuVars
    PROVE  TypeOK'
<1>1. data \in Memories /\ x \in [Reg -> Word] /\ Fetched \in Word
  BY TargetsInWord DEF TypeOK
<1>2. ASSUME NEW kind, Fetches(kind)
      PROVE  /\ I \in Instructions /\ I.op \in Ops(kind) /\ I.imm \in Word
             /\ RegRead(I.rs1) \in Word /\ RegRead(I.rs2) \in Word
  <2>1. I \in Instructions /\ I.op \in Ops(kind)
    BY <1>2, Decoded DEF Fetches
  <2> QED BY <2>1, RegReadInWord DEF Instructions
<1>3. \A w \in Word : w \in Int
  BY DEF Word
<1>4. CASE UNCHANGED cpuVars
  BY <1>4 DEF cpuVars, TypeOK
<1>5. CASE Stopped \/ FetchFails \/ Trap
  BY <1>5 DEF Stopped, FetchFails, Trap, TypeOK, Errors
<1>6. CASE Undecodable \/ Illegal \/ AccessFails
  BY <1>1, <1>6 DEF Undecodable, Illegal, AccessFails, FailsWith, TypeOK, Errors
<1>7. CASE AluRegister
  <2>1. Alu(I.op, I.alt, FALSE, RegRead(I.rs1), RegRead(I.rs2)) \in Word
    <3>1. I.op \in AluOp /\ I.alt \in BOOLEAN
          /\ RegRead(I.rs1) \in Word /\ RegRead(I.rs2) \in Word
      BY <1>2, <1>7 DEF AluRegister, Ops, Instructions
    <3> QED BY <3>1, AluInWord
  <2> QED BY <1>1, <1>7, <2>1, WritesTypes DEF AluRegister
<1>8. CASE AluImmediate
  <2>1. Alu(I.op, I.alt, TRUE, RegRead(I.rs1), I.imm) \in Word
    <3>1. I.op \in AluOp /\ I.alt \in BOOLEAN /\ RegRead(I.rs1) \in Word /\ I.imm \in Word
      BY <1>2, <1>8 DEF AluImmediate, Ops, Instructions
    <3> QED BY <3>1, AluInWord
  <2> QED BY <1>1, <1>8, <2>1, WritesTypes DEF AluImmediate
<1>9. CASE Multiply
  <2>1. MulDiv(I.op, RegRead(I.rs1), RegRead(I.rs2)) \in Word
    <3>1. I.op \in MulOp /\ RegRead(I.rs1) \in Word /\ RegRead(I.rs2) \in Word
      BY <1>2, <1>9 DEF Multiply, Ops
    <3> QED BY <3>1, MulDivInWord
  <2> QED BY <1>1, <1>9, <2>1, WritesTypes DEF Multiply
<1>10. CASE Load
  <2>1. Extended(I.op, Loaded(data, Width(I.op), Address)) \in Word
    BY <1>10, LoadInWord DEF Load
  <2> QED BY <1>1, <1>10, <2>1, WritesTypes DEF Load
<1>11. CASE Store
  <2>1. I.op \in {"sb", "sh", "sw"} /\ I.rs1 \in Reg /\ I.imm \in Word
        /\ RegRead(I.rs1) \in Word /\ RegRead(I.rs2) \in Word
    BY <1>2, <1>11 DEF Store, Ops, Instructions
  <2>2. Width(I.op) \in Widths
    BY <2>1 DEF Width, Widths
  <2>3. Address \in Int /\ RegRead(I.rs2) \in Int
    <3>1. RegRead(I.rs1) + I.imm \in Int
      BY <1>3, <2>1
    <3> QED BY <1>3, <2>1, <3>1, WrapInWord DEF Address
  <2>4. Stored(data, Width(I.op), Address, RegRead(I.rs2)) \in Memories
    BY <1>1, <2>2, <2>3, StoredInRange
  <2> QED BY <1>1, <1>11, <2>4, SucceedsTypes DEF Store
<1>12. CASE Branch
  <2>1. Relative(I.imm) \in Word
    BY <1>2, <1>12, TargetsInWord DEF Branch
  <2>2. (IF Taken(I.op, RegRead(I.rs1), RegRead(I.rs2)) THEN Relative(I.imm) ELSE Fetched) \in Word
    BY <1>1, <2>1
  <2> QED BY <1>1, <1>12, <2>2, SucceedsTypes DEF Branch
<1>13. CASE Jal
  <2>1. Relative(I.imm) \in Word
    BY <1>2, <1>13, TargetsInWord DEF Jal
  <2> QED BY <1>1, <1>13, <2>1, WritesTypes DEF Jal
<1>14. CASE Jalr
  <2> DEFINE t == Wrap(RegRead(I.rs1) + I.imm)
  <2>1. t \in Word
    <3>1. RegRead(I.rs1) + I.imm \in Int
      BY <1>2, <1>3, <1>14 DEF Jalr
    <3> QED BY <3>1, WrapInWord
  <2>2. t - (t % 2) \in Word
    <3> HIDE DEF t
    <3> QED BY <2>1, ModulusEven DEF Word
  <2>3. Jump \in Word
    BY <2>2 DEF Jump
  <2> QED BY <1>1, <1>14, <2>3, WritesTypes DEF Jalr
<1>15. CASE Lui
  BY <1>1, <1>2, <1>15, WritesTypes DEF Lui
<1>16. CASE Auipc
  <2>1. Relative(I.imm) \in Word
    BY <1>2, <1>16, TargetsInWord DEF Auipc
  <2> QED BY <1>1, <1>16, <2>1, WritesTypes DEF Auipc
<1>17. CASE Ebreak
  BY <1>1, <1>17, SucceedsTypes DEF Ebreak
<1>18. CASE Syscall
  BY <1>18, SyscallTypes
<1> QED
  BY <1>4, <1>5, <1>6, <1>7, <1>8, <1>9, <1>10, <1>11, <1>12, <1>13, <1>14, <1>15,
     <1>16, <1>17, <1>18 DEF Step

\* reset sets words.
LEMMA InitialRegistersInWords == InitialRegisters \in [Reg -> Word]
BY StartAssumption, ModulusEven DEF InitialRegisters, Word

\* Registers, program counter and memory keep their widths, whatever is
\* executed and whatever the host answers.
THEOREM TypeOKAlways ==
    ASSUME MemSize >= 4
    PROVE  Spec => []TypeOK
<1>1. Init => TypeOK
  BY StartAssumption, InitialRegistersInWords DEF Init, TypeOK
<1>2. TypeOK /\ [Step]_cpuVars => TypeOK'
  BY StepTypes
<1> QED
  BY <1>1, <1>2, PTL DEF Spec

----------------------------------------------------------------------------
(* The emulator's loop.                                                    *)

\* What a call's status says about the processor.
Reported ==
    /\ status' \in {"ok", "exit", "killed"} \cup Errors
    /\ status' = "exit" => ~running'
    /\ status' # "exit" => running'

\* A successful call of step goes on.
LEMMA SucceedsReported ==
    ASSUME running, NEW registers, NEW bytes, NEW target, Succeeds(registers, bytes, target)
    PROVE  Reported
BY DEF Succeeds, Reported, Errors

\* The processor stops exactly when step reports an exit.
LEMMA StepReported ==
    ASSUME Step, running
    PROVE  Reported
<1>1. CASE Stopped \/ FetchFails \/ Trap
  BY <1>1 DEF Stopped, FetchFails, Trap, Reported, Errors
<1>2. CASE Undecodable \/ Illegal \/ AccessFails
  BY <1>2 DEF Undecodable, Illegal, AccessFails, FailsWith, Reported, Errors
<1>3. CASE AluRegister \/ AluImmediate \/ Multiply
  BY <1>3, SucceedsReported DEF AluRegister, AluImmediate, Multiply
<1>4. CASE Load \/ Store
  BY <1>4, SucceedsReported DEF Load, Store
<1>5. CASE Branch \/ Jal \/ Jalr \/ Lui \/ Auipc \/ Ebreak
  BY <1>5, SucceedsReported DEF Branch, Jal, Jalr, Lui, Auipc, Ebreak
<1>6. CASE Exit
  BY <1>6 DEF Exit, Reported, Errors
<1>7. CASE Write \/ Read \/ OpenAt \/ Close \/ Brk \/ Fstat \/ UnknownCall
  <2>1. PICK bytes, answer : Answers(bytes, answer)
    BY <1>7 DEF Write, Read, OpenAt, Close, Brk, Fstat, UnknownCall
  <2> QED BY <2>1, SucceedsReported DEF Answers
<1> QED BY <1>1, <1>2, <1>3, <1>4, <1>5, <1>6, <1>7 DEF Step, Syscall

\* The inductive invariant: where main() is in its loop, what the processor
\* last said and what main() will return go together.
Judged ==
    /\ phase \in {"load", "loop"} => status = "ok" /\ running /\ exit_code = 0
    /\ phase = "load" => x = InitialRegisters
    /\ phase \in {"left", "done"} =>
        /\ status # "killed"
        /\ (~running) <=> (status = "exit")
        /\ exit_code = IF running THEN 0 ELSE x[10]
    /\ phase = "left" => status # "ok"
    /\ phase = "done" =>
        /\ status = "ok" => step_count = MaxSteps
        /\ limit_reported <=> step_count = MaxSteps

\* The command line stays what it was.
Commanded == program \in Files /\ load_address \in LoadAddresses

RunInv == RunTypeOK /\ RegisterFile /\ Judged /\ Commanded

\* RunInv holds initially.
LEMMA RunInvInit ==
    ASSUME Start
    PROVE  RunInv
<1>1. 0 \in Word /\ 0 \in Byte
  BY ModulusEven, RadixPowers DEF Word
<1>2. TypeOK
  BY <1>1, InitialRegistersInWords DEF Start, TypeOK, Memories
<1>3. RunTypeOK
  <2>1. step_count \in 0 .. MaxSteps
    BY MaxStepsAssumption DEF Start
  <2> QED BY <1>1, <1>2, <2>1 DEF Start, RunTypeOK
<1>4. RegisterFile
  BY RegAssumption DEF Start, RegisterFile, ZeroRegister, InitialRegisters
<1>5. Judged
  BY DEF Start, Judged
<1>6. Commanded
  BY DEF Start, Commanded
<1> QED BY <1>3, <1>4, <1>5, <1>6 DEF RunInv

\* A round of the loop keeps it.
LEMMA RoundStep ==
    ASSUME MemSize >= 4, RunInv, Round
    PROVE  RunInv'
<1>1. Step /\ running /\ phase = "loop" /\ TypeOK /\ RegisterFile /\ exit_code = 0
  BY DEF Round, LoopCondition, RunInv, RunTypeOK, Judged
<1>2. TypeOK' /\ RegisterFile' /\ Reported
  BY <1>1, StepTypes, StepKeeps, StepReported
<1>3. /\ phase' = After(status') /\ step_count' = step_count + 1
      /\ limit_reported' = limit_reported
      /\ exit_code' = IF status' = "exit" THEN x'[10] ELSE 0
  BY <1>1 DEF Round, ExitCode, RegRead, Counted
<1>4. phase' \in {"loop", "left", "killed"}
      /\ (phase' = "loop" <=> status' = "ok") /\ (phase' = "killed" <=> status' = "killed")
  BY <1>2, <1>3 DEF Reported, Errors, After
<1>5. RunTypeOK'
  <2>1. step_count' \in 0 .. MaxSteps
    BY <1>3, MaxStepsAssumption DEF Round, LoopCondition, RunInv, RunTypeOK
  <2>2. exit_code' \in Word
    BY <1>2, <1>3, ModulusEven, RegAssumption DEF TypeOK, Word
  <2> QED BY <1>2, <1>3, <1>4, <2>1, <2>2 DEF RunTypeOK, RunInv
<1>6. Judged'
  BY <1>2, <1>3, <1>4 DEF Judged, Reported
<1>7. Commanded'
  BY DEF Round, RunInv, Commanded
<1> QED BY <1>2, <1>5, <1>6, <1>7 DEF RunInv

\* Loading a program keeps it.
LEMMA LoadStep ==
    ASSUME RunInv, Load_program
    PROVE  RunInv'
<1>1. TypeOK'
  <2>1. Placed \in Memories
    <3>1. program \in Seq(Byte)
      BY FilesAssumption DEF RunInv, Commanded
    <3> QED BY <3>1 DEF Placed, RunInv, RunTypeOK, TypeOK, Memories
  <2> QED BY <2>1, LoadAssumption DEF Load_program, RunInv, Commanded, RunTypeOK, TypeOK
<1> QED
  BY <1>1 DEF Load_program, Commanded, RunInv, RunTypeOK, Judged, RegisterFile, ZeroRegister

\* Every step keeps it.
LEMMA RunInvStep ==
    ASSUME MemSize >= 4, RunInv, [Run]_vars
    PROVE  RunInv'
<1>1. CASE Load_program
  BY <1>1, LoadStep
<1>2. CASE Load_fails
  BY <1>2, ModulusEven DEF Load_fails, RunInv, RunTypeOK, TypeOK, Judged, RegisterFile,
     ZeroRegister, Commanded, cpuVars, Word
<1>3. CASE Round
  BY <1>3, RoundStep
<1>4. CASE Finish
  <2>1. x' = x /\ pc' = pc /\ running' = running /\ data' = data /\ status' = status
        /\ step_count' = step_count /\ exit_code' = exit_code /\ phase' = "done"
        /\ limit_reported' = (step_count >= MaxSteps)
    BY <1>4 DEF Finish, cpuVars
  <2>2. step_count \in 0 .. MaxSteps /\ MaxSteps \in Nat
    BY MaxStepsAssumption DEF RunInv, RunTypeOK
  <2>3. step_count >= MaxSteps <=> step_count = MaxSteps
    BY <2>2
  <2>4. phase = "left" \/ (phase = "loop" /\ ~(running /\ step_count < MaxSteps))
    BY <1>4 DEF Finish, LoopCondition
  <2>5. Judged'
    <3>1. CASE phase = "left"
      BY <2>1, <2>3, <3>1 DEF RunInv, Judged
    <3>2. CASE phase = "loop"
      <4>1. status = "ok" /\ running /\ exit_code = 0 /\ step_count = MaxSteps
        BY <2>2, <2>4, <3>2 DEF RunInv, Judged
      <4> QED BY <2>1, <2>3, <4>1 DEF Judged
    <3> QED BY <2>4, <3>1, <3>2
  <2>6. Commanded'
    BY <1>4 DEF Finish, RunInv, Commanded
  <2> QED BY <2>1, <2>5, <2>6 DEF RunInv, RunTypeOK, TypeOK, RegisterFile, ZeroRegister
<1>5. CASE UNCHANGED vars
  BY <1>5 DEF vars, cpuVars, mainVars, RunInv, RunTypeOK, TypeOK, Judged, RegisterFile,
     ZeroRegister, Commanded
<1> QED
  BY <1>1, <1>2, <1>3, <1>4, <1>5 DEF Run

\* It holds throughout.
LEMMA RunInvAlways ==
    ASSUME MemSize >= 4
    PROVE  RunSpec => []RunInv
<1>1. Start => RunInv
  BY RunInvInit
<1>2. RunInv /\ [Run]_vars => RunInv'
  BY RunInvStep
<1> QED
  BY <1>1, <1>2, PTL DEF RunSpec

\* The program's variables keep their types: the loop never counts past its
\* limit, and what main returns is a word.
THEOREM RunTypeOKAlways ==
    ASSUME MemSize >= 4
    PROVE  RunSpec => []RunTypeOK
<1>1. RunInv => RunTypeOK
  BY DEF RunInv
<1> QED
  BY <1>1, RunInvAlways, PTL

\* What the emulator returns and reports is how the program ended: its own
\* a0 after an exit, 0 otherwise, and an early end only with an exit or an
\* error.
THEOREM VerdictAlways ==
    ASSUME MemSize >= 4
    PROVE  RunSpec => []Verdict
<1>1. RunInv => Verdict
  BY DEF RunInv, Judged, Verdict
<1> QED
  BY <1>1, RunInvAlways, PTL

----------------------------------------------------------------------------
(* The architecture.                                                       *)

\* An operator is the same by whatever name it is reached.
LEMMA SameReadings ==
    /\ \A i : Architecture!Wrap(i) = Wrap(i)
    /\ \A v : Architecture!Signed(v) = Signed(v)
    /\ Architecture!Word = Word /\ Architecture!Base = Radix
BY DEF Architecture!Wrap, Wrap, Architecture!Modulus, Modulus, Architecture!Signed, Signed,
       Architecture!Word, Word, Architecture!Base, Radix, ByteBits

\* SumFunctionOnSet too, with the folds it is defined by.
LEMMA SameSums ==
    \A f : Architecture!SumFunction(f) = SumFunction(f)
BY DEF Architecture!SumFunction, SumFunction, Architecture!SumFunctionOnSet, SumFunctionOnSet,
       Architecture!FoldFunctionOnSet, FoldFunctionOnSet,
       Architecture!MapThenFoldSet, MapThenFoldSet

\* Hence and, or and exclusive or.
LEMMA SameBits ==
    \A a, b : /\ Architecture!And(a, b) = And(a, b)
              /\ Architecture!Or(a, b) = Or(a, b)
              /\ Architecture!Xor(a, b) = Xor(a, b)
BY SameSums DEF Architecture!And, And, Architecture!Or, Or, Architecture!Xor, Xor,
       Architecture!Digitwise, Digitwise, Architecture!Bit, Bit

\* execute_alu computes what the architecture says ...
LEMMA SameAlu ==
    ASSUME NEW op \in AluOp, NEW alt, NEW imm, NEW a, NEW b
    PROVE  Architecture!Alu(op, alt, imm, a, b) = Alu(op, alt, imm, a, b)
BY SameReadings, SameBits
   DEF Architecture!Alu, Alu, Architecture!Truth, Truth, Architecture!Shift, Shift, AluOp

\* ... and so does execute_mul_div.
LEMMA SameMulDiv ==
    ASSUME NEW op \in MulOp, NEW a, NEW b
    PROVE  Architecture!MulDiv(op, a, b) = MulDiv(op, a, b)
BY SameReadings
   DEF Architecture!MulDiv, MulDiv, Architecture!Upper, Upper, Architecture!Modulus, Modulus,
       Architecture!Quotient, Quotient, Architecture!Remainder, Remainder,
       Architecture!Abs, Abs, Architecture!Sign, Sign, MulOp

\* The words of the memory are those of WordProofs.
LEMMA SameContents ==
    /\ Contents = Laid!WordsOf(data) /\ Contents' = Laid!WordsOf(data')
    /\ \A m, n, a : Architecture!Digits(m, n, a) = Laid!Digits(m, n, a)
    /\ \A m, n, a, v : Architecture!WithDigits(m, n, a, v) = Laid!WithDigits(m, n, a, v)
BY DEF Contents, Layout!WordsOf, Layout!Base, Laid!WordsOf, Laid!Base, Architecture!Base,
       Architecture!Digits, Laid!Digits, Architecture!WithDigits, Laid!WithDigits

\* Wrapping on the way does not show.
LEMMA WrapInside ==
    ASSUME NEW i \in Int, NEW j \in Int
    PROVE  Wrap(Wrap(i) + j) = Wrap(i + j)
<1> DEFINE q == i \div Modulus
           r == i % Modulus
<1>1. q \in Int /\ r \in Int /\ i = Modulus * q + r /\ Modulus \in Nat
  BY ModulusEven, DivMod
<1>2. Wrap(i) = r
  BY DEF Wrap
<1> HIDE DEF q, r
<1>3. i + j = (r + j) + Modulus * q /\ r + j \in Int
  BY <1>1
<1>4. Wrap((r + j) + Modulus * q) = Wrap(r + j)
  BY <1>1, <1>3, WrapShifted
<1> QED BY <1>2, <1>3, <1>4

\* The pc reckoned from the instruction, not from the one after it.
LEMMA Reckoned ==
    ASSUME TypeOK
    PROVE  /\ Wrap(Fetched - 4) = pc /\ Wrap(pc) = pc /\ Fetched = Wrap(pc + 4)
           /\ \A imm \in Word : Relative(imm) = Wrap(pc + imm)
<1>1. pc \in Word /\ pc \in Int /\ \A imm \in Word : imm \in Int
  BY DEF TypeOK, Word
<1>2. Fetched = Wrap(pc + 4) /\ Fetched \in Int
  BY <1>1, TargetsInWord DEF Fetched
<1>3. Wrap(Fetched + (-4)) = Wrap((pc + 4) + (-4))
  <2>1. pc + 4 \in Int /\ -4 \in Int
    BY <1>1
  <2> QED BY <1>2, <2>1, WrapInside
<1>4. Fetched + (-4) = Fetched - 4 /\ (pc + 4) + (-4) = pc
  BY <1>1, <1>2
<1>5. Wrap(pc) = pc
  BY <1>1, WrapOfWord
<1>6. ASSUME NEW imm \in Word PROVE Relative(imm) = Wrap(pc + imm)
  <2>1. pc + 4 \in Int /\ imm - 4 \in Int
    BY <1>1
  <2>2. Wrap(Wrap(pc + 4) + (imm - 4)) = Wrap((pc + 4) + (imm - 4))
    BY <2>1, WrapInside
  <2>3. Fetched + (imm - 4) = Fetched + imm - 4 /\ (pc + 4) + (imm - 4) = pc + imm
    BY <1>1, <1>2
  <2> QED BY <1>2, <2>2, <2>3 DEF Relative
<1> QED BY <1>2, <1>3, <1>4, <1>5, <1>6

\* The state in which main's loop calls Emulator::step.
Looping ==
    /\ MemSize >= 4 /\ MemSize % 4 = 0
    /\ RunInv /\ RunInv' /\ Round

\* What a round of the loop starts from.
LEMMA LoopState ==
    ASSUME Looping
    PROVE  /\ TypeOK /\ TypeOK' /\ RegisterFile /\ Step /\ running /\ status = "ok"
           /\ Mode = "run" /\ At = pc
           /\ phase' \notin {"load", "refused"}
<1>1. TypeOK /\ TypeOK' /\ RegisterFile /\ Step /\ running /\ status = "ok" /\ phase = "loop"
  BY DEF Looping, RunInv, RunTypeOK, Judged, Round, LoopCondition
<1>2. phase' \notin {"load", "refused"}
  BY DEF Looping, Round, After
<1>3. Mode = "run" /\ At = pc
  BY <1>1 DEF Mode, At, Errors
<1> QED BY <1>1, <1>2, <1>3

\* An aligned access that passes the checks means something to the architecture.
LEMMA MeaningfulAccess ==
    ASSUME Looping, NEW n \in Widths, NEW a \in Word
    PROVE  /\ Check(n, a) = "ok" <=> Architecture!Meaningful(n, a)
           /\ Check(n, a) = "ok" => /\ Architecture!Digits(Contents, n, a) = Loaded(data, n, a)
                                    /\ a % n = 0 /\ a + n <= MemSize
<1>1. a \in Nat /\ MemSize >= 4 /\ MemSize % 4 = 0
  BY DEF Word, Looping
<1>2. Check(n, a) = "ok" <=> Architecture!Meaningful(n, a)
  BY <1>1, ChecksAreBounds DEF Architecture!Meaningful
<1>3. ASSUME Check(n, a) = "ok"
      PROVE  /\ Architecture!Digits(Contents, n, a) = Loaded(data, n, a)
             /\ a % n = 0 /\ a + n <= MemSize
  <2>1. a % n = 0 /\ a + n <= MemSize
    BY <1>1, <1>3, ChecksAreBounds
  <2>2. data \in Memories
    BY LoopState DEF TypeOK
  <2>3. Laid!Digits(Laid!WordsOf(data), n, a) = Loaded(data, n, a)
    BY <1>1, <2>1, <2>2, DigitsOfBytes
  <2> QED BY <2>1, <2>3, SameContents
<1> QED BY <1>2, <1>3

\* What a fetched instruction is to the architecture.
LEMMA FetchedCode ==
    ASSUME Looping, NEW kind, Fetches(kind)
    PROVE  /\ Architecture!Running(kind) /\ Architecture!Code = I
           /\ I \in Instructions /\ I.op \in Ops(kind) /\ I.kind = kind
           /\ Architecture!A = RegRead(I.rs1) /\ RegRead(I.rs1) \in Word
           /\ Architecture!B = RegRead(I.rs2) /\ RegRead(I.rs2) \in Word
<1>1. TypeOK /\ RegisterFile /\ Mode = "run" /\ At = pc
  BY LoopState
<1>2. pc \in Word /\ 4 \in Widths /\ Check(4, pc) = "ok" /\ I.kind = kind /\ MemSize >= 4
  BY <1>1 DEF TypeOK, Widths, Fetches, Fetchable, Looping
<1>3. Architecture!Meaningful(4, pc) /\ Architecture!Digits(Contents, 4, pc) = Loaded(data, 4, pc)
  BY <1>2, MeaningfulAccess
<1>4. Architecture!Code = I
  BY <1>1, <1>3 DEF Architecture!Code, I
<1>5. I \in Instructions /\ I.op \in Ops(kind)
  BY <1>1, <1>2, Decoded DEF Fetches
<1>6. \A r \in Reg : x[r] = RegRead(r) /\ RegRead(r) \in Word
  BY <1>1, RegReadInWord DEF RegRead, RegisterFile, ZeroRegister
<1>7. I.rs1 \in Reg /\ I.rs2 \in Reg
  BY <1>5 DEF Instructions
<1> QED BY <1>1, <1>2, <1>3, <1>4, <1>5, <1>6, <1>7
        DEF Architecture!Running, Architecture!A, Architecture!B

\* reg_write is the architecture's write to a destination.
LEMMA WritesAre ==
    ASSUME Looping, NEW v
    PROVE  RegWrite(I.rd, v) = [r \in Reg |-> IF r = I.rd /\ r # 0 THEN v ELSE x[r]]
<1>1. x \in [Reg -> Word]
  BY LoopState DEF TypeOK
<1> QED BY <1>1 DEF RegWrite

\* A call that succeeds, seen by the architecture.
LEMMA SucceedsGoes ==
    ASSUME Looping, NEW registers, NEW bytes, NEW target, Succeeds(registers, bytes, target)
    PROVE  /\ x' = registers /\ At' = target /\ Mode' = "run"
           /\ data' = bytes /\ (bytes = data => Contents' = Contents)
<1>1. running' /\ status' = "ok" /\ x' = registers /\ pc' = target /\ data' = bytes
  BY LoopState DEF Succeeds
<1>2. At' = target /\ Mode' = "run"
  BY <1>1, LoopState DEF At, Mode, Errors
<1>3. bytes = data => Contents' = Contents
  BY <1>1 DEF Contents, Layout!WordsOf
<1> QED BY <1>1, <1>2, <1>3

\* A call that fails after the fetch.
LEMMA FailsFaults ==
    ASSUME Looping, NEW error \in {"decode", "illegal", "execution"}, FailsWith(error)
    PROVE  /\ Mode = "run" /\ Mode' = "fault"
           /\ x' = x /\ At' = At /\ Contents' = Contents
<1>1. /\ running' = running /\ status' = error /\ x' = x /\ pc' = Fetched /\ data' = data
      /\ running /\ Mode = "run" /\ At = pc
  BY LoopState DEF FailsWith
<1>2. Mode' = "fault"
  BY <1>1, LoopState DEF Mode, Errors
<1>3. At' = At
  <2>1. At' = Wrap(pc' - 4)
    BY <1>1 DEF At
  <2> QED BY <1>1, <2>1, LoopState, Reckoned
<1>4. Contents' = Contents
  BY <1>1 DEF Contents, Layout!WordsOf
<1> QED BY <1>1, <1>2, <1>3, <1>4

\* One instruction that computes a register.
LEMMA ComputeStep ==
    ASSUME Looping, NEW v, Succeeds(RegWrite(I.rd, v), data, Fetched), Architecture!Code = I
    PROVE  Architecture!Sets(v) /\ Architecture!Goes(pc + 4) /\ Contents' = Contents
<1>1. /\ x' = RegWrite(I.rd, v) /\ At' = Fetched /\ Mode' = "run" /\ Contents' = Contents
  BY SucceedsGoes
<1>2. Fetched = Wrap(pc + 4)
  BY LoopState, Reckoned
<1> QED BY <1>1, <1>2, WritesAre, SameReadings DEF Architecture!Sets, Architecture!Goes

\* Computations.
LEMMA ComputesStep ==
    ASSUME Looping, AluRegister \/ AluImmediate \/ Multiply \/ Lui \/ Auipc
    PROVE  Architecture!Compute
<1>1. TypeOK /\ At = pc
  BY LoopState
<1>2. CASE AluRegister
  <2>1. Fetches("alu")
    BY <1>2 DEF AluRegister
  <2>2. Architecture!Sets(Alu(I.op, I.alt, FALSE, RegRead(I.rs1), RegRead(I.rs2)))
        /\ Architecture!Goes(pc + 4) /\ Contents' = Contents
    BY <1>2, <2>1, ComputeStep, FetchedCode DEF AluRegister
  <2>3. /\ Architecture!Running("alu") /\ Architecture!Code = I
        /\ Architecture!A = RegRead(I.rs1) /\ Architecture!B = RegRead(I.rs2)
    BY <2>1, FetchedCode
  <2>4. I.op \in AluOp
    BY <2>1, FetchedCode DEF Ops
  <2> QED BY <1>1, <2>2, <2>3, <2>4, SameAlu DEF Architecture!Compute
<1>3. CASE AluImmediate
  <2>1. Fetches("aluimm")
    BY <1>3 DEF AluImmediate
  <2>2. Architecture!Sets(Alu(I.op, I.alt, TRUE, RegRead(I.rs1), I.imm))
        /\ Architecture!Goes(pc + 4) /\ Contents' = Contents
    BY <1>3, <2>1, ComputeStep, FetchedCode DEF AluImmediate
  <2>3. /\ Architecture!Running("aluimm") /\ Architecture!Code = I
        /\ Architecture!A = RegRead(I.rs1)
    BY <2>1, FetchedCode
  <2>4. I.op \in AluOp
    BY <2>1, FetchedCode DEF Ops
  <2> QED BY <1>1, <2>2, <2>3, <2>4, SameAlu DEF Architecture!Compute
<1>4. CASE Multiply
  <2>1. Fetches("muldiv")
    BY <1>4 DEF Multiply
  <2>2. Architecture!Sets(MulDiv(I.op, RegRead(I.rs1), RegRead(I.rs2)))
        /\ Architecture!Goes(pc + 4) /\ Contents' = Contents
    BY <1>4, <2>1, ComputeStep, FetchedCode DEF Multiply
  <2>3. /\ Architecture!Running("muldiv") /\ Architecture!Code = I
        /\ Architecture!A = RegRead(I.rs1) /\ Architecture!B = RegRead(I.rs2)
    BY <2>1, FetchedCode
  <2>4. I.op \in MulOp
    BY <2>1, FetchedCode DEF Ops
  <2> QED BY <1>1, <2>2, <2>3, <2>4, SameMulDiv DEF Architecture!Compute
<1>5. CASE Lui
  <2>1. Fetches("lui")
    BY <1>5 DEF Lui
  <2>2. Architecture!Sets(I.imm) /\ Architecture!Goes(pc + 4) /\ Contents' = Contents
    BY <1>5, <2>1, ComputeStep, FetchedCode DEF Lui
  <2>3. Architecture!Running("lui") /\ Architecture!Code = I
    BY <2>1, FetchedCode
  <2> QED BY <1>1, <2>2, <2>3 DEF Architecture!Compute
<1>6. CASE Auipc
  <2>1. Fetches("auipc")
    BY <1>6 DEF Auipc
  <2>2. Architecture!Running("auipc") /\ Architecture!Code = I /\ I.imm \in Word
    BY <2>1, FetchedCode DEF Instructions
  <2>3. Relative(I.imm) = Wrap(pc + I.imm)
    BY <1>1, <2>2, Reckoned
  <2>4. Architecture!Sets(Wrap(pc + I.imm)) /\ Architecture!Goes(pc + 4) /\ Contents' = Contents
    BY <1>6, <2>2, <2>3, ComputeStep DEF Auipc
  <2> QED BY <1>1, <2>2, <2>4, SameReadings DEF Architecture!Compute
<1> QED BY <1>2, <1>3, <1>4, <1>5, <1>6

\* Where loads and stores go.
LEMMA PlaceIs ==
    ASSUME Looping, NEW kind \in {"load", "store"}, Fetches(kind), I.op # "illegal"
    PROVE  /\ Architecture!Place = Address /\ Address \in Word
           /\ Width(I.op) \in Widths /\ Architecture!Size[I.op] = Width(I.op)
           /\ I.op \in DOMAIN Architecture!Size
           /\ Architecture!Accessible <=> ~Refused
           /\ ~Refused => /\ Architecture!Digits(Contents, Width(I.op), Address)
                                = Loaded(data, Width(I.op), Address)
                          /\ Address % Width(I.op) = 0 /\ Address + Width(I.op) <= MemSize
<1>1. /\ Architecture!Code = I /\ Architecture!A = RegRead(I.rs1) /\ RegRead(I.rs1) \in Word
      /\ I.op \in {"lb", "lbu", "sb", "lh", "lhu", "sh", "lw", "sw"} /\ I.imm \in Word
  BY FetchedCode DEF Ops, Instructions
<1>2. Architecture!Place = Address
  BY <1>1, SameReadings DEF Architecture!Place, Address
<1>3. Address \in Word
  <2>1. RegRead(I.rs1) + I.imm \in Int
    BY <1>1 DEF Word
  <2> QED BY <2>1, WrapInWord DEF Address
<1>4. Width(I.op) \in Widths /\ Architecture!Size[I.op] = Width(I.op)
      /\ I.op \in DOMAIN Architecture!Size
  BY <1>1 DEF Width, Widths, Architecture!Size
<1>5. Architecture!Accessible <=> Architecture!Meaningful(Width(I.op), Address)
  BY <1>1, <1>2, <1>4 DEF Architecture!Accessible
<1> QED BY <1>2, <1>3, <1>4, <1>5, MeaningfulAccess DEF Refused

\* sign_extend by comparison with half the range is two's complement.
LEMMA ReadsExtended ==
    ASSUME Looping, Fetches("load"), I.op # "illegal", NEW v \in Nat
    PROVE  Architecture!Reads(v) = Extended(I.op, v)
<1>1. Architecture!Code = I /\ I.op \in {"lb", "lh", "lw", "lbu", "lhu"}
  BY FetchedCode DEF Ops
<1>2. Architecture!Size[I.op] = Width(I.op)
  BY PlaceIs
<1>3. CASE I.op \notin {"lb", "lh"}
  BY <1>1, <1>3 DEF Architecture!Reads, Extended
<1>4. CASE I.op \in {"lb", "lh"}
  <2> DEFINE n == Width(I.op)
             k == n * ByteBits
  <2>1. n \in {1, 2} /\ ByteBits \in Nat \ {0} /\ Bits = 4 * ByteBits
    BY <1>4, RadixPowers DEF Width
  <2>2. k \in 1 .. Bits /\ (n = 1 => k = ByteBits) /\ (n = 2 => k = ByteBits + ByteBits)
    BY <2>1
  <2>3. 2 ^ k = Radix ^ n
    <3>1. 2 ^ (ByteBits + ByteBits) = 2 ^ ByteBits * 2 ^ ByteBits
      <4>1. ByteBits \in Nat /\ ByteBits + ByteBits <= Bits
        BY <2>1
      <4> QED BY <4>1, Powers
    <3> HIDE DEF k, n
    <3> QED BY <2>1, <2>2, <3>1, RadixPowers DEF Radix
  <2>4. 2 ^ k = 2 * 2 ^ (k - 1) /\ 2 ^ (k - 1) \in Nat
    <3> HIDE DEF k
    <3>1. k - 1 \in 0 .. Bits - 1 /\ k - 1 \in 0 .. Bits /\ (k - 1) + 1 = k
      BY <2>1, <2>2
    <3>2. 2 ^ ((k - 1) + 1) = 2 * 2 ^ (k - 1)
      BY <3>1, PowersAssumption
    <3> QED BY <3>1, <3>2, Powers
  <2>5. Extended(I.op, v) = IF v < 2 ^ (k - 1) THEN v ELSE Wrap(v - 2 ^ k)
    BY <1>4 DEF Extended, SignExtend
  <2>6. Architecture!Reads(v) = IF 2 * v >= Radix ^ n THEN Wrap(v - Radix ^ n) ELSE v
    BY <1>1, <1>2, <1>4, SameReadings DEF Architecture!Reads
  <2> HIDE DEF n, k
  <2>7. 2 * v >= Radix ^ n <=> ~(v < 2 ^ (k - 1))
    BY <2>3, <2>4
  <2> QED BY <2>3, <2>5, <2>6, <2>7
<1> QED BY <1>3, <1>4

\* Loads.
LEMMA LoadsStep ==
    ASSUME Looping, Load
    PROVE  Architecture!Load
<1> DEFINE v == Loaded(data, Width(I.op), Address)
<1>1. Fetches("load") /\ I.op # "illegal" /\ ~Refused
  BY DEF Load
<1>2. /\ Architecture!Running("load") /\ Architecture!Code = I /\ At = pc
  BY <1>1, FetchedCode, LoopState
<1>3. /\ Architecture!Accessible /\ Architecture!Place = Address
      /\ Architecture!Size[I.op] = Width(I.op)
      /\ Architecture!Digits(Contents, Width(I.op), Address) = v
  BY <1>1, PlaceIs
<1>4. v \in Nat
  <2>1. /\ Width(I.op) \in Widths /\ Address \in Word
        /\ Address % Width(I.op) = 0 /\ Address + Width(I.op) <= MemSize
    BY <1>1, PlaceIs
  <2>2. data \in Memories /\ MemSize \in Nat /\ Address \in Nat /\ Address \in Int
    BY <2>1, LoopState, MemSizeAssumption DEF TypeOK, Word
  <2>3. \A i \in 0 .. Width(I.op) - 1 : data[Address + i] \in Byte
    <3>1. \A i \in 0 .. Width(I.op) - 1 : Address + i \in 0 .. MemSize - 1
      BY <2>1, <2>2 DEF Widths
    <3> QED BY <2>2, <3>1 DEF Memories
  <2>4. v \in Word
    BY <2>1, <2>2, <2>3, LoadedInRange
  <2> QED BY <2>4 DEF Word
<1>5. Architecture!Reads(v) = Extended(I.op, v)
  BY <1>1, <1>4, ReadsExtended
<1>6. Architecture!Sets(Extended(I.op, v)) /\ Architecture!Goes(pc + 4) /\ Contents' = Contents
  BY <1>2, ComputeStep DEF Load
<1> HIDE DEF v
<1> QED BY <1>1, <1>2, <1>3, <1>5, <1>6 DEF Architecture!Load

\* Stores.
LEMMA StoresStep ==
    ASSUME Looping, Store
    PROVE  Architecture!Store
<1> DEFINE n == Width(I.op)
           s == Stored(data, n, Address, RegRead(I.rs2))
<1>1. Fetches("store") /\ I.op # "illegal" /\ ~Refused /\ Succeeds(x, s, Fetched)
  BY DEF Store
<1>2. /\ Architecture!Running("store") /\ Architecture!Code = I /\ At = pc
      /\ Architecture!B = RegRead(I.rs2) /\ RegRead(I.rs2) \in Word
  BY <1>1, FetchedCode, LoopState
<1>3. /\ Architecture!Accessible /\ Architecture!Place = Address /\ Address \in Word
      /\ n \in Widths /\ Architecture!Size[I.op] = n
      /\ Address % n = 0 /\ Address + n <= MemSize
  BY <1>1, PlaceIs
<1> HIDE DEF n, s
<1>4. x' = x /\ At' = Fetched /\ Mode' = "run" /\ data' = s
  BY <1>1, SucceedsGoes
<1>5. Laid!WordsOf(s) = Laid!WithDigits(Laid!WordsOf(data), n, Address, RegRead(I.rs2))
  <2>1. MemSize % 4 = 0 /\ data \in Memories /\ Address \in Nat /\ RegRead(I.rs2) \in Int
    BY <1>2, <1>3, LoopState DEF Looping, TypeOK, Word
  <2> QED BY <1>3, <2>1, WithDigitsOfBytes DEF s
<1>6. Contents' = Architecture!WithDigits(Contents, n, Address, RegRead(I.rs2))
  BY <1>4, <1>5, SameContents
<1>7. Fetched = Wrap(pc + 4)
  BY LoopState, Reckoned
<1> QED BY <1>1, <1>2, <1>3, <1>4, <1>6, <1>7, SameReadings
        DEF Architecture!Store, Architecture!Goes

\* A comparison is found in a table as it is by cases.
LEMMA TakenIs ==
    ASSUME NEW a, NEW b, NEW op \in {"beq", "bne", "blt", "bge", "bltu", "bgeu"}, NEW holds,
           holds = [beq |-> a = b, bne |-> a # b, bltu |-> a < b, bgeu |-> a >= b,
                    blt |-> Signed(a) < Signed(b), bge |-> Signed(a) >= Signed(b)]
    PROVE  op \in DOMAIN holds /\ holds[op] = Taken(op, a, b)
<1>1. op \in DOMAIN holds
  OBVIOUS
<1>2. CASE op = "beq"
  BY <1>2, Zenon DEF Taken
<1>3. CASE op = "bne"
  BY <1>3, Zenon DEF Taken
<1>4. CASE op = "blt"
  BY <1>4, Zenon DEF Taken
<1>5. CASE op = "bge"
  BY <1>5, Zenon DEF Taken
<1>6. CASE op = "bltu"
  BY <1>6, Zenon DEF Taken
<1>7. CASE op = "bgeu"
  BY <1>7, Zenon DEF Taken
<1> QED BY <1>1, <1>2, <1>3, <1>4, <1>5, <1>6, <1>7

\* Branches.
LEMMA BranchesStep ==
    ASSUME Looping, Branch
    PROVE  Architecture!Branch
<1> DEFINE a == RegRead(I.rs1)
           b == RegRead(I.rs2)
<1>1. Fetches("branch") /\ I.op # "illegal"
      /\ Succeeds(x, data, IF Taken(I.op, a, b) THEN Relative(I.imm) ELSE Fetched)
  BY DEF Branch
<1>2. /\ Architecture!Running("branch") /\ Architecture!Code = I /\ At = pc
      /\ Architecture!A = a /\ Architecture!B = b /\ I.imm \in Word
      /\ I.op \in {"beq", "bne", "blt", "bge", "bltu", "bgeu"}
  BY <1>1, FetchedCode, LoopState DEF Ops, Instructions
<1> HIDE DEF a, b
<1>3. I.op \in DOMAIN Architecture!Holds /\ Architecture!Holds[I.op] = Taken(I.op, a, b)
  <2>1. Architecture!Holds =
          [beq |-> a = b, bne |-> a # b, bltu |-> a < b, bgeu |-> a >= b,
           blt |-> Signed(a) < Signed(b), bge |-> Signed(a) >= Signed(b)]
    BY <1>2, SameReadings DEF Architecture!Holds
  <2> QED BY <1>2, <2>1, TakenIs
<1>4. /\ x' = x /\ Mode' = "run" /\ Contents' = Contents
      /\ At' = IF Taken(I.op, a, b) THEN Relative(I.imm) ELSE Fetched
  BY <1>1, SucceedsGoes
<1>5. Relative(I.imm) = Wrap(pc + I.imm) /\ Fetched = Wrap(pc + 4)
  BY <1>2, LoopState, Reckoned
<1> QED BY <1>2, <1>3, <1>4, <1>5, SameReadings DEF Architecture!Branch, Architecture!Goes

\* Jumps.
LEMMA JumpsStep ==
    ASSUME Looping, Jal \/ Jalr
    PROVE  Architecture!Jump
<1>1. TypeOK /\ At = pc
  BY LoopState
<1>2. CASE Jal
  <2>1. Fetches("jal") /\ Succeeds(RegWrite(I.rd, Fetched), data, Relative(I.imm))
    BY <1>2 DEF Jal
  <2>2. Architecture!Running("jal") /\ Architecture!Code = I /\ I.imm \in Word
    BY <2>1, FetchedCode DEF Instructions
  <2>3. Relative(I.imm) = Wrap(pc + I.imm) /\ Fetched = Wrap(pc + 4)
    BY <1>1, <2>2, Reckoned
  <2>4. /\ x' = RegWrite(I.rd, Fetched) /\ At' = Relative(I.imm)
        /\ Mode' = "run" /\ Contents' = Contents
    BY <2>1, SucceedsGoes
  <2>5. Architecture!Sets(Fetched) /\ Architecture!Goes(pc + I.imm)
    BY <2>2, <2>3, <2>4, WritesAre, SameReadings DEF Architecture!Sets, Architecture!Goes
  <2> QED BY <1>1, <2>2, <2>3, <2>4, <2>5, SameReadings DEF Architecture!Jump
<1>3. CASE Jalr
  <2> DEFINE t == Wrap(RegRead(I.rs1) + I.imm)
             e == 2 * (t \div 2)
  <2>1. Fetches("jalr") /\ Succeeds(RegWrite(I.rd, Fetched), data, Jump)
    BY <1>3 DEF Jalr
  <2>2. /\ Architecture!Running("jalr") /\ Architecture!Code = I /\ I.imm \in Word
        /\ Architecture!A = RegRead(I.rs1) /\ RegRead(I.rs1) \in Word
    BY <2>1, FetchedCode DEF Instructions
  <2>3. Fetched = Wrap(pc + 4)
    BY <1>1, Reckoned
  <2>4. /\ x' = RegWrite(I.rd, Fetched) /\ At' = Jump
        /\ Mode' = "run" /\ Contents' = Contents
    BY <2>1, SucceedsGoes
  <2>5. t \in Word
    <3>1. RegRead(I.rs1) + I.imm \in Int
      BY <2>2 DEF Word
    <3> QED BY <3>1, WrapInWord
  <2>6. t - (t % 2) = e /\ e \in Word
    <3> HIDE DEF t
    <3> QED BY <2>5, ModulusEven DEF Word
  <2>7. Jump = e /\ Wrap(e) = e
    <3>1. Jump = e
      BY <2>6 DEF Jump
    <3> HIDE DEF e
    <3> QED BY <2>6, <3>1, WrapOfWord
  <2>8. Architecture!Sets(Fetched)
    BY <2>2, <2>4, WritesAre DEF Architecture!Sets
  <2>9. Architecture!Goes(2 * (Architecture!Wrap(Architecture!A + Architecture!Code.imm) \div 2))
    BY <2>2, <2>4, <2>7, SameReadings DEF Architecture!Goes
  <2> QED BY <1>1, <2>2, <2>3, <2>4, <2>8, <2>9, SameReadings DEF Architecture!Jump
<1> QED BY <1>2, <1>3

\* The exit call.
LEMMA ExitStep ==
    ASSUME Looping, Exit
    PROVE  Architecture!Exit
<1>1. /\ Fetches("system") /\ I.op = "ecall" /\ x[17] = 93
      /\ running' = FALSE /\ pc' = Fetched /\ status' = "exit" /\ x' = x /\ data' = data
  BY DEF Exit, Calls
<1>2. Architecture!Running("system") /\ Architecture!Code = I /\ At = pc
  BY <1>1, FetchedCode, LoopState
<1>3. Mode' = "exit"
  BY <1>1, LoopState DEF Mode
<1>4. At' = At
  <2>1. At' = Wrap(pc' - 4)
    BY <1>1 DEF At
  <2> QED BY <1>1, <1>2, <2>1, LoopState, Reckoned
<1>5. Contents' = Contents
  BY <1>1 DEF Contents, Layout!WordsOf
<1> QED BY <1>1, <1>2, <1>3, <1>4, <1>5 DEF Architecture!Exit

\* A system call that answers: what it changes of the memory lies where the
\* architecture lets it.
LEMMA AnswersStep ==
    ASSUME Looping, Fetches("system"), I.op = "ecall", x[17] # 93,
           NEW bytes \in Memories, NEW answer \in Int, Answers(bytes, answer),
           \A b \in 0 .. MemSize - 1 : bytes[b] # data[b] =>
              \/ x[17] = 63 /\ b \in x[11] .. x[11] + x[12] - 1
              \/ x[17] = 80 /\ b >= x[11]
    PROVE  Architecture!SystemCall
<1>1. Architecture!Running("system") /\ Architecture!Code = I /\ At = pc /\ TypeOK
  BY FetchedCode, LoopState
<1>2. /\ x' = [x EXCEPT ![10] = Wrap(answer)] /\ At' = Fetched /\ Mode' = "run" /\ data' = bytes
  BY SucceedsGoes DEF Answers
<1>3. Wrap(answer) \in Word /\ Fetched = Wrap(pc + 4)
  BY <1>1, WrapInWord, Reckoned
<1>4. ASSUME NEW d \in Memories, NEW b \in 0 .. MemSize - 1
      PROVE  Architecture!Digits(Laid!WordsOf(d), 1, b) = d[b]
  <2>1. /\ 1 \in Widths /\ b \in Nat /\ b \in Int /\ b % 1 = 0 /\ b + 1 <= MemSize
        /\ MemSize % 4 = 0 /\ MemSize \in Nat
    BY MemSizeAssumption DEF Widths, Looping, Word
  <2>2. Laid!Digits(Laid!WordsOf(d), 1, b) = Loaded(d, 1, b)
    BY <2>1, DigitsOfBytes
  <2>3. d[b] \in Int
    BY RadixPowers DEF Memories
  <2>4. \A i \in 0 .. 1 - 1 : d[b + i] \in Int
    BY <2>1, <2>3
  <2>5. Loaded(d, 1, b) = d[b]
    BY <2>1, <2>4, LoadedIs
  <2> QED BY <2>2, <2>5, SameContents
<1>5. ASSUME NEW b \in 0 .. MemSize - 1
      PROVE  Architecture!Digits(Contents', 1, b) # Architecture!Digits(Contents, 1, b) =>
              \/ x[17] = 63 /\ b \in x[11] .. x[11] + x[12] - 1
              \/ x[17] = 80 /\ b >= x[11]
  <2>1. data \in Memories
    BY <1>1 DEF TypeOK
  <2>2. /\ Architecture!Digits(Contents, 1, b) = data[b]
        /\ Architecture!Digits(Contents', 1, b) = bytes[b]
    BY <1>2, <1>4, <2>1, SameContents
  <2> QED BY <2>2
<1>6. Architecture!Goes(pc + 4)
  BY <1>2, <1>3, SameReadings DEF Architecture!Goes
<1>7. \E w \in Architecture!Word : x' = [x EXCEPT ![10] = w]
  BY <1>2, <1>3, SameReadings
<1> QED BY <1>1, <1>5, <1>6, <1>7 DEF Architecture!SystemCall

\* handle_syscall, call by call.
LEMMA SyscallsStep ==
    ASSUME Looping, Syscall
    PROVE  Architecture!Exit \/ Architecture!SystemCall
<1>1. data \in Memories /\ TypeOK /\ DOMAIN data = 0 .. MemSize - 1
  BY LoopState DEF TypeOK, Memories
<1>2. CASE Exit
  BY <1>2, ExitStep
<1>3. CASE OpenAt \/ Close \/ Brk \/ UnknownCall
  <2>1. PICK answer \in Int : Answers(data, answer)
    BY <1>3 DEF OpenAt, Close, Brk, UnknownCall
  <2>2. Fetches("system") /\ I.op = "ecall" /\ x[17] # 93
    BY <1>3 DEF OpenAt, Close, Brk, UnknownCall, Calls, Known
  <2> QED BY <1>1, <2>1, <2>2, AnswersStep
<1>4. CASE Write
  <2>1. PICK answer \in -1 .. HostMax : Answers(data, answer)
    BY <1>4 DEF Write
  <2>2. Fetches("system") /\ I.op = "ecall" /\ x[17] # 93 /\ answer \in Int
    BY <1>4, HostAssumption DEF Write, Calls
  <2> QED BY <1>1, <2>1, <2>2, AnswersStep
<1>5. CASE Read
  <2>1. Fetches("system") /\ I.op = "ecall" /\ x[17] = 63
    BY <1>5 DEF Read, Calls
  <2>2. CASE Answers(data, -1)
    <3>1. -1 \in Int /\ x[17] # 93
      BY <2>1
    <3>2. PICK answer \in Int : Answers(data, answer)
      BY <2>2, <3>1
    <3> QED BY <1>1, <2>1, <3>1, <3>2, AnswersStep, ZenonT(40)
  <2>3. ASSUME NEW count \in 0 .. HostMax, NEW bytes \in [1 .. count -> HostBytes],
               count <= x[12], Answers(Filled(x[11], bytes), count)
        PROVE  Architecture!SystemCall
    <3>1. Filled(x[11], bytes) \in Memories /\ count \in Int
      BY <1>1, FilledTypes, HostAssumption
    <3>2. ASSUME NEW b \in 0 .. MemSize - 1, Filled(x[11], bytes)[b] # data[b]
          PROVE  b \in x[11] .. x[11] + x[12] - 1
      <4>1. b - x[11] + 1 \in 1 .. count
        BY <1>1, <3>2 DEF Filled
      <4>2. x[11] \in Int /\ x[12] \in Int
        BY <1>1, RegAssumption DEF TypeOK, Word
      <4> QED BY <2>3, <3>1, <4>1, <4>2
    <3> QED BY <2>1, <2>3, <3>1, <3>2, AnswersStep
  <2> QED BY <1>5, <2>2, <2>3 DEF Read
<1>6. CASE Fstat
  <2>1. Fetches("system") /\ I.op = "ecall" /\ x[17] = 80
    BY <1>6 DEF Fstat, Calls
  <2>2. CASE Answers(data, -1) \/ Answers(data, 0)
    <3>1. -1 \in Int /\ 0 \in Int /\ x[17] # 93
      BY <2>1
    <3>2. PICK answer \in Int : Answers(data, answer)
      BY <2>2, <3>1
    <3> QED BY <1>1, <2>1, <3>1, <3>2, AnswersStep, ZenonT(40)
  <2>3. ASSUME NEW v \in HostBytes, Answers(Filled(x[11], [k \in 1 .. StatCopied |-> v]), 0)
        PROVE  Architecture!SystemCall
    <3> DEFINE bytes == [k \in 1 .. StatCopied |-> v]
    <3>1. Filled(x[11], bytes) \in Memories
      BY <1>1, FilledTypes, HostAssumption
    <3>2. ASSUME NEW b \in 0 .. MemSize - 1, Filled(x[11], bytes)[b] # data[b]
          PROVE  b >= x[11]
      <4>1. b - x[11] + 1 \in 1 .. StatCopied
        BY <1>1, <3>2 DEF Filled
      <4>2. x[11] \in Int
        BY <1>1, RegAssumption DEF TypeOK, Word
      <4> QED BY <4>1, <4>2
    <3> HIDE DEF bytes
    <3>3. Answers(Filled(x[11], bytes), 0)
      BY <2>3 DEF bytes
    <3> QED BY <2>1, <3>1, <3>2, <3>3, AnswersStep
  <2> QED BY <1>6, <2>2, <2>3 DEF Fstat
<1> QED BY <1>2, <1>3, <1>4, <1>5, <1>6 DEF Syscall

\* A breakpoint ends the run.
LEMMA BreakStep ==
    ASSUME Looping, Ebreak
    PROVE  Architecture!Break
<1>1. Fetches("system") /\ I.op = "ebreak" /\ Succeeds(x, data, Fetched)
  BY DEF Ebreak
<1>2. Architecture!Running("system") /\ Architecture!Code = I /\ At = pc
  BY <1>1, FetchedCode, LoopState
<1>3. x' = x /\ At' = Fetched /\ Mode' = "run" /\ Contents' = Contents
  BY <1>1, SucceedsGoes
<1>4. Fetched = Wrap(pc + 4)
  BY LoopState, Reckoned
<1> QED BY <1>1, <1>2, <1>3, <1>4, SameReadings DEF Architecture!Break, Architecture!Goes

\* What fetch and execute refuse.
LEMMA FaultsStep ==
    ASSUME Looping, FetchFails \/ Undecodable \/ Illegal \/ AccessFails
    PROVE  Architecture!Fault
<1>1. CASE FetchFails
  <2>1. /\ status' \in {"fetch_misaligned", "fetch_out_of_bounds"} /\ Check(4, pc) # "ok"
        /\ x' = x /\ pc' = pc /\ running' = running /\ data' = data
    BY <1>1 DEF FetchFails, Fetchable
  <2>2. Mode = "run" /\ At = pc /\ running /\ pc \in Word /\ 4 \in Widths
        /\ phase' \notin {"load", "refused"}
    BY LoopState DEF TypeOK, Widths
  <2>3. Mode' = "fault" /\ At' = At /\ Contents' = Contents
    BY <2>1, <2>2 DEF Mode, At, Errors, Contents, Layout!WordsOf
  <2>4. ~Architecture!Meaningful(4, At)
    BY <2>1, <2>2, MeaningfulAccess
  <2> QED BY <2>1, <2>2, <2>3, <2>4 DEF Architecture!Fault
<1>2. CASE Undecodable
  <2>1. Fetches("none") /\ FailsWith("decode")
    BY <1>2 DEF Undecodable
  <2> QED BY <2>1, FailsFaults, FetchedCode DEF Architecture!Fault
<1>3. CASE Illegal
  <2>1. PICK kind \in {"load", "store", "branch", "system"} :
           Fetches(kind) /\ I.op = "illegal" /\ FailsWith("illegal")
    BY <1>3 DEF Illegal
  <2>2. Architecture!Running(kind) /\ Architecture!Code = I
    BY <2>1, FetchedCode
  <2>3. "illegal" \notin DOMAIN Architecture!Size /\ "illegal" \notin DOMAIN Architecture!Holds
    BY DEF Architecture!Size, Architecture!Holds
  <2>4. ~Architecture!Accessible
    BY <2>1, <2>2, <2>3 DEF Architecture!Accessible
  <2> QED BY <2>1, <2>2, <2>3, <2>4, FailsFaults DEF Architecture!Fault
<1>4. CASE AccessFails
  <2>1. PICK kind \in {"load", "store"} :
           Fetches(kind) /\ I.op # "illegal" /\ Refused /\ FailsWith("execution")
    BY <1>4 DEF AccessFails
  <2>2. Architecture!Running(kind)
    BY <2>1, FetchedCode
  <2>3. ~Architecture!Accessible
    BY <2>1, PlaceIs
  <2> QED BY <2>1, <2>2, <2>3, FailsFaults DEF Architecture!Fault
<1> QED BY <1>1, <1>2, <1>3, <1>4

\* The emulator dying in a division stops the machine where it is.
LEMMA TrapStutters ==
    ASSUME Looping, Trap
    PROVE  UNCHANGED <<Mode, x, At, Contents>>
<1>1. status' = "killed" /\ x' = x /\ pc' = pc /\ running' = running /\ data' = data
  BY DEF Trap
<1>2. Mode = "run" /\ At = pc /\ running /\ phase' \notin {"load", "refused"}
  BY LoopState
<1> QED BY <1>1, <1>2 DEF Mode, At, Errors, Contents, Layout!WordsOf

\* One round of the loop is one instruction, whole.
LEMMA RoundIs ==
    ASSUME Looping
    PROVE  Architecture!Next \/ UNCHANGED <<Mode, x, At, Contents>>
<1>1. Step /\ running
  BY LoopState
<1>2. CASE Stopped
  BY <1>1, <1>2 DEF Stopped
<1>3. CASE FetchFails \/ Undecodable \/ Illegal \/ AccessFails
  BY <1>3, FaultsStep DEF Architecture!Next
<1>4. CASE AluRegister \/ AluImmediate \/ Multiply \/ Lui \/ Auipc
  BY <1>4, ComputesStep DEF Architecture!Next
<1>5. CASE Trap
  BY <1>5, TrapStutters
<1>6. CASE Load
  BY <1>6, LoadsStep DEF Architecture!Next
<1>7. CASE Store
  BY <1>7, StoresStep DEF Architecture!Next
<1>8. CASE Branch
  BY <1>8, BranchesStep DEF Architecture!Next
<1>9. CASE Jal \/ Jalr
  BY <1>9, JumpsStep DEF Architecture!Next
<1>10. CASE Ebreak
  BY <1>10, BreakStep DEF Architecture!Next
<1>11. CASE Syscall
  BY <1>11, SyscallsStep DEF Architecture!Next
<1> QED BY <1>1, <1>2, <1>3, <1>4, <1>5, <1>6, <1>7, <1>8, <1>9, <1>10, <1>11 DEF Step

\* Every step of the emulator is one of the architecture or changes nothing it sees.
LEMMA ArchitectureStep ==
    ASSUME MemSize >= 4, MemSize % 4 = 0, RunInv, [Run]_vars
    PROVE  [Architecture!Next]_<<Mode, x, At, Contents>>
<1>1. CASE Load_program
  <2>1. /\ phase = "load" /\ phase' = "loop" /\ x' = x /\ running' = running /\ status' = status
        /\ x = InitialRegisters /\ status = "ok" /\ running
    BY <1>1 DEF Load_program, RunInv, Judged
  <2>2. Mode = "off" /\ Mode' = "run"
    BY <2>1 DEF Mode, Errors
  <2>3. Architecture!Boot
    BY <2>1, <2>2 DEF Architecture!Boot, InitialRegisters
  <2> QED BY <2>3 DEF Architecture!Next
<1>2. CASE Load_fails
  BY <1>2 DEF Load_fails, cpuVars, Mode, At, Contents, Layout!WordsOf
<1>3. CASE Round
  <2>1. RunInv'
    BY <1>3, RoundStep
  <2>2. Looping
    BY <1>3, <2>1 DEF Looping
  <2> QED BY <2>2, RoundIs
<1>4. CASE Finish
  <2>1. phase \in {"left", "loop"} /\ phase' = "done" /\ UNCHANGED cpuVars
    BY <1>4 DEF Finish
  <2> QED BY <2>1 DEF cpuVars, Mode, At, Contents, Layout!WordsOf
<1>5. CASE UNCHANGED vars
  BY <1>5 DEF vars, cpuVars, mainVars, Mode, At, Contents, Layout!WordsOf
<1> QED BY <1>1, <1>2, <1>3, <1>4, <1>5 DEF Run

\* Every program, on every width, memory, host and step limit: a call of
\* CPU::step within main's loop is one step of the machine RISC-V describes,
\* or the emulator's own death in a division that overflows.
THEOREM ImplementsIsaAlways ==
    ASSUME MemSize >= 4, MemSize % 4 = 0
    PROVE  RunSpec => ImplementsIsa
<1>1. Start => Architecture!Init
  BY DEF Start, Architecture!Init, Mode
<1>2. RunInv /\ [Run]_vars => [Architecture!Next]_<<Mode, x, At, Contents>>
  BY ArchitectureStep
<1>3. RunSpec => []RunInv
  BY RunInvAlways
<1> QED
  BY <1>1, <1>2, <1>3, PTL DEF RunSpec, ImplementsIsa, Architecture!Spec

\* The only calls that are made are the ones asked for.
LEMMA OnlyCall ==
    ASSUME Step, NEW number \in {63, 64}, Calls(number)
    PROVE  Read \/ Write
<1>1. I.kind = "system" /\ I.op = "ecall" /\ x[17] = number /\ running /\ Fetchable
  BY DEF Calls, Fetches
<1>2. ~Exit /\ ~OpenAt /\ ~Close /\ ~Brk /\ ~Fstat /\ ~UnknownCall
  BY <1>1 DEF Exit, OpenAt, Close, Brk, Fstat, UnknownCall, Calls, Known
<1>3. ~Stopped /\ ~FetchFails /\ ~Undecodable /\ ~Illegal /\ ~AccessFails
  BY <1>1 DEF Stopped, FetchFails, Undecodable, Illegal, AccessFails, Fetches
<1>4. ~AluRegister /\ ~AluImmediate /\ ~Multiply /\ ~Trap /\ ~Load /\ ~Store
  BY <1>1 DEF AluRegister, AluImmediate, Multiply, Trap, Load, Store, Fetches
<1>5. ~Branch /\ ~Jal /\ ~Jalr /\ ~Lui /\ ~Auipc /\ ~Ebreak
  BY <1>1 DEF Branch, Jal, Jalr, Lui, Auipc, Ebreak, Fetches
<1> QED BY <1>2, <1>3, <1>4, <1>5 DEF Step, Syscall

\* One step of main, judged by what it hands to the host.
Inside ==
    \A number \in {63, 64} :
        phase = "loop" /\ LoopCondition /\ Calls(number) /\ x'[10] # Wrap(-1) =>
            \A k \in 1 .. x[12] : x[11] + k - 1 \in DOMAIN data

\* Every step hands the host bytes of the memory only.
LEMMA InsideStep ==
    ASSUME RunInv, Run
    PROVE  Inside
<1> SUFFICES ASSUME NEW number \in {63, 64}, phase = "loop", LoopCondition, Calls(number),
                    x'[10] # Wrap(-1), NEW k \in 1 .. x[12]
             PROVE  x[11] + k - 1 \in DOMAIN data
  BY DEF Inside
<1>1. Step
  BY DEF Run, Load_program, Load_fails, Finish, Round
<1>2. x \in [Reg -> Word] /\ DOMAIN data = 0 .. MemSize - 1
  BY DEF RunInv, RunTypeOK, TypeOK, Memories
<1>3. \A bytes, answer : Answers(bytes, answer) => x'[10] = Wrap(answer)
  BY <1>2, RegAssumption DEF Answers, Succeeds
<1>4. Fits(x[12])
  BY <1>1, <1>3, OnlyCall DEF Read, Write
<1>5. x[11] \in Nat /\ x[12] \in Nat /\ MemSize \in Nat
  BY <1>2, RegAssumption, MemSizeAssumption DEF Word
<1> QED BY <1>2, <1>4, <1>5 DEF Fits

\* Whatever a program asks for, the host is handed bytes of the memory only.
THEOREM HostStaysInsideAlways ==
    ASSUME MemSize >= 4
    PROVE  RunSpec => HostStaysInside
<1>1. RunInv /\ [Run]_vars => [Inside]_vars
  BY InsideStep
<1>2. RunSpec => []RunInv
  BY RunInvAlways
<1> QED
  BY <1>1, <1>2, PTL DEF RunSpec, HostStaysInside, Inside
=============================================================================
