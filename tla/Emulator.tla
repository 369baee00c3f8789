------------------------------ MODULE Emulator ------------------------------
(***************************************************************************)
(* The riscv_emulator program: main() loads a program file through         *)
(* Emulator::load_program, then calls Emulator::step, which is CPU::step,  *)
(* until the processor has stopped, a call fails or the step limit is      *)
(* reached.                                                                *)
(* Operators whose name starts with Bad are faulty variants of the one     *)
(* that follows, which the properties were tried on.                       *)
(***************************************************************************)
EXTENDS Cpu

CONSTANTS
    Files,          \* bound: the program files, sequences of bytes
    LoadAddresses,  \* bound: the load addresses asked for
    MaxSteps        \* max_steps, 1000000 in the code

ASSUME FilesAssumption == Files \subseteq Seq(Byte)
ASSUME LoadAssumption == LoadAddresses \subseteq Word
ASSUME MaxStepsAssumption == MaxSteps \in Nat

VARIABLES
    program,        \* what the file holds and ...
    load_address,   \* ... the address asked for, the command line (never change)
    phase,          \* "load", "loop", "left" (break), "killed", then "done";
                    \* "refused" if load_program failed
    step_count,
    exit_code,      \* what main returns
    limit_reported  \* "Reached maximum step count" was printed

mainVars == <<program, load_address, phase, step_count, exit_code, limit_reported>>
vars == <<cpuVars, mainVars>>

Start ==
    /\ x = InitialRegisters
    /\ pc = 0
    /\ running = TRUE
    /\ data = [b \in 0 .. MemSize - 1 |-> 0]
    /\ status = "ok"
    /\ program \in Files
    /\ load_address \in LoadAddresses
    /\ phase = "load"
    /\ step_count = 0
    /\ exit_code = 0
    /\ limit_reported = FALSE

\* The sum is taken in a long: it does not wrap.
TooLarge == load_address + Len(program) > MemSize

\* fread into the array, from the load address on.
Placed ==
    [b \in DOMAIN data |->
        IF b - load_address + 1 \in DOMAIN program
        THEN program[b - load_address + 1] ELSE data[b]]

Load_program ==
    /\ phase = "load" /\ ~TooLarge
    /\ data' = Placed
    /\ pc' = load_address
    /\ phase' = "loop"
    /\ UNCHANGED <<x, running, status, program, load_address,
                   step_count, exit_code, limit_reported>>

\* No file, too large, or not all of it could be read: main returns 1.  What
\* part was read is in a memory nobody will look at.
Load_fails ==
    /\ phase = "load"
    /\ phase' = "refused"
    /\ exit_code' = 1
    /\ UNCHANGED <<cpuVars, program, load_address, step_count, limit_reported>>

BadLoopCondition == running /\ step_count <= MaxSteps
LoopCondition == running /\ step_count < MaxSteps

\* One round of the loop: a step, then what its status asks for.
After(s) == CASE s = "ok" -> "loop"
              [] s = "killed" -> "killed"
              [] OTHER -> "left"

\* The counter set back where the progress line is printed.
BadCounted == (step_count + 1) % MaxSteps
Counted == step_count + 1

BadExitCode == RegRead(10)'
ExitCode == IF status' = "exit" THEN RegRead(10)' ELSE exit_code

Round ==
    /\ phase = "loop" /\ LoopCondition
    /\ Step
    /\ step_count' = Counted
    /\ phase' = After(status')
    /\ exit_code' = ExitCode
    /\ UNCHANGED <<program, load_address, limit_reported>>

Finish ==
    /\ phase = "left" \/ (phase = "loop" /\ ~LoopCondition)
    /\ phase' = "done"
    /\ limit_reported' = (step_count >= MaxSteps)
    /\ UNCHANGED <<cpuVars, program, load_address, step_count, exit_code>>

Run == Load_program \/ Load_fails \/ Round \/ Finish

\* One process that runs on while it can; the host answers every call.
RunSpec == Start /\ [][Run]_vars /\ WF_vars(Run)

----------------------------------------------------------------------------
(* Properties.                                                             *)

\* The program's own variables beside the processor's.
RunTypeOK ==
    /\ TypeOK
    /\ phase \in {"load", "loop", "left", "killed", "done", "refused"}
    /\ step_count \in 0 .. MaxSteps
    /\ exit_code \in Word
    /\ limit_reported \in BOOLEAN

\* How it ended is what it reports: main returns something else than 0 only
\* for a refused file or the program's own a0 at its exit; the loop is left
\* early only by an exit or an error, and without either every step of the
\* limit was spent.  The limit is reported of any run that took all of them,
\* of one that exits or fails at the last step too.
Verdict ==
    /\ phase = "done" =>
        /\ exit_code = IF running THEN 0 ELSE x[10]
        /\ (~running) <=> (status = "exit")
        /\ status = "ok" => step_count = MaxSteps
        /\ limit_reported <=> step_count = MaxSteps
    /\ phase = "loop" => status = "ok" /\ running

\* Whatever the program is, the emulator ends.
Terminates == <>(phase \in {"done", "refused", "killed"})

\* The host is handed, for reading or for writing, bytes of the memory only:
\* a read or write that did not answer -1 had room for all it asked for.
HostStaysInside ==
    [][\A number \in {63, 64} :
        phase = "loop" /\ LoopCondition /\ Calls(number) /\ x'[10] # Wrap(-1) =>
            \A k \in 1 .. x[12] : x[11] + k - 1 \in DOMAIN data]_vars

\* The machine RISC-V describes, read off the code's state.  A call that
\* fails after the fetch has moved the pc past the instruction it failed at.
Layout == INSTANCE WordMemory
Contents == Layout!WordsOf(data)
At == IF status \in {"decode", "illegal", "execution", "exit"} THEN Wrap(pc - 4) ELSE pc
Mode == CASE phase \in {"load", "refused"} -> "off"
          [] phase \notin {"load", "refused"} /\ ~running -> "exit"
          [] phase \notin {"load", "refused"} /\ running /\ status \in Errors -> "fault"
          [] OTHER -> "run"
Architecture == INSTANCE Isa WITH regs <- x, mem <- Contents, at <- At, mode <- Mode

\* What runs is that machine: main's loop and the processor with its early
\* increment of the pc, array of bytes and x0 kept by tests take its steps
\* and no others.
ImplementsIsa == Architecture!Spec
=============================================================================
