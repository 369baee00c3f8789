# A verification project for riscv-student-pack

The repository holds two programs: `assembler`, a two-pass assembler from RV32IM
source text to a flat binary, and `riscv_emulator`, which loads such a binary
into a 16 MiB memory and interprets it. Both are sequential C++ programs. The
TLA+ modules here model them from the code in `src/`; TLC checks the models on
small instances and TLAPS proves the main results for every value of the
constants.

Contents: [the system](#1-the-system), [modules](#2-modules), [runs](#3-runs),
[what the code does otherwise](#4-where-code-and-documents-disagree),
[proofs](#5-proofs), [limits](#6-what-is-not-modelled), [plan](#7-plan).

## 1. The system

### Assembler (`src/assembler`)

| part | state | operations |
|---|---|---|
| `first_pass.cpp` | `current_section_name`, `sections` (name -> offset, base, type), `labels`, `pc_text`, `text_size`, `data_size` | reads every line; a section directive calls `switch_section`; a label is recorded at the section's offset; the body advances the offset by what `pseudoinstruction_size` or `process_directive` says |
| `adjust_labels.cpp` | `base_addr` of each section, label addresses | `.text`, `.rodata`, `.data`, `.bss`, then custom sections in map order get consecutive bases; every label is moved by its section's |
| `second_pass.cpp` | `pc`, position of the output file, `current_section_name` | reads the file again; a section directive sets `pc` and seeks; instructions are expanded and encoded, data converted and written |
| `expand_pseudoinstruction.cpp` | none | text of a pseudoinstruction -> one or two instructions, with the label's value known |
| `encode.cpp`, `utils.cpp` | the label table, read only | bit fields, `parse_imm`, `find_label`, `reg_num`, string escapes |
| `main.cpp` | the two files | the passes in order, each once; any error is `exit(1)` |

The passes communicate through the section table and the label table: pass 2
writes each line where pass 1 *predicted* it, without comparing. That is the
hard part. A label is right only if each line before it in its section counts
the same in both passes, although the first does not know the labels' values
and the two use different code (`process_directive` beside
`process_data_directive`, `pseudoinstruction_size` beside
`expand_pseudoinstruction`), and only if each seek of pass 2 leads to the base
`adjust_labels` gave.

Correct means: labels are where their lines are written; no line's bytes are
written over by another; the file is as long as reported; every line is
assembled or the assembler exits; success implies that every label was resolved.

### Emulator (`src/emulator`)

| part | state | operations |
|---|---|---|
| `memory.cpp` | byte array | `read8/16/32`, `write8/16/32`, each refusing a misaligned or outside address; `load_program` fills it by `fread` |
| `instructions.cpp` | none | `Instruction::decode`: opcode -> format and fields, or an error |
| `cpu.cpp` | `x[32]`, `pc`, `running` | `step`: fetch, pc += 4, decode, `execute_*`, `handle_syscall` |
| `emulator.cpp`, `main.cpp` | step counter, exit code | load, then step until the exit, an error, or `max_steps` |
| host system | outside | `write`, `read`, `open`, `close`, `fstat` on the emulated memory |

The pc is already past the instruction while it executes, x0 is kept zero by
tests in accessors which the system calls go around, memory is reached both
through the checked accessors and, by the system calls, through a pointer into
the array. Correct means: the program sees a RISC-V machine; a failing call has
no visible effect; the host is handed bytes of the memory only; the run ends
and its result says how.

There is no concurrency, no persistence and no message passing in either
program. What is hard are agreements between two computations of one thing,
sequences of legal calls, arithmetic at the edges, and loops that must advance.
`PROJECT.json` lists each such place with its line ("hazards").

## 2. Modules

```
Assembly <-refines- TwoPass <- MCTwoPass
                    ^
Flow <-refines----- Toolchain <- MCToolchain (MCTwoPass), ToolchainProofs (BasicFacts)
DataDirective <- MCDataDirective
Lines <- MCLines
DataDirective, Lines <- TextProofs (BasicFacts)
Encoding <- MCEncoding, EncodingProofs (BasicFacts)
Words <- Alu <- Pseudo <- MCAlu <- AluProofs (WordProofs)
Words <- MemoryAccess <- Memory -refines-> Storage (WordMemory)
                         ^ MCMemory, MemoryProofs
Alu, MemoryAccess <- WordProofs (BasicFacts) <- MemoryProofs, CpuProofs
Alu, MemoryAccess <- Cpu <- MCCpu
Cpu <- Emulator -refines-> Isa (Alu, WordMemory)
       ^ MCEmulator (Programs), CpuProofs
```

`A <- B`: B extends A, and what stands in parentheses too. A source line's way
through the programs is cut into modules by what each decides on: `Lines` takes
its text apart, `Pseudo` and `Encoding` turn its operation and operands into
words and the words back into operations, `DataDirective` scans the operands of
data, `TwoPass` adds up the sizes and lays the lines out, `Toolchain` runs the
result, `Cpu` and `Emulator` execute single instructions on registers and
memory.

**TwoPass.** One step is one line of a pass, one section of `adjust_labels`, or
the end of a loop; `phase` says in which function `main` is. `offset` and
`base` are the fields of `SectionInfo`; `labels`, `pc_text`, `pc` and
`current` have the code's names; `fpos` is the position of the output file;
`image` records which line wrote each byte. `at1` and `at2` are history
variables: where each pass stood at each line. A source line is abstracted to
what the passes decide on: a section directive (`.section X`, a bare `.text`
..., or one with a comment after it, which the `strcmp`s miss), or an item: an
optional label and a body. A body is an instruction with its operation class
and the label it names, or a directive with the number of bytes pass 1 counts
and the number pass 2 writes, which may differ, or a malformed string, or
nothing. `Pass1Item` is `process_label` followed by
`process_instruction_first_pass` or `process_directive`, with the code's
treatment of a label in a text section (everything after it is taken for an
instruction). `Visited`/`Placed` keep the order of `adjust_labels` and its
condition, by which a `.text.startup` gets no base. `Target` is the pc a
section directive of pass 2 sets, `Position` what `fseek` then gets of it.

**Assembly** is what an assembler promises: each line adds an interval of new
bytes, once, nothing is written over, and at the end the file has no hole.
Under the mapping of `TwoPass.Promise`, `TwoPass` implements it for disciplined
sources.

**Toolchain** adds the emulator to `TwoPass`: `Load` takes the file at any load
address, and each step executes the line whose bytes begin at `ip`. Offsets of
branches, jumps and `la` are label minus pass 2's pc of that line. `Cut` is what
`encode_b` and `encode_j` keep of one, 13 bits for a branch and 21 for a jump,
without a test; `la` has all 32 (`Carried`). That is added to `ip`. `reg` is one
address a register may hold, from a call or from `la`. **Flow** is the same
program as its author reads it, lines and labels without addresses: the next
line is the next of the section that holds anything, a jump goes to its label's
line. `RunsAsWritten` is the step refinement between the two, for disciplined
sources whose branches and jumps are no further than their fields reach
(`InReach`). Where control enters data or leaves the file, both stop.

**Lines** takes a line as a sequence of tokens (spaces, punctuation, and words
that no scan stops in) through both passes: what is passed over, the cut at `#`
and at the first `:`, `parse_simple_args` in pass 1, and in pass 2 the rewriting
of `offset(reg)`, `parse_instruction_args`, and the calls of `trim` whose result
is dropped. `Expansions` and `Printed` are the texts of
`expand_pseudoinstruction`, read back by the same parser into arrays that held
something else (`Unset`).

**Encoding** takes one instruction from mnemonic and operands to the word in the
file (`Encode_*`, one table for each group of `encode_instruction`'s cases) and
on to the operation, registers and number `CPU::execute` acts on (`Immediate`,
`Executed`, with tables of their own from `cpu.cpp`). A word is the set of its
one bits, so that it has all 32 of them. An operand is what `reg_num` (-1 for no
register) and `parse_imm` make of its text.

**Pseudo** is `expand_pseudoinstruction` with numbers, for words of `Bits` bits
and a low part of `LoBits`: the rounding of the high part, sizes in pass 1, and
what the one or two instructions do when executed.

**DataDirective** keeps the characters that `TwoPass` abstracts away: the loop
that counts the values of `.byte`, `.half`, `.word` and the loops that write
them, over sequences of character classes, with the C library's `strtol` and
`strspn` as they stop. `emitted` wraps so that a loop that writes for ever has
finitely many states.

**Words, Alu** are the fixed-width arithmetic: `Bits` is 32 in the code.
`MulDiv` takes products in twice the width as the code does, and division
truncates; `Overflows` names the one case that C leaves undefined.

**MemoryAccess** holds the pure part of `memory.cpp`, used by `Memory` (the
class, any accessor called at any time) and by `Cpu`. The bounds test is the
code's, `addr > size - n` in unsigned arithmetic. **WordMemory** and
**Storage** describe the same memory as an array of words with no bytes and no
byte order; `Memory` implements `Storage`.

**Cpu** has one action per way a call of `CPU::step` can go: every instruction
format, every refusal (fetch, decode, illegal funct, access), the exit, and
each system call with every answer of the host. `Decode` is a constant function
from words to decoded instructions: properties hold for any encoding. `Trap` is
one outcome of the undefined division, after which there is no process left;
the other is the wrapped quotient.

**Emulator** is `load_program` and the loop of `main`. **Isa** is the machine a
programmer has in mind: pc at the current instruction, word memory, faults
that leave everything as it was. `Emulator` implements `Isa` with `at` mapped
to `pc` or, where a call has stopped after the increment, to `pc - 4`.

Operators whose name starts with `Bad` are faulty variants, each a plausible
slip of the definition after it; the properties were tried on them
("mutants" in `PROJECT.json`).

### Abstractions and external code

`strtol`, `strspn`, the ctype functions and the host's system calls are
modelled from how the code uses them. `std::map` order is the constant
`MapOrder`. Addresses in `TwoPass` are integers, of
which the code's `uint32_t` hold the residue. Where the code takes that residue
for something else it matters, and is modelled: `Position` is the offset `fseek`
is given, which is never negative, and `Signed` the `int32_t` by which `li`
chooses between one word and two. The addresses of the emulator are words.
`Host*` constants bound what the host may deliver.

## 3. Runs

| run | checks | instance |
|---|---|---|
| `all` | `TypeOK`, `LabelInv`, `LabelsAgree`, `OwnBytes`, `SectionsApart`, `NoDanglingReference`, `ReportedSizes`, `Implements`, `RunsAsWritten` | all sources of up to 3 lines out of 22 forms, and all disciplined ones of up to 5 lines out of 10, each run at two load addresses; addresses modulo 32, branches that reach 8 bytes and jumps 16 |
| `lists` | `TypeOK`, `CountsAgree`, `NeverShort`, `NumbersEnd` | all operand texts of up to 4 characters of 9 classes, 3 directives |
| `lines` | `LinesTypeOK`, `ReadAsWritten`, `PassesAgree`, `ExpansionReadBack` | instructions with up to 3 operands in every spacing and with every sort of comment; all texts of up to 5 tokens |
| `encoding` | `TypeOK`, `RoundTrip`, `HarmContained` | every mnemonic, 32-bit words, registers and numbers at and beyond the edges of their fields |
| `laws` | `ProductHalves`, `DivisionLaw`, `AluLaws`, `PseudoMeaning` | all pairs of 6-bit words; low parts of 3 bits |
| `access` | `TypeOK`, `InBounds`, `Implements` | 2 words of memory, every width and address, also beyond the end |
| `calls_cpu` | `TypeOK`, `ZeroRegister`, `CleanStops` | programs of 3 instructions, stepped on after errors and the exit |
| `programs` | `RunTypeOK`, `Verdict`, `ImplementsIsa`, `HostStaysInside`, `Terminates` | all programs of 2 and 3 instructions out of 31, two load addresses, two system calls in a row |
| `startup`, `rodata`, `commented`, `label` | one property each, violated: section 4 | one program each |

What the properties of the assembler say. *Disciplined* is the condition under
which the two passes agree, stated on what pass 1 found: each section is
entered while empty and is one `adjust_labels` knows; a bare `.data` appears
only beside an empty `.rodata`; no data in text sections; no `li` of a label; a
directive writes what it counts; and what `adjust_labels` placed ends below the
modulus of addresses (`Fits`). Under it, `LabelsAgree` (each label is the
address where pass 2 writes its line) and `OwnBytes` (no line is overwritten)
hold, forward references and sections written out of order included.
`NoDanglingReference` needs no discipline; it
is about the labels instructions name, not those of a `.word main`, whose scan
does not end (`DataDirective` examines which do). `SectionsApart` needs only
that no section has shrunk below zero (a negative `.space`) and that addresses
do not wrap. The conjunct `Bases` of `LabelInv` states the order of the sections
the code has, which is not the README's (section 4). In `DataDirective`,
`CountsAgree` discharges the "writes what it counts" part of the discipline for
lists of numbers, those of a `.byte` as C reads them: an `08`, which anyone
takes for a number, is none to `strtol` with base 0 (section 4). `NeverShort`
says in which direction other texts go wrong.

`Implements` (the abstract assembler) and `RunsAsWritten` (the author's reading
of the program) are for disciplined sources too, the
latter with their branches in reach. `ReadAsWritten` says that what
is written as an instruction is read as one by both parsers. `PassesAgree` says
of every text of which pass 2 takes a one-token operation (not the comma of a
line it has rewritten) that pass 1 sizes that operation, and of those in which
no parenthesis stands ahead of the first comma that a second operand, by which
`li` is sized, starts alike in both. The condition is needed: section 4 has
`li a0(5000),5`. And
`ExpansionReadBack` that nothing uninitialised reaches `encode_instruction` in
the place of an operand. `RoundTrip` says that an instruction whose numbers fit
is executed as written; `HarmContained` what is left of that when they do not
fit, or when a register is misspelt, as nothing checks either. `Verdict` ties
the exit code, the state of the processor and the report of the limit together.

Why these bounds are enough to meet the hazards. Three lines of any form hold a
definition, a switch and a use in every order, with all failures; the agreements
are inductive line by line, and the theorems of section 5 remove the bound. Five
tidy lines let data in two sections out of order, a custom section and a
reference across them occur. With addresses modulo 32, a negative `.space` at
the start of a section takes an address around, and programs of four and five
lines hold branches on both sides of what a field reaches. Five tokens hold an
operation, a space and two operands with their comma, or a label, a comment or a
tab in the place of any of them. The numbers of `encoding` are the ends of each
field, one beyond, and single bits throughout; its words are not scaled down, as
the scattering of bits is what could be wrong. Six-bit words with a low part of
three bits hold every combination of the signs of both parts, with carries and
wrapping sums. Four characters hold two values, a sign or prefix, and a
separator; 8 and 9 are a class beside 1 to 7, as they end an octal number.
Six-bit words contain every sign combination, zero, -1 and the most negative
word, and shifts by up to the width less one; `& 0x1F` becomes `% Bits`. Two
words of memory, and address bits enough to lie beyond them, give overlapping
widths inside a word, at a word's edge and past the end. The emulator runs have
8-bit words of four 2-bit bytes, so that an instruction is a number from 1 to 36
(`Programs`) and every address space edge is near: wrapping targets, a store
over the program's own code, buffers of system calls whose sum with their length
leaves the memory or the word.

`CHECK_DEADLOCK FALSE` stands where the program ends. `Memory` never does.

Fairness. `DataDirective` and `Emulator`, the two modules with liveness
properties, assume weak fairness of their whole next-state relation: a single
thread that runs on while it can. No choice between steps is assumed fair. For
the emulator this includes that the host's calls return: a `read` from a
terminal that never does is the environment's stop, not the program's.
`Emulator.Terminates` rests on `max_steps` only; it holds for programs that
loop.

## 4. Where code and documents disagree

Checked by a run that finds the violation:

* `startup`: a section named `.text.*` has type text, so `adjust_labels` skips
  it as not custom, and it keeps base 0. The assembler README's own example of
  custom sections writes `.text.startup` and `.text` over each other.
* `rodata`: pass 2 takes a bare `.data` to start at `pc_text`, the size of the
  code, whereas `adjust_labels` puts `.rodata` there and `.data` after it.
  With both sections present, `.data` overwrites `.rodata` and its labels are
  off.
* `commented`: `.data   # comment`, as in `QUICKSTART.md`, is not recognised in
  either pass, since the whole line is compared; what follows lands in the
  section before.
* `label`: `.word main` writes the address of `main` and then does not advance:
  the output grows without end. (`.byte foo` likewise.)

Met while modelling, modelled by the definitions named, not given runs of
their own:

* `adjust_labels` lays out `.text`, `.rodata`, `.data`, `.bss`
  (adjust_labels.cpp:16-26; `Visited`). `assembler/README.md:222-226` has
  `.data` follow `.text` and `.rodata` follow `.data`. The conjunct `Bases` of
  `LabelInv` is about the code's order.
* A branch or jump further than its field reaches (4 KiB and 1 MiB) is cut to
  the field and assembled to go elsewhere (`Cut`); `assembler/README.md:195`
  lists the error "Invalid immediate", "Constant out of range". `RunsAsWritten`
  supposes `InReach`.
* `.byte 08` (or `09`) is counted as one value and written as two, `0` and `8`,
  as `strtol` with base 0 ends an octal number before the 8 (`StrtolEnd`); every
  label after it is off. `CountsAgree` leaves such a list out, and only that
  (`NumberList` beside `AnyNumbers`).

* The stack pointer starts at 0x80100000 (`StackTop`) while memory ends at 16
  MiB, so that a push of a program that leaves `sp` alone fails, whatever
  `emulator/README.md` says of a stack at 0x80000000.
* A number too large for its field is cut to the field
  without a word (`Encode_i`, `Encode_b`); `assembler/README.md` lists an error
  "Invalid immediate". A register that does not exist is -1, whose ones cover
  the rest of the word (`Encoded`). `HarmContained` bounds both.
* A tab between mnemonic and operands makes an unknown instruction of a line
  pass 1 has counted (`Parse_instruction_args` beside `Parse_simple_args`).
* `li rd` with no number, or with an empty second operand, is counted as two
  words and written as one (`PassesAgree` leaves it out); `j` with no operand
  jumps to address 0.
* A `#` or a `:` inside a string is taken for a comment's or a label's end in
  both passes, so that an unlabelled `.asciiz "a: b"` is dropped; and a line
  with `.globl` anywhere, in its comment too, is passed over (`Passed_over`).
* `.byte 010` is octal (`strtol` with base 0), `.word 010` decimal (`atoi`).
* `li a0(5000),5` is sized by 5 in pass 1, one word, and by 5000 in pass 2, two
  words, as only pass 2 rewrites `offset(reg)` (`Unparenthesised`); every label
  after it is off. No one writes a line like it, and `PassesAgree` leaves out
  lines with a parenthesis ahead of their first comma.
* A negative `.space` is accepted: a section shrinks, those after it move down
  over it, and an address below zero wraps (`Position`); `li` of a label there
  takes two words (`Words2`).
* `trim` is called on arrays that were never set, which is undefined in C: they
  are among those `ExpansionReadBack` shows not to be encoded.
* The addition of 0x800 in `expand_pseudoinstruction` overflows an `int32_t`
  for the largest numbers; `Hi20` takes it to wrap, as builds do.
* The debug trace of a jump prints a target off by 4.
* Entering a section a second time seeks to its base again and overwrites what
  it held (`Target`; *Disciplined* excludes it).
* `li rd, label` is two words in pass 1 and one in pass 2 if the address is from
  -2048 to 2047 (`Words1`, `Words2`).
* A data directive in a text section is counted and never written (`Counted`,
  `Written`).
* "Natural alignment" of sections (`assembler/README.md`) is not there: a base
  is the plain sum of the sizes before it (`AdjustSection`).
* `memory.hpp` announces unaligned accesses; all are refused (`Check`).
* `INT32_MIN / -1` and `% -1` are evaluated in `int32_t`, undefined
  in C; where the host's division traps the emulator dies (`Overflows`, `Trap`).
* `fstat` answers 0 to a program whose buffer does not fit, without filling it,
  where `write` and `read` answer -1 (`Fstat`).
* `brk` always answers -ENOMEM (`Brk`).

## 5. Proofs

Every invariant, refinement and action property that a passing run checks is
also a theorem; liveness is left to TLC. Every theorem holds for all values of
the constants that satisfy the named assumptions of the modules, and is checked
by `tlapm` to the last leaf. Most assumptions describe the constants.
`UnsetAssumption` says that the mark of an array that was never set is no text.
`TokensAssumption` says that the tokens the code looks for or writes are
strings, for which the provers have no rule. `PowersAssumption` and
`RadixAssumption` are instances of what exponentiation is, which the installed
provers, having no theory of it, cannot derive; TLC evaluates every assumption.
`DecodeAssumption` says of `Decode` what `execute`'s switches make of any word:
a kind, and an operation that belongs to that kind (`Ops`), "illegal" included.
Theorems about the memory carry the hypothesis `MemSize >= 4` (below it `size -
4` wraps), those about refinement also `MemSize % 4 = 0`; the code has one size,
16 MiB.

**BasicFacts** holds what has nothing to do with the system: induction over
naturals and finite sets (with a set in the place of a predicate, from the
well-foundedness of `<`), that `SumFunctionOnSet` is the sum one expects,
division by products, and powers. **WordProofs** holds the facts on words: each
operation of `Alu` yields a word, the bytes of a value put together are the
value, and what the accessors load and store, in bytes and in words.

**ToolchainProofs**, part I, the two passes. For every set of sources of any
length, any sections, labels and map order:

* `TypeCorrect`: `Spec => []TypeOK`.
* `LabelInvariant`: `Spec => []LabelInv`, the inductive invariant. `LabelsAgree`
  alone is not inductive: it speaks of pass 2 only, while a label's value is
  settled two functions earlier. `LabelInv` has one conjunct for each stage:
  `History` (where pass 1 stood at each line follows from where it stood at the
  one before, by `Counted`), `LabelTable` (a label holds its line's place, moved
  by the base once `adjust_labels` has finished), `TextCount` (`pc_text` is the
  size of `.text` as long as that holds no directive), `Bases` (how far the
  bases of the first three sections are known, in the code's order), and
  `InStep` (on a disciplined source pass 2 stands at base plus the offset pass 1
  had). The proof has one lemma per conjunct, by cases on the actions that can
  disturb it. The heart is `TargetIsBase`, that on a disciplined source every
  seek goes to the base of the section, including the bare `.data` that goes to
  `pc_text`, and `TidyAgree`, that both passes count a tidy line alike.
* `LabelsAgreeAlways` follows.

Part II, the output, has a second invariant, `LayoutInv`, which is inductive
relative to `LabelInv`:

* `OneDefinition` and `Resolved`: the label table is made of the lines read,
  one line for each label, and pass 2 has looked up only what is in it.
  `NoDanglingReferenceAlways` follows, for every source.
* `Spread`: the sections placed so far lie side by side below `current_base`,
  without a gap; the others still have base 0, by which `adjust_labels` knows
  them. `SectionsApartAlways` follows.
* `KnownSections`, `Growth`: in each section tidy lines lie one after the other
  and fill it. With `Spread`, the lines of the whole file are apart, which is
  what `Output` needs to survive the next line: the file stands where the pc
  says, and the bytes a line wrote are within its place and still its own. That
  the position `fseek` was given is the pc rests on addresses that do not wrap
  (`Fits`) and on `TargetIsBase`. `OwnBytesAlways` follows.
* `Totals`: `text_size` and `data_size`, added up line by line in pass 1, are
  sums over the sections. With `Growth` and `Spread`, the file has no hole and
  is as long as reported: `ReportedSizesAlways`.
* `ImplementsAlways`: `Spec => Implements`. A line of pass 2 is a step of
  `Assembly` that adds a fresh interval, or a stutter, and at the end there is
  no hole; the step is trivial for undisciplined sources, of which `Assembly`
  makes no promise.

`LayoutInv` was checked by TLC on the instance of `all` before it was proved (no
error, three minutes); the run leaves it out, as the theorem says more.

Part III, the assembled program, for every such source and every load address:

* `AssemblerRunsAlone`: a behaviour of `Toolchain` is one of `TwoPass`, as the
  emulator changes nothing of the assembler. So `LabelInv` and `LayoutInv` hold
  in it, with `MachineInv` beside them: the machine is on only when the
  assembler has finished, and that `ip` and `reg` are addresses is claimed of
  disciplined programs only.
* `RunsAsWrittenAlways`: each step of the machine on a disciplined program is a
  step of `Flow`. `StandingIs` shows that pass 1 was in the section the text
  puts a line in. `GoesOn` is the heart: from any place between two lines of a
  section, what is found there in the file is the next line of that section that
  holds anything, since tidy sections have no holes and empty lines no bytes.
  `LabelPlace`, from `LabelInv`, takes a label to its line, and `CutFacts` shows
  that an even offset within reach survives its field whole. `ReachesIp` and
  `ReachesReg` put both in the author's terms, and `RunStep` goes through the
  instructions.

**TextProofs**, part I, data directives. For every text of any length and each
directive, the inductive invariant `Scan` counts *starts*, the first character
of each field that is not blank: what pass 1 has counted is the number of starts
before its position; a round of pass 2 passes at most one start, or does not
advance at all (`Stuck`), after which the loop never ends. `TypeOKAlways` and
`NeverShortAlways` follow. For `CountsAgreeAlways`, `NumberPassed` shows that in
a list of numbers (`NumberList`: in a `.byte`, a number that starts with 0 has
no 8 or 9) `strtol` and `strspn` both stop at the end of the number, so that a
round passes exactly one start. `ListsAccepted` is the safety half of
`NumbersEnd`; that the scan ends stays with TLC.

Part II, lines of instructions. The invariant `LinesInv` says that each pass has
what it takes from the line and that what was parsed is the text of some
expansion read back; the work is about the operators. A text is told by the
first and the last token that is not space (`TrimIs`) and by the first of each
separator (`CutAt`).

* `LinesTypeOKAlways`: operands have no space at their ends, for any line. Pass
  2 gets there although it drops what `trim` returns, because each operand it
  takes starts with no space and has only its end left to cut.
* `PassesAgreeAlways`: the first space pass 1 stops at is the first blank pass 2
  does, as long as the operation is one token (`OperationsAgree`), whether the
  line is rewritten or not: `RewriteKeeps` says what of a text the rewriting of
  `offset(reg)` leaves alone, which is all in front of the parenthesis. A second
  operand starts, in each pass, with the first token behind the first comma that
  is not space (`FollowsAt`, `SecondOfPass1`, `SecondOfPass2`), and if that
  comma stands in front of any parenthesis the rewriting changes neither
  (`SecondsAgree`).
* `ExpansionReadBackAlways`, for any operands a line can have, empty ones
  included: the text of an expansion is taken apart where it was put together,
  and only operands it names are taken from the arrays (`TwoRead`, `ThreeRead`).
* `ReadAsWrittenAlways`, of every set of lines that are `WrittenAs` what they
  are meant as: any run of space at the ends, around the label's colon, around
  commas and parentheses, and (after one blank) behind the operation; any
  comment but one with `.globl`; no operand, one, two, three or `offset(reg)`; a
  label and an operation of one token that is no directive, and operands of any
  number of tokens without marks. `CommentCut`, `LabelledIs`, `PlainRead` and
  `AddressedRead` follow the parsers. The lines of `MCLines` that mean something
  are of this form.

**AluProofs.** For words of every width (`Bits`), low parts of every width below
it (`LoBits`), and any two words:

* `ProductHalvesAlways`: the two halves of a product, cut from a word of twice
  the width, are together the product, with both factors signed, both unsigned,
  or one of each.
* `DivisionLawAlways`: quotient and remainder fit together, the remainder has
  the dividend's sign and is smaller than the divisor, and a divisor of zero
  gives what RISC-V says; of the overflow, undefined in C, nothing is said.
* `AluLawsAlways`: right shifts divide by powers of two, `and`, `or` and `xor`
  add up, subtraction undoes addition, comparisons order, the immediate forms
  agree.
* `PseudoMeaningAlways`: each pseudoinstruction leaves register and pc as it is
  documented to, in as many words as pass 1 reserved, and each low part fits the
  field of `addi`. The point is that the low part is signed, so that the high
  part has to be rounded (`Hi20`), and that both wrap at the ends.

**EncodingProofs.** For every line (any mnemonic, registers and numbers) and
every address. The invariant `Life` says that the word in the file is the
line's and that it is the word executed, and what remains is about the
functions. For each format, `FieldsOf_*` shows that every field of
`encode.cpp` is found again by `instructions.cpp`, the scattered immediates of
branches and jumps included; `Runs`, family by family, that the instruction
executed is the one meant but for its number, of which it has what its field
carried (`Carried`); and `FittingCarried` that a number that fits is carried
whole, from what two's complement is (`OnesOfShort`, `OnesOfBranch`,
`OnesOfJump`). `RoundTripAlways` follows. For `HarmContainedAlways`,
`HeldCarried` shows the held bits of any number to arrive, and `OpcodeKept` that
nothing that spilled reaches the opcode. `TypeOKAlways` says that 32 bits are
never exceeded.

**MemoryProofs.** With `Bounded`, which adds to `TypeOK` and `InBounds` what the
last call's fields range over: `TypeOKAlways`, `InBoundsAlways` (no accessor
that answers ok has left the array, for every width of word) and
`ImplementsAlways`: bytes put together least first and masked are what the array
of words, which knows no bytes, would hold.

**CpuProofs.** For every width, register set, decoder, memory and host:

* `ZeroRegisterAlways` (the inductive invariant adds that `x` has domain `Reg`;
  it needs that no system call's answer goes to register 0) and
  `CleanStopsAlways` (by cases on the ways a call can go), and `TypeOKAlways`.
* Of the emulator with `main`'s loop around it, the invariant `RunInv` relates
  the phase of `main`, the processor's last status, `running` and the exit code
  (`Judged`). `RunTypeOKAlways` and `VerdictAlways` follow.
* `ImplementsIsaAlways`: `RunSpec => ImplementsIsa`, one lemma for each kind of
  instruction and each system call: a call of `step` is a step of `Isa` on
  words of memory, at the address the code holds in `pc` or `pc - 4`, or a
  stutter. It needs `RunInv`, and from `WordProofs` what accessors do in words.
* `HostStaysInsideAlways`. An earlier form of `HostStaysInside` could not be
  proved, and was false for a count of `Modulus - 1`, whose answer in `a0` is
  the same word as -1, and when the loop has ended. No TLC instance had a
  memory as large as that; the property now names both conditions.

Model-checked only: liveness (`Terminates` of the emulator and `NumbersEnd`), as
the prover has neither fairness nor ENABLED within reach, and what the
violations of section 4 show.

## 6. What is not modelled

* Characters: how `reg_num` and `parse_imm` read a name or a number, the sizes
  of fixed buffers, and the operands of strings and `.space`, which enter
  `TwoPass` by what they count and write.
* `Toolchain` abstracts an executed instruction to control and one address, and
  `Cpu` takes decoding as a constant function, of which `Encoding.Executed` is
  the one of the code: 32-bit words are beyond TLC's integers, so the three are
  composed by their interfaces and not in one state machine.
* A second use of one `Assembler` object, which keeps the offsets of its
  sections; `main` uses it once and every test makes its own.
* What is in the output file after a failure; no document says.
* Command lines, opening files, debug output, the register dump: plain I/O.
* Build files and test scripts.

## 7. Plan

Done in this order: `TwoPass` and its proofs; `DataDirective`; `Alu`,
`Memory`, `Cpu`; `Emulator` and `Isa`; `Encoding`; `Pseudo`; `Toolchain` and
`Flow`; `Lines`.

Proved: every invariant, refinement and action property of a passing run.

Left:

1. Characters: `reg_num` and `parse_imm`, so that `Lines`, `Encoding` and
   `DataDirective` meet at the operands' texts and not at what these functions
   make of them; the operands of `.ascii` and `.space`.
2. Composing `Encoding` with `Cpu`: `Decode` as the decoder of 32-bit words
   instead of any function.
3. The loops' ends. Each scan has a measure the proofs could carry (the distance
   to the end of the text, the lines left, the steps left), which would give the
   safety half of termination: so many steps at most.
