------------------------------ MODULE TwoPass ------------------------------
(***************************************************************************)
(* The two-pass assembler: Assembler::first_pass sizes every line and      *)
(* records every label, adjust_labels gives each section its base address  *)
(* and moves the labels, second_pass reads the file again and writes the   *)
(* output.  One step is one source line of a pass, or one section of       *)
(* adjust_labels, as in the loops of the code.                             *)
(*                                                                         *)
(* A source line is abstracted to what the passes decide on: which section *)
(* it names and in which form, which label it defines, and what its body   *)
(* counts in pass 1 and writes in pass 2.                                  *)
(*                                                                         *)
(* Addresses are integers.  The code keeps them in uint32_t, which hold    *)
(* their residue; where it takes that for something else, the position of  *)
(* the file (a long) or the signed number of an li, so do Position and     *)
(* Signed.                                                                 *)
(***************************************************************************)
EXTENDS Integers, Sequences, FiniteSets, Functions

CONSTANTS
    Sources,    \* the programs assembled: a set of sequences of Line
    Labels,     \* label names
    NoLabel,    \* a line that defines, or an operand that names, no label
    Names,      \* section names a source may use
    TypeOf,     \* get_section_type of each of them
    MapOrder,   \* Names in the order std::map iterates over them
    SmallImm,   \* the largest address for which li fits one addi (2047)
    Modulus     \* of the code's addresses (2^32)

Standard == {".text", ".rodata", ".data", ".bss"}
SectionType == {"text", "rodata", "data", "bss", "custom"}

\* A line that names a section: `.section X`, a bare `.text`, `.rodata`,
\* `.data` or `.bss`, or one of these with a comment after it, which neither
\* pass recognises (the strcmp comes before the comment is stripped).
SwitchLine ==
    [kind : {"switch"}, form : {"section"}, name : Names]
      \cup [kind : {"switch"}, form : {"bare", "commented"}, name : Standard]

\* The body of a line.  "liLabel" is `li rd, label`; "plain" stands for the
\* instructions and pseudoinstructions of one word; "unknown" is a mnemonic
\* encode_instruction does not know.  A directive counts `counted` bytes in
\* pass 1 and writes `written` in pass 2 (modelled in DataDirective); a
\* negative .space counts less than nothing; a malformed one is a string
\* without its quote or with a bad escape.  "branch" and "jump" (jal, j and
\* call) name a label; one to a number is not followed.
Instruction ==
    [kind : {"instruction"}, op : {"plain", "liSmall", "liLarge", "unknown"},
     arg : Labels \cup {NoLabel}]
      \cup [kind : {"instruction"}, op : {"branch", "jump", "liLabel", "la"}, arg : Labels]
Directive == [kind : {"directive"}, counted : Int, written : Nat]
Malformed == [kind : {"malformed"}]
NoBody == [kind : {"none"}]
Body == Instruction \cup Directive \cup Malformed \cup NoBody

ItemLine == [kind : {"item"}, label : Labels \cup {NoLabel}, body : Body]
Line == SwitchLine \cup ItemLine

ASSUME SourcesAssumption == Sources \subseteq Seq(Line)
ASSUME NamesAssumption ==
    /\ Standard \subseteq Names
    /\ TypeOf \in [Names -> SectionType]
    /\ TypeOf[".text"] = "text" /\ TypeOf[".rodata"] = "rodata"
    /\ TypeOf[".data"] = "data" /\ TypeOf[".bss"] = "bss"
ASSUME MapOrderAssumption ==
    /\ MapOrder \in Seq(Names)
    /\ \A n \in Names : \E k \in 1 .. Len(MapOrder) : MapOrder[k] = n
    /\ \A j, k \in 1 .. Len(MapOrder) : MapOrder[j] = MapOrder[k] => j = k
ASSUME LabelsAssumption == NoLabel \notin Labels
ASSUME SmallImmAssumption == SmallImm \in Nat
ASSUME ModulusAssumption == Modulus \in Nat \ {0}

VARIABLES
    src,        \* the source file (never changes)
    phase,      \* which function runs, or how main ended
    ln,         \* the line the pass reads next
    current,    \* current_section_name of the running pass
    offset,     \* SectionInfo::offset
    base,       \* SectionInfo::base_addr
    labels,     \* the label table
    pc_text,    \* bytes of instructions counted in .text
    sizes,      \* text_size and data_size, as main reports them
    next,       \* position in adjust_labels
    free,       \* current_base of adjust_labels
    pc,         \* pc of second_pass
    fpos,       \* position of the output file
    image,      \* the output: which line wrote each byte written so far
    at1,        \* history: section and offset where pass 1 reached each line
    at2         \* history: where pass 2 reached each line, and the end of
                \* what it wrote for it

vars == <<src, phase, ln, current, offset, base, labels, pc_text, sizes,
          next, free, pc, fpos, image, at1, at2>>

----------------------------------------------------------------------------
(* What a line counts in pass 1 and writes in pass 2.  Operators whose     *)
(* name starts with Bad are faulty variants of the one that follows them:  *)
(* the bugs the properties were tried on.                                  *)

IsText(s) == TypeOf[s] = "text"

BadWords1(i) == IF i.op \in {"liLarge", "liLabel"} THEN 2 ELSE 1
\* pseudoinstruction_size, and one word for what is no pseudoinstruction
\* (process_instruction_first_pass): without the label's value `li` is
\* taken to be long.
Words1(i) == IF i.op \in {"liLarge", "liLabel", "la"} THEN 2 ELSE 1

\* The int32_t parse_imm makes of the address find_label returns.
Signed(a) == ((a + (Modulus \div 2)) % Modulus) - (Modulus \div 2)

\* expand_pseudoinstruction, which decides on the value of the label.
Words2(i) ==
    CASE i.op \in {"liLarge", "la"} -> 2
      [] i.op = "liLabel" /\ Signed(labels[i.arg].addr) \notin -SmallImm - 1 .. SmallImm -> 2
      [] OTHER -> 1

BadCounted(line, s) ==
    IF IsText(s) THEN (IF line.body.kind = "none" THEN 0 ELSE 4)
    ELSE IF line.body.kind = "directive" THEN line.body.counted ELSE 0
\* In a text section everything after a label is taken for an instruction.
Counted(line, s) ==
    LET b == line.body IN
    CASE b.kind = "instruction" /\ IsText(s) -> 4 * Words1(b)
      [] b.kind \in {"directive", "malformed"} /\ IsText(s) /\ line.label # NoLabel -> 4
      [] b.kind = "directive" /\ ~(IsText(s) /\ line.label # NoLabel) -> b.counted
      [] OTHER -> 0

BadWritten(line, s) ==
    IF line.body.kind = "directive" /\ ~IsText(s) THEN line.body.written - 1
    ELSE IF line.body.kind = "instruction" /\ IsText(s) THEN 4 * Words2(line.body) ELSE 0
\* Pass 2 skips the directives of a text section and the instructions of
\* the others.
Written(line, s) ==
    LET b == line.body IN
    CASE b.kind = "instruction" /\ IsText(s) -> 4 * Words2(b)
      [] b.kind = "directive" /\ ~IsText(s) -> b.written
      [] OTHER -> 0

Effective(line) == line.kind = "switch" /\ line.form # "commented"
Ignored(line) == line.kind = "switch" /\ line.form = "commented"

----------------------------------------------------------------------------
BadInitialSection == ""
InitialSection == ".text"
Start1 == [sec |-> ".text", off |-> 0]
Start2 == [at |-> 0, end |-> 0]

\* The state Assembler::Assembler leaves, and the source main opens.
Init ==
    /\ src \in Sources
    /\ phase = "first_pass"
    /\ ln = 1
    /\ current = InitialSection
    /\ offset = [s \in Names |-> 0]
    /\ base = [s \in Names |-> 0]
    /\ labels = [l \in {} |-> 0]
    /\ pc_text = 0
    /\ sizes = [text |-> 0, data |-> 0]
    /\ next = 1
    /\ free = 0
    /\ pc = 0
    /\ fpos = 0
    /\ image = [a \in {} |-> 0]
    /\ at1 = [i \in 1 .. Len(src) + 1 |-> Start1]
    /\ at2 = [i \in 1 .. Len(src) |-> Start2]

AtLine == ln \in 1 .. Len(src)

(* exit(1), from wherever the code calls it. *)
Fail ==
    /\ phase' = "failed"
    /\ UNCHANGED <<src, ln, current, offset, base, labels, pc_text, sizes,
                   next, free, pc, fpos, image, at1, at2>>

----------------------------------------------------------------------------
(* Pass 1.                                                                 *)

UnchangedByPass1 == UNCHANGED <<src, phase, base, sizes, next, free, pc,
                                fpos, image, at2>>

\* A section directive the code recognises: switch_section.
Pass1Switch ==
    /\ phase = "first_pass" /\ AtLine /\ Effective(src[ln])
    /\ current' = src[ln].name
    /\ ln' = ln + 1
    /\ at1' = [at1 EXCEPT ![ln + 1] = [sec |-> src[ln].name,
                                       off |-> offset[src[ln].name]]]
    /\ UNCHANGED <<offset, labels, pc_text>>
    /\ UnchangedByPass1

\* A section directive with a comment: a '.' line process_directive does
\* not know.
Pass1Ignored ==
    /\ phase = "first_pass" /\ AtLine /\ Ignored(src[ln])
    /\ ln' = ln + 1
    /\ at1' = [at1 EXCEPT ![ln + 1] = [sec |-> current, off |-> offset[current]]]
    /\ UNCHANGED <<current, offset, labels, pc_text>>
    /\ UnchangedByPass1

Duplicate(line) == line.label # NoLabel /\ line.label \in DOMAIN labels

\* process_directive exits on a malformed string, unless the line is a
\* labelled one of a text section, which it never sees.
Rejected(line) ==
    line.body.kind = "malformed" /\ ~(IsText(current) /\ line.label # NoLabel)

\* process_label, then the body: process_instruction_first_pass or
\* process_directive.  pc_text follows only instructions of .text.
Pass1Item ==
    /\ phase = "first_pass" /\ AtLine /\ src[ln].kind = "item"
    /\ ~Duplicate(src[ln]) /\ ~Rejected(src[ln])
    /\ LET line == src[ln]
           n == Counted(line, current)
           asInstruction == line.body.kind = "instruction" \/ line.label # NoLabel
       IN  /\ labels' = IF line.label = NoLabel THEN labels
                        ELSE [l \in DOMAIN labels \cup {line.label} |->
                                IF l = line.label
                                THEN [addr |-> offset[current], sec |-> current]
                                ELSE labels[l]]
           /\ offset' = [offset EXCEPT ![current] = @ + n]
           /\ pc_text' = IF current = ".text" /\ asInstruction THEN pc_text + n
                         ELSE pc_text
           /\ at1' = [at1 EXCEPT ![ln + 1] = [sec |-> current,
                                              off |-> offset[current] + n]]
    /\ ln' = ln + 1
    /\ UNCHANGED current
    /\ UnchangedByPass1

Pass1Fail ==
    /\ phase = "first_pass" /\ AtLine /\ src[ln].kind = "item"
    /\ Duplicate(src[ln]) \/ Rejected(src[ln])
    /\ Fail

BadDataTypes == {"data", "bss"}
DataTypes == {"rodata", "data", "bss"}

\* End of the file: the sizes main will report.
Pass1End ==
    /\ phase = "first_pass" /\ ~AtLine
    /\ phase' = "adjust_labels"
    /\ sizes' = [text |-> SumFunctionOnSet(offset, {s \in Names : IsText(s)}),
                 data |-> SumFunctionOnSet(offset,
                            {s \in Names : TypeOf[s] \in DataTypes})]
    /\ UNCHANGED <<src, ln, current, offset, base, labels, pc_text, next, free,
                   pc, fpos, image, at1, at2>>

----------------------------------------------------------------------------
(* adjust_labels.  A section whose type is not custom and which is not one *)
(* of the four standard ones (.text.startup, .data.rel) gets no base.      *)

Visits == 4 + Len(MapOrder)
Visited(k) ==
    CASE k = 1 -> ".text"
      [] k = 2 -> ".rodata"
      [] k = 3 -> ".data"
      [] k = 4 -> ".bss"
      [] OTHER -> MapOrder[k - 4]

UnchangedByAdjust == UNCHANGED <<src, ln, offset, pc_text, sizes, pc, fpos,
                                 image, at1, at2>>

BadPlaced(k) ==
    k # 2 /\ (k <= 4 \/ (TypeOf[Visited(k)] = "custom" /\ base[Visited(k)] = 0))
Placed(k) ==
    k <= 4 \/ (TypeOf[Visited(k)] = "custom" /\ base[Visited(k)] = 0)

AdjustSection ==
    /\ phase = "adjust_labels" /\ next <= Visits
    /\ next' = next + 1
    /\ IF Placed(next)
       THEN /\ base' = [base EXCEPT ![Visited(next)] = free]
            /\ free' = free + offset[Visited(next)]
       ELSE UNCHANGED <<base, free>>
    /\ UNCHANGED <<phase, current, labels>>
    /\ UnchangedByAdjust

\* The loop over the labels, then second_pass starts in .text with pc 0.
AdjustEnd ==
    /\ phase = "adjust_labels" /\ next > Visits
    /\ labels' = [l \in DOMAIN labels |->
                    [addr |-> labels[l].addr + base[labels[l].sec],
                     sec |-> labels[l].sec]]
    /\ phase' = "second_pass"
    /\ ln' = 1
    /\ current' = ".text"
    /\ pc' = 0
    /\ fpos' = 0
    /\ UNCHANGED <<src, offset, base, pc_text, sizes, next, free, image, at1, at2>>

----------------------------------------------------------------------------
(* Pass 2.                                                                 *)

UnchangedByPass2 == UNCHANGED <<src, phase, offset, base, labels, pc_text,
                                sizes, next, free, at1>>

BadTarget(line) ==
    CASE line.form = "bare" /\ line.name = ".text" -> 0
      [] line.form = "bare" /\ line.name = ".data" -> pc_text
      [] TypeOf[line.name] = "custom" -> 0
      [] OTHER -> base[line.name]
\* Where a section directive sends the pc and the file: a bare .text to 0, a
\* bare .data to pc_text, every other one to the section's base.
Target(line) ==
    CASE line.form = "bare" /\ line.name = ".text" -> 0
      [] line.form = "bare" /\ line.name = ".data" -> pc_text
      [] OTHER -> base[line.name]

\* The position fseek is given: the uint32_t of the pc, never negative.
Position(a) == a % Modulus

Pass2Switch ==
    /\ phase = "second_pass" /\ AtLine /\ Effective(src[ln])
    /\ current' = src[ln].name
    /\ pc' = Target(src[ln])
    /\ fpos' = Position(Target(src[ln]))
    /\ at2' = [at2 EXCEPT ![ln] = [at |-> Target(src[ln]), end |-> Target(src[ln])]]
    /\ ln' = ln + 1
    /\ UNCHANGED image
    /\ UnchangedByPass2

Pass2Ignored ==
    /\ phase = "second_pass" /\ AtLine /\ Ignored(src[ln])
    /\ at2' = [at2 EXCEPT ![ln] = [at |-> pc, end |-> pc]]
    /\ ln' = ln + 1
    /\ UNCHANGED <<current, pc, fpos, image>>
    /\ UnchangedByPass2

\* A label looked up only where the expansion needs its value.
BadUnencodable(line) ==
    /\ line.body.kind = "instruction" /\ IsText(current)
    /\ \/ line.body.op = "unknown"
       \/ line.body.op = "liLabel" /\ line.body.arg \notin DOMAIN labels
\* encode_instruction and find_label exit on an unknown mnemonic or label.
Unencodable(line) ==
    /\ line.body.kind = "instruction" /\ IsText(current)
    /\ \/ line.body.op = "unknown"
       \/ line.body.arg # NoLabel /\ line.body.arg \notin DOMAIN labels

\* process_instruction_second_pass or process_data_directive: the bytes go
\* where the file stands, the pc moves with them.
Pass2Item ==
    /\ phase = "second_pass" /\ AtLine /\ src[ln].kind = "item"
    /\ ~Unencodable(src[ln])
    /\ LET n == Written(src[ln], current)
           bytes == fpos .. fpos + n - 1
       IN  /\ image' = [a \in DOMAIN image \cup bytes |->
                           IF a \in bytes THEN ln ELSE image[a]]
           /\ pc' = pc + n
           /\ fpos' = fpos + n
           /\ at2' = [at2 EXCEPT ![ln] = [at |-> pc, end |-> pc + n]]
    /\ ln' = ln + 1
    /\ UNCHANGED current
    /\ UnchangedByPass2

Pass2Fail ==
    /\ phase = "second_pass" /\ AtLine /\ src[ln].kind = "item"
    /\ Unencodable(src[ln])
    /\ Fail

Pass2End ==
    /\ phase = "second_pass" /\ ~AtLine
    /\ phase' = "done"
    /\ UNCHANGED <<src, ln, current, offset, base, labels, pc_text, sizes,
                   next, free, pc, fpos, image, at1, at2>>

----------------------------------------------------------------------------
Next ==
    \/ Pass1Switch \/ Pass1Ignored \/ Pass1Item \/ Pass1Fail \/ Pass1End
    \/ AdjustSection \/ AdjustEnd
    \/ Pass2Switch \/ Pass2Ignored \/ Pass2Item \/ Pass2Fail \/ Pass2End

Spec == Init /\ [][Next]_vars

----------------------------------------------------------------------------
(* Properties.                                                             *)

ReadType ==
    /\ src \in Sources
    /\ phase \in {"first_pass", "adjust_labels", "second_pass", "done", "failed"}
    /\ ln \in 1 .. Len(src) + 1
    /\ current \in Names
Pass1Type ==
    /\ offset \in [Names -> Int]
    /\ DOMAIN labels \subseteq Labels
    /\ labels \in [DOMAIN labels -> [addr : Int, sec : Names]]
    /\ pc_text \in Int
    /\ at1 \in [1 .. Len(src) + 1 -> [sec : Names, off : Int]]
AdjustType ==
    /\ base \in [Names -> Int]
    /\ next \in 1 .. Visits + 1
    /\ free \in Int
Pass2Type ==
    /\ pc \in Int
    /\ fpos \in Int
    /\ image \in [DOMAIN image -> 1 .. Len(src)]
    /\ at2 \in [1 .. Len(src) -> [at : Int, end : Int]]
\* Every variable keeps the shape the code's types give it.
TypeOK == ReadType /\ Pass1Type /\ AdjustType /\ Pass2Type

\* The sections adjust_labels knows.
Laid(s) == s \in Standard \/ TypeOf[s] = "custom"

\* A line both passes take for the same number of bytes, whatever the
\* labels turn out to be.
Tidy(line, s) ==
    LET b == line.body IN
    /\ b.kind = "instruction" /\ IsText(s) => b.op # "liLabel"
    /\ b.kind = "directive" => ~IsText(s) /\ b.counted = b.written
    /\ b.kind = "malformed" => ~IsText(s)

\* What adjust_labels placed ends at an address.
Fits == free < Modulus

\* The sources the two passes agree on, told from what pass 1 and
\* adjust_labels found: a section is entered while it is still empty, it is
\* one adjust_labels knows, a bare .data is used only beside an empty
\* .rodata, every line is tidy, and addresses do not wrap.
Disciplined ==
    /\ \A i \in 1 .. Len(src) :
          /\ Effective(src[i]) =>
                /\ at1[i + 1].off = 0
                /\ Laid(src[i].name)
                /\ src[i].form = "bare" /\ src[i].name = ".data" => offset[".rodata"] = 0
          /\ src[i].kind = "item" => Tidy(src[i], at1[i].sec)
    /\ Fits

\* The section a line of a source belongs to, told from the text alone.
Standing(s, i) ==
    LET before == {j \in 1 .. i - 1 : Effective(s[j])}
    IN  IF before = {} THEN ".text"
        ELSE s[CHOOSE j \in before : \A k \in before : k <= j].name

\* The lines pass 2 has finished with.
Handled ==
    CASE phase = "second_pass" -> 1 .. ln - 1
      [] phase = "done" -> 1 .. Len(src)
      [] OTHER -> {}

Defines(i, l) == src[i].kind = "item" /\ src[i].label = l

\* A label has the address at which pass 2 stood when it came to the line
\* that defines it: what the two passes count separately agrees, forward
\* references, sections written out of order and bases included.
LabelsMatch ==
    \A i \in Handled : \A l \in DOMAIN labels :
        Defines(i, l) => labels[l].addr = at2[i].at
LabelsAgree == Disciplined => LabelsMatch

\* The bytes a line wrote are still its own when pass 2 is further on: no
\* fseek takes the file back over finished output.
BytesKept ==
    \A i \in Handled : \A a \in at2[i].at .. at2[i].end - 1 :
        a \in DOMAIN image /\ image[a] = i
OwnBytes == Disciplined => BytesKept

\* The sections adjust_labels knows share no address, unless a negative
\* .space has made one shrink below zero or the addresses wrap.
SectionsApart ==
    (phase \in {"second_pass", "done"} /\ Fits /\ \A s \in Names : offset[s] >= 0) =>
        \A s, t \in Names : (Laid(s) /\ Laid(t) /\ s # t) =>
            \/ base[s] + offset[s] <= base[t]
            \/ base[t] + offset[t] <= base[s]

\* The file is as long as main reports (and the custom sections it leaves
\* out of both sums), with no byte missing.
ReportedSizes ==
    (phase = "done" /\ Disciplined) =>
        LET custom == SumFunctionOnSet(offset, {s \in Names : TypeOf[s] = "custom"})
        IN  DOMAIN image = 0 .. sizes.text + sizes.data + custom - 1

\* "Assembled successfully" is printed only when every label an encoded
\* instruction names is defined, by exactly one line.
NoDanglingReference ==
    phase = "done" =>
        \A i \in 1 .. Len(src) :
            (src[i].kind = "item" /\ src[i].body.kind = "instruction"
               /\ IsText(at1[i].sec) /\ src[i].body.arg # NoLabel) =>
            \E j \in 1 .. Len(src) : /\ Defines(j, src[i].body.arg)
                                     /\ \A k \in 1 .. Len(src) :
                                           Defines(k, src[i].body.arg) => k = j

\* What the documentation says of every source, disciplined or not.

\* QUICKSTART.md writes section directives with a comment after them: a line
\* that names a section selects it.
DirectiveObeyed ==
    \A i \in 1 .. Len(src) :
        (src[i].kind = "switch" /\ i < ln /\ phase = "first_pass")
            => at1[i + 1].sec = src[i].name

\* The assembler of the disciplined sources does what an assembler promises.
Promise == INSTANCE Assembly WITH
    status <- IF phase \in {"done", "failed"} THEN phase ELSE "working"
Implements == Promise!Init /\ [][Disciplined => Promise!Next]_(Promise!vars)

----------------------------------------------------------------------------
(* Why LabelsAgree and OwnBytes hold: the inductive invariant.             *)

\* The lines pass 1 has dealt with.
Read1 ==
    CASE phase = "first_pass" -> 1 .. ln - 1
      [] phase = "failed" -> {}
      [] OTHER -> 1 .. Len(src)

Laying == phase \in {"adjust_labels", "second_pass", "done"}
Moved == phase \in {"second_pass", "done"}

\* at1 is what pass 1 did, line by line, and where it stands.
History ==
    /\ at1[1] = Start1
    /\ \A i \in Read1 :
         /\ Effective(src[i]) => at1[i + 1].sec = src[i].name
         /\ Ignored(src[i]) => at1[i + 1] = at1[i]
         /\ src[i].kind = "item" =>
               /\ at1[i + 1].sec = at1[i].sec
               /\ at1[i + 1].off = at1[i].off + Counted(src[i], at1[i].sec)
    /\ phase = "first_pass" => /\ at1[ln].sec = current
                               /\ at1[ln].off = offset[current]

\* A label holds the place of its line, moved by the section's base once
\* adjust_labels has run.
LabelTable ==
    \A i \in Read1 : \A l \in Labels : Defines(i, l) =>
        /\ l \in DOMAIN labels
        /\ labels[l].sec = at1[i].sec
        /\ labels[l].addr = at1[i].off + (IF Moved THEN base[at1[i].sec] ELSE 0)

\* pc_text is the size of .text as long as .text holds no directive.
CodeOnly ==
    \A i \in Read1 : (src[i].kind = "item" /\ at1[i].sec = ".text")
                        => src[i].body.kind # "directive"
TextCount == (phase # "failed" /\ CodeOnly) => pc_text = offset[".text"]

\* The bases handed out so far: the first three, in the code's order, which
\* is not that of assembler/README.md:222-226.
Bases ==
    /\ phase = "first_pass" => next = 1
    /\ Moved => next = Visits + 1
    /\ next = 1 => free = 0
    /\ Laying =>
         /\ next >= 2 => base[".text"] = 0
         /\ next = 2 => free = offset[".text"]
         /\ next >= 3 => base[".rodata"] = offset[".text"]
         /\ next = 3 => free = offset[".text"] + offset[".rodata"]
         /\ next >= 4 => base[".data"] = offset[".text"] + offset[".rodata"]

\* Pass 2 stands in the section pass 1 stood in, at the address pass 1's
\* count gives, and so it did on every line it has handled.
InStep ==
    /\ phase = "second_pass" => /\ current = at1[ln].sec
                                /\ Disciplined => pc = base[at1[ln].sec] + at1[ln].off
    /\ Disciplined => \A i \in Handled : src[i].kind = "item" =>
          at2[i].at = base[at1[i].sec] + at1[i].off

LabelInv == TypeOK /\ History /\ LabelTable /\ TextCount /\ Bases /\ InStep

----------------------------------------------------------------------------
(* Why the other properties hold: what LabelInv leaves open.               *)

IsItem(i) == src[i].kind = "item"

\* The labels of the table are those of the lines read, of one line each.
OneDefinition ==
    phase # "failed" =>
        /\ \A l \in DOMAIN labels : \E i \in Read1 : Defines(i, l)
        /\ \A i, j \in Read1 : \A l \in Labels :
              Defines(i, l) /\ Defines(j, l) => i = j

\* Line i is an instruction pass 2 encodes, with a label for an operand.
Refers(i) ==
    /\ IsItem(i) /\ src[i].body.kind = "instruction"
    /\ IsText(at1[i].sec) /\ src[i].body.arg # NoLabel
Resolved == \A i \in Handled : Refers(i) => src[i].body.arg \in DOMAIN labels

\* The entries of at1 pass 1 has made.
Reached == {1} \cup {i + 1 : i \in Read1}

\* It has reached no section adjust_labels does not know, unless told to.
KnownSections ==
    (\A i \in Read1 : Effective(src[i]) => Laid(src[i].name)) =>
        \A i \in Reached : Laid(at1[i].sec)

\* Tidy lines only lengthen a section: each lies wholly before wherever the
\* section is entered or continued later, and together they fill it.
Growth ==
    (phase # "failed" /\ \A i \in Read1 : IsItem(i) => Tidy(src[i], at1[i].sec)) =>
        /\ \A s \in Names : offset[s] >= 0
        /\ \A i \in Reached : at1[i].off >= 0 /\ at1[i].off <= offset[at1[i].sec]
        /\ \A i \in Read1, j \in Reached :
              (i < j /\ IsItem(i) /\ at1[j].sec = at1[i].sec) => at1[i + 1].off <= at1[j].off
        /\ \A s \in Names : \A o \in 0 .. offset[s] - 1 :
              \E i \in Read1 : /\ IsItem(i) /\ at1[i].sec = s
                               /\ o \in at1[i].off .. at1[i + 1].off - 1

\* adjust_labels has come to the section, and placed it.
Settled(s) == Laid(s) /\ \E k \in 1 .. next - 1 : Visited(k) = s

\* A custom section not yet visited has base 0, by which the code tells it
\* from the others; those visited are side by side, without a gap, below
\* current_base.
Spread ==
    /\ \A s \in Names : (TypeOf[s] = "custom" /\ ~Settled(s)) => base[s] = 0
    /\ (Laying /\ \A s \in Names : offset[s] >= 0) =>
         /\ free >= 0
         /\ \A s \in Names : Settled(s) => base[s] >= 0 /\ base[s] + offset[s] <= free
         /\ \A s, t \in Names : (Settled(s) /\ Settled(t) /\ s # t) =>
               \/ base[s] + offset[s] <= base[t]
               \/ base[t] + offset[t] <= base[s]
         /\ \A a \in 0 .. free - 1 : \E s \in Names :
               Settled(s) /\ a \in base[s] .. base[s] + offset[s] - 1

\* The file stands where the pc says, on a disciplined source: a byte of the
\* output lies where its line wrote, and a line wrote what pass 1 counted
\* for it and still owns it.
Output ==
    phase # "failed" =>
        /\ phase = "second_pass" /\ Disciplined => fpos = pc
        /\ \A a \in DOMAIN image : image[a] \in Handled
        /\ Disciplined => \A a \in DOMAIN image : a \in at2[image[a]].at .. at2[image[a]].end - 1
        /\ \A i \in Handled : ~IsItem(i) => at2[i].end = at2[i].at
        /\ Disciplined => \A i \in Handled : IsItem(i) =>
              at2[i].end = base[at1[i].sec] + at1[i + 1].off
        /\ Disciplined => BytesKept

\* main's sums are those of the offsets adjust_labels goes by, and
\* current_base is the sum of the offsets of the sections placed.
Totals ==
    Laying =>
        /\ sizes.text = SumFunctionOnSet(offset, {s \in Names : IsText(s)})
        /\ sizes.data = SumFunctionOnSet(offset, {s \in Names : TypeOf[s] \in DataTypes})
        /\ free = SumFunctionOnSet(offset, {s \in Names : Settled(s)})

LayoutInv ==
    /\ OneDefinition /\ Resolved /\ KnownSections /\ Growth
    /\ Spread /\ Totals /\ Output

=============================================================================
