--------------------------- MODULE DataDirective ---------------------------
(***************************************************************************)
(* The operands of .byte, .half and .word, scanned twice by two different  *)
(* loops: process_directive counts the values in pass 1, and               *)
(* process_data_directive converts and writes them in pass 2.  TwoPass     *)
(* relies on both finding the same number.                                 *)
(*                                                                         *)
(* A text is a sequence of character classes, what the loops and the C     *)
(* library functions they call tell apart: "0", "7" (a digit from 1 to 7), *)
(* "9" (8 or 9), "x", "f" (a hex letter), "-", "m" (any other character of *)
(* a name), "," and " ".  It has no trailing blank (trim) and no comment;  *)
(* a plus sign is left out.  Operators whose name starts with Bad are      *)
(* faulty variants of the one that follows, which the properties were      *)
(* tried on.                                                               *)
(***************************************************************************)
EXTENDS Integers, Sequences, FiniteSetsExt

CONSTANTS
    Texts,      \* the operand texts scanned
    Units,      \* bytes per value: 1 (.byte), 2 (.half), 4 (.word)
    Defined,    \* the texts that are names of labels in the label table
    Wrap        \* bound: where the count of values wraps round, as the code's
                \* 32-bit pc does; more than any text holds

Class == {"0", "7", "9", "x", "f", "-", "m", ",", " "}
ASSUME TextsAssumption == Texts \subseteq Seq(Class)
ASSUME UnitsAssumption == Units \subseteq {1, 2, 4}
ASSUME DefinedAssumption == Defined \subseteq Seq(Class)
ASSUME WrapAssumption == Wrap \in Nat /\ \A t \in Texts : Len(t) < Wrap

VARIABLES
    text,       \* what follows the directive's name (never changes)
    unit,       \* which directive (never changes)
    phase,      \* "count" in pass 1, "emit" in pass 2, then "done" or "exit"
    ptr,        \* the position scanned
    counted,    \* values pass 1 counted
    emitted     \* values pass 2 wrote, modulo Wrap

vars == <<text, unit, phase, ptr, counted, emitted>>

----------------------------------------------------------------------------
OctalDigit == {"0", "7"}
Digit == {"0", "7", "9"}
HexDigit == {"0", "7", "9", "f"}
Separator == {",", " "}

End == Len(text) + 1
At(p) == IF p < End THEN text[p] ELSE "end"

\* The first position from p on that holds none of the classes C.
Span(p, C) == Min({q \in p .. End : At(q) \notin C})

\* Where strtol(ptr, &end, 0) stops: a sign, then a hexadecimal number if it
\* has the prefix and a digit, else an octal one if it starts with 0, else a
\* decimal one; at p itself when there is no number.
StrtolEnd(p) ==
    LET d == IF At(p) = "-" THEN p + 1 ELSE p
    IN  IF At(d) = "0" /\ At(d + 1) = "x" /\ At(d + 2) \in HexDigit
        THEN Span(d + 2, HexDigit)
        ELSE IF At(d) = "0" THEN Span(d, OctalDigit)
        ELSE IF At(d) \in Digit THEN Span(d, Digit) ELSE p

\* parse_imm takes what starts like a number for one ...
StartsNumber(p) == At(p) \in Digit \/ (At(p) = "-" /\ At(p + 1) \in Digit)
\* ... and all the rest of the line for the name of a label, which
\* find_label looks up or exits.
NamesLabel(p) == SubSeq(text, p, Len(text)) \in Defined

BadValueEnd(p) == IF unit = 1 THEN StrtolEnd(p)
                  ELSE Span(p, {"0", "7", "9", "x", "f", "-", ","})
\* Where the value at p ends: strtol's end for a .byte, for the others the
\* strspn over everything a number may hold.
ValueEnd(p) == IF unit = 1 THEN StrtolEnd(p)
               ELSE Span(p, {"0", "7", "9", "x", "f", "-"})

----------------------------------------------------------------------------
Init ==
    /\ text \in Texts
    /\ unit \in Units
    /\ phase = "count"
    /\ ptr = 1
    /\ counted = 0
    /\ emitted = 0

BadNextField(p) == Span(p, Class \ {","}) + 1
\* Past the next comma, or the end of the text.
NextField(p) ==
    LET comma == Span(p, Class \ {","})
    IN  IF comma < End THEN comma + 1 ELSE comma

\* Pass 1: a value reaches to the next comma.
CountValue ==
    /\ phase = "count" /\ ptr < End /\ At(ptr) \notin Separator
    /\ counted' = counted + 1
    /\ ptr' = NextField(ptr)
    /\ UNCHANGED <<text, unit, phase, emitted>>

CountSkip ==
    /\ phase = "count" /\ ptr < End /\ At(ptr) \in Separator
    /\ ptr' = ptr + 1
    /\ UNCHANGED <<text, unit, phase, counted, emitted>>

CountEnd ==
    /\ phase = "count" /\ ptr = End
    /\ phase' = "emit"
    /\ ptr' = 1
    /\ UNCHANGED <<text, unit, counted, emitted>>

BadAfter(p) == Span(p, {","})
\* Pass 2: one round of the loop writes a value, if one starts here, and
\* skips the separators after it.
After(p) == Span(p, Separator)

EmitValue ==
    /\ phase = "emit" /\ ptr < End /\ At(ptr) \notin Separator
    /\ unit = 1 \/ StartsNumber(ptr) \/ NamesLabel(ptr)
    /\ emitted' = (emitted + 1) % Wrap
    /\ ptr' = After(ValueEnd(ptr))
    /\ UNCHANGED <<text, unit, phase, counted>>

EmitSkip ==
    /\ phase = "emit" /\ ptr < End /\ At(ptr) \in Separator
    /\ ptr' = After(ptr)
    /\ UNCHANGED <<text, unit, phase, counted, emitted>>

\* "Undefined label", exit(1).
EmitUndefined ==
    /\ phase = "emit" /\ ptr < End /\ At(ptr) \notin Separator
    /\ ~(unit = 1 \/ StartsNumber(ptr) \/ NamesLabel(ptr))
    /\ phase' = "exit"
    /\ UNCHANGED <<text, unit, ptr, counted, emitted>>

EmitEnd ==
    /\ phase = "emit" /\ ptr = End
    /\ phase' = "done"
    /\ UNCHANGED <<text, unit, ptr, counted, emitted>>

Next ==
    \/ CountValue \/ CountSkip \/ CountEnd
    \/ EmitValue \/ EmitSkip \/ EmitUndefined \/ EmitEnd

\* The loops of one sequential program run on until they leave.
Spec == Init /\ [][Next]_vars /\ WF_vars(Next)

----------------------------------------------------------------------------
(* Properties.                                                             *)

\* The scanners stay inside the text and below the bound while they count.
TypeOK ==
    /\ text \in Seq(Class) /\ unit \in Units
    /\ phase \in {"count", "emit", "done", "exit"}
    /\ ptr \in 1 .. End
    /\ counted \in 0 .. Len(text)
    /\ emitted \in 0 .. Wrap - 1

\* A number, written to the end of what the directive reads: decimal or
\* hexadecimal, with the digits `after` where it starts with 0.
Number(p, q, after) ==
    LET d == IF At(p) = "-" THEN p + 1 ELSE p
    IN  /\ d < q
        /\ \/ \A r \in d .. q - 1 : At(r) \in (IF At(d) = "0" THEN after ELSE Digit)
           \/ /\ At(d) = "0" /\ d + 2 < q /\ At(d + 1) = "x"
              /\ \A r \in d + 2 .. q - 1 : At(r) \in HexDigit

\* Numbers separated by one comma each, blanks around them allowed: the form
\* every example of the documentation has.
Fields == {0, End} \cup {p \in 1 .. Len(text) : text[p] = ","}
ListOf(after) ==
    \A a, b \in Fields :
        (a < b /\ \A c \in Fields : ~(a < c /\ c < b)) =>
            \E p, q \in a + 1 .. b :
                /\ Number(p, q, after)
                /\ \A r \in (a + 1 .. p - 1) \cup (q .. b - 1) : At(r) = " "

\* What anyone takes for a list of numbers, and what C does: in a .byte, 0
\* starts an octal number.
AnyNumbers == ListOf(Digit)
NumberList == ListOf(IF unit = 1 THEN OctalDigit ELSE Digit)

\* A list of numbers, those of a .byte as C reads them, takes in pass 2 the
\* bytes pass 1 reserved for it, so no label after it moves; .byte 08 does not.
CountsAgree == (phase = "done" /\ NumberList) => emitted = counted

\* Whatever the text, a directive that ends never wrote fewer values than
\* were counted: a mistyped list may push what follows up, never leave a
\* hole before it.
NeverShort == phase = "done" => emitted >= counted

\* A list of numbers of any form is always written to its end, and never
\* rejected.
NumbersEnd == AnyNumbers => <>(phase = "done")

\* "Handle all relocations (label references)" and "Report any remaining
\* errors" (assembler/README.md): every operand is written or rejected.
OperandsEnd == <>(phase \in {"done", "exit"})
=============================================================================
