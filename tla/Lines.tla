-------------------------------- MODULE Lines --------------------------------
(***************************************************************************)
(* How a line of a text section is read: first_pass cuts it into label and *)
(* body and takes operation and operands with parse_simple_args, pass 2    *)
(* cuts it again and takes them with its own parse_instruction_args, which *)
(* also reads back the text of expanded pseudoinstructions.                *)
(*                                                                         *)
(* A text is a sequence of tokens: spaces, punctuation and words, which    *)
(* stand for runs of characters no scan stops in.  Operators whose name    *)
(* starts with Bad are faulty variants of the one that follows, which the  *)
(* properties were tried on.                                               *)
(***************************************************************************)
EXTENDS Integers, Sequences, SequencesExt

CONSTANTS
    Cases,      \* bound: the lines read, each with the parts meant by it
    Unread,     \* what a line that no one meant anything by is meant by
    Unset       \* an operand array nothing was copied to

\* A line meant as an instruction: its label (empty if none), its operation
\* and its three operands (empty if absent).
Operands == [1 .. 3 -> Seq(STRING)]
Parts == [label : Seq(STRING), op : STRING, a : Operands]
Lines == [text : Seq(STRING), meant : Parts \cup {Unread}]
ASSUME CasesAssumption == Cases \subseteq Lines
\* A mark that is no text.
ASSUME UnsetAssumption == Unset \notin Seq(STRING)
\* The tokens the code looks for or writes are strings: the provers have no
\* rule that a literal is one.
ASSUME TokensAssumption ==
    {",", " ", "#", ":", "(", ")", "addi", "lui", "auipc", "jal", "jalr", "x0", "x1", "0",
     "imm", "hi20", "lo12"} \subseteq STRING

VARIABLES
    line,       \* the line (never changes)
    stage,      \* "source", "first", "second"
    got1, got2, \* what the passes took from the line
    parsed      \* the expanded instructions, meant and as read back

lineVars == <<line, stage, got1, got2, parsed>>

----------------------------------------------------------------------------
(* Scanning.                                                               *)

Space == {" ", "\t"}
Sections == {".text", ".data", ".rodata", ".bss"}
Directives == Sections \cup {".section", ".globl", ".byte"}

\* strchr: the first such token, 0 if there is none; and what lies on
\* either side of it, all on the left if there is none.
Find(s, c) == SelectInSeq(s, LAMBDA t : t = c)
Before(s, c) == IF Find(s, c) = 0 THEN s ELSE SubSeq(s, 1, Find(s, c) - 1)
Beyond(s, c) == IF Find(s, c) = 0 THEN <<>> ELSE SubSeq(s, Find(s, c) + 1, Len(s))

TrimLeft(s) ==
    LET k == SelectInSeq(s, LAMBDA t : t \notin Space)
    IN  IF k = 0 THEN <<>> ELSE SubSeq(s, k, Len(s))
TrimRight(s) == SubSeq(s, 1, SelectLastInSeq(s, LAMBDA t : t \notin Space))
Trim(s) == TrimLeft(TrimRight(s))

----------------------------------------------------------------------------
(* What the two passes have in common.                                     *)

\* Empty and comment lines, section directives and anything with .globl in
\* it, comments included, are dealt with before the comment is cut off.
Passed_over(s) ==
    \/ s = <<>>
    \/ s[1] \in {"#", ".section"}
    \/ \E d \in Sections : s = <<d>>
    \/ Find(s, ".globl") # 0

Uncommented(s) == Trim(Before(s, "#"))

\* The first colon of what is left ends a label.
BadBody(s) == TrimLeft(IF Find(s, ":") = 0 THEN s ELSE Beyond(s, ":"))
Body(s) ==
    LET u == Uncommented(s)
    IN  TrimLeft(IF Find(u, ":") = 0 THEN u ELSE Beyond(u, ":"))
LabelOf(s) ==
    LET u == Uncommented(s) IN IF Find(u, ":") = 0 THEN <<>> ELSE Trim(Before(u, ":"))

Nothing == [label |-> <<>>, op |-> <<>>, a |-> <<<<>>, <<>>, <<>>>>]

----------------------------------------------------------------------------
(* Pass 1.                                                                 *)

BadParse_simple_args(s) ==
    LET k == SelectInSeq(s, LAMBDA t : t \in Space)
        args == IF k = 0 THEN <<>> ELSE TrimLeft(SubSeq(s, k, Len(s)))
    IN  [op |-> IF k = 0 THEN s ELSE SubSeq(s, 1, k - 1),
         a |-> <<Before(args, ","), Beyond(args, ","), <<>>>>]
\* The operation ends at any space; the second operand is all there is
\* after the first comma.
Parse_simple_args(s) ==
    LET k == SelectInSeq(s, LAMBDA t : t \in Space)
        args == IF k = 0 THEN <<>> ELSE TrimLeft(SubSeq(s, k, Len(s)))
    IN  [op |-> IF k = 0 THEN s ELSE SubSeq(s, 1, k - 1),
         a |-> <<Trim(Before(args, ",")), Trim(Beyond(args, ",")), <<>>>>]

\* A directive is an instruction only after a label.
Taken1(text) ==
    LET s == Trim(text)
        b == Body(s)
        p == Parse_simple_args(b)
        directive == Find(Uncommented(s), ":") = 0 /\ b[1] \in Directives
    IN  IF Passed_over(s) THEN Nothing
        ELSE IF b = <<>> \/ directive THEN [Nothing EXCEPT !.label = LabelOf(s)]
        ELSE [label |-> LabelOf(s), op |-> p.op, a |-> p.a]

----------------------------------------------------------------------------
(* Pass 2.                                                                 *)

\* offset(reg) becomes offset,reg; the offset reaches back to a space or a
\* comma.
BadUnparenthesised(s) ==
    LET open == Find(s, "(")
        close == Find(s, ")")
    IN  IF open = 0 \/ close < open THEN s
        ELSE SubSeq(s, 1, open - 1) \o SubSeq(s, open + 1, close - 1)
               \o SubSeq(s, close + 1, Len(s))
Unparenthesised(s) ==
    LET open == Find(s, "(")
        inner == SubSeq(s, open + 1, Len(s))
    IN  IF open = 0 \/ Find(inner, ")") = 0 THEN s
        ELSE SubSeq(s, 1, open - 1) \o <<",">> \o Before(inner, ")") \o Beyond(inner, ")")

\* The operation ends at the first blank, which a tab is not; the operands
\* that have no text keep what was in their arrays, `was`.
BadParse_instruction_args(s, was) ==
    LET args == Trim(Beyond(s, " "))
        rest == Beyond(args, ",")
    IN  [op |-> Before(s, " "),
         a |-> IF Find(s, " ") = 0 THEN <<was, was, was>>
               ELSE IF Find(args, ",") = 0 THEN <<args, was, was>>
               ELSE <<Before(args, ","), was, Trim(rest)>>]
Parse_instruction_args(s, was) ==
    LET args == Trim(Beyond(s, " "))
        rest == Beyond(args, ",")
    IN  [op |-> Before(s, " "),
         a |-> IF Find(s, " ") = 0 THEN <<was, was, was>>
               ELSE IF Find(args, ",") = 0 THEN <<args, was, was>>
               ELSE IF Find(rest, ",") = 0 THEN <<Before(args, ","), Trim(rest), was>>
               ELSE <<Before(args, ","), TrimLeft(Before(rest, ",")), Trim(Beyond(rest, ","))>>]

BadTrimmedInPlace(p) == p
\* The calls of trim whose result is not used: they cut at the end, if there
\* is anything but space.
TrimmedInPlace(p) ==
    [p EXCEPT !.a = [k \in 1 .. 3 |->
        IF p.a[k] = Unset \/ TrimLeft(p.a[k]) = <<>> THEN p.a[k] ELSE TrimRight(p.a[k])]]

Taken2(text) ==
    LET s == Trim(text)
        b == Trim(Body(s))
        p == TrimmedInPlace(Parse_instruction_args(Unparenthesised(b), <<>>))
    IN  IF Passed_over(s) \/ b = <<>> \/ b[1] \in Directives THEN Nothing
        ELSE [label |-> <<>>, op |-> p.op, a |-> p.a]

\* The instructions of an expansion and the text snprintf writes for one.
Ins(op, a) == [op |-> op, a |-> a]
Expansions(op, a) ==
    CASE op = <<"nop">> -> {<<Ins("addi", <<<<"x0">>, <<"x0">>, <<"0">>>>)>>}
      [] op = <<"mv">> -> {<<Ins("addi", <<a[1], a[2], <<"0">>>>)>>}
      [] op = <<"li">> -> {<<Ins("addi", <<a[1], <<"x0">>, <<"imm">>>>)>>,
                           <<Ins("lui", <<a[1], <<"hi20">>>>),
                             Ins("addi", <<a[1], a[1], <<"lo12">>>>)>>}
      [] op = <<"la">> -> {<<Ins("auipc", <<a[1], <<"hi20">>>>),
                             Ins("addi", <<a[1], a[1], <<"lo12">>>>)>>}
      [] op = <<"call">> -> {<<Ins("jal", <<<<"x1">>, a[1]>>)>>}
      [] op = <<"ret">> -> {<<Ins("jalr", <<<<"x0">>, <<"x1">>, <<"0">>>>)>>}
      [] op = <<"j">> -> {<<Ins("jal", <<<<"x0">>, a[1]>>)>>}
      [] OTHER -> {<<>>}

Printed(i) ==
    <<i.op, " ">> \o i.a[1] \o <<",", " ">> \o i.a[2]
      \o IF Len(i.a) = 3 THEN <<",", " ">> \o i.a[3] ELSE <<>>

ReadBack(i) ==
    [meant |-> i, read |-> TrimmedInPlace(Parse_instruction_args(Printed(i), Unset))]

----------------------------------------------------------------------------
LinesInit ==
    /\ line \in Cases
    /\ stage = "source"
    /\ got1 = Nothing /\ got2 = Nothing
    /\ parsed = <<>>

First_pass ==
    /\ stage = "source" /\ stage' = "first"
    /\ got1' = Taken1(line.text)
    /\ UNCHANGED <<line, got2, parsed>>

\* process_instruction_second_pass, up to encode_instruction.  Whether li
\* needs two instructions depends on its number.
Second_pass ==
    /\ stage = "first" /\ stage' = "second"
    /\ got2' = Taken2(line.text)
    /\ \E e \in Expansions(got2'.op, got2'.a) : parsed' = [k \in DOMAIN e |-> ReadBack(e[k])]
    /\ UNCHANGED <<line, got1>>

LinesNext == First_pass \/ Second_pass

LinesSpec == LinesInit /\ [][LinesNext]_lineVars

----------------------------------------------------------------------------
(* Properties.                                                             *)

Cut == [label : Seq(STRING), op : Seq(STRING), a : Operands]
Tight(s) == s = <<>> \/ (s[1] \notin Space /\ s[Len(s)] \notin Space)

\* Either pass makes of any line an operation and three operands with no
\* space at either end, which reg_num and find_label compare whole: the
\* second pass although it calls trim for its side effect only.
LinesTypeOK ==
    /\ line \in Lines /\ stage \in {"source", "first", "second"}
    /\ got1 \in Cut /\ got2 \in Cut
    /\ \A k \in 1 .. 3 : Tight(got1.a[k]) /\ Tight(got2.a[k])
    /\ Len(parsed) <= 2

\* A line written as an instruction, with memory operands in parentheses, with
\* spaces and tabs anywhere around its parts, is read as written by both passes
\* (which do not share the code).  Two things are asked of it: a blank right
\* after the operation, where pass 2 takes no tab (second_pass.cpp:136), and a
\* comment without .globl, which takes the whole line for a directive.
ReadAsWritten ==
    line.meant # Unread =>
        /\ stage # "source" =>
              got1.label = line.meant.label /\ got1.op = <<line.meant.op>>
        /\ stage = "second" => got2.op = <<line.meant.op>> /\ got2.a = line.meant.a

\* Pass 2 alone rewrites the first parenthesis to a comma (second_pass.cpp,
\* 286-313).  In all but a parenthesis ahead of the commas that comma comes
\* after the second operand.
BehindComma(b) == Find(b, "(") = 0 \/ Find(b, ",") \in 1 .. Find(b, "(") - 1

\* Of any line, parentheses included, an operation pass 2 may know is the one
\* pass 1 counted the words of.  The text that decides whether li is short or
\* long starts alike (if there is any: an li without its number counts two
\* words and writes one), unless a parenthesis stands ahead of the first
\* comma.  There it need not: li a0(5000),5 is one word in pass 1, which reads
\* the 5, and two in pass 2, which reads the 5000, and every later label moves.
PassesAgree ==
    (stage = "second" /\ Len(got2.op) = 1 /\ got2.op # <<",">>) =>
        /\ got1.op = got2.op
        /\ (BehindComma(Body(Trim(line.text))) /\ got2.a[2] # <<>>) =>
              got1.a[2] # <<>> /\ got1.a[2][1] = got2.a[2][1]

\* An expanded instruction is encoded from the operands the expansion gave
\* it, whatever is in the arrays parse_instruction_args does not fill.
ExpansionReadBack ==
    \A k \in DOMAIN parsed :
        LET p == parsed[k]
        IN  /\ p.read.op = <<p.meant.op>>
            /\ \A n \in DOMAIN p.meant.a : p.read.a[n] = p.meant.a[n]
=============================================================================
