------------------------------ MODULE MCLines ------------------------------
(***************************************************************************)
(* Lines as they may be spaced and commented, and every short text.        *)
(***************************************************************************)
EXTENDS Lines

CONSTANT MaxTokens      \* bound: the longest of the arbitrary texts
                        \* (one less with parentheses)

Pads == {<<>>, <<"\t">>}
LabelForms == {<<>>, <<"top", ":">>, <<"top", " ", ":", "\t">>}
Gaps == {<<" ">>, <<" ", "\t">>}
Commas == {<<",">>, <<" ", ",", " ", " ">>, <<",", "\t">>}
Comments == {<<>>, <<"#">>, <<" ", "#", "(", "a", ")">>, <<"\t", "#", "a", ":", " ", ".byte", ",">>}

\* The operand texts of an instruction, with the operands meant.
OperandForms ==
    {[text |-> <<>>, a |-> <<<<>>, <<>>, <<>>>>]} \cup
    {[text |-> g \o <<"r1">>, a |-> <<<<"r1">>, <<>>, <<>>>>] : g \in Gaps} \cup
    {[text |-> g \o <<"r1">> \o c \o <<"r2">>, a |-> <<<<"r1">>, <<"r2">>, <<>>>>] :
        g \in Gaps, c \in Commas} \cup
    {[text |-> g \o <<"r1">> \o c \o <<"r2">> \o d \o <<"r3">>,
      a |-> <<<<"r1">>, <<"r2">>, <<"r3">>>>] : g \in Gaps, c, d \in Commas} \cup
    {[text |-> g \o <<"r1">> \o c \o <<"8">> \o o \o <<"r3">> \o p,
      a |-> <<<<"r1">>, <<"8">>, <<"r3">>>>] :
        g \in Gaps, c \in Commas, o \in {<<"(">>, <<" ", "(", " ">>}, p \in {<<")">>, <<" ", ")">>}}

Written ==
    {[text |-> p \o l \o <<op>> \o o.text \o c,
      meant |-> [label |-> IF l = <<>> THEN <<>> ELSE <<"top">>, op |-> op, a |-> o.a]] :
        p \in Pads, l \in LabelForms, o \in OperandForms, c \in Comments,
        op \in {"add", "nop", "mv", "li", "la", "call", "ret", "j"}}

Tokens == {" ", "\t", ",", ":", "#", "li", "x", ".byte"}
Texts(tokens, max) == UNION {[1 .. n -> tokens] : n \in 0 .. max}
Arbitrary ==
    {[text |-> t, meant |-> Unread] :
        t \in Texts(Tokens, MaxTokens) \cup Texts(Tokens \cup {"(", ")"}, MaxTokens - 1)}

MCCases == Written \cup Arbitrary
=============================================================================
