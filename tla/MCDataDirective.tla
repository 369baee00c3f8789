-------------------------- MODULE MCDataDirective --------------------------
(* Instances of DataDirective: all short texts, and the label operands.    *)
EXTENDS DataDirective

CONSTANT MaxLen     \* longest text, after the blank that starts it

\* A blank after the directive's name, then a trimmed text.
MCTexts ==
    {<<" ">> \o t : t \in UNION {{u \in [1 .. n -> Class] : u[n] # " "} :
                                  n \in 1 .. MaxLen}}
\* Labels called "m", "mm" and "fm" (such as main, or data).
MCDefined == {<<"m">>, <<"m", "m">>, <<"f", "m">>, <<"f">>}
LabelTexts == {<<" ", "m", "m">>}
=============================================================================
