-------------------------------- MODULE Flow --------------------------------
(***************************************************************************)
(* A program as its author reads it, without addresses: the lines of       *)
(* .text are executed one after the other, a jump goes on at the line of   *)
(* its label, an address names a line, and a call remembers the line after *)
(* it.  What follows the last line of a section is left open.              *)
(***************************************************************************)
EXTENDS Integers, Sequences

VARIABLES
    lines,      \* the program: a section, a kind and a label's line for each
    mode,       \* "off", "on" or "stopped"
    here,       \* the line executed next
    ptr         \* the line an address in a register stands for

vars == <<lines, mode, here, ptr>>

\* At v', once the step is done, stands the first line of the section from
\* line i on that holds anything, if there is one.
Reaches(v, sec, i) ==
    LET there == {j \in i .. Len(lines) : lines[j].sec = sec /\ lines[j].kind # "empty"}
    IN  there = {} \/ (v' \in there /\ \A j \in there : v' <= j)

\* The line itself, and the line of its label.
Self == lines[here]
Onward(v) == Reaches(v, Self.sec, here + 1)
AtLabel(v) == Self.to # 0 /\ Reaches(v, lines[Self.to].sec, Self.to)

Running(kind) == mode = "on" /\ here # 0 /\ Self.kind = kind /\ mode' = "on"

Start == mode = "off" /\ mode' = "on" /\ Reaches(here, ".text", 1)

Plain == Running("plain") /\ Onward(here) /\ UNCHANGED ptr
Branch == Running("branch") /\ (AtLabel(here) \/ Onward(here)) /\ UNCHANGED ptr
Jump == Running("jump") /\ AtLabel(here) /\ (UNCHANGED ptr \/ Onward(ptr))
TakeAddress == Running("address") /\ Onward(here) /\ AtLabel(ptr)
Indirect == Running("any") /\ (Onward(here) \/ here' = ptr) /\ UNCHANGED ptr

\* Nothing to execute there.
Stop ==
    /\ mode = "on" /\ mode' = "stopped"
    /\ here # 0 => Self.kind = "data"
    /\ UNCHANGED <<here, ptr>>

Next == Start \/ Plain \/ Branch \/ Jump \/ TakeAddress \/ Indirect \/ Stop
=============================================================================
