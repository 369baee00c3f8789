----------------------------- MODULE Assembly -----------------------------
(***************************************************************************)
(* What an assembler promises of its output file: every source line writes *)
(* its bytes in one place and once, no line writes over another's, and a   *)
(* program that assembles leaves a file without holes.  How addresses are  *)
(* found, in how many passes and in which order of sections, is left open. *)
(***************************************************************************)
EXTENDS Integers

VARIABLES
    status,     \* "working", "done" or "failed"
    image       \* a function from addresses to the line that wrote the byte

vars == <<status, image>>

Init == status = "working" /\ image = [a \in {} |-> 0]

Owners == {image[a] : a \in DOMAIN image}

\* A line that has written nothing yet adds an interval of new bytes, which
\* changes none of those already there.
EmitLine ==
    /\ status = "working" /\ UNCHANGED status
    /\ DOMAIN image \subseteq DOMAIN image'
    /\ \A a \in DOMAIN image : image'[a] = image[a]
    /\ LET new == DOMAIN image' \ DOMAIN image IN
       /\ new # {}
       /\ \A a, b \in new : /\ image'[a] = image'[b]
                            /\ image'[a] \notin Owners
                            /\ a .. b \subseteq new

\* Every byte before a written one is written.
Finish ==
    /\ status = "working" /\ status' = "done"
    /\ DOMAIN image \subseteq Nat
    /\ \A a \in DOMAIN image : 0 .. a \subseteq DOMAIN image
    /\ UNCHANGED image

Fail == status = "working" /\ status' = "failed" /\ UNCHANGED image

Next == EmitLine \/ Finish \/ Fail

Spec == Init /\ [][Next]_vars
=============================================================================
