----------------------------- MODULE MCTwoPass -----------------------------
(***************************************************************************)
(* Instances of TwoPass for TLC: the section names, the line forms and the *)
(* sets of sources the runs assemble.                                      *)
(***************************************************************************)
EXTENDS TwoPass

CONSTANTS
    MaxLines,       \* bound: the longest of the sources of every form ...
    MaxTidyLines    \* bound: ... and of the disciplined ones

MCNames == Standard \cup {".init", ".vectors", ".text.startup"}
MCTypeOf ==
    [s \in MCNames |->
        CASE s \in {".text", ".text.startup"} -> "text"
          [] s = ".rodata" -> "rodata"
          [] s = ".data" -> "data"
          [] s = ".bss" -> "bss"
          [] OTHER -> "custom"]
MCMapOrder == <<".bss", ".data", ".init", ".rodata", ".text", ".text.startup", ".vectors">>
MCLabels == {"a", "b"}

Switch(f, n) == [kind |-> "switch", form |-> f, name |-> n]
Item(l, b) == [kind |-> "item", label |-> l, body |-> b]
Instr(o, x) == [kind |-> "instruction", op |-> o, arg |-> x]
Dir(c, w) == [kind |-> "directive", counted |-> c, written |-> w]
None == [kind |-> "none"]
Bad == [kind |-> "malformed"]

\* One form of each kind the passes tell apart.
AllForms ==
    { Switch("section", ".text"), Switch("section", ".text.startup"),
      Switch("section", ".init"), Switch("section", ".vectors"), Switch("bare", ".text"),
      Switch("bare", ".data"), Switch("bare", ".rodata"),
      Switch("commented", ".data"),
      Item("a", None), Item("a", Instr("branch", "b")), Item("b", Dir(4, 4)),
      Item(NoLabel, Instr("plain", NoLabel)), Item(NoLabel, Instr("jump", "a")),
      Item(NoLabel, Instr("la", "a")), Item(NoLabel, Instr("liLabel", "a")),
      Item("b", Instr("liLarge", NoLabel)), Item(NoLabel, Instr("unknown", NoLabel)),
      Item(NoLabel, Dir(4, 4)), Item(NoLabel, Dir(1, 2)), Item(NoLabel, Dir(-4, 0)),
      Item("b", Bad), Item(NoLabel, Bad) }

\* Forms a careful programmer writes.
TidyForms ==
    { Switch("section", ".data"), Switch("bare", ".rodata"), Switch("bare", ".text"),
      Switch("section", ".init"),
      Item("a", Instr("liLarge", NoLabel)), Item(NoLabel, Instr("la", "b")),
      Item(NoLabel, Instr("branch", "a")), Item(NoLabel, Instr("jump", "b")),
      Item("b", Dir(3, 3)), Item(NoLabel, Dir(1, 1)) }

Programs(forms, max) == UNION {[1 .. n -> forms] : n \in 0 .. max}
AllSources == Programs(AllForms, MaxLines)

\* The discipline, told from the text alone: no section is entered twice,
\* nor .text once the file has started in it, and no bare .data in a file
\* that enters .rodata.
WellFormed(s) ==
    \A i \in 1 .. Len(s) :
        /\ Effective(s[i]) =>
              /\ Laid(s[i].name)
              /\ \A j \in 1 .. i - 1 : s[j].kind = "item" => Standing(s, j) # s[i].name
              /\ (s[i].form = "bare" /\ s[i].name = ".data") =>
                    \A j \in 1 .. Len(s) :
                        ~(Effective(s[j]) /\ s[j].name = ".rodata")
        /\ s[i].kind = "item" => Tidy(s[i], Standing(s, i))
WellFormedSources == {s \in Programs(TidyForms, MaxTidyLines) : WellFormed(s)}

\* Single programs, as the documentation writes them.

Nop == Item(NoLabel, Instr("plain", NoLabel))
\* assembler/README.md's example of custom sections.
StartupSources ==
    {<<Switch("section", ".text.startup"), Item("a", Instr("liSmall", NoLabel)),
       Nop, Nop, Switch("section", ".text"), Item("b", Instr("plain", NoLabel))>>}
\* A .data label beside a read-only string.
RodataSources ==
    {<<Item(NoLabel, Instr("la", "b")), Switch("bare", ".rodata"), Item("a", Dir(3, 3)),
       Switch("bare", ".data"), Item("b", Dir(4, 4))>>}
\* QUICKSTART.md's sections, each with its comment.
CommentedSources ==
    {<<Switch("commented", ".text"), Nop, Switch("commented", ".data"),
       Item("a", Dir(4, 4))>>}
=============================================================================
