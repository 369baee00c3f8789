-------------------------- MODULE ToolchainProofs --------------------------
(***************************************************************************)
(* Proofs about the assembler and about programs that it has assembled,    *)
(* for every set of sources, labels and sections and every load address:   *)
(*                                                                         *)
(*   I    TwoPass: its types, and the two passes in step;                  *)
(*   II   its output: where the sections lie, who owns each byte of the    *)
(*        file, which labels are known, and that the assembler is the      *)
(*        abstract one of Assembly;                                        *)
(*   III  Toolchain: a disciplined program is executed as it reads.        *)
(***************************************************************************)
EXTENDS Toolchain, BasicFacts

----------------------------------------------------------------------------
(***************************************************************************)
(* I. The two passes.                                                      *)
(***************************************************************************)

(* Lines and the layout.                                                   *)

\* What a line of each kind carries.
LEMMA LineFacts ==
    ASSUME NEW x \in Line
    PROVE  /\ x.kind \in {"switch", "item"}
           /\ x.kind = "switch" => x.name \in Names
           /\ x.kind = "item" => /\ x.label \in Labels \cup {NoLabel}
                                 /\ x.body.kind \in {"instruction", "directive", "malformed", "none"}
                                 /\ x.body.kind = "directive" => /\ x.body.counted \in Int
                                                                 /\ x.body.written \in Nat
<1>1. CASE x \in SwitchLine
  BY <1>1, NamesAssumption DEF SwitchLine, Standard
<1>2. CASE x \in ItemLine
  <2>1. x.kind = "item" /\ x.label \in Labels \cup {NoLabel} /\ x.body \in Body
    BY <1>2 DEF ItemLine
  <2>2. CASE x.body \in Instruction
    BY <2>1, <2>2 DEF Instruction
  <2>3. CASE x.body \in Directive
    BY <2>1, <2>3 DEF Directive
  <2>4. CASE x.body \in Malformed \cup NoBody
    BY <2>1, <2>4 DEF Malformed, NoBody
  <2> QED BY <2>1, <2>2, <2>3, <2>4 DEF Body
<1> QED BY <1>1, <1>2 DEF Line

\* The line a pass reads is a line.
LEMMA LineTyped ==
    ASSUME src \in Sources, NEW i \in 1 .. Len(src)
    PROVE  src[i] \in Line
BY SourcesAssumption

\* Sources are finite sequences.
LEMMA SourceLength ==
    ASSUME src \in Sources
    PROVE  Len(src) \in Nat
BY SourcesAssumption

\* What a line counts is an integer, what it writes a natural number.
LEMMA CountedInt ==
    ASSUME NEW x \in Line, x.kind = "item", NEW s \in Names
    PROVE  Counted(x, s) \in Int
BY LineFacts DEF Counted, Words1, IsText

\* What a line of pass 2 writes is a natural number of bytes.
LEMMA WrittenNat ==
    ASSUME NEW x \in Line, x.kind = "item", NEW s \in Names
    PROVE  Written(x, s) \in Nat
BY LineFacts DEF Written, Words2, IsText

\* An address that fits is the position of its byte.
LEMMA PositionFacts ==
    ASSUME NEW a \in Int
    PROVE  /\ Position(a) \in Int
           /\ a >= 0 /\ a < Modulus => Position(a) = a
BY ModulusAssumption DEF Position

\* The order of adjust_labels: the four standard sections, then the map.
LEMMA VisitFacts ==
    /\ Visits \in Nat /\ Visits >= 4
    /\ \A k \in 1 .. Visits : Visited(k) \in Names
<1>1. Visits \in Nat /\ Visits >= 4
  BY MapOrderAssumption DEF Visits
<1>2. ASSUME NEW k \in 1 .. Visits PROVE Visited(k) \in Names
  <2>1. CASE k <= 4
    <3>1. k \in {1, 2, 3, 4}
      BY <2>1
    <3> QED BY <3>1, NamesAssumption DEF Visited, Standard
  <2>2. CASE k > 4
    <3>1. k - 4 \in 1 .. Len(MapOrder) /\ k \notin {1, 2, 3, 4}
      BY <2>2, MapOrderAssumption DEF Visits
    <3>2. MapOrder[k - 4] \in Names
      BY <3>1, MapOrderAssumption
    <3> QED BY <3>1, <3>2 DEF Visited
  <2> QED BY <1>1, <2>1, <2>2
<1> QED BY <1>1, <1>2

----------------------------------------------------------------------------
(* Type correctness.                                                       *)

\* What leaves a part of the state alone leaves its type alone.
LEMMA TypeStutter ==
    /\ Pass1Type /\ UNCHANGED <<src, offset, labels, pc_text, at1>> => Pass1Type'
    /\ AdjustType /\ UNCHANGED <<base, next, free>> => AdjustType'
    /\ Pass2Type /\ UNCHANGED <<src, pc, fpos, image, at2>> => Pass2Type'
<1>1. Pass1Type /\ UNCHANGED <<src, offset, labels, pc_text, at1>> => Pass1Type'
  BY DEF Pass1Type
<1>2. AdjustType /\ UNCHANGED <<base, next, free>> => AdjustType'
  BY DEF AdjustType, Visits
<1>3. Pass2Type /\ UNCHANGED <<src, pc, fpos, image, at2>> => Pass2Type'
  BY DEF Pass2Type
<1> QED BY <1>1, <1>2, <1>3

\* The types hold initially and every step of either pass keeps them.
THEOREM TypeCorrect == Spec => []TypeOK
<1>1. Init => TypeOK
  <2> SUFFICES ASSUME Init PROVE TypeOK
    OBVIOUS
  <2>1. Len(src) \in Nat
    BY SourceLength DEF Init
  <2> QED BY <2>1, VisitFacts, NamesAssumption
          DEF Init, InitialSection, TypeOK, ReadType, Pass1Type, AdjustType, Pass2Type, Start1, Start2, Standard
<1>2. TypeOK /\ [Next]_vars => TypeOK'
  <2> SUFFICES ASSUME TypeOK, [Next]_vars PROVE TypeOK'
    OBVIOUS
  <2>1. Len(src) \in Nat
    BY SourceLength DEF TypeOK, ReadType
  <2>2. CASE Pass1Switch
    <3>1. ln \in 1 .. Len(src) /\ src[ln].name \in Names
      BY <2>2, LineTyped, LineFacts DEF Pass1Switch, AtLine, Effective, TypeOK, ReadType
    <3>2. ReadType'
      BY <2>1, <2>2, <3>1 DEF Pass1Switch, UnchangedByPass1, TypeOK, ReadType
    <3>3. Pass1Type'
      BY <2>1, <2>2, <3>1 DEF Pass1Switch, UnchangedByPass1, TypeOK, Pass1Type
    <3> QED BY <2>2, <3>2, <3>3, TypeStutter DEF Pass1Switch, UnchangedByPass1, TypeOK
  <2>3. CASE Pass1Ignored
    <3>1. ReadType'
      BY <2>1, <2>3 DEF Pass1Ignored, UnchangedByPass1, AtLine, TypeOK, ReadType
    <3>2. Pass1Type'
      BY <2>1, <2>3 DEF Pass1Ignored, UnchangedByPass1, AtLine, TypeOK, ReadType, Pass1Type
    <3> QED BY <2>3, <3>1, <3>2, TypeStutter DEF Pass1Ignored, UnchangedByPass1, TypeOK
  <2>4. CASE Pass1Item
    <3> DEFINE n == Counted(src[ln], current)
    <3>1. ln \in 1 .. Len(src) /\ src[ln] \in Line /\ src[ln].kind = "item"
      BY <2>4, LineTyped DEF Pass1Item, AtLine, TypeOK, ReadType
    <3>2. n \in Int /\ src[ln].label \in Labels \cup {NoLabel} /\ current \in Names
      BY <3>1, CountedInt, LineFacts DEF TypeOK, ReadType
    <3>3. ReadType'
      BY <2>1, <2>4, <3>1 DEF Pass1Item, UnchangedByPass1, TypeOK, ReadType
    <3>4. /\ DOMAIN labels' \subseteq Labels
          /\ labels' \in [DOMAIN labels' -> [addr : Int, sec : Names]]
      BY <2>4, <3>2 DEF Pass1Item, TypeOK, Pass1Type
    <3> HIDE DEF n
    <3>5. offset' \in [Names -> Int] /\ pc_text' \in Int
          /\ at1' \in [1 .. Len(src) + 1 -> [sec : Names, off : Int]]
      BY <2>1, <2>4, <3>1, <3>2, SMTT(30) DEF Pass1Item, TypeOK, Pass1Type, n
    <3>6. Pass1Type'
      BY <2>4, <3>4, <3>5 DEF Pass1Item, UnchangedByPass1, Pass1Type
    <3> QED BY <2>4, <3>3, <3>6, TypeStutter DEF Pass1Item, UnchangedByPass1, TypeOK
  <2>5. CASE Pass1Fail \/ Pass2Fail
    BY <2>5, TypeStutter DEF Pass1Fail, Pass2Fail, Fail, TypeOK, ReadType
  <2>6. CASE Pass1End
    BY <2>6, TypeStutter DEF Pass1End, TypeOK, ReadType
  <2>7. CASE AdjustSection
    <3>1. Visited(next) \in Names /\ next + 1 \in 1 .. Visits + 1
      BY <2>7, VisitFacts DEF AdjustSection, TypeOK, AdjustType
    <3>2. base' \in [Names -> Int] /\ free' \in Int
      BY <2>7, <3>1 DEF AdjustSection, TypeOK, AdjustType, Pass1Type
    <3>3. AdjustType'
      BY <2>7, <3>1, <3>2 DEF AdjustSection, AdjustType, Visits
    <3>4. ReadType'
      BY <2>7 DEF AdjustSection, UnchangedByAdjust, TypeOK, ReadType
    <3> QED BY <2>7, <3>3, <3>4, TypeStutter DEF AdjustSection, UnchangedByAdjust, TypeOK
  <2>8. CASE AdjustEnd
    <3>1. labels' \in [DOMAIN labels' -> [addr : Int, sec : Names]]
          /\ DOMAIN labels' \subseteq Labels
      BY <2>8 DEF AdjustEnd, TypeOK, Pass1Type, AdjustType
    <3>2. ReadType'
      BY <2>1, <2>8, NamesAssumption DEF AdjustEnd, TypeOK, ReadType, Standard
    <3>3. Pass1Type'
      BY <2>8, <3>1 DEF AdjustEnd, TypeOK, Pass1Type
    <3>4. Pass2Type'
      BY <2>8 DEF AdjustEnd, TypeOK, Pass2Type
    <3> QED BY <2>8, <3>2, <3>3, <3>4, TypeStutter DEF AdjustEnd, TypeOK
  <2>9. CASE Pass2Switch
    <3>1. ln \in 1 .. Len(src) /\ src[ln].name \in Names
      BY <2>9, LineTyped, LineFacts DEF Pass2Switch, AtLine, Effective, TypeOK, ReadType
    <3>2. Target(src[ln]) \in Int
      BY <3>1 DEF Target, TypeOK, AdjustType, Pass1Type
    <3>3. ReadType'
      BY <2>1, <2>9, <3>1 DEF Pass2Switch, UnchangedByPass2, TypeOK, ReadType
    <3>4. Position(Target(src[ln])) \in Int
      BY <3>2, PositionFacts
    <3>5. Pass2Type'
      BY <2>1, <2>9, <3>1, <3>2, <3>4 DEF Pass2Switch, UnchangedByPass2, TypeOK, Pass2Type
    <3> QED BY <2>9, <3>3, <3>5, TypeStutter DEF Pass2Switch, UnchangedByPass2, TypeOK
  <2>10. CASE Pass2Ignored
    <3>1. ReadType'
      BY <2>1, <2>10 DEF Pass2Ignored, UnchangedByPass2, AtLine, TypeOK, ReadType
    <3>2. Pass2Type'
      BY <2>1, <2>10 DEF Pass2Ignored, UnchangedByPass2, AtLine, TypeOK, Pass2Type
    <3> QED BY <2>10, <3>1, <3>2, TypeStutter DEF Pass2Ignored, UnchangedByPass2, TypeOK
  <2>11. CASE Pass2Item
    <3> DEFINE n == Written(src[ln], current)
    <3>1. ln \in 1 .. Len(src) /\ src[ln] \in Line /\ src[ln].kind = "item"
      BY <2>11, LineTyped DEF Pass2Item, AtLine, TypeOK, ReadType
    <3>2. n \in Nat
      BY <3>1, WrittenNat DEF TypeOK, ReadType
    <3>3. ReadType'
      BY <2>1, <2>11, <3>1 DEF Pass2Item, UnchangedByPass2, TypeOK, ReadType
    <3> HIDE DEF n
    <3>4. image' \in [DOMAIN image' -> 1 .. Len(src)]
      BY <2>1, <2>11, <3>1 DEF Pass2Item, TypeOK, Pass2Type
    <3>5. /\ pc' \in Int /\ fpos' \in Int
          /\ at2' \in [1 .. Len(src) -> [at : Int, end : Int]]
      BY <2>1, <2>11, <3>1, <3>2 DEF Pass2Item, TypeOK, Pass2Type, n
    <3>6. Pass2Type'
      BY <2>11, <3>4, <3>5 DEF Pass2Item, UnchangedByPass2, Pass2Type
    <3> QED BY <2>11, <3>3, <3>6, TypeStutter DEF Pass2Item, UnchangedByPass2, TypeOK
  <2>12. CASE Pass2End
    BY <2>12, TypeStutter DEF Pass2End, TypeOK, ReadType
  <2>13. CASE UNCHANGED vars
    BY <2>13, TypeStutter DEF vars, TypeOK, ReadType
  <2> QED BY <2>2, <2>3, <2>4, <2>5, <2>6, <2>7, <2>8, <2>9, <2>10, <2>11, <2>12, <2>13
          DEF Next
<1> QED BY <1>1, <1>2, PTL DEF Spec

----------------------------------------------------------------------------
(* The label invariant, one conjunct at a time.                            *)

\* Both passes take a tidy line for the same number of bytes.
LEMMA TidyAgree ==
    ASSUME NEW x \in Line, x.kind = "item", NEW s \in Names, Tidy(x, s)
    PROVE  Written(x, s) = Counted(x, s)
<1>1. x.body.kind \in {"instruction", "directive", "malformed", "none"}
  BY LineFacts
<1>2. CASE x.body.kind = "instruction"
  BY <1>2 DEF Tidy, Written, Counted, Words1, Words2
<1>3. CASE x.body.kind # "instruction"
  BY <1>1, <1>3 DEF Tidy, Written, Counted
<1> QED BY <1>2, <1>3

\* A line is a switch that counts, one that does not, or an item.
LEMMA LineKinds ==
    ASSUME NEW x \in Line
    PROVE  /\ x.kind = "item" => ~Effective(x) /\ ~Ignored(x)
           /\ x.kind = "switch" => (Effective(x) <=> ~Ignored(x))
           /\ x.kind = "switch" => x.form \in {"section", "bare", "commented"}
           /\ Effective(x) => x.kind = "switch"
           /\ Ignored(x) => x.kind = "switch" /\ ~Effective(x)
BY DEF Line, SwitchLine, ItemLine, Effective, Ignored

\* After pass 1 the history is complete and stays as it is.
LEMMA HistoryKept ==
    ASSUME History, UNCHANGED <<src, at1>>,
           \/ Laying /\ (Laying' \/ phase' = "failed")
           \/ phase' = "failed"
           \/ UNCHANGED <<phase, ln, current, offset>>
    PROVE  History'
BY DEF History, Read1, Laying, Start1

\* What leaves the history alone leaves its invariants alone: the text count,
LEMMA TextCountKept ==
    ASSUME TextCount, UNCHANGED <<src, at1, offset, pc_text>>,
           \/ Laying /\ Laying'
           \/ phase' = "failed"
           \/ UNCHANGED <<phase, ln>>
    PROVE  TextCount'
BY DEF TextCount, CodeOnly, Read1, Laying

\* ... the label table,
LEMMA LabelTableKept ==
    ASSUME LabelTable, UNCHANGED <<src, at1, labels>>,
           \/ Moved /\ Moved' /\ UNCHANGED base
           \/ phase = "adjust_labels" /\ phase' = "adjust_labels"
           \/ phase' = "failed"
           \/ UNCHANGED <<phase, ln, base>>
    PROVE  LabelTable'
BY DEF LabelTable, Read1, Moved, Defines

\* ... the bases,
LEMMA BasesKept ==
    ASSUME Bases, UNCHANGED <<next, free, base, offset>>,
           \/ Laying /\ Laying' /\ (Moved <=> Moved')
           \/ phase' = "failed"
           \/ UNCHANGED phase
    PROVE  Bases'
<1>1. CASE phase' = "failed"
  BY <1>1 DEF Bases, Laying, Moved
<1>2. CASE phase' # "failed"
  BY <1>2 DEF Bases, Laying, Moved, Visits
<1> QED BY <1>1, <1>2

\* ... and the discipline of a section.
LEMMA DisciplineKept ==
    ASSUME UNCHANGED <<src, at1, offset, free>>
    PROVE  Disciplined' <=> Disciplined
BY DEF Disciplined, Fits

\* The line of a step and what is known of it.
LEMMA StepLine ==
    ASSUME TypeOK, AtLine
    PROVE  /\ Len(src) \in Nat /\ ln \in 1 .. Len(src)
           /\ src[ln] \in Line
           /\ current \in Names
           /\ src[ln].kind = "item" => Counted(src[ln], current) \in Int
           /\ src[ln].kind = "item" => src[ln].label \in Labels \cup {NoLabel}
<1>1. Len(src) \in Nat /\ ln \in 1 .. Len(src) /\ src[ln] \in Line /\ current \in Names
  BY SourceLength, LineTyped DEF TypeOK, ReadType, AtLine
<1> QED BY <1>1, LineFacts, CountedInt

\* Steps after pass 1 keep the file and its history.
LEMMA LaterSteps ==
    ASSUME \/ AdjustSection \/ AdjustEnd \/ Pass2Switch \/ Pass2Ignored
           \/ Pass2Item \/ Pass2End
    PROVE  Laying /\ Laying' /\ UNCHANGED <<src, at1, offset, pc_text>>
BY DEF AdjustSection, UnchangedByAdjust, AdjustEnd, Pass2Switch, Pass2Ignored,
       Pass2Item, Pass2End, UnchangedByPass2, Laying

\* A pass that fails changes nothing but the phase.
LEMMA FailSteps ==
    ASSUME Pass1Fail \/ Pass2Fail
    PROVE  /\ phase' = "failed"
           /\ UNCHANGED <<src, ln, current, offset, base, labels, pc_text, sizes,
                          next, free, pc, fpos, image, at1, at2>>
BY DEF Pass1Fail, Pass2Fail, Fail

\* One more line of pass 1 extends the history by one entry.
LEMMA HistoryExtend ==
    ASSUME History, Len(src) \in Nat, ln \in 1 .. Len(src), src' = src,
           phase = "first_pass", phase' = "first_pass", ln' = ln + 1,
           \A i \in 1 .. ln : at1'[i] = at1[i],
           at1'[ln + 1].sec = current', at1'[ln + 1].off = offset'[current'],
           Effective(src[ln]) => at1'[ln + 1].sec = src[ln].name,
           Ignored(src[ln]) => at1'[ln + 1] = at1[ln],
           src[ln].kind = "item" =>
               /\ at1'[ln + 1].sec = at1[ln].sec
               /\ at1'[ln + 1].off = at1[ln].off + Counted(src[ln], at1[ln].sec)
    PROVE  History'
<1>1. Read1 = 1 .. ln - 1 /\ Read1' = 1 .. ln
  BY DEF Read1
<1>2. at1'[1] = Start1
  BY DEF History
<1>3. ASSUME NEW i \in 1 .. ln
      PROVE  /\ Effective(src[i]) => at1'[i + 1].sec = src[i].name
             /\ Ignored(src[i]) => at1'[i + 1] = at1'[i]
             /\ src[i].kind = "item" =>
                   /\ at1'[i + 1].sec = at1'[i].sec
                   /\ at1'[i + 1].off = at1'[i].off + Counted(src[i], at1'[i].sec)
  <2>1. CASE i = ln
    BY <2>1
  <2>2. CASE i < ln
    <3>1. i \in Read1 /\ at1'[i] = at1[i] /\ at1'[i + 1] = at1[i + 1]
      BY <1>1, <2>2
    <3> QED BY <3>1 DEF History
  <2> QED BY <2>1, <2>2
<1>4. (\A i \in Read1 : /\ Effective(src[i]) => at1[i + 1].sec = src[i].name
                        /\ Ignored(src[i]) => at1[i + 1] = at1[i]
                        /\ src[i].kind = "item" =>
                              /\ at1[i + 1].sec = at1[i].sec
                              /\ at1[i + 1].off = at1[i].off + Counted(src[i], at1[i].sec))'
  BY <1>1, <1>3
<1>5. at1'[ln'].sec = current' /\ at1'[ln'].off = offset'[current']
  OBVIOUS
<1> QED BY <1>2, <1>4, <1>5 DEF History, Start1

\* The history grows with pass 1 and is complete after it.
LEMMA HistoryStep ==
    ASSUME TypeOK, History, [Next]_vars
    PROVE  History'
<1>1. CASE Pass1Switch
  <2>1. /\ Len(src) \in Nat /\ ln \in 1 .. Len(src) /\ src[ln] \in Line
        /\ phase = "first_pass" /\ phase' = "first_pass" /\ ln' = ln + 1
        /\ src' = src /\ offset' = offset /\ current' = src[ln].name
        /\ Effective(src[ln]) /\ src[ln].name \in Names
    BY <1>1, StepLine, LineFacts, LineKinds DEF Pass1Switch, UnchangedByPass1
  <2>2. at1' = [at1 EXCEPT ![ln + 1] = [sec |-> src[ln].name, off |-> offset[src[ln].name]]]
    BY <1>1 DEF Pass1Switch
  <2>3. /\ at1'[ln + 1] = [sec |-> src[ln].name, off |-> offset[src[ln].name]]
        /\ \A i \in 1 .. ln : at1'[i] = at1[i]
    BY <2>1, <2>2 DEF TypeOK, Pass1Type
  <2>4. ~Ignored(src[ln]) /\ src[ln].kind # "item"
    BY <2>1, LineKinds
  <2> QED BY <2>1, <2>3, <2>4, HistoryExtend
<1>2. CASE Pass1Ignored
  <2>1. /\ Len(src) \in Nat /\ ln \in 1 .. Len(src) /\ src[ln] \in Line
        /\ phase = "first_pass" /\ phase' = "first_pass" /\ ln' = ln + 1
        /\ src' = src /\ offset' = offset /\ current' = current
        /\ Ignored(src[ln])
    BY <1>2, StepLine DEF Pass1Ignored, UnchangedByPass1
  <2>2. at1' = [at1 EXCEPT ![ln + 1] = [sec |-> current, off |-> offset[current]]]
    BY <1>2 DEF Pass1Ignored
  <2>3. /\ at1'[ln + 1] = [sec |-> current, off |-> offset[current]]
        /\ \A i \in 1 .. ln : at1'[i] = at1[i]
    BY <2>1, <2>2 DEF TypeOK, Pass1Type
  <2>4. ~Effective(src[ln]) /\ src[ln].kind # "item"
    BY <2>1, LineKinds
  <2>5. at1[ln] \in [sec : Names, off : Int]
    BY <2>1 DEF TypeOK, Pass1Type
  <2>6. at1'[ln + 1] = at1'[ln]
    BY <2>1, <2>3, <2>5 DEF History
  <2> QED BY <2>1, <2>3, <2>4, <2>6, HistoryExtend
<1>3. CASE Pass1Item
  <2> DEFINE n == Counted(src[ln], current)
  <2>1. /\ Len(src) \in Nat /\ ln \in 1 .. Len(src) /\ src[ln] \in Line
        /\ phase = "first_pass" /\ phase' = "first_pass" /\ ln' = ln + 1
        /\ src' = src /\ current' = current /\ current \in Names
        /\ src[ln].kind = "item" /\ n \in Int
    BY <1>3, StepLine DEF Pass1Item, UnchangedByPass1
  <2>2. /\ at1' = [at1 EXCEPT ![ln + 1] = [sec |-> current, off |-> offset[current] + n]]
        /\ offset' = [offset EXCEPT ![current] = @ + n]
    BY <1>3 DEF Pass1Item
  <2>3. n = Counted(src[ln], at1[ln].sec)
    BY <2>1 DEF History
  <2> HIDE DEF n
  <2>4. /\ at1'[ln + 1] = [sec |-> current, off |-> offset[current] + n]
        /\ \A i \in 1 .. ln : at1'[i] = at1[i]
        /\ offset'[current] = offset[current] + n
    BY <2>1, <2>2 DEF TypeOK, Pass1Type
  <2>5. ~Effective(src[ln]) /\ ~Ignored(src[ln])
    BY <2>1, LineKinds
  <2>6. at1[ln].sec = current /\ at1[ln].off = offset[current]
    BY <2>1 DEF History
  <2> QED BY <2>1, <2>3, <2>4, <2>5, <2>6, HistoryExtend
<1>4. CASE Pass1End
  <2>1. ln = Len(src) + 1
    BY <1>4, SourceLength DEF Pass1End, AtLine, TypeOK, ReadType
  <2> QED BY <1>4, <2>1, SourceLength DEF Pass1End, History, Read1, TypeOK, ReadType
<1>5. CASE Pass1Fail \/ Pass2Fail
  BY <1>5, FailSteps, HistoryKept
<1>6. CASE \/ AdjustSection \/ AdjustEnd \/ Pass2Switch \/ Pass2Ignored
           \/ Pass2Item \/ Pass2End
  BY <1>6, LaterSteps, HistoryKept
<1>7. CASE UNCHANGED vars
  BY <1>7, HistoryKept DEF vars
<1> QED BY <1>1, <1>2, <1>3, <1>4, <1>5, <1>6, <1>7 DEF Next

\* What the three steps of pass 1 share.
LEMMA Pass1Line ==
    ASSUME TypeOK, History, \/ Pass1Switch \/ Pass1Ignored \/ Pass1Item
    PROVE  /\ Len(src) \in Nat /\ ln \in 1 .. Len(src) /\ src[ln] \in Line
           /\ phase = "first_pass" /\ phase' = "first_pass" /\ ln' = ln + 1
           /\ UNCHANGED <<src, base, next, free>>
           /\ Read1 = 1 .. ln - 1 /\ Read1' = 1 .. ln
           /\ \A i \in 1 .. ln : at1'[i] = at1[i]
           /\ at1[ln].sec = current /\ at1[ln].off = offset[current]
<1>1. /\ Len(src) \in Nat /\ ln \in 1 .. Len(src) /\ src[ln] \in Line
      /\ phase = "first_pass" /\ phase' = "first_pass" /\ ln' = ln + 1
      /\ UNCHANGED <<src, base, next, free>>
  BY StepLine DEF Pass1Switch, Pass1Ignored, Pass1Item, UnchangedByPass1
<1>2. Read1 = 1 .. ln - 1 /\ Read1' = 1 .. ln
  BY <1>1 DEF Read1
<1>3. \E e : at1' = [at1 EXCEPT ![ln + 1] = e]
  BY DEF Pass1Switch, Pass1Ignored, Pass1Item
<1>4. \A i \in 1 .. ln : at1'[i] = at1[i]
  BY <1>1, <1>3 DEF TypeOK, Pass1Type
<1> QED BY <1>1, <1>2, <1>4 DEF History

\* Of a line of code only, pass 1 counts the bytes in .text.
LEMMA CodeOnlyLine ==
    ASSUME TypeOK, History, \/ Pass1Switch \/ Pass1Ignored \/ Pass1Item, CodeOnly'
    PROVE  /\ CodeOnly
           /\ (src[ln].kind = "item" /\ current = ".text") => src[ln].body.kind # "directive"
<1>1. /\ src' = src /\ ln \in Nat /\ ln >= 1 /\ Read1 = 1 .. ln - 1 /\ Read1' = 1 .. ln
      /\ \A i \in 1 .. ln : at1'[i] = at1[i]
      /\ at1[ln].sec = current
  BY Pass1Line
<1>2. ASSUME NEW i \in 1 .. ln, src[i].kind = "item", at1[i].sec = ".text"
      PROVE  src[i].body.kind # "directive"
  BY <1>1, <1>2 DEF CodeOnly
<1> QED BY <1>1, <1>2 DEF CodeOnly

\* The text count holds after every step,
LEMMA TextCountStep ==
    ASSUME TypeOK, History, TextCount, [Next]_vars
    PROVE  TextCount'
<1>1. CASE Pass1Switch \/ Pass1Ignored
  <2>1. UNCHANGED <<offset, pc_text>>
    BY <1>1 DEF Pass1Switch, Pass1Ignored
  <2> QED BY <1>1, <2>1, Pass1Line, CodeOnlyLine DEF TextCount
<1>2. CASE Pass1Item
  <2> DEFINE n == Counted(src[ln], current)
  <2>1. SUFFICES ASSUME CodeOnly' PROVE pc_text' = offset'[".text"]
    BY DEF TextCount
  <2>2. pc_text = offset[".text"]
    BY <1>2, <2>1, Pass1Line, CodeOnlyLine DEF TextCount
  <2>3. /\ offset' = [offset EXCEPT ![current] = @ + n]
        /\ pc_text' = IF /\ current = ".text"
                         /\ src[ln].body.kind = "instruction" \/ src[ln].label # NoLabel
                      THEN pc_text + n ELSE pc_text
        /\ src[ln].kind = "item" /\ ~Rejected(src[ln])
        /\ current \in Names /\ n \in Int
    BY <1>2, StepLine DEF Pass1Item
  <2>4. CASE current = ".text"
    <3>1. src[ln].body.kind # "directive"
      BY <1>2, <2>1, <2>3, <2>4, CodeOnlyLine
    <3>2. \/ src[ln].body.kind = "instruction" \/ src[ln].label # NoLabel
          \/ n = 0
      BY <2>3, <3>1 DEF Counted, Rejected
    <3> HIDE DEF n
    <3>3. offset'[".text"] = offset[".text"] + n
      BY <2>3, <2>4 DEF TypeOK, Pass1Type
    <3>4. pc_text' = pc_text + n
      BY <2>3, <2>4, <3>2 DEF TypeOK, Pass1Type
    <3> QED BY <2>2, <3>3, <3>4
  <2>5. CASE current # ".text"
    BY <2>2, <2>3, <2>5 DEF TypeOK, Pass1Type
  <2> QED BY <2>4, <2>5
<1>3. CASE Pass1End
  <2>1. ln = Len(src) + 1
    BY <1>3, SourceLength DEF Pass1End, AtLine, TypeOK, ReadType
  <2> QED BY <1>3, <2>1, SourceLength DEF Pass1End, TextCount, CodeOnly, Read1, TypeOK, ReadType
<1>4. CASE Pass1Fail \/ Pass2Fail
  BY <1>4, FailSteps, TextCountKept
<1>5. CASE \/ AdjustSection \/ AdjustEnd \/ Pass2Switch \/ Pass2Ignored
           \/ Pass2Item \/ Pass2End
  BY <1>5, LaterSteps, TextCountKept
<1>6. CASE UNCHANGED vars
  BY <1>6, TextCountKept DEF vars
<1> QED BY <1>1, <1>2, <1>3, <1>4, <1>5, <1>6 DEF Next

\* ... the label table too,
LEMMA LabelTableStep ==
    ASSUME TypeOK, History, LabelTable, [Next]_vars
    PROVE  LabelTable'
<1>1. CASE Pass1Switch \/ Pass1Ignored
  <2>1. UNCHANGED labels /\ src[ln].kind # "item"
    BY <1>1, Pass1Line, LineKinds DEF Pass1Switch, Pass1Ignored
  <2>2. ~Moved /\ ~Moved' /\ src' = src /\ ln \in Nat
        /\ Read1 = 1 .. ln - 1 /\ Read1' = 1 .. ln
        /\ \A i \in 1 .. ln : at1'[i] = at1[i]
    BY <1>1, Pass1Line DEF Moved
  <2>3. ASSUME NEW i \in 1 .. ln, NEW l \in Labels, Defines(i, l)
        PROVE  i \in Read1
    BY <2>1, <2>2, <2>3 DEF Defines
  <2> QED BY <2>1, <2>2, <2>3 DEF LabelTable, Defines
<1>2. CASE Pass1Item
  <2>1. /\ labels' = IF src[ln].label = NoLabel THEN labels
                     ELSE [l \in DOMAIN labels \cup {src[ln].label} |->
                             IF l = src[ln].label
                             THEN [addr |-> offset[current], sec |-> current]
                             ELSE labels[l]]
        /\ ~Duplicate(src[ln])
    BY <1>2 DEF Pass1Item
  <2>2. SUFFICES ASSUME NEW i \in 1 .. ln, NEW l \in Labels, Defines(i, l)
                 PROVE  /\ l \in DOMAIN labels'
                        /\ labels'[l].sec = at1[i].sec
                        /\ labels'[l].addr = at1[i].off
    <3>1. src' = src /\ ~Moved' /\ Read1' = 1 .. ln /\ \A i \in 1 .. ln : at1'[i] = at1[i]
      BY <1>2, Pass1Line DEF Moved
    <3>2. \A i \in 1 .. ln : at1[i].off = at1[i].off + 0
      BY <1>2, Pass1Line DEF TypeOK, Pass1Type
    <3>3. ASSUME NEW i \in 1 .. ln, NEW l \in Labels, Defines(i, l)
          PROVE  /\ l \in DOMAIN labels'
                 /\ labels'[l].sec = at1'[i].sec
                 /\ labels'[l].addr = at1'[i].off + 0
      BY <2>2, <3>1, <3>2, <3>3
    <3> QED BY <3>1, <3>3 DEF LabelTable, Defines
  <2>3. CASE i = ln
    BY <1>2, <2>1, <2>2, <2>3, Pass1Line, LabelsAssumption DEF Defines
  <2>4. CASE i # ln
    <3>1. i \in Read1 /\ ~Moved
      BY <1>2, <2>4, Pass1Line DEF Moved
    <3>2. /\ l \in DOMAIN labels /\ labels[l].sec = at1[i].sec
          /\ labels[l].addr = at1[i].off + 0
      BY <2>2, <3>1 DEF LabelTable
    <3>3. at1[i].off \in Int
      BY <1>2, Pass1Line DEF TypeOK, Pass1Type
    <3>4. l # src[ln].label
      BY <2>1, <3>2, LabelsAssumption DEF Duplicate
    <3> QED BY <2>1, <3>2, <3>3, <3>4
  <2> QED BY <2>3, <2>4
<1>3. CASE Pass1End
  <2>1. ln = Len(src) + 1
    BY <1>3, SourceLength DEF Pass1End, AtLine, TypeOK, ReadType
  <2> QED BY <1>3, <2>1, SourceLength
          DEF Pass1End, LabelTable, Read1, Moved, Defines, TypeOK, ReadType
<1>4. CASE AdjustEnd
  <2>1. SUFFICES ASSUME NEW i \in 1 .. Len(src), NEW l \in Labels, Defines(i, l)
                 PROVE  /\ l \in DOMAIN labels'
                        /\ labels'[l].sec = at1[i].sec
                        /\ labels'[l].addr = at1[i].off + base[at1[i].sec]
    <3>1. /\ UNCHANGED <<src, at1, base>> /\ Moved' /\ Read1' = 1 .. Len(src)
      BY <1>4 DEF AdjustEnd, Moved, Read1
    <3> QED BY <2>1, <3>1 DEF LabelTable, Defines
  <2>2. /\ l \in DOMAIN labels /\ labels[l].sec = at1[i].sec
        /\ labels[l].addr = at1[i].off + 0
    BY <1>4, <2>1 DEF AdjustEnd, LabelTable, Read1, Moved
  <2>3. at1[i].off \in Int
    BY SourceLength DEF TypeOK, Pass1Type, ReadType
  <2> QED BY <1>4, <2>2, <2>3 DEF AdjustEnd
<1>5. CASE Pass1Fail \/ Pass2Fail
  BY <1>5, FailSteps, LabelTableKept
<1>6. CASE AdjustSection
  BY <1>6, LabelTableKept DEF AdjustSection, UnchangedByAdjust
<1>7. CASE Pass2Switch \/ Pass2Ignored \/ Pass2Item \/ Pass2End
  BY <1>7, LabelTableKept DEF Pass2Switch, Pass2Ignored, Pass2Item, Pass2End,
                              UnchangedByPass2, Moved
<1>8. CASE UNCHANGED vars
  BY <1>8, LabelTableKept DEF vars
<1> QED BY <1>1, <1>2, <1>3, <1>4, <1>5, <1>6, <1>7, <1>8 DEF Next

\* ... and the bases of disciplined sections.
LEMMA BasesStep ==
    ASSUME TypeOK, History, Bases, [Next]_vars
    PROVE  Bases'
<1>1. CASE Pass1Switch \/ Pass1Ignored \/ Pass1Item
  BY <1>1, Pass1Line DEF Bases, Laying, Moved
<1>2. CASE Pass1End
  BY <1>2 DEF Pass1End, Bases, Laying, Moved
<1>3. CASE AdjustSection
  <2>1. /\ phase = "adjust_labels" /\ phase' = "adjust_labels"
        /\ next \in Nat /\ next >= 1 /\ next <= Visits /\ next' = next + 1
        /\ offset' = offset /\ Visits \in Nat
    BY <1>3, VisitFacts DEF AdjustSection, UnchangedByAdjust, TypeOK, AdjustType
  <2>2. Laying /\ Laying' /\ ~Moved'
    BY <2>1 DEF Laying, Moved
  <2>3. ".text" \in Names /\ ".rodata" \in Names /\ ".data" \in Names /\ ".bss" \in Names
    BY NamesAssumption DEF Standard
  <2>4. CASE next \in {1, 2, 3, 4}
    <3>1. base' = [base EXCEPT ![Visited(next)] = free]
          /\ free' = free + offset[Visited(next)]
      BY <1>3, <2>4 DEF AdjustSection, Placed
    <3>2. CASE next = 1
      BY <2>1, <2>2, <2>3, <3>1, <3>2
         DEF Bases, Visited, TypeOK, AdjustType, Pass1Type
    <3>3. CASE next = 2
      BY <2>1, <2>2, <2>3, <3>1, <3>3
         DEF Bases, Visited, TypeOK, AdjustType, Pass1Type
    <3>4. CASE next = 3
      BY <2>1, <2>2, <2>3, <3>1, <3>4
         DEF Bases, Visited, TypeOK, AdjustType, Pass1Type
    <3>5. CASE next = 4
      BY <2>1, <2>2, <2>3, <3>1, <3>5
         DEF Bases, Visited, TypeOK, AdjustType, Pass1Type
    <3> QED BY <2>4, <3>2, <3>3, <3>4, <3>5
  <2>5. CASE next > 4
    <3>1. \A s \in {".text", ".rodata", ".data"} : base'[s] = base[s]
      <4>1. CASE Placed(next)
        <5>1. TypeOf[Visited(next)] = "custom"
          BY <2>1, <2>5, <4>1 DEF Placed
        <5>2. Visited(next) \notin {".text", ".rodata", ".data"}
          BY <5>1, NamesAssumption
        <5> QED BY <1>3, <2>3, <4>1, <5>2 DEF AdjustSection, TypeOK, AdjustType
      <4>2. CASE ~Placed(next)
        BY <1>3, <4>2 DEF AdjustSection
      <4> QED BY <4>1, <4>2
    <3> QED BY <2>1, <2>2, <2>5, <3>1 DEF Bases
  <2> QED BY <2>1, <2>4, <2>5
<1>4. CASE AdjustEnd
  <2>1. next = Visits + 1 /\ Visits \in Nat
    BY <1>4, VisitFacts DEF AdjustEnd, TypeOK, AdjustType
  <2> QED BY <1>4, <2>1 DEF AdjustEnd, Bases, Laying, Moved, Visits
<1>5. CASE Pass1Fail \/ Pass2Fail
  BY <1>5, FailSteps, BasesKept
<1>6. CASE Pass2Switch \/ Pass2Ignored \/ Pass2Item \/ Pass2End
  BY <1>6, BasesKept DEF Pass2Switch, Pass2Ignored, Pass2Item, Pass2End,
                         UnchangedByPass2, Laying, Moved
<1>7. CASE UNCHANGED vars
  BY <1>7, BasesKept DEF vars
<1> QED BY <1>1, <1>2, <1>3, <1>4, <1>5, <1>6, <1>7 DEF Next

\* Pass 2 goes where pass 1 counts a disciplined section from.
LEMMA TargetIsBase ==
    ASSUME TypeOK, TextCount, Bases, Disciplined, phase = "second_pass",
           ln \in 1 .. Len(src), Effective(src[ln])
    PROVE  Target(src[ln]) = base[src[ln].name]
<1>1. base[".text"] = 0 /\ base[".rodata"] = offset[".text"]
      /\ base[".data"] = offset[".text"] + offset[".rodata"]
  BY VisitFacts DEF Bases, Moved, Laying
<1>2. CASE src[ln].form = "bare" /\ src[ln].name = ".data"
  <2>1. offset[".rodata"] = 0
    BY <1>2 DEF Disciplined
  <2>2. CodeOnly
    BY NamesAssumption DEF CodeOnly, Disciplined, Tidy, IsText, Read1
  <2>3. pc_text = offset[".text"] /\ offset[".text"] \in Int
    BY <2>2, NamesAssumption DEF TextCount, TypeOK, Pass1Type, Standard
  <2> QED BY <1>1, <1>2, <2>1, <2>3 DEF Target
<1>3. CASE src[ln].form = "bare" /\ src[ln].name = ".text"
  BY <1>1, <1>3 DEF Target
<1>4. CASE ~(src[ln].form = "bare" /\ src[ln].name \in {".text", ".data"})
  BY <1>4 DEF Target
<1> QED BY <1>2, <1>3, <1>4

\* What the three steps of pass 2 share.
LEMMA Pass2Line ==
    ASSUME TypeOK, \/ Pass2Switch \/ Pass2Ignored \/ Pass2Item
    PROVE  /\ Len(src) \in Nat /\ ln \in 1 .. Len(src) /\ src[ln] \in Line
           /\ phase = "second_pass" /\ phase' = "second_pass" /\ ln' = ln + 1
           /\ UNCHANGED <<src, base, offset, at1, free>>
           /\ Read1 = 1 .. Len(src)
           /\ Handled = 1 .. ln - 1 /\ Handled' = 1 .. ln
           /\ \A i \in 1 .. ln - 1 : at2'[i] = at2[i]
<1>1. /\ Len(src) \in Nat /\ ln \in 1 .. Len(src) /\ src[ln] \in Line
      /\ phase = "second_pass" /\ phase' = "second_pass" /\ ln' = ln + 1
      /\ UNCHANGED <<src, base, offset, at1, free>>
  BY StepLine DEF Pass2Switch, Pass2Ignored, Pass2Item, UnchangedByPass2
<1>2. \E e : at2' = [at2 EXCEPT ![ln] = e]
  BY DEF Pass2Switch, Pass2Ignored, Pass2Item
<1>3. \A i \in 1 .. ln - 1 : at2'[i] = at2[i]
  BY <1>1, <1>2 DEF TypeOK, Pass2Type
<1>4. Read1 = 1 .. Len(src) /\ Handled = 1 .. ln - 1 /\ Handled' = 1 .. ln
  BY <1>1 DEF Read1, Handled
<1> QED BY <1>1, <1>3, <1>4

\* A line of pass 2 that keeps in step with pass 1.
LEMMA InStepExtend ==
    ASSUME TypeOK, InStep, \/ Pass2Switch \/ Pass2Ignored \/ Pass2Item,
           current' = at1[ln + 1].sec,
           Disciplined => pc' = base[at1[ln + 1].sec] + at1[ln + 1].off,
           (Disciplined /\ src[ln].kind = "item") =>
               at2'[ln].at = base[at1[ln].sec] + at1[ln].off
    PROVE  InStep'
<1>1. Disciplined' <=> Disciplined
  BY Pass2Line, DisciplineKept
<1>2. /\ src' = src /\ base' = base /\ at1' = at1 /\ ln' = ln + 1 /\ ln \in Nat
      /\ Handled = 1 .. ln - 1 /\ Handled' = 1 .. ln
      /\ \A i \in 1 .. ln - 1 : at2'[i] = at2[i]
  BY Pass2Line
<1>3. ASSUME Disciplined, NEW i \in 1 .. ln, src[i].kind = "item"
      PROVE  at2'[i].at = base[at1[i].sec] + at1[i].off
  BY <1>2, <1>3 DEF InStep
<1> QED BY <1>1, <1>2, <1>3 DEF InStep

\* Pass 2 is where pass 1 was, line by line.
LEMMA InStepStep ==
    ASSUME TypeOK, History, TextCount, Bases, InStep, [Next]_vars
    PROVE  InStep'
<1>1. CASE Pass2Switch
  <2>1. at1[ln + 1].sec = src[ln].name
    BY <1>1, Pass2Line DEF History, Pass2Switch
  <2>2. /\ current' = src[ln].name /\ pc' = Target(src[ln])
        /\ src[ln].name \in Names /\ src[ln].kind # "item"
    BY <1>1, Pass2Line, LineFacts, LineKinds DEF Pass2Switch
  <2>3. ASSUME Disciplined PROVE pc' = base[src[ln].name] + at1[ln + 1].off
    <3>1. at1[ln + 1].off = 0
      BY <1>1, <2>3, Pass2Line DEF Disciplined, Pass2Switch
    <3>2. pc' = base[src[ln].name] /\ base[src[ln].name] \in Int
      BY <1>1, <2>2, <2>3, Pass2Line, TargetIsBase DEF TypeOK, AdjustType, Pass2Switch
    <3> QED BY <3>1, <3>2
  <2> QED BY <1>1, <2>1, <2>2, <2>3, InStepExtend
<1>2. CASE Pass2Ignored
  <2>1. at1[ln + 1] = at1[ln] /\ src[ln].kind # "item"
    BY <1>2, Pass2Line, LineKinds DEF History, Pass2Ignored
  <2>2. current' = current /\ pc' = pc /\ phase = "second_pass"
    BY <1>2 DEF Pass2Ignored
  <2> QED BY <1>2, <2>1, <2>2, InStepExtend DEF InStep
<1>3. CASE Pass2Item
  <2> DEFINE n == Written(src[ln], current)
  <2>1. /\ src[ln].kind = "item" /\ current' = current /\ current \in Names
        /\ pc' = pc + n /\ phase = "second_pass"
        /\ at2' = [at2 EXCEPT ![ln] = [at |-> pc, end |-> pc + n]]
    BY <1>3 DEF Pass2Item, TypeOK, ReadType
  <2>2. at2'[ln].at = pc
    BY <1>3, <2>1, Pass2Line DEF TypeOK, Pass2Type
  <2>3. at1[ln + 1].sec = at1[ln].sec
        /\ at1[ln + 1].off = at1[ln].off + Counted(src[ln], at1[ln].sec)
    BY <1>3, <2>1, Pass2Line DEF History
  <2>4. /\ current = at1[ln].sec
        /\ Disciplined => pc = base[at1[ln].sec] + at1[ln].off
    BY <2>1 DEF InStep
  <2>5. ASSUME Disciplined PROVE n = Counted(src[ln], at1[ln].sec)
    BY <1>3, <2>1, <2>4, <2>5, Pass2Line, TidyAgree DEF Disciplined
  <2>6. /\ pc \in Int /\ n \in Nat /\ at1[ln].off \in Int
        /\ base[at1[ln].sec] \in Int
    <3>1. n \in Nat
      BY <1>3, <2>1, Pass2Line, WrittenNat
    <3>2. pc \in Int /\ base[current] \in Int
      BY <2>1 DEF TypeOK, AdjustType, Pass2Type
    <3>3. at1[ln].off \in Int
      BY <1>3, Pass2Line DEF TypeOK, Pass1Type
    <3> QED BY <2>4, <3>1, <3>2, <3>3
  <2> HIDE DEF n
  <2>7. ASSUME Disciplined PROVE pc' = base[at1[ln + 1].sec] + at1[ln + 1].off
    BY <2>1, <2>3, <2>4, <2>5, <2>6, <2>7
  <2> QED BY <1>3, <2>1, <2>2, <2>3, <2>4, <2>7, InStepExtend
<1>4. CASE AdjustEnd
  <2>1. /\ phase' = "second_pass" /\ ln' = 1 /\ current' = ".text" /\ pc' = 0
        /\ UNCHANGED <<src, base, at1>> /\ Handled' = {}
    BY <1>4 DEF AdjustEnd, Handled
  <2>2. base[".text"] = 0
    BY <1>4, VisitFacts DEF AdjustEnd, Bases, Laying, TypeOK, AdjustType
  <2>3. at1[1].sec = ".text" /\ at1[1].off = 0
    BY DEF History, Start1
  <2> QED BY <2>1, <2>2, <2>3 DEF InStep
<1>5. CASE Pass2End
  <2>1. /\ phase' = "done" /\ UNCHANGED <<src, base, at1, at2, offset, free>>
        /\ Handled' = Handled
    BY <1>5, SourceLength DEF Pass2End, Handled, AtLine, TypeOK, ReadType
  <2>2. Disciplined' <=> Disciplined
    BY <2>1, DisciplineKept
  <2> QED BY <2>1, <2>2 DEF InStep
<1>6. CASE Pass1Fail \/ Pass2Fail
  BY <1>6, FailSteps DEF InStep, Handled
<1>7. CASE Pass1Switch \/ Pass1Ignored \/ Pass1Item \/ Pass1End \/ AdjustSection
  <2>1. phase' \in {"first_pass", "adjust_labels"}
    BY <1>7 DEF Pass1Switch, Pass1Ignored, Pass1Item, Pass1End, AdjustSection,
                UnchangedByPass1
  <2> QED BY <2>1 DEF InStep, Handled
<1>8. CASE UNCHANGED vars
  BY <1>8, DisciplineKept DEF vars, InStep, Handled
<1> QED BY <1>1, <1>2, <1>3, <1>4, <1>5, <1>6, <1>7, <1>8 DEF Next

----------------------------------------------------------------------------
(* The theorems about labels.                                              *)

\* The label invariant holds throughout.
THEOREM LabelInvariant == Spec => []LabelInv
<1>1. Init => LabelInv
  <2> SUFFICES ASSUME Init PROVE LabelInv
    OBVIOUS
  <2>1. Len(src) \in Nat /\ ".text" \in Names
    BY SourceLength, NamesAssumption DEF Init, Standard
  <2>2. TypeOK
    BY <2>1, VisitFacts, NamesAssumption
       DEF Init, InitialSection, TypeOK, ReadType, Pass1Type, AdjustType, Pass2Type, Start1, Start2, Standard
  <2>3. Read1 = {} /\ Handled = {} /\ ~Moved /\ ~Laying
    BY DEF Init, Read1, Handled, Moved, Laying
  <2>4. History
    BY <2>1, <2>3 DEF Init, InitialSection, History, Start1
  <2>5. TextCount /\ LabelTable /\ Bases /\ InStep
    BY <2>1, <2>3 DEF Init, TextCount, LabelTable, Bases, InStep
  <2> QED BY <2>2, <2>4, <2>5 DEF LabelInv
<1>2. TypeOK /\ TypeOK' /\ LabelInv /\ [Next]_vars => LabelInv'
  BY HistoryStep, LabelTableStep, TextCountStep, BasesStep, InStepStep DEF LabelInv
<1> QED BY <1>1, <1>2, TypeCorrect, PTL DEF Spec

\* In a disciplined source every label, of any section and before or after
\* its use, has the address at which pass 2 comes to the line defining it.
THEOREM LabelsAgreeAlways == Spec => []LabelsAgree
<1>1. LabelInv => LabelsAgree
  <2> SUFFICES ASSUME LabelInv, Disciplined, NEW i \in Handled, NEW l \in DOMAIN labels,
                      Defines(i, l)
               PROVE  labels[l].addr = at2[i].at
    BY DEF LabelsAgree, LabelsMatch
  <2>1. Moved /\ l \in Labels
    BY DEF Handled, Moved, LabelInv, TypeOK, Pass1Type
  <2>2. i \in Read1 /\ src[i].kind = "item"
    BY SourceLength DEF Handled, Read1, Defines, LabelInv, TypeOK, ReadType
  <2>3. labels[l].addr = at1[i].off + base[at1[i].sec]
    BY <2>1, <2>2 DEF LabelInv, LabelTable
  <2>4. at2[i].at = base[at1[i].sec] + at1[i].off
    BY <2>2 DEF LabelInv, InStep
  <2>5. at1[i].off \in Int /\ base[at1[i].sec] \in Int
    <3>1. i \in 1 .. Len(src) + 1
      BY SourceLength DEF Handled, LabelInv, TypeOK, ReadType
    <3>2. at1[i] \in [sec : Names, off : Int]
      BY <3>1 DEF LabelInv, TypeOK, Pass1Type
    <3> QED BY <3>2 DEF LabelInv, TypeOK, AdjustType
  <2> QED BY <2>3, <2>4, <2>5
<1> QED BY <1>1, LabelInvariant, PTL

----------------------------------------------------------------------------
(***************************************************************************)
(* II. The output.                                                         *)
(***************************************************************************)

(* What a step does to the lines read and handled.                         *)

\* Pass 1 ends having read every line, and every later step keeps that.
LEMMA ReadKept ==
    ASSUME TypeOK, \/ Pass1End \/ AdjustSection \/ AdjustEnd
                   \/ Pass2Switch \/ Pass2Ignored \/ Pass2Item \/ Pass2End
    PROVE  /\ UNCHANGED <<src, at1, offset>>
           /\ Read1' = Read1 /\ Read1 = 1 .. Len(src)
           /\ phase # "failed" /\ phase' # "failed"
<1>1. CASE Pass1End
  <2>1. ln = Len(src) + 1
    BY <1>1, SourceLength DEF Pass1End, AtLine, TypeOK, ReadType
  <2> QED BY <1>1, <2>1, SourceLength DEF Pass1End, Read1, TypeOK, ReadType
<1>2. CASE ~Pass1End
  BY <1>2, LaterSteps DEF Laying, Read1
<1> QED BY <1>1, <1>2

\* Pass 2 has handled no line before it starts, nor after a failure.
LEMMA HandledNone ==
    ASSUME \/ Pass1Switch \/ Pass1Ignored \/ Pass1Item \/ Pass1Fail \/ Pass1End
           \/ AdjustSection \/ AdjustEnd \/ Pass2Fail
    PROVE  Handled' = {}
<1>1. CASE Pass1Fail \/ Pass2Fail
  BY <1>1, FailSteps DEF Handled
<1>2. CASE AdjustEnd
  BY <1>2 DEF AdjustEnd, Handled
<1>3. CASE Pass1Switch \/ Pass1Ignored \/ Pass1Item \/ Pass1End \/ AdjustSection
  <2>1. phase' \in {"first_pass", "adjust_labels"}
    BY <1>3 DEF Pass1Switch, Pass1Ignored, Pass1Item, Pass1End, AdjustSection,
                UnchangedByPass1
  <2> QED BY <2>1 DEF Handled
<1> QED BY <1>1, <1>2, <1>3

\* The end of pass 2 has handled what its last line left handled.
LEMMA HandledAll ==
    ASSUME TypeOK, Pass2End
    PROVE  /\ Handled' = Handled /\ Handled = 1 .. Len(src)
           /\ UNCHANGED <<src, at1, at2, image, labels, base, offset>>
BY SourceLength DEF Pass2End, Handled, AtLine, TypeOK, ReadType

----------------------------------------------------------------------------
(* Labels and references.                                                  *)

\* No step gives a label a second line that defines it.
LEMMA OneDefinitionStep ==
    ASSUME TypeOK, History, LabelTable, OneDefinition, [Next]_vars
    PROVE  OneDefinition'
<1>1. CASE Pass1Switch \/ Pass1Ignored
  <2>1. UNCHANGED labels /\ src[ln].kind # "item"
    BY <1>1, Pass1Line, LineKinds DEF Pass1Switch, Pass1Ignored
  <2>2. /\ phase # "failed" /\ src' = src /\ ln \in Nat
        /\ Read1 = 1 .. ln - 1 /\ Read1' = 1 .. ln
    BY <1>1, Pass1Line
  <2>3. ASSUME NEW i \in 1 .. ln, NEW l, Defines(i, l)
        PROVE  i \in Read1
    BY <2>1, <2>2, <2>3 DEF Defines
  <2> QED BY <2>1, <2>2, <2>3 DEF OneDefinition, Defines
<1>2. CASE Pass1Item
  <2> DEFINE new == src[ln].label
  <2>1. /\ DOMAIN labels' = IF new = NoLabel THEN DOMAIN labels ELSE DOMAIN labels \cup {new}
        /\ new # NoLabel => new \notin DOMAIN labels
        /\ src[ln].kind = "item"
    BY <1>2 DEF Pass1Item, Duplicate
  <2>2. /\ phase # "failed" /\ ~Moved /\ src' = src /\ ln \in Nat /\ ln >= 1
        /\ Read1 = 1 .. ln - 1 /\ Read1' = 1 .. ln
    BY <1>2, Pass1Line DEF Moved
  <2>3. ASSUME NEW l \in DOMAIN labels' PROVE \E i \in 1 .. ln : Defines(i, l)
    <3>1. CASE l \in DOMAIN labels
      BY <2>2, <3>1 DEF OneDefinition
    <3>2. CASE l \notin DOMAIN labels
      BY <2>1, <2>2, <2>3, <3>2 DEF Defines
    <3> QED BY <3>1, <3>2
  <2>4. ASSUME NEW i \in 1 .. ln, NEW j \in 1 .. ln, NEW l \in Labels,
               Defines(i, l), Defines(j, l)
        PROVE  i = j
    <3>1. ASSUME NEW k \in 1 .. ln - 1, Defines(k, l) PROVE ~Defines(ln, l)
      <4>1. l \in DOMAIN labels
        BY <2>2, <3>1 DEF LabelTable
      <4> QED BY <2>1, <4>1, LabelsAssumption DEF Defines
    <3>2. CASE i < ln /\ j < ln
      BY <2>2, <2>4, <3>2 DEF OneDefinition
    <3> QED BY <2>2, <2>4, <3>1, <3>2
  <2> QED BY <2>2, <2>3, <2>4 DEF OneDefinition, Defines
<1>3. CASE Pass1Fail \/ Pass2Fail
  BY <1>3, FailSteps DEF OneDefinition
<1>4. CASE \/ Pass1End \/ AdjustSection \/ AdjustEnd
           \/ Pass2Switch \/ Pass2Ignored \/ Pass2Item \/ Pass2End
  <2>1. DOMAIN labels' = DOMAIN labels
    BY <1>4 DEF Pass1End, AdjustSection, AdjustEnd, Pass2Switch, Pass2Ignored,
                Pass2Item, Pass2End, UnchangedByPass2
  <2> QED BY <1>4, <2>1, ReadKept DEF OneDefinition, Defines
<1>5. CASE UNCHANGED vars
  BY <1>5 DEF vars, OneDefinition, Read1, Defines
<1> QED BY <1>1, <1>2, <1>3, <1>4, <1>5 DEF Next

\* What encode_instruction did not exit on is in the table.
LEMMA ResolvedStep ==
    ASSUME TypeOK, InStep, Resolved, [Next]_vars
    PROVE  Resolved'
<1>1. CASE Pass2Switch \/ Pass2Ignored \/ Pass2Item
  <2>1. /\ UNCHANGED <<src, at1, labels>> /\ ln \in Nat
        /\ Handled = 1 .. ln - 1 /\ Handled' = 1 .. ln /\ current = at1[ln].sec
    BY <1>1, Pass2Line DEF Pass2Switch, Pass2Ignored, Pass2Item, UnchangedByPass2, InStep
  <2>2. Refers(ln) => src[ln].body.arg \in DOMAIN labels
    <3>1. CASE Pass2Switch \/ Pass2Ignored
      BY <3>1, Pass2Line, LineKinds DEF Pass2Switch, Pass2Ignored, Refers, IsItem
    <3>2. CASE Pass2Item
      BY <2>1, <3>2 DEF Pass2Item, Unencodable, Refers
    <3> QED BY <1>1, <3>1, <3>2
  <2>3. ASSUME NEW i \in 1 .. ln PROVE Refers(i) => src[i].body.arg \in DOMAIN labels
    BY <2>1, <2>2 DEF Resolved
  <2> QED BY <2>1, <2>3 DEF Resolved, Refers, IsItem
<1>2. CASE Pass2End
  BY <1>2, HandledAll DEF Resolved, Refers, IsItem
<1>3. CASE \/ Pass1Switch \/ Pass1Ignored \/ Pass1Item \/ Pass1Fail \/ Pass1End
           \/ AdjustSection \/ AdjustEnd \/ Pass2Fail
  BY <1>3, HandledNone DEF Resolved
<1>4. CASE UNCHANGED vars
  BY <1>4 DEF vars, Resolved, Refers, IsItem, Handled
<1> QED BY <1>1, <1>2, <1>3, <1>4 DEF Next

----------------------------------------------------------------------------
(* What pass 1 records.                                                    *)

\* The entries of the history: the first, and one after each line read.
LEMMA Entries ==
    ASSUME NEW n \in Nat
    PROVE  {1} \cup {i + 1 : i \in 1 .. n} = 1 .. n + 1
<1>1. ASSUME NEW k \in 1 .. n + 1 PROVE k \in {1} \cup {i + 1 : i \in 1 .. n}
  <2>1. CASE k # 1
    <3>1. k - 1 \in 1 .. n /\ k = (k - 1) + 1
      BY <2>1
    <3> QED BY <3>1
  <2> QED BY <2>1
<1> QED BY <1>1

\* A line of pass 1 makes the next entry of at1 and leaves those before.
LEMMA ReachedLine ==
    ASSUME TypeOK, History, History', \/ Pass1Switch \/ Pass1Ignored \/ Pass1Item
    PROVE  /\ Len(src) \in Nat /\ ln \in 1 .. Len(src) /\ src[ln] \in Line
           /\ src' = src /\ phase # "failed" /\ phase' # "failed"
           /\ Read1 = 1 .. ln - 1 /\ Read1' = 1 .. ln
           /\ Reached = 1 .. ln /\ Reached' = 1 .. ln + 1
           /\ \A i \in 1 .. ln : at1'[i] = at1[i]
           /\ Effective(src[ln]) => at1'[ln + 1].sec = src[ln].name
           /\ Ignored(src[ln]) => at1'[ln + 1] = at1[ln]
           /\ src[ln].kind = "item" =>
                 /\ at1'[ln + 1].sec = at1[ln].sec
                 /\ at1'[ln + 1].off = at1[ln].off + Counted(src[ln], at1[ln].sec)
           /\ at1'[ln + 1].sec = current' /\ at1'[ln + 1].off = offset'[current']
<1>1. /\ Len(src) \in Nat /\ ln \in 1 .. Len(src) /\ src[ln] \in Line
      /\ src' = src /\ phase # "failed" /\ phase' # "failed"
      /\ phase' = "first_pass" /\ ln' = ln + 1
      /\ Read1 = 1 .. ln - 1 /\ Read1' = 1 .. ln
      /\ \A i \in 1 .. ln : at1'[i] = at1[i]
  BY Pass1Line
<1>2. Reached = 1 .. ln /\ Reached' = 1 .. ln + 1
  <2>1. ln - 1 \in Nat /\ ln \in Nat /\ (ln - 1) + 1 = ln
    BY <1>1
  <2>2. {1} \cup {i + 1 : i \in 1 .. ln - 1} = 1 .. ln
    BY <2>1, Entries
  <2>3. {1} \cup {i + 1 : i \in 1 .. ln} = 1 .. ln + 1
    BY <2>1, Entries
  <2> QED BY <1>1, <2>2, <2>3 DEF Reached
<1>3. at1'[ln'].sec = current' /\ at1'[ln'].off = offset'[current']
  BY <1>1 DEF History
<1>4. (\A i \in Read1 :
         /\ Effective(src[i]) => at1[i + 1].sec = src[i].name
         /\ Ignored(src[i]) => at1[i + 1] = at1[i]
         /\ src[i].kind = "item" =>
               /\ at1[i + 1].sec = at1[i].sec
               /\ at1[i + 1].off = at1[i].off + Counted(src[i], at1[i].sec))'
  BY DEF History
<1>5. /\ Effective(src[ln]) => at1'[ln + 1].sec = src[ln].name
      /\ Ignored(src[ln]) => at1'[ln + 1] = at1'[ln]
      /\ src[ln].kind = "item" =>
            /\ at1'[ln + 1].sec = at1'[ln].sec
            /\ at1'[ln + 1].off = at1'[ln].off + Counted(src[ln], at1'[ln].sec)
  BY <1>1, <1>4
<1> QED BY <1>1, <1>2, <1>3, <1>5

\* Every section a line stands in is known to adjust_labels.
LEMMA KnownSectionsStep ==
    ASSUME TypeOK, History, History', KnownSections, [Next]_vars
    PROVE  KnownSections'
<1>1. CASE Pass1Switch \/ Pass1Ignored \/ Pass1Item
  <2>1. SUFFICES ASSUME \A i \in 1 .. ln : Effective(src[i]) => Laid(src[i].name),
                        NEW j \in 1 .. ln + 1
                 PROVE  Laid(at1'[j].sec)
    <3>1. KnownSections' <=>
            ((\A i \in 1 .. ln : Effective(src[i]) => Laid(src[i].name))
                => \A i \in 1 .. ln + 1 : Laid(at1'[i].sec))
      BY <1>1, ReachedLine DEF KnownSections, Laid, Effective
    <3> QED BY <3>1
  <2>2. \A i \in 1 .. ln : Laid(at1[i].sec)
    <3>1. Read1 = 1 .. ln - 1 /\ Reached = 1 .. ln /\ ln \in Nat
      BY <1>1, ReachedLine
    <3>2. \A i \in 1 .. ln - 1 : Effective(src[i]) => Laid(src[i].name)
      BY <2>1, <3>1
    <3> QED BY <3>1, <3>2 DEF KnownSections
  <2>3. CASE j \in 1 .. ln
    BY <1>1, <2>2, <2>3, ReachedLine
  <2>4. CASE j = ln + 1
    <3>1. /\ src[ln] \in Line /\ ln \in 1 .. ln
          /\ Effective(src[ln]) => at1'[ln + 1].sec = src[ln].name
          /\ Ignored(src[ln]) => at1'[ln + 1] = at1[ln]
          /\ src[ln].kind = "item" => at1'[ln + 1].sec = at1[ln].sec
      BY <1>1, ReachedLine
    <3>2. Effective(src[ln]) \/ Ignored(src[ln]) \/ src[ln].kind = "item"
      BY <3>1, LineFacts, LineKinds
    <3> QED BY <2>1, <2>2, <2>4, <3>1, <3>2
  <2> QED BY <1>1, <2>3, <2>4, ReachedLine
<1>2. CASE Pass1Fail \/ Pass2Fail
  <2>1. Read1' = {} /\ Reached' = {1} /\ at1'[1] = Start1
    BY <1>2, FailSteps DEF Read1, Reached, History
  <2> QED BY <2>1 DEF KnownSections, Start1, Laid, Standard
<1>3. CASE \/ Pass1End \/ AdjustSection \/ AdjustEnd
           \/ Pass2Switch \/ Pass2Ignored \/ Pass2Item \/ Pass2End
  BY <1>3, ReadKept DEF KnownSections, Reached, Laid
<1>4. CASE UNCHANGED vars
  BY <1>4 DEF vars, KnownSections, Reached, Read1, Laid
<1> QED BY <1>1, <1>2, <1>3, <1>4 DEF Next

\* A tidy line counts nothing negative.
LEMMA TidyCountsUp ==
    ASSUME NEW l \in Line, l.kind = "item", NEW s \in Names, Tidy(l, s)
    PROVE  Counted(l, s) \in Nat
BY TidyAgree, WrittenNat

TidyRead == \A i \in Read1 : IsItem(i) => Tidy(src[i], at1[i].sec)

\* What a line of pass 1 adds to the section it stands in.
LEMMA GrowthLine ==
    ASSUME TypeOK, History, History', \/ Pass1Switch \/ Pass1Ignored \/ Pass1Item,
           TidyRead'
    PROVE  /\ TidyRead
           /\ \A s \in Names : /\ offset[s] \in Int /\ offset'[s] \in Int
                               /\ offset'[s] >= offset[s]
           /\ \A s \in Names : offset'[s] # offset[s] =>
                 /\ src[ln].kind = "item" /\ at1[ln].sec = s
                 /\ at1[ln].off = offset[s] /\ at1'[ln + 1].off = offset'[s]
           /\ at1'[ln + 1].sec \in Names
           /\ at1'[ln + 1].off = offset'[at1'[ln + 1].sec]
<1>1. TidyRead /\ (src[ln].kind = "item" => Tidy(src[ln], at1[ln].sec))
  <2>1. \A i \in 1 .. ln : src[i].kind = "item" => Tidy(src[i], at1[i].sec)
    <3>1. \A i \in 1 .. ln : src'[i].kind = "item" => Tidy(src'[i], at1'[i].sec)
      BY ReachedLine DEF TidyRead, IsItem, Tidy, IsText
    <3> QED BY <3>1, ReachedLine
  <2> QED BY <2>1, ReachedLine DEF TidyRead, IsItem
<1>2. /\ at1[ln].sec = current /\ at1[ln].off = offset[current] /\ current \in Names
      /\ \A s \in Names : offset[s] \in Int
  BY Pass1Line DEF TypeOK, ReadType, Pass1Type
<1>3. CASE Pass1Switch \/ Pass1Ignored
  <2>1. offset' = offset
    BY <1>3 DEF Pass1Switch, Pass1Ignored
  <2>2. at1'[ln + 1].sec \in Names
    <3>1. CASE Pass1Switch
      BY <3>1, ReachedLine, LineFacts, LineKinds DEF Pass1Switch
    <3>2. CASE Pass1Ignored
      BY <1>2, <3>2, ReachedLine DEF Pass1Ignored
    <3> QED BY <1>3, <3>1, <3>2
  <2> QED BY <1>1, <1>2, <2>1, <2>2, ReachedLine
<1>4. CASE Pass1Item
  <2> DEFINE n == Counted(src[ln], current)
  <2>1. /\ offset' = [offset EXCEPT ![current] = @ + n] /\ current' = current
        /\ src[ln].kind = "item"
    BY <1>4 DEF Pass1Item
  <2>2. n \in Nat
    BY <1>1, <1>2, <2>1, ReachedLine, TidyCountsUp
  <2> HIDE DEF n
  <2>3. /\ offset'[current] = offset[current] + n
        /\ \A s \in Names : s # current => offset'[s] = offset[s]
    BY <1>2, <2>1 DEF TypeOK, Pass1Type
  <2> QED BY <1>1, <1>2, <2>1, <2>2, <2>3, ReachedLine
<1> QED BY <1>3, <1>4

\* The sections grow line by line, none is counted in two.
LEMMA GrowthStep ==
    ASSUME TypeOK, History, History', Growth, [Next]_vars
    PROVE  Growth'
<1>1. CASE Pass1Switch \/ Pass1Ignored \/ Pass1Item
  <2>1. SUFFICES ASSUME TidyRead'
                 PROVE  /\ \A s \in Names : offset'[s] >= 0
                        /\ \A i \in 1 .. ln + 1 :
                              at1'[i].off >= 0 /\ at1'[i].off <= offset'[at1'[i].sec]
                        /\ \A i \in 1 .. ln, j \in 1 .. ln + 1 :
                              (i < j /\ src[i].kind = "item" /\ at1'[j].sec = at1'[i].sec)
                                  => at1'[i + 1].off <= at1'[j].off
                        /\ \A s \in Names : \A o \in 0 .. offset'[s] - 1 : \E i \in 1 .. ln :
                              /\ src[i].kind = "item" /\ at1'[i].sec = s
                              /\ o \in at1'[i].off .. at1'[i + 1].off - 1
    <3>1. /\ src' = src /\ phase' # "failed"
          /\ Read1' = 1 .. ln /\ Reached' = 1 .. ln + 1
      BY <1>1, ReachedLine
    <3>2. TidyRead' =
            \A i \in Read1' : src'[i].kind = "item" => Tidy(src'[i], at1'[i].sec)
      BY DEF TidyRead, IsItem, Tidy, IsText
    <3> QED BY <2>1, <3>1, <3>2 DEF Growth, IsItem, Tidy, IsText
  <2>2. /\ ln \in Nat /\ ln >= 1 /\ ln <= Len(src) /\ Len(src) \in Nat
        /\ \A i \in 1 .. ln : at1'[i] = at1[i] /\ at1[i].off \in Int /\ at1[i].sec \in Names
    BY <1>1, ReachedLine DEF TypeOK, Pass1Type
  <2>3. /\ \A s \in Names : offset[s] >= 0
        /\ \A i \in 1 .. ln : at1[i].off >= 0 /\ at1[i].off <= offset[at1[i].sec]
        /\ \A i \in 1 .. ln - 1, j \in 1 .. ln :
              (i < j /\ src[i].kind = "item" /\ at1[j].sec = at1[i].sec)
                  => at1[i + 1].off <= at1[j].off
        /\ \A s \in Names : \A o \in 0 .. offset[s] - 1 : \E i \in 1 .. ln - 1 :
              /\ src[i].kind = "item" /\ at1[i].sec = s
              /\ o \in at1[i].off .. at1[i + 1].off - 1
    BY <1>1, <2>1, ReachedLine, GrowthLine, ZenonT(40) DEF Growth, TidyRead, IsItem
  <2>4. /\ \A s \in Names : /\ offset[s] \in Int /\ offset'[s] \in Int
                            /\ offset'[s] >= offset[s]
        /\ \A s \in Names : offset'[s] # offset[s] =>
              /\ src[ln].kind = "item" /\ at1[ln].sec = s
              /\ at1[ln].off = offset[s] /\ at1'[ln + 1].off = offset'[s]
        /\ at1'[ln + 1].sec \in Names
        /\ at1'[ln + 1].off = offset'[at1'[ln + 1].sec]
    BY <1>1, <2>1, GrowthLine
  <2>5. \A s \in Names : offset'[s] >= 0
    BY <2>3, <2>4
  <2>6. ASSUME NEW i \in 1 .. ln + 1
        PROVE  at1'[i].off >= 0 /\ at1'[i].off <= offset'[at1'[i].sec]
    <3>1. CASE i \in 1 .. ln
      BY <2>2, <2>3, <2>4, <3>1, SMTT(30)
    <3>2. CASE i = ln + 1
      BY <2>4, <2>5, <3>2
    <3> QED BY <2>2, <3>1, <3>2
  <2>7. ASSUME NEW i \in 1 .. ln, NEW j \in 1 .. ln + 1, i < j, src[i].kind = "item",
               at1'[j].sec = at1'[i].sec
        PROVE  at1'[i + 1].off <= at1'[j].off
    <3>1. CASE j \in 1 .. ln
      <4>1. i \in 1 .. ln - 1 /\ i + 1 \in 1 .. ln
        BY <2>2, <2>7, <3>1
      <4> QED BY <2>2, <2>3, <2>7, <3>1, <4>1
    <3>2. CASE j = ln + 1 /\ i = ln
      BY <2>4, <3>2
    <3>3. CASE j = ln + 1 /\ i < ln
      <4>1. i \in Read1 /\ i + 1 \in 1 .. ln
        BY <1>1, <2>2, <3>3, ReachedLine
      <4>2. at1[i + 1].sec = at1[i].sec
        BY <2>7, <4>1 DEF History
      <4> DEFINE s == at1[i].sec
      <4>3. s \in Names /\ at1'[j].sec = s /\ at1'[i + 1] = at1[i + 1]
        BY <2>2, <2>7, <4>1
      <4>4. at1[i + 1].off <= offset[s] /\ at1[i + 1].off \in Int
        BY <2>2, <2>3, <4>1, <4>2
      <4>5. at1'[j].off = offset'[s]
        BY <2>4, <3>3, <4>3
      <4>6. offset[s] \in Int /\ offset'[s] \in Int /\ offset'[s] >= offset[s]
        BY <2>4, <4>3
      <4> HIDE DEF s
      <4> QED BY <4>3, <4>4, <4>5, <4>6
    <3> QED BY <2>2, <3>1, <3>2, <3>3
  <2>8. ASSUME NEW s \in Names, NEW o \in 0 .. offset'[s] - 1
        PROVE  \E i \in 1 .. ln : /\ src[i].kind = "item" /\ at1'[i].sec = s
                                  /\ o \in at1'[i].off .. at1'[i + 1].off - 1
    <3>1. CASE o < offset[s]
      <4>1. o \in 0 .. offset[s] - 1
        BY <2>4, <3>1
      <4>2. PICK i \in 1 .. ln - 1 : /\ src[i].kind = "item" /\ at1[i].sec = s
                                     /\ o \in at1[i].off .. at1[i + 1].off - 1
        BY <2>3, <4>1
      <4>3. i \in 1 .. ln /\ i + 1 \in 1 .. ln
        BY <2>2
      <4> QED BY <2>2, <4>2, <4>3
    <3>2. CASE o >= offset[s]
      <4>1. /\ src[ln].kind = "item" /\ at1[ln].sec = s
            /\ at1[ln].off = offset[s] /\ at1'[ln + 1].off = offset'[s]
        BY <2>4, <3>2
      <4>2. ln \in 1 .. ln /\ at1'[ln] = at1[ln]
        BY <2>2
      <4>3. o \in at1'[ln].off .. at1'[ln + 1].off - 1
        BY <2>4, <3>2, <4>1, <4>2
      <4> QED BY <4>1, <4>2, <4>3
    <3> QED BY <2>4, <3>1, <3>2
  <2> QED BY <2>5, <2>6, <2>7, <2>8
<1>2. CASE Pass1Fail \/ Pass2Fail
  BY <1>2, FailSteps DEF Growth
<1>3. CASE \/ Pass1End \/ AdjustSection \/ AdjustEnd
           \/ Pass2Switch \/ Pass2Ignored \/ Pass2Item \/ Pass2End
  BY <1>3, ReadKept DEF Growth, Reached, IsItem
<1>4. CASE UNCHANGED vars
  <2>1. Read1' = Read1 /\ Reached' = Reached
    BY <1>4 DEF vars, Read1, Reached
  <2> QED BY <1>4, <2>1 DEF vars, Growth, IsItem
<1> QED BY <1>1, <1>2, <1>3, <1>4 DEF Next

----------------------------------------------------------------------------
(* Where adjust_labels puts the sections.                                  *)

\* No section that gets a base at its visit has been visited before.
LEMMA FirstVisit ==
    ASSUME NEW k \in 1 .. Visits, NEW j \in 1 .. k - 1,
           k <= 4 \/ TypeOf[Visited(k)] = "custom"
    PROVE  Visited(j) # Visited(k)
<1>1. Visits \in Nat /\ Visits = 4 + Len(MapOrder) /\ Len(MapOrder) \in Nat
  BY VisitFacts, MapOrderAssumption DEF Visits
<1>2. CASE k <= 4
  <2>1. k \in {1, 2, 3, 4} /\ j \in {1, 2, 3, 4} /\ j # k
    BY <1>1, <1>2
  <2> QED BY <2>1 DEF Visited
<1>3. CASE k > 4 /\ j <= 4
  <2>1. TypeOf[Visited(k)] = "custom" /\ j \in {1, 2, 3, 4}
    BY <1>1, <1>3
  <2>2. TypeOf[Visited(j)] # "custom"
    BY <2>1, NamesAssumption DEF Visited
  <2> QED BY <2>1, <2>2
<1>4. CASE j > 4
  <2>1. /\ k - 4 \in 1 .. Len(MapOrder) /\ j - 4 \in 1 .. Len(MapOrder) /\ k - 4 # j - 4
        /\ Visited(k) = MapOrder[k - 4] /\ Visited(j) = MapOrder[j - 4]
    BY <1>1, <1>4 DEF Visited
  <2> QED BY <2>1, MapOrderAssumption, ZenonT(40)
<1> QED BY <1>1, <1>2, <1>3, <1>4

\* Every section adjust_labels knows has its visit.
LEMMA AllVisited ==
    ASSUME NEW s \in Names
    PROVE  /\ \E k \in 1 .. Visits : Visited(k) = s
           /\ s \in Standard => \E k \in 1 .. 4 : Visited(k) = s
<1>1. ASSUME s \in Standard PROVE \E k \in 1 .. 4 : Visited(k) = s
  BY <1>1 DEF Visited, Standard
<1>2. PICK m \in 1 .. Len(MapOrder) : MapOrder[m] = s
  BY MapOrderAssumption
<1>3. m + 4 \in 1 .. Visits /\ Visited(m + 4) = s
  <2>1. Len(MapOrder) \in Nat /\ m \in 1 .. Len(MapOrder)
    BY MapOrderAssumption
  <2>2. m + 4 \in 1 .. Visits
    BY <2>1 DEF Visits
  <2>3. m + 4 \notin {1, 2, 3, 4} /\ (m + 4) - 4 = m
    BY <2>1
  <2>4. Visited(m + 4) = MapOrder[m]
    BY <2>3, Zenon DEF Visited
  <2> QED BY <1>2, <2>2, <2>4
<1> QED BY <1>1, <1>3

\* A visit settles the section visited, if it has a base, and no other.
LEMMA SettledStep ==
    ASSUME TypeOK, AdjustSection
    PROVE  /\ next \in 1 .. Visits /\ next' = next + 1 /\ Visited(next) \in Names
           /\ \A s \in Names : Settled(s)' <=> (Settled(s) \/ (s = Visited(next) /\ Laid(s)))
           /\ Placed(next) => Laid(Visited(next))
           /\ (next <= 4 \/ TypeOf[Visited(next)] = "custom") => ~Settled(Visited(next))
<1>1. next \in 1 .. Visits /\ next' = next + 1 /\ Visited(next) \in Names
  BY VisitFacts DEF AdjustSection, TypeOK, AdjustType
<1>2. \A k \in 1 .. next : k \in 1 .. next - 1 \/ k = next
  BY <1>1, VisitFacts
<1>3. \A s \in Names : Settled(s)' <=> (Settled(s) \/ (s = Visited(next) /\ Laid(s)))
  <2>1. 1 .. next' - 1 = 1 .. next
    BY <1>1, VisitFacts
  <2>2. \A s : Settled(s)' <=> (Laid(s) /\ \E k \in 1 .. next : Visited(k) = s)
    BY <2>1 DEF Settled, Laid, Visited
  <2>3. 1 .. next - 1 \subseteq 1 .. next /\ next \in 1 .. next
    BY <1>1, VisitFacts
  <2> QED BY <1>2, <2>2, <2>3 DEF Settled
<1>4. Placed(next) => Laid(Visited(next))
  <2>1. CASE next <= 4
    <3>1. next \in {1, 2, 3, 4}
      BY <1>1, <2>1, VisitFacts
    <3> QED BY <3>1 DEF Visited, Laid, Standard
  <2>2. CASE ~(next <= 4)
    BY <2>2 DEF Placed, Laid
  <2> QED BY <2>1, <2>2
<1>5. ASSUME next <= 4 \/ TypeOf[Visited(next)] = "custom" PROVE ~Settled(Visited(next))
  BY <1>1, <1>5, FirstVisit DEF Settled
<1> QED BY <1>1, <1>3, <1>4, <1>5

\* The bases spread the sections out, one after the other.
LEMMA SpreadStep ==
    ASSUME TypeOK, Bases, Spread, [Next]_vars
    PROVE  Spread'
<1>1. CASE Pass1Switch \/ Pass1Ignored \/ Pass1Item \/ Pass1Fail \/ Pass2Fail
  <2>1. UNCHANGED <<base, next>> /\ ~Laying'
    BY <1>1 DEF Pass1Switch, Pass1Ignored, Pass1Item, UnchangedByPass1, Pass1Fail,
                Pass2Fail, Fail, Laying
  <2> QED BY <2>1 DEF Spread, Settled, Laid, Visited
<1>2. CASE Pass1End
  <2>1. /\ UNCHANGED <<base, next, free, offset>> /\ next = 1 /\ free = 0
    BY <1>2 DEF Pass1End, Bases
  <2>2. \A s : ~Settled(s) /\ ~Settled(s)'
    BY <2>1 DEF Settled
  <2>3. \A s \in Names : (TypeOf[s] = "custom" /\ ~Settled(s)') => base'[s] = 0
    BY <2>1, <2>2 DEF Spread
  <2>4. free' = 0 /\ 0 .. free' - 1 = {}
    BY <2>1
  <2> QED BY <2>2, <2>3, <2>4 DEF Spread
<1>3. CASE AdjustSection
  <2> DEFINE v == Visited(next)
  <2>1. v \in Names /\ offset' = offset /\ Laying
    BY <1>3, SettledStep DEF AdjustSection, UnchangedByAdjust, Laying
  <2>2. /\ \A s \in Names : Settled(s)' <=> (Settled(s) \/ (s = v /\ Laid(s)))
        /\ Placed(next) => Laid(v)
        /\ (next <= 4 \/ TypeOf[v] = "custom") => ~Settled(v)
    BY <1>3, SettledStep
  <2>3. CASE Placed(next)
    <3>1. base' = [base EXCEPT ![v] = free] /\ free' = free + offset[v]
      BY <1>3, <2>3 DEF AdjustSection
    <3>2. ~Settled(v) /\ Laid(v)
      BY <2>2, <2>3 DEF Placed
    <3> HIDE DEF v
    <3>3. /\ base'[v] = free /\ free \in Int
          /\ \A s \in Names : /\ s # v => base'[s] = base[s]
                              /\ base[s] \in Int /\ offset[s] \in Int
      BY <2>1, <3>1 DEF TypeOK, Pass1Type, AdjustType
    <3>4. \A s \in Names : Settled(s)' <=> (Settled(s) \/ s = v)
      BY <2>2, <3>2
    <3>5. \A s \in Names : (TypeOf[s] = "custom" /\ ~Settled(s)') => base'[s] = 0
      BY <3>3, <3>4 DEF Spread
    <3>6. ASSUME \A s \in Names : offset[s] >= 0
          PROVE  /\ free' >= 0
                 /\ \A s \in Names : Settled(s)' => base'[s] >= 0 /\ base'[s] + offset[s] <= free'
                 /\ \A s, t \in Names : (Settled(s)' /\ Settled(t)' /\ s # t) =>
                       \/ base'[s] + offset[s] <= base'[t]
                       \/ base'[t] + offset[t] <= base'[s]
                 /\ \A a \in 0 .. free' - 1 : \E s \in Names :
                       Settled(s)' /\ a \in base'[s] .. base'[s] + offset[s] - 1
      <4>1. /\ free >= 0
            /\ \A s \in Names : Settled(s) => base[s] >= 0 /\ base[s] + offset[s] <= free
            /\ \A s, t \in Names : (Settled(s) /\ Settled(t) /\ s # t) =>
                  \/ base[s] + offset[s] <= base[t]
                  \/ base[t] + offset[t] <= base[s]
            /\ \A a \in 0 .. free - 1 : \E s \in Names :
                  Settled(s) /\ a \in base[s] .. base[s] + offset[s] - 1
        BY <2>1, <3>6 DEF Spread
      <4>2. free' >= 0 /\ free' >= free
        BY <2>1, <3>1, <3>3, <3>6, <4>1
      <4>3. ASSUME NEW s \in Names, Settled(s)'
            PROVE  base'[s] >= 0 /\ base'[s] + offset[s] <= free'
        <5>1. CASE s = v
          BY <2>1, <3>1, <3>3, <4>1, <5>1
        <5>2. CASE s # v
          BY <2>1, <3>1, <3>3, <3>4, <3>6, <4>1, <4>3, <5>2
        <5> QED BY <5>1, <5>2
      <4>4. ASSUME NEW s \in Names, NEW t \in Names, Settled(s)', Settled(t)', s # t
            PROVE  \/ base'[s] + offset[s] <= base'[t]
                   \/ base'[t] + offset[t] <= base'[s]
        BY <3>3, <3>4, <4>1, <4>4
      <4>5. ASSUME NEW a \in 0 .. free' - 1
            PROVE  \E s \in Names : Settled(s)' /\ a \in base'[s] .. base'[s] + offset[s] - 1
        <5>1. CASE a < free
          <6>1. a \in 0 .. free - 1
            BY <3>3, <4>5, <5>1
          <6>2. PICK s \in Names : Settled(s) /\ a \in base[s] .. base[s] + offset[s] - 1
            BY <4>1, <6>1
          <6>3. s # v
            BY <3>2, <6>2
          <6> QED BY <3>3, <3>4, <6>2, <6>3
        <5>2. CASE a >= free
          <6>1. a \in base'[v] .. base'[v] + offset[v] - 1
            BY <2>1, <3>1, <3>3, <4>5, <5>2
          <6> QED BY <2>1, <3>4, <6>1
        <5> QED BY <3>3, <4>5, <5>1, <5>2
      <4> QED BY <4>2, <4>3, <4>4, <4>5
    <3> QED BY <2>1, <3>5, <3>6 DEF Spread
  <2>4. CASE ~Placed(next)
    <3>1. UNCHANGED <<base, free>> /\ ~(next <= 4)
      BY <1>3, <2>4 DEF AdjustSection, Placed
    <3>2. ASSUME Laid(v) PROVE Settled(v)
      <4>1. CASE TypeOf[v] = "custom"
        BY <2>1, <2>2, <2>4, <4>1 DEF Placed, Spread
      <4>2. CASE v \in Standard
        <5>1. PICK k \in 1 .. 4 : Visited(k) = v
          BY <2>1, <4>2, AllVisited
        <5>2. k \in 1 .. next - 1
          BY <1>3, <3>1, VisitFacts DEF TypeOK, AdjustType
        <5> QED BY <3>2, <5>1, <5>2 DEF Settled
      <4> QED BY <3>2, <4>1, <4>2 DEF Laid
    <3>3. \A s \in Names : Settled(s)' <=> Settled(s)
      BY <2>2, <3>2
    <3> QED BY <2>1, <3>1, <3>3 DEF Spread
  <2> QED BY <2>3, <2>4
<1>4. CASE AdjustEnd \/ Pass2Switch \/ Pass2Ignored \/ Pass2Item \/ Pass2End
  <2>1. UNCHANGED <<base, next, free, offset>> /\ Laying
    BY <1>4, LaterSteps DEF AdjustEnd, Pass2Switch, Pass2Ignored, Pass2Item, Pass2End,
                            UnchangedByPass2
  <2> QED BY <2>1 DEF Spread, Settled, Laid, Visited
<1>5. CASE UNCHANGED vars
  BY <1>5 DEF vars, Spread, Settled, Laid, Visited, Laying
<1> QED BY <1>1, <1>2, <1>3, <1>4, <1>5 DEF Next

\* Every name is in MapOrder: they are finitely many.
LEMMA NamesFinite == IsFiniteSet(Names)
<1>1. Len(MapOrder) \in Nat
  BY MapOrderAssumption
<1>2. MapOrder \in Surjection(1 .. Len(MapOrder), Names)
  BY MapOrderAssumption DEF Surjection
<1>3. IsFiniteSet(1 .. Len(MapOrder))
  BY <1>1, FS_Interval
<1> QED BY <1>2, <1>3, FS_Surjection

\* A section placed is one more to sum over; one passed by was placed before.
LEMMA TotalsStep ==
    ASSUME TypeOK, Bases, Spread, Totals, [Next]_vars
    PROVE  Totals'
<1> DEFINE S == {s \in Names : Settled(s)}
<1>1. CASE Pass1Switch \/ Pass1Ignored \/ Pass1Item \/ Pass1Fail \/ Pass2Fail
  BY <1>1 DEF Pass1Switch, Pass1Ignored, Pass1Item, UnchangedByPass1, Pass1Fail,
              Pass2Fail, Fail, Laying, Totals
<1>2. CASE Pass1End
  <2>1. next' = 1 /\ free' = 0
    BY <1>2 DEF Pass1End, Bases
  <2>2. {s \in Names : Settled(s)'} = {}
    BY <2>1 DEF Settled
  <2>3. /\ offset' = offset
        /\ sizes'.text = SumFunctionOnSet(offset, {s \in Names : IsText(s)})
        /\ sizes'.data = SumFunctionOnSet(offset, {s \in Names : TypeOf[s] \in DataTypes})
    BY <1>2 DEF Pass1End
  <2> QED BY <2>1, <2>2, <2>3, SumOfNone DEF Totals
<1>3. CASE AdjustSection
  <2> DEFINE v == Visited(next)
             T == {s \in Names : Settled(s)'}
  <2>1. /\ next \in 1 .. Visits /\ v \in Names
        /\ \A s \in Names : Settled(s)' <=> (Settled(s) \/ (s = v /\ Laid(s)))
        /\ Placed(next) => Laid(v)
        /\ (next <= 4 \/ TypeOf[v] = "custom") => ~Settled(v)
    BY <1>3, SettledStep
  <2>2. Laying /\ UNCHANGED <<sizes, offset>>
    BY <1>3 DEF AdjustSection, Laying, UnchangedByAdjust
  <2>3. \A s \in Names : offset[s] \in Int
    BY DEF TypeOK, Pass1Type
  <2>4. CASE Placed(next)
    <3>1. ~Settled(v) /\ free' = free + offset[v]
      BY <1>3, <2>1, <2>4 DEF AdjustSection, Placed
    <3>2. T = S \cup {v} /\ v \notin S /\ S \subseteq Names
      BY <2>1, <2>4, <3>1
    <3>3. IsFiniteSet(S) /\ \A s \in S \cup {v} : offset[s] \in Int
      BY <2>1, <2>3, <3>2, NamesFinite, FS_Subset
    <3> HIDE DEF S, T, v
    <3>4. SumFunctionOnSet(offset, S) \in Int
      BY <3>3, SumIsInt
    <3>5. SumFunctionOnSet(offset, S \cup {v}) = offset[v] + SumFunctionOnSet(offset, S)
      BY <3>2, <3>3, SumAdd
    <3>6. SumFunctionOnSet(offset, T) = SumFunctionOnSet(offset, S \cup {v})
      BY <3>2, Zenon
    <3>7. free = SumFunctionOnSet(offset, S)
      BY <2>2 DEF Totals, S
    <3>8. free' = SumFunctionOnSet(offset, T)
      BY <2>1, <2>3, <3>1, <3>4, <3>5, <3>6, <3>7
    <3> QED BY <2>2, <3>8 DEF Totals, T
  <2>5. CASE ~Placed(next)
    <3>1. free' = free
      BY <1>3, <2>5 DEF AdjustSection
    <3>2. ~Laid(v) \/ Settled(v)
      <4>1. next > 4 /\ (TypeOf[v] # "custom" \/ base[v] # 0)
        BY <2>1, <2>5, VisitFacts DEF Placed
      <4>2. v \in Standard => Settled(v)
        <5>1. v \in Standard => \E k \in 1 .. 4 : Visited(k) = v
          BY <2>1, AllVisited
        <5>2. 1 .. 4 \subseteq 1 .. next - 1
          BY <2>1, <4>1, VisitFacts
        <5> QED BY <5>1, <5>2 DEF Settled, Laid
      <4> QED BY <2>1, <4>1, <4>2 DEF Spread, Laid
    <3>3. T = S
      BY <2>1, <3>2
    <3> HIDE DEF S, T, v
    <3>4. SumFunctionOnSet(offset, T) = SumFunctionOnSet(offset, S)
      BY <3>3, Zenon
    <3>5. free' = SumFunctionOnSet(offset, T)
      BY <2>2, <3>1, <3>4 DEF Totals, S
    <3> QED BY <2>2, <3>5 DEF Totals, T
  <2> QED BY <2>4, <2>5
<1>4. CASE AdjustEnd \/ Pass2Switch \/ Pass2Ignored \/ Pass2Item \/ Pass2End \/ UNCHANGED vars
  <2>1. UNCHANGED <<free, next, offset, sizes>> /\ (Laying' => Laying)
    BY <1>4 DEF AdjustEnd, Pass2Switch, Pass2Ignored, Pass2Item, UnchangedByPass2, Pass2End,
                vars, Laying
  <2>2. {s \in Names : Settled(s)'} = {s \in Names : Settled(s)}
    BY <2>1 DEF Settled, Laid, Visited
  <2> QED BY <2>1, <2>2 DEF Totals
<1> QED BY <1>1, <1>2, <1>3, <1>4 DEF Next

\* Once adjust_labels has come to the end, every section it knows lies where
\* no other does, below current_base, and together they reach up to it.
LEMMA SpreadOut ==
    ASSUME TypeOK, Bases, Spread, Moved, \A s \in Names : offset[s] >= 0
    PROVE  /\ free \in Nat
           /\ \A s \in Names : Laid(s) => base[s] >= 0 /\ base[s] + offset[s] <= free
           /\ \A s, t \in Names : (Laid(s) /\ Laid(t) /\ s # t) =>
                 \/ base[s] + offset[s] <= base[t]
                 \/ base[t] + offset[t] <= base[s]
           /\ \A a \in 0 .. free - 1 : \E s \in Names :
                 Laid(s) /\ a \in base[s] .. base[s] + offset[s] - 1
<1>1. Laying /\ next = Visits + 1
  BY DEF Moved, Laying, Bases
<1>2. \A s \in Names : Settled(s) <=> Laid(s)
  <2>1. 1 .. next - 1 = 1 .. Visits
    BY <1>1, VisitFacts
  <2> QED BY <2>1, AllVisited DEF Settled
<1> QED BY <1>1, <1>2 DEF Spread, TypeOK, AdjustType

----------------------------------------------------------------------------
(* What pass 2 has written.                                                *)

\* What is known of a disciplined source once its layout is settled: every
\* line's bytes lie in its section, and no two lines' bytes meet.
LEMMA DisciplinedLayout ==
    ASSUME LabelInv, KnownSections, Growth, Spread, Moved, Disciplined
    PROVE  /\ \A s \in Names : offset[s] >= 0
           /\ \A i \in 1 .. Len(src) + 1 :
                 /\ at1[i].sec \in Names /\ Laid(at1[i].sec)
                 /\ at1[i].off \in Nat /\ at1[i].off <= offset[at1[i].sec]
           /\ \A i \in 1 .. Len(src), j \in 1 .. Len(src) + 1 :
                 (i < j /\ IsItem(i) /\ at1[j].sec = at1[i].sec) => at1[i + 1].off <= at1[j].off
           /\ \A s \in Names : \A o \in 0 .. offset[s] - 1 : \E i \in 1 .. Len(src) :
                 /\ IsItem(i) /\ at1[i].sec = s
                 /\ o \in at1[i].off .. at1[i + 1].off - 1
           /\ \A i \in 1 .. Len(src) : IsItem(i) => at1[i + 1].sec = at1[i].sec
<1>1. /\ Len(src) \in Nat /\ phase # "failed" /\ Read1 = 1 .. Len(src)
      /\ Reached = 1 .. Len(src) + 1
  BY SourceLength, Entries DEF LabelInv, TypeOK, ReadType, Moved, Read1, Reached
<1>2. \A i \in 1 .. Len(src) + 1 : at1[i].sec \in Names /\ at1[i].off \in Int
  BY DEF LabelInv, TypeOK, Pass1Type
<1>3. \A i \in 1 .. Len(src) + 1 : Laid(at1[i].sec)
  BY <1>1 DEF KnownSections, Disciplined
<1>4. \A i \in Read1 : IsItem(i) => Tidy(src[i], at1[i].sec)
  BY <1>1 DEF Disciplined, IsItem
<1>5. \A i \in 1 .. Len(src) : IsItem(i) => at1[i + 1].sec = at1[i].sec
  BY <1>1 DEF LabelInv, History, IsItem
<1> QED BY <1>1, <1>2, <1>3, <1>4, <1>5 DEF Growth

\* The bytes pass 1 gave a line.
Place(i) == base[at1[i].sec] + at1[i].off .. (base[at1[i].sec] + at1[i + 1].off) - 1

\* No two lines were given a byte in common.
LEMMA PlacesApart ==
    ASSUME LabelInv, KnownSections, Growth, Spread, Moved, Disciplined,
           NEW i \in 1 .. Len(src), NEW j \in 1 .. Len(src), i < j, IsItem(i), IsItem(j)
    PROVE  Place(i) \cap Place(j) = {}
<1> DEFINE s == at1[i].sec
           t == at1[j].sec
           from1 == at1[i].off
           to1 == at1[i + 1].off
           from2 == at1[j].off
           to2 == at1[j + 1].off
           b == base[s]
           c == base[t]
           m == offset[s]
           n == offset[t]
<1>1. /\ Len(src) \in Nat /\ i + 1 \in 1 .. Len(src) + 1 /\ j + 1 \in 1 .. Len(src) + 1
      /\ i \in 1 .. Len(src) + 1 /\ j \in 1 .. Len(src) + 1
  BY SourceLength DEF LabelInv, TypeOK, ReadType
<1>2. /\ s \in Names /\ Laid(s) /\ t \in Names /\ Laid(t)
      /\ at1[i + 1].sec = s /\ at1[j + 1].sec = t
      /\ from1 \in Nat /\ to1 \in Nat /\ to1 <= m
      /\ from2 \in Nat /\ to2 \in Nat /\ to2 <= n
      /\ s = t => to1 <= from2
      /\ \A k \in Names : offset[k] >= 0
  BY <1>1, DisciplinedLayout
<1>3. b \in Int /\ c \in Int /\ m \in Int /\ n \in Int
  BY <1>2 DEF LabelInv, TypeOK, Pass1Type, AdjustType
<1>4. \/ (b = c /\ to1 <= from2) \/ b + m <= c \/ c + n <= b
  <2>1. s # t => b + m <= c \/ c + n <= b
    BY <1>2, SpreadOut DEF LabelInv
  <2> QED BY <1>2, <2>1
<1>5. from1 \in Nat /\ to1 \in Nat /\ to1 <= m /\ from2 \in Nat /\ to2 \in Nat /\ to2 <= n
  BY <1>2
<1>6. Place(i) = b + from1 .. (b + to1) - 1 /\ Place(j) = c + from2 .. (c + to2) - 1
  BY DEF Place
<1> HIDE DEF s, t, b, c, m, n, from1, to1, from2, to2
<1>7. \A a \in b + from1 .. (b + to1) - 1 : a \notin c + from2 .. (c + to2) - 1
  BY <1>3, <1>4, <1>5
<1> QED BY <1>6, <1>7

\* Where pass 2 has been, told line by line.
LEMMA HandledPlaces ==
    ASSUME LabelInv, Output, Moved, Disciplined, NEW i \in Handled
    PROVE  /\ i \in 1 .. Len(src)
           /\ IsItem(i) => at2[i].at .. at2[i].end - 1 = Place(i)
           /\ ~IsItem(i) => at2[i].at .. at2[i].end - 1 = {}
<1>1. i \in 1 .. Len(src)
  BY SourceLength DEF Handled, LabelInv, TypeOK, ReadType
<1>2. at2[i].at \in Int /\ at2[i].end \in Int
  BY <1>1 DEF LabelInv, TypeOK, Pass2Type
<1>3. IsItem(i) => at2[i].at = base[at1[i].sec] + at1[i].off
  BY DEF LabelInv, InStep, IsItem
<1>4. /\ IsItem(i) => at2[i].end = base[at1[i].sec] + at1[i + 1].off
      /\ ~IsItem(i) => at2[i].end = at2[i].at
  BY DEF Output, Moved
<1>5. IsItem(i) => at2[i].at .. at2[i].end - 1 = Place(i)
  BY <1>3, <1>4 DEF Place
<1>6. ~IsItem(i) => at2[i].at .. at2[i].end - 1 = {}
  BY <1>2, <1>4
<1> QED BY <1>1, <1>5, <1>6

\* The bytes a line writes, in a disciplined source: those pass 1 gave it,
\* none of which is written yet.
LEMMA ItemWrites ==
    ASSUME LabelInv, KnownSections, Growth, Spread, Output, Pass2Item
    PROVE  /\ ln \in 1 .. Len(src) /\ IsItem(ln) /\ Moved
           /\ at2'[ln].at = pc /\ at2'[ln].end = pc + Written(src[ln], current)
           /\ pc \in Int /\ Written(src[ln], current) \in Nat
           /\ fpos' = fpos + Written(src[ln], current) /\ pc' = pc + Written(src[ln], current)
           /\ image' = [a \in DOMAIN image \cup fpos .. fpos + Written(src[ln], current) - 1 |->
                          IF a \in fpos .. fpos + Written(src[ln], current) - 1 THEN ln ELSE image[a]]
           /\ Disciplined =>
                 /\ fpos = pc
                 /\ pc + Written(src[ln], current) = base[at1[ln].sec] + at1[ln + 1].off
                 /\ pc .. pc + Written(src[ln], current) - 1 = Place(ln)
                 /\ Place(ln) \cap DOMAIN image = {}
<1> DEFINE n == Written(src[ln], current)
<1>1. /\ TypeOK /\ ln \in 1 .. Len(src) /\ src[ln] \in Line /\ src[ln].kind = "item"
      /\ Moved /\ phase = "second_pass" /\ Handled = 1 .. ln - 1 /\ Len(src) \in Nat
  BY Pass2Line DEF LabelInv, Pass2Item, Moved
<1>2. current = at1[ln].sec /\ current \in Names
  BY <1>1 DEF LabelInv, InStep, TypeOK, ReadType
<1>3. pc \in Int /\ n \in Nat
  BY <1>1, <1>2, WrittenNat DEF TypeOK, Pass2Type
<1>4. at2'[ln].at = pc /\ at2'[ln].end = pc + n
  BY <1>1 DEF Pass2Item, TypeOK, Pass2Type
<1>5. /\ image' = [a \in DOMAIN image \cup fpos .. fpos + n - 1 |->
                     IF a \in fpos .. fpos + n - 1 THEN ln ELSE image[a]]
      /\ fpos' = fpos + n /\ pc' = pc + n
  BY DEF Pass2Item
<1>6. ASSUME Disciplined
      PROVE  /\ fpos = pc
             /\ pc + n = base[at1[ln].sec] + at1[ln + 1].off
             /\ pc .. pc + n - 1 = Place(ln)
             /\ Place(ln) \cap DOMAIN image = {}
  <2>1. pc = base[at1[ln].sec] + at1[ln].off
    BY <1>1, <1>6 DEF LabelInv, InStep
  <2>2. n = Counted(src[ln], at1[ln].sec)
    BY <1>1, <1>2, <1>6, TidyAgree DEF Disciplined
  <2>3. at1[ln + 1].off = at1[ln].off + Counted(src[ln], at1[ln].sec)
    BY <1>1 DEF LabelInv, History, Read1
  <2>4. at1[ln].off \in Int /\ base[at1[ln].sec] \in Int
    BY <1>1, <1>2 DEF TypeOK, Pass1Type, AdjustType
  <2> HIDE DEF n
  <2>5. pc + n = base[at1[ln].sec] + at1[ln + 1].off
    BY <1>3, <2>1, <2>2, <2>3, <2>4
  <2>6. pc .. pc + n - 1 = Place(ln)
    <3>1. pc + n - 1 = (pc + n) - 1
      BY <1>3
    <3> QED BY <2>1, <2>5, <3>1 DEF Place
  <2>7. ASSUME NEW a \in DOMAIN image PROVE a \notin Place(ln)
    <3>1. image[a] \in Handled /\ a \in at2[image[a]].at .. at2[image[a]].end - 1
      BY <1>1, <1>6 DEF Output
    <3>2. IsItem(image[a]) /\ a \in Place(image[a])
      BY <1>1, <1>6, <3>1, HandledPlaces
    <3>3. image[a] \in 1 .. Len(src) /\ image[a] < ln
      BY <1>1, <3>1
    <3> QED BY <1>1, <1>6, <3>2, <3>3, PlacesApart DEF IsItem
  <2>8. fpos = pc
    BY <1>1, <1>6 DEF Output
  <2> QED BY <2>5, <2>6, <2>7, <2>8
<1> QED BY <1>1, <1>3, <1>4, <1>5, <1>6 DEF IsItem

\* A seek goes to an integer address.
LEMMA SwitchTarget ==
    ASSUME TypeOK, Pass2Switch
    PROVE  Target(src[ln]) \in Int
<1>1. src[ln].name \in Names
  BY Pass2Line, LineFacts, LineKinds DEF Pass2Switch
<1> QED BY <1>1 DEF Target, TypeOK, Pass1Type, AdjustType

\* In a disciplined source it goes below the end of the output, where the
\* position of the file is the address itself.
LEMMA SwitchPosition ==
    ASSUME LabelInv, KnownSections, Growth, Spread, Pass2Switch, Disciplined
    PROVE  fpos' = pc'
<1> DEFINE s == src[ln].name
           b == base[s]
           m == offset[s]
<1>1. /\ TypeOK /\ ln \in 1 .. Len(src) /\ src[ln] \in Line /\ phase = "second_pass"
      /\ Effective(src[ln]) /\ Moved
  BY Pass2Line DEF LabelInv, Pass2Switch, Moved
<1>2. Target(src[ln]) = b
  BY <1>1, TargetIsBase DEF LabelInv
<1>3. s \in Names /\ Laid(s)
  BY <1>1, LineFacts, LineKinds DEF Disciplined
<1>4. b \in Int /\ m \in Int
  BY <1>1, <1>3 DEF TypeOK, Pass1Type, AdjustType
<1>5. m >= 0 /\ b >= 0 /\ b + m <= free /\ free \in Nat /\ free < Modulus
  BY <1>1, <1>3, DisciplinedLayout, SpreadOut DEF LabelInv, Disciplined, Fits
<1> HIDE DEF b, m
<1>6. Position(b) = b
  BY <1>4, <1>5, ModulusAssumption, PositionFacts
<1> QED BY <1>2, <1>6 DEF Pass2Switch

\* Pass 2 keeps what it has written where it wrote it.
LEMMA OutputStep ==
    ASSUME LabelInv, KnownSections, Growth, Spread, Output, [Next]_vars
    PROVE  Output'
<1>1. CASE Pass1Fail \/ Pass2Fail
  BY <1>1, FailSteps DEF Output
<1>2. CASE \/ Pass1Switch \/ Pass1Ignored \/ Pass1Item \/ Pass1End
           \/ AdjustSection \/ AdjustEnd
  <2>1. phase \in {"first_pass", "adjust_labels"} /\ image' = image
    BY <1>2 DEF Pass1Switch, Pass1Ignored, Pass1Item, Pass1End, AdjustSection, AdjustEnd,
                UnchangedByPass1, UnchangedByAdjust
  <2>2. DOMAIN image = {}
    BY <2>1 DEF Output, Handled
  <2>3. Handled' = {}
    BY <1>2, HandledNone
  <2>4. phase' = "second_pass" => fpos' = pc'
    BY <1>2 DEF Pass1Switch, Pass1Ignored, Pass1Item, Pass1End, AdjustSection, AdjustEnd,
                UnchangedByPass1
  <2> QED BY <2>1, <2>2, <2>3, <2>4 DEF Output, BytesKept
<1>3. CASE Pass2Switch \/ Pass2Ignored
  <2>1. /\ TypeOK /\ ln \in 1 .. Len(src) /\ phase # "failed"
        /\ UNCHANGED <<src, base, offset, at1, free, image>>
        /\ Handled = 1 .. ln - 1 /\ Handled' = 1 .. ln
        /\ \A i \in 1 .. ln - 1 : at2'[i] = at2[i]
        /\ ~IsItem(ln)
    BY <1>3, Pass2Line, LineKinds DEF LabelInv, Pass2Switch, Pass2Ignored, IsItem
  <2>2. at2'[ln].end = at2'[ln].at
    BY <1>3, <2>1 DEF Pass2Switch, Pass2Ignored, TypeOK, Pass2Type
  <2>3. at2'[ln].at .. at2'[ln].end - 1 = {}
    <3>1. at2'[ln].at \in Int
      BY <1>3, <2>1, SwitchTarget DEF Pass2Switch, Pass2Ignored, TypeOK, Pass2Type
    <3> QED BY <2>2, <3>1
  <2>4. Disciplined' <=> Disciplined
    BY <2>1, DisciplineKept
  <2>5. \A i \in 1 .. ln : i \in 1 .. ln - 1 \/ i = ln
    BY <2>1
  <2>6. \A a \in DOMAIN image :
            /\ image[a] \in 1 .. ln
            /\ Disciplined => a \in at2'[image[a]].at .. at2'[image[a]].end - 1
    BY <2>1 DEF Output
  <2>7. \A i \in 1 .. ln : ~IsItem(i) => at2'[i].end = at2'[i].at
    BY <2>1, <2>2, <2>5 DEF Output
  <2>8. Disciplined => \A i \in 1 .. ln : IsItem(i) =>
            at2'[i].end = base[at1[i].sec] + at1[i + 1].off
    BY <2>1, <2>5 DEF Output
  <2>9. Disciplined => \A i \in 1 .. ln : \A a \in at2'[i].at .. at2'[i].end - 1 :
            a \in DOMAIN image /\ image[a] = i
    BY <2>1, <2>3, <2>5 DEF Output, BytesKept
  <2>10. Disciplined => fpos' = pc'
    <3>1. CASE Pass2Switch
      BY <3>1, SwitchPosition
    <3>2. CASE Pass2Ignored
      BY <3>2 DEF Pass2Ignored, Output
    <3> QED BY <1>3, <3>1, <3>2
  <2> QED BY <2>1, <2>4, <2>6, <2>7, <2>8, <2>9, <2>10 DEF Output, BytesKept, IsItem
<1>4. CASE Pass2Item
  <2> DEFINE n == Written(src[ln], current)
             new == fpos .. fpos + n - 1
  <2>1. /\ TypeOK /\ ln \in 1 .. Len(src) /\ phase # "failed"
        /\ UNCHANGED <<src, base, offset, at1, free>>
        /\ Handled = 1 .. ln - 1 /\ Handled' = 1 .. ln
        /\ \A i \in 1 .. ln - 1 : at2'[i] = at2[i]
    BY <1>4, Pass2Line DEF LabelInv
  <2>2. /\ IsItem(ln) /\ at2'[ln].at = pc /\ at2'[ln].end = pc + n
        /\ image' = [a \in DOMAIN image \cup new |-> IF a \in new THEN ln ELSE image[a]]
        /\ Disciplined => /\ pc + n = base[at1[ln].sec] + at1[ln + 1].off
                          /\ new \cap DOMAIN image = {}
                          /\ fpos = pc
        /\ fpos' = fpos + n /\ pc' = pc + n
        /\ pc \in Int /\ n \in Nat
    BY <1>4, ItemWrites
  <2>3. Disciplined => at2'[ln].at .. at2'[ln].end - 1 = new
    BY <2>2
  <2> HIDE DEF new, n
  <2>4. Disciplined' <=> Disciplined
    BY <2>1, DisciplineKept
  <2>5. \A i \in 1 .. ln : i \in 1 .. ln - 1 \/ i = ln
    BY <2>1
  <2>6. ASSUME NEW a \in DOMAIN image'
        PROVE  /\ image'[a] \in 1 .. ln
               /\ Disciplined => a \in at2'[image'[a]].at .. at2'[image'[a]].end - 1
    <3>1. CASE a \in new
      BY <2>1, <2>2, <2>3, <3>1
    <3>2. CASE a \notin new
      BY <2>1, <2>2, <2>6, <3>2 DEF Output
    <3> QED BY <3>1, <3>2
  <2>7. \A i \in 1 .. ln : ~IsItem(i) => at2'[i].end = at2'[i].at
    BY <2>1, <2>2, <2>5 DEF Output
  <2>8. Disciplined => \A i \in 1 .. ln : IsItem(i) =>
            at2'[i].end = base[at1[i].sec] + at1[i + 1].off
    BY <2>1, <2>2, <2>5 DEF Output
  <2>9. ASSUME Disciplined, NEW i \in 1 .. ln, NEW a \in at2'[i].at .. at2'[i].end - 1
        PROVE  a \in DOMAIN image' /\ image'[a] = i
    <3>1. CASE i = ln
      BY <2>2, <2>3, <2>9, <3>1
    <3>2. CASE i \in 1 .. ln - 1
      <4>1. a \in DOMAIN image /\ image[a] = i
        BY <2>1, <2>9, <3>2 DEF Output, BytesKept
      <4> QED BY <2>2, <2>9, <4>1
    <3> QED BY <2>5, <3>1, <3>2
  <2>10. Disciplined => fpos' = pc'
    BY <2>2
  <2> QED BY <2>1, <2>4, <2>6, <2>7, <2>8, <2>9, <2>10 DEF Output, BytesKept, IsItem
<1>5. CASE Pass2End
  <2>1. TypeOK
    BY DEF LabelInv
  <2>2. Disciplined' <=> Disciplined
    BY <1>5, <2>1, HandledAll, DisciplineKept DEF Pass2End
  <2>3. phase # "failed"
    BY <1>5 DEF Pass2End
  <2>4. phase' # "second_pass"
    BY <1>5 DEF Pass2End
  <2> QED BY <1>5, <2>1, <2>2, <2>3, <2>4, HandledAll DEF Output, BytesKept, IsItem
<1>6. CASE UNCHANGED vars
  <2>1. Handled' = Handled /\ (Disciplined' <=> Disciplined)
    BY <1>6, DisciplineKept DEF vars, Handled
  <2> QED BY <1>6, <2>1 DEF vars, Output, BytesKept, IsItem
<1> QED BY <1>1, <1>2, <1>3, <1>4, <1>5, <1>6 DEF Next

\* The layout invariant holds throughout.
THEOREM LayoutInvariant == Spec => []LayoutInv
<1>1. Init => LayoutInv
  <2> SUFFICES ASSUME Init PROVE LayoutInv
    OBVIOUS
  <2>1. /\ Read1 = {} /\ Handled = {} /\ ~Laying /\ Reached = {1} /\ next = 1
        /\ Len(src) \in Nat
    BY SourceLength DEF Init, Read1, Handled, Laying, Reached
  <2>2. OneDefinition /\ Resolved /\ Output
    BY <2>1 DEF Init, OneDefinition, Resolved, Output, BytesKept
  <2>3. at1[1] = Start1 /\ ".text" \in Names
    BY <2>1, NamesAssumption DEF Init, Standard
  <2>4. KnownSections
    BY <2>1, <2>3 DEF KnownSections, Start1, Laid, Standard
  <2>5. /\ \A s \in Names : offset[s] = 0 /\ 0 .. offset[s] - 1 = {}
        /\ at1[1].off = 0 /\ at1[1].sec \in Names
    BY <2>3 DEF Init, Start1
  <2>6. Growth
    BY <2>1, <2>5 DEF Growth
  <2>7. Spread /\ Totals
    BY <2>1 DEF Init, Spread, Totals
  <2> QED BY <2>2, <2>4, <2>6, <2>7 DEF LayoutInv
<1>2. LabelInv /\ LabelInv' /\ LayoutInv /\ [Next]_vars => LayoutInv'
  BY OneDefinitionStep, ResolvedStep, KnownSectionsStep, GrowthStep, SpreadStep, TotalsStep, OutputStep
     DEF LabelInv, LayoutInv
<1> QED BY <1>1, <1>2, LabelInvariant, PTL DEF Spec

\* No two of the sections adjust_labels knows share an address, if none has
\* been shrunk below zero by a negative .space and the addresses fit.
THEOREM SectionsApartAlways == Spec => []SectionsApart
<1>1. LabelInv /\ LayoutInv => SectionsApart
  BY SpreadOut DEF LabelInv, LayoutInv, SectionsApart, Moved
<1> QED BY <1>1, LabelInvariant, LayoutInvariant, PTL

\* In a disciplined source no fseek of pass 2 ever leads back over bytes
\* written before: every line keeps its own.
THEOREM OwnBytesAlways == Spec => []OwnBytes
<1>1. LayoutInv => OwnBytes
  <2> SUFFICES ASSUME LayoutInv, Disciplined PROVE BytesKept
    BY DEF OwnBytes
  <2>1. CASE phase = "failed"
    BY <2>1 DEF BytesKept, Handled
  <2>2. CASE phase # "failed"
    BY <2>2 DEF LayoutInv, Output
  <2> QED BY <2>1, <2>2
<1> QED BY <1>1, LayoutInvariant, PTL

\* When "Assembled successfully" is printed every label an encoded
\* instruction names is defined, by one line only, forward references and
\* references across sections included.
THEOREM NoDanglingReferenceAlways == Spec => []NoDanglingReference
<1>1. LabelInv /\ LayoutInv => NoDanglingReference
  <2> SUFFICES ASSUME LabelInv, LayoutInv, phase = "done",
                      NEW i \in 1 .. Len(src), Refers(i)
               PROVE  \E j \in 1 .. Len(src) : /\ Defines(j, src[i].body.arg)
                                               /\ \A k \in 1 .. Len(src) :
                                                     Defines(k, src[i].body.arg) => k = j
    BY DEF NoDanglingReference, Refers, IsItem
  <2>1. Handled = 1 .. Len(src) /\ Read1 = 1 .. Len(src)
    BY DEF Handled, Read1
  <2>2. src[i].body.arg \in DOMAIN labels /\ src[i].body.arg \in Labels
    BY <2>1 DEF LabelInv, TypeOK, Pass1Type, LayoutInv, Resolved
  <2> QED BY <2>1, <2>2 DEF LayoutInv, OneDefinition
<1> QED BY <1>1, LabelInvariant, LayoutInvariant, PTL

----------------------------------------------------------------------------
(* The abstract assembler.                                                 *)

\* Once everything is placed, what main reports and the custom sections sum
\* up to current_base: a section without a base holds nothing.
LEMMA ReportedIsPlaced ==
    ASSUME LabelInv, LayoutInv, Moved, Disciplined
    PROVE  /\ free = sizes.text + sizes.data
                    + SumFunctionOnSet(offset, {s \in Names : TypeOf[s] = "custom"})
           /\ sizes.text \in Int /\ sizes.data \in Int
           /\ SumFunctionOnSet(offset, {s \in Names : TypeOf[s] = "custom"}) \in Int
<1> DEFINE Sum(S) == SumFunctionOnSet(offset, S)
           A == {s \in Names : IsText(s)}
           D == {s \in Names : TypeOf[s] \in DataTypes}
           C == {s \in Names : TypeOf[s] = "custom"}
           L == {s \in Names : Laid(s)}
           U == {s \in Names : ~Laid(s)}
<1>1. /\ \A s \in Names : offset[s] \in Int
      /\ \A s \in Names : ~Laid(s) => offset[s] = 0
  <2>1. /\ \A s \in Names : offset[s] >= 0
        /\ \A i \in 1 .. Len(src) + 1 : Laid(at1[i].sec)
        /\ \A s \in Names : \A o \in 0 .. offset[s] - 1 : \E i \in 1 .. Len(src) :
              at1[i].sec = s
    BY DisciplinedLayout DEF LayoutInv
  <2>2. Len(src) \in Nat
    BY SourceLength DEF LabelInv, TypeOK, ReadType
  <2>3. \A s \in Names : offset[s] \in Int
    BY DEF LabelInv, TypeOK, Pass1Type
  <2>4. ASSUME NEW s \in Names, offset[s] # 0 PROVE Laid(s)
    <3>1. 0 \in 0 .. offset[s] - 1
      BY <2>1, <2>3, <2>4
    <3> QED BY <2>1, <2>2, <3>1
  <2> QED BY <2>3, <2>4
<1>2. IsFiniteSet(A) /\ IsFiniteSet(D) /\ IsFiniteSet(C) /\ IsFiniteSet(L) /\ IsFiniteSet(U)
  BY NamesFinite, FS_Subset
<1>3. free = Sum(L) /\ sizes.text = Sum(A) /\ sizes.data = Sum(D)
  <2>1. Laying /\ next = Visits + 1
    BY DEF Moved, Laying, LabelInv, Bases
  <2>2. 1 .. next - 1 = 1 .. Visits
    BY <2>1, VisitFacts
  <2>3. {s \in Names : Settled(s)} = L
    BY <2>2, AllVisited DEF Settled
  <2> HIDE DEF L, A, D
  <2> QED BY <2>1, <2>3 DEF LayoutInv, Totals, A, D
<1>4. Sum(Names) = Sum(L) + Sum(U) /\ Sum(U) = 0
  <2>1. L \cup U = Names /\ L \cap U = {} /\ \A s \in U : offset[s] = 0
    BY <1>1
  <2> HIDE DEF L, U
  <2>2. Sum(L \cup U) = Sum(L) + Sum(U)
    BY <1>1, <1>2, <2>1, SumUnion
  <2>3. Sum(L \cup U) = Sum(Names)
    BY <2>1, Zenon
  <2> QED BY <1>2, <2>1, <2>2, <2>3, SumZero
<1>5. Sum(Names) = (Sum(A) + Sum(D)) + Sum(C)
  <2>1. /\ A \cap D = {} /\ (A \cup D) \cap C = {} /\ (A \cup D) \cup C = Names
        /\ A \cup D \subseteq Names
    BY NamesAssumption DEF IsText, SectionType, DataTypes
  <2> HIDE DEF A, D, C
  <2>2. Sum(A \cup D) = Sum(A) + Sum(D)
    BY <1>1, <1>2, <2>1, SumUnion
  <2>3. IsFiniteSet(A \cup D)
    BY <1>2, FS_Union
  <2>4. Sum((A \cup D) \cup C) = Sum(A \cup D) + Sum(C)
    BY <1>1, <1>2, <2>1, <2>3, SumUnion
  <2>5. Sum((A \cup D) \cup C) = Sum(Names)
    BY <2>1, Zenon
  <2> QED BY <2>2, <2>4, <2>5
<1>6. Sum(L) \in Int /\ Sum(A) \in Int /\ Sum(D) \in Int /\ Sum(C) \in Int
  <2>1. L \subseteq Names /\ A \subseteq Names /\ D \subseteq Names /\ C \subseteq Names
    OBVIOUS
  <2> HIDE DEF L, A, D, C
  <2> QED BY <1>1, <1>2, <2>1, SumIsInt
<1> HIDE DEF A, D, L, U
<1>7. free = sizes.text + sizes.data + Sum(C)
  <2> HIDE DEF Sum, C
  <2> QED BY <1>3, <1>4, <1>5, <1>6
<1> QED BY <1>3, <1>6, <1>7

\* When pass 2 has come to the end, the lines' places fill the file from 0
\* to current_base.
LEMMA NoHole ==
    ASSUME LabelInv, LayoutInv, Pass2End, Disciplined
    PROVE  DOMAIN image = 0 .. free - 1 /\ free \in Nat
<1>1. /\ Moved /\ phase # "failed" /\ Handled = 1 .. Len(src) /\ TypeOK /\ Len(src) \in Nat
  BY HandledAll, SourceLength DEF Pass2End, Moved, LabelInv, TypeOK, ReadType
<1>2. /\ \A s \in Names : offset[s] >= 0
      /\ \A i \in 1 .. Len(src) + 1 :
            /\ at1[i].sec \in Names /\ Laid(at1[i].sec)
            /\ at1[i].off \in Nat /\ at1[i].off <= offset[at1[i].sec]
      /\ \A s \in Names : \A o \in 0 .. offset[s] - 1 : \E i \in 1 .. Len(src) :
            /\ IsItem(i) /\ at1[i].sec = s
            /\ o \in at1[i].off .. at1[i + 1].off - 1
      /\ \A i \in 1 .. Len(src) : IsItem(i) => at1[i + 1].sec = at1[i].sec
  BY <1>1, DisciplinedLayout DEF LayoutInv
<1>3. /\ free \in Nat
      /\ \A s \in Names : Laid(s) => base[s] >= 0 /\ base[s] + offset[s] <= free
      /\ \A a \in 0 .. free - 1 : \E s \in Names :
            Laid(s) /\ a \in base[s] .. base[s] + offset[s] - 1
  BY <1>1, <1>2, SpreadOut DEF LabelInv, LayoutInv
<1>4. \A s \in Names : base[s] \in Int /\ offset[s] \in Int
  BY <1>1 DEF TypeOK, Pass1Type, AdjustType
<1>5. ASSUME NEW a \in DOMAIN image PROVE a \in 0 .. free - 1
  <2> DEFINE i == image[a]
             s == at1[i].sec
  <2>1. i \in Handled /\ a \in at2[i].at .. at2[i].end - 1
    BY <1>1 DEF LayoutInv, Output
  <2>2. i \in 1 .. Len(src) /\ IsItem(i) /\ a \in Place(i)
    BY <1>1, <2>1, HandledPlaces DEF LayoutInv
  <2> HIDE DEF i
  <2>3. i \in 1 .. Len(src) + 1 /\ i + 1 \in 1 .. Len(src) + 1
    BY <1>1, <2>2
  <2>4. /\ s \in Names /\ Laid(s) /\ at1[i].off \in Nat /\ at1[i + 1].off \in Nat
        /\ at1[i + 1].off <= offset[s]
    BY <1>2, <2>2, <2>3
  <2>5. /\ base[s] \in Int /\ offset[s] \in Int /\ base[s] >= 0
        /\ base[s] + offset[s] <= free /\ free \in Nat
    BY <1>3, <1>4, <2>4
  <2>6. a \in base[s] + at1[i].off .. (base[s] + at1[i + 1].off) - 1
    BY <2>2 DEF Place
  <2> HIDE DEF s
  <2> QED BY <2>4, <2>5, <2>6
<1>6. ASSUME NEW a \in 0 .. free - 1 PROVE a \in DOMAIN image
  <2>1. PICK s \in Names : Laid(s) /\ a \in base[s] .. base[s] + offset[s] - 1
    BY <1>3
  <2>2. a - base[s] \in 0 .. offset[s] - 1
    BY <1>4, <2>1
  <2>3. PICK i \in 1 .. Len(src) : /\ IsItem(i) /\ at1[i].sec = s
                                   /\ a - base[s] \in at1[i].off .. at1[i + 1].off - 1
    BY <1>2, <2>2
  <2> DEFINE p == at1[i].off
             q == at1[i + 1].off
             b == base[s]
  <2>4. p \in Nat /\ q \in Nat /\ b \in Int /\ a - b \in p .. q - 1 /\ a \in Int
    BY <1>1, <1>2, <1>4, <2>3
  <2>5. a \in base[s] + at1[i].off .. (base[s] + at1[i + 1].off) - 1
    <3> HIDE DEF p, q, b
    <3>1. a \in b + p .. (b + q) - 1
      BY <2>4
    <3> QED BY <3>1 DEF p, q, b
  <2>6. a \in at2[i].at .. at2[i].end - 1
    BY <1>1, <2>3, <2>5, HandledPlaces DEF LayoutInv, Place
  <2> QED BY <1>1, <2>6 DEF LayoutInv, Output, BytesKept
<1> QED BY <1>3, <1>5, <1>6

\* A line that writes something takes the step EmitLine of the abstract
\* assembler, any other leaves the file as it is.
LEMMA ItemEmits ==
    ASSUME LabelInv, LayoutInv, Pass2Item, Disciplined
    PROVE  Promise!EmitLine \/ UNCHANGED (Promise!vars)
<1> DEFINE n == Written(src[ln], current)
           new == pc .. pc + n - 1
<1>1. /\ ln \in 1 .. Len(src) /\ Handled = 1 .. ln - 1 /\ phase = "second_pass"
      /\ phase' = "second_pass"
  BY Pass2Line DEF LabelInv, Pass2Item
<1>2. /\ image' = [a \in DOMAIN image \cup new |-> IF a \in new THEN ln ELSE image[a]]
      /\ new \cap DOMAIN image = {} /\ pc \in Int /\ n \in Nat
  BY ItemWrites DEF LayoutInv
<1>3. \A a \in DOMAIN image : image[a] # ln
  BY <1>1 DEF LayoutInv, Output
<1>4. CASE n = 0
  <2>1. new = {}
    BY <1>2, <1>4
  <2> HIDE DEF new
  <2>2. image' = image
    BY <1>2, <2>1 DEF LabelInv, TypeOK, Pass2Type
  <2> QED BY <1>1, <2>2 DEF Promise!vars
<1>5. CASE n # 0
  <2>1. new # {} /\ \A a, b \in new : a .. b \subseteq new
    BY <1>2, <1>5
  <2> HIDE DEF new
  <2>2. DOMAIN image' = DOMAIN image \cup new /\ DOMAIN image' \ DOMAIN image = new
    BY <1>2
  <2>3. /\ \A a \in DOMAIN image : image'[a] = image[a]
        /\ \A a \in new : image'[a] = ln
    BY <1>2
  <2>4. ln \notin Promise!Owners
    BY <1>3 DEF Promise!Owners
  <2> QED BY <1>1, <2>1, <2>2, <2>3, <2>4 DEF Promise!EmitLine
<1> QED BY <1>4, <1>5

\* The file of a disciplined source grows as the abstract assembler's does,
\* line by line, without overlap, and has no hole at the end.
THEOREM ImplementsAlways == Spec => Implements
<1>1. Init => Promise!Init
  BY DEF Init, Promise!Init
<1>2. LabelInv /\ LayoutInv /\ [Next]_vars => [Disciplined => Promise!Next]_(Promise!vars)
  <2> SUFFICES ASSUME LabelInv, LayoutInv, [Next]_vars, Disciplined
               PROVE  Promise!Next \/ UNCHANGED (Promise!vars)
    OBVIOUS
  <2>1. CASE Pass1Fail \/ Pass2Fail
    BY <2>1 DEF Pass1Fail, Pass2Fail, Fail, Promise!Next, Promise!Fail
  <2>2. CASE Pass2Item
    BY <2>2, ItemEmits DEF Promise!Next
  <2>3. CASE Pass2End
    <3>1. DOMAIN image = 0 .. free - 1 /\ free \in Nat
      BY <2>3, NoHole
    <3>2. phase = "second_pass" /\ phase' = "done" /\ image' = image
      BY <2>3 DEF Pass2End
    <3>3. Promise!Finish
      BY <3>1, <3>2 DEF Promise!Finish
    <3> QED BY <3>3 DEF Promise!Next
  <2>4. CASE \/ Pass1Switch \/ Pass1Ignored \/ Pass1Item \/ Pass1End \/ AdjustSection
             \/ AdjustEnd \/ Pass2Switch \/ Pass2Ignored
    <3>1. /\ phase \notin {"done", "failed"} /\ phase' \notin {"done", "failed"}
          /\ image' = image
      BY <2>4 DEF Pass1Switch, Pass1Ignored, Pass1Item, Pass1End, AdjustSection,
                  AdjustEnd, Pass2Switch, Pass2Ignored, UnchangedByPass1,
                  UnchangedByAdjust, UnchangedByPass2
    <3> QED BY <3>1 DEF Promise!vars
  <2>5. CASE UNCHANGED vars
    BY <2>5 DEF vars, Promise!vars
  <2> QED BY <2>1, <2>2, <2>3, <2>4, <2>5 DEF Next
<1> QED BY <1>1, <1>2, LabelInvariant, LayoutInvariant, PTL DEF Spec, Implements

\* The file of a disciplined source has the length main prints, up to the
\* custom sections, and a byte at every address below it.
THEOREM ReportedSizesAlways == Spec => []ReportedSizes
<1>1. Init => ReportedSizes
  BY DEF Init, ReportedSizes
<1>2. LabelInv /\ LayoutInv /\ LayoutInv' /\ ReportedSizes /\ [Next]_vars => ReportedSizes'
  <2> SUFFICES ASSUME LabelInv, LayoutInv, ReportedSizes, [Next]_vars, (phase = "done")', Disciplined'
               PROVE  DOMAIN image' = 0 .. sizes'.text + sizes'.data
                        + SumFunctionOnSet(offset', {s \in Names : TypeOf[s] = "custom"}) - 1
    BY DEF ReportedSizes
  <2>1. CASE Pass2End
    <3>1. UNCHANGED <<src, at1, offset, sizes, free, image>> /\ Moved
      BY <2>1 DEF Pass2End, Moved
    <3>2. Disciplined
      BY <3>1, DisciplineKept
    <3>3. DOMAIN image = 0 .. free - 1
      BY <2>1, <3>2, NoHole
    <3> DEFINE c == SumFunctionOnSet(offset, {s \in Names : TypeOf[s] = "custom"})
    <3>4. /\ free = sizes.text + sizes.data + c
          /\ sizes.text \in Int /\ sizes.data \in Int /\ c \in Int
      BY <3>1, <3>2, ReportedIsPlaced
    <3> HIDE DEF c
    <3>5. DOMAIN image' = 0 .. sizes.text + sizes.data + c - 1
      BY <3>1, <3>3, <3>4
    <3> QED BY <3>1, <3>5 DEF c
  <2>2. CASE UNCHANGED vars
    <3>1. UNCHANGED <<src, at1, offset, free, sizes, labels, image>> /\ phase = "done"
      BY <2>2 DEF vars
    <3>2. Disciplined
      BY <3>1, DisciplineKept
    <3> QED BY <3>1, <3>2 DEF ReportedSizes
  <2>3. CASE Next /\ ~Pass2End
    BY <2>3 DEF Next, Pass1Switch, Pass1Ignored, Pass1Item, Pass1Fail, Pass1End,
                AdjustSection, AdjustEnd, Pass2Switch, Pass2Ignored, Pass2Item,
                Pass2Fail, Fail, UnchangedByPass1, UnchangedByAdjust, UnchangedByPass2
  <2> QED BY <2>1, <2>2, <2>3
<1> QED BY <1>1, <1>2, LabelInvariant, LayoutInvariant, PTL DEF Spec

----------------------------------------------------------------------------
(***************************************************************************)
(* III. The assembled program.                                             *)
(***************************************************************************)

\* The assembler has finished with a disciplined source.
Assembled == LabelInv /\ LayoutInv /\ phase = "done" /\ Disciplined

----------------------------------------------------------------------------
(* The section a line belongs to, from the text and from pass 1.           *)

\* A nonempty set of line numbers has a first and a last one.
LEMMA FirstOf ==
    ASSUME NEW n \in Nat, NEW S \in SUBSET (1 .. n), S # {}
    PROVE  /\ \E i \in S : \A j \in S : i <= j
           /\ \E i \in S : \A j \in S : j <= i
<1> DEFINE T == {k \in Nat : \A U \in SUBSET (1 .. k) : U # {} =>
                    /\ \E i \in U : \A j \in U : i <= j
                    /\ \E i \in U : \A j \in U : j <= i}
<1>1. T \in SUBSET Nat /\ 0 \in T
  <2>1. \A U \in SUBSET (1 .. 0) : U = {}
    OBVIOUS
  <2> QED BY <2>1
<1>2. ASSUME NEW k \in T PROVE k + 1 \in T
  <2> SUFFICES ASSUME NEW U \in SUBSET (1 .. k + 1), U # {}
               PROVE  /\ \E i \in U : \A j \in U : i <= j
                      /\ \E i \in U : \A j \in U : j <= i
    OBVIOUS
  <2> DEFINE V == U \ {k + 1}
  <2>1. k \in Nat /\ V \in SUBSET (1 .. k) /\ \A j \in U : j \in V \/ j = k + 1
    OBVIOUS
  <2>2. CASE V = {}
    BY <2>1, <2>2
  <2>3. CASE V # {}
    <3>1. PICK i \in V : \A j \in V : i <= j
      BY <2>1, <2>3
    <3>2. PICK l \in V : \A j \in V : j <= l
      BY <2>1, <2>3
    <3>3. i \in U /\ l \in U /\ i \in 1 .. k /\ l \in 1 .. k
      BY <2>1
    <3>4. \A j \in U : i <= j
      BY <2>1, <3>1, <3>3
    <3>5. \E h \in U : \A j \in U : j <= h
      <4>1. CASE k + 1 \in U
        BY <2>1, <4>1
      <4>2. CASE k + 1 \notin U
        BY <2>1, <3>2, <3>3, <4>2
      <4> QED BY <4>1, <4>2
    <3> QED BY <3>3, <3>4, <3>5
  <2> QED BY <2>2, <2>3
<1> HIDE DEF T
<1>3. T = Nat
  BY <1>1, <1>2, NatSets
<1> QED BY <1>3 DEF T

\* A line belongs to the section named last.
LEMMA StandingStep ==
    ASSUME src \in Sources, NEW i \in 1 .. Len(src)
    PROVE  Standing(src, i + 1) = IF Effective(src[i]) THEN src[i].name ELSE Standing(src, i)
<1> DEFINE before(k) == {j \in 1 .. k - 1 : Effective(src[j])}
           last(k) == CHOOSE j \in before(k) : \A h \in before(k) : h <= j
<1>1. /\ Len(src) \in Nat /\ i \in Nat
      /\ before(i + 1) = before(i) \cup (IF Effective(src[i]) THEN {i} ELSE {})
  BY SourceLength
<1>2. \A k : Standing(src, k) = IF before(k) = {} THEN ".text" ELSE src[last(k)].name
  BY DEF Standing
<1>3. CASE ~Effective(src[i])
  <2>1. before(i + 1) = before(i)
    BY <1>1, <1>3
  <2> QED BY <1>2, <1>3, <2>1
<1>4. CASE Effective(src[i])
  <2>1. i \in before(i + 1) /\ \A h \in before(i + 1) : h <= i
    BY <1>1, <1>4
  <2>2. \A h \in before(i + 1) : h \in Int
    BY <1>1
  <2> HIDE DEF before
  <2>3. last(i + 1) \in before(i + 1) /\ \A h \in before(i + 1) : h <= last(i + 1)
    BY <2>1
  <2> HIDE DEF last
  <2>4. last(i + 1) = i
    BY <1>1, <2>1, <2>2, <2>3
  <2> QED BY <1>2, <1>4, <2>1, <2>4
<1> QED BY <1>3, <1>4

\* Pass 1 was where the text says.
LEMMA StandingIs ==
    ASSUME LabelInv, phase = "done"
    PROVE  \A i \in 1 .. Len(src) + 1 : at1[i].sec = Standing(src, i)
<1>1. /\ src \in Sources /\ Len(src) \in Nat /\ Read1 = 1 .. Len(src) /\ History
  BY SourceLength DEF LabelInv, TypeOK, ReadType, Read1
<1> DEFINE T == {k \in Nat : k + 1 <= Len(src) + 1 => at1[k + 1].sec = Standing(src, k + 1)}
<1>2. 0 \in T
  <2>1. {j \in 1 .. 1 - 1 : Effective(src[j])} = {}
    OBVIOUS
  <2>2. Standing(src, 0 + 1) = ".text" /\ at1[0 + 1] = Start1
    BY <1>1, <2>1 DEF Standing, History
  <2> QED BY <2>2 DEF Start1
<1>3. ASSUME NEW k \in T PROVE k + 1 \in T
  <2> SUFFICES ASSUME (k + 1) + 1 <= Len(src) + 1
               PROVE  at1[(k + 1) + 1].sec = Standing(src, (k + 1) + 1)
    OBVIOUS
  <2> DEFINE i == k + 1
  <2>1. i \in 1 .. Len(src) /\ at1[i].sec = Standing(src, i)
    BY <1>1
  <2> HIDE DEF i
  <2>2. src[i] \in Line
    BY <1>1, <2>1, LineTyped
  <2>3. at1[i + 1].sec = IF Effective(src[i]) THEN src[i].name ELSE at1[i].sec
    <3>1. /\ Effective(src[i]) => at1[i + 1].sec = src[i].name
          /\ Ignored(src[i]) => at1[i + 1] = at1[i]
          /\ src[i].kind = "item" => at1[i + 1].sec = at1[i].sec
      BY <1>1, <2>1 DEF History
    <3>2. Effective(src[i]) \/ Ignored(src[i]) \/ src[i].kind = "item"
      BY <2>2, LineFacts, LineKinds
    <3> QED BY <2>2, <3>1, <3>2, LineKinds
  <2>4. at1[i + 1].sec = Standing(src, i + 1)
    BY <1>1, <2>1, <2>3, StandingStep
  <2> QED BY <2>4 DEF i
<1> HIDE DEF T
<1>4. T = Nat
  BY <1>2, <1>3, NatSets DEF T
<1>5. ASSUME NEW i \in 1 .. Len(src) + 1 PROVE at1[i].sec = Standing(src, i)
  <2>1. i - 1 \in T /\ (i - 1) + 1 = i
    BY <1>1, <1>4
  <2> QED BY <1>1, <2>1 DEF T
<1> QED BY <1>5

----------------------------------------------------------------------------
(* Where the bytes of a line are, and what kind of line has any.           *)

\* What the invariants say when the assembler has finished.
LEMMA Finished ==
    ASSUME Assembled
    PROVE  /\ Len(src) \in Nat /\ Handled = 1 .. Len(src) /\ Read1 = 1 .. Len(src)
           /\ Moved /\ phase # "failed" /\ \A i \in 1 .. Len(src) : src[i] \in Line
           /\ LabelInv /\ KnownSections /\ Growth /\ Spread /\ Output /\ Disciplined
  BY SourceLength, LineTyped
     DEF Assembled, LabelInv, TypeOK, ReadType, Handled, Read1, Moved, LayoutInv

\* An item's bytes lie in its section from where pass 1 stood before it to
\* where it stood after it.
LEMMA ItemPlace ==
    ASSUME Assembled, NEW i \in 1 .. Len(src), IsItem(i)
    PROVE  /\ at1[i].sec \in Names /\ base[at1[i].sec] \in Int
           /\ at1[i].off \in Nat /\ at1[i + 1].off \in Nat
           /\ at1[i + 1].sec = at1[i].sec
           /\ at2[i].at = base[at1[i].sec] + at1[i].off
           /\ at2[i].end = base[at1[i].sec] + at1[i + 1].off
           /\ at1[i + 1].off = at1[i].off + Counted(src[i], at1[i].sec)
           /\ Counted(src[i], at1[i].sec) \in Nat
           /\ Tidy(src[i], at1[i].sec)
<1>1. /\ i \in Handled /\ i \in Read1 /\ i \in 1 .. Len(src) + 1 /\ i + 1 \in 1 .. Len(src) + 1
      /\ src[i] \in Line /\ src[i].kind = "item"
  BY Finished DEF IsItem
<1>2. /\ at1[i].sec \in Names /\ at1[i].off \in Nat /\ at1[i + 1].off \in Nat
      /\ at1[i + 1].sec = at1[i].sec
  BY <1>1, Finished, DisciplinedLayout
<1>3. base[at1[i].sec] \in Int
  BY <1>2, Finished DEF LabelInv, TypeOK, AdjustType
<1>4. at2[i].at = base[at1[i].sec] + at1[i].off
  BY <1>1, Finished DEF LabelInv, InStep
<1>5. at2[i].end = base[at1[i].sec] + at1[i + 1].off
  BY <1>1, Finished DEF Output, IsItem
<1>6. at1[i + 1].off = at1[i].off + Counted(src[i], at1[i].sec)
  BY <1>1, Finished DEF LabelInv, History
<1>7. Tidy(src[i], at1[i].sec)
  BY <1>1, Finished DEF Disciplined
<1>8. Counted(src[i], at1[i].sec) \in Nat
  BY <1>1, <1>2, <1>7, TidyCountsUp
<1> QED BY <1>2, <1>3, <1>4, <1>5, <1>6, <1>7, <1>8

\* A line that counts bytes and is tidy.
LEMMA CountsBytes ==
    ASSUME NEW x \in Line, x.kind = "item", NEW s \in Names, Tidy(x, s)
    PROVE  /\ Counted(x, s) > 0 <=>
                \/ x.body.kind = "instruction" /\ IsText(s)
                \/ x.body.kind = "directive" /\ ~IsText(s) /\ x.body.written > 0
<1>1. x.body.kind \in {"instruction", "directive", "malformed", "none"}
  BY LineFacts
<1>2. CASE x.body.kind = "instruction"
  BY <1>2 DEF Counted, Words1
<1>3. CASE x.body.kind = "directive"
  <2>1. ~IsText(s) /\ x.body.counted = x.body.written
    BY <1>3 DEF Tidy
  <2> QED BY <1>3, <2>1 DEF Counted
<1>4. CASE x.body.kind = "malformed"
  <2>1. ~IsText(s)
    BY <1>4 DEF Tidy
  <2> QED BY <1>4, <2>1 DEF Counted
<1>5. CASE x.body.kind = "none"
  BY <1>5 DEF Counted
<1> QED BY <1>1, <1>2, <1>3, <1>4, <1>5

\* The lines that are not empty to the reader are those with bytes.
LEMMA KindOfLine ==
    ASSUME Assembled, NEW i \in 1 .. Len(src)
    PROVE  /\ Kind(i) # "empty" <=> IsItem(i) /\ Counted(src[i], at1[i].sec) > 0
           /\ Kind(i) # "empty" /\ src[i].body.kind # "instruction" => Kind(i) = "data"
           /\ Kind(i) # "empty" /\ src[i].body.kind = "instruction" =>
                 /\ IsText(at1[i].sec)
                 /\ src[i].body.op = "plain" => Kind(i) = "any"
                 /\ src[i].body.op \in {"branch", "jump"} => Kind(i) = src[i].body.op
                 /\ src[i].body.op = "la" => Kind(i) = "address"
                 /\ src[i].body.op \in {"liSmall", "liLarge"} => Kind(i) = "plain"
                 /\ src[i].body.op # "liLabel"
<1> DEFINE b == src[i].body
           text == IsText(Standing(src, i))
<1>1. src[i] \in Line /\ src[i].kind \in {"switch", "item"} /\ Standing(src, i) = at1[i].sec
  BY Finished, StandingIs, LineFacts DEF Assembled
<1>2. CASE src[i].kind = "switch"
  <2>1. Kind(i) = "empty" /\ ~IsItem(i)
    BY <1>2 DEF Kind, IsItem
  <2> QED BY <2>1
<1>3. CASE src[i].kind = "item"
  <2>1. /\ IsItem(i) /\ at1[i].sec \in Names /\ Tidy(src[i], at1[i].sec)
        /\ text = IsText(at1[i].sec)
    BY <1>1, <1>3, ItemPlace DEF IsItem
  <2>2. Counted(src[i], at1[i].sec) > 0 <=>
             \/ b.kind = "instruction" /\ text
             \/ b.kind = "directive" /\ ~text /\ b.written > 0
    BY <1>1, <1>3, <2>1, CountsBytes
  <2>3. CASE b.kind = "instruction" /\ text
    <3>1. Kind(i) = CASE b.op = "plain" -> "any"
                      [] b.op \in {"branch", "jump"} -> b.op
                      [] b.op \in {"la", "liLabel"} -> "address"
                      [] OTHER -> "plain"
      BY <1>3, <2>3 DEF Kind
    <3>2. b.op # "liLabel"
      BY <2>1, <2>3 DEF Tidy
    <3> HIDE DEF b, text
    <3>3. Kind(i) # "empty"
      BY <3>1
    <3>4. /\ b.op = "plain" => Kind(i) = "any"
          /\ b.op \in {"branch", "jump"} => Kind(i) = b.op
          /\ b.op = "la" => Kind(i) = "address"
          /\ b.op \in {"liSmall", "liLarge"} => Kind(i) = "plain"
      BY <3>1
    <3> QED BY <2>1, <2>2, <2>3, <3>2, <3>3, <3>4 DEF b, text
  <2>4. CASE b.kind = "directive" /\ ~text /\ b.written > 0
    <3>1. Kind(i) = "data"
      BY <1>3, <2>4 DEF Kind
    <3> QED BY <2>1, <2>2, <2>4, <3>1
  <2>5. CASE ~(b.kind = "instruction" /\ text) /\ ~(b.kind = "directive" /\ ~text /\ b.written > 0)
    <3>1. Kind(i) = "empty"
      BY <1>3, <2>5 DEF Kind
    <3> QED BY <2>2, <2>5, <3>1
  <2> QED BY <2>3, <2>4, <2>5
<1> QED BY <1>1, <1>2, <1>3

\* Lines the reader sees name a label are branches, jumps and la.
LEMMA KindOps ==
    ASSUME Assembled, NEW i \in 1 .. Len(src), Kind(i) \in {"branch", "jump", "address"},
           src[i].body.kind = "instruction"
    PROVE  src[i].body.op \in {"branch", "jump", "la"}
<1>1. src[i].body.op # "liLabel"
  BY KindOfLine
<1> QED BY <1>1 DEF Kind

----------------------------------------------------------------------------
(* From addresses to lines.                                                *)

\* The line whose bytes begin at an offset of the file, if any.
Owner(d) ==
    IF /\ d \in DOMAIN image /\ at2[image[d]].at = d
       /\ \A b \in d .. at2[image[d]].end - 1 : image[b] = image[d]
    THEN image[d] ELSE 0

\* A line with bytes is found where they begin.
LEMMA OwnerOf ==
    ASSUME Assembled, NEW i \in 1 .. Len(src), IsItem(i), Counted(src[i], at1[i].sec) > 0
    PROVE  Owner(at2[i].at) = i
<1>1. /\ at2[i].at \in Int /\ at2[i].end \in Int /\ at2[i].at < at2[i].end
  <2> DEFINE o == base[at1[i].sec]
             x == at1[i].off
             y == at1[i + 1].off
             n == Counted(src[i], at1[i].sec)
  <2>1. /\ o \in Int /\ x \in Nat /\ y \in Nat /\ n \in Nat /\ y = x + n
        /\ at2[i].at = o + x /\ at2[i].end = o + y
    BY ItemPlace
  <2> HIDE DEF o, x, y, n
  <2>2. n > 0
    BY DEF n
  <2> QED BY <2>1, <2>2
<1>2. at2[i].at \in at2[i].at .. at2[i].end - 1
  BY <1>1
<1>3. \A a \in at2[i].at .. at2[i].end - 1 : a \in DOMAIN image /\ image[a] = i
  BY Finished DEF Output, BytesKept
<1> QED BY <1>2, <1>3 DEF Owner

\* What is found there is a line with bytes, and these begin there.
LEMMA OwnerHas ==
    ASSUME Assembled, NEW d, Owner(d) # 0
    PROVE  /\ Owner(d) \in 1 .. Len(src) /\ IsItem(Owner(d))
           /\ at2[Owner(d)].at = d
           /\ Counted(src[Owner(d)], at1[Owner(d)].sec) > 0
           /\ Kind(Owner(d)) # "empty"
<1> DEFINE i == Owner(d)
<1>1. d \in DOMAIN image /\ i = image[d] /\ at2[i].at = d
  BY DEF Owner
<1> HIDE DEF i
<1>2. i \in 1 .. Len(src) /\ d \in at2[i].at .. at2[i].end - 1
  BY <1>1, Finished DEF Output
<1>3. /\ at2[i].at \in Int /\ at2[i].end \in Int
  BY <1>2, Finished DEF LabelInv, TypeOK, Pass2Type
<1>4. at2[i].at < at2[i].end
  BY <1>2, <1>3
<1>5. IsItem(i)
  BY <1>2, <1>3, <1>4, Finished DEF Output
<1>6. Counted(src[i], at1[i].sec) > 0
  BY <1>2, <1>4, <1>5, ItemPlace
<1>7. Kind(i) # "empty"
  BY <1>2, <1>5, <1>6, KindOfLine
<1> QED BY <1>1, <1>2, <1>5, <1>6, <1>7 DEF i

\* The lines of a section from a line on that hold anything.
Ahead(sec, i) == {j \in i .. Len(src) : Standing(src, j) = sec /\ Kind(j) # "empty"}

\* A place between two lines of a section: what is before it was counted
\* before x, what follows it after.
Between(sec, i, x) ==
    /\ sec \in Names /\ i \in 1 .. Len(src) + 1 /\ x \in Nat
    /\ \A k \in 1 .. Len(src) : (IsItem(k) /\ at1[k].sec = sec) =>
          IF k < i THEN at1[k + 1].off <= x ELSE x <= at1[k].off

\* From there the section goes on with the first line ahead that holds
\* anything: tidy sections have no holes, and empty lines no bytes.
LEMMA GoesOn ==
    ASSUME Assembled, NEW sec, NEW i, NEW x, Between(sec, i, x)
    PROVE  \/ Ahead(sec, i) = {}
           \/ /\ Owner(base[sec] + x) \in Ahead(sec, i)
              /\ \A j \in Ahead(sec, i) : Owner(base[sec] + x) <= j
<1> SUFFICES ASSUME Ahead(sec, i) # {}
             PROVE  /\ Owner(base[sec] + x) \in Ahead(sec, i)
                    /\ \A j \in Ahead(sec, i) : Owner(base[sec] + x) <= j
  OBVIOUS
<1>1. Len(src) \in Nat /\ i \in 1 .. Len(src) + 1 /\ x \in Nat /\ sec \in Names
  BY Finished DEF Between
<1>2. Ahead(sec, i) \in SUBSET (1 .. Len(src))
  BY <1>1 DEF Ahead
<1>3. PICK m \in Ahead(sec, i) : \A j \in Ahead(sec, i) : m <= j
  BY <1>1, <1>2, FirstOf
<1>4. /\ m \in 1 .. Len(src) /\ i <= m /\ Kind(m) # "empty" /\ at1[m].sec = sec
  <2>1. m \in i .. Len(src) /\ Kind(m) # "empty" /\ Standing(src, m) = sec
    BY <1>3 DEF Ahead
  <2>2. m \in 1 .. Len(src) /\ m \in 1 .. Len(src) + 1 /\ i <= m
    BY <1>1, <2>1
  <2> QED BY <2>1, <2>2, StandingIs DEF Assembled
<1>5. IsItem(m) /\ Counted(src[m], at1[m].sec) > 0
  BY <1>4, KindOfLine
<1>6. /\ at1[m].off \in Nat /\ at1[m + 1].off \in Nat /\ at1[m].off < at1[m + 1].off
      /\ at1[m + 1].sec = sec /\ at2[m].at = base[sec] + at1[m].off
  BY <1>4, <1>5, ItemPlace
<1>7. ~ x < at1[m].off
  <2> SUFFICES ASSUME x < at1[m].off PROVE FALSE
    OBVIOUS
  <2>1. at1[m].off <= offset[sec] /\ offset[sec] \in Int
    <3>1. m \in 1 .. Len(src) + 1
      BY <1>4
    <3>2. at1[m].off <= offset[sec]
      BY <1>4, <3>1, Finished, DisciplinedLayout
    <3> QED BY <1>1, <3>2, Finished DEF LabelInv, TypeOK, Pass1Type
  <2>2. x \in 0 .. offset[sec] - 1
    BY <1>1, <1>6, <2>1
  <2>3. PICK k \in 1 .. Len(src) : /\ IsItem(k) /\ at1[k].sec = sec
                                   /\ x \in at1[k].off .. at1[k + 1].off - 1
    BY <1>1, <2>2, Finished, DisciplinedLayout
  <2>4. /\ at1[k].off \in Nat /\ at1[k + 1].off \in Nat
        /\ at1[k + 1].off = at1[k].off + Counted(src[k], at1[k].sec)
        /\ Counted(src[k], at1[k].sec) \in Nat
    BY <2>3, ItemPlace
  <2>5. at1[k].off <= x /\ x < at1[k + 1].off
    BY <1>1, <2>3, <2>4
  <2>6. CASE k < i
    <3>1. at1[k + 1].off <= x
      BY <2>3, <2>6 DEF Between
    <3> QED BY <1>1, <2>4, <2>5, <3>1
  <2>7. CASE i <= k /\ k < m
    <3>1. Kind(k) # "empty"
      <4>1. Counted(src[k], at1[k].sec) > 0
        BY <1>1, <2>4, <2>5
      <4> QED BY <2>3, <4>1, KindOfLine
    <3>2. k \in 1 .. Len(src) + 1 /\ k \in i .. Len(src)
      BY <1>1, <2>7
    <3>3. k \in Ahead(sec, i)
      BY <2>3, <3>1, <3>2, StandingIs DEF Ahead, Assembled
    <3> QED BY <1>3, <1>4, <2>7, <3>3
  <2>8. CASE k = m
    BY <1>1, <1>6, <2>5, <2>8
  <2>9. CASE m < k
    <3>1. k \in 1 .. Len(src) + 1
      OBVIOUS
    <3>2. at1[m + 1].off <= at1[k].off
      BY <1>4, <1>5, <2>3, <2>9, <3>1, Finished, DisciplinedLayout
    <3> QED BY <1>1, <1>6, <2>4, <2>5, <3>2
  <2> QED BY <1>1, <1>4, <2>6, <2>7, <2>8, <2>9
<1>8. x <= at1[m].off
  <2>1. ~ m < i
    BY <1>1, <1>4
  <2> QED BY <1>4, <1>5, <2>1 DEF Between
<1>9. at1[m].off = x
  BY <1>1, <1>6, <1>7, <1>8
<1>10. Owner(base[sec] + x) = m
  BY <1>4, <1>5, <1>6, <1>9, OwnerOf
<1> QED BY <1>3, <1>10

\* The three places a step may go on from: the beginning of .text, the end
\* of a line and the beginning of one.
LEMMA Places ==
    ASSUME Assembled
    PROVE  /\ Between(".text", 1, 0) /\ base[".text"] = 0
           /\ \A i \in 1 .. Len(src) : IsItem(i) =>
                 /\ Between(at1[i].sec, i + 1, at1[i + 1].off)
                 /\ Between(at1[i].sec, i, at1[i].off)
<1>1. Len(src) \in Nat /\ \A k \in 1 .. Len(src) : k \in Nat /\ k \in 1 .. Len(src) + 1
  BY Finished
<1>2. Between(".text", 1, 0)
  <2>1. ".text" \in Names
    BY NamesAssumption DEF Standard
  <2>2. \A k \in 1 .. Len(src) : IsItem(k) => 0 <= at1[k].off /\ ~ k < 1
    BY <1>1, ItemPlace
  <2> QED BY <1>1, <2>1, <2>2 DEF Between
<1>3. base[".text"] = 0
  <2>1. next = Visits + 1 /\ next >= 2 /\ Laying
    BY Finished, VisitFacts DEF LabelInv, Bases, Moved, Laying
  <2> QED BY <2>1, Finished DEF LabelInv, Bases
<1>4. ASSUME NEW i \in 1 .. Len(src), IsItem(i)
      PROVE  /\ Between(at1[i].sec, i + 1, at1[i + 1].off)
             /\ Between(at1[i].sec, i, at1[i].off)
  <2>1. /\ at1[i].sec \in Names /\ at1[i].off \in Nat /\ at1[i + 1].off \in Nat
        /\ at1[i + 1].sec = at1[i].sec /\ at1[i].off <= at1[i + 1].off
    BY <1>4, ItemPlace
  <2>2. i \in 1 .. Len(src) + 1 /\ i + 1 \in 1 .. Len(src) + 1
    BY <1>1
  <2>3. ASSUME NEW k \in 1 .. Len(src), IsItem(k), at1[k].sec = at1[i].sec
        PROVE  /\ k < i => at1[k + 1].off <= at1[i].off
               /\ i < k => at1[i + 1].off <= at1[k].off
               /\ at1[k].off \in Nat /\ at1[k + 1].off \in Nat
    BY <1>1, <1>4, <2>2, <2>3, Finished, DisciplinedLayout, ItemPlace
  <2>4. ASSUME NEW k \in 1 .. Len(src), IsItem(k), at1[k].sec = at1[i].sec
        PROVE  /\ IF k < i + 1 THEN at1[k + 1].off <= at1[i + 1].off
                  ELSE at1[i + 1].off <= at1[k].off
               /\ IF k < i THEN at1[k + 1].off <= at1[i].off ELSE at1[i].off <= at1[k].off
    <3>1. CASE k < i
      BY <1>1, <2>1, <2>3, <2>4, <3>1
    <3>2. CASE k = i
      BY <1>1, <2>1, <3>2
    <3>3. CASE i < k
      BY <1>1, <2>1, <2>3, <2>4, <3>3
    <3> QED BY <1>1, <3>1, <3>2, <3>3
  <2> QED BY <2>1, <2>2, <2>4 DEF Between
<1> QED BY <1>2, <1>3, <1>4

\* A label that an encoded instruction names is the address of its line.
LEMMA LabelPlace ==
    ASSUME Assembled, NEW i \in 1 .. Len(src), Refers(i)
    PROVE  LET l == src[i].body.arg
               d == DefiningLine(l)
           IN  /\ d \in 1 .. Len(src) /\ IsItem(d)
               /\ labels[l].addr = base[at1[d].sec] + at1[d].off
<1> DEFINE l == src[i].body.arg
           D == {j \in 1 .. Len(src) : Defines(j, l)}
           d == DefiningLine(l)
<1>1. /\ l \in DOMAIN labels /\ l \in Labels
      /\ \E j \in Read1 : Defines(j, l)
  BY Finished DEF Assembled, LayoutInv, Resolved, OneDefinition, LabelInv, TypeOK, Pass1Type
<1> HIDE DEF l
<1>2. D # {} /\ D \in SUBSET (1 .. Len(src)) /\ Len(src) \in Nat
  BY <1>1, Finished
<1>3. d = CHOOSE j \in D : \A k \in D : j <= k
  BY <1>2 DEF DefiningLine
<1>4. \E j \in D : \A k \in D : j <= k
  BY <1>2, FirstOf
<1> HIDE DEF D, d
<1>5. d \in D
  BY <1>3, <1>4
<1>6. d \in 1 .. Len(src) /\ Defines(d, l)
  BY <1>5 DEF D
<1>7. labels[l].addr = at1[d].off + base[at1[d].sec]
  BY <1>1, <1>6, Finished DEF LabelInv, LabelTable
<1>8. at1[d].off \in Int /\ base[at1[d].sec] \in Int
  BY <1>6, ItemPlace DEF Defines, IsItem
<1> QED BY <1>6, <1>7, <1>8 DEF l, d, Defines, IsItem

----------------------------------------------------------------------------
(* The steps of the emulator.                                              *)

\* What the emulator keeps, and that it runs what the assembler finished.
\* Only of a disciplined program is it known where it goes.
MachineInv ==
    /\ mode \in {"off", "on", "stopped"}
    /\ mode = "off" => load = 0 /\ ip = 0 /\ reg = 0
    /\ mode # "off" => phase = "done" /\ load \in Int
    /\ mode # "off" /\ Disciplined => ip \in Int /\ reg \in Int

\* Toolchain leaves the assembler as it is.
THEOREM AssemblerRunsAlone == ToolchainSpec => Spec
<1>1. ToolchainInit => Init
  BY DEF ToolchainInit
<1>2. [ToolchainNext]_<<vars, machine>> => [Next]_vars
  BY DEF ToolchainNext, Run, Load, Branch, Jump, Indirect, LoadImmediate, TakeAddress, Leave,
         Executes, vars
<1> QED BY <1>1, <1>2, PTL DEF ToolchainSpec, Spec

\* An assembler that has finished stays as it is.
LEMMA DoneIsDone ==
    ASSUME phase = "done", [Next]_vars
    PROVE  phase' = "done"
  BY DEF Next, vars, Pass1Switch, Pass1Ignored, Pass1Item, Pass1Fail, Pass1End, AdjustSection,
         AdjustEnd, Pass2Switch, Pass2Ignored, Pass2Item, Pass2Fail, Pass2End

\* An instruction with a label for an operand names one.
LEMMA Labelled ==
    ASSUME Assembled, NEW i \in 1 .. Len(src), IsItem(i), src[i].body.kind = "instruction",
           src[i].body.op \in {"branch", "jump", "la"}
    PROVE  src[i].body.arg # NoLabel
BY Finished, LabelsAssumption
   DEF Line, SwitchLine, ItemLine, Body, Instruction, Directive, Malformed, NoBody, IsItem

\* The field of a branch or jump carries an even offset in its reach as it is.
LEMMA CutFacts ==
    ASSUME NEW o \in Int, NEW reach \in Nat \ {0}
    PROVE  /\ Cut(o, reach) \in Int
           /\ (o % 2 = 0 /\ o \in -reach .. reach - 1) => Cut(o, reach) = o
<1> DEFINE x == o - (o % 2) + reach
           n == 2 * reach
<1>1. o % 2 \in Int /\ x \in Int /\ n \in Nat /\ n > 0
  OBVIOUS
<1>2. x % n \in Int
  <2> HIDE DEF x, n
  <2> QED BY <1>1
<1>3. ASSUME o % 2 = 0, o \in -reach .. reach - 1 PROVE x % n = o + reach
  <2>1. x = o + reach /\ x >= 0 /\ x < n
    BY <1>3
  <2> HIDE DEF x, n
  <2>2. x % n = x
    BY <1>1, <2>1
  <2> QED BY <2>1, <2>2
<1>4. Cut(o, reach) = (x % n) - reach
  BY DEF Cut
<1> HIDE DEF x, n
<1> QED BY <1>2, <1>3, <1>4

\* The steps in which the emulator executes a line, in file offsets.
LEMMA ExecutedLine ==
    ASSUME Assembled, MachineInv, NEW ops, Executes(ops)
    PROVE  LET i == Owner(ip - load)
           IN  /\ LineAt(ip) = i /\ i \in 1 .. Len(src) /\ IsItem(i) /\ at2[i].at = ip - load
               /\ Kind(i) # "empty" /\ src[i].body.kind = "instruction" /\ src[i].body.op \in ops
               /\ Op = src[i].body
               /\ Onward = load + (base[at1[i].sec] + at1[i + 1].off)
               /\ IsText(at1[i].sec)
               /\ src[i].body.op \in {"branch", "jump", "la"} =>
                     LET d == DefiningLine(src[i].body.arg)
                     IN  /\ d \in 1 .. Len(src) /\ IsItem(d) /\ Destination \in Int
                         /\ InReach \/ src[i].body.op = "la" =>
                               Destination = load + (base[at1[d].sec] + at1[d].off)
<1> DEFINE i == Owner(ip - load)
<1>1. LineAt(ip) = i
  BY DEF LineAt, Owner
<1>2. i # 0 /\ Op = src[i].body /\ src[i].body.kind = "instruction" /\ src[i].body.op \in ops
  BY <1>1 DEF Executes, Op
<1>3. /\ i \in 1 .. Len(src) /\ IsItem(i) /\ at2[i].at = ip - load /\ Kind(i) # "empty"
  BY <1>2, OwnerHas
<1> HIDE DEF i
<1>4. /\ base[at1[i].sec] \in Int /\ at1[i + 1].off \in Int /\ at1[i].off \in Int
      /\ at2[i].end = base[at1[i].sec] + at1[i + 1].off
      /\ load \in Int /\ ip \in Int
  <2>1. /\ base[at1[i].sec] \in Int /\ at1[i + 1].off \in Nat /\ at1[i].off \in Nat
        /\ at2[i].end = base[at1[i].sec] + at1[i + 1].off
    BY <1>3, ItemPlace
  <2>2. load \in Int /\ ip \in Int
    BY DEF MachineInv, Executes, Assembled
  <2> QED BY <2>1, <2>2
<1>5. Onward = load + (base[at1[i].sec] + at1[i + 1].off)
  BY <1>1, <1>3, <1>4 DEF Onward
<1>6. IsText(at1[i].sec)
  BY <1>2, <1>3, KindOfLine
<1>7. ASSUME src[i].body.op \in {"branch", "jump", "la"}
      PROVE  LET d == DefiningLine(src[i].body.arg)
             IN  /\ d \in 1 .. Len(src) /\ IsItem(d) /\ Destination \in Int
                 /\ InReach \/ src[i].body.op = "la" =>
                       Destination = load + (base[at1[d].sec] + at1[d].off)
  <2> DEFINE l == src[i].body.arg
             d == DefiningLine(l)
             o == Offset(i)
             op == src[i].body.op
  <2>1. Refers(i)
    BY <1>2, <1>3, <1>6, <1>7, Labelled DEF Refers
  <2>2. d \in 1 .. Len(src) /\ IsItem(d) /\ labels[l].addr = base[at1[d].sec] + at1[d].off
    BY <1>3, <2>1, LabelPlace
  <2>3. o = labels[l].addr - at2[i].at
    BY DEF Offset
  <2>4. at1[d].off \in Int /\ base[at1[d].sec] \in Int
    BY <2>2, ItemPlace
  <2>5. Destination = ip + Carried(i)
    BY <1>1 DEF Destination
  <2> HIDE DEF d, l
  <2>6. o \in Int /\ ip + o = load + (base[at1[d].sec] + at1[d].off)
    BY <1>3, <1>4, <2>2, <2>3, <2>4
  <2>7. Carried(i) = IF op = "la" THEN o ELSE Cut(o, Reach(op))
    BY DEF Carried
  <2>8. InReach /\ op # "la" => o % 2 = 0 /\ o \in -Reach(op) .. Reach(op) - 1
    <3>1. i \in Handled
      BY <1>3, Finished
    <3> QED BY <1>2, <1>3, <1>6, <1>7, <3>1 DEF InReach
  <2>9. Reach(op) \in Nat \ {0}
    BY ReachAssumption DEF Reach
  <2> HIDE DEF o, op
  <2>10. Carried(i) \in Int /\ (InReach \/ op = "la" => Carried(i) = o)
    BY <2>6, <2>7, <2>8, <2>9, CutFacts
  <2>11. Destination \in Int
    BY <1>4, <2>5, <2>10
  <2>12. InReach \/ op = "la" => Destination = load + (base[at1[d].sec] + at1[d].off)
    BY <2>5, <2>6, <2>10
  <2> QED BY <2>2, <2>11, <2>12 DEF d, l, op
<1> QED BY <1>1, <1>2, <1>3, <1>5, <1>6, <1>7 DEF i

\* The program as Flow is shown it.
AuthorLines ==
    [i \in 1 .. Len(src) |->
        [sec |-> Standing(src, i), kind |-> Kind(i),
         to |-> IF Kind(i) \in {"branch", "jump", "address"}
                 THEN DefiningLine(src[i].body.arg) ELSE 0]]

LEMMA AuthorLine ==
    ASSUME Assembled
    PROVE  /\ Len(AuthorLines) = Len(src)
           /\ \A i \in 1 .. Len(src) :
                 /\ AuthorLines[i].sec = at1[i].sec /\ AuthorLines[i].kind = Kind(i)
                 /\ Kind(i) \in {"branch", "jump", "address"} =>
                       AuthorLines[i].to = DefiningLine(src[i].body.arg)
<1>1. Len(src) \in Nat /\ \A i \in 1 .. Len(src) : i \in 1 .. Len(src) + 1
  BY Finished
<1>2. \A i \in 1 .. Len(src) : at1[i].sec = Standing(src, i)
  BY <1>1, StandingIs DEF Assembled
<1> QED BY <1>1, <1>2 DEF AuthorLines

\* What goes on at a place of a section reaches, for the author, the first
\* line ahead; so with ip,
LEMMA ReachesIp ==
    ASSUME Assembled, UNCHANGED vars, NEW sec, NEW i, NEW x, Between(sec, i, x),
           load' \in Int, ip' = load' + (base[sec] + x)
    PROVE  Author!Reaches(LineAt(ip), sec, i)
<1>1. LineAt(ip)' = Owner(ip' - load')
  BY DEF vars, LineAt, Owner
<1>2. ip' - load' = base[sec] + x
  <2>1. base[sec] \in Int /\ x \in Int
    BY Finished DEF Between, LabelInv, TypeOK, AdjustType
  <2> QED BY <2>1
<1>3. Ahead(sec, i) = {j \in i .. Len(AuthorLines) :
                          AuthorLines[j].sec = sec /\ AuthorLines[j].kind # "empty"}
  <2>1. \A j \in i .. Len(src) : j \in 1 .. Len(src) /\ j \in 1 .. Len(src) + 1
    BY Finished DEF Between
  <2> QED BY <2>1, AuthorLine, StandingIs DEF Ahead, Assembled
<1>4. Author!Reaches(LineAt(ip), sec, i) <=>
        LET t == {j \in i .. Len(AuthorLines) :
                     AuthorLines[j].sec = sec /\ AuthorLines[j].kind # "empty"}
        IN  t = {} \/ (LineAt(ip)' \in t /\ \A j \in t : LineAt(ip)' <= j)
  BY DEF Author!Reaches, AuthorLines
<1> QED BY <1>1, <1>2, <1>3, <1>4, GoesOn

\* ... and so with the register.
LEMMA ReachesReg ==
    ASSUME Assembled, UNCHANGED vars, NEW sec, NEW i, NEW x, Between(sec, i, x),
           load' \in Int, reg' = load' + (base[sec] + x)
    PROVE  Author!Reaches(LineAt(reg), sec, i)
<1>1. LineAt(reg)' = Owner(reg' - load')
  BY DEF vars, LineAt, Owner
<1>2. reg' - load' = base[sec] + x
  <2>1. base[sec] \in Int /\ x \in Int
    BY Finished DEF Between, LabelInv, TypeOK, AdjustType
  <2> QED BY <2>1
<1>3. Ahead(sec, i) = {j \in i .. Len(AuthorLines) :
                          AuthorLines[j].sec = sec /\ AuthorLines[j].kind # "empty"}
  <2>1. \A j \in i .. Len(src) : j \in 1 .. Len(src) /\ j \in 1 .. Len(src) + 1
    BY Finished DEF Between
  <2> QED BY <2>1, AuthorLine, StandingIs DEF Ahead, Assembled
<1>4. Author!Reaches(LineAt(reg), sec, i) <=>
        LET t == {j \in i .. Len(AuthorLines) :
                     AuthorLines[j].sec = sec /\ AuthorLines[j].kind # "empty"}
        IN  t = {} \/ (LineAt(reg)' \in t /\ \A j \in t : LineAt(reg)' <= j)
  BY DEF Author!Reaches, AuthorLines
<1> QED BY <1>1, <1>2, <1>3, <1>4, GoesOn

\* The line executed, in the author's terms, and where its two ways on lead.
LEMMA AuthorStep ==
    ASSUME Assembled, MachineInv, NEW ops, Executes(ops)
    PROVE  LET i == LineAt(ip)
               to == DefiningLine(src[i].body.arg)
           IN  /\ i # 0 /\ i \in 1 .. Len(src) /\ mode = "on" /\ mode' = "on"
               /\ AuthorLines[i].kind = Kind(i)
               /\ src[i].body.kind = "instruction" /\ src[i].body.op \in ops
               /\ Kind(i) # "empty" /\ Op = src[i].body
               /\ ip' = Onward => Author!Onward(LineAt(ip))
               /\ reg' = Onward => Author!Onward(LineAt(reg))
               /\ InReach /\ Kind(i) \in {"branch", "jump", "address"} =>
                     /\ ip' = Destination => Author!AtLabel(LineAt(ip))
                     /\ reg' = Destination => Author!AtLabel(LineAt(reg))
<1> DEFINE i == LineAt(ip)
           to == DefiningLine(src[i].body.arg)
<1>1. /\ i = Owner(ip - load) /\ i \in 1 .. Len(src) /\ IsItem(i)
      /\ Kind(i) # "empty" /\ src[i].body.kind = "instruction" /\ src[i].body.op \in ops
      /\ Op = src[i].body
      /\ Onward = load + (base[at1[i].sec] + at1[i + 1].off)
      /\ Kind(i) \in {"branch", "jump", "address"} =>
            src[i].body.op \in {"branch", "jump", "la"}
      /\ src[i].body.op \in {"branch", "jump", "la"} =>
            /\ to \in 1 .. Len(src) /\ IsItem(to)
            /\ InReach => Destination = load + (base[at1[to].sec] + at1[to].off)
  BY ExecutedLine, KindOps
<1>2. /\ i # 0 /\ mode = "on" /\ mode' = "on" /\ UNCHANGED vars /\ load' = load /\ load' \in Int
  BY DEF Executes, MachineInv
<1>3. Between(at1[i].sec, i + 1, at1[i + 1].off)
  BY <1>1, Places
<1>4. Author!Self = AuthorLines[i]
  BY DEF Author!Self, AuthorLines
<1> HIDE DEF i
<1>5. AuthorLines[i].kind = Kind(i) /\ AuthorLines[i].sec = at1[i].sec
  BY <1>1, AuthorLine
<1>6. ASSUME ip' = Onward PROVE Author!Onward(LineAt(ip))
  <2>1. Author!Reaches(LineAt(ip), at1[i].sec, i + 1)
    BY <1>1, <1>2, <1>3, <1>6, ReachesIp
  <2>2. Author!Reaches(LineAt(ip), Author!Self.sec, LineAt(ip) + 1)
    BY <1>4, <1>5, <2>1 DEF i
  <2> QED BY <2>2 DEF Author!Onward
<1>7. ASSUME reg' = Onward PROVE Author!Onward(LineAt(reg))
  <2>1. Author!Reaches(LineAt(reg), at1[i].sec, i + 1)
    BY <1>1, <1>2, <1>3, <1>7, ReachesReg
  <2>2. Author!Reaches(LineAt(reg), Author!Self.sec, LineAt(ip) + 1)
    BY <1>4, <1>5, <2>1 DEF i
  <2> QED BY <2>2 DEF Author!Onward
<1>8. ASSUME Kind(i) \in {"branch", "jump", "address"}, InReach
      PROVE  /\ ip' = Destination => Author!AtLabel(LineAt(ip))
             /\ reg' = Destination => Author!AtLabel(LineAt(reg))
  <2>1. /\ AuthorLines[i].to = to /\ to \in 1 .. Len(src) /\ IsItem(to)
        /\ Destination = load' + (base[at1[to].sec] + at1[to].off)
    BY <1>1, <1>2, <1>8, AuthorLine
  <2>2. Between(at1[to].sec, to, at1[to].off)
    BY <2>1, Places
  <2>3. AuthorLines[to].sec = at1[to].sec /\ to # 0
    <3>1. to \in 1 .. Len(src) /\ Len(src) \in Nat
      BY <2>1, Finished
    <3> HIDE DEF to
    <3> QED BY <3>1, AuthorLine
  <2> HIDE DEF to
  <2>4. ASSUME ip' = Destination PROVE Author!AtLabel(LineAt(ip))
    <3>1. Author!Reaches(LineAt(ip), at1[to].sec, to)
      BY <1>2, <2>1, <2>2, <2>4, ReachesIp
    <3>2. /\ Author!Self.to = to
          /\ Author!Reaches(LineAt(ip), AuthorLines[Author!Self.to].sec, Author!Self.to)
      BY <1>4, <2>1, <2>3, <3>1
    <3> QED BY <2>3, <3>2 DEF Author!AtLabel, AuthorLines
  <2>5. ASSUME reg' = Destination PROVE Author!AtLabel(LineAt(reg))
    <3>1. Author!Reaches(LineAt(reg), at1[to].sec, to)
      BY <1>2, <2>1, <2>2, <2>5, ReachesReg
    <3>2. /\ Author!Self.to = to
          /\ Author!Reaches(LineAt(reg), AuthorLines[Author!Self.to].sec, Author!Self.to)
      BY <1>4, <2>1, <2>3, <3>1
    <3> QED BY <2>3, <3>2 DEF Author!AtLabel, AuthorLines
  <2> QED BY <2>4, <2>5
<1> QED BY <1>1, <1>2, <1>5, <1>6, <1>7, <1>8 DEF i

\* The line an unchanged register stands for stays the same.
LEMMA SameLines ==
    ASSUME UNCHANGED vars, load' = load
    PROVE  /\ reg' = reg => LineAt(reg)' = LineAt(reg)
           /\ ip' = ip => LineAt(ip)' = LineAt(ip)
           /\ ip' = reg => LineAt(ip)' = LineAt(reg)
  BY DEF vars, LineAt

\* Every step of the emulator on an assembled program is one its author
\* expects.
LEMMA RunStep ==
    ASSUME LabelInv, LayoutInv, MachineInv, Disciplined, InReach, Run
    PROVE  Author!Next
<1>1. Assembled /\ UNCHANGED vars
  BY DEF Run, Load, Branch, Jump, Indirect, LoadImmediate, TakeAddress, Leave, Executes,
         MachineInv, Assembled
<1>2. CASE Load
  <2>1. Between(".text", 1, 0) /\ ip' = load' + (base[".text"] + 0) /\ load' \in Int
    <3>1. load' \in Int /\ ip' = load'
      BY <1>2, LoadAssumption DEF Load
    <3> QED BY <1>1, <3>1, Places
  <2>2. Author!Reaches(LineAt(ip), ".text", 1)
    BY <1>1, <2>1, ReachesIp
  <2>3. mode = "off" /\ mode' = "on"
    BY <1>2 DEF Load
  <2>4. Author!Start
    BY <2>2, <2>3 DEF Author!Start
  <2> QED BY <2>4 DEF Author!Next
<1> DEFINE i == LineAt(ip)
<1>3. ASSUME NEW ops, Executes(ops)
      PROVE  /\ Author!Running(Kind(i)) /\ i \in 1 .. Len(src) /\ Kind(i) # "empty"
             /\ src[i].body.kind = "instruction" /\ src[i].body.op \in ops /\ Op = src[i].body
             /\ load' = load
             /\ ip' = Onward => Author!Onward(LineAt(ip))
             /\ reg' = Onward => Author!Onward(LineAt(reg))
             /\ Kind(i) \in {"branch", "jump", "address"} =>
                   /\ ip' = Destination => Author!AtLabel(LineAt(ip))
                   /\ reg' = Destination => Author!AtLabel(LineAt(reg))
  <2>1. /\ i # 0 /\ mode = "on" /\ mode' = "on" /\ AuthorLines[i].kind = Kind(i)
        /\ i \in 1 .. Len(src) /\ Kind(i) # "empty"
        /\ src[i].body.kind = "instruction" /\ src[i].body.op \in ops /\ Op = src[i].body
        /\ ip' = Onward => Author!Onward(LineAt(ip))
        /\ reg' = Onward => Author!Onward(LineAt(reg))
        /\ Kind(i) \in {"branch", "jump", "address"} =>
              /\ ip' = Destination => Author!AtLabel(LineAt(ip))
              /\ reg' = Destination => Author!AtLabel(LineAt(reg))
    BY <1>1, <1>3, AuthorStep
  <2>2. Author!Self = AuthorLines[i]
    BY DEF Author!Self, AuthorLines
  <2> HIDE DEF i
  <2>3. Author!Running(Kind(i))
    BY <2>1, <2>2 DEF Author!Running, i
  <2> QED BY <1>3, <2>1, <2>3 DEF Executes
<1>4. CASE Branch
  <2>1. Executes({"branch"}) /\ ip' \in {Onward, Destination} /\ reg' = reg
    BY <1>4 DEF Branch
  <2>2. Kind(i) = "branch"
    BY <1>1, <1>3, <2>1, KindOfLine
  <2>3. Author!Onward(LineAt(ip)) \/ Author!AtLabel(LineAt(ip))
    BY <1>3, <2>1, <2>2
  <2>4. LineAt(reg)' = LineAt(reg)
    BY <1>1, <1>3, <2>1, SameLines
  <2>5. Author!Branch
    BY <1>3, <2>1, <2>2, <2>3, <2>4 DEF Author!Branch
  <2> QED BY <2>5 DEF Author!Next
<1>5. CASE Jump
  <2>1. Executes({"jump"}) /\ ip' = Destination /\ reg' \in {reg, Onward}
    BY <1>5 DEF Jump
  <2>2. Kind(i) = "jump"
    BY <1>1, <1>3, <2>1, KindOfLine
  <2>3. Author!AtLabel(LineAt(ip))
    BY <1>3, <2>1, <2>2
  <2>4. LineAt(reg)' = LineAt(reg) \/ Author!Onward(LineAt(reg))
    BY <1>1, <1>3, <2>1, SameLines
  <2>5. Author!Jump
    BY <1>3, <2>1, <2>2, <2>3, <2>4 DEF Author!Jump
  <2> QED BY <2>5 DEF Author!Next
<1>6. CASE Indirect
  <2>1. Executes({"plain"}) /\ ip' \in {Onward, reg} /\ reg' = reg
    BY <1>6 DEF Indirect
  <2>2. Kind(i) = "any"
    BY <1>1, <1>3, <2>1, KindOfLine
  <2>3. Author!Onward(LineAt(ip)) \/ LineAt(ip)' = LineAt(reg)
    BY <1>1, <1>3, <2>1, SameLines
  <2>4. LineAt(reg)' = LineAt(reg)
    BY <1>1, <1>3, <2>1, SameLines
  <2>5. Author!Indirect
    BY <1>3, <2>1, <2>2, <2>3, <2>4 DEF Author!Indirect
  <2> QED BY <2>5 DEF Author!Next
<1>7. CASE LoadImmediate
  <2>1. Executes({"liSmall", "liLarge"}) /\ ip' = Onward /\ reg' = reg
    BY <1>7 DEF LoadImmediate
  <2>2. Kind(i) = "plain"
    BY <1>1, <1>3, <2>1, KindOfLine
  <2>3. LineAt(reg)' = LineAt(reg) /\ Author!Onward(LineAt(ip))
    BY <1>1, <1>3, <2>1, SameLines
  <2>4. Author!Plain
    BY <1>3, <2>1, <2>2, <2>3 DEF Author!Plain
  <2> QED BY <2>4 DEF Author!Next
<1>8. CASE TakeAddress
  <2>1. /\ Executes({"la", "liLabel"}) /\ ip' = Onward
        /\ Op.op = "la" => reg' = Destination
    BY <1>8 DEF TakeAddress
  <2>2. src[i].body.op = "la" /\ Op = src[i].body
    BY <1>1, <1>3, <2>1, KindOfLine
  <2>3. Kind(i) = "address"
    BY <1>1, <1>3, <2>1, <2>2, KindOfLine
  <2>4. Author!Onward(LineAt(ip)) /\ Author!AtLabel(LineAt(reg))
    BY <1>3, <2>1, <2>2, <2>3
  <2>5. Author!TakeAddress
    BY <1>3, <2>1, <2>3, <2>4 DEF Author!TakeAddress
  <2> QED BY <2>5 DEF Author!Next
<1>9. CASE Leave
  <2>1. /\ mode = "on" /\ mode' = "stopped" /\ load' = load /\ ip' = ip /\ reg' = reg
        /\ i # 0 => Op.kind # "instruction"
    BY <1>9 DEF Leave
  <2>2. LineAt(ip)' = LineAt(ip) /\ LineAt(reg)' = LineAt(reg)
    BY <1>1, <2>1, SameLines
  <2>3. ASSUME i # 0 PROVE Author!Self.kind = "data"
    <3>1. i = Owner(ip - load) /\ Op = src[i].body
      BY DEF LineAt, Owner, Op
    <3>2. i \in 1 .. Len(src) /\ Kind(i) # "empty"
      BY <1>1, <2>3, <3>1, OwnerHas
    <3> HIDE DEF i
    <3>3. Kind(i) = "data" /\ AuthorLines[i].kind = Kind(i)
      BY <1>1, <2>1, <2>3, <3>1, <3>2, KindOfLine, AuthorLine
    <3> QED BY <3>3 DEF Author!Self, AuthorLines, i
  <2>4. Author!Stop
    BY <2>1, <2>2, <2>3 DEF Author!Stop
  <2> QED BY <2>4 DEF Author!Next
<1> QED BY <1>2, <1>4, <1>5, <1>6, <1>7, <1>8, <1>9 DEF Run

\* The machine's invariant holds after every step.
LEMMA MachineStep ==
    ASSUME LabelInv, LayoutInv, MachineInv, [ToolchainNext]_<<vars, machine>>
    PROVE  MachineInv'
<1>1. CASE (Next /\ UNCHANGED machine) \/ UNCHANGED <<vars, machine>>
  <2>1. [Next]_vars /\ UNCHANGED <<mode, load, ip, reg>>
    BY <1>1 DEF machine
  <2>2. CASE mode = "off"
    BY <2>1, <2>2 DEF MachineInv
  <2>3. CASE mode # "off"
    <3>1. phase = "done" /\ phase' = "done"
      BY <2>1, <2>3, DoneIsDone DEF MachineInv
    <3>2. UNCHANGED <<src, at1, offset, free>>
      BY <2>1, <3>1
         DEF Next, vars, Pass1Switch, Pass1Ignored, Pass1Item, Pass1Fail, Pass1End, AdjustSection,
             AdjustEnd, Pass2Switch, Pass2Ignored, Pass2Item, Pass2Fail, Pass2End
    <3>3. Disciplined' <=> Disciplined
      BY <3>2, DisciplineKept
    <3> QED BY <2>1, <2>3, <3>1, <3>3 DEF MachineInv
  <2> QED BY <2>2, <2>3
<1>2. CASE Run
  <2>1. UNCHANGED vars /\ phase = "done" /\ phase' = "done"
    BY <1>2 DEF Run, Load, Branch, Jump, Indirect, LoadImmediate, TakeAddress, Leave, Executes,
                MachineInv, vars
  <2>2. Disciplined' <=> Disciplined
    BY <2>1, DisciplineKept DEF vars
  <2>3. CASE Load
    BY <2>1, <2>3, LoadAssumption DEF Load, MachineInv
  <2>4. CASE Leave
    BY <2>1, <2>2, <2>4 DEF Leave, MachineInv
  <2>5. ASSUME NEW ops, Executes(ops)
        PROVE  /\ mode # "off" /\ mode' = "on" /\ load' = load /\ load \in Int
               /\ Disciplined => /\ ip \in Int /\ reg \in Int /\ Onward \in Int
                                 /\ Op.op \in {"branch", "jump", "la"} => Destination \in Int
                                 /\ Op.op # "liLabel" /\ Op.op \in ops
    <3>1. mode = "on" /\ mode' = "on" /\ load' = load /\ load \in Int
      BY <2>5 DEF Executes, MachineInv
    <3>2. ASSUME Disciplined
          PROVE  /\ ip \in Int /\ reg \in Int /\ Onward \in Int
                 /\ Op.op \in {"branch", "jump", "la"} => Destination \in Int
                 /\ Op.op # "liLabel" /\ Op.op \in ops
      <4> DEFINE i == Owner(ip - load)
      <4>1. Assembled
        BY <2>1, <3>2 DEF Assembled
      <4>2. /\ i \in 1 .. Len(src) /\ IsItem(i) /\ Kind(i) # "empty"
            /\ src[i].body.kind = "instruction" /\ src[i].body.op \in ops /\ Op = src[i].body
            /\ Onward = load + (base[at1[i].sec] + at1[i + 1].off)
            /\ src[i].body.op \in {"branch", "jump", "la"} => Destination \in Int
        BY <2>5, <4>1, ExecutedLine
      <4> HIDE DEF i
      <4>3. Onward \in Int
        BY <3>1, <4>1, <4>2, ItemPlace
      <4>4. src[i].body.op # "liLabel"
        BY <4>1, <4>2, KindOfLine
      <4> QED BY <3>1, <3>2, <4>2, <4>3, <4>4 DEF MachineInv
    <3> QED BY <3>1, <3>2
  <2>6. CASE Branch
    BY <2>1, <2>2, <2>5, <2>6 DEF Branch, MachineInv
  <2>7. CASE Jump
    BY <2>1, <2>2, <2>5, <2>7 DEF Jump, MachineInv
  <2>8. CASE Indirect
    BY <2>1, <2>2, <2>5, <2>8 DEF Indirect, MachineInv
  <2>9. CASE LoadImmediate
    BY <2>1, <2>2, <2>5, <2>9 DEF LoadImmediate, MachineInv
  <2>10. CASE TakeAddress
    BY <2>1, <2>2, <2>5, <2>10 DEF TakeAddress, MachineInv
  <2> QED BY <1>2, <2>3, <2>4, <2>6, <2>7, <2>8, <2>9, <2>10 DEF Run
<1> QED BY <1>1, <1>2 DEF ToolchainNext

\* A disciplined program whose branches and jumps are in the reach of their
\* fields, assembled and loaded at any address, runs as its text says: the
\* line after, the line of the label branched to, called or taken the address
\* of, wherever the sections put it.
THEOREM RunsAsWrittenAlways == ToolchainSpec => RunsAsWritten
<1>1. ToolchainInit => MachineInv
  BY DEF ToolchainInit, MachineInv
<1>2. LabelInv /\ LayoutInv /\ MachineInv /\ [ToolchainNext]_<<vars, machine>> => MachineInv'
  BY MachineStep
<1>3. LabelInv /\ LayoutInv /\ MachineInv /\ [ToolchainNext]_<<vars, machine>>
        => [Disciplined /\ InReach => Author!Next]_machine
  <2> SUFFICES ASSUME LabelInv, LayoutInv, MachineInv, ToolchainNext, Disciplined, InReach,
                      ~UNCHANGED machine
               PROVE  Author!Next
    OBVIOUS
  <2>1. Run
    BY DEF ToolchainNext
  <2> QED BY <2>1, RunStep
<1> QED BY <1>1, <1>2, <1>3, AssemblerRunsAlone, LabelInvariant, LayoutInvariant, PTL
       DEF ToolchainSpec, RunsAsWritten

=============================================================================
