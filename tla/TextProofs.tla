----------------------------- MODULE TextProofs -----------------------------
(***************************************************************************)
(* The two ways the assembler reads text, for every text.                  *)
(*                                                                         *)
(* I.  The two scans of a data directive (DataDirective): they stay inside *)
(*     the text, pass 2 never writes less than pass 1 counted, and both    *)
(*     agree on every list of numbers as C reads them.  Both scans are     *)
(*     told by the positions where a value starts: what pass 1 has counted *)
(*     is the number of starts before its position, and each value pass 2  *)
(*     writes passes one start at most.                                    *)
(* II. The lines of instructions (Lines): both passes take tight operands  *)
(*     from any line, they agree on the operation and, unless the rewrite  *)
(*     of a parenthesis comes ahead of it, on how the second operand       *)
(*     starts, what an expansion prints is read back, and what is written  *)
(*     as an instruction is read as written.  A text is told by its first  *)
(*     and last tokens that are not space and by the first of each         *)
(*     separator.                                                          *)
(***************************************************************************)
EXTENDS DataDirective, Lines, BasicFacts, SequenceTheorems

----------------------------------------------------------------------------
(* Least and greatest elements.                                            *)

\* Min is the least element of a set of naturals that has one.
LEMMA MinIsLeast ==
    ASSUME NEW S \in SUBSET Nat, S # {}
    PROVE  Min(S) \in S /\ \A y \in S : Min(S) <= y
<1>1. PICK m \in S : \A k \in S : ~ (<<k, m>> \in OpToRel(<, Nat))
  BY NatLessThanWellFounded, WFMin
<1>2. \A k \in S : m <= k
  <2> TAKE k \in S
  <2>1. m \in Nat /\ k \in Nat /\ ~ (k < m)
    BY <1>1 DEF OpToRel
  <2> QED BY <2>1
<1> QED BY <1>2 DEF Min

\* A bounded set of naturals has a greatest element.
LEMMA Greatest ==
    ASSUME NEW S \in SUBSET Nat, S # {}, NEW n \in Nat, \A x \in S : x <= n
    PROVE  \E m \in S : \A y \in S : y <= m
<1> DEFINE T == {n - x : x \in S}
<1>1. T \in SUBSET Nat /\ T # {}
  <2>1. \A x \in S : n - x \in Nat
    OBVIOUS
  <2> QED BY <2>1
<1>2. Min(T) \in T /\ \A y \in T : Min(T) <= y
  BY <1>1, MinIsLeast
<1>3. PICK m \in S : Min(T) = n - m
  BY <1>2
<1>4. \A y \in S : n - m <= n - y
  BY <1>2, <1>3
<1>5. \A y \in S : y <= m
  BY <1>4
<1> QED BY <1>5

----------------------------------------------------------------------------
(* Spans of a text.                                                        *)

\* The classes of the characters numbers are made of.
Numeral == {"0", "7", "9", "x", "f", "-"}

\* Every position of a text holds a class, and its end holds none.
LEMMA Positions ==
    ASSUME text \in Seq(Class)
    PROVE  /\ Len(text) \in Nat /\ End \in Nat \ {0}
           /\ \A p \in 1 .. End - 1 : At(p) = text[p] /\ At(p) \in Class
           /\ \A p \in Int : p >= End => At(p) = "end"
           /\ "end" \notin Class
<1>1. Len(text) \in Nat /\ End \in Nat \ {0}
  BY DEF End
<1>2. \A p \in 1 .. End - 1 : At(p) = text[p] /\ At(p) \in Class
  BY <1>1 DEF End, At
<1>3. \A p \in Int : p >= End => At(p) = "end"
  BY <1>1 DEF At
<1>4. "end" \notin Class
  BY DEF Class
<1> QED BY <1>1, <1>2, <1>3, <1>4

\* A span reaches to the first position without the classes.
LEMMA SpanIs ==
    ASSUME text \in Seq(Class), NEW C \in SUBSET Class, NEW p \in 1 .. End
    PROVE  /\ Span(p, C) \in p .. End /\ At(Span(p, C)) \notin C
           /\ \A q \in p .. Span(p, C) - 1 : At(q) \in C
<1> DEFINE S == {q \in p .. End : At(q) \notin C}
<1>1. End \in Nat \ {0} /\ End \in S
  BY Positions
<1>2. S \in SUBSET Nat
  BY <1>1
<1>3. Min(S) \in S /\ \A y \in S : Min(S) <= y
  <2> HIDE DEF S
  <2> QED BY <1>1, <1>2, MinIsLeast
<1>4. Span(p, C) = Min(S)
  BY DEF Span
<1> DEFINE m == Min(S)
<1>5. m \in S /\ \A y \in S : m <= y
  BY <1>3
<1> HIDE DEF m
<1>6. m \in p .. End /\ At(m) \notin C
  BY <1>5
<1>7. \A q \in p .. m - 1 : At(q) \in C
  BY <1>1, <1>5, <1>6
<1> QED BY <1>4, <1>6, <1>7 DEF m

\* A span ends where it is shown to end.
LEMMA SpanEnds ==
    ASSUME text \in Seq(Class), NEW C \in SUBSET Class, NEW p \in 1 .. End, NEW q \in p .. End,
           At(q) \notin C, \A r \in p .. q - 1 : At(r) \in C
    PROVE  Span(p, C) = q
<1> DEFINE m == Span(p, C)
<1>1. m \in p .. End /\ At(m) \notin C /\ \A r \in p .. m - 1 : At(r) \in C
  BY SpanIs
<1>2. End \in Nat
  BY Positions
<1> HIDE DEF m
<1>3. ~ (m < q) /\ ~ (q < m)
  BY <1>1, <1>2
<1> QED BY <1>1, <1>2, <1>3 DEF m

\* strtol stops inside the text, with nothing but a number before it.
LEMMA StrtolIs ==
    ASSUME text \in Seq(Class), NEW p \in 1 .. End - 1
    PROVE  /\ StrtolEnd(p) \in p .. End
           /\ \A q \in p .. StrtolEnd(p) - 1 : At(q) \in Numeral
<1> DEFINE d == IF At(p) = "-" THEN p + 1 ELSE p
<1>0. End \in Nat \ {0} /\ \A q \in Int : q >= End => At(q) = "end"
  BY Positions
<1>1. d \in p .. p + 1 /\ d \in Int /\ (d = p + 1 => At(p) = "-")
  BY <1>0
<1>2. StrtolEnd(p) = IF At(d) = "0" /\ At(d + 1) = "x" /\ At(d + 2) \in HexDigit
                     THEN Span(d + 2, HexDigit)
                     ELSE IF At(d) = "0" THEN Span(d, OctalDigit)
                     ELSE IF At(d) \in Digit THEN Span(d, Digit) ELSE p
  BY DEF StrtolEnd
<1>3. HexDigit \in SUBSET Class /\ Digit \in SUBSET Class /\ OctalDigit \in SUBSET Digit
  BY DEF HexDigit, Digit, OctalDigit, Class
<1> HIDE DEF d
<1>4. CASE At(d) = "0" /\ At(d + 1) = "x" /\ At(d + 2) \in HexDigit
  <2>1. d + 2 \in 1 .. End
    BY <1>0, <1>1, <1>4 DEF HexDigit
  <2> DEFINE s == Span(d + 2, HexDigit)
  <2>2. s \in d + 2 .. End /\ \A q \in d + 2 .. s - 1 : At(q) \in HexDigit
    BY <1>3, <2>1, SpanIs
  <2>3. StrtolEnd(p) = s
    BY <1>2, <1>4
  <2> HIDE DEF s
  <2> QED BY <1>0, <1>1, <1>4, <2>2, <2>3 DEF HexDigit, Numeral
<1>5. CASE ~ (At(d) = "0" /\ At(d + 1) = "x" /\ At(d + 2) \in HexDigit) /\ At(d) \in Digit
  <2>1. d \in 1 .. End
    BY <1>0, <1>1, <1>5 DEF Digit
  <2> DEFINE s == Span(d, IF At(d) = "0" THEN OctalDigit ELSE Digit)
  <2>2. s \in d .. End /\ \A q \in d .. s - 1 : At(q) \in Digit
    BY <1>3, <2>1, SpanIs
  <2>3. StrtolEnd(p) = s
    BY <1>2, <1>5
  <2> HIDE DEF s
  <2> QED BY <1>0, <1>1, <2>2, <2>3 DEF Digit, Numeral
<1>6. CASE ~ (At(d) = "0" /\ At(d + 1) = "x" /\ At(d + 2) \in HexDigit) /\ At(d) \notin Digit
  BY <1>0, <1>2, <1>6 DEF Digit
<1> QED BY <1>4, <1>5, <1>6

\* A value ends inside the text, and is made of what numbers are made of.
LEMMA ValueIs ==
    ASSUME text \in Seq(Class), NEW p \in 1 .. End - 1
    PROVE  /\ ValueEnd(p) \in p .. End
           /\ \A q \in p .. ValueEnd(p) - 1 : At(q) \in Numeral
<1>1. CASE unit = 1
  BY <1>1, StrtolIs DEF ValueEnd
<1>2. CASE unit # 1
  <2>1. Numeral \in SUBSET Class
    BY DEF Numeral, Class
  <2>2. End \in Nat /\ p \in 1 .. End
    BY Positions
  <2>3. ValueEnd(p) = Span(p, Numeral)
    BY <1>2 DEF ValueEnd, Numeral
  <2> QED BY <2>1, <2>2, <2>3, SpanIs
<1> QED BY <1>1, <1>2

\* The digits of a number that starts with 0, of a .byte and of the others.
Zeroed == IF unit = 1 THEN OctalDigit ELSE Digit

\* A number is read whole, when nothing of a number follows it.
LEMMA NumberRead ==
    ASSUME text \in Seq(Class), NEW p \in 1 .. End - 1, NEW q \in p .. End,
           Number(p, q, Zeroed), At(q) \notin Numeral
    PROVE  ValueEnd(p) = q /\ p < q /\ At(p) \in Numeral
<1> DEFINE d == IF At(p) = "-" THEN p + 1 ELSE p
<1>0. End \in Nat \ {0} /\ \A r \in Int : r >= End => At(r) = "end"
  BY Positions
<1>1. d \in p .. p + 1 /\ d \in Int /\ (d = p + 1 => At(p) = "-")
  BY <1>0
<1>2. /\ d < q
      /\ \/ \A r \in d .. q - 1 : At(r) \in (IF At(d) = "0" THEN Zeroed ELSE Digit)
         \/ /\ At(d) = "0" /\ d + 2 < q /\ At(d + 1) = "x"
            /\ \A r \in d + 2 .. q - 1 : At(r) \in HexDigit
  BY DEF Number
<1>3. StrtolEnd(p) = IF At(d) = "0" /\ At(d + 1) = "x" /\ At(d + 2) \in HexDigit
                     THEN Span(d + 2, HexDigit)
                     ELSE IF At(d) = "0" THEN Span(d, OctalDigit)
                     ELSE IF At(d) \in Digit THEN Span(d, Digit) ELSE p
  BY DEF StrtolEnd
<1>4. /\ HexDigit \in SUBSET Class /\ Digit \in SUBSET Class /\ Numeral \in SUBSET Class
      /\ HexDigit \in SUBSET Numeral /\ Digit \in SUBSET Numeral
      /\ OctalDigit \in SUBSET Digit /\ Zeroed \in SUBSET Digit
  BY DEF HexDigit, Digit, OctalDigit, Zeroed, Class, Numeral
<1> HIDE DEF d
<1>5. At(d) \in Digit
  BY <1>0, <1>1, <1>2, <1>4 DEF Digit
<1>6. \A r \in p .. q - 1 : At(r) \in Numeral
  <2>1. \A r \in p .. d - 1 : At(r) \in Numeral
    BY <1>0, <1>1 DEF Numeral
  <2>2. \A r \in d .. q - 1 : At(r) \in Numeral
    <3>1. CASE \A r \in d .. q - 1 : At(r) \in (IF At(d) = "0" THEN Zeroed ELSE Digit)
      BY <1>4, <3>1
    <3>2. CASE /\ At(d) = "0" /\ d + 2 < q /\ At(d + 1) = "x"
               /\ \A r \in d + 2 .. q - 1 : At(r) \in HexDigit
      <4>1. \A r \in d .. q - 1 : r = d \/ r = d + 1 \/ r \in d + 2 .. q - 1
        BY <1>0, <1>1
      <4>2. At(d) \in Numeral /\ At(d + 1) \in Numeral
        BY <3>2 DEF Numeral
      <4> QED BY <1>4, <3>2, <4>1, <4>2
    <3> QED BY <1>2, <3>1, <3>2
  <2>3. \A r \in p .. q - 1 : r \in p .. d - 1 \/ r \in d .. q - 1
    BY <1>0, <1>1
  <2> QED BY <2>1, <2>2, <2>3
<1>7. ASSUME unit = 1 PROVE StrtolEnd(p) = q
  <2>1. CASE \A r \in d .. q - 1 : At(r) \in (IF At(d) = "0" THEN Zeroed ELSE Digit)
    <3>1. At(d + 1) # "x"
      <4>1. CASE d + 1 = q
        BY <4>1 DEF Numeral
      <4>2. CASE d + 1 < q
        BY <1>0, <1>1, <1>4, <2>1, <4>2 DEF Digit
      <4> QED BY <1>0, <1>1, <1>2, <4>1, <4>2
    <3> DEFINE D == IF At(d) = "0" THEN OctalDigit ELSE Digit
    <3>2. D \in SUBSET Class /\ At(q) \notin D /\ \A r \in d .. q - 1 : At(r) \in D
      BY <1>4, <1>7, <2>1 DEF Zeroed
    <3>3. Span(d, D) = q
      <4> HIDE DEF D
      <4> QED BY <1>0, <1>1, <1>2, <3>2, SpanEnds
    <3> QED BY <1>3, <1>5, <3>1, <3>3
  <2>2. CASE /\ At(d) = "0" /\ d + 2 < q /\ At(d + 1) = "x"
             /\ \A r \in d + 2 .. q - 1 : At(r) \in HexDigit
    <3>1. At(d + 2) \in HexDigit
      BY <1>0, <1>1, <2>2
    <3>2. Span(d + 2, HexDigit) = q
      <4>1. d + 2 \in 1 .. End /\ q \in d + 2 .. End
        BY <1>0, <1>1, <2>2
      <4> QED BY <1>4, <2>2, <4>1, SpanEnds
    <3> QED BY <1>3, <2>2, <3>1, <3>2
  <2> QED BY <1>2, <2>1, <2>2
<1>8. Span(p, Numeral) = q
  BY <1>0, <1>4, <1>6, SpanEnds
<1>9. ValueEnd(p) = q
  BY <1>7, <1>8 DEF ValueEnd, Numeral
<1> QED BY <1>0, <1>1, <1>2, <1>6, <1>9

----------------------------------------------------------------------------
(* Where values start.                                                     *)

\* Nothing but blanks since the last comma, if any.
Open(p) == \A q \in 1 .. p - 1 :
              At(q) \notin Separator => \E c \in q + 1 .. p - 1 : At(c) = ","

\* The first character of each field that is not blank.
Starts == {p \in 1 .. End - 1 : At(p) \notin Separator /\ Open(p)}

\* The values that start before p.
StartsBefore(p) == Starts \cap 1 .. p - 1

\* At most one value starts at each position.
LEMMA BeforeCounts ==
    ASSUME text \in Seq(Class), NEW p \in 1 .. End
    PROVE  /\ IsFiniteSet(StartsBefore(p)) /\ Cardinality(StartsBefore(p)) \in 0 .. p - 1
           /\ StartsBefore(1) = {} /\ Cardinality(StartsBefore(1)) = 0
<1>1. p \in Nat /\ p >= 1
  BY Positions
<1>2. IsFiniteSet(1 .. p - 1) /\ Cardinality(1 .. p - 1) = p - 1
  BY <1>1, FS_Interval
<1>3. StartsBefore(p) \in SUBSET (1 .. p - 1)
  BY DEF StartsBefore
<1>4. IsFiniteSet(StartsBefore(p)) /\ Cardinality(StartsBefore(p)) <= p - 1
  BY <1>2, <1>3, FS_Subset
<1>5. Cardinality(StartsBefore(p)) \in Nat
  BY <1>4, FS_CardinalityType
<1>6. StartsBefore(1) = {}
  BY DEF StartsBefore
<1>7. Cardinality(StartsBefore(p)) \in 0 .. p - 1
  BY <1>1, <1>4, <1>5
<1>8. Cardinality(StartsBefore(1)) = 0
  BY <1>6, FS_EmptySet
<1> QED BY <1>4, <1>6, <1>7, <1>8

\* A stretch where no value starts but at its first position.
LEMMA OneStart ==
    ASSUME text \in Seq(Class), NEW p \in 1 .. End, NEW q \in p .. End,
           \A s \in p + 1 .. q - 1 : s \notin Starts
    PROVE  Cardinality(StartsBefore(q)) =
              Cardinality(StartsBefore(p)) + (IF p \in Starts /\ p < q THEN 1 ELSE 0)
<1>1. End \in Nat /\ p \in Nat /\ q \in Nat /\ 1 <= p /\ p <= q
  BY Positions
<1>2. IsFiniteSet(StartsBefore(p)) /\ Cardinality(StartsBefore(p)) \in Nat /\ p \notin StartsBefore(p)
  BY <1>1, BeforeCounts DEF StartsBefore
<1>3. CASE p \in Starts /\ p < q
  <2>1. StartsBefore(q) = StartsBefore(p) \cup {p}
    BY <1>1, <1>3 DEF StartsBefore, Starts
  <2> QED BY <1>2, <1>3, <2>1, FS_AddElement
<1>4. CASE ~ (p \in Starts /\ p < q)
  <2>1. StartsBefore(q) = StartsBefore(p)
    BY <1>1, <1>4 DEF StartsBefore
  <2> QED BY <1>2, <1>4, <2>1
<1> QED BY <1>3, <1>4

\* No comma between two positions.
NoComma(p, q) == \A r \in p + 1 .. q - 1 : At(r) # ","

\* No value starts within a value: a comma would have to come first.
LEMMA NoStartWithin ==
    ASSUME text \in Seq(Class), NEW p \in 1 .. End - 1, NEW q \in p .. End, At(p) \notin Separator,
           NoComma(p, q)
    PROVE  \A s \in p + 1 .. q - 1 : s \notin Starts
<1> SUFFICES ASSUME NEW s \in p + 1 .. q - 1, s \in Starts PROVE FALSE
  OBVIOUS
<1>1. End \in Nat
  BY Positions
<1>2. p \in Int /\ s \in Int /\ q \in Int /\ p \in 1 .. s - 1
  BY <1>1
<1>3. PICK c \in p + 1 .. s - 1 : At(c) = ","
  BY <1>2 DEF Starts, Open
<1>4. c \in p + 1 .. q - 1
  BY <1>2
<1> QED BY <1>3, <1>4 DEF NoComma

\* NextField passes one value, up to where the next may start.
LEMMA NextFieldIs ==
    ASSUME text \in Seq(Class), NEW p \in 1 .. End - 1, At(p) \notin Separator
    PROVE  /\ NextField(p) \in p + 1 .. End
           /\ \A s \in p + 1 .. NextField(p) - 1 : s \notin Starts
           /\ NextField(p) = End \/ Open(NextField(p))
<1> DEFINE comma == Span(p, Class \ {","})
<1>1. /\ End \in Nat /\ p \in 1 .. End /\ p \in Nat
      /\ \A q \in 1 .. End - 1 : At(q) \in Class
      /\ At(End) = "end" /\ "end" \notin Class
  BY Positions
<1>2. /\ comma \in p .. End /\ At(comma) \notin Class \ {","}
      /\ \A q \in p .. comma - 1 : At(q) \in Class \ {","}
  BY <1>1, SpanIs
<1>3. NextField(p) = IF comma < End THEN comma + 1 ELSE comma
  BY DEF NextField
<1> HIDE DEF comma
<1>4. At(p) # "," /\ p # comma
  <2>1. At(p) # "," /\ At(p) \in Class
    BY <1>1 DEF Separator
  <2> QED BY <1>2, <2>1
<1>5. comma \in p + 1 .. End
  <2>1. comma \in p .. End /\ comma # p
    BY <1>2, <1>4
  <2> QED BY <1>1, <2>1
<1>6. \A s \in p + 1 .. comma - 1 : s \notin Starts
  <2>1. \A q \in p + 1 .. comma - 1 : q \in p .. comma - 1
    BY <1>1, <1>5
  <2>2. NoComma(p, comma)
    BY <1>2, <2>1 DEF NoComma
  <2>3. comma \in p .. End
    BY <1>2
  <2> QED BY <2>2, <2>3, NoStartWithin
<1>7. CASE comma < End
  <2>1. At(comma) = ","
    <3>1. comma \in 1 .. End - 1
      BY <1>1, <1>5, <1>7
    <3> QED BY <1>1, <1>2, <3>1
  <2>2. comma \notin Starts
    BY <2>1 DEF Starts, Separator
  <2>3. NextField(p) = comma + 1 /\ comma + 1 \in p + 1 .. End
    BY <1>1, <1>3, <1>5, <1>7
  <2>4. Open(comma + 1)
    <3> DEFINE n == comma + 1
    <3>1. /\ n \in Int /\ comma \in 1 .. n - 1
          /\ \A q \in 1 .. n - 1 : q = comma \/ comma \in q + 1 .. n - 1
      BY <1>1, <1>5
    <3> HIDE DEF n
    <3>2. \A q \in 1 .. n - 1 : At(q) \notin Separator => \E c \in q + 1 .. n - 1 : At(c) = ","
      BY <2>1, <3>1 DEF Separator
    <3>3. Open(n)
      BY <3>2 DEF Open
    <3> QED BY <3>3 DEF n
  <2>5. \A s \in p + 1 .. NextField(p) - 1 : s = comma \/ s \in p + 1 .. comma - 1
    BY <1>1, <1>5, <2>3
  <2>6. \A s \in p + 1 .. NextField(p) - 1 : s \notin Starts
    BY <1>6, <2>2, <2>5
  <2> QED BY <2>3, <2>4, <2>6
<1>8. CASE comma = End
  BY <1>1, <1>3, <1>5, <1>6, <1>8
<1> QED BY <1>1, <1>5, <1>7, <1>8

\* Separators alone keep a position open, and none is a start.
LEMMA SkipSeparators ==
    ASSUME text \in Seq(Class), NEW p \in 1 .. End
    PROVE  /\ After(p) \in p .. End /\ At(After(p)) \notin Separator
           /\ \A s \in p .. After(p) - 1 : At(s) \in Separator /\ s \notin Starts
           /\ \A s \in p + 1 .. After(p) - 1 : s \notin Starts
           /\ Open(p) => Open(After(p))
<1> DEFINE a == After(p)
<1>1. End \in Nat /\ p \in Nat
  BY Positions
<1>2. Separator \in SUBSET Class
  BY DEF Separator, Class
<1>3. a \in p .. End /\ At(a) \notin Separator /\ \A s \in p .. a - 1 : At(s) \in Separator
  BY <1>2, SpanIs DEF After
<1> HIDE DEF a
<1>4. \A s \in p .. a - 1 : At(s) \in Separator /\ s \notin Starts
  BY <1>3 DEF Starts
<1>5. ASSUME Open(p) PROVE Open(a)
  <2> SUFFICES ASSUME NEW q \in 1 .. a - 1, At(q) \notin Separator
               PROVE  \E c \in q + 1 .. a - 1 : At(c) = ","
    BY DEF Open
  <2>1. q \in 1 .. p - 1
    BY <1>1, <1>3
  <2>2. PICK c \in q + 1 .. p - 1 : At(c) = ","
    BY <1>5, <2>1 DEF Open
  <2>3. c \in q + 1 .. a - 1
    BY <1>1, <1>3
  <2> QED BY <2>2, <2>3
<1>6. \A s \in p + 1 .. a - 1 : s \in p .. a - 1
  BY <1>1, <1>3
<1> QED BY <1>3, <1>4, <1>5, <1>6 DEF a

\* What one round of pass 2 passes: one start at most, whatever the text.
LEMMA RoundPasses ==
    ASSUME text \in Seq(Class), NEW p \in 1 .. End - 1, At(p) \notin Separator
    PROVE  /\ After(ValueEnd(p)) \in p .. End
           /\ \A s \in p + 1 .. After(ValueEnd(p)) - 1 : s \notin Starts
           /\ ValueEnd(p) = p => After(ValueEnd(p)) = p
           /\ ValueEnd(p) # p => After(ValueEnd(p)) > p
<1> DEFINE v == ValueEnd(p)
           a == After(v)
<1>1. End \in Nat /\ p \in 1 .. End /\ p \in Nat
  BY Positions
<1>2. v \in p .. End /\ \A q \in p .. v - 1 : At(q) \in Numeral
  BY ValueIs
<1>3. NoComma(p, v)
  <2> HIDE DEF v
  <2>1. \A q \in p + 1 .. v - 1 : q \in p .. v - 1
    BY <1>1, <1>2
  <2> QED BY <1>2, <2>1 DEF Numeral, NoComma
<1> HIDE DEF v
<1>4. \A s \in p + 1 .. v - 1 : s \notin Starts
  BY <1>2, <1>3, NoStartWithin
<1>5. v \in 1 .. End
  BY <1>1, <1>2
<1>6. /\ a \in v .. End /\ At(a) \notin Separator
      /\ \A s \in v .. a - 1 : At(s) \in Separator /\ s \notin Starts
  BY <1>5, SkipSeparators
<1> HIDE DEF a
<1>7. \A s \in p + 1 .. a - 1 : s \in p + 1 .. v - 1 \/ s \in v .. a - 1
  BY <1>1, <1>2, <1>6
<1>8. \A s \in p + 1 .. a - 1 : s \notin Starts
  BY <1>4, <1>6, <1>7
<1>9. a \in p .. End /\ (v # p => a > p)
  BY <1>1, <1>2, <1>6
<1>10. v = p => a = p
  <2>1. v = p /\ a # p => p \in v .. a - 1
    BY <1>1, <1>6
  <2> QED BY <1>6, <2>1
<1> QED BY <1>8, <1>9, <1>10 DEF a, v

----------------------------------------------------------------------------
(* Lists of numbers.                                                       *)

\* In a list of numbers the value at each start is a whole number, and the
\* next position pass 2 stops at is open again.
LEMMA NumberPassed ==
    ASSUME text \in Seq(Class), NumberList, NEW p \in Starts
    PROVE  /\ ValueEnd(p) # p
           /\ After(ValueEnd(p)) = End \/ Open(After(ValueEnd(p)))
           /\ StartsNumber(p)
<1> DEFINE Commas == {r \in 1 .. End - 1 : At(r) = ","}
           Blanks == {r \in Int : At(r) = " "}
           Solid == {r \in Int : At(r) \notin Separator}
<1>1. /\ End \in Nat \ {0} /\ Len(text) = End - 1
      /\ \A r \in 1 .. End - 1 : At(r) = text[r]
      /\ At(End) = "end"
  BY Positions DEF End
<1>2. p \in 1 .. End - 1 /\ At(p) \notin Separator /\ Open(p)
  BY DEF Starts
<1>3. Fields = {0, End} \cup Commas /\ Commas \in SUBSET (1 .. End - 1)
  BY <1>1 DEF Fields
<1>4. /\ p \in Solid /\ Solid \in SUBSET Int
      /\ \A r \in Commas \cup Blanks : r \notin Solid
  <2>1. p \in Int /\ At(p) \notin Separator
    BY <1>2
  <2>2. \A x : x = "," \/ x = " " <=> x \in Separator
    BY DEF Separator
  <2> QED BY <2>1, <2>2
<1>5. \A r \in Solid : r \in 1 .. p - 1 => \E c \in Commas : r < c /\ c < p
  <2> SUFFICES ASSUME NEW r \in 1 .. p - 1, At(r) \notin Separator
               PROVE  \E c \in Commas : r < c /\ c < p
    OBVIOUS
  <2>1. PICK c \in r + 1 .. p - 1 : At(c) = ","
    BY <1>2 DEF Open
  <2>2. c \in 1 .. End - 1 /\ r < c /\ c < p
    BY <1>1, <1>2
  <2> QED BY <2>1, <2>2
<1> HIDE DEF Commas, Blanks, Solid
<1>6. /\ p \in Nat /\ p < End /\ p >= 1 /\ End \in Nat
      /\ Fields \in SUBSET (0 .. End) /\ p \notin Fields
  BY <1>1, <1>2, <1>3, <1>4
<1>7. PICK a \in Fields : a < p /\ \A c \in Fields : c < p => c <= a
  <2> DEFINE S == {f \in Fields : f < p}
  <2>1. \A x \in S : x \in Nat /\ x <= p
    BY <1>6
  <2>2. 0 \in S
    BY <1>3, <1>6
  <2> HIDE DEF S
  <2>3. PICK m \in S : \A y \in S : y <= m
    BY <1>6, <2>1, <2>2, Greatest
  <2> QED BY <2>3 DEF S
<1>8. PICK b \in Fields : p < b /\ \A c \in Fields : p < c => b <= c
  <2> DEFINE S == {f \in Fields : p < f}
  <2>1. \A x \in S : x \in Nat
    BY <1>6
  <2>2. End \in S
    BY <1>3, <1>6
  <2> HIDE DEF S
  <2>3. Min(S) \in S /\ \A y \in S : Min(S) <= y
    BY <2>1, <2>2, MinIsLeast
  <2> QED BY <2>3 DEF S
<1>9. a \in Nat /\ b \in Nat /\ b <= End
  BY <1>6
<1>10. \A c \in Fields : ~ (a < c /\ c < b)
  <2> SUFFICES ASSUME NEW c \in Fields, a < c, c < b PROVE FALSE
    OBVIOUS
  <2>1. c \in Nat /\ c # p
    BY <1>6
  <2>2. ~ (c < p) /\ ~ (p < c)
    BY <1>7, <1>8, <1>9, <2>1
  <2> QED BY <1>6, <2>1, <2>2
<1>11. PICK p1 \in a + 1 .. b, q1 \in a + 1 .. b :
          Number(p1, q1, Zeroed) /\ \A r \in (a + 1 .. p1 - 1) \cup (q1 .. b - 1) : At(r) = " "
  <2>1. a < b
    BY <1>6, <1>7, <1>8, <1>9
  <2> QED BY <1>10, <2>1 DEF NumberList, ListOf, Zeroed
<1>12. \A r \in Int : (a < r /\ r < p1) \/ (q1 <= r /\ r < b) => r \in Blanks
  <2>1. \A r \in Int : (a < r /\ r < p1) \/ (q1 <= r /\ r < b) =>
           r \in (a + 1 .. p1 - 1) \cup (q1 .. b - 1)
    BY <1>9
  <2> QED BY <1>11, <2>1 DEF Blanks
<1>13. /\ p1 \in Nat /\ q1 \in Nat /\ p1 < q1 /\ p1 \in 1 .. End - 1 /\ q1 \in p1 .. End
       /\ a < p1 /\ q1 <= b
  <2>1. p1 \in Nat /\ q1 \in Nat /\ 1 <= p1 /\ q1 <= End /\ a < p1 /\ q1 <= b
    BY <1>6, <1>9
  <2>2. \E d \in {p1, p1 + 1} : d < q1
    BY <1>11 DEF Number
  <2>3. p1 < q1
    BY <2>1, <2>2
  <2> QED BY <1>6, <2>1, <2>3
<1>14. At(q1) \notin Numeral
  <2>1. CASE q1 \in Blanks
    BY <2>1 DEF Blanks, Numeral
  <2>2. CASE q1 \in Commas
    BY <2>2 DEF Commas, Numeral
  <2>3. CASE q1 = End
    BY <1>1, <2>3 DEF Numeral
  <2>4. q1 \in Blanks \/ q1 = b
    BY <1>9, <1>12, <1>13
  <2>5. b = End \/ b \in Commas
    BY <1>3, <1>6, <1>8
  <2> QED BY <2>1, <2>2, <2>3, <2>4, <2>5
<1>15. ValueEnd(p1) = q1 /\ At(p1) \in Numeral
  <2>1. Number(p1, q1, Zeroed)
    BY <1>11
  <2> QED BY <1>13, <1>14, <2>1, NumberRead
<1>16. p = p1
  <2>1. p1 \in Solid
    <3>1. \A x \in Numeral : x \notin Separator
      BY DEF Numeral, Separator
    <3> QED BY <1>13, <1>15, <3>1 DEF Solid
  <2>2. ~ (p < p1)
    BY <1>4, <1>6, <1>7, <1>9, <1>12, <1>13
  <2>3. ~ (p1 < p)
    <3> SUFFICES ASSUME p1 < p PROVE FALSE
      OBVIOUS
    <3>1. p1 \in 1 .. p - 1
      BY <1>6, <1>13
    <3>2. PICK c \in Commas : p1 < c /\ c < p
      BY <1>5, <2>1, <3>1
    <3>3. c \in Fields /\ c \in Nat
      BY <1>3, <1>6
    <3>4. a < c /\ c < b
      BY <1>6, <1>8, <1>9, <1>13, <3>2, <3>3
    <3> QED BY <1>10, <3>3, <3>4
  <2> QED BY <1>6, <1>13, <2>2, <2>3
<1>17. StartsNumber(p)
  <2> DEFINE d == IF At(p) = "-" THEN p + 1 ELSE p
  <2>1. /\ d < q1
        /\ \/ \A r \in d .. q1 - 1 : At(r) \in Digit
           \/ At(d) = "0"
    BY <1>11, <1>16 DEF Number, Zeroed, OctalDigit, Digit
  <2>2. d \in d .. q1 - 1
    <3>1. d \in Int
      BY <1>6
    <3> HIDE DEF d
    <3> QED BY <1>13, <2>1, <3>1
  <2>3. At(d) \in Digit
    <3> HIDE DEF d
    <3> QED BY <2>1, <2>2 DEF Digit
  <2> QED BY <2>3 DEF StartsNumber
<1> DEFINE n == After(q1)
<1>18. /\ n \in q1 .. End /\ n \notin Commas /\ n \notin Blanks
       /\ \A s \in q1 .. n - 1 : s \notin Solid
  <2>1. q1 \in 1 .. End
    BY <1>13
  <2>2. n \in q1 .. End /\ At(n) \notin Separator /\ \A s \in q1 .. n - 1 : At(s) \in Separator
    BY <2>1, SkipSeparators
  <2> HIDE DEF n
  <2> QED BY <2>2 DEF Commas, Blanks, Solid, Separator
<1> HIDE DEF n
<1>19. n = End \/ Open(n)
  <2> SUFFICES ASSUME n # End PROVE Open(n)
    OBVIOUS
  <2>1. n \in Nat /\ n < End /\ q1 <= n /\ ~ (n < b)
    BY <1>6, <1>9, <1>12, <1>13, <1>18
  <2>2. b \in Commas
    BY <1>3, <1>6, <1>8, <1>9, <2>1
  <2>3. b < n
    BY <1>9, <1>18, <2>1, <2>2
  <2>4. ASSUME NEW r \in 1 .. n - 1, r \in Solid
        PROVE  b \in r + 1 .. n - 1
    <3>1. r \in Int /\ ~ (q1 <= r)
      BY <1>13, <1>18, <2>1, <2>4
    <3> QED BY <1>9, <1>13, <2>1, <2>3, <3>1
  <2>5. \A r \in 1 .. n - 1 : At(r) \notin Separator => r \in Solid
    BY <2>1 DEF Solid
  <2>6. At(b) = ","
    BY <2>2 DEF Commas
  <2> QED BY <2>4, <2>5, <2>6 DEF Open
<1> QED BY <1>13, <1>15, <1>16, <1>17, <1>19 DEF n

----------------------------------------------------------------------------
(* The two passes.                                                         *)

\* A round of pass 2 that writes a value and does not advance: the loop never
\* leaves it.
Stuck == ptr < End /\ At(ptr) \notin Separator /\ ValueEnd(ptr) = ptr

\* What each pass has counted, told by the starts before its position.
Scan ==
    /\ phase = "count" =>
         counted = Cardinality(StartsBefore(ptr)) /\ emitted = 0 /\ (ptr = End \/ Open(ptr))
    /\ phase # "count" => counted = Cardinality(StartsBefore(End))
    /\ phase = "emit" => Stuck \/ (emitted >= Cardinality(StartsBefore(ptr)) /\ emitted < ptr)
    /\ phase = "emit" /\ NumberList =>
         emitted = Cardinality(StartsBefore(ptr)) /\ (ptr = End \/ Open(ptr))
    /\ phase = "exit" => unit # 1 /\ ~ NumberList
    /\ phase = "done" => emitted >= counted /\ (NumberList => emitted = counted)

\* What holds of every state.
ScanInv == text \in Texts /\ TypeOK /\ Scan

\* Nothing is counted before pass 1.
LEMMA InitScan == Init => ScanInv
<1> SUFFICES ASSUME Init PROVE ScanInv
  OBVIOUS
<1>1. text \in Texts /\ text \in Seq(Class) /\ Len(text) < Wrap /\ Wrap \in Nat
  BY TextsAssumption, WrapAssumption DEF Init
<1>2. End \in Nat \ {0} /\ Len(text) \in Nat
  BY <1>1, Positions
<1>3. TypeOK
  BY <1>1, <1>2 DEF Init, TypeOK
<1>4. Open(1)
  <2>1. \A q \in 1 .. 1 - 1 : FALSE
    OBVIOUS
  <2> QED BY <2>1 DEF Open
<1>5. Cardinality(StartsBefore(1)) = 0
  BY <1>1, <1>2, BeforeCounts
<1>6. Scan
  BY <1>4, <1>5 DEF Init, Scan
<1> QED BY <1>1, <1>3, <1>6 DEF ScanInv

\* Every round keeps the counts true.
LEMMA NextScan == ScanInv /\ [Next]_vars => ScanInv'
<1> SUFFICES ASSUME ScanInv, [Next]_vars PROVE ScanInv'
  OBVIOUS
<1> DEFINE N(p) == Cardinality(StartsBefore(p))
<1>1. text \in Texts /\ text \in Seq(Class) /\ TypeOK /\ Scan
  BY DEF ScanInv, TypeOK
<1>2. /\ Len(text) \in Nat /\ End = Len(text) + 1 /\ Wrap \in Nat /\ End <= Wrap
      /\ ptr \in 1 .. End /\ counted \in 0 .. Len(text) /\ emitted \in 0 .. Wrap - 1
  BY <1>1, WrapAssumption DEF TypeOK, End
<1>3. \A p \in 1 .. End : N(p) \in 0 .. p - 1
  BY <1>1, BeforeCounts
<1> HIDE DEF N
<1>4. ASSUME text' = text, unit' = unit,
             phase' \in {"count", "emit", "done", "exit"}, ptr' \in 1 .. End,
             counted' \in 0 .. Len(text), emitted' \in 0 .. Wrap - 1
      PROVE  text' \in Texts /\ TypeOK'
  BY <1>1, <1>4 DEF TypeOK, End
<1>5. ASSUME text' = text, unit' = unit
      PROVE  /\ NumberList' = NumberList
             /\ End' = End
             /\ N(ptr)' = N(ptr') /\ Open(ptr)' = Open(ptr') /\ N(End)' = N(End)
             /\ At(ptr)' = At(ptr') /\ ValueEnd(ptr)' = ValueEnd(ptr')
  <2>1. End' = End /\ \A p : At(p)' = At(p)
    BY <1>5 DEF End, At
  <2>2. NumberList' = NumberList
    BY <1>5 DEF End, NumberList, ListOf, Fields, Number, At
  <2>3. At(ptr)' = At(ptr')
    BY <1>5 DEF End, At
  <2>4. Open(ptr)' = Open(ptr')
    BY <1>5 DEF Open, At, End
  <2>5. N(ptr)' = N(ptr')
    BY <1>5 DEF N, StartsBefore, Starts, Open, At, End
  <2>6. N(End)' = N(End)
    BY <1>5 DEF N, StartsBefore, Starts, Open, At, End
  <2>7. ValueEnd(ptr)' = ValueEnd(ptr')
    BY <1>5 DEF ValueEnd, Span, StrtolEnd, At, End
  <2> QED BY <2>1, <2>2, <2>3, <2>4, <2>5, <2>6, <2>7
<1>6. N(1) = 0
  BY <1>1, <1>2, BeforeCounts DEF N
<1>7. /\ phase = "count" => counted = N(ptr) /\ emitted = 0 /\ (ptr = End \/ Open(ptr))
      /\ phase # "count" => counted = N(End)
      /\ phase = "emit" => Stuck \/ (emitted >= N(ptr) /\ emitted < ptr)
      /\ phase = "emit" /\ NumberList => emitted = N(ptr) /\ (ptr = End \/ Open(ptr))
      /\ phase = "exit" => unit # 1 /\ ~ NumberList
      /\ phase = "done" => emitted >= counted /\ (NumberList => emitted = counted)
  BY <1>1 DEF Scan, N
<1>8. ASSUME text' = text, unit' = unit,
             /\ phase' = "count" =>
                  counted' = N(ptr') /\ emitted' = 0 /\ (ptr' = End \/ Open(ptr'))
             /\ phase' # "count" => counted' = N(End)
             /\ phase' = "emit" =>
                  \/ ptr' < End /\ At(ptr') \notin Separator /\ ValueEnd(ptr') = ptr'
                  \/ emitted' >= N(ptr') /\ emitted' < ptr'
             /\ phase' = "emit" /\ NumberList =>
                  emitted' = N(ptr') /\ (ptr' = End \/ Open(ptr'))
             /\ phase' = "exit" => unit # 1 /\ ~ NumberList
             /\ phase' = "done" => emitted' >= counted' /\ (NumberList => emitted' = counted')
      PROVE  Scan'
  <2>1. /\ NumberList' = NumberList /\ End' = End
        /\ N(ptr)' = N(ptr') /\ Open(ptr)' = Open(ptr') /\ N(End)' = N(End)
        /\ At(ptr)' = At(ptr') /\ ValueEnd(ptr)' = ValueEnd(ptr')
    BY <1>5, <1>8
  <2> QED BY <1>8, <2>1 DEF Scan, Stuck, N
<1>9. \A p \in 1 .. End : \A q \in p .. End :
         (\A s \in p + 1 .. q - 1 : s \notin Starts)
            => N(q) = N(p) + (IF p \in Starts /\ p < q THEN 1 ELSE 0)
  BY <1>1, OneStart DEF N
<1>10. CASE CountValue
  <2>1. /\ phase = "count" /\ ptr < End /\ At(ptr) \notin Separator
        /\ counted' = counted + 1 /\ ptr' = NextField(ptr)
        /\ UNCHANGED <<text, unit, phase, emitted>>
    BY <1>10 DEF CountValue
  <2>2. ptr \in 1 .. End - 1 /\ ptr \in Starts
    BY <1>2, <1>7, <2>1 DEF Starts
  <2>3. /\ ptr' \in ptr + 1 .. End
        /\ \A s \in ptr + 1 .. ptr' - 1 : s \notin Starts
        /\ ptr' = End \/ Open(ptr')
    BY <1>1, <2>1, <2>2, NextFieldIs
  <2>4. ptr' \in ptr .. End /\ ptr < ptr' /\ ptr' \in 1 .. End
    BY <1>2, <2>3
  <2>5. N(ptr') = N(ptr) + 1
    BY <1>2, <1>9, <2>2, <2>3, <2>4
  <2>6. counted' = N(ptr') /\ counted' \in 0 .. Len(text)
    BY <1>2, <1>3, <1>7, <2>1, <2>4, <2>5
  <2>7. Scan'
    BY <1>7, <1>8, <2>1, <2>3, <2>6
  <2> QED BY <1>2, <1>4, <2>1, <2>4, <2>6, <2>7 DEF ScanInv
<1>11. CASE CountSkip
  <2>1. /\ phase = "count" /\ ptr < End /\ At(ptr) \in Separator /\ ptr' = ptr + 1
        /\ UNCHANGED <<text, unit, phase, counted, emitted>>
    BY <1>11 DEF CountSkip
  <2>2. ptr' \in 1 .. End /\ ptr' \in ptr .. End /\ ptr \notin Starts
    BY <1>2, <2>1 DEF Starts
  <2>3. \A s \in ptr + 1 .. ptr' - 1 : s \notin Starts
    BY <1>2, <2>1
  <2>4. N(ptr') = N(ptr)
    <3>1. N(ptr') = N(ptr) + 0
      BY <1>2, <1>9, <2>2, <2>3
    <3> QED BY <1>2, <1>3, <3>1
  <2>5. Open(ptr')
    <3>1. Open(ptr) /\ ptr \in Int
      BY <1>2, <1>7, <2>1
    <3>2. \A q \in 1 .. ptr' - 1 : q \in 1 .. ptr - 1 \/ q = ptr
      BY <2>1, <3>1
    <3>3. \A q \in 1 .. ptr - 1 : \A c \in q + 1 .. ptr - 1 : c \in q + 1 .. ptr' - 1
      BY <2>1, <3>1
    <3> QED BY <2>1, <3>1, <3>2, <3>3 DEF Open
  <2>6. Scan'
    BY <1>7, <1>8, <2>1, <2>4, <2>5
  <2> QED BY <1>1, <1>2, <1>4, <2>1, <2>2, <2>6 DEF ScanInv, TypeOK
<1>12. CASE CountEnd
  <2>1. /\ phase = "count" /\ ptr = End /\ phase' = "emit" /\ ptr' = 1
        /\ UNCHANGED <<text, unit, counted, emitted>>
    BY <1>12 DEF CountEnd
  <2>2. Open(1)
    <3>1. \A q \in 1 .. 1 - 1 : FALSE
      OBVIOUS
    <3> QED BY <3>1 DEF Open
  <2>3. Scan'
    BY <1>6, <1>7, <1>8, <2>1, <2>2
  <2>4. ptr' \in 1 .. End
    BY <1>2, <2>1
  <2> QED BY <1>2, <1>4, <2>1, <2>3, <2>4 DEF ScanInv
<1>13. CASE EmitValue
  <2>1. /\ phase = "emit" /\ ptr < End /\ At(ptr) \notin Separator
        /\ emitted' = (emitted + 1) % Wrap /\ ptr' = After(ValueEnd(ptr))
        /\ UNCHANGED <<text, unit, phase, counted>>
    BY <1>13 DEF EmitValue
  <2>2. ptr \in 1 .. End - 1
    BY <1>2, <2>1
  <2>3. /\ ptr' \in ptr .. End /\ \A s \in ptr + 1 .. ptr' - 1 : s \notin Starts
        /\ ValueEnd(ptr) = ptr => ptr' = ptr
        /\ ValueEnd(ptr) # ptr => ptr' > ptr
    BY <1>1, <2>1, <2>2, RoundPasses
  <2>4. ptr' \in 1 .. End /\ emitted' \in 0 .. Wrap - 1
    BY <1>2, <2>1, <2>3
  <2>5. N(ptr') = N(ptr) + (IF ptr \in Starts /\ ptr < ptr' THEN 1 ELSE 0)
    BY <1>2, <1>9, <2>3
  <2>6. ASSUME NumberList
        PROVE  /\ ValueEnd(ptr) # ptr /\ (ptr' = End \/ Open(ptr'))
               /\ emitted' = N(ptr')
    <3>1. ptr \in Starts /\ emitted = N(ptr)
      BY <1>7, <2>1, <2>2, <2>6 DEF Starts
    <3>2. ValueEnd(ptr) # ptr /\ (ptr' = End \/ Open(ptr'))
      BY <1>1, <2>1, <2>6, <3>1, NumberPassed
    <3>3. N(ptr') = N(ptr) + 1
      BY <1>2, <2>3, <2>5, <3>1, <3>2
    <3>4. emitted + 1 \in 0 .. Wrap - 1
      BY <1>2, <1>3, <2>2, <3>1
    <3>5. emitted' = emitted + 1
      BY <1>2, <2>1, <3>4
    <3> QED BY <3>1, <3>2, <3>3, <3>5
  <2>7. \/ ptr' < End /\ At(ptr') \notin Separator /\ ValueEnd(ptr') = ptr'
        \/ emitted' >= N(ptr') /\ emitted' < ptr'
    <3>1. CASE ValueEnd(ptr) = ptr
      BY <2>1, <2>3, <3>1
    <3>2. CASE ValueEnd(ptr) # ptr
      <4>1. emitted >= N(ptr) /\ emitted < ptr
        BY <1>7, <2>1, <3>2 DEF Stuck
      <4>2. emitted + 1 \in 0 .. Wrap - 1
        BY <1>2, <2>2, <4>1
      <4>3. emitted' = emitted + 1
        BY <1>2, <2>1, <4>2
      <4>4. N(ptr') <= N(ptr) + 1 /\ N(ptr) \in Nat /\ ptr' > ptr
        BY <1>2, <1>3, <2>3, <2>5, <3>2
      <4> QED BY <1>2, <1>3, <2>4, <4>1, <4>3, <4>4
    <3> QED BY <3>1, <3>2
  <2>8. Scan'
    BY <1>7, <1>8, <2>1, <2>6, <2>7
  <2> QED BY <1>1, <1>2, <1>4, <2>1, <2>4, <2>8 DEF ScanInv, TypeOK
<1>14. CASE EmitSkip
  <2>1. /\ phase = "emit" /\ ptr < End /\ At(ptr) \in Separator /\ ptr' = After(ptr)
        /\ UNCHANGED <<text, unit, phase, counted, emitted>>
    BY <1>14 DEF EmitSkip
  <2>2. /\ ptr' \in ptr .. End /\ \A s \in ptr .. ptr' - 1 : s \notin Starts
        /\ Open(ptr) => Open(ptr')
    BY <1>1, <1>2, <2>1, SkipSeparators
  <2>3. ptr' \in 1 .. End /\ ptr \notin Starts
    BY <1>2, <2>1, <2>2 DEF Starts
  <2>4. \A s \in ptr + 1 .. ptr' - 1 : s \notin Starts
    BY <1>1, <1>2, <2>1, SkipSeparators
  <2>5. N(ptr') = N(ptr)
    <3>1. N(ptr') = N(ptr) + 0
      BY <1>2, <1>9, <2>2, <2>3, <2>4
    <3> QED BY <1>2, <1>3, <3>1
  <2>6. emitted >= N(ptr') /\ emitted < ptr'
    BY <1>2, <1>3, <1>7, <2>1, <2>2, <2>5 DEF Stuck
  <2>7. Scan'
    BY <1>2, <1>7, <1>8, <2>1, <2>2, <2>5, <2>6
  <2> QED BY <1>1, <1>2, <1>4, <2>1, <2>3, <2>7 DEF ScanInv, TypeOK
<1>15. CASE EmitUndefined
  <2>1. /\ phase = "emit" /\ ptr < End /\ At(ptr) \notin Separator /\ ~ StartsNumber(ptr)
        /\ unit # 1
        /\ phase' = "exit" /\ UNCHANGED <<text, unit, ptr, counted, emitted>>
    BY <1>15 DEF EmitUndefined
  <2>2. ~ NumberList
    <3> SUFFICES ASSUME NumberList PROVE FALSE
      OBVIOUS
    <3>1. ptr \in Starts
      BY <1>2, <1>7, <2>1 DEF Starts
    <3> QED BY <1>1, <2>1, <3>1, NumberPassed
  <2>3. Scan'
    BY <1>7, <1>8, <2>1, <2>2
  <2> QED BY <1>1, <1>2, <1>4, <2>1, <2>3 DEF ScanInv
<1>16. CASE EmitEnd
  <2>1. /\ phase = "emit" /\ ptr = End /\ phase' = "done"
        /\ UNCHANGED <<text, unit, ptr, counted, emitted>>
    BY <1>16 DEF EmitEnd
  <2>2. emitted >= N(End) /\ (NumberList => emitted = N(End))
    BY <1>2, <1>7, <2>1 DEF Stuck
  <2>3. Scan'
    BY <1>7, <1>8, <2>1, <2>2
  <2> QED BY <1>1, <1>2, <1>4, <2>1, <2>3 DEF ScanInv
<1>17. CASE UNCHANGED vars
  <2>1. UNCHANGED <<text, unit, phase, ptr, counted, emitted>>
    BY <1>17 DEF vars
  <2>2. Scan'
    BY <1>7, <1>8, <2>1 DEF Stuck
  <2> QED BY <1>1, <1>2, <1>4, <2>1, <2>2 DEF ScanInv, TypeOK
<1> QED BY <1>10, <1>11, <1>12, <1>13, <1>14, <1>15, <1>16, <1>17 DEF Next

\* In every state of every run, the counts are those of the starts passed.
THEOREM ScanAlways == Spec => []ScanInv
BY InitScan, NextScan, PTL DEF Spec

\* Both scans stay inside the text, whatever it is, and the count stays below
\* its length.
THEOREM TypeOKAlways == Spec => []TypeOK
<1>1. ScanInv => TypeOK
  BY DEF ScanInv
<1> QED BY <1>1, ScanAlways, PTL

\* For every text that is a list of numbers, of any length, with any blanks,
\* for .byte (whose numbers are C's: no 8 or 9 after a leading 0), .half and
\* .word, process_data_directive writes as many values as process_directive
\* reserved space for.
THEOREM CountsAgreeAlways == Spec => []CountsAgree
<1>1. ScanInv => CountsAgree
  BY DEF ScanInv, Scan, CountsAgree
<1> QED BY <1>1, ScanAlways, PTL

\* For every text, process_data_directive never leaves a hole.
THEOREM NeverShortAlways == Spec => []NeverShort
<1>1. ScanInv => NeverShort
  BY DEF ScanInv, Scan, NeverShort
<1> QED BY <1>1, ScanAlways, PTL

\* No list of numbers, of any form, is taken for the name of a label and
\* rejected: the safety half of NumbersEnd.
THEOREM ListsAccepted == Spec => [](AnyNumbers => phase # "exit")
<1>1. ScanInv => (AnyNumbers => phase # "exit")
  BY DEF ScanInv, Scan, AnyNumbers, NumberList
<1> QED BY <1>1, ScanAlways, PTL

----------------------------------------------------------------------------
(***************************************************************************)
(* II. The lines of instructions (Lines).                                  *)
(***************************************************************************)

\* Texts are sequences of tokens.
Token == STRING
Text == Seq(STRING)

\* The tokens that occur in a text.
Within(s) == {s[k] : k \in 1 .. Len(s)}

\* What texts are as functions.
LEMMA TextIs ==
    ASSUME NEW s \in Text
    PROVE  /\ Len(s) \in Nat /\ DOMAIN s = 1 .. Len(s)
           /\ \A k \in 1 .. Len(s) : s[k] \in STRING
           /\ s = <<>> <=> Len(s) = 0
BY LenProperties, ElementOfSeq, EmptySeq DEF Text

\* A part of a text, from a place on to another, which may be the one before.
LEMMA SliceIs ==
    ASSUME NEW s \in Text, NEW i \in 1 .. Len(s) + 1, NEW j \in i - 1 .. Len(s)
    PROVE  /\ SubSeq(s, i, j) \in Text
           /\ Len(SubSeq(s, i, j)) = j - i + 1
           /\ \A k \in 1 .. j - i + 1 : SubSeq(s, i, j)[k] = s[i + k - 1]
           /\ Within(SubSeq(s, i, j)) \subseteq Within(s)
<1>1. Len(s) \in Nat /\ i \in Int /\ j \in Int /\ \A k \in i .. j : k \in 1 .. Len(s) /\ s[k] \in STRING
  BY TextIs
<1> DEFINE t == SubSeq(s, i, j)
<1>2. /\ t \in Seq(STRING) /\ Len(t) = (IF i <= j THEN j - i + 1 ELSE 0)
      /\ \A k \in 1 .. j - i + 1 : t[k] = s[i + k - 1]
  BY <1>1, SubSeqProperties
<1> HIDE DEF t
<1>3. Len(t) = j - i + 1
  BY <1>1, <1>2
<1>4. Within(t) \subseteq Within(s)
  <2> SUFFICES ASSUME NEW k \in 1 .. Len(t) PROVE t[k] \in Within(s)
    BY DEF Within
  <2>1. i + k - 1 \in 1 .. Len(s) /\ t[k] = s[i + k - 1]
    BY <1>1, <1>2, <1>3
  <2> QED BY <2>1 DEF Within
<1> QED BY <1>2, <1>3, <1>4 DEF Text, t

\* A text of two parts.
LEMMA JoinIs ==
    ASSUME NEW s \in Text, NEW t \in Text
    PROVE  /\ s \o t \in Text /\ Len(s \o t) = Len(s) + Len(t)
           /\ \A k \in 1 .. Len(s) : (s \o t)[k] = s[k]
           /\ \A k \in 1 .. Len(t) : (s \o t)[Len(s) + k] = t[k]
<1>1. Len(s) \in Nat /\ Len(t) \in Nat
  BY TextIs
<1> DEFINE u == s \o t
<1>2. /\ u \in Seq(STRING) /\ Len(u) = Len(s) + Len(t)
      /\ \A i \in 1 .. Len(s) + Len(t) : u[i] = IF i <= Len(s) THEN s[i] ELSE t[i - Len(s)]
  BY ConcatProperties DEF Text
<1> HIDE DEF u
<1>3. \A k \in 1 .. Len(s) : u[k] = s[k]
  BY <1>1, <1>2
<1>4. ASSUME NEW k \in 1 .. Len(t) PROVE u[Len(s) + k] = t[k]
  <2>1. /\ Len(s) + k \in 1 .. Len(s) + Len(t) /\ ~(Len(s) + k <= Len(s))
        /\ (Len(s) + k) - Len(s) = k
    BY <1>1
  <2> QED BY <1>2, <2>1
<1> QED BY <1>2, <1>3, <1>4 DEF Text, u

\* Texts with the same tokens are the same.
LEMMA SameText ==
    ASSUME NEW s \in Text, NEW t \in Text, Len(s) = Len(t),
           \A k \in 1 .. Len(s) : s[k] = t[k]
    PROVE  s = t
BY SeqEqual DEF Text

----------------------------------------------------------------------------
(* Searching.                                                              *)

\* Max is the greatest element of a bounded set of naturals.
LEMMA MaxIsGreatest ==
    ASSUME NEW S \in SUBSET Nat, S # {}, NEW n \in Nat, \A x \in S : x <= n
    PROVE  Max(S) \in S /\ \A y \in S : y <= Max(S)
<1>1. PICK m \in S : \A y \in S : y <= m
  BY Greatest
<1>2. \A y \in S : m >= y
  BY <1>1
<1>3. Max(S) \in S /\ \A y \in S : Max(S) >= y
  BY <1>2 DEF Max
<1>4. \A y \in S : y <= Max(S)
  BY <1>3
<1> QED BY <1>3, <1>4

\* strchr finds the first token of its kind, or none.
LEMMA FindIs ==
    ASSUME NEW s \in Text, NEW c
    PROVE  /\ Find(s, c) \in 0 .. Len(s)
           /\ Find(s, c) = 0 <=> c \notin Within(s)
           /\ Find(s, c) # 0 => s[Find(s, c)] = c
           /\ \A k \in 1 .. Find(s, c) - 1 : s[k] # c
<1> DEFINE I == {k \in 1 .. Len(s) : s[k] = c}
<1>1. Len(s) \in Nat /\ I \in SUBSET Nat
  BY TextIs
<1>2. Find(s, c) = IF I # {} THEN Min(I) ELSE 0
  BY DEF Find, SelectInSeq
<1>3. I = {} <=> c \notin Within(s)
  BY DEF Within
<1>4. I # {} => Min(I) \in I /\ \A k \in I : Min(I) <= k
  <2> HIDE DEF I
  <2> QED BY <1>1, MinIsLeast
<1>5. CASE I = {}
  BY <1>1, <1>2, <1>3, <1>5
<1>6. CASE I # {}
  <2> DEFINE m == Min(I)
  <2>1. Find(s, c) = m /\ m \in I /\ \A k \in I : m <= k
    BY <1>2, <1>4, <1>6
  <2> HIDE DEF m
  <2>2. m \in 1 .. Len(s) /\ s[m] = c
    BY <2>1
  <2>3. \A k \in 1 .. m - 1 : s[k] # c
    <3> SUFFICES ASSUME NEW k \in 1 .. m - 1, s[k] = c PROVE FALSE
      OBVIOUS
    <3>1. k \in I /\ ~(m <= k)
      BY <1>1, <2>2
    <3> QED BY <2>1, <3>1
  <2> QED BY <1>1, <1>3, <1>6, <2>1, <2>2, <2>3
<1> QED BY <1>5, <1>6

\* ... and where it is seen to be.
LEMMA FindAt ==
    ASSUME NEW s \in Text, NEW c, NEW p \in 1 .. Len(s), s[p] = c,
           \A k \in 1 .. p - 1 : s[k] # c
    PROVE  Find(s, c) = p
<1> DEFINE f == Find(s, c)
<1>1. /\ f \in 0 .. Len(s) /\ (f = 0 <=> c \notin Within(s)) /\ (f # 0 => s[f] = c)
      /\ \A k \in 1 .. f - 1 : s[k] # c
  BY FindIs
<1>2. c \in Within(s)
  BY DEF Within
<1> HIDE DEF f
<1>3. Len(s) \in Nat
  BY TextIs
<1>4. ~(f < p) /\ ~(p < f)
  BY <1>1, <1>2, <1>3
<1> QED BY <1>1, <1>3, <1>4 DEF f

\* Before and after the first token of a kind.
LEMMA AroundIs ==
    ASSUME NEW s \in Text, NEW c
    PROVE  /\ Before(s, c) \in Text /\ Beyond(s, c) \in Text
           /\ Within(Before(s, c)) \subseteq Within(s) /\ c \notin Within(Before(s, c))
           /\ Within(Beyond(s, c)) \subseteq Within(s)
           /\ Find(s, c) = 0 => Before(s, c) = s /\ Beyond(s, c) = <<>>
           /\ Find(s, c) # 0 =>
                /\ Len(Before(s, c)) = Find(s, c) - 1
                /\ \A k \in 1 .. Find(s, c) - 1 : Before(s, c)[k] = s[k]
                /\ Len(Beyond(s, c)) = Len(s) - Find(s, c)
                /\ \A k \in 1 .. Len(s) - Find(s, c) : Beyond(s, c)[k] = s[Find(s, c) + k]
<1> DEFINE f == Find(s, c)
           l == SubSeq(s, 1, f - 1)
           g == f + 1
           r == SubSeq(s, g, Len(s))
<1>1. /\ f \in 0 .. Len(s) /\ (f = 0 <=> c \notin Within(s)) /\ (f # 0 => s[f] = c)
      /\ \A k \in 1 .. f - 1 : s[k] # c
  BY FindIs
<1>2. Before(s, c) = (IF f = 0 THEN s ELSE l) /\ Beyond(s, c) = (IF f = 0 THEN <<>> ELSE r)
  BY DEF Before, Beyond
<1> HIDE DEF f
<1>3. Len(s) \in Nat /\ <<>> \in Text /\ Len(<<>>) = 0
  BY TextIs, EmptySeq DEF Text
<1>4. Within(<<>>) = {}
  BY <1>3 DEF Within
<1>5. CASE f = 0
  BY <1>1, <1>2, <1>3, <1>4, <1>5 DEF f
<1>6. CASE f # 0
  <2>1. /\ 1 \in 1 .. Len(s) + 1 /\ f - 1 \in 1 - 1 .. Len(s)
        /\ g \in 1 .. Len(s) + 1 /\ Len(s) \in g - 1 .. Len(s)
        /\ f - 1 - 1 + 1 = f - 1 /\ Len(s) - g + 1 = Len(s) - f
        /\ \A k \in Int : 1 + k - 1 = k /\ g + k - 1 = f + k
    BY <1>1, <1>3, <1>6
  <2> HIDE DEF g
  <2>2. /\ l \in Text /\ Len(l) = f - 1 - 1 + 1 /\ Within(l) \subseteq Within(s)
        /\ \A k \in 1 .. f - 1 - 1 + 1 : l[k] = s[1 + k - 1]
    BY <2>1, SliceIs
  <2>3. /\ r \in Text /\ Len(r) = Len(s) - g + 1 /\ Within(r) \subseteq Within(s)
        /\ \A k \in 1 .. Len(s) - g + 1 : r[k] = s[g + k - 1]
    BY <2>1, SliceIs
  <2> HIDE DEF l, r
  <2>4. /\ Len(l) = f - 1 /\ \A k \in 1 .. f - 1 : l[k] = s[k]
    BY <1>1, <1>3, <2>1, <2>2
  <2>5. /\ Len(r) = Len(s) - f /\ \A k \in 1 .. Len(s) - f : r[k] = s[f + k]
    <3>1. Len(r) = Len(s) - f /\ \A k \in 1 .. Len(s) - f : r[k] = s[g + k - 1]
      BY <2>1, <2>3
    <3>2. \A k \in 1 .. Len(s) - f : s[g + k - 1] = s[f + k]
      <4> TAKE k \in 1 .. Len(s) - f
      <4>1. k \in Int
        OBVIOUS
      <4>2. g + k - 1 = f + k
        BY <2>1, <4>1
      <4> QED BY <4>2
    <3> QED BY <3>1, <3>2
  <2>6. c \notin Within(l)
    BY <1>1, <2>4 DEF Within
  <2>7. Before(s, c) = l /\ Beyond(s, c) = r
    BY <1>2, <1>6 DEF g, l, r
  <2> QED BY <1>6, <2>2, <2>3, <2>4, <2>5, <2>6, <2>7 DEF f
<1> QED BY <1>5, <1>6

----------------------------------------------------------------------------
(* Trimming.                                                               *)

\* Where the leading space of a text ends.
LEMMA LeadIs ==
    ASSUME NEW s \in Text
    PROVE  LET k == SelectInSeq(s, LAMBDA t : t \notin Space)
           IN  /\ k \in 0 .. Len(s)
               /\ k = 0 <=> \A n \in 1 .. Len(s) : s[n] \in Space
               /\ k # 0 => s[k] \notin Space
               /\ \A n \in 1 .. k - 1 : s[n] \in Space
<1> DEFINE I == {n \in 1 .. Len(s) : s[n] \notin Space}
           k == SelectInSeq(s, LAMBDA t : t \notin Space)
<1>1. Len(s) \in Nat /\ I \in SUBSET Nat
  BY TextIs
<1>2. k = IF I # {} THEN Min(I) ELSE 0
  BY DEF SelectInSeq
<1>3. \A n \in 1 .. Len(s) : n \in I <=> s[n] \notin Space
  OBVIOUS
<1>4. I \subseteq 1 .. Len(s)
  OBVIOUS
<1> SUFFICES /\ k \in 0 .. Len(s)
             /\ k = 0 <=> \A n \in 1 .. Len(s) : s[n] \in Space
             /\ k # 0 => s[k] \notin Space
             /\ \A n \in 1 .. k - 1 : s[n] \in Space
  OBVIOUS
<1> HIDE DEF k, I
<1>5. CASE I = {}
  BY <1>1, <1>2, <1>3, <1>5
<1>6. CASE I # {}
  <2>1. k \in I /\ \A n \in I : k <= n
    BY <1>1, <1>2, <1>6, MinIsLeast
  <2>2. k \in 1 .. Len(s) /\ s[k] \notin Space
    BY <1>3, <1>4, <2>1
  <2>3. \A n \in 1 .. k - 1 : n \in 1 .. Len(s) /\ ~(k <= n)
    BY <1>1, <2>2
  <2>4. \A n \in 1 .. k - 1 : s[n] \in Space
    BY <1>3, <2>1, <2>3
  <2> QED BY <1>1, <2>2, <2>4
<1> QED BY <1>5, <1>6

\* Where its trailing space begins.
LEMMA LastIs ==
    ASSUME NEW s \in Text
    PROVE  LET k == SelectLastInSeq(s, LAMBDA t : t \notin Space)
           IN  /\ k \in 0 .. Len(s)
               /\ k # 0 => s[k] \notin Space
               /\ \A n \in 1 .. Len(s) : s[n] \notin Space => n <= k
<1> DEFINE I == {n \in 1 .. Len(s) : s[n] \notin Space}
           k == SelectLastInSeq(s, LAMBDA t : t \notin Space)
<1>1. Len(s) \in Nat /\ I \in SUBSET Nat
  BY TextIs
<1>2. k = IF I # {} THEN Max(I) ELSE 0
  BY DEF SelectLastInSeq
<1>3. \A n \in 1 .. Len(s) : n \in I <=> s[n] \notin Space
  OBVIOUS
<1>4. I \subseteq 1 .. Len(s)
  OBVIOUS
<1> SUFFICES /\ k \in 0 .. Len(s)
             /\ k # 0 => s[k] \notin Space
             /\ \A n \in 1 .. Len(s) : s[n] \notin Space => n <= k
  OBVIOUS
<1> HIDE DEF k, I
<1>5. CASE I = {}
  BY <1>1, <1>2, <1>3, <1>5
<1>6. CASE I # {}
  <2>0. \A n \in I : n <= Len(s)
    BY <1>1, <1>4
  <2>1. k \in I /\ \A n \in I : n <= k
    BY <1>1, <1>2, <1>6, <2>0, MaxIsGreatest
  <2> QED BY <1>1, <1>3, <1>4, <2>1
<1> QED BY <1>5, <1>6

\* The first space of a text.
LEMMA SpaceIs ==
    ASSUME NEW b \in Text
    PROVE  LET k == SelectInSeq(b, LAMBDA t : t \in Space)
           IN  /\ k \in 0 .. Len(b)
               /\ k = 0 => \A n \in 1 .. Len(b) : b[n] \notin Space
               /\ k # 0 => b[k] \in Space
               /\ \A n \in 1 .. k - 1 : b[n] \notin Space
<1> DEFINE I == {n \in 1 .. Len(b) : b[n] \in Space}
           k == SelectInSeq(b, LAMBDA t : t \in Space)
<1>1. Len(b) \in Nat /\ I \in SUBSET Nat
  BY TextIs
<1>2. k = IF I # {} THEN Min(I) ELSE 0
  BY DEF SelectInSeq
<1>3. (\A n \in 1 .. Len(b) : n \in I <=> b[n] \in Space) /\ I \subseteq 1 .. Len(b)
  OBVIOUS
<1> SUFFICES /\ k \in 0 .. Len(b)
             /\ k = 0 => \A n \in 1 .. Len(b) : b[n] \notin Space
             /\ k # 0 => b[k] \in Space
             /\ \A n \in 1 .. k - 1 : b[n] \notin Space
  OBVIOUS
<1> HIDE DEF k, I
<1>4. CASE I = {}
  BY <1>1, <1>2, <1>3, <1>4
<1>5. CASE I # {}
  <2>1. k \in I /\ \A n \in I : k <= n
    BY <1>1, <1>2, <1>5, MinIsLeast
  <2>2. k \in 1 .. Len(b) /\ b[k] \in Space
    BY <1>3, <2>1
  <2>3. \A n \in 1 .. k - 1 : n \in 1 .. Len(b) /\ ~(k <= n)
    BY <1>1, <2>2
  <2>4. \A n \in 1 .. k - 1 : b[n] \notin Space
    BY <1>3, <2>1, <2>3
  <2> QED BY <1>1, <2>2, <2>4
<1> QED BY <1>4, <1>5

\* A text that does not start, or end, with space.
LeftTight(s) == s = <<>> \/ s[1] \notin Space
RightTight(s) == s = <<>> \/ s[Len(s)] \notin Space

\* What is cut off at the left: space, and only space.
LEMMA TrimLeftIs ==
    ASSUME NEW s \in Text
    PROVE  /\ TrimLeft(s) \in Text /\ Within(TrimLeft(s)) \subseteq Within(s)
           /\ LeftTight(TrimLeft(s))
           /\ TrimLeft(s) = <<>> <=> \A n \in 1 .. Len(s) : s[n] \in Space
           /\ LeftTight(s) => TrimLeft(s) = s
           /\ RightTight(s) => RightTight(TrimLeft(s))
           /\ \A p \in 1 .. Len(s) :
                (s[p] \notin Space /\ \A n \in 1 .. p - 1 : s[n] \in Space) =>
                    TrimLeft(s) = SubSeq(s, p, Len(s)) /\ TrimLeft(s)[1] = s[p]
<1> DEFINE k == SelectInSeq(s, LAMBDA t : t \notin Space)
           r == SubSeq(s, k, Len(s))
<1>1. /\ k \in 0 .. Len(s)
      /\ k = 0 <=> \A n \in 1 .. Len(s) : s[n] \in Space
      /\ k # 0 => s[k] \notin Space
      /\ \A n \in 1 .. k - 1 : s[n] \in Space
  BY LeadIs
<1>2. TrimLeft(s) = IF k = 0 THEN <<>> ELSE r
  BY DEF TrimLeft
<1>3. Len(s) \in Nat /\ <<>> \in Text /\ Len(<<>>) = 0 /\ (s = <<>> <=> Len(s) = 0)
  BY TextIs, EmptySeq DEF Text
<1>4. Within(<<>>) = {}
  BY <1>3 DEF Within
<1> HIDE DEF k
<1>5. CASE k = 0
  <2>1. TrimLeft(s) = <<>> /\ \A n \in 1 .. Len(s) : s[n] \in Space
    BY <1>1, <1>2, <1>5
  <2>2. LeftTight(s) => s = <<>>
    <3> SUFFICES ASSUME s # <<>> PROVE s[1] \in Space
      BY DEF LeftTight
    <3> QED BY <1>3, <2>1
  <2>3. LeftTight(<<>>) /\ RightTight(<<>>)
    BY DEF LeftTight, RightTight
  <2> QED BY <1>3, <1>4, <2>1, <2>2, <2>3
<1>6. CASE k # 0
  <2>1. /\ k \in 1 .. Len(s) + 1 /\ Len(s) \in k - 1 .. Len(s) /\ 1 \in 1 .. Len(s) - k + 1
        /\ k + 1 - 1 = k /\ Len(s) - k + 1 \in 1 .. Len(s)
        /\ k + (Len(s) - k + 1) - 1 = Len(s)
    BY <1>1, <1>3, <1>6
  <2>2. /\ r \in Text /\ Len(r) = Len(s) - k + 1 /\ Within(r) \subseteq Within(s)
        /\ \A n \in 1 .. Len(s) - k + 1 : r[n] = s[k + n - 1]
    BY <2>1, SliceIs
  <2> HIDE DEF r
  <2>3. r # <<>> /\ r[1] = s[k] /\ s[k] \notin Space /\ r[Len(r)] = s[Len(s)] /\ s # <<>>
    <3>1. r # <<>> /\ s # <<>>
      BY <1>1, <1>3, <1>6, <2>1, <2>2, TextIs
    <3>2. r[1] = s[k]
      BY <2>1, <2>2
    <3>3. Len(r) \in 1 .. Len(s) - k + 1
      BY <2>1, <2>2
    <3>4. r[Len(r)] = s[k + Len(r) - 1]
      BY <2>2, <3>3
    <3> QED BY <1>1, <1>6, <2>1, <2>2, <3>1, <3>2, <3>4
  <2>4. TrimLeft(s) = r
    BY <1>2, <1>6
  <2>5. ASSUME NEW p \in 1 .. Len(s), s[p] \notin Space, \A n \in 1 .. p - 1 : s[n] \in Space
        PROVE  p = k
    <3>1. ~(k < p) /\ ~(p < k)
      BY <1>1, <1>3, <1>6, <2>3, <2>5
    <3> QED BY <1>1, <1>3, <3>1
  <2>6. LeftTight(s) => r = s
    <3> SUFFICES ASSUME s[1] \notin Space PROVE r = s
      BY <2>3 DEF LeftTight
    <3>1. 1 = k
      BY <1>3, <2>3, <2>5
    <3>2. Len(r) = Len(s) /\ \A n \in 1 .. Len(r) : r[n] = s[n]
      BY <1>3, <2>2, <3>1
    <3> QED BY <2>2, <3>2, SameText
  <2>7. LeftTight(r) /\ (RightTight(s) => RightTight(r))
    BY <2>3 DEF LeftTight, RightTight
  <2>8. \A p \in 1 .. Len(s) :
          (s[p] \notin Space /\ \A n \in 1 .. p - 1 : s[n] \in Space) =>
              r = SubSeq(s, p, Len(s)) /\ r[1] = s[p]
    BY <2>3, <2>5 DEF r
  <2>9. (\A n \in 1 .. Len(s) : s[n] \in Space) = (r = <<>>)
    BY <1>1, <1>6, <2>3
  <2> QED BY <2>2, <2>3, <2>4, <2>6, <2>7, <2>8, <2>9
<1> QED BY <1>5, <1>6

\* ... and at the right.
LEMMA TrimRightIs ==
    ASSUME NEW s \in Text
    PROVE  /\ TrimRight(s) \in Text /\ Within(TrimRight(s)) \subseteq Within(s)
           /\ RightTight(TrimRight(s))
           /\ RightTight(s) => TrimRight(s) = s
           /\ Len(TrimRight(s)) <= Len(s)
           /\ \A n \in 1 .. Len(TrimRight(s)) : TrimRight(s)[n] = s[n]
           /\ \A n \in 1 .. Len(s) : s[n] \notin Space => n <= Len(TrimRight(s))
<1> DEFINE k == SelectLastInSeq(s, LAMBDA t : t \notin Space)
           r == SubSeq(s, 1, k)
<1>1. /\ k \in 0 .. Len(s)
      /\ k # 0 => s[k] \notin Space
      /\ \A n \in 1 .. Len(s) : s[n] \notin Space => n <= k
  BY LastIs
<1>2. TrimRight(s) = r
  BY DEF TrimRight
<1>3. Len(s) \in Nat /\ (s = <<>> <=> Len(s) = 0)
  BY TextIs
<1> HIDE DEF k
<1>4. /\ 1 \in 1 .. Len(s) + 1 /\ k \in 1 - 1 .. Len(s) /\ k - 1 + 1 = k
      /\ \A n \in 1 .. k : 1 + n - 1 = n
  BY <1>1, <1>3
<1>5. /\ r \in Text /\ Len(r) = k /\ Within(r) \subseteq Within(s)
      /\ \A n \in 1 .. k : r[n] = s[n]
  BY <1>4, SliceIs
<1> HIDE DEF r
<1>6. r = <<>> <=> k = 0
  BY <1>5, TextIs
<1>7. RightTight(r)
  <2> SUFFICES ASSUME k # 0 PROVE r[Len(r)] \notin Space
    BY <1>6 DEF RightTight
  <2> QED BY <1>1, <1>5
<1>8. RightTight(s) => r = s
  <2>1. CASE s = <<>>
    BY <1>1, <1>3, <1>6, <2>1
  <2>2. CASE s # <<>> /\ s[Len(s)] \notin Space
    <3>1. k = Len(s)
      BY <1>1, <1>3, <2>2
    <3> QED BY <1>5, <3>1, SameText
  <2> QED BY <2>1, <2>2 DEF RightTight
<1> QED BY <1>1, <1>2, <1>3, <1>5, <1>7, <1>8

LEMMA TightIs ==
    ASSUME NEW s
    PROVE  Tight(s) <=> LeftTight(s) /\ RightTight(s)
BY DEF Tight, LeftTight, RightTight

\* What trim returns.
LEMMA TrimIs ==
    ASSUME NEW s \in Text
    PROVE  /\ Trim(s) \in Text /\ Within(Trim(s)) \subseteq Within(s) /\ Tight(Trim(s))
           /\ Tight(s) => Trim(s) = s
           /\ RightTight(s) => Trim(s) = TrimLeft(s)
           /\ \A p \in 1 .. Len(s) :
                (s[p] \notin Space /\ \A n \in 1 .. p - 1 : s[n] \in Space) =>
                    Trim(s) # <<>> /\ Trim(s)[1] = s[p]
<1> DEFINE r == TrimRight(s)
<1>1. /\ r \in Text /\ Within(r) \subseteq Within(s)
      /\ RightTight(r) /\ (RightTight(s) => r = s) /\ Len(r) <= Len(s)
      /\ \A n \in 1 .. Len(r) : r[n] = s[n]
      /\ \A n \in 1 .. Len(s) : s[n] \notin Space => n <= Len(r)
  BY TrimRightIs
<1>2. Trim(s) = TrimLeft(r)
  BY DEF Trim
<1> HIDE DEF r
<1>3. /\ TrimLeft(r) \in Text /\ Within(TrimLeft(r)) \subseteq Within(r)
      /\ LeftTight(TrimLeft(r)) /\ (LeftTight(r) => TrimLeft(r) = r)
      /\ RightTight(TrimLeft(r))
      /\ TrimLeft(r) = <<>> <=> \A n \in 1 .. Len(r) : r[n] \in Space
      /\ \A p \in 1 .. Len(r) :
           (r[p] \notin Space /\ \A n \in 1 .. p - 1 : r[n] \in Space) =>
               TrimLeft(r) = SubSeq(r, p, Len(r)) /\ TrimLeft(r)[1] = r[p]
  BY <1>1, TrimLeftIs
<1>4. Tight(s) => Trim(s) = s
  BY <1>1, <1>2, <1>3, TightIs
<1>5. ASSUME NEW p \in 1 .. Len(s), s[p] \notin Space, \A n \in 1 .. p - 1 : s[n] \in Space
      PROVE  Trim(s) # <<>> /\ Trim(s)[1] = s[p]
  <2>1. p \in 1 .. Len(r) /\ \A n \in 1 .. p - 1 : n \in 1 .. Len(r)
    BY <1>1, <1>5, TextIs
  <2>2. r[p] = s[p] /\ \A n \in 1 .. p - 1 : r[n] \in Space
    BY <1>1, <1>5, <2>1
  <2> QED BY <1>2, <1>3, <1>5, <2>1, <2>2
<1>6. Tight(Trim(s))
  BY <1>2, <1>3, TightIs
<1> QED BY <1>1, <1>2, <1>3, <1>4, <1>5, <1>6

\* Trimmed in place, a text that starts with no space loses what it ends with.
LEMMA InPlaceIs ==
    ASSUME NEW s \in Text, LeftTight(s)
    PROVE  LET t == IF s = Unset \/ TrimLeft(s) = <<>> THEN s ELSE TrimRight(s)
           IN  /\ t \in Text /\ Tight(t)
               /\ Tight(s) => t = s
               /\ t # <<>> => s # <<>> /\ t[1] = s[1]
<1> DEFINE r == TrimRight(s)
           t == IF s = Unset \/ TrimLeft(s) = <<>> THEN s ELSE r
<1>1. s # Unset
  BY UnsetAssumption DEF Text
<1>2. TrimLeft(s) = s
  BY TrimLeftIs
<1>3. t = IF s = <<>> THEN s ELSE r
  BY <1>1, <1>2
<1>4. /\ r \in Text /\ RightTight(r) /\ (RightTight(s) => r = s) /\ Len(r) <= Len(s)
      /\ \A n \in 1 .. Len(r) : r[n] = s[n]
  BY TrimRightIs
<1> SUFFICES /\ t \in Text /\ Tight(t) /\ (Tight(s) => t = s)
             /\ t # <<>> => s # <<>> /\ t[1] = s[1]
  OBVIOUS
<1> HIDE DEF r, t
<1>5. CASE s = <<>>
  BY <1>3, <1>5 DEF Tight
<1>6. CASE s # <<>>
  <2>1. t = r
    BY <1>3, <1>6
  <2>2. r # <<>> => r[1] = s[1]
    <3>1. r # <<>> => 1 \in 1 .. Len(r)
      BY <1>4, TextIs
    <3> QED BY <1>4, <3>1
  <2>3. LeftTight(r)
    BY <1>6, <2>2 DEF LeftTight
  <2> QED BY <1>4, <1>6, <2>1, <2>2, <2>3, TightIs
<1> QED BY <1>5, <1>6

\* The parts of a text around a token are tight where the text is.
LEMMA AroundTight ==
    ASSUME NEW s \in Text, NEW c
    PROVE  /\ LeftTight(s) => LeftTight(Before(s, c))
           /\ RightTight(s) => RightTight(Beyond(s, c))
<1> DEFINE f == Find(s, c)
           l == Before(s, c)
           r == Beyond(s, c)
<1>1. /\ l \in Text /\ r \in Text
      /\ f = 0 => l = s /\ r = <<>>
      /\ f # 0 => /\ Len(l) = f - 1 /\ \A k \in 1 .. f - 1 : l[k] = s[k]
                  /\ Len(r) = Len(s) - f /\ \A k \in 1 .. Len(s) - f : r[k] = s[f + k]
  BY AroundIs
<1>2. f \in 0 .. Len(s)
  BY FindIs
<1> HIDE DEF f, l, r
<1>3. Len(s) \in Nat /\ (s = <<>> <=> Len(s) = 0) /\ (l = <<>> <=> Len(l) = 0)
      /\ (r = <<>> <=> Len(r) = 0)
  BY <1>1, TextIs
<1>4. CASE f = 0
  BY <1>1, <1>4 DEF RightTight, l, r
<1>5. CASE f # 0
  <2>1. ASSUME LeftTight(s), l # <<>> PROVE l[1] \notin Space
    <3>1. 1 \in 1 .. f - 1 /\ s # <<>>
      BY <1>1, <1>2, <1>3, <1>5, <2>1
    <3> QED BY <1>1, <1>5, <2>1, <3>1 DEF LeftTight
  <2>2. ASSUME RightTight(s), r # <<>> PROVE r[Len(r)] \notin Space
    <3>1. Len(r) \in 1 .. Len(s) - f /\ f + Len(r) = Len(s) /\ s # <<>>
      BY <1>1, <1>2, <1>3, <1>5, <2>2
    <3> QED BY <1>1, <1>5, <2>2, <3>1 DEF RightTight
  <2> QED BY <2>1, <2>2 DEF LeftTight, RightTight, l, r
<1> QED BY <1>4, <1>5

----------------------------------------------------------------------------
(* What the passes take from a line.                                       *)

LEMMA EmptyText == <<>> \in Text /\ Len(<<>>) = 0 /\ Tight(<<>>) /\ Within(<<>>) = {}
<1>1. <<>> \in Text /\ Len(<<>>) = 0
  BY EmptySeq DEF Text
<1> QED BY <1>1 DEF Tight, Within

LEMMA OneElement == ASSUME NEW S, NEW c \in S PROVE <<c>> \in Seq(S)
OBVIOUS

LEMMA OneToken ==
    ASSUME NEW c \in Token
    PROVE  /\ <<c>> \in Text /\ Len(<<c>>) = 1 /\ <<c>>[1] = c
           /\ Within(<<c>>) = {c}
<1> DEFINE s == <<c>>
<1>1. s \in Text
  BY OneElement DEF Text, Token
<1>2. Len(s) = 1 /\ s[1] = c
  OBVIOUS
<1> HIDE DEF s
<1>3. 1 .. Len(s) = {1}
  BY <1>2
<1>4. Within(s) = {c}
  BY <1>2, <1>3 DEF Within
<1> QED BY <1>1, <1>2, <1>4 DEF s

LEMMA ThreeOperands ==
    ASSUME NEW x \in Text, NEW y \in Text, NEW z \in Text
    PROVE  /\ <<x, y, z>> \in Operands
           /\ <<x, y, z>>[1] = x /\ <<x, y, z>>[2] = y /\ <<x, y, z>>[3] = z
BY DEF Operands, Text

\* What a line says, once its comment and its label are cut off.
LEMMA BodyIs ==
    ASSUME NEW s \in Text
    PROVE  /\ Body(s) \in Text /\ Tight(Body(s)) /\ Within(Body(s)) \subseteq Within(s)
           /\ LabelOf(s) \in Text
<1> DEFINE w == Before(s, "#")
           u == Uncommented(s)
           v == IF Find(u, ":") = 0 THEN u ELSE Beyond(u, ":")
<1>1. w \in Text /\ Within(w) \subseteq Within(s)
  BY AroundIs
<1>2. u = Trim(w)
  BY DEF Uncommented
<1> HIDE DEF w
<1>3. u \in Text /\ Tight(u) /\ Within(u) \subseteq Within(s)
  BY <1>1, <1>2, TrimIs
<1>4. Body(s) = TrimLeft(v)
      /\ LabelOf(s) = IF Find(u, ":") = 0 THEN <<>> ELSE Trim(Before(u, ":"))
  BY DEF Body, LabelOf
<1> HIDE DEF u
<1>5. v \in Text /\ Within(v) \subseteq Within(s) /\ RightTight(v)
  BY <1>3, AroundIs, AroundTight, TightIs
<1> HIDE DEF v
<1>6. TrimLeft(v) \in Text /\ Tight(TrimLeft(v)) /\ Within(TrimLeft(v)) \subseteq Within(s)
  BY <1>5, TrimLeftIs, TightIs
<1>7. Before(u, ":") \in Text
  BY <1>3, AroundIs
<1>8. LabelOf(s) \in Text
  BY <1>4, <1>7, TrimIs, EmptyText
<1> QED BY <1>4, <1>6, <1>8

\* The operation and operands of pass 1.
LEMMA Parse1Is ==
    ASSUME NEW b \in Text
    PROVE  LET p == Parse_simple_args(b)
           IN  p.op \in Text /\ p.a \in Operands /\ \A n \in 1 .. 3 : Tight(p.a[n])
<1> DEFINE k == SelectInSeq(b, LAMBDA t : t \in Space)
           args == IF k = 0 THEN <<>> ELSE TrimLeft(SubSeq(b, k, Len(b)))
           x == Trim(Before(args, ","))
           y == Trim(Beyond(args, ","))
           op == IF k = 0 THEN b ELSE SubSeq(b, 1, k - 1)
           a == <<x, y, <<>>>>
<1>1. Len(b) \in Nat
  BY TextIs
<1>2. k \in 0 .. Len(b)
  BY SpaceIs
<1>3. Parse_simple_args(b) = [op |-> op, a |-> a]
  BY DEF Parse_simple_args
<1> HIDE DEF k
<1>4. k # 0 => /\ k \in 1 .. Len(b) + 1 /\ Len(b) \in k - 1 .. Len(b)
               /\ 1 \in 1 .. Len(b) + 1 /\ k - 1 \in 1 - 1 .. Len(b)
  BY <1>1, <1>2
<1>5. k # 0 => SubSeq(b, k, Len(b)) \in Text /\ SubSeq(b, 1, k - 1) \in Text
  <2> SUFFICES ASSUME k # 0 PROVE SubSeq(b, k, Len(b)) \in Text /\ SubSeq(b, 1, k - 1) \in Text
    OBVIOUS
  <2> DEFINE g == k - 1
  <2>1. /\ k \in 1 .. Len(b) + 1 /\ Len(b) \in k - 1 .. Len(b)
        /\ 1 \in 1 .. Len(b) + 1 /\ g \in 1 - 1 .. Len(b)
    BY <1>4
  <2> HIDE DEF g
  <2>2. SubSeq(b, k, Len(b)) \in Text
    BY <2>1, SliceIs
  <2>3. SubSeq(b, 1, g) \in Text
    BY <2>1, SliceIs
  <2> QED BY <2>2, <2>3 DEF g
<1>6. args \in Text /\ op \in Text
  BY <1>5, TrimLeftIs, EmptyText
<1> HIDE DEF args, op
<1>7. Before(args, ",") \in Text /\ Beyond(args, ",") \in Text
  BY <1>6, AroundIs
<1>8. x \in Text /\ Tight(x) /\ y \in Text /\ Tight(y)
  BY <1>7, TrimIs
<1> HIDE DEF x, y
<1>9. a \in Operands /\ a[1] = x /\ a[2] = y /\ a[3] = <<>>
  BY <1>8, EmptyText, ThreeOperands
<1> HIDE DEF a
<1>10. \A n \in 1 .. 3 : Tight(a[n])
  BY <1>8, <1>9, EmptyText
<1> QED BY <1>3, <1>6, <1>9, <1>10

LEMMA NothingIs == Nothing \in Cut /\ \A n \in 1 .. 3 : Tight(Nothing.a[n])
<1>1. /\ <<<<>>, <<>>, <<>>>> \in Operands
      /\ \A n \in 1 .. 3 : <<<<>>, <<>>, <<>>>>[n] = <<>>
  BY EmptyText, ThreeOperands
<1> QED BY <1>1, EmptyText DEF Nothing, Cut, Text

LEMMA Taken1Is ==
    ASSUME NEW given \in Text
    PROVE  Taken1(given) \in Cut /\ \A n \in 1 .. 3 : Tight(Taken1(given).a[n])
<1> DEFINE s == Trim(given)
           b == Body(s)
           l == LabelOf(s)
           p == Parse_simple_args(b)
<1>1. s \in Text
  BY TrimIs
<1>2. b \in Text /\ l \in Text
  BY <1>1, BodyIs
<1>3. p.op \in Text /\ p.a \in Operands /\ \A n \in 1 .. 3 : Tight(p.a[n])
  BY <1>2, Parse1Is
<1>4. \/ Taken1(given) = Nothing
      \/ Taken1(given) = [Nothing EXCEPT !.label = l]
      \/ Taken1(given) = [label |-> l, op |-> p.op, a |-> p.a]
  BY DEF Taken1
<1> HIDE DEF l, p
<1>5. CASE Taken1(given) = Nothing
  BY <1>5, NothingIs
<1>6. CASE Taken1(given) = [Nothing EXCEPT !.label = l]
  <2>1. [Nothing EXCEPT !.label = l] \in Cut /\ [Nothing EXCEPT !.label = l].a = Nothing.a
    BY <1>2, NothingIs DEF Cut, Text
  <2> QED BY <1>6, <2>1, NothingIs
<1>7. CASE Taken1(given) = [label |-> l, op |-> p.op, a |-> p.a]
  BY <1>2, <1>3, <1>7 DEF Cut, Text
<1> QED BY <1>4, <1>5, <1>6, <1>7

\* The comma, the blank and the parenthesis.
Comma == ","
Blank == " "
Paren == "("

LEMMA TokensAre ==
    /\ Comma \in Token /\ Comma \notin Space /\ Comma # Blank
    /\ Blank \in Token /\ Blank \in Space
<1>1. Comma \in Token /\ Blank \in Token
  BY TokensAssumption, Zenon DEF Comma, Blank, Token
<1>2. Comma \notin Space /\ Comma # Blank /\ Blank \in Space
  BY DEF Comma, Blank, Space
<1> QED BY <1>1, <1>2

\* Text stays text when its parentheses are taken out, and text without any is
\* left alone.
LEMMA UnparenthesisedIs ==
    ASSUME NEW s \in Text
    PROVE  /\ Unparenthesised(s) \in Text
           /\ Paren \notin Within(s) => Unparenthesised(s) = s
<1> DEFINE open == Find(s, Paren)
           g == open + 1
           inner == SubSeq(s, g, Len(s))
           h == open - 1
           front == SubSeq(s, 1, h)
           out == front \o <<Comma>> \o Before(inner, ")") \o Beyond(inner, ")")
<1>1. /\ Len(s) \in Nat /\ open \in 0 .. Len(s)
      /\ open = 0 <=> Paren \notin Within(s)
  BY TextIs, FindIs
<1>2. Unparenthesised(s) = IF open = 0 \/ Find(inner, ")") = 0 THEN s ELSE out
  BY DEF Unparenthesised, Comma, Paren
<1>3. ASSUME open # 0 PROVE out \in Text
  <2>1. /\ g \in 1 .. Len(s) + 1 /\ Len(s) \in g - 1 .. Len(s)
        /\ 1 \in 1 .. Len(s) + 1 /\ h \in 1 - 1 .. Len(s)
    BY <1>1, <1>3
  <2> HIDE DEF g, h
  <2>2. inner \in Text /\ front \in Text
    BY <2>1, SliceIs
  <2> HIDE DEF inner, front
  <2>3. Before(inner, ")") \in Text /\ Beyond(inner, ")") \in Text /\ <<Comma>> \in Text
    <3>2. <<Comma>> \in Text
      BY TokensAre, OneToken
    <3> QED BY <2>2, <3>2, AroundIs
  <2>4. front \o <<Comma>> \in Text
    BY <2>2, <2>3, JoinIs
  <2>5. front \o <<Comma>> \o Before(inner, ")") \in Text
    BY <2>3, <2>4, JoinIs
  <2> QED BY <2>3, <2>5, JoinIs
<1> HIDE DEF open, inner, out
<1> QED BY <1>1, <1>2, <1>3

\* Operands as pass 2 takes them: text that starts with no space, the first
\* two without a comma.
Uncut(a) ==
    /\ \A n \in 1 .. 3 : a[n] \in Text /\ LeftTight(a[n])
    /\ Comma \notin Within(a[1]) /\ Comma \notin Within(a[2])

LEMMA Parse2Is ==
    ASSUME NEW s \in Text
    PROVE  LET p == Parse_instruction_args(s, <<>>)
           IN  p.op \in Text /\ p.a \in Operands /\ Uncut(p.a)
<1> DEFINE v == Beyond(s, Blank)
           args == Trim(v)
           rest == Beyond(args, Comma)
           x == Before(args, Comma)
           w == Before(rest, Comma)
           y == TrimLeft(w)
           z == Beyond(rest, Comma)
           p == Parse_instruction_args(s, <<>>)
<1>1. v \in Text /\ Before(s, Blank) \in Text
  BY AroundIs
<1>2. /\ p.op = Before(s, Blank)
      /\ \/ p.a = <<<<>>, <<>>, <<>>>>
         \/ Find(args, Comma) = 0 /\ p.a = <<args, <<>>, <<>>>>
         \/ Find(rest, Comma) = 0 /\ p.a = <<x, Trim(rest), <<>>>>
         \/ p.a = <<x, y, Trim(z)>>
  BY DEF Parse_instruction_args, Comma, Blank
<1> HIDE DEF v, p
<1>3. args \in Text /\ LeftTight(args) /\ Comma \notin Within(x) /\ x \in Text
      /\ LeftTight(x) /\ rest \in Text /\ (Find(args, Comma) = 0 => Comma \notin Within(args))
  <2>1. args \in Text /\ LeftTight(args)
    BY <1>1, TrimIs, TightIs
  <2> HIDE DEF args
  <2> QED BY <2>1, AroundIs, AroundTight, FindIs
<1> HIDE DEF args, x
<1>4. /\ w \in Text /\ Comma \notin Within(w) /\ z \in Text
      /\ Trim(rest) \in Text /\ LeftTight(Trim(rest)) /\ Within(Trim(rest)) \subseteq Within(rest)
      /\ (Find(rest, Comma) = 0 => Comma \notin Within(rest))
  BY <1>3, AroundIs, TrimIs, TightIs, FindIs
<1> HIDE DEF rest, w, z
<1>5. /\ y \in Text /\ LeftTight(y) /\ Comma \notin Within(y)
      /\ Trim(z) \in Text /\ LeftTight(Trim(z))
  BY <1>4, TrimLeftIs, TrimIs, TightIs
<1> HIDE DEF y
<1>6. LeftTight(<<>>) /\ Comma \notin Within(<<>>) /\ <<>> \in Text
  BY EmptyText, TightIs
<1>7. ASSUME NEW i \in Text, LeftTight(i), Comma \notin Within(i),
             NEW j \in Text, LeftTight(j), Comma \notin Within(j),
             NEW k \in Text, LeftTight(k), p.a = <<i, j, k>>
      PROVE  p.a \in Operands /\ Uncut(p.a)
  <2> DEFINE a == <<i, j, k>>
  <2>1. a \in Operands /\ a[1] = i /\ a[2] = j /\ a[3] = k
    BY ThreeOperands
  <2>2. p.a = a
    BY <1>7
  <2> HIDE DEF a
  <2>3. \A n \in 1 .. 3 : a[n] \in Text /\ LeftTight(a[n])
    BY <1>7, <2>1
  <2>4. Comma \notin Within(a[1]) /\ Comma \notin Within(a[2])
    BY <1>7, <2>1
  <2>5. Uncut(a)
    BY <2>3, <2>4 DEF Uncut
  <2> QED BY <2>1, <2>2, <2>5
<1>8. p.a \in Operands /\ Uncut(p.a)
  <2>1. CASE p.a = <<<<>>, <<>>, <<>>>>
    BY <1>6, <1>7, <2>1
  <2>2. CASE Find(args, Comma) = 0 /\ p.a = <<args, <<>>, <<>>>>
    BY <1>3, <1>6, <1>7, <2>2
  <2>3. CASE Find(rest, Comma) = 0 /\ p.a = <<x, Trim(rest), <<>>>>
    BY <1>3, <1>4, <1>6, <1>7, <2>3
  <2>4. CASE p.a = <<x, y, Trim(z)>>
    BY <1>3, <1>5, <1>7, <2>4
  <2> QED BY <1>2, <2>1, <2>2, <2>3, <2>4
<1> QED BY <1>1, <1>2, <1>8 DEF p

\* What trimming in place makes of them.
LEMMA TrimmedInPlaceIs ==
    ASSUME NEW p, NEW op, NEW a \in Operands, Uncut(a), p = [op |-> op, a |-> a]
    PROVE  LET q == TrimmedInPlace(p)
           IN  /\ q.op = op /\ q.a \in Operands /\ Uncut(q.a)
               /\ \A n \in 1 .. 3 :
                    /\ Tight(q.a[n])
                    /\ Tight(a[n]) => q.a[n] = a[n]
                    /\ q.a[n] # <<>> => a[n] # <<>> /\ q.a[n][1] = a[n][1]
<1> DEFINE F(n) == IF a[n] = Unset \/ TrimLeft(a[n]) = <<>> THEN a[n] ELSE TrimRight(a[n])
           q == TrimmedInPlace(p)
<1>1. q = [op |-> op, a |-> [n \in 1 .. 3 |-> F(n)]]
  BY DEF TrimmedInPlace
<1>2. ASSUME NEW n \in 1 .. 3
      PROVE  /\ F(n) \in Text /\ Tight(F(n))
             /\ Tight(a[n]) => F(n) = a[n]
             /\ F(n) # <<>> => a[n] # <<>> /\ F(n)[1] = a[n][1]
             /\ Within(F(n)) \subseteq Within(a[n])
  <2> DEFINE s == a[n]
  <2>1. s \in Text /\ LeftTight(s)
    BY DEF Uncut
  <2>2. F(n) = IF s = Unset \/ TrimLeft(s) = <<>> THEN s ELSE TrimRight(s)
    OBVIOUS
  <2> HIDE DEF s, F
  <2>3. LET t == IF s = Unset \/ TrimLeft(s) = <<>> THEN s ELSE TrimRight(s)
        IN  /\ t \in Text /\ Tight(t)
            /\ Tight(s) => t = s
            /\ t # <<>> => s # <<>> /\ t[1] = s[1]
    BY <2>1, InPlaceIs
  <2>4. Within(TrimRight(s)) \subseteq Within(s)
    BY <2>1, TrimRightIs
  <2>5. /\ F(n) \in Text /\ Tight(F(n))
        /\ Tight(s) => F(n) = s
        /\ F(n) # <<>> => s # <<>> /\ F(n)[1] = s[1]
    BY <2>2, <2>3
  <2>6. Within(F(n)) \subseteq Within(s)
    BY <2>2, <2>4
  <2> QED BY <2>5, <2>6 DEF s
<1> HIDE DEF F
<1>3. q.op = op /\ \A n \in 1 .. 3 : q.a[n] = F(n)
  BY <1>1
<1>4. q.a \in Operands
  BY <1>1, <1>2 DEF Operands, Text
<1> HIDE DEF q
<1>5. Comma \notin Within(F(1)) /\ Comma \notin Within(F(2))
  <2>1. Comma \notin Within(a[1]) /\ Comma \notin Within(a[2])
    BY DEF Uncut
  <2>2. Within(F(1)) \subseteq Within(a[1]) /\ Within(F(2)) \subseteq Within(a[2])
    BY <1>2
  <2> QED BY <2>1, <2>2
<1>6. Uncut(q.a)
  <2>1. \A n \in 1 .. 3 : q.a[n] \in Text /\ LeftTight(q.a[n])
    BY <1>2, <1>3, TightIs
  <2>2. q.a[1] = F(1) /\ q.a[2] = F(2)
    BY <1>3
  <2> QED BY <1>5, <2>1, <2>2 DEF Uncut
<1> QED BY <1>2, <1>3, <1>4, <1>6 DEF q

LEMMA Taken2Is ==
    ASSUME NEW given \in Text
    PROVE  LET t == Taken2(given)
           IN  t \in Cut /\ Uncut(t.a) /\ \A n \in 1 .. 3 : Tight(t.a[n])
<1> DEFINE s == Trim(given)
           b == Trim(Body(s))
           v == Unparenthesised(b)
           p == Parse_instruction_args(v, <<>>)
           q == TrimmedInPlace(p)
           t == Taken2(given)
<1>1. s \in Text
  BY TrimIs
<1>2. b \in Text
  BY <1>1, BodyIs, TrimIs
<1>3. v \in Text
  BY <1>2, UnparenthesisedIs
<1>4. p.op \in Text /\ p.a \in Operands /\ Uncut(p.a)
  BY <1>3, Parse2Is
<1>5. p = [op |-> p.op, a |-> p.a]
  BY DEF Parse_instruction_args
<1>6. t = Nothing \/ t = [label |-> <<>>, op |-> q.op, a |-> q.a]
  BY DEF Taken2
<1> HIDE DEF p
<1>7. /\ q.op = p.op /\ q.a \in Operands /\ Uncut(q.a)
      /\ \A n \in 1 .. 3 : Tight(q.a[n])
  BY <1>4, <1>5, TrimmedInPlaceIs
<1> HIDE DEF q, t
<1>8. CASE t = Nothing
  <2>1. Nothing \in Cut /\ \A n \in 1 .. 3 : Nothing.a[n] = <<>> /\ Tight(<<>>)
    BY NothingIs, ThreeOperands, EmptyText DEF Nothing
  <2>2. Uncut(Nothing.a)
    BY <2>1, EmptyText, TightIs DEF Uncut
  <2> QED BY <1>8, <2>1, <2>2 DEF t
<1>9. CASE t = [label |-> <<>>, op |-> q.op, a |-> q.a]
  BY <1>4, <1>7, <1>9, EmptyText DEF Cut, Text, t
<1> QED BY <1>6, <1>8, <1>9

----------------------------------------------------------------------------
(* The instructions of expansions.                                         *)

\* Texts an operand may be, and the instructions made of them.
Operand == {s \in Text : Tight(s) /\ Comma \notin Within(s)}
Present == Operand \ {<<>>}
Literals == {"x0", "x1", "0", "imm", "hi20", "lo12"}
OfTwo == {"lui", "auipc", "jal"}
OfThree == {"addi", "jalr"}
WithTwo == {Ins(op, <<x, y>>) : op \in OfTwo, x \in Operand, y \in Operand}
WithThree ==
    {Ins(op, <<x, y, z>>) : op \in OfThree, x \in Operand, y \in Operand, z \in Present}
Instructions == WithTwo \cup WithThree

LEMMA LiteralsAre == \A c \in Literals : <<c>> \in Present
<1> TAKE c \in Literals
<1>1. c \in Token
  BY TokensAssumption, Zenon DEF Literals, Token
<1>2. c \notin Space /\ c # Comma
  BY Zenon DEF Literals, Space, Comma
<1> DEFINE s == <<c>>
<1>3. s \in Text /\ Len(s) = 1 /\ s[1] = c /\ Within(s) = {c}
  BY <1>1, OneToken
<1> HIDE DEF s
<1>4. Tight(s) /\ s # <<>>
  BY <1>2, <1>3, EmptyText DEF Tight
<1> QED BY <1>2, <1>3, <1>4 DEF Operand, Present, s

LEMMA ElementSequences ==
    ASSUME NEW S
    PROVE  /\ <<>> \in Seq(S) /\ Len(<<>>) <= 2
           /\ \A x \in S : <<x>> \in Seq(S) /\ Len(<<x>>) <= 2
           /\ \A x, y \in S : <<x, y>> \in Seq(S) /\ Len(<<x, y>>) <= 2
<1>1. <<>> \in Seq(S) /\ Len(<<>>) <= 2
  BY EmptySeq
<1>2. \A x \in S : <<x>> \in Seq(S) /\ Len(<<x>>) <= 2
  OBVIOUS
<1>3. \A x, y \in S : <<x, y>> \in Seq(S) /\ Len(<<x, y>>) <= 2
  OBVIOUS
<1> QED BY <1>1, <1>2, <1>3

\* A pseudoinstruction becomes two instructions at most.
LEMMA ExpansionsAre ==
    ASSUME NEW op, NEW a, a[1] \in Operand, a[2] \in Operand, NEW e \in Expansions(op, a)
    PROVE  e \in Seq(Instructions) /\ Len(e) <= 2
<1> DEFINE x0 == <<"x0">>
           x1 == <<"x1">>
           zero == <<"0">>
           imm == <<"imm">>
           hi == <<"hi20">>
           lo == <<"lo12">>
           x == a[1]
           y == a[2]
<1>1. \/ e = <<Ins("addi", <<x0, x0, zero>>)>>
      \/ e = <<Ins("addi", <<x, y, zero>>)>>
      \/ e = <<Ins("addi", <<x, x0, imm>>)>>
      \/ e = <<Ins("lui", <<x, hi>>), Ins("addi", <<x, x, lo>>)>>
      \/ e = <<Ins("auipc", <<x, hi>>), Ins("addi", <<x, x, lo>>)>>
      \/ e = <<Ins("jal", <<x1, x>>)>>
      \/ e = <<Ins("jalr", <<x0, x1, zero>>)>>
      \/ e = <<Ins("jal", <<x0, x>>)>>
      \/ e = <<>>
  BY DEF Expansions
<1>2. /\ x0 \in Operand /\ x1 \in Operand /\ hi \in Operand
      /\ zero \in Present /\ imm \in Present /\ lo \in Present
  <2>1. /\ "x0" \in Literals /\ "x1" \in Literals /\ "0" \in Literals
        /\ "imm" \in Literals /\ "hi20" \in Literals /\ "lo12" \in Literals
    BY DEF Literals
  <2>2. Present \subseteq Operand
    BY DEF Present
  <2> QED BY <2>1, <2>2, LiteralsAre, Zenon
<1>3. x \in Operand /\ y \in Operand
  OBVIOUS
<1> HIDE DEF x0, x1, zero, imm, hi, lo, x, y
<1>4. \A i, j \in Operand, k \in Present :
        /\ Ins("addi", <<i, j, k>>) \in Instructions /\ Ins("jalr", <<i, j, k>>) \in Instructions
  <2>1. \A c \in OfThree, i, j \in Operand, k \in Present :
          Ins(c, <<i, j, k>>) \in Instructions
    <3>1. \A c \in OfThree, i, j \in Operand, k \in Present : Ins(c, <<i, j, k>>) \in WithThree
      BY DEF WithThree
    <3> QED BY <3>1 DEF Instructions
  <2>2. "addi" \in OfThree /\ "jalr" \in OfThree
    BY DEF OfThree
  <2> QED BY <2>1, <2>2, Zenon
<1>5. \A i, j \in Operand :
        /\ Ins("lui", <<i, j>>) \in Instructions /\ Ins("auipc", <<i, j>>) \in Instructions
        /\ Ins("jal", <<i, j>>) \in Instructions
  <2>1. \A c \in OfTwo, i, j \in Operand : Ins(c, <<i, j>>) \in Instructions
    <3>1. \A c \in OfTwo, i, j \in Operand : Ins(c, <<i, j>>) \in WithTwo
      BY DEF WithTwo
    <3> QED BY <3>1 DEF Instructions
  <2>2. "lui" \in OfTwo /\ "auipc" \in OfTwo /\ "jal" \in OfTwo
    BY DEF OfTwo
  <2> QED BY <2>1, <2>2, Zenon
<1>6. \/ e = <<>>
      \/ \E i \in Instructions : e = <<i>>
      \/ \E i, j \in Instructions : e = <<i, j>>
  BY <1>1, <1>2, <1>3, <1>4, <1>5, Zenon
<1> QED BY <1>6, ElementSequences

----------------------------------------------------------------------------
(* What holds at every stage of a line.                                    *)

\* Each pass has what it takes from the line, and what was parsed is what the
\* text of expanded instructions was read back as.
Expanded == /\ Len(parsed) <= 2
            /\ \A k \in DOMAIN parsed : \E i \in Instructions : parsed[k] = ReadBack(i)
LinesInv ==
    /\ line \in Lines /\ stage \in {"source", "first", "second"}
    /\ got1 = IF stage = "source" THEN Nothing ELSE Taken1(line.text)
    /\ got2 = IF stage = "second" THEN Taken2(line.text) ELSE Nothing
    /\ Expanded

LEMMA LineText == ASSUME line \in Lines PROVE line.text \in Text
BY DEF Lines, Text

LEMMA ReadBackOf ==
    ASSUME NEW e \in Seq(Instructions)
    PROVE  LET f == [k \in DOMAIN e |-> ReadBack(e[k])]
           IN  /\ Len(f) = Len(e)
               /\ \A k \in DOMAIN f : \E i \in Instructions : f[k] = ReadBack(i)
<1> DEFINE f == [k \in DOMAIN e |-> ReadBack(e[k])]
           S == {ReadBack(i) : i \in Instructions}
<1>1. Len(e) \in Nat /\ DOMAIN e = 1 .. Len(e) /\ \A k \in DOMAIN e : e[k] \in Instructions
  BY LenProperties, ElementOfSeq
<1>2. \A k \in DOMAIN f : f[k] = ReadBack(e[k])
  OBVIOUS
<1>3. f \in [1 .. Len(e) -> S]
  BY <1>1
<1>4. f \in Seq(S)
  BY <1>1, <1>3, SeqDef
<1>5. DOMAIN f = DOMAIN e
  OBVIOUS
<1> HIDE DEF f, S
<1>6. Len(f) = Len(e)
  BY <1>1, <1>4, <1>5, LenProperties
<1>7. \A k \in DOMAIN f : \E i \in Instructions : f[k] = ReadBack(i)
  BY <1>1, <1>2, <1>5
<1> QED BY <1>6, <1>7 DEF f

LEMMA LinesInvHolds == LinesSpec => []LinesInv
<1>1. LinesInit => LinesInv
  <2> SUFFICES ASSUME LinesInit PROVE LinesInv
    OBVIOUS
  <2>1. line \in Lines
    BY CasesAssumption DEF LinesInit
  <2>2. parsed = <<>> /\ Len(<<>>) = 0 /\ DOMAIN <<>> = {}
    BY EmptySeq DEF LinesInit
  <2>3. Expanded
    BY <2>2 DEF Expanded
  <2> QED BY <2>1, <2>3 DEF LinesInit, LinesInv
<1>2. LinesInv /\ [LinesNext]_lineVars => LinesInv'
  <2> SUFFICES ASSUME LinesInv, [LinesNext]_lineVars PROVE LinesInv'
    OBVIOUS
  <2>1. CASE First_pass
    <3>1. Expanded'
      BY <2>1 DEF First_pass, Expanded, LinesInv
    <3>2. stage = "source" /\ stage' = "first" /\ line' = line /\ got2' = got2
      BY <2>1 DEF First_pass
    <3>3. got1' = Taken1(line'.text)
      BY <2>1, <3>2 DEF First_pass
    <3> QED BY <3>1, <3>2, <3>3 DEF LinesInv
  <2>2. CASE Second_pass
    <3>1. stage = "first" /\ stage' = "second" /\ line' = line /\ got1' = got1
      BY <2>2 DEF Second_pass
    <3>2. got2' = Taken2(line.text) /\ line.text \in Text
      BY <2>2, LineText DEF Second_pass, LinesInv
    <3>3. PICK e \in Expansions(got2'.op, got2'.a) : parsed' = [k \in DOMAIN e |-> ReadBack(e[k])]
      BY <2>2 DEF Second_pass
    <3>4. got2'.a[1] \in Operand /\ got2'.a[2] \in Operand
      <4> DEFINE g == Taken2(line.text)
      <4>1. Uncut(g.a) /\ \A n \in 1 .. 3 : Tight(g.a[n])
        BY <3>2, Taken2Is
      <4>2. got2' = g
        BY <3>2
      <4> HIDE DEF g
      <4>3. g.a[1] \in Operand /\ g.a[2] \in Operand
        BY <4>1 DEF Operand, Uncut
      <4> QED BY <4>2, <4>3
    <3>5. e \in Seq(Instructions) /\ Len(e) <= 2
      <4> DEFINE a == got2'.a
                 op == got2'.op
      <4>1. a[1] \in Operand /\ a[2] \in Operand /\ e \in Expansions(op, a)
        BY <3>3, <3>4
      <4> HIDE DEF a, op
      <4> QED BY <4>1, ExpansionsAre
    <3>6. Expanded'
      <4>1. LET f == [k \in DOMAIN e |-> ReadBack(e[k])]
            IN  /\ Len(f) = Len(e)
                /\ \A k \in DOMAIN f : \E i \in Instructions : f[k] = ReadBack(i)
        BY <3>5, ReadBackOf
      <4> QED BY <3>3, <3>5, <4>1 DEF Expanded
    <3> QED BY <3>1, <3>2, <3>6 DEF LinesInv
  <2>3. CASE UNCHANGED lineVars
    BY <2>3 DEF lineVars, LinesInv, Expanded
  <2> QED BY <2>1, <2>2, <2>3 DEF LinesNext
<1> QED BY <1>1, <1>2, PTL DEF LinesSpec

\* Whatever line is read, both passes take text from it, and operands with no
\* space at either end.
THEOREM LinesTypeOKAlways == LinesSpec => []LinesTypeOK
<1>1. LinesInv => LinesTypeOK
  <2> SUFFICES ASSUME LinesInv PROVE LinesTypeOK
    OBVIOUS
  <2>1. line.text \in Text
    BY LineText DEF LinesInv
  <2>2. got1 \in Cut /\ \A n \in 1 .. 3 : Tight(got1.a[n])
    BY <2>1, Taken1Is, NothingIs DEF LinesInv
  <2>3. got2 \in Cut /\ \A n \in 1 .. 3 : Tight(got2.a[n])
    BY <2>1, Taken2Is, NothingIs DEF LinesInv
  <2> QED BY <2>2, <2>3 DEF LinesInv, LinesTypeOK, Expanded
<1> QED BY <1>1, LinesInvHolds, PTL

----------------------------------------------------------------------------
(* What the two passes agree on.                                           *)

\* Space at the front makes no difference to what is left of it.
LEMMA SkipSpace ==
    ASSUME NEW t \in Text, NEW r \in Text, Len(t) = Len(r) + 1, t[1] \in Space,
           \A n \in 1 .. Len(r) : t[n + 1] = r[n]
    PROVE  TrimLeft(t) = TrimLeft(r)
<1> DEFINE k == SelectInSeq(r, LAMBDA x : x \notin Space)
           m == k + 1
<1>1. /\ k \in 0 .. Len(r)
      /\ k = 0 <=> \A n \in 1 .. Len(r) : r[n] \in Space
      /\ k # 0 => r[k] \notin Space
      /\ \A n \in 1 .. k - 1 : r[n] \in Space
  BY LeadIs
<1> HIDE DEF k
<1>2. Len(r) \in Nat /\ Len(t) \in Nat
  BY TextIs
<1>3. \A n \in 1 .. Len(t) : n = 1 \/ (n - 1 \in 1 .. Len(r) /\ t[n] = r[n - 1])
  <2> TAKE n \in 1 .. Len(t)
  <2>1. n # 1 => n - 1 \in 1 .. Len(r) /\ (n - 1) + 1 = n
    BY <1>2
  <2>2. n # 1 => t[(n - 1) + 1] = r[n - 1]
    BY <2>1
  <2> QED BY <2>1, <2>2
<1>4. CASE k = 0
  <2>1. \A n \in 1 .. Len(t) : t[n] \in Space
    BY <1>1, <1>3, <1>4
  <2>2. \A n \in 1 .. Len(r) : r[n] \in Space
    BY <1>1, <1>4
  <2> QED BY <2>1, <2>2, TrimLeftIs
<1>5. CASE k # 0
  <2>1. k \in 1 .. Len(r) /\ m \in 1 .. Len(t) /\ m - 1 = k
    BY <1>1, <1>2, <1>5
  <2>2. t[m] \notin Space
    BY <1>1, <1>5, <2>1
  <2>3. \A n \in 1 .. m - 1 : t[n] \in Space
    <3> SUFFICES ASSUME NEW n \in 1 .. m - 1 PROVE t[n] \in Space
      OBVIOUS
    <3>1. n \in 1 .. Len(t) /\ (n # 1 => n - 1 \in 1 .. k - 1)
      BY <1>2, <2>1
    <3> QED BY <1>1, <1>3, <3>1
  <2> DEFINE u == SubSeq(r, k, Len(r))
             v == SubSeq(t, m, Len(t))
  <2>4. TrimLeft(r) = u
    BY <1>1, <2>1, TrimLeftIs
  <2> HIDE DEF m
  <2>5. TrimLeft(t) = v
    BY <2>1, <2>2, <2>3, TrimLeftIs
  <2>6. /\ k \in 1 .. Len(r) + 1 /\ Len(r) \in k - 1 .. Len(r)
        /\ m \in 1 .. Len(t) + 1 /\ Len(t) \in m - 1 .. Len(t)
    BY <1>2, <2>1
  <2>7. u \in Text /\ Len(u) = Len(r) - k + 1
        /\ \A n \in 1 .. Len(r) - k + 1 : u[n] = r[k + n - 1]
    BY <2>6, SliceIs
  <2>8. v \in Text /\ Len(v) = Len(t) - m + 1
        /\ \A n \in 1 .. Len(t) - m + 1 : v[n] = t[m + n - 1]
    BY <2>6, SliceIs
  <2> HIDE DEF u, v
  <2>9. Len(t) - m + 1 = Len(r) - k + 1 /\ m = k + 1
    BY <1>2, <2>1
  <2>10. \A n \in 1 .. Len(r) - k + 1 : v[n] = u[n]
    <3> SUFFICES ASSUME NEW n \in 1 .. Len(r) - k + 1 PROVE v[n] = u[n]
      OBVIOUS
    <3>1. k + n - 1 \in 1 .. Len(r) /\ m + n - 1 = (k + n - 1) + 1
      BY <1>2, <2>1, <2>9
    <3>2. t[m + n - 1] = r[k + n - 1]
      BY <3>1
    <3> QED BY <2>7, <2>8, <2>9, <3>2
  <2>11. u = v
    BY <2>7, <2>8, <2>9, <2>10, SameText
  <2> QED BY <2>4, <2>5, <2>11
<1> QED BY <1>4, <1>5

\* The rewrite changes nothing ahead of the parenthesis, which it makes a comma.
LEMMA RewriteKeeps ==
    ASSUME NEW s \in Text, Unparenthesised(s) # s
    PROVE  LET v == Unparenthesised(s)
               o == Find(s, Paren)
           IN  /\ o \in 1 .. Len(s) /\ o \in 1 .. Len(v)
               /\ v[o] = Comma
               /\ \A n \in 1 .. o - 1 : v[n] = s[n]
<1> DEFINE v == Unparenthesised(s)
           o == Find(s, Paren)
           g == o + 1
           inner == SubSeq(s, g, Len(s))
           h == o - 1
           front == SubSeq(s, 1, h)
           mid == front \o <<Comma>>
           more == mid \o Before(inner, ")")
           out == more \o Beyond(inner, ")")
<1>1. Len(s) \in Nat /\ o \in 0 .. Len(s)
  BY TextIs, FindIs
<1>2. v = IF o = 0 \/ Find(inner, ")") = 0 THEN s ELSE out
  BY DEF Unparenthesised, Comma, Paren
<1> HIDE DEF v, o, out
<1>3. o # 0 /\ v = out
  BY <1>2 DEF v
<1>4. /\ g \in 1 .. Len(s) + 1 /\ Len(s) \in g - 1 .. Len(s)
      /\ 1 \in 1 .. Len(s) + 1 /\ h \in 1 - 1 .. Len(s) /\ h - 1 + 1 = h
      /\ h + 1 = o /\ \A n \in Int : 1 + n - 1 = n
  BY <1>1, <1>3
<1> HIDE DEF g, h
<1>5. /\ inner \in Text /\ front \in Text /\ Len(front) = h - 1 + 1
      /\ \A n \in 1 .. h - 1 + 1 : front[n] = s[1 + n - 1]
  BY <1>4, SliceIs
<1> HIDE DEF inner, front
<1>6. Before(inner, ")") \in Text /\ Beyond(inner, ")") \in Text
  BY <1>5, AroundIs
<1>7. <<Comma>> \in Text /\ Len(<<Comma>>) = 1 /\ <<Comma>>[1] = Comma
  BY TokensAre, OneToken
<1>8. Len(front) = h /\ h \in Nat /\ \A n \in 1 .. h : front[n] = s[n]
  <2> SUFFICES ASSUME NEW n \in 1 .. h PROVE front[n] = s[n]
    BY <1>1, <1>3, <1>4, <1>5
  <2>1. n \in Int /\ n \in 1 .. h - 1 + 1
    BY <1>4
  <2>2. front[n] = s[1 + n - 1] /\ 1 + n - 1 = n
    BY <1>4, <1>5, <2>1
  <2> QED BY <2>2
<1>9. /\ mid \in Text /\ Len(mid) = o /\ mid[o] = Comma
      /\ \A n \in 1 .. h : mid[n] = front[n]
  <2> DEFINE c == <<Comma>>
             u == front \o c
  <2>1. c \in Text /\ Len(c) = 1 /\ c[1] = Comma
    BY <1>7
  <2> HIDE DEF c
  <2>2. /\ u \in Text /\ Len(u) = Len(front) + Len(c)
        /\ \A n \in 1 .. Len(front) : u[n] = front[n]
        /\ \A n \in 1 .. Len(c) : u[Len(front) + n] = c[n]
    BY <1>5, <2>1, JoinIs
  <2>3. mid = u
    BY DEF c
  <2> HIDE DEF u, mid
  <2>4. 1 \in 1 .. Len(c) /\ Len(front) + 1 = o
    BY <1>4, <1>8, <2>1
  <2>5. u[o] = Comma /\ Len(u) = o
    BY <2>1, <2>2, <2>4
  <2> QED BY <1>8, <2>2, <2>3, <2>5
<1> HIDE DEF mid
<1>10. more \in Text /\ Len(more) >= o /\ \A n \in 1 .. o : more[n] = mid[n]
  <2> DEFINE i == Before(inner, ")")
  <2>1. i \in Text
    BY <1>6
  <2>2. more = mid \o i
    OBVIOUS
  <2> HIDE DEF i, more
  <2>3. /\ more \in Text /\ Len(more) = Len(mid) + Len(i)
        /\ \A n \in 1 .. Len(mid) : more[n] = mid[n]
    BY <1>9, <2>1, <2>2, JoinIs
  <2> QED BY <1>1, <1>9, <2>1, <2>3, TextIs
<1> HIDE DEF more
<1>11. out \in Text /\ Len(out) >= o /\ \A n \in 1 .. o : out[n] = more[n]
  <2> DEFINE i == Beyond(inner, ")")
  <2>1. i \in Text
    BY <1>6
  <2>2. out = more \o i
    BY DEF out
  <2> HIDE DEF i
  <2>3. /\ out \in Text /\ Len(out) = Len(more) + Len(i)
        /\ \A n \in 1 .. Len(more) : out[n] = more[n]
    BY <1>10, <2>1, <2>2, JoinIs
  <2>4. Len(more) \in Nat /\ Len(i) \in Nat
    BY <1>10, <2>1, TextIs
  <2>5. \A n \in 1 .. o : n \in 1 .. Len(more)
    BY <1>1, <1>10, <2>4
  <2> QED BY <1>1, <1>10, <2>3, <2>4, <2>5
<1>12. o \in 1 .. Len(s) /\ o \in 1 .. o /\ \A n \in 1 .. h : n \in 1 .. o
  BY <1>1, <1>3, <1>4, <1>8
<1>13. v[o] = Comma /\ \A n \in 1 .. h : v[n] = s[n]
  BY <1>3, <1>8, <1>9, <1>10, <1>11, <1>12
<1>14. o \in 1 .. Len(v)
  BY <1>1, <1>3, <1>11, TextIs
<1> QED BY <1>12, <1>13, <1>14 DEF v, o, h

\* A one-token operation of pass 2 other than a comma is the operation of
\* pass 1, and a blank follows it if anything does.
LEMMA OperationsAgree ==
    ASSUME NEW b \in Text, Tight(b), b # <<>>,
           NEW v, v = Unparenthesised(b),
           Len(Before(v, Blank)) = 1, Before(v, Blank) # <<Comma>>
    PROVE  /\ Parse_simple_args(b).op = Before(v, Blank)
           /\ Find(v, Blank) # 0 =>
                /\ Find(v, Blank) = 2 /\ 2 \in 1 .. Len(b)
                /\ b[1] \notin Space /\ b[1] # Comma /\ b[2] = Blank
                /\ v[1] # Comma /\ v[2] = Blank
<1> DEFINE f == Find(v, Blank)
           op == Before(v, Blank)
           o == Find(b, Paren)
           k == SelectInSeq(b, LAMBDA t : t \in Space)
           front == SubSeq(b, 1, k - 1)
<1>1. v \in Text /\ Len(v) \in Nat
  BY UnparenthesisedIs, TextIs
<1>2. f \in 0 .. Len(v) /\ (f # 0 => v[f] = Blank)
  BY <1>1, FindIs
<1>3. /\ op \in Text
      /\ f = 0 => op = v
      /\ f # 0 => Len(op) = f - 1 /\ \A n \in 1 .. f - 1 : op[n] = v[n]
  <2>1. v \in Text
    BY <1>1
  <2>2. /\ op \in Text
        /\ f = 0 => op = v
        /\ f # 0 => /\ Len(op) = f - 1
                    /\ \A n \in 1 .. f - 1 : op[n] = v[n]
    BY <2>1, AroundIs
  <2> QED BY <2>2
<1>4. v # b => /\ o \in 1 .. Len(b) /\ o \in 1 .. Len(v) /\ v[o] = Comma
               /\ \A n \in 1 .. o - 1 : v[n] = b[n]
  BY RewriteKeeps
<1>5. Parse_simple_args(b).op = IF k = 0 THEN b ELSE front
  BY DEF Parse_simple_args
<1>6. /\ k \in 0 .. Len(b)
      /\ k = 0 => \A n \in 1 .. Len(b) : b[n] \notin Space
      /\ k # 0 => b[k] \in Space
      /\ \A n \in 1 .. k - 1 : b[n] \notin Space
  BY SpaceIs
<1>7. Len(b) \in Nat /\ Len(b) # 0 /\ b[1] \notin Space
  BY TextIs DEF Tight
<1>8. Len(op) = 1 /\ op # <<Comma>>
  OBVIOUS
<1>9. op[1] # Comma
  <2> DEFINE c == <<Comma>>
  <2>1. c \in Text /\ Len(c) = 1 /\ c[1] = Comma /\ op # c
    BY <1>8, TokensAre, OneToken
  <2> HIDE DEF c, op
  <2>2. op[1] = Comma => \A n \in 1 .. Len(op) : op[n] = c[n]
    BY <1>8, <2>1
  <2> QED BY <1>3, <1>8, <2>1, <2>2, SameText
<1> HIDE DEF k, f, op, o
<1>10. CASE f = 0
  <2>1. op = v /\ Len(v) = 1
    BY <1>3, <1>8, <1>10
  <2>2. v = b
    BY <1>4, <1>9, <2>1
  <2>3. k = 0
    <3>1. Len(b) = 1
      BY <2>1, <2>2
    <3>2. k = 0 \/ k = 1
      BY <1>6, <3>1
    <3> QED BY <1>6, <1>7, <3>2
  <2> QED BY <1>5, <1>10, <2>1, <2>2, <2>3 DEF f, op
<1>11. CASE f # 0
  <2>1. f = 2 /\ v[2] = Blank /\ op[1] = v[1] /\ v[1] # Comma /\ Len(v) >= 2
    <3>1. f - 1 = 1
      BY <1>3, <1>8, <1>11
    <3>2. f = 2
      BY <1>2, <3>1
    <3> QED BY <1>1, <1>2, <1>3, <1>9, <1>11, <3>1, <3>2
  <2>2. b[1] = v[1] /\ b[2] = Blank /\ Len(b) >= 2
    <3>1. CASE v = b
      BY <2>1, <3>1
    <3>2. CASE v # b
      <4>1. o # 1 /\ o # 2
        BY <1>4, <2>1, <3>2, TokensAre
      <4>2. o \in 3 .. Len(b)
        BY <1>4, <1>7, <3>2, <4>1
      <4>3. 1 \in 1 .. o - 1 /\ 2 \in 1 .. o - 1
        BY <1>7, <4>2
      <4> QED BY <1>4, <1>7, <2>1, <3>2, <4>2, <4>3
    <3> QED BY <3>1, <3>2
  <2>3. k = 2
    <3>1. b[2] \in Space /\ 2 \in 1 .. Len(b)
      BY <1>7, <2>2, TokensAre
    <3>2. k # 0
      BY <1>6, <3>1
    <3>3. k # 1
      BY <1>6, <1>7, <3>2
    <3>4. ~(2 < k)
      <4>1. 2 < k => 2 \in 1 .. k - 1
        BY <1>6
      <4> QED BY <1>6, <3>1, <4>1
    <3> QED BY <1>6, <1>7, <3>2, <3>3, <3>4
  <2>4. front \in Text /\ Len(front) = 1 /\ front[1] = b[1]
    <3> DEFINE g == k - 1
               h == SubSeq(b, 1, g)
    <3>1. 1 \in 1 .. Len(b) + 1 /\ g \in 1 - 1 .. Len(b) /\ g - 1 + 1 = 1
      BY <1>7, <2>2, <2>3
    <3> HIDE DEF g
    <3>2. h \in Text /\ Len(h) = g - 1 + 1 /\ \A n \in 1 .. g - 1 + 1 : h[n] = b[1 + n - 1]
      BY <3>1, SliceIs
    <3> HIDE DEF h
    <3>3. h \in Text /\ Len(h) = 1 /\ h[1] = b[1]
      BY <3>1, <3>2
    <3>4. front = h
      BY DEF front, h, g
    <3> QED BY <3>3, <3>4
  <2> HIDE DEF front
  <2>5. \A n \in 1 .. Len(front) : front[n] = op[n]
    BY <2>1, <2>2, <2>4
  <2>6. front = op
    BY <1>3, <1>8, <2>4, <2>5, SameText
  <2>7. 2 \in 1 .. Len(b)
    BY <1>7, <2>2
  <2> QED BY <1>5, <1>7, <2>1, <2>2, <2>3, <2>6, <2>7 DEF f, op
<1> QED BY <1>10, <1>11

\* The place in a text where what follows its first comma starts.
FollowsAt(s, m) ==
    /\ m \in 1 .. Len(s) /\ Find(s, Comma) \in 1 .. m - 1
    /\ s[m] \notin Space
    /\ \A n \in Find(s, Comma) + 1 .. m - 1 : s[n] \in Space

\* There pass 1 takes its second operand.
LEMMA SecondOfPass1 ==
    ASSUME NEW b \in Text, 2 \in 1 .. Len(b),
           b[1] \notin Space, b[1] # Comma, b[2] = Blank, NEW m, FollowsAt(b, m)
    PROVE  LET a == Parse_simple_args(b).a[2] IN a # <<>> /\ a[1] = b[m]
<1> DEFINE k == SelectInSeq(b, LAMBDA t : t \in Space)
           t == SubSeq(b, k, Len(b))
           args == IF k = 0 THEN <<>> ELSE TrimLeft(t)
           e == Beyond(args, Comma)
           y == Trim(e)
           a1 == <<Trim(Before(args, Comma)), y, <<>>>>
           c == Find(b, Comma)
<1>1. Parse_simple_args(b).a[2] = y
  <2>1. Parse_simple_args(b).a = a1
    BY DEF Parse_simple_args, Comma
  <2>2. a1[2] = y
    OBVIOUS
  <2> QED BY <2>1, <2>2
<1>2. Len(b) \in Nat /\ b[2] \in Space
  BY TextIs, TokensAre
<1>3. c \in 0 .. Len(b) /\ (c # 0 => b[c] = Comma) /\ \A n \in 1 .. c - 1 : b[n] # Comma
  BY FindIs
<1>4. /\ m \in 1 .. Len(b) /\ c \in 1 .. m - 1 /\ b[m] \notin Space
      /\ \A n \in c + 1 .. m - 1 : b[n] \in Space
  BY DEF FollowsAt
<1> HIDE DEF y, c
<1>5. k = 2
  <2> HIDE DEF k
  <2>1. /\ k \in 0 .. Len(b)
        /\ k = 0 => \A n \in 1 .. Len(b) : b[n] \notin Space
        /\ k # 0 => b[k] \in Space
        /\ \A n \in 1 .. k - 1 : b[n] \notin Space
    BY SpaceIs DEF k
  <2>2. k # 0 /\ k # 1
    BY <1>2, <2>1
  <2>3. ~(2 < k)
    <3>1. 2 < k => 2 \in 1 .. k - 1
      BY <2>1
    <3> QED BY <1>2, <2>1, <3>1
  <2> QED BY <1>2, <2>1, <2>2, <2>3
<1> HIDE DEF k
<1>6. c >= 3 /\ c \in Nat /\ m \in Nat
  <2>1. c # 1 /\ c # 2
    BY <1>2, <1>3, <1>4, TokensAre
  <2> QED BY <1>2, <1>4, <2>1
<1>7. /\ t \in Text /\ Len(t) = Len(b) - 1
      /\ \A n \in 1 .. Len(b) - 1 : t[n] = b[n + 1]
  <2>1. /\ k \in 1 .. Len(b) + 1 /\ Len(b) \in k - 1 .. Len(b)
        /\ Len(b) - k + 1 = Len(b) - 1
        /\ \A n \in Int : k + n - 1 = n + 1
    BY <1>2, <1>5
  <2>2. t \in Text /\ Len(t) = Len(b) - k + 1
        /\ \A n \in 1 .. Len(b) - k + 1 : t[n] = b[k + n - 1]
    BY <2>1, SliceIs
  <2> HIDE DEF t
  <2> QED BY <1>2, <2>1, <2>2
<1> HIDE DEF t
<1>8. args = TrimLeft(t)
  BY <1>5
<1> HIDE DEF args
<1> DEFINE j == SelectInSeq(t, LAMBDA x : x \notin Space)
<1>9. /\ j \in 0 .. Len(t)
      /\ j = 0 <=> \A n \in 1 .. Len(t) : t[n] \in Space
      /\ j # 0 => t[j] \notin Space
      /\ \A n \in 1 .. j - 1 : t[n] \in Space
  BY <1>7, LeadIs
<1> HIDE DEF j
<1>10. j \in 1 .. c - 1
  <2> DEFINE i == c - 1
  <2>1. i \in 1 .. Len(t) /\ i + 1 = c
    BY <1>2, <1>3, <1>6, <1>7
  <2>2. t[i] = Comma
    BY <1>3, <1>6, <1>7, <2>1
  <2> HIDE DEF i
  <2>3. t[i] \notin Space
    BY <2>2, TokensAre
  <2>4. j # 0 /\ ~(i < j)
    BY <1>9, <2>1, <2>3
  <2> QED BY <1>6, <1>9, <2>1, <2>4
<1>11. /\ args \in Text /\ Len(args) = Len(b) - j
       /\ \A n \in 1 .. Len(b) - j : args[n] = b[j + n]
  <2> DEFINE u == SubSeq(t, j, Len(t))
  <2>1. /\ j \in 1 .. Len(t) /\ j \in 1 .. Len(t) + 1 /\ Len(t) \in j - 1 .. Len(t)
        /\ Len(t) - j + 1 = Len(b) - j
    BY <1>2, <1>7, <1>9, <1>10
  <2>2. args = u
    <3>1. t \in Text /\ t[j] \notin Space /\ \A n \in 1 .. j - 1 : t[n] \in Space
      BY <1>7, <1>9, <2>1
    <3> QED BY <1>8, <2>1, <3>1, TrimLeftIs
  <2>3. u \in Text /\ Len(u) = Len(t) - j + 1
        /\ \A n \in 1 .. Len(t) - j + 1 : u[n] = t[j + n - 1]
    BY <1>7, <2>1, SliceIs
  <2> HIDE DEF u
  <2>4. ASSUME NEW n \in 1 .. Len(b) - j PROVE u[n] = b[j + n]
    <3>1. j + n - 1 \in 1 .. Len(b) - 1 /\ (j + n - 1) + 1 = j + n
      BY <1>2, <1>9, <1>10
    <3>2. u[n] = t[j + n - 1] /\ t[j + n - 1] = b[(j + n - 1) + 1]
      BY <1>7, <2>1, <2>3, <3>1
    <3> QED BY <3>1, <3>2
  <2> QED BY <2>1, <2>2, <2>3, <2>4
<1>12. Find(args, Comma) = c - j
  <2> DEFINE p == c - j
  <2>1. p \in 1 .. Len(args) /\ j + p = c
    BY <1>2, <1>3, <1>10, <1>11
  <2>2. args[p] = Comma
    BY <1>3, <1>6, <1>11, <2>1
  <2>3. \A n \in 1 .. p - 1 : args[n] # Comma
    <3> TAKE n \in 1 .. p - 1
    <3>1. n \in 1 .. Len(b) - j /\ j + n \in 1 .. c - 1
      BY <1>2, <1>3, <1>6, <1>10
    <3> QED BY <1>3, <1>11, <3>1
  <2> HIDE DEF p
  <2>4. Find(args, Comma) = p
    BY <1>11, <2>1, <2>2, <2>3, FindAt
  <2> QED BY <2>4 DEF p
<1>13. e \in Text /\ Len(e) = Len(b) - c /\ \A n \in 1 .. Len(b) - c : e[n] = b[c + n]
  <2>1. /\ e \in Text /\ Len(e) = Len(args) - (c - j)
        /\ \A n \in 1 .. Len(args) - (c - j) : e[n] = args[(c - j) + n]
    <3> DEFINE p == Find(args, Comma)
    <3>1. p # 0 /\ p = c - j
      BY <1>6, <1>10, <1>12
    <3>2. e \in Text /\ Len(e) = Len(args) - p
          /\ \A n \in 1 .. Len(args) - p : e[n] = args[p + n]
      BY <1>11, <3>1, AroundIs
    <3> HIDE DEF p, e
    <3> QED BY <3>1, <3>2
  <2> HIDE DEF e
  <2>2. Len(args) - (c - j) = Len(b) - c
    BY <1>2, <1>6, <1>10, <1>11
  <2>3. ASSUME NEW n \in 1 .. Len(b) - c PROVE e[n] = b[c + n]
    <3>1. (c - j) + n \in 1 .. Len(b) - j /\ j + ((c - j) + n) = c + n
      BY <1>2, <1>3, <1>6, <1>10
    <3>2. e[n] = args[(c - j) + n] /\ args[(c - j) + n] = b[j + ((c - j) + n)]
      BY <1>11, <2>1, <2>2, <3>1
    <3> QED BY <3>1, <3>2
  <2> QED BY <2>1, <2>2, <2>3
<1> HIDE DEF e
<1>14. Trim(e) # <<>> /\ Trim(e)[1] = b[m]
  <2> DEFINE i == m - c
  <2>1. i \in 1 .. Len(e) /\ c + i = m
    BY <1>2, <1>4, <1>6, <1>13
  <2>2. e[i] = b[m] /\ e[i] \notin Space
    BY <1>4, <1>13, <2>1
  <2>3. \A n \in 1 .. i - 1 : e[n] \in Space
    <3> TAKE n \in 1 .. i - 1
    <3>1. n \in 1 .. Len(b) - c /\ c + n \in c + 1 .. m - 1
      BY <1>2, <1>4, <1>6
    <3> QED BY <1>4, <1>13, <3>1
  <2> HIDE DEF i
  <2> QED BY <1>13, <2>1, <2>2, <2>3, TrimIs
<1> QED BY <1>1, <1>14 DEF y

\* What is left of a line once its one-token mnemonic is cut off.
LEMMA BeyondMnemonic ==
    ASSUME NEW v \in Text, Find(v, Blank) = 2
    PROVE  /\ Beyond(v, Blank) \in Text /\ Len(Beyond(v, Blank)) = Len(v) - 2
           /\ \A n \in 1 .. Len(v) - 2 : Beyond(v, Blank)[n] = v[2 + n]
<1> DEFINE f == Find(v, Blank)
           r == Beyond(v, Blank)
<1>1. /\ r \in Text
      /\ f # 0 => /\ Len(r) = Len(v) - f
                  /\ \A n \in 1 .. Len(v) - f : r[n] = v[f + n]
  BY AroundIs
<1>2. f = 2
  OBVIOUS
<1> HIDE DEF f, r
<1>3. /\ r \in Text /\ Len(r) = Len(v) - 2
      /\ \A n \in 1 .. Len(v) - 2 : r[n] = v[2 + n]
  BY <1>1, <1>2
<1> QED BY <1>3 DEF r

\* The second operand pass 2 takes from the body of a line.
Second2(v) == Parse_instruction_args(v, <<>>).a[2]

\* It starts there too, if pass 2 takes one.
LEMMA SecondOfPass2 ==
    ASSUME NEW v \in Text, v[1] # Comma, v[2] = Blank, Find(v, Blank) = 2, Second2(v) # <<>>
    PROVE  \E m : FollowsAt(v, m) /\ v[m] # Comma /\ Second2(v)[1] = v[m]
<1> DEFINE q == Parse_instruction_args(v, <<>>)
           a == q.a[2]
           r == Beyond(v, Blank)
           d == TrimRight(r)
           args == Trim(r)
           rest == Beyond(args, Comma)
           w == Before(rest, Comma)
           x == Before(args, Comma)
           z == Beyond(rest, Comma)
<1>1. /\ a # <<>>
      /\ Find(args, Comma) # 0
      /\ \/ Find(rest, Comma) = 0 /\ a = Trim(rest)
         \/ a = TrimLeft(w)
  <2>1. \/ q.a = <<<<>>, <<>>, <<>>>>
        \/ q.a = <<args, <<>>, <<>>>>
        \/ Find(args, Comma) # 0 /\ Find(rest, Comma) = 0 /\ q.a = <<x, Trim(rest), <<>>>>
        \/ Find(args, Comma) # 0 /\ q.a = <<x, TrimLeft(w), Trim(z)>>
    BY DEF Parse_instruction_args, Comma, Blank
  <2>2. q.a[2] # <<>>
    BY DEF Second2
  <2> HIDE DEF q, args, rest, w, x, z
  <2> QED BY <2>1, <2>2
<1> HIDE DEF a
<1>2. /\ r \in Text /\ Len(r) = Len(v) - 2 /\ Len(v) \in Nat /\ 2 \in 1 .. Len(v)
      /\ \A n \in 1 .. Len(v) - 2 : r[n] = v[2 + n]
  <2>1. Len(v) \in Nat /\ Find(v, Blank) \in 0 .. Len(v)
    BY TextIs, FindIs
  <2>2. /\ r \in Text /\ Len(r) = Len(v) - 2
        /\ \A n \in 1 .. Len(v) - 2 : r[n] = v[2 + n]
    BY BeyondMnemonic
  <2>3. 2 \in 1 .. Len(v)
    BY <2>1
  <2> HIDE DEF r
  <2> QED BY <2>1, <2>2, <2>3
<1> HIDE DEF r
<1>3. /\ d \in Text /\ Len(d) <= Len(r) /\ Len(d) \in Nat
      /\ \A n \in 1 .. Len(d) : d[n] = r[n]
  BY <1>2, TrimRightIs, TextIs
<1>4. args = TrimLeft(d)
  BY DEF Trim
<1> HIDE DEF d, args
<1>5. /\ args \in Text /\ (args = <<>> => Find(args, Comma) = 0)
  <2>1. args \in Text
    BY <1>3, <1>4, TrimLeftIs
  <2> QED BY <2>1, FindIs, TextIs
<1> DEFINE j == SelectInSeq(d, LAMBDA t : t \notin Space)
<1>6. /\ j \in 0 .. Len(d)
      /\ j = 0 <=> \A n \in 1 .. Len(d) : d[n] \in Space
      /\ j # 0 => d[j] \notin Space
      /\ \A n \in 1 .. j - 1 : d[n] \in Space
  BY <1>3, LeadIs
<1> HIDE DEF j
<1>7. j \in 1 .. Len(d)
  <2>1. args # <<>>
    BY <1>1, <1>5
  <2>2. j # 0
    BY <1>3, <1>4, <1>6, <2>1, TrimLeftIs
  <2> QED BY <1>3, <1>6, <2>2
<1> DEFINE g == j + 1
<1>8. /\ Len(args) = Len(d) - j + 1 /\ Len(args) \in Nat
      /\ \A n \in 1 .. Len(args) : args[n] = v[g + n]
  <2> DEFINE u == SubSeq(d, j, Len(d))
  <2>1. /\ j \in 1 .. Len(d) + 1 /\ Len(d) \in j - 1 .. Len(d)
    BY <1>3, <1>7
  <2>2. args = u
    BY <1>3, <1>4, <1>6, <1>7, TrimLeftIs
  <2>3. u \in Text /\ Len(u) = Len(d) - j + 1
        /\ \A n \in 1 .. Len(d) - j + 1 : u[n] = d[j + n - 1]
    BY <1>3, <2>1, SliceIs
  <2> HIDE DEF u
  <2>4. ASSUME NEW n \in 1 .. Len(d) - j + 1 PROVE u[n] = v[g + n]
    <3>1. /\ j + n - 1 \in 1 .. Len(d) /\ j + n - 1 \in 1 .. Len(v) - 2
          /\ 2 + (j + n - 1) = g + n
      BY <1>2, <1>3, <1>7
    <3> QED BY <1>2, <1>3, <2>3, <3>1
  <2> QED BY <1>5, <2>2, <2>3, <2>4, TextIs
<1>9. \A n \in 1 .. g : v[n] # Comma
  <2> TAKE n \in 1 .. g
  <2>1. n = 1 \/ n = 2 \/ n - 2 \in 1 .. j - 1
    BY <1>3, <1>7
  <2>2. ASSUME n - 2 \in 1 .. j - 1 PROVE v[n] # Comma
    <3>1. n - 2 \in 1 .. Len(d) /\ n - 2 \in 1 .. Len(v) - 2 /\ 2 + (n - 2) = n
      BY <1>2, <1>3, <1>7, <2>2
    <3>2. v[n] = d[n - 2] /\ d[n - 2] \in Space
      BY <1>2, <1>3, <1>6, <2>2, <3>1
    <3> QED BY <3>2, TokensAre
  <2> QED BY <2>1, <2>2, TokensAre
<1> DEFINE c == Find(args, Comma)
           p == g + c
<1>10. /\ c \in 1 .. Len(args) /\ args[c] = Comma /\ \A n \in 1 .. c - 1 : args[n] # Comma
  BY <1>1, <1>5, <1>8, FindIs
<1>11. /\ rest \in Text /\ Len(rest) = Len(args) - c
       /\ \A n \in 1 .. Len(args) - c : rest[n] = args[c + n]
  BY <1>5, <1>10, AroundIs
<1> HIDE DEF c, rest
<1>12. g \in Nat /\ g + Len(args) <= Len(v) /\ p \in 1 .. Len(v)
  BY <1>2, <1>3, <1>7, <1>8, <1>10
<1>13. Find(v, Comma) = p
  <2>1. v[p] = Comma
    BY <1>8, <1>10
  <2>2. \A n \in 1 .. p - 1 : v[n] # Comma
    <3> TAKE n \in 1 .. p - 1
    <3>1. n \in 1 .. g \/ (n - g \in 1 .. c - 1 /\ n - g \in 1 .. Len(args) /\ g + (n - g) = n)
      BY <1>8, <1>10, <1>12
    <3>2. n - g \in 1 .. c - 1 /\ n - g \in 1 .. Len(args) /\ g + (n - g) = n => v[n] # Comma
      BY <1>8, <1>10
    <3> QED BY <1>9, <3>1, <3>2
  <2> HIDE DEF p
  <2> QED BY <1>12, <2>1, <2>2, FindAt
<1>14. \A n \in 1 .. Len(rest) : p + n \in 1 .. Len(v) /\ rest[n] = v[p + n]
  <2> TAKE n \in 1 .. Len(rest)
  <2>1. /\ n \in 1 .. Len(args) - c /\ c + n \in 1 .. Len(args)
        /\ g + (c + n) = p + n /\ p + n \in 1 .. Len(v)
    BY <1>8, <1>10, <1>11, <1>12
  <2> QED BY <1>8, <1>11, <2>1
<1> HIDE DEF p, g
<1> DEFINE k == SelectInSeq(w, LAMBDA t : t \notin Space)
<1>15. /\ w \in Text /\ Comma \notin Within(w) /\ Len(w) \in Nat /\ Len(w) <= Len(rest)
       /\ \A n \in 1 .. Len(w) : w[n] = rest[n]
       /\ Find(rest, Comma) = 0 => w = rest
  <2>1. Len(rest) \in Nat /\ Find(rest, Comma) \in 0 .. Len(rest)
    BY <1>11, TextIs, FindIs
  <2>2. /\ w \in Text /\ Comma \notin Within(w)
        /\ Find(rest, Comma) = 0 => w = rest
        /\ Find(rest, Comma) # 0 =>
             /\ Len(w) = Find(rest, Comma) - 1
             /\ \A n \in 1 .. Find(rest, Comma) - 1 : w[n] = rest[n]
    BY <1>11, AroundIs
  <2> HIDE DEF w
  <2> QED BY <2>1, <2>2
<1> HIDE DEF w
<1>16. /\ k \in 0 .. Len(w)
       /\ k = 0 <=> \A n \in 1 .. Len(w) : w[n] \in Space
       /\ k # 0 => w[k] \notin Space
       /\ \A n \in 1 .. k - 1 : w[n] \in Space
  BY <1>15, LeadIs
<1> HIDE DEF k
<1>17. k \in 1 .. Len(w) /\ a[1] = w[k]
  <2>1. CASE a = TrimLeft(w)
    <3>1. k # 0
      BY <1>1, <1>15, <1>16, <2>1, TrimLeftIs
    <3> QED BY <1>15, <1>16, <2>1, <3>1, TrimLeftIs
  <2>2. CASE w = rest /\ a = Trim(rest)
    <3>1. Tight(a) /\ a \in Text /\ Within(a) \subseteq Within(w)
      BY <1>11, <2>2, TrimIs
    <3>2. Len(a) \in Nat /\ Len(a) # 0 /\ a[1] \notin Space
      BY <1>1, <3>1, TextIs DEF Tight
    <3>3. a[1] \in Within(a)
      BY <3>2 DEF Within
    <3>4. PICK n \in 1 .. Len(w) : w[n] = a[1]
      BY <3>1, <3>3 DEF Within
    <3>5. k # 0
      BY <1>16, <3>2, <3>4
    <3>6. k \in 1 .. Len(w)
      BY <1>15, <1>16, <3>5
    <3> QED BY <1>11, <1>16, <2>2, <3>5, <3>6, TrimIs
  <2> QED BY <1>1, <1>15, <2>1, <2>2
<1> DEFINE m == p + k
<1>18. /\ m \in 1 .. Len(v) /\ p \in 1 .. m - 1 /\ v[m] = w[k]
  <2>1. k \in 1 .. Len(rest)
    BY <1>11, <1>15, <1>17, TextIs
  <2> QED BY <1>12, <1>14, <1>15, <1>17, <2>1
<1>19. v[m] \notin Space /\ v[m] # Comma
  BY <1>15, <1>16, <1>17, <1>18 DEF Within
<1>20. \A n \in p + 1 .. m - 1 : v[n] \in Space
  <2> TAKE n \in p + 1 .. m - 1
  <2>1. /\ n - p \in 1 .. k - 1 /\ n - p \in 1 .. Len(w) /\ n - p \in 1 .. Len(rest)
        /\ p + (n - p) = n
    BY <1>11, <1>12, <1>15, <1>17, TextIs
  <2> QED BY <1>14, <1>15, <1>16, <2>1
<1> HIDE DEF m
<1>21. FollowsAt(v, m)
  BY <1>13, <1>18, <1>19, <1>20 DEF FollowsAt
<1> QED BY <1>17, <1>18, <1>19, <1>21 DEF a, q, Second2

\* Behind the first comma the rewrite leaves the start of the second operand
\* alone.
LEMMA SecondsAgree ==
    ASSUME NEW b \in Text, NEW v, v = Unparenthesised(b),
           Find(b, Paren) = 0 \/ Find(b, Comma) \in 1 .. Find(b, Paren) - 1,
           NEW m, FollowsAt(v, m), v[m] # Comma
    PROVE  FollowsAt(b, m) /\ b[m] = v[m]
<1> DEFINE o == Find(b, Paren)
           c == Find(b, Comma)
<1>1. CASE v = b
  BY <1>1
<1>2. CASE v # b
  <2>1. /\ o \in 1 .. Len(b) /\ o \in 1 .. Len(v) /\ v[o] = Comma
        /\ \A n \in 1 .. o - 1 : v[n] = b[n]
    BY <1>2, RewriteKeeps
  <2>2. c \in 1 .. o - 1
    <3>1. o = 0 \/ c \in 1 .. o - 1
      OBVIOUS
    <3>2. o # 0
      BY <2>1
    <3> QED BY <3>1, <3>2
  <2>3. c \in 0 .. Len(b) /\ (c # 0 => b[c] = Comma) /\ \A n \in 1 .. c - 1 : b[n] # Comma
    BY FindIs
  <2>4. v \in Text /\ Len(v) \in Nat /\ Len(b) \in Nat
    BY UnparenthesisedIs, TextIs
  <2> HIDE DEF o, c
  <2>5. Find(v, Comma) = c
    <3>1. c \in 1 .. Len(v) /\ v[c] = Comma
      BY <2>1, <2>2, <2>3, <2>4
    <3>2. \A n \in 1 .. c - 1 : v[n] # Comma
      <4> TAKE n \in 1 .. c - 1
      <4>1. n \in 1 .. o - 1
        BY <2>1, <2>2, <2>4
      <4> QED BY <2>1, <2>3, <4>1
    <3> QED BY <2>4, <3>1, <3>2, FindAt
  <2>6. /\ m \in 1 .. Len(v) /\ c \in 1 .. m - 1 /\ v[m] \notin Space
        /\ \A n \in c + 1 .. m - 1 : v[n] \in Space
    BY <2>5 DEF FollowsAt
  <2>7. m < o
    <3>1. m # o
      BY <2>1
    <3>2. ~(o < m)
      <4>1. o < m => o \in c + 1 .. m - 1
        BY <2>1, <2>2, <2>4, <2>6
      <4> QED BY <2>1, <2>6, <4>1, TokensAre
    <3> QED BY <2>1, <2>4, <2>6, <3>1, <3>2
  <2>8. /\ m \in 1 .. Len(b) /\ m \in 1 .. o - 1
        /\ \A n \in c + 1 .. m - 1 : n \in 1 .. o - 1
    BY <2>1, <2>2, <2>4, <2>6, <2>7
  <2>9. /\ b[m] = v[m] /\ b[m] \notin Space
        /\ \A n \in c + 1 .. m - 1 : b[n] \in Space
    BY <2>1, <2>6, <2>8
  <2> QED BY <2>6, <2>8, <2>9 DEF FollowsAt, c
<1> QED BY <1>1, <1>2

\* What pass 2 took is a mnemonic, not the comma of a rewritten line.
Single(op) == Len(op) = 1 /\ op # <<",">>

\* The operation and the start of the second operand, in the two passes.
LEMMA TakenAgree ==
    ASSUME NEW given \in Text, Single(Taken2(given).op)
    PROVE  /\ Taken1(given).op = Taken2(given).op
           /\ (BehindComma(Body(Trim(given))) /\ Taken2(given).a[2] # <<>>) =>
                Taken1(given).a[2] # <<>> /\ Taken1(given).a[2][1] = Taken2(given).a[2][1]
<1> DEFINE s == Trim(given)
           b == Body(s)
           c == Trim(b)
           v == Unparenthesised(c)
           p == Parse_simple_args(b)
           q == Parse_instruction_args(v, <<>>)
           r == TrimmedInPlace(q)
           t1 == Taken1(given)
           t2 == Taken2(given)
           l == LabelOf(s)
           directive == Find(Uncommented(s), ":") = 0 /\ b[1] \in Directives
           behind == Find(b, Paren) = 0 \/ Find(b, Comma) \in 1 .. Find(b, Paren) - 1
<1>1. s \in Text
  BY TrimIs
<1>2. b \in Text /\ Tight(b)
  BY <1>1, BodyIs
<1>3. c = b
  BY <1>2, TrimIs
<1>4. /\ t2 = IF Passed_over(s) \/ c = <<>> \/ c[1] \in Directives THEN Nothing
              ELSE [label |-> <<>>, op |-> r.op, a |-> r.a]
      /\ t1 = IF Passed_over(s) THEN Nothing
              ELSE IF b = <<>> \/ directive THEN [Nothing EXCEPT !.label = l]
              ELSE [label |-> l, op |-> p.op, a |-> p.a]
  BY DEF Taken1, Taken2
<1>5. Len(t2.op) = 1
  BY DEF Single
<1>6. t2.op # <<Comma>>
  BY DEF Comma, Single
<1>7. q = [op |-> q.op, a |-> q.a]
  BY DEF Parse_instruction_args
<1>8. Nothing.op = <<>> /\ Len(<<>>) = 0
  BY EmptyText DEF Nothing
<1> HIDE DEF s, c, t1, t2, l, p, q, behind
<1>9. v \in Text /\ v = Unparenthesised(b)
  <2> HIDE DEF b
  <2> QED BY <1>2, <1>3, UnparenthesisedIs
<1>10. b # <<>> /\ t2 = [label |-> <<>>, op |-> r.op, a |-> r.a] /\ ~(c[1] \in Directives)
      /\ ~Passed_over(s)
  <2> HIDE DEF b, r, v, directive
  <2>1. t2 = Nothing => Len(t2.op) = Len(Nothing.op)
    OBVIOUS
  <2>2. t2 # Nothing
    BY <1>5, <1>8, <2>1
  <2> QED BY <1>3, <1>4, <2>2
<1>11. t1 = [label |-> l, op |-> p.op, a |-> p.a]
  <2> HIDE DEF b
  <2> QED BY <1>3, <1>4, <1>10
<1> HIDE DEF v
<1>12. q.op \in Text /\ q.a \in Operands /\ Uncut(q.a)
  BY <1>9, Parse2Is DEF q
<1> HIDE DEF b
<1>13. /\ r.op = q.op
       /\ \A n \in 1 .. 3 : r.a[n] # <<>> => q.a[n] # <<>> /\ r.a[n][1] = q.a[n][1]
  BY <1>7, <1>12, TrimmedInPlaceIs DEF r
<1> HIDE DEF r
<1>14. q.op = Before(v, Blank)
  BY DEF q, Parse_instruction_args, Blank
<1>15. /\ p.op = q.op
       /\ Find(v, Blank) # 0 =>
            /\ Find(v, Blank) = 2 /\ 2 \in 1 .. Len(b)
            /\ b[1] \notin Space /\ b[1] # Comma /\ b[2] = Blank
            /\ v[1] # Comma /\ v[2] = Blank
  <2>1. Len(Before(v, Blank)) = 1 /\ Before(v, Blank) # <<Comma>>
    BY <1>5, <1>6, <1>10, <1>13, <1>14
  <2> QED BY <1>2, <1>9, <1>10, <1>14, <2>1, OperationsAgree DEF p
<1>16. ASSUME behind, q.a[2] # <<>> PROVE p.a[2] # <<>> /\ p.a[2][1] = q.a[2][1]
  <2>1. Find(v, Blank) # 0
    <3> SUFFICES ASSUME Find(v, Blank) = 0 PROVE FALSE
      OBVIOUS
    <3> DEFINE none == <<<<>>, <<>>, <<>>>>
    <3>1. q.a = none
      BY DEF q, Parse_instruction_args, Blank
    <3>2. none[2] = <<>>
      OBVIOUS
    <3> QED BY <1>16, <3>1, <3>2
  <2>2. PICK m : FollowsAt(v, m) /\ v[m] # Comma /\ q.a[2][1] = v[m]
    <3>1. Second2(v) = q.a[2]
      BY DEF Second2, q
    <3> QED BY <1>9, <1>15, <1>16, <2>1, <3>1, SecondOfPass2
  <2>3. FollowsAt(b, m) /\ b[m] = v[m]
    <3>1. Find(b, Paren) = 0 \/ Find(b, Comma) \in 1 .. Find(b, Paren) - 1
      BY <1>16 DEF behind
    <3> QED BY <1>2, <1>9, <2>2, <3>1, SecondsAgree
  <2>4. p.a[2] # <<>> /\ p.a[2][1] = b[m]
    BY <1>2, <1>15, <2>1, <2>3, SecondOfPass1 DEF p
  <2> QED BY <2>2, <2>3, <2>4
<1>17. /\ t1.op = p.op /\ t1.a = p.a /\ t2.op = r.op /\ t2.a = r.a
  BY <1>10, <1>11
<1>18. t1.op = t2.op
  BY <1>13, <1>15, <1>17
<1>19. ASSUME behind, t2.a[2] # <<>>
       PROVE  t1.a[2] # <<>> /\ t1.a[2][1] = t2.a[2][1]
  <2>1. q.a[2] # <<>> /\ r.a[2][1] = q.a[2][1]
    <3>1. 2 \in 1 .. 3
      OBVIOUS
    <3>2. r.a[2] # <<>>
      BY <1>17, <1>19
    <3> QED BY <1>13, <3>1, <3>2
  <2>2. p.a[2] # <<>> /\ p.a[2][1] = q.a[2][1]
    BY <1>16, <1>19, <2>1
  <2> QED BY <1>17, <2>1, <2>2
<1>20. BehindComma(Body(Trim(given))) <=> behind
  BY DEF BehindComma, behind, b, s, Comma, Paren
<1> QED BY <1>18, <1>19, <1>20 DEF t1, t2

\* Both passes take the same operation from any line that is not rewritten to
\* begin with a comma, if pass 2 takes one of a single token; and a second
\* operand that starts alike, if pass 2 takes one and no parenthesis stands
\* ahead of the first comma (li a0(5000),5 is such a line: pass 1 reads 5 there
\* and pass 2 reads 5000).
THEOREM PassesAgreeAlways == LinesSpec => []PassesAgree
<1>1. LinesInv => PassesAgree
  <2> SUFFICES ASSUME LinesInv, stage = "second", Len(got2.op) = 1, got2.op # <<",">>
               PROVE  /\ got1.op = got2.op
                      /\ (BehindComma(Body(Trim(line.text))) /\ got2.a[2] # <<>>) =>
                           got1.a[2] # <<>> /\ got1.a[2][1] = got2.a[2][1]
    BY DEF PassesAgree
  <2>1. got1 = Taken1(line.text) /\ got2 = Taken2(line.text) /\ line.text \in Text
    BY LineText DEF LinesInv
  <2> DEFINE x == line.text
  <2>2. x \in Text /\ Len(Taken2(x).op) = 1 /\ Taken2(x).op # <<",">>
    BY <2>1
  <2> HIDE DEF x
  <2>3. /\ Taken1(x).op = Taken2(x).op
        /\ (BehindComma(Body(Trim(x))) /\ Taken2(x).a[2] # <<>>) =>
             Taken1(x).a[2] # <<>> /\ Taken1(x).a[2][1] = Taken2(x).a[2][1]
    BY <2>2, TakenAgree DEF Single
  <2> QED BY <2>1, <2>3 DEF x
<1> QED BY <1>1, LinesInvHolds, PTL

----------------------------------------------------------------------------
(* The text of expanded instructions is read back.                         *)

\* How texts are joined.
LEMMA Joining ==
    /\ \A s, t \in Text : s \o t \in Text /\ Within(s \o t) \subseteq Within(s) \cup Within(t)
    /\ \A s, t, u \in Text : (s \o t) \o u = s \o (t \o u)
    /\ \A s \in Text : s \o <<>> = s /\ <<>> \o s = s
    /\ \A c, d \in Token : <<c, d>> = <<c>> \o <<d>>
<1>1. ASSUME NEW s \in Text, NEW t \in Text
      PROVE  s \o t \in Text /\ Within(s \o t) \subseteq Within(s) \cup Within(t)
  <2> DEFINE u == s \o t
  <2>1. /\ u \in Text /\ Len(u) = Len(s) + Len(t)
        /\ \A k \in 1 .. Len(s) : u[k] = s[k]
        /\ \A k \in 1 .. Len(t) : u[Len(s) + k] = t[k]
    BY JoinIs
  <2> HIDE DEF u
  <2>2. Len(s) \in Nat /\ Len(t) \in Nat
    BY TextIs
  <2>3. \A k \in 1 .. Len(u) : k \in 1 .. Len(s) \/ (k - Len(s) \in 1 .. Len(t) /\ Len(s) + (k - Len(s)) = k)
    BY <2>1, <2>2
  <2>4. \A k \in 1 .. Len(u) : u[k] \in Within(s) \cup Within(t)
    <3> TAKE k \in 1 .. Len(u)
    <3>1. CASE k \in 1 .. Len(s)
      BY <2>1, <3>1 DEF Within
    <3>2. CASE k - Len(s) \in 1 .. Len(t) /\ Len(s) + (k - Len(s)) = k
      <4>1. u[k] = t[k - Len(s)]
        BY <2>1, <3>2
      <4> QED BY <3>2, <4>1 DEF Within
    <3> QED BY <2>3, <3>1, <3>2
  <2>5. Within(u) \subseteq Within(s) \cup Within(t)
    <3> SUFFICES ASSUME NEW k \in 1 .. Len(u) PROVE u[k] \in Within(s) \cup Within(t)
      BY DEF Within
    <3> QED BY <2>4
  <2> QED BY <2>1, <2>5 DEF u
<1>2. \A s, t, u \in Text : (s \o t) \o u = s \o (t \o u)
  BY ConcatAssociative DEF Text
<1>3. \A s \in Text : s \o <<>> = s /\ <<>> \o s = s
  BY ConcatEmptySeq DEF Text
<1>4. ASSUME NEW c \in Token, NEW d \in Token PROVE <<c, d>> = <<c>> \o <<d>>
  <2> DEFINE x == <<c>>
             y == <<d>>
             z == <<c, d>>
  <2>1. x \in Text /\ Len(x) = 1 /\ x[1] = c /\ y \in Text /\ Len(y) = 1 /\ y[1] = d
    BY OneToken
  <2>2. z \in Text /\ Len(z) = 2 /\ z[1] = c /\ z[2] = d
    <3>1. \A S : \A e, f \in S : <<e, f>> \in Seq(S)
      BY ElementSequences
    <3>2. z \in Text
      BY <3>1 DEF Text, Token
    <3> QED BY <3>2
  <2> HIDE DEF x, y, z
  <2> DEFINE u == x \o y
  <2>3. /\ u \in Text /\ Len(u) = Len(x) + Len(y)
        /\ \A k \in 1 .. Len(x) : u[k] = x[k]
        /\ \A k \in 1 .. Len(y) : u[Len(x) + k] = y[k]
    BY <2>1, JoinIs
  <2> HIDE DEF u
  <2>4. u \in Text /\ Len(u) = 2 /\ u[1] = c /\ u[2] = d
    <3>1. 1 \in 1 .. Len(x) /\ 1 \in 1 .. Len(y) /\ Len(x) + 1 = 2
      BY <2>1
    <3> QED BY <2>1, <2>3, <3>1
  <2>5. \A k \in 1 .. Len(z) : z[k] = u[k]
    <3>1. \A k \in 1 .. Len(z) : k = 1 \/ k = 2
      BY <2>2
    <3> QED BY <2>2, <2>4, <3>1
  <2>6. z = u
    BY <2>2, <2>4, <2>5, SameText
  <2> QED BY <2>6 DEF x, y, z, u
<1> QED BY <1>1, <1>2, <1>3, <1>4

Join(s, t) == s \o t

\* A text cut at the first of a token is what the text was joined from.
LEMMA CutAt ==
    ASSUME NEW x \in Text, NEW y \in Text, NEW c \in Token, c \notin Within(x),
           NEW s, s = Join(x, Join(<<c>>, y))
    PROVE  s \in Text /\ Find(s, c) # 0 /\ Before(s, c) = x /\ Beyond(s, c) = y
<1> DEFINE o == <<c>>
           t == o \o y
           p == Len(x) + 1
           l == Before(s, c)
           r == Beyond(s, c)
<1>1. o \in Text /\ Len(o) = 1 /\ o[1] = c
  BY OneToken
<1>2. Len(x) \in Nat /\ Len(y) \in Nat
  BY TextIs
<1>3. s = x \o t
  BY DEF Join
<1> HIDE DEF o
<1>4. /\ t \in Text /\ Len(t) = 1 + Len(y) /\ t[1] = c
      /\ \A k \in 1 .. Len(y) : t[1 + k] = y[k]
  <2>1. /\ t \in Text /\ Len(t) = Len(o) + Len(y)
        /\ \A k \in 1 .. Len(o) : t[k] = o[k]
        /\ \A k \in 1 .. Len(y) : t[Len(o) + k] = y[k]
    BY <1>1, JoinIs
  <2> HIDE DEF t
  <2>2. 1 \in 1 .. Len(o)
    BY <1>1
  <2> QED BY <1>1, <2>1, <2>2
<1> HIDE DEF t
<1>5. /\ s \in Text /\ Len(s) = Len(x) + Len(t)
      /\ \A k \in 1 .. Len(x) : s[k] = x[k]
      /\ \A k \in 1 .. Len(t) : s[Len(x) + k] = t[k]
  <2>1. t \in Text
    BY <1>4
  <2>2. LET u == x \o t
        IN  /\ u \in Text /\ Len(u) = Len(x) + Len(t)
            /\ \A k \in 1 .. Len(x) : u[k] = x[k]
            /\ \A k \in 1 .. Len(t) : u[Len(x) + k] = t[k]
    BY <2>1, JoinIs
  <2> QED BY <1>3, <2>2
<1>6. p \in 1 .. Len(s) /\ s[p] = c
  <2>1. 1 \in 1 .. Len(t) /\ t[1] = c
    BY <1>1, <1>2, <1>4
  <2>2. s[Len(x) + 1] = t[1]
    BY <1>5, <2>1
  <2>3. Len(s) = Len(x) + 1 + Len(y)
    BY <1>2, <1>4, <1>5
  <2>4. p = Len(x) + 1 /\ p \in 1 .. Len(x) + 1 + Len(y)
    BY <1>2
  <2> HIDE DEF p
  <2> QED BY <2>1, <2>2, <2>3, <2>4
<1>7. \A k \in 1 .. p - 1 : s[k] # c
  <2>1. \A k \in 1 .. Len(x) : x[k] # c
    BY DEF Within
  <2>2. p - 1 = Len(x)
    BY <1>2
  <2> QED BY <1>5, <2>1, <2>2
<1>8. Find(s, c) = p
  <2> HIDE DEF p
  <2> QED BY <1>5, <1>6, <1>7, FindAt
<1>9. /\ l \in Text /\ r \in Text /\ Len(l) = p - 1 /\ \A k \in 1 .. p - 1 : l[k] = s[k]
      /\ Len(r) = Len(s) - p /\ \A k \in 1 .. Len(s) - p : r[k] = s[p + k]
  <2>1. p # 0 /\ s \in Text
    BY <1>2, <1>5
  <2> HIDE DEF p
  <2>2. /\ l \in Text /\ r \in Text
        /\ Find(s, c) # 0 =>
             /\ Len(l) = Find(s, c) - 1
             /\ \A k \in 1 .. Find(s, c) - 1 : l[k] = s[k]
             /\ Len(r) = Len(s) - Find(s, c)
             /\ \A k \in 1 .. Len(s) - Find(s, c) : r[k] = s[Find(s, c) + k]
    BY <2>1, AroundIs
  <2> QED BY <1>8, <2>1, <2>2
<1> HIDE DEF l, r
<1>10. l = x
  <2>1. p - 1 = Len(x)
    BY <1>2
  <2> HIDE DEF p
  <2>2. Len(l) = Len(x) /\ \A k \in 1 .. Len(x) : l[k] = s[k]
    BY <1>9, <2>1
  <2>3. \A k \in 1 .. Len(x) : s[k] = x[k]
    BY <1>5
  <2> QED BY <1>9, <2>2, <2>3, SameText
<1>11. r = y
  <2>1. Len(r) = Len(y)
    BY <1>2, <1>4, <1>5, <1>9
  <2>2. ASSUME NEW k \in 1 .. Len(r) PROVE r[k] = y[k]
    <3>1. k \in 1 .. Len(y) /\ 1 + k \in 1 .. Len(t) /\ k \in 1 .. Len(s) - p
          /\ p + k = Len(x) + (1 + k)
      <4>1. Len(t) = 1 + Len(y) /\ Len(r) = Len(s) - p /\ p = Len(x) + 1
        BY <1>4, <1>9
      <4> HIDE DEF p
      <4> QED BY <1>2, <2>1, <4>1
    <3>2. r[k] = s[Len(x) + (1 + k)]
      BY <1>9, <3>1
    <3> QED BY <1>4, <1>5, <3>1, <3>2
  <2> QED BY <1>9, <2>1, <2>2, SameText
<1>12. Find(s, c) # 0
  BY <1>2, <1>8
<1> QED BY <1>5, <1>10, <1>11, <1>12 DEF l, r

\* Where joined texts are tight.
LEMMA JoinTight ==
    ASSUME NEW s \in Text, NEW t \in Text
    PROVE  /\ LeftTight(s) /\ LeftTight(t) => LeftTight(s \o t)
           /\ t # <<>> /\ RightTight(t) => RightTight(s \o t)
           /\ t # <<>> => s \o t # <<>>
<1> DEFINE u == s \o t
<1>1. /\ u \in Text /\ Len(u) = Len(s) + Len(t)
      /\ \A k \in 1 .. Len(s) : u[k] = s[k]
      /\ \A k \in 1 .. Len(t) : u[Len(s) + k] = t[k]
  BY JoinIs
<1> HIDE DEF u
<1>2. /\ Len(s) \in Nat /\ (s = <<>> <=> Len(s) = 0)
      /\ Len(t) \in Nat /\ (t = <<>> <=> Len(t) = 0) /\ (u = <<>> <=> Len(u) = 0)
  BY <1>1, TextIs
<1>3. ASSUME LeftTight(s), LeftTight(t), u # <<>> PROVE u[1] \notin Space
  <2>1. CASE s = <<>>
    <3>1. t # <<>> /\ 1 \in 1 .. Len(t) /\ Len(s) + 1 = 1
      BY <1>1, <1>2, <1>3, <2>1
    <3>2. u[1] = t[1]
      BY <1>1, <3>1
    <3> QED BY <1>3, <3>1, <3>2 DEF LeftTight
  <2>2. CASE s # <<>>
    <3>1. 1 \in 1 .. Len(s)
      BY <1>2, <2>2
    <3> QED BY <1>1, <1>3, <2>2, <3>1 DEF LeftTight
  <2> QED BY <2>1, <2>2
<1>4. ASSUME RightTight(t), t # <<>> PROVE u # <<>> /\ u[Len(u)] \notin Space
  <2>1. Len(t) \in 1 .. Len(t) /\ Len(u) = Len(s) + Len(t) /\ Len(u) # 0
    BY <1>1, <1>2, <1>4
  <2>2. u[Len(u)] = t[Len(t)]
    BY <1>1, <2>1
  <2> QED BY <1>2, <1>4, <2>1, <2>2 DEF RightTight
<1>5. t # <<>> => u # <<>>
  BY <1>1, <1>2
<1> QED BY <1>3, <1>4, <1>5 DEF LeftTight, RightTight, u

LEMMA BlankIs ==
    LET b == <<Blank>>
    IN  /\ b \in Text /\ Len(b) = 1 /\ b[1] = Blank /\ Within(b) = {Blank}
BY TokensAre, OneToken

LEMMA CommaIs ==
    LET c == <<Comma>>
    IN  /\ c \in Text /\ c # <<>> /\ LeftTight(c) /\ RightTight(c) /\ Within(c) = {Comma}
<1> DEFINE c == <<Comma>>
<1>1. c \in Text /\ Len(c) = 1 /\ c[1] = Comma /\ Within(c) = {Comma}
  BY TokensAre, OneToken
<1> HIDE DEF c
<1>2. c # <<>>
  BY <1>1, EmptyText
<1>3. c[1] \notin Space /\ c[Len(c)] \notin Space
  BY <1>1, TokensAre
<1> QED BY <1>1, <1>2, <1>3 DEF LeftTight, RightTight, c

\* A blank before a text is trimmed away.
LEMMA AfterBlank ==
    ASSUME NEW y \in Text, Tight(y)
    PROVE  LET s == <<Blank>> \o y
           IN  s \in Text /\ TrimLeft(s) = y /\ (y # <<>> => Trim(s) = y /\ RightTight(s))
<1> DEFINE b == <<Blank>>
           s == b \o y
<1>1. b \in Text /\ Len(b) = 1 /\ b[1] = Blank
  BY BlankIs
<1>2. Len(y) \in Nat
  BY TextIs
<1>3. LeftTight(y) /\ RightTight(y)
  BY TightIs
<1> HIDE DEF b
<1>4. /\ s \in Text /\ Len(s) = Len(b) + Len(y)
      /\ \A k \in 1 .. Len(b) : s[k] = b[k]
      /\ \A k \in 1 .. Len(y) : s[Len(b) + k] = y[k]
  BY <1>1, JoinIs
<1>5. y # <<>> => RightTight(s)
  BY <1>1, <1>3, JoinTight
<1> HIDE DEF s
<1>6. s[1] \in Space /\ Len(s) = Len(y) + 1 /\ \A k \in 1 .. Len(y) : s[k + 1] = y[k]
  <2>1. 1 \in 1 .. Len(b) /\ \A k \in 1 .. Len(y) : Len(b) + k = k + 1
    BY <1>1
  <2>2. s[1] = Blank
    BY <1>1, <1>4, <2>1
  <2>3. Len(s) = Len(y) + 1
    BY <1>1, <1>2, <1>4
  <2>4. \A k \in 1 .. Len(y) : s[k + 1] = y[k]
    BY <1>4, <2>1
  <2> QED BY <2>2, <2>3, <2>4, TokensAre
<1>7. TrimLeft(s) = TrimLeft(y)
  BY <1>4, <1>6, SkipSpace
<1>8. TrimLeft(y) = y
  BY <1>3, TrimLeftIs
<1>9. y # <<>> => Trim(s) = TrimLeft(s)
  BY <1>4, <1>5, TrimIs
<1> QED BY <1>4, <1>5, <1>7, <1>8, <1>9 DEF s, b

\* ... and so is one after it.
LEMMA BeforeBlank ==
    ASSUME NEW u \in Text, Tight(u), u # <<>>
    PROVE  Trim(u \o <<Blank>>) = u
<1> DEFINE b == <<Blank>>
           s == u \o b
           r == TrimRight(s)
<1>1. b \in Text /\ Len(b) = 1 /\ b[1] = Blank
  BY BlankIs
<1>2. Len(u) \in Nat /\ Len(u) # 0 /\ u[Len(u)] \notin Space
  BY TextIs DEF Tight
<1> HIDE DEF b
<1>3. /\ s \in Text /\ Len(s) = Len(u) + Len(b)
      /\ \A k \in 1 .. Len(u) : s[k] = u[k]
      /\ \A k \in 1 .. Len(b) : s[Len(u) + k] = b[k]
  BY <1>1, JoinIs
<1> HIDE DEF s
<1>4. s[Len(u) + 1] \in Space /\ Len(s) = Len(u) + 1 /\ s[Len(u)] \notin Space
  <2>1. 1 \in 1 .. Len(b) /\ Len(u) \in 1 .. Len(u)
    BY <1>1, <1>2
  <2>2. s[Len(u) + 1] = Blank /\ s[Len(u)] = u[Len(u)]
    BY <1>1, <1>3, <2>1
  <2> QED BY <1>1, <1>2, <1>3, <2>2, TokensAre
<1>5. /\ r \in Text /\ RightTight(r) /\ Len(r) <= Len(s)
      /\ \A n \in 1 .. Len(r) : r[n] = s[n]
      /\ \A n \in 1 .. Len(s) : s[n] \notin Space => n <= Len(r)
  BY <1>3, TrimRightIs
<1>6. Trim(s) = TrimLeft(r)
  BY DEF Trim
<1> HIDE DEF r
<1>7. Len(r) \in Nat /\ Len(u) <= Len(r) /\ r # <<>>
  <2>1. Len(u) \in 1 .. Len(s)
    BY <1>2, <1>4
  <2>2. Len(u) <= Len(r)
    BY <1>4, <1>5, <2>1
  <2> QED BY <1>2, <1>5, <2>2, TextIs
<1>8. Len(r) # Len(u) + 1
  <2> SUFFICES ASSUME Len(r) = Len(u) + 1 PROVE FALSE
    OBVIOUS
  <2>1. Len(r) \in 1 .. Len(r)
    BY <1>2, <1>7
  <2>2. r[Len(r)] = s[Len(u) + 1]
    BY <1>5, <2>1
  <2> QED BY <1>4, <1>5, <1>7, <2>2 DEF RightTight
<1>9. r = u
  <2>1. Len(r) = Len(u)
    BY <1>2, <1>4, <1>5, <1>7, <1>8
  <2> QED BY <1>3, <1>5, <2>1, SameText
<1>10. TrimLeft(u) = u
  BY TightIs, TrimLeftIs
<1> QED BY <1>6, <1>9, <1>10 DEF s, b

\* The text of an instruction, token by token.
LEMMA Regrouped ==
    ASSUME NEW p \in Text, NEW b \in Text, NEW x \in Text, NEW c \in Text, NEW y \in Text,
           NEW z \in Text
    PROVE  /\ Join(Join(Join(Join(p, b), x), Join(c, b)), y)
                = Join(p, Join(b, Join(x, Join(c, Join(b, y)))))
           /\ Join(Join(Join(Join(Join(p, b), x), Join(c, b)), y), Join(Join(c, b), z))
                = Join(p, Join(b, Join(x, Join(c, Join(Join(b, y), Join(c, Join(b, z)))))))
<1>1. \A s, t \in Text : Join(s, t) \in Text
  BY Joining DEF Join
<1>2. \A s, t, u \in Text : Join(Join(s, t), u) = Join(s, Join(t, u))
  BY Joining DEF Join
<1>3. \A v \in Text : Join(Join(Join(Join(p, b), x), Join(c, b)), v)
                        = Join(p, Join(b, Join(x, Join(c, Join(b, v)))))
  <2> TAKE v \in Text
  <2> DEFINE cb == Join(c, b)
             pbx == Join(Join(p, b), x)
             w == Join(c, Join(b, v))
  <2>1. cb \in Text /\ pbx \in Text /\ w \in Text /\ Join(p, b) \in Text /\ Join(x, w) \in Text
    BY <1>1
  <2>2. Join(cb, v) = w
    BY <1>2
  <2>3. pbx = Join(Join(p, b), x)
    OBVIOUS
  <2> HIDE DEF cb, pbx, w
  <2>4. Join(Join(pbx, cb), v) = Join(pbx, w)
    BY <1>2, <2>1, <2>2
  <2>5. Join(pbx, w) = Join(Join(p, b), Join(x, w))
    BY <1>2, <2>1, <2>3
  <2>6. Join(Join(p, b), Join(x, w)) = Join(p, Join(b, Join(x, w)))
    BY <1>2, <2>1
  <2>7. Join(Join(pbx, cb), v) = Join(p, Join(b, Join(x, w)))
    BY <2>4, <2>5, <2>6
  <2> QED BY <2>7 DEF cb, pbx, w
<1>4. Join(Join(Join(Join(Join(p, b), x), Join(c, b)), y), Join(Join(c, b), z))
        = Join(p, Join(b, Join(x, Join(c, Join(Join(b, y), Join(c, Join(b, z)))))))
  <2> DEFINE f == Join(Join(Join(p, b), x), Join(c, b))
             t == Join(Join(c, b), z)
  <2>1. f \in Text /\ t \in Text /\ t = Join(c, Join(b, z))
    <3>1. Join(p, b) \in Text /\ Join(c, b) \in Text
      BY <1>1
    <3>2. Join(Join(p, b), x) \in Text /\ t \in Text
      BY <1>1, <3>1
    <3>3. f \in Text
      BY <1>1, <3>1, <3>2
    <3>4. t = Join(c, Join(b, z))
      BY <1>2
    <3> QED BY <3>2, <3>3, <3>4
  <2>2. \A v \in Text : Join(f, v) = Join(p, Join(b, Join(x, Join(c, Join(b, v)))))
    BY <1>3
  <2> HIDE DEF f, t
  <2>3. Join(Join(f, y), t) = Join(f, Join(y, t)) /\ Join(y, t) \in Text
    BY <1>1, <1>2, <2>1
  <2>4. Join(b, Join(y, t)) = Join(Join(b, y), t)
    BY <1>2, <2>1
  <2>5. Join(Join(f, y), t) = Join(p, Join(b, Join(x, Join(c, Join(Join(b, y), t)))))
    BY <2>2, <2>3, <2>4
  <2>6. Join(Join(f, y), t)
          = Join(p, Join(b, Join(x, Join(c, Join(Join(b, y), Join(c, Join(b, z)))))))
    BY <2>1, <2>5
  <2> QED BY <2>6 DEF f, t
<1> QED BY <1>3, <1>4

\* An operation and its blank are cut off.
LEMMA OperationRead ==
    ASSUME NEW op \in Token, op # Blank, NEW v \in Text, NEW s,
           s = Join(<<op>>, Join(<<Blank>>, v))
    PROVE  Find(s, Blank) # 0 /\ Before(s, Blank) = <<op>> /\ Beyond(s, Blank) = v
<1> DEFINE p == <<op>>
<1>1. p \in Text /\ Within(p) = {op}
  BY OneToken
<1> HIDE DEF p
<1>2. Blank \notin Within(p) /\ Blank \in Token /\ s = Join(p, Join(<<Blank>>, v))
  BY <1>1, TokensAre DEF p
<1> DEFINE c == Blank
<1>3. p \in Text /\ v \in Text /\ c \in Token /\ c \notin Within(p) /\ s = Join(p, Join(<<c>>, v))
  BY <1>1, <1>2
<1> HIDE DEF c
<1>4. Find(s, c) # 0 /\ Before(s, c) = p /\ Beyond(s, c) = v
  BY <1>3, CutAt
<1> QED BY <1>4 DEF p, c

\* The second of two operands after its comma: what is left when the text is
\* trimmed, which is more than a blank only if there is an operand.
LEMMA LastOfTwo ==
    ASSUME NEW x \in Operand, NEW y \in Operand
    PROVE  \E w \in Text :
             /\ Trim(Join(x, Join(<<Comma>>, Join(<<Blank>>, y)))) = Join(x, Join(<<Comma>>, w))
             /\ Comma \notin Within(w) /\ Trim(w) = y
<1> DEFINE b == <<Blank>>
           c == <<Comma>>
<1>1. x \in Text /\ LeftTight(x) /\ y \in Text /\ Tight(y) /\ Comma \notin Within(y)
  BY TightIs DEF Operand
<1>2. b \in Text /\ Comma \notin Within(b)
  BY BlankIs, TokensAre
<1>3. c \in Text /\ c # <<>> /\ LeftTight(c) /\ RightTight(c)
  BY CommaIs
<1>4. /\ \A s, t \in Text : s \o t \in Text /\ Within(s \o t) \subseteq Within(s) \cup Within(t)
      /\ \A s, t, u \in Text : (s \o t) \o u = s \o (t \o u)
      /\ \A s \in Text : s \o <<>> = s
  BY Joining
<1>5. CASE y # <<>>
  <2> DEFINE w == b \o y
             u == c \o w
  <2>1. w \in Text /\ Trim(w) = y /\ RightTight(w)
    BY <1>1, <1>5, AfterBlank
  <2>2. Comma \notin Within(w) /\ w # <<>>
    BY <1>1, <1>2, <1>4, <1>5, JoinTight
  <2> HIDE DEF b, c, w
  <2>3. u \in Text /\ RightTight(u) /\ u # <<>>
    BY <1>3, <1>4, <2>1, <2>2, JoinTight
  <2>4. LeftTight(u)
    <3>1. 1 \in Nat /\ LeftTight(c)
      BY <1>3
    <3> DEFINE l == Len(c)
    <3>2. /\ Len(u) = Len(c) + Len(w) /\ \A k \in 1 .. Len(c) : u[k] = c[k]
      BY <1>3, <2>1, JoinIs
    <3>3. 1 \in 1 .. Len(c)
      BY <1>3, TextIs
    <3>4. u[1] = c[1]
      BY <3>2, <3>3
    <3> QED BY <1>3, <3>4 DEF LeftTight
  <2> HIDE DEF u
  <2>5. x \o u \in Text /\ Tight(x \o u)
    BY <1>1, <1>4, <2>3, <2>4, JoinTight, TightIs
  <2>6. Trim(x \o u) = x \o u
    BY <2>5, TrimIs
  <2> QED BY <2>1, <2>2, <2>6 DEF b, c, w, u, Join
<1>6. CASE y = <<>>
  <2> DEFINE u == x \o c
  <2> HIDE DEF b, c
  <2>1. u \in Text /\ Tight(u) /\ u # <<>>
    BY <1>1, <1>3, <1>4, JoinTight, TightIs
  <2> DEFINE s == x \o (c \o (b \o y))
  <2>2. s = u \o b
    <3>1. b \o y = b
      BY <1>2, <1>4, <1>6
    <3>2. (x \o c) \o b = x \o (c \o b)
      <4>1. \A e, f, g \in Text : Join(Join(e, f), g) = Join(e, Join(f, g))
        BY <1>4 DEF Join
      <4>2. Join(Join(x, c), b) = Join(x, Join(c, b))
        BY <1>1, <1>2, <1>3, <4>1
      <4> QED BY <4>2 DEF Join
    <3> QED BY <3>1, <3>2
  <2> HIDE DEF u, s
  <2>3. Trim(u \o b) = u
    BY <2>1, BeforeBlank DEF b
  <2>4. c \o <<>> = c
    BY <1>3, <1>4
  <2>5. Trim(s) = x \o (c \o <<>>)
    BY <2>2, <2>3, <2>4 DEF u
  <2>6. <<>> \in Text /\ Comma \notin Within(<<>>) /\ Trim(<<>>) = <<>>
    BY EmptyText, TrimIs
  <2> QED BY <1>6, <2>5, <2>6 DEF b, c, s, Join
<1> QED BY <1>5, <1>6

\* Operands that are tight are left alone in place.
LEMMA TightInPlace ==
    ASSUME NEW p, NEW op, NEW a, p = [op |-> op, a |-> a]
    PROVE  /\ TrimmedInPlace(p).op = op
           /\ \A n \in 1 .. 3 : a[n] \in Operand => TrimmedInPlace(p).a[n] = a[n]
<1> DEFINE F(n) == IF a[n] = Unset \/ TrimLeft(a[n]) = <<>> THEN a[n] ELSE TrimRight(a[n])
           q == TrimmedInPlace(p)
<1>1. q = [op |-> op, a |-> [n \in 1 .. 3 |-> F(n)]]
  BY DEF TrimmedInPlace
<1>2. ASSUME NEW n \in 1 .. 3, a[n] \in Operand PROVE F(n) = a[n]
  <2> DEFINE s == a[n]
  <2>1. s \in Text /\ Tight(s) /\ LeftTight(s)
    BY <1>2, TightIs DEF Operand
  <2>2. F(n) = IF s = Unset \/ TrimLeft(s) = <<>> THEN s ELSE TrimRight(s)
    OBVIOUS
  <2> HIDE DEF s, F
  <2>3. (IF s = Unset \/ TrimLeft(s) = <<>> THEN s ELSE TrimRight(s)) = s
    BY <2>1, InPlaceIs
  <2> QED BY <2>2, <2>3 DEF s
<1> HIDE DEF F
<1> QED BY <1>1, <1>2

LEMMA TwoRead ==
    ASSUME NEW op \in Token, op # Blank, NEW x \in Operand, NEW y \in Operand,
           NEW i, i = Ins(op, <<x, y>>)
    PROVE  LET q == Parse_instruction_args(Printed(i), Unset)
           IN  q = [op |-> <<op>>, a |-> <<x, y, Unset>>]
<1> DEFINE p == <<op>>
           b == <<Blank>>
           c == <<Comma>>
           s == Printed(i)
           pb == <<op, Blank>>
           cb == <<Comma, Blank>>
           v == Join(x, Join(c, Join(b, y)))
           q == Parse_instruction_args(s, Unset)
<1>1. x \in Text /\ y \in Text /\ Comma \notin Within(x)
  BY DEF Operand
<1>2. p \in Text /\ b \in Text /\ c \in Text
  BY TokensAre, OneToken
<1>3. pb = Join(p, b) /\ cb = Join(c, b)
  BY TokensAre, Joining DEF Join
<1>4. \A m, n \in Text : Join(m, n) \in Text /\ Join(m, <<>>) = m
  BY Joining DEF Join
<1>5. s = Join(Join(Join(Join(pb, x), cb), y), <<>>)
  <2>1. i.op = op /\ i.a[1] = x /\ i.a[2] = y /\ Len(i.a) = 2
    BY DEF Ins
  <2>2. s = pb \o i.a[1] \o cb \o i.a[2] \o (IF Len(i.a) = 3 THEN cb \o i.a[3] ELSE <<>>)
    BY <2>1 DEF Printed, Comma, Blank
  <2> HIDE DEF s, pb, cb
  <2>3. s = pb \o x \o cb \o y \o <<>>
    BY <2>1, <2>2
  <2> QED BY <2>3 DEF Join
<1> HIDE DEF p, b, c, s, pb, cb
<1>6. Join(Join(Join(Join(p, b), x), Join(c, b)), y) = Join(p, Join(b, v))
  BY <1>1, <1>2, Regrouped
<1>7. v \in Text /\ Join(p, Join(b, v)) \in Text
  BY <1>1, <1>2, <1>4
<1>8. s = Join(p, Join(b, v))
  BY <1>3, <1>4, <1>5, <1>6, <1>7
<1>9. Find(s, Blank) # 0 /\ Before(s, Blank) = p /\ Beyond(s, Blank) = v
  <2>1. s = Join(<<op>>, Join(<<Blank>>, v)) /\ v \in Text
    BY <1>7, <1>8 DEF p, b
  <2> HIDE DEF v
  <2>2. Find(s, Blank) # 0 /\ Before(s, Blank) = <<op>> /\ Beyond(s, Blank) = v
    BY <2>1, OperationRead
  <2> QED BY <2>2 DEF p
<1> DEFINE args == Trim(v)
<1>10. PICK w \in Text : args = Join(x, Join(c, w)) /\ Comma \notin Within(w) /\ Trim(w) = y
  BY LastOfTwo DEF b, c
<1> HIDE DEF v, args
<1>11. Find(args, Comma) # 0 /\ Before(args, Comma) = x /\ Beyond(args, Comma) = w
  <2>1. args = Join(x, Join(<<Comma>>, w)) /\ Comma \in Token
    BY <1>10, TokensAre DEF c
  <2> QED BY <1>1, <2>1, CutAt
<1>12. Find(w, Comma) = 0
  BY <1>10, FindIs
<1>13. q = [op |-> Before(s, Blank),
            a |-> IF Find(s, Blank) = 0 THEN <<Unset, Unset, Unset>>
                  ELSE IF Find(Trim(Beyond(s, Blank)), Comma) = 0
                       THEN <<Trim(Beyond(s, Blank)), Unset, Unset>>
                  ELSE IF Find(Beyond(Trim(Beyond(s, Blank)), Comma), Comma) = 0
                       THEN <<Before(Trim(Beyond(s, Blank)), Comma),
                              Trim(Beyond(Trim(Beyond(s, Blank)), Comma)), Unset>>
                  ELSE <<Before(Trim(Beyond(s, Blank)), Comma),
                         TrimLeft(Before(Beyond(Trim(Beyond(s, Blank)), Comma), Comma)),
                         Trim(Beyond(Beyond(Trim(Beyond(s, Blank)), Comma), Comma))>>]
  BY DEF Parse_instruction_args, Comma, Blank
<1> HIDE DEF q
<1>14. Trim(Beyond(s, Blank)) = args
  BY <1>9 DEF args
<1>15. q = [op |-> p, a |-> <<x, y, Unset>>]
  BY <1>9, <1>10, <1>11, <1>12, <1>13, <1>14
<1> QED BY <1>15 DEF p, q, s

LEMMA ThreeRead ==
    ASSUME NEW op \in Token, op # Blank, NEW x \in Operand, NEW y \in Operand, NEW z \in Present,
           NEW i, i = Ins(op, <<x, y, z>>)
    PROVE  LET q == Parse_instruction_args(Printed(i), Unset)
           IN  q = [op |-> <<op>>, a |-> <<x, y, z>>]
<1> DEFINE p == <<op>>
           b == <<Blank>>
           c == <<Comma>>
           s == Printed(i)
           pb == <<op, Blank>>
           cb == <<Comma, Blank>>
           by == Join(b, y)
           bz == Join(b, z)
           cbz == Join(c, bz)
           rest == Join(by, cbz)
           v == Join(x, Join(c, rest))
           q == Parse_instruction_args(s, Unset)
<1>1. /\ x \in Text /\ LeftTight(x) /\ Comma \notin Within(x)
      /\ y \in Text /\ Tight(y) /\ Comma \notin Within(y)
      /\ z \in Text /\ Tight(z) /\ z # <<>>
  BY TightIs DEF Operand, Present
<1>2. p \in Text /\ b \in Text /\ c \in Text
  BY TokensAre, OneToken
<1>3. pb = Join(p, b) /\ cb = Join(c, b)
  BY TokensAre, Joining DEF Join
<1>4. \A m, n \in Text :
        /\ Join(m, n) \in Text /\ Within(Join(m, n)) \subseteq Within(m) \cup Within(n)
        /\ LeftTight(m) /\ LeftTight(n) => LeftTight(Join(m, n))
        /\ n # <<>> /\ RightTight(n) => RightTight(Join(m, n))
        /\ n # <<>> => Join(m, n) # <<>>
  BY Joining, JoinTight DEF Join
<1>5. s = Join(Join(Join(Join(Join(p, b), x), Join(c, b)), y), Join(Join(c, b), z))
  <2>1. i.op = op /\ i.a[1] = x /\ i.a[2] = y /\ i.a[3] = z /\ Len(i.a) = 3
    BY DEF Ins
  <2>2. s = pb \o i.a[1] \o cb \o i.a[2] \o (IF Len(i.a) = 3 THEN cb \o i.a[3] ELSE <<>>)
    BY <2>1 DEF Printed, Comma, Blank
  <2> HIDE DEF s, pb, cb
  <2>3. s = pb \o x \o cb \o y \o (cb \o z)
    BY <2>1, <2>2
  <2>4. s = Join(Join(Join(Join(pb, x), cb), y), Join(cb, z))
    BY <2>3 DEF Join
  <2> QED BY <1>3, <2>4
<1>6. Comma \notin Within(b) /\ c # <<>> /\ LeftTight(c) /\ RightTight(c)
  BY BlankIs, CommaIs, TokensAre
<1>7. by \in Text /\ TrimLeft(by) = y
  BY <1>1, AfterBlank DEF Join
<1>8. bz \in Text /\ Trim(bz) = z /\ RightTight(bz)
  BY <1>1, AfterBlank DEF Join
<1> HIDE DEF p, b, c, s, pb, cb
<1>9. Comma \notin Within(by) /\ bz # <<>>
  BY <1>1, <1>2, <1>4, <1>6
<1>10. s = Join(p, Join(b, v))
  <2>1. Join(Join(Join(Join(Join(p, b), x), Join(c, b)), y), Join(Join(c, b), z))
          = Join(p, Join(b, Join(x, Join(c, Join(Join(b, y), Join(c, Join(b, z)))))))
    BY <1>1, <1>2, Regrouped
  <2> QED BY <1>5, <2>1
<1> HIDE DEF by, bz
<1>11. cbz \in Text /\ RightTight(cbz) /\ cbz # <<>>
  BY <1>2, <1>4, <1>8, <1>9
<1>12. rest \in Text /\ RightTight(rest) /\ rest # <<>>
  <2> HIDE DEF cbz
  <2> QED BY <1>4, <1>7, <1>11
<1>13. v \in Text /\ Tight(v)
  <2> HIDE DEF rest
  <2> DEFINE u == Join(c, rest)
  <2>1. u \in Text /\ RightTight(u) /\ u # <<>>
    BY <1>2, <1>4, <1>12
  <2>2. LeftTight(u)
    <3> DEFINE t == c \o rest
    <3>1. \A k \in 1 .. Len(c) : t[k] = c[k]
      BY <1>2, <1>12, JoinIs
    <3>2. 1 \in 1 .. Len(c)
      BY <1>2, <1>6, TextIs
    <3>3. u[1] = c[1]
      BY <3>1, <3>2 DEF Join
    <3> QED BY <1>6, <3>3 DEF LeftTight
  <2> HIDE DEF u
  <2>3. v = Join(x, u)
    BY DEF u
  <2> HIDE DEF v
  <2> QED BY <1>1, <1>4, <2>1, <2>2, <2>3, TightIs
<1>14. Find(s, Blank) # 0 /\ Before(s, Blank) = p /\ Beyond(s, Blank) = v
  <2>1. s = Join(<<op>>, Join(<<Blank>>, v)) /\ v \in Text
    BY <1>10, <1>13 DEF p, b
  <2> HIDE DEF v
  <2>2. Find(s, Blank) # 0 /\ Before(s, Blank) = <<op>> /\ Beyond(s, Blank) = v
    BY <2>1, OperationRead
  <2> QED BY <2>2 DEF p
<1>15. Trim(v) = v
  BY <1>13, TrimIs
<1>16. Find(v, Comma) # 0 /\ Before(v, Comma) = x /\ Beyond(v, Comma) = rest
  <2>1. v = Join(x, Join(<<Comma>>, rest)) /\ Comma \in Token
    BY TokensAre DEF c
  <2> HIDE DEF v, rest
  <2> QED BY <1>1, <1>12, <2>1, CutAt
<1>17. Find(rest, Comma) # 0 /\ Before(rest, Comma) = by /\ Beyond(rest, Comma) = bz
  <2>1. rest = Join(by, Join(<<Comma>>, bz)) /\ Comma \in Token
    BY TokensAre DEF c
  <2> HIDE DEF rest
  <2> QED BY <1>7, <1>8, <1>9, <2>1, CutAt
<1>18. q = [op |-> Before(s, Blank),
            a |-> IF Find(s, Blank) = 0 THEN <<Unset, Unset, Unset>>
                  ELSE IF Find(Trim(Beyond(s, Blank)), Comma) = 0
                       THEN <<Trim(Beyond(s, Blank)), Unset, Unset>>
                  ELSE IF Find(Beyond(Trim(Beyond(s, Blank)), Comma), Comma) = 0
                       THEN <<Before(Trim(Beyond(s, Blank)), Comma),
                              Trim(Beyond(Trim(Beyond(s, Blank)), Comma)), Unset>>
                  ELSE <<Before(Trim(Beyond(s, Blank)), Comma),
                         TrimLeft(Before(Beyond(Trim(Beyond(s, Blank)), Comma), Comma)),
                         Trim(Beyond(Beyond(Trim(Beyond(s, Blank)), Comma), Comma))>>]
  BY DEF Parse_instruction_args, Comma, Blank
<1> HIDE DEF q, v, rest
<1>19. Trim(Beyond(s, Blank)) = v
  BY <1>14, <1>15
<1>20. q = [op |-> p, a |-> <<x, y, z>>]
  BY <1>7, <1>8, <1>14, <1>16, <1>17, <1>18, <1>19
<1> QED BY <1>20 DEF p, q, s

\* An instruction of an expansion is read back as it was.
LEMMA ReadBackIs ==
    ASSUME NEW i \in Instructions
    PROVE  LET p == ReadBack(i)
           IN  /\ p.read.op = <<p.meant.op>>
               /\ \A n \in DOMAIN p.meant.a : p.read.a[n] = p.meant.a[n]
<1> DEFINE q == Parse_instruction_args(Printed(i), Unset)
           r == TrimmedInPlace(q)
<1>1. ReadBack(i).meant = i /\ ReadBack(i).read = r
  BY DEF ReadBack
<1>2. OfTwo \subseteq Token \ {Blank} /\ OfThree \subseteq Token \ {Blank}
  <2>1. \A e \in OfTwo \cup OfThree : e \in Token
    BY TokensAssumption, Zenon DEF OfTwo, OfThree, Token
  <2>2. \A e \in OfTwo \cup OfThree : e # Blank
    BY Zenon DEF OfTwo, OfThree, Blank
  <2> QED BY <2>1, <2>2
<1>3. CASE i \in WithTwo
  <2>1. PICK op \in OfTwo, x \in Operand, y \in Operand : i = Ins(op, <<x, y>>)
    BY <1>3 DEF WithTwo
  <2> DEFINE a == <<x, y, Unset>>
  <2>2. op \in Token /\ op # Blank
    BY <1>2
  <2>3. q = [op |-> <<op>>, a |-> a]
    BY <2>1, <2>2, TwoRead
  <2>4. a[1] = x /\ a[2] = y
    OBVIOUS
  <2>5. i.op = op /\ DOMAIN i.a = 1 .. 2 /\ i.a[1] = x /\ i.a[2] = y
    BY <2>1 DEF Ins
  <2> HIDE DEF q, a
  <2>6. r.op = <<op>> /\ r.a[1] = x /\ r.a[2] = y
    BY <2>3, <2>4, TightInPlace
  <2> HIDE DEF r
  <2>7. \A n \in 1 .. 2 : r.a[n] = i.a[n]
    BY <2>5, <2>6
  <2> QED BY <1>1, <2>5, <2>6, <2>7 DEF r, q
<1>4. CASE i \in WithThree
  <2>1. PICK op \in OfThree, x \in Operand, y \in Operand, z \in Present : i = Ins(op, <<x, y, z>>)
    BY <1>4 DEF WithThree
  <2> DEFINE a == <<x, y, z>>
  <2>2. op \in Token /\ op # Blank /\ z \in Operand
    BY <1>2 DEF Present
  <2>3. q = [op |-> <<op>>, a |-> a]
    BY <2>1, <2>2, ThreeRead
  <2>4. a[1] = x /\ a[2] = y /\ a[3] = z
    OBVIOUS
  <2>5. i.op = op /\ DOMAIN i.a = 1 .. 3 /\ i.a[1] = x /\ i.a[2] = y /\ i.a[3] = z
    BY <2>1 DEF Ins
  <2> HIDE DEF q, a
  <2>6. r.op = <<op>> /\ r.a[1] = x /\ r.a[2] = y /\ r.a[3] = z
    BY <2>2, <2>3, <2>4, TightInPlace
  <2> HIDE DEF r
  <2>7. \A n \in 1 .. 3 : r.a[n] = i.a[n]
    BY <2>5, <2>6
  <2> QED BY <1>1, <2>5, <2>6, <2>7 DEF r, q
<1> QED BY <1>3, <1>4 DEF Instructions

\* Whatever operands a line has, each instruction its pseudoinstruction is
\* expanded to is encoded from the operands the expansion gave it.
THEOREM ExpansionReadBackAlways == LinesSpec => []ExpansionReadBack
<1>1. LinesInv => ExpansionReadBack
  <2> SUFFICES ASSUME LinesInv, NEW k \in DOMAIN parsed
               PROVE  LET p == parsed[k]
                      IN  /\ p.read.op = <<p.meant.op>>
                          /\ \A n \in DOMAIN p.meant.a : p.read.a[n] = p.meant.a[n]
    BY DEF ExpansionReadBack
  <2>1. PICK i \in Instructions : parsed[k] = ReadBack(i)
    BY DEF LinesInv, Expanded
  <2> QED BY <2>1, ReadBackIs
<1> QED BY <1>1, LinesInvHolds, PTL

----------------------------------------------------------------------------
(* Lines written as instructions.                                          *)

\* What a part of an instruction may not contain, runs of space, operands,
\* and names of labels and operations.
Hash == "#"
Colon == ":"
Close == ")"
Globl == ".globl"
Marks == {Hash, Colon, Comma, Paren, Close, Globl}
Gap == {s \in Text : Within(s) \subseteq Space}
Argument == {s \in Text : s # <<>> /\ Tight(s) /\ Within(s) \cap Marks = {}}
Name == Token \ (Space \cup Marks \cup Directives)

LEMMA MarksAre ==
    /\ Hash \in Token /\ Colon \in Token /\ Paren \in Token /\ Close \in Token
    /\ \A c \in Marks : c \notin Space /\ c # Blank
    /\ Hash # Colon /\ Hash # Comma /\ Hash # Paren /\ Hash # Close /\ Hash # Globl
    /\ Colon # Comma /\ Colon # Paren /\ Colon # Close /\ Colon # Globl
    /\ Comma # Paren /\ Comma # Close /\ Comma # Globl
    /\ Paren # Close /\ Paren # Globl /\ Close # Globl
<1>1. Hash \in Token /\ Colon \in Token /\ Paren \in Token /\ Close \in Token
  BY TokensAssumption, Zenon DEF Hash, Colon, Paren, Close, Token
<1>2. \A c \in Marks : c \notin Space /\ c # Blank
  BY DEF Marks, Hash, Colon, Comma, Paren, Close, Globl, Space, Blank
<1>3. /\ Hash # Colon /\ Hash # Comma /\ Hash # Paren /\ Hash # Close /\ Hash # Globl
      /\ Colon # Comma /\ Colon # Paren /\ Colon # Close /\ Colon # Globl
      /\ Comma # Paren /\ Comma # Close /\ Comma # Globl
      /\ Paren # Close /\ Paren # Globl /\ Close # Globl
  BY DEF Hash, Colon, Comma, Paren, Close, Globl
<1> QED BY <1>1, <1>2, <1>3

LEMMA GapIs ==
    /\ <<>> \in Gap
    /\ \A g \in Gap : g \in Text /\ \A n \in 1 .. Len(g) : g[n] \in Space
    /\ \A g \in Gap : \A c \in Marks : c \notin Within(g)
<1>1. <<>> \in Gap
  BY EmptyText DEF Gap
<1>2. ASSUME NEW g \in Gap PROVE g \in Text /\ \A n \in 1 .. Len(g) : g[n] \in Space
  BY DEF Gap, Within
<1>3. \A g \in Gap : \A c \in Marks : c \notin Within(g)
  BY MarksAre DEF Gap
<1> QED BY <1>1, <1>2, <1>3

LEMMA ArgumentIs ==
    ASSUME NEW x \in Argument
    PROVE  /\ x \in Text /\ x # <<>> /\ Tight(x) /\ LeftTight(x) /\ RightTight(x)
           /\ \A c \in Marks : c \notin Within(x)
BY TightIs DEF Argument

LEMMA NameIs ==
    ASSUME NEW e \in Name
    PROVE  /\ e \in Token /\ e # Blank /\ e \notin Directives
           /\ <<e>> \in Text /\ <<e>> # <<>> /\ <<e>>[1] = e /\ Tight(<<e>>)
           /\ LeftTight(<<e>>) /\ RightTight(<<e>>)
           /\ \A c \in Marks : c \notin Within(<<e>>)
<1> DEFINE s == <<e>>
<1>1. e \in Token /\ e \notin Space /\ e \notin Marks /\ e \notin Directives
  BY DEF Name
<1>2. s \in Text /\ Len(s) = 1 /\ s[1] = e /\ Within(s) = {e}
  BY <1>1, OneToken
<1> HIDE DEF s
<1>3. s # <<>>
  BY <1>2, EmptyText
<1>4. LeftTight(s) /\ RightTight(s)
  BY <1>1, <1>2 DEF LeftTight, RightTight
<1>5. e # Blank
  BY <1>1, TokensAre
<1> QED BY <1>1, <1>2, <1>3, <1>4, <1>5, TightIs DEF s

\* One mark.
LEMMA MarkIs ==
    ASSUME NEW c \in Token, c \notin Space
    PROVE  /\ <<c>> \in Text /\ <<c>> # <<>> /\ LeftTight(<<c>>) /\ RightTight(<<c>>)
           /\ \A d : d # c => d \notin Within(<<c>>)
<1> DEFINE s == <<c>>
<1>1. s \in Text /\ Len(s) = 1 /\ s[1] = c /\ Within(s) = {c}
  BY OneToken
<1> HIDE DEF s
<1>2. s # <<>>
  BY <1>1, EmptyText
<1> QED BY <1>1, <1>2 DEF s, LeftTight, RightTight

\* How the ends of a joined text, and what it lacks, follow from its parts.
LEMMA Joined ==
    ASSUME NEW s \in Text, NEW t \in Text
    PROVE  /\ Join(s, t) \in Text
           /\ s # <<>> => Join(s, t) # <<>> /\ Join(s, t)[1] = s[1]
           /\ s # <<>> /\ LeftTight(s) => LeftTight(Join(s, t))
           /\ t # <<>> /\ RightTight(t) => RightTight(Join(s, t)) /\ Join(s, t) # <<>>
           /\ \A c : c \notin Within(s) /\ c \notin Within(t) => c \notin Within(Join(s, t))
<1> DEFINE u == s \o t
<1>1. /\ u \in Text /\ Len(u) = Len(s) + Len(t)
      /\ \A k \in 1 .. Len(s) : u[k] = s[k]
      /\ Within(u) \subseteq Within(s) \cup Within(t)
  BY JoinIs, Joining
<1>2. u = Join(s, t)
  BY DEF Join
<1>3. t # <<>> /\ RightTight(t) => RightTight(u) /\ u # <<>>
  BY JoinTight
<1> HIDE DEF u
<1>4. Len(s) \in Nat /\ Len(t) \in Nat /\ (s = <<>> <=> Len(s) = 0) /\ (u = <<>> <=> Len(u) = 0)
  BY <1>1, TextIs
<1>5. s # <<>> => u # <<>> /\ u[1] = s[1]
  BY <1>1, <1>4
<1>6. s # <<>> /\ LeftTight(s) => LeftTight(u)
  BY <1>5 DEF LeftTight
<1> QED BY <1>1, <1>2, <1>3, <1>5, <1>6

LEMMA Nested ==
    /\ \A s, t, u \in Text : Join(Join(s, t), u) = Join(s, Join(t, u))
    /\ \A s \in Text : Join(s, <<>>) = s /\ Join(<<>>, s) = s
BY Joining DEF Join

\* Space around a tight text is trimmed away.
LEMMA GapLeft ==
    ASSUME NEW g \in Gap, NEW x \in Text, x # <<>>, LeftTight(x)
    PROVE  TrimLeft(Join(g, x)) = x
<1> DEFINE s == Join(g, x)
           p == Len(g) + 1
           r == SubSeq(s, p, Len(s))
<1>1. g \in Text /\ \A n \in 1 .. Len(g) : g[n] \in Space
  BY GapIs
<1>2. Len(g) \in Nat /\ Len(x) \in Nat /\ Len(x) # 0 /\ x[1] \notin Space
  BY <1>1, TextIs DEF LeftTight
<1>3. /\ s \in Text /\ Len(s) = Len(g) + Len(x)
      /\ \A k \in 1 .. Len(g) : s[k] = g[k]
      /\ \A k \in 1 .. Len(x) : s[Len(g) + k] = x[k]
  BY <1>1, JoinIs DEF Join
<1> HIDE DEF s
<1>4. s[p] \notin Space
  <2>1. 1 \in 1 .. Len(x)
    BY <1>2
  <2>2. s[Len(g) + 1] = x[1]
    BY <1>3, <2>1
  <2> QED BY <1>2, <2>2
<1>5. p \in 1 .. Len(s) /\ p - 1 = Len(g)
  BY <1>2, <1>3
<1>6. \A n \in 1 .. p - 1 : s[n] \in Space
  BY <1>1, <1>3, <1>5
<1>7. p \in 1 .. Len(s) + 1 /\ Len(s) \in p - 1 .. Len(s) /\ Len(s) - p + 1 = Len(x)
  BY <1>2, <1>3
<1>8. \A k \in Int : p + k - 1 = Len(g) + k
  BY <1>2
<1> HIDE DEF p
<1>9. TrimLeft(s) = r
  BY <1>3, <1>4, <1>5, <1>6, TrimLeftIs
<1>10. r \in Text /\ Len(r) = Len(s) - p + 1 /\ \A k \in 1 .. Len(s) - p + 1 : r[k] = s[p + k - 1]
  BY <1>3, <1>7, SliceIs
<1> HIDE DEF r
<1>11. r = x
  <2>1. \A k \in 1 .. Len(x) : r[k] = x[k]
    <3> TAKE k \in 1 .. Len(x)
    <3>1. p + k - 1 = Len(g) + k
      BY <1>8
    <3> QED BY <1>3, <1>7, <1>10, <3>1
  <2> QED BY <1>7, <1>10, <2>1, SameText
<1> QED BY <1>9, <1>11 DEF s

LEMMA GapRight ==
    ASSUME NEW g \in Gap, NEW x \in Text, x # <<>>, RightTight(x)
    PROVE  TrimRight(Join(x, g)) = x
<1> DEFINE s == Join(x, g)
           r == TrimRight(s)
<1>1. g \in Text /\ \A n \in 1 .. Len(g) : g[n] \in Space
  BY GapIs
<1>2. Len(g) \in Nat /\ Len(x) \in Nat /\ Len(x) # 0 /\ x[Len(x)] \notin Space
  BY <1>1, TextIs DEF RightTight
<1>3. /\ s \in Text /\ Len(s) = Len(x) + Len(g)
      /\ \A k \in 1 .. Len(x) : s[k] = x[k]
      /\ \A k \in 1 .. Len(g) : s[Len(x) + k] = g[k]
  BY <1>1, JoinIs DEF Join
<1> HIDE DEF s
<1>4. /\ r \in Text /\ RightTight(r) /\ Len(r) <= Len(s)
      /\ \A n \in 1 .. Len(r) : r[n] = s[n]
      /\ \A n \in 1 .. Len(s) : s[n] \notin Space => n <= Len(r)
  BY <1>3, TrimRightIs
<1> HIDE DEF r
<1>5. Len(r) \in Nat /\ Len(x) <= Len(r) /\ r # <<>>
  <2>1. Len(x) \in 1 .. Len(s) /\ Len(x) \in 1 .. Len(x)
    BY <1>2, <1>3
  <2>2. Len(x) <= Len(r)
    BY <1>2, <1>3, <1>4, <2>1
  <2> QED BY <1>2, <1>4, <2>2, TextIs
<1>6. ~(Len(x) < Len(r))
  <2> SUFFICES ASSUME Len(x) < Len(r) PROVE FALSE
    OBVIOUS
  <2> DEFINE k == Len(r) - Len(x)
  <2>1. k \in 1 .. Len(g) /\ Len(x) + k = Len(r) /\ Len(r) \in 1 .. Len(r)
    BY <1>2, <1>3, <1>4, <1>5
  <2> HIDE DEF k
  <2>2. r[Len(r)] = s[Len(x) + k] /\ s[Len(x) + k] = g[k]
    BY <1>3, <1>4, <2>1
  <2> QED BY <1>1, <1>4, <1>5, <2>1, <2>2 DEF RightTight
<1>7. r = x
  <2>1. Len(r) = Len(x)
    BY <1>2, <1>5, <1>6
  <2> QED BY <1>3, <1>4, <2>1, SameText
<1> QED BY <1>7 DEF r, s

LEMMA Surrounded ==
    ASSUME NEW g \in Gap, NEW h \in Gap, NEW x \in Text, x # <<>>, Tight(x)
    PROVE  /\ Trim(Join(g, Join(x, h))) = x /\ Trim(Join(g, x)) = x /\ Trim(Join(x, h)) = x
           /\ TrimLeft(Join(g, Join(x, h))) = Join(x, h)
           /\ TrimLeft(Join(x, h)) = Join(x, h) /\ TrimRight(Join(x, h)) = x
           /\ Join(x, h) \in Text /\ Join(x, h) # <<>>
<1>1. g \in Text /\ h \in Text /\ LeftTight(x) /\ RightTight(x)
  BY GapIs, TightIs
<1>2. Join(g, x) \in Text /\ Join(g, x) # <<>> /\ RightTight(Join(g, x))
  BY <1>1, Joined
<1>3. Join(x, h) \in Text /\ Join(x, h) # <<>> /\ LeftTight(Join(x, h))
  BY <1>1, Joined
<1>4. Join(g, Join(x, h)) = Join(Join(g, x), h)
  BY <1>1, Nested
<1>5. TrimRight(Join(Join(g, x), h)) = Join(g, x) /\ TrimRight(Join(x, h)) = x
  BY <1>1, <1>2, GapRight
<1>6. TrimLeft(Join(g, x)) = x /\ TrimLeft(x) = x
  BY <1>1, GapLeft, TrimLeftIs
<1>7. Trim(Join(g, x)) = TrimLeft(Join(g, x))
  BY <1>2, TrimIs
<1>8. TrimLeft(Join(g, Join(x, h))) = Join(x, h) /\ TrimLeft(Join(x, h)) = Join(x, h)
  BY <1>3, GapLeft, TrimLeftIs
<1>9. /\ Trim(Join(Join(g, x), h)) = TrimLeft(Join(g, x))
      /\ Trim(Join(x, h)) = TrimLeft(x)
  BY <1>5 DEF Trim
<1> QED BY <1>3, <1>4, <1>5, <1>6, <1>7, <1>8, <1>9

\* What is trimmed off the right of a text is trimmed off its last part.
LEMMA LastPart ==
    ASSUME NEW u \in Text, u # <<>>, RightTight(u), NEW k \in Text
    PROVE  \E l \in Text : /\ Within(l) \subseteq Within(k)
                           /\ TrimRight(Join(u, k)) = Join(u, l)
<1> DEFINE s == u \o k
           r == TrimRight(s)
           d == Len(r) - Len(u)
           l == SubSeq(k, 1, d)
           v == u \o l
<1>1. /\ s \in Text /\ Len(s) = Len(u) + Len(k)
      /\ \A n \in 1 .. Len(u) : s[n] = u[n]
      /\ \A n \in 1 .. Len(k) : s[Len(u) + n] = k[n]
  BY JoinIs
<1>2. s = Join(u, k) /\ v = Join(u, l)
  BY DEF Join
<1> HIDE DEF s
<1>3. /\ r \in Text /\ Len(r) <= Len(s)
      /\ \A n \in 1 .. Len(r) : r[n] = s[n]
      /\ \A n \in 1 .. Len(s) : s[n] \notin Space => n <= Len(r)
  BY <1>1, TrimRightIs
<1> HIDE DEF r
<1>4. /\ Len(u) \in Nat /\ Len(u) # 0 /\ Len(k) \in Nat /\ Len(r) \in Nat
      /\ u[Len(u)] \notin Space
  BY <1>3, TextIs DEF RightTight
<1>5. Len(u) <= Len(r)
  <2>1. Len(u) \in 1 .. Len(s) /\ Len(u) \in 1 .. Len(u)
    BY <1>1, <1>4
  <2> QED BY <1>1, <1>3, <1>4, <2>1
<1>6. d \in 0 .. Len(k) /\ Len(u) + d = Len(r)
  BY <1>1, <1>3, <1>4, <1>5
<1> HIDE DEF d
<1>7. /\ 1 \in 1 .. Len(k) + 1 /\ d \in 1 - 1 .. Len(k) /\ d - 1 + 1 = d
      /\ \A n \in Int : 1 + n - 1 = n
  BY <1>4, <1>6
<1>8. /\ l \in Text /\ Len(l) = d - 1 + 1 /\ Within(l) \subseteq Within(k)
      /\ \A n \in 1 .. d - 1 + 1 : l[n] = k[1 + n - 1]
  BY <1>7, SliceIs
<1> HIDE DEF l
<1>9. Len(l) = d /\ \A n \in 1 .. d : l[n] = k[n]
  BY <1>7, <1>8
<1>10. /\ v \in Text /\ Len(v) = Len(u) + Len(l)
       /\ \A n \in 1 .. Len(u) : v[n] = u[n]
       /\ \A n \in 1 .. Len(l) : v[Len(u) + n] = l[n]
  BY <1>8, JoinIs
<1> HIDE DEF v
<1>11. r = v
  <2>1. ASSUME NEW n \in 1 .. Len(r) PROVE r[n] = v[n]
    <3>1. CASE n \in 1 .. Len(u)
      BY <1>1, <1>3, <1>10, <3>1
    <3>2. CASE n \notin 1 .. Len(u)
      <4> DEFINE m == n - Len(u)
      <4>1. m \in 1 .. d /\ Len(u) + m = n /\ m \in 1 .. Len(k) /\ m \in 1 .. Len(l)
        BY <1>4, <1>6, <1>9, <3>2
      <4> HIDE DEF m
      <4>2. s[Len(u) + m] = k[m] /\ v[Len(u) + m] = l[m] /\ l[m] = k[m]
        BY <1>1, <1>9, <1>10, <4>1
      <4> QED BY <1>3, <4>1, <4>2
    <3> QED BY <3>1, <3>2
  <2>2. Len(r) = Len(v)
    BY <1>6, <1>9, <1>10
  <2> QED BY <1>3, <1>10, <2>1, <2>2, SameText
<1>12. TrimRight(Join(u, k)) = Join(u, l)
  BY <1>2, <1>11 DEF r
<1> QED BY <1>8, <1>12

\* Comments: nothing, or anything after a # (but .globl, which has the line
\* passed over).
Remark == {<<>>} \cup {Join(<<Hash>>, k) : k \in {s \in Text : Globl \notin Within(s)}}

\* The space around an instruction and its comment are cut off.
LEMMA CommentCut ==
    ASSUME NEW pad \in Gap, NEW gap \in Gap, NEW remark \in Remark,
           NEW code \in Text, code # <<>>, Tight(code),
           Hash \notin Within(code), Globl \notin Within(code),
           NEW given, given = Join(pad, Join(code, Join(gap, remark)))
    PROVE  \E r \in Text : /\ Trim(given) = Join(code, r) /\ Globl \notin Within(r)
                           /\ Uncommented(Trim(given)) = code
<1>1. pad \in Text /\ gap \in Text /\ LeftTight(code) /\ RightTight(code)
      /\ Hash \notin Within(gap) /\ Globl \notin Within(gap)
  BY GapIs, TightIs, MarksAre DEF Marks
<1>2. CASE remark = <<>>
  <2>1. Join(gap, remark) = gap
    BY <1>1, <1>2, Nested
  <2>2. Trim(given) = code
    BY <2>1, Surrounded
  <2>3. Find(code, Hash) = 0
    BY FindIs
  <2>4. Before(code, Hash) = code
    BY <2>3, AroundIs
  <2>5. Uncommented(code) = Trim(code)
    BY <2>4 DEF Uncommented, Hash
  <2>6. Trim(code) = code /\ Join(code, <<>>) = code
    BY TrimIs, Nested
  <2>7. <<>> \in Text /\ Globl \notin Within(<<>>)
    BY EmptyText
  <2> QED BY <2>2, <2>5, <2>6, <2>7
<1>3. CASE remark # <<>>
  <2> DEFINE o == <<Hash>>
  <2>1. PICK k \in Text : Globl \notin Within(k) /\ remark = Join(o, k)
    BY <1>3 DEF Remark
  <2>2. o \in Text /\ o # <<>> /\ RightTight(o) /\ Globl \notin Within(o)
    <3>1. Hash \in Token /\ Hash \notin Space /\ Globl # Hash
      BY MarksAre DEF Marks
    <3> QED BY <3>1, MarkIs
  <2> HIDE DEF o
  <2> DEFINE f == Join(gap, o)
             u == Join(code, f)
             pu == Join(pad, u)
  <2>3. f \in Text /\ f # <<>> /\ RightTight(f)
    BY <1>1, <2>2, Joined
  <2>4. Join(gap, remark) = Join(f, k)
    BY <1>1, <2>1, <2>2, Nested
  <2> HIDE DEF f
  <2>5. u \in Text /\ u # <<>> /\ RightTight(u) /\ LeftTight(u)
    BY <1>1, <2>3, Joined
  <2>6. Join(code, Join(f, k)) = Join(u, k)
    BY <2>1, <2>3, Nested
  <2> HIDE DEF u
  <2>7. pu \in Text /\ pu # <<>> /\ RightTight(pu)
    BY <1>1, <2>5, Joined
  <2>8. given = Join(pu, k)
    <3>1. given = Join(pad, Join(u, k))
      BY <2>4, <2>6
    <3> QED BY <1>1, <2>1, <2>5, <3>1, Nested
  <2> HIDE DEF pu
  <2>9. PICK l \in Text : Within(l) \subseteq Within(k) /\ TrimRight(given) = Join(pu, l)
    BY <2>1, <2>7, <2>8, LastPart
  <2> DEFINE w == Join(u, l)
             r == Join(gap, Join(o, l))
  <2>10. w \in Text /\ w # <<>> /\ LeftTight(w)
    BY <2>5, <2>9, Joined
  <2>11. Join(pu, l) = Join(pad, w)
    BY <1>1, <2>5, <2>9, Nested DEF pu
  <2>12. Trim(given) = w
    <3> HIDE DEF w
    <3> QED BY <2>9, <2>10, <2>11, GapLeft DEF Trim
  <2>13. Globl \notin Within(l)
    BY <2>1, <2>9
  <2>14. Join(o, l) \in Text /\ Globl \notin Within(Join(o, l))
    BY <2>2, <2>9, <2>13, Joined
  <2>15. r \in Text /\ Globl \notin Within(r)
    BY <1>1, <2>14, Joined
  <2>16. Join(f, l) = r
    BY <1>1, <2>2, <2>9, Nested DEF f
  <2>17. w = Join(code, r)
    BY <2>3, <2>9, <2>16, Nested DEF u
  <2> DEFINE cg == Join(code, gap)
             ol == Join(o, l)
  <2>18. cg \in Text /\ Hash \notin Within(cg)
    BY <1>1, Joined
  <2>19. w = Join(cg, ol)
    BY <1>1, <2>14, <2>17, Nested
  <2> HIDE DEF w, cg, r
  <2>20. Before(w, Hash) = cg
    <3>1. w = Join(cg, Join(<<Hash>>, l)) /\ Hash \in Token
      BY <2>19, MarksAre DEF o
    <3> QED BY <2>9, <2>18, <3>1, CutAt
  <2>21. Uncommented(w) = Trim(cg)
    BY <2>20 DEF Uncommented, Hash
  <2>22. Trim(cg) = code
    BY Surrounded DEF cg
  <2> QED BY <2>12, <2>15, <2>17, <2>21, <2>22
<1> QED BY <1>2, <1>3

\* A line that starts with a name is not passed over.
LEMMA NotPassedOver ==
    ASSUME NEW s \in Text, s # <<>>, s[1] \in Name, Globl \notin Within(s)
    PROVE  ~Passed_over(s)
<1>1. s[1] # Hash /\ s[1] \notin Directives
  BY DEF Name, Marks
<1>2. s[1] \notin {"#", ".section"}
  BY <1>1 DEF Hash, Directives
<1>3. ASSUME NEW d \in Sections PROVE s # <<d>>
  <2>1. d \in Directives
    BY DEF Directives
  <2> QED BY <1>1, <2>1
<1>4. Find(s, ".globl") = 0
  BY FindIs DEF Globl
<1> QED BY <1>2, <1>3, <1>4 DEF Passed_over

\* The text of a label: none, or a name and its colon.
LabelText(t, label) ==
    \/ t = <<>> /\ label = <<>>
    \/ \E e \in Name : \E g, h \in Gap :
         label = <<e>> /\ t = Join(<<e>>, Join(g, Join(<<Colon>>, h)))

\* What a label and an instruction make together.
LEMMA LabelledIs ==
    ASSUME NEW t, NEW label, LabelText(t, label), NEW body \in Text, body # <<>>, Tight(body),
           body[1] \in Name
    PROVE  LET code == Join(t, body)
           IN  /\ code \in Text /\ code # <<>> /\ Tight(code) /\ code[1] \in Name
               /\ \A c \in {Hash, Globl} : c \notin Within(body) => c \notin Within(code)
               /\ \A s : (Uncommented(s) = code /\ Colon \notin Within(body)) =>
                            Body(s) = body /\ LabelOf(s) = label
<1> DEFINE code == Join(t, body)
<1>1. LeftTight(body) /\ RightTight(body)
  BY TightIs
<1>2. CASE t = <<>> /\ label = <<>>
  <2>1. code = body
    BY <1>2, Nested
  <2>2. ASSUME NEW s, Uncommented(s) = code, Colon \notin Within(body)
        PROVE  Body(s) = body /\ LabelOf(s) = label
    <3>1. Find(body, Colon) = 0
      BY <2>2, FindIs
    <3>2. Body(s) = TrimLeft(body) /\ LabelOf(s) = <<>>
      BY <2>1, <2>2, <3>1 DEF Body, LabelOf, Colon
    <3> QED BY <1>1, <1>2, <3>2, TrimLeftIs
  <2> QED BY <2>1, <2>2
<1>3. CASE ~(t = <<>> /\ label = <<>>)
  <2>1. PICK e \in Name : \E g, h \in Gap :
          label = <<e>> /\ t = Join(<<e>>, Join(g, Join(<<Colon>>, h)))
    BY <1>3 DEF LabelText
  <2>2. PICK g \in Gap, h \in Gap :
          label = <<e>> /\ t = Join(<<e>>, Join(g, Join(<<Colon>>, h)))
    BY <2>1
  <2> DEFINE x == <<e>>
             o == <<Colon>>
             hb == Join(h, body)
             ohb == Join(o, hb)
             xg == Join(x, g)
  <2>3. /\ x \in Text /\ x # <<>> /\ x[1] = e /\ Tight(x) /\ LeftTight(x)
        /\ \A c \in Marks : c \notin Within(x)
    BY NameIs
  <2>4. /\ o \in Text /\ o # <<>> /\ Hash \notin Within(o) /\ Globl \notin Within(o)
    <3>1. Colon \in Token /\ Colon \notin Space /\ Hash # Colon /\ Globl # Colon
      BY MarksAre DEF Marks
    <3> QED BY <3>1, MarkIs
  <2>5. g \in Text /\ h \in Text /\ \A c \in Marks : c \notin Within(g) /\ c \notin Within(h)
    BY GapIs
  <2>6. t = Join(x, Join(g, Join(o, h)))
    BY <2>2
  <2>7. label = x
    BY <2>2
  <2> HIDE DEF x, o
  <2>8. Join(o, h) \in Text /\ Join(g, Join(o, h)) \in Text
    BY <2>4, <2>5, Joined
  <2>9. hb \in Text /\ hb # <<>> /\ RightTight(hb)
    BY <1>1, <2>5, Joined
  <2>10. code = Join(x, Join(g, Join(o, hb)))
    <3>1. code = Join(x, Join(Join(g, Join(o, h)), body))
      BY <2>3, <2>6, <2>8, Nested
    <3>2. Join(Join(g, Join(o, h)), body) = Join(g, Join(Join(o, h), body))
      BY <2>5, <2>8, Nested
    <3>3. Join(Join(o, h), body) = Join(o, Join(h, body))
      BY <2>4, <2>5, Nested
    <3> QED BY <3>1, <3>2, <3>3
  <2> HIDE DEF hb
  <2>11. ohb \in Text /\ ohb # <<>> /\ RightTight(ohb)
    BY <2>4, <2>9, Joined
  <2>12. code = Join(xg, ohb) /\ xg \in Text
    BY <2>3, <2>5, <2>10, <2>11, Joined, Nested
  <2>13. xg # <<>> /\ xg[1] = e /\ LeftTight(xg)
    BY <2>3, <2>5, Joined
  <2>14. \A c \in Marks : c \notin Within(xg)
    BY <2>3, <2>5, Joined
  <2> HIDE DEF code, xg, ohb
  <2>15. /\ code \in Text /\ code # <<>> /\ code[1] = e
         /\ LeftTight(code) /\ RightTight(code)
    BY <2>11, <2>12, <2>13, Joined
  <2>16. ASSUME NEW c \in {Hash, Globl}, c \notin Within(body) PROVE c \notin Within(code)
    <3>1. c \in Marks /\ c \notin Within(o)
      BY <2>4 DEF Marks
    <3>2. c \notin Within(hb)
      BY <2>5, <2>16, <3>1, Joined DEF hb
    <3>3. c \notin Within(ohb)
      BY <2>4, <2>9, <3>1, <3>2, Joined DEF ohb
    <3> QED BY <2>11, <2>12, <2>14, <3>1, <3>3, Joined
  <2>17. ASSUME NEW s, Uncommented(s) = code
         PROVE  Body(s) = body /\ LabelOf(s) = label
    <3>1. Colon \in Marks /\ Colon \in Token
      BY MarksAre DEF Marks
    <3>2. code = Join(xg, Join(<<Colon>>, hb)) /\ Colon \notin Within(xg)
      BY <2>12, <2>14, <3>1 DEF ohb, o
    <3>3. Find(code, Colon) # 0 /\ Before(code, Colon) = xg /\ Beyond(code, Colon) = hb
      BY <2>9, <2>12, <3>1, <3>2, CutAt
    <3>4. Body(s) = TrimLeft(hb) /\ LabelOf(s) = Trim(xg)
      BY <2>17, <3>3 DEF Body, LabelOf, Colon
    <3>5. TrimLeft(hb) = body
      BY <1>1, GapLeft DEF hb
    <3>6. Trim(xg) = x
      BY <2>3, Surrounded DEF xg
    <3> QED BY <2>7, <3>4, <3>5, <3>6
  <2> QED BY <2>15, <2>16, <2>17, TightIs DEF code
<1> QED BY <1>2, <1>3

\* An operation alone, or one and a blank: what pass 1 takes for it.
LEMMA OperationOf1 ==
    ASSUME NEW op \in Name, NEW v, v = <<>> \/ \E w \in Text : v = Join(<<Blank>>, w)
    PROVE  Parse_simple_args(Join(<<op>>, v)).op = <<op>>
<1> DEFINE p == <<op>>
           b == Join(p, v)
           k == SelectInSeq(b, LAMBDA t : t \in Space)
           h == k - 1
<1>1. p \in Text /\ Len(p) = 1 /\ p[1] = op /\ op \notin Space
  BY OneToken DEF Name
<1> SUFFICES Parse_simple_args(b).op = p
  OBVIOUS
<1>2. Parse_simple_args(b).op = IF k = 0 THEN b ELSE SubSeq(b, 1, h)
  BY DEF Parse_simple_args
<1> HIDE DEF p
<1>3. CASE v = <<>>
  <2>1. b = p
    BY <1>1, <1>3, Nested
  <2>2. k \in 0 .. Len(b) /\ (k # 0 => b[k] \in Space)
    BY <1>1, <2>1, SpaceIs
  <2> HIDE DEF k, h, b
  <2>3. k = 0
    <3>1. k \in 0 .. 1 /\ (k # 0 => p[k] \in Space)
      BY <1>1, <2>1, <2>2
    <3>2. k # 1
      BY <1>1, <3>1
    <3> QED BY <3>1, <3>2
  <2>4. Parse_simple_args(b).op = b
    BY <1>2, <2>3
  <2> QED BY <2>1, <2>4
<1>4. CASE v # <<>>
  <2>1. PICK w \in Text : v = Join(<<Blank>>, w)
    BY <1>4
  <2> DEFINE o == <<Blank>>
             ow == o \o w
             po == p \o ow
  <2>2. o \in Text /\ Len(o) = 1 /\ o[1] = Blank /\ Blank \in Space
    BY BlankIs, TokensAre
  <2>3. v = ow /\ b = po
    BY <2>1 DEF Join
  <2> HIDE DEF o
  <2>4. /\ ow \in Text /\ Len(ow) = Len(o) + Len(w)
        /\ \A n \in 1 .. Len(o) : ow[n] = o[n]
    BY <2>2, JoinIs
  <2> HIDE DEF ow
  <2>5. /\ po \in Text /\ Len(po) = Len(p) + Len(ow)
        /\ \A n \in 1 .. Len(p) : po[n] = p[n]
        /\ \A n \in 1 .. Len(ow) : po[Len(p) + n] = ow[n]
    BY <1>1, <2>4, JoinIs
  <2> HIDE DEF po
  <2>6. Len(w) \in Nat /\ 1 \in 1 .. Len(o) /\ 1 \in 1 .. Len(p) /\ 1 \in 1 .. Len(ow)
    BY <1>1, <2>2, <2>4, TextIs
  <2>7. b \in Text /\ Len(b) = 2 + Len(w) /\ b[1] \notin Space /\ b[2] \in Space
    <3>1. po[1] = p[1] /\ po[1 + 1] = ow[1] /\ ow[1] = o[1]
      BY <1>1, <2>4, <2>5, <2>6
    <3>2. Len(po) = 2 + Len(w) /\ 1 + 1 = 2
      BY <1>1, <2>2, <2>4, <2>5, <2>6
    <3> QED BY <1>1, <2>2, <2>3, <2>5, <3>1, <3>2
  <2>8. /\ k \in 0 .. Len(b) /\ (k = 0 => \A n \in 1 .. Len(b) : b[n] \notin Space)
        /\ (k # 0 => b[k] \in Space) /\ \A n \in 1 .. k - 1 : b[n] \notin Space
    BY <2>7, SpaceIs
  <2> HIDE DEF k
  <2>9. k = 2
    BY <2>6, <2>7, <2>8
  <2>10. h = 1
    BY <2>9
  <2> DEFINE q == SubSeq(b, 1, 1)
  <2>11. q \in Text /\ Len(q) = 1 /\ \A n \in 1 .. 1 : q[n] = b[n]
    <3>1. /\ 1 \in 1 .. Len(b) + 1 /\ 1 \in 1 - 1 .. Len(b) /\ 1 - 1 + 1 = 1
          /\ \A n \in Int : 1 + n - 1 = n
      BY <2>6, <2>7
    <3> DEFINE one == 1
    <3>2. /\ SubSeq(b, one, one) \in Text /\ Len(SubSeq(b, one, one)) = one - one + 1
          /\ \A n \in 1 .. one - one + 1 : SubSeq(b, one, one)[n] = b[one + n - 1]
      <4> HIDE DEF b
      <4> QED BY <2>7, <3>1, SliceIs
    <3> QED BY <3>1, <3>2
  <2> HIDE DEF q
  <2>12. q = p
    BY <1>1, <2>3, <2>5, <2>11, SameText
  <2> QED BY <1>2, <2>9, <2>10, <2>12 DEF q
<1> QED BY <1>3, <1>4

\* The text of a list of operands that follows one operand: a comma with any
\* space around it.
Listed(x, g, h, rest) == Join(x, Join(g, Join(<<Comma>>, Join(h, rest))))

LEMMA ListedIs ==
    ASSUME NEW x \in Argument, NEW g \in Gap, NEW h \in Gap, NEW rest \in Text, rest # <<>>,
           RightTight(rest)
    PROVE  LET w == Listed(x, g, h, rest)
           IN  /\ w \in Text /\ w # <<>> /\ Tight(w) /\ w[1] = x[1]
               /\ Find(w, Comma) # 0 /\ Before(w, Comma) = Join(x, g)
               /\ Beyond(w, Comma) = Join(h, rest)
               /\ \A c \in Marks : c # Comma /\ c \notin Within(rest) => c \notin Within(w)
<1> DEFINE o == <<Comma>>
           hr == Join(h, rest)
           ohr == Join(o, hr)
           gohr == Join(g, ohr)
           w == Join(x, gohr)
           xg == Join(x, g)
<1>1. Comma \in Token /\ Comma \in Marks /\ Comma \notin Space
  BY TokensAre DEF Marks
<1>2. o \in Text /\ o # <<>> /\ \A c \in Marks : c # Comma => c \notin Within(o)
  BY <1>1, MarkIs
<1>3. g \in Text /\ h \in Text /\ \A c \in Marks : c \notin Within(g) /\ c \notin Within(h)
  BY GapIs
<1>4. x \in Text /\ x # <<>> /\ LeftTight(x) /\ \A c \in Marks : c \notin Within(x)
  BY ArgumentIs
<1>5. hr \in Text /\ hr # <<>> /\ RightTight(hr)
      /\ \A c \in Marks : c \notin Within(rest) => c \notin Within(hr)
  BY <1>3, Joined
<1>6. Listed(x, g, h, rest) = w
  BY DEF Listed
<1> HIDE DEF hr
<1>7. ohr \in Text /\ ohr # <<>> /\ RightTight(ohr)
      /\ \A c \in Marks : c # Comma /\ c \notin Within(rest) => c \notin Within(ohr)
  BY <1>2, <1>5, Joined
<1>8. w = Join(xg, ohr) /\ xg \in Text /\ Comma \notin Within(xg)
  BY <1>1, <1>3, <1>4, <1>7, Joined, Nested
<1> HIDE DEF ohr
<1>9. gohr \in Text /\ gohr # <<>> /\ RightTight(gohr)
      /\ \A c \in Marks : c # Comma /\ c \notin Within(rest) => c \notin Within(gohr)
  BY <1>3, <1>7, Joined
<1> HIDE DEF gohr
<1>10. w \in Text /\ w # <<>> /\ w[1] = x[1] /\ LeftTight(w) /\ RightTight(w)
       /\ \A c \in Marks : c # Comma /\ c \notin Within(rest) => c \notin Within(w)
  BY <1>4, <1>9, Joined
<1> HIDE DEF w, xg
<1>11. w = Join(xg, Join(<<Comma>>, hr))
  BY <1>8 DEF ohr
<1>12. Find(w, Comma) # 0 /\ Before(w, Comma) = xg /\ Beyond(w, Comma) = hr
  BY <1>1, <1>5, <1>8, <1>11, CutAt
<1> QED BY <1>6, <1>10, <1>12, TightIs DEF xg, hr

\* Pass 2 trims its three operands in place.
LEMMA InPlaceGives ==
    ASSUME NEW p, NEW op, NEW a, p = [op |-> op, a |-> a], NEW m \in Operands,
           \A n \in 1 .. 3 : \/ a[n] = <<>> /\ m[n] = <<>>
                             \/ m[n] \in Argument /\ \E g \in Gap : a[n] = Join(m[n], g)
    PROVE  TrimmedInPlace(p) = [op |-> op, a |-> m]
<1> DEFINE F(n) == IF a[n] = Unset \/ TrimLeft(a[n]) = <<>> THEN a[n] ELSE TrimRight(a[n])
<1>1. TrimmedInPlace(p) = [op |-> op, a |-> [n \in 1 .. 3 |-> F(n)]]
  BY DEF TrimmedInPlace
<1>2. ASSUME NEW n \in 1 .. 3 PROVE F(n) = m[n]
  <2>1. CASE a[n] = <<>> /\ m[n] = <<>>
    <3>1. TrimLeft(<<>>) = <<>>
      BY EmptyText, TrimLeftIs
    <3> QED BY <2>1, <3>1
  <2>2. CASE m[n] \in Argument /\ \E g \in Gap : a[n] = Join(m[n], g)
    <3>1. PICK g \in Gap : a[n] = Join(m[n], g)
      BY <2>2
    <3> DEFINE x == m[n]
               s == Join(x, g)
    <3>2. x \in Text /\ x # <<>> /\ Tight(x)
      BY <2>2, ArgumentIs
    <3> HIDE DEF x
    <3>3. s \in Text /\ s # <<>> /\ TrimLeft(s) = s /\ TrimRight(s) = x
      BY <3>2, Surrounded
    <3>4. a[n] = s
      BY <3>1 DEF x
    <3> HIDE DEF s
    <3>5. a[n] # Unset /\ TrimLeft(a[n]) # <<>> /\ TrimRight(a[n]) = x
      BY <3>3, <3>4, UnsetAssumption DEF Text
    <3> HIDE DEF F
    <3>6. F(n) = x
      BY <3>5 DEF F
    <3> QED BY <3>6 DEF x
  <2> QED BY <2>1, <2>2
<1>3. m = [n \in 1 .. 3 |-> m[n]]
  BY DEF Operands
<1> HIDE DEF F
<1>4. [n \in 1 .. 3 |-> F(n)] = m
  BY <1>2, <1>3
<1> QED BY <1>1, <1>4

\* The operands of an instruction once parentheses are gone.
Plain(w, a) ==
    \/ w \in Argument /\ a = <<w, <<>>, <<>>>>
    \/ \E x, y \in Argument : \E g, h \in Gap :
         w = Listed(x, g, h, y) /\ a = <<x, y, <<>>>>
    \/ \E x, y, z \in Argument : \E g, h, i, j \in Gap :
         w = Listed(x, g, h, Listed(y, i, j, z)) /\ a = <<x, y, z>>

LEMMA PlainIs ==
    ASSUME NEW w, NEW a, Plain(w, a)
    PROVE  /\ w \in Text /\ w # <<>> /\ Tight(w) /\ a \in Operands
           /\ \A c \in Marks : c # Comma => c \notin Within(w)
<1>0. <<>> \in Text
  BY EmptyText
<1>1. CASE w \in Argument /\ a = <<w, <<>>, <<>>>>
  BY <1>0, <1>1, ArgumentIs, ThreeOperands
<1>2. CASE \E x, y \in Argument : \E g, h \in Gap :
             w = Listed(x, g, h, y) /\ a = <<x, y, <<>>>>
  <2>1. PICK x \in Argument, y \in Argument : \E g, h \in Gap :
          w = Listed(x, g, h, y) /\ a = <<x, y, <<>>>>
    BY <1>2
  <2>2. PICK g \in Gap, h \in Gap : w = Listed(x, g, h, y) /\ a = <<x, y, <<>>>>
    BY <2>1
  <2>3. x \in Text /\ y \in Text /\ y # <<>> /\ RightTight(y) /\ \A c \in Marks : c \notin Within(y)
    BY ArgumentIs
  <2>4. a \in Operands
    BY <1>0, <2>2, <2>3, ThreeOperands
  <2> QED BY <2>2, <2>3, <2>4, ListedIs
<1>3. CASE \E x, y, z \in Argument : \E g, h, i, j \in Gap :
             w = Listed(x, g, h, Listed(y, i, j, z)) /\ a = <<x, y, z>>
  <2>1. PICK x \in Argument, y \in Argument, z \in Argument : \E g, h, i, j \in Gap :
          w = Listed(x, g, h, Listed(y, i, j, z)) /\ a = <<x, y, z>>
    BY <1>3
  <2>2. PICK g \in Gap, h \in Gap, i \in Gap, j \in Gap :
          w = Listed(x, g, h, Listed(y, i, j, z)) /\ a = <<x, y, z>>
    BY <2>1
  <2>3. /\ x \in Text /\ y \in Text /\ z \in Text /\ z # <<>> /\ RightTight(z)
        /\ \A c \in Marks : c \notin Within(z)
    BY ArgumentIs
  <2>4. a \in Operands
    BY <2>2, <2>3, ThreeOperands
  <2> DEFINE r == Listed(y, i, j, z)
  <2>5. /\ r \in Text /\ r # <<>> /\ Tight(r)
        /\ \A c \in Marks : c # Comma => c \notin Within(r)
    BY <2>3, ListedIs
  <2> HIDE DEF r
  <2>6. RightTight(r)
    BY <2>5, TightIs
  <2>7. w = Listed(x, g, h, r)
    BY <2>2 DEF r
  <2> QED BY <2>4, <2>5, <2>6, <2>7, ListedIs
<1> QED BY <1>1, <1>2, <1>3 DEF Plain

\* What pass 2 makes of an operation, a blank and operands with space on
\* either side.
LEMMA PlainRead ==
    ASSUME NEW op \in Name, NEW g0 \in Gap, NEW g1 \in Gap, NEW w, NEW m, Plain(w, m),
           NEW s, s = Join(<<op>>, Join(<<Blank>>, Join(g0, Join(w, g1))))
    PROVE  TrimmedInPlace(Parse_instruction_args(s, <<>>)) = [op |-> <<op>>, a |-> m]
<1> DEFINE v == Join(g0, Join(w, g1))
           was == <<>>
           p == Parse_instruction_args(s, was)
           rest == Beyond(w, Comma)
           A == IF Find(s, Blank) = 0 THEN <<was, was, was>>
                ELSE IF Find(Trim(Beyond(s, Blank)), Comma) = 0
                     THEN <<Trim(Beyond(s, Blank)), was, was>>
                ELSE IF Find(Beyond(Trim(Beyond(s, Blank)), Comma), Comma) = 0
                     THEN <<Before(Trim(Beyond(s, Blank)), Comma),
                            Trim(Beyond(Trim(Beyond(s, Blank)), Comma)), was>>
                ELSE <<Before(Trim(Beyond(s, Blank)), Comma),
                       TrimLeft(Before(Beyond(Trim(Beyond(s, Blank)), Comma), Comma)),
                       Trim(Beyond(Beyond(Trim(Beyond(s, Blank)), Comma), Comma))>>
           a == IF Find(w, Comma) = 0 THEN <<w, was, was>>
                ELSE IF Find(rest, Comma) = 0 THEN <<Before(w, Comma), Trim(rest), was>>
                ELSE <<Before(w, Comma), TrimLeft(Before(rest, Comma)), Trim(Beyond(rest, Comma))>>
<1>1. w \in Text /\ w # <<>> /\ Tight(w) /\ m \in Operands
  BY PlainIs
<1>2. g0 \in Text /\ g1 \in Text /\ v \in Text
  BY <1>1, GapIs, Joined
<1>3. Trim(v) = w
  BY <1>1, Surrounded
<1>4. s = Join(<<op>>, Join(<<Blank>>, v)) /\ op \in Token /\ op # Blank
  BY NameIs
<1> HIDE DEF v
<1>5. Find(s, Blank) # 0 /\ Before(s, Blank) = <<op>> /\ Beyond(s, Blank) = v
  BY <1>2, <1>4, OperationRead
<1>6. p = [op |-> Before(s, Blank), a |-> A]
  BY DEF Parse_instruction_args, Comma, Blank
<1> HIDE DEF p
<1>7. A = a
  BY <1>3, <1>5
<1> HIDE DEF A
<1>8. p = [op |-> <<op>>, a |-> a]
  BY <1>5, <1>6, <1>7
<1> DEFINE Fits(k, l) == \/ k = <<>> /\ l = <<>>
                         \/ l \in Argument /\ \E g \in Gap : k = Join(l, g)
<1>9. ASSUME NEW x \in Argument, NEW g \in Gap PROVE Fits(Join(x, g), x)
  OBVIOUS
<1>10. ASSUME NEW x \in Argument PROVE Fits(x, x)
  <2>1. x = Join(x, <<>>) /\ <<>> \in Gap
    BY ArgumentIs, Nested, GapIs
  <2> QED BY <2>1
<1>11. Fits(was, was)
  OBVIOUS
<1>12. ASSUME NEW z \in Argument PROVE Find(z, Comma) = 0 /\ \A g \in Gap : Find(Join(g, z), Comma) = 0
  <2>1. z \in Text /\ Comma \notin Within(z) /\ Comma \in Marks
    BY ArgumentIs DEF Marks
  <2>2. Find(z, Comma) = 0
    BY <2>1, FindIs
  <2>3. ASSUME NEW g \in Gap PROVE Find(Join(g, z), Comma) = 0
    <3>1. g \in Text /\ Comma \notin Within(g)
      BY <2>1, GapIs
    <3>2. Join(g, z) \in Text /\ Comma \notin Within(Join(g, z))
      BY <2>1, <3>1, Joined
    <3> QED BY <3>2, FindIs
  <2> QED BY <2>2, <2>3
<1> SUFFICES \A n \in 1 .. 3 : Fits(a[n], m[n])
  <2>1. \A n \in 1 .. 3 : \/ a[n] = <<>> /\ m[n] = <<>>
                          \/ m[n] \in Argument /\ \E g \in Gap : a[n] = Join(m[n], g)
    OBVIOUS
  <2> HIDE DEF a
  <2>2. TrimmedInPlace(p) = [op |-> <<op>>, a |-> m]
    BY <1>1, <1>8, <2>1, InPlaceGives
  <2> QED BY <2>2 DEF p
<1> HIDE DEF Fits
<1>13. ASSUME NEW x, NEW y, NEW z, NEW k, NEW l, NEW o,
              Fits(k, x), Fits(l, y), Fits(o, z), a = <<k, l, o>>, m = <<x, y, z>>
       PROVE  \A n \in 1 .. 3 : Fits(a[n], m[n])
  <2> HIDE DEF a
  <2>1. a[1] = k /\ a[2] = l /\ a[3] = o /\ m[1] = x /\ m[2] = y /\ m[3] = z
    BY <1>13
  <2> QED BY <1>13, <2>1
<1>14. CASE w \in Argument /\ m = <<w, <<>>, <<>>>>
  <2>1. a = <<w, was, was>>
    BY <1>12, <1>14
  <2>2. Fits(w, w)
    BY <1>10, <1>14
  <2> HIDE DEF a
  <2> QED BY <1>11, <1>13, <1>14, <2>1, <2>2
<1>15. CASE \E x, y \in Argument : \E g, h \in Gap :
              w = Listed(x, g, h, y) /\ m = <<x, y, <<>>>>
  <2>1. PICK x \in Argument, y \in Argument : \E g, h \in Gap :
          w = Listed(x, g, h, y) /\ m = <<x, y, <<>>>>
    BY <1>15
  <2>2. PICK g \in Gap, h \in Gap : w = Listed(x, g, h, y) /\ m = <<x, y, <<>>>>
    BY <2>1
  <2>3. y \in Text /\ y # <<>> /\ RightTight(y) /\ Tight(y)
    BY ArgumentIs
  <2>4. Find(w, Comma) # 0 /\ Before(w, Comma) = Join(x, g) /\ rest = Join(h, y)
    BY <2>2, <2>3, ListedIs
  <2>5. Trim(Join(h, y)) = y
    BY <2>3, Surrounded
  <2> HIDE DEF rest
  <2>6. a = <<Join(x, g), y, was>>
    BY <1>12, <2>4, <2>5
  <2>7. Fits(Join(x, g), x) /\ Fits(y, y)
    BY <1>9, <1>10
  <2> HIDE DEF a
  <2> QED BY <1>11, <1>13, <2>2, <2>6, <2>7
<1>16. CASE \E x, y, z \in Argument : \E g, h, i, j \in Gap :
              w = Listed(x, g, h, Listed(y, i, j, z)) /\ m = <<x, y, z>>
  <2>1. PICK x \in Argument, y \in Argument, z \in Argument : \E g, h, i, j \in Gap :
          w = Listed(x, g, h, Listed(y, i, j, z)) /\ m = <<x, y, z>>
    BY <1>16
  <2>2. PICK g \in Gap, h \in Gap, i \in Gap, j \in Gap :
          w = Listed(x, g, h, Listed(y, i, j, z)) /\ m = <<x, y, z>>
    BY <2>1
  <2> DEFINE r == Listed(y, i, j, z)
  <2>3. z \in Text /\ z # <<>> /\ RightTight(z) /\ Tight(z) /\ y \in Text /\ y # <<>> /\ Tight(y)
    BY ArgumentIs
  <2>4. /\ r \in Text /\ r # <<>> /\ Tight(r)
        /\ Find(r, Comma) # 0 /\ Before(r, Comma) = Join(y, i) /\ Beyond(r, Comma) = Join(j, z)
    BY <2>3, ListedIs
  <2>5. w = Listed(x, g, h, r)
    BY <2>2
  <2> HIDE DEF r
  <2>6. RightTight(r)
    BY <2>4, TightIs
  <2>7. Find(w, Comma) # 0 /\ Before(w, Comma) = Join(x, g) /\ rest = Join(h, r)
    BY <2>4, <2>5, <2>6, ListedIs
  <2> HIDE DEF rest
  <2> DEFINE yi == Join(y, i)
             jz == Join(j, z)
             hyi == Join(h, yi)
  <2>8. h \in Text /\ i \in Text /\ j \in Text /\ Comma \notin Within(h) /\ Comma \notin Within(i)
    BY GapIs DEF Marks
  <2>9. yi \in Text /\ jz \in Text /\ Comma \notin Within(yi)
    <3>1. Comma \notin Within(y)
      BY ArgumentIs DEF Marks
    <3> QED BY <2>3, <2>8, <3>1, Joined
  <2>10. r = Join(yi, Join(<<Comma>>, jz))
    <3>1. r = Join(y, Join(i, Join(<<Comma>>, jz)))
      BY DEF r, Listed
    <3>2. Join(<<Comma>>, jz) \in Text
      BY <2>9, CommaIs, Joined
    <3> QED BY <2>3, <2>8, <3>1, <3>2, Nested
  <2>11. TrimLeft(hyi) = yi /\ Trim(jz) = z
    BY <2>3, Surrounded
  <2> HIDE DEF yi, jz
  <2>12. hyi \in Text /\ Comma \notin Within(hyi)
    BY <2>8, <2>9, Joined
  <2>13. rest = Join(hyi, Join(<<Comma>>, jz))
    <3>1. Join(<<Comma>>, jz) \in Text
      BY <2>9, CommaIs, Joined
    <3> QED BY <2>7, <2>8, <2>9, <2>10, <3>1, Nested
  <2> HIDE DEF hyi
  <2>14. Find(rest, Comma) # 0 /\ Before(rest, Comma) = hyi /\ Beyond(rest, Comma) = jz
    BY <2>9, <2>12, <2>13, TokensAre, CutAt
  <2>15. a = <<Join(x, g), yi, z>>
    BY <2>7, <2>11, <2>14
  <2>16. Fits(Join(x, g), x) /\ Fits(yi, y) /\ Fits(z, z)
    BY <1>9, <1>10 DEF yi
  <2> HIDE DEF a
  <2> QED BY <1>13, <2>2, <2>15, <2>16
<1> QED BY <1>14, <1>15, <1>16 DEF Plain

\* The last operand in parentheses, and the operands that end with it.
InParentheses(y, g, h, z, i) ==
    Join(y, Join(g, Join(<<Paren>>, Join(h, Join(z, Join(i, <<Close>>))))))
Addressed(w, a) ==
    \E x, y, z \in Argument : \E g, h, i, j, k \in Gap :
        w = Listed(x, g, h, InParentheses(y, i, j, z, k)) /\ a = <<x, y, z>>

LEMMA InParenthesesIs ==
    ASSUME NEW y \in Argument, NEW z \in Argument, NEW g \in Gap, NEW h \in Gap, NEW i \in Gap
    PROVE  LET p == InParentheses(y, g, h, z, i)
           IN  /\ p \in Text /\ p # <<>> /\ RightTight(p)
               /\ \A c \in {Hash, Colon, Globl} : c \notin Within(p)
<1> DEFINE M == {Hash, Colon, Globl}
           o == <<Paren>>
           q == <<Close>>
           p1 == Join(i, q)
           p2 == Join(z, p1)
           p3 == Join(h, p2)
           p4 == Join(o, p3)
           p5 == Join(g, p4)
           p6 == Join(y, p5)
<1>1. /\ \A c \in M : c \in Marks /\ c # Paren /\ c # Close
      /\ Paren \in Token /\ Paren \notin Space /\ Close \in Token /\ Close \notin Space
  BY MarksAre DEF Marks
<1>2. /\ y \in Text /\ z \in Text /\ g \in Text /\ h \in Text /\ i \in Text
      /\ \A c \in M : /\ c \notin Within(y) /\ c \notin Within(z) /\ c \notin Within(g)
                      /\ c \notin Within(h) /\ c \notin Within(i)
  BY <1>1, ArgumentIs, GapIs
<1>3. o \in Text /\ q \in Text /\ q # <<>> /\ RightTight(q)
      /\ \A c \in M : c \notin Within(o) /\ c \notin Within(q)
  BY <1>1, MarkIs
<1>4. InParentheses(y, g, h, z, i) = p6
  BY DEF InParentheses
<1> HIDE DEF M, o, q
<1>5. p1 \in Text /\ p1 # <<>> /\ RightTight(p1) /\ \A c \in M : c \notin Within(p1)
  BY <1>2, <1>3, Joined
<1> HIDE DEF p1
<1>6. p2 \in Text /\ p2 # <<>> /\ RightTight(p2) /\ \A c \in M : c \notin Within(p2)
  BY <1>2, <1>5, Joined
<1> HIDE DEF p2
<1>7. p3 \in Text /\ p3 # <<>> /\ RightTight(p3) /\ \A c \in M : c \notin Within(p3)
  BY <1>2, <1>6, Joined
<1> HIDE DEF p3
<1>8. p4 \in Text /\ p4 # <<>> /\ RightTight(p4) /\ \A c \in M : c \notin Within(p4)
  BY <1>3, <1>7, Joined
<1> HIDE DEF p4
<1>9. p5 \in Text /\ p5 # <<>> /\ RightTight(p5) /\ \A c \in M : c \notin Within(p5)
  BY <1>2, <1>8, Joined
<1> HIDE DEF p5
<1>10. p6 \in Text /\ p6 # <<>> /\ RightTight(p6) /\ \A c \in M : c \notin Within(p6)
  BY <1>2, <1>9, Joined
<1> QED BY <1>4, <1>10 DEF M

LEMMA AddressedIs ==
    ASSUME NEW w, NEW a, Addressed(w, a)
    PROVE  /\ w \in Text /\ w # <<>> /\ Tight(w) /\ a \in Operands
           /\ \A c \in {Hash, Colon, Globl} : c \notin Within(w)
<1>1. PICK x \in Argument, y \in Argument, z \in Argument : \E g, h, i, j, k \in Gap :
        w = Listed(x, g, h, InParentheses(y, i, j, z, k)) /\ a = <<x, y, z>>
  BY DEF Addressed
<1>2. PICK g \in Gap, h \in Gap, i \in Gap, j \in Gap, k \in Gap :
        w = Listed(x, g, h, InParentheses(y, i, j, z, k)) /\ a = <<x, y, z>>
  BY <1>1
<1> DEFINE p == InParentheses(y, i, j, z, k)
<1>3. p \in Text /\ p # <<>> /\ RightTight(p) /\ \A c \in {Hash, Colon, Globl} : c \notin Within(p)
  BY InParenthesesIs
<1>4. w = Listed(x, g, h, p) /\ a = <<x, y, z>>
  BY <1>2
<1> HIDE DEF p
<1>5. x \in Text /\ y \in Text /\ z \in Text
  BY ArgumentIs
<1>6. a \in Operands
  BY <1>4, <1>5, ThreeOperands
<1>7. \A c \in {Hash, Colon, Globl} : c \in Marks /\ c # Comma
  BY MarksAre DEF Marks
<1> QED BY <1>3, <1>4, <1>6, <1>7, ListedIs

\* offset(reg) is rewritten around the first parenthesis and the one that
\* closes it.
LEMMA Rewritten ==
    ASSUME NEW p \in Text, NEW i \in Text, NEW e \in Text,
           Paren \notin Within(p), Close \notin Within(i),
           NEW s, s = Join(p, Join(<<Paren>>, Join(i, Join(<<Close>>, e))))
    PROVE  Unparenthesised(s) = Join(p, Join(<<Comma>>, Join(i, e)))
<1> DEFINE o == <<Paren>>
           q == <<Close>>
           c == <<Comma>>
           r == Join(i, Join(q, e))
           open == Find(s, Paren)
           g == open + 1
           h == open - 1
           inner == SubSeq(s, g, Len(s))
           front == SubSeq(s, 1, h)
<1>1. Paren \in Token /\ Close \in Token
  BY MarksAre
<1>2. o \in Text /\ q \in Text /\ c \in Text
  BY <1>1, TokensAre, OneToken
<1>3. r \in Text
  BY <1>2, Joined
<1>4. s = Join(p, Join(<<Paren>>, r)) /\ r = Join(i, Join(<<Close>>, e))
  OBVIOUS
<1> HIDE DEF r, o, q, c
<1>5. s \in Text /\ Find(s, Paren) # 0 /\ Before(s, Paren) = p /\ Beyond(s, Paren) = r
  BY <1>1, <1>3, <1>4, CutAt
<1>6. Find(r, Close) # 0 /\ Before(r, Close) = i /\ Beyond(r, Close) = e
  BY <1>1, <1>4, CutAt
<1>7. front = p /\ inner = r
  BY <1>5 DEF Before, Beyond
<1>8. Unparenthesised(s) = IF open = 0 \/ Find(inner, ")") = 0 THEN s
                           ELSE front \o c \o Before(inner, ")") \o Beyond(inner, ")")
  BY DEF Unparenthesised, Comma, Paren, c
<1> HIDE DEF front, inner, open
<1>9. Unparenthesised(s) = p \o c \o Before(r, Close) \o Beyond(r, Close)
  BY <1>5, <1>6, <1>7, <1>8 DEF Close, open
<1>10. Unparenthesised(s) = Join(Join(Join(p, c), i), e)
  BY <1>6, <1>9 DEF Join
<1>11. Join(Join(Join(p, c), i), e) = Join(p, Join(c, Join(i, e)))
  <2>1. Join(p, c) \in Text /\ Join(i, e) \in Text
    BY <1>2, Joined
  <2> QED BY <1>2, <2>1, Nested
<1> QED BY <1>10, <1>11 DEF c

\* Around an operand in parentheses everything else stays.
LEMMA AddressedRead ==
    ASSUME NEW op \in Name, NEW f \in Gap, NEW w, NEW m, Addressed(w, m),
           NEW s, s = Join(<<op>>, Join(<<Blank>>, Join(f, w)))
    PROVE  TrimmedInPlace(Parse_instruction_args(Unparenthesised(s), <<>>)) = [op |-> <<op>>, a |-> m]
<1>0. ASSUME NEW k \in Gap, NEW u, Plain(u, m)
      PROVE  LET t == Join(<<op>>, Join(<<Blank>>, Join(f, Join(u, k))))
             IN  TrimmedInPlace(Parse_instruction_args(t, <<>>)) = [op |-> <<op>>, a |-> m]
  BY <1>0, PlainRead
<1>1. PICK x \in Argument, y \in Argument, z \in Argument : \E g, h, i, j, k \in Gap :
        w = Listed(x, g, h, InParentheses(y, i, j, z, k)) /\ m = <<x, y, z>>
  BY DEF Addressed
<1>2. PICK g \in Gap, h \in Gap, i \in Gap, j \in Gap, k \in Gap :
        w = Listed(x, g, h, InParentheses(y, i, j, z, k)) /\ m = <<x, y, z>>
  BY <1>1
<1> DEFINE p == <<op>>
           b == <<Blank>>
           c == <<Comma>>
           o == <<Paren>>
           q == <<Close>>
           zk == Join(z, k)
           jzk == Join(j, zk)
           front == Join(p, Join(b, Join(f, Join(x, Join(g, Join(c, Join(h, Join(y, i))))))))
           Full(t) == Join(p, Join(b, Join(f, Join(x, Join(g, Join(c, Join(h, Join(y, Join(i, t)))))))))
<1>3. /\ p \in Text /\ b \in Text /\ c \in Text /\ o \in Text /\ q \in Text
      /\ \A d \in Marks : d \notin Within(p)
      /\ Paren \notin Within(b) /\ Paren \notin Within(c)
  <2>1. Paren \in Marks /\ Paren # Blank /\ Paren # Comma /\ Paren \in Token /\ Close \in Token
    BY MarksAre DEF Marks
  <2>2. Within(b) = {Blank} /\ Within(c) = {Comma} /\ b \in Text /\ c \in Text
    BY BlankIs, CommaIs
  <2> QED BY <2>1, <2>2, NameIs, OneToken
<1>4. /\ x \in Text /\ y \in Text /\ z \in Text
      /\ \A d \in Marks : d \notin Within(x) /\ d \notin Within(y) /\ d \notin Within(z)
  BY ArgumentIs
<1>5. /\ f \in Text /\ g \in Text /\ h \in Text /\ i \in Text /\ j \in Text /\ k \in Text
      /\ \A d \in Marks : /\ d \notin Within(f) /\ d \notin Within(g) /\ d \notin Within(h)
                          /\ d \notin Within(i) /\ d \notin Within(j) /\ d \notin Within(k)
  BY GapIs
<1> HIDE DEF p, b, c, o, q
<1>6. jzk \in Text /\ zk \in Text /\ Close \notin Within(jzk)
  <2>1. Close \in Marks
    BY DEF Marks
  <2> QED BY <1>4, <1>5, <2>1, Joined
<1>7. front \in Text /\ Paren \notin Within(front)
  <2> DEFINE Fine(t) == t \in Text /\ Paren \notin Within(t)
  <2>1. \A t, u : Fine(t) /\ Fine(u) => Fine(Join(t, u))
    BY Joined
  <2>2. /\ Fine(p) /\ Fine(b) /\ Fine(c) /\ Fine(f) /\ Fine(g) /\ Fine(h) /\ Fine(i)
        /\ Fine(x) /\ Fine(y)
    BY <1>3, <1>4, <1>5 DEF Marks
  <2> HIDE DEF Fine
  <2>3. Fine(front)
    BY <2>1, <2>2
  <2> QED BY <2>3 DEF Fine
<1>8. ASSUME NEW t \in Text PROVE Full(t) = Join(front, t)
  <2> DEFINE t1 == Join(i, t)
             t2 == Join(y, t1)
             t3 == Join(h, t2)
             t4 == Join(c, t3)
             t5 == Join(g, t4)
             t6 == Join(x, t5)
             t7 == Join(f, t6)
             t8 == Join(b, t7)
             f1 == Join(y, i)
             f2 == Join(h, f1)
             f3 == Join(c, f2)
             f4 == Join(g, f3)
             f5 == Join(x, f4)
             f6 == Join(f, f5)
             f7 == Join(b, f6)
  <2>1. \A u, v \in Text : Join(u, v) \in Text
    BY Joined
  <2>2. f1 \in Text /\ t2 = Join(f1, t)
    BY <1>4, <1>5, <2>1, Nested
  <2> HIDE DEF f1, t2
  <2>3. f2 \in Text /\ t3 = Join(f2, t)
    BY <1>5, <2>1, <2>2, Nested
  <2> HIDE DEF f2, t3
  <2>4. f3 \in Text /\ t4 = Join(f3, t)
    BY <1>3, <2>1, <2>3, Nested
  <2> HIDE DEF f3, t4
  <2>5. f4 \in Text /\ t5 = Join(f4, t)
    BY <1>5, <2>1, <2>4, Nested
  <2> HIDE DEF f4, t5
  <2>6. f5 \in Text /\ t6 = Join(f5, t)
    BY <1>4, <2>1, <2>5, Nested
  <2> HIDE DEF f5, t6
  <2>7. f6 \in Text /\ t7 = Join(f6, t)
    BY <1>5, <2>1, <2>6, Nested
  <2> HIDE DEF f6, t7
  <2>8. f7 \in Text /\ t8 = Join(f7, t)
    BY <1>3, <2>1, <2>7, Nested
  <2> HIDE DEF f7, t8
  <2>9. Join(p, t8) = Join(Join(p, f7), t)
    BY <1>3, <2>8, Nested
  <2> QED BY <2>9 DEF t8, t7, t6, t5, t4, t3, t2, t1, f7, f6, f5, f4, f3, f2, f1
<1>9. s = Full(Join(o, Join(jzk, Join(q, <<>>))))
  <2>1. Join(q, <<>>) = q /\ Join(k, q) \in Text
    BY <1>3, <1>5, Nested, Joined
  <2>2. Join(jzk, q) = Join(j, Join(z, Join(k, q)))
    <3>1. Join(jzk, q) = Join(j, Join(zk, q))
      BY <1>3, <1>5, <1>6, Nested
    <3>2. Join(zk, q) = Join(z, Join(k, q))
      BY <1>3, <1>4, <1>5, Nested
    <3> QED BY <3>1, <3>2
  <2> HIDE DEF jzk
  <2>3. s = Full(Join(o, Join(j, Join(z, Join(k, q)))))
    BY <1>2 DEF Listed, InParentheses, p, b, c, o, q
  <2> QED BY <2>1, <2>2, <2>3
<1> DEFINE target == Join(p, Join(b, Join(f, Join(Listed(x, g, h, Listed(y, i, j, z)), k))))
<1>10. target = Full(Join(c, jzk))
  <2> DEFINE jz == Join(j, z)
             cjz == Join(c, jz)
             u1 == Join(i, cjz)
             u2 == Join(y, u1)
             u3 == Join(h, u2)
             u4 == Join(c, u3)
             u5 == Join(g, u4)
             u6 == Join(x, u5)
  <2>1. \A u, v \in Text : Join(u, v) \in Text
    BY Joined
  <2>2. jz \in Text /\ Join(jz, k) = jzk
    BY <1>4, <1>5, <2>1, Nested
  <2> HIDE DEF jz, jzk
  <2>3. cjz \in Text /\ Join(cjz, k) = Join(c, jzk)
    BY <1>3, <1>5, <2>1, <2>2, Nested
  <2> HIDE DEF cjz
  <2>4. u1 \in Text /\ Join(u1, k) = Join(i, Join(c, jzk))
    BY <1>5, <2>1, <2>3, Nested
  <2> HIDE DEF u1
  <2>5. u2 \in Text /\ Join(u2, k) = Join(y, Join(i, Join(c, jzk)))
    BY <1>4, <1>5, <2>1, <2>4, Nested
  <2> HIDE DEF u2
  <2>6. u3 \in Text /\ Join(u3, k) = Join(h, Join(y, Join(i, Join(c, jzk))))
    BY <1>5, <2>1, <2>5, Nested
  <2> HIDE DEF u3
  <2>7. u4 \in Text /\ Join(u4, k) = Join(c, Join(h, Join(y, Join(i, Join(c, jzk)))))
    BY <1>3, <1>5, <2>1, <2>6, Nested
  <2> HIDE DEF u4
  <2>8. u5 \in Text /\ Join(u5, k) = Join(g, Join(c, Join(h, Join(y, Join(i, Join(c, jzk))))))
    BY <1>5, <2>1, <2>7, Nested
  <2> HIDE DEF u5
  <2>9. Join(u6, k) = Join(x, Join(g, Join(c, Join(h, Join(y, Join(i, Join(c, jzk)))))))
    BY <1>4, <1>5, <2>8, Nested
  <2>10. Listed(x, g, h, Listed(y, i, j, z)) = u6
    BY DEF Listed, u6, u5, u4, u3, u2, u1, cjz, jz, c
  <2> HIDE DEF u6
  <2> QED BY <2>9, <2>10
<1> HIDE DEF front, jzk, Full, target
<1>11. Join(o, Join(jzk, Join(q, <<>>))) \in Text /\ Join(c, jzk) \in Text /\ <<>> \in Text
  BY <1>3, <1>6, EmptyText, Joined
<1>12. s = Join(front, Join(o, Join(jzk, Join(q, <<>>))))
  BY <1>8, <1>9, <1>11
<1>13. Unparenthesised(s) = Join(front, Join(c, Join(jzk, <<>>)))
  <2>1. s = Join(front, Join(<<Paren>>, Join(jzk, Join(<<Close>>, <<>>))))
    BY <1>12 DEF o, q
  <2>2. Unparenthesised(s) = Join(front, Join(<<Comma>>, Join(jzk, <<>>)))
    BY <1>6, <1>7, <1>11, <2>1, Rewritten
  <2> QED BY <2>2 DEF c
<1>14. Unparenthesised(s) = target
  <2>1. Join(jzk, <<>>) = jzk
    BY <1>6, Nested
  <2> QED BY <1>8, <1>10, <1>11, <1>13, <2>1
<1>15. Plain(Listed(x, g, h, Listed(y, i, j, z)), m)
  BY <1>2 DEF Plain
<1> DEFINE u == Listed(x, g, h, Listed(y, i, j, z))
<1>16. target = Join(<<op>>, Join(<<Blank>>, Join(f, Join(u, k)))) /\ Plain(u, m)
  BY <1>15 DEF target, p, b
<1> HIDE DEF u
<1>17. TrimmedInPlace(Parse_instruction_args(target, <<>>)) = [op |-> <<op>>, a |-> m]
  BY <1>0, <1>16
<1> QED BY <1>14, <1>17

\* The operands of an instruction, as they follow its operation.
OperandText(v, a) ==
    \/ v = <<>> /\ a = <<<<>>, <<>>, <<>>>>
    \/ \E g \in Gap : \E w : /\ v = Join(<<Blank>>, Join(g, w))
                             /\ Plain(w, a) \/ Addressed(w, a)

\* An instruction without label and comment, and what the passes take from it.
LEMMA InstructionIs ==
    ASSUME NEW op \in Name, NEW v, NEW a, OperandText(v, a)
    PROVE  LET body == Join(<<op>>, v)
           IN  /\ body \in Text /\ body # <<>> /\ Tight(body) /\ body[1] = op
               /\ \A c \in {Hash, Colon, Globl} : c \notin Within(body)
               /\ Parse_simple_args(body).op = <<op>>
               /\ TrimmedInPlace(Parse_instruction_args(Unparenthesised(body), <<>>))
                    = [op |-> <<op>>, a |-> a]
<1> DEFINE p == <<op>>
           b == <<Blank>>
           M == {Hash, Colon, Globl}
           body == Join(p, v)
<1>1. /\ p \in Text /\ p # <<>> /\ p[1] = op /\ Tight(p) /\ LeftTight(p)
      /\ \A c \in Marks : c \notin Within(p)
  BY NameIs
<1>2. b \in Text /\ b # <<>> /\ \A c \in Marks : c \notin Within(b)
  <2>1. b \in Text /\ Len(b) = 1 /\ Within(b) = {Blank}
    BY BlankIs
  <2> HIDE DEF b
  <2> QED BY <2>1, EmptyText, MarksAre
<1>3. M \subseteq Marks /\ Paren \in Marks /\ Paren # Comma /\ \A c \in M : c # Comma
  BY MarksAre DEF Marks
<1>4. CASE v = <<>> /\ a = <<<<>>, <<>>, <<>>>>
  <2> DEFINE was == <<>>
  <2>1. body = p
    BY <1>1, <1>4, Nested
  <2>2. Parse_simple_args(body).op = p
    BY <1>4, OperationOf1
  <2>3. Find(p, Paren) = 0 /\ Find(p, Blank) = 0
    <3>1. Blank \notin Within(p) /\ Paren \notin Within(p)
      BY <1>1, <1>3, NameIs, OneToken
    <3> QED BY <1>1, <3>1, FindIs
  <2>4. Unparenthesised(p) = p
    BY <1>1, <2>3, FindIs, UnparenthesisedIs
  <2>5. Before(p, Blank) = p
    BY <1>1, <2>3, AroundIs
  <2>6. Parse_instruction_args(p, was) = [op |-> p, a |-> <<was, was, was>>]
    <3>1. Find(p, " ") = 0 /\ Before(p, " ") = p
      BY <2>3, <2>5 DEF Blank
    <3> HIDE DEF p, was
    <3> QED BY <3>1 DEF Parse_instruction_args
  <2>7. a \in Operands /\ \A n \in 1 .. 3 : <<was, was, was>>[n] = was /\ a[n] = was
    BY <1>4, EmptyText, ThreeOperands
  <2>8. TrimmedInPlace(Parse_instruction_args(p, was)) = [op |-> p, a |-> a]
    <3> DEFINE none == <<was, was, was>>
    <3>1. \A n \in 1 .. 3 : none[n] = <<>> /\ a[n] = <<>>
      BY <2>7
    <3> HIDE DEF none, p
    <3>2. Parse_instruction_args(p, was) = [op |-> p, a |-> none]
      BY <2>6 DEF none
    <3> QED BY <2>7, <3>1, <3>2, InPlaceGives
  <2> QED BY <1>1, <1>3, <2>1, <2>2, <2>4, <2>8
<1>5. CASE \E g \in Gap : \E w : /\ v = Join(<<Blank>>, Join(g, w))
                                 /\ Plain(w, a) \/ Addressed(w, a)
  <2>1. PICK g \in Gap : \E w : /\ v = Join(<<Blank>>, Join(g, w))
                                /\ Plain(w, a) \/ Addressed(w, a)
    BY <1>5
  <2>2. PICK w : v = Join(b, Join(g, w)) /\ (Plain(w, a) \/ Addressed(w, a))
    BY <2>1
  <2>3. w \in Text /\ w # <<>> /\ Tight(w) /\ \A c \in M : c \notin Within(w)
    BY <1>3, <2>2, PlainIs, AddressedIs
  <2>4. g \in Text /\ \A c \in Marks : c \notin Within(g)
    BY GapIs
  <2>5. RightTight(w)
    BY <2>3, TightIs
  <2> DEFINE gw == Join(g, w)
  <2>6. gw \in Text /\ gw # <<>> /\ RightTight(gw)
        /\ \A c \in Marks : c \notin Within(w) => c \notin Within(gw)
    BY <2>3, <2>4, <2>5, Joined
  <2>7. v = Join(b, gw)
    BY <2>2
  <2>8. Parse_simple_args(body).op = p
    <3>1. v = Join(<<Blank>>, gw)
      BY <2>7
    <3> HIDE DEF gw
    <3> QED BY <2>6, <3>1, OperationOf1
  <2> HIDE DEF gw, b
  <2>9. v \in Text /\ v # <<>> /\ RightTight(v)
        /\ \A c \in Marks : c \notin Within(w) => c \notin Within(v)
    BY <1>2, <2>6, <2>7, Joined
  <2> HIDE DEF p
  <2>10. body \in Text /\ body # <<>> /\ LeftTight(body) /\ RightTight(body) /\ body[1] = op
         /\ \A c \in Marks : c \notin Within(w) => c \notin Within(body)
    BY <1>1, <2>9, Joined
  <2>11. \A c \in M : c \notin Within(body)
    BY <1>3, <2>3, <2>10
  <2> HIDE DEF body
  <2>12. body = Join(<<op>>, Join(<<Blank>>, Join(g, w)))
    BY <2>2 DEF body, p, b
  <2>13. TrimmedInPlace(Parse_instruction_args(Unparenthesised(body), <<>>)) = [op |-> p, a |-> a]
    <3>1. CASE Addressed(w, a)
      BY <2>12, <3>1, AddressedRead DEF p
    <3>2. CASE Plain(w, a)
      <4>1. Paren \notin Within(body)
        BY <1>3, <2>10, <3>2, PlainIs
      <4>2. Unparenthesised(body) = body
        BY <2>10, <4>1, UnparenthesisedIs
      <4>3. Join(w, <<>>) = w /\ <<>> \in Gap
        BY <2>3, Nested, GapIs
      <4>4. body = Join(<<op>>, Join(<<Blank>>, Join(g, Join(w, <<>>))))
        BY <2>12, <4>3
      <4>5. TrimmedInPlace(Parse_instruction_args(body, <<>>)) = [op |-> <<op>>, a |-> a]
        BY <3>2, <4>3, <4>4, PlainRead
      <4> QED BY <4>2, <4>5 DEF p
    <3> QED BY <2>2, <3>1, <3>2
  <2> QED BY <2>8, <2>10, <2>11, <2>13, TightIs DEF body, p
<1> QED BY <1>4, <1>5 DEF OperandText

\* The text of a line that is meant as m: any space where space may be, any
\* comment, with a label or without, and operands of any of the forms.
WrittenAs(given, m) ==
    /\ m.op \in Name
    /\ \E pad, gap \in Gap, remark \in Remark : \E t, v :
         /\ LabelText(t, m.label) /\ OperandText(v, m.a)
         /\ given = Join(pad, Join(Join(t, Join(<<m.op>>, v)), Join(gap, remark)))

LEMMA WrittenTaken ==
    ASSUME NEW given, NEW m, WrittenAs(given, m)
    PROVE  /\ Taken1(given).label = m.label /\ Taken1(given).op = <<m.op>>
           /\ Taken2(given).op = <<m.op>> /\ Taken2(given).a = m.a
<1>1. PICK pad \in Gap, gap \in Gap, remark \in Remark : \E t, v :
        /\ LabelText(t, m.label) /\ OperandText(v, m.a)
        /\ given = Join(pad, Join(Join(t, Join(<<m.op>>, v)), Join(gap, remark)))
  BY DEF WrittenAs
<1>2. PICK t, v :
        /\ LabelText(t, m.label) /\ OperandText(v, m.a)
        /\ given = Join(pad, Join(Join(t, Join(<<m.op>>, v)), Join(gap, remark)))
  BY <1>1
<1> DEFINE op == m.op
           lb == m.label
           a == m.a
           p == <<op>>
           body == Join(p, v)
           code == Join(t, body)
           s == Trim(given)
           c == Trim(Body(s))
           q == Parse_simple_args(Body(s))
           r == TrimmedInPlace(Parse_instruction_args(Unparenthesised(c), <<>>))
           directive == Find(Uncommented(s), ":") = 0 /\ Body(s)[1] \in Directives
<1>3. op \in Name /\ LabelText(t, lb) /\ OperandText(v, a)
      /\ given = Join(pad, Join(code, Join(gap, remark)))
  BY <1>2 DEF WrittenAs
<1> HIDE DEF op, lb, a
<1>4. /\ body \in Text /\ body # <<>> /\ Tight(body) /\ body[1] = op
      /\ Hash \notin Within(body) /\ Colon \notin Within(body) /\ Globl \notin Within(body)
      /\ Parse_simple_args(body).op = p
      /\ TrimmedInPlace(Parse_instruction_args(Unparenthesised(body), <<>>)) = [op |-> p, a |-> a]
  BY <1>3, InstructionIs
<1> HIDE DEF p, body
<1>5. /\ code \in Text /\ code # <<>> /\ Tight(code) /\ code[1] \in Name
      /\ Hash \notin Within(code) /\ Globl \notin Within(code)
      /\ \A z : Uncommented(z) = code => Body(z) = body /\ LabelOf(z) = lb
  BY <1>3, <1>4, LabelledIs
<1> HIDE DEF code
<1>6. PICK x \in Text : s = Join(code, x) /\ Globl \notin Within(x) /\ Uncommented(s) = code
  BY <1>3, <1>5, CommentCut
<1>7. s \in Text /\ s # <<>> /\ s[1] = code[1] /\ Globl \notin Within(s)
  BY <1>5, <1>6, Joined
<1> HIDE DEF s
<1>8. ~Passed_over(s)
  BY <1>5, <1>7, NotPassedOver
<1>9. Body(s) = body /\ LabelOf(s) = lb
  BY <1>5, <1>6
<1>10. op \notin Directives
  BY <1>3, NameIs
<1>11. c = body
  BY <1>4, <1>9, TrimIs
<1>12. /\ Taken1(given) = IF Passed_over(s) THEN Nothing
              ELSE IF Body(s) = <<>> \/ directive THEN [Nothing EXCEPT !.label = LabelOf(s)]
              ELSE [label |-> LabelOf(s), op |-> q.op, a |-> q.a]
       /\ Taken2(given) = IF Passed_over(s) \/ c = <<>> \/ c[1] \in Directives THEN Nothing
              ELSE [label |-> <<>>, op |-> r.op, a |-> r.a]
  BY DEF Taken1, Taken2, s
<1>13. q.op = p /\ r = [op |-> p, a |-> a]
  BY <1>4, <1>9, <1>11
<1>14. ~directive
  BY <1>4, <1>9, <1>10
<1> HIDE DEF q, r, c, directive
<1>15. Taken1(given) = [label |-> lb, op |-> p, a |-> q.a]
  BY <1>4, <1>8, <1>9, <1>12, <1>13, <1>14
<1>16. Taken2(given) = [label |-> <<>>, op |-> p, a |-> a]
  BY <1>4, <1>8, <1>10, <1>11, <1>12, <1>13
<1> QED BY <1>15, <1>16 DEF p, op, lb, a

LEMMA LineIsCase == LinesSpec => [](line \in Cases)
<1>1. LinesInit => line \in Cases
  BY DEF LinesInit
<1>2. line \in Cases /\ [LinesNext]_lineVars => (line \in Cases)'
  BY DEF LinesNext, First_pass, Second_pass, lineVars
<1> QED BY <1>1, <1>2, PTL DEF LinesSpec

\* From every line written as WrittenAs says (any label, space and operands, a
\* blank behind the operation, a comment without .globl) both passes take what
\* it was meant as.
THEOREM ReadAsWrittenAlways ==
    ASSUME \A c \in Cases : c.meant # Unread => WrittenAs(c.text, c.meant)
    PROVE  LinesSpec => []ReadAsWritten
<1>1. line \in Cases /\ LinesInv => ReadAsWritten
  <2> SUFFICES ASSUME line \in Cases, LinesInv, line.meant # Unread
               PROVE  /\ stage # "source" =>
                            got1.label = line.meant.label /\ got1.op = <<line.meant.op>>
                      /\ stage = "second" => got2.op = <<line.meant.op>> /\ got2.a = line.meant.a
    BY DEF ReadAsWritten
  <2> DEFINE x == line.text
             m == line.meant
  <2>1. WrittenAs(x, m)
    OBVIOUS
  <2>2. /\ stage # "source" => got1 = Taken1(x)
        /\ stage = "second" => got2 = Taken2(x)
    BY DEF LinesInv
  <2> HIDE DEF x, m
  <2>3. /\ Taken1(x).label = m.label /\ Taken1(x).op = <<m.op>>
        /\ Taken2(x).op = <<m.op>> /\ Taken2(x).a = m.a
    BY <2>1, WrittenTaken
  <2> QED BY <2>2, <2>3 DEF x, m
<1> QED BY <1>1, LineIsCase, LinesInvHolds, PTL

=============================================================================
