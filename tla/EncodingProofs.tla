--------------------------- MODULE EncodingProofs ---------------------------
(***************************************************************************)
(* What holds of encoding, decoding and executing an instruction word, for *)
(* every line and every address: the types, the round trip of what is well *)
(* formed, and how little harm is done by what is not.                     *)
(***************************************************************************)
EXTENDS Encoding, BasicFacts

----------------------------------------------------------------------------
(* The fields of a word.                                                   *)

\* The bits of an opcode or a funct7, of a register, and of a funct3.
Code == 0 .. 6
Name == 0 .. 4
Choice == 0 .. 2

\* A union of six sets, told element by element.
LEMMA SixSets ==
    ASSUME NEW a, NEW b, NEW c, NEW d, NEW e, NEW f
    PROVE  \A x : x \in UNION {a, b, c, d, e, f} <=>
                    x \in a \/ x \in b \/ x \in c \/ x \in d \/ x \in e \/ x \in f
OBVIOUS

\* The n bits of v from a place on are those of part.
Holds(v, from, n, part) ==
    /\ from \in Int /\ n \in Int /\ part \in SUBSET (0 .. n - 1)
    /\ \A b \in 0 .. n - 1 : b + from \in v <=> b \in part

\* A field that was filled with a part gives it back.
LEMMA FieldHolds ==
    \A v, from, n, part : Holds(v, from, n, part) => Field(v, from, n, 0) = part
<1> SUFFICES ASSUME NEW v, NEW from, NEW n, NEW part, Holds(v, from, n, part)
             PROVE  Field(v, from, n, 0) = part
  OBVIOUS
<1>1. \A b \in 0 .. 0 + n - 1 : b \in 0 .. n - 1 /\ b - 0 + from = b + from
  BY DEF Holds
<1>2. Field(v, from, n, 0) = {b \in 0 .. 0 + n - 1 : b + from \in v}
  BY <1>1 DEF Field
<1>3. 0 .. 0 + n - 1 = 0 .. n - 1
  BY DEF Holds
<1> QED BY <1>2, <1>3 DEF Holds

\* An R-type word, of parts that have their places.
Is_r(w, f7, t, s, f3, d, opcode) ==
    /\ f7 \in SUBSET Code /\ t \in SUBSET Name /\ s \in SUBSET Name
    /\ f3 \in SUBSET Choice /\ d \in SUBSET Name /\ opcode \in SUBSET Code
    /\ w = Encode_r(f7, t, s, f3, d, opcode)

\* An R-type word gives back its fields.
LEMMA FieldsOf_r ==
    ASSUME NEW w, NEW f7, NEW t, NEW s, NEW f3, NEW d, NEW opcode,
           Is_r(w, f7, t, s, f3, d, opcode)
    PROVE  /\ Field(w, 0, 7, 0) = opcode /\ Field(w, 12, 3, 0) = f3
           /\ Field(w, 25, 7, 0) = f7
           /\ Field(w, 7, 5, 0) = d /\ Field(w, 15, 5, 0) = s /\ Field(w, 20, 5, 0) = t
           /\ SignExtend(Field(w, 20, 12, 0), 12) \cap 0 .. 4 = t
           /\ 10 \in SignExtend(Field(w, 20, 12, 0), 12) <=> 5 \in f7
<1>0. /\ f7 \in SUBSET Code /\ t \in SUBSET Name /\ s \in SUBSET Name
      /\ f3 \in SUBSET Choice /\ d \in SUBSET Name /\ opcode \in SUBSET Code
      /\ w = Encode_r(f7, t, s, f3, d, opcode)
  BY DEF Is_r
<1>1. \A b \in Int : b \in w <=>
        \/ b \in 25 .. 31 /\ b - 25 \in f7
        \/ b \in 20 .. 24 /\ b - 20 \in t
        \/ b \in 15 .. 19 /\ b - 15 \in s
        \/ b \in 12 .. 14 /\ b - 12 \in f3
        \/ b \in 7 .. 11 /\ b - 7 \in d
        \/ b \in opcode
  <2>1. TAKE b \in Int
  <2>2. b \in w <=> \/ b \in Left(f7, 25) \/ b \in Left(t, 20) \/ b \in Left(s, 15)
                    \/ b \in Left(f3, 12) \/ b \in Left(d, 7) \/ b \in opcode
    BY <1>0, SixSets DEF Encode_r
  <2> QED BY <1>0, <2>2 DEF Left, Bit, Code, Name, Choice
<1>2. Holds(w, 0, 7, opcode)
  BY <1>0, <1>1 DEF Holds, Code, Name, Choice
<1>3. Holds(w, 12, 3, f3)
  BY <1>0, <1>1 DEF Holds, Code, Name, Choice
<1>4. Holds(w, 25, 7, f7)
  BY <1>0, <1>1 DEF Holds, Code, Name, Choice
<1>5. Holds(w, 7, 5, d)
  BY <1>0, <1>1 DEF Holds, Code, Name, Choice
<1>6. Holds(w, 15, 5, s)
  BY <1>0, <1>1 DEF Holds, Code, Name, Choice
<1>7. Holds(w, 20, 5, t)
  BY <1>0, <1>1 DEF Holds, Code, Name, Choice
<1>8. Holds(w, 20, 12, {b \in 0 .. 11 : IF b < 5 THEN b \in t ELSE b - 5 \in f7})
  BY <1>0, <1>1 DEF Holds, Code, Name, Choice
<1> DEFINE F == Field(w, 20, 12, 0)
<1>9. (\A b \in 0 .. 4 : b \in F <=> b \in t) /\ (10 \in F <=> 5 \in f7)
  <2>1. F = {b \in 0 .. 11 : IF b < 5 THEN b \in t ELSE b - 5 \in f7}
    BY <1>0, <1>8, FieldHolds
  <2> HIDE DEF F
  <2> QED BY <1>0, <2>1
<1>10. SignExtend(F, 12) \cap 0 .. 4 = t /\ (10 \in SignExtend(F, 12) <=> 5 \in f7)
  <2> HIDE DEF F
  <2>1. \A b \in 0 .. 11 : b \in SignExtend(F, 12) <=> b \in F
    BY DEF SignExtend, Bit
  <2>2. \A b \in 0 .. 4 : b \in SignExtend(F, 12) <=> b \in t
    BY <1>9, <2>1
  <2>3. 10 \in SignExtend(F, 12) <=> 5 \in f7
    BY <1>9, <2>1
  <2> QED BY <1>0, <2>2, <2>3 DEF Name
<1> QED BY <1>2, <1>3, <1>4, <1>5, <1>6, <1>7, <1>10, FieldHolds

\* An I-type word, of parts that have their places.
Is_i(w, imm, s, f3, d, opcode) ==
    /\ imm \in SUBSET Bit /\ s \in SUBSET Name /\ f3 \in SUBSET Choice
    /\ d \in SUBSET Name /\ opcode \in SUBSET Code
    /\ w = Encode_i(imm, s, f3, d, opcode)

\* An I-type word gives back its fields, and the bits of its number it has
\* place for.
LEMMA FieldsOf_i ==
    ASSUME NEW w, NEW imm, NEW s, NEW f3, NEW d, NEW opcode,
           Is_i(w, imm, s, f3, d, opcode)
    PROVE  /\ Field(w, 0, 7, 0) = opcode
           /\ Field(w, 12, 3, 0) = f3
           /\ Field(w, 7, 5, 0) = d
           /\ Field(w, 15, 5, 0) = s
           /\ Field(w, 20, 12, 0) = imm \cap 0 .. 11
<1>0. /\ imm \in SUBSET Bit /\ s \in SUBSET Name /\ f3 \in SUBSET Choice
      /\ d \in SUBSET Name /\ opcode \in SUBSET Code
      /\ w = Encode_i(imm, s, f3, d, opcode)
  BY DEF Is_i
<1>1. \A b \in Int : b \in w <=>
        \/ b \in 20 .. 31 /\ b - 20 \in imm
        \/ b \in 15 .. 19 /\ b - 15 \in s
        \/ b \in 12 .. 14 /\ b - 12 \in f3
        \/ b \in 7 .. 11 /\ b - 7 \in d
        \/ b \in opcode
  BY <1>0 DEF Encode_i, Left, Field, Bit, Code, Name, Choice
<1>2. Holds(w, 0, 7, opcode)
  BY <1>0, <1>1 DEF Holds, Code, Name, Choice, Bit
<1>3. Holds(w, 12, 3, f3)
  BY <1>0, <1>1 DEF Holds, Code, Name, Choice, Bit
<1>4. Holds(w, 7, 5, d)
  BY <1>0, <1>1 DEF Holds, Code, Name, Choice, Bit
<1>5. Holds(w, 15, 5, s)
  BY <1>0, <1>1 DEF Holds, Code, Name, Choice, Bit
<1>6. Holds(w, 20, 12, imm \cap 0 .. 11)
  BY <1>0, <1>1 DEF Holds, Code, Name, Choice, Bit
<1> QED BY <1>2, <1>3, <1>4, <1>5, <1>6, FieldHolds

\* An S-type word, of parts that have their places.
Is_s(w, imm, t, s, f3, opcode) ==
    /\ imm \in SUBSET Bit /\ t \in SUBSET Name /\ s \in SUBSET Name
    /\ f3 \in SUBSET Choice /\ opcode \in SUBSET Code
    /\ w = Encode_s(imm, t, s, f3, opcode)

\* An S-type word gives back its fields, and the bits of its number it has
\* place for.
LEMMA FieldsOf_s ==
    ASSUME NEW w, NEW imm, NEW t, NEW s, NEW f3, NEW opcode,
           Is_s(w, imm, t, s, f3, opcode)
    PROVE  /\ Field(w, 0, 7, 0) = opcode
           /\ Field(w, 12, 3, 0) = f3
           /\ Field(w, 15, 5, 0) = s
           /\ Field(w, 20, 5, 0) = t
           /\ Field(w, 25, 7, 5) \cup Field(w, 7, 5, 0) = imm \cap 0 .. 11
<1>0. /\ imm \in SUBSET Bit /\ t \in SUBSET Name /\ s \in SUBSET Name
      /\ f3 \in SUBSET Choice /\ opcode \in SUBSET Code
      /\ w = Encode_s(imm, t, s, f3, opcode)
  BY DEF Is_s
<1>1. \A b \in Int : b \in w <=>
        \/ b \in 25 .. 31 /\ b - 20 \in imm
        \/ b \in 20 .. 24 /\ b - 20 \in t
        \/ b \in 15 .. 19 /\ b - 15 \in s
        \/ b \in 12 .. 14 /\ b - 12 \in f3
        \/ b \in 7 .. 11 /\ b - 7 \in imm
        \/ b \in opcode
  BY <1>0 DEF Encode_s, Left, Field, Bit, Code, Name, Choice
<1>2. Holds(w, 0, 7, opcode)
  BY <1>0, <1>1 DEF Holds, Code, Name, Choice, Bit
<1>3. Holds(w, 12, 3, f3)
  BY <1>0, <1>1 DEF Holds, Code, Name, Choice, Bit
<1>4. Holds(w, 15, 5, s)
  BY <1>0, <1>1 DEF Holds, Code, Name, Choice, Bit
<1>5. Holds(w, 20, 5, t)
  BY <1>0, <1>1 DEF Holds, Code, Name, Choice, Bit
<1>6. Field(w, 25, 7, 5) \cup Field(w, 7, 5, 0) = imm \cap 0 .. 11
  BY <1>0, <1>1 DEF Field, Code, Name, Choice, Bit
<1> QED BY <1>2, <1>3, <1>4, <1>5, <1>6, FieldHolds

\* A B-type word, of parts that have their places.
Is_b(w, imm, t, s, f3, opcode) ==
    /\ imm \in SUBSET Bit /\ t \in SUBSET Name /\ s \in SUBSET Name
    /\ f3 \in SUBSET Choice /\ opcode \in SUBSET Code
    /\ w = Encode_b(imm, t, s, f3, opcode)

\* A B-type word gives back its fields, and the bits of its number it has
\* place for.
LEMMA FieldsOf_b ==
    ASSUME NEW w, NEW imm, NEW t, NEW s, NEW f3, NEW opcode,
           Is_b(w, imm, t, s, f3, opcode)
    PROVE  /\ Field(w, 0, 7, 0) = opcode
           /\ Field(w, 12, 3, 0) = f3
           /\ Field(w, 15, 5, 0) = s
           /\ Field(w, 20, 5, 0) = t
           /\ UNION {Field(w, 31, 1, 12), Field(w, 7, 1, 11), Field(w, 25, 6, 5), Field(w, 8, 4, 1)}
                = imm \cap 1 .. 12
<1>0. /\ imm \in SUBSET Bit /\ t \in SUBSET Name /\ s \in SUBSET Name
      /\ f3 \in SUBSET Choice /\ opcode \in SUBSET Code
      /\ w = Encode_b(imm, t, s, f3, opcode)
  BY DEF Is_b
<1>1. \A b \in Int : b \in w <=>
        \/ b = 31 /\ 12 \in imm
        \/ b \in 25 .. 30 /\ b - 20 \in imm
        \/ b \in 20 .. 24 /\ b - 20 \in t
        \/ b \in 15 .. 19 /\ b - 15 \in s
        \/ b \in 12 .. 14 /\ b - 12 \in f3
        \/ b \in 8 .. 11 /\ b - 7 \in imm
        \/ b = 7 /\ 11 \in imm
        \/ b \in opcode
  <2> DEFINE u == Half(imm)
  <2>1. TAKE b \in Int
  <2>2. \A k \in 0 .. 30 : k \in u <=> k + 1 \in imm
    BY <1>0 DEF Half, Bit
  <2>3. b \in w <=> \/ b \in Field(u, 11, 1, 31) \/ b \in Field(u, 4, 6, 25)
                    \/ b \in Left(t, 20) \/ b \in Left(s, 15) \/ b \in Left(f3, 12)
                    \/ b \in Field(u, 0, 4, 8) \/ b \in Field(u, 10, 1, 7) \/ b \in opcode
    BY <1>0 DEF Encode_b
  <2> HIDE DEF u
  <2> QED BY <1>0, <2>2, <2>3 DEF Left, Field, Bit, Code, Name, Choice
<1>2. Holds(w, 0, 7, opcode)
  BY <1>0, <1>1 DEF Holds, Code, Name, Choice, Bit
<1>3. Holds(w, 12, 3, f3)
  BY <1>0, <1>1 DEF Holds, Code, Name, Choice, Bit
<1>4. Holds(w, 15, 5, s)
  BY <1>0, <1>1 DEF Holds, Code, Name, Choice, Bit
<1>5. Holds(w, 20, 5, t)
  BY <1>0, <1>1 DEF Holds, Code, Name, Choice, Bit
<1>6. UNION {Field(w, 31, 1, 12), Field(w, 7, 1, 11), Field(w, 25, 6, 5), Field(w, 8, 4, 1)}
                = imm \cap 1 .. 12
  BY <1>0, <1>1 DEF Field, Code, Name, Choice, Bit
<1> QED BY <1>2, <1>3, <1>4, <1>5, <1>6, FieldHolds

\* A U-type word, of parts that have their places.
Is_u(w, imm, d, opcode) ==
    /\ imm \in SUBSET Bit /\ d \in SUBSET Name /\ opcode \in SUBSET Code
    /\ w = Encode_u(imm, d, opcode)

\* A U-type word gives back its fields, and the bits of its number it has
\* place for.
LEMMA FieldsOf_u ==
    ASSUME NEW w, NEW imm, NEW d, NEW opcode,
           Is_u(w, imm, d, opcode)
    PROVE  /\ Field(w, 0, 7, 0) = opcode
           /\ Field(w, 7, 5, 0) = d
           /\ Field(w, 12, 20, 12) = imm \cap 12 .. 31
<1>0. /\ imm \in SUBSET Bit /\ d \in SUBSET Name /\ opcode \in SUBSET Code
      /\ w = Encode_u(imm, d, opcode)
  BY DEF Is_u
<1>1. \A b \in Int : b \in w <=>
        \/ b \in 12 .. 31 /\ b \in imm
        \/ b \in 7 .. 11 /\ b - 7 \in d
        \/ b \in opcode
  BY <1>0 DEF Encode_u, Left, Field, Bit, Code, Name, Choice
<1>2. Holds(w, 0, 7, opcode)
  BY <1>0, <1>1 DEF Holds, Code, Name, Choice, Bit
<1>3. Holds(w, 7, 5, d)
  BY <1>0, <1>1 DEF Holds, Code, Name, Choice, Bit
<1>4. Field(w, 12, 20, 12) = imm \cap 12 .. 31
  BY <1>0, <1>1 DEF Field, Code, Name, Choice, Bit
<1> QED BY <1>2, <1>3, <1>4, FieldHolds

\* A J-type word, of parts that have their places.
Is_j(w, imm, d, opcode) ==
    /\ imm \in SUBSET Bit /\ d \in SUBSET Name /\ opcode \in SUBSET Code
    /\ w = Encode_j(imm, d, opcode)

\* A J-type word gives back its fields, and the bits of its number it has
\* place for.
LEMMA FieldsOf_j ==
    ASSUME NEW w, NEW imm, NEW d, NEW opcode,
           Is_j(w, imm, d, opcode)
    PROVE  /\ Field(w, 0, 7, 0) = opcode
           /\ Field(w, 7, 5, 0) = d
           /\ UNION {Field(w, 31, 1, 20), Field(w, 12, 8, 12), Field(w, 20, 1, 11),
                     Field(w, 21, 10, 1)} = imm \cap 1 .. 20
<1>0. /\ imm \in SUBSET Bit /\ d \in SUBSET Name /\ opcode \in SUBSET Code
      /\ w = Encode_j(imm, d, opcode)
  BY DEF Is_j
<1>1. \A b \in Int : b \in w <=>
        \/ b = 31 /\ 20 \in imm
        \/ b \in 21 .. 30 /\ b - 20 \in imm
        \/ b = 20 /\ 11 \in imm
        \/ b \in 12 .. 19 /\ b \in imm
        \/ b \in 7 .. 11 /\ b - 7 \in d
        \/ b \in opcode
  <2> DEFINE u == Half(imm)
  <2>1. TAKE b \in Int
  <2>2. \A k \in 0 .. 30 : k \in u <=> k + 1 \in imm
    BY <1>0 DEF Half, Bit
  <2>3. b \in w <=> \/ b \in Field(u, 19, 1, 31) \/ b \in Field(u, 0, 10, 21)
                    \/ b \in Field(u, 10, 1, 20) \/ b \in Field(u, 11, 8, 12)
                    \/ b \in Left(d, 7) \/ b \in opcode
    BY <1>0 DEF Encode_j
  <2> HIDE DEF u
  <2> QED BY <1>0, <2>2, <2>3 DEF Left, Field, Bit, Code, Name, Choice
<1>2. Holds(w, 0, 7, opcode)
  BY <1>0, <1>1 DEF Holds, Code, Name, Choice, Bit
<1>3. Holds(w, 7, 5, d)
  BY <1>0, <1>1 DEF Holds, Code, Name, Choice, Bit
<1>4. UNION {Field(w, 31, 1, 20), Field(w, 12, 8, 12), Field(w, 20, 1, 11),
                     Field(w, 21, 10, 1)} = imm \cap 1 .. 20
  BY <1>0, <1>1 DEF Field, Code, Name, Choice, Bit
<1> QED BY <1>2, <1>3, <1>4, FieldHolds

\* A word of any format, of parts that may spill over.
Spilt(w, opcode) ==
    /\ opcode \in SUBSET Code
    /\ \E imm, f7, t, s, f3, d \in SUBSET Bit :
          \/ w = Encode_r(f7, t, s, f3, d, opcode)
          \/ w = Encode_i(imm, s, f3, d, opcode)
          \/ w = Encode_s(imm, t, s, f3, opcode)
          \/ w = Encode_b(imm, t, s, f3, opcode)
          \/ w = Encode_u(imm, d, opcode)
          \/ w = Encode_j(imm, d, opcode)

\* Every format is such a word.
LEMMA EveryFormat ==
    ASSUME NEW opcode \in SUBSET Code
    PROVE  /\ \A f7, t, s, f3, d \in SUBSET Bit : Spilt(Encode_r(f7, t, s, f3, d, opcode), opcode)
           /\ \A imm, s, f3, d \in SUBSET Bit : Spilt(Encode_i(imm, s, f3, d, opcode), opcode)
           /\ \A imm, t, s, f3 \in SUBSET Bit : Spilt(Encode_s(imm, t, s, f3, opcode), opcode)
           /\ \A imm, t, s, f3 \in SUBSET Bit : Spilt(Encode_b(imm, t, s, f3, opcode), opcode)
           /\ \A imm, d \in SUBSET Bit : Spilt(Encode_u(imm, d, opcode), opcode)
           /\ \A imm, d \in SUBSET Bit : Spilt(Encode_j(imm, d, opcode), opcode)
<1> {} \in SUBSET Bit
  OBVIOUS
<1>1. \A f7, t, s, f3, d \in SUBSET Bit : Spilt(Encode_r(f7, t, s, f3, d, opcode), opcode)
  <2> TAKE f7, t, s, f3, d \in SUBSET Bit
  <2>1. \E imm, f7_, t_, s_, f3_, d_ \in SUBSET Bit :
           Encode_r(f7, t, s, f3, d, opcode) = Encode_r(f7_, t_, s_, f3_, d_, opcode)
    <3> WITNESS {} \in SUBSET Bit, f7 \in SUBSET Bit, t \in SUBSET Bit, s \in SUBSET Bit,
                f3 \in SUBSET Bit, d \in SUBSET Bit
    <3> QED OBVIOUS
  <2> QED BY <2>1, Zenon DEF Spilt
<1>2. \A imm, s, f3, d \in SUBSET Bit : Spilt(Encode_i(imm, s, f3, d, opcode), opcode)
  BY ZenonT(40) DEF Spilt
<1>3. \A imm, t, s, f3 \in SUBSET Bit : Spilt(Encode_s(imm, t, s, f3, opcode), opcode)
  BY ZenonT(40) DEF Spilt
<1>4. \A imm, t, s, f3 \in SUBSET Bit : Spilt(Encode_b(imm, t, s, f3, opcode), opcode)
  BY ZenonT(40) DEF Spilt
<1>5. \A imm, d \in SUBSET Bit : Spilt(Encode_u(imm, d, opcode), opcode)
  BY ZenonT(40) DEF Spilt
<1>6. \A imm, d \in SUBSET Bit : Spilt(Encode_j(imm, d, opcode), opcode)
  BY Zenon DEF Spilt
<1> QED BY <1>1, <1>2, <1>3, <1>4, <1>5, <1>6

\* Whatever was meant for the other fields, the opcode is as it was.
LEMMA OpcodeKept ==
    ASSUME NEW w, NEW opcode, Spilt(w, opcode)
    PROVE  w \subseteq Bit /\ Field(w, 0, 7, 0) = opcode
<1> PICK imm \in SUBSET Bit, f7 \in SUBSET Bit, t \in SUBSET Bit, s \in SUBSET Bit,
         f3 \in SUBSET Bit, d \in SUBSET Bit :
            \/ w = Encode_r(f7, t, s, f3, d, opcode)
            \/ w = Encode_i(imm, s, f3, d, opcode)
            \/ w = Encode_s(imm, t, s, f3, opcode)
            \/ w = Encode_b(imm, t, s, f3, opcode)
            \/ w = Encode_u(imm, d, opcode)
            \/ w = Encode_j(imm, d, opcode)
  BY DEF Spilt
<1> opcode \in SUBSET Code
  BY DEF Spilt
<1>1. \A v \in SUBSET Bit : \A k \in 7 .. 25 : \A b \in Left(v, k) : b \in 7 .. 31
  BY DEF Left, Bit
<1>2. \A v, from : \A to \in 7 .. 31 : \A n \in 1 .. 32 - to :
         \A b \in Field(v, from, n, to) : b \in 7 .. 31
  BY DEF Field
<1> DEFINE u == Half(imm)
<1>3. \A b \in w : b \in opcode \/ b \in 7 .. 31
  <2> HIDE DEF u
  <2>1. CASE w = Encode_r(f7, t, s, f3, d, opcode)
    BY <1>1, <2>1 DEF Encode_r
  <2>2. CASE w = Encode_i(imm, s, f3, d, opcode)
    BY <1>1, <1>2, <2>2 DEF Encode_i
  <2>3. CASE w = Encode_s(imm, t, s, f3, opcode)
    BY <1>1, <1>2, <2>3 DEF Encode_s
  <2>4. CASE w = Encode_b(imm, t, s, f3, opcode)
    BY <1>1, <1>2, <2>4 DEF Encode_b
  <2>5. CASE w = Encode_u(imm, d, opcode)
    BY <1>1, <1>2, <2>5 DEF Encode_u
  <2>6. CASE w = Encode_j(imm, d, opcode)
    BY <1>1, <1>2, <2>6 DEF Encode_j
  <2> QED BY <2>1, <2>2, <2>3, <2>4, <2>5, <2>6
<1>4. opcode \subseteq w
  BY DEF Encode_r, Encode_i, Encode_s, Encode_b, Encode_u, Encode_j
<1>5. Holds(w, 0, 7, opcode)
  BY <1>3, <1>4 DEF Holds, Code
<1>6. w \subseteq Bit
  <2>1. \A b \in opcode : b \in Bit
    BY DEF Code, Bit
  <2>2. \A b \in 7 .. 31 : b \in Bit
    BY DEF Bit
  <2> QED BY <1>3, <2>1, <2>2
<1> QED BY <1>5, <1>6, FieldHolds

----------------------------------------------------------------------------
(* Numbers in fields.                                                      *)

\* The value of bit k.
Power(k) == 2 ^ k

\* The powers of two up to 2^30.
LEMMA Powers ==
    /\ \A k \in 0 .. 30 : Power(k) \in Nat \ {0}
    /\ \A k \in 5 .. 30 : Power(k) >= 32
    /\ \A k \in 11 .. 30 : Power(k) >= 2048
    /\ \A k \in 12 .. 30 : Power(k) >= 4096
    /\ \A k \in 20 .. 30 : Power(k) >= 1048576
<1>1. /\ Power(0) = 1 /\ Power(1) = 2 /\ Power(2) = 4 /\ Power(3) = 8 /\ Power(4) = 16
      /\ Power(5) = 32 /\ Power(6) = 64 /\ Power(7) = 128 /\ Power(8) = 256
      /\ Power(9) = 512 /\ Power(10) = 1024 /\ Power(11) = 2048 /\ Power(12) = 4096
      /\ Power(13) = 8192 /\ Power(14) = 16384 /\ Power(15) = 32768
      /\ Power(16) = 65536 /\ Power(17) = 131072 /\ Power(18) = 262144
      /\ Power(19) = 524288 /\ Power(20) = 1048576 /\ Power(21) = 2097152
      /\ Power(22) = 4194304 /\ Power(23) = 8388608 /\ Power(24) = 16777216
      /\ Power(25) = 33554432 /\ Power(26) = 67108864 /\ Power(27) = 134217728
      /\ Power(28) = 268435456 /\ Power(29) = 536870912 /\ Power(30) = 1073741824
  BY SMT DEF Power
<1>2. \A k \in 0 .. 30 :
        \/ k = 0 \/ k = 1 \/ k = 2 \/ k = 3 \/ k = 4 \/ k = 5 \/ k = 6 \/ k = 7 \/ k = 8
        \/ k = 9 \/ k = 10 \/ k = 11 \/ k = 12 \/ k = 13 \/ k = 14 \/ k = 15 \/ k = 16
        \/ k = 17 \/ k = 18 \/ k = 19 \/ k = 20 \/ k = 21 \/ k = 22 \/ k = 23 \/ k = 24
        \/ k = 25 \/ k = 26 \/ k = 27 \/ k = 28 \/ k = 29 \/ k = 30
  BY SMT
<1> QED BY <1>1, <1>2, SMT

\* The bits of a number above its size are those of its sign.
LEMMA HighBits ==
    ASSUME NEW i \in Int, NEW p \in Nat \ {0}, -p <= i, i < p
    PROVE  (i \div p) % 2 = 1 <=> i < 0
<1>1. CASE i < 0
  <2>1. i = p * (-1) + (i + p) /\ i + p \in 0 .. p - 1
    BY <1>1
  <2>2. i \div p = -1
    BY <2>1, DivModUnique
  <2>3. -1 = 2 * (-1) + 1 /\ 1 \in 0 .. 2 - 1 /\ -1 \in Int /\ 2 \in Nat \ {0}
    OBVIOUS
  <2>4. (-1) % 2 = 1
    BY <2>3, DivModUnique
  <2> QED BY <1>1, <2>2, <2>4
<1>2. CASE i >= 0
  <2>1. i = p * 0 + i /\ i \in 0 .. p - 1
    BY <1>2
  <2>2. i \div p = 0
    BY <2>1, DivModUnique
  <2> QED BY <1>2, <2>2
<1> QED BY <1>1, <1>2

\* Bit by bit, with the powers by their name.
LEMMA OnesAre ==
    ASSUME NEW i
    PROVE  Ones(i) = {k \in Bit : IF k = 31 THEN i < 0 ELSE (i \div Power(k)) % 2 = 1}
BY Zenon DEF Ones, Power

\* Numbers have 32 bits.
LEMMA OnesInBit ==
    ASSUME NEW i
    PROVE  Ones(i) \subseteq Bit /\ Bit = 0 .. 31
<1>1. \A k \in Ones(i) : k \in Bit
  BY Zenon DEF Ones
<1> QED BY <1>1 DEF Bit

\* The bits from the mth on are those of the sign, in a number below 2^m.
LEMMA OnesAbove ==
    ASSUME NEW i \in Int, NEW m \in 0 .. 31, NEW q \in Nat, -q <= i, i < q,
           \A k \in m .. 30 : Power(k) >= q
    PROVE  \A k \in m .. 31 : k \in Ones(i) <=> i < 0
<1>1. ASSUME NEW k \in m .. 30 PROVE (i \div Power(k)) % 2 = 1 <=> i < 0
  <2>1. Power(k) \in Nat \ {0} /\ Power(k) >= q
    BY Powers, SMT
  <2>2. -Power(k) <= i /\ i < Power(k)
    BY <2>1, SMT
  <2> QED BY <2>1, <2>2, HighBits, SMT
<1> QED BY <1>1, OnesAre, SMT DEF Bit

\* The number of a register, or of a shift, has five bits.
LEMMA OnesOfName ==
    ASSUME NEW i \in Int, 0 <= i, i < 32
    PROVE  Ones(i) \in SUBSET Name
<1>1. \A k \in 5 .. 30 : Power(k) >= 32
  BY Powers, SMT
<1>2. \A k \in 5 .. 31 : k \in Ones(i) <=> i < 0
  BY <1>1, OnesAbove
<1>3. Ones(i) \subseteq 0 .. 31
  BY OnesInBit
<1> QED BY <1>2, <1>3 DEF Name

\* A number of 12 bits is the extension of its lower ones.
LEMMA OnesOfShort ==
    ASSUME NEW i \in Int, -2048 <= i, i < 2048
    PROVE  SignExtend(Ones(i) \cap 0 .. 11, 12) = Ones(i)
<1>1. \A k \in 11 .. 30 : Power(k) >= 2048
  BY Powers, SMT
<1>2. \A k \in 11 .. 31 : k \in Ones(i) <=> i < 0
  BY <1>1, OnesAbove, SMT
<1>3. Ones(i) \subseteq 0 .. 31
  BY OnesInBit
<1> QED BY <1>2, <1>3, SMT DEF SignExtend, Bit

\* An even number has no lowest bit.
LEMMA OnesOfEven ==
    ASSUME NEW i \in Int, i % 2 = 0
    PROVE  0 \notin Ones(i)
<1>1. Power(0) = 1 /\ i \div 1 = i
  BY DEF Power
<1> QED BY <1>1, OnesAre DEF Bit

\* The distance of a branch is the extension of the bits that have a place.
LEMMA OnesOfBranch ==
    ASSUME NEW i \in Int, -4096 <= i, i < 4096, i % 2 = 0
    PROVE  SignExtend(Ones(i) \cap 1 .. 12, 13) = Ones(i)
<1>1. \A k \in 12 .. 30 : Power(k) >= 4096
  BY Powers, SMT
<1>2. \A k \in 12 .. 31 : k \in Ones(i) <=> i < 0
  BY <1>1, OnesAbove, SMT
<1>3. 0 \notin Ones(i)
  BY OnesOfEven, SMT
<1>4. Ones(i) \subseteq 0 .. 31
  BY OnesInBit, SMT
<1> QED BY <1>2, <1>3, <1>4, SMT DEF SignExtend, Bit

\* So is that of a jump.
LEMMA OnesOfJump ==
    ASSUME NEW i \in Int, -1048576 <= i, i < 1048576, i % 2 = 0
    PROVE  SignExtend(Ones(i) \cap 1 .. 20, 21) = Ones(i)
<1>1. \A k \in 20 .. 30 : Power(k) >= 1048576
  BY Powers, SMT
<1>2. \A k \in 20 .. 31 : k \in Ones(i) <=> i < 0
  BY <1>1, OnesAbove, SMT
<1>3. 0 \notin Ones(i)
  BY OnesOfEven, SMT
<1>4. Ones(i) \subseteq 0 .. 31
  BY OnesInBit, SMT
<1> QED BY <1>2, <1>3, <1>4, SMT DEF SignExtend, Bit

----------------------------------------------------------------------------
(* The tables.                                                             *)

\* The mnemonics of each table.
LEMMA Domains ==
    /\ DOMAIN RegisterOps =
         {"add", "sub", "sll", "slt", "sltu", "xor", "srl", "sra", "or", "and",
          "mul", "mulh", "mulhsu", "mulhu", "div", "divu", "rem", "remu"}
    /\ DOMAIN ImmediateOps = {"addi", "slti", "sltiu", "xori", "ori", "andi"}
    /\ DOMAIN ShiftOps = {"slli", "srli", "srai"}
    /\ DOMAIN LoadOps = {"lb", "lh", "lw", "lbu", "lhu"}
    /\ DOMAIN StoreOps = {"sb", "sh", "sw"}
    /\ DOMAIN BranchOps = {"beq", "bne", "blt", "bge", "bltu", "bgeu"}
BY DEF RegisterOps, ImmediateOps, ShiftOps, LoadOps, StoreOps, BranchOps

\* The code of one operation only selects it.
LEMMA SelectedIs ==
    ASSUME NEW codes, NEW name \in DOMAIN codes,
           \A other \in DOMAIN codes : codes[other] = codes[name] => other = name
    PROVE  Selected(codes, codes[name]) = name
BY DEF Selected

\* No two operations share a code.
LEMMA AluSelected ==
    /\ DOMAIN AluCodes = {"add", "sll", "slt", "sltu", "xor", "sr", "or", "and"}
    /\ \A name \in DOMAIN AluCodes : Selected(AluCodes, AluCodes[name]) = name
    /\ \A n \in DOMAIN AluCodes :
        /\ 0 \in AluCodes[n] <=> n \in {"sll", "sltu", "sr", "and"}
        /\ 1 \in AluCodes[n] <=> n \in {"slt", "sltu", "or", "and"}
        /\ 2 \in AluCodes[n] <=> n \in {"xor", "sr", "or", "and"}
        /\ AluCodes[n] \in SUBSET Choice
<1>1. DOMAIN AluCodes = {"add", "sll", "slt", "sltu", "xor", "sr", "or", "and"}
  BY DEF AluCodes
<1>2. \A n \in DOMAIN AluCodes :
        /\ 0 \in AluCodes[n] <=> n \in {"sll", "sltu", "sr", "and"}
        /\ 1 \in AluCodes[n] <=> n \in {"slt", "sltu", "or", "and"}
        /\ 2 \in AluCodes[n] <=> n \in {"xor", "sr", "or", "and"}
        /\ AluCodes[n] \in SUBSET Choice
  BY <1>1 DEF AluCodes, Choice
<1>3. \A n, m \in DOMAIN AluCodes : AluCodes[n] = AluCodes[m] => n = m
  BY <1>1, <1>2
<1> QED BY <1>1, <1>2, <1>3, SelectedIs

\* No two multiplications or divisions share a code.
LEMMA MulSelected ==
    /\ DOMAIN MulCodes = {"mul", "mulh", "mulhsu", "mulhu", "div", "divu", "rem", "remu"}
    /\ \A name \in DOMAIN MulCodes : Selected(MulCodes, MulCodes[name]) = name
    /\ \A n \in DOMAIN MulCodes :
        /\ 0 \in MulCodes[n] <=> n \in {"mulh", "mulhu", "divu", "remu"}
        /\ 1 \in MulCodes[n] <=> n \in {"mulhsu", "mulhu", "rem", "remu"}
        /\ 2 \in MulCodes[n] <=> n \in {"div", "divu", "rem", "remu"}
        /\ MulCodes[n] \in SUBSET Choice
<1>1. DOMAIN MulCodes = {"mul", "mulh", "mulhsu", "mulhu", "div", "divu", "rem", "remu"}
  BY DEF MulCodes
<1>2. \A n \in DOMAIN MulCodes :
        /\ 0 \in MulCodes[n] <=> n \in {"mulh", "mulhu", "divu", "remu"}
        /\ 1 \in MulCodes[n] <=> n \in {"mulhsu", "mulhu", "rem", "remu"}
        /\ 2 \in MulCodes[n] <=> n \in {"div", "divu", "rem", "remu"}
        /\ MulCodes[n] \in SUBSET Choice
  BY <1>1 DEF MulCodes, Choice
<1>3. \A n, m \in DOMAIN MulCodes : MulCodes[n] = MulCodes[m] => n = m
  BY <1>1, <1>2
<1> QED BY <1>1, <1>2, <1>3, SelectedIs

\* A load is selected by the code it was encoded with.
LEMMA LoadSelected ==
    \A op \in DOMAIN LoadOps :
       LoadOps[op] \in SUBSET Choice /\ Selected(LoadCodes, LoadOps[op]) = op
<1>1. LoadOps = LoadCodes /\ DOMAIN LoadCodes = {"lb", "lh", "lw", "lbu", "lhu"}
  BY DEF LoadOps, LoadCodes
<1>2. \A n \in DOMAIN LoadCodes :
        /\ 0 \in LoadCodes[n] <=> n \in {"lh", "lhu"}
        /\ 1 \in LoadCodes[n] <=> n = "lw"
        /\ 2 \in LoadCodes[n] <=> n \in {"lbu", "lhu"}
  BY <1>1 DEF LoadCodes
<1>3. \A n, m \in DOMAIN LoadCodes : LoadCodes[n] = LoadCodes[m] => n = m
  BY <1>1, <1>2
<1>4. \A n \in DOMAIN LoadCodes : LoadCodes[n] \in SUBSET Choice
  BY <1>1 DEF LoadCodes, Choice
<1> QED BY <1>1, <1>3, <1>4, SelectedIs

\* A store is selected by the code it was encoded with.
LEMMA StoreSelected ==
    \A op \in DOMAIN StoreOps :
       StoreOps[op] \in SUBSET Choice /\ Selected(StoreCodes, StoreOps[op]) = op
<1>1. StoreOps = StoreCodes /\ DOMAIN StoreCodes = {"sb", "sh", "sw"}
  BY DEF StoreOps, StoreCodes
<1>2. \A n \in DOMAIN StoreCodes :
        /\ 0 \in StoreCodes[n] <=> n = "sh"
        /\ 1 \in StoreCodes[n] <=> n = "sw"
  BY <1>1 DEF StoreCodes
<1>3. \A n, m \in DOMAIN StoreCodes : StoreCodes[n] = StoreCodes[m] => n = m
  BY <1>1, <1>2
<1>4. \A n \in DOMAIN StoreCodes : StoreCodes[n] \in SUBSET Choice
  BY <1>1 DEF StoreCodes, Choice
<1> QED BY <1>1, <1>3, <1>4, SelectedIs

\* A branch is selected by the code it was encoded with.
LEMMA BranchSelected ==
    \A op \in DOMAIN BranchOps :
       BranchOps[op] \in SUBSET Choice /\ Selected(BranchCodes, BranchOps[op]) = op
<1>1. /\ BranchOps = BranchCodes
      /\ DOMAIN BranchCodes = {"beq", "bne", "blt", "bge", "bltu", "bgeu"}
  BY DEF BranchOps, BranchCodes
<1>2. \A n \in DOMAIN BranchCodes :
        /\ 0 \in BranchCodes[n] <=> n \in {"bne", "bge", "bgeu"}
        /\ 1 \in BranchCodes[n] <=> n \in {"bltu", "bgeu"}
        /\ 2 \in BranchCodes[n] <=> n \in {"blt", "bge", "bltu", "bgeu"}
  BY <1>1 DEF BranchCodes
<1>3. \A n, m \in DOMAIN BranchCodes : BranchCodes[n] = BranchCodes[m] => n = m
  BY <1>1, <1>2
<1>4. \A n \in DOMAIN BranchCodes : BranchCodes[n] \in SUBSET Choice
  BY <1>1 DEF BranchCodes, Choice
<1> QED BY <1>1, <1>3, <1>4, SelectedIs

\* What the assembler puts into funct3 and funct7 selects the operation.
LEMMA RegisterCodes ==
    ASSUME NEW op \in DOMAIN RegisterOps
    PROVE  /\ RegisterOps[op].f3 \in SUBSET Choice /\ RegisterOps[op].f7 \in SUBSET Code
           /\ op \in {"add", "sub", "sll", "slt", "sltu", "xor", "srl", "sra", "or", "and"} =>
                /\ RegisterOps[op].f7 # {0} /\ (5 \in RegisterOps[op].f7 <=> op \in {"sub", "sra"})
                /\ Selected(AluCodes, RegisterOps[op].f3) = Operation(op)
           /\ op \in {"mul", "mulh", "mulhsu", "mulhu", "div", "divu", "rem", "remu"} =>
                /\ RegisterOps[op].f7 = {0}
                /\ Selected(MulCodes, RegisterOps[op].f3) = Operation(op)
<1>1. op \in {"add", "sub", "sll", "slt", "sltu", "xor", "srl", "sra", "or", "and",
          "mul", "mulh", "mulhsu", "mulhu", "div", "divu", "rem", "remu"}
  BY Domains
<1>2. RegisterOps[op].f3 \in SUBSET Choice /\ RegisterOps[op].f7 \in SUBSET Code
  BY <1>1 DEF RegisterOps, Choice, Code
<1>3. ASSUME op \in {"add", "sub", "sll", "slt", "sltu", "xor", "srl", "sra", "or", "and"}
      PROVE  /\ RegisterOps[op].f7 # {0} /\ (5 \in RegisterOps[op].f7 <=> op \in {"sub", "sra"})
             /\ Selected(AluCodes, RegisterOps[op].f3) = Operation(op)
  <2>1. RegisterOps[op].f7 # {0} /\ (5 \in RegisterOps[op].f7 <=> op \in {"sub", "sra"})
    BY <1>3 DEF RegisterOps
  <2>2. Operation(op) \in DOMAIN AluCodes /\ RegisterOps[op].f3 = AluCodes[Operation(op)]
    <3>1. \/ op \in {"add", "sub"} /\ Operation(op) = "add"
          \/ op \in {"srl", "sra"} /\ Operation(op) = "sr"
          \/ op \in {"sll", "slt", "sltu", "xor", "or", "and"} /\ Operation(op) = op
      BY <1>3 DEF Operation
    <3>2. /\ 0 \in RegisterOps[op].f3 <=> op \in {"sll", "sltu", "srl", "sra", "and"}
          /\ 1 \in RegisterOps[op].f3 <=> op \in {"slt", "sltu", "or", "and"}
          /\ 2 \in RegisterOps[op].f3 <=> op \in {"xor", "srl", "sra", "or", "and"}
      BY <1>3 DEF RegisterOps
    <3>3. Operation(op) \in DOMAIN AluCodes
      BY <3>1, AluSelected
    <3>4. \A b \in Choice : b \in RegisterOps[op].f3 <=> b \in AluCodes[Operation(op)]
      BY <3>1, <3>2, <3>3, AluSelected DEF Choice
    <3> QED BY <1>2, <3>3, <3>4, AluSelected
  <2> QED BY <2>1, <2>2, AluSelected
<1>4. ASSUME op \in {"mul", "mulh", "mulhsu", "mulhu", "div", "divu", "rem", "remu"}
      PROVE  /\ RegisterOps[op].f7 = {0}
             /\ Selected(MulCodes, RegisterOps[op].f3) = Operation(op)
  <2>1. RegisterOps[op].f7 = {0}
    BY <1>4 DEF RegisterOps
  <2>2. Operation(op) \in DOMAIN MulCodes /\ RegisterOps[op].f3 = MulCodes[Operation(op)]
    <3>1. Operation(op) = op
      BY <1>4 DEF Operation
    <3>2. /\ 0 \in RegisterOps[op].f3 <=> op \in {"mulh", "mulhu", "divu", "remu"}
          /\ 1 \in RegisterOps[op].f3 <=> op \in {"mulhsu", "mulhu", "rem", "remu"}
          /\ 2 \in RegisterOps[op].f3 <=> op \in {"div", "divu", "rem", "remu"}
      BY <1>4 DEF RegisterOps
    <3>3. op \in DOMAIN MulCodes
      BY <1>4, MulSelected
    <3>4. \A b \in Choice : b \in RegisterOps[op].f3 <=> b \in MulCodes[op]
      BY <3>2, <3>3, MulSelected DEF Choice
    <3> QED BY <1>2, <3>1, <3>3, <3>4, MulSelected
  <2> QED BY <2>1, <2>2, MulSelected
<1> QED BY <1>2, <1>3, <1>4

\* The codes of an operation on an immediate select that operation, and no shift.
LEMMA ImmediateCodes ==
    ASSUME NEW op \in DOMAIN ImmediateOps
    PROVE  /\ ImmediateOps[op] \in SUBSET Choice /\ ImmediateOps[op] \notin {{0}, {0, 2}}
           /\ Selected(AluCodes, ImmediateOps[op]) = Operation(op)
<1>1. op \in {"addi", "slti", "sltiu", "xori", "ori", "andi"}
  BY Domains
<1>2. ImmediateOps[op] \in SUBSET Choice
  BY <1>1 DEF ImmediateOps, Choice
<1>3. ImmediateOps[op] \notin {{0}, {0, 2}}
  BY <1>1 DEF ImmediateOps
<1>4. Operation(op) \in DOMAIN AluCodes /\ ImmediateOps[op] = AluCodes[Operation(op)]
  BY <1>1 DEF ImmediateOps, AluCodes, Operation
<1> QED BY <1>2, <1>3, <1>4, AluSelected

\* The codes of a shift by an immediate select that shift.
LEMMA ShiftCodes ==
    ASSUME NEW op \in DOMAIN ShiftOps
    PROVE  /\ ShiftOps[op].f3 \in SUBSET Choice /\ ShiftOps[op].f7 \in SUBSET Code
           /\ ShiftOps[op].f3 \in {{0}, {0, 2}}
           /\ 5 \in ShiftOps[op].f7 <=> op = "srai"
           /\ Selected(AluCodes, ShiftOps[op].f3) = Operation(op)
<1>1. op \in {"slli", "srli", "srai"}
  BY Domains
<1>2. ShiftOps[op].f3 \in SUBSET Choice /\ ShiftOps[op].f7 \in SUBSET Code
  BY <1>1 DEF ShiftOps, Choice, Code
<1>3. /\ ShiftOps[op].f3 \in {{0}, {0, 2}}
      /\ 5 \in ShiftOps[op].f7 <=> op = "srai"
  BY <1>1 DEF ShiftOps
<1>4. Operation(op) \in DOMAIN AluCodes /\ ShiftOps[op].f3 = AluCodes[Operation(op)]
  <2>1. \/ op = "slli" /\ Operation(op) = "sll"
        \/ op \in {"srli", "srai"} /\ Operation(op) = "sr"
    BY <1>1 DEF Operation
  <2>2. 0 \in ShiftOps[op].f3 /\ 1 \notin ShiftOps[op].f3
        /\ (2 \in ShiftOps[op].f3 <=> op \in {"srli", "srai"})
    BY <1>1 DEF ShiftOps
  <2>3. Operation(op) \in DOMAIN AluCodes
    BY <2>1, AluSelected
  <2>4. \A b \in Choice : b \in ShiftOps[op].f3 <=> b \in AluCodes[Operation(op)]
    BY <2>1, <2>2, <2>3, AluSelected DEF Choice
  <2> QED BY <1>2, <2>3, <2>4, AluSelected
<1> QED BY <1>2, <1>3, <1>4, AluSelected

----------------------------------------------------------------------------
(* Taking a word apart.                                                    *)

\* The opcodes have seven bits, and differ.
LEMMA Opcodes ==
    /\ \A opcode \in {LOAD, OP_IMM, AUIPC, STORE, OP, LUI, BRANCH, JALR, JAL, SYSTEM} :
          opcode \in SUBSET Code
    /\ LOAD \notin {OP_IMM, AUIPC, STORE, OP, LUI, BRANCH, JALR, JAL, SYSTEM}
    /\ OP_IMM \notin {AUIPC, STORE, OP, LUI, BRANCH, JALR, JAL, SYSTEM}
    /\ AUIPC \notin {STORE, OP, LUI, BRANCH, JALR, JAL, SYSTEM}
    /\ STORE \notin {OP, LUI, BRANCH, JALR, JAL, SYSTEM}
    /\ OP \notin {LUI, BRANCH, JALR, JAL, SYSTEM}
    /\ LUI \notin {BRANCH, JALR, JAL, SYSTEM}
    /\ BRANCH \notin {JALR, JAL, SYSTEM}
    /\ JALR \notin {JAL, SYSTEM}
    /\ JAL # SYSTEM
<1>1. /\ LOAD \in SUBSET Code /\ OP_IMM \in SUBSET Code /\ AUIPC \in SUBSET Code
      /\ STORE \in SUBSET Code /\ OP \in SUBSET Code /\ LUI \in SUBSET Code
      /\ BRANCH \in SUBSET Code /\ JALR \in SUBSET Code /\ JAL \in SUBSET Code
      /\ SYSTEM \in SUBSET Code
  BY DEF LOAD, OP_IMM, AUIPC, STORE, OP, LUI, BRANCH, JALR, JAL, SYSTEM, Code
<1>2. /\ 2 \notin LOAD /\ 4 \notin LOAD /\ 5 \notin LOAD
      /\ 2 \notin OP_IMM /\ 4 \in OP_IMM /\ 5 \notin OP_IMM
      /\ 2 \in AUIPC /\ 4 \in AUIPC /\ 5 \notin AUIPC
      /\ 2 \notin STORE /\ 4 \notin STORE /\ 5 \in STORE /\ 6 \notin STORE
      /\ 2 \notin OP /\ 4 \in OP /\ 5 \in OP /\ 6 \notin OP
      /\ 2 \in LUI /\ 4 \in LUI /\ 5 \in LUI
      /\ 2 \notin BRANCH /\ 4 \notin BRANCH /\ 5 \in BRANCH /\ 6 \in BRANCH
      /\ 2 \in JALR /\ 3 \notin JALR /\ 4 \notin JALR /\ 5 \in JALR
      /\ 2 \in JAL /\ 3 \in JAL /\ 4 \notin JAL /\ 5 \in JAL
      /\ 2 \notin SYSTEM /\ 4 \in SYSTEM /\ 5 \in SYSTEM /\ 6 \in SYSTEM
  BY DEF LOAD, OP_IMM, AUIPC, STORE, OP, LUI, BRANCH, JALR, JAL, SYSTEM
<1> QED BY <1>1, <1>2

\* The immediate by its opcode.
LEMMA ImmediateIs ==
    ASSUME NEW w
    PROVE  LET opcode == Field(w, 0, 7, 0) IN
           /\ opcode \in {LOAD, OP_IMM, JALR, SYSTEM} =>
                 Immediate(w) = SignExtend(Field(w, 20, 12, 0), 12)
           /\ opcode = STORE =>
                 Immediate(w) = SignExtend(Field(w, 25, 7, 5) \cup Field(w, 7, 5, 0), 12)
           /\ opcode = BRANCH => Immediate(w) = Extract_b_imm(w)
           /\ opcode \in {LUI, AUIPC} => Immediate(w) = Field(w, 12, 20, 12)
           /\ opcode = JAL => Immediate(w) = Extract_j_imm(w)
BY Opcodes DEF Immediate

\* What a word runs as, by its opcode.
LEMMA ExecutedIs ==
    ASSUME NEW w
    PROVE  LET opcode == Field(w, 0, 7, 0)
               f3 == Field(w, 12, 3, 0)
               f7 == Field(w, 25, 7, 0)
               d == Field(w, 7, 5, 0)
               s == Field(w, 15, 5, 0)
               t == Field(w, 20, 5, 0)
               imm == Immediate(w)
               shift == f3 \in {{0}, {0, 2}}
           IN
           /\ opcode = OP /\ f7 = {0} => Executed(w) =
                [kind |-> "muldiv", op |-> Selected(MulCodes, f3), rd |-> d, rs1 |-> s, rs2 |-> t]
           /\ opcode = OP /\ f7 # {0} => Executed(w) =
                [kind |-> "alu", op |-> Selected(AluCodes, f3), alt |-> 5 \in f7,
                 rd |-> d, rs1 |-> s, rs2 |-> t]
           /\ opcode = OP_IMM => Executed(w) =
                [kind |-> "aluimm", op |-> Selected(AluCodes, f3), alt |-> shift /\ 10 \in imm,
                 rd |-> d, rs1 |-> s, imm |-> IF shift THEN imm \cap 0 .. 4 ELSE imm]
           /\ opcode = LOAD => Executed(w) =
                [kind |-> "load", op |-> Selected(LoadCodes, f3), rd |-> d, rs1 |-> s, imm |-> imm]
           /\ opcode = STORE => Executed(w) =
                [kind |-> "store", op |-> Selected(StoreCodes, f3), rs1 |-> s, rs2 |-> t,
                 imm |-> imm]
           /\ opcode = BRANCH => Executed(w) =
                [kind |-> "branch", op |-> Selected(BranchCodes, f3), rs1 |-> s, rs2 |-> t,
                 imm |-> imm]
           /\ opcode = JALR => Executed(w) = [kind |-> "jalr", rd |-> d, rs1 |-> s, imm |-> imm]
           /\ opcode = JAL => Executed(w) = [kind |-> "jal", rd |-> d, imm |-> imm]
           /\ opcode = LUI => Executed(w) = [kind |-> "lui", rd |-> d, imm |-> imm]
           /\ opcode = AUIPC => Executed(w) = [kind |-> "auipc", rd |-> d, imm |-> imm]
           /\ opcode = SYSTEM => Executed(w) =
                [kind |-> "system", op |-> Selected(SystemCodes, imm \cap 0 .. 11)]
BY Opcodes DEF Executed

----------------------------------------------------------------------------
(* Every family of instructions.                                           *)

\* Where each family has its operands.
LEMMA Positions ==
    ASSUME NEW op
    PROVE  /\ op \in DOMAIN RegisterOps => NumberAt(op) = {} /\ RegistersAt(op) = 1 .. 3
           /\ op \in DOMAIN ImmediateOps \cup DOMAIN ShiftOps \cup DOMAIN BranchOps \cup {"jalr"} =>
                NumberAt(op) = {3} /\ 1 \in RegistersAt(op) /\ 2 \in RegistersAt(op)
           /\ op \in DOMAIN LoadOps \cup DOMAIN StoreOps =>
                NumberAt(op) = {2} /\ 1 \in RegistersAt(op) /\ 3 \in RegistersAt(op)
           /\ op \in {"jal", "lui", "auipc"} => NumberAt(op) = {2} /\ RegistersAt(op) = {1}
           /\ op \in {"ecall", "ebreak"} => NumberAt(op) = {} /\ RegistersAt(op) = {}
           /\ RegistersAt(op) \subseteq 1 .. 3 /\ NumberAt(op) \subseteq 1 .. 3
BY Domains DEF NumberAt, RegistersAt

\* A register that is named has five bits; whatever is no register has 32.
LEMMA RegisterBits ==
    ASSUME NEW l \in Line
    PROVE  /\ RegistersNamed(l) =>
                \A k \in RegistersAt(l.op) : Ones(l.a[k].reg) \in SUBSET Name
           /\ \A k \in 1 .. 3 : Ones(l.a[k].reg) \in SUBSET Bit
<1>1. ASSUME NEW k \in 1 .. 3, l.a[k].reg # -1 PROVE Ones(l.a[k].reg) \in SUBSET Name
  <2> DEFINE i == l.a[k].reg
  <2>1. i \in Int /\ 0 <= i /\ i < 32
    BY <1>1 DEF Line, Operand
  <2> HIDE DEF i
  <2>2. Ones(i) \in SUBSET Name
    BY <2>1, OnesOfName
  <2> QED BY <2>2 DEF i
<1>2. RegistersAt(l.op) \subseteq 1 .. 3
  BY Positions
<1> QED BY <1>1, <1>2, OnesInBit DEF RegistersNamed

\* What the fields of a word hold of a number.
Carried(op, v) ==
    CASE op \in {"slli", "srli", "srai"} -> v \cap 0 .. 4
      [] op \in {"beq", "bne", "blt", "bge", "bltu", "bgeu"} -> SignExtend(v \cap 1 .. 12, 13)
      [] op = "jal" -> SignExtend(v \cap 1 .. 20, 21)
      [] op \in {"lui", "auipc"} -> v \cap 12 .. 31
      [] OTHER -> SignExtend(v \cap 0 .. 11, 12)

\* The instruction runs as it was meant to, but for its number.
RunsAs(l, at) ==
    LET m == Meant(l, at)
    IN  Executed(Encoded(l, at)) = [m EXCEPT !.imm = Carried(l.op, m.imm)]

\* An operation on registers runs as it was meant to.
LEMMA RegisterRuns ==
    ASSUME NEW l \in Line, NEW at, RegistersNamed(l), l.op \in DOMAIN RegisterOps
    PROVE  RunsAs(l, at)
<1> DEFINE w == Encoded(l, at)
           r1 == Ones(l.a[1].reg)
           r2 == Ones(l.a[2].reg)
           r3 == Ones(l.a[3].reg)
           f7 == RegisterOps[l.op].f7
           f3 == RegisterOps[l.op].f3
<1>1. w = Encode_r(f7, r3, r2, f3, r1, OP)
  BY Domains DEF Encoded
<1>2. r1 \in SUBSET Name /\ r2 \in SUBSET Name /\ r3 \in SUBSET Name
  BY RegisterBits, Positions
<1>3. f3 \in SUBSET Choice /\ f7 \in SUBSET Code /\ OP \in SUBSET Code
  BY RegisterCodes, Opcodes
<1>4. /\ Field(w, 0, 7, 0) = OP /\ Field(w, 12, 3, 0) = f3 /\ Field(w, 25, 7, 0) = f7
      /\ Field(w, 7, 5, 0) = r1 /\ Field(w, 15, 5, 0) = r2 /\ Field(w, 20, 5, 0) = r3
  <2> HIDE DEF w, r1, r2, r3, f7, f3
  <2>1. Is_r(w, f7, r3, r2, f3, r1, OP)
    BY <1>1, <1>2, <1>3 DEF Is_r
  <2> QED BY <2>1, FieldsOf_r
<1>5. CASE l.op \in {"add", "sub", "sll", "slt", "sltu", "xor", "srl", "sra", "or", "and"}
  <2>1. Meant(l, at) = [kind |-> "alu", op |-> Operation(l.op), alt |-> l.op \in {"sub", "sra"},
                        rd |-> r1, rs1 |-> r2, rs2 |-> r3]
    BY <1>5 DEF Meant
  <2>2. f7 # {0} /\ Selected(AluCodes, f3) = Operation(l.op)
    BY <1>5, RegisterCodes
  <2>3. (5 \in f7) = (l.op \in {"sub", "sra"})
    BY <1>5, RegisterCodes
  <2>4. Executed(w) = [kind |-> "alu", op |-> Selected(AluCodes, f3), alt |-> 5 \in f7,
                       rd |-> r1, rs1 |-> r2, rs2 |-> r3]
    <3> HIDE DEF w, r1, r2, r3, f7, f3
    <3> QED BY <1>4, <2>2, ExecutedIs
  <2> HIDE DEF w, r1, r2, r3, f7, f3
  <2> QED BY <2>1, <2>2, <2>3, <2>4 DEF RunsAs, w
<1>6. CASE l.op \in {"mul", "mulh", "mulhsu", "mulhu", "div", "divu", "rem", "remu"}
  <2>1. Meant(l, at) = [kind |-> "muldiv", op |-> Operation(l.op),
                        rd |-> r1, rs1 |-> r2, rs2 |-> r3]
    BY <1>6 DEF Meant
  <2>2. f7 = {0} /\ Selected(MulCodes, f3) = Operation(l.op)
    BY <1>6, RegisterCodes
  <2>3. Executed(w) = [kind |-> "muldiv", op |-> Selected(MulCodes, f3),
                       rd |-> r1, rs1 |-> r2, rs2 |-> r3]
    <3> HIDE DEF w, r1, r2, r3, f7, f3
    <3> QED BY <1>4, <2>2, ExecutedIs
  <2> HIDE DEF w, r1, r2, r3, f7, f3
  <2> QED BY <2>1, <2>2, <2>3 DEF RunsAs, w
<1> QED BY <1>5, <1>6, Domains

\* Operations with a number.
LEMMA ImmediateRuns ==
    ASSUME NEW l \in Line, NEW at, RegistersNamed(l), l.op \in DOMAIN ImmediateOps
    PROVE  RunsAs(l, at)
<1> DEFINE w == Encoded(l, at)
           r1 == Ones(l.a[1].reg)
           r2 == Ones(l.a[2].reg)
           v == Ones(l.a[3].imm)
           f3 == ImmediateOps[l.op]
<1>1. w = Encode_i(v, r2, f3, r1, OP_IMM)
  BY Domains DEF Encoded
<1>2. r1 \in SUBSET Name /\ r2 \in SUBSET Name /\ v \in SUBSET Bit
  BY RegisterBits, Positions, OnesInBit
<1>3. /\ f3 \in SUBSET Choice /\ OP_IMM \in SUBSET Code
      /\ f3 \notin {{0}, {0, 2}} /\ Selected(AluCodes, f3) = Operation(l.op)
      /\ l.op # "srai"
  BY ImmediateCodes, Opcodes, Domains
<1>4. /\ Field(w, 0, 7, 0) = OP_IMM /\ Field(w, 12, 3, 0) = f3
      /\ Field(w, 7, 5, 0) = r1 /\ Field(w, 15, 5, 0) = r2
      /\ Field(w, 20, 12, 0) = v \cap 0 .. 11
  <2> HIDE DEF w, r1, r2, v, f3
  <2>1. Is_i(w, v, r2, f3, r1, OP_IMM)
    BY <1>1, <1>2, <1>3 DEF Is_i
  <2> QED BY <2>1, FieldsOf_i
<1>5. Executed(w) = [kind |-> "aluimm", op |-> Selected(AluCodes, f3), alt |-> l.op = "srai",
                   rd |-> r1, rs1 |-> r2, imm |-> SignExtend(v \cap 0 .. 11, 12)]
  <2> HIDE DEF w, r1, r2, v, f3
  <2>1. Immediate(w) = SignExtend(v \cap 0 .. 11, 12)
    BY <1>4, ImmediateIs
  <2>2. (f3 \in {{0}, {0, 2}} /\ 10 \in Immediate(w)) = (l.op = "srai")
    BY <1>3
  <2>3. (IF f3 \in {{0}, {0, 2}} THEN Immediate(w) \cap 0 .. 4 ELSE Immediate(w)) = Immediate(w)
    BY <1>3
  <2>4. Executed(w) = [kind |-> "aluimm", op |-> Selected(AluCodes, f3),
                       alt |-> f3 \in {{0}, {0, 2}} /\ 10 \in Immediate(w), rd |-> r1, rs1 |-> r2,
                       imm |-> IF f3 \in {{0}, {0, 2}} THEN Immediate(w) \cap 0 .. 4
                               ELSE Immediate(w)]
    BY <1>4, ExecutedIs
  <2> QED BY <2>1, <2>2, <2>3, <2>4, Zenon
<1>6. Meant(l, at) = [kind |-> "aluimm", op |-> Operation(l.op), alt |-> l.op = "srai",
                      rd |-> r1, rs1 |-> r2, imm |-> v]
  <2> HIDE DEF w
  <2> QED BY Domains DEF Meant, Operation
<1>7. Carried(l.op, v) = SignExtend(v \cap 0 .. 11, 12)
  BY Domains DEF Carried
<1> HIDE DEF w, r1, r2, v, f3
<1> QED BY <1>3, <1>5, <1>6, <1>7 DEF RunsAs, w

\* Shifts by a number.
LEMMA ShiftRuns ==
    ASSUME NEW l \in Line, NEW at, RegistersNamed(l), l.op \in DOMAIN ShiftOps
    PROVE  RunsAs(l, at)
<1> DEFINE w == Encoded(l, at)
           r1 == Ones(l.a[1].reg)
           r2 == Ones(l.a[2].reg)
           v == Ones(l.a[3].imm)
           f3 == ShiftOps[l.op].f3
           f7 == ShiftOps[l.op].f7
<1>1. w = Encode_r(f7, v \cap 0 .. 4, r2, f3, r1, OP_IMM)
  BY Domains DEF Encoded
<1>2. r1 \in SUBSET Name /\ r2 \in SUBSET Name /\ v \in SUBSET Bit
  BY RegisterBits, Positions, OnesInBit
<1>3. /\ f3 \in SUBSET Choice /\ f7 \in SUBSET Code /\ OP_IMM \in SUBSET Code
      /\ f3 \in {{0}, {0, 2}} /\ (5 \in f7) = (l.op = "srai")
      /\ Selected(AluCodes, f3) = Operation(l.op) /\ v \cap 0 .. 4 \in SUBSET Name
  BY ShiftCodes, Opcodes DEF Name
<1>4. /\ Field(w, 0, 7, 0) = OP_IMM /\ Field(w, 12, 3, 0) = f3
      /\ Field(w, 7, 5, 0) = r1 /\ Field(w, 15, 5, 0) = r2
      /\ SignExtend(Field(w, 20, 12, 0), 12) \cap 0 .. 4 = v \cap 0 .. 4
      /\ (10 \in SignExtend(Field(w, 20, 12, 0), 12)) = (5 \in f7)
  <2> HIDE DEF w, r1, r2, v, f3, f7
  <2>1. Is_r(w, f7, v \cap 0 .. 4, r2, f3, r1, OP_IMM)
    BY <1>1, <1>2, <1>3 DEF Is_r
  <2> QED BY <2>1, FieldsOf_r
<1>5. Executed(w) = [kind |-> "aluimm", op |-> Selected(AluCodes, f3), alt |-> l.op = "srai",
                   rd |-> r1, rs1 |-> r2, imm |-> v \cap 0 .. 4]
  <2> HIDE DEF w, r1, r2, v, f3, f7
  <2> DEFINE i == SignExtend(Field(w, 20, 12, 0), 12)
  <2>1. Immediate(w) = i
    BY <1>4, ImmediateIs
  <2>2. (f3 \in {{0}, {0, 2}} /\ 10 \in i) = (l.op = "srai")
    BY <1>3, <1>4
  <2>3. (IF f3 \in {{0}, {0, 2}} THEN i \cap 0 .. 4 ELSE i) = v \cap 0 .. 4
    BY <1>3, <1>4
  <2>4. Executed(w) = [kind |-> "aluimm", op |-> Selected(AluCodes, f3),
                       alt |-> f3 \in {{0}, {0, 2}} /\ 10 \in Immediate(w), rd |-> r1, rs1 |-> r2,
                       imm |-> IF f3 \in {{0}, {0, 2}} THEN Immediate(w) \cap 0 .. 4
                               ELSE Immediate(w)]
    BY <1>4, ExecutedIs
  <2> HIDE DEF i
  <2> QED BY <2>1, <2>2, <2>3, <2>4, Zenon
<1>6. Meant(l, at) = [kind |-> "aluimm", op |-> Operation(l.op), alt |-> l.op = "srai",
                      rd |-> r1, rs1 |-> r2, imm |-> v]
  <2> HIDE DEF w
  <2> QED BY Domains DEF Meant, Operation
<1>7. Carried(l.op, v) = v \cap 0 .. 4
  BY Domains DEF Carried
<1> HIDE DEF w, r1, r2, v, f3, f7
<1> QED BY <1>3, <1>5, <1>6, <1>7 DEF RunsAs, w

\* Loads.
LEMMA LoadRuns ==
    ASSUME NEW l \in Line, NEW at, RegistersNamed(l), l.op \in DOMAIN LoadOps
    PROVE  RunsAs(l, at)
<1> DEFINE w == Encoded(l, at)
           r1 == Ones(l.a[1].reg)
           r3 == Ones(l.a[3].reg)
           v == Ones(l.a[2].imm)
           f3 == LoadOps[l.op]
<1>1. w = Encode_i(v, r3, f3, r1, LOAD)
  BY Domains DEF Encoded
<1>2. r1 \in SUBSET Name /\ r3 \in SUBSET Name /\ v \in SUBSET Bit
  BY RegisterBits, Positions, OnesInBit
<1>3. /\ f3 \in SUBSET Choice /\ LOAD \in SUBSET Code
      /\ Selected(LoadCodes, f3) = l.op
  BY LoadSelected, Opcodes
<1>4. /\ Field(w, 0, 7, 0) = LOAD /\ Field(w, 12, 3, 0) = f3
      /\ Field(w, 7, 5, 0) = r1 /\ Field(w, 15, 5, 0) = r3
      /\ Field(w, 20, 12, 0) = v \cap 0 .. 11
  <2> HIDE DEF w, r1, r3, v, f3
  <2>1. Is_i(w, v, r3, f3, r1, LOAD)
    BY <1>1, <1>2, <1>3 DEF Is_i
  <2> QED BY <2>1, FieldsOf_i
<1>5. Executed(w) = [kind |-> "load", op |-> l.op, rd |-> r1, rs1 |-> r3,
                   imm |-> SignExtend(v \cap 0 .. 11, 12)]
  <2> HIDE DEF w, r1, r3, v, f3
  <2> QED BY <1>4, ExecutedIs, ImmediateIs, <1>3
<1>6. Meant(l, at) = [kind |-> "load", op |-> l.op, rd |-> r1, rs1 |-> r3, imm |-> v]
  <2> HIDE DEF w
  <2> QED BY Domains DEF Meant, Operation
<1>7. Carried(l.op, v) = SignExtend(v \cap 0 .. 11, 12)
  BY Domains DEF Carried
<1> HIDE DEF w, r1, r3, v, f3
<1> QED BY <1>3, <1>5, <1>6, <1>7 DEF RunsAs, w

\* Stores.
LEMMA StoreRuns ==
    ASSUME NEW l \in Line, NEW at, RegistersNamed(l), l.op \in DOMAIN StoreOps
    PROVE  RunsAs(l, at)
<1> DEFINE w == Encoded(l, at)
           r1 == Ones(l.a[1].reg)
           r3 == Ones(l.a[3].reg)
           v == Ones(l.a[2].imm)
           f3 == StoreOps[l.op]
<1>1. w = Encode_s(v, r1, r3, f3, STORE)
  BY Domains DEF Encoded
<1>2. r1 \in SUBSET Name /\ r3 \in SUBSET Name /\ v \in SUBSET Bit
  BY RegisterBits, Positions, OnesInBit
<1>3. /\ f3 \in SUBSET Choice /\ STORE \in SUBSET Code
      /\ Selected(StoreCodes, f3) = l.op
  BY StoreSelected, Opcodes
<1>4. /\ Field(w, 0, 7, 0) = STORE /\ Field(w, 12, 3, 0) = f3
      /\ Field(w, 15, 5, 0) = r3 /\ Field(w, 20, 5, 0) = r1
      /\ Field(w, 25, 7, 5) \cup Field(w, 7, 5, 0) = v \cap 0 .. 11
  <2> HIDE DEF w, r1, r3, v, f3
  <2>1. Is_s(w, v, r1, r3, f3, STORE)
    BY <1>1, <1>2, <1>3 DEF Is_s
  <2> QED BY <2>1, FieldsOf_s
<1>5. Executed(w) = [kind |-> "store", op |-> l.op, rs1 |-> r3, rs2 |-> r1,
                   imm |-> SignExtend(v \cap 0 .. 11, 12)]
  <2> HIDE DEF w, r1, r3, v, f3
  <2> QED BY <1>4, ExecutedIs, ImmediateIs, <1>3
<1>6. Meant(l, at) = [kind |-> "store", op |-> l.op, rs1 |-> r3, rs2 |-> r1, imm |-> v]
  <2> HIDE DEF w
  <2> QED BY Domains DEF Meant, Operation
<1>7. Carried(l.op, v) = SignExtend(v \cap 0 .. 11, 12)
  BY Domains DEF Carried
<1> HIDE DEF w, r1, r3, v, f3
<1> QED BY <1>3, <1>5, <1>6, <1>7 DEF RunsAs, w

\* Branches.
LEMMA BranchRuns ==
    ASSUME NEW l \in Line, NEW at, RegistersNamed(l), l.op \in DOMAIN BranchOps
    PROVE  RunsAs(l, at)
<1> DEFINE w == Encoded(l, at)
           r1 == Ones(l.a[1].reg)
           r2 == Ones(l.a[2].reg)
           v == Ones(l.a[3].imm - at)
           f3 == BranchOps[l.op]
<1>1. w = Encode_b(v, r2, r1, f3, BRANCH)
  BY Domains DEF Encoded
<1>2. r1 \in SUBSET Name /\ r2 \in SUBSET Name /\ v \in SUBSET Bit
  BY RegisterBits, Positions, OnesInBit
<1>3. /\ f3 \in SUBSET Choice /\ BRANCH \in SUBSET Code
      /\ Selected(BranchCodes, f3) = l.op
  BY BranchSelected, Opcodes
<1>4. /\ Field(w, 0, 7, 0) = BRANCH /\ Field(w, 12, 3, 0) = f3
      /\ Field(w, 15, 5, 0) = r1 /\ Field(w, 20, 5, 0) = r2
      /\ UNION {Field(w, 31, 1, 12), Field(w, 7, 1, 11), Field(w, 25, 6, 5), Field(w, 8, 4, 1)}
           = v \cap 1 .. 12
  <2> HIDE DEF w, r1, r2, v, f3
  <2>1. Is_b(w, v, r2, r1, f3, BRANCH)
    BY <1>1, <1>2, <1>3 DEF Is_b
  <2> QED BY <2>1, FieldsOf_b
<1>5. Executed(w) = [kind |-> "branch", op |-> l.op, rs1 |-> r1, rs2 |-> r2,
                   imm |-> SignExtend(v \cap 1 .. 12, 13)]
  <2> HIDE DEF w, r1, r2, v, f3
  <2> QED BY <1>4, ExecutedIs, ImmediateIs, <1>3, ZenonT(40) DEF Extract_b_imm
<1>6. Meant(l, at) = [kind |-> "branch", op |-> l.op, rs1 |-> r1, rs2 |-> r2, imm |-> v]
  <2> HIDE DEF w
  <2> QED BY Domains DEF Meant, Operation
<1>7. Carried(l.op, v) = SignExtend(v \cap 1 .. 12, 13)
  BY Domains DEF Carried
<1> HIDE DEF w, r1, r2, v, f3
<1> QED BY <1>3, <1>5, <1>6, <1>7 DEF RunsAs, w

\* Jumps.
LEMMA JumpRuns ==
    ASSUME NEW l \in Line, NEW at, RegistersNamed(l), l.op = "jal"
    PROVE  RunsAs(l, at)
<1> DEFINE w == Encoded(l, at)
           r1 == Ones(l.a[1].reg)
           v == Ones(l.a[2].imm - at)
<1>1. w = Encode_j(v, r1, JAL)
  BY Domains DEF Encoded
<1>2. r1 \in SUBSET Name /\ v \in SUBSET Bit
  BY RegisterBits, Positions, OnesInBit
<1>3. JAL \in SUBSET Code
  BY Opcodes
<1>4. /\ Field(w, 0, 7, 0) = JAL /\ Field(w, 7, 5, 0) = r1
      /\ UNION {Field(w, 31, 1, 20), Field(w, 12, 8, 12), Field(w, 20, 1, 11), Field(w, 21, 10, 1)}
           = v \cap 1 .. 20
  <2> HIDE DEF w, r1, v
  <2>1. Is_j(w, v, r1, JAL)
    BY <1>1, <1>2, <1>3 DEF Is_j
  <2> QED BY <2>1, FieldsOf_j
<1>5. Executed(w) = [kind |-> "jal", rd |-> r1, imm |-> SignExtend(v \cap 1 .. 20, 21)]
  <2> HIDE DEF w, r1, v
  <2> QED BY <1>4, ExecutedIs, ImmediateIs, ZenonT(40) DEF Extract_j_imm
<1>6. Meant(l, at) = [kind |-> "jal", rd |-> r1, imm |-> v]
  <2> HIDE DEF w
  <2> QED BY Domains DEF Meant, Operation
<1>7. Carried(l.op, v) = SignExtend(v \cap 1 .. 20, 21)
  BY Domains DEF Carried
<1> HIDE DEF w, r1, v
<1> QED BY <1>3, <1>5, <1>6, <1>7 DEF RunsAs, w

\* Jumps to a register.
LEMMA JumpRegisterRuns ==
    ASSUME NEW l \in Line, NEW at, RegistersNamed(l), l.op = "jalr"
    PROVE  RunsAs(l, at)
<1> DEFINE w == Encoded(l, at)
           r1 == Ones(l.a[1].reg)
           r2 == Ones(l.a[2].reg)
           v == Ones(l.a[3].imm)
<1>1. w = Encode_i(v, r2, {}, r1, JALR)
  BY Domains DEF Encoded
<1>2. r1 \in SUBSET Name /\ r2 \in SUBSET Name /\ v \in SUBSET Bit
  BY RegisterBits, Positions, OnesInBit
<1>3. JALR \in SUBSET Code /\ {} \in SUBSET Choice
  BY Opcodes
<1>4. /\ Field(w, 0, 7, 0) = JALR /\ Field(w, 7, 5, 0) = r1 /\ Field(w, 15, 5, 0) = r2
      /\ Field(w, 20, 12, 0) = v \cap 0 .. 11
  <2> HIDE DEF w, r1, r2, v
  <2>1. Is_i(w, v, r2, {}, r1, JALR)
    BY <1>1, <1>2, <1>3 DEF Is_i
  <2> QED BY <2>1, FieldsOf_i
<1>5. Executed(w) = [kind |-> "jalr", rd |-> r1, rs1 |-> r2, imm |-> SignExtend(v \cap 0 .. 11, 12)]
  <2> HIDE DEF w, r1, r2, v
  <2> QED BY <1>4, ExecutedIs, ImmediateIs
<1>6. Meant(l, at) = [kind |-> "jalr", rd |-> r1, rs1 |-> r2, imm |-> v]
  <2> HIDE DEF w
  <2> QED BY Domains DEF Meant, Operation
<1>7. Carried(l.op, v) = SignExtend(v \cap 0 .. 11, 12)
  BY Domains DEF Carried
<1> HIDE DEF w, r1, r2, v
<1> QED BY <1>3, <1>5, <1>6, <1>7 DEF RunsAs, w

\* Upper immediates: lui.
LEMMA LuiRuns ==
    ASSUME NEW l \in Line, NEW at, RegistersNamed(l), l.op = "lui"
    PROVE  RunsAs(l, at)
<1> DEFINE w == Encoded(l, at)
           r1 == Ones(l.a[1].reg)
           v == Left(Ones(l.a[2].imm), 12)
<1>1. w = Encode_u(v, r1, LUI)
  BY Domains DEF Encoded
<1>2. r1 \in SUBSET Name /\ v \in SUBSET Bit
  BY RegisterBits, Positions, OnesInBit DEF Left
<1>3. LUI \in SUBSET Code
  BY Opcodes
<1>4. /\ Field(w, 0, 7, 0) = LUI /\ Field(w, 7, 5, 0) = r1
      /\ Field(w, 12, 20, 12) = v \cap 12 .. 31
  <2> HIDE DEF w, r1, v
  <2>1. Is_u(w, v, r1, LUI)
    BY <1>1, <1>2, <1>3 DEF Is_u
  <2> QED BY <2>1, FieldsOf_u
<1>5. Executed(w) = [kind |-> "lui", rd |-> r1, imm |-> v \cap 12 .. 31]
  <2> HIDE DEF w, r1, v
  <2> QED BY <1>4, ExecutedIs, ImmediateIs
<1>6. Meant(l, at) = [kind |-> "lui", rd |-> r1, imm |-> v]
  <2> HIDE DEF w
  <2> QED BY Domains DEF Meant, Operation
<1>7. Carried(l.op, v) = v \cap 12 .. 31
  BY Domains DEF Carried
<1> HIDE DEF w, r1, v
<1> QED BY <1>3, <1>5, <1>6, <1>7 DEF RunsAs, w

\* Upper immediates: auipc.
LEMMA AuipcRuns ==
    ASSUME NEW l \in Line, NEW at, RegistersNamed(l), l.op = "auipc"
    PROVE  RunsAs(l, at)
<1> DEFINE w == Encoded(l, at)
           r1 == Ones(l.a[1].reg)
           v == Left(Ones(l.a[2].imm), 12)
<1>1. w = Encode_u(v, r1, AUIPC)
  BY Domains DEF Encoded
<1>2. r1 \in SUBSET Name /\ v \in SUBSET Bit
  BY RegisterBits, Positions, OnesInBit DEF Left
<1>3. AUIPC \in SUBSET Code
  BY Opcodes
<1>4. /\ Field(w, 0, 7, 0) = AUIPC /\ Field(w, 7, 5, 0) = r1
      /\ Field(w, 12, 20, 12) = v \cap 12 .. 31
  <2> HIDE DEF w, r1, v
  <2>1. Is_u(w, v, r1, AUIPC)
    BY <1>1, <1>2, <1>3 DEF Is_u
  <2> QED BY <2>1, FieldsOf_u
<1>5. Executed(w) = [kind |-> "auipc", rd |-> r1, imm |-> v \cap 12 .. 31]
  <2> HIDE DEF w, r1, v
  <2> QED BY <1>4, ExecutedIs, ImmediateIs
<1>6. Meant(l, at) = [kind |-> "auipc", rd |-> r1, imm |-> v]
  <2> HIDE DEF w
  <2> QED BY Domains DEF Meant, Operation
<1>7. Carried(l.op, v) = v \cap 12 .. 31
  BY Domains DEF Carried
<1> HIDE DEF w, r1, v
<1> QED BY <1>3, <1>5, <1>6, <1>7 DEF RunsAs, w

\* The two instructions without operands.
LEMMA SystemRuns ==
    ASSUME NEW l \in Line, NEW at, l.op \in {"ecall", "ebreak"}
    PROVE  RunsAs(l, at)
<1> DEFINE w == Encoded(l, at)
           v == IF l.op = "ecall" THEN {} ELSE {0}
<1>1. w = Encode_i(v, {}, {}, {}, SYSTEM)
  BY Domains DEF Encoded
<1>2. v \in SUBSET Bit /\ SYSTEM \in SUBSET Code /\ v \cap 0 .. 11 = v /\ 11 \notin v
  BY Opcodes DEF Bit
<1>3. Field(w, 0, 7, 0) = SYSTEM /\ Field(w, 20, 12, 0) = v
  <2>1. Is_i(w, v, {}, {}, {}, SYSTEM)
    <3> HIDE DEF w, v
    <3> QED BY <1>1, <1>2 DEF Is_i
  <2> HIDE DEF w, v
  <2> QED BY <1>2, <2>1, FieldsOf_i
<1>4. Immediate(w) \cap 0 .. 11 = v
  <2> HIDE DEF w, v
  <2>1. Immediate(w) = SignExtend(v, 12)
    BY <1>3, ImmediateIs
  <2> QED BY <1>2, <2>1 DEF SignExtend, Bit
<1>5. Selected(SystemCodes, v) = l.op
  <2>1. /\ DOMAIN SystemCodes = {"ecall", "ebreak"}
        /\ SystemCodes["ecall"] = {} /\ SystemCodes["ebreak"] = {0}
    BY DEF SystemCodes
  <2>2. SystemCodes[l.op] = v
    BY <2>1
  <2>3. \A other \in DOMAIN SystemCodes : SystemCodes[other] = SystemCodes[l.op] => other = l.op
    BY <2>1
  <2>4. l.op \in DOMAIN SystemCodes
    BY <2>1
  <2> HIDE DEF v
  <2>5. Selected(SystemCodes, SystemCodes[l.op]) = l.op
    BY <2>3, <2>4, SelectedIs
  <2> QED BY <2>2, <2>5
<1>6. Executed(w) = [kind |-> "system", op |-> l.op]
  <2> HIDE DEF w, v
  <2> QED BY <1>3, <1>4, <1>5, ExecutedIs
<1>7. Meant(l, at) = [kind |-> "system", op |-> l.op]
  <2> HIDE DEF w
  <2> QED BY DEF Meant
<1> HIDE DEF w
<1> QED BY <1>6, <1>7 DEF RunsAs, w

\* Every instruction whose registers are named runs as it was meant to, but
\* for the number.
LEMMA Runs ==
    ASSUME NEW l \in Line, NEW at, l.op \in Mnemonics, RegistersNamed(l)
    PROVE  RunsAs(l, at)
<1>1. \/ l.op \in DOMAIN RegisterOps \/ l.op \in DOMAIN ImmediateOps
      \/ l.op \in DOMAIN ShiftOps \/ l.op \in DOMAIN LoadOps
      \/ l.op \in DOMAIN StoreOps \/ l.op \in DOMAIN BranchOps
      \/ l.op = "jal" \/ l.op = "jalr" \/ l.op = "lui" \/ l.op = "auipc"
      \/ l.op \in {"ecall", "ebreak"}
  BY DEF Mnemonics
<1> QED BY <1>1, RegisterRuns, ImmediateRuns, ShiftRuns, LoadRuns, StoreRuns, BranchRuns,
           JumpRuns, JumpRegisterRuns, LuiRuns, AuipcRuns, SystemRuns

\* Which instructions have a number, and which one is meant.
LEMMA NumberMeant ==
    ASSUME NEW l \in Line, NEW at, l.op \in Mnemonics
    PROVE  LET m == Meant(l, at) IN
           /\ \A c : \A f \in DOMAIN m \ {"imm"} : [m EXCEPT !.imm = c][f] = m[f]
           /\ NumberAt(l.op) = {} => \A c : [m EXCEPT !.imm = c] = m
           /\ NumberAt(l.op) # {} =>
                /\ "imm" \in DOMAIN m
                /\ [m EXCEPT !.imm = m.imm] = m
           /\ l.op \in DOMAIN ImmediateOps \cup DOMAIN ShiftOps \cup {"jalr"} =>
                m.imm = Ones(l.a[3].imm)
           /\ l.op \in DOMAIN LoadOps \cup DOMAIN StoreOps => m.imm = Ones(l.a[2].imm)
           /\ l.op \in DOMAIN BranchOps => m.imm = Ones(l.a[3].imm - at)
           /\ l.op = "jal" => m.imm = Ones(l.a[2].imm - at)
           /\ l.op \in {"lui", "auipc"} => m.imm = Left(Ones(l.a[2].imm), 12)
<1> DEFINE m == Meant(l, at)
<1>0. \A c : \A f \in DOMAIN m \ {"imm"} : [m EXCEPT !.imm = c][f] = m[f]
  <2> HIDE DEF m
  <2> QED OBVIOUS
<1>1. CASE l.op \in {"add", "sub", "sll", "slt", "sltu", "xor", "srl", "sra", "or", "and"}
  <2>1. \A c : [m EXCEPT !.imm = c] = m
    <3> DEFINE op == Operation(l.op)
               alt == l.op \in {"sub", "sra"}
               d == Ones(l.a[1].reg)
               s == Ones(l.a[2].reg)
               t == Ones(l.a[3].reg)
    <3>1. m = [kind |-> "alu", op |-> op, alt |-> alt, rd |-> d, rs1 |-> s, rs2 |-> t]
      BY <1>1 DEF Meant
    <3> HIDE DEF m, op, alt, d, s, t
    <3> QED BY <3>1
  <2>2. NumberAt(l.op) = {}
    BY <1>1, Positions, Domains
  <2> HIDE DEF m
  <2> QED BY <1>0, <1>1, <2>1, <2>2, Domains DEF m
<1>2. CASE l.op \in {"mul", "mulh", "mulhsu", "mulhu", "div", "divu", "rem", "remu"}
  <2>1. \A c : [m EXCEPT !.imm = c] = m
    <3> DEFINE op == Operation(l.op)
               d == Ones(l.a[1].reg)
               s == Ones(l.a[2].reg)
               t == Ones(l.a[3].reg)
    <3>1. m = [kind |-> "muldiv", op |-> op, rd |-> d, rs1 |-> s, rs2 |-> t]
      BY <1>2 DEF Meant
    <3> HIDE DEF m, op, d, s, t
    <3> QED BY <3>1
  <2>2. NumberAt(l.op) = {}
    BY <1>2, Positions, Domains
  <2> HIDE DEF m
  <2> QED BY <1>0, <1>2, <2>1, <2>2, Domains DEF m
<1>3. CASE l.op \in DOMAIN ImmediateOps \cup DOMAIN ShiftOps
  <2>1. m.imm = Ones(l.a[3].imm) /\ "imm" \in DOMAIN m
    BY <1>3, Domains DEF Meant
  <2>2. [m EXCEPT !.imm = m.imm] = m
    <3> DEFINE op == Operation(l.op)
               alt == l.op = "srai"
               d == Ones(l.a[1].reg)
               s == Ones(l.a[2].reg)
               c == Ones(l.a[3].imm)
    <3>1. m = [kind |-> "aluimm", op |-> op, alt |-> alt, rd |-> d, rs1 |-> s, imm |-> c]
      BY <1>3, Domains DEF Meant
    <3> HIDE DEF m, op, alt, d, s, c
    <3> QED BY <3>1
  <2>3. NumberAt(l.op) # {}
    BY <1>3, Positions
  <2> HIDE DEF m
  <2> QED BY <1>0, <1>3, <2>1, <2>2, <2>3, Domains DEF m
<1>4. CASE l.op \in DOMAIN LoadOps
  <2>1. m.imm = Ones(l.a[2].imm) /\ "imm" \in DOMAIN m
    BY <1>4, Domains DEF Meant
  <2>2. [m EXCEPT !.imm = m.imm] = m
    BY <1>4, Domains DEF Meant
  <2>3. NumberAt(l.op) # {}
    BY <1>4, Positions
  <2> HIDE DEF m
  <2> QED BY <1>0, <1>4, <2>1, <2>2, <2>3, Domains DEF m
<1>5. CASE l.op \in DOMAIN StoreOps
  <2>1. m.imm = Ones(l.a[2].imm) /\ "imm" \in DOMAIN m
    BY <1>5, Domains DEF Meant
  <2>2. [m EXCEPT !.imm = m.imm] = m
    BY <1>5, Domains DEF Meant
  <2>3. NumberAt(l.op) # {}
    BY <1>5, Positions
  <2> HIDE DEF m
  <2> QED BY <1>0, <1>5, <2>1, <2>2, <2>3, Domains DEF m
<1>6. CASE l.op \in DOMAIN BranchOps
  <2>1. m.imm = Ones(l.a[3].imm - at) /\ "imm" \in DOMAIN m
    BY <1>6, Domains DEF Meant
  <2>2. [m EXCEPT !.imm = m.imm] = m
    BY <1>6, Domains DEF Meant
  <2>3. NumberAt(l.op) # {}
    BY <1>6, Positions
  <2> HIDE DEF m
  <2> QED BY <1>0, <1>6, <2>1, <2>2, <2>3, Domains DEF m
<1>7. CASE l.op = "jalr"
  <2>1. m.imm = Ones(l.a[3].imm) /\ "imm" \in DOMAIN m
    BY <1>7, Domains DEF Meant
  <2>2. [m EXCEPT !.imm = m.imm] = m
    BY <1>7, Domains DEF Meant
  <2>3. NumberAt(l.op) # {}
    BY <1>7, Positions
  <2> HIDE DEF m
  <2> QED BY <1>0, <1>7, <2>1, <2>2, <2>3, Domains DEF m
<1>8. CASE l.op = "jal"
  <2>1. m.imm = Ones(l.a[2].imm - at) /\ "imm" \in DOMAIN m
    BY <1>8, Domains DEF Meant
  <2>2. [m EXCEPT !.imm = m.imm] = m
    BY <1>8, Domains DEF Meant
  <2>3. NumberAt(l.op) # {}
    BY <1>8, Positions
  <2> HIDE DEF m
  <2> QED BY <1>0, <1>8, <2>1, <2>2, <2>3, Domains DEF m
<1>9. CASE l.op \in {"lui", "auipc"}
  <2>1. m.imm = Left(Ones(l.a[2].imm), 12) /\ "imm" \in DOMAIN m
    BY <1>9, Domains DEF Meant
  <2>2. [m EXCEPT !.imm = m.imm] = m
    BY <1>9, Domains DEF Meant
  <2>3. NumberAt(l.op) # {}
    BY <1>9, Positions
  <2> HIDE DEF m
  <2> QED BY <1>0, <1>9, <2>1, <2>2, <2>3, Domains DEF m
<1>10. CASE l.op \in {"ecall", "ebreak"}
  <2>1. \A c : [m EXCEPT !.imm = c] = m
    BY <1>10 DEF Meant
  <2>2. NumberAt(l.op) = {}
    BY <1>10, Positions, Domains
  <2> HIDE DEF m
  <2> QED BY <1>0, <1>10, <2>1, <2>2, Domains DEF m
<1> QED BY <1>1, <1>2, <1>3, <1>4, <1>5, <1>6, <1>7, <1>8, <1>9, <1>10, Domains DEF Mnemonics

\* What fitting is, for each place.
LEMMA FitsIs ==
    ASSUME NEW op, NEW i \in Int, NEW at \in Int, Fits(op, i, at)
    PROVE  /\ op \in {"slli", "srli", "srai"} => 0 <= i /\ i < 32
           /\ op \in {"beq", "bne", "blt", "bge", "bltu", "bgeu"} =>
                -4096 <= i - at /\ i - at < 4096 /\ (i - at) % 2 = 0
           /\ op = "jal" => -1048576 <= i - at /\ i - at < 1048576 /\ (i - at) % 2 = 0
           /\ op \notin {"slli", "srli", "srai", "beq", "bne", "blt", "bge", "bltu", "bgeu",
                         "jal", "lui", "auipc"} => -2048 <= i /\ i < 2048
BY SMT DEF Fits, Between

\* A number that fits its field is carried whole.
LEMMA FittingCarried ==
    ASSUME NEW l \in Line, NEW at \in Int, WellFormed(l, at), NumberAt(l.op) # {}
    PROVE  Carried(l.op, Meant(l, at).imm) = Meant(l, at).imm
<1>1. /\ l.op \in Mnemonics
      /\ \A k \in NumberAt(l.op) : Fits(l.op, l.a[k].imm, at) /\ l.a[k].imm \in Int
  BY Positions DEF WellFormed, Line, Operand
<1>2. CASE l.op \in DOMAIN ShiftOps
  <2>1. l.a[3].imm \in Int /\ 0 <= l.a[3].imm /\ l.a[3].imm < 32
    <3>1. 3 \in NumberAt(l.op)
      BY <1>2, Positions
    <3> QED BY <1>1, <1>2, <3>1, FitsIs, Domains
  <2>2. Ones(l.a[3].imm) \in SUBSET Name
    <3> DEFINE i == l.a[3].imm
    <3> HIDE DEF i
    <3>1. Ones(i) \in SUBSET Name
      BY <2>1, OnesOfName DEF i
    <3> QED BY <3>1 DEF i
  <2>3. Carried(l.op, Ones(l.a[3].imm)) = Ones(l.a[3].imm) \cap 0 .. 4
    BY <1>2, Domains DEF Carried
  <2>4. Meant(l, at).imm = Ones(l.a[3].imm)
    BY <1>1, <1>2, NumberMeant
  <2> QED BY <2>2, <2>3, <2>4 DEF Name
<1>3. CASE l.op \in DOMAIN BranchOps
  <2>1. /\ l.a[3].imm - at \in Int /\ (l.a[3].imm - at) % 2 = 0
        /\ -4096 <= l.a[3].imm - at /\ l.a[3].imm - at < 4096
    <3>1. 3 \in NumberAt(l.op)
      BY <1>3, Positions
    <3> QED BY <1>1, <1>3, <3>1, FitsIs, Domains
  <2>2. Carried(l.op, Ones(l.a[3].imm - at)) = SignExtend(Ones(l.a[3].imm - at) \cap 1 .. 12, 13)
    BY <1>3, Domains DEF Carried
  <2>3. Meant(l, at).imm = Ones(l.a[3].imm - at)
    BY <1>1, <1>3, NumberMeant
  <2> QED BY <2>1, <2>2, <2>3, OnesOfBranch
<1>4. CASE l.op = "jal"
  <2> DEFINE i == l.a[2].imm - at
  <2>1. i \in Int /\ -1048576 <= i /\ i < 1048576 /\ i % 2 = 0
    <3>1. 2 \in NumberAt(l.op)
      BY <1>4, Positions
    <3>2. Fits("jal", l.a[2].imm, at) /\ l.a[2].imm \in Int
      BY <1>1, <1>4, <3>1
    <3> QED BY <3>2, FitsIs, SMT
  <2>2. Carried(l.op, Ones(i)) = SignExtend(Ones(i) \cap 1 .. 20, 21)
    BY <1>4 DEF Carried
  <2>3. Meant(l, at).imm = Ones(i)
    BY <1>1, <1>4, NumberMeant
  <2> HIDE DEF i
  <2> QED BY <2>1, <2>2, <2>3, OnesOfJump, SMT
<1>5. CASE l.op \in {"lui", "auipc"}
  <2>1. Meant(l, at).imm = Left(Ones(l.a[2].imm), 12)
    BY <1>1, <1>5, NumberMeant
  <2>2. \A b \in Left(Ones(l.a[2].imm), 12) : b \in 12 .. 31
    BY OnesInBit DEF Left, Bit
  <2>3. Carried(l.op, Left(Ones(l.a[2].imm), 12)) = Left(Ones(l.a[2].imm), 12) \cap 12 .. 31
    BY <1>5 DEF Carried
  <2> QED BY <2>1, <2>2, <2>3
<1>6. CASE l.op \in DOMAIN ImmediateOps \cup DOMAIN LoadOps \cup DOMAIN StoreOps \cup {"jalr"}
  <2>1. PICK k \in NumberAt(l.op) : Meant(l, at).imm = Ones(l.a[k].imm)
    BY <1>1, <1>6, NumberMeant, Positions
  <2> DEFINE i == l.a[k].imm
  <2>2. Fits(l.op, i, at) /\ i \in Int
    BY <1>1
  <2> HIDE DEF i
  <2>3. -2048 <= i /\ i < 2048
    BY <1>6, <2>2, FitsIs, Domains
  <2>4. \A v : Carried(l.op, v) = SignExtend(v \cap 0 .. 11, 12)
    BY <1>6, Domains DEF Carried
  <2>5. SignExtend(Ones(i) \cap 0 .. 11, 12) = Ones(i)
    BY <2>2, <2>3, OnesOfShort
  <2> QED BY <2>1, <2>4, <2>5 DEF i
<1> QED BY <1>1, <1>2, <1>3, <1>4, <1>5, <1>6, Positions, Domains DEF Mnemonics

\* Whatever the number, the bits that have a place are carried.
LEMMA HeldCarried ==
    ASSUME NEW op, NEW v
    PROVE  Carried(op, v) \cap Held(op) = v \cap Held(op)
<1>1. \A n \in {12, 13, 21} : \A u : \A b \in 0 .. n - 1 : b \in SignExtend(u, n) <=> b \in u
  BY DEF SignExtend, Bit
<1>2. CASE op \in {"slli", "srli", "srai"}
  BY <1>2 DEF Carried, Held
<1>3. CASE op \in {"beq", "bne", "blt", "bge", "bltu", "bgeu"}
  <2>1. Carried(op, v) = SignExtend(v \cap 1 .. 12, 13) /\ Held(op) = 1 .. 12
    BY <1>3 DEF Carried, Held
  <2>2. \A b \in 1 .. 12 : b \in SignExtend(v \cap 1 .. 12, 13) <=> b \in v
    BY <1>1
  <2> QED BY <2>1, <2>2
<1>4. CASE op = "jal"
  <2>1. Carried(op, v) = SignExtend(v \cap 1 .. 20, 21) /\ Held(op) = 1 .. 20
    BY <1>4 DEF Carried, Held
  <2>2. \A b \in 1 .. 20 : b \in SignExtend(v \cap 1 .. 20, 21) <=> b \in v
    BY <1>1
  <2> QED BY <2>1, <2>2
<1>5. CASE op \in {"lui", "auipc"}
  BY <1>5 DEF Carried, Held
<1>6. CASE op \notin {"slli", "srli", "srai", "beq", "bne", "blt", "bge", "bltu", "bgeu",
                      "jal", "lui", "auipc"}
  <2>1. Carried(op, v) = SignExtend(v \cap 0 .. 11, 12) /\ Held(op) = 0 .. 11
    BY <1>6 DEF Carried, Held
  <2>2. \A b \in 0 .. 11 : b \in SignExtend(v \cap 0 .. 11, 12) <=> b \in v
    BY <1>1
  <2> QED BY <2>1, <2>2
<1> QED BY <1>2, <1>3, <1>4, <1>5, <1>6

\* The opcode of a mnemonic is in the word, whatever spilled over the rest.
OpcodeOf(op) ==
    CASE op \in DOMAIN RegisterOps -> OP
      [] op \in DOMAIN ImmediateOps \cup DOMAIN ShiftOps -> OP_IMM
      [] op \in DOMAIN LoadOps -> LOAD
      [] op \in DOMAIN StoreOps -> STORE
      [] op \in DOMAIN BranchOps -> BRANCH
      [] op = "jal" -> JAL
      [] op = "jalr" -> JALR
      [] op = "lui" -> LUI
      [] op = "auipc" -> AUIPC
      [] op \in {"ecall", "ebreak"} -> SYSTEM

\* A word has 32 bits, and the opcode of its mnemonic.
LEMMA EncodedOpcode ==
    ASSUME NEW l \in Line, NEW at, l.op \in Mnemonics
    PROVE  Encoded(l, at) \subseteq Bit /\ Field(Encoded(l, at), 0, 7, 0) = OpcodeOf(l.op)
<1> DEFINE w == Encoded(l, at)
           r(k) == Ones(l.a[k].reg)
           i(k) == Ones(l.a[k].imm)
<1>1. \A j : Ones(j) \in SUBSET Bit /\ Left(Ones(j), 12) \in SUBSET Bit
             /\ Ones(j) \cap 0 .. 4 \in SUBSET Bit
  BY OnesInBit DEF Left
<1>2. /\ \A v \in SUBSET Code : v \in SUBSET Bit
      /\ \A v \in SUBSET Choice : v \in SUBSET Bit
      /\ {} \in SUBSET Bit /\ {0} \in SUBSET Bit
  BY DEF Code, Choice, Bit
<1>3. Spilt(w, OpcodeOf(l.op))
  <2>1. CASE l.op \in DOMAIN RegisterOps
    <3>1. w = Encode_r(RegisterOps[l.op].f7, r(3), r(2), RegisterOps[l.op].f3, r(1), OP)
      BY <2>1, Domains DEF Encoded
    <3>2. OpcodeOf(l.op) = OP /\ OP \in SUBSET Code
      BY <2>1, Domains, Opcodes DEF OpcodeOf
    <3>3. /\ RegisterOps[l.op].f7 \in SUBSET Bit
          /\ r(3) \in SUBSET Bit
          /\ r(2) \in SUBSET Bit
          /\ RegisterOps[l.op].f3 \in SUBSET Bit
          /\ r(1) \in SUBSET Bit
      BY <1>1, <1>2, <2>1, RegisterCodes
    <3> HIDE DEF w
    <3> QED BY <3>1, <3>2, <3>3, EveryFormat
  <2>2. CASE l.op \in DOMAIN ImmediateOps
    <3>1. w = Encode_i(i(3), r(2), ImmediateOps[l.op], r(1), OP_IMM)
      BY <2>2, Domains DEF Encoded
    <3>2. OpcodeOf(l.op) = OP_IMM /\ OP_IMM \in SUBSET Code
      BY <2>2, Domains, Opcodes DEF OpcodeOf
    <3>3. /\ i(3) \in SUBSET Bit
          /\ r(2) \in SUBSET Bit
          /\ ImmediateOps[l.op] \in SUBSET Bit
          /\ r(1) \in SUBSET Bit
      BY <1>1, <1>2, <2>2, ImmediateCodes
    <3> HIDE DEF w
    <3> QED BY <3>1, <3>2, <3>3, EveryFormat
  <2>3. CASE l.op \in DOMAIN ShiftOps
    <3>1. w = Encode_r(ShiftOps[l.op].f7, i(3) \cap 0 .. 4, r(2), ShiftOps[l.op].f3, r(1), OP_IMM)
      BY <2>3, Domains DEF Encoded
    <3>2. OpcodeOf(l.op) = OP_IMM /\ OP_IMM \in SUBSET Code
      BY <2>3, Domains, Opcodes DEF OpcodeOf
    <3>3. /\ ShiftOps[l.op].f7 \in SUBSET Bit
          /\ i(3) \cap 0 .. 4 \in SUBSET Bit
          /\ r(2) \in SUBSET Bit
          /\ ShiftOps[l.op].f3 \in SUBSET Bit
          /\ r(1) \in SUBSET Bit
      BY <1>1, <1>2, <2>3, ShiftCodes
    <3> HIDE DEF w
    <3> QED BY <3>1, <3>2, <3>3, EveryFormat
  <2>4. CASE l.op \in DOMAIN LoadOps
    <3>1. w = Encode_i(i(2), r(3), LoadOps[l.op], r(1), LOAD)
      BY <2>4, Domains DEF Encoded
    <3>2. OpcodeOf(l.op) = LOAD /\ LOAD \in SUBSET Code
      BY <2>4, Domains, Opcodes DEF OpcodeOf
    <3>3. /\ i(2) \in SUBSET Bit
          /\ r(3) \in SUBSET Bit
          /\ LoadOps[l.op] \in SUBSET Bit
          /\ r(1) \in SUBSET Bit
      BY <1>1, <1>2, <2>4, LoadSelected
    <3> HIDE DEF w
    <3> QED BY <3>1, <3>2, <3>3, EveryFormat
  <2>5. CASE l.op \in DOMAIN StoreOps
    <3>1. w = Encode_s(i(2), r(1), r(3), StoreOps[l.op], STORE)
      BY <2>5, Domains DEF Encoded
    <3>2. OpcodeOf(l.op) = STORE /\ STORE \in SUBSET Code
      BY <2>5, Domains, Opcodes DEF OpcodeOf
    <3>3. /\ i(2) \in SUBSET Bit
          /\ r(1) \in SUBSET Bit
          /\ r(3) \in SUBSET Bit
          /\ StoreOps[l.op] \in SUBSET Bit
      BY <1>1, <1>2, <2>5, StoreSelected
    <3> HIDE DEF w
    <3> QED BY <3>1, <3>2, <3>3, EveryFormat
  <2>6. CASE l.op \in DOMAIN BranchOps
    <3>1. w = Encode_b(Ones(l.a[3].imm - at), r(2), r(1), BranchOps[l.op], BRANCH)
      BY <2>6, Domains DEF Encoded
    <3>2. OpcodeOf(l.op) = BRANCH /\ BRANCH \in SUBSET Code
      BY <2>6, Domains, Opcodes DEF OpcodeOf
    <3>3. /\ Ones(l.a[3].imm - at) \in SUBSET Bit
          /\ r(2) \in SUBSET Bit
          /\ r(1) \in SUBSET Bit
          /\ BranchOps[l.op] \in SUBSET Bit
      BY <1>1, <1>2, <2>6, BranchSelected
    <3> HIDE DEF w
    <3> QED BY <3>1, <3>2, <3>3, EveryFormat
  <2>7. CASE l.op = "jal"
    <3>1. w = Encode_j(Ones(l.a[2].imm - at), r(1), JAL)
      BY <2>7, Domains DEF Encoded
    <3>2. OpcodeOf(l.op) = JAL /\ JAL \in SUBSET Code
      BY <2>7, Domains, Opcodes DEF OpcodeOf
    <3>3. /\ Ones(l.a[2].imm - at) \in SUBSET Bit
          /\ r(1) \in SUBSET Bit
      BY <1>1, <1>2, <2>7
    <3> HIDE DEF w
    <3> QED BY <3>1, <3>2, <3>3, EveryFormat
  <2>8. CASE l.op = "jalr"
    <3>1. w = Encode_i(i(3), r(2), {}, r(1), JALR)
      BY <2>8, Domains DEF Encoded
    <3>2. OpcodeOf(l.op) = JALR /\ JALR \in SUBSET Code
      BY <2>8, Domains, Opcodes DEF OpcodeOf
    <3>3. /\ i(3) \in SUBSET Bit
          /\ r(2) \in SUBSET Bit
          /\ {} \in SUBSET Bit
          /\ r(1) \in SUBSET Bit
      BY <1>1, <1>2, <2>8
    <3> HIDE DEF w
    <3> QED BY <3>1, <3>2, <3>3, EveryFormat
  <2>9. CASE l.op = "lui"
    <3>1. w = Encode_u(Left(i(2), 12), r(1), LUI)
      BY <2>9, Domains DEF Encoded
    <3>2. OpcodeOf(l.op) = LUI /\ LUI \in SUBSET Code
      BY <2>9, Domains, Opcodes DEF OpcodeOf
    <3>3. /\ Left(i(2), 12) \in SUBSET Bit
          /\ r(1) \in SUBSET Bit
      BY <1>1, <1>2, <2>9
    <3> HIDE DEF w
    <3> QED BY <3>1, <3>2, <3>3, EveryFormat
  <2>10. CASE l.op = "auipc"
    <3>1. w = Encode_u(Left(i(2), 12), r(1), AUIPC)
      BY <2>10, Domains DEF Encoded
    <3>2. OpcodeOf(l.op) = AUIPC /\ AUIPC \in SUBSET Code
      BY <2>10, Domains, Opcodes DEF OpcodeOf
    <3>3. /\ Left(i(2), 12) \in SUBSET Bit
          /\ r(1) \in SUBSET Bit
      BY <1>1, <1>2, <2>10
    <3> HIDE DEF w
    <3> QED BY <3>1, <3>2, <3>3, EveryFormat
  <2>11. CASE l.op = "ecall"
    <3>1. w = Encode_i({}, {}, {}, {}, SYSTEM)
      BY <2>11, Domains DEF Encoded
    <3>2. OpcodeOf(l.op) = SYSTEM /\ SYSTEM \in SUBSET Code
      BY <2>11, Domains, Opcodes DEF OpcodeOf
    <3>3. /\ {} \in SUBSET Bit
          /\ {} \in SUBSET Bit
          /\ {} \in SUBSET Bit
          /\ {} \in SUBSET Bit
      BY <1>1, <1>2, <2>11
    <3> HIDE DEF w
    <3> QED BY <3>1, <3>2, <3>3, EveryFormat
  <2>12. CASE l.op = "ebreak"
    <3>1. w = Encode_i({0}, {}, {}, {}, SYSTEM)
      BY <2>12, Domains DEF Encoded
    <3>2. OpcodeOf(l.op) = SYSTEM /\ SYSTEM \in SUBSET Code
      BY <2>12, Domains, Opcodes DEF OpcodeOf
    <3>3. /\ {0} \in SUBSET Bit
          /\ {} \in SUBSET Bit
          /\ {} \in SUBSET Bit
          /\ {} \in SUBSET Bit
      BY <1>1, <1>2, <2>12
    <3> HIDE DEF w
    <3> QED BY <3>1, <3>2, <3>3, EveryFormat
  <2> QED BY <2>1, <2>2, <2>3, <2>4, <2>5, <2>6, <2>7, <2>8, <2>9, <2>10, <2>11, <2>12 DEF Mnemonics
<1> HIDE DEF w
<1> QED BY <1>3, OpcodeKept DEF w

----------------------------------------------------------------------------
(* Whatever spilled.                                                       *)

\* The kind of instruction a word runs as is told by its opcode, but for the
\* two kinds of register arithmetic.
LEMMA ExecutedKind ==
    ASSUME NEW w
    PROVE  LET opcode == Field(w, 0, 7, 0) IN
           /\ opcode = OP => Executed(w).kind \in {"alu", "muldiv"}
           /\ opcode = OP_IMM => Executed(w).kind = "aluimm"
           /\ opcode = LOAD => Executed(w).kind = "load"
           /\ opcode = STORE => Executed(w).kind = "store"
           /\ opcode = BRANCH => Executed(w).kind = "branch"
           /\ opcode = JAL => Executed(w).kind = "jal"
           /\ opcode = JALR => Executed(w).kind = "jalr"
           /\ opcode = LUI => Executed(w).kind = "lui"
           /\ opcode = AUIPC => Executed(w).kind = "auipc"
           /\ opcode = SYSTEM => Executed(w).kind = "system"
<1> DEFINE opcode == Field(w, 0, 7, 0)
           imm == Immediate(w)
           d == Field(w, 7, 5, 0)
           s == Field(w, 15, 5, 0)
           t == Field(w, 20, 5, 0)
           f3 == Field(w, 12, 3, 0)
           f7 == Field(w, 25, 7, 0)
<1>1. ASSUME opcode = OP PROVE Executed(w).kind \in {"alu", "muldiv"}
  <2>1. CASE f7 = {0}
    <3>1. Executed(w) = [kind |-> "muldiv", op |-> Selected(MulCodes, f3), rd |-> d, rs1 |-> s,
                         rs2 |-> t]
      BY <1>1, <2>1, ExecutedIs
    <3> HIDE DEF d, s, t, f3
    <3> QED BY <3>1
  <2>2. CASE f7 # {0}
    <3>1. Executed(w) = [kind |-> "alu", op |-> Selected(AluCodes, f3), alt |-> 5 \in f7,
                         rd |-> d, rs1 |-> s, rs2 |-> t]
      BY <1>1, <2>2, ExecutedIs
    <3> HIDE DEF d, s, t, f3, f7
    <3> QED BY <3>1
  <2> QED BY <2>1, <2>2
<1>2. ASSUME opcode = OP_IMM PROVE Executed(w).kind = "aluimm"
  <2> DEFINE shift == f3 \in {{0}, {0, 2}}
  <2>1. Executed(w) = [kind |-> "aluimm", op |-> Selected(AluCodes, f3),
                       alt |-> shift /\ 10 \in imm, rd |-> d, rs1 |-> s,
                       imm |-> IF shift THEN imm \cap 0 .. 4 ELSE imm]
    BY <1>2, ExecutedIs
  <2> HIDE DEF d, s, f3, imm, shift
  <2> QED BY <2>1
<1>3. ASSUME opcode = LOAD PROVE Executed(w).kind = "load"
  <2>1. Executed(w) = [kind |-> "load", op |-> Selected(LoadCodes, f3),
                       rd |-> d, rs1 |-> s, imm |-> imm]
    BY <1>3, ExecutedIs
  <2> HIDE DEF d, s, t, f3, imm
  <2> QED BY <2>1
<1>4. ASSUME opcode = STORE PROVE Executed(w).kind = "store"
  <2>1. Executed(w) = [kind |-> "store", op |-> Selected(StoreCodes, f3),
                       rs1 |-> s, rs2 |-> t, imm |-> imm]
    BY <1>4, ExecutedIs
  <2> HIDE DEF d, s, t, f3, imm
  <2> QED BY <2>1
<1>5. ASSUME opcode = BRANCH PROVE Executed(w).kind = "branch"
  <2>1. Executed(w) = [kind |-> "branch", op |-> Selected(BranchCodes, f3),
                       rs1 |-> s, rs2 |-> t, imm |-> imm]
    BY <1>5, ExecutedIs
  <2> HIDE DEF d, s, t, f3, imm
  <2> QED BY <2>1
<1>6. ASSUME opcode = JAL PROVE Executed(w).kind = "jal"
  <2>1. Executed(w) = [kind |-> "jal", rd |-> d, imm |-> imm]
    BY <1>6, ExecutedIs
  <2> HIDE DEF d, s, t, f3, imm
  <2> QED BY <2>1
<1>7. ASSUME opcode = JALR PROVE Executed(w).kind = "jalr"
  <2>1. Executed(w) = [kind |-> "jalr", rd |-> d, rs1 |-> s, imm |-> imm]
    BY <1>7, ExecutedIs
  <2> HIDE DEF d, s, t, f3, imm
  <2> QED BY <2>1
<1>8. ASSUME opcode = LUI PROVE Executed(w).kind = "lui"
  <2>1. Executed(w) = [kind |-> "lui", rd |-> d, imm |-> imm]
    BY <1>8, ExecutedIs
  <2> HIDE DEF d, s, t, f3, imm
  <2> QED BY <2>1
<1>9. ASSUME opcode = AUIPC PROVE Executed(w).kind = "auipc"
  <2>1. Executed(w) = [kind |-> "auipc", rd |-> d, imm |-> imm]
    BY <1>9, ExecutedIs
  <2> HIDE DEF d, s, t, f3, imm
  <2> QED BY <2>1
<1>10. ASSUME opcode = SYSTEM PROVE Executed(w).kind = "system"
  <2>1. Executed(w) = [kind |-> "system", op |-> Selected(SystemCodes, imm \cap 0 .. 11)]
    BY <1>10, ExecutedIs
  <2> HIDE DEF d, s, t, f3, imm
  <2> QED BY <2>1
<1> QED BY <1>1, <1>2, <1>3, <1>4, <1>5, <1>6, <1>7, <1>8, <1>9, <1>10

\* A number has no part in what kind of instruction runs, and a register that
\* is none turns at most one kind of register arithmetic into the other.
LEMMA KindKept ==
    ASSUME NEW l \in Line, NEW at, l.op \in Mnemonics
    PROVE  \/ Executed(Encoded(l, at)).kind = Meant(l, at).kind
           \/ {Executed(Encoded(l, at)).kind, Meant(l, at).kind} = {"alu", "muldiv"}
<1> DEFINE w == Encoded(l, at)
<1>1. Field(w, 0, 7, 0) = OpcodeOf(l.op)
  BY EncodedOpcode
<1> HIDE DEF w
<1>2. CASE l.op \in DOMAIN RegisterOps
  <2>1. OpcodeOf(l.op) = OP
    BY <1>2, Domains DEF OpcodeOf
  <2>2. Executed(w).kind \in {"alu", "muldiv"}
    BY <1>1, <2>1, ExecutedKind
  <2>3. Meant(l, at).kind \in {"alu", "muldiv"}
    <3>1. CASE l.op \in {"add", "sub", "sll", "slt", "sltu", "xor", "srl", "sra", "or", "and"}
      BY <3>1 DEF Meant
    <3>2. CASE l.op \in {"mul", "mulh", "mulhsu", "mulhu", "div", "divu", "rem", "remu"}
      BY <3>2 DEF Meant
    <3> QED BY <1>2, <3>1, <3>2, Domains
  <2> QED BY <2>2, <2>3 DEF w
<1>3. CASE l.op \in DOMAIN ImmediateOps \cup DOMAIN ShiftOps
  <2>1. OpcodeOf(l.op) = OP_IMM
    BY <1>3, Domains DEF OpcodeOf
  <2>2. Executed(w).kind = "aluimm"
    BY <1>1, <2>1, ExecutedKind
  <2>3. Meant(l, at).kind = "aluimm"
    BY <1>3, Domains DEF Meant
  <2> QED BY <2>2, <2>3 DEF w
<1>4. CASE l.op \in DOMAIN LoadOps
  <2>1. OpcodeOf(l.op) = LOAD
    BY <1>4, Domains DEF OpcodeOf
  <2>2. Executed(w).kind = "load"
    BY <1>1, <2>1, ExecutedKind
  <2>3. Meant(l, at).kind = "load"
    BY <1>4, Domains DEF Meant
  <2> QED BY <2>2, <2>3 DEF w
<1>5. CASE l.op \in DOMAIN StoreOps
  <2>1. OpcodeOf(l.op) = STORE
    BY <1>5, Domains DEF OpcodeOf
  <2>2. Executed(w).kind = "store"
    BY <1>1, <2>1, ExecutedKind
  <2>3. Meant(l, at).kind = "store"
    BY <1>5, Domains DEF Meant
  <2> QED BY <2>2, <2>3 DEF w
<1>6. CASE l.op \in DOMAIN BranchOps
  <2>1. OpcodeOf(l.op) = BRANCH
    BY <1>6, Domains DEF OpcodeOf
  <2>2. Executed(w).kind = "branch"
    BY <1>1, <2>1, ExecutedKind
  <2>3. Meant(l, at).kind = "branch"
    BY <1>6, Domains DEF Meant
  <2> QED BY <2>2, <2>3 DEF w
<1>7. CASE l.op = "jal"
  <2>1. OpcodeOf(l.op) = JAL
    BY <1>7, Domains DEF OpcodeOf
  <2>2. Executed(w).kind = "jal"
    BY <1>1, <2>1, ExecutedKind
  <2>3. Meant(l, at).kind = "jal"
    BY <1>7, Domains DEF Meant
  <2> QED BY <2>2, <2>3 DEF w
<1>8. CASE l.op = "jalr"
  <2>1. OpcodeOf(l.op) = JALR
    BY <1>8, Domains DEF OpcodeOf
  <2>2. Executed(w).kind = "jalr"
    BY <1>1, <2>1, ExecutedKind
  <2>3. Meant(l, at).kind = "jalr"
    BY <1>8, Domains DEF Meant
  <2> QED BY <2>2, <2>3 DEF w
<1>9. CASE l.op = "lui"
  <2>1. OpcodeOf(l.op) = LUI
    BY <1>9, Domains DEF OpcodeOf
  <2>2. Executed(w).kind = "lui"
    BY <1>1, <2>1, ExecutedKind
  <2>3. Meant(l, at).kind = "lui"
    BY <1>9, Domains DEF Meant
  <2> QED BY <2>2, <2>3 DEF w
<1>10. CASE l.op = "auipc"
  <2>1. OpcodeOf(l.op) = AUIPC
    BY <1>10, Domains DEF OpcodeOf
  <2>2. Executed(w).kind = "auipc"
    BY <1>1, <2>1, ExecutedKind
  <2>3. Meant(l, at).kind = "auipc"
    BY <1>10, Domains DEF Meant
  <2> QED BY <2>2, <2>3 DEF w
<1>11. CASE l.op \in {"ecall", "ebreak"}
  <2>1. OpcodeOf(l.op) = SYSTEM
    BY <1>11, Domains DEF OpcodeOf
  <2>2. Executed(w).kind = "system"
    BY <1>1, <2>1, ExecutedKind
  <2>3. Meant(l, at).kind = "system"
    BY <1>11, Domains DEF Meant
  <2> QED BY <2>2, <2>3 DEF w
<1> QED BY <1>2, <1>3, <1>4, <1>5, <1>6, <1>7, <1>8, <1>9, <1>10, <1>11 DEF Mnemonics

----------------------------------------------------------------------------
(* The life of an instruction.                                             *)

\* Only an instruction that can be encoded is; the word stays what it was
\* encoded as, and it is that word that is executed.
Life ==
    /\ stage \in {"encoded", "executed"} => ~Unencodable(line) /\ word = Encoded(line, pc)
    /\ stage = "executed" => ins = Executed(word)
    /\ stage = "failed" => Unencodable(line)

\* What holds of every state.
LifeInv == TypeOK /\ Life

\* A line that is yet to be assembled has no word.
LEMMA InitLife == Init => LifeInv
<1> SUFFICES ASSUME Init PROVE LifeInv
  OBVIOUS
<1>1. line \in Line /\ pc \in Int
  BY LinesAssumption, PcsAssumption DEF Init
<1> QED BY <1>1 DEF Init, LifeInv, TypeOK, Life, Bit

\* Encoding, refusing and executing keep the stages true.
LEMMA NextLife == LifeInv /\ [Next]_vars => LifeInv'
<1> SUFFICES ASSUME LifeInv, [Next]_vars PROVE LifeInv'
  OBVIOUS
<1> USE DEF LifeInv
<1>1. CASE Encode_instruction
  <2>1. line.op \in Mnemonics
    BY <1>1 DEF Encode_instruction, Unencodable
  <2>2. Encoded(line, pc) \subseteq Bit
    BY <2>1, EncodedOpcode DEF TypeOK
  <2>3. TypeOK'
    BY <1>1, <2>2 DEF Encode_instruction, TypeOK
  <2>4. Life'
    BY <1>1 DEF Encode_instruction, Life
  <2> QED BY <2>3, <2>4
<1>2. CASE Reject
  BY <1>2 DEF Reject, TypeOK, Life
<1>3. CASE Execute
  BY <1>3 DEF Execute, TypeOK, Life
<1>4. CASE UNCHANGED vars
  BY <1>4 DEF vars, TypeOK, Life
<1> QED BY <1>1, <1>2, <1>3, <1>4 DEF Next

\* In every state of every run, an instruction is where its stage says.
THEOREM LifeAlways == Spec => []LifeInv
BY InitLife, NextLife, PTL DEF Spec

\* The words of all the instructions, well-formed or not, have 32 bits: what a
\* misspelt register or a large number shifts out of encode.cpp's uint32_t is
\* lost, and nothing else is put in its place.
THEOREM TypeOKAlways == Spec => []TypeOK
<1>1. LifeInv => TypeOK
  BY DEF LifeInv
<1> QED BY <1>1, LifeAlways, PTL

\* Every well-formed instruction, with any registers and any number that fits
\* its field, at any address, is accepted by encode_instruction and executed
\* by CPU::execute as written.
THEOREM RoundTripAlways == Spec => []RoundTrip
<1>1. LifeInv => RoundTrip
  <2> SUFFICES ASSUME LifeInv, WellFormed(line, pc)
               PROVE  stage # "failed" /\ (stage = "executed" => ins = Meant(line, pc))
    BY DEF RoundTrip
  <2> DEFINE m == Meant(line, pc)
             c == Carried(line.op, m.imm)
  <2>1. line \in Line /\ pc \in Int /\ line.op \in Mnemonics /\ RegistersNamed(line)
    BY DEF LifeInv, TypeOK, WellFormed
  <2>2. stage # "failed"
    BY <2>1 DEF LifeInv, Life, Unencodable, WellFormed
  <2>3. [m EXCEPT !.imm = c] = m
    <3>1. CASE NumberAt(line.op) = {}
      <4>1. \A v : [m EXCEPT !.imm = v] = m
        BY <2>1, <3>1, NumberMeant
      <4> HIDE DEF m, c
      <4> QED BY <4>1
    <3>2. CASE NumberAt(line.op) # {}
      <4>1. [m EXCEPT !.imm = m.imm] = m
        BY <2>1, <3>2, NumberMeant
      <4>2. c = m.imm
        BY <2>1, <3>2, FittingCarried
      <4> HIDE DEF m, c
      <4> QED BY <4>1, <4>2
    <3> QED BY <3>1, <3>2
  <2>4. Executed(Encoded(line, pc)) = [m EXCEPT !.imm = c]
    BY <2>1, Runs DEF RunsAs
  <2>5. stage = "executed" => ins = Executed(Encoded(line, pc))
    BY DEF LifeInv, Life
  <2> HIDE DEF m, c
  <2>6. stage = "executed" => ins = m
    BY <2>3, <2>4, <2>5
  <2> QED BY <2>2, <2>6 DEF m
<1> QED BY <1>1, LifeAlways, PTL

\* No number and no misspelt register does more than bounded harm, for every
\* mnemonic, register, number and address.
THEOREM HarmContainedAlways == Spec => []HarmContained
<1>1. LifeInv => HarmContained
  <2> SUFFICES ASSUME LifeInv, stage = "executed"
               PROVE  LET m == Meant(line, pc)
                      IN  /\ ins.kind = m.kind \/ {ins.kind, m.kind} = {"alu", "muldiv"}
                          /\ RegistersNamed(line) =>
                                /\ DOMAIN ins = DOMAIN m
                                /\ \A f \in DOMAIN m \ {"imm"} : ins[f] = m[f]
                                /\ NumberAt(line.op) # {} =>
                                      ins.imm \cap Held(line.op) = m.imm \cap Held(line.op)
    BY DEF HarmContained
  <2> DEFINE m == Meant(line, pc)
             c == Carried(line.op, m.imm)
  <2>1. line \in Line /\ pc \in Int /\ line.op \in Mnemonics
    BY DEF LifeInv, TypeOK, Life, Unencodable
  <2>2. ins = Executed(Encoded(line, pc))
    BY DEF LifeInv, Life
  <2>3. ins.kind = m.kind \/ {ins.kind, m.kind} = {"alu", "muldiv"}
    BY <2>1, <2>2, KindKept
  <2>4. ASSUME RegistersNamed(line)
        PROVE  /\ DOMAIN ins = DOMAIN m
               /\ \A f \in DOMAIN m \ {"imm"} : ins[f] = m[f]
               /\ NumberAt(line.op) # {} => ins.imm \cap Held(line.op) = m.imm \cap Held(line.op)
    <3>1. ins = [m EXCEPT !.imm = c]
      BY <2>1, <2>2, <2>4, Runs DEF RunsAs
    <3>2. \A v : \A f \in DOMAIN m \ {"imm"} : [m EXCEPT !.imm = v][f] = m[f]
      BY <2>1, NumberMeant
    <3>3. NumberAt(line.op) # {} => "imm" \in DOMAIN m
      BY <2>1, NumberMeant
    <3>4. c \cap Held(line.op) = m.imm \cap Held(line.op)
      BY HeldCarried
    <3> HIDE DEF m, c
    <3>5. DOMAIN ins = DOMAIN m /\ \A f \in DOMAIN m \ {"imm"} : ins[f] = m[f]
      BY <3>1, <3>2
    <3>6. NumberAt(line.op) # {} => ins.imm = c
      BY <3>1, <3>3
    <3> QED BY <3>4, <3>5, <3>6
  <2> HIDE DEF m
  <2> QED BY <2>3, <2>4 DEF m
<1> QED BY <1>1, LifeAlways, PTL
=============================================================================
