----------------------------- MODULE AluProofs -----------------------------
(***************************************************************************)
(* The arithmetic of the emulator and the two halves of the assembler's    *)
(* wide pseudoinstructions, for every width of a register and of an addi's *)
(* immediate: what MCAlu checks over the pairs of six-bit words.           *)
(***************************************************************************)
EXTENDS MCAlu, WordProofs

\* Half of the words.
Half == Modulus \div 2

\* The negative and the positive numbers a word stands for.
SignedRange == -Half .. Half - 1

----------------------------------------------------------------------------
(* Wrapping.                                                               *)

\* A number is its wrapped form and a multiple of the modulus.
LEMMA Unwrapped ==
    ASSUME NEW i \in Int
    PROVE  \E k \in Int : i = Wrap(i) + Modulus * k /\ Wrap(i) = i - Modulus * k
<1>1. /\ i \div Modulus \in Int /\ i % Modulus \in Int /\ Modulus \in Int
      /\ i = Modulus * (i \div Modulus) + (i % Modulus)
  BY ModulusEven, DivMod
<1>2. i = Wrap(i) + Modulus * (i \div Modulus) /\ Wrap(i) = i - Modulus * (i \div Modulus)
  BY <1>1 DEF Wrap
<1> QED BY <1>1, <1>2

\* A sum may be wrapped early.
LEMMA WrapSum ==
    ASSUME NEW i \in Int, NEW j \in Int
    PROVE  Wrap(Wrap(i) + j) = Wrap(i + j)
<1>1. PICK k \in Int : i = Wrap(i) + Modulus * k
  BY Unwrapped
<1>2. Wrap(i) \in Int /\ Modulus \in Int
  BY WrapInWord, ModulusEven DEF Word
<1>3. i + j = (Wrap(i) + j) + Modulus * k /\ Wrap(i) + j \in Int
  BY <1>1, <1>2
<1> QED BY <1>3, WrapShifted

\* A number in the range of the signed words is read back from its word.
LEMMA SignedOfWrapped ==
    ASSUME NEW i \in SignedRange
    PROVE  Signed(Wrap(i)) = i
<1> DEFINE h == Half
<1>1. h \in Nat \ {0} /\ Modulus = 2 * h /\ Modulus \in Nat \ {0} /\ i \in Int /\ -h <= i /\ i < h
  BY ModulusEven DEF Half, SignedRange
<1>2. CASE i >= 0
  <2>1. i \in Word
    BY <1>1, <1>2 DEF Word
  <2> QED BY <1>1, <2>1, WrapOfWord DEF Signed, Half
<1>3. CASE i < 0
  <2>1. i + Modulus \in Word
    BY <1>1, <1>3 DEF Word
  <2>2. Wrap(i + Modulus) = i + Modulus
    BY <2>1, WrapOfWord
  <2>3. Wrap(i) = i + Modulus
    <3>1. ASSUME NEW k \in Int, k = 1 PROVE Wrap(i + Modulus) = Wrap(i)
      <4>1. Wrap(i + Modulus * k) = Wrap(i)
        BY <1>1, WrapShifted
      <4>2. Modulus * k = Modulus
        BY <1>1, <3>1
      <4> QED BY <4>1, <4>2
    <3> QED BY <2>2, <3>1
  <2>4. ~(i + Modulus < Modulus \div 2)
    BY <1>1, <1>3 DEF Half
  <2>5. Signed(Wrap(i)) = (i + Modulus) - Modulus
    BY <2>3, <2>4 DEF Signed
  <2> QED BY <1>1, <2>5
<1> QED BY <1>1, <1>2, <1>3

\* The two readings of a word differ by the modulus or not at all.
LEMMA Readings ==
    ASSUME NEW v \in Word
    PROVE  /\ v \in Int /\ 0 <= v /\ v < Modulus
           /\ Signed(v) \in SignedRange /\ Signed(v) \in Int
           /\ \E t \in {0, 1} : Signed(v) = v - Modulus * t
           /\ Wrap(Signed(v)) = v
           /\ Signed(v) = 0 <=> v = 0
<1>1. Half \in Nat \ {0} /\ Modulus = 2 * Half /\ Modulus \in Nat \ {0}
  BY ModulusEven DEF Half
<1>2. v \in Int /\ 0 <= v /\ v < Modulus
  BY <1>1 DEF Word
<1>3. /\ Signed(v) \in SignedRange /\ Wrap(Signed(v)) = v
      /\ Signed(v) = v \/ Signed(v) = v - Modulus
  BY SignedReading DEF SignedRange, Half
<1>4. Signed(v) = v - Modulus * 0 \/ Signed(v) = v - Modulus * 1
  BY <1>1, <1>2, <1>3
<1>5. Signed(v) = 0 <=> v = 0
  BY <1>1, <1>2, <1>3 DEF Signed
<1>6. Signed(v) \in Int
  BY <1>1, <1>3 DEF SignedRange
<1> QED BY <1>2, <1>3, <1>4, <1>5, <1>6

----------------------------------------------------------------------------
(* Products.                                                               *)

\* A product whose quotient by the modulus is a signed word is made up by
\* its two halves, the upper one read as a signed number.
LEMMA HalvesOf ==
    ASSUME NEW p \in Int, p \div Modulus \in SignedRange
    PROVE  Signed(Upper(p)) * Modulus + Wrap(p) = p
<1>1. /\ p \div Modulus \in Int /\ p % Modulus \in Int /\ Modulus \in Int
      /\ p = Modulus * (p \div Modulus) + (p % Modulus)
  BY ModulusEven, DivMod
<1>2. Signed(Upper(p)) = p \div Modulus
  BY SignedOfWrapped DEF Upper
<1> QED BY <1>1, <1>2 DEF Wrap

\* The quotient of what lies between two multiples.
LEMMA QuotientBetween ==
    ASSUME NEW p \in Int, NEW d \in Nat \ {0}, NEW lo \in Int, NEW hi \in Int,
           d * lo <= p, p < d * hi
    PROVE  lo <= p \div d /\ p \div d < hi
<1> DEFINE q == p \div d
<1>1. q \in Int /\ d * q <= p /\ p < d * q + d
  BY DivMod
<1> HIDE DEF q
<1>2. ~(q + 1 <= lo)
  <2> SUFFICES ASSUME q + 1 <= lo PROVE FALSE
    OBVIOUS
  <2>1. d * (q + 1) <= d * lo
    BY <1>1
  <2> QED BY <1>1, <2>1
<1>3. ~(hi <= q)
  <2> SUFFICES ASSUME hi <= q PROVE FALSE
    OBVIOUS
  <2>1. d * hi <= d * q
    BY <1>1
  <2> QED BY <1>1, <2>1
<1> QED BY <1>1, <1>2, <1>3 DEF q

\* The lower half does not depend on how the factors are read.
LEMMA LowerHalf ==
    ASSUME NEW u \in Word, NEW v \in Word
    PROVE  /\ Wrap(Signed(u) * Signed(v)) = Wrap(u * v)
           /\ Wrap(Signed(u) * v) = Wrap(u * v)
<1> DEFINE m == Modulus
<1>1. PICK s \in {0, 1} : Signed(u) = u - m * s
  BY Readings
<1>2. PICK t \in {0, 1} : Signed(v) = v - m * t
  BY Readings
<1>3. u \in Int /\ v \in Int /\ m \in Int /\ s \in Int /\ t \in Int
  BY Readings, ModulusEven
<1>4. (u - m * s) * (v - m * t) = u * v + m * (m * (s * t) - u * t - s * v)
  BY <1>3
<1>5. (u - m * s) * v = u * v + m * (-(s * v))
  BY <1>3
<1>6. u * v \in Int /\ m * (s * t) - u * t - s * v \in Int /\ -(s * v) \in Int
  BY <1>3
<1> QED BY <1>1, <1>2, <1>4, <1>5, <1>6, WrapShifted

\* The unsigned product.
LEMMA UnsignedHalves ==
    ASSUME NEW u \in Word, NEW v \in Word
    PROVE  Upper(u * v) * Modulus + Wrap(u * v) = u * v
<1> DEFINE m == Modulus
           p == u * v
<1>1. u \in Int /\ v \in Int /\ 0 <= u /\ 0 <= v /\ u < m /\ v < m /\ m \in Nat \ {0}
  BY Readings, ModulusEven
<1>2. p \in Int /\ m * 0 <= p
  BY <1>1
<1>3. p < m * m
  <2>1. u * v <= u * m
    BY <1>1
  <2>2. u * m < m * m
    BY <1>1
  <2> QED BY <1>1, <1>2, <2>1, <2>2
<1> HIDE DEF p
<1>4. p \div m \in Int /\ p % m \in Int /\ p = m * (p \div m) + (p % m)
  BY <1>1, <1>2, DivMod
<1>5. 0 <= p \div m /\ p \div m < m
  BY <1>1, <1>2, <1>3, QuotientBetween
<1>6. p \div m \in Word
  BY <1>1, <1>4, <1>5 DEF Word
<1>7. Upper(p) = p \div m /\ Wrap(p) = p % m
  BY <1>6, WrapOfWord DEF Upper, Wrap
<1>8. Upper(p) * m + Wrap(p) = p
  BY <1>1, <1>4, <1>7
<1> QED BY <1>8 DEF p

\* A signed factor and one of either reading.
LEMMA SignedQuotient ==
    ASSUME NEW i \in SignedRange, NEW j \in Int, -Half <= j, j < Modulus
    PROVE  (i * j) \div Modulus \in SignedRange
<1> DEFINE h == Half
           m == Modulus
           p == i * j
<1>1. h \in Nat \ {0} /\ m = 2 * h /\ m \in Nat \ {0} /\ i \in Int /\ -h <= i /\ i <= h - 1
  BY ModulusEven DEF Half, SignedRange
<1>2. p \in Int /\ -h <= j /\ j <= m - 1
  BY <1>1
<1>3. m * (-h) <= p /\ p < m * h
  <2>1. CASE j >= 0
    <3>1. (-h) * j <= i * j
      BY <1>1, <2>1
    <3>2. i * j <= h * j
      BY <1>1, <2>1
    <3>3. h * j <= h * (m - 1)
      BY <1>1, <1>2, <2>1
    <3>4. h * (m - 1) = m * h - h /\ (-h) * j = -(h * j) /\ m * (-h) = -(m * h)
      BY <1>1
    <3>5. h * j \in Int /\ m * h \in Int
      BY <1>1
    <3> QED BY <1>1, <1>2, <3>1, <3>2, <3>3, <3>4, <3>5
  <2>2. CASE j < 0
    <3>1. (h - 1) * j <= i * j
      BY <1>1, <2>2
    <3>2. i * j <= (-h) * j
      BY <1>1, <2>2
    <3>3. (-h) * j <= h * h
      BY <1>1, <1>2, <2>2
    <3>4. (h - 1) * j >= (h - 1) * (-h)
      BY <1>1, <1>2, <2>2
    <3>5. (h - 1) * (-h) = h - h * h /\ m * h = 2 * (h * h) /\ m * (-h) = -(2 * (h * h))
      BY <1>1
    <3>6. h * h \in Int /\ h * h > 0 /\ (h - 1) * j \in Int /\ (-h) * j \in Int
      BY <1>1
    <3> QED BY <1>1, <1>2, <3>1, <3>2, <3>3, <3>4, <3>5, <3>6
  <2> QED BY <2>1, <2>2
<1> HIDE DEF p
<1>4. -h <= p \div m /\ p \div m < h /\ p \div m \in Int
  <2>1. -h \in Int /\ h \in Int
    BY <1>1
  <2> QED BY <1>1, <1>2, <1>3, <2>1, QuotientBetween, DivMod
<1> QED BY <1>1, <1>4 DEF SignedRange, p

\* The upper half of a signed product taken as an unsigned one of twice the
\* width, as mulhsu does.
LEMMA UpperOfDouble ==
    ASSUME NEW p \in Int
    PROVE  Upper(p % (Modulus * Modulus)) = Upper(p)
<1> DEFINE m == Modulus
           q == p \div m
<1>1. m \in Nat \ {0}
  BY ModulusEven
<1>2. q \in Int /\ q % m \in Int /\ q % m \in Word /\ p % m \in 0 .. m - 1
  BY <1>1, DivMod DEF Word
<1>3. p % (m * m) = m * (q % m) + (p % m)
  BY <1>1, DivByProduct
<1>4. (p % (m * m)) \div m = q % m
  <2> DEFINE s == q % m
             r == p % m
             x == p % (m * m)
  <2>1. x = m * s + r /\ s \in Int /\ r \in 0 .. m - 1
    BY <1>2, <1>3
  <2> HIDE DEF s, r, x
  <2>2. x \in Int
    BY <1>1, <2>1
  <2>3. x \div m = s
    BY <1>1, <2>1, <2>2, DivModUnique
  <2> QED BY <2>3 DEF s, x
<1>5. Wrap(q % m) = q % m
  BY <1>2, WrapOfWord
<1> QED BY <1>4, <1>5 DEF Upper, Wrap

----------------------------------------------------------------------------
(* Division.                                                               *)

\* C's division of whole numbers: the remainder is smaller than the divisor
\* and has the dividend's sign, and only a divisor of 1 or -1 leaves a
\* quotient of the dividend's size.
LEMMA Truncation ==
    ASSUME NEW i \in Int, NEW j \in Int, j # 0
    PROVE  LET q == Quotient(i, j)
               r == Remainder(i, j)
           IN  /\ q \in Int /\ r \in Int
               /\ i = q * j + r
               /\ Abs(r) < Abs(j) /\ Abs(r) <= Abs(i)
               /\ r # 0 => Sign(r) = Sign(i)
               /\ Abs(q) <= Abs(i)
               /\ Abs(q) = Abs(i) => i = 0 \/ (j = 1 /\ q = i) \/ (j = -1 /\ q = -i)
<1> DEFINE ai == Abs(i)
           aj == Abs(j)
           qq == ai \div aj
           rr == ai % aj
           si == Sign(i)
           sj == Sign(j)
           q == Quotient(i, j)
           r == Remainder(i, j)
<1>1. /\ ai \in Nat /\ aj \in Nat \ {0} /\ si \in {1, -1} /\ sj \in {1, -1}
      /\ i = si * ai /\ j = sj * aj
      /\ ai = 0 <=> i = 0
  BY DEF Abs, Sign
<1>2. qq \in Int /\ rr \in 0 .. aj - 1 /\ ai = aj * qq + rr
  <2>1. ai \in Int /\ aj \in Nat \ {0}
    BY <1>1
  <2> HIDE DEF ai, aj
  <2> QED BY <2>1, DivMod
<1>3. q = si * sj * qq /\ r = i - j * q
  BY DEF Quotient, Remainder
<1>4. \A n \in Int : /\ Abs(n) = IF n < 0 THEN -n ELSE n
                     /\ Sign(n) = IF n < 0 THEN -1 ELSE 1
  BY DEF Abs, Sign
<1> HIDE DEF ai, aj, qq, rr, si, sj, q, r
<1>5. qq >= 0
  <2> SUFFICES ASSUME qq <= -1 PROVE FALSE
    BY <1>2
  <2>1. aj * qq <= -aj
    BY <1>1, <1>2
  <2> QED BY <1>1, <1>2, <2>1
<1>6. qq <= aj * qq /\ aj * qq \in Int
  BY <1>1, <1>2, <1>5
<1>7. qq <= ai /\ rr <= ai /\ aj * qq <= ai
  BY <1>1, <1>2, <1>5, <1>6
<1>8. q \in Int /\ q = (IF si = sj THEN qq ELSE -qq)
  BY <1>1, <1>2, <1>3
<1>9. j * q = si * (aj * qq) /\ j * q \in Int
  BY <1>1, <1>2, <1>8
<1>10. r \in Int /\ r = si * rr
  BY <1>1, <1>2, <1>3, <1>6, <1>9
<1>11. i = q * j + r
  BY <1>1, <1>3, <1>8, <1>9
<1>12. Abs(r) = rr /\ r # 0 => Sign(r) = si
  BY <1>1, <1>2, <1>4, <1>10
<1>13. Abs(r) = rr /\ Abs(q) = qq
  BY <1>1, <1>2, <1>4, <1>5, <1>8, <1>10
<1>14. ASSUME Abs(q) = ai, i # 0
       PROVE  (j = 1 /\ q = i) \/ (j = -1 /\ q = -i)
  <2>1. qq = ai /\ qq >= 1 /\ aj * qq <= qq
    BY <1>1, <1>2, <1>5, <1>7, <1>13, <1>14
  <2>2. aj = 1
    <3> SUFFICES ASSUME aj >= 2 PROVE FALSE
      BY <1>1
    <3>1. aj * qq >= 2 * qq
      BY <1>1, <1>2, <2>1
    <3> QED BY <1>2, <1>6, <2>1, <3>1
  <2> QED BY <1>1, <1>2, <1>8, <2>1, <2>2
<1>15. /\ q \in Int /\ r \in Int /\ i = q * j + r
       /\ Abs(r) < aj /\ Abs(r) <= ai
       /\ r # 0 => Sign(r) = si
       /\ Abs(q) <= ai
       /\ Abs(q) = ai => i = 0 \/ (j = 1 /\ q = i) \/ (j = -1 /\ q = -i)
  BY <1>1, <1>2, <1>7, <1>8, <1>10, <1>11, <1>12, <1>13, <1>14
<1> QED BY <1>15 DEF ai, aj, si, q, r

\* The quotient and the remainder of two words, read as signed numbers, are
\* signed words, but for the one quotient that overflows.
LEMMA DivisionInRange ==
    ASSUME NEW i \in SignedRange, NEW j \in SignedRange, j # 0,
           ~(i = -Half /\ j = -1)
    PROVE  Quotient(i, j) \in SignedRange /\ Remainder(i, j) \in SignedRange
<1> DEFINE h == Half
           q == Quotient(i, j)
           r == Remainder(i, j)
<1>1. h \in Nat \ {0} /\ i \in Int /\ j \in Int /\ -h <= i /\ i < h
  BY ModulusEven DEF Half, SignedRange
<1>2. /\ q \in Int /\ r \in Int
      /\ Abs(r) < Abs(j) /\ Abs(r) <= Abs(i)
      /\ r # 0 => Sign(r) = Sign(i)
      /\ Abs(q) <= Abs(i)
      /\ Abs(q) = Abs(i) => i = 0 \/ (j = 1 /\ q = i) \/ (j = -1 /\ q = -i)
  BY <1>1, Truncation
<1>3. \A n \in Int : /\ Abs(n) = IF n < 0 THEN -n ELSE n
                     /\ Sign(n) = IF n < 0 THEN -1 ELSE 1
  BY DEF Abs, Sign
<1> HIDE DEF q, r
<1>4. -h <= q /\ q < h
  BY <1>1, <1>2, <1>3 DEF Half
<1>5. -h <= r /\ r < h
  BY <1>1, <1>2, <1>3
<1>6. q \in SignedRange /\ r \in SignedRange
  BY <1>1, <1>2, <1>4, <1>5 DEF SignedRange
<1> QED BY <1>6 DEF q, r

\* The unsigned division.
LEMMA UnsignedDivision ==
    ASSUME NEW u \in Word, NEW v \in Word
    PROVE  /\ MulDiv("remu", u, v) = Wrap(u - v * MulDiv("divu", u, v))
           /\ v # 0 => MulDiv("remu", u, v) < v
<1> DEFINE d == MulDiv("divu", u, v)
           r == MulDiv("remu", u, v)
<1>1. u \in Int /\ v \in Int /\ 0 <= v /\ v < Modulus /\ Modulus \in Nat \ {0}
  BY Readings, ModulusEven
<1>2. CASE v = 0
  <2>1. r = u /\ d = Modulus - 1
    BY <1>2 DEF MulDiv
  <2>2. u - v * d = u
    BY <1>1, <1>2, <2>1
  <2> QED BY <1>2, <2>1, <2>2, WrapOfWord
<1>3. CASE v # 0
  <2>1. r = u % v /\ d = u \div v
    BY <1>3 DEF MulDiv
  <2>2. d \in Int /\ r \in 0 .. v - 1 /\ u = v * d + r
    <3>1. v \in Nat \ {0}
      BY <1>1, <1>3
    <3>2. u \div v \in Int /\ u % v \in 0 .. v - 1 /\ u = v * (u \div v) + (u % v)
      BY <1>1, <3>1, DivMod
    <3> QED BY <2>1, <3>2
  <2> HIDE DEF d, r
  <2>3. r = u - v * d /\ r < v /\ r \in Word
    BY <1>1, <2>2 DEF Word
  <2> QED BY <2>3, WrapOfWord DEF d, r
<1> QED BY <1>2, <1>3

\* The signed one.
LEMMA SignedDivision ==
    ASSUME NEW u \in Word, NEW v \in Word, ~Overflows("div", u, v)
    PROVE  LET q == Signed(MulDiv("div", u, v))
               r == Signed(MulDiv("rem", u, v))
           IN  IF v = 0 THEN q = -1 /\ r = Signed(u)
               ELSE /\ Signed(u) = q * Signed(v) + r
                    /\ Abs(r) < Abs(Signed(v))
                    /\ r # 0 => Sign(r) = Sign(Signed(u))
<1> DEFINE i == Signed(u)
           j == Signed(v)
<1>1. i \in SignedRange /\ j \in SignedRange /\ i \in Int /\ j \in Int /\ (j = 0 <=> v = 0)
  BY Readings
<1>2. ~(i = -Half /\ j = -1)
  BY DEF Overflows, Half
<1>3. CASE v = 0
  <2>1. MulDiv("div", u, v) = Modulus - 1 /\ MulDiv("rem", u, v) = u
    BY <1>3 DEF MulDiv
  <2>2. Signed(Modulus - 1) = -1
    <3>1. Half \in Nat \ {0} /\ Modulus = 2 * Half /\ Modulus \in Nat \ {0}
      BY ModulusEven DEF Half
    <3>2. ~(Modulus - 1 < Modulus \div 2)
      BY <3>1 DEF Half
    <3>3. Signed(Modulus - 1) = (Modulus - 1) - Modulus
      BY <3>2 DEF Signed
    <3> QED BY <3>1, <3>3
  <2> QED BY <1>3, <2>1, <2>2
<1>4. CASE v # 0
  <2>1. /\ MulDiv("div", u, v) = Wrap(Quotient(i, j))
        /\ MulDiv("rem", u, v) = Wrap(Remainder(i, j))
    BY <1>4 DEF MulDiv
  <2>2. Quotient(i, j) \in SignedRange /\ Remainder(i, j) \in SignedRange
    BY <1>1, <1>2, <1>4, DivisionInRange
  <2>3. /\ Signed(MulDiv("div", u, v)) = Quotient(i, j)
        /\ Signed(MulDiv("rem", u, v)) = Remainder(i, j)
    BY <2>1, <2>2, SignedOfWrapped
  <2>4. /\ i = Quotient(i, j) * j + Remainder(i, j)
        /\ Abs(Remainder(i, j)) < Abs(j)
        /\ Remainder(i, j) # 0 => Sign(Remainder(i, j)) = Sign(i)
    BY <1>1, <1>4, Truncation
  <2> QED BY <1>4, <2>3, <2>4
<1> QED BY <1>3, <1>4

----------------------------------------------------------------------------
(* The bitwise operations.                                                 *)

\* The next bit of a number, by which it grows.
LEMMA NextBit ==
    ASSUME NEW v \in Int, NEW n \in 0 .. Bits - 1
    PROVE  /\ v % 2 ^ (n + 1) = (v % 2 ^ n) + Bit(v, n) * 2 ^ n
           /\ v % 2 ^ n \in Int /\ 2 ^ n \in Int /\ Bit(v, n) \in {0, 1}
<1> DEFINE p == 2 ^ n
<1>1. p \in Nat \ {0} /\ 2 ^ (n + 1) = p * 2
  <2>1. n \in 0 .. Bits
    BY BitsAssumption
  <2>2. p \in Nat \ {0} /\ 2 ^ (n + 1) = 2 * p
    BY <2>1, Powers, PowersAssumption
  <2> HIDE DEF p
  <2> QED BY <2>2
<1>2. Bit(v, n) \in {0, 1}
  <2>1. n \in 0 .. Bits
    BY BitsAssumption
  <2> QED BY <2>1, BitIsBit
<1>3. Bit(v, n) = (v \div p) % 2
  BY DEF Bit
<1> HIDE DEF p
<1>4. ASSUME NEW d \in Nat \ {0}, d = 2
      PROVE  v % 2 ^ (n + 1) = p * ((v \div p) % 2) + (v % p)
  <2>1. v % (p * d) = p * ((v \div p) % d) + (v % p)
    BY <1>1, DivByProduct
  <2>2. 2 ^ (n + 1) = p * d
    BY <1>1, <1>4
  <2> QED BY <1>4, <2>1, <2>2, Zenon
<1>5. v % p \in Int
  BY <1>1, DivMod
<1>6. v % 2 ^ (n + 1) = (v % p) + Bit(v, n) * p
  <2>1. v % 2 ^ (n + 1) = p * Bit(v, n) + (v % p)
    BY <1>3, <1>4
  <2> HIDE DEF p
  <2> DEFINE y == v % 2 ^ (n + 1)
  <2>2. y = p * Bit(v, n) + (v % p)
    BY <2>1
  <2> HIDE DEF y
  <2>3. y = (v % p) + Bit(v, n) * p
    BY <1>1, <1>2, <1>5, <2>2
  <2> QED BY <2>3 DEF y
<1> QED BY <1>1, <1>2, <1>5, <1>6 DEF p

\* The summands of a bitwise operation are whole numbers.
LEMMA OneMoreDigit ==
    ASSUME NEW f \in [0 .. Bits - 1 -> Int], NEW n \in 0 .. Bits - 1
    PROVE  /\ SumFunctionOnSet(f, 0 .. n) = SumFunctionOnSet(f, 0 .. n - 1) + f[n]
           /\ SumFunctionOnSet(f, 0 .. n - 1) \in Int
<1>1. n \in Nat /\ \A i \in 0 .. n : f[i] \in Int
  BY BitsAssumption
<1>2. SumFunctionOnSet(f, 0 .. n) = SumFunctionOnSet(f, 0 .. n - 1) + f[n]
  BY <1>1, SumUpto
<1>3. SumFunctionOnSet(f, 0 .. n - 1) \in Int
  <2>1. IsFiniteSet(0 .. n - 1) /\ \A i \in 0 .. n - 1 : f[i] \in Int
    BY <1>1, FS_Interval
  <2> QED BY <2>1, SumIsInt
<1> QED BY <1>1, <1>2, <1>3

\* What "and" takes from a sum "or" adds to it, and "xor" is what is left of
\* "or" without "and".
LEMMA BitwiseSums ==
    ASSUME NEW u \in Word, NEW v \in Word
    PROVE  And(u, v) + Or(u, v) = u + v /\ Or(u, v) - And(u, v) = Xor(u, v)
<1> DEFINE D == 0 .. Bits - 1
           and == [k \in D |-> (Bit(u, k) * Bit(v, k)) * 2 ^ k]
           or == [k \in D |-> (Bit(u, k) + Bit(v, k) - Bit(u, k) * Bit(v, k)) * 2 ^ k]
           xor == [k \in D |-> ((Bit(u, k) + Bit(v, k)) % 2) * 2 ^ k]
           S(f, n) == SumFunctionOnSet(f, 0 .. n - 1)
           T == {n \in Nat : n <= Bits =>
                    /\ S(and, n) + S(or, n) = (u % 2 ^ n) + (v % 2 ^ n)
                    /\ S(or, n) - S(and, n) = S(xor, n)}
<1>1. u \in Int /\ v \in Int
  BY Readings
<1>2. ASSUME NEW k \in D
      PROVE  /\ and[k] \in Int /\ or[k] \in Int /\ xor[k] \in Int
             /\ and[k] + or[k] = Bit(u, k) * 2 ^ k + Bit(v, k) * 2 ^ k
             /\ or[k] - and[k] = xor[k]
             /\ u % 2 ^ (k + 1) = (u % 2 ^ k) + Bit(u, k) * 2 ^ k
             /\ v % 2 ^ (k + 1) = (v % 2 ^ k) + Bit(v, k) * 2 ^ k
             /\ u % 2 ^ k \in Int /\ v % 2 ^ k \in Int
             /\ Bit(u, k) * 2 ^ k \in Int /\ Bit(v, k) * 2 ^ k \in Int
  <2> DEFINE p == Bit(u, k)
             q == Bit(v, k)
             w == 2 ^ k
  <2>1. p \in {0, 1} /\ q \in {0, 1} /\ w \in Int
    BY <1>1, NextBit
  <2>2. and[k] = (p * q) * w /\ or[k] = (p + q - p * q) * w /\ xor[k] = ((p + q) % 2) * w
    OBVIOUS
  <2>3. /\ u % 2 ^ (k + 1) = (u % 2 ^ k) + Bit(u, k) * 2 ^ k
        /\ v % 2 ^ (k + 1) = (v % 2 ^ k) + Bit(v, k) * 2 ^ k
        /\ u % 2 ^ k \in Int /\ v % 2 ^ k \in Int
    BY <1>1, NextBit
  <2> HIDE DEF p, q, w, and, or, xor
  <2>4. /\ and[k] \in Int /\ or[k] \in Int /\ xor[k] \in Int
        /\ and[k] + or[k] = p * w + q * w /\ or[k] - and[k] = xor[k]
        /\ p * w \in Int /\ q * w \in Int
    <3>1. CASE p = 0 /\ q = 0
      BY <2>1, <2>2, <3>1
    <3>2. CASE p = 0 /\ q = 1
      BY <2>1, <2>2, <3>2
    <3>3. CASE p = 1 /\ q = 0
      BY <2>1, <2>2, <3>3
    <3>4. CASE p = 1 /\ q = 1
      BY <2>1, <2>2, <3>4
    <3> QED BY <2>1, <3>1, <3>2, <3>3, <3>4
  <2> QED BY <2>3, <2>4 DEF p, q, w
<1>3. and \in [D -> Int] /\ or \in [D -> Int] /\ xor \in [D -> Int]
  BY <1>2
<1>4. /\ And(u, v) = SumFunctionOnSet(and, DOMAIN and)
      /\ Or(u, v) = SumFunctionOnSet(or, DOMAIN or)
      /\ Xor(u, v) = SumFunctionOnSet(xor, DOMAIN xor)
  BY DEF And, Or, Xor, Digitwise, SumFunction
<1> HIDE DEF and, or, xor
<1>5. 0 \in T
  <2>1. 0 .. 0 - 1 = {}
    OBVIOUS
  <2>2. \A f : SumFunctionOnSet(f, 0 .. 0 - 1) = SumFunctionOnSet(f, {})
    BY <2>1, Zenon
  <2>3. S(and, 0) = 0 /\ S(or, 0) = 0 /\ S(xor, 0) = 0
    BY <2>2, SumOfNone
  <2>4. 2 ^ 0 = 1 /\ u % 1 = 0 /\ v % 1 = 0
    BY <1>1
  <2> QED BY <2>3, <2>4
<1>6. ASSUME NEW n \in T PROVE n + 1 \in T
  <2> SUFFICES ASSUME n + 1 <= Bits
               PROVE  /\ S(and, n + 1) + S(or, n + 1) = (u % 2 ^ (n + 1)) + (v % 2 ^ (n + 1))
                      /\ S(or, n + 1) - S(and, n + 1) = S(xor, n + 1)
    BY <1>6
  <2>1. /\ n \in D
        /\ S(and, n) + S(or, n) = (u % 2 ^ n) + (v % 2 ^ n)
        /\ S(or, n) - S(and, n) = S(xor, n)
    BY <1>6, BitsAssumption
  <2>2. /\ S(and, n + 1) = S(and, n) + and[n] /\ S(and, n) \in Int
        /\ S(or, n + 1) = S(or, n) + or[n] /\ S(or, n) \in Int
        /\ S(xor, n + 1) = S(xor, n) + xor[n] /\ S(xor, n) \in Int
    <3>1. ASSUME NEW f \in [D -> Int]
          PROVE  S(f, n + 1) = S(f, n) + f[n] /\ S(f, n) \in Int
      <4>1. 0 .. n + 1 - 1 = 0 .. n
        BY <2>1
      <4>2. SumFunctionOnSet(f, 0 .. n + 1 - 1) = SumFunctionOnSet(f, 0 .. n)
        BY <4>1, Zenon
      <4>3. /\ SumFunctionOnSet(f, 0 .. n) = SumFunctionOnSet(f, 0 .. n - 1) + f[n]
            /\ SumFunctionOnSet(f, 0 .. n - 1) \in Int
        BY <2>1, OneMoreDigit
      <4>4. S(f, n + 1) = SumFunctionOnSet(f, 0 .. n)
        BY <4>2
      <4>5. S(f, n) = SumFunctionOnSet(f, 0 .. n - 1)
        OBVIOUS
      <4> HIDE DEF S
      <4> QED BY <4>3, <4>4, <4>5
    <3> HIDE DEF S
    <3> QED BY <1>3, <3>1
  <2>3. /\ and[n] \in Int /\ or[n] \in Int /\ xor[n] \in Int
        /\ and[n] + or[n] = Bit(u, n) * 2 ^ n + Bit(v, n) * 2 ^ n
        /\ or[n] - and[n] = xor[n]
        /\ u % 2 ^ (n + 1) = (u % 2 ^ n) + Bit(u, n) * 2 ^ n
        /\ v % 2 ^ (n + 1) = (v % 2 ^ n) + Bit(v, n) * 2 ^ n
        /\ u % 2 ^ n \in Int /\ v % 2 ^ n \in Int
        /\ Bit(u, n) * 2 ^ n \in Int /\ Bit(v, n) * 2 ^ n \in Int
    BY <1>2, <2>1
  <2> HIDE DEF S
  <2> QED BY <2>1, <2>2, <2>3
<1>7. Bits \in T
  <2>1. T \subseteq Nat
    OBVIOUS
  <2> HIDE DEF T
  <2> QED BY <1>5, <1>6, <2>1, NatSets, BitsAssumption
<1>8. u % 2 ^ Bits = u /\ v % 2 ^ Bits = v
  BY WrapOfWord DEF Wrap, Modulus
<1>9. DOMAIN and = D /\ DOMAIN or = D /\ DOMAIN xor = D
  BY <1>3
<1>10. And(u, v) = S(and, Bits) /\ Or(u, v) = S(or, Bits) /\ Xor(u, v) = S(xor, Bits)
  BY <1>4, <1>9
<1> HIDE DEF S
<1> QED BY <1>7, <1>8, <1>10, BitsAssumption

----------------------------------------------------------------------------
(* Shifts and comparisons.                                                 *)

\* The arithmetic shift is the flooring division by a power of two.
LEMMA ShiftsDivide ==
    ASSUME NEW u \in Word, NEW v \in Word
    PROVE  /\ Signed(Alu("sr", TRUE, FALSE, u, v)) * 2 ^ Shift(v) <= Signed(u)
           /\ Signed(u) < (Signed(Alu("sr", TRUE, FALSE, u, v)) + 1) * 2 ^ Shift(v)
<1> DEFINE p == 2 ^ Shift(v)
           i == Signed(u)
           q == i \div p
           h == Half
<1>1. h \in Nat \ {0} /\ i \in Int /\ -h <= i /\ i < h
  BY Readings, ModulusEven DEF Half, SignedRange
<1>2. p \in Nat \ {0}
  <2>1. v \in Int
    BY Readings
  <2>2. Shift(v) \in 0 .. Bits
    BY <2>1, BitsAssumption, DivMod DEF Shift
  <2> QED BY <2>2, Powers
<1>3. Alu("sr", TRUE, FALSE, u, v) = Wrap(q)
  BY DEF Alu
<1> HIDE DEF p, i
<1>4. q \in Int /\ p * q <= i /\ i < p * q + p
  BY <1>1, <1>2, DivMod
<1>5. p * (-h) <= i /\ i < p * h
  BY <1>1, <1>2
<1>6. -h <= q /\ q < h
  BY <1>1, <1>2, <1>5, QuotientBetween
<1>7. q \in SignedRange
  BY <1>4, <1>6, ModulusEven DEF SignedRange, Half
<1>8. Signed(Wrap(q)) = q
  BY <1>7, SignedOfWrapped
<1> HIDE DEF q
<1>9. q * p <= i /\ i < (q + 1) * p
  BY <1>1, <1>2, <1>4
<1> QED BY <1>3, <1>8, <1>9 DEF p, i

\* slt orders the words as numbers; sltu differs from it where one of the
\* two is negative.
LEMMA ComparisonsOrder ==
    ASSUME NEW u \in Word, NEW v \in Word
    PROVE  /\ (Alu("slt", FALSE, FALSE, u, v) = 1) <=> (Signed(u) - Signed(v) < 0)
           /\ (Alu("slt", FALSE, FALSE, u, v) # Alu("sltu", FALSE, FALSE, u, v))
                 <=> (Signed(u) < 0) # (Signed(v) < 0)
<1> DEFINE slt == Alu("slt", FALSE, FALSE, u, v)
           sltu == Alu("sltu", FALSE, FALSE, u, v)
<1>1. /\ slt = IF Signed(u) < Signed(v) THEN 1 ELSE 0
      /\ sltu = IF u < v THEN 1 ELSE 0
  BY DEF Alu, Truth
<1> HIDE DEF slt, sltu
<1>2. /\ Half \in Nat \ {0} /\ Modulus = 2 * Half
      /\ u \in Int /\ 0 <= u /\ u < Modulus /\ v \in Int /\ 0 <= v /\ v < Modulus
  BY Readings, ModulusEven DEF Half
<1>3. /\ Signed(u) = IF u < Half THEN u ELSE u - Modulus
      /\ Signed(v) = IF v < Half THEN v ELSE v - Modulus
  BY DEF Signed, Half
<1>4. CASE u < Half /\ v < Half
  <2>1. (Signed(u) < 0) = FALSE /\ (Signed(v) < 0) = FALSE
    BY <1>2, <1>3, <1>4
  <2>2. slt = sltu /\ (slt = 1 <=> Signed(u) - Signed(v) < 0)
    BY <1>1, <1>2, <1>3, <1>4
  <2> QED BY <2>1, <2>2 DEF slt, sltu
<1>5. CASE u < Half /\ ~(v < Half)
  <2>1. (Signed(u) < 0) = FALSE /\ (Signed(v) < 0) = TRUE
    BY <1>2, <1>3, <1>5
  <2>2. slt # sltu /\ (slt = 1 <=> Signed(u) - Signed(v) < 0)
    BY <1>1, <1>2, <1>3, <1>5
  <2> QED BY <2>1, <2>2 DEF slt, sltu
<1>6. CASE ~(u < Half) /\ v < Half
  <2>1. (Signed(u) < 0) = TRUE /\ (Signed(v) < 0) = FALSE
    BY <1>2, <1>3, <1>6
  <2>2. slt # sltu /\ (slt = 1 <=> Signed(u) - Signed(v) < 0)
    BY <1>1, <1>2, <1>3, <1>6
  <2> QED BY <2>1, <2>2 DEF slt, sltu
<1>7. CASE ~(u < Half) /\ ~(v < Half)
  <2>1. (Signed(u) < 0) = TRUE /\ (Signed(v) < 0) = TRUE
    BY <1>2, <1>3, <1>7
  <2>2. slt = sltu /\ (slt = 1 <=> Signed(u) - Signed(v) < 0)
    BY <1>1, <1>2, <1>3, <1>7
  <2> QED BY <2>1, <2>2 DEF slt, sltu
<1> QED BY <1>4, <1>5, <1>6, <1>7

----------------------------------------------------------------------------
(* The two halves of a number.                                             *)

\* What an addi's field holds.
Field == -(Unit \div 2) .. Unit \div 2 - 1

\* The field is not wider than the signed words.
LEMMA UnitFits ==
    /\ Unit \in Nat \ {0} /\ Unit \div 2 \in Nat \ {0} /\ Unit = 2 * (Unit \div 2)
    /\ 2 ^ (LoBits - 1) = Unit \div 2 /\ 2 ^ LoBits = Unit
    /\ Unit \div 2 <= Half /\ Unit < Modulus
<1>1. /\ LoBits - 1 \in 0 .. Bits - 1 /\ LoBits - 1 \in 0 .. Bits
      /\ LoBits - 1 + 1 = LoBits /\ LoBits \in Nat
      /\ Bits - LoBits \in Nat /\ Bits - LoBits \in 0 .. Bits
      /\ Bits - LoBits - 1 \in 0 .. Bits - 1 /\ Bits - LoBits - 1 \in 0 .. Bits
      /\ LoBits + (Bits - LoBits) = Bits /\ Bits - LoBits - 1 + 1 = Bits - LoBits
  BY BitsAssumption, LoBitsAssumption
<1> DEFINE u == 2 ^ (LoBits - 1)
           w == 2 ^ (Bits - LoBits - 1)
<1>2. u \in Nat \ {0} /\ w \in Nat \ {0}
  BY <1>1, Powers
<1>3. Unit = 2 * u
  <2>1. 2 ^ (LoBits - 1 + 1) = 2 * 2 ^ (LoBits - 1)
    BY <1>1, PowersAssumption
  <2> QED BY <1>1, <2>1 DEF Unit
<1>4. Modulus = Unit * (2 * w)
  <2>1. 2 ^ (LoBits + (Bits - LoBits)) = 2 ^ LoBits * 2 ^ (Bits - LoBits)
    BY <1>1, Powers, BitsAssumption
  <2>2. 2 ^ (Bits - LoBits - 1 + 1) = 2 * 2 ^ (Bits - LoBits - 1)
    BY <1>1, PowersAssumption
  <2> QED BY <1>1, <2>1, <2>2 DEF Unit, Modulus
<1> HIDE DEF u, w
<1>5. Unit \in Nat \ {0} /\ Unit \div 2 = u
  BY <1>2, <1>3
<1>6. Half \in Nat \ {0} /\ Modulus = 2 * Half
  BY ModulusEven DEF Half
<1>7. Half = Unit * w /\ Unit <= Unit * w
  BY <1>2, <1>4, <1>5, <1>6
<1> QED BY <1>2, <1>3, <1>5, <1>6, <1>7 DEF u, Unit

\* A number the field holds comes out of it as its word.
LEMMA LowOfField ==
    ASSUME NEW i \in Field
    PROVE  Low(i) = Wrap(i) /\ i \in Int /\ i \in SignedRange
<1> DEFINE h == Unit \div 2
           m == i % Unit
<1>1. /\ Unit \in Nat \ {0} /\ h \in Nat \ {0} /\ Unit = 2 * h /\ i \in Int /\ -h <= i /\ i < h
      /\ h <= Half /\ Half \in Nat /\ Unit < Modulus /\ Modulus \in Nat
      /\ 2 ^ (LoBits - 1) = h /\ 2 ^ LoBits = Unit
  BY UnitFits, ModulusEven DEF Field, Half
<1>2. i \in SignedRange
  BY <1>1 DEF SignedRange
<1>3. Low(i) = IF m < h THEN m ELSE Wrap(m - Unit)
  BY <1>1 DEF Low, SignExtend
<1>4. CASE i >= 0
  <2>1. i \in 0 .. Unit - 1 /\ i \in Word
    BY <1>1, <1>4 DEF Word
  <2>2. m = i
    BY <1>1, <2>1, SmallMod
  <2>3. Wrap(i) = i
    BY <2>1, WrapOfWord
  <2> QED BY <1>1, <1>2, <1>3, <2>2, <2>3
<1>5. CASE i < 0
  <2>1. i + Unit \in 0 .. Unit - 1 /\ i = Unit * (-1) + (i + Unit) /\ -1 \in Int
    BY <1>1, <1>5
  <2>2. m = i + Unit
    <3> DEFINE s == i + Unit
    <3>1. s \in 0 .. Unit - 1 /\ i = Unit * (-1) + s /\ -1 \in Int
      BY <2>1
    <3> HIDE DEF s
    <3>2. i % Unit = s
      BY <1>1, <3>1, DivModUnique
    <3> QED BY <3>2 DEF s
  <2>3. ~(m < h) /\ m - Unit = i
    BY <1>1, <1>5, <2>2
  <2> QED BY <1>1, <1>2, <1>3, <2>3
<1> QED BY <1>1, <1>4, <1>5

\* The rounded upper half leaves a lower half that fits its field, and the
\* two make up the number, on top of anything.
LEMMA Rounded ==
    ASSUME NEW o \in Int, NEW c \in Int
    PROVE  /\ Lo12(o) \in Field
           /\ High(Hi20(o)) \in Word
           /\ Wrap(Wrap(c + High(Hi20(o))) + Low(Lo12(o))) = Wrap(c + o)
<1> DEFINE h == Unit \div 2
           s == Signed(Wrap(o + h))
           q == s \div Unit
           r == s % Unit
           lo == Signed(Wrap(o - q * Unit))
<1>1. Unit \in Nat \ {0} /\ h \in Nat \ {0} /\ Unit = 2 * h /\ h <= Half /\ Half \in Nat
  BY UnitFits, ModulusEven DEF Half
<1>2. o + h \in Int /\ Wrap(o + h) \in Word
  BY <1>1, WrapInWord
<1>3. s \in Int /\ Wrap(s) = Wrap(o + h)
  BY <1>2, Readings
<1>4. q \in Int /\ r \in 0 .. Unit - 1 /\ s = Unit * q + r
  BY <1>1, <1>3, DivMod
<1>5. Hi20(o) = q /\ Lo12(o) = lo
  BY DEF Hi20, Lo12
<1> HIDE DEF s, q, r
<1>6. Wrap(o - q * Unit) = Wrap(r - h)
  <2>1. PICK k \in Int : o + h = Wrap(o + h) + Modulus * k
    BY <1>2, Unwrapped
  <2>2. PICK l \in Int : s = Wrap(s) + Modulus * l
    BY <1>3, Unwrapped
  <2>3. Modulus \in Int /\ Wrap(s) \in Int /\ q * Unit \in Int /\ r \in Int
    BY <1>1, <1>2, <1>3, <1>4, ModulusEven DEF Word
  <2>4. o - q * Unit = (r - h) + (Modulus * k - Modulus * l)
    <3> DEFINE mk == Modulus * k
               ml == Modulus * l
               qu == q * Unit
    <3>1. mk \in Int /\ ml \in Int /\ qu \in Int /\ s = qu + r
      BY <1>1, <1>4, <2>3
    <3>2. o + h = Wrap(s) + mk /\ s = Wrap(s) + ml
      BY <1>3, <2>1, <2>2
    <3> HIDE DEF mk, ml, qu
    <3>3. o - qu = (r - h) + (mk - ml)
      BY <1>1, <1>3, <2>3, <3>1, <3>2
    <3> QED BY <3>3 DEF mk, ml, qu
  <2>5. Modulus * k - Modulus * l = Modulus * (k - l) /\ k - l \in Int
    BY <2>3
  <2>6. o - q * Unit = (r - h) + Modulus * (k - l) /\ r - h \in Int
    BY <1>1, <2>3, <2>4, <2>5
  <2> QED BY <2>5, <2>6, WrapShifted
<1>7. r - h \in Field /\ r - h \in SignedRange
  BY <1>1, <1>4 DEF Field, SignedRange
<1>8. lo = r - h
  BY <1>6, <1>7, SignedOfWrapped
<1>9. Low(lo) = Wrap(lo) /\ lo \in Int /\ lo \in Field
  BY <1>7, <1>8, LowOfField
<1>10. q * Unit \in Int /\ High(q) = Wrap(q * Unit) /\ High(q) \in Word /\ High(q) \in Int
  BY <1>1, <1>4, WrapInWord DEF High, Word
<1>11. Wrap(lo) = Wrap(o - q * Unit) /\ Wrap(lo) \in Int /\ o - q * Unit \in Int
  BY <1>6, <1>8, <1>9, <1>10, WrapInWord DEF Word
<1> HIDE DEF lo
<1>12. Wrap(c + High(q)) = Wrap(c + q * Unit)
  <2>1. Wrap(Wrap(q * Unit) + c) = Wrap(q * Unit + c)
    BY <1>10, WrapSum
  <2>2. c + High(q) = Wrap(q * Unit) + c /\ c + q * Unit = q * Unit + c
    BY <1>10
  <2> QED BY <2>1, <2>2
<1>13. Wrap(Wrap(c + High(q)) + Wrap(lo)) = Wrap(c + o)
  <2> DEFINE d == c + q * Unit
             e == o - q * Unit
  <2>1. d \in Int /\ e \in Int /\ d + e = c + o
    BY <1>10
  <2>2. Wrap(c + High(q)) = Wrap(d) /\ Wrap(lo) = Wrap(e)
    BY <1>11, <1>12
  <2> HIDE DEF d, e
  <2>3. Wrap(d) \in Int /\ Wrap(e) \in Int
    BY <2>1, WrapInWord DEF Word
  <2>4. Wrap(Wrap(d) + Wrap(e)) = Wrap(d + Wrap(e))
    BY <2>1, <2>3, WrapSum
  <2>5. Wrap(Wrap(e) + d) = Wrap(e + d)
    BY <2>1, WrapSum
  <2>6. d + Wrap(e) = Wrap(e) + d /\ d + e = e + d
    BY <2>1, <2>3
  <2> QED BY <2>1, <2>2, <2>4, <2>5, <2>6
<1> QED BY <1>5, <1>9, <1>10, <1>13

----------------------------------------------------------------------------
(* What a pseudoinstruction does.                                          *)

\* The registers the pseudoinstructions are tried on, zero first.
Some == {0, 1, 5}
Machine(m) ==
    /\ m = [x |-> m.x, pc |-> m.pc] /\ m.pc \in Word
    /\ m.x \in [Some -> Word] /\ m.x[0] = 0

\* One instruction, by its name.
LEMMA DoneIs ==
    ASSUME NEW m, NEW rd, NEW rs, NEW imm
    PROVE  /\ Done(m, Ins("addi", rd, rs, imm)) =
                [x |-> WithReg(m.x, rd, Wrap(m.x[rs] + Low(imm))), pc |-> Wrap(m.pc + 4)]
           /\ Done(m, Ins("lui", rd, rs, imm)) =
                [x |-> WithReg(m.x, rd, High(imm)), pc |-> Wrap(m.pc + 4)]
           /\ Done(m, Ins("auipc", rd, rs, imm)) =
                [x |-> WithReg(m.x, rd, Wrap(m.pc + High(imm))), pc |-> Wrap(m.pc + 4)]
           /\ Done(m, Ins("jal", rd, rs, imm)) =
                [x |-> WithReg(m.x, rd, Wrap(m.pc + 4)), pc |-> Wrap(m.pc + imm)]
           /\ Done(m, Ins("jalr", rd, rs, imm)) =
                [x |-> WithReg(m.x, rd, Wrap(m.pc + 4)),
                 pc |-> LET t == Wrap(m.x[rs] + Low(imm)) IN t - (t % 2)]
<1>1. ASSUME NEW op
      PROVE  /\ Ins(op, rd, rs, imm).op = op /\ Ins(op, rd, rs, imm).rd = rd
             /\ Ins(op, rd, rs, imm).rs1 = rs /\ Ins(op, rd, rs, imm).imm = imm
  BY DEF Ins
<1>2. ASSUME NEW u, NEW v PROVE Alu("add", FALSE, TRUE, u, v) = Wrap(u + v)
  BY DEF Alu
<1>3. Done(m, Ins("addi", rd, rs, imm)) =
        [x |-> WithReg(m.x, rd, Wrap(m.x[rs] + Low(imm))), pc |-> Wrap(m.pc + 4)]
  <2> DEFINE v == Alu("add", FALSE, TRUE, m.x[rs], Low(imm))
  <2>1. v = Wrap(m.x[rs] + Low(imm))
    BY <1>2
  <2>2. Done(m, Ins("addi", rd, rs, imm)) = [x |-> WithReg(m.x, rd, v), pc |-> Wrap(m.pc + 4)]
    BY <1>1 DEF Done, Alu
  <2> HIDE DEF v
  <2> QED BY <2>1, <2>2
<1>4. Done(m, Ins("lui", rd, rs, imm)) =
        [x |-> WithReg(m.x, rd, High(imm)), pc |-> Wrap(m.pc + 4)]
  BY <1>1 DEF Done
<1>5. Done(m, Ins("auipc", rd, rs, imm)) =
        [x |-> WithReg(m.x, rd, Wrap(m.pc + High(imm))), pc |-> Wrap(m.pc + 4)]
  BY <1>1 DEF Done
<1>6. Done(m, Ins("jal", rd, rs, imm)) =
        [x |-> WithReg(m.x, rd, Wrap(m.pc + 4)), pc |-> Wrap(m.pc + imm)]
  BY <1>1 DEF Done
<1>7. Done(m, Ins("jalr", rd, rs, imm)) =
        [x |-> WithReg(m.x, rd, Wrap(m.pc + 4)),
         pc |-> LET t == Wrap(m.x[rs] + Low(imm)) IN t - (t % 2)]
  BY <1>1 DEF Done
<1> QED BY <1>3, <1>4, <1>5, <1>6, <1>7

\* An addi onto a register that has just been written.
LEMMA SecondHalf ==
    ASSUME NEW m, Machine(m), NEW rd \in Some, NEW v \in Word, NEW imm,
           NEW n, n = [x |-> WithReg(m.x, rd, v), pc |-> Wrap(m.pc + 4)]
    PROVE  Done(n, Ins("addi", rd, rd, imm)) =
             [x |-> WithReg(m.x, rd, Wrap(v + Low(imm))), pc |-> Wrap(m.pc + 8)]
<1>1. Done(n, Ins("addi", rd, rd, imm)) =
        [x |-> WithReg(n.x, rd, Wrap(n.x[rd] + Low(imm))), pc |-> Wrap(n.pc + 4)]
  BY DoneIs
<1>2. n.x = WithReg(m.x, rd, v) /\ n.pc = Wrap(m.pc + 4)
  OBVIOUS
<1>3. Wrap(n.pc + 4) = Wrap(m.pc + 8)
  <2> DEFINE on == m.pc + 4
  <2>1. on \in Int /\ on + 4 = m.pc + 8
    BY Readings DEF Machine
  <2>2. n.pc = Wrap(on)
    BY <1>2
  <2> HIDE DEF on
  <2>3. Wrap(Wrap(on) + 4) = Wrap(on + 4)
    BY <2>1, WrapSum
  <2> QED BY <2>1, <2>2, <2>3
<1>4. WithReg(n.x, rd, Wrap(n.x[rd] + Low(imm))) = WithReg(m.x, rd, Wrap(v + Low(imm)))
  <2>1. CASE rd = 0
    BY <1>2, <2>1 DEF WithReg
  <2>2. CASE rd # 0
    <3>1. n.x = [m.x EXCEPT ![rd] = v] /\ n.x[rd] = v
      BY <1>2, <2>2 DEF WithReg, Machine
    <3> QED BY <2>2, <3>1 DEF WithReg, Machine
  <2> QED BY <2>1, <2>2
<1> QED BY <1>1, <1>3, <1>4

\* A word, added to what is missing to another, gives the other.
LEMMA Reaches ==
    ASSUME NEW u \in Word, NEW v \in Word
    PROVE  /\ Wrap(v + Wrap(u - v)) = u
           /\ Wrap(v + Signed(Wrap(u - v))) = u
           /\ Wrap(u - v) \in Word
<1>1. u \in Int /\ v \in Int /\ u - v \in Int /\ Wrap(u) = u
  BY Readings, WrapOfWord
<1>2. Wrap(u - v) \in Word
  BY <1>1, WrapInWord
<1> DEFINE w == Wrap(u - v)
<1>3. w \in Int /\ Signed(w) \in Int /\ Wrap(Signed(w)) = w
  BY <1>2, Readings
<1>4. Wrap(w + v) = Wrap(u - v + v)
  BY <1>1, WrapSum
<1> HIDE DEF w
<1>5. Wrap(v + w) = u
  <2>1. v + w = w + v /\ u - v + v = u
    BY <1>1, <1>3
  <2> QED BY <1>1, <1>4, <2>1
<1>6. Wrap(Wrap(Signed(w)) + v) = Wrap(Signed(w) + v)
  BY <1>1, <1>3, WrapSum
<1>7. Wrap(v + Signed(w)) = u
  <2>1. v + w = w + v /\ v + Signed(w) = Signed(w) + v
    BY <1>1, <1>3
  <2> QED BY <1>3, <1>5, <1>6, <2>1
<1> QED BY <1>2, <1>5, <1>7 DEF w

\* An expansion of one word, and one of two.
LEMMA Words1 ==
    ASSUME NEW m, NEW i
    PROVE  Len(<<i>>) = 1 /\ DoneAll(m, <<i>>) = Done(m, i) /\ <<i>>[1] = i
BY DEF DoneAll
LEMMA Words2 ==
    ASSUME NEW m, NEW i, NEW j
    PROVE  /\ Len(<<i, j>>) = 2 /\ DoneAll(m, <<i, j>>) = Done(Done(m, i), j)
           /\ <<i, j>>[1] = i /\ <<i, j>>[2] = j
BY DEF DoneAll

\* What PseudoMeaning asks of one pseudoinstruction.
AsMeant(op, rd, arg, m) ==
    LET s == Expansion(op, rd, arg, m.pc)
    IN  /\ Len(s) = Pseudoinstruction_size(op, arg)
        /\ DoneAll(m, s) = Meaning(op, rd, arg, m)
        /\ \A k \in 1 .. Len(s) : s[k].op = "addi" => s[k].imm \in Field

LEMMA MeantByOne ==
    ASSUME NEW op, NEW rd, NEW arg, NEW m, NEW i,
           Expansion(op, rd, arg, m.pc) = <<i>>, Pseudoinstruction_size(op, arg) = 1,
           Done(m, i) = Meaning(op, rd, arg, m), i.op = "addi" => i.imm \in Field
    PROVE  AsMeant(op, rd, arg, m)
<1>1. Len(<<i>>) = 1 /\ DoneAll(m, <<i>>) = Done(m, i) /\ <<i>>[1] = i
  BY Words1
<1>2. \A k \in 1 .. Len(<<i>>) : <<i>>[k] = i
  BY <1>1
<1> QED BY <1>1, <1>2 DEF AsMeant
LEMMA MeantByTwo ==
    ASSUME NEW op, NEW rd, NEW arg, NEW m, NEW i, NEW j,
           Expansion(op, rd, arg, m.pc) = <<i, j>>, Pseudoinstruction_size(op, arg) = 2,
           Done(Done(m, i), j) = Meaning(op, rd, arg, m),
           i.op # "addi", j.op = "addi" => j.imm \in Field
    PROVE  AsMeant(op, rd, arg, m)
<1>1. /\ Len(<<i, j>>) = 2 /\ DoneAll(m, <<i, j>>) = Done(Done(m, i), j)
      /\ <<i, j>>[1] = i /\ <<i, j>>[2] = j
  BY Words2
<1>2. \A k \in 1 .. Len(<<i, j>>) : <<i, j>>[k] = i \/ <<i, j>>[k] = j
  BY <1>1
<1> QED BY <1>1, <1>2 DEF AsMeant

\* nop, mv, ret: an addi or a jalr of 0.
LEMMA PlainMeant ==
    ASSUME NEW m, Machine(m), NEW rd \in Some, NEW arg
    PROVE  /\ AsMeant("nop", rd, arg, m) /\ AsMeant("ret", rd, arg, m)
           /\ arg \in Some => AsMeant("mv", rd, arg, m)
<1>1. 0 \in Field /\ Low(0) = 0
  <2>1. 0 \in Field /\ 0 \in Word
    BY UnitFits, ModulusEven DEF Field, Word
  <2> QED BY <2>1, LowOfField, WrapOfWord
<1>2. \A r \in Some : m.x[r] \in Word /\ Wrap(m.x[r] + 0) = m.x[r]
  <2> SUFFICES ASSUME NEW r \in Some PROVE m.x[r] \in Word /\ Wrap(m.x[r] + 0) = m.x[r]
    OBVIOUS
  <2>1. m.x[r] \in Word
    BY DEF Machine
  <2>2. m.x[r] \in Int /\ m.x[r] + 0 = m.x[r]
    BY <2>1, Readings
  <2> QED BY <2>1, <2>2, WrapOfWord
<1>3. \A v : WithReg(m.x, 0, v) = m.x
  BY DEF WithReg
<1>4. AsMeant("nop", rd, arg, m)
  <2> DEFINE i == Ins("addi", 0, 0, 0)
  <2>1. Expansion("nop", rd, arg, m.pc) = <<i>> /\ Pseudoinstruction_size("nop", arg) = 1
    BY DEF Expansion, Pseudoinstruction_size
  <2>2. Done(m, i) = [x |-> m.x, pc |-> Wrap(m.pc + 4)]
    BY <1>3, DoneIs
  <2>3. Meaning("nop", rd, arg, m) = [x |-> m.x, pc |-> Wrap(m.pc + 4 * 1)]
    BY <2>1 DEF Meaning, Machine
  <2>4. i.imm = 0
    BY DEF Ins
  <2> HIDE DEF i
  <2>5. m.pc + 4 * 1 = m.pc + 4
    OBVIOUS
  <2> QED BY <1>1, <2>1, <2>2, <2>3, <2>4, <2>5, MeantByOne
<1>5. AsMeant("ret", rd, arg, m)
  <2> DEFINE i == Ins("jalr", 0, 1, 0)
  <2>1. Expansion("ret", rd, arg, m.pc) = <<i>> /\ Pseudoinstruction_size("ret", arg) = 1
    BY DEF Expansion, Pseudoinstruction_size
  <2>2. Done(m, i) = [x |-> m.x, pc |-> m.x[1] - (m.x[1] % 2)]
    BY <1>1, <1>2, <1>3, DoneIs DEF Some
  <2>3. Meaning("ret", rd, arg, m) = [x |-> m.x, pc |-> m.x[1] - (m.x[1] % 2)]
    BY DEF Meaning, Machine
  <2>4. i.op = "jalr"
    BY DEF Ins
  <2> HIDE DEF i
  <2> QED BY <2>1, <2>2, <2>3, <2>4, MeantByOne
<1>6. ASSUME arg \in Some PROVE AsMeant("mv", rd, arg, m)
  <2> DEFINE i == Ins("addi", rd, arg, 0)
  <2>1. Expansion("mv", rd, arg, m.pc) = <<i>> /\ Pseudoinstruction_size("mv", arg) = 1
    BY DEF Expansion, Pseudoinstruction_size
  <2>2. Done(m, i) = [x |-> WithReg(m.x, rd, m.x[arg]), pc |-> Wrap(m.pc + 4)]
    BY <1>1, <1>2, <1>6, DoneIs
  <2>3. Meaning("mv", rd, arg, m) = [x |-> WithReg(m.x, rd, m.x[arg]), pc |-> Wrap(m.pc + 4 * 1)]
    BY <2>1 DEF Meaning
  <2>4. i.imm = 0
    BY DEF Ins
  <2> HIDE DEF i
  <2> QED BY <1>1, <2>1, <2>2, <2>3, <2>4, MeantByOne
<1> QED BY <1>4, <1>5, <1>6

\* li of a number that the field of one addi holds.
LEMMA SmallMeant ==
    ASSUME NEW m, Machine(m), NEW rd \in Some, NEW arg \in Word, Small(arg)
    PROVE  AsMeant("li", rd, arg, m)
<1> DEFINE i == Ins("addi", rd, 0, Signed(arg))
<1>1. Expansion("li", rd, arg, m.pc) = <<i>> /\ Pseudoinstruction_size("li", arg) = 1
  BY DEF Expansion, Pseudoinstruction_size
<1>2. Signed(arg) \in Field
  BY DEF Small, Field
<1>3. Low(Signed(arg)) = arg
  BY <1>2, LowOfField, Readings
<1>4. Wrap(m.x[0] + arg) = arg
  <2>1. m.x[0] + arg = arg
    BY Readings DEF Machine
  <2> QED BY <2>1, WrapOfWord
<1>5. Done(m, i) = [x |-> WithReg(m.x, rd, arg), pc |-> Wrap(m.pc + 4)]
  BY <1>3, <1>4, DoneIs
<1>6. Meaning("li", rd, arg, m) = [x |-> WithReg(m.x, rd, arg), pc |-> Wrap(m.pc + 4 * 1)]
  BY <1>1 DEF Meaning
<1>7. i.imm = Signed(arg)
  BY DEF Ins
<1> HIDE DEF i
<1> QED BY <1>1, <1>2, <1>5, <1>6, <1>7, MeantByOne

\* li of any other number: its upper half, then the rest of it.
LEMMA WideMeant ==
    ASSUME NEW m, Machine(m), NEW rd \in Some, NEW arg \in Word, ~Small(arg)
    PROVE  AsMeant("li", rd, arg, m)
<1> DEFINE i == Ins("lui", rd, 0, Hi20(arg))
           j == Ins("addi", rd, rd, Lo12(arg))
           v == High(Hi20(arg))
<1>1. Expansion("li", rd, arg, m.pc) = <<i, j>> /\ Pseudoinstruction_size("li", arg) = 2
  BY DEF Expansion, Pseudoinstruction_size
<1>2. arg \in Int /\ Wrap(arg) = arg
  BY Readings, WrapOfWord
<1>3. Lo12(arg) \in Field /\ v \in Word /\ Wrap(v + Low(Lo12(arg))) = arg
  <2> DEFINE w == Low(Lo12(arg))
  <2>1. Lo12(arg) \in Field /\ v \in Word /\ Wrap(Wrap(0 + v) + w) = Wrap(0 + arg)
    BY <1>2, Rounded
  <2> HIDE DEF v, w
  <2>2. v \in Int /\ 0 + v = v /\ Wrap(v) = v /\ 0 + arg = arg
    BY <1>2, <2>1, Readings, WrapOfWord
  <2> QED BY <1>2, <2>1, <2>2 DEF w
<1>4. Done(m, i) = [x |-> WithReg(m.x, rd, v), pc |-> Wrap(m.pc + 4)]
  BY DoneIs
<1>5. Done(Done(m, i), j) = [x |-> WithReg(m.x, rd, arg), pc |-> Wrap(m.pc + 8)]
  <2> HIDE DEF v, i
  <2> QED BY <1>3, <1>4, SecondHalf
<1>6. Meaning("li", rd, arg, m) = [x |-> WithReg(m.x, rd, arg), pc |-> Wrap(m.pc + 4 * 2)]
  BY <1>1 DEF Meaning
<1>7. i.op # "addi" /\ j.imm = Lo12(arg)
  BY DEF Ins
<1> HIDE DEF i, j, v
<1> QED BY <1>1, <1>3, <1>5, <1>6, <1>7, MeantByTwo

\* la: the same, of the way from here to there, on top of the pc.
LEMMA AddressMeant ==
    ASSUME NEW m, Machine(m), NEW rd \in Some, NEW arg \in Word
    PROVE  AsMeant("la", rd, arg, m)
<1> DEFINE o == Wrap(arg - m.pc)
           i == Ins("auipc", rd, 0, Hi20(o))
           j == Ins("addi", rd, rd, Lo12(o))
           v == Wrap(m.pc + High(Hi20(o)))
<1>1. Expansion("la", rd, arg, m.pc) = <<i, j>> /\ Pseudoinstruction_size("la", arg) = 2
  BY DEF Expansion, Pseudoinstruction_size
<1>2. m.pc \in Word /\ m.pc \in Int /\ o \in Int /\ Wrap(m.pc + o) = arg
  BY Reaches, Readings DEF Machine
<1>3. Lo12(o) \in Field /\ v \in Word /\ Wrap(v + Low(Lo12(o))) = arg
  <2> HIDE DEF o
  <2>1. /\ Lo12(o) \in Field /\ High(Hi20(o)) \in Word
        /\ Wrap(v + Low(Lo12(o))) = Wrap(m.pc + o)
    BY <1>2, Rounded
  <2>2. m.pc + High(Hi20(o)) \in Int
    BY <1>2, <2>1, Readings
  <2> QED BY <1>2, <2>1, <2>2, WrapInWord
<1>4. Done(m, i) = [x |-> WithReg(m.x, rd, v), pc |-> Wrap(m.pc + 4)]
  BY DoneIs
<1>5. Done(Done(m, i), j) = [x |-> WithReg(m.x, rd, arg), pc |-> Wrap(m.pc + 8)]
  <2> HIDE DEF o, v, i
  <2> QED BY <1>3, <1>4, SecondHalf
<1>6. Meaning("la", rd, arg, m) = [x |-> WithReg(m.x, rd, arg), pc |-> Wrap(m.pc + 4 * 2)]
  BY <1>1 DEF Meaning
<1>7. i.op # "addi" /\ j.imm = Lo12(o)
  BY DEF Ins
<1> HIDE DEF i, j, v, o
<1> QED BY <1>1, <1>3, <1>5, <1>6, <1>7, MeantByTwo

\* call and j: a jal over the way from here to there.
LEMMA JumpMeant ==
    ASSUME NEW m, Machine(m), NEW rd \in Some, NEW arg \in Word
    PROVE  AsMeant("call", rd, arg, m) /\ AsMeant("j", rd, arg, m)
<1> DEFINE o == Signed(Wrap(arg - m.pc))
<1>1. m.pc \in Word /\ Wrap(m.pc + o) = arg
  BY Reaches DEF Machine
<1>2. AsMeant("call", rd, arg, m)
  <2> DEFINE i == Ins("jal", 1, 0, o)
  <2>1. Expansion("call", rd, arg, m.pc) = <<i>> /\ Pseudoinstruction_size("call", arg) = 1
    BY DEF Expansion, Pseudoinstruction_size
  <2>2. Done(m, i) = [x |-> WithReg(m.x, 1, Wrap(m.pc + 4)), pc |-> arg]
    BY <1>1, DoneIs
  <2>3. Meaning("call", rd, arg, m) = [x |-> WithReg(m.x, 1, Wrap(m.pc + 4 * 1)), pc |-> arg]
    BY <2>1 DEF Meaning
  <2>4. i.op # "addi"
    BY DEF Ins
  <2> HIDE DEF i
  <2> QED BY <2>1, <2>2, <2>3, <2>4, MeantByOne
<1>3. AsMeant("j", rd, arg, m)
  <2> DEFINE i == Ins("jal", 0, 0, o)
  <2>1. Expansion("j", rd, arg, m.pc) = <<i>> /\ Pseudoinstruction_size("j", arg) = 1
    BY DEF Expansion, Pseudoinstruction_size
  <2>2. Done(m, i) = [x |-> m.x, pc |-> arg]
    BY <1>1, DoneIs DEF WithReg
  <2>3. Meaning("j", rd, arg, m) = [x |-> m.x, pc |-> arg]
    BY DEF Meaning, Machine
  <2>4. i.op # "addi"
    BY DEF Ins
  <2> HIDE DEF i
  <2> QED BY <2>1, <2>2, <2>3, <2>4, MeantByOne
<1> QED BY <1>2, <1>3

----------------------------------------------------------------------------
(* For every pair of words.                                                *)

\* The operands stay words.
Operands == a \in Word /\ b \in Word

LEMMA SpecOperands == Spec => []Operands
<1>1. Init => Operands
  BY DEF Init, Operands
<1>2. Operands /\ [Evaluate]_vars => Operands'
  BY DEF Operands, Evaluate, vars
<1> QED BY <1>1, <1>2, PTL DEF Spec

\* The two halves of a product make up the whole, for each reading of the
\* factors and every width of a register (execute_mul_div).
THEOREM ProductHalvesAlways == Spec => []ProductHalves
<1>1. Operands => ProductHalves
  <2> SUFFICES ASSUME Operands PROVE ProductHalves
    OBVIOUS
  <2> DEFINE i == Signed(a)
             j == Signed(b)
  <2>1. a \in Word /\ b \in Word
    BY DEF Operands
  <2>2. /\ a \in Int /\ b \in Int /\ i \in Int /\ j \in Int /\ i \in SignedRange
        /\ -Half <= b /\ b < Modulus /\ -Half <= j /\ j < Modulus
        /\ i * j \in Int /\ i * b \in Int
    <3>1. Half \in Nat \ {0} /\ Modulus = 2 * Half
      BY ModulusEven DEF Half
    <3>2. /\ a \in Int /\ b \in Int /\ i \in Int /\ j \in Int /\ i \in SignedRange
          /\ 0 <= b /\ b < Modulus /\ j \in SignedRange
      BY <2>1, Readings
    <3> HIDE DEF i, j
    <3> QED BY <3>1, <3>2 DEF SignedRange
  <2>3. M("mul") = Wrap(a * b) /\ M("mulhu") = Upper(a * b)
    BY DEF M, MulDiv
  <2>4. M("mulh") = Upper(i * j)
    BY DEF M, MulDiv
  <2>5. M("mulhsu") = Upper(i * b)
    <3>1. M("mulhsu") = Upper((i * b) % (Modulus * Modulus))
      BY DEF M, MulDiv
    <3> QED BY <2>2, <3>1, UpperOfDouble
  <2>6. M("mulhu") * Modulus + M("mul") = a * b
    BY <2>1, <2>3, UnsignedHalves
  <2>7. Signed(M("mulh")) * Modulus + M("mul") = i * j
    <3>1. (i * j) \div Modulus \in SignedRange
      BY <2>2, SignedQuotient
    <3>2. Signed(Upper(i * j)) * Modulus + Wrap(i * j) = i * j
      <4> DEFINE p == i * j
      <4>1. p \in Int /\ p \div Modulus \in SignedRange
        BY <2>2, <3>1
      <4> HIDE DEF p
      <4>2. Signed(Upper(p)) * Modulus + Wrap(p) = p
        BY <4>1, HalvesOf
      <4> QED BY <4>2 DEF p
    <3>3. Wrap(i * j) = Wrap(a * b)
      BY <2>1, LowerHalf
    <3> QED BY <2>3, <2>4, <3>2, <3>3
  <2>8. Signed(M("mulhsu")) * Modulus + M("mul") = i * b
    <3>1. (i * b) \div Modulus \in SignedRange
      BY <2>2, SignedQuotient
    <3>2. Signed(Upper(i * b)) * Modulus + Wrap(i * b) = i * b
      <4> DEFINE p == i * b
      <4>1. p \in Int /\ p \div Modulus \in SignedRange
        BY <2>2, <3>1
      <4> HIDE DEF p
      <4>2. Signed(Upper(p)) * Modulus + Wrap(p) = p
        BY <4>1, HalvesOf
      <4> QED BY <4>2 DEF p
    <3>3. Wrap(i * b) = Wrap(a * b)
      BY <2>1, LowerHalf
    <3> QED BY <2>3, <2>5, <3>2, <3>3
  <2> QED BY <2>6, <2>7, <2>8 DEF ProductHalves
<1> QED BY <1>1, SpecOperands, PTL

\* Quotient and remainder fit together as RISC-V asks, and a division by
\* zero gives all ones and the dividend, for every width (execute_mul_div).
THEOREM DivisionLawAlways == Spec => []DivisionLaw
<1>1. Operands => DivisionLaw
  <2> SUFFICES ASSUME Operands PROVE DivisionLaw
    OBVIOUS
  <2>1. a \in Word /\ b \in Word
    BY DEF Operands
  <2>2. /\ MulDiv("remu", a, b) = Wrap(a - b * MulDiv("divu", a, b))
        /\ b # 0 => MulDiv("remu", a, b) < b
    BY <2>1, UnsignedDivision
  <2>3. ASSUME ~Overflows("div", a, b)
        PROVE  LET q == Signed(MulDiv("div", a, b))
                   r == Signed(MulDiv("rem", a, b))
               IN  IF b = 0 THEN q = -1 /\ r = Signed(a)
                   ELSE /\ Signed(a) = q * Signed(b) + r
                        /\ Abs(r) < Abs(Signed(b))
                        /\ r # 0 => Sign(r) = Sign(Signed(a))
    BY <2>1, <2>3, SignedDivision
  <2> QED BY <2>2, <2>3 DEF DivisionLaw, M
<1> QED BY <1>1, SpecOperands, PTL

\* Shifts divide, the bitwise operations add up, comparisons order, and the
\* immediate forms agree, for every width (execute_alu).
THEOREM AluLawsAlways == Spec => []AluLaws
<1>1. Operands => AluLaws
  <2> SUFFICES ASSUME Operands PROVE AluLaws
    OBVIOUS
  <2>1. a \in Word /\ b \in Word /\ a \in Int /\ b \in Int
    BY Readings DEF Operands
  <2>2. /\ Signed(R("sr", TRUE)) * 2 ^ Shift(b) <= Signed(a)
        /\ Signed(a) < (Signed(R("sr", TRUE)) + 1) * 2 ^ Shift(b)
    BY <2>1, ShiftsDivide DEF R
  <2>3. R("sr", FALSE) = a \div 2 ^ Shift(b)
    BY DEF R, Alu
  <2>4. R("sr", FALSE) = Wrap(R("sr", FALSE))
    <3>1. R("sr", FALSE) \in Word
      BY <2>1, AluInWord DEF R, AluOp
    <3> QED BY <3>1, WrapOfWord
  <2>5. R("and", FALSE) = And(a, b) /\ R("or", FALSE) = Or(a, b) /\ R("xor", FALSE) = Xor(a, b)
    BY DEF R, Alu
  <2>6. And(a, b) + Or(a, b) = a + b /\ Or(a, b) - And(a, b) = Xor(a, b)
    BY <2>1, BitwiseSums
  <2>7. Wrap(R("add", TRUE) + b) = a
    <3>1. R("add", TRUE) = Wrap(a - b)
      BY DEF R, Alu
    <3>2. Wrap(Wrap(a - b) + b) = Wrap(a - b + b) /\ a - b + b = a
      BY <2>1, WrapSum
    <3> QED BY <2>1, <3>1, <3>2, WrapOfWord
  <2>8. I("add", TRUE) = R("add", FALSE)
    BY DEF I, R, Alu
  <2>9. /\ (R("slt", FALSE) = 1) <=> (Signed(a) - Signed(b) < 0)
        /\ (R("slt", FALSE) # R("sltu", FALSE)) <=> (Signed(a) < 0) # (Signed(b) < 0)
    BY <2>1, ComparisonsOrder DEF R
  <2>10. I("sr", TRUE) = R("sr", TRUE)
    BY DEF I, R, Alu
  <2>11. /\ R("and", FALSE) + R("or", FALSE) = a + b
         /\ R("or", FALSE) - R("and", FALSE) = R("xor", FALSE)
    BY <2>5, <2>6
  <2> QED BY <2>2, <2>3, <2>4, <2>7, <2>8, <2>9, <2>10, <2>11 DEF AluLaws
<1> QED BY <1>1, SpecOperands, PTL

\* Each pseudoinstruction does what it is documented to do, in as many words
\* as pass 1 has reserved for it, each of whose numbers fits its field, for
\* every width of a register and of the field (expand_pseudoinstruction).
THEOREM PseudoMeaningAlways == Spec => []PseudoMeaning
<1>1. Operands => PseudoMeaning
  <2> SUFFICES ASSUME Operands PROVE PseudoMeaning
    OBVIOUS
  <2> DEFINE m == [x |-> [r \in {0, 1, 5} |-> IF r = 0 THEN 0 ELSE Wrap(a + r)], pc |-> b]
  <2>1. a \in Word /\ b \in Word /\ a \in Int
    BY Readings DEF Operands
  <2>2. Machine(m) /\ m.pc = b
    <3>1. \A r \in Some : Wrap(a + r) \in Word
      BY <2>1, WrapInWord DEF Some
    <3>2. 0 \in Word
      BY ModulusEven DEF Word
    <3> QED BY <2>1, <3>1, <3>2 DEF Machine, Some
  <2> HIDE DEF m
  <2>3. ASSUME NEW op \in {"nop", "mv", "li", "la", "call", "ret", "j"}, NEW rd \in Some,
               NEW arg, op = "mv" => arg \in Some, op # "mv" => arg \in Word
        PROVE  AsMeant(op, rd, arg, m)
    <3>1. CASE op \in {"nop", "mv", "ret"}
      BY <2>2, <2>3, <3>1, PlainMeant
    <3>2. CASE op = "li"
      BY <2>2, <2>3, <3>2, SmallMeant, WideMeant
    <3>3. CASE op = "la"
      BY <2>2, <2>3, <3>3, AddressMeant
    <3>4. CASE op \in {"call", "j"}
      BY <2>2, <2>3, <3>4, JumpMeant
    <3> QED BY <2>3, <3>1, <3>2, <3>3, <3>4
  <2>4. ASSUME NEW op \in {"nop", "mv", "li", "la", "call", "ret", "j"}, NEW rd \in {0, 1, 5},
               NEW arg \in IF op = "mv" THEN {0, 1, 5} ELSE {a}
        PROVE  LET s == Expansion(op, rd, arg, b)
               IN  /\ Len(s) = Pseudoinstruction_size(op, arg)
                   /\ DoneAll(m, s) = Meaning(op, rd, arg, m)
                   /\ \A k \in 1 .. Len(s) : s[k].op = "addi" =>
                          s[k].imm \in -(Unit \div 2) .. Unit \div 2 - 1
    <3>1. (op = "mv" => arg \in Some) /\ (op # "mv" => arg \in Word) /\ rd \in Some
      BY <2>1, <2>4 DEF Some
    <3>2. AsMeant(op, rd, arg, m)
      BY <2>3, <2>4, <3>1
    <3> QED BY <2>2, <3>2 DEF AsMeant, Field
  <2> QED BY <2>4 DEF PseudoMeaning, m
<1> QED BY <1>1, SpecOperands, PTL

=============================================================================
