----------------------------- MODULE WordProofs -----------------------------
(***************************************************************************)
(* Lemmas about words of any number of bits: the two readings of a word,   *)
(* the results of execute_alu and execute_mul_div, and what an access to   *)
(* an array of bytes reads and writes.                                     *)
(***************************************************************************)
EXTENDS Alu, MemoryAccess, BasicFacts

----------------------------------------------------------------------------
(* Words.                                                                  *)

\* The powers of two, as far as a word needs them.
LEMMA Powers ==
    /\ \A k \in 0 .. Bits : 2 ^ k \in Nat \ {0}
    /\ \A i, j \in Nat : i + j <= Bits => 2 ^ (i + j) = 2 ^ i * 2 ^ j
<1>1. Bits \in Nat /\ 2 ^ 0 = 1 /\ 2 \in Nat \ {0}
  BY BitsAssumption
<1>2. \A k \in 0 .. Bits : 2 ^ k \in Nat \ {0}
  BY <1>1, PowersAssumption, PowersPositive
<1>3. ASSUME NEW i \in Nat, NEW j \in Nat, i + j <= Bits PROVE 2 ^ (i + j) = 2 ^ i * 2 ^ j
  BY <1>1, <1>3, PowersAssumption, PowersAdd
<1> QED BY <1>2, <1>3

\* The modulus is even and positive.
LEMMA ModulusEven ==
    /\ Modulus \in Nat \ {0} /\ Modulus \div 2 \in Nat \ {0}
    /\ Modulus = 2 * (Modulus \div 2)
<1>1. Bits - 1 \in 0 .. Bits /\ Bits - 1 + 1 = Bits /\ Bits - 1 \in 0 .. Bits - 1
  BY BitsAssumption
<1>2. 2 ^ (Bits - 1) \in Nat \ {0}
  BY <1>1, Powers
<1>3. 2 ^ (Bits - 1 + 1) = 2 * 2 ^ (Bits - 1)
  BY <1>1, PowersAssumption
<1>4. Modulus = 2 * 2 ^ (Bits - 1)
  BY <1>1, <1>3 DEF Modulus
<1> QED BY <1>2, <1>4

\* Wrapping gives a word,
LEMMA WrapInWord ==
    ASSUME NEW i \in Int
    PROVE  Wrap(i) \in Word
BY ModulusEven, DivMod DEF Wrap, Word

\* ... and leaves words as they are.
LEMMA WrapOfWord ==
    ASSUME NEW v \in Word
    PROVE  Wrap(v) = v
<1>1. v = Modulus * 0 + v /\ v \in Int /\ v \in 0 .. Modulus - 1 /\ Modulus \in Nat \ {0}
  BY ModulusEven DEF Word
<1> QED BY <1>1, DivModUnique DEF Wrap

\* Wrapping twice, or after a multiple of the modulus, changes nothing more.
LEMMA WrapShifted ==
    ASSUME NEW i \in Int, NEW k \in Int
    PROVE  Wrap(i + Modulus * k) = Wrap(i)
<1> DEFINE r == i % Modulus
           q == i \div Modulus
<1>1. Modulus \in Nat \ {0} /\ q \in Int /\ r \in 0 .. Modulus - 1 /\ i = Modulus * q + r
  BY ModulusEven, DivMod
<1> HIDE DEF r, q
<1>2. i + Modulus * k = Modulus * (q + k) + r /\ q + k \in Int /\ i + Modulus * k \in Int
  BY <1>1
<1>3. (i + Modulus * k) % Modulus = r
  BY <1>1, <1>2, DivModUnique
<1> QED BY <1>3 DEF Wrap, r

\* A word read as a signed number, and back.
LEMMA SignedReading ==
    ASSUME NEW v \in Word
    PROVE  /\ Signed(v) \in -(Modulus \div 2) .. (Modulus \div 2) - 1
           /\ Wrap(Signed(v)) = v
           /\ Signed(v) = v \/ Signed(v) = v - Modulus
<1> DEFINE h == Modulus \div 2
<1>1. h \in Nat \ {0} /\ Modulus = 2 * h /\ Modulus \in Nat \ {0}
  BY ModulusEven
<1>2. v \in 0 .. Modulus - 1
  BY DEF Word
<1>3. CASE v < h
  BY <1>1, <1>2, <1>3, WrapOfWord DEF Signed
<1>4. CASE ~(v < h)
  <2>1. Signed(v) = v - Modulus /\ v - Modulus = v + Modulus * (-1)
    BY <1>1, <1>2, <1>4 DEF Signed
  <2>2. Wrap(v + Modulus * (-1)) = v
    BY <1>2, WrapShifted, WrapOfWord
  <2> HIDE DEF h
  <2>3. Wrap(v - Modulus) = v
    BY <2>1, <2>2
  <2> QED BY <1>1, <1>2, <1>4, <2>1, <2>3 DEF h
<1> QED BY <1>3, <1>4

\* Extending the sign gives a word.
LEMMA SignExtendInWord ==
    ASSUME NEW v \in Word, NEW k \in 1 .. Bits
    PROVE  SignExtend(v, k) \in Word
<1>1. 2 ^ k \in Int
  BY Powers, BitsAssumption
<1>2. v - 2 ^ k \in Int
  BY <1>1 DEF Word
<1>3. Wrap(v - 2 ^ k) \in Word
  BY <1>2, WrapInWord
<1> QED BY <1>3 DEF SignExtend

----------------------------------------------------------------------------
(* Bits.                                                                   *)

\* A bit is 0 or 1.
LEMMA BitIsBit ==
    ASSUME NEW v \in Int, NEW k \in 0 .. Bits
    PROVE  Bit(v, k) \in {0, 1}
<1>1. v \div 2 ^ k \in Int
  BY Powers, DivMod
<1> QED BY <1>1 DEF Bit

\* A sum of powers of two, each taken once or not at all, is a word.
LEMMA SumOfBits ==
    ASSUME NEW f \in [0 .. Bits - 1 -> {0, 1}]
    PROVE  SumFunction([k \in 0 .. Bits - 1 |-> f[k] * 2 ^ k]) \in Word
<1> DEFINE g == [k \in 0 .. Bits - 1 |-> f[k] * 2 ^ k]
           Sum(n) == SumFunctionOnSet(g, 0 .. n - 1)
           T == {n \in Nat : n <= Bits => Sum(n) \in 0 .. 2 ^ n - 1}
<1>1. \A k \in 0 .. Bits - 1 : g[k] \in Int /\ g[k] >= 0 /\ g[k] <= 2 ^ k
  <2> SUFFICES ASSUME NEW k \in 0 .. Bits - 1 PROVE g[k] \in Int /\ g[k] >= 0 /\ g[k] <= 2 ^ k
    OBVIOUS
  <2>1. 2 ^ k \in Nat /\ g[k] = f[k] * 2 ^ k /\ f[k] \in {0, 1}
    BY Powers, BitsAssumption
  <2> HIDE DEF g
  <2> QED BY <2>1
<1> HIDE DEF g
<1>2. 0 \in T
  <2>1. 0 .. 0 - 1 = {}
    OBVIOUS
  <2>2. SumFunctionOnSet(g, 0 .. 0 - 1) = SumFunctionOnSet(g, {})
    BY <2>1, Zenon
  <2> QED BY <2>2, SumOfNone
<1>3. ASSUME NEW n \in T PROVE n + 1 \in T
  <2> SUFFICES ASSUME n + 1 <= Bits PROVE Sum(n + 1) \in 0 .. 2 ^ (n + 1) - 1
    BY <1>3
  <2>1. n \in Nat /\ n \in 0 .. Bits - 1 /\ Sum(n) \in 0 .. 2 ^ n - 1
    BY <1>3, BitsAssumption
  <2>2. Sum(n + 1) = Sum(n) + g[n]
    <3>1. SumFunctionOnSet(g, 0 .. n) = SumFunctionOnSet(g, 0 .. n - 1) + g[n]
      BY <1>1, <2>1, BitsAssumption, SumUpto, SMTT(30)
    <3>2. 0 .. n = 0 .. n + 1 - 1
      BY <2>1
    <3>3. SumFunctionOnSet(g, 0 .. n) = SumFunctionOnSet(g, 0 .. n + 1 - 1)
      BY <3>2
    <3> QED BY <3>1, <3>3
  <2>3. 2 ^ (n + 1) = 2 * 2 ^ n /\ 2 ^ n \in Nat
    BY <2>1, PowersAssumption, Powers, BitsAssumption
  <2> HIDE DEF Sum
  <2> QED BY <1>1, <2>1, <2>2, <2>3
<1>4. T = Nat
  <2>1. T \subseteq Nat
    OBVIOUS
  <2> HIDE DEF T
  <2> QED BY <1>2, <1>3, <2>1, NatSets
<1>5. Sum(Bits) \in Word
  <2>1. Bits \in T
    <3> HIDE DEF T
    <3> QED BY <1>4, BitsAssumption
  <2>2. Sum(Bits) \in 0 .. 2 ^ Bits - 1
    BY <2>1
  <2> QED BY <2>2 DEF Word, Modulus
<1>6. SumFunction(g) = Sum(Bits)
  BY DEF SumFunction, g
<1> QED BY <1>5, <1>6 DEF g

\* The bitwise operations give words.
LEMMA BitwiseInWord ==
    ASSUME NEW a \in Word, NEW b \in Word
    PROVE  And(a, b) \in Word /\ Or(a, b) \in Word /\ Xor(a, b) \in Word
<1>1. \A k \in 0 .. Bits - 1 : Bit(a, k) \in {0, 1} /\ Bit(b, k) \in {0, 1}
  BY BitIsBit, BitsAssumption DEF Word
<1>2. And(a, b) \in Word
  <2> DEFINE f == [k \in 0 .. Bits - 1 |-> Bit(a, k) * Bit(b, k)]
  <2>1. f \in [0 .. Bits - 1 -> {0, 1}]
    BY <1>1
  <2>2. And(a, b) = SumFunction([k \in 0 .. Bits - 1 |-> f[k] * 2 ^ k])
    BY DEF And, Digitwise
  <2> HIDE DEF f
  <2> QED BY <2>1, <2>2, SumOfBits
<1>3. Or(a, b) \in Word
  <2> DEFINE f == [k \in 0 .. Bits - 1 |-> Bit(a, k) + Bit(b, k) - Bit(a, k) * Bit(b, k)]
  <2>1. f \in [0 .. Bits - 1 -> {0, 1}]
    BY <1>1
  <2>2. Or(a, b) = SumFunction([k \in 0 .. Bits - 1 |-> f[k] * 2 ^ k])
    BY DEF Or, Digitwise
  <2> HIDE DEF f
  <2> QED BY <2>1, <2>2, SumOfBits
<1>4. Xor(a, b) \in Word
  <2> DEFINE f == [k \in 0 .. Bits - 1 |-> (Bit(a, k) + Bit(b, k)) % 2]
  <2>1. f \in [0 .. Bits - 1 -> {0, 1}]
    BY <1>1
  <2>2. Xor(a, b) = SumFunction([k \in 0 .. Bits - 1 |-> f[k] * 2 ^ k])
    BY DEF Xor, Digitwise
  <2> HIDE DEF f
  <2> QED BY <2>1, <2>2, SumOfBits
<1> QED BY <1>2, <1>3, <1>4

----------------------------------------------------------------------------
(* Arithmetic.                                                             *)

\* execute_alu computes words.
LEMMA AluInWord ==
    ASSUME NEW op \in AluOp, NEW alt \in BOOLEAN, NEW imm \in BOOLEAN,
           NEW a \in Word, NEW b \in Word
    PROVE  Alu(op, alt, imm, a, b) \in Word
<1> DEFINE p == 2 ^ Shift(b)
<1>1. a \in Nat /\ b \in Nat /\ a \in Int /\ b \in Int /\ Modulus \in Nat \ {0}
  BY ModulusEven DEF Word
<1>2. p \in Nat \ {0}
  <2>1. Shift(b) \in 0 .. Bits
    BY <1>1, BitsAssumption, DivMod DEF Shift
  <2> QED BY <2>1, Powers
<1>3. Signed(a) \in Int /\ Signed(b) \in Int
  BY SignedReading, ModulusEven
<1>4. \A t : Truth(t) \in Word
  BY ModulusEven DEF Truth, Word
<1>5. a \div p \in Word
  <2> HIDE DEF p
  <2>1. a \div p \in Int /\ a % p \in 0 .. p - 1 /\ a = p * (a \div p) + (a % p)
    BY <1>1, <1>2, DivMod
  <2> DEFINE q == a \div p
  <2>2. q \in Int /\ p \in Nat \ {0} /\ p * q <= a /\ a < p * q + p
    BY <1>2, <2>1
  <2> HIDE DEF q
  <2>3. q >= 0
    BY <1>1, <2>2
  <2>4. q <= a
    BY <1>1, <2>2, <2>3
  <2> QED BY <1>1, <2>2, <2>3, <2>4 DEF Word, q
<1>6. Wrap(a - b) \in Word /\ Wrap(a + b) \in Word
  BY <1>1, WrapInWord
<1>7. Wrap(a * p) \in Word /\ Wrap(Signed(a) \div p) \in Word
  <2> HIDE DEF p
  <2>1. a * p \in Int /\ Signed(a) \div p \in Int
    BY <1>1, <1>2, <1>3, DivMod
  <2> QED BY <2>1, WrapInWord
<1>8. And(a, b) \in Word /\ Or(a, b) \in Word /\ Xor(a, b) \in Word
  BY BitwiseInWord
<1> HIDE DEF p
<1>9. CASE op \in {"add", "sll", "slt", "sltu"}
  BY <1>4, <1>6, <1>7, <1>9 DEF Alu, p
<1>10. CASE op \in {"xor", "or", "and"}
  BY <1>8, <1>10 DEF Alu
<1>11. CASE op = "sr"
  BY <1>5, <1>7, <1>11 DEF Alu, p
<1> QED BY <1>9, <1>10, <1>11 DEF AluOp

\* C's quotient and remainder of whole numbers.
LEMMA QuotientIsInt ==
    ASSUME NEW i \in Int, NEW j \in Int, j # 0
    PROVE  Quotient(i, j) \in Int /\ Remainder(i, j) \in Int
<1> DEFINE q == Abs(i) \div Abs(j)
<1>1. Abs(i) \in Int /\ Abs(j) \in Nat \ {0} /\ Sign(i) \in Int /\ Sign(j) \in Int
  BY DEF Abs, Sign
<1>2. q \in Int
  BY <1>1, DivMod
<1>3. Quotient(i, j) = Sign(i) * Sign(j) * q
  BY DEF Quotient
<1> HIDE DEF q
<1>4. Quotient(i, j) \in Int
  BY <1>1, <1>2, <1>3
<1> QED BY <1>4 DEF Remainder

\* execute_mul_div computes words.
LEMMA MulDivInWord ==
    ASSUME NEW op \in MulOp, NEW a \in Word, NEW b \in Word
    PROVE  MulDiv(op, a, b) \in Word
<1>1. a \in Nat /\ b \in Nat /\ a \in Int /\ b \in Int /\ Modulus \in Nat \ {0}
      /\ a < Modulus /\ b < Modulus
  BY ModulusEven DEF Word
<1>2. Signed(a) \in Int /\ Signed(b) \in Int
  BY SignedReading, ModulusEven
<1>3. \A i \in Int : Upper(i) \in Word
  BY <1>1, WrapInWord, DivMod DEF Upper
<1>4. CASE op = "mul"
  <2>1. a * b \in Int
    BY <1>1
  <2> QED BY <1>4, <2>1, WrapInWord DEF MulDiv
<1>5. CASE op \in {"mulh", "mulhu"}
  <2>1. a * b \in Int /\ Signed(a) * Signed(b) \in Int
    BY <1>1, <1>2
  <2> QED BY <1>3, <1>5, <2>1 DEF MulDiv
<1>6. CASE op = "mulhsu"
  <2>1. Modulus * Modulus \in Nat \ {0} /\ Signed(a) * b \in Int
    BY <1>1, <1>2
  <2>2. (Signed(a) * b) % (Modulus * Modulus) \in Int
    <3> DEFINE d == Modulus * Modulus
               x == Signed(a) * b
    <3>1. d \in Nat \ {0} /\ x \in Int
      BY <2>1
    <3> HIDE DEF d, x
    <3>2. x % d \in Int
      BY <3>1, DivMod
    <3> QED BY <3>2 DEF d, x
  <2> QED BY <1>3, <1>6, <2>2 DEF MulDiv
<1>7. CASE op \in {"div", "rem", "divu", "remu"} /\ b = 0
  BY <1>1, <1>7 DEF MulDiv, Word
<1>8. CASE op \in {"div", "rem"} /\ b # 0
  <2>1. Signed(b) # 0
    BY <1>1, <1>8, SignedReading
  <2>2. /\ Wrap(Quotient(Signed(a), Signed(b))) \in Word
        /\ Wrap(Remainder(Signed(a), Signed(b))) \in Word
    BY <1>2, <2>1, QuotientIsInt, WrapInWord
  <2> QED BY <1>8, <2>2 DEF MulDiv
<1>9. CASE op \in {"divu", "remu"} /\ b # 0
  <2> DEFINE q == a \div b
             r == a % b
  <2>1. q \in Int /\ r \in 0 .. b - 1 /\ a = b * q + r
    BY <1>1, <1>9, DivMod
  <2>2. MulDiv(op, a, b) \in {q, r}
    BY <1>9 DEF MulDiv
  <2> HIDE DEF q, r
  <2>3. q >= 0
    BY <1>1, <1>9, <2>1
  <2>4. q <= a
    BY <1>1, <1>9, <2>1, <2>3
  <2> QED BY <1>1, <2>1, <2>2, <2>3, <2>4 DEF Word
<1> QED BY <1>4, <1>5, <1>6, <1>7, <1>8, <1>9 DEF MulOp

----------------------------------------------------------------------------
(* Bytes.                                                                  *)

\* The powers of the radix are powers of two.
LEMMA RadixPowers ==
    /\ Radix \in Nat \ {0} /\ Byte = 0 .. Radix - 1
    /\ Radix ^ 0 = 1 /\ Radix ^ 1 = Radix /\ Radix ^ 2 = Radix * Radix
    /\ Radix ^ 3 = Radix * (Radix * Radix) /\ Radix ^ 4 = Radix * (Radix * (Radix * Radix))
    /\ Modulus = Radix * (Radix * (Radix * Radix))
    /\ ByteBits \in Nat \ {0} /\ Bits = 4 * ByteBits
<1> DEFINE B == ByteBits
<1>1. B \in Nat \ {0} /\ Bits = 4 * B /\ Bits \in Nat
  BY BitsAssumption, MemSizeAssumption DEF ByteBits
<1>2. Radix = 2 ^ B /\ Radix \in Nat \ {0}
  BY <1>1, Powers DEF Radix
<1>3. /\ Radix ^ 0 = 1 /\ Radix ^ (0 + 1) = Radix * Radix ^ 0
      /\ Radix ^ (1 + 1) = Radix * Radix ^ 1
      /\ Radix ^ (2 + 1) = Radix * Radix ^ 2 /\ Radix ^ (3 + 1) = Radix * Radix ^ 3
  BY RadixAssumption
<1>4. /\ 0 + 1 = 1 /\ 1 + 1 = 2 /\ 2 + 1 = 3 /\ 3 + 1 = 4
  OBVIOUS
<1>5. /\ Radix ^ 1 = Radix /\ Radix ^ 2 = Radix * Radix
      /\ Radix ^ 3 = Radix * (Radix * Radix) /\ Radix ^ 4 = Radix * (Radix * (Radix * Radix))
  BY <1>2, <1>3, <1>4
<1>6. /\ 2 ^ (B + B) = 2 ^ B * 2 ^ B
      /\ 2 ^ (B + (B + B)) = 2 ^ B * 2 ^ (B + B)
      /\ 2 ^ (B + (B + (B + B))) = 2 ^ B * 2 ^ (B + (B + B))
  <2>1. /\ B \in Nat /\ B + B \in Nat /\ B + (B + B) \in Nat
        /\ B + (B + (B + B)) <= Bits /\ B + (B + B) <= Bits /\ B + B <= Bits
    BY <1>1
  <2> HIDE DEF B
  <2> QED BY <2>1, Powers
<1>7. Modulus = Radix * (Radix * (Radix * Radix))
  <2>1. Bits = B + (B + (B + B))
    BY <1>1
  <2> HIDE DEF B
  <2> QED BY <1>2, <1>6, <2>1 DEF Modulus
<1> QED BY <1>1, <1>2, <1>3, <1>5, <1>7 DEF Byte

\* What the sum over the bytes of an access is.
LEMMA LoadedIs ==
    ASSUME NEW d, NEW n \in Widths, NEW a \in Int, \A i \in 0 .. n - 1 : d[a + i] \in Int
    PROVE  Loaded(d, n, a) =
             CASE n = 1 -> d[a]
               [] n = 2 -> d[a] + Radix * d[a + 1]
               [] n = 4 -> d[a] + Radix * (d[a + 1] + Radix * (d[a + 2] + Radix * d[a + 3]))
<1> DEFINE f == [i \in 0 .. n - 1 |-> d[a + i] * Radix ^ i]
           Sum(k) == SumFunctionOnSet(f, 0 .. k - 1)
<1>1. n \in {1, 2, 4} /\ Radix \in Nat \ {0}
  BY RadixPowers DEF Widths
<1>2. \A i \in 0 .. n - 1 : f[i] = d[a + i] * Radix ^ i /\ f[i] \in Int
  <2> SUFFICES ASSUME NEW i \in 0 .. n - 1 PROVE d[a + i] * Radix ^ i \in Int
    OBVIOUS
  <2>1. i \in {0, 1, 2, 3}
    BY <1>1
  <2>2. Radix ^ i \in Int
    BY <1>1, <2>1, RadixPowers
  <2> QED BY <2>2
<1>3. Loaded(d, n, a) = Sum(n)
  BY DEF Loaded, SumFunction
<1>4. \A i \in 0 .. n - 1 : f[i] = d[a + i] * Radix ^ i /\ d[a + i] \in Int
  OBVIOUS
<1> HIDE DEF f
<1>5. \A k \in 0 .. n - 1 : Sum(k + 1) = Sum(k) + f[k]
  <2> SUFFICES ASSUME NEW k \in 0 .. n - 1 PROVE Sum(k + 1) = Sum(k) + f[k]
    OBVIOUS
  <2>1. SumFunctionOnSet(f, 0 .. k) = SumFunctionOnSet(f, 0 .. k - 1) + f[k]
    BY <1>1, <1>2, SumUpto
  <2>2. 0 .. k = 0 .. k + 1 - 1
    BY <1>1
  <2>3. SumFunctionOnSet(f, 0 .. k) = SumFunctionOnSet(f, 0 .. k + 1 - 1)
    BY <2>2
  <2> QED BY <2>1, <2>3
<1>6. Sum(0) = 0
  <2>1. 0 .. 0 - 1 = {}
    OBVIOUS
  <2>2. SumFunctionOnSet(f, 0 .. 0 - 1) = SumFunctionOnSet(f, {})
    BY <2>1, Zenon
  <2> QED BY <2>2, SumOfNone
<1> HIDE DEF Sum
<1>7. \A i \in 0 .. n - 1 : \A j : j = i + 1 => Sum(j) = Sum(i) + f[i]
  BY <1>5
<1>8. f[0] = d[a] /\ d[a] \in Int /\ Sum(1) = f[0]
  <2>1. f[0] = d[a + 0] * Radix ^ 0 /\ d[a + 0] \in Int /\ Sum(1) = Sum(0) + f[0]
    BY <1>1, <1>4, <1>7
  <2>2. a + 0 = a
    OBVIOUS
  <2> QED BY <1>6, <2>1, <2>2, RadixPowers
<1>9. ASSUME n # 1 PROVE f[1] = d[a + 1] * Radix /\ d[a + 1] \in Int /\ Sum(2) = Sum(1) + f[1]
  <2>1. f[1] = d[a + 1] * Radix ^ 1 /\ d[a + 1] \in Int /\ Sum(2) = Sum(1) + f[1]
    BY <1>1, <1>4, <1>7, <1>9
  <2> QED BY <2>1, RadixPowers
<1>10. ASSUME n = 4 PROVE /\ f[2] = d[a + 2] * (Radix * Radix) /\ d[a + 2] \in Int
                         /\ Sum(3) = Sum(2) + f[2]
  <2>1. f[2] = d[a + 2] * Radix ^ 2 /\ d[a + 2] \in Int /\ Sum(3) = Sum(2) + f[2]
    BY <1>1, <1>4, <1>7, <1>10
  <2> QED BY <2>1, RadixPowers
<1>11. ASSUME n = 4 PROVE /\ f[3] = d[a + 3] * (Radix * (Radix * Radix)) /\ d[a + 3] \in Int
                         /\ Sum(4) = Sum(3) + f[3]
  <2>1. f[3] = d[a + 3] * Radix ^ 3 /\ d[a + 3] \in Int /\ Sum(4) = Sum(3) + f[3]
    BY <1>1, <1>4, <1>7, <1>11
  <2> QED BY <2>1, RadixPowers
<1>12. CASE n = 1
  BY <1>3, <1>8, <1>12
<1>13. CASE n = 2
  <2>1. Loaded(d, n, a) = d[a] + Radix * d[a + 1]
    BY <1>1, <1>3, <1>8, <1>9, <1>13
  <2> QED BY <1>13, <2>1
<1>14. CASE n = 4
  <2>1. Loaded(d, n, a) = d[a] + d[a + 1] * Radix + d[a + 2] * (Radix * Radix)
                            + d[a + 3] * (Radix * (Radix * Radix))
    BY <1>1, <1>3, <1>8, <1>9, <1>10, <1>11, <1>14
  <2>2. @ = d[a] + Radix * (d[a + 1] + Radix * (d[a + 2] + Radix * d[a + 3]))
    BY <1>1, <1>8, <1>9, <1>10, <1>11, <1>14
  <2> QED BY <1>14, <2>1, <2>2
<1> QED BY <1>1, <1>12, <1>13, <1>14

\* A number of one, two or four digits.
LEMMA DigitsInRange ==
    ASSUME NEW r \in Nat \ {0}, NEW b0 \in 0 .. r - 1
    PROVE  /\ b0 \in 0 .. r * (r * (r * r)) - 1
           /\ \A b1 \in 0 .. r - 1 :
                /\ b0 + r * b1 \in 0 .. (r * r) - 1
                /\ b0 + r * b1 \in 0 .. r * (r * (r * r)) - 1
                /\ \A b2, b3 \in 0 .. r - 1 :
                     b0 + r * (b1 + r * (b2 + r * b3)) \in 0 .. r * (r * (r * r)) - 1
<1> DEFINE r2 == r * r
           r3 == r * r2
           r4 == r * r3
<1>1. \A c \in 0 .. r - 1 : \A m \in Nat \ {0} : \A y \in 0 .. m - 1 :
        r * m \in Nat \ {0} /\ c + r * y \in 0 .. (r * m) - 1
  BY DigitBefore
<1>2. r2 \in Nat \ {0} /\ r3 \in Nat \ {0} /\ r4 \in Nat \ {0}
  OBVIOUS
<1>3. r <= r2 /\ r2 <= r3 /\ r3 <= r4
  <2>1. \A m \in Nat \ {0} : m <= r * m
    OBVIOUS
  <2> HIDE DEF r2, r3
  <2>2. r2 <= r * r2 /\ r3 <= r * r3
    BY <1>2, <2>1
  <2>3. r <= r * r
    BY <2>1
  <2> QED BY <2>2, <2>3 DEF r2, r3
<1>4. b0 \in 0 .. r4 - 1
  <2> HIDE DEF r2, r3, r4
  <2> QED BY <1>2, <1>3
<1>5. ASSUME NEW b1 \in 0 .. r - 1
      PROVE  b0 + r * b1 \in 0 .. r2 - 1 /\ b0 + r * b1 \in 0 .. r4 - 1
  <2>1. b0 + r * b1 \in 0 .. r2 - 1
    BY <1>1
  <2> HIDE DEF r2, r3, r4
  <2> QED BY <1>2, <1>3, <2>1
<1>6. ASSUME NEW b1 \in 0 .. r - 1, NEW b2 \in 0 .. r - 1, NEW b3 \in 0 .. r - 1
      PROVE  b0 + r * (b1 + r * (b2 + r * b3)) \in 0 .. r4 - 1
  <2>1. b2 + r * b3 \in 0 .. r2 - 1
    BY <1>1
  <2> DEFINE y == b2 + r * b3
             z == b1 + r * y
  <2> HIDE DEF r2, r3, r4, y
  <2>2. z \in 0 .. (r * r2) - 1
    BY <1>1, <1>2, <2>1 DEF y
  <2>3. z \in 0 .. r3 - 1
    BY <2>2 DEF r3
  <2> HIDE DEF z
  <2>4. b0 + r * z \in 0 .. (r * r3) - 1
    BY <1>1, <1>2, <2>3
  <2> QED BY <2>4 DEF r4, y, z
<1> QED BY <1>4, <1>5, <1>6

\* What is loaded is a number of the width asked for.
LEMMA LoadedInRange ==
    ASSUME NEW d, NEW n \in Widths, NEW a \in Int, \A i \in 0 .. n - 1 : d[a + i] \in Byte
    PROVE  Loaded(d, n, a) \in 0 .. (Radix ^ n) - 1 /\ Loaded(d, n, a) \in Word
<1> DEFINE R == Radix
           v == Loaded(d, n, a)
           M == R * (R * (R * R))
<1>1. /\ n \in {1, 2, 4} /\ R \in Nat \ {0} /\ Byte = 0 .. R - 1
      /\ Radix ^ 1 = R /\ Radix ^ 2 = R * R /\ Radix ^ 4 = M /\ Modulus = M
  BY RadixPowers DEF Widths
<1>2. v = CASE n = 1 -> d[a]
            [] n = 2 -> d[a] + R * d[a + 1]
            [] n = 4 -> d[a] + R * (d[a + 1] + R * (d[a + 2] + R * d[a + 3]))
  <2>1. \A i \in 0 .. n - 1 : d[a + i] \in Int
    BY <1>1
  <2> QED BY <2>1, LoadedIs
<1>3. d[a] \in 0 .. R - 1
  <2>1. 0 \in 0 .. n - 1 /\ a + 0 = a
    BY <1>1
  <2>2. d[a + 0] \in Byte
    BY <2>1
  <2> QED BY <1>1, <2>1, <2>2
<1> SUFFICES v \in 0 .. (Radix ^ n) - 1 /\ v \in 0 .. M - 1
  BY <1>1 DEF Word
<1> HIDE DEF R, v
<1>4. CASE n = 1
  <2>1. v = d[a]
    BY <1>2, <1>4
  <2>2. v \in 0 .. R - 1 /\ v \in 0 .. M - 1
    BY <1>1, <1>3, <2>1, DigitsInRange
  <2> QED BY <1>1, <1>4, <2>2
<1>5. CASE n = 2
  <2>1. v = d[a] + R * d[a + 1]
    BY <1>2, <1>5
  <2>2. d[a + 1] \in 0 .. R - 1
    BY <1>1, <1>5
  <2>3. v \in 0 .. (R * R) - 1 /\ v \in 0 .. M - 1
    BY <1>1, <1>3, <2>1, <2>2, DigitsInRange
  <2> QED BY <1>1, <1>5, <2>3
<1>6. CASE n = 4
  <2>1. v = d[a] + R * (d[a + 1] + R * (d[a + 2] + R * d[a + 3]))
    BY <1>2, <1>6
  <2>2. d[a + 1] \in 0 .. R - 1 /\ d[a + 2] \in 0 .. R - 1 /\ d[a + 3] \in 0 .. R - 1
    BY <1>1, <1>6
  <2> DEFINE x == d[a]
             y == d[a + 1]
             z == d[a + 2]
             u == d[a + 3]
  <2>3. x \in 0 .. R - 1 /\ y \in 0 .. R - 1 /\ z \in 0 .. R - 1 /\ u \in 0 .. R - 1
    BY <1>3, <2>2
  <2>4. v = x + R * (y + R * (z + R * u))
    BY <2>1
  <2> HIDE DEF x, y, z, u
  <2>5. \A b1 \in 0 .. R - 1 : \A b2, b3 \in 0 .. R - 1 :
          x + R * (b1 + R * (b2 + R * b3)) \in 0 .. M - 1
    BY <1>1, <2>3, DigitsInRange
  <2>6. v \in 0 .. M - 1
    <3> HIDE DEF M
    <3> QED BY <2>3, <2>4, <2>5
  <2> QED BY <1>1, <1>6, <2>6
<1> QED BY <1>1, <1>4, <1>5, <1>6

\* What is stored is bytes.
LEMMA StoredInRange ==
    ASSUME NEW d \in Memories, NEW n \in Widths, NEW a \in Int, NEW v \in Int
    PROVE  Stored(d, n, a, v) \in Memories
<1>1. Radix \in Nat \ {0} /\ Byte = 0 .. Radix - 1 /\ n \in {1, 2, 4}
  BY RadixPowers DEF Widths
<1>2. ASSUME NEW b \in DOMAIN d, b \in Touched(n, a)
      PROVE  (v \div Radix ^ (b - a)) % Radix \in Byte
  <2>1. b \in Int /\ b - a \in {0, 1, 2, 3}
    BY <1>1, <1>2 DEF Touched, Memories
  <2>2. Radix ^ (b - a) \in Nat \ {0}
    BY <1>1, <2>1, RadixPowers
  <2>3. v \div Radix ^ (b - a) \in Int
    BY <2>2, DivMod
  <2> QED BY <1>1, <2>3, DivMod
<1> QED BY <1>2 DEF Stored, Memories

----------------------------------------------------------------------------
(* Words as digits: the byte array read four bytes at a time.              *)

\* The word of an array d that starts at its element 4w.
WordAt(d, w) ==
    d[4 * w] + Radix * (d[4 * w + 1] + Radix * (d[4 * w + 2] + Radix * d[4 * w + 3]))

\* The bytes of word w are there and are bytes.
FourBytes(d, w) ==
    /\ d[4 * w] \in Byte /\ d[4 * w + 1] \in Byte
    /\ d[4 * w + 2] \in Byte /\ d[4 * w + 3] \in Byte

\* The addresses of aligned accesses, as a word and a place in it.
LEMMA AlignedPlaces ==
    ASSUME NEW n \in Widths, NEW a \in Nat, a % n = 0
    PROVE  /\ a \div 4 \in Nat /\ a % 4 \in {0, 1, 2, 3} /\ a = 4 * (a \div 4) + (a % 4)
           /\ n = 2 => a % 4 \in {0, 2}
           /\ n = 4 => a % 4 = 0
<1>1. n \in {1, 2, 4}
  BY DEF Widths
<1>2. a \div 4 \in Nat /\ a % 4 \in {0, 1, 2, 3} /\ a = 4 * (a \div 4) + (a % 4)
  OBVIOUS
<1>3. CASE n = 1
  BY <1>2, <1>3
<1>4. CASE n = 2
  BY <1>2, <1>4
<1>5. CASE n = 4
  BY <1>2, <1>5
<1> QED BY <1>1, <1>3, <1>4, <1>5

\* An aligned access finds the digits of its word.
LEMMA LoadedDigits ==
    ASSUME NEW d, NEW n \in Widths, NEW a \in Nat, a % n = 0, FourBytes(d, a \div 4)
    PROVE  /\ Loaded(d, n, a) = (WordAt(d, a \div 4) \div (Radix ^ (a % 4))) % (Radix ^ n)
           /\ \A i \in 0 .. n - 1 : d[a + i] \in Byte
<1> DEFINE w == a \div 4
           k == a % 4
           b0 == d[4 * w]
           b1 == d[4 * w + 1]
           b2 == d[4 * w + 2]
           b3 == d[4 * w + 3]
           R == Radix
           y2 == b2 + R * b3
           y1 == b1 + R * y2
           y0 == b0 + R * y1
<1>1. /\ n \in {1, 2, 4} /\ R \in Nat \ {0} /\ Byte = 0 .. R - 1
      /\ Radix ^ 0 = 1 /\ Radix ^ 1 = R /\ Radix ^ 2 = R * R
      /\ Radix ^ 3 = R * (R * R) /\ Radix ^ 4 = R * (R * (R * R))
  BY RadixPowers DEF Widths
<1>2. b0 \in 0 .. R - 1 /\ b1 \in 0 .. R - 1 /\ b2 \in 0 .. R - 1 /\ b3 \in 0 .. R - 1
  BY <1>1 DEF FourBytes
<1>3. /\ w \in Nat /\ k \in {0, 1, 2, 3} /\ a = 4 * w + k
      /\ n = 2 => k \in {0, 2}
      /\ n = 4 => k = 0
  BY AlignedPlaces
<1>4. WordAt(d, w) = y0
  BY DEF WordAt
<1> HIDE DEF w, k
<1>5. /\ k = 0 => a = 4 * w
      /\ k = 1 => a = 4 * w + 1
      /\ k = 2 => a = 4 * w + 2 /\ a + 1 = 4 * w + 3
      /\ k = 3 => a = 4 * w + 3
  BY <1>3
<1>6. d[a] = CASE k = 0 -> b0 [] k = 1 -> b1 [] k = 2 -> b2 [] k = 3 -> b3
  BY <1>3, <1>5
<1>7. k = 0 => d[a + 1] = b1 /\ d[a + 2] = b2 /\ d[a + 3] = b3
  BY <1>5
<1>8. k = 2 => d[a + 1] = b3
  BY <1>5
<1> HIDE DEF b0, b1, b2, b3, R
<1>9. ASSUME NEW i \in 0 .. n - 1 PROVE d[a + i] \in Byte
  <2>1. i = 0 \/ (i = 1 /\ n # 1) \/ (i = 2 /\ n = 4) \/ (i = 3 /\ n = 4)
    BY <1>1
  <2>2. a + 0 = a
    BY <1>3
  <2> QED BY <1>1, <1>2, <1>3, <1>6, <1>7, <1>8, <2>1, <2>2, ZenonT(40)
<1>10. Loaded(d, n, a) =
             CASE n = 1 -> d[a]
               [] n = 2 -> d[a] + R * d[a + 1]
               [] n = 4 -> d[a] + R * (d[a + 1] + R * (d[a + 2] + R * d[a + 3]))
  <2>1. \A i \in 0 .. n - 1 : d[a + i] \in Int
    BY <1>1, <1>9
  <2>2. a \in Int
    BY <1>3
  <2> QED BY <2>1, <2>2, LoadedIs DEF R
<1>11. /\ y0 \div 1 = y0 /\ y0 \div R = y1
       /\ y0 \div (R * R) = y2 /\ y0 \div (R * (R * R)) = b3
       /\ y0 % R = b0 /\ y1 % R = b1 /\ y2 % R = b2 /\ b3 % R = b3
       /\ y0 % (R * R) = b0 + R * b1 /\ y2 % (R * R) = y2
       /\ y0 % (R * (R * (R * R))) = y0
  <2>1. FourDigits(R, b0, b1, b2, b3, y0, y1, y2)
    BY <1>1, <1>2 DEF FourDigits
  <2> HIDE DEF y0, y1, y2
  <2> QED BY <2>1, DigitsTaken
<1> SUFFICES Loaded(d, n, a) = (y0 \div (Radix ^ k)) % (Radix ^ n)
  BY <1>4, <1>9 DEF w, k
<1>12. CASE n = 1
  <2>1. Loaded(d, n, a) = d[a] /\ Radix ^ n = R
    BY <1>1, <1>10, <1>12
  <2>2. CASE k = 0
    BY <1>1, <1>6, <1>11, <2>1, <2>2
  <2>3. CASE k = 1
    BY <1>1, <1>6, <1>11, <2>1, <2>3
  <2>4. CASE k = 2
    BY <1>1, <1>6, <1>11, <2>1, <2>4
  <2>5. CASE k = 3
    BY <1>1, <1>6, <1>11, <2>1, <2>5
  <2> QED BY <1>3, <2>2, <2>3, <2>4, <2>5
<1>13. CASE n = 2
  <2>1. Loaded(d, n, a) = d[a] + R * d[a + 1] /\ Radix ^ n = R * R
    BY <1>1, <1>10, <1>13
  <2>2. CASE k = 0
    BY <1>1, <1>6, <1>7, <1>11, <2>1, <2>2
  <2>3. CASE k = 2
    BY <1>1, <1>6, <1>8, <1>11, <2>1, <2>3
  <2> QED BY <1>3, <1>13, <2>2, <2>3
<1>14. CASE n = 4
  <2>1. Loaded(d, n, a) = d[a] + R * (d[a + 1] + R * (d[a + 2] + R * d[a + 3]))
        /\ Radix ^ n = R * (R * (R * R)) /\ k = 0
    BY <1>1, <1>3, <1>10, <1>14
  <2>2. Loaded(d, n, a) = y0
    BY <1>6, <1>7, <2>1
  <2> QED BY <1>1, <1>11, <2>1, <2>2
<1> QED BY <1>1, <1>12, <1>13, <1>14

\* A store replaces digits of one word by the lowest ones of the value.
LEMMA StoredDigits ==
    ASSUME NEW d, NEW n \in Widths, NEW a \in Nat, a % n = 0, NEW v \in Int, NEW w \in Nat,
           4 * w .. 4 * w + 3 \subseteq DOMAIN d, FourBytes(d, w)
    PROVE  WordAt(Stored(d, n, a, v), w) =
             IF w = a \div 4
             THEN WordAt(d, w) + ((v % (Radix ^ n)) - Loaded(d, n, a)) * Radix ^ (a % 4)
             ELSE WordAt(d, w)
<1> DEFINE s == Stored(d, n, a, v)
           R == Radix
           k == a % 4
           W == a \div 4
           c0 == (v \div (Radix ^ 0)) % R
           c1 == (v \div (Radix ^ 1)) % R
           c2 == (v \div (Radix ^ 2)) % R
           c3 == (v \div (Radix ^ 3)) % R
           b0 == d[4 * w]
           b1 == d[4 * w + 1]
           b2 == d[4 * w + 2]
           b3 == d[4 * w + 3]
<1>1. /\ n \in {1, 2, 4} /\ R \in Nat \ {0} /\ Byte = 0 .. R - 1
      /\ Radix ^ 0 = 1 /\ Radix ^ 1 = R /\ Radix ^ 2 = R * R
      /\ Radix ^ 3 = R * (R * R) /\ Radix ^ 4 = R * (R * (R * R))
  BY RadixPowers DEF Widths
<1>2. b0 \in 0 .. R - 1 /\ b1 \in 0 .. R - 1 /\ b2 \in 0 .. R - 1 /\ b3 \in 0 .. R - 1
  BY <1>1 DEF FourBytes
<1>3. /\ W \in Nat /\ k \in {0, 1, 2, 3} /\ a = 4 * W + k
      /\ n = 2 => k \in {0, 2}
      /\ n = 4 => k = 0
  BY AlignedPlaces
<1>4. LowestAre(R, v, c0, c1, c2, c3)
  BY <1>1, LowestDigits
<1>5. WordAt(d, w) = b0 + R * (b1 + R * (b2 + R * b3))
  BY DEF WordAt
<1>6. WordAt(s, w) = s[4 * w] + R * (s[4 * w + 1] + R * (s[4 * w + 2] + R * s[4 * w + 3]))
  BY DEF WordAt
<1>7. \A b \in 4 * w .. 4 * w + 3 :
         s[b] = IF b \in a .. a + n - 1 THEN (v \div (Radix ^ (b - a))) % R ELSE d[b]
  BY DEF Stored, Touched
<1> HIDE DEF s, W, k
<1>8. /\ 4 * w \in 4 * w .. 4 * w + 3 /\ 4 * w + 1 \in 4 * w .. 4 * w + 3
      /\ 4 * w + 2 \in 4 * w .. 4 * w + 3 /\ 4 * w + 3 \in 4 * w .. 4 * w + 3
  OBVIOUS
<1>9. CASE w # W
  <2>1. \A b \in 4 * w .. 4 * w + 3 : b \notin a .. a + n - 1
    BY <1>1, <1>3, <1>9
  <2>2. \A b \in 4 * w .. 4 * w + 3 : s[b] = d[b]
    BY <1>7, <2>1
  <2> QED BY <1>5, <1>6, <1>8, <1>9, <2>2 DEF W, s
<1>10. CASE w = W
  <2>1. a = 4 * w + k /\ FourBytes(d, a \div 4)
    BY <1>3, <1>10 DEF W
  <2>2. \A i \in 0 .. n - 1 : d[a + i] \in Int
    <3>1. \A i \in 0 .. n - 1 : d[a + i] \in Byte
      BY <2>1, LoadedDigits, Zenon
    <3> QED BY <1>1, <3>1
  <2>3. Loaded(d, n, a) =
             CASE n = 1 -> d[a]
               [] n = 2 -> d[a] + R * d[a + 1]
               [] n = 4 -> d[a] + R * (d[a + 1] + R * (d[a + 2] + R * d[a + 3]))
    <3>1. a \in Int
      OBVIOUS
    <3> QED BY <2>2, <3>1, LoadedIs
  <2>4. /\ c0 \in Int /\ c1 \in Int /\ c2 \in Int /\ c3 \in Int /\ v % R = c0
        /\ v % (R * R) = c0 + R * c1
        /\ v % (R * (R * (R * R))) = c0 + R * (c1 + R * (c2 + R * c3))
    BY <1>1, <1>4 DEF LowestAre
  <2>5. SUFFICES WordAt(s, w) = WordAt(d, w) + ((v % (Radix ^ n)) - Loaded(d, n, a)) * Radix ^ k
    BY <1>10 DEF W, k, s
  <2>6. \A j \in {0, 1, 2, 3} :
          LET b == 4 * w + j IN
          s[b] = IF k <= j /\ j < k + n THEN (v \div (Radix ^ (j - k))) % R ELSE d[b]
    <3> SUFFICES ASSUME NEW j \in {0, 1, 2, 3}
                 PROVE  s[4 * w + j] = IF k <= j /\ j < k + n
                                       THEN (v \div (Radix ^ (j - k))) % R ELSE d[4 * w + j]
      OBVIOUS
    <3>1. 4 * w + j \in 4 * w .. 4 * w + 3 /\ (4 * w + j) - a = j - k
      BY <1>3, <2>1
    <3>2. 4 * w + j \in a .. a + n - 1 <=> k <= j /\ j < k + n
      BY <1>1, <1>3, <2>1
    <3> QED BY <1>7, <3>1, <3>2
  <2>7. /\ s[4 * w] = IF k <= 0 THEN c0 ELSE b0
        /\ s[4 * w + 1] = IF k <= 1 /\ 1 < k + n THEN (v \div (Radix ^ (1 - k))) % R ELSE b1
        /\ s[4 * w + 2] = IF k <= 2 /\ 2 < k + n THEN (v \div (Radix ^ (2 - k))) % R ELSE b2
        /\ s[4 * w + 3] = IF k <= 3 /\ 3 < k + n THEN (v \div (Radix ^ (3 - k))) % R ELSE b3
    <3>1. s[4 * w + 0] = IF k <= 0 /\ 0 < k + n THEN (v \div (Radix ^ (0 - k))) % R ELSE d[4 * w + 0]
      BY <2>6
    <3>2. 4 * w + 0 = 4 * w /\ (k <= 0 => 0 - k = 0 /\ 0 < k + n)
      BY <1>1, <1>3
    <3>3. s[4 * w] = IF k <= 0 THEN c0 ELSE b0
      BY <3>1, <3>2
    <3> QED BY <2>6, <3>3
  <2>8. /\ k = 0 => d[a] = b0 /\ d[a + 1] = b1 /\ d[a + 2] = b2 /\ d[a + 3] = b3
        /\ k = 1 => d[a] = b1
        /\ k = 2 => d[a] = b2 /\ d[a + 1] = b3
        /\ k = 3 => d[a] = b3
    <3>1. /\ k = 0 => a = 4 * w
          /\ k = 1 => a = 4 * w + 1
          /\ k = 2 => a = 4 * w + 2 /\ a + 1 = 4 * w + 3
          /\ k = 3 => a = 4 * w + 3
      BY <1>3, <2>1
    <3> QED BY <3>1
  <2> HIDE DEF R, c0, c1, c2, c3, b0, b1, b2, b3
  <2>9. CASE n = 1
    <3>1. CASE k = 0
      <4>1. s[4 * w] = c0 /\ s[4 * w + 1] = b1 /\ s[4 * w + 2] = b2 /\ s[4 * w + 3] = b3
        BY <2>7, <2>9, <3>1 DEF c0, c1, c2, c3
      <4>2. Loaded(d, n, a) = b0
        BY <2>3, <2>8, <2>9, <3>1
      <4>3. Radix ^ n = R /\ Radix ^ k = 1
        BY <1>1, <2>9, <3>1
      <4>4. v % (Radix ^ n) = c0
        BY <2>4, <4>3
      <4>5. c0 + R * (b1 + R * (b2 + R * b3))
            = b0 + R * (b1 + R * (b2 + R * b3)) + (c0 - b0) * 1
        BY <1>1, <1>2, <2>4
      <4> QED BY <1>5, <1>6, <4>1, <4>2, <4>3, <4>4, <4>5
    <3>2. CASE k = 1
      <4>1. s[4 * w] = b0 /\ s[4 * w + 1] = c0 /\ s[4 * w + 2] = b2 /\ s[4 * w + 3] = b3
        BY <2>7, <2>9, <3>2 DEF c0, c1, c2, c3
      <4>2. Loaded(d, n, a) = b1
        BY <2>3, <2>8, <2>9, <3>2
      <4>3. Radix ^ n = R /\ Radix ^ k = R
        BY <1>1, <2>9, <3>2
      <4>4. v % (Radix ^ n) = c0
        BY <2>4, <4>3
      <4>5. b0 + R * (c0 + R * (b2 + R * b3))
            = b0 + R * (b1 + R * (b2 + R * b3)) + (c0 - b1) * R
        BY <1>1, <1>2, <2>4
      <4> QED BY <1>5, <1>6, <4>1, <4>2, <4>3, <4>4, <4>5
    <3>3. CASE k = 2
      <4>1. s[4 * w] = b0 /\ s[4 * w + 1] = b1 /\ s[4 * w + 2] = c0 /\ s[4 * w + 3] = b3
        BY <2>7, <2>9, <3>3 DEF c0, c1, c2, c3
      <4>2. Loaded(d, n, a) = b2
        BY <2>3, <2>8, <2>9, <3>3
      <4>3. Radix ^ n = R /\ Radix ^ k = (R * R)
        BY <1>1, <2>9, <3>3
      <4>4. v % (Radix ^ n) = c0
        BY <2>4, <4>3
      <4>5. b0 + R * (b1 + R * (c0 + R * b3))
            = b0 + R * (b1 + R * (b2 + R * b3)) + (c0 - b2) * (R * R)
        BY <1>1, <1>2, <2>4
      <4> QED BY <1>5, <1>6, <4>1, <4>2, <4>3, <4>4, <4>5
    <3>4. CASE k = 3
      <4>1. s[4 * w] = b0 /\ s[4 * w + 1] = b1 /\ s[4 * w + 2] = b2 /\ s[4 * w + 3] = c0
        BY <2>7, <2>9, <3>4 DEF c0, c1, c2, c3
      <4>2. Loaded(d, n, a) = b3
        BY <2>3, <2>8, <2>9, <3>4
      <4>3. Radix ^ n = R /\ Radix ^ k = (R * (R * R))
        BY <1>1, <2>9, <3>4
      <4>4. v % (Radix ^ n) = c0
        BY <2>4, <4>3
      <4>5. b0 + R * (b1 + R * (b2 + R * c0))
            = b0 + R * (b1 + R * (b2 + R * b3)) + (c0 - b3) * (R * (R * R))
        BY <1>1, <1>2, <2>4
      <4> QED BY <1>5, <1>6, <4>1, <4>2, <4>3, <4>4, <4>5
    <3> QED BY <1>3, <2>9, <3>1, <3>2, <3>3, <3>4
  <2>10. CASE n = 2
    <3>1. CASE k = 0
      <4>1. s[4 * w] = c0 /\ s[4 * w + 1] = c1 /\ s[4 * w + 2] = b2 /\ s[4 * w + 3] = b3
        BY <2>7, <2>10, <3>1 DEF c0, c1, c2, c3
      <4>2. Loaded(d, n, a) = b0 + R * b1
        BY <2>3, <2>8, <2>10, <3>1
      <4>3. Radix ^ n = R * R /\ Radix ^ k = 1
        BY <1>1, <2>10, <3>1
      <4>4. v % (Radix ^ n) = c0 + R * c1
        BY <2>4, <4>3
      <4>5. c0 + R * (c1 + R * (b2 + R * b3))
            = b0 + R * (b1 + R * (b2 + R * b3)) + ((c0 + R * c1) - (b0 + R * b1)) * 1
        BY <1>1, <1>2, <2>4
      <4> QED BY <1>5, <1>6, <4>1, <4>2, <4>3, <4>4, <4>5
    <3>2. CASE k = 2
      <4>1. s[4 * w] = b0 /\ s[4 * w + 1] = b1 /\ s[4 * w + 2] = c0 /\ s[4 * w + 3] = c1
        BY <2>7, <2>10, <3>2 DEF c0, c1, c2, c3
      <4>2. Loaded(d, n, a) = b2 + R * b3
        BY <2>3, <2>8, <2>10, <3>2
      <4>3. Radix ^ n = R * R /\ Radix ^ k = (R * R)
        BY <1>1, <2>10, <3>2
      <4>4. v % (Radix ^ n) = c0 + R * c1
        BY <2>4, <4>3
      <4>5. b0 + R * (b1 + R * (c0 + R * c1))
            = b0 + R * (b1 + R * (b2 + R * b3)) + ((c0 + R * c1) - (b2 + R * b3)) * (R * R)
        BY <1>1, <1>2, <2>4
      <4> QED BY <1>5, <1>6, <4>1, <4>2, <4>3, <4>4, <4>5
    <3> QED BY <1>3, <2>10, <3>1, <3>2
  <2>11. CASE n = 4
    <3>1. CASE k = 0
      <4>1. s[4 * w] = c0 /\ s[4 * w + 1] = c1 /\ s[4 * w + 2] = c2 /\ s[4 * w + 3] = c3
        BY <2>7, <2>11, <3>1 DEF c0, c1, c2, c3
      <4>2. Loaded(d, n, a) = b0 + R * (b1 + R * (b2 + R * b3))
        BY <2>3, <2>8, <2>11, <3>1
      <4>3. Radix ^ n = R * (R * (R * R)) /\ Radix ^ k = 1
        BY <1>1, <2>11, <3>1
      <4>4. v % (Radix ^ n) = c0 + R * (c1 + R * (c2 + R * c3))
        BY <2>4, <4>3
      <4>5. c0 + R * (c1 + R * (c2 + R * c3))
            = b0 + R * (b1 + R * (b2 + R * b3)) + ((c0 + R * (c1 + R * (c2 + R * c3))) - (b0 + R * (b1 + R * (b2 + R * b3)))) * 1
        BY <1>1, <1>2, <2>4
      <4> QED BY <1>5, <1>6, <4>1, <4>2, <4>3, <4>4, <4>5
    <3> QED BY <1>3, <2>11, <3>1
  <2> QED BY <1>1, <2>9, <2>10, <2>11
<1> QED BY <1>9, <1>10

----------------------------------------------------------------------------
(* The whole memory.                                                       *)

\* The difference in the checks does not wrap: they let through the accesses
\* that mean something and no others.
LEMMA ChecksAreBounds ==
    ASSUME MemSize >= 4, NEW n \in Widths, NEW a \in Nat
    PROVE  Check(n, a) = "ok" <=> a % n = 0 /\ a + n <= MemSize
<1>1. n \in {1, 2, 4} /\ MemSize \in Nat /\ Modulus \in Nat /\ MemSize < Modulus
  BY MemSizeAssumption, ModulusEven DEF Widths, Word
<1>2. MemSize - n \in Word
  BY <1>1 DEF Word
<1>3. Wrap(MemSize - n) = MemSize - n
  BY <1>2, WrapOfWord
<1>4. Check(n, a) = "ok" <=> a % n = 0 /\ ~(a > MemSize - n)
  BY <1>3 DEF Check
<1> QED BY <1>1, <1>4

\* A call that passes the checks uses elements of the array only.
LEMMA CheckSuffices ==
    ASSUME MemSize >= 4, NEW n \in Widths, NEW a \in Nat,
           Check(n, a) = "ok"
    PROVE  Touched(n, a) \subseteq 0 .. MemSize - 1
<1>1. n \in {1, 2, 4} /\ a + n <= MemSize /\ MemSize \in Nat
  BY ChecksAreBounds, MemSizeAssumption DEF Widths, Word
<1> QED BY <1>1 DEF Touched

Laid == INSTANCE WordMemory

\* The words of the memory, and that all of their bytes are there.
LEMMA WordsOfBytes ==
    ASSUME MemSize % 4 = 0, NEW d \in Memories
    PROVE  /\ Laid!WordsOf(d) = [w \in 0 .. MemSize \div 4 - 1 |-> WordAt(d, w)]
           /\ \A w \in 0 .. MemSize \div 4 - 1 :
                w \in Nat /\ 4 * w .. 4 * w + 3 \subseteq DOMAIN d /\ FourBytes(d, w)
<1>1. Laid!WordsOf(d) = [w \in 0 .. MemSize \div 4 - 1 |-> WordAt(d, w)]
  BY DEF Laid!WordsOf, Laid!Base, WordAt, Radix, ByteBits
<1>2. ASSUME NEW w \in 0 .. MemSize \div 4 - 1
      PROVE  w \in Nat /\ 4 * w .. 4 * w + 3 \subseteq DOMAIN d /\ FourBytes(d, w)
  <2>1. MemSize \in Nat
    BY MemSizeAssumption DEF Word
  <2>2. w \in Nat /\ 4 * w + 3 <= MemSize - 1
    BY <2>1
  <2>3. 4 * w .. 4 * w + 3 \subseteq 0 .. MemSize - 1
    BY <2>1, <2>2
  <2>4. /\ 4 * w \in 0 .. MemSize - 1 /\ 4 * w + 1 \in 0 .. MemSize - 1
        /\ 4 * w + 2 \in 0 .. MemSize - 1 /\ 4 * w + 3 \in 0 .. MemSize - 1
    BY <2>1, <2>2
  <2> QED BY <2>2, <2>3, <2>4 DEF FourBytes, Memories
<1> QED BY <1>1, <1>2

\* An access that means something lies in one word, and reads its digits.
LEMMA DigitsOfBytes ==
    ASSUME MemSize % 4 = 0, NEW d \in Memories, NEW n \in Widths, NEW a \in Nat,
           a % n = 0, a + n <= MemSize
    PROVE  /\ a \div 4 \in 0 .. MemSize \div 4 - 1
           /\ Laid!Digits(Laid!WordsOf(d), n, a) = Loaded(d, n, a)
<1> DEFINE w == a \div 4
<1>1. /\ n \in {1, 2, 4} /\ MemSize \in Nat
      /\ w \in Nat /\ a % 4 \in {0, 1, 2, 3} /\ a = 4 * w + (a % 4)
  BY AlignedPlaces, MemSizeAssumption DEF Widths, Word
<1>2. w \in 0 .. MemSize \div 4 - 1
  BY <1>1
<1>3. Laid!WordsOf(d)[w] = WordAt(d, w) /\ FourBytes(d, w)
  BY <1>2, WordsOfBytes
<1>4. Loaded(d, n, a) = (WordAt(d, w) \div (Radix ^ (a % 4))) % (Radix ^ n)
  BY <1>3, LoadedDigits
<1> QED BY <1>2, <1>3, <1>4 DEF Laid!Digits, Laid!Base, Radix, ByteBits

\* Storing bytes replaces digits.
LEMMA WithDigitsOfBytes ==
    ASSUME MemSize % 4 = 0, NEW d \in Memories, NEW n \in Widths, NEW a \in Nat,
           a % n = 0, a + n <= MemSize, NEW v \in Int
    PROVE  Laid!WordsOf(Stored(d, n, a, v)) = Laid!WithDigits(Laid!WordsOf(d), n, a, v)
<1> DEFINE s == Stored(d, n, a, v)
           dom == 0 .. MemSize \div 4 - 1
           m == Laid!WordsOf(d)
<1>1. s \in Memories
  BY StoredInRange
<1>2. Laid!WordsOf(s) = [w \in dom |-> WordAt(s, w)]
  BY <1>1, WordsOfBytes
<1>3. m = [w \in dom |-> WordAt(d, w)]
  BY WordsOfBytes
<1>4. a \div 4 \in dom /\ Laid!Digits(m, n, a) = Loaded(d, n, a)
  BY DigitsOfBytes
<1>5. \A w \in dom : WordAt(s, w) =
             IF w = a \div 4
             THEN WordAt(d, w) + ((v % (Radix ^ n)) - Loaded(d, n, a)) * Radix ^ (a % 4)
             ELSE WordAt(d, w)
  BY WordsOfBytes, StoredDigits
<1>6. Laid!WithDigits(m, n, a, v) =
        [m EXCEPT ![a \div 4] = @ + ((v % (Radix ^ n)) - Loaded(d, n, a)) * Radix ^ (a % 4)]
  BY <1>4 DEF Laid!WithDigits, Laid!Base, Radix, ByteBits
<1> SUFFICES Laid!WordsOf(s) = Laid!WithDigits(m, n, a, v)
  OBVIOUS
<1> DEFINE e == ((v % (Radix ^ n)) - Loaded(d, n, a)) * Radix ^ (a % 4)
           W == a \div 4
<1>7. /\ \A w \in dom : WordAt(s, w) = IF w = W THEN WordAt(d, w) + e ELSE WordAt(d, w)
      /\ Laid!WithDigits(m, n, a, v) = [m EXCEPT ![W] = @ + e] /\ W \in dom
  BY <1>4, <1>5, <1>6
<1> HIDE DEF s, m, e, W, dom
<1>8. [m EXCEPT ![W] = @ + e] = [w \in dom |-> IF w = W THEN WordAt(d, w) + e ELSE WordAt(d, w)]
  BY <1>3, <1>7
<1> QED BY <1>2, <1>7, <1>8
=============================================================================
