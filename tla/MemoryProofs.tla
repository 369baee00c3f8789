---------------------------- MODULE MemoryProofs ----------------------------
(***************************************************************************)
(* Class Memory for every word width, size, address and value: what the    *)
(* checks let through stays in the array, and the array of bytes is the    *)
(* memory of words its users are promised.  On a memory of less than four  *)
(* bytes size - 4 wraps and the checks fail.                               *)
(***************************************************************************)
EXTENDS Memory, WordProofs

\* The inductive invariant: the last call is one of the accessors', the
\* array keeps its size and its bytes, and what was let through lay inside.
Bounded ==
    /\ call.n \in Widths /\ call.a \in Nat
    /\ TypeOK
    /\ InBounds

\* The bound holds initially.
LEMMA BoundedInit ==
    ASSUME MemSize >= 4, Init
    PROVE  Bounded
<1>1. MemSize \in Nat /\ Radix \in Nat \ {0} /\ Byte = 0 .. Radix - 1 /\ Radix ^ 1 = Radix
  BY MemSizeAssumption, RadixPowers DEF Word
<1>2. data \in Memories
  BY <1>1 DEF Init, Memories
<1>3. call.n = 1 /\ call.a = 0 /\ value = 0 /\ status = "ok"
  BY DEF Init
<1>4. value \in 0 .. (Radix ^ call.n) - 1
  BY <1>1, <1>3
<1>5. Touched(call.n, call.a) \subseteq DOMAIN data
  BY <1>1, <1>2, <1>3 DEF Touched, Memories
<1> QED BY <1>2, <1>3, <1>4, <1>5 DEF Bounded, TypeOK, InBounds, Widths

\* What a read that is let through delivers.
LEMMA ReadDelivers ==
    ASSUME MemSize >= 4, data \in Memories, NEW n \in Widths, NEW a \in Nat,
           Read(n, a), status' = "ok"
    PROVE  value' = Loaded(data, n, a) /\ \A i \in 0 .. n - 1 : data[a + i] \in Byte
<1>1. Check(n, a) = "ok"
  BY DEF Read
<1>2. Touched(n, a) \subseteq DOMAIN data
  BY <1>1, CheckSuffices DEF Memories
<1>3. PICK beyond : value' = Loaded([b \in Touched(n, a) |->
                                IF b \in DOMAIN data THEN data[b] ELSE beyond], n, a)
  BY DEF Read
<1> DEFINE d == [b \in Touched(n, a) |-> IF b \in DOMAIN data THEN data[b] ELSE beyond]
<1>4. ASSUME NEW i \in 0 .. n - 1
      PROVE  a + i \in Touched(n, a) /\ data[a + i] \in Byte /\ d[a + i] = data[a + i]
  <2>1. a + i \in Touched(n, a)
    BY DEF Touched, Widths
  <2> QED BY <1>2, <2>1 DEF Memories
<1> DEFINE f == [i \in 0 .. n - 1 |-> d[a + i] * Radix ^ i]
           g == [i \in 0 .. n - 1 |-> data[a + i] * Radix ^ i]
<1>5. f = g
  BY <1>4
<1>6. Loaded(d, n, a) = SumFunction(f) /\ Loaded(data, n, a) = SumFunction(g)
  BY DEF Loaded
<1> HIDE DEF f, g
<1>7. Loaded(d, n, a) = Loaded(data, n, a)
  BY <1>5, <1>6, Zenon
<1> QED BY <1>3, <1>4, <1>7

\* Every call keeps it.
LEMMA BoundedStep ==
    ASSUME MemSize >= 4, Bounded, [Next]_vars
    PROVE  Bounded'
<1>1. CASE UNCHANGED vars
  BY <1>1 DEF vars, Bounded, TypeOK, InBounds
<1>2. \A n \in Widths, a \in Nat : Check(n, a) \in {"ok", "misaligned", "error"}
  BY DEF Check
<1>3. \A n \in Widths : 0 \in 0 .. (Radix ^ n) - 1
  BY RadixPowers DEF Widths
<1>4. ASSUME NEW n \in Widths, NEW a \in Addrs, Read(n, a)
      PROVE  Bounded'
  <2>1. a \in Nat /\ data \in Memories
    BY CallsAssumption DEF Word, Bounded, TypeOK
  <2>2. call'.n = n /\ call'.a = a /\ data' = data /\ status' = Check(n, a)
    BY <1>4 DEF Read
  <2>3. value' \in 0 .. (Radix ^ n) - 1
    <3>1. CASE status' = "ok"
      <4>1. value' = Loaded(data, n, a) /\ \A i \in 0 .. n - 1 : data[a + i] \in Byte
        BY <1>4, <2>1, <3>1, ReadDelivers
      <4>2. a \in Int
        BY <2>1
      <4> QED BY <4>1, <4>2, LoadedInRange
    <3>2. CASE status' # "ok"
      BY <1>3, <1>4, <3>2 DEF Read
    <3> QED BY <3>1, <3>2
  <2>4. status' = "ok" => Touched(n, a) \subseteq DOMAIN data'
    BY <2>1, <2>2, CheckSuffices DEF Memories
  <2> QED BY <1>2, <2>1, <2>2, <2>3, <2>4 DEF Bounded, TypeOK, InBounds
<1>5. ASSUME NEW n \in Widths, NEW a \in Addrs, NEW v \in Values, Write(n, a, v)
      PROVE  Bounded'
  <2>1. a \in Nat /\ a \in Int /\ v \in Int /\ data \in Memories
    BY CallsAssumption DEF Word, Bounded, TypeOK
  <2>2. call'.n = n /\ call'.a = a /\ status' = Check(n, a) /\ value' = 0
    BY <1>5 DEF Write
  <2>3. data' \in Memories
    BY <1>5, <2>1, StoredInRange DEF Write
  <2>4. status' = "ok" => Touched(n, a) \subseteq DOMAIN data'
    BY <2>1, <2>2, <2>3, CheckSuffices DEF Memories
  <2> QED BY <1>2, <1>3, <2>1, <2>2, <2>3, <2>4 DEF Bounded, TypeOK, InBounds
<1> QED
  BY <1>1, <1>4, <1>5 DEF Next

\* It holds throughout.
LEMMA BoundedAlways ==
    ASSUME MemSize >= 4
    PROVE  Spec => []Bounded
<1>1. Init => Bounded
  BY BoundedInit
<1>2. Bounded /\ [Next]_vars => Bounded'
  BY BoundedStep
<1> QED
  BY <1>1, <1>2, PTL DEF Spec

\* No accessor of a memory of at least one word ever leaves the array, the
\* unsigned differences in the checks notwithstanding.
THEOREM InBoundsAlways ==
    ASSUME MemSize >= 4
    PROVE  Spec => []InBounds
<1>1. Bounded => InBounds
  BY DEF Bounded
<1> QED
  BY <1>1, BoundedAlways, PTL

\* The elements stay bytes and what is read fits the width asked for.
THEOREM TypeOKAlways ==
    ASSUME MemSize >= 4
    PROVE  Spec => []TypeOK
<1>1. Bounded => TypeOK
  BY DEF Bounded
<1> QED
  BY <1>1, BoundedAlways, PTL

----------------------------------------------------------------------------
(* The promise.                                                            *)

\* The words are those of Laid, whatever name they are reached by.
LEMMA SameWords ==
    /\ \A d : Layout!WordsOf(d) = Laid!WordsOf(d)
    /\ \A m, n, a : Promise!Digits(m, n, a) = Laid!Digits(m, n, a)
    /\ \A m, n, a, v : Promise!WithDigits(m, n, a, v) = Laid!WithDigits(m, n, a, v)
BY DEF Layout!WordsOf, Layout!Base, Laid!WordsOf, Laid!Base, Promise!Base,
       Promise!Digits, Laid!Digits, Promise!WithDigits, Laid!WithDigits

\* The initial memory is an initial memory of words.
LEMMA ImplementsInit ==
    ASSUME MemSize >= 4, MemSize % 4 = 0, Init
    PROVE  Promise!Init
<1>1. data \in Memories
  BY BoundedInit DEF Bounded, TypeOK
<1>2. Layout!WordsOf(data) = [w \in 0 .. MemSize \div 4 - 1 |-> WordAt(data, w)]
      /\ \A w \in 0 .. MemSize \div 4 - 1 : 4 * w .. 4 * w + 3 \subseteq DOMAIN data
  BY <1>1, WordsOfBytes, SameWords
<1>3. ASSUME NEW w \in 0 .. MemSize \div 4 - 1 PROVE WordAt(data, w) = 0
  <2>1. \A b \in 4 * w .. 4 * w + 3 : data[b] = 0
    BY <1>2 DEF Init
  <2>2. w \in Int
    OBVIOUS
  <2>3. data[4 * w] = 0 /\ data[4 * w + 1] = 0 /\ data[4 * w + 2] = 0 /\ data[4 * w + 3] = 0
    BY <2>1, <2>2
  <2> QED BY <2>3, RadixPowers DEF WordAt
<1>4. Layout!WordsOf(data) = [w \in 0 .. MemSize \div 4 - 1 |-> 0]
  BY <1>2, <1>3
<1> QED BY <1>4 DEF Init, Promise!Init

\* Every call is an access to words, or refused.
LEMMA ImplementsStep ==
    ASSUME MemSize >= 4, MemSize % 4 = 0, Bounded, [Next]_vars
    PROVE  [Promise!Next]_<<Layout!WordsOf(data), call, status = "ok", value>>
<1> DEFINE mem == Layout!WordsOf(data)
<1>1. data \in Memories
  BY DEF Bounded, TypeOK
<1>2. CASE UNCHANGED vars
  <2>1. mem' = mem /\ call' = call /\ value' = value /\ status' = status
    BY <1>2 DEF vars, Layout!WordsOf
  <2> HIDE DEF mem
  <2> QED BY <2>1 DEF mem
<1>3. ASSUME NEW n \in Widths, NEW a \in Addrs, Read(n, a)
      PROVE  Promise!Next
  <2>1. a \in Nat
    BY CallsAssumption DEF Word
  <2>2. /\ call'.op = "read" /\ call'.n = n /\ call'.a = a /\ data' = data
        /\ status' = Check(n, a) /\ (status' # "ok" => value' = 0)
    BY <1>3 DEF Read
  <2>3. status' = "ok" <=> Promise!Meaningful(n, a)
    BY <2>1, <2>2, ChecksAreBounds DEF Promise!Meaningful
  <2>4. mem' = mem
    BY <2>2 DEF Layout!WordsOf
  <2>5. CASE status' = "ok"
    <3>1. value' = Loaded(data, n, a)
      BY <1>1, <1>3, <2>1, <2>5, ReadDelivers
    <3>2. a % n = 0 /\ a + n <= MemSize
      BY <2>3, <2>5 DEF Promise!Meaningful
    <3>3. Promise!Digits(mem, n, a) = Loaded(data, n, a)
      BY <1>1, <2>1, <3>2, DigitsOfBytes, SameWords
    <3> HIDE DEF mem
    <3>4. Promise!Read
      BY <2>2, <2>3, <2>4, <2>5, <3>1, <3>3 DEF Promise!Read, mem
    <3> QED BY <3>4 DEF Promise!Next
  <2>6. CASE status' # "ok"
    <3> HIDE DEF mem
    <3>1. Promise!Refuse
      BY <2>2, <2>3, <2>4, <2>6 DEF Promise!Refuse, mem
    <3> QED BY <3>1 DEF Promise!Next
  <2> QED BY <2>5, <2>6
<1>4. ASSUME NEW n \in Widths, NEW a \in Addrs, NEW v \in Values, Write(n, a, v)
      PROVE  Promise!Next
  <2>1. a \in Nat /\ v \in Int
    BY CallsAssumption DEF Word
  <2>2. /\ call'.op = "write" /\ call'.n = n /\ call'.a = a /\ call'.v = v
        /\ status' = Check(n, a) /\ value' = 0
        /\ data' = IF status' = "ok" THEN Stored(data, n, a, v) ELSE data
    BY <1>4 DEF Write
  <2>3. status' = "ok" <=> Promise!Meaningful(n, a)
    BY <2>1, <2>2, ChecksAreBounds DEF Promise!Meaningful
  <2>4. CASE status' = "ok"
    <3>1. a % n = 0 /\ a + n <= MemSize
      BY <2>3, <2>4 DEF Promise!Meaningful
    <3>2. Layout!WordsOf(Stored(data, n, a, v)) = Promise!WithDigits(mem, n, a, v)
      BY <1>1, <2>1, <3>1, WithDigitsOfBytes, SameWords
    <3>3. mem' = Layout!WordsOf(Stored(data, n, a, v))
      BY <2>2, <2>4 DEF Layout!WordsOf
    <3>4. mem' = Promise!WithDigits(mem, n, a, v)
      BY <3>2, <3>3, Zenon
    <3> HIDE DEF mem
    <3>5. Promise!Write
      BY <2>2, <2>3, <2>4, <3>4 DEF Promise!Write, mem
    <3> QED BY <3>5 DEF Promise!Next
  <2>5. CASE status' # "ok"
    <3>1. mem' = mem
      BY <2>2, <2>5 DEF Layout!WordsOf
    <3> HIDE DEF mem
    <3>2. Promise!Refuse
      BY <2>2, <2>3, <2>5, <3>1 DEF Promise!Refuse, mem
    <3> QED BY <3>2 DEF Promise!Next
  <2> QED BY <2>4, <2>5
<1> QED BY <1>2, <1>3, <1>4 DEF Next

\* The six accessors on the array of bytes are reads and writes of digits of
\* words: accesses of different widths to the same place see each other's
\* values, whatever is refused leaves no trace and nothing else does.
THEOREM ImplementsAlways ==
    ASSUME MemSize >= 4, MemSize % 4 = 0
    PROVE  Spec => Implements
<1>1. Init => Promise!Init
  BY ImplementsInit
<1>2. Bounded /\ [Next]_vars => [Promise!Next]_<<Layout!WordsOf(data), call, status = "ok", value>>
  BY ImplementsStep
<1>3. Spec => []Bounded
  BY BoundedAlways
<1> QED
  BY <1>1, <1>2, <1>3, PTL DEF Spec, Implements, Promise!Spec
=============================================================================
