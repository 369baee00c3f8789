---------------------------- MODULE MemoryAccess ----------------------------
(***************************************************************************)
(* What class Memory's accessors compute (memory.cpp): which accesses they *)
(* refuse, and how a value of 1, 2 or 4 bytes lies in the byte array, the  *)
(* lowest byte first.  A memory is a function from addresses to bytes.     *)
(* Operators whose name starts with Bad are faulty variants of the one     *)
(* that follows, which the properties were tried on.                       *)
(***************************************************************************)
EXTENDS Words, Functions

CONSTANT MemSize    \* size in bytes (the code: MEMORY_SIZE, 16 MiB)

ByteBits == Bits \div 4
Radix == 2 ^ ByteBits
Byte == 0 .. Radix - 1
Memories == [0 .. MemSize - 1 -> Byte]
Widths == {1, 2, 4}

\* A word is four bytes, and a size is a word.
ASSUME MemSizeAssumption == Bits % 4 = 0 /\ MemSize \in Word \ {0}
ASSUME RadixAssumption ==
    Radix ^ 0 = 1 /\ \A k \in 0 .. 3 : Radix ^ (k + 1) = Radix * Radix ^ k

BadCheck(n, a) ==
    CASE a % n # 0 -> "misaligned"
      [] a % n = 0 /\ a > MemSize -> "error"
      [] OTHER -> "ok"
\* The misalignment test comes first.  The bounds of the wider accesses are
\* compared with size - n, an unsigned difference.
Check(n, a) ==
    CASE a % n # 0 -> "misaligned"
      [] a % n = 0 /\ a > Wrap(MemSize - n) -> "error"
      [] OTHER -> "ok"

\* The array elements an access of n bytes at a uses.
Touched(n, a) == a .. a + n - 1

BadLoaded(m, n, a) == SumFunction([i \in 0 .. n - 1 |-> m[a + n - 1 - i] * Radix ^ i])
Loaded(m, n, a) == SumFunction([i \in 0 .. n - 1 |-> m[a + i] * Radix ^ i])

BadStored(m, n, a, v) ==
    [b \in DOMAIN m |->
        IF b \in Touched(n, a) THEN v \div Radix ^ (b - a) ELSE m[b]]
Stored(m, n, a, v) ==
    [b \in DOMAIN m |->
        IF b \in Touched(n, a) THEN (v \div Radix ^ (b - a)) % Radix ELSE m[b]]
=============================================================================
