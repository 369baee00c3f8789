----------------------------- MODULE BasicFacts ---------------------------
(***************************************************************************)
(* Facts the other proofs rest on: induction over the naturals and over    *)
(* finite sets, stated with sets in place of predicates; what              *)
(* SumFunctionOnSet computes (its recursive function exists, its value is  *)
(* an integer, elements may be taken out in any order); division and       *)
(* powers.                                                                 *)
(***************************************************************************)
EXTENDS Integers, Functions, FiniteSetTheorems, TLAPS

\* A set of naturals with 0 and every successor has them all.
LEMMA NatSets ==
    ASSUME NEW T \in SUBSET Nat, 0 \in T, \A n \in T : n + 1 \in T
    PROVE  T = Nat
<1> SUFFICES ASSUME T # Nat PROVE FALSE
  OBVIOUS
<1> DEFINE Missing == Nat \ T
<1>1. Missing # {} /\ Missing \subseteq Nat
  OBVIOUS
<1>2. PICK m \in Missing : \A k \in Missing : ~ (<<k, m>> \in OpToRel(<, Nat))
  <2> HIDE DEF Missing
  <2> QED BY <1>1, NatLessThanWellFounded, WFMin
<1>3. m \in Nat /\ m # 0 /\ m - 1 \in Nat /\ m - 1 \notin T
  <2>1. m \in Nat /\ m # 0 /\ m - 1 \in Nat
    OBVIOUS
  <2>2. m - 1 + 1 \notin T
    BY <2>1
  <2> QED BY <2>1, <2>2
<1>4. m - 1 \in Missing /\ m - 1 < m
  BY <1>3
<1>5. <<m - 1, m>> \in OpToRel(<, Nat)
  BY <1>3, <1>4 DEF OpToRel
<1> QED BY <1>2, <1>4, <1>5

\* A property of finite sets holds of one if it holds of each subset of it
\* whose smaller subsets all have it.
LEMMA FiniteSetsInduct ==
    ASSUME NEW S, IsFiniteSet(S), NEW Q,
           \A T \in SUBSET S : (\A U \in SUBSET T : U # T => U \in Q) => T \in Q
    PROVE  S \in Q
<1> DEFINE N == {n \in Nat : \A T \in SUBSET S : Cardinality(T) <= n => T \in Q}
<1>1. \A T \in SUBSET S : IsFiniteSet(T) /\ Cardinality(T) \in Nat
  BY FS_Subset, FS_CardinalityType
<1>2. \A T \in SUBSET S : \A U \in SUBSET T :
          U # T => Cardinality(U) < Cardinality(T) /\ U \in SUBSET S
  <2> SUFFICES ASSUME NEW T \in SUBSET S, NEW U \in SUBSET T, U # T
               PROVE  Cardinality(U) < Cardinality(T) /\ U \in SUBSET S
    OBVIOUS
  <2>1. Cardinality(U) <= Cardinality(T) /\ Cardinality(U) # Cardinality(T)
    BY <1>1, FS_Subset
  <2> QED BY <1>1, <2>1
<1>3. 0 \in N
  <2> SUFFICES ASSUME NEW T \in SUBSET S, Cardinality(T) <= 0 PROVE T \in Q
    OBVIOUS
  <2>1. \A U \in SUBSET T : U = T
    BY <1>1, <1>2
  <2> QED BY <2>1
<1>4. ASSUME NEW n \in N PROVE n + 1 \in N
  <2> SUFFICES ASSUME NEW T \in SUBSET S, Cardinality(T) <= n + 1 PROVE T \in Q
    BY <1>4
  <2>1. \A U \in SUBSET T : U # T => Cardinality(U) <= n
    BY <1>1, <1>2, <1>4
  <2> QED BY <1>2, <1>4, <2>1
<1>5. N = Nat
  <2> HIDE DEF N
  <2>1. N \subseteq Nat
    BY DEF N
  <2> QED BY <1>3, <1>4, <2>1, NatSets
<1>6. Cardinality(S) \in N /\ Cardinality(S) <= Cardinality(S)
  BY <1>1, <1>5
<1> QED BY <1>6

----------------------------------------------------------------------------
(* The function SumFunctionOnSet iterates.                                 *)

\* What the sum of f over s is made of, given the sums g of smaller sets.
SumBody(f, g, s) ==
    IF s = {} THEN 0 ELSE LET x == CHOOSE x \in s : TRUE IN f[x] + g[s \ {x}]

SumIterates(g, f, S) == g = [s \in SUBSET S |-> SumBody(f, g, s)]

\* The sum at s depends on the sums of s without one element.
LEMMA SumBodySame ==
    ASSUME NEW f, NEW g, NEW h, NEW s, \A x \in s : g[s \ {x}] = h[s \ {x}]
    PROVE  SumBody(f, g, s) = SumBody(f, h, s)
<1> DEFINE c == CHOOSE x \in s : TRUE
<1>1. CASE s = {}
  BY <1>1 DEF SumBody
<1>2. CASE s # {}
  <2>1. c \in s
    BY <1>2
  <2>2. SumBody(f, g, s) = f[c] + g[s \ {c}] /\ SumBody(f, h, s) = f[c] + h[s \ {c}]
    BY <1>2 DEF SumBody
  <2> HIDE DEF c
  <2> QED BY <2>1, <2>2
<1> QED BY <1>1, <1>2

\* The sum is the value of a function that iterates, if there is one.
LEMMA SumIsIterated ==
    ASSUME NEW f, NEW S, NEW g, SumIterates(g, f, S)
    PROVE  \E h : SumIterates(h, f, S) /\ SumFunctionOnSet(f, S) = h[S]
<1> DEFINE it == CHOOSE h : h = [s \in SUBSET S |-> SumBody(f, h, s)]
<1>1. SumFunctionOnSet(f, S) = it[S]
  BY DEF SumFunctionOnSet, FoldFunctionOnSet, MapThenFoldSet, SumBody
<1>2. SumIterates(it, f, S)
  BY DEF SumIterates
<1> QED BY <1>1, <1>2

\* There is one over finite sets.
LEMMA IterationExists ==
    ASSUME NEW f, NEW S, IsFiniteSet(S)
    PROVE  \E g : SumIterates(g, f, S)
<1> DEFINE Upto(n) == {s \in SUBSET S : Cardinality(s) <= n}
           N == {n \in Nat : \E g : \A s \in Upto(n) : g[s] = SumBody(f, g, s)}
<1>1. \A s \in SUBSET S : IsFiniteSet(s) /\ Cardinality(s) \in Nat
  BY FS_Subset, FS_CardinalityType
<1>2. \A s \in SUBSET S : s = {} <=> Cardinality(s) = 0
  BY <1>1, FS_EmptySet
<1>3. \A s \in SUBSET S : \A x \in s :
          s \ {x} \in SUBSET S /\ Cardinality(s \ {x}) = Cardinality(s) - 1
  BY <1>1, FS_RemoveElement
<1>4. 0 \in N
  <2> DEFINE g == [s \in SUBSET S |-> 0]
  <2>1. \A s \in Upto(0) : g[s] = SumBody(f, g, s)
    BY <1>1, <1>2 DEF SumBody
  <2> QED BY <2>1
<1>5. ASSUME NEW n \in N PROVE n + 1 \in N
  <2>1. PICK g : \A s \in Upto(n) : g[s] = SumBody(f, g, s)
    BY <1>5
  <2> DEFINE h == [s \in SUBSET S |-> SumBody(f, g, s)]
  <2>2. \A s \in Upto(n) : h[s] = g[s]
    BY <2>1
  <2>3. \A s \in Upto(n + 1) : \A x \in s : s \ {x} \in Upto(n)
    <3> SUFFICES ASSUME NEW s \in Upto(n + 1), NEW x \in s PROVE s \ {x} \in Upto(n)
      OBVIOUS
    <3>1. /\ s \in SUBSET S /\ Cardinality(s) \in Nat /\ Cardinality(s) <= n + 1 /\ n \in Nat
          /\ s \ {x} \in SUBSET S /\ Cardinality(s \ {x}) = Cardinality(s) - 1
      BY <1>1, <1>3, <1>5
    <3>2. Cardinality(s \ {x}) <= n
      BY <3>1
    <3> QED BY <3>1, <3>2
  <2>4. \A s \in Upto(n + 1) : h[s] = SumBody(f, g, s)
    OBVIOUS
  <2> HIDE DEF h, Upto
  <2>5. \A s \in Upto(n + 1) : SumBody(f, g, s) = SumBody(f, h, s)
    BY <2>2, <2>3, SumBodySame
  <2>6. n + 1 \in Nat
    BY <1>5
  <2> QED BY <2>4, <2>5, <2>6
<1>6. Cardinality(S) \in N
  <2>1. N \subseteq Nat
    OBVIOUS
  <2> HIDE DEF N
  <2>2. N = Nat
    BY <1>4, <1>5, <2>1, NatSets
  <2> QED BY <1>1, <2>2
<1>7. PICK g : \A s \in Upto(Cardinality(S)) : g[s] = SumBody(f, g, s)
  BY <1>6
<1>8. \A s \in SUBSET S : g[s] = SumBody(f, g, s)
  BY <1>1, <1>7, FS_Subset
<1> DEFINE h == [s \in SUBSET S |-> g[s]]
<1>9. \A s \in SUBSET S : SumBody(f, g, s) = SumBody(f, h, s)
  BY DEF SumBody
<1>10. h = [s \in SUBSET S |-> SumBody(f, h, s)]
  <2> HIDE DEF h
  <2>1. h = [s \in SUBSET S |-> g[s]]
    BY DEF h
  <2> QED BY <1>8, <1>9, <2>1
<1> HIDE DEF h
<1> QED BY <1>10 DEF SumIterates

\* Sums over different sets are of the same iteration.
LEMMA IterationsAgree ==
    ASSUME NEW f, NEW S, NEW T, NEW g, NEW h,
           IsFiniteSet(S), S \subseteq T, SumIterates(g, f, S), SumIterates(h, f, T)
    PROVE  g[S] = h[S]
<1> DEFINE Q == {s \in SUBSET S : g[s] = h[s]}
<1>1. \A s \in SUBSET S : g[s] = SumBody(f, g, s) /\ h[s] = SumBody(f, h, s)
  <2>1. \A s \in SUBSET S : s \in SUBSET T
    OBVIOUS
  <2> QED BY <2>1 DEF SumIterates
<1>2. ASSUME NEW s \in SUBSET S, \A u \in SUBSET s : u # s => u \in Q
      PROVE  s \in Q
  <2>1. \A x \in s : s \ {x} \in SUBSET s /\ s \ {x} # s
    OBVIOUS
  <2>2. \A x \in s : g[s \ {x}] = h[s \ {x}]
    BY <1>2, <2>1
  <2>3. SumBody(f, g, s) = SumBody(f, h, s)
    BY <2>2, SumBodySame
  <2> QED BY <1>1, <2>3
<1>3. S \in Q
  <2> HIDE DEF Q
  <2> QED BY <1>2, FiniteSetsInduct
<1> QED BY <1>3

----------------------------------------------------------------------------
(* What the sum is.                                                        *)

\* The sum over nothing.
LEMMA SumOfNone ==
    ASSUME NEW f PROVE SumFunctionOnSet(f, {}) = 0
<1>1. PICK g : SumIterates(g, f, {})
  BY IterationExists, FS_EmptySet
<1>2. PICK h : SumIterates(h, f, {}) /\ SumFunctionOnSet(f, {}) = h[{}]
  BY <1>1, SumIsIterated
<1> QED BY <1>2 DEF SumIterates, SumBody

\* The element taken first is the one CHOOSE picks.
LEMMA SumChosen ==
    ASSUME NEW f, NEW S, IsFiniteSet(S), S # {}
    PROVE  LET x == CHOOSE x \in S : TRUE
           IN  x \in S /\ SumFunctionOnSet(f, S) = f[x] + SumFunctionOnSet(f, S \ {x})
<1> DEFINE x == CHOOSE y \in S : TRUE
           R == S \ {x}
<1>1. x \in S /\ IsFiniteSet(R) /\ R \subseteq S
  BY FS_Subset
<1>2. PICK h : SumIterates(h, f, S) /\ SumFunctionOnSet(f, S) = h[S]
  BY IterationExists, SumIsIterated
<1>3. PICK g : SumIterates(g, f, R) /\ SumFunctionOnSet(f, R) = g[R]
  <2> HIDE DEF R
  <2>1. \E g : SumIterates(g, f, R)
    BY <1>1, IterationExists
  <2> QED BY <2>1, SumIsIterated
<1>4. g[R] = h[R]
  <2> HIDE DEF R
  <2> QED BY <1>1, <1>2, <1>3, IterationsAgree
<1>5. h[S] = f[x] + h[R]
  BY <1>2 DEF SumIterates, SumBody
<1> QED BY <1>1, <1>2, <1>3, <1>4, <1>5

\* A finite sum of integers is an integer.
LEMMA SumIsInt ==
    ASSUME NEW f, NEW S, IsFiniteSet(S), \A x \in S : f[x] \in Int
    PROVE  SumFunctionOnSet(f, S) \in Int
<1> DEFINE Q == {T \in SUBSET S : SumFunctionOnSet(f, T) \in Int}
<1>1. ASSUME NEW T \in SUBSET S, \A U \in SUBSET T : U # T => U \in Q
      PROVE  T \in Q
  <2>1. CASE T = {}
    BY <2>1, SumOfNone
  <2>2. CASE T # {}
    <3> DEFINE x == CHOOSE x \in T : TRUE
    <3>1. x \in T /\ SumFunctionOnSet(f, T) = f[x] + SumFunctionOnSet(f, T \ {x})
      BY <2>2, FS_Subset, SumChosen
    <3>2. T \ {x} \in Q
      BY <1>1, <3>1
    <3> QED BY <3>1, <3>2
  <2> QED BY <2>1, <2>2
<1>2. S \in Q
  <2> HIDE DEF Q
  <2> QED BY <1>1, FiniteSetsInduct
<1> QED BY <1>2

\* Any element may be taken out.
LEMMA SumRemove ==
    ASSUME NEW f, NEW S, IsFiniteSet(S), \A x \in S : f[x] \in Int, NEW y \in S
    PROVE  SumFunctionOnSet(f, S) = f[y] + SumFunctionOnSet(f, S \ {y})
<1> DEFINE Sum(T) == SumFunctionOnSet(f, T)
           Q == {T \in SUBSET S : \A z \in T : Sum(T) = f[z] + Sum(T \ {z})}
<1>1. ASSUME NEW T \in SUBSET S, \A U \in SUBSET T : U # T => U \in Q
      PROVE  T \in Q
  <2> SUFFICES ASSUME NEW z \in T PROVE Sum(T) = f[z] + Sum(T \ {z})
    OBVIOUS
  <2> DEFINE x == CHOOSE x \in T : TRUE
  <2>1. IsFiniteSet(T)
    BY FS_Subset
  <2>2. x \in T /\ Sum(T) = f[x] + Sum(T \ {x})
    BY <2>1, SumChosen
  <2> HIDE DEF x
  <2>3. CASE z = x
    BY <2>2, <2>3
  <2>4. CASE z # x
    <3> DEFINE R == T \ {x, z}
    <3>1. /\ T \ {x} \in Q /\ z \in T \ {x} /\ (T \ {x}) \ {z} = R
          /\ T \ {z} \in Q /\ x \in T \ {z} /\ (T \ {z}) \ {x} = R
      BY <1>1, <2>2, <2>4
    <3>2. Sum(T \ {x}) = f[z] + Sum(R) /\ Sum(T \ {z}) = f[x] + Sum(R)
      BY <3>1
    <3>3. Sum(R) \in Int /\ f[x] \in Int /\ f[z] \in Int
      BY <2>1, <2>2, FS_Subset, SumIsInt
    <3> HIDE DEF R, Sum
    <3> QED BY <2>2, <3>2, <3>3
  <2> QED BY <2>3, <2>4
<1>2. S \in Q
  <2> HIDE DEF Q
  <2> QED BY <1>1, FiniteSetsInduct
<1> QED BY <1>2

\* One element more adds its value.
LEMMA SumAdd ==
    ASSUME NEW f, NEW S, IsFiniteSet(S), NEW y, y \notin S,
           \A x \in S \cup {y} : f[x] \in Int
    PROVE  SumFunctionOnSet(f, S \cup {y}) = f[y] + SumFunctionOnSet(f, S)
<1>1. IsFiniteSet(S \cup {y}) /\ (S \cup {y}) \ {y} = S
  BY FS_AddElement
<1> QED BY <1>1, SumRemove

\* Only the values on the set matter.
LEMMA SumSame ==
    ASSUME NEW f, NEW g, NEW S, IsFiniteSet(S), \A x \in S : f[x] = g[x]
    PROVE  SumFunctionOnSet(f, S) = SumFunctionOnSet(g, S)
<1> DEFINE Q == {T \in SUBSET S : SumFunctionOnSet(f, T) = SumFunctionOnSet(g, T)}
<1>1. ASSUME NEW T \in SUBSET S, \A U \in SUBSET T : U # T => U \in Q
      PROVE  T \in Q
  <2>1. CASE T = {}
    BY <2>1, SumOfNone
  <2>2. CASE T # {}
    <3> DEFINE x == CHOOSE x \in T : TRUE
    <3>1. /\ x \in T
          /\ SumFunctionOnSet(f, T) = f[x] + SumFunctionOnSet(f, T \ {x})
          /\ SumFunctionOnSet(g, T) = g[x] + SumFunctionOnSet(g, T \ {x})
      BY <2>2, FS_Subset, SumChosen
    <3>2. T \ {x} \in Q
      BY <1>1, <3>1
    <3> QED BY <3>1, <3>2
  <2> QED BY <2>1, <2>2
<1>2. S \in Q
  <2> HIDE DEF Q
  <2> QED BY <1>1, FiniteSetsInduct
<1> QED BY <1>2

\* The sums over disjoint sets add up.
LEMMA SumUnion ==
    ASSUME NEW f, NEW S, NEW R, IsFiniteSet(S), IsFiniteSet(R), S \cap R = {},
           \A x \in S \cup R : f[x] \in Int
    PROVE  SumFunctionOnSet(f, S \cup R) = SumFunctionOnSet(f, S) + SumFunctionOnSet(f, R)
<1> DEFINE Sum(T) == SumFunctionOnSet(f, T)
           Q == {T \in SUBSET R : Sum(S \cup T) = Sum(S) + Sum(T)}
<1>1. ASSUME NEW T \in SUBSET R, \A U \in SUBSET T : U # T => U \in Q
      PROVE  T \in Q
  <2>1. Sum(S) \in Int
    BY SumIsInt
  <2>2. CASE T = {}
    <3>1. Sum(T) = 0 /\ S \cup T = S
      BY <2>2, SumOfNone
    <3>2. Sum(S \cup T) = Sum(S)
      BY <3>1, Zenon
    <3>3. Sum(S \cup T) = Sum(S) + Sum(T)
      <4> HIDE DEF Sum
      <4> QED BY <2>1, <3>1, <3>2
    <3> QED BY <3>3
  <2>3. CASE T # {}
    <3>1. PICK y \in T : TRUE
      BY <2>3
    <3> DEFINE U == T \ {y}
    <3>2. /\ IsFiniteSet(T) /\ IsFiniteSet(U) /\ IsFiniteSet(S \cup U)
          /\ y \notin U /\ y \notin S \cup U /\ T = U \cup {y} /\ U \subseteq R
          /\ S \cup T = (S \cup U) \cup {y}
      BY FS_Subset, FS_Union
    <3>3. U \in Q
      BY <1>1, <3>1
    <3> HIDE DEF U
    <3>4. Sum(T) = f[y] + Sum(U)
      BY <3>2, SumAdd
    <3>5. Sum(S \cup T) = f[y] + Sum(S \cup U)
      BY <3>2, SumAdd
    <3>6. Sum(U) \in Int /\ f[y] \in Int
      BY <3>2, SumIsInt
    <3> HIDE DEF Sum
    <3> QED BY <2>1, <3>3, <3>4, <3>5, <3>6
  <2> QED BY <2>2, <2>3
<1>2. R \in Q
  <2> HIDE DEF Q
  <2> QED BY <1>1, FiniteSetsInduct
<1> QED BY <1>2

\* A sum of zeros.
LEMMA SumZero ==
    ASSUME NEW f, NEW S, IsFiniteSet(S), \A x \in S : f[x] = 0
    PROVE  SumFunctionOnSet(f, S) = 0
<1> DEFINE Q == {T \in SUBSET S : SumFunctionOnSet(f, T) = 0}
<1>1. ASSUME NEW T \in SUBSET S, \A U \in SUBSET T : U # T => U \in Q
      PROVE  T \in Q
  <2>1. CASE T = {}
    BY <2>1, SumOfNone
  <2>2. CASE T # {}
    <3> DEFINE x == CHOOSE x \in T : TRUE
    <3>1. x \in T /\ SumFunctionOnSet(f, T) = f[x] + SumFunctionOnSet(f, T \ {x})
      BY <2>2, FS_Subset, SumChosen
    <3>2. T \ {x} \in Q
      BY <1>1, <3>1
    <3> QED BY <3>1, <3>2
  <2> QED BY <2>1, <2>2
<1>2. S \in Q
  <2> HIDE DEF Q
  <2> QED BY <1>1, FiniteSetsInduct
<1> QED BY <1>2

\* A sum over an initial segment, from its end.
LEMMA SumUpto ==
    ASSUME NEW f, NEW n \in Nat, \A i \in 0 .. n : f[i] \in Int
    PROVE  SumFunctionOnSet(f, 0 .. n) = SumFunctionOnSet(f, 0 .. n - 1) + f[n]
<1>1. IsFiniteSet(0 .. n) /\ IsFiniteSet(0 .. n - 1)
  BY FS_Interval
<1>2. (0 .. n) \ {n} = 0 .. n - 1 /\ n \in 0 .. n
  OBVIOUS
<1>3. SumFunctionOnSet(f, 0 .. n) = f[n] + SumFunctionOnSet(f, (0 .. n) \ {n})
  BY <1>1, <1>2, SumRemove
<1>4. SumFunctionOnSet(f, (0 .. n) \ {n}) = SumFunctionOnSet(f, 0 .. n - 1)
  BY <1>2, Zenon
<1>5. SumFunctionOnSet(f, 0 .. n - 1) \in Int
  BY <1>1, SumIsInt
<1> QED BY <1>3, <1>4, <1>5

----------------------------------------------------------------------------
(* Division by a positive number, and powers.                              *)

\* Division with remainder,
LEMMA DivMod ==
    ASSUME NEW x \in Int, NEW d \in Nat \ {0}
    PROVE  /\ x \div d \in Int /\ x % d \in 0 .. d - 1
           /\ x = d * (x \div d) + (x % d)
OBVIOUS

\* ... of which there is only one.
LEMMA DivModUnique ==
    ASSUME NEW x \in Int, NEW d \in Nat \ {0}, NEW q \in Int, NEW r \in 0 .. d - 1,
           x = d * q + r
    PROVE  x \div d = q /\ x % d = r
<1>1. ASSUME NEW k \in Int, k >= 1 PROVE k * d >= d
  BY <1>1
<1>2. \A i, j \in Int : (i - j) * d = i * d - j * d
  OBVIOUS
<1> QED BY <1>1, <1>2, DivMod

\* The remainder of a number below the divisor.
LEMMA SmallMod ==
    \A d \in Nat \ {0} : \A x \in 0 .. d - 1 : x % d = x
OBVIOUS

\* A digit before a number of smaller ones.
LEMMA DigitBefore ==
    ASSUME NEW r \in Nat \ {0}, NEW b \in 0 .. r - 1,
           NEW m \in Nat \ {0}, NEW y \in 0 .. m - 1
    PROVE  /\ b + r * y \in 0 .. r * m - 1
           /\ (b + r * y) \div r = y /\ (b + r * y) % r = b
<1>1. b + r * y \in 0 .. r * m - 1
  OBVIOUS
<1> QED BY <1>1, DivModUnique

\* Division step by step.
LEMMA DivByProduct ==
    ASSUME NEW x \in Int, NEW c \in Nat \ {0}, NEW d \in Nat \ {0}
    PROVE  /\ c * d \in Nat \ {0}
           /\ x \div (c * d) = (x \div c) \div d
           /\ x % (c * d) = c * ((x \div c) % d) + (x % c)
<1> DEFINE q == x \div c
           s == x % c
           p == q \div d
           t == q % d
<1>1. c * d \in Nat \ {0}
  OBVIOUS
<1>2. q \in Int /\ s \in 0 .. c - 1 /\ x = c * q + s
  BY DivMod
<1>3. p \in Int /\ t \in 0 .. d - 1 /\ q = d * p + t
  <2> HIDE DEF q
  <2> QED BY <1>2, DivMod
<1> HIDE DEF q, s, p, t
<1>4. c * t + s \in 0 .. (c * d) - 1
  <2>1. s + c * t \in 0 .. (c * d) - 1
    BY <1>2, <1>3, DigitBefore
  <2> QED BY <1>2, <1>3, <2>1
<1>5. x = (c * d) * p + (c * t + s)
  BY <1>2, <1>3
<1>6. x \div (c * d) = p /\ x % (c * d) = c * t + s
  <2> DEFINE e == c * d
             r == c * t + s
  <2>1. e \in Nat \ {0} /\ r \in 0 .. e - 1 /\ x = e * p + r
    BY <1>1, <1>4, <1>5
  <2> HIDE DEF e, r
  <2>2. x \div e = p /\ x % e = r
    BY <1>3, <2>1, DivModUnique
  <2> QED BY <2>2 DEF e, r
<1> QED BY <1>1, <1>6 DEF p, q, s, t

\* The same, of all numbers at once.
LEMMA DivByProducts ==
    \A x \in Int : \A c, d \in Nat \ {0} :
       x \div (c * d) = (x \div c) \div d /\ x % (c * d) = c * ((x \div c) % d) + (x % c)
<1> SUFFICES ASSUME NEW x \in Int, NEW c \in Nat \ {0}, NEW d \in Nat \ {0}
             PROVE  /\ x \div (c * d) = (x \div c) \div d
                    /\ x % (c * d) = c * ((x \div c) % d) + (x % c)
  OBVIOUS
<1>1. x \div (c * d) = (x \div c) \div d
  BY DivByProduct, ZenonT(40)
<1>2. x % (c * d) = c * ((x \div c) % d) + (x % c)
  BY DivByProduct
<1> QED BY <1>1, <1>2

\* Powers of b up to the Nth, from the definition of exponentiation.
LEMMA PowersPositive ==
    ASSUME NEW b \in Nat \ {0}, NEW N \in Nat, b ^ 0 = 1,
           \A k \in 0 .. N - 1 : b ^ (k + 1) = b * b ^ k
    PROVE  \A k \in 0 .. N : b ^ k \in Nat \ {0}
<1> DEFINE T == {k \in Nat : k \in 0 .. N => b ^ k \in Nat \ {0}}
<1>1. T \subseteq Nat /\ 0 \in T
  OBVIOUS
<1>2. ASSUME NEW k \in T PROVE k + 1 \in T
  <2> SUFFICES ASSUME k + 1 \in 0 .. N PROVE b ^ (k + 1) \in Nat \ {0}
    BY <1>2
  <2>1. k \in 0 .. N - 1
    BY <1>2
  <2>2. b ^ k \in Nat \ {0} /\ b ^ (k + 1) = b * b ^ k
    BY <1>2, <2>1
  <2> QED BY <2>2
<1>3. T = Nat
  <2> HIDE DEF T
  <2> QED BY <1>1, <1>2, NatSets
<1>4. \A k \in 0 .. N : k \in T
  <2> HIDE DEF T
  <2> QED BY <1>3
<1> QED BY <1>4

\* Powers multiply by adding exponents.
LEMMA PowersAdd ==
    ASSUME NEW b \in Nat \ {0}, NEW N \in Nat, b ^ 0 = 1,
           \A k \in 0 .. N - 1 : b ^ (k + 1) = b * b ^ k,
           NEW i \in Nat, NEW j \in Nat, i + j <= N
    PROVE  b ^ (i + j) = b ^ i * b ^ j
<1> DEFINE T == {k \in Nat : i + k <= N => b ^ (i + k) = b ^ i * b ^ k}
<1>1. \A k \in 0 .. N : b ^ k \in Nat \ {0}
  BY PowersPositive
<1>2. T \subseteq Nat /\ 0 \in T
  BY <1>1
<1>3. ASSUME NEW k \in T PROVE k + 1 \in T
  <2> SUFFICES ASSUME i + (k + 1) <= N PROVE b ^ (i + (k + 1)) = b ^ i * b ^ (k + 1)
    BY <1>3
  <2>1. k \in Nat /\ k \in 0 .. N - 1 /\ i + k \in 0 .. N - 1 /\ i + (k + 1) = (i + k) + 1
    BY <1>3
  <2>2. /\ b ^ (k + 1) = b * b ^ k
        /\ b ^ ((i + k) + 1) = b * b ^ (i + k)
        /\ b ^ (i + k) = b ^ i * b ^ k
    BY <1>3, <2>1
  <2>3. b ^ i \in Nat /\ b ^ k \in Nat
    BY <1>1, <2>1
  <2> QED BY <2>1, <2>2, <2>3
<1>4. T = Nat
  <2> HIDE DEF T
  <2> QED BY <1>2, <1>3, NatSets
<1> QED BY <1>4

----------------------------------------------------------------------------
(* Numbers of four digits.                                                 *)

\* y0 is the number with the digits b0 to b3, lowest first; y1 and y2 are
\* without the first one and the first two.
FourDigits(r, b0, b1, b2, b3, y0, y1, y2) ==
    /\ r \in Nat \ {0}
    /\ b0 \in 0 .. r - 1 /\ b1 \in 0 .. r - 1 /\ b2 \in 0 .. r - 1 /\ b3 \in 0 .. r - 1
    /\ y0 = b0 + r * y1 /\ y1 = b1 + r * y2 /\ y2 = b2 + r * b3

\* The digits, taken out by divisions.
LEMMA DigitsTaken ==
    ASSUME NEW r, NEW b0, NEW b1, NEW b2, NEW b3, NEW y0, NEW y1, NEW y2,
           FourDigits(r, b0, b1, b2, b3, y0, y1, y2)
    PROVE  /\ y0 \div 1 = y0 /\ y0 \div r = y1
           /\ y0 \div (r * r) = y2 /\ y0 \div (r * (r * r)) = b3
           /\ y0 % r = b0 /\ y1 % r = b1 /\ y2 % r = b2 /\ b3 % r = b3
           /\ y0 % (r * r) = b0 + r * b1 /\ y2 % (r * r) = y2
           /\ y0 % (r * (r * (r * r))) = y0
<1>0. /\ r \in Nat \ {0}
      /\ b0 \in 0 .. r - 1 /\ b1 \in 0 .. r - 1 /\ b2 \in 0 .. r - 1 /\ b3 \in 0 .. r - 1
      /\ y0 = b0 + r * y1 /\ y1 = b1 + r * y2 /\ y2 = b2 + r * b3
  BY DEF FourDigits
<1> USE <1>0
<1> DEFINE r2 == r * r
           r3 == r * r2
           r4 == r * r3
<1>1. r2 \in Nat \ {0} /\ r3 \in Nat \ {0} /\ r4 \in Nat \ {0}
  OBVIOUS
<1>2. \A b \in 0 .. r - 1 : \A m \in Nat \ {0} : \A y \in 0 .. m - 1 :
         b + r * y \in 0 .. (r * m) - 1 /\ (b + r * y) \div r = y /\ (b + r * y) % r = b
  BY DigitBefore
<1>3. \A x \in Int : \A c, d \in Nat \ {0} :
         x \div (c * d) = (x \div c) \div d /\ x % (c * d) = c * ((x \div c) % d) + (x % c)
  BY DivByProducts
<1>4. \A d \in Nat \ {0} : \A x \in 0 .. d - 1 : x % d = x
  BY SmallMod
<1>5. y2 \in 0 .. r2 - 1 /\ y2 \div r = b3 /\ y2 % r = b2
  BY <1>2
<1> HIDE DEF r2
<1>6. y1 \in 0 .. r3 - 1 /\ y1 \div r = y2 /\ y1 % r = b1
  BY <1>1, <1>2, <1>5
<1> HIDE DEF r3
<1>7. y0 \in 0 .. r4 - 1 /\ y0 \div r = y1 /\ y0 % r = b0
  BY <1>1, <1>2, <1>6
<1> HIDE DEF r4
<1>8. y0 \in Int /\ y1 \in Int /\ y2 \in Int
  BY <1>1, <1>5, <1>6, <1>7
<1>9. y0 \div r2 = y2 /\ y0 % r2 = b0 + r * b1
  <2>1. y0 \div (r * r) = (y0 \div r) \div r /\ y0 % (r * r) = r * ((y0 \div r) % r) + (y0 % r)
    BY <1>3, <1>8
  <2>2. y0 \div r2 = y2 /\ y0 % r2 = r * b1 + b0
    BY <1>6, <1>7, <2>1 DEF r2
  <2> QED BY <2>2
<1>10. y0 \div r3 = b3
  <2>1. y0 \div (r * r2) = (y0 \div r) \div r2
    BY <1>1, <1>3, <1>8, ZenonT(40)
  <2>2. y1 \div (r * r) = (y1 \div r) \div r
    BY <1>3, <1>8
  <2> QED BY <1>5, <1>6, <1>7, <2>1, <2>2 DEF r2, r3
<1>11. y0 \div 1 = y0
  BY <1>8
<1>12. y2 % r2 = y2 /\ y0 % r4 = y0 /\ b3 % r = b3
  BY <1>1, <1>4, <1>5, <1>7
<1> QED BY <1>5, <1>6, <1>7, <1>9, <1>10, <1>11, <1>12 DEF r2, r3, r4

\* The lowest digits of any number.
LowestAre(r, v, c0, c1, c2, c3) ==
    /\ c0 \in 0 .. r - 1 /\ c1 \in 0 .. r - 1
    /\ c2 \in 0 .. r - 1 /\ c3 \in 0 .. r - 1
    /\ v % r = c0 /\ v % (r * r) = c0 + r * c1
    /\ v % (r * (r * (r * r))) = c0 + r * (c1 + r * (c2 + r * c3))

\* The lowest digits are the remainder.
LEMMA LowestDigits ==
    ASSUME NEW r \in Nat \ {0}, NEW v \in Int
    PROVE  LowestAre(r, v, (v \div 1) % r, (v \div r) % r,
                     (v \div (r * r)) % r, (v \div (r * (r * r))) % r)
<1> DEFINE r2 == r * r
           r3 == r * r2
           r4 == r * r3
           v1 == v \div r
           v2 == v1 \div r
           v3 == v2 \div r
           c0 == v % r
           c1 == v1 % r
           c2 == v2 % r
           c3 == v3 % r
<1>1. \A x \in Int : x \div r \in Int /\ x % r \in 0 .. r - 1
  BY DivMod
<1>2. \A x \in Int : \A c, d \in Nat \ {0} :
         x \div (c * d) = (x \div c) \div d /\ x % (c * d) = c * ((x \div c) % d) + (x % c)
  BY DivByProducts
<1>3. r2 \in Nat \ {0} /\ r3 \in Nat \ {0} /\ r4 \in Nat \ {0}
  OBVIOUS
<1>4. v1 \in Int /\ c0 \in 0 .. r - 1
  BY <1>1
<1> HIDE DEF v1
<1>5. v2 \in Int /\ c1 \in 0 .. r - 1
  BY <1>1, <1>4
<1> HIDE DEF v2
<1>6. v3 \in Int /\ c2 \in 0 .. r - 1
  BY <1>1, <1>5
<1> HIDE DEF v3
<1>7. c3 \in 0 .. r - 1
  BY <1>1, <1>6
<1> HIDE DEF c0, c1, c2, c3
<1>8. v \div r2 = v2 /\ v % r2 = c0 + r * c1 /\ v1 \div r2 = v3 /\ v1 % r2 = c1 + r * c2
      /\ v2 % r2 = c2 + r * c3
  <2>1. v \div (r * r) = v2 /\ v % (r * r) = r * c1 + c0
    BY <1>2 DEF v1, v2, c0, c1
  <2>2. v1 \div (r * r) = v3 /\ v1 % (r * r) = r * c2 + c1
    BY <1>2, <1>4 DEF v2, v3, c1, c2
  <2>3. v2 % (r * r) = r * c3 + c2
    BY <1>2, <1>5 DEF v3, c2, c3
  <2> QED BY <1>4, <1>5, <1>6, <1>7, <2>1, <2>2, <2>3 DEF r2
<1>9. v \div r3 = v3 /\ v1 % r3 = c1 + r * (c2 + r * c3)
  <2>1. v \div (r * r2) = (v \div r) \div r2 /\ v1 % (r * r2) = r * ((v1 \div r) % r2) + (v1 % r)
    BY <1>2, <1>3, <1>4
  <2>2. v \div r3 = v3 /\ v1 % r3 = r * (v2 % r2) + c1
    BY <1>8, <2>1 DEF r3, v1, v2, c1
  <2> QED BY <1>5, <1>6, <1>7, <1>8, <2>2
<1>10. v % r4 = c0 + r * (c1 + r * (c2 + r * c3))
  <2>1. v % (r * r3) = r * ((v \div r) % r3) + (v % r)
    BY <1>2, <1>3
  <2>2. v % r4 = r * (v1 % r3) + c0
    BY <2>1 DEF r4, v1, c0
  <2> QED BY <1>4, <1>5, <1>6, <1>7, <1>9, <2>2
<1>11. v \div 1 = v
  OBVIOUS
<1>12. LowestAre(r, v, c0, c1, c2, c3)
  BY <1>4, <1>5, <1>6, <1>7, <1>8, <1>10 DEF r2, r3, r4, c0, LowestAre
<1>13. /\ (v \div 1) % r = c0 /\ (v \div r) % r = c1
       /\ (v \div (r * r)) % r = c2 /\ (v \div (r * (r * r))) % r = c3
  BY <1>8, <1>9, <1>11 DEF r2, r3, c0, c1, c2, c3, v1
<1> QED BY <1>12, <1>13
=============================================================================
