----------------------------- MODULE DataLemmas -----------------------------
(***************************************************************************)
(* What the proofs keep needing about numbers, sums, sequences and the     *)
(* operators of the community modules that are defined by recursion.       *)
(*                                                                         *)
(* Induction is over sets rather than predicates: the library's theorem    *)
(* that a well-founded relation has minimal elements takes no operator,    *)
(* and with it a set that holds 0 and each successor holds every number.   *)
(* What is defined by recursion is shown to be the one solution of its     *)
(* equation, a function table, and its properties follow from that.        *)
(***************************************************************************)
EXTENDS Integers, FiniteSets, Sequences, SequencesExt, FiniteSetTheorems, SequenceTheorems,
        WellFoundedInduction, TLAPS

-----------------------------------------------------------------------------
(***************************************************************************)
(* Numbers.                                                                *)
(***************************************************************************)
LessThan == {p \in Nat \X Nat : p[1] < p[2]}

LEMMA LessThanIsWellFounded == IsWellFoundedOn(LessThan, Nat)
<1>1. OpToRel(<, Nat) = LessThan
  BY DEF OpToRel, LessThan
<1> QED
  BY <1>1, NatLessThanWellFounded

\* A set of numbers has a least one.
LEMMA LeastElement ==
  ASSUME NEW T, T \subseteq Nat, T # {}
  PROVE  \E n \in T : \A k \in T : n <= k
<1>1. PICK n \in T : \A k \in T : <<k, n>> \notin LessThan
  BY LessThanIsWellFounded, WFMin
<1>2. \A k \in T : ~(k < n)
  BY <1>1 DEF LessThan
<1> QED
  BY <1>2

\* Induction over the numbers.
LEMMA NatSetInduction ==
  ASSUME NEW S, 0 \in S, \A n \in Nat : n \in S => n + 1 \in S
  PROVE  Nat \subseteq S
<1>1. SUFFICES ASSUME Nat \ S # {} PROVE FALSE
  OBVIOUS
<1>2. PICK n \in Nat \ S : \A k \in Nat \ S : n <= k
  <2>1. Nat \ S \subseteq Nat
    OBVIOUS
  <2> QED
    BY <1>1, <2>1, LeastElement
<1>3. n # 0 /\ n - 1 \in Nat /\ n = (n - 1) + 1 /\ ~(n <= n - 1)
  OBVIOUS
<1>4. n - 1 \in S
  BY <1>2, <1>3
<1> QED
  BY <1>3, <1>4
-----------------------------------------------------------------------------
(***************************************************************************)
(* Numbers modulo another.                                                 *)
(***************************************************************************)
\* A number has one remainder.
LEMMA ModIsUnique ==
  ASSUME NEW b \in Nat \ {0}, NEW q \in Int, NEW r \in 0 .. b - 1,
         NEW p \in Int, NEW t \in 0 .. b - 1, b * q + r = b * p + t
  PROVE  r = t
<1>1. b * (q - p) = t - r
  OBVIOUS
<1>2. CASE q = p
  BY <1>1, <1>2
<1>3. CASE q > p
  <2>1. q - p >= 1
    BY <1>3
  <2>2. b * (q - p) >= b
    BY <2>1
  <2> QED
    BY <1>1, <2>2
<1>4. CASE q < p
  <2>1. p - q >= 1
    BY <1>4
  <2>2. b * (p - q) >= b
    BY <2>1
  <2>3. b * (p - q) = r - t
    BY <1>1
  <2> QED
    BY <2>2, <2>3
<1> QED
  BY <1>2, <1>3, <1>4

LEMMA ModParts ==
  ASSUME NEW b \in Nat \ {0}, NEW a \in Nat
  PROVE  /\ a \div b \in Int /\ a % b \in 0 .. b - 1
         /\ a = b * (a \div b) + (a % b)
OBVIOUS

\* Counting on from a remainder.
LEMMA ModAdd ==
  ASSUME NEW b \in Nat \ {0}, NEW a \in Nat, NEW k \in Nat
  PROVE  ((a % b) + k) % b = (a + k) % b
<1> DEFINE r == a % b
           q == a \div b
<1>1. q \in Int /\ r \in 0 .. b - 1 /\ a = b * q + r
  BY ModParts
<1>2. r + k \in Nat /\ a + k \in Nat
  BY <1>1
<1> HIDE DEF q, r
<1> DEFINE u == (r + k) \div b
           v == (a + k) \div b
           x == (r + k) % b
           y == (a + k) % b
<1>3. u \in Int /\ x \in 0 .. b - 1 /\ r + k = b * u + x
  BY <1>2, ModParts
<1>4. v \in Int /\ y \in 0 .. b - 1 /\ a + k = b * v + y
  BY <1>2, ModParts
<1> HIDE DEF u, v, x, y
<1> DEFINE w == q + u
<1>5. w \in Int /\ b * w + x = b * v + y
  BY <1>1, <1>3, <1>4
<1> HIDE DEF w
<1>6. x = y
  BY <1>3, <1>4, <1>5, ModIsUnique, Zenon
<1>7. (r + k) % b = (a + k) % b
  BY <1>6 DEF x, y
<1> QED
  BY <1>7, Zenon DEF r

-----------------------------------------------------------------------------
(***************************************************************************)
(* SumFunction.  Its table gives each subset of a finite set the sum over it.*)
(***************************************************************************)
Pick(T) == CHOOSE x \in T : TRUE

SumTable(f, S, g) ==
  g = [T \in S |-> IF T = {} THEN 0 ELSE f[Pick(T)] + g[T \ {Pick(T)}]]

UpTo(S, n) == {T \in SUBSET S : Cardinality(T) <= n}

\* Taking the chosen element away leaves a smaller set.
LEMMA PickedElement ==
  ASSUME NEW S, IsFiniteSet(S), NEW T \in SUBSET S, T # {}
  PROVE  /\ Pick(T) \in T
         /\ IsFiniteSet(T) /\ Cardinality(T) \in Nat /\ Cardinality(T) # 0
         /\ T \ {Pick(T)} \in SUBSET S
         /\ Cardinality(T \ {Pick(T)}) = Cardinality(T) - 1
<1>1. Pick(T) \in T
  BY DEF Pick
<1>2. IsFiniteSet(T)
  BY FS_Subset
<1>3. Cardinality(T) \in Nat /\ Cardinality(T) # 0
  BY <1>2, FS_CardinalityType, FS_EmptySet
<1>4. Cardinality(T \ {Pick(T)}) = Cardinality(T) - 1
  BY <1>1, <1>2, FS_RemoveElement
<1> QED
  BY <1>1, <1>2, <1>3, <1>4

\* There is a table for every finite set,
LEMMA SumTableExists ==
  ASSUME NEW f, NEW S, IsFiniteSet(S)
  PROVE  \E g : SumTable(f, SUBSET S, g)
<1> DEFINE Ns == {n \in Nat : \E g : SumTable(f, UpTo(S, n), g)}
<1>1. 0 \in Ns
  <2> DEFINE g == [T \in UpTo(S, 0) |-> 0]
  <2>1. ASSUME NEW T \in UpTo(S, 0) PROVE T = {}
    <3>1. T \in SUBSET S /\ Cardinality(T) <= 0
      BY DEF UpTo
    <3>2. T # {} => Cardinality(T) \in Nat /\ Cardinality(T) # 0
      BY <3>1, PickedElement
    <3> QED
      BY <3>1, <3>2
  <2>2. g = [T \in UpTo(S, 0) |-> IF T = {} THEN 0 ELSE f[Pick(T)] + g[T \ {Pick(T)}]]
    BY <2>1
  <2> HIDE DEF g
  <2>3. SumTable(f, UpTo(S, 0), g)
    BY <2>2 DEF SumTable
  <2> QED
    BY <2>3
<1>2. ASSUME NEW n \in Nat, n \in Ns PROVE n + 1 \in Ns
  <2>1. PICK g : SumTable(f, UpTo(S, n), g)
    BY <1>2
  <2> DEFINE h == [T \in UpTo(S, n + 1) |->
                     IF T = {} THEN 0 ELSE f[Pick(T)] + g[T \ {Pick(T)}]]
  <2>2. ASSUME NEW T \in UpTo(S, n + 1), T # {}
        PROVE  /\ T \ {Pick(T)} \in UpTo(S, n)
               /\ T \ {Pick(T)} \in UpTo(S, n + 1)
    BY <2>2, PickedElement DEF UpTo
  <2>3. ASSUME NEW T \in UpTo(S, n) PROVE g[T] = IF T = {} THEN 0 ELSE f[Pick(T)] + g[T \ {Pick(T)}]
    BY <2>1 DEF SumTable
  <2>4. ASSUME NEW T \in UpTo(S, n), T \in UpTo(S, n+1) PROVE h[T] = g[T]
    BY <2>3, <2>4
  <2>5. h = [T \in UpTo(S, n + 1) |->
                     IF T = {} THEN 0 ELSE f[Pick(T)] + h[T \ {Pick(T)}]]
    <3>1. ASSUME NEW T \in UpTo(S, n + 1), T # {}
          PROVE  h[T \ {Pick(T)}] = g[T \ {Pick(T)}]
      BY <2>2, <2>4, <3>1
    <3> QED
      BY <3>1
  <2> HIDE DEF h
  <2>6. SumTable(f, UpTo(S, n + 1), h)
    BY <2>5 DEF SumTable
  <2> QED
    BY <2>6
<1>3. Cardinality(S) \in Nat
  BY FS_CardinalityType
<1>4. Nat \subseteq Ns
  <2> HIDE DEF Ns
  <2> QED
    BY <1>1, <1>2, NatSetInduction
<1>5. UpTo(S, Cardinality(S)) = SUBSET S
  BY FS_Subset DEF UpTo
<1> QED
  BY <1>3, <1>4, <1>5

\* two tables agree where both have an entry,
LEMMA SumTableUnique ==
  ASSUME NEW f, NEW S, IsFiniteSet(S), NEW R \in SUBSET S, NEW g, NEW h,
         SumTable(f, SUBSET S, g), SumTable(f, SUBSET R, h)
  PROVE  g[R] = h[R]
<1> DEFINE Ns == {n \in Nat : \A T \in SUBSET R : Cardinality(T) = n => g[T] = h[T]}
<1>1. \A T \in SUBSET S : g[T] = IF T = {} THEN 0 ELSE f[Pick(T)] + g[T \ {Pick(T)}]
  BY DEF SumTable
<1>2. \A T \in SUBSET R : h[T] = IF T = {} THEN 0 ELSE f[Pick(T)] + h[T \ {Pick(T)}]
  BY DEF SumTable
<1>3. IsFiniteSet(R) /\ Cardinality(R) \in Nat
  BY FS_Subset, FS_CardinalityType
<1>4. 0 \in Ns
  <2>1. \A T \in SUBSET R : Cardinality(T) = 0 => T = {}
    BY <1>3, PickedElement
  <2> QED
    BY <1>1, <1>2, <2>1
<1>5. ASSUME NEW n \in Nat, n \in Ns PROVE n + 1 \in Ns
  <2>1. SUFFICES ASSUME NEW T \in SUBSET R, Cardinality(T) = n + 1 PROVE g[T] = h[T]
    OBVIOUS
  <2>2. T # {}
    <3>1. Cardinality({}) = 0
      BY FS_EmptySet
    <3>2. n + 1 # 0
      OBVIOUS
    <3> QED
      BY <2>1, <3>1, <3>2
  <2>3. T \ {Pick(T)} \in SUBSET R /\ Cardinality(T \ {Pick(T)}) = n
    BY <1>3, <2>1, <2>2, PickedElement
  <2>4. g[T \ {Pick(T)}] = h[T \ {Pick(T)}]
    BY <1>5, <2>3
  <2> QED
    BY <1>1, <1>2, <2>2, <2>4
<1>6. Nat \subseteq Ns
  <2> HIDE DEF Ns
  <2> QED
    BY <1>4, <1>5, NatSetInduction
<1> QED
  BY <1>3, <1>6

\* and a sum is found in any of them.
LEMMA SumIsInTable ==
  ASSUME NEW f, NEW S, IsFiniteSet(S), NEW g, SumTable(f, SUBSET S, g)
  PROVE  SumFunctionOnSet(f, S) = g[S]
<1> DEFINE iter == CHOOSE h : h = [T \in SUBSET S |->
                     IF T = {} THEN 0 ELSE f[Pick(T)] + h[T \ {Pick(T)}]]
<1>1. SumFunctionOnSet(f, S) = iter[S]
  BY Zenon DEF SumFunctionOnSet, FoldFunctionOnSet, MapThenFoldSet, Pick
<1>2. SumTable(f, SUBSET S, iter)
  BY Zenon DEF SumTable
<1> HIDE DEF iter
<1> QED
  BY <1>1, <1>2, SumTableUnique

\* The defining equation of a sum.
LEMMA SumEquation ==
  ASSUME NEW f, NEW S, IsFiniteSet(S), S # {}
  PROVE  SumFunctionOnSet(f, S) = f[Pick(S)] + SumFunctionOnSet(f, S \ {Pick(S)})
<1>1. PICK g : SumTable(f, SUBSET S, g)
  BY SumTableExists
<1>2. Pick(S) \in S /\ S \ {Pick(S)} \in SUBSET S /\ IsFiniteSet(S \ {Pick(S)})
  BY PickedElement, FS_Subset
<1>3. PICK h : SumTable(f, SUBSET (S \ {Pick(S)}), h)
  BY <1>2, SumTableExists
<1>4. h[S \ {Pick(S)}] = g[S \ {Pick(S)}]
  <2> DEFINE R == S \ {Pick(S)}
  <2>1. R \in SUBSET S /\ SumTable(f, SUBSET R, h)
    BY <1>3
  <2> HIDE DEF R
  <2>2. g[R] = h[R]
    BY <1>1, <2>1, SumTableUnique
  <2> QED
    BY <2>2 DEF R
<1>5. g[S] = f[Pick(S)] + g[S \ {Pick(S)}]
  BY <1>1 DEF SumTable
<1> QED
  BY <1>1, <1>2, <1>3, <1>4, <1>5, SumIsInTable

LEMMA SumOfEmptySet ==
  ASSUME NEW f
  PROVE  SumFunctionOnSet(f, {}) = 0
<1>1. IsFiniteSet({})
  BY FS_EmptySet
<1>2. PICK g : SumTable(f, SUBSET {}, g)
  BY <1>1, SumTableExists
<1>3. g[{}] = 0
  BY <1>2 DEF SumTable
<1> QED
  BY <1>1, <1>2, <1>3, SumIsInTable

\* Induction over finite sets, for the subsets of one of them.
LEMMA SubsetInduction ==
  ASSUME NEW S, IsFiniteSet(S), NEW Good,
         {} \in Good,
         \A T \in SUBSET S : T # {} /\ (\A x \in T : T \ {x} \in Good) => T \in Good
  PROVE  S \in Good
<1> DEFINE Ns == {n \in Nat : \A T \in SUBSET S : Cardinality(T) = n => T \in Good}
<1>1. 0 \in Ns
  BY PickedElement
<1>2. ASSUME NEW n \in Nat, n \in Ns PROVE n + 1 \in Ns
  <2>1. SUFFICES ASSUME NEW T \in SUBSET S, Cardinality(T) = n + 1 PROVE T \in Good
    OBVIOUS
  <2>2. IsFiniteSet(T) /\ T # {}
    <3>1. Cardinality({}) = 0
      BY FS_EmptySet
    <3>2. n + 1 # 0
      OBVIOUS
    <3> QED
      BY <2>1, <3>1, <3>2, FS_Subset
  <2>3. ASSUME NEW x \in T PROVE T \ {x} \in Good
    <3>1. Cardinality(T \ {x}) = Cardinality(T) - 1
      BY <2>2, FS_RemoveElement
    <3>2. Cardinality(T \ {x}) = n
      BY <2>1, <3>1
    <3> QED
      BY <1>2, <3>2
  <2> QED
    BY <2>2, <2>3
<1>3. Cardinality(S) \in Nat
  BY FS_CardinalityType
<1>4. Nat \subseteq Ns
  <2> HIDE DEF Ns
  <2> QED
    BY <1>1, <1>2, NatSetInduction
<1> QED
  BY <1>3, <1>4

\* The equation for a part of a finite set.
LEMMA SumOfSubset ==
  ASSUME NEW f, NEW S, IsFiniteSet(S), NEW T \in SUBSET S, T # {}
  PROVE  /\ Pick(T) \in T /\ IsFiniteSet(T)
         /\ SumFunctionOnSet(f, T) = f[Pick(T)] + SumFunctionOnSet(f, T \ {Pick(T)})
<1>1. Pick(T) \in T /\ IsFiniteSet(T)
  BY PickedElement
<1> QED
  BY <1>1, SumEquation

\* A sum of numbers is a number.
LEMMA SumIsNat ==
  ASSUME NEW f, NEW S, IsFiniteSet(S), \A x \in S : f[x] \in Nat
  PROVE  SumFunctionOnSet(f, S) \in Nat
<1> DEFINE Good == {T \in SUBSET S : SumFunctionOnSet(f, T) \in Nat}
<1>1. {} \in Good
  BY SumOfEmptySet
<1>2. ASSUME NEW T \in SUBSET S, T # {}, \A x \in T : T \ {x} \in Good
      PROVE  T \in Good
  <2>1. /\ Pick(T) \in T /\ IsFiniteSet(T)
        /\ SumFunctionOnSet(f, T) = f[Pick(T)] + SumFunctionOnSet(f, T \ {Pick(T)})
    BY <1>2, SumOfSubset
  <2>2. T \ {Pick(T)} \in Good
    BY <1>2, <2>1
  <2> QED
    BY <2>1, <2>2
<1> HIDE DEF Good
<1>3. S \in Good
  BY <1>1, <1>2, SubsetInduction
<1> QED
  BY <1>3 DEF Good

\* A sum does not depend on the order of its terms: any of them may be taken first.
LEMMA SumRemoveElement ==
  ASSUME NEW f, NEW S, IsFiniteSet(S), \A x \in S : f[x] \in Nat, NEW z \in S
  PROVE  SumFunctionOnSet(f, S) = f[z] + SumFunctionOnSet(f, S \ {z})
<1> DEFINE Sum(T) == SumFunctionOnSet(f, T)
           Good == {T \in SUBSET S : \A x \in T : Sum(T) = f[x] + Sum(T \ {x})}
<1>1. {} \in Good
  OBVIOUS
<1>2. ASSUME NEW T \in SUBSET S, T # {}, \A x \in T : T \ {x} \in Good
      PROVE  T \in Good
  <2>1. SUFFICES ASSUME NEW x \in T, x # Pick(T) PROVE Sum(T) = f[x] + Sum(T \ {x})
    BY <1>2, SumOfSubset
  <2> DEFINE y == Pick(T)
             R == (T \ {x}) \ {y}
  <2>2. y \in T /\ x \in T \ {y} /\ y \in T \ {x} /\ R = (T \ {y}) \ {x}
    BY <1>2, <2>1, PickedElement
  <2>3. IsFiniteSet(T) /\ IsFiniteSet(R) /\ R \in SUBSET S
    BY FS_Subset
  <2>4. Sum(T) = f[y] + Sum(T \ {y})
    BY <1>2, <2>3, SumEquation
  <2>5. Sum(T \ {y}) = f[x] + Sum(R)
    BY <1>2, <2>2
  <2>6. Sum(T \ {x}) = f[y] + Sum(R)
    BY <1>2, <2>2
  <2>7. Sum(R) \in Nat /\ f[x] \in Nat /\ f[y] \in Nat
    BY <2>2, <2>3, SumIsNat
  <2> HIDE DEF Sum, R, y
  <2> QED
    BY <2>4, <2>5, <2>6, <2>7
<1> HIDE DEF Good
<1>3. S \in Good
  BY <1>1, <1>2, SubsetInduction
<1> QED
  BY <1>3 DEF Good

\* It depends on the terms alone.
LEMMA SumSameTerms ==
  ASSUME NEW f, NEW g, NEW S, IsFiniteSet(S), \A x \in S : f[x] = g[x]
  PROVE  SumFunctionOnSet(f, S) = SumFunctionOnSet(g, S)
<1> DEFINE Good == {T \in SUBSET S : SumFunctionOnSet(f, T) = SumFunctionOnSet(g, T)}
<1>1. {} \in Good
  BY SumOfEmptySet
<1>2. ASSUME NEW T \in SUBSET S, T # {}, \A x \in T : T \ {x} \in Good
      PROVE  T \in Good
  <2>1. /\ Pick(T) \in T /\ IsFiniteSet(T)
        /\ SumFunctionOnSet(f, T) = f[Pick(T)] + SumFunctionOnSet(f, T \ {Pick(T)})
    BY <1>2, SumOfSubset
  <2>2. T \ {Pick(T)} \in Good
    BY <1>2, <2>1
  <2>3. SumFunctionOnSet(g, T) = g[Pick(T)] + SumFunctionOnSet(g, T \ {Pick(T)})
    BY <1>2, SumOfSubset
  <2> QED
    BY <2>1, <2>2, <2>3
<1> HIDE DEF Good
<1>3. S \in Good
  BY <1>1, <1>2, SubsetInduction
<1> QED
  BY <1>3 DEF Good

\* A sum of ones counts them.
LEMMA SumOfOnes ==
  ASSUME NEW f, NEW S, IsFiniteSet(S), \A x \in S : f[x] = 1
  PROVE  SumFunctionOnSet(f, S) = Cardinality(S)
<1> DEFINE Good == {T \in SUBSET S : SumFunctionOnSet(f, T) = Cardinality(T)}
<1>1. {} \in Good
  BY SumOfEmptySet, FS_EmptySet
<1>2. ASSUME NEW T \in SUBSET S, T # {}, \A x \in T : T \ {x} \in Good
      PROVE  T \in Good
  <2>1. /\ Pick(T) \in T /\ IsFiniteSet(T)
        /\ SumFunctionOnSet(f, T) = f[Pick(T)] + SumFunctionOnSet(f, T \ {Pick(T)})
    BY <1>2, SumOfSubset
  <2>2. T \ {Pick(T)} \in Good
    BY <1>2, <2>1
  <2>3. Cardinality(T \ {Pick(T)}) = Cardinality(T) - 1 /\ Cardinality(T) \in Nat
    BY <1>2, PickedElement
  <2> QED
    BY <2>1, <2>2, <2>3
<1> HIDE DEF Good
<1>3. S \in Good
  BY <1>1, <1>2, SubsetInduction
<1> QED
  BY <1>3 DEF Good

-----------------------------------------------------------------------------
(***************************************************************************)
(* Initial parts of the numbers.                                           *)
(***************************************************************************)
LEMMA IntervalIsFinite ==
  ASSUME NEW n \in Nat
  PROVE  IsFiniteSet(1 .. n) /\ Cardinality(1 .. n) = n
<1>1. 1 \in Int /\ n \in Int
  OBVIOUS
<1>2. IsFiniteSet(1 .. n) /\ Cardinality(1 .. n) = IF 1 > n THEN 0 ELSE n - 1 + 1
  BY <1>1, FS_Interval
<1> QED
  BY <1>2

\* What a fold over a sequence goes by: the last position of what is left of it.
LEMMA OnlyEmptySet ==
  ASSUME NEW S, IsFiniteSet(S), NEW T \in UpTo(S, 0)
  PROVE  T = {}
<1>1. T \in SUBSET S /\ Cardinality(T) <= 0
  BY DEF UpTo
<1>2. T # {} => Cardinality(T) \in Nat /\ Cardinality(T) # 0
  BY <1>1, PickedElement
<1> QED
  BY <1>1, <1>2

LEMMA MaxIsIn ==
  ASSUME NEW n \in Nat, NEW T \in SUBSET (1 .. n), T # {}
  PROVE  Max(T) \in T /\ \A k \in T : k <= Max(T)
<1> DEFINE R == {n - k : k \in T}
<1>0. PICK t : t \in T
  OBVIOUS
<1>1. R \subseteq Nat /\ R # {}
  <2>1. \A k \in T : n - k \in Nat
    OBVIOUS
  <2>2. n - t \in R
    BY <1>0
  <2> QED
    BY <2>1, <2>2
<1> HIDE DEF R
<1>2. PICK r \in R : \A q \in R : r <= q
  BY <1>1, LeastElement
<1>3. PICK k \in T : r = n - k
  BY <1>2 DEF R
<1>4. ASSUME NEW l \in T PROVE k >= l
  <2>1. n - l \in R
    BY DEF R
  <2>2. n - k <= n - l
    BY <1>2, <1>3, <2>1
  <2> QED
    BY <2>2
<1>5. Max(T) \in T /\ \A l \in T : Max(T) >= l
  BY <1>4, Zenon DEF Max
<1> QED
  BY <1>5

LEMMA WithoutMax ==
  ASSUME NEW n \in Nat, NEW k \in Nat, NEW T \in UpTo(1 .. n, k + 1), T # {}
  PROVE  T \ {Max(T)} \in UpTo(1 .. n, k) /\ T \ {Max(T)} \in UpTo(1 .. n, k + 1)
<1>1. T \in SUBSET (1 .. n) /\ Cardinality(T) <= k + 1
  BY DEF UpTo
<1>2. IsFiniteSet(1 .. n) /\ IsFiniteSet(T)
  BY <1>1, IntervalIsFinite, FS_Subset
<1>3. Max(T) \in T
  BY <1>1, MaxIsIn
<1>4. Cardinality(T \ {Max(T)}) = Cardinality(T) - 1 /\ Cardinality(T) \in Nat
  BY <1>2, <1>3, FS_RemoveElement, FS_CardinalityType
<1>5. Cardinality(T \ {Max(T)}) <= k /\ Cardinality(T \ {Max(T)}) <= k + 1
  BY <1>1, <1>4
<1>6. T \ {Max(T)} \in SUBSET (1 .. n)
  BY <1>1
<1> QED
  BY <1>5, <1>6, Zenon DEF UpTo

LEMMA UpToAll ==
  ASSUME NEW n \in Nat
  PROVE  UpTo(1 .. n, n) = SUBSET (1 .. n)
<1>1. IsFiniteSet(1 .. n) /\ Cardinality(1 .. n) = n
  BY IntervalIsFinite
<1> QED
  BY <1>1, FS_Subset DEF UpTo

-----------------------------------------------------------------------------
(***************************************************************************)
(* Sequences of anything.                                                  *)
(***************************************************************************)
IsSeq(q) == \E S : q \in Seq(S)

LEMMA SeqDomain ==
  ASSUME NEW q, IsSeq(q)
  PROVE  Len(q) \in Nat /\ DOMAIN q = 1 .. Len(q)
BY DEF IsSeq

LEMMA SeqAppend ==
  ASSUME NEW q, IsSeq(q), NEW e
  PROVE  /\ IsSeq(Append(q, e)) /\ Len(Append(q, e)) = Len(q) + 1
         /\ \A i \in 1 .. Len(q) : Append(q, e)[i] = q[i]
         /\ Append(q, e)[Len(q) + 1] = e
<1>1. PICK S : q \in Seq(S)
  BY DEF IsSeq
<1>2. q \in Seq(S \union {e})
  BY <1>1
<1> QED
  BY <1>2 DEF IsSeq

LEMMA SeqConcat ==
  ASSUME NEW q, IsSeq(q), NEW r, IsSeq(r)
  PROVE  /\ IsSeq(q \o r) /\ Len(q \o r) = Len(q) + Len(r)
         /\ \A i \in 1 .. Len(q) + Len(r) :
              (q \o r)[i] = IF i <= Len(q) THEN q[i] ELSE r[i - Len(q)]
<1>1. PICK S, T : q \in Seq(S) /\ r \in Seq(T)
  BY DEF IsSeq
<1>2. q \in Seq(S \union T) /\ r \in Seq(S \union T)
  BY <1>1
<1> QED
  BY <1>2 DEF IsSeq

LEMMA SeqEmpty == IsSeq(<< >>) /\ Len(<< >>) = 0
BY DEF IsSeq

LEMMA EmptyDomain == DOMAIN << >> = {}
<1>1. DOMAIN << >> = 1 .. Len(<< >>) /\ Len(<< >>) = 0
  BY SeqEmpty, SeqDomain
<1>2. 1 .. 0 = {}
  OBVIOUS
<1> QED
  BY <1>1, <1>2

LEMMA SeqSingle ==
  ASSUME NEW e
  PROVE  IsSeq(<<e>>) /\ Len(<<e>>) = 1 /\ <<e>>[1] = e
<1>1. <<e>> \in Seq({e})
  OBVIOUS
<1> QED
  BY <1>1 DEF IsSeq

LEMMA SeqTail ==
  ASSUME NEW q, IsSeq(q), q # << >>
  PROVE  /\ Len(q) \in Nat \ {0} /\ Head(q) = q[1]
         /\ IsSeq(Tail(q)) /\ Len(Tail(q)) = Len(q) - 1
         /\ \A i \in 1 .. Len(q) - 1 : Tail(q)[i] = q[i + 1]
<1>1. PICK S : q \in Seq(S)
  BY DEF IsSeq
<1>2. Len(q) \in Nat \ {0} /\ Head(q) = q[1]
  BY <1>1
<1>3. Tail(q) \in Seq(S) /\ Len(Tail(q)) = Len(q) - 1
  BY <1>1, <1>2
<1>4. \A i \in 1 .. Len(q) - 1 : Tail(q)[i] = q[i + 1]
  BY <1>1, <1>2
<1> QED
  BY <1>2, <1>3, <1>4 DEF IsSeq

LEMMA SeqFunction ==
  ASSUME NEW n \in Nat, NEW f, DOMAIN f = 1 .. n, f = [i \in 1 .. n |-> f[i]]
  PROVE  IsSeq(f) /\ Len(f) = n
<1> DEFINE S == {f[i] : i \in 1 .. n}
<1>1. f \in [1 .. n -> S]
  OBVIOUS
<1>2. f \in Seq(S)
  BY <1>1
<1>3. Len(f) \in Nat /\ 1 .. Len(f) = 1 .. n
  BY <1>2
<1>4. Len(f) = n
  BY <1>3
<1> QED
  BY <1>2, <1>4 DEF IsSeq

LEMMA SeqExcept ==
  ASSUME NEW q, IsSeq(q), NEW k \in 1 .. Len(q), NEW e
  PROVE  /\ IsSeq([q EXCEPT ![k] = e]) /\ Len([q EXCEPT ![k] = e]) = Len(q)
         /\ [q EXCEPT ![k] = e][k] = e
         /\ \A i \in 1 .. Len(q) : i # k => [q EXCEPT ![k] = e][i] = q[i]
<1> DEFINE f == [q EXCEPT ![k] = e]
<1>1. Len(q) \in Nat /\ DOMAIN q = 1 .. Len(q)
  BY SeqDomain
<1>2. DOMAIN f = 1 .. Len(q) /\ f = [i \in 1 .. Len(q) |-> f[i]]
  BY <1>1
<1>3. IsSeq(f) /\ Len(f) = Len(q)
  <2> HIDE DEF f
  <2> QED
    BY <1>1, <1>2, SeqFunction
<1> QED
  BY <1>1, <1>3

\* Sequences with the same elements are equal.
LEMMA SeqExtensional ==
  ASSUME NEW q, IsSeq(q), NEW r, IsSeq(r), Len(q) = Len(r),
         \A i \in 1 .. Len(q) : q[i] = r[i]
  PROVE  q = r
<1>1. PICK S, T : q \in Seq(S) /\ r \in Seq(T)
  BY DEF IsSeq
<1>2. q \in [1 .. Len(q) -> S] /\ r \in [1 .. Len(q) -> T]
  BY <1>1
<1> QED
  BY <1>2

\* A subsequence, element by element, and the whole of a sequence.
LEMMA SubSeqIs ==
  ASSUME NEW q, IsSeq(q), NEW a \in Nat \ {0}, NEW b \in Nat, b <= Len(q), a <= b + 1,
         NEW r, IsSeq(r), Len(r) = b + 1 - a, \A i \in 1 .. Len(r) : r[i] = q[a + i - 1]
  PROVE  SubSeq(q, a, b) = r
<1>1. PICK S : q \in Seq(S)
  BY DEF IsSeq
<1>2. PICK T : r \in Seq(T)
  BY DEF IsSeq
<1>3. SubSeq(q, a, b) = [i \in 1 .. b + 1 - a |-> q[a + i - 1]]
  BY <1>1
<1>4. r = [i \in 1 .. b + 1 - a |-> r[i]]
  BY <1>2
<1> QED
  BY <1>3, <1>4

LEMMA WholeSubSeq ==
  ASSUME NEW q, IsSeq(q)
  PROVE  SubSeq(q, 0 + 1, Len(q)) = q
<1>1. PICK S : q \in Seq(S)
  BY DEF IsSeq
<1>2. SubSeq(q, 1, Len(q)) = [i \in 1 .. Len(q) |-> q[i]]
  BY <1>1
<1> QED
  BY <1>1, <1>2

\* A subsequence is no longer than its bounds are apart.
LEMMA SubSeqFits ==
  ASSUME NEW q, IsSeq(q), NEW a \in Nat \ {0}, NEW b \in 0 .. Len(q), NEW m \in Nat, b + 1 - a <= m
  PROVE  IsSeq(SubSeq(q, a, b)) /\ Len(SubSeq(q, a, b)) \in 0 .. m
<1>1. PICK S : q \in Seq(S)
  BY DEF IsSeq
<1>2. Len(q) \in Nat
  BY SeqDomain
<1>3. CASE a <= b
  <2>1. SubSeq(q, a, b) \in Seq(S) /\ Len(SubSeq(q, a, b)) = b + 1 - a
    BY <1>1, <1>2, <1>3
  <2> QED
    BY <1>2, <1>3, <2>1 DEF IsSeq
<1>4. CASE ~(a <= b)
  <2>1. SubSeq(q, a, b) = << >>
    BY <1>1, <1>2, <1>4
  <2> QED
    BY <2>1, SeqEmpty
<1> QED
  BY <1>3, <1>4

LEMMA SubSeqFirst ==
  ASSUME NEW q, IsSeq(q), NEW a \in Nat \ {0}, a <= Len(q)
  PROVE  /\ SubSeq(q, a, Len(q)) # << >>
         /\ SubSeq(q, a, Len(q))[1] = q[a]
<1>1. PICK S : q \in Seq(S)
  BY DEF IsSeq
<1>2. SubSeq(q, a, Len(q))[1] = q[a] /\ Len(SubSeq(q, a, Len(q))) = Len(q) + 1 - a
  BY <1>1
<1> QED
  BY <1>1, <1>2

-----------------------------------------------------------------------------
(***************************************************************************)
(* FlattenSeq.  Its table gives each prefix of the list the concatenation. *)
(***************************************************************************)
FlattenTable(qs, n, g) == g = [i \in 1 .. n |-> IF i = 1 THEN qs[i] ELSE g[i - 1] \o qs[i]]

\* The equation has one solution,
LEMMA FlattenTableUnique ==
  ASSUME NEW qs, NEW n \in Nat, NEW g, NEW h, FlattenTable(qs, n, g), FlattenTable(qs, n, h)
  PROVE  \A i \in 1 .. n : g[i] = h[i]
<1> DEFINE Ns == {i \in Nat : i \in 1 .. n => g[i] = h[i]}
<1>1. \A i \in 1 .. n : g[i] = IF i = 1 THEN qs[i] ELSE g[i - 1] \o qs[i]
  BY DEF FlattenTable
<1>2. \A i \in 1 .. n : h[i] = IF i = 1 THEN qs[i] ELSE h[i - 1] \o qs[i]
  BY DEF FlattenTable
<1>3. 0 \in Ns
  OBVIOUS
<1>4. ASSUME NEW i \in Nat, i \in Ns PROVE i + 1 \in Ns
  <2>1. CASE i = 0
    BY <1>1, <1>2, <2>1
  <2>2. CASE i # 0 /\ i + 1 \in 1 .. n
    <3>1. i \in 1 .. n /\ i + 1 # 1 /\ (i + 1) - 1 = i
      BY <2>2
    <3>2. g[i] = h[i]
      BY <1>4, <3>1
    <3>3. g[i + 1] = g[i] \o qs[i + 1]
      BY <1>1, <2>2, <3>1
    <3>4. h[i + 1] = h[i] \o qs[i + 1]
      BY <1>2, <2>2, <3>1
    <3>5. g[i + 1] = h[i + 1]
      BY <3>2, <3>3, <3>4
    <3> QED
      BY <3>5
  <2> QED
    BY <2>1, <2>2
<1>5. Nat \subseteq Ns
  <2> HIDE DEF Ns
  <2> QED
    BY <1>3, <1>4, NatSetInduction
<1> QED
  BY <1>5

\* in which the flattened list is found.
LEMMA FlattenIsInTable ==
  ASSUME NEW qs, Len(qs) \in Nat \ {0}, NEW g, FlattenTable(qs, Len(qs), g)
  PROVE  FlattenSeq(qs) = g[Len(qs)]
<1> DEFINE flatten == CHOOSE h : h = [i \in 1 .. Len(qs) |->
                        IF i = 1 THEN qs[i] ELSE h[i - 1] \o qs[i]]
<1>1. FlattenSeq(qs) = flatten[Len(qs)]
  BY Zenon DEF FlattenSeq
<1>2. FlattenTable(qs, Len(qs), flatten)
  BY Zenon DEF FlattenTable
<1> HIDE DEF flatten
<1>3. Len(qs) \in 1 .. Len(qs)
  OBVIOUS
<1> QED
  BY <1>1, <1>2, <1>3, FlattenTableUnique

\* The parts of a sequence, one by one, make the sequence.
LEMMA FlattenSingles ==
  ASSUME NEW n \in Nat, NEW s
  PROVE  FlattenSeq([i \in 1 .. n |-> <<s[i]>>]) = [i \in 1 .. n |-> s[i]]
<1> DEFINE qs == [i \in 1 .. n |-> <<s[i]>>]
           first(i) == [k \in 1 .. i |-> s[k]]
           g == [i \in 1 .. n |-> first(i)]
<1>1. IsSeq(qs) /\ Len(qs) = n
  <2>1. DOMAIN qs = 1 .. n /\ qs = [i \in 1 .. n |-> qs[i]]
    OBVIOUS
  <2> HIDE DEF qs
  <2> QED
    BY <2>1, SeqFunction
<1>2. CASE n = 0
  <2>1. FlattenSeq(qs) = qs
    BY <1>1, <1>2 DEF FlattenSeq
  <2> QED
    BY <1>2, <2>1
<1>3. CASE n # 0
  <2>1. ASSUME NEW i \in Nat
        PROVE  IsSeq(first(i)) /\ Len(first(i)) = i /\ \A k \in 1 .. i : first(i)[k] = s[k]
    <3> DEFINE f == first(i)
    <3>1. DOMAIN f = 1 .. i /\ f = [k \in 1 .. i |-> f[k]] /\ \A k \in 1 .. i : f[k] = s[k]
      OBVIOUS
    <3> HIDE DEF f
    <3>2. IsSeq(f) /\ Len(f) = i
      BY <3>1, SeqFunction
    <3> QED
      BY <3>1, <3>2 DEF f
  <2> HIDE DEF first
  <2>2. ASSUME NEW i \in 1 .. n
        PROVE  first(i) = IF i = 1 THEN <<s[i]>> ELSE first(i - 1) \o <<s[i]>>
    <3>1. IsSeq(<<s[i]>>) /\ Len(<<s[i]>>) = 1 /\ <<s[i]>>[1] = s[i]
      BY SeqSingle
    <3>2. CASE i = 1
      <4> DEFINE q == <<s[i]>>
      <4>1. IsSeq(q) /\ Len(q) = 1 /\ q[1] = s[1]
        BY <3>1, <3>2
      <4>2. IsSeq(first(1)) /\ Len(first(1)) = 1 /\ first(1)[1] = s[1]
        BY <2>1
      <4>3. \A k \in 1 .. 1 : first(1)[k] = q[k]
        BY <4>1, <4>2
      <4> HIDE DEF q
      <4>4. first(1) = q
        BY <4>1, <4>2, <4>3, SeqExtensional
      <4> QED
        BY <3>2, <4>4 DEF q
    <3>3. CASE i # 1
      <4> DEFINE q == first(i - 1) \o <<s[i]>>
      <4>1. i - 1 \in Nat
        OBVIOUS
      <4>2. IsSeq(first(i - 1)) /\ Len(first(i - 1)) = i - 1
        BY <2>1, <4>1
      <4>3. IsSeq(q) /\ Len(q) = i
            /\ \A k \in 1 .. i : q[k] = IF k <= i - 1 THEN first(i - 1)[k] ELSE <<s[i]>>[k - (i - 1)]
        <5>1. (i - 1) + 1 = i
          OBVIOUS
        <5> QED
          BY <3>1, <4>2, <5>1, SeqConcat
      <4>4. \A k \in 1 .. i : q[k] = s[k]
        <5>1. ASSUME NEW k \in 1 .. i PROVE q[k] = s[k]
          <6>1. CASE k <= i - 1
            <7>1. k \in 1 .. i - 1
              BY <6>1
            <7>2. first(i - 1)[k] = s[k]
              BY <2>1, <4>1, <7>1
            <7>3. q[k] = first(i - 1)[k]
              BY <4>3, <6>1
            <7> QED
              BY <7>2, <7>3
          <6>2. CASE k = i
            <7>1. ~(k <= i - 1) /\ k - (i - 1) = 1
              BY <6>2
            <7> QED
              BY <3>1, <4>3, <6>2, <7>1
          <6>3. k <= i - 1 \/ k = i
            OBVIOUS
          <6> QED
            BY <6>1, <6>2, <6>3
        <5> QED
          BY <5>1
      <4> HIDE DEF q
      <4>5. first(i) = q
        BY <2>1, <4>3, <4>4, SeqExtensional
      <4> QED
        BY <3>3, <4>5 DEF q
    <3> QED
      BY <3>2, <3>3
  <2>3. \A i \in 1 .. n : qs[i] = <<s[i]>>
    OBVIOUS
  <2>4. \A i \in 1 .. n : i # 1 => i - 1 \in 1 .. n /\ g[i - 1] = first(i - 1)
    OBVIOUS
  <2>5. g = [i \in 1 .. n |-> IF i = 1 THEN qs[i] ELSE g[i - 1] \o qs[i]]
    <3>1. \A i \in 1 .. n : first(i) = IF i = 1 THEN qs[i] ELSE g[i - 1] \o qs[i]
      <4> HIDE DEF g, qs
      <4> QED
        BY <2>2, <2>3, <2>4
    <3> QED
      BY <3>1
  <2>6. g[n] = first(n)
    BY <1>3
  <2>7. FlattenSeq(qs) = g[n]
    <3> HIDE DEF g, qs
    <3> QED
      BY <1>1, <1>3, <2>5, FlattenIsInTable DEF FlattenTable
  <2> QED
    BY <2>6, <2>7 DEF first
<1> QED
  BY <1>2, <1>3

\* Every list of sequences has a table.
LEMMA FlattenTableExists ==
  ASSUME NEW qs, NEW n \in Nat
  PROVE  \E g : FlattenTable(qs, n, g)
<1> DEFINE Ns == {k \in Nat : \E g : FlattenTable(qs, k, g)}
<1>1. 0 \in Ns
  <2> DEFINE g == [i \in 1 .. 0 |-> << >>]
  <2>1. 1 .. 0 = {}
    OBVIOUS
  <2>2. g = [i \in 1 .. 0 |-> IF i = 1 THEN qs[i] ELSE g[i - 1] \o qs[i]]
    BY <2>1
  <2> HIDE DEF g
  <2>3. FlattenTable(qs, 0, g)
    BY <2>2 DEF FlattenTable
  <2> QED
    BY <2>3
<1>2. ASSUME NEW k \in Nat, k \in Ns PROVE k + 1 \in Ns
  <2>1. PICK g : FlattenTable(qs, k, g)
    BY <1>2
  <2>2. \A i \in 1 .. k : g[i] = IF i = 1 THEN qs[i] ELSE g[i - 1] \o qs[i]
    BY <2>1 DEF FlattenTable
  <2> DEFINE h == [i \in 1 .. k + 1 |-> IF i = 1 THEN qs[i] ELSE g[i - 1] \o qs[i]]
  <2>3. \A i \in 1 .. k : h[i] = g[i]
    BY <2>2
  <2>4. \A i \in 1 .. k + 1 : i # 1 => i - 1 \in 1 .. k
    OBVIOUS
  <2>5. h = [i \in 1 .. k + 1 |-> IF i = 1 THEN qs[i] ELSE h[i - 1] \o qs[i]]
    <3>1. \A i \in 1 .. k + 1 : i # 1 => g[i - 1] = h[i - 1]
      <4> HIDE DEF h
      <4> QED
        BY <2>3, <2>4
    <3> QED
      BY <3>1
  <2> HIDE DEF h
  <2>6. FlattenTable(qs, k + 1, h)
    BY <2>5 DEF FlattenTable
  <2> QED
    BY <2>6
<1>3. Nat \subseteq Ns
  <2> HIDE DEF Ns
  <2> QED
    BY <1>1, <1>2, NatSetInduction
<1> QED
  BY <1>3

\* A first part of a list.
LEMMA FirstPart ==
  ASSUME NEW q, IsSeq(q), NEW k \in 0 .. Len(q)
  PROVE  /\ IsSeq(SubSeq(q, 1, k)) /\ Len(SubSeq(q, 1, k)) = k
         /\ \A i \in 1 .. k : SubSeq(q, 1, k)[i] = q[i]
<1>1. PICK S : q \in Seq(S)
  BY DEF IsSeq
<1>2. k \in Nat /\ Len(q) \in Nat
  BY SeqDomain
<1>3. SubSeq(q, 1, k) \in Seq(S) /\ Len(SubSeq(q, 1, k)) = k
      /\ \A i \in 1 .. k : SubSeq(q, 1, k)[i] = q[i]
  BY <1>1, <1>2
<1> QED
  BY <1>3 DEF IsSeq

\* Adding a part to a list adds it to what the list flattens to.
LEMMA FlattenGrows ==
  ASSUME NEW qs, IsSeq(qs), \A i \in 1 .. Len(qs) : IsSeq(qs[i]), NEW k \in 0 .. Len(qs)
  PROVE  /\ IsSeq(FlattenSeq(SubSeq(qs, 1, k)))
         /\ k < Len(qs) => FlattenSeq(SubSeq(qs, 1, k + 1)) = FlattenSeq(SubSeq(qs, 1, k)) \o qs[k + 1]
<1>1. PICK n \in Nat : n = Len(qs)
  BY SeqDomain
<1>2. PICK g : FlattenTable(qs, n, g)
  BY FlattenTableExists
<1>3. \A i \in 1 .. n : g[i] = IF i = 1 THEN qs[i] ELSE g[i - 1] \o qs[i]
  BY <1>2 DEF FlattenTable
<1>4. ASSUME NEW j \in 1 .. n
      PROVE  FlattenSeq(SubSeq(qs, 1, j)) = g[j]
  <2>1. PICK ps : ps = SubSeq(qs, 1, j)
    OBVIOUS
  <2>2. IsSeq(ps) /\ Len(ps) = j /\ \A i \in 1 .. j : ps[i] = qs[i]
    BY <1>1, <2>1, FirstPart
  <2> DEFINE h == [i \in 1 .. j |-> g[i]]
  <2>3. h = [i \in 1 .. j |-> IF i = 1 THEN ps[i] ELSE h[i - 1] \o ps[i]]
    <3>1. \A i \in 1 .. j : g[i] = IF i = 1 THEN ps[i] ELSE h[i - 1] \o ps[i]
      <4>1. \A i \in 1 .. j : i # 1 => i - 1 \in 1 .. j
        OBVIOUS
      <4>2. \A i \in 1 .. j : i # 1 => h[i - 1] = g[i - 1]
        BY <4>1
      <4> HIDE DEF h
      <4>3. \A i \in 1 .. j : i \in 1 .. n
        OBVIOUS
      <4> QED
        BY <1>3, <2>2, <4>2, <4>3
    <3> QED
      BY <3>1
  <2>4. h[j] = g[j]
    OBVIOUS
  <2> HIDE DEF h
  <2>5. FlattenTable(ps, Len(ps), h)
    BY <2>2, <2>3 DEF FlattenTable
  <2>6. FlattenSeq(ps) = h[Len(ps)]
    BY <2>2, <2>5, FlattenIsInTable
  <2> QED
    BY <2>1, <2>2, <2>4, <2>6
<1>5. FlattenSeq(SubSeq(qs, 1, 0)) = << >>
  <2>1. PICK ps : ps = SubSeq(qs, 1, 0)
    OBVIOUS
  <2>2. IsSeq(ps) /\ Len(ps) = 0
    BY <1>1, <2>1, FirstPart
  <2>3. FlattenSeq(ps) = ps
    BY <2>2 DEF FlattenSeq
  <2>4. ps = << >>
    BY <2>2, SeqEmpty, SeqExtensional
  <2> QED
    BY <2>1, <2>3, <2>4
<1> DEFINE Ns == {j \in Nat : j \in 1 .. n => IsSeq(g[j])}
<1>6. 0 \in Ns
  OBVIOUS
<1>7. ASSUME NEW j \in Nat, j \in Ns PROVE j + 1 \in Ns
  <2>1. SUFFICES ASSUME j + 1 \in 1 .. n PROVE IsSeq(g[j + 1])
    OBVIOUS
  <2>2. CASE j = 0
    BY <1>1, <1>3, <2>1, <2>2
  <2>3. CASE j # 0
    <3>1. j \in 1 .. n /\ j + 1 # 1 /\ (j + 1) - 1 = j
      BY <2>1, <2>3
    <3>2. g[j + 1] = g[j] \o qs[j + 1]
      BY <1>3, <2>1, <3>1
    <3>3. IsSeq(g[j]) /\ IsSeq(qs[j + 1])
      BY <1>1, <1>7, <2>1, <3>1
    <3> QED
      BY <3>2, <3>3, SeqConcat
  <2> QED
    BY <2>2, <2>3
<1>8. \A j \in 1 .. n : IsSeq(g[j])
  <2>1. Nat \subseteq Ns
    <3> HIDE DEF Ns
    <3> QED
      BY <1>6, <1>7, NatSetInduction
  <2> QED
    BY <2>1
<1> HIDE DEF Ns
<1>9. CASE k = 0
  <2>1. IsSeq(FlattenSeq(SubSeq(qs, 1, k)))
    BY <1>5, <1>9, SeqEmpty
  <2>2. ASSUME k < Len(qs)
        PROVE  FlattenSeq(SubSeq(qs, 1, k + 1)) = FlattenSeq(SubSeq(qs, 1, k)) \o qs[k + 1]
    <3>1. 1 \in 1 .. n /\ k + 1 = 1
      BY <1>1, <1>9, <2>2
    <3>2. FlattenSeq(SubSeq(qs, 1, k + 1)) = qs[1]
      BY <1>3, <1>4, <3>1
    <3>3. << >> \o qs[1] = qs[1]
      <4>1. PICK q : q = qs[1] /\ IsSeq(q)
        BY <1>1, <3>1
      <4>2. PICK S : q \in Seq(S)
        BY <4>1 DEF IsSeq
      <4>3. << >> \o q = q
        BY <4>2
      <4> QED
        BY <4>1, <4>3
    <3> QED
      BY <1>5, <1>9, <3>1, <3>2, <3>3
  <2> QED
    BY <2>1, <2>2
<1>10. CASE k # 0
  <2>1. k \in 1 .. n
    BY <1>1, <1>10
  <2>2. FlattenSeq(SubSeq(qs, 1, k)) = g[k]
    BY <1>4, <2>1
  <2>3. ASSUME k < Len(qs)
        PROVE  FlattenSeq(SubSeq(qs, 1, k + 1)) = g[k] \o qs[k + 1]
    <3>1. k + 1 \in 1 .. n /\ k + 1 # 1 /\ (k + 1) - 1 = k
      BY <1>1, <2>1, <2>3
    <3>2. FlattenSeq(SubSeq(qs, 1, k + 1)) = g[k + 1]
      BY <1>4, <3>1
    <3> QED
      BY <1>3, <3>1, <3>2
  <2> QED
    BY <1>8, <2>1, <2>2, <2>3
<1> QED
  BY <1>9, <1>10

\* An element in front of a sequence.
LEMMA SeqCons ==
  ASSUME NEW x, NEW q, IsSeq(q)
  PROVE  LET r == <<x>> \o q IN
         /\ IsSeq(r) /\ Len(r) = Len(q) + 1 /\ r # << >>
         /\ r[1] = x /\ Head(r) = x /\ Tail(r) = q
         /\ \A i \in 1 .. Len(q) : r[i + 1] = q[i]
<1> DEFINE one == <<x>>
           r == one \o q
<1>1. IsSeq(one) /\ Len(one) = 1 /\ one[1] = x
  BY SeqSingle
<1>2. Len(q) \in Nat
  BY SeqDomain
<1> HIDE DEF one
<1>3. /\ IsSeq(r) /\ Len(r) = Len(one) + Len(q)
      /\ \A i \in 1 .. Len(one) + Len(q) :
           r[i] = IF i <= Len(one) THEN one[i] ELSE q[i - Len(one)]
  BY <1>1, SeqConcat, Zenon
<1> HIDE DEF r
<1>4. Len(r) = Len(q) + 1 /\ r[1] = x /\ \A i \in 1 .. Len(q) : r[i + 1] = q[i]
  BY <1>1, <1>2, <1>3
<1>5. r # << >>
  BY <1>2, <1>4, SeqEmpty
<1>6. /\ Head(r) = r[1] /\ IsSeq(Tail(r)) /\ Len(Tail(r)) = Len(r) - 1
      /\ \A i \in 1 .. Len(r) - 1 : Tail(r)[i] = r[i + 1]
  BY <1>3, <1>5, SeqTail
<1>7. Tail(r) = q
  <2>1. Len(Tail(r)) = Len(q) /\ \A i \in 1 .. Len(Tail(r)) : Tail(r)[i] = q[i]
    BY <1>2, <1>4, <1>6
  <2> QED
    BY <1>6, <2>1, SeqExtensional, Zenon
<1> QED
  BY <1>3, <1>4, <1>5, <1>6, <1>7 DEF r, one

LEMMA ConcatIsAssociative ==
  ASSUME NEW a, IsSeq(a), NEW b, IsSeq(b), NEW c, IsSeq(c)
  PROVE  (a \o b) \o c = a \o (b \o c)
<1> DEFINE ab == a \o b
           bc == b \o c
           l == ab \o c
           r == a \o bc
<1>1. Len(a) \in Nat /\ Len(b) \in Nat /\ Len(c) \in Nat
  BY SeqDomain
<1>2. /\ IsSeq(ab) /\ Len(ab) = Len(a) + Len(b)
      /\ \A i \in 1 .. Len(a) + Len(b) : ab[i] = IF i <= Len(a) THEN a[i] ELSE b[i - Len(a)]
  BY SeqConcat, Zenon
<1>3. /\ IsSeq(bc) /\ Len(bc) = Len(b) + Len(c)
      /\ \A i \in 1 .. Len(b) + Len(c) : bc[i] = IF i <= Len(b) THEN b[i] ELSE c[i - Len(b)]
  BY SeqConcat, Zenon
<1> HIDE DEF ab, bc
<1>4. /\ IsSeq(l) /\ Len(l) = Len(ab) + Len(c)
      /\ \A i \in 1 .. Len(ab) + Len(c) : l[i] = IF i <= Len(ab) THEN ab[i] ELSE c[i - Len(ab)]
  BY <1>2, SeqConcat, Zenon
<1>5. /\ IsSeq(r) /\ Len(r) = Len(a) + Len(bc)
      /\ \A i \in 1 .. Len(a) + Len(bc) : r[i] = IF i <= Len(a) THEN a[i] ELSE bc[i - Len(a)]
  BY <1>3, SeqConcat, Zenon
<1> HIDE DEF l, r
<1>6. Len(l) = Len(r)
  BY <1>1, <1>2, <1>3, <1>4, <1>5
<1>7. ASSUME NEW i \in 1 .. Len(l) PROVE l[i] = r[i]
  <2>1. CASE i <= Len(a)
    BY <1>1, <1>2, <1>3, <1>4, <1>5, <2>1
  <2>2. CASE i > Len(a) /\ i <= Len(a) + Len(b)
    <3>1. i - Len(a) \in 1 .. Len(b) + Len(c) /\ i - Len(a) <= Len(b)
      BY <1>1, <2>2
    <3>2. l[i] = b[i - Len(a)] /\ r[i] = bc[i - Len(a)]
      BY <1>1, <1>2, <1>3, <1>4, <1>5, <2>2
    <3> QED
      BY <1>3, <3>1, <3>2
  <2>3. CASE i > Len(a) + Len(b)
    <3>1. i - Len(a) \in 1 .. Len(b) + Len(c) /\ ~(i - Len(a) <= Len(b))
      BY <1>1, <1>2, <1>4, <2>3
    <3>2. l[i] = c[i - Len(ab)] /\ r[i] = bc[i - Len(a)]
      BY <1>1, <1>2, <1>3, <1>4, <1>5, <2>3
    <3>3. bc[i - Len(a)] = c[i - Len(a) - Len(b)] /\ i - Len(ab) = i - Len(a) - Len(b)
      BY <1>1, <1>2, <1>3, <3>1
    <3> QED
      BY <3>2, <3>3
  <2> QED
    BY <1>1, <1>2, <1>4, <2>1, <2>2, <2>3
<1> QED
  BY <1>4, <1>5, <1>6, <1>7, SeqExtensional DEF l, r, ab, bc

LEMMA EmptyConcat ==
  ASSUME NEW q, IsSeq(q)
  PROVE  << >> \o q = q /\ q \o << >> = q
BY DEF IsSeq

LEMMA PairIsConcat ==
  ASSUME NEW a, NEW b
  PROVE  IsSeq(<<a, b>>) /\ <<a, b>> = <<a>> \o <<b>>
<1> DEFINE one == <<a>>
           other == <<b>>
           pair == <<a, b>>
<1>1. pair \in Seq({a, b}) /\ Len(pair) = 2 /\ pair[1] = a /\ pair[2] = b
  OBVIOUS
<1>2. IsSeq(one) /\ Len(one) = 1 /\ one[1] = a /\ IsSeq(other) /\ Len(other) = 1 /\ other[1] = b
  BY SeqSingle
<1> HIDE DEF one, other, pair
<1>3. IsSeq(pair)
  BY <1>1 DEF IsSeq
<1>4. /\ IsSeq(one \o other) /\ Len(one \o other) = Len(one) + Len(other)
      /\ \A i \in 1 .. Len(one) + Len(other) :
           (one \o other)[i] = IF i <= Len(one) THEN one[i] ELSE other[i - Len(one)]
  BY <1>2, SeqConcat, Zenon
<1>5. pair = one \o other
  <2>1. Len(pair) = Len(one \o other) /\ \A i \in 1 .. Len(pair) : pair[i] = (one \o other)[i]
    BY <1>1, <1>2, <1>4
  <2> QED
    BY <1>3, <1>4, <2>1, SeqExtensional, Zenon
<1> QED
  BY <1>3, <1>5 DEF one, other, pair

LEMMA PrefixIs ==
  ASSUME NEW q, IsSeq(q), NEW n \in 0 .. Len(q), NEW r, IsSeq(r), Len(r) = n,
         \A i \in 1 .. n : r[i] = q[i]
  PROVE  SubSeq(q, 1, n) = r
<1> DEFINE s == SubSeq(q, 1, n)
<1>1. IsSeq(s) /\ Len(s) = n /\ \A i \in 1 .. n : s[i] = q[i]
  BY FirstPart
<1> HIDE DEF s
<1>2. s = r
  <2>1. \A i \in 1 .. Len(s) : s[i] = r[i]
    BY <1>1
  <2> QED
    BY <1>1, <2>1, SeqExtensional
<1> QED
  BY <1>2 DEF s

\* Cutting a sequence and putting its parts together again.
LEMMA MiddlePart ==
  ASSUME NEW q, IsSeq(q), NEW a \in 0 .. Len(q), NEW b \in 0 .. Len(q), a <= b
  PROVE  /\ IsSeq(SubSeq(q, a + 1, b)) /\ Len(SubSeq(q, a + 1, b)) = b - a
         /\ \A i \in 1 .. b - a : SubSeq(q, a + 1, b)[i] = q[a + i]
<1> DEFINE part == [i \in 1 .. b - a |-> q[a + i]]
<1>1. Len(q) \in Nat /\ b - a \in Nat
  BY SeqDomain
<1>2. IsSeq(part) /\ Len(part) = b - a /\ \A i \in 1 .. b - a : part[i] = q[a + i]
  <2>1. DOMAIN part = 1 .. b - a /\ part = [i \in 1 .. b - a |-> part[i]]
    OBVIOUS
  <2>2. IsSeq(part) /\ Len(part) = b - a
    <3> HIDE DEF part
    <3> QED
      BY <1>1, <2>1, SeqFunction
  <2> QED
    BY <2>2
<1> HIDE DEF part
<1>3. SubSeq(q, a + 1, b) = part
  <2>1. PICK c \in Nat \ {0} : c = a + 1
    OBVIOUS
  <2>2. b \in Nat /\ b <= Len(q) /\ c <= b + 1 /\ Len(part) = b + 1 - c
    BY <1>1, <1>2, <2>1
  <2>3. \A i \in 1 .. Len(part) : part[i] = q[c + i - 1]
    <3> TAKE i \in 1 .. Len(part)
    <3>1. c + i - 1 = a + i
      BY <1>1, <1>2, <2>1
    <3> QED
      BY <1>2, <3>1
  <2>4. SubSeq(q, c, b) = part
    BY <1>2, <2>2, <2>3, SubSeqIs
  <2> QED
    BY <2>1, <2>4
<1> QED
  BY <1>2, <1>3

LEMMA PrefixGrows ==
  ASSUME NEW q, IsSeq(q), NEW a \in 0 .. Len(q), NEW b \in 0 .. Len(q), a <= b
  PROVE  /\ SubSeq(q, 1, a) \o SubSeq(q, a + 1, b) = SubSeq(q, 1, b)
         /\ IsSeq(SubSeq(q, a + 1, b)) /\ Len(SubSeq(q, a + 1, b)) = b - a
<1> DEFINE front == SubSeq(q, 1, a)
           part == SubSeq(q, a + 1, b)
           whole == SubSeq(q, 1, b)
           joined == front \o part
<1>1. Len(q) \in Nat /\ b - a \in Nat
  BY SeqDomain
<1>2. IsSeq(front) /\ Len(front) = a /\ \A i \in 1 .. a : front[i] = q[i]
  BY FirstPart
<1>3. IsSeq(part) /\ Len(part) = b - a /\ \A i \in 1 .. b - a : part[i] = q[a + i]
  BY MiddlePart
<1>4. IsSeq(whole) /\ Len(whole) = b /\ \A i \in 1 .. b : whole[i] = q[i]
  BY FirstPart
<1> HIDE DEF front, part, whole
<1>5. joined = whole
  <2>1. /\ IsSeq(joined) /\ Len(joined) = Len(front) + Len(part)
        /\ \A i \in 1 .. Len(front) + Len(part) :
             joined[i] = IF i <= Len(front) THEN front[i] ELSE part[i - Len(front)]
    BY <1>2, <1>3, SeqConcat, Zenon
  <2> HIDE DEF joined
  <2>2. Len(joined) = b
    BY <1>2, <1>3, <2>1
  <2>3. ASSUME NEW i \in 1 .. b PROVE joined[i] = whole[i]
    <3>1. CASE i <= a
      BY <1>1, <1>2, <1>3, <1>4, <2>1, <3>1
    <3>2. CASE i > a
      <4>1. i - a \in 1 .. b - a /\ a + (i - a) = i
        BY <3>2
      <4>2. joined[i] = part[i - a] /\ part[i - a] = q[i]
        BY <1>1, <1>2, <1>3, <2>1, <3>2, <4>1
      <4> QED
        BY <1>4, <4>2
    <3> QED
      BY <3>1, <3>2
  <2> QED
    BY <1>4, <2>1, <2>2, <2>3, SeqExtensional
<1> QED
  BY <1>3, <1>5 DEF front, part, whole

\* The cuts of a sequence into n parts, as the number of elements up to each.
AreCuts(f, n, length) ==
  /\ \A i \in 0 .. n : f[i] \in 0 .. length
  /\ \A i \in 1 .. n : f[i - 1] <= f[i]
  /\ f[0] = 0 /\ f[n] = length

ArePartsOf(parts, q, f) ==
  /\ IsSeq(parts) /\ AreCuts(f, Len(parts), Len(q))
  /\ \A i \in 1 .. Len(parts) : parts[i] = SubSeq(q, f[i - 1] + 1, f[i])

LEMMA PartLength ==
  ASSUME NEW q, IsSeq(q), NEW f, NEW parts, ArePartsOf(parts, q, f)
  PROVE  \A i \in 1 .. Len(parts) :
           /\ f[i - 1] \in 0 .. Len(q) /\ f[i] \in 0 .. Len(q) /\ f[i - 1] <= f[i]
           /\ IsSeq(parts[i]) /\ Len(parts[i]) = f[i] - f[i - 1]
           /\ SubSeq(q, 1, f[i - 1]) \o parts[i] = SubSeq(q, 1, f[i])
<1> TAKE i \in 1 .. Len(parts)
<1>1. Len(parts) \in Nat
  BY SeqDomain DEF ArePartsOf
<1>2. i - 1 \in 0 .. Len(parts) /\ i \in 0 .. Len(parts)
  BY <1>1
<1>3. PICK a \in 0 .. Len(q) : a = f[i - 1]
  BY <1>2 DEF ArePartsOf, AreCuts
<1>4. PICK b \in 0 .. Len(q) : b = f[i]
  BY <1>2 DEF ArePartsOf, AreCuts
<1>5. a <= b /\ parts[i] = SubSeq(q, a + 1, b)
  BY <1>3, <1>4 DEF ArePartsOf, AreCuts
<1>6. /\ SubSeq(q, 1, a) \o SubSeq(q, a + 1, b) = SubSeq(q, 1, b)
      /\ IsSeq(SubSeq(q, a + 1, b)) /\ Len(SubSeq(q, a + 1, b)) = b - a
  BY <1>3, <1>4, <1>5, PrefixGrows
<1>7. /\ SubSeq(q, 1, a) \o parts[i] = SubSeq(q, 1, b)
      /\ IsSeq(parts[i]) /\ Len(parts[i]) = b - a
  BY <1>5, <1>6, Zenon
<1> QED
  BY <1>3, <1>4, <1>5, <1>7, Zenon

LEMMA PartElements ==
  ASSUME NEW q, IsSeq(q), NEW f, NEW parts, ArePartsOf(parts, q, f)
  PROVE  \A i \in 1 .. Len(parts) : \A g \in 1 .. Len(parts[i]) :
           \E h \in 1 .. Len(q) : parts[i][g] = q[h]
<1> TAKE i \in 1 .. Len(parts)
<1>1. Len(parts) \in Nat /\ Len(q) \in Nat
  BY SeqDomain DEF ArePartsOf
<1>2. i - 1 \in 0 .. Len(parts) /\ i \in 0 .. Len(parts)
  BY <1>1
<1>3. PICK a \in 0 .. Len(q) : a = f[i - 1]
  BY <1>2 DEF ArePartsOf, AreCuts
<1>4. PICK b \in 0 .. Len(q) : b = f[i]
  BY <1>2 DEF ArePartsOf, AreCuts
<1>5. a <= b /\ parts[i] = SubSeq(q, a + 1, b)
  BY <1>3, <1>4 DEF ArePartsOf, AreCuts
<1>6. /\ IsSeq(SubSeq(q, a + 1, b)) /\ Len(SubSeq(q, a + 1, b)) = b - a
      /\ \A g \in 1 .. b - a : SubSeq(q, a + 1, b)[g] = q[a + g]
  BY <1>5, MiddlePart, Zenon
<1>7. \A g \in 1 .. b - a : a + g \in 1 .. Len(q)
  BY <1>1
<1> QED
  BY <1>5, <1>6, <1>7

LEMMA PartsJoin ==
  ASSUME NEW q, IsSeq(q), NEW f, NEW parts, ArePartsOf(parts, q, f)
  PROVE  \A k \in 0 .. Len(parts) : FlattenSeq(SubSeq(parts, 1, k)) = SubSeq(q, 1, f[k])
<1> DEFINE Good == {k \in Nat : k <= Len(parts) =>
                                  FlattenSeq(SubSeq(parts, 1, k)) = SubSeq(q, 1, f[k])}
<1>1. IsSeq(parts) /\ Len(parts) \in Nat /\ f[0] = 0
  BY SeqDomain DEF ArePartsOf, AreCuts
<1>2. \A i \in 1 .. Len(parts) : IsSeq(parts[i])
  BY PartLength
<1>3. 0 \in Good
  <2>1. SubSeq(parts, 1, 0) = << >> /\ SubSeq(q, 1, 0) = << >>
    <3>1. ASSUME NEW r, IsSeq(r) PROVE SubSeq(r, 1, 0) = << >>
      <4>1. 0 \in 0 .. Len(r)
        BY <3>1, SeqDomain
      <4> QED
        BY <3>1, <4>1, SeqEmpty, PrefixIs
    <3> QED
      BY <1>1, <3>1
  <2>2. FlattenSeq(<< >>) = << >>
    BY SeqEmpty DEF FlattenSeq
  <2> QED
    BY <1>1, <2>1, <2>2
<1>4. ASSUME NEW k \in Nat, k \in Good PROVE k + 1 \in Good
  <2> SUFFICES ASSUME k + 1 <= Len(parts)
               PROVE  FlattenSeq(SubSeq(parts, 1, k + 1)) = SubSeq(q, 1, f[k + 1])
    OBVIOUS
  <2>1. k \in 0 .. Len(parts) /\ k < Len(parts) /\ k + 1 \in 1 .. Len(parts) /\ k + 1 - 1 = k
    BY <1>1
  <2>2. FlattenSeq(SubSeq(parts, 1, k + 1)) = FlattenSeq(SubSeq(parts, 1, k)) \o parts[k + 1]
    BY <1>1, <1>2, <2>1, FlattenGrows
  <2>3. FlattenSeq(SubSeq(parts, 1, k)) = SubSeq(q, 1, f[k])
    BY <1>4, <2>1
  <2>4. SubSeq(q, 1, f[k]) \o parts[k + 1] = SubSeq(q, 1, f[k + 1])
    <3>1. PICK i \in 1 .. Len(parts) : i = k + 1
      BY <2>1
    <3>2. i - 1 = k
      BY <3>1
    <3>3. SubSeq(q, 1, f[i - 1]) \o parts[i] = SubSeq(q, 1, f[i])
      BY PartLength, Zenon
    <3> QED
      BY <3>1, <3>2, <3>3, Zenon
  <2> QED
    BY <2>2, <2>3, <2>4
<1>5. Nat \subseteq Good
  <2> HIDE DEF Good
  <2> QED
    BY <1>3, <1>4, NatSetInduction
<1> QED
  BY <1>1, <1>5

\* The parts up to one are as long together as the sequence up to its cut.
LEMMA SumOfParts ==
  ASSUME NEW q, IsSeq(q), NEW f, NEW parts, ArePartsOf(parts, q, f), NEW lengths,
         NEW n \in 0 .. Len(parts), \A i \in 1 .. n : lengths[i] = Len(parts[i])
  PROVE  SumFunctionOnSet(lengths, 1 .. n) = f[n]
<1> DEFINE Good == {k \in Nat : k <= n => SumFunctionOnSet(lengths, 1 .. k) = f[k]}
<1>1. Len(parts) \in Nat /\ n \in Nat /\ f[0] = 0
  BY SeqDomain DEF ArePartsOf, AreCuts
<1>2. 0 \in Good
  <2>1. 1 .. 0 = {}
    OBVIOUS
  <2> QED
    BY <1>1, <2>1, SumOfEmptySet
<1>3. ASSUME NEW k \in Nat, k \in Good PROVE k + 1 \in Good
  <2> SUFFICES ASSUME k + 1 <= n
               PROVE  SumFunctionOnSet(lengths, 1 .. k + 1) = f[k + 1]
    OBVIOUS
  <2>1. \A i \in 1 .. k + 1 : lengths[i] \in Nat /\ lengths[i] = f[i] - f[i - 1]
    <3> TAKE i \in 1 .. k + 1
    <3>1. i \in 1 .. n /\ i \in 1 .. Len(parts)
      BY <1>1
    <3>2. f[i - 1] \in 0 .. Len(q) /\ f[i] \in 0 .. Len(q) /\ f[i - 1] <= f[i]
          /\ Len(parts[i]) = f[i] - f[i - 1]
      BY <3>1, PartLength
    <3>3. lengths[i] = Len(parts[i])
      BY <3>1
    <3>4. Len(q) \in Nat
      BY SeqDomain
    <3> QED
      BY <3>2, <3>3, <3>4
  <2>2. IsFiniteSet(1 .. k + 1) /\ (1 .. k + 1) \ {k + 1} = 1 .. k
    <3>1. k + 1 \in Nat
      OBVIOUS
    <3>2. IsFiniteSet(1 .. k + 1)
      BY <3>1, IntervalIsFinite
    <3> QED
      BY <3>2
  <2>3. SumFunctionOnSet(lengths, 1 .. k + 1)
          = lengths[k + 1] + SumFunctionOnSet(lengths, (1 .. k + 1) \ {k + 1})
    <3> DEFINE S == 1 .. k + 1
    <3>1. k + 1 \in S /\ IsFiniteSet(S) /\ \A i \in S : lengths[i] \in Nat
      BY <2>1, <2>2
    <3> HIDE DEF S
    <3>2. SumFunctionOnSet(lengths, S) = lengths[k + 1] + SumFunctionOnSet(lengths, S \ {k + 1})
      BY <3>1, SumRemoveElement
    <3> QED
      BY <3>2 DEF S
  <2>4. SumFunctionOnSet(lengths, 1 .. k) = f[k]
    BY <1>1, <1>3
  <2>5. lengths[k + 1] = f[k + 1] - f[k] /\ f[k] \in Int /\ f[k + 1] \in Int
    <3>1. k + 1 \in 1 .. k + 1 /\ k + 1 - 1 = k /\ k + 1 \in 1 .. Len(parts)
      BY <1>1
    <3>2. f[k + 1 - 1] \in 0 .. Len(q) /\ f[k + 1] \in 0 .. Len(q)
      BY <3>1, PartLength
    <3>3. Len(q) \in Nat
      BY SeqDomain
    <3> QED
      BY <2>1, <3>1, <3>2, <3>3
  <2>6. SumFunctionOnSet(lengths, 1 .. k + 1) = lengths[k + 1] + SumFunctionOnSet(lengths, 1 .. k)
    BY <2>2, <2>3, Zenon
  <2>7. PICK x, y, z, w : /\ x = SumFunctionOnSet(lengths, 1 .. k + 1) /\ y = f[k + 1]
                          /\ z = f[k] /\ w = lengths[k + 1]
    OBVIOUS
  <2>8. x = w + z /\ w = y - z /\ z \in Int /\ y \in Int
    BY <2>4, <2>5, <2>6, <2>7
  <2> QED
    BY <2>7, <2>8
<1>4. Nat \subseteq Good
  <2> HIDE DEF Good
  <2> QED
    BY <1>2, <1>3, NatSetInduction
<1> QED
  BY <1>1, <1>4

\* Sequences put one after the other: each is a block of the whole that begins after
\* the first o elements, behind the last element of another.
IsBlock(w, qs, k, o) ==
  /\ o \in Nat /\ o + Len(qs[k]) <= Len(w)
  /\ \A g \in 1 .. Len(qs[k]) : w[o + g] = qs[k][g]
  /\ o # 0 => \E h \in DOMAIN qs : w[o] = qs[h][Len(qs[h])]

AreBlocks(w, qs, n) ==
  /\ IsSeq(w)
  /\ \A i \in 1 .. Len(w) :
       \E k \in 1 .. n, o \in Nat : IsBlock(w, qs, k, o) /\ o < i /\ i <= o + Len(qs[k])

LEMMA OneMoreBlock ==
  ASSUME NEW qs, IsSeq(qs), \A k \in 1 .. Len(qs) : IsSeq(qs[k]),
         NEW n \in Nat, n + 1 <= Len(qs), NEW v, AreBlocks(v, qs, n), NEW w, w = v \o qs[n + 1]
  PROVE  AreBlocks(w, qs, n + 1)
<1>1. Len(qs) \in Nat /\ DOMAIN qs = 1 .. Len(qs)
  BY SeqDomain
<1>2. PICK m \in 1 .. Len(qs) : m = n + 1
  BY <1>1
<1>3. PICK b : b = qs[m] /\ IsSeq(b)
  BY <1>2
<1>4. IsSeq(v) /\ Len(v) \in Nat /\ Len(b) \in Nat
  BY <1>3, SeqDomain DEF AreBlocks
<1>5. w = v \o b
  BY <1>2, <1>3
<1>6. /\ IsSeq(v \o b) /\ Len(v \o b) = Len(v) + Len(b)
      /\ \A i \in 1 .. Len(v) + Len(b) :
           (v \o b)[i] = IF i <= Len(v) THEN v[i] ELSE b[i - Len(v)]
  BY <1>3, <1>4, SeqConcat, Zenon
<1>7. PICK l \in Nat : l = Len(v)
  BY <1>4
<1>8. /\ IsSeq(w) /\ Len(w) = l + Len(b)
      /\ \A i \in 1 .. l : w[i] = v[i]
      /\ \A g \in 1 .. Len(b) : w[l + g] = b[g]
  <2>1. \A i \in 1 .. l + Len(b) : w[i] = IF i <= l THEN v[i] ELSE b[i - l]
    BY <1>5, <1>6, <1>7
  <2>2. ASSUME NEW i \in 1 .. l PROVE w[i] = v[i]
    <3>1. i \in 1 .. l + Len(b) /\ i <= l
      BY <1>4
    <3> QED
      BY <2>1, <3>1
  <2>3. ASSUME NEW g \in 1 .. Len(b) PROVE w[l + g] = b[g]
    <3>1. PICK i \in 1 .. l + Len(b) : i = l + g /\ i - l = g /\ ~(i <= l)
      BY <1>4
    <3> QED
      BY <2>1, <3>1
  <2> QED
    BY <1>5, <1>6, <1>7, <2>2, <2>3
<1>9. ASSUME NEW i \in 1 .. l
      PROVE  \E k \in 1 .. n, o \in Nat : IsBlock(v, qs, k, o) /\ o < i /\ i <= o + Len(qs[k])
  BY <1>7 DEF AreBlocks
<1>10. ASSUME NEW k \in 1 .. n, NEW o \in Nat, IsBlock(v, qs, k, o)
       PROVE  IsBlock(w, qs, k, o)
  <2>1. k \in 1 .. Len(qs)
    BY <1>1
  <2>2. PICK c \in Nat : c = Len(qs[k])
    BY <2>1, SeqDomain
  <2>3. o + c <= l /\ \A g \in 1 .. c : v[o + g] = qs[k][g]
    BY <1>7, <1>10, <2>2 DEF IsBlock
  <2>4. ASSUME NEW g \in 1 .. c PROVE w[o + g] = qs[k][g]
    <3>1. o + g \in 1 .. l
      BY <2>3
    <3> QED
      BY <1>8, <2>3, <3>1
  <2>5. o + c <= Len(w)
    BY <1>4, <1>8, <2>3
  <2>6. o # 0 => o \in 1 .. l
    BY <2>3
  <2>7. o # 0 => \E h \in DOMAIN qs : w[o] = qs[h][Len(qs[h])]
    BY <1>8, <1>10, <2>6 DEF IsBlock
  <2> QED
    BY <2>2, <2>4, <2>5, <2>7 DEF IsBlock
<1>11. IsBlock(w, qs, m, l)
  <2>1. l # 0 => \E h \in DOMAIN qs : w[l] = qs[h][Len(qs[h])]
    <3> SUFFICES ASSUME l # 0 PROVE \E h \in DOMAIN qs : w[l] = qs[h][Len(qs[h])]
      OBVIOUS
    <3>1. l \in 1 .. l
      OBVIOUS
    <3>2. PICK k \in 1 .. n, o \in Nat :
            IsBlock(v, qs, k, o) /\ o < l /\ l <= o + Len(qs[k])
      BY <1>9, <3>1
    <3>3. k \in DOMAIN qs /\ k \in 1 .. Len(qs)
      BY <1>1
    <3>4. PICK c \in Nat : c = Len(qs[k])
      BY <3>3, SeqDomain
    <3>5. o + c <= l /\ \A g \in 1 .. c : v[o + g] = qs[k][g]
      BY <1>7, <3>2, <3>4 DEF IsBlock
    <3>6. o + c = l /\ c \in 1 .. c
      <4>1. o < l /\ l <= o + c /\ o + c <= l
        BY <3>2, <3>4, <3>5
      <4> HIDE <3>5
      <4> QED
        BY <4>1
    <3>7. v[o + c] = qs[k][c]
      BY <3>5, <3>6
    <3>8. w[l] = qs[k][Len(qs[k])]
      BY <1>8, <3>1, <3>4, <3>6, <3>7
    <3> QED
      BY <3>3, <3>8
  <2>2. l + Len(b) <= Len(w)
    BY <1>4, <1>8
  <2>3. l + Len(qs[m]) <= Len(w) /\ \A g \in 1 .. Len(qs[m]) : w[l + g] = qs[m][g]
    BY <1>3, <1>8, <2>2
  <2> QED
    BY <2>1, <2>3 DEF IsBlock
<1>12. ASSUME NEW i \in 1 .. Len(w)
       PROVE  \E k \in 1 .. n + 1, o \in Nat :
                IsBlock(w, qs, k, o) /\ o < i /\ i <= o + Len(qs[k])
  <2>1. CASE i <= l
    <3>1. i \in 1 .. l
      BY <2>1
    <3>2. PICK k \in 1 .. n, o \in Nat :
            IsBlock(v, qs, k, o) /\ o < i /\ i <= o + Len(qs[k])
      BY <1>9, <3>1
    <3>3. k \in 1 .. n + 1
      OBVIOUS
    <3> QED
      BY <1>10, <3>2, <3>3
  <2>2. CASE i > l
    <3>1. m \in 1 .. n + 1
      BY <1>2
    <3>2. i <= l + Len(qs[m])
      BY <1>3, <1>8
    <3> QED
      BY <1>11, <2>2, <3>1, <3>2
  <2> QED
    BY <1>4, <1>8, <2>1, <2>2
<1> QED
  BY <1>8, <1>12 DEF AreBlocks

LEMMA FlattenBlocks ==
  ASSUME NEW qs, IsSeq(qs), \A k \in 1 .. Len(qs) : IsSeq(qs[k])
  PROVE  AreBlocks(FlattenSeq(qs), qs, Len(qs))
<1> DEFINE w(n) == FlattenSeq(SubSeq(qs, 1, n))
           Good == {n \in Nat : n <= Len(qs) => AreBlocks(w(n), qs, n)}
<1>1. Len(qs) \in Nat
  BY SeqDomain
<1>2. 0 \in Good
  <2>1. SubSeq(qs, 1, 0) = << >>
    <3>1. 0 \in 0 .. Len(qs)
      BY <1>1
    <3> QED
      BY <3>1, SeqEmpty, PrefixIs
  <2>2. FlattenSeq(<< >>) = << >>
    BY SeqEmpty DEF FlattenSeq
  <2>3. PICK e : e = << >>
    OBVIOUS
  <2>4. IsSeq(e) /\ Len(e) = 0
    BY <2>3, SeqEmpty
  <2>5. AreBlocks(e, qs, 0)
    BY <2>4 DEF AreBlocks
  <2> QED
    BY <2>1, <2>2, <2>3, <2>5
<1>3. ASSUME NEW n \in Nat, n \in Good PROVE n + 1 \in Good
  <2> SUFFICES ASSUME n + 1 <= Len(qs) PROVE AreBlocks(w(n + 1), qs, n + 1)
    OBVIOUS
  <2>1. n \in 0 .. Len(qs) /\ n < Len(qs)
    BY <1>1
  <2>2. w(n + 1) = w(n) \o qs[n + 1]
    BY <1>1, <2>1, FlattenGrows
  <2>3. AreBlocks(w(n), qs, n)
    BY <1>3, <2>1
  <2> HIDE DEF w
  <2> QED
    BY <2>2, <2>3, OneMoreBlock
<1>4. Nat \subseteq Good
  <2> HIDE DEF Good
  <2> QED
    BY <1>2, <1>3, NatSetInduction
<1>5. AreBlocks(w(Len(qs)), qs, Len(qs))
  BY <1>1, <1>4
<1>6. SubSeq(qs, 1, Len(qs)) = qs
  BY WholeSubSeq
<1> QED
  BY <1>5, <1>6
=============================================================================
