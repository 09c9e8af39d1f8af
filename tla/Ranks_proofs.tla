---------------------------- MODULE Ranks_proofs ----------------------------
(***************************************************************************)
(* Places in a sorted answer, without recursion: the place of an element   *)
(* is one more than the number of those before it.  The page of a listing  *)
(* and the ranking of a search are both defined by it; the greatest and    *)
(* the least of a finite set are its first and last places.                *)
(***************************************************************************)
EXTENDS Integers, FiniteSets, FiniteSetsExt, FiniteSetTheorems, FunctionTheorems, TLAPS

(* A strict order without ties on a finite set, as Sorted takes it:        *)
(* ahead[x] are the elements before x.                                     *)
IsOrder(S, ahead) ==
  /\ IsFiniteSet(S)
  /\ ahead \in [S -> SUBSET S]
  /\ \A x \in S : x \notin ahead[x]
  /\ \A x, y, z \in S : z \in ahead[y] /\ y \in ahead[x] => z \in ahead[x]
  /\ \A x, y \in S : x # y => x \in ahead[y] \/ y \in ahead[x]

(* The place of x in such an order.                                        *)
Rank(ahead, x) == Cardinality(ahead[x]) + 1

(* The ranks of n elements are 1 to n, each taken by one of them: the rank *)
(* is an injection of n elements into n numbers.                           *)
LEMMA RanksAreRanks ==
  ASSUME NEW S, NEW ahead, IsOrder(S, ahead)
  PROVE  /\ Cardinality(S) \in Nat
         /\ \A x \in S : Rank(ahead, x) \in 1 .. Cardinality(S)
         /\ \A x \in S : \A y \in ahead[x] : Rank(ahead, y) < Rank(ahead, x)
         /\ \A i \in 1 .. Cardinality(S) : \E x \in S : Rank(ahead, x) = i
<1> DEFINE n == Cardinality(S)
           f == [x \in S |-> Rank(ahead, x)]
<1>1. n \in Nat
  BY FS_CardinalityType DEF IsOrder
<1>2. ASSUME NEW x \in S
      PROVE  Cardinality(ahead[x]) \in 0 .. n - 1 /\ IsFiniteSet(ahead[x])
  <2>1. ahead[x] \in SUBSET (S \ {x})
    BY DEF IsOrder
  <2>2. IsFiniteSet(S \ {x}) /\ Cardinality(S \ {x}) = n - 1
    BY FS_RemoveElement DEF IsOrder
  <2>3. IsFiniteSet(ahead[x]) /\ Cardinality(ahead[x]) <= n - 1
    BY <2>1, <2>2, FS_Subset
  <2> QED
    BY <1>1, <2>3, FS_CardinalityType
<1>3. ASSUME NEW x \in S, NEW y \in ahead[x]
      PROVE  Rank(ahead, y) < Rank(ahead, x)
  <2>1. ahead[y] \in SUBSET ahead[x] /\ y \in S /\ ahead[y] # ahead[x]
    BY DEF IsOrder
  <2>2. Cardinality(ahead[y]) <= Cardinality(ahead[x])
        /\ Cardinality(ahead[x]) # Cardinality(ahead[y])
    BY <1>2, <2>1, FS_Subset
  <2> QED
    BY <1>1, <1>2, <2>1, <2>2 DEF Rank
<1>4. f \in [S -> 1 .. n]
  BY <1>1, <1>2 DEF Rank
<1>5. \A x, y \in S : f[x] = f[y] => x = y
  BY <1>1, <1>3, <1>4 DEF IsOrder
<1>6. f \in Injection(S, 1 .. n)
  BY <1>4, <1>5 DEF Injection, IsInjective
<1>7. IsFiniteSet(1 .. n) /\ Cardinality(1 .. n) = n
  BY <1>1, FS_Interval
<1>8. f \in Surjection(S, 1 .. n)
  BY <1>6, <1>7, FS_Injection
<1>9. \A i \in 1 .. n : \E x \in S : f[x] = i
  BY <1>8 DEF Surjection
<1> QED
  BY <1>1, <1>3, <1>4, <1>9

(* Each rank is one element's alone.                                       *)
LEMMA OneOfEachRank ==
  ASSUME NEW S, NEW ahead, IsOrder(S, ahead)
  PROVE  /\ Cardinality(S) \in Nat
         /\ \A n \in 1 .. Cardinality(S) : \E x \in S : Cardinality(ahead[x]) = n - 1
         /\ \A x \in S : Cardinality(ahead[x]) + 1 \in 1 .. Cardinality(S)
         /\ \A x, y \in S : Cardinality(ahead[x]) = Cardinality(ahead[y]) => x = y
         /\ \A x \in S : \A y \in ahead[x] : Cardinality(ahead[y]) < Cardinality(ahead[x])
<1>1. Cardinality(S) \in Nat /\ \A x \in S : Cardinality(ahead[x]) \in Nat
  BY FS_Subset, FS_CardinalityType DEF IsOrder
<1>2. \A x \in S : \A y \in ahead[x] : Cardinality(ahead[y]) < Cardinality(ahead[x])
  <2> SUFFICES ASSUME NEW x \in S, NEW y \in ahead[x]
               PROVE  Cardinality(ahead[y]) < Cardinality(ahead[x])
    OBVIOUS
  <2>1. y \in S
    BY DEF IsOrder
  <2>2. Rank(ahead, y) < Rank(ahead, x)
    BY RanksAreRanks
  <2> QED
    BY <1>1, <2>1, <2>2 DEF Rank
<1>3. ASSUME NEW n \in 1 .. Cardinality(S)
      PROVE  \E x \in S : Cardinality(ahead[x]) = n - 1
  <2>1. PICK x \in S : Rank(ahead, x) = n
    BY RanksAreRanks
  <2> QED
    BY <1>1, <2>1 DEF Rank
<1>4. ASSUME NEW x \in S PROVE Cardinality(ahead[x]) + 1 \in 1 .. Cardinality(S)
  <2>1. Rank(ahead, x) \in 1 .. Cardinality(S)
    BY RanksAreRanks
  <2> QED
    BY <2>1 DEF Rank
<1>5. ASSUME NEW x \in S, NEW y \in S, Cardinality(ahead[x]) = Cardinality(ahead[y]), x # y
      PROVE  FALSE
  <2>1. x \in ahead[y] \/ y \in ahead[x]
    BY <1>5 DEF IsOrder
  <2> QED
    BY <1>1, <1>2, <1>5, <2>1
<1> QED
  BY <1>1, <1>2, <1>3, <1>4, <1>5

(* Positions are ordered as numbers are.                                   *)
LEMMA AscendingOrder ==
  ASSUME NEW m \in Nat, NEW N \in SUBSET (1 .. m)
  PROVE  IsOrder(N, [i \in N |-> {j \in N : j < i}])
<1> DEFINE ahead == [i \in N |-> {j \in N : j < i}]
<1>1. IsFiniteSet(N)
  <2>1. IsFiniteSet(1 .. m)
    BY FS_Interval
  <2> QED
    BY <2>1, FS_Subset
<1>2. \A i \in N : i \in Nat
  OBVIOUS
<1>3. ahead \in [N -> SUBSET N]
  OBVIOUS
<1>4. \A i, j \in N : j \in ahead[i] <=> j < i
  OBVIOUS
<1>5. IsOrder(N, ahead)
  <2> HIDE DEF ahead
  <2> QED
    BY <1>1, <1>2, <1>3, <1>4 DEF IsOrder
<1> QED
  BY <1>5

(* There is a first in every order.                                        *)
LEMMA SomeoneIsFirst ==
  ASSUME NEW S, NEW ahead, IsOrder(S, ahead), S # {}
  PROVE  \E x \in S : ahead[x] = {}
<1>1. Cardinality(S) \in Nat \ {0}
  BY FS_CardinalityType, FS_EmptySet DEF IsOrder
<1>2. PICK x \in S : Rank(ahead, x) = 1
  <2>1. 1 \in 1 .. Cardinality(S)
    BY <1>1
  <2> QED
    BY <2>1, RanksAreRanks
<1>3. IsFiniteSet(ahead[x])
  BY FS_Subset DEF IsOrder
<1>4. Cardinality(ahead[x]) = 0
  BY <1>2, <1>3, FS_CardinalityType DEF Rank
<1> QED
  BY <1>3, <1>4, FS_EmptySet

(* There is a least in every set of positions.                             *)
LEMMA Least ==
  ASSUME NEW m \in Nat, NEW N \in SUBSET (1 .. m), N # {}
  PROVE  \E i \in N : \A j \in N : i <= j
<1> DEFINE ahead == [i \in N |-> {j \in N : j < i}]
<1>1. IsOrder(N, ahead)
  BY AscendingOrder
<1>2. PICK i \in N : ahead[i] = {}
  <2> HIDE DEF ahead
  <2> QED
    BY <1>1, SomeoneIsFirst
<1>3. \A j \in N : j \notin ahead[i]
  BY <1>2
<1> QED
  BY <1>3

(* There is a greatest in every set of positions.                          *)
LEMMA Greatest ==
  ASSUME NEW m \in Nat, NEW N \in SUBSET (1 .. m), N # {}
  PROVE  \E i \in N : \A j \in N : j <= i
<1> DEFINE ahead == [i \in N |-> {j \in N : j > i}]
<1>1. IsFiniteSet(N)
  <2>1. IsFiniteSet(1 .. m)
    BY FS_Interval
  <2> QED
    BY <2>1, FS_Subset
<1>2. \A i \in N : i \in Nat
  OBVIOUS
<1>3. ahead \in [N -> SUBSET N]
  OBVIOUS
<1>4. \A i, j \in N : j \in ahead[i] <=> j > i
  OBVIOUS
<1> HIDE DEF ahead
<1>5. IsOrder(N, ahead)
  BY <1>1, <1>2, <1>3, <1>4 DEF IsOrder
<1>6. PICK i \in N : ahead[i] = {}
  BY <1>5, SomeoneIsFirst
<1>7. \A j \in N : ~(j > i)
  BY <1>4, <1>6
<1> QED
  BY <1>2, <1>7

(* The values of a function on a finite set are no more than its elements. *)
LEMMA ValuesAreFew ==
  ASSUME NEW f, IsFiniteSet(DOMAIN f)
  PROVE  LET T == {f[x] : x \in DOMAIN f}
         IN  /\ IsFiniteSet(T) /\ Cardinality(T) <= Cardinality(DOMAIN f)
             /\ (\A x, y \in DOMAIN f : f[x] = f[y] => x = y)
                  => Cardinality(T) = Cardinality(DOMAIN f)
<1> DEFINE T == {f[x] : x \in DOMAIN f}
           g == [x \in DOMAIN f |-> f[x]]
<1>1. g \in Surjection(DOMAIN f, T)
  BY DEF Surjection
<1>2. (\A x, y \in DOMAIN f : f[x] = f[y] => x = y) => g \in Injection(DOMAIN f, T)
  BY DEF Injection, IsInjective
<1> QED
  BY <1>1, <1>2, FS_Surjection

(* Counting up to n: the numbers of a set that goes on from each of its    *)
(* numbers to the next are all of them.                                    *)
LEMMA CountingUp ==
  ASSUME NEW n \in Nat, NEW S, 0 \in S, \A k \in 0 .. n - 1 : k \in S => k + 1 \in S
  PROVE  \A k \in 0 .. n : k \in S
<1> DEFINE others == {k \in 1 .. n : k \notin S}
<1>1. CASE others = {}
  BY <1>1
<1>2. CASE others # {}
  <2>1. PICK i \in others : \A j \in others : i <= j
    BY <1>2, Least
  <2>2. i \in 1 .. n /\ i \notin S /\ i - 1 \in 0 .. n - 1 /\ (i - 1) + 1 = i
    BY <2>1
  <2>3. i - 1 \notin S
    BY <2>2
  <2>4. i - 1 \in others
    BY <2>2, <2>3
  <2> QED
    BY <2>1, <2>2, <2>4
<1> QED
  BY <1>1, <1>2

(* A recursion over 1 to n whose steps stay in V: it runs, and in V.       *)
Runs(n, V, base, step) ==
  \E f \in [0 .. n -> V] : f[0] = base /\ \A k \in 1 .. n : f[k] = step[k][f[k - 1]]

LEMMA StepByStep ==
  ASSUME NEW n \in Nat, NEW V, NEW base \in V, NEW step \in [1 .. n -> [V -> V]]
  PROVE  Runs(n, V, base, step)
<1> DEFINE fits(f, k) == f[0] = base /\ \A i \in 1 .. k : f[i] = step[i][f[i - 1]]
           S == {k \in 0 .. n : \E f \in [0 .. k -> V] : fits(f, k)}
<1>1. 0 \in S
  <2> DEFINE f == [i \in 0 .. 0 |-> base]
  <2>1. f \in [0 .. 0 -> V] /\ fits(f, 0)
    OBVIOUS
  <2> HIDE DEF f
  <2> QED
    BY <2>1
<1>2. ASSUME NEW k \in 0 .. n - 1, k \in S PROVE k + 1 \in S
  <2>1. PICK f \in [0 .. k -> V] : fits(f, k)
    BY <1>2
  <2> DEFINE g == [i \in 0 .. k + 1 |-> IF i <= k THEN f[i] ELSE step[k + 1][f[k]]]
  <2>2. k \in Nat /\ k + 1 \in 1 .. n /\ (k + 1) - 1 = k
    OBVIOUS
  <2>3. step[k + 1][f[k]] \in V
    BY <2>1, <2>2
  <2>4. g \in [0 .. k + 1 -> V]
    BY <2>1, <2>2, <2>3
  <2>5. \A i \in 0 .. k : g[i] = f[i]
    BY <2>2
  <2>6. ASSUME NEW i \in 1 .. k + 1 PROVE g[i] = step[i][g[i - 1]]
    <3>1. i - 1 \in 0 .. k /\ g[i - 1] = f[i - 1]
      BY <2>2, <2>5
    <3>2. CASE i <= k
      BY <2>1, <2>2, <3>1, <3>2
    <3>3. CASE i = k + 1
      BY <2>2, <3>1, <3>3
    <3> QED
      BY <2>2, <3>2, <3>3
  <2>7. g[0] = base
    BY <2>1, <2>2, <2>5
  <2> HIDE DEF g
  <2>8. fits(g, k + 1)
    BY <2>6, <2>7
  <2> HIDE DEF fits
  <2> QED
    BY <2>2, <2>4, <2>8
<1>3. n \in S
  <2> HIDE DEF S
  <2>1. \A k \in 0 .. n : k \in S
    BY <1>1, <1>2, CountingUp
  <2> QED
    BY <2>1
<1> QED
  BY <1>3 DEF Runs

(* Counting the members of P among the first i numbers.                    *)
LEMMA CountingOn ==
  ASSUME NEW P, NEW i \in Nat
  PROVE  LET count(m) == Cardinality({j \in 1 .. m : j \in P})
         IN  /\ count(i) \in Nat /\ count(0) = 0
             /\ count(i + 1) = count(i) + (IF i + 1 \in P THEN 1 ELSE 0)
<1> DEFINE S == {j \in 1 .. i : j \in P}
           T == {j \in 1 .. i + 1 : j \in P}
<1>1. IsFiniteSet(S) /\ Cardinality(S) \in Nat
  <2>1. IsFiniteSet(1 .. i)
    BY FS_Interval
  <2>2. S \subseteq 1 .. i
    OBVIOUS
  <2> QED
    BY <2>1, <2>2, FS_Subset, FS_CardinalityType
<1>2. {j \in 1 .. 0 : j \in P} = {}
  OBVIOUS
<1>3. Cardinality({j \in 1 .. 0 : j \in P}) = 0
  BY <1>2, FS_EmptySet
<1>4. CASE i + 1 \in P
  <2>1. T = S \cup {i + 1} /\ i + 1 \notin S
    BY <1>4
  <2> HIDE DEF S, T
  <2>2. Cardinality(T) = Cardinality(S) + 1
    BY <1>1, <2>1, FS_AddElement
  <2> QED
    BY <1>1, <1>3, <1>4, <2>2 DEF S, T
<1>5. CASE i + 1 \notin P
  <2>1. T = S
    BY <1>5
  <2> QED
    BY <1>1, <1>3, <1>5, <2>1
<1> QED
  BY <1>4, <1>5

(* The greatest and the least of some numbers.                             *)
LEMMA GreatestOfAll ==
  ASSUME NEW S \in SUBSET Nat, IsFiniteSet(S), S # {}
  PROVE  Max(S) \in S /\ \A k \in S : k <= Max(S)
<1> DEFINE ahead == [i \in S |-> {j \in S : j > i}]
<1>1. ahead \in [S -> SUBSET S] /\ \A i \in S : i \in Nat
  OBVIOUS
<1>2. \A i, j \in S : j \in ahead[i] <=> j > i
  OBVIOUS
<1> HIDE DEF ahead
<1>3. IsOrder(S, ahead)
  BY <1>1, <1>2 DEF IsOrder
<1>4. PICK i \in S : ahead[i] = {}
  BY <1>3, SomeoneIsFirst
<1>5. \A j \in S : i >= j
  BY <1>1, <1>2, <1>4
<1>6. Max(S) \in S /\ \A j \in S : Max(S) >= j
  BY <1>5 DEF Max
<1> QED
  BY <1>1, <1>6

LEMMA LeastOfAll ==
  ASSUME NEW n \in Nat, NEW S \in SUBSET (1 .. n), S # {}
  PROVE  Min(S) \in S /\ \A k \in S : Min(S) <= k
<1>1. PICK i \in S : \A j \in S : i <= j
  BY Least
<1> QED
  BY <1>1 DEF Min

(* Two finite sets that h maps one to one onto each other.                 *)
LEMMA SameSize ==
  ASSUME NEW S, NEW T, IsFiniteSet(S), NEW h \in Bijection(S, T)
  PROVE  IsFiniteSet(T) /\ Cardinality(T) = Cardinality(S)
<1>1. ExistsBijection(S, T)
  BY Fun_ExistsBij
<1> QED
  BY <1>1, FS_Bijection
=============================================================================
