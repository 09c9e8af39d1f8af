-------------------------- MODULE Answering_proofs --------------------------
(***************************************************************************)
(* Proofs about Retrieval and Answering, for every corpus, every query and *)
(* every output of the model: the ranking handed to the gate is right; what *)
(* reaches the user as a fact is found in a passage that is cited for it   *)
(* and was shown to the model; what is cited is current law as far as the  *)
(* corpus knew; and what nobody verified comes with its caveat.            *)
(***************************************************************************)
EXTENDS Answering, Ranks_proofs, FiniteSetTheorems, TLAPS

(***************************************************************************)
(* The operators that sort, cut, filter, fuse and deduplicate rankings.    *)
(* Nothing here is a recursion: a sorted sequence is defined by ranks, so  *)
(* that the counting of finite sets is all that the proofs need.           *)
(***************************************************************************)

(* Sorted puts each element at its rank.                                   *)
LEMMA SortedByRank ==
  ASSUME NEW S, NEW ahead, IsOrder(S, ahead)
  PROVE  /\ Sorted(S, ahead) \in [1 .. Cardinality(S) -> S]
         /\ \A i \in 1 .. Cardinality(S) : Rank(ahead, Sorted(S, ahead)[i]) = i
         /\ \A x \in S : Sorted(S, ahead)[Rank(ahead, x)] = x
<1> DEFINE n == Cardinality(S)
           chosen(i) == CHOOSE x \in S : Cardinality(ahead[x]) = i - 1
<1>1. ASSUME NEW i \in 1 .. n
      PROVE  chosen(i) \in S /\ Rank(ahead, chosen(i)) = i
  <2>1. PICK x \in S : Rank(ahead, x) = i
    BY RanksAreRanks
  <2>2. Cardinality(ahead[x]) \in Nat
    <3>1. ahead[x] \in SUBSET S
      BY DEF IsOrder
    <3> QED
      BY <3>1, FS_Subset, FS_CardinalityType DEF IsOrder
  <2>3. Cardinality(ahead[x]) = i - 1
    BY <2>1, <2>2 DEF Rank
  <2>4. chosen(i) \in S /\ Cardinality(ahead[chosen(i)]) = i - 1
    BY <2>3
  <2> QED
    BY <2>4, RanksAreRanks DEF Rank
<1>2. Sorted(S, ahead) = [i \in 1 .. n |-> chosen(i)]
  BY DEF Sorted
<1>3. ASSUME NEW x \in S
      PROVE  Sorted(S, ahead)[Rank(ahead, x)] = x
  <2>1. Rank(ahead, x) \in 1 .. n
    BY RanksAreRanks
  <2> DEFINE y == chosen(Rank(ahead, x))
  <2>2. y \in S /\ Rank(ahead, y) = Rank(ahead, x)
    BY <1>1, <2>1
  <2>3. y = x
    <3>1. y # x => Rank(ahead, y) < Rank(ahead, x) \/ Rank(ahead, x) < Rank(ahead, y)
      BY <2>2, RanksAreRanks DEF IsOrder
    <3> QED
      BY <3>1, <2>1, <2>2
  <2> QED
    BY <1>2, <2>1, <2>3
<1> QED
  BY <1>1, <1>2, <1>3

-----------------------------------------------------------------------------
(* A sequence of elements of S without repetition.                         *)
Ranking(seq, S) ==
  /\ seq \in Seq(S)
  /\ \A i, j \in DOMAIN seq : seq[i] = seq[j] => i = j

(* Position finds where an element of a ranking is.                        *)
LEMMA PositionInRanking ==
  ASSUME NEW S, NEW seq, Ranking(seq, S), NEW i \in DOMAIN seq
  PROVE  Position(seq, seq[i]) = i
BY DEF Ranking, Position

(* What a ranking holds has a position in it.                              *)
LEMMA PositionIsThere ==
  ASSUME NEW S, NEW seq, Ranking(seq, S), NEW x \in In(seq)
  PROVE  /\ Position(seq, x) \in 1 .. Len(seq)
         /\ seq[Position(seq, x)] = x
BY DEF Ranking, Position, In

(* A ranking is as long as the set of what it holds.                       *)
LEMMA LengthOfRanking ==
  ASSUME NEW S, NEW seq, Ranking(seq, S)
  PROVE  /\ In(seq) \subseteq S
         /\ IsFiniteSet(In(seq))
         /\ Len(seq) = Cardinality(In(seq))
<1>1. seq \in [1 .. Len(seq) -> S] /\ Len(seq) \in Nat
  BY DEF Ranking
<1>2. seq \in Bijection(1 .. Len(seq), In(seq))
  BY <1>1 DEF Ranking, In, Bijection, Injection, Surjection, IsInjective
<1>3. ExistsBijection(1 .. Len(seq), In(seq))
  BY <1>2 DEF ExistsBijection
<1> QED
  BY <1>1, <1>3, FS_CountingElements, FS_NatBijection DEF In

(* A sorted set is a ranking of it, in which the position is the rank.     *)
LEMMA SortedRanks ==
  ASSUME NEW S, NEW ahead, IsOrder(S, ahead)
  PROVE  /\ Ranking(Sorted(S, ahead), S)
         /\ In(Sorted(S, ahead)) = S
         /\ Len(Sorted(S, ahead)) = Cardinality(S)
         /\ \A x \in S : Position(Sorted(S, ahead), x) = Rank(ahead, x)
<1> DEFINE n == Cardinality(S)
           sorted == Sorted(S, ahead)
<1>1. /\ n \in Nat
      /\ sorted \in [1 .. n -> S]
      /\ \A i \in 1 .. n : Rank(ahead, sorted[i]) = i
      /\ \A x \in S : Rank(ahead, x) \in 1 .. n /\ sorted[Rank(ahead, x)] = x
  BY SortedByRank, RanksAreRanks
<1> HIDE DEF sorted, n
<1>2. sorted \in Seq(S) /\ Len(sorted) = n /\ DOMAIN sorted = 1 .. n
  BY <1>1
<1>3. Ranking(sorted, S)
  BY <1>1, <1>2 DEF Ranking
<1>4. In(sorted) = S
  BY <1>1, <1>2 DEF In
<1>5. ASSUME NEW x \in S
      PROVE  Position(sorted, x) = Rank(ahead, x)
  BY <1>1, <1>2, <1>3, PositionInRanking
<1> QED
  BY <1>2, <1>3, <1>4, <1>5 DEF sorted, n

(* The first n of a ranking are a ranking.                                 *)
LEMMA TopOfRanking ==
  ASSUME NEW S, NEW seq, Ranking(seq, S), NEW n \in Nat
  PROVE  /\ Ranking(Top(n, seq), S)
         /\ Len(Top(n, seq)) = IF n < Len(seq) THEN n ELSE Len(seq)
         /\ \A i \in 1 .. Len(Top(n, seq)) : Top(n, seq)[i] = seq[i]
         /\ In(Top(n, seq)) \subseteq In(seq)
<1> DEFINE m == IF n < Len(seq) THEN n ELSE Len(seq)
           top == Top(n, seq)
<1>1. m \in 0 .. Len(seq) /\ seq \in Seq(S) /\ Len(seq) \in Nat
  BY DEF Ranking
<1>2. top = SubSeq(seq, 1, m)
  BY DEF Top
<1> HIDE DEF m, top
<1>3. /\ top \in Seq(S) /\ Len(top) = m
      /\ \A i \in 1 .. m : top[i] = seq[i]
  BY <1>1, <1>2
<1>4. Ranking(top, S)
  BY <1>1, <1>3 DEF Ranking
<1>5. In(top) \subseteq In(seq)
  BY <1>1, <1>3 DEF In
<1> QED
  BY <1>3, <1>4, <1>5 DEF m, top

(* They are those at a position up to n, where they were.                  *)
LEMMA InTop ==
  ASSUME NEW S, NEW seq, Ranking(seq, S), NEW n \in Nat, NEW x \in In(seq)
  PROVE  /\ x \in In(Top(n, seq)) <=> Position(seq, x) <= n
         /\ x \in In(Top(n, seq)) => Position(Top(n, seq), x) = Position(seq, x)
<1> DEFINE top == Top(n, seq)
           i == Position(seq, x)
<1>1. i \in 1 .. Len(seq) /\ seq[i] = x /\ seq \in Seq(S)
  BY PositionIsThere DEF Ranking
<1>2. /\ Ranking(top, S)
      /\ Len(top) = IF n < Len(seq) THEN n ELSE Len(seq)
      /\ \A k \in 1 .. Len(top) : top[k] = seq[k]
  BY TopOfRanking
<1> HIDE DEF top, i
<1>3. ASSUME i <= n
      PROVE  x \in In(top) /\ Position(top, x) = i
  <2>1. i \in DOMAIN top /\ top[i] = x
    BY <1>1, <1>2, <1>3 DEF Ranking
  <2> QED
    BY <1>2, <2>1, PositionInRanking DEF In
<1>4. ASSUME x \in In(top)
      PROVE  i <= n
  <2>1. PICK k \in 1 .. Len(top) : top[k] = x
    BY <1>2, <1>4 DEF In, Ranking
  <2>2. k \in 1 .. Len(seq) /\ seq[k] = x
    BY <1>1, <1>2, <2>1
  <2>3. k = i
    BY <1>1, <2>2 DEF Ranking
  <2> QED
    BY <1>1, <1>2, <2>1, <2>3
<1> QED
  BY <1>3, <1>4 DEF top, i

(* The elements at some positions of a ranking are in the order they were  *)
(* in.                                                                     *)
LEMMA AtRanking ==
  ASSUME NEW S, NEW seq, Ranking(seq, S), NEW N \in SUBSET DOMAIN seq
  PROVE  /\ Ranking(At(seq, N), S)
         /\ In(At(seq, N)) = {seq[i] : i \in N}
         /\ \A x, y \in In(At(seq, N)) :
              Position(At(seq, N), x) < Position(At(seq, N), y)
                <=> Position(seq, x) < Position(seq, y)
         /\ Len(At(seq, N)) <= Len(seq)
<1> DEFINE ahead == [i \in N |-> {j \in N : j < i}]
           order == Ascending(N)
           at == At(seq, N)
<1>1. N \in SUBSET (1 .. Len(seq)) /\ Len(seq) \in Nat /\ seq \in Seq(S)
  BY DEF Ranking
<1>2. IsOrder(N, ahead)
  BY <1>1, AscendingOrder
<1>3. /\ Ranking(order, N) /\ In(order) = N
      /\ Len(order) = Cardinality(N)
      /\ \A i \in N : Position(order, i) = Rank(ahead, i)
  BY <1>2, SortedRanks DEF Ascending
<1>4. \A i, j \in N : Position(order, i) < Position(order, j) <=> i < j
  <2>1. \A i, j \in N : i < j => i \in ahead[j]
    OBVIOUS
  <2>2. \A i, j \in N : i < j => Rank(ahead, i) < Rank(ahead, j)
    BY <1>2, <2>1, RanksAreRanks
  <2>3. \A i \in N : Rank(ahead, i) \in Nat
    BY <1>2, RanksAreRanks
  <2> HIDE DEF ahead
  <2> QED
    BY <1>1, <1>3, <2>2, <2>3
<1>5. at = [k \in DOMAIN order |-> seq[order[k]]]
  BY DEF At
<1> HIDE DEF ahead, order, at
<1>6. order \in Seq(N) /\ Len(order) \in Nat /\ DOMAIN order = 1 .. Len(order)
  BY <1>3 DEF Ranking
<1>7. at \in Seq(S) /\ Len(at) = Len(order) /\ DOMAIN at = 1 .. Len(order)
  BY <1>1, <1>5, <1>6
<1>8. Ranking(at, S)
  BY <1>1, <1>3, <1>5, <1>6, <1>7 DEF Ranking
<1>9. In(at) = {seq[i] : i \in N}
  BY <1>3, <1>5, <1>6, <1>7 DEF In
<1>10. ASSUME NEW i \in N
       PROVE  Position(at, seq[i]) = Position(order, i) /\ Position(seq, seq[i]) = i
  <2>1. /\ Position(order, i) \in 1 .. Len(order)
        /\ order[Position(order, i)] = i
    BY <1>3, PositionIsThere
  <2>2. at[Position(order, i)] = seq[i]
    BY <1>5, <1>6, <2>1
  <2> QED
    BY <1>1, <1>7, <1>8, <2>1, <2>2, PositionInRanking
<1>11. Len(at) <= Len(seq)
  <2>1. Cardinality(N) <= Cardinality(1 .. Len(seq))
    <3>1. IsFiniteSet(1 .. Len(seq))
      BY <1>1, FS_Interval
    <3> QED
      BY <1>1, <3>1, FS_Subset
  <2> QED
    <3>1. Cardinality(1 .. Len(seq)) = Len(seq)
      BY SMTT(60), <1>1, FS_Interval
    <3> QED
      BY <1>3, <1>7, <2>1, <3>1
<1>12. \A x, y \in In(at) : Position(at, x) < Position(at, y)
                             <=> Position(seq, x) < Position(seq, y)
  <2> SUFFICES ASSUME NEW x \in In(at), NEW y \in In(at)
               PROVE  Position(at, x) < Position(at, y)
                        <=> Position(seq, x) < Position(seq, y)
    OBVIOUS
  <2>1. PICK i \in N : x = seq[i]
    BY <1>9
  <2>2. PICK j \in N : y = seq[j]
    BY <1>9
  <2> QED
    BY <1>4, <1>10, <2>1, <2>2
<1> QED
  BY <1>8, <1>9, <1>11, <1>12 DEF at

-----------------------------------------------------------------------------
(* What a query computes for a passage are numbers, and what breaks ties   *)
(* between match scores is less than a whole term.                         *)
LEMMA TextsOfPassages ==
  ASSUME NEW q \in Queries, NEW p \in Passages
  PROVE  /\ p \in Nat
         /\ Match(q, p) \in Nat
         /\ Score(q, p) \in Nat
         /\ Match(q, p) <= Score(q, p) /\ Score(q, p) < Match(q, p) + Whole
         /\ Distance(q, p) \in Nat
<1>1. TextOf[p] \in Texts /\ p \in Nat
  BY RetrievalAssumption
<1>2. /\ q.match[TextOf[p]] \in Nat /\ q.distance[TextOf[p]] \in Nat
      /\ q.tail[TextOf[p]] \in 0 .. 1
  BY <1>1 DEF Queries, Whole
<1> QED
  BY <1>1, <1>2 DEF Match, Score, Distance, Whole

(* The orders of keyword and semantic search: ids break all ties.          *)
LEMMA ScoresOrder ==
  ASSUME NEW q \in Queries, NEW S \in SUBSET Passages
  PROVE  IsOrder(S, [r \in S |-> {p \in S : HigherScore(q, p, r)}])
<1> DEFINE ahead == [r \in S |-> {p \in S : HigherScore(q, p, r)}]
<1>1. IsFiniteSet(S)
  BY FS_Subset, RetrievalAssumption
<1>2. ahead \in [S -> SUBSET S]
  OBVIOUS
<1>3. \A p, r \in S : p \in ahead[r] <=> HigherScore(q, p, r)
  OBVIOUS
<1>4. \A p \in S : p \in Nat /\ Score(q, p) \in Nat
  BY TextsOfPassages
<1>5. IsOrder(S, ahead)
  <2> HIDE DEF ahead
  <2> QED
    BY <1>1, <1>2, <1>3, <1>4 DEF IsOrder, HigherScore
<1> QED
  BY <1>5

(* And that of semantic search.                                            *)
LEMMA DistancesOrder ==
  ASSUME NEW q \in Queries, NEW S \in SUBSET Passages
  PROVE  IsOrder(S, [r \in S |-> {p \in S : Nearer(q, p, r)}])
<1> DEFINE ahead == [r \in S |-> {p \in S : Nearer(q, p, r)}]
<1>1. IsFiniteSet(S)
  BY FS_Subset, RetrievalAssumption
<1>2. ahead \in [S -> SUBSET S]
  OBVIOUS
<1>3. \A p, r \in S : p \in ahead[r] <=> Nearer(q, p, r)
  OBVIOUS
<1>4. \A p \in S : p \in Nat /\ Distance(q, p) \in Nat
  BY TextsOfPassages
<1>5. IsOrder(S, ahead)
  <2> HIDE DEF ahead
  <2> QED
    BY <1>1, <1>2, <1>3, <1>4 DEF IsOrder, Nearer
<1> QED
  BY <1>5

(* Comparing fractions by cross-multiplication is transitive.              *)
LEMMA Fractions ==
  ASSUME NEW a \in Nat, NEW b \in Nat \ {0}, NEW c \in Nat, NEW d \in Nat \ {0},
         NEW e \in Nat, NEW f \in Nat \ {0},
         a * d >= c * b, c * f >= e * d
  PROVE  /\ a * f >= e * b
         /\ a * d > c * b \/ c * f > e * d => a * f > e * b
<1>1. a * d * f >= c * b * f /\ (a * d > c * b => a * d * f > c * b * f)
  OBVIOUS
<1>2. c * f * b >= e * d * b /\ (c * f > e * d => c * f * b > e * d * b)
  OBVIOUS
<1>3. c * b * f = c * f * b /\ a * d * f = a * f * d /\ e * d * b = e * b * d
  OBVIOUS
<1>4. a * f * d >= e * b * d
      /\ (a * d > c * b \/ c * f > e * d => a * f * d > e * b * d)
  BY <1>1, <1>2, <1>3
<1>5. a * f < e * b => a * f * d < e * b * d
  OBVIOUS
<1>6. a * f = e * b => a * f * d = e * b * d
  OBVIOUS
<1> QED
  BY <1>4, <1>5, <1>6

(* One more search that found a passage makes up for any rank there: 1/a + *)
(* 1/b > 1/c where a < c.                                                  *)
LEMMA MoreThanOne ==
  ASSUME NEW a \in Nat \ {0}, NEW b \in Nat \ {0}, NEW c \in Nat \ {0}, a < c
  PROVE  (a + b) * c > 1 * (a * b)
<1>1. b * c > b * a
  OBVIOUS
<1>2. (a + b) * c = a * c + b * c /\ a * c \in Nat /\ b * a = a * b
  OBVIOUS
<1> QED
  BY <1>1, <1>2

(* 1/a + 1/b > 1/c + 1/d where a < c and b < d.                            *)
LEMMA MoreOfBoth ==
  ASSUME NEW a \in Nat \ {0}, NEW b \in Nat \ {0},
         NEW c \in Nat \ {0}, NEW d \in Nat \ {0}, a < c, b < d
  PROVE  (a + b) * (c * d) > (c + d) * (a * b)
<1> DEFINE m == c * d
           n == a * b
<1>1. a * c * d > a * c * b
  <2>1. a * c \in Nat \ {0}
    OBVIOUS
  <2> HIDE DEF m, n
  <2> QED
    BY <2>1
<1>2. b * d * c > b * d * a
  <2>1. b * d \in Nat \ {0}
    OBVIOUS
  <2> QED
    BY <2>1
<1>3. a * c * d = a * m /\ b * d * c = b * m /\ a * c * b = c * n /\ b * d * a = d * n
  OBVIOUS
<1>4. m \in Nat /\ n \in Nat /\ a * m \in Nat /\ b * m \in Nat /\ c * n \in Nat /\ d * n \in Nat
  OBVIOUS
<1>5. (a + b) * m = a * m + b * m /\ (c + d) * n = c * n + d * n
  <2> HIDE DEF m, n
  <2> QED
    BY <1>4
<1> HIDE DEF m, n
<1>6. a * m > c * n /\ b * m > d * n
  BY <1>1, <1>2, <1>3
<1>7. a * m + b * m > c * n + d * n
  BY <1>4, <1>6
<1>8. (a + b) * m > (c + d) * n
  BY <1>5, <1>7
<1> QED
  BY <1>8 DEF m, n

(* The rankings of passages.                                               *)
Rankings == {seq \in Seq(Passages) : Ranking(seq, Passages)}

(* Scores of the fusion are proper fractions.                              *)
LEMMA PointsArePositive ==
  ASSUME NEW keyword \in Rankings, NEW semantic \in Rankings,
         NEW p \in In(keyword) \cup In(semantic)
  PROVE  /\ Points(keyword, semantic, p)[1] \in Nat \ {0}
         /\ Points(keyword, semantic, p)[2] \in Nat \ {0}
         /\ p \in Nat
<1>1. p \in In(keyword) => Position(keyword, p) \in Nat \ {0}
  BY PositionIsThere DEF Rankings
<1>2. p \in In(semantic) => Position(semantic, p) \in Nat \ {0}
  BY PositionIsThere DEF Rankings
<1>3. p \in Nat
  BY RetrievalAssumption, LengthOfRanking DEF Rankings
<1>4. RrfK \in Nat \ {0}
  BY RetrievalAssumption
<1>5. \A i, j \in Nat \ {0} : i * j \in Nat \ {0} /\ i + j \in Nat \ {0}
  OBVIOUS
<1> DEFINE a == RrfK + Position(keyword, p)
           b == RrfK + Position(semantic, p)
<1>6. p \in In(keyword) => a \in Nat \ {0}
  BY <1>1, <1>4
<1>7. p \in In(semantic) => b \in Nat \ {0}
  BY <1>2, <1>4
<1>8. Points(keyword, semantic, p) =
        IF p \notin In(semantic) THEN <<1, a>>
        ELSE IF p \notin In(keyword) THEN <<1, b>> ELSE <<a + b, a * b>>
  BY DEF Points
<1> HIDE DEF a, b
<1> QED
  BY <1>3, <1>5, <1>6, <1>7, <1>8

(* More points, then the smaller id, is an order: the fused ranking does   *)
(* not depend on how it is sorted.                                         *)
LEMMA PointsOrder ==
  ASSUME NEW keyword \in Rankings, NEW semantic \in Rankings,
         NEW S \in SUBSET (In(keyword) \cup In(semantic))
  PROVE  IsOrder(S, [r \in S |-> {p \in S : MorePoints(keyword, semantic, p, r)}])
<1> DEFINE ahead == [r \in S |-> {p \in S : MorePoints(keyword, semantic, p, r)}]
           over(p) == Points(keyword, semantic, p)[1]
           under(p) == Points(keyword, semantic, p)[2]
<1>1. IsFiniteSet(S)
  <2>1. IsFiniteSet(In(keyword)) /\ IsFiniteSet(In(semantic))
    BY LengthOfRanking DEF Rankings
  <2>2. IsFiniteSet(In(keyword) \cup In(semantic))
    BY <2>1, FS_Union
  <2> QED
    BY <2>2, FS_Subset
<1>2. ahead \in [S -> SUBSET S]
  OBVIOUS
<1>3. \A p, r \in S : p \in ahead[r] <=>
        \/ over(p) * under(r) > over(r) * under(p)
        \/ over(p) * under(r) = over(r) * under(p) /\ p < r
  BY DEF MorePoints
<1>4. \A p \in S : over(p) \in Nat \ {0} /\ under(p) \in Nat \ {0} /\ p \in Nat
  BY PointsArePositive
<1> HIDE DEF ahead, over, under
<1>5. \A p, r \in S : over(p) * under(r) \in Nat
  BY <1>4
<1>6. ASSUME NEW p \in S, NEW r \in S, NEW s \in S, p \in ahead[r], r \in ahead[s]
      PROVE  p \in ahead[s]
  <2>1. /\ over(p) * under(r) >= over(r) * under(p)
        /\ over(r) * under(s) >= over(s) * under(r)
    BY <1>3, <1>5, <1>6
  <2>2. /\ over(p) * under(s) >= over(s) * under(p)
        /\ \/ over(p) * under(r) > over(r) * under(p)
           \/ over(r) * under(s) > over(s) * under(r)
           => over(p) * under(s) > over(s) * under(p)
    BY <1>4, <2>1, Fractions
  <2>3. CASE \/ over(p) * under(r) > over(r) * under(p)
             \/ over(r) * under(s) > over(s) * under(r)
    BY <1>3, <2>2, <2>3
  <2>4. CASE ~ \/ over(p) * under(r) > over(r) * under(p)
               \/ over(r) * under(s) > over(s) * under(r)
    <3>1. p < r /\ r < s
      BY <1>3, <1>5, <1>6, <2>4
    <3>2. p < s
      BY <1>4, <3>1
    <3> QED
      BY <1>3, <1>5, <2>2, <3>2
  <2> QED
    BY <2>3, <2>4
<1>7. IsOrder(S, ahead)
  <2>1. \A p \in S : p \notin ahead[p]
    BY <1>3, <1>4, <1>5
  <2>2. \A p, r \in S : p # r => p \in ahead[r] \/ r \in ahead[p]
    BY <1>3, <1>4, <1>5
  <2> QED
    BY <1>1, <1>2, <1>6, <2>1, <2>2 DEF IsOrder
<1> QED
  BY <1>7 DEF ahead

-----------------------------------------------------------------------------
(* What is left out of a ranking leaves a ranking of the rest.             *)
LEMMA KeptRanking ==
  ASSUME NEW seq \in Rankings, NEW S
  PROVE  /\ Kept(seq, S) \in Rankings
         /\ In(Kept(seq, S)) = In(seq) \cap S
         /\ Len(Kept(seq, S)) <= Len(seq)
<1>1. Ranking(seq, Passages)
  BY DEF Rankings
<1>2. {i \in DOMAIN seq : seq[i] \in S} \in SUBSET DOMAIN seq
  OBVIOUS
<1>3. /\ Ranking(Kept(seq, S), Passages)
      /\ In(Kept(seq, S)) = {seq[i] : i \in {k \in DOMAIN seq : seq[k] \in S}}
      /\ Len(Kept(seq, S)) <= Len(seq)
  BY <1>1, <1>2, AtRanking DEF Kept
<1>4. Kept(seq, S) \in Rankings
  BY <1>3 DEF Rankings, Ranking
<1>5. In(Kept(seq, S)) = In(seq) \cap S
  BY <1>3 DEF In
<1> QED
  BY <1>3, <1>4, <1>5

(* TopOfRanking for passages.                                              *)
LEMMA TopIsRanking ==
  ASSUME NEW seq \in Rankings, NEW n \in Nat
  PROVE  /\ Top(n, seq) \in Rankings
         /\ Len(Top(n, seq)) <= n /\ Len(Top(n, seq)) <= Len(seq)
         /\ In(Top(n, seq)) \subseteq In(seq)
<1>1. Ranking(seq, Passages) /\ Len(seq) \in Nat
  BY DEF Rankings
<1>2. /\ Ranking(Top(n, seq), Passages)
      /\ Len(Top(n, seq)) = IF n < Len(seq) THEN n ELSE Len(seq)
      /\ In(Top(n, seq)) \subseteq In(seq)
  BY <1>1, TopOfRanking
<1> QED
  BY <1>1, <1>2 DEF Rankings, Ranking

(* SortedRanks for passages.                                               *)
LEMMA SortedIsRanking ==
  ASSUME NEW S \in SUBSET Passages, NEW ahead, IsOrder(S, ahead)
  PROVE  Sorted(S, ahead) \in Rankings /\ In(Sorted(S, ahead)) = S
<1>1. Ranking(Sorted(S, ahead), S) /\ In(Sorted(S, ahead)) = S
  BY SortedRanks
<1>2. Sorted(S, ahead) \in Seq(Passages)
  BY <1>1 DEF Ranking
<1> QED
  BY <1>1, <1>2 DEF Rankings, Ranking

(* Leaving out forms shortens a ranking at most.                           *)
LEMMA WithoutFormsRanks ==
  ASSUME NEW q \in Queries, NEW n \in Nat, NEW seq \in Rankings,
         q.asksForm => Len(seq) <= n
  PROVE  /\ WithoutForms(q, seq, n) \in Rankings
         /\ Len(WithoutForms(q, seq, n)) <= n
         /\ In(WithoutForms(q, seq, n)) \subseteq In(seq)
<1>1. CASE q.asksForm
  BY <1>1 DEF WithoutForms
<1>2. CASE ~q.asksForm
  <2> DEFINE kept == Kept(seq, {p \in Passages : TextOf[p] \notin Forms})
  <2>1. kept \in Rankings /\ In(kept) \subseteq In(seq)
    BY KeptRanking
  <2>2. /\ Top(n, kept) \in Rankings
        /\ Len(Top(n, kept)) <= n
        /\ In(Top(n, kept)) \subseteq In(kept)
    BY <2>1, TopIsRanking
  <2>3. WithoutForms(q, seq, n) = Top(n, kept)
    BY <1>2 DEF WithoutForms
  <2> QED
    BY <2>1, <2>2, <2>3
<1> QED
  BY <1>1, <1>2

(* Either search ranks rows that are there, and n of them at most.         *)
LEMMA SearchesRank ==
  ASSUME NEW q \in Queries, NEW held \in SUBSET Passages, NEW n \in Nat
  PROVE  /\ KeywordSearch(q, held, n) \in Rankings
         /\ Len(KeywordSearch(q, held, n)) <= n
         /\ In(KeywordSearch(q, held, n)) \subseteq held
         /\ SemanticSearch(q, held, n) \in Rankings
         /\ Len(SemanticSearch(q, held, n)) <= n
         /\ In(SemanticSearch(q, held, n)) \subseteq held
<1>1. Fetched(q, n) \in Nat /\ (q.asksForm => Fetched(q, n) = n)
  BY DEF Fetched
<1>2. Contenders(q, held, Fetched(q, n)) \in SUBSET held
  BY DEF Contenders, Matched
<1>3. /\ KeywordRows(q, held, Fetched(q, n)) \in Rankings
      /\ Len(KeywordRows(q, held, Fetched(q, n))) <= Fetched(q, n)
      /\ In(KeywordRows(q, held, Fetched(q, n))) \subseteq held
  <2> DEFINE S == Contenders(q, held, Fetched(q, n))
  <2>1. ByScore(q, S) \in Rankings /\ In(ByScore(q, S)) = S
    BY <1>2, ScoresOrder, SortedIsRanking DEF ByScore
  <2> QED
    BY <1>1, <1>2, <2>1, TopIsRanking DEF KeywordRows
<1>4. /\ SemanticRows(q, held, Fetched(q, n)) \in Rankings
      /\ Len(SemanticRows(q, held, Fetched(q, n))) <= Fetched(q, n)
      /\ In(SemanticRows(q, held, Fetched(q, n))) \subseteq held
  <2> DEFINE S == {p \in held : Distance(q, p) > 0}
  <2>1. S \in SUBSET held
    OBVIOUS
  <2>2. ByDistance(q, S) \in Rankings /\ In(ByDistance(q, S)) = S
    BY <2>1, DistancesOrder, SortedIsRanking DEF ByDistance
  <2> QED
    BY <1>1, <2>1, <2>2, TopIsRanking DEF SemanticRows
<1>5. \A seq \in Rankings : Len(seq) \in Nat
  BY DEF Rankings
<1>6. ASSUME NEW seq \in Rankings, Len(seq) <= Fetched(q, n), In(seq) \subseteq held
      PROVE  /\ WithoutForms(q, seq, n) \in Rankings
             /\ Len(WithoutForms(q, seq, n)) <= n
             /\ In(WithoutForms(q, seq, n)) \subseteq held
  BY <1>1, <1>5, <1>6, WithoutFormsRanks
<1> QED
  BY <1>3, <1>4, <1>6 DEF KeywordSearch, SemanticSearch

(* The fused ranking has all that was found when there is room, n at most  *)
(* otherwise, and more points come first.                                  *)
LEMMA FuseRanks ==
  ASSUME NEW keyword \in Rankings, NEW semantic \in Rankings, NEW n \in Nat
  PROVE  LET found == In(keyword) \cup In(semantic)
             fused == Fuse(keyword, semantic, n)
         IN  /\ fused \in Rankings /\ Len(fused) <= n /\ In(fused) \subseteq found
             /\ Cardinality(found) <= n => In(fused) = found
             /\ \A r \in In(fused) : \A p \in found :
                  MorePoints(keyword, semantic, p, r)
                  => p \in In(fused) /\ Position(fused, p) < Position(fused, r)
<1> DEFINE found == In(keyword) \cup In(semantic)
           ahead == [r \in found |-> {p \in found : MorePoints(keyword, semantic, p, r)}]
           all == Sorted(found, ahead)
           fused == Fuse(keyword, semantic, n)
<1>1. IsOrder(found, ahead)
  BY PointsOrder
<1>2. found \in SUBSET Passages
  BY LengthOfRanking DEF Rankings
<1>3. /\ all \in Rankings /\ In(all) = found /\ Len(all) = Cardinality(found)
      /\ \A p \in found : Position(all, p) = Rank(ahead, p)
  <2> HIDE DEF found, ahead
  <2> QED
    BY <1>1, <1>2, SortedRanks, SortedIsRanking
<1>4. fused = Top(n, all)
  BY DEF Fuse
<1>5. \A p, r \in found : MorePoints(keyword, semantic, p, r) => p \in ahead[r]
  BY DEF found
<1> HIDE DEF found, ahead, all, fused
<1>6. fused \in Rankings /\ Len(fused) <= n /\ In(fused) \subseteq found
  BY <1>3, <1>4, TopIsRanking
<1>7. ASSUME NEW p \in found
      PROVE  /\ p \in In(fused) <=> Rank(ahead, p) <= n
             /\ p \in In(fused) => Position(fused, p) = Rank(ahead, p)
             /\ Rank(ahead, p) \in 1 .. Cardinality(found)
  <2>1. Ranking(all, Passages)
    BY <1>3 DEF Rankings
  <2> QED
    BY <1>1, <1>3, <1>4, <2>1, InTop, RanksAreRanks
<1>8. ASSUME Cardinality(found) <= n
      PROVE  In(fused) = found
  <2>1. Cardinality(found) \in Nat
    BY <1>1, RanksAreRanks
  <2>2. ASSUME NEW p \in found
        PROVE  p \in In(fused)
    <3>1. Rank(ahead, p) <= n
      BY <1>7, <1>8, <2>1
    <3> QED
      BY <1>7, <3>1
  <2> QED
    BY <1>6, <2>2
<1>9. ASSUME NEW r \in In(fused), NEW p \in found, MorePoints(keyword, semantic, p, r)
      PROVE  p \in In(fused) /\ Position(fused, p) < Position(fused, r)
  <2>1. r \in found
    BY <1>6
  <2>2. Rank(ahead, p) < Rank(ahead, r)
    BY <1>1, <1>5, <1>9, <2>1, RanksAreRanks
  <2>3. Rank(ahead, p) \in Nat /\ Rank(ahead, r) \in Nat
    BY <1>7, <2>1
  <2> QED
    BY <1>7, <2>1, <2>2, <2>3
<1> QED
  BY <1>6, <1>8, <1>9 DEF found, fused

(* A passage that both searches put ahead of another has more points: each *)
(* search that found the other found it too, at a better rank.             *)
LEMMA AgreedPoints ==
  ASSUME NEW keyword \in Rankings, NEW semantic \in Rankings,
         NEW p \in In(keyword) \cup In(semantic),
         NEW r \in In(keyword) \cup In(semantic), p # r,
         \A seq \in {keyword, semantic} :
           r \in In(seq) => p \in In(seq) /\ Position(seq, p) < Position(seq, r)
  PROVE  MorePoints(keyword, semantic, p, r)
<1> DEFINE a(x) == RrfK + Position(keyword, x)
           b(x) == RrfK + Position(semantic, x)
<1>1. \A x \in In(keyword) : Position(keyword, x) \in Nat \ {0}
  BY PositionIsThere DEF Rankings
<1>2. \A x \in In(semantic) : Position(semantic, x) \in Nat \ {0}
  BY PositionIsThere DEF Rankings
<1>3. RrfK \in Nat \ {0}
  BY RetrievalAssumption
<1>4. \A x \in In(keyword) : a(x) \in Nat \ {0}
  BY <1>1, <1>3
<1>5. \A x \in In(semantic) : b(x) \in Nat \ {0}
  BY <1>2, <1>3
<1>6. r \in In(keyword) => p \in In(keyword) /\ a(p) < a(r)
  BY <1>1, <1>3
<1>7. r \in In(semantic) => p \in In(semantic) /\ b(p) < b(r)
  BY <1>2, <1>3
<1>8. \A x : Points(keyword, semantic, x) =
               IF x \notin In(semantic) THEN <<1, a(x)>>
               ELSE IF x \notin In(keyword) THEN <<1, b(x)>>
               ELSE <<a(x) + b(x), a(x) * b(x)>>
  BY DEF Points
<1> HIDE DEF a, b
<1> DEFINE more(x, y) == x[1] * y[2] > y[1] * x[2]
<1> SUFFICES more(Points(keyword, semantic, p), Points(keyword, semantic, r))
  BY DEF MorePoints
<1>9. CASE r \in In(keyword) /\ r \in In(semantic)
  <2>1. a(p) \in Nat \ {0} /\ b(p) \in Nat \ {0} /\ a(r) \in Nat \ {0} /\ b(r) \in Nat \ {0}
    BY <1>4, <1>5, <1>6, <1>7, <1>9
  <2>2. a(p) < a(r) /\ b(p) < b(r)
    BY <1>6, <1>7, <1>9
  <2>3. (a(p) + b(p)) * (a(r) * b(r)) > (a(r) + b(r)) * (a(p) * b(p))
    BY <2>1, <2>2, MoreOfBoth
  <2> QED
    BY <1>6, <1>7, <1>8, <1>9, <2>3
<1>10. CASE r \in In(keyword) /\ r \notin In(semantic)
  <2>1. a(p) \in Nat \ {0} /\ a(r) \in Nat \ {0} /\ a(p) < a(r)
    BY <1>4, <1>6, <1>10
  <2>2. CASE p \in In(semantic)
    <3>1. b(p) \in Nat \ {0}
      BY <1>5, <2>2
    <3>2. (a(p) + b(p)) * a(r) > 1 * (a(p) * b(p))
      BY <2>1, <3>1, MoreThanOne
    <3> QED
      BY <1>6, <1>8, <1>10, <2>2, <3>2
  <2>3. CASE p \notin In(semantic)
    BY <1>6, <1>8, <1>10, <2>1, <2>3
  <2> QED
    BY <2>2, <2>3
<1>11. CASE r \notin In(keyword) /\ r \in In(semantic)
  <2>1. b(p) \in Nat \ {0} /\ b(r) \in Nat \ {0} /\ b(p) < b(r)
    BY <1>5, <1>7, <1>11
  <2>2. CASE p \in In(keyword)
    <3>1. a(p) \in Nat \ {0}
      BY <1>4, <2>2
    <3>2. (b(p) + a(p)) * b(r) > 1 * (b(p) * a(p))
      BY <2>1, <3>1, MoreThanOne
    <3>3. b(p) + a(p) = a(p) + b(p) /\ b(p) * a(p) = a(p) * b(p)
      BY <2>1, <3>1
    <3> QED
      BY <1>7, <1>8, <1>11, <2>2, <3>2, <3>3
  <2>3. CASE p \notin In(keyword)
    BY <1>7, <1>8, <1>11, <2>1, <2>3
  <2> QED
    BY <2>2, <2>3
<1> QED
  BY <1>9, <1>10, <1>11

-----------------------------------------------------------------------------
(* Leaving out second versions: a place is left to one version, what is    *)
(* left out has another version of its place before it, and what stays     *)
(* keeps its order. All passages of a place go by the first one of that    *)
(* place, which always stays.                                              *)
LEMMA Deduplicated ==
  ASSUME NEW seq \in Rankings
  PROVE  LET kept == Deduplicate(seq)
         IN  /\ kept \in Rankings /\ Len(kept) <= Len(seq)
             /\ In(kept) \subseteq In(seq)
             /\ \A x, y \in In(kept) :
                  Position(kept, x) < Position(kept, y)
                    <=> Position(seq, x) < Position(seq, y)
             /\ \A p, r \in In(kept) : SamePlace(p, r) => VersionOf[p] = VersionOf[r]
             /\ \A p \in In(seq) \ In(kept) : \E x \in In(kept) :
                  /\ SamePlace(x, p) /\ VersionOf[x] # VersionOf[p]
                  /\ Position(seq, x) < Position(seq, p)
<1> DEFINE N == {i \in DOMAIN seq : FirstOfPlace(seq, i)}
           kept == Deduplicate(seq)
<1>1. Ranking(seq, Passages) /\ Len(seq) \in Nat /\ DOMAIN seq = 1 .. Len(seq)
  BY DEF Rankings
<1>2. kept = At(seq, N)
  BY DEF Deduplicate
<1>3. /\ Ranking(kept, Passages) /\ Len(kept) <= Len(seq)
      /\ In(kept) = {seq[i] : i \in N}
      /\ \A x, y \in In(kept) : Position(kept, x) < Position(kept, y)
                                  <=> Position(seq, x) < Position(seq, y)
  <2>1. N \in SUBSET DOMAIN seq
    OBVIOUS
  <2> QED
    BY <1>1, <1>2, <2>1, AtRanking
<1>4. \A i \in N : i \in 1 .. Len(seq) /\ FirstOfPlace(seq, i)
  BY <1>1
<1>5. \A i \in 1 .. Len(seq) : FirstOfPlace(seq, i) => i \in N
  BY <1>1
<1> HIDE DEF N, kept
<1>6. In(kept) \subseteq In(seq)
  BY <1>1, <1>3, <1>4 DEF In
<1>7. \A p, r, x : SamePlace(p, r) => /\ SamePlace(r, p) /\ SamePlace(p, p)
                                      /\ SamePlace(r, x) => SamePlace(p, x)
  BY DEF SamePlace
<1>8. ASSUME NEW i \in N, NEW j \in N, SamePlace(seq[i], seq[j])
      PROVE  VersionOf[seq[i]] = VersionOf[seq[j]]
  <2> DEFINE same == {k \in 1 .. Len(seq) : SamePlace(seq[i], seq[k])}
  <2>1. same \in SUBSET (1 .. Len(seq)) /\ same # {}
    BY <1>4, <1>8
  <2>2. PICK f \in same : \A k \in same : f <= k
    <3> HIDE DEF same
    <3> QED
      BY <1>1, <2>1, Least
  <2>3. ASSUME NEW k \in N, SamePlace(seq[i], seq[k])
        PROVE  VersionOf[seq[k]] = VersionOf[seq[f]]
    <3>1. k \in same /\ f <= k
      BY <1>4, <2>2, <2>3
    <3>2. CASE f = k
      BY <3>2
    <3>3. CASE f < k
      <4>1. f \in 1 .. k - 1
        BY <3>1, <3>3
      <4>2. SamePlace(seq[k], seq[f])
        BY <1>7, <2>3
      <4>3. \A x \in 1 .. f - 1 : ~SamePlace(seq[k], seq[x])
        <5> SUFFICES ASSUME NEW x \in 1 .. f - 1, SamePlace(seq[k], seq[x])
                     PROVE  FALSE
          OBVIOUS
        <5>1. x \in 1 .. Len(seq) /\ x < f
          BY <1>1
        <5>2. SamePlace(seq[i], seq[x])
          BY <1>7, <2>3
        <5> QED
          BY <2>2, <5>1, <5>2
      <4> QED
        BY <1>4, <4>1, <4>2, <4>3 DEF FirstOfPlace
    <3> QED
      BY <1>1, <3>1, <3>2, <3>3
  <2> QED
    BY <1>7, <1>8, <2>3
<1>9. ASSUME NEW p \in In(seq) \ In(kept)
      PROVE  \E x \in In(kept) :
               /\ SamePlace(x, p) /\ VersionOf[x] # VersionOf[p]
               /\ Position(seq, x) < Position(seq, p)
  <2>1. PICK i \in 1 .. Len(seq) : p = seq[i]
    BY <1>1 DEF In
  <2>2. ~FirstOfPlace(seq, i)
    BY <1>3, <1>5, <1>9, <2>1
  <2>3. PICK j \in 1 .. i - 1 : /\ SamePlace(seq[i], seq[j])
                                /\ \A k \in 1 .. j - 1 : ~SamePlace(seq[i], seq[k])
                                /\ VersionOf[seq[i]] # VersionOf[seq[j]]
    BY <2>2 DEF FirstOfPlace
  <2>4. j \in 1 .. Len(seq) /\ j < i
    BY <1>1
  <2>5. FirstOfPlace(seq, j)
    BY <1>7, <2>3 DEF FirstOfPlace
  <2>6. seq[j] \in In(kept)
    BY <1>3, <1>5, <2>4, <2>5
  <2>7. Position(seq, seq[j]) = j /\ Position(seq, seq[i]) = i
    BY <1>1, <2>4, PositionInRanking
  <2> QED
    BY <1>7, <2>1, <2>3, <2>4, <2>6, <2>7
<1>10. kept \in Rankings
  BY <1>3 DEF Rankings, Ranking
<1>11. \A p, r \in In(kept) : SamePlace(p, r) => VersionOf[p] = VersionOf[r]
  BY <1>3, <1>8
<1> QED
  BY <1>3, <1>6, <1>9, <1>10, <1>11 DEF kept

(* The same of the few that are used: as long as there was room, only a    *)
(* second version has given way; and what came before a passage in the     *)
(* ranking is used before it, or its other version is.                     *)
LEMMA FirstFew ==
  ASSUME NEW seq \in Rankings, NEW n \in Nat
  PROVE  LET few == Top(n, Deduplicate(seq))
         IN  /\ few \in Rankings /\ Len(few) <= n /\ Len(few) <= Len(seq)
             /\ In(few) \subseteq In(seq)
             /\ \A p, r \in In(few) : SamePlace(p, r) => VersionOf[p] = VersionOf[r]
             /\ Len(few) < n =>
                  \A p \in In(seq) \ In(few) : \E x \in In(few) :
                    SamePlace(x, p) /\ VersionOf[x] # VersionOf[p]
             /\ \A r \in In(few), p \in In(seq) :
                  Position(seq, p) < Position(seq, r) =>
                    \E x \in In(few) :
                      /\ x = p \/ (SamePlace(x, p) /\ VersionOf[x] # VersionOf[p])
                      /\ Position(few, x) < Position(few, r)
<1> DEFINE kept == Deduplicate(seq)
           few == Top(n, kept)
<1>1. /\ kept \in Rankings /\ Len(kept) <= Len(seq) /\ In(kept) \subseteq In(seq)
      /\ \A x, y \in In(kept) : Position(kept, x) < Position(kept, y)
                                  <=> Position(seq, x) < Position(seq, y)
      /\ \A p, r \in In(kept) : SamePlace(p, r) => VersionOf[p] = VersionOf[r]
      /\ \A p \in In(seq) \ In(kept) : \E x \in In(kept) :
           /\ SamePlace(x, p) /\ VersionOf[x] # VersionOf[p]
           /\ Position(seq, x) < Position(seq, p)
  BY Deduplicated
<1> HIDE DEF kept
<1>2. /\ few \in Rankings /\ Len(few) <= n /\ Len(few) <= Len(kept)
      /\ In(few) \subseteq In(kept)
  BY <1>1, TopIsRanking
<1>3. Ranking(kept, Passages) /\ Len(kept) \in Nat /\ Len(seq) \in Nat /\ Len(few) \in Nat
  BY <1>1, <1>2 DEF Rankings
<1>4. \A x \in In(kept) : /\ x \in In(few) <=> Position(kept, x) <= n
                          /\ x \in In(few) => Position(few, x) = Position(kept, x)
                          /\ Position(kept, x) \in 1 .. Len(kept)
  BY <1>3, InTop, PositionIsThere
<1>5. Len(few) < n => Len(kept) < n
  BY <1>3, TopOfRanking
<1>6. \A x \in In(seq) : Position(seq, x) \in Nat
  BY PositionIsThere DEF Rankings
<1> HIDE DEF few
<1>7. ASSUME Len(few) < n
      PROVE  \A p \in In(seq) \ In(few) : \E x \in In(few) :
               SamePlace(x, p) /\ VersionOf[x] # VersionOf[p]
  <2>1. In(kept) \subseteq In(few)
    BY <1>3, <1>4, <1>5, <1>7
  <2> QED
    BY <1>1, <2>1
<1>8. ASSUME NEW r \in In(few), NEW p \in In(seq), Position(seq, p) < Position(seq, r)
      PROVE  \E x \in In(few) :
               /\ x = p \/ (SamePlace(x, p) /\ VersionOf[x] # VersionOf[p])
               /\ Position(few, x) < Position(few, r)
  <2>1. r \in In(kept) /\ r \in In(seq)
    BY <1>1, <1>2
  <2>2. PICK x \in In(kept) : /\ x = p \/ (SamePlace(x, p) /\ VersionOf[x] # VersionOf[p])
                              /\ Position(seq, x) <= Position(seq, p)
    BY <1>1, <1>6
  <2>3. Position(seq, x) < Position(seq, r)
    BY <1>1, <1>6, <1>8, <2>1, <2>2
  <2>4. Position(kept, x) < Position(kept, r)
    BY <1>1, <2>1, <2>3
  <2>5. Position(kept, x) <= n
    BY <1>3, <1>4, <2>1, <2>4
  <2> QED
    BY <1>4, <2>1, <2>2, <2>4, <2>5
<1>9. Len(few) <= Len(seq) /\ In(few) \subseteq In(seq)
  BY <1>1, <1>2, <1>3
<1> QED
  BY <1>1, <1>2, <1>7, <1>8, <1>9 DEF few, kept

-----------------------------------------------------------------------------
(* The order by matched terms alone.                                       *)
LEMMA MatchesOrder ==
  ASSUME NEW q \in Queries, NEW S \in SUBSET Passages
  PROVE  IsOrder(S, [r \in S |-> {p \in S :
           Match(q, p) > Match(q, r) \/ (Match(q, p) = Match(q, r) /\ p < r)}])
<1> DEFINE ahead == [r \in S |-> {p \in S :
              Match(q, p) > Match(q, r) \/ (Match(q, p) = Match(q, r) /\ p < r)}]
<1>1. IsFiniteSet(S)
  BY FS_Subset, RetrievalAssumption
<1>2. ahead \in [S -> SUBSET S]
  OBVIOUS
<1>3. \A p, r \in S : p \in ahead[r] <=>
        Match(q, p) > Match(q, r) \/ (Match(q, p) = Match(q, r) /\ p < r)
  OBVIOUS
<1>4. \A p \in S : p \in Nat /\ Match(q, p) \in Nat
  BY TextsOfPassages
<1>5. IsOrder(S, ahead)
  <2> HIDE DEF ahead
  <2> QED
    BY <1>1, <1>2, <1>3, <1>4 DEF IsOrder
<1> QED
  BY <1>5

(* LastKept is a match score that n passages reach: that of the n-th in    *)
(* the order by matched terms alone, so the choice it makes has something  *)
(* to choose.                                                              *)
LEMMA LastKeptIsReached ==
  ASSUME NEW q \in Queries, NEW held \in SUBSET Passages, NEW n \in Nat \ {0},
         n <= Cardinality(Matched(q, held))
  PROVE  /\ LastKept(q, held, n) \in Nat
         /\ n <= Cardinality({p \in Matched(q, held) : Match(q, p) >= LastKept(q, held, n)})
<1> DEFINE M == Matched(q, held)
           better(m) == {p \in M : Match(q, p) > m}
           atLeast(m) == {p \in M : Match(q, p) >= m}
           ahead == [r \in M |-> {p \in M :
              Match(q, p) > Match(q, r) \/ (Match(q, p) = Match(q, r) /\ p < r)}]
           scores == {Match(q, p) : p \in held}
<1>1. M \in SUBSET held /\ M \in SUBSET Passages
  BY DEF Matched
<1>2. IsOrder(M, ahead)
  BY <1>1, MatchesOrder
<1>3. \A p \in held : Match(q, p) \in Nat
  BY TextsOfPassages
<1>4. \A r \in M : Match(q, r) \in scores
  BY <1>1
<1>5. \A r \in M : /\ better(Match(q, r)) \in SUBSET ahead[r]
                   /\ ahead[r] \cup {r} \in SUBSET atLeast(Match(q, r))
  BY <1>1, <1>3
<1>6. LastKept(q, held, n) =
        CHOOSE m \in scores :
          Cardinality(better(m)) < n /\ n <= Cardinality(atLeast(m))
  <2>1. Cardinality(M) \in Nat
    BY <1>2, RanksAreRanks
  <2>2. ~(Cardinality(M) < n)
    BY <2>1
  <2> QED
    BY <2>2 DEF LastKept
<1>7. \A m \in scores : m \in Nat
  BY <1>3
<1>8. \A m : IsFiniteSet(better(m)) /\ IsFiniteSet(atLeast(m))
  BY <1>2, FS_Subset DEF IsOrder
<1> HIDE DEF M, scores, ahead, better, atLeast
<1>9. PICK x \in M : Rank(ahead, x) = n
  <2>1. Cardinality(M) \in Nat
    BY <1>2, RanksAreRanks
  <2>2. n \in 1 .. Cardinality(M)
    BY <2>1 DEF M
  <2> QED
    BY <1>2, <2>2, RanksAreRanks
<1>10. ahead[x] \in SUBSET M /\ x \notin ahead[x] /\ IsFiniteSet(ahead[x])
  <2>1. ahead[x] \in SUBSET M /\ x \notin ahead[x]
    BY <1>2 DEF IsOrder
  <2> QED
    BY <1>2, <2>1, FS_Subset DEF IsOrder
<1>11. Cardinality(ahead[x]) = n - 1
  BY <1>9, <1>10, FS_CardinalityType DEF Rank
<1>12. Cardinality(better(Match(q, x))) < n
  <2>1. Cardinality(better(Match(q, x))) <= Cardinality(ahead[x])
    BY <1>5, <1>10, FS_Subset
  <2> QED
    BY <1>8, <1>11, <2>1, FS_CardinalityType
<1>13. n <= Cardinality(atLeast(Match(q, x)))
  <2>1. Cardinality(ahead[x] \cup {x}) = n
    <3>1. Cardinality(ahead[x] \cup {x}) = Cardinality(ahead[x]) + 1
      BY <1>10, FS_AddElement
    <3> QED
      BY <1>11, <3>1
  <2>2. /\ ahead[x] \cup {x} \in SUBSET atLeast(Match(q, x))
        /\ IsFiniteSet(atLeast(Match(q, x)))
    BY <1>5, <1>8
  <2>3. Cardinality(ahead[x] \cup {x}) <= Cardinality(atLeast(Match(q, x)))
    BY <2>2, FS_Subset
  <2> QED
    BY <2>1, <2>3
<1>14. /\ LastKept(q, held, n) \in scores
       /\ n <= Cardinality(atLeast(LastKept(q, held, n)))
  BY <1>4, <1>6, <1>12, <1>13
<1> QED
  BY <1>7, <1>14 DEF atLeast, M

(* Reading only the contenders gives the n that reading every matched      *)
(* passage would give. A passage that is no contender has the n that reach *)
(* LastKept ahead of it, and so has every passage that it is ahead of.     *)
LEMMA ContendersSuffice ==
  ASSUME NEW q \in Queries, NEW held \in SUBSET Passages, NEW n \in Nat \ {0}
  PROVE  KeywordRows(q, held, n) = Top(n, ByScore(q, Matched(q, held)))
<1> DEFINE M == Matched(q, held)
           C == Contenders(q, held, n)
           last == LastKept(q, held, n)
<1>1. M \in SUBSET Passages /\ C \in SUBSET M /\ C \in SUBSET Passages
  BY DEF Matched, Contenders
<1>2. Cardinality(M) \in Nat /\ IsFiniteSet(M) /\ IsFiniteSet(C)
  BY <1>1, RetrievalAssumption, FS_Subset, FS_CardinalityType
<1>3. \A p \in M : Match(q, p) \in Nat /\ Score(q, p) \in Nat
                   /\ Match(q, p) <= Score(q, p) /\ Score(q, p) < Match(q, p) + 2
  BY <1>1, TextsOfPassages DEF Whole
<1>4. \A p \in M : p \in C <=> Match(q, p) + 2 > last
  BY DEF Contenders, Whole
<1>5. CASE Cardinality(M) < n
  <2>1. last = 0
    BY <1>5 DEF LastKept
  <2>2. C = M
    BY <1>1, <1>3, <1>4, <2>1
  <2> QED
    BY <2>2 DEF KeywordRows
<1>6. CASE n <= Cardinality(M)
  <2> DEFINE reached == {p \in M : Match(q, p) >= last}
             aheadM == [r \in M |-> {p \in M : HigherScore(q, p, r)}]
             aheadC == [r \in C |-> {p \in C : HigherScore(q, p, r)}]
             all == ByScore(q, M)
             few == ByScore(q, C)
  <2>1. last \in Nat /\ n <= Cardinality(reached)
    BY <1>6, LastKeptIsReached
  <2>2. IsOrder(M, aheadM) /\ IsOrder(C, aheadC)
    BY <1>1, ScoresOrder
  <2>3. all = Sorted(M, aheadM) /\ few = Sorted(C, aheadC)
    BY DEF ByScore
  <2>4. reached \in SUBSET C
    BY <1>3, <1>4, <2>1
  <2>5. ASSUME NEW r \in M \ C, NEW p \in reached
        PROVE  p \in aheadM[r] /\ HigherScore(q, p, r)
    <3>1. Score(q, p) > Score(q, r)
      BY <1>3, <1>4, <2>1
    <3> QED
      BY <3>1 DEF HigherScore
  <2>6. /\ \A r \in M : aheadM[r] \in SUBSET M
        /\ \A r \in C : aheadC[r] = aheadM[r] \cap C
    BY <1>1
  <2>7. reached \in SUBSET M
    OBVIOUS
  <2> HIDE DEF M, C, last, reached, aheadM, aheadC, all, few
  <2>8. IsFiniteSet(reached) /\ Cardinality(reached) \in Nat
    BY <1>2, <2>7, FS_Subset, FS_CardinalityType
  <2>9. ASSUME NEW y \in M, Rank(aheadM, y) <= n
        PROVE  y \in C /\ aheadM[y] \in SUBSET C
    <3>1. IsFiniteSet(aheadM[y]) /\ Cardinality(aheadM[y]) \in Nat
      BY <1>2, <2>6, FS_Subset, FS_CardinalityType
    <3>2. Cardinality(aheadM[y]) < n
      BY <2>9, <3>1 DEF Rank
    <3>3. ~(reached \subseteq aheadM[y])
      <4> SUFFICES ASSUME reached \subseteq aheadM[y] PROVE FALSE
        OBVIOUS
      <4>1. Cardinality(reached) <= Cardinality(aheadM[y])
        BY <3>1, FS_Subset
      <4> QED
        BY <2>1, <2>8, <3>1, <3>2, <4>1
    <3>4. y \in C
      BY <2>5, <3>3
    <3>5. ASSUME NEW r \in aheadM[y], r \notin C
          PROVE  FALSE
      <4>1. r \in M \ C
        BY <2>6, <3>5
      <4>2. reached \subseteq aheadM[r]
        BY <2>5, <4>1
      <4>3. aheadM[r] \subseteq aheadM[y]
        BY <2>2, <3>5, <4>1 DEF IsOrder
      <4> QED
        BY <3>3, <4>2, <4>3
    <3> QED
      BY <3>4, <3>5
  <2>10. /\ all \in [1 .. Cardinality(M) -> M] /\ few \in [1 .. Cardinality(C) -> C]
         /\ \A i \in 1 .. Cardinality(M) : Rank(aheadM, all[i]) = i
         /\ \A x \in C : few[Rank(aheadC, x)] = x
    BY <2>2, <2>3, SortedByRank
  <2>11. Cardinality(C) \in Nat /\ n <= Cardinality(C)
    <3>1. Cardinality(C) \in Nat /\ Cardinality(reached) <= Cardinality(C)
      BY <1>2, <2>4, FS_Subset, FS_CardinalityType
    <3> QED
      BY <2>1, <2>8, <3>1
  <2>12. \A i \in 1 .. n : all[i] = few[i]
    <3> SUFFICES ASSUME NEW i \in 1 .. n
                 PROVE  all[i] = few[i]
      OBVIOUS
    <3>1. i \in 1 .. Cardinality(M) /\ i <= n
      BY <1>2, <1>6 DEF M
    <3>2. all[i] \in M /\ Rank(aheadM, all[i]) = i
      BY <2>10, <3>1
    <3>3. all[i] \in C /\ aheadM[all[i]] \in SUBSET C
      BY <2>9, <3>1, <3>2
    <3>4. aheadC[all[i]] = aheadM[all[i]]
      <4>1. aheadC[all[i]] = aheadM[all[i]] \cap C
        BY <2>6, <3>3
      <4>2. aheadM[all[i]] \cap C = aheadM[all[i]]
        BY <3>3
      <4> QED
        BY <4>1, <4>2
    <3>5. Rank(aheadC, all[i]) = i
      BY <3>2, <3>4 DEF Rank
    <3> QED
      BY <2>10, <3>3, <3>5
  <2>13. Ranking(all, M) /\ Ranking(few, C)
         /\ Len(all) = Cardinality(M) /\ Len(few) = Cardinality(C)
    BY <2>2, <2>3, SortedRanks
  <2>14. Top(n, all) = SubSeq(all, 1, n) /\ Top(n, few) = SubSeq(few, 1, n)
    <3>1. Top(n, all) = SubSeq(all, 1, n)
      <4>1. n < Len(all) \/ n = Len(all)
        BY <1>2, <1>6, <2>13 DEF M
      <4> QED
        BY <4>1 DEF Top
    <3>2. Top(n, few) = SubSeq(few, 1, n)
      <4>1. n < Len(few) \/ n = Len(few)
        BY <2>11, <2>13
      <4> QED
        BY <4>1 DEF Top
    <3> QED
      BY <3>1, <3>2
  <2>15. SubSeq(all, 1, n) = SubSeq(few, 1, n)
    <3>1. all \in Seq(M) /\ few \in Seq(C) /\ n <= Len(all) /\ n <= Len(few)
      BY <1>6, <2>11, <2>13 DEF Ranking, M
    <3>2. SubSeq(all, 1, n) = [i \in 1 .. n |-> all[i]]
      BY <3>1
    <3>3. SubSeq(few, 1, n) = [i \in 1 .. n |-> few[i]]
      BY <3>1
    <3> QED
      BY <2>12, <3>2, <3>3
  <2>16. KeywordRows(q, held, n) = Top(n, few)
    BY DEF KeywordRows, few, C
  <2> QED
    BY <2>14, <2>15, <2>16 DEF all, M
<1> QED
  BY <1>2, <1>5, <1>6

(***************************************************************************)
(* The answer to a question.                                               *)
(***************************************************************************)

(* What a request record holds.                                            *)
Fields == {"pc", "keyword", "semantic", "results", "read", "gate", "evidence",
           "citations", "answer", "atFirst"}

Progress == {"new", "embedding", "assess", "generate", "done"}

(* What is used comes of the rankings that were found, or nothing is.      *)
FromSearches ==
  \/ request.results = << >> /\ request.pc \in {"new", "embedding"}
  \/ request.results = << >> /\ request.keyword = << >> /\ request.semantic = << >>
  \/ request.semantic = << >> /\ request.results = Top(Limit, Deduplicate(request.keyword))
  \/ request.results =
       Top(Limit, Deduplicate(Fuse(request.keyword, request.semantic, Pool)))

(* The first part of the invariant: what was found are rankings of at most *)
(* Pool passages, and the results are the first few of them.               *)
RankingsHeld ==
  /\ request = [x \in Fields |-> request[x]]
  /\ rows \subseteq Passages /\ query \in Queries
  /\ request.pc \in Progress
  /\ request.keyword \in Rankings /\ Len(request.keyword) <= Pool
  /\ request.semantic \in Rankings /\ Len(request.semantic) <= Pool
  /\ request.pc = "new" => request.keyword = << >>
  /\ request.pc \in {"new", "embedding"} => request.semantic = << >>
  /\ FromSearches

(* Nothing is a ranking too.                                               *)
LEMMA NoRanking == << >> \in Rankings /\ In(<< >>) = {} /\ Len(<< >>) = 0
<1>1. << >> \in Seq(Passages) /\ DOMAIN << >> = {} /\ Len(<< >>) = 0
  OBVIOUS
<1>2. Ranking(<< >>, Passages)
  BY <1>1 DEF Ranking
<1> QED
  BY <1>1, <1>2 DEF Rankings, In

(* So it is when the question comes.                                       *)
LEMMA RankingsInit == Init => RankingsHeld
<1> SUFFICES ASSUME Init PROVE RankingsHeld
  OBVIOUS
<1>1. request = [x \in Fields |-> request[x]]
  BY DEF Init, NewRequest, Fields
<1>2. /\ request.pc = "new" /\ request.keyword = << >>
      /\ request.semantic = << >> /\ request.results = << >>
  BY DEF Init, NewRequest
<1>3. rows \subseteq Passages /\ query \in Queries
  BY AnsweringAssumption DEF Init
<1>4. 0 <= Pool
  BY RetrievalAssumption
<1> QED
  BY <1>1, <1>2, <1>3, <1>4, NoRanking DEF RankingsHeld, FromSearches, Progress

(* A passage has a version.                                                *)
LEMMA Rows == \A p \in Passages : VersionOf[p] \in Versions
BY RetrievalAssumption

(* What the two statements find.                                           *)
LEMMA KeywordsFound ==
  ASSUME RankingsHeld
  PROVE  /\ KeywordSearch(query, rows, Pool) \in Rankings
         /\ Len(KeywordSearch(query, rows, Pool)) <= Pool
         /\ SemanticSearch(query, rows, Pool) \in Rankings
         /\ Len(SemanticSearch(query, rows, Pool)) <= Pool
<1>1. query \in Queries /\ rows \in SUBSET Passages /\ Pool \in Nat
  BY RetrievalAssumption DEF RankingsHeld
<1> QED
  BY <1>1, SearchesRank

(* Each search puts its ranking in; nothing that follows changes them.     *)
LEMMA RankingsStep == RankingsHeld /\ [Next]_vars => RankingsHeld'
<1> SUFFICES ASSUME RankingsHeld, [Next]_vars PROVE RankingsHeld'
  OBVIOUS
<1> USE DEF Fields
<1>1. CASE Unsupported
  <2>1. /\ request' = [x \in Fields |-> request'[x]]
        /\ request'.pc = "done" /\ UNCHANGED <<rows, query>>
        /\ request'.keyword = request.keyword /\ request'.semantic = request.semantic
        /\ request'.results = request.results
        /\ request.pc = "new"
    BY <1>1 DEF Unsupported, Done, RankingsHeld, corpus
  <2> QED
    BY <2>1 DEF RankingsHeld, FromSearches, Progress
<1>2. ASSUME NEW provider \in BOOLEAN, SearchKeywords(provider) PROVE RankingsHeld'
  <2> DEFINE found == KeywordSearch(query, rows, Pool)
  <2>1. found \in Rankings /\ Len(found) <= Pool
    BY KeywordsFound
  <2>2. /\ request' = [x \in Fields |-> request'[x]]
        /\ request'.pc = (IF provider THEN "embedding" ELSE "assess")
        /\ request'.keyword = found /\ request'.semantic = request.semantic
        /\ request'.results = (IF provider THEN << >> ELSE Top(Limit, Deduplicate(found)))
        /\ request.pc = "new" /\ UNCHANGED <<rows, query>>
    <3> HIDE DEF found
    <3> QED
      BY <1>2 DEF SearchKeywords, RankingsHeld, corpus, found
  <2> HIDE DEF found
  <2> QED
    BY <2>1, <2>2 DEF RankingsHeld, FromSearches, Progress
<1>3. CASE SearchVectors
  <2> DEFINE near == SemanticSearch(query, rows, Pool)
  <2>1. near \in Rankings /\ Len(near) <= Pool
    BY KeywordsFound
  <2>2. /\ request' = [x \in Fields |-> request'[x]]
        /\ request'.pc = "assess"
        /\ request'.keyword = request.keyword /\ request'.semantic = near
        /\ request'.results = Top(Limit, Deduplicate(Fuse(request.keyword, near, Pool)))
        /\ UNCHANGED <<rows, query>>
    BY <1>3 DEF SearchVectors, RankingsHeld, corpus
  <2> HIDE DEF near
  <2> QED
    BY <2>1, <2>2 DEF RankingsHeld, FromSearches, Progress
<1>4. CASE Assess \/ (\E answer : Generates(answer))
  <2> DEFINE used == /\ request' = [x \in Fields |-> request'[x]]
                     /\ request'.pc \in {"generate", "done"} /\ UNCHANGED <<rows, query>>
                     /\ request'.keyword = request.keyword
                     /\ request'.semantic = request.semantic
                     /\ request'.results = request.results
                     /\ request.pc \in {"assess", "generate"}
  <2>1. used
    <3>1. CASE Assess
      <4>1. CASE Gate = "SUFFICIENT"
        BY <3>1, <4>1 DEF Assess, RankingsHeld, corpus
      <4>2. CASE Gate # "SUFFICIENT"
        BY <3>1, <4>2 DEF Assess, Done, RankingsHeld, corpus
      <4> QED
        BY <4>1, <4>2
    <3>2. ASSUME NEW answer, Generates(answer)
          PROVE  used
      BY <3>2 DEF Generates, Done, RankingsHeld, corpus
    <3> QED
      BY <1>4, <3>1, <3>2
  <2> QED
    BY <2>1 DEF RankingsHeld, FromSearches, Progress
<1>5. CASE ProviderFails \/ Malformed \/ Declines \/ Answers
  BY <1>4, <1>5 DEF ProviderFails, Malformed, Declines, Answers
<1>6. CASE Refresh
  BY <1>6 DEF Refresh, RankingsHeld, FromSearches
<1>7. CASE CutAgain
  <2>1. rows' \subseteq Passages
    BY <1>7, AnsweringAssumption DEF CutAgain, RankingsHeld
  <2> QED
    BY <1>7, <2>1 DEF CutAgain, RankingsHeld, FromSearches
<1>8. CASE UNCHANGED vars
  BY <1>8 DEF vars, corpus, RankingsHeld, FromSearches
<1> QED
  BY <1>1, <1>2, <1>3, <1>4, <1>5, <1>6, <1>7, <1>8 DEF Next

(* What the results are, from what was found: the lemmas about fusion and  *)
(* duplicates, on the state of a request.                                  *)
LEMMA ResultsAreRight ==
  ASSUME RankingsHeld
  PROVE  /\ request.results \in Rankings
         /\ Len(request.results) <= Limit /\ Len(request.results) <= Pool
         /\ In(request.results) \subseteq In(request.keyword) \cup In(request.semantic)
         /\ AgreedFirst
         /\ OneVersionPerPlace
<1> DEFINE found == In(request.keyword) \cup In(request.semantic)
           Right(seq) ==
             /\ seq \in Rankings /\ Len(seq) <= Pool /\ In(seq) \subseteq found
             /\ Cardinality(found) <= Pool => In(seq) = found
             /\ \A r \in In(seq), p \in found :
                  p # r /\ Ahead(request.keyword, p, r) /\ Ahead(request.semantic, p, r)
                    => p \in In(seq) /\ Position(seq, p) < Position(seq, r)
<1>1. /\ Limit \in Nat /\ Pool \in Nat
      /\ request.keyword \in Rankings /\ Len(request.keyword) <= Pool
      /\ request.semantic \in Rankings
  BY AnsweringAssumption, RetrievalAssumption DEF RankingsHeld
<1>2. ASSUME request.results = << >>,
             request.pc \in {"new", "embedding"}
             \/ (request.keyword = << >> /\ request.semantic = << >>)
      PROVE  AgreedFirst /\ OneVersionPerPlace
  <2>1. In(request.results) = {}
    BY <1>2, NoRanking
  <2>2. ~Searched \/ found = {}
    BY <1>2, NoRanking DEF Searched
  <2> QED
    BY <2>1, <2>2 DEF AgreedFirst, OneVersionPerPlace
<1>3. ASSUME NEW seq, Right(seq), request.results = Top(Limit, Deduplicate(seq))
      PROVE  /\ request.results \in Rankings
             /\ Len(request.results) <= Limit /\ Len(request.results) <= Pool
             /\ In(request.results) \subseteq found
             /\ AgreedFirst
             /\ OneVersionPerPlace
  <2> DEFINE few == Top(Limit, Deduplicate(seq))
  <2>0. few = request.results
    BY <1>3
  <2>1. /\ few \in Rankings /\ Len(few) <= Limit /\ Len(few) <= Len(seq)
        /\ In(few) \subseteq In(seq)
        /\ \A p, r \in In(few) : SamePlace(p, r) => VersionOf[p] = VersionOf[r]
        /\ Len(few) < Limit =>
             \A p \in In(seq) \ In(few) : \E x \in In(few) :
               SamePlace(x, p) /\ VersionOf[x] # VersionOf[p]
        /\ \A r \in In(few), p \in In(seq) :
             Position(seq, p) < Position(seq, r) =>
               \E x \in In(few) :
                 /\ x = p \/ (SamePlace(x, p) /\ VersionOf[x] # VersionOf[p])
                 /\ Position(few, x) < Position(few, r)
    BY <1>1, <1>3, FirstFew
  <2> HIDE DEF few
  <2>2. AgreedFirst
    <3> SUFFICES ASSUME NEW r \in In(few), NEW p \in found, p # r,
                        Ahead(request.keyword, p, r), Ahead(request.semantic, p, r)
                 PROVE  TakenBefore(p, r)
      BY <2>0 DEF AgreedFirst
    <3>1. p \in In(seq) /\ r \in In(seq) /\ Position(seq, p) < Position(seq, r)
      BY <1>3, <2>1
    <3> QED
      BY <2>0, <2>1, <3>1 DEF TakenBefore
  <2>3. OneVersionPerPlace
    <3>1. \A p, r : SamePlace(p, r) => SamePlace(r, p)
      BY DEF SamePlace
    <3> QED
      BY <1>3, <2>0, <2>1, <3>1 DEF OneVersionPerPlace
  <2>4. Len(few) <= Pool
    <3>1. Len(few) \in Nat /\ Len(seq) \in Nat
      BY <1>3, <2>1 DEF Rankings
    <3> QED
      BY <1>1, <1>3, <2>1, <3>1
  <2> QED
    BY <1>3, <2>0, <2>1, <2>2, <2>3, <2>4
<1>4. CASE request.semantic = << >>
           /\ request.results = Top(Limit, Deduplicate(request.keyword))
  <2>1. found = In(request.keyword)
    BY <1>4, NoRanking
  <2>2. Right(request.keyword)
    BY <1>1, <2>1 DEF Ahead
  <2> QED
    BY <1>3, <1>4, <2>2
<1>5. CASE request.results =
             Top(Limit, Deduplicate(Fuse(request.keyword, request.semantic, Pool)))
  <2> DEFINE fused == Fuse(request.keyword, request.semantic, Pool)
  <2>1. /\ fused \in Rankings /\ Len(fused) <= Pool /\ In(fused) \subseteq found
        /\ Cardinality(found) <= Pool => In(fused) = found
        /\ \A r \in In(fused) : \A p \in found :
             MorePoints(request.keyword, request.semantic, p, r)
             => p \in In(fused) /\ Position(fused, p) < Position(fused, r)
    BY <1>1, FuseRanks
  <2>2. ASSUME NEW r \in found, NEW p \in found, p # r,
               Ahead(request.keyword, p, r), Ahead(request.semantic, p, r)
        PROVE  MorePoints(request.keyword, request.semantic, p, r)
    BY <1>1, <2>2, AgreedPoints DEF Ahead
  <2> HIDE DEF fused, found
  <2>3. Right(fused)
    BY <2>1, <2>2
  <2>4. request.results = Top(Limit, Deduplicate(fused))
    BY <1>5 DEF fused
  <2> HIDE DEF Right
  <2> QED
    BY <1>3, <2>3, <2>4 DEF found
<1>6. CASE request.results = << >>
           /\ (\/ request.pc \in {"new", "embedding"}
               \/ request.keyword = << >> /\ request.semantic = << >>)
  <2>1. 0 <= Limit /\ 0 <= Pool
    BY <1>1
  <2> QED
    BY <1>2, <1>6, <2>1, NoRanking
<1> QED
  BY <1>4, <1>5, <1>6 DEF RankingsHeld, FromSearches

(* The contenders suffice for any rows there may be.                       *)
LEMMA KeywordsKept == RankingsHeld => KeywordKeepsBest
<1> SUFFICES ASSUME RankingsHeld, NEW n \in 1 .. Cardinality(rows)
             PROVE  KeywordRows(query, rows, n) = Top(n, ByScore(query, Matched(query, rows)))
  BY DEF KeywordKeepsBest
<1>1. query \in Queries /\ rows \in SUBSET Passages /\ n \in Nat \ {0}
  <2>1. IsFiniteSet(rows)
    BY FS_Subset, RetrievalAssumption DEF RankingsHeld
  <2>2. Cardinality(rows) \in Nat
    BY <2>1, FS_CardinalityType
  <2> QED
    BY <2>2 DEF RankingsHeld
<1> QED
  BY <1>1, ContendersSuffice

-----------------------------------------------------------------------------
(* What was read of the corpus while it changed.                           *)

(* Between the two statements one document at most is given a status.      *)
OneRefresh ==
  \/ status = request.atFirst
  \/ \E d \in Documents, s \in Reported :
       status = [v \in Versions |-> IF DocumentOf[v] = d THEN s ELSE request.atFirst[v]]

(* What the searches found.                                                *)
Found == In(request.keyword) \cup In(request.semantic)

(* The second part: every passage that was found had its version's status  *)
(* read, and what was read is what was there at first or is there now.     *)
ReadingsHeld ==
  /\ status \in [Versions -> Statuses] /\ request.atFirst \in [Versions -> Statuses]
  /\ OneRefresh
  /\ request.pc = "new" => status = request.atFirst
  /\ DOMAIN request.read \subseteq Versions
  /\ request.read \in [DOMAIN request.read -> Statuses]
  /\ \A v \in DOMAIN request.read :
       request.read[v] = request.atFirst[v] \/ request.read[v] = status[v]
  /\ request.pc \in {"new", "embedding"} =>
       \A v \in DOMAIN request.read : request.read[v] = request.atFirst[v]
  /\ \A p \in Found : VersionOf[p] \in DOMAIN request.read

(* Nothing has been read when the question comes.                          *)
LEMMA ReadingsInit == Init => ReadingsHeld
<1> SUFFICES ASSUME Init PROVE ReadingsHeld
  OBVIOUS
<1>1. /\ request.keyword = << >> /\ request.semantic = << >>
      /\ request.atFirst = status
      /\ request.read = [v \in {} |-> "DISCOVERED"]
  BY DEF Init, NewRequest
<1>2. status \in [Versions -> Statuses]
  BY CorporaAssumption DEF Init
<1>3. DOMAIN request.read = {}
  BY <1>1
<1>4. request.read \in [DOMAIN request.read -> Statuses]
  BY <1>1
<1> QED
  BY <1>1, <1>2, <1>3, <1>4, NoRanking DEF ReadingsHeld, OneRefresh, Found

(* A statement adds the statuses of the moment, and changes none.          *)
LEMMA ReadingAdds ==
  ASSUME ReadingsHeld, NEW seq \in Rankings
  PROVE  LET read == Reading(seq)
         IN  /\ DOMAIN read = DOMAIN request.read \cup {VersionOf[p] : p \in In(seq)}
             /\ DOMAIN read \subseteq Versions
             /\ read \in [DOMAIN read -> Statuses]
             /\ \A v \in DOMAIN read :
                  IF v \in DOMAIN request.read THEN read[v] = request.read[v]
                  ELSE read[v] = status[v]
<1> DEFINE seen == DOMAIN request.read \cup {VersionOf[p] : p \in In(seq)}
           read == Reading(seq)
<1>1. In(seq) \subseteq Passages
  BY LengthOfRanking DEF Rankings
<1>2. seen \subseteq Versions
  BY <1>1, Rows DEF ReadingsHeld
<1>3. read = [v \in seen |-> IF v \in DOMAIN request.read THEN request.read[v] ELSE status[v]]
  BY DEF Reading
<1> HIDE DEF seen, read
<1>4. DOMAIN read = seen
  BY <1>3
<1>5. \A v \in seen :
        IF v \in DOMAIN request.read THEN read[v] = request.read[v] ELSE read[v] = status[v]
  BY <1>3
<1>6. \A v \in seen : read[v] \in Statuses
  BY <1>2, <1>5 DEF ReadingsHeld
<1>7. read \in [seen -> Statuses]
  BY <1>3, <1>6
<1> QED
  BY <1>2, <1>4, <1>5, <1>7 DEF seen, read

(* A corrected status is one that is there now; a status read before stays *)
(* one that was there at first.                                            *)
LEMMA ReadingsStep == RankingsHeld /\ ReadingsHeld /\ [Next]_vars => ReadingsHeld'
<1> SUFFICES ASSUME RankingsHeld, ReadingsHeld, [Next]_vars PROVE ReadingsHeld'
  OBVIOUS
<1>1. ASSUME UNCHANGED status,
             request' = [x \in Fields |-> request'[x]],
             request'.keyword = request.keyword, request'.semantic = request.semantic,
             request'.read = request.read, request'.atFirst = request.atFirst,
             request'.pc \in {"assess", "generate", "done"}
      PROVE  ReadingsHeld'
  BY <1>1 DEF ReadingsHeld, OneRefresh, Found
<1>2. CASE Unsupported
  <2>1. /\ request' = [x \in Fields |-> request'[x]]
        /\ request'.pc = "done" /\ UNCHANGED status
        /\ request'.keyword = request.keyword /\ request'.semantic = request.semantic
        /\ request'.read = request.read /\ request'.atFirst = request.atFirst
    BY <1>2 DEF Unsupported, Done, RankingsHeld, corpus, Fields
  <2> QED
    BY <1>1, <2>1
<1>3. CASE Assess
  <2>1. /\ request' = [x \in Fields |-> request'[x]]
        /\ request'.pc \in {"generate", "done"} /\ UNCHANGED status
        /\ request'.keyword = request.keyword /\ request'.semantic = request.semantic
        /\ request'.read = request.read /\ request'.atFirst = request.atFirst
    <3>1. CASE Gate = "SUFFICIENT"
      BY <1>3, <3>1 DEF Assess, RankingsHeld, corpus, Fields
    <3>2. CASE Gate # "SUFFICIENT"
      BY <1>3, <3>2 DEF Assess, Done, RankingsHeld, corpus, Fields
    <3> QED
      BY <3>1, <3>2
  <2> QED
    BY <1>1, <2>1
<1>4. ASSUME NEW answer, Generates(answer) PROVE ReadingsHeld'
  <2>1. /\ request' = [x \in Fields |-> request'[x]]
        /\ request'.pc = "done" /\ UNCHANGED status
        /\ request'.keyword = request.keyword /\ request'.semantic = request.semantic
        /\ request'.read = request.read /\ request'.atFirst = request.atFirst
    BY <1>4 DEF Generates, Done, RankingsHeld, corpus, Fields
  <2> QED
    BY <1>1, <2>1
<1>5. CASE ProviderFails \/ Malformed \/ Declines \/ Answers
  BY <1>4, <1>5 DEF ProviderFails, Malformed, Declines, Answers
<1>6. ASSUME NEW provider \in BOOLEAN, SearchKeywords(provider) PROVE ReadingsHeld'
  <2> DEFINE found == KeywordSearch(query, rows, Pool)
             read == Reading(found)
  <2>1. /\ request'.keyword = found /\ request'.semantic = request.semantic
        /\ request'.read = read /\ request'.atFirst = request.atFirst
        /\ request'.pc \in {"embedding", "assess"}
        /\ request.pc = "new" /\ UNCHANGED status
    <3> HIDE DEF found
    <3> QED
      BY <1>6 DEF SearchKeywords, RankingsHeld, corpus, found, Fields
  <2>2. /\ DOMAIN read = DOMAIN request.read \cup {VersionOf[p] : p \in In(found)}
        /\ DOMAIN read \subseteq Versions
        /\ read \in [DOMAIN read -> Statuses]
        /\ \A v \in DOMAIN read :
             IF v \in DOMAIN request.read THEN read[v] = request.read[v]
             ELSE read[v] = status[v]
    BY KeywordsFound, ReadingAdds
  <2>3. In(request.semantic) = {}
    BY <2>1, NoRanking DEF RankingsHeld
  <2> HIDE DEF found, read
  <2> QED
    BY <2>1, <2>2, <2>3 DEF ReadingsHeld, OneRefresh, Found
<1>7. CASE SearchVectors
  <2> DEFINE near == SemanticSearch(query, rows, Pool)
             read == Reading(near)
  <2>1. /\ request'.keyword = request.keyword /\ request'.semantic = near
        /\ request'.read = read /\ request'.atFirst = request.atFirst
        /\ request'.pc = "assess" /\ UNCHANGED status
    BY <1>7 DEF SearchVectors, RankingsHeld, corpus, Fields
  <2>2. /\ DOMAIN read = DOMAIN request.read \cup {VersionOf[p] : p \in In(near)}
        /\ DOMAIN read \subseteq Versions
        /\ read \in [DOMAIN read -> Statuses]
        /\ \A v \in DOMAIN read :
             IF v \in DOMAIN request.read THEN read[v] = request.read[v]
             ELSE read[v] = status[v]
    BY KeywordsFound, ReadingAdds
  <2> HIDE DEF near, read
  <2> QED
    BY <2>1, <2>2 DEF ReadingsHeld, OneRefresh, Found
<1>8. CASE Refresh
  <2>1. PICK d \in Documents, s \in Reported :
          status' = [v \in Versions |-> IF DocumentOf[v] = d THEN s ELSE status[v]]
    BY <1>8 DEF Refresh
  <2>2. s \in Statuses
    BY CorporaAssumption DEF Statuses
  <2>3. status' \in [Versions -> Statuses]
    BY <2>1, <2>2 DEF ReadingsHeld
  <2>4. /\ request.pc = "embedding" /\ status = request.atFirst /\ UNCHANGED request
    BY <1>8 DEF Refresh, BetweenStatements
  <2>5. OneRefresh'
    BY <2>1, <2>4 DEF OneRefresh
  <2> QED
    BY <2>3, <2>4, <2>5 DEF ReadingsHeld, Found
<1>9. CASE CutAgain
  BY <1>9 DEF CutAgain, ReadingsHeld, OneRefresh, Found
<1>10. CASE UNCHANGED vars
  BY <1>10 DEF vars, corpus, ReadingsHeld, OneRefresh, Found
<1> QED
  BY <1>2, <1>3, <1>5, <1>6, <1>7, <1>8, <1>9, <1>10 DEF Next

-----------------------------------------------------------------------------
(* What the model is shown, and what an answer lists.                      *)

(* The third part: the evidence was found, is in force and does not        *)
(* conflict by the statuses read; what an answer lists is the evidence,    *)
(* with the caveat it asks for.                                            *)
EvidenceHeld ==
  /\ request.gate \in Gates
  /\ request.evidence # << >> => request.gate = "SUFFICIENT"
  /\ request.evidence \in Rankings /\ Len(request.evidence) <= Pool
  /\ \A p \in In(request.evidence) : p \in Found /\ ReadStatus(p) \notin Inactive
  /\ ~Conflicting(request.evidence)
  /\ request.pc \in {"new", "embedding", "assess"} => request.evidence = << >>
  /\ request.pc = "generate" => request.citations = request.evidence
  /\ request.pc # "done" => request.answer = NoAnswer
  /\ request.answer.status \in Answered =>
       request.answer.citations = request.evidence /\ request.answer.caveat = Unverified

(* There is neither evidence nor answer when the question comes.           *)
LEMMA EvidenceInit == Init => EvidenceHeld
<1> SUFFICES ASSUME Init PROVE EvidenceHeld
  OBVIOUS
<1>1. /\ request.gate = "none" /\ request.evidence = << >>
      /\ request.pc = "new" /\ request.answer = NoAnswer
  BY DEF Init, NewRequest
<1>2. request.answer.status \notin Answered
  BY <1>1 DEF NoAnswer, Answered
<1>3. ~Conflicting(request.evidence)
  BY <1>1, NoRanking DEF Conflicting
<1>4. 0 <= Pool
  BY RetrievalAssumption
<1> QED
  BY <1>1, <1>2, <1>3, <1>4, NoRanking DEF EvidenceHeld, Gates

(* The located results in force.                                           *)
LEMMA CurrentAreResults ==
  ASSUME RankingsHeld
  PROVE  /\ CurrentResults \in Rankings /\ Len(CurrentResults) <= Pool
         /\ \A p \in In(CurrentResults) : p \in Found /\ ReadStatus(p) \notin Inactive
<1>1. /\ request.results \in Rankings /\ Len(request.results) <= Pool
      /\ In(request.results) \subseteq Found
  BY ResultsAreRight DEF Found
<1>2. /\ LocatedResults \in Rankings /\ Len(LocatedResults) <= Len(request.results)
      /\ In(LocatedResults) \subseteq In(request.results)
  BY <1>1, KeptRanking DEF LocatedResults
<1>3. /\ CurrentResults \in Rankings /\ Len(CurrentResults) <= Len(LocatedResults)
      /\ In(CurrentResults) \subseteq {p \in In(LocatedResults) : InForce(p)}
  BY <1>2, KeptRanking DEF CurrentResults
<1>4. \A seq \in Rankings : Len(seq) \in Nat
  BY DEF Rankings
<1>5. Len(CurrentResults) <= Pool
  BY <1>1, <1>2, <1>3, <1>4, RetrievalAssumption
<1> QED
  BY <1>1, <1>2, <1>3, <1>5 DEF InForce

(* The gate alone makes evidence, and only generate_answer an answer to    *)
(* it.                                                                     *)
LEMMA EvidenceStep == RankingsHeld /\ EvidenceHeld /\ [Next]_vars => EvidenceHeld'
<1> SUFFICES ASSUME RankingsHeld, EvidenceHeld, [Next]_vars PROVE EvidenceHeld'
  OBVIOUS
(* Until the evidence is assessed there is none.                           *)
<1>1. ASSUME request.evidence = << >>, request'.evidence = << >>,
             request'.gate = request.gate,
             request'.pc # "generate",
             request'.pc # "done" => request'.answer = NoAnswer,
             request'.answer.status \notin Answered
      PROVE  EvidenceHeld'
  <2>1. ~Conflicting(request.evidence)'
    BY <1>1, NoRanking DEF Conflicting
  <2> QED
    BY <1>1, <2>1, NoRanking DEF EvidenceHeld
<1>2. NoAnswer.status \notin Answered
  BY DEF NoAnswer, Answered
<1>3. CASE Unsupported
  <2>1. /\ request.pc = "new" /\ request'.pc = "done"
        /\ request'.evidence = request.evidence /\ request'.gate = request.gate
        /\ request'.answer.status = "UNSUPPORTED"
    BY <1>3 DEF Unsupported, Done, SafeAnswer, RankingsHeld, Fields
  <2> QED
    BY <1>1, <2>1 DEF EvidenceHeld, Answered
<1>4. ASSUME NEW provider \in BOOLEAN, SearchKeywords(provider) PROVE EvidenceHeld'
  <2>1. /\ request.pc = "new" /\ request'.pc \in {"embedding", "assess"}
        /\ request'.evidence = request.evidence /\ request'.gate = request.gate
        /\ request'.answer = request.answer
    BY <1>4 DEF SearchKeywords, RankingsHeld, Fields
  <2> QED
    BY <1>1, <1>2, <2>1 DEF EvidenceHeld
<1>5. CASE SearchVectors
  <2>1. /\ request.pc = "embedding" /\ request'.pc = "assess"
        /\ request'.evidence = request.evidence /\ request'.gate = request.gate
        /\ request'.answer = request.answer
    BY <1>5 DEF SearchVectors, RankingsHeld, Fields
  <2> QED
    BY <1>1, <1>2, <2>1 DEF EvidenceHeld
<1>6. CASE Assess
  <2>1. request.pc = "assess" /\ request.evidence = << >> /\ request.answer = NoAnswer
    BY <1>6 DEF Assess, EvidenceHeld
  <2>2. CASE Gate = "SUFFICIENT"
    <3>1. /\ request'.pc = "generate" /\ request'.gate = "SUFFICIENT"
          /\ request'.evidence = CurrentResults /\ request'.citations = CurrentResults
          /\ request'.answer = request.answer /\ request'.read = request.read
          /\ request'.keyword = request.keyword /\ request'.semantic = request.semantic
      BY <1>6, <2>2 DEF Assess, Cited, RankingsHeld, Fields
    <3>2. ~Conflicting(CurrentResults)
      BY <2>2 DEF Gate
    <3>3. /\ CurrentResults \in Rankings /\ Len(CurrentResults) <= Pool
          /\ \A p \in In(CurrentResults) : p \in Found /\ ReadStatus(p) \notin Inactive
      BY CurrentAreResults
    <3>4. ~Conflicting(request.evidence)'
      <4> HIDE DEF CurrentResults
      <4> QED
        BY <3>1, <3>2 DEF Conflicting, ReadStatus
    <3>5. \A p \in In(request'.evidence) : p \in Found' /\ ReadStatus(p)' \notin Inactive
      BY <3>1, <3>3 DEF Found, ReadStatus
    <3> QED
      BY <1>2, <2>1, <3>1, <3>3, <3>4, <3>5 DEF EvidenceHeld, Gates
  <2>3. CASE Gate # "SUFFICIENT"
    <3>1. /\ request'.pc = "done" /\ request'.gate = Gate /\ request'.evidence = << >>
          /\ request'.answer.status = "INSUFFICIENT_EVIDENCE"
      BY <1>6, <2>3 DEF Assess, Done, SafeAnswer, RankingsHeld, Fields
    <3>2. Gate \in Gates
      BY DEF Gate, Gates
    <3>3. ~Conflicting(request.evidence)'
      BY <3>1, NoRanking DEF Conflicting
    <3> QED
      BY <2>1, <3>1, <3>2, <3>3, NoRanking DEF EvidenceHeld, Answered
  <2> QED
    BY <2>2, <2>3
(* An answer given to the evidence.                                        *)
<1>7. ASSUME NEW answer, Generates(answer),
             answer.status \in Answered =>
               answer.citations = request.citations /\ answer.caveat = Unverified
      PROVE  EvidenceHeld'
  <2>1. /\ request.pc = "generate" /\ request'.pc = "done" /\ request'.gate = request.gate
        /\ request'.evidence = request.evidence /\ request'.citations = request.citations
        /\ request'.answer = answer /\ request'.read = request.read
        /\ request'.keyword = request.keyword /\ request'.semantic = request.semantic
    BY <1>7 DEF Generates, Done, RankingsHeld, Fields
  <2>2. ~Conflicting(request.evidence)'
    BY <2>1 DEF EvidenceHeld, Conflicting, ReadStatus
  <2>3. \A p \in In(request'.evidence) : p \in Found' /\ ReadStatus(p)' \notin Inactive
    BY <2>1 DEF EvidenceHeld, Found, ReadStatus
  <2>4. Unverified' = Unverified
    BY <2>1 DEF Unverified, ReadStatus
  <2> QED
    BY <1>7, <2>1, <2>2, <2>3, <2>4 DEF EvidenceHeld
<1>8. CASE ProviderFails
  BY <1>7, <1>8 DEF ProviderFails, SafeAnswer
<1>9. CASE Malformed
  <2>1. PICK kind \in {"ANSWERED", "INVALID_MODEL_OUTPUT"} : Generates(Fallback(kind))
    BY <1>9 DEF Malformed
  <2>2. /\ Fallback(kind).citations = request.citations
        /\ Fallback(kind).caveat = Unverified
    BY DEF Fallback, SafeAnswer
  <2> QED
    BY <1>7, <2>1, <2>2
<1>10. CASE Declines
  BY <1>7, <1>10 DEF Declines, SafeAnswer
<1>11. CASE Answers
  <2> DEFINE given(claim) == [SafeAnswer("ANSWERED", request.citations, Unverified) EXCEPT
                                !.facts = {c \in {claim} : WellCited(c) /\ Supported(c)}]
  <2>1. PICK claim \in Claims : Generates(given(claim))
    BY <1>11 DEF Answers
  <2>2. given(claim).citations = request.citations /\ given(claim).caveat = Unverified
    BY DEF SafeAnswer
  <2> QED
    BY <1>7, <2>1, <2>2
<1>12. CASE Refresh \/ CutAgain \/ UNCHANGED vars
  <2>1. UNCHANGED request
    BY <1>12 DEF Refresh, CutAgain, vars
  <2>2. /\ Unverified' = Unverified
        /\ ~Conflicting(request.evidence)'
    BY <2>1 DEF EvidenceHeld, Unverified, Conflicting, ReadStatus
  <2> QED
    BY <2>1, <2>2 DEF EvidenceHeld, Found, ReadStatus
<1> QED
  BY <1>3, <1>4, <1>5, <1>6, <1>8, <1>9, <1>10, <1>11, <1>12 DEF Next

-----------------------------------------------------------------------------
(* The invariant of a request, and of the corpus while it is answered.     *)
RequestInv == RankingsHeld /\ ReadingsHeld /\ EvidenceHeld

(* It is one: its parts follow one another.                                *)
LEMMA RequestIsHeld == Spec => []RequestInv
<1>1. Init => RequestInv
  BY RankingsInit, ReadingsInit, EvidenceInit DEF RequestInv
<1>2. RequestInv /\ [Next]_vars => RequestInv'
  BY RankingsStep, ReadingsStep, EvidenceStep DEF RequestInv
<1> QED
  BY <1>1, <1>2, PTL DEF Spec

(* Rankings have the types TypeOK states.                                  *)
LEMMA TypesAreRight == RequestInv => TypeOK
<1> SUFFICES ASSUME RequestInv PROVE TypeOK
  OBVIOUS
<1>1. /\ request.results \in Rankings
      /\ Len(request.results) <= Limit /\ Len(request.results) <= Pool
  BY ResultsAreRight DEF RequestInv
<1>2. \A seq \in Rankings : In(seq) \subseteq Passages /\ Len(seq) = Cardinality(In(seq))
  BY LengthOfRanking DEF Rankings
<1>3. \A seq \in {request.keyword, request.semantic, request.results, request.evidence} :
        seq \in Rankings /\ Len(seq) <= Pool
  BY <1>1 DEF RequestInv, RankingsHeld, EvidenceHeld
<1> QED
  BY <1>1, <1>2, <1>3 DEF RequestInv, RankingsHeld, ReadingsHeld, EvidenceHeld,
                          TypeOK, Progress

(* The searches hand the gate the ranking they should: the contenders      *)
(* suffice, where both agree so does the fused one, and a document held    *)
(* twice does not take two places; for every corpus, query and statement   *)
(* order.                                                                  *)
THEOREM RankingsAreRight == Spec => []RankingIsRight
<1>1. RequestInv => RankingIsRight
  BY TypesAreRight, ResultsAreRight, KeywordsKept DEF RequestInv, RankingIsRight
<1> QED
  BY RequestIsHeld, <1>1, PTL

(* Two cited versions of a document were both read: at one moment, or one  *)
(* of them before a correction that gave both the same status.             *)
LEMMA CitedLaw == RequestInv => CurrentLaw
<1> SUFFICES ASSUME RequestInv, request.answer.status \in Answered,
                    NEW p \in In(request.answer.citations),
                    NEW r \in In(request.answer.citations)
             PROVE  LET v == VersionOf[p]
                        w == VersionOf[r]
                    IN  /\ {request.atFirst[v], status[v]} \cap (Current \cup Unresolved) # {}
                        /\ DocumentOf[v] = DocumentOf[w] =>
                             \E now \in {request.atFirst, status} :
                               \/ now[v] = now[w]
                               \/ {now[v], now[w]} \cap (Inactive \cup Unresolved) # {}
  BY DEF CurrentLaw
<1> DEFINE v == VersionOf[p]
           w == VersionOf[r]
           read == request.read
           first == request.atFirst
<1>1. p \in In(request.evidence) /\ r \in In(request.evidence)
  BY DEF RequestInv, EvidenceHeld
<1>2. /\ v \in DOMAIN read /\ w \in DOMAIN read
      /\ read[v] \notin Inactive /\ read[w] \notin Inactive
  BY <1>1 DEF RequestInv, EvidenceHeld, ReadingsHeld, ReadStatus
<1>3. /\ v \in Versions /\ w \in Versions
      /\ read[v] \in Statuses /\ read[w] \in Statuses
      /\ read[v] = first[v] \/ read[v] = status[v]
      /\ read[w] = first[w] \/ read[w] = status[w]
  BY <1>2 DEF RequestInv, ReadingsHeld
<1>4. {first[v], status[v]} \cap (Current \cup Unresolved) # {}
  BY <1>2, <1>3 DEF Statuses
<1>5. ASSUME DocumentOf[v] = DocumentOf[w]
      PROVE  \E now \in {first, status} :
               \/ now[v] = now[w]
               \/ {now[v], now[w]} \cap (Inactive \cup Unresolved) # {}
  <2>1. read[v] \in Unresolved \/ read[w] \in Unresolved \/ read[v] = read[w]
    BY <1>1, <1>5 DEF RequestInv, EvidenceHeld, Conflicting, ReadStatus
  <2>2. CASE read[v] \in Unresolved \/ read[w] \in Unresolved
    BY <1>3, <2>2
  <2>3. CASE status[v] = status[w]
    BY <2>3
  <2>4. CASE read[v] = read[w] /\ status[v] # status[w]
    <3>1. status[v] = first[v] /\ status[w] = first[w]
      <4>1. CASE status = first
        BY <4>1
      <4>2. CASE \E d \in Documents, s \in Reported :
                   status = [x \in Versions |-> IF DocumentOf[x] = d THEN s ELSE first[x]]
        BY <1>3, <1>5, <2>4, <4>2
      <4> QED
        BY <4>1, <4>2 DEF RequestInv, ReadingsHeld, OneRefresh
    <3> QED
      BY <1>3, <2>4, <3>1
  <2> QED
    BY <2>1, <2>2, <2>3, <2>4
<1> QED
  BY <1>4, <1>5

(* No answer cites what was ended both when the question came and when it  *)
(* was answered, nor two versions of a document that contradicted each     *)
(* other all along: however many documents there are, and whichever is     *)
(* corrected between the searches.                                         *)
THEOREM CitesCurrentLaw == Spec => []CurrentLaw
BY RequestIsHeld, CitedLaw, PTL

(* What was unverified all along was read so.                              *)
LEMMA CaveatGiven == RequestInv => CaveatShown
<1> SUFFICES ASSUME RequestInv, request.answer.status \in Answered,
                    NEW p \in In(request.answer.citations),
                    {request.atFirst[VersionOf[p]], status[VersionOf[p]]} \subseteq Unresolved
             PROVE  request.answer.caveat
  BY DEF CaveatShown
<1>1. p \in In(request.evidence) /\ p \in Found
  BY DEF RequestInv, EvidenceHeld
<1>2. ReadStatus(p) \in Unresolved
  BY <1>1 DEF RequestInv, ReadingsHeld, ReadStatus
<1>3. Unverified = TRUE
  BY <1>1, <1>2 DEF Unverified
<1> QED
  BY <1>3 DEF RequestInv, EvidenceHeld

(* Whichever way an answer comes about, it warns of a cited document whose *)
(* status nobody has verified.                                             *)
THEOREM WarnsOfUnverified == Spec => []CaveatShown
BY RequestIsHeld, CaveatGiven, PTL

-----------------------------------------------------------------------------
(* Facts.                                                                  *)

(* Until the question is answered there is no fact, and when the model is  *)
(* asked the citations are the evidence, number by number.                 *)
CitationsFollowEvidence ==
  /\ request = [x \in Fields |-> request[x]]
  /\ request.pc # "done" => request.answer.facts = {}
  /\ request.pc = "generate" => request.citations = request.evidence

AnsweringInv == CitationsFollowEvidence /\ CitesWhatItRead

LEMMA AnsweringInit == Init => AnsweringInv
<1> SUFFICES ASSUME Init PROVE AnsweringInv
  OBVIOUS
<1>1. request = [x \in Fields |-> request[x]]
  BY DEF Init, NewRequest, Fields
<1>2. request.pc = "new" /\ request.answer.facts = {}
  BY DEF Init, NewRequest, NoAnswer
<1> QED
  BY <1>1, <1>2 DEF AnsweringInv, CitationsFollowEvidence, CitesWhatItRead

(* The facts of a fallback are the passages themselves.                    *)
LEMMA EvidenceSupportsItself ==
  ASSUME NEW fact \in EvidenceClaims
  PROVE  \E n \in fact.cites \cap DOMAIN request.evidence :
           /\ request.evidence[n] \in In(request.evidence)
           /\ TextOf[request.evidence[n]] = fact.says
<1>1. PICK n \in DOMAIN request.evidence :
        fact = [says |-> TextOf[request.evidence[n]], cites |-> {n}]
  BY DEF EvidenceClaims
<1> QED
  BY <1>1 DEF In

(* An answer given while the citations are the evidence.                   *)
LEMMA GivenAnswer ==
  ASSUME AnsweringInv, NEW answer, Generates(answer),
         answer.citations = request.citations,
         \A fact \in answer.facts : \E n \in fact.cites \cap DOMAIN request.evidence :
           /\ request.evidence[n] \in In(request.evidence)
           /\ TextOf[request.evidence[n]] = fact.says
  PROVE  AnsweringInv'
<1>1. /\ request.pc = "generate"
      /\ request' = [request EXCEPT !.pc = "done", !.answer = answer]
  BY DEF Generates, Done
<1>2. request = [x \in Fields |-> request[x]] /\ request.citations = request.evidence
  BY <1>1 DEF AnsweringInv, CitationsFollowEvidence
<1>3. /\ request' = [x \in Fields |-> request'[x]]
      /\ request'.pc = "done"
      /\ request'.answer = answer
      /\ request'.evidence = request.evidence
  BY <1>1, <1>2 DEF Fields
<1>4. CitesWhatItRead'
  BY <1>2, <1>3 DEF CitesWhatItRead
<1> QED
  BY <1>3, <1>4 DEF AnsweringInv, CitationsFollowEvidence

LEMMA AnsweringStep == AnsweringInv /\ [Next]_vars => AnsweringInv'
<1> SUFFICES ASSUME AnsweringInv, [Next]_vars PROVE AnsweringInv'
  OBVIOUS
<1> USE DEF AnsweringInv, CitationsFollowEvidence, CitesWhatItRead
<1>1. CASE Unsupported
  BY <1>1 DEF Unsupported, Done, SafeAnswer, Fields
<1>2. ASSUME NEW provider \in BOOLEAN, SearchKeywords(provider) PROVE AnsweringInv'
  BY <1>2 DEF SearchKeywords, Fields
<1>3. CASE SearchVectors
  BY <1>3 DEF SearchVectors, Fields
<1>4. CASE Assess
  <2>1. CASE Gate = "SUFFICIENT"
    BY <1>4, <2>1 DEF Assess, Cited, Fields
  <2>2. CASE Gate # "SUFFICIENT"
    BY <1>4, <2>2 DEF Assess, Done, SafeAnswer, Fields
  <2> QED
    BY <2>1, <2>2
<1>5. CASE ProviderFails
  BY <1>5, GivenAnswer DEF ProviderFails, SafeAnswer
<1>6. CASE Malformed
  <2>1. PICK kind \in {"ANSWERED", "INVALID_MODEL_OUTPUT"} : Generates(Fallback(kind))
    BY <1>6 DEF Malformed
  <2>2. /\ Fallback(kind).citations = request.citations
        /\ Fallback(kind).facts = EvidenceClaims
    BY DEF Fallback, SafeAnswer
  <2> QED
    BY <2>1, <2>2, GivenAnswer, EvidenceSupportsItself
<1>7. CASE Declines
  BY <1>7, GivenAnswer DEF Declines, SafeAnswer
<1>8. CASE Answers
  <2> DEFINE kept(claim) == {c \in {claim} : WellCited(c) /\ Supported(c)}
             given(claim) == [SafeAnswer("ANSWERED", request.citations, Unverified)
                                EXCEPT !.facts = kept(claim)]
  <2>1. PICK claim \in Claims : Generates(given(claim))
    BY <1>8 DEF Answers
  <2>2. /\ given(claim).citations = request.citations
        /\ given(claim).facts = kept(claim)
    BY DEF SafeAnswer
  <2>3. \A fact \in kept(claim) : \E n \in fact.cites \cap DOMAIN request.evidence :
          /\ request.evidence[n] \in In(request.evidence)
          /\ TextOf[request.evidence[n]] = fact.says
    BY DEF Supported, In
  <2> QED
    BY <2>1, <2>2, <2>3, GivenAnswer
<1>9. CASE Refresh
  BY <1>9 DEF Refresh
<1>10. CASE CutAgain
  BY <1>10 DEF CutAgain
<1>11. CASE UNCHANGED vars
  BY <1>11 DEF vars
<1> QED
  BY <1>1, <1>2, <1>3, <1>4, <1>5, <1>6, <1>7, <1>8, <1>9, <1>10, <1>11 DEF Next

(* Every fact that reaches the user is found in a passage listed under a   *)
(* number the fact cites and shown to the model.                           *)
THEOREM FactsAreRead == Spec => []CitesWhatItRead
<1>1. AnsweringInv => CitesWhatItRead
  BY DEF AnsweringInv
<1> QED
  BY AnsweringInit, AnsweringStep, <1>1, PTL DEF Spec
=============================================================================
