------------------------- MODULE Algorithms_proofs --------------------------
(***************************************************************************)
(* Proofs about the algorithms MCAlgorithms runs one by one.               *)
(*                                                                         *)
(* Evaluation, for any rankings, provisions, budgets and changes of the    *)
(* corpus: the merged ranking is fair, no score is given for nothing, and  *)
(* a comparison with a frozen manifest tells all.  PageText, for any page: *)
(* a page is cut where its text says.  Repeals, for any titles and         *)
(* statements: what is marked as repealed was said to be, or follows.      *)
(* WordText, for any file: its text is what a reader of it sees.           *)
(* Library, for any corpus: the lists, their pages and the numbers beside  *)
(* them agree.                                                             *)
(***************************************************************************)
EXTENDS
  Evaluation, PageText, Repeals, WordText, Library,
  Ranks_proofs, SequenceTheorems

-----------------------------------------------------------------------------
(* Rankings are of passages, and what is embedded was asked about.         *)
EvaluationInv ==
  /\ rankings \in [1 .. Queries -> Seq(DOMAIN Passages)]
  /\ embedded \subseteq Relevant

LEMMA EvaluationStart == EvaluationInit => EvaluationInv
<1> SUFFICES ASSUME EvaluationInit PROVE EvaluationInv
  OBVIOUS
<1>1. <<>> \in Seq(DOMAIN Passages)
  OBVIOUS
<1> QED
  BY <1>1 DEF EvaluationInit, EvaluationInv

LEMMA EvaluationStep == EvaluationInv /\ [EvaluationNext]_evaluationVars => EvaluationInv'
<1> SUFFICES ASSUME EvaluationInv, [EvaluationNext]_evaluationVars
             PROVE  EvaluationInv'
  OBVIOUS
<1>1. CASE Find
  <2>1. PICK i \in 1 .. Queries, p \in DOMAIN Passages :
          rankings' = [rankings EXCEPT ![i] = Append(@, p)] /\ UNCHANGED embedded
    BY <1>1 DEF Find
  <2>2. Append(rankings[i], p) \in Seq(DOMAIN Passages)
    BY DEF EvaluationInv
  <2> QED
    BY <2>1, <2>2 DEF EvaluationInv
<1>2. CASE UNCHANGED <<rankings, embedded>>
  BY <1>2 DEF EvaluationInv
<1> QED
  BY <1>1, <1>2 DEF EvaluationNext, CorpusChanges, evaluationVars

LEMMA EvaluationIsTyped == EvaluationSpec => []EvaluationInv
BY EvaluationStart, EvaluationStep, PTL DEF EvaluationSpec

-----------------------------------------------------------------------------
(* Sets.                                                                   *)

LEMMA LesserOfTwo ==
  ASSUME NEW a \in Nat, NEW b \in Nat
  PROVE  Min({a, b}) = IF a <= b THEN a ELSE b
BY DEF Min

-----------------------------------------------------------------------------
(* Turns.                                                                  *)

LEMMA TurnsAre ==
  ASSUME EvaluationInv
  PROVE  /\ IsFiniteSet(Turns)
         /\ \A t \in Turns :
              /\ t = <<t[1], t[2]>> /\ t[2] \in 1 .. Queries /\ t[2] \in Nat
              /\ t[1] \in DOMAIN rankings[t[2]] /\ t[1] \in Nat \ {0}
         /\ \A i \in 1 .. Queries : \A place \in DOMAIN rankings[i] :
              /\ <<place, i>> \in Turns
              /\ Taken(<<place, i>>) = rankings[i][place]
<1> DEFINE row(i) == {<<place, i>> : place \in DOMAIN rankings[i]}
           rows == {row(i) : i \in 1 .. Queries}
<1>1. Queries \in Nat
  BY EvaluationAssumption
<1>2. ASSUME NEW i \in 1 .. Queries
      PROVE  DOMAIN rankings[i] = 1 .. Len(rankings[i]) /\ Len(rankings[i]) \in Nat
  BY DEF EvaluationInv
<1>3. ASSUME NEW i \in 1 .. Queries PROVE IsFiniteSet(row(i))
  <2> DEFINE f == [place \in DOMAIN rankings[i] |-> <<place, i>>]
  <2>1. IsFiniteSet(DOMAIN f)
    BY <1>2, FS_Interval
  <2>2. row(i) = {f[place] : place \in DOMAIN f}
    OBVIOUS
  <2> HIDE DEF f
  <2> QED
    BY <2>1, <2>2, ValuesAreFew
<1>4. IsFiniteSet(rows)
  <2> DEFINE f == [i \in 1 .. Queries |-> row(i)]
  <2>1. IsFiniteSet(DOMAIN f)
    BY <1>1, FS_Interval
  <2>2. rows = {f[i] : i \in DOMAIN f}
    OBVIOUS
  <2> HIDE DEF f
  <2> QED
    BY <2>1, <2>2, ValuesAreFew
<1>5. Turns = UNION rows
  BY DEF Turns
<1>6. IsFiniteSet(Turns)
  <2>1. \A T \in rows : IsFiniteSet(T)
    BY <1>3
  <2> HIDE DEF rows
  <2> QED
    BY <1>4, <1>5, <2>1, FS_UNION
<1>7. ASSUME NEW t \in Turns
      PROVE  /\ t = <<t[1], t[2]>> /\ t[2] \in 1 .. Queries /\ t[2] \in Nat
             /\ t[1] \in DOMAIN rankings[t[2]] /\ t[1] \in Nat \ {0}
  <2>1. PICK i \in 1 .. Queries : \E place \in DOMAIN rankings[i] : t = <<place, i>>
    BY DEF Turns
  <2>2. PICK place \in DOMAIN rankings[i] : t = <<place, i>>
    BY <2>1
  <2>3. t[1] = place /\ t[2] = i
    BY <2>2
  <2> QED
    BY <1>1, <1>2, <2>2, <2>3
<1>8. ASSUME NEW i \in 1 .. Queries, NEW place \in DOMAIN rankings[i]
      PROVE  <<place, i>> \in Turns /\ Taken(<<place, i>>) = rankings[i][place]
  BY DEF Turns, Taken
<1> QED
  BY <1>6, <1>7, <1>8

(* Any turns have an order.                                                *)
LEMMA TurnsOrder ==
  ASSUME EvaluationInv, NEW S \in SUBSET Turns
  PROVE  IsOrder(S, [t \in S |-> Earlier(t) \cap S])
<1> DEFINE ahead == [t \in S |-> Earlier(t) \cap S]
<1>1. /\ IsFiniteSet(S)
      /\ \A t \in S : /\ t = <<t[1], t[2]>> /\ t[1] \in Nat /\ t[2] \in Nat
  BY TurnsAre, FS_Subset
<1>2. ahead \in [S -> SUBSET S]
  OBVIOUS
<1>3. \A t, u \in S : u \in ahead[t] <=> u[1] < t[1] \/ (u[1] = t[1] /\ u[2] < t[2])
  BY DEF Earlier
<1> HIDE DEF ahead
<1>4. \A t \in S : t \notin ahead[t]
  BY <1>1, <1>3
<1>5. ASSUME NEW x \in S, NEW y \in S, NEW z \in S, z \in ahead[y], y \in ahead[x]
      PROVE  z \in ahead[x]
  <2>1. /\ z[1] < y[1] \/ (z[1] = y[1] /\ z[2] < y[2])
        /\ y[1] < x[1] \/ (y[1] = x[1] /\ y[2] < x[2])
    BY <1>3, <1>5
  <2>2. /\ z[1] \in Nat /\ y[1] \in Nat /\ x[1] \in Nat
        /\ z[2] \in Nat /\ y[2] \in Nat /\ x[2] \in Nat
    BY <1>1
  <2>3. z[1] < x[1] \/ (z[1] = x[1] /\ z[2] < x[2])
    BY <2>1, <2>2
  <2> QED
    BY <1>3, <2>3
<1>6. ASSUME NEW x \in S, NEW y \in S, x # y
      PROVE  x \in ahead[y] \/ y \in ahead[x]
  <2>1. x = <<x[1], x[2]>> /\ y = <<y[1], y[2]>>
    BY <1>1
  <2>2. x[1] # y[1] \/ x[2] # y[2]
    BY <1>6, <2>1
  <2>3. /\ x[1] \in Nat /\ y[1] \in Nat
        /\ x[2] \in Nat /\ y[2] \in Nat
    BY <1>1
  <2> QED
    BY <1>3, <2>2, <2>3
<1>7. \A x, y, z \in S : z \in ahead[y] /\ y \in ahead[x] => z \in ahead[x]
  BY <1>5
<1>8. \A x, y \in S : x # y => x \in ahead[y] \/ y \in ahead[x]
  BY <1>6
<1>9. IsFiniteSet(S)
  BY <1>1
<1>10. IsOrder(S, ahead)
  BY <1>2, <1>4, <1>7, <1>8, <1>9 DEF IsOrder
<1> QED
  BY <1>10 DEF ahead

(* The fresh turns are numbered, and each passage is fresh once.           *)
LEMMA FreshAre ==
  ASSUME EvaluationInv
  PROVE  /\ Fresh \in SUBSET Turns /\ IsFiniteSet(Fresh) /\ Cardinality(Fresh) \in Nat
         /\ \A n \in 1 .. Cardinality(Fresh) :
              NthFresh(n) \in Fresh /\ Cardinality(Earlier(NthFresh(n)) \cap Fresh) = n - 1
         /\ \A t \in Fresh :
              /\ Cardinality(Earlier(t) \cap Fresh) \in Nat
              /\ Cardinality(Earlier(t) \cap Fresh) + 1 \in 1 .. Cardinality(Fresh)
              /\ NthFresh(Cardinality(Earlier(t) \cap Fresh) + 1) = t
         /\ \A t, u \in Fresh : Taken(t) = Taken(u) => t = u
<1> DEFINE ahead == [t \in Fresh |-> Earlier(t) \cap Fresh]
<1>1. Fresh \in SUBSET Turns
  BY DEF Fresh
<1>2. IsOrder(Fresh, ahead)
  BY <1>1, TurnsOrder
<1>3. \A t \in Fresh : ahead[t] = Earlier(t) \cap Fresh
  OBVIOUS
<1>4. ASSUME NEW t \in Fresh, NEW u \in ahead[t] PROVE Taken(u) # Taken(t)
  BY <1>4 DEF Fresh
<1> HIDE DEF ahead
<1>5. IsFiniteSet(Fresh) /\ Cardinality(Fresh) \in Nat
  BY <1>2, FS_CardinalityType DEF IsOrder
<1>6. /\ \A n \in 1 .. Cardinality(Fresh) : \E t \in Fresh : Cardinality(ahead[t]) = n - 1
      /\ \A t \in Fresh : Cardinality(ahead[t]) + 1 \in 1 .. Cardinality(Fresh)
      /\ \A t, u \in Fresh : Cardinality(ahead[t]) = Cardinality(ahead[u]) => t = u
  BY <1>2, OneOfEachRank
<1>7. ASSUME NEW n \in 1 .. Cardinality(Fresh)
      PROVE  NthFresh(n) \in Fresh /\ Cardinality(Earlier(NthFresh(n)) \cap Fresh) = n - 1
  <2>1. \E t \in Fresh : Cardinality(Earlier(t) \cap Fresh) = n - 1
    BY <1>3, <1>6
  <2> QED
    BY <2>1 DEF NthFresh
<1>8. ASSUME NEW t \in Fresh
      PROVE  /\ Cardinality(Earlier(t) \cap Fresh) \in Nat
             /\ Cardinality(Earlier(t) \cap Fresh) + 1 \in 1 .. Cardinality(Fresh)
             /\ NthFresh(Cardinality(Earlier(t) \cap Fresh) + 1) = t
  <2> DEFINE c == Cardinality(Earlier(t) \cap Fresh)
  <2>1. IsFiniteSet(Earlier(t) \cap Fresh)
    BY <1>5, FS_Subset
  <2>2. c \in Nat
    BY <2>1, FS_CardinalityType
  <2>3. c + 1 \in 1 .. Cardinality(Fresh)
    BY <1>3, <1>6
  <2>4. NthFresh(c + 1) \in Fresh /\ Cardinality(Earlier(NthFresh(c + 1)) \cap Fresh) = c
    <3> HIDE DEF c
    <3>1. (c + 1) - 1 = c
      BY <2>2
    <3> QED
      BY <1>7, <2>3, <3>1
  <2>5. NthFresh(c + 1) = t
    BY <1>3, <1>6, <2>4
  <2> QED
    BY <2>2, <2>3, <2>5
<1>9. ASSUME NEW t \in Fresh, NEW u \in Fresh, Taken(t) = Taken(u), t # u
      PROVE  FALSE
  <2>1. t \in ahead[u] \/ u \in ahead[t]
    BY <1>2, <1>9 DEF IsOrder
  <2> QED
    BY <1>4, <1>9, <2>1
<1> QED
  BY <1>1, <1>5, <1>7, <1>8, <1>9

(* A passage is taken at its turn or at an earlier one.                    *)
LEMMA TakenInTurn ==
  ASSUME EvaluationInv, NEW t \in Turns
  PROVE  \E u \in Fresh : Taken(u) = Taken(t) /\ (u = t \/ u \in Earlier(t))
<1> DEFINE S == {u \in Turns : Taken(u) = Taken(t)}
           ahead == [u \in S |-> Earlier(u) \cap S]
<1>1. IsOrder(S, ahead)
  BY TurnsOrder
<1>2. t \in S
  OBVIOUS
<1>3. PICK u \in S : ahead[u] = {}
  <2> HIDE DEF S, ahead
  <2> QED
    BY <1>1, <1>2, SomeoneIsFirst
<1>4. u = t \/ u \in ahead[t]
  <2> HIDE DEF S, ahead
  <2> QED
    BY <1>1, <1>2, <1>3 DEF IsOrder
<1>5. \A x \in Earlier(u) : Taken(x) # Taken(u)
  <2>1. \A x \in Earlier(u) : x \in Turns
    BY DEF Earlier
  <2> QED
    BY <1>3, <2>1
<1>6. u \in Fresh
  BY <1>5 DEF Fresh
<1> QED
  BY <1>4, <1>6

(* There are as many fresh turns as passages found.                        *)
LEMMA FreshAreFound ==
  ASSUME EvaluationInv
  PROVE  Cardinality(Fresh) = Cardinality(UNION {ToSet(rankings[i]) : i \in 1 .. Queries})
<1> DEFINE f == [t \in Fresh |-> Taken(t)]
           found == UNION {ToSet(rankings[i]) : i \in 1 .. Queries}
<1>1. ASSUME NEW p \in found PROVE \E t \in Fresh : f[t] = p
  <2>1. PICK i \in 1 .. Queries : \E place \in DOMAIN rankings[i] : p = rankings[i][place]
    BY DEF ToSet
  <2>2. PICK place \in DOMAIN rankings[i] : p = rankings[i][place]
    BY <2>1
  <2>3. <<place, i>> \in Turns /\ Taken(<<place, i>>) = p
    BY <2>2, TurnsAre
  <2>4. \E u \in Fresh : Taken(u) = p
    BY <2>3, TakenInTurn
  <2> QED
    BY <2>4
<1>2. ASSUME NEW t \in Fresh PROVE f[t] \in found
  <2>1. t[2] \in 1 .. Queries /\ t[1] \in DOMAIN rankings[t[2]]
    BY FreshAre, TurnsAre
  <2>2. f[t] = rankings[t[2]][t[1]]
    BY DEF Taken
  <2> QED
    BY <2>1, <2>2 DEF ToSet
<1>3. found = {f[t] : t \in DOMAIN f}
  BY <1>1, <1>2
<1>4. IsFiniteSet(DOMAIN f) /\ \A t, u \in DOMAIN f : f[t] = f[u] => t = u
  BY FreshAre
<1>5. DOMAIN f = Fresh
  OBVIOUS
<1> HIDE DEF f, found
<1>6. Cardinality(found) = Cardinality(DOMAIN f)
  BY <1>3, <1>4, ValuesAreFew
<1> QED
  BY <1>5, <1>6 DEF found

(* A passage has its place in the merged ranking by the time each ranking  *)
(* had as many turns as it needed to name it.                              *)
LEMMA InTime ==
  ASSUME EvaluationInv, NEW i \in 1 .. Queries, NEW place \in DOMAIN rankings[i]
  PROVE  /\ Queries * place \in Nat
         /\ \E n \in 1 .. Cardinality(Fresh) :
              n <= Queries * place /\ Taken(NthFresh(n)) = rankings[i][place]
<1> DEFINE t == <<place, i>>
<1>1. t \in Turns /\ Taken(t) = rankings[i][place] /\ t[1] = place
  BY TurnsAre
<1>2. PICK u \in Fresh : Taken(u) = Taken(t) /\ (u = t \/ u \in Earlier(t))
  BY <1>1, TakenInTurn
<1> DEFINE so_far == (Earlier(u) \cap Fresh) \cup {u}
           c == Cardinality(Earlier(u) \cap Fresh)
<1>3. Queries \in Nat /\ place \in Nat
  BY <1>1, TurnsAre, EvaluationAssumption
<1>4. u \in Turns /\ \A w \in Fresh : w \in Turns
  BY FreshAre
<1>5. u[1] <= place /\ u[1] \in Nat
  <2>1. u[1] \in Nat
    BY <1>4, TurnsAre
  <2>2. u = t \/ u[1] < t[1] \/ u[1] = t[1]
    BY <1>2 DEF Earlier
  <2> HIDE DEF t
  <2> QED
    BY <1>1, <1>3, <2>1, <2>2
<1>6. ASSUME NEW w \in so_far PROVE w \in (1 .. place) \X (1 .. Queries)
  <2>1. w \in Turns
    BY <1>4
  <2>2. w = u \/ w[1] < u[1] \/ w[1] = u[1]
    BY DEF Earlier
  <2>3. w = <<w[1], w[2]>> /\ w[2] \in 1 .. Queries /\ w[1] \in Nat \ {0}
    BY <2>1, TurnsAre
  <2> HIDE DEF so_far
  <2>4. w[1] <= place
    BY <1>3, <1>5, <2>2, <2>3
  <2>5. w[1] \in 1 .. place
    BY <1>3, <2>3, <2>4
  <2> QED
    BY <2>3, <2>5
<1>7. /\ IsFiniteSet((1 .. place) \X (1 .. Queries))
      /\ Cardinality((1 .. place) \X (1 .. Queries)) = place * Queries
  <2> DEFINE A == 1 .. place
             B == 1 .. Queries
  <2>1. IsFiniteSet(A) /\ Cardinality(A) = place
    BY <1>3, FS_Interval
  <2>2. IsFiniteSet(B) /\ Cardinality(B) = Queries
    BY <1>3, FS_Interval
  <2> HIDE DEF A, B
  <2>3. IsFiniteSet(A \X B) /\ Cardinality(A \X B) = Cardinality(A) * Cardinality(B)
    BY ONLY <2>1, <2>2, FS_Product
  <2> QED
    BY <2>1, <2>2, <2>3 DEF A, B
<1>8. u \notin Earlier(u)
  <2>1. u[1] \in Nat /\ u[2] \in Nat
    BY <1>4, TurnsAre
  <2> QED
    BY <2>1 DEF Earlier
<1>9. /\ IsFiniteSet(Earlier(u) \cap Fresh) /\ c \in Nat
      /\ c + 1 \in 1 .. Cardinality(Fresh) /\ NthFresh(c + 1) = u
  BY FreshAre, FS_Subset
<1>10. Cardinality(so_far) = c + 1
  BY <1>8, <1>9, FS_AddElement
<1>11. Cardinality(so_far) <= place * Queries
  <2>1. so_far \in SUBSET ((1 .. place) \X (1 .. Queries))
    BY <1>6
  <2> HIDE DEF so_far
  <2> QED
    BY <1>7, <2>1, FS_Subset
<1>12. place * Queries = Queries * place /\ Queries * place \in Nat
  BY <1>3
<1> HIDE DEF t, c, so_far
<1> QED
  BY <1>1, <1>2, <1>9, <1>10, <1>11, <1>12

(* The merged ranking, for any limit.                                      *)
LEMMA MergedIs ==
  ASSUME EvaluationInv, NEW k \in Nat
  PROVE  LET n == Min({k, Cardinality(Fresh)})
         IN  /\ n = IF k <= Cardinality(Fresh) THEN k ELSE Cardinality(Fresh)
             /\ Len(Merged(k)) = n /\ DOMAIN Merged(k) = 1 .. n
             /\ \A m \in 1 .. n : Merged(k)[m] = Taken(NthFresh(m))
             /\ Merged(k) \in Seq(DOMAIN Passages)
<1> DEFINE n == Min({k, Cardinality(Fresh)})
<1>1. Cardinality(Fresh) \in Nat
  BY FreshAre
<1>2. n = IF k <= Cardinality(Fresh) THEN k ELSE Cardinality(Fresh)
  BY <1>1, LesserOfTwo
<1>3. n \in Nat /\ n <= Cardinality(Fresh)
  BY <1>1, <1>2
<1>4. Merged(k) = [m \in 1 .. n |-> Taken(NthFresh(m))]
  BY DEF Merged
<1>5. ASSUME NEW m \in 1 .. n PROVE Taken(NthFresh(m)) \in DOMAIN Passages
  <2>1. m \in 1 .. Cardinality(Fresh)
    BY <1>1, <1>3
  <2>2. NthFresh(m) \in Turns
    BY <2>1, FreshAre
  <2> DEFINE t == NthFresh(m)
  <2>3. t[2] \in 1 .. Queries /\ t[1] \in DOMAIN rankings[t[2]]
    BY <2>2, TurnsAre
  <2>4. rankings[t[2]] \in Seq(DOMAIN Passages)
    BY <2>3 DEF EvaluationInv
  <2> HIDE DEF t
  <2>5. rankings[t[2]][t[1]] \in DOMAIN Passages
    BY <2>3, <2>4
  <2> QED
    BY <2>5 DEF t, Taken
<1> HIDE DEF n
<1>6. Merged(k) \in [1 .. n -> DOMAIN Passages]
  BY <1>4, <1>5
<1>7. Merged(k) \in Seq(DOMAIN Passages) /\ Len(Merged(k)) = n
  BY <1>3, <1>6
<1> QED
  BY <1>2, <1>4, <1>6, <1>7 DEF n

(* The rankings are merged fairly.                                         *)
LEMMA FairlyMerged ==
  ASSUME EvaluationInv
  PROVE  InterleaveIsFair
<1> DEFINE N == Cardinality(Fresh)
           found == Cardinality(UNION {ToSet(rankings[i]) : i \in 1 .. Queries})
<1>1. N \in Nat /\ N = found
  BY FreshAre, FreshAreFound
<1>2. \A k \in Budgets : k \in Nat /\ k <= Max(Budgets) /\ Max(Budgets) \in Nat
  <2>1. Budgets \in SUBSET Nat /\ IsFiniteSet(Budgets) /\ Budgets # {}
    BY EvaluationAssumption
  <2> QED
    BY <2>1, GreatestOfAll
<1>3. ASSUME NEW k \in Budgets
      PROVE  LET merged == Merged(k)
             IN  /\ Len(merged) = Min({k, found})
                 /\ \A m, n \in DOMAIN merged : merged[m] = merged[n] => m = n
                 /\ \A n \in DOMAIN merged : n \in DOMAIN Results /\ merged[n] = Results[n]
                 /\ \A i \in 1 .. Queries : \A place \in DOMAIN rankings[i] :
                      Queries * place <= k =>
                        \E n \in DOMAIN merged :
                          n <= Queries * place /\ merged[n] = rankings[i][place]
  <2> DEFINE merged == Merged(k)
             K == Max(Budgets)
             l == Min({k, N})
             L == Min({K, N})
  <2>1. k \in Nat /\ K \in Nat /\ k <= K
    BY <1>2
  <2>2. /\ l = (IF k <= N THEN k ELSE N) /\ Len(merged) = l /\ DOMAIN merged = 1 .. l
        /\ \A m \in 1 .. l : merged[m] = Taken(NthFresh(m))
    BY <2>1, MergedIs
  <2>3. /\ L = (IF K <= N THEN K ELSE N) /\ DOMAIN Results = 1 .. L
        /\ \A m \in 1 .. L : Results[m] = Taken(NthFresh(m))
    BY <2>1, MergedIs DEF Results
  <2>4. ASSUME NEW m \in 1 .. l, NEW n \in 1 .. l, merged[m] = merged[n]
        PROVE  m = n
    <3>1. m \in 1 .. N /\ n \in 1 .. N /\ m \in Nat /\ n \in Nat
      BY <1>1, <2>1, <2>2
    <3>2. /\ NthFresh(m) \in Fresh /\ Cardinality(Earlier(NthFresh(m)) \cap Fresh) = m - 1
          /\ NthFresh(n) \in Fresh /\ Cardinality(Earlier(NthFresh(n)) \cap Fresh) = n - 1
      BY <3>1, FreshAre
    <3>3. Taken(NthFresh(m)) = Taken(NthFresh(n))
      BY <2>2, <2>4
    <3>4. NthFresh(m) = NthFresh(n)
      BY <3>2, <3>3, FreshAre
    <3>5. m - 1 = n - 1
      BY <3>2, <3>4
    <3> QED
      BY <3>1, <3>5
  <2>5. ASSUME NEW n \in 1 .. l PROVE n \in DOMAIN Results /\ merged[n] = Results[n]
    <3>1. n \in 1 .. L
      BY <1>1, <2>1, <2>2, <2>3
    <3> QED
      BY <2>2, <2>3, <3>1
  <2>6. ASSUME NEW i \in 1 .. Queries, NEW place \in DOMAIN rankings[i], Queries * place <= k
        PROVE  \E n \in DOMAIN merged :
                 n <= Queries * place /\ merged[n] = rankings[i][place]
    <3> DEFINE due == Queries * place
    <3>1. due \in Nat /\ \E n \in 1 .. N : n <= due /\ Taken(NthFresh(n)) = rankings[i][place]
      BY InTime
    <3>2. due <= k
      BY <2>6
    <3> HIDE DEF due, N
    <3>3. PICK n \in 1 .. N : n <= due /\ Taken(NthFresh(n)) = rankings[i][place]
      BY <3>1
    <3>4. n \in 1 .. l
      BY <1>1, <2>1, <2>2, <3>1, <3>2, <3>3
    <3> QED
      BY <2>2, <3>3, <3>4 DEF due
  <2>7. Len(merged) = Min({k, found})
    BY <1>1, <2>2
  <2> QED
    BY <2>2, <2>4, <2>5, <2>6, <2>7
<1> QED
  BY <1>3 DEF InterleaveIsFair

(* For any number of rankings of any length and any budgets: each ranking  *)
(* has its share of every budget, no passage is listed twice, and none is  *)
(* left out for want of room that was there.                               *)
THEOREM InterleavingIsFair == EvaluationSpec => []InterleaveIsFair
BY EvaluationIsTyped, FairlyMerged, PTL

-----------------------------------------------------------------------------
(* Scores.                                                                 *)

(* A rank is the first place that covers one of the places asked for.      *)
LEMMA RankIs ==
  ASSUME NEW results \in Seq(DOMAIN Passages), NEW places
  PROVE  LET rank == ProvisionRank(results, places)
         IN  /\ rank \in Nat
             /\ rank # 0 => /\ rank \in DOMAIN results
                            /\ \E place \in ToSet(places) : Covers(results[rank], place)
             /\ \A r \in DOMAIN results : rank = 0 \/ r < rank =>
                  \A place \in ToSet(places) : ~Covers(results[r], place)
<1> DEFINE ranks == {r \in DOMAIN results : \E i \in DOMAIN places : Covers(results[r], places[i])}
           rank == ProvisionRank(results, places)
<1>1. Len(results) \in Nat /\ DOMAIN results = 1 .. Len(results)
  OBVIOUS
<1>2. \A r \in DOMAIN results :
        r \in ranks <=> \E place \in ToSet(places) : Covers(results[r], place)
  BY DEF ToSet
<1>3. rank = IF ranks = {} THEN 0 ELSE Min(ranks)
  BY DEF ProvisionRank
<1>4. ranks \in SUBSET (1 .. Len(results))
  BY <1>1
<1> HIDE DEF ranks, rank
<1>5. CASE ranks = {}
  BY <1>1, <1>2, <1>3, <1>5 DEF rank
<1>6. CASE ranks # {}
  <2>1. rank \in ranks /\ \A r \in ranks : rank <= r
    BY <1>1, <1>3, <1>4, <1>6, LeastOfAll
  <2>2. rank \in 1 .. Len(results)
    BY <1>4, <2>1
  <2>3. rank \in Nat /\ rank # 0 /\ rank \in DOMAIN results
    BY <1>1, <2>2
  <2>4. ASSUME NEW r \in DOMAIN results, r < rank PROVE r \notin ranks
    BY <1>1, <2>1, <2>2, <2>4
  <2> QED
    BY <1>2, <2>1, <2>3, <2>4 DEF rank
<1> QED
  BY <1>5, <1>6

(* A provision's article has a passage that holds text of the clause; if   *)
(* the article is one passage, that is the one.                            *)
LEMMA CoversByText ==
  ASSUME NEW p \in DOMAIN Passages, NEW i \in DOMAIN Provisions,
         NEW place \in ToSet(Provisions[i]), Covers(p, place)
  PROVE  /\ InArticle(p, place)
         /\ Among(Passages[p].text, place) \/ Among(Misread(p), place)
<1>1. InArticle(p, place) /\ Among(ClausesHeld[p], place)
  BY DEF Covers
<1> DEFINE named == {place.clause, FollowedBy[place.clause]}
           parts == {q \in DOMAIN Passages : /\ Passages[q].document = Passages[p].document
                                             /\ Passages[q].article = Passages[p].article}
<1> SUFFICES ASSUME place.clause # Absent
             PROVE  Passages[p].text \cap named # {} \/ Misread(p) \cap named # {}
  BY <1>1 DEF Among
<1>2. ClausesHeld[p] \cap named # {}
  BY <1>1 DEF Among
<1>3. CASE Passages[p].clause # Absent
  <2>1. ClausesHeld[p] = {Passages[p].clause}
    BY <1>3 DEF ClausesHeld
  <2>2. Passages[p].clause \in Passages[p].text
    BY <1>3, LawAssumption
  <2> QED
    BY <1>2, <2>1, <2>2
<1>4. CASE Passages[p].clause = Absent /\ Passages[p].article # Absent /\ PartCounts[p] > 1
  <2>1. /\ ClausesHeld[p] = Passages[p].lines
        /\ Misread(p) = Passages[p].lines \ Passages[p].text
    BY <1>4 DEF ClausesHeld, Misread
  <2> QED
    BY <1>2, <2>1
<1>5. CASE ~(PartCounts[p] > 1)
  <2>1. PICK q \in DOMAIN Passages :
          /\ Passages[q].document = place.document /\ Passages[q].article = place.article
          /\ Passages[q].text \cap named # {}
    BY <1>1, LawAssumption DEF InArticle
  <2>2. q \in parts /\ p \in parts
    BY <1>1, <2>1 DEF InArticle
  <2>3. IsFiniteSet(parts)
    BY LawAssumption, FS_Subset
  <2>4. PartCounts[p] = Cardinality(parts)
    BY DEF PartCounts
  <2> HIDE DEF parts
  <2>5. Cardinality(parts) \in Nat /\ Cardinality(parts) # 0
    BY <2>2, <2>3, FS_CardinalityType, FS_EmptySet
  <2>6. Cardinality(parts) = 1
    BY <1>5, <2>4, <2>5
  <2>7. \E x : parts = {x}
    BY <2>3, <2>6, FS_Singleton
  <2>8. q = p
    BY <2>2, <2>7
  <2> QED
    BY <2>1, <2>8
<1>6. Passages[p].article # Absent
  BY <1>1, LawAssumption DEF InArticle
<1> QED
  BY <1>1, <1>3, <1>4, <1>5, <1>6

(* A passage counts for the clauses it names.                              *)
LEMMA ClaimIsCovered ==
  ASSUME NEW p \in DOMAIN Passages, NEW place,
         InArticle(p, place), Among(Claims(p), place)
  PROVE  Covers(p, place)
<1>1. Claims(p) \subseteq ClausesHeld[p]
  <2>1. CASE Passages[p].clause # Absent
    BY <2>1 DEF ClausesHeld, Claims
  <2>2. CASE Passages[p].clause = Absent /\ Passages[p].article # Absent /\ PartCounts[p] > 1
    BY <2>2 DEF ClausesHeld, Claims
  <2>3. CASE Passages[p].clause = Absent /\ ~(Passages[p].article # Absent /\ PartCounts[p] > 1)
    <3>1. ClausesHeld[p] = DOMAIN FollowedBy /\ Claims(p) = Passages[p].lines
      BY <2>3 DEF ClausesHeld, Claims
    <3> QED
      BY <3>1, LawAssumption
  <2> QED
    BY <2>1, <2>2, <2>3
<1> QED
  BY <1>1 DEF Covers, Among

LEMMA ResultsAre == ASSUME EvaluationInv PROVE Results \in Seq(DOMAIN Passages)
<1>1. Budgets \in SUBSET Nat /\ IsFiniteSet(Budgets) /\ Budgets # {}
  BY EvaluationAssumption
<1>2. Max(Budgets) \in Nat
  BY <1>1, GreatestOfAll
<1> QED
  BY <1>2, MergedIs DEF Results

(* Hits hold the text.                                                     *)
LEMMA HitsAreRight == ASSUME EvaluationInv PROVE HitsHoldTheText
<1>1. Results \in Seq(DOMAIN Passages) /\ \A r \in DOMAIN Results : Results[r] \in DOMAIN Passages
  BY ResultsAre
<1> SUFFICES ASSUME NEW i \in DOMAIN Provisions
             PROVE  LET places == ToSet(Provisions[i])
                        rank == ProvisionRank(Results, Provisions[i])
                        known(p, clauses) ==
                          \E place \in places : InArticle(p, place) /\ Among(clauses, place)
                    IN  /\ rank # 0 => \/ known(Results[rank], Passages[Results[rank]].text)
                                       \/ known(Results[rank], Misread(Results[rank]))
                        /\ \A r \in DOMAIN Results :
                             rank = 0 \/ r < rank => ~known(Results[r], Claims(Results[r]))
  BY DEF HitsHoldTheText
<1> DEFINE rank == ProvisionRank(Results, Provisions[i])
           places == ToSet(Provisions[i])
<1>2. /\ rank # 0 => /\ rank \in DOMAIN Results
                     /\ \E place \in places : Covers(Results[rank], place)
      /\ \A r \in DOMAIN Results : rank = 0 \/ r < rank =>
           \A place \in places : ~Covers(Results[r], place)
  BY <1>1, RankIs
<1>3. ASSUME rank # 0
      PROVE  \E place \in places :
               /\ InArticle(Results[rank], place)
               /\ \/ Among(Passages[Results[rank]].text, place)
                  \/ Among(Misread(Results[rank]), place)
  <2>1. PICK place \in places : Covers(Results[rank], place)
    BY <1>2, <1>3
  <2>2. Results[rank] \in DOMAIN Passages
    BY <1>1, <1>2, <1>3
  <2>3. /\ InArticle(Results[rank], place)
        /\ \/ Among(Passages[Results[rank]].text, place)
           \/ Among(Misread(Results[rank]), place)
    <3> HIDE DEF rank
    <3> QED
      BY <2>1, <2>2, CoversByText
  <2> QED
    BY <2>3
<1>4. ASSUME NEW r \in DOMAIN Results, rank = 0 \/ r < rank, NEW place \in places,
             InArticle(Results[r], place), Among(Claims(Results[r]), place)
      PROVE  FALSE
  <2>1. Results[r] \in DOMAIN Passages
    BY <1>1
  <2>2. Covers(Results[r], place)
    BY <1>4, <2>1, ClaimIsCovered
  <2> QED
    BY <1>2, <1>4, <2>2
<1> QED
  BY <1>3, <1>4

(* Measures agree.                                                         *)
LEMMA WinnersAndLosers ==
  ASSUME NEW one, NEW other
  PROVE  /\ one \subseteq other => Outcome(one, other) # "loss"
         /\ Outcome(one, other) = "win" <=> Outcome(other, one) = "loss"
BY DEF Outcome

(* With full coverage every provision is found.                            *)
LEMMA AllAreFound ==
  ASSUME NEW results \in Seq(DOMAIN Passages), NEW k,
         FullCoverage(ProvisionRanks(results), k), NEW i \in DOMAIN Provisions
  PROVE  Found(ProvisionRank(results, Provisions[i]), k)
<1> DEFINE ranks == ProvisionRanks(results)
           hit == {j \in DOMAIN ranks : Found(ranks[j], k)}
<1>1. PICK n \in Nat : DOMAIN Provisions = 1 .. n
  <2>1. Len(Provisions) \in Nat /\ DOMAIN Provisions = 1 .. Len(Provisions)
    BY LawAssumption
  <2> QED
    BY <2>1
<1>2. \A j \in 1 .. n : ProvisionRank(results, Provisions[j]) \in Nat
  BY RankIs
<1>3. ranks = [j \in 1 .. n |-> ProvisionRank(results, Provisions[j])]
  BY <1>1 DEF ProvisionRanks
<1>4. Cardinality(hit) = Len(ranks)
  BY DEF FullCoverage, ProvisionCoverage
<1> HIDE DEF ranks
<1>5. ranks \in [1 .. n -> Nat]
  BY <1>2, <1>3
<1>6. Len(ranks) = n /\ DOMAIN ranks = 1 .. n
  BY <1>1, <1>5
<1>7. IsFiniteSet(1 .. n) /\ Cardinality(1 .. n) = n
  BY <1>1, FS_Interval
<1>8. hit \in SUBSET (1 .. n)
  BY <1>6
<1> HIDE DEF hit
<1>9. hit = 1 .. n
  BY <1>4, <1>6, <1>7, <1>8, FS_Subset
<1>10. i \in hit /\ ranks[i] = ProvisionRank(results, Provisions[i])
  BY <1>1, <1>3, <1>9
<1> QED
  BY <1>10 DEF hit

(* A provision found within k passages is of one of the first k documents. *)
LEMMA DocumentIsFound ==
  ASSUME NEW results \in Seq(DOMAIN Passages), NEW k \in Nat, NEW i \in DOMAIN Provisions,
         Found(ProvisionRank(results, Provisions[i]), k)
  PROVE  RelevantFound(results, {Provisions[i][n].document : n \in DOMAIN Provisions[i]}, k) # {}
<1> DEFINE r == ProvisionRank(results, Provisions[i])
           documents == {Provisions[i][n].document : n \in DOMAIN Provisions[i]}
           f == [q \in 1 .. r |-> Passages[results[q]].document]
<1>1. r \in Nat /\ r # 0 /\ r <= k /\ r \in DOMAIN results
      /\ \E place \in ToSet(Provisions[i]) : Covers(results[r], place)
  BY RankIs DEF Found
<1> HIDE DEF r
<1>2. PICK place \in ToSet(Provisions[i]) : Covers(results[r], place)
  BY <1>1
<1> DEFINE d == Passages[results[r]].document
<1>3. d \in documents
  <2>1. d = place.document
    BY <1>2 DEF Covers, InArticle
  <2>2. PICK n \in DOMAIN Provisions[i] : place = Provisions[i][n]
    BY DEF ToSet
  <2> QED
    BY <2>1, <2>2
<1>4. Cardinality(DocumentsWithin(results, r)) <= k
  <2>1. DOMAIN f = 1 .. r /\ DocumentsWithin(results, r) = {f[q] : q \in DOMAIN f}
    BY DEF DocumentsWithin
  <2> HIDE DEF f
  <2>2. IsFiniteSet(DOMAIN f) /\ Cardinality(DOMAIN f) = r
    BY <1>1, <2>1, FS_Interval
  <2>3. /\ IsFiniteSet(DocumentsWithin(results, r))
        /\ Cardinality(DocumentsWithin(results, r)) <= r
    BY <2>1, <2>2, ValuesAreFew
  <2>4. Cardinality(DocumentsWithin(results, r)) \in Nat
    BY <2>3, FS_CardinalityType
  <2> QED
    BY <1>1, <2>3, <2>4
<1>5. d \in RelevantFound(results, documents, k)
  <2> HIDE DEF documents
  <2> QED
    BY <1>1, <1>3, <1>4 DEF RelevantFound
<1> QED
  BY <1>5

LEMMA MeasuresAreRight == ASSUME EvaluationInv PROVE MeasuresAgree
<1>1. Results \in Seq(DOMAIN Passages)
  BY ResultsAre
<1> SUFFICES ASSUME NEW k \in Budgets
             PROVE  /\ FullCoverage(ProvisionRanks(Results), k) =>
                         /\ \A i \in DOMAIN Provisions :
                              RelevantFound(Results, {Provisions[i][n].document :
                                                        n \in DOMAIN Provisions[i]}, k) # {}
                         /\ Outcome(FoundProvisions(rankings[1], k),
                                    FoundProvisions(Results, k)) # "loss"
                    /\ Outcome(FoundProvisions(rankings[1], k), FoundProvisions(Results, k)) = "win"
                         <=> Outcome(FoundProvisions(Results, k), FoundProvisions(rankings[1], k))
                               = "loss"
  BY DEF MeasuresAgree
<1>2. k \in Nat
  BY EvaluationAssumption
<1>3. ASSUME FullCoverage(ProvisionRanks(Results), k)
      PROVE  /\ \A i \in DOMAIN Provisions :
                  RelevantFound(Results, {Provisions[i][n].document :
                                            n \in DOMAIN Provisions[i]}, k) # {}
             /\ FoundProvisions(rankings[1], k) \subseteq FoundProvisions(Results, k)
  <2>1. \A i \in DOMAIN Provisions : Found(ProvisionRank(Results, Provisions[i]), k)
    BY <1>1, <1>3, AllAreFound
  <2>2. FoundProvisions(rankings[1], k) \subseteq FoundProvisions(Results, k)
    BY <2>1 DEF FoundProvisions
  <2> QED
    BY <1>1, <1>2, <2>1, <2>2, DocumentIsFound
<1> QED
  BY <1>3, WinnersAndLosers

(* The gate agrees with the cases.                                         *)
LEMMA GateIsRight == ASSUME EvaluationInv PROVE GateAgrees
<1>1. /\ IsFiniteSet(Relevant) /\ Cases # {} /\ {} \notin Cases
      /\ embedded \subseteq Relevant /\ Relevant = UNION Cases
  BY EvaluationAssumption DEF EvaluationInv, Relevant
<1>2. ASSUME NEW c \in Cases
      PROVE  /\ c # {} /\ c \subseteq Relevant
             /\ CoverageStatus(c) = "fully_covered" <=> c \subseteq embedded
             /\ CoverageStatus(c) = "not_covered" <=> c \cap embedded = {}
  <2>1. c # {} /\ c \subseteq Relevant
    BY <1>1
  <2>2. CASE c \subseteq embedded
    <3>1. CoverageStatus(c) = "fully_covered"
      BY <2>2 DEF CoverageStatus
    <3>2. c \cap embedded # {}
      BY <2>1, <2>2
    <3> QED
      BY <2>1, <2>2, <3>1, <3>2
  <2>3. CASE ~(c \subseteq embedded) /\ c \cap embedded # {}
    <3>1. CoverageStatus(c) = "partially_covered"
      BY <2>3 DEF CoverageStatus
    <3> QED
      BY <2>1, <2>3, <3>1
  <2>4. CASE ~(c \subseteq embedded) /\ c \cap embedded = {}
    <3>1. CoverageStatus(c) = "not_covered"
      BY <2>4 DEF CoverageStatus
    <3> QED
      BY <2>1, <2>4, <3>1
  <2> QED
    BY <2>2, <2>3, <2>4
<1>3. /\ Cardinality(Relevant \cap embedded) < Cardinality(Relevant)
           <=> Relevant \cap embedded # Relevant
  <2> DEFINE held == Relevant \cap embedded
  <2>1. held \in SUBSET Relevant
    OBVIOUS
  <2> HIDE DEF held
  <2>2. /\ Cardinality(held) \in Nat /\ Cardinality(Relevant) \in Nat
        /\ Cardinality(held) <= Cardinality(Relevant)
        /\ Cardinality(Relevant) = Cardinality(held) => Relevant = held
    BY <1>1, <2>1, FS_Subset, FS_CardinalityType
  <2>3. Cardinality(held) < Cardinality(Relevant) <=> held # Relevant
    BY <2>2
  <2> QED
    BY <2>3 DEF held
<1>4. /\ EvaluationStatus = "ready" <=> Relevant \cap embedded # {} /\ Relevant \subseteq embedded
      /\ EvaluationStatus = "not_evaluable" <=> Relevant \cap embedded = {}
  <2>1. Relevant \cap embedded = Relevant <=> Relevant \subseteq embedded
    OBVIOUS
  <2>2. CASE Relevant \cap embedded = {}
    <3>1. EvaluationStatus = "not_evaluable"
      BY <2>2 DEF EvaluationStatus
    <3> QED
      BY <2>2, <3>1
  <2>3. CASE /\ Relevant \cap embedded # {}
             /\ Cardinality(Relevant \cap embedded) < Cardinality(Relevant)
    <3>1. EvaluationStatus = "partial_coverage"
      BY <2>3 DEF EvaluationStatus
    <3>2. ~(Relevant \subseteq embedded)
      BY <1>3, <2>1, <2>3
    <3> QED
      BY <2>3, <3>1, <3>2
  <2>4. CASE /\ Relevant \cap embedded # {}
             /\ ~(Cardinality(Relevant \cap embedded) < Cardinality(Relevant))
    <3>1. EvaluationStatus = "ready"
      BY <2>4 DEF EvaluationStatus
    <3>2. Relevant \subseteq embedded
      BY <1>3, <2>1, <2>4
    <3> QED
      BY <2>4, <3>1, <3>2
  <2> QED
    BY <2>2, <2>3, <2>4
<1>5. Relevant \subseteq embedded <=> \A c \in Cases : c \subseteq embedded
  BY <1>1
<1>6. Relevant \cap embedded = {} <=> \A c \in Cases : c \cap embedded = {}
  BY <1>1
<1>7. Relevant # {}
  BY <1>1, <1>2
<1>8. Relevant \subseteq embedded => Relevant \cap embedded # {}
  BY <1>7
<1> QED
  BY <1>2, <1>4, <1>5, <1>6, <1>8 DEF GateAgrees

(* For any rankings, provisions and budgets: a provision counts first      *)
(* where its clause is named, and there its text is held unless the number *)
(* was misread; full coverage, documents and outcomes agree; and the gate  *)
(* says of the corpus what the cases say.                                  *)
THEOREM ScoresAreRight == EvaluationSpec => []ScoresAreEarned
<1>1. EvaluationInv => ScoresAreEarned
  BY HitsAreRight, MeasuresAreRight, GateIsRight DEF ScoresAreEarned
<1> QED
  BY <1>1, EvaluationIsTyped, PTL

-----------------------------------------------------------------------------
(* Manifests.                                                              *)

(* Fingerprints are equal for equal contents only.                         *)
LEMMA SameFingerprint ==
  ASSUME NEW frozen, NEW live
  PROVE  Fingerprint(frozen) = Fingerprint(live) <=>
           /\ Versions(frozen) = Versions(live) /\ frozen.model = live.model
           /\ \A e \in Versions(frozen) : frozen.of[e] = live.of[e]
<1> DEFINE pairs(m) == {<<e, m.of[e]>> : e \in Versions(m)}
<1>1. Fingerprint(frozen) = Fingerprint(live) <=>
        pairs(frozen) = pairs(live) /\ frozen.model = live.model
  BY DEF Fingerprint
<1>2. ASSUME pairs(frozen) = pairs(live)
      PROVE  /\ Versions(frozen) = Versions(live)
             /\ \A e \in Versions(frozen) : frozen.of[e] = live.of[e]
  <2>1. ASSUME NEW e \in Versions(frozen)
        PROVE  e \in Versions(live) /\ frozen.of[e] = live.of[e]
    <3>1. <<e, frozen.of[e]>> \in pairs(live)
      BY <1>2
    <3>2. PICK x \in Versions(live) : <<e, frozen.of[e]>> = <<x, live.of[x]>>
      BY <3>1
    <3> QED
      BY <3>2
  <2>2. ASSUME NEW e \in Versions(live) PROVE e \in Versions(frozen)
    <3>1. <<e, live.of[e]>> \in pairs(frozen)
      BY <1>2
    <3>2. PICK x \in Versions(frozen) : <<e, live.of[e]>> = <<x, frozen.of[x]>>
      BY <3>1
    <3> QED
      BY <3>2
  <2> QED
    BY <2>1, <2>2
<1>3. ASSUME Versions(frozen) = Versions(live),
             \A e \in Versions(frozen) : frozen.of[e] = live.of[e]
      PROVE  pairs(frozen) = pairs(live)
  BY <1>3
<1> HIDE DEF pairs
<1> QED
  BY <1>1, <1>2, <1>3

(* Whatever happens to the corpus after the freeze, the comparison lists   *)
(* all of it, and lists nothing exactly when nothing differs.              *)
THEOREM ManifestsTell == EvaluationSpec => []ComparisonTells
<1>1. ComparisonTells
  <2> DEFINE frozen == corpus.frozen
             live == corpus.live
             told == CompareManifests(frozen, live)
             both == Versions(frozen) \cap Versions(live)
             changed == {e \in both : frozen.of[e] # live.of[e]}
  <2>1. /\ told.unchanged <=> Fingerprint(frozen) = Fingerprint(live)
        /\ told.modelChanged <=> frozen.model # live.model
        /\ told.added = Versions(live) \ Versions(frozen)
        /\ told.removed = Versions(frozen) \ Versions(live)
        /\ told.changed = changed
    BY DEF CompareManifests
  <2>2. ASSUME NEW e \in Entries, e \notin told.added, e \notin told.removed, e \notin changed
        PROVE  frozen.of[e] = live.of[e]
    BY <2>1, <2>2 DEF Versions
  <2>3. told.added \cup told.removed \cup told.changed = {} <=>
          /\ Versions(frozen) = Versions(live)
          /\ \A e \in Versions(frozen) : frozen.of[e] = live.of[e]
    BY <2>1
  <2>4. Versions(live) = (Versions(frozen) \cup told.added) \ told.removed
    BY <2>1
  <2> HIDE DEF told, frozen, live, changed
  <2>5. told.unchanged <=> /\ told.added \cup told.removed \cup told.changed = {}
                           /\ ~told.modelChanged
    BY <2>1, <2>3, SameFingerprint
  <2>6. \A e \in Entries \ (told.added \cup told.removed \cup told.changed) :
          frozen.of[e] = live.of[e]
    BY <2>1, <2>2
  <2> QED
    BY <2>4, <2>5, <2>6 DEF ComparisonTells, told, frozen, live
<1> QED
  BY <1>1, PTL

-----------------------------------------------------------------------------
(* A pass over n lines ends, and after m of them knows the last that told. *)
LEMMA LatestTold ==
  ASSUME NEW v \in Seq(Verdicts), NEW order \in [1 .. Len(v) -> 1 .. Len(v)]
  PROVE  \A m \in 0 .. Len(v) :
           \/ Latest(v, order)[m] = 0 /\ \A h \in 1 .. m : v[order[h]] = "mute"
           \/ \E h \in 1 .. m :
                /\ Latest(v, order)[m] = order[h] /\ v[order[h]] # "mute"
                /\ \A g \in h + 1 .. m : v[order[g]] = "mute"
<1> DEFINE N == Len(v)
           L == Latest(v, order)
           after(f, n) == IF v[order[n]] # "mute" THEN order[n] ELSE f[n - 1]
           fits(f, k) == f[0] = 0 /\ \A n \in 1 .. k : f[n] = after(f, n)
           S == {k \in 0 .. N : \E f \in [0 .. k -> 0 .. N] : fits(f, k)}
<1>1. N \in Nat /\ \A n \in 1 .. N : order[n] \in 1 .. N
  OBVIOUS
<1>2. 0 \in S
  <2> DEFINE f == [n \in 0 .. 0 |-> 0]
  <2>1. f \in [0 .. 0 -> 0 .. N] /\ fits(f, 0)
    BY <1>1
  <2> HIDE DEF f
  <2> QED
    BY <1>1, <2>1
<1>3. ASSUME NEW k \in 0 .. N - 1, k \in S PROVE k + 1 \in S
  <2>1. PICK f \in [0 .. k -> 0 .. N] : fits(f, k)
    BY <1>3
  <2> DEFINE g == [n \in 0 .. k + 1 |-> IF n <= k THEN f[n] ELSE after(f, k + 1)]
  <2>2. k \in Nat /\ k + 1 \in 1 .. N /\ (k + 1) - 1 = k
    BY <1>1
  <2>3. after(f, k + 1) \in 0 .. N
    BY <1>1, <2>1, <2>2
  <2>4. g \in [0 .. k + 1 -> 0 .. N]
    BY <2>1, <2>2, <2>3
  <2>5. \A n \in 0 .. k : g[n] = f[n]
    BY <2>2
  <2>6. ASSUME NEW n \in 1 .. k + 1 PROVE g[n] = after(g, n)
    <3>1. n - 1 \in 0 .. k /\ g[n - 1] = f[n - 1]
      BY <2>2, <2>5
    <3>2. CASE n <= k
      BY <2>1, <2>2, <3>1, <3>2
    <3>3. CASE n = k + 1
      BY <2>2, <3>1, <3>3
    <3> QED
      BY <2>2, <3>2, <3>3
  <2>7. g[0] = 0
    BY <2>1, <2>2, <2>5
  <2> HIDE DEF g
  <2>8. fits(g, k + 1)
    BY <2>6, <2>7
  <2> HIDE DEF fits
  <2> QED
    BY <2>2, <2>4, <2>8
<1>4. PICK f \in [0 .. N -> 0 .. N] : fits(f, N)
  <2>1. N \in S
    <3> HIDE DEF S, N
    <3>1. \A k \in 0 .. N : k \in S
      BY <1>1, <1>2, <1>3, CountingUp
    <3> QED
      BY <1>1, <3>1
  <2> QED
    BY <2>1
<1>5. f = [n \in 0 .. N |-> IF n = 0 THEN 0 ELSE after(f, n)]
  <2>1. \A n \in 0 .. N : f[n] = IF n = 0 THEN 0 ELSE after(f, n)
    BY <1>1, <1>4
  <2> QED
    BY <1>4, <2>1
<1>6. L = [n \in 0 .. N |-> IF n = 0 THEN 0 ELSE after(L, n)]
  BY <1>5 DEF Latest
<1> DEFINE told(m) ==
             \/ L[m] = 0 /\ \A h \in 1 .. m : v[order[h]] = "mute"
             \/ \E h \in 1 .. m :
                  /\ L[m] = order[h] /\ v[order[h]] # "mute"
                  /\ \A g \in h + 1 .. m : v[order[g]] = "mute"
           T == {m \in 0 .. N : told(m)}
<1>7. L[0] = 0 /\ \A n \in 1 .. N : L[n] = after(L, n)
  <2> HIDE DEF L, N
  <2>1. \A n \in 0 .. N : L[n] = IF n = 0 THEN 0 ELSE after(L, n)
    BY <1>6, Zenon
  <2>2. \A n \in 1 .. N : n \in 0 .. N /\ n # 0
    BY <1>1
  <2>3. 0 \in 0 .. N
    BY <1>1
  <2> QED
    BY <2>1, <2>2, <2>3, Zenon
<1> HIDE DEF L
<1>8. 0 \in T
  BY <1>1, <1>7
<1>9. ASSUME NEW m \in 0 .. N - 1, m \in T PROVE m + 1 \in T
  <2>1. m + 1 \in 1 .. N /\ (m + 1) - 1 = m /\ m + 1 \in 0 .. N
    BY <1>1
  <2>2. L[m + 1] = IF v[order[m + 1]] # "mute" THEN order[m + 1] ELSE L[m]
    BY <1>7, <2>1
  <2>3. CASE v[order[m + 1]] # "mute"
    <3>1. \A g \in (m + 1) + 1 .. m + 1 : FALSE
      BY <2>1
    <3> QED
      BY <2>1, <2>2, <2>3, <3>1
  <2>4. CASE v[order[m + 1]] = "mute"
    <3>1. CASE L[m] = 0 /\ \A h \in 1 .. m : v[order[h]] = "mute"
      BY <2>1, <2>2, <2>4, <3>1
    <3>2. CASE \E h \in 1 .. m :
                  /\ L[m] = order[h] /\ v[order[h]] # "mute"
                  /\ \A g \in h + 1 .. m : v[order[g]] = "mute"
      <4>1. PICK h \in 1 .. m :
                  /\ L[m] = order[h] /\ v[order[h]] # "mute"
                  /\ \A g \in h + 1 .. m : v[order[g]] = "mute"
        BY <3>2
      <4>2. h \in 1 .. m + 1 /\ \A g \in h + 1 .. m + 1 : v[order[g]] = "mute"
        <5>1. m \in Nat /\ h \in 1 .. m + 1
          BY <1>1
        <5>2. \A g \in h + 1 .. m + 1 : g \in h + 1 .. m \/ g = m + 1
          BY <5>1
        <5> HIDE DEF L, N
        <5> QED
          BY <2>4, <4>1, <5>1, <5>2
      <4>3. L[m + 1] = order[h] /\ v[order[h]] # "mute"
        BY <2>2, <2>4, <4>1
      <4> HIDE DEF L, N
      <4>4. told(m + 1)
        BY <4>2, <4>3
      <4> QED
        BY <2>1, <4>4
    <3> QED
      BY <1>9, <3>1, <3>2
  <2> QED
    BY <2>3, <2>4
<1>10. \A m \in 0 .. N : m \in T
  <2> HIDE DEF T, N
  <2> QED
    BY <1>1, <1>8, <1>9, CountingUp
<1> QED
  BY <1>10 DEF L

(* Of the lines of a page that tell, no two decide the same line.          *)
LEMMA OneDecides ==
  ASSUME NEW v \in Seq(Verdicts), NEW k \in DOMAIN v, NEW i \in DOMAIN v, NEW j \in DOMAIN v,
         Decides(v, i, k), Decides(v, j, k)
  PROVE  i = j
  BY DEF Decides, Apart

(* The two passes find the line that decides.                              *)
LEMMA NearestDecides ==
  ASSUME NEW v \in Seq(Verdicts), NEW k \in DOMAIN v
  PROVE  \/ Nearest(v)[k] = "mute" /\ \A j \in DOMAIN v : v[j] = "mute"
         \/ \E j \in DOMAIN v : Decides(v, j, k) /\ Nearest(v)[k] = v[j]
<1> DEFINE n == Len(v)
           id == [i \in 1 .. n |-> i]
           back == [i \in 1 .. n |-> n + 1 - i]
           d == Latest(v, id)[k]
           u == Latest(v, back)[n + 1 - k]
           near == IF u # 0 /\ (d = 0 \/ u - k < k - d) THEN u ELSE d
<1>1. n \in Nat /\ k \in 1 .. n /\ n + 1 - k \in 1 .. n /\ DOMAIN v = 1 .. n
  OBVIOUS
<1>2. id \in [1 .. n -> 1 .. n] /\ back \in [1 .. n -> 1 .. n]
  BY <1>1
<1>3. Nearest(v)[k] = IF near = 0 THEN "mute" ELSE v[near]
  BY <1>1 DEF Nearest
<1>4. \/ d = 0 /\ \A h \in 1 .. k : v[h] = "mute"
      \/ d \in 1 .. k /\ v[d] # "mute" /\ \A h \in d + 1 .. k : v[h] = "mute"
  <2>1. k \in 0 .. n
    BY <1>1
  <2>2. \/ d = 0 /\ \A h \in 1 .. k : v[id[h]] = "mute"
        \/ \E h \in 1 .. k : /\ d = id[h] /\ v[id[h]] # "mute"
                             /\ \A g \in h + 1 .. k : v[id[g]] = "mute"
    <3> HIDE DEF id
    <3>1. \A m \in 0 .. n :
             \/ Latest(v, id)[m] = 0 /\ \A h \in 1 .. m : v[id[h]] = "mute"
             \/ \E h \in 1 .. m : /\ Latest(v, id)[m] = id[h] /\ v[id[h]] # "mute"
                                  /\ \A g \in h + 1 .. m : v[id[g]] = "mute"
      BY <1>2, LatestTold
    <3> HIDE DEF n
    <3> QED
      BY <2>1, <3>1
  <2>3. \A h \in 1 .. k : id[h] = h
    BY <1>1
  <2> HIDE DEF d, id
  <2>4. CASE d = 0 /\ \A h \in 1 .. k : v[id[h]] = "mute"
    BY <2>3, <2>4
  <2>5. CASE \E h \in 1 .. k : /\ d = id[h] /\ v[id[h]] # "mute"
                               /\ \A g \in h + 1 .. k : v[id[g]] = "mute"
    <3>1. PICK h \in 1 .. k : /\ d = id[h] /\ v[id[h]] # "mute"
                              /\ \A g \in h + 1 .. k : v[id[g]] = "mute"
      BY <2>5
    <3>2. \A g \in h + 1 .. k : g \in 1 .. k
      BY <1>1
    <3> QED
      BY <2>3, <3>1, <3>2
  <2> QED
    BY <2>2, <2>4, <2>5
<1>5. \/ u = 0 /\ \A h \in k .. n : v[h] = "mute"
      \/ u \in k .. n /\ v[u] # "mute" /\ \A h \in k .. u - 1 : v[h] = "mute"
  <2> DEFINE m == n + 1 - k
  <2>1. m \in 0 .. n /\ m \in Nat
    BY <1>1
  <2>2. \/ u = 0 /\ \A h \in 1 .. m : v[back[h]] = "mute"
        \/ \E h \in 1 .. m : /\ u = back[h] /\ v[back[h]] # "mute"
                             /\ \A g \in h + 1 .. m : v[back[g]] = "mute"
    <3> HIDE DEF back
    <3>1. \A l \in 0 .. n :
             \/ Latest(v, back)[l] = 0 /\ \A h \in 1 .. l : v[back[h]] = "mute"
             \/ \E h \in 1 .. l : /\ Latest(v, back)[l] = back[h] /\ v[back[h]] # "mute"
                                  /\ \A g \in h + 1 .. l : v[back[g]] = "mute"
      BY <1>2, LatestTold
    <3> HIDE DEF n, m
    <3> QED
      BY <2>1, <3>1 DEF m
  <2>3. \A h \in 1 .. m : back[h] = n + 1 - h
    BY <1>1
  <2>4. \A h \in k .. n : n + 1 - h \in 1 .. m /\ back[n + 1 - h] = h
    BY <1>1
  <2> HIDE DEF u, back
  <2>5. CASE u = 0 /\ \A h \in 1 .. m : v[back[h]] = "mute"
    BY <2>4, <2>5
  <2>6. CASE \E h \in 1 .. m : /\ u = back[h] /\ v[back[h]] # "mute"
                               /\ \A g \in h + 1 .. m : v[back[g]] = "mute"
    <3>1. PICK h \in 1 .. m : /\ u = back[h] /\ v[back[h]] # "mute"
                              /\ \A g \in h + 1 .. m : v[back[g]] = "mute"
      BY <2>6
    <3>2. u = n + 1 - h /\ u \in k .. n
      BY <1>1, <2>3, <3>1
    <3>3. ASSUME NEW g \in k .. u - 1 PROVE v[g] = "mute"
      <4>1. n + 1 - g \in h + 1 .. m /\ g \in k .. n
        BY <1>1, <3>2
      <4> QED
        BY <2>4, <3>1, <4>1
    <3> QED
      BY <3>1, <3>2, <3>3
  <2> QED
    BY <2>2, <2>5, <2>6
<1> HIDE DEF d, u
<1>6. CASE near = 0
  <2>1. d = 0 /\ u = 0
    BY <1>1, <1>4, <1>5, <1>6
  <2>2. \A h \in 1 .. n : h \in 1 .. k \/ h \in k .. n
    BY <1>1
  <2>3. \A h \in 1 .. n : v[h] = "mute"
    BY <1>1, <1>4, <1>5, <2>1, <2>2
  <2> QED
    BY <1>1, <1>3, <1>6, <2>3
<1>7. CASE near # 0
  <2>1. near \in 1 .. n /\ v[near] # "mute"
    BY <1>1, <1>4, <1>5, <1>7
  <2>2. ASSUME NEW h \in (1 .. n) \ {near}, v[h] # "mute"
        PROVE  Apart(near, k) < Apart(h, k) \/ (Apart(near, k) = Apart(h, k) /\ near < h)
    <3>1. CASE h < k
      <4>1. d # 0 /\ h <= d
        BY <1>1, <1>4, <2>2, <3>1
      <4> QED
        BY <1>1, <1>4, <1>5, <2>2, <3>1, <4>1 DEF Apart
    <3>2. CASE h >= k
      <4>1. u # 0 /\ u <= h
        BY <1>1, <1>5, <2>2, <3>2
      <4> QED
        BY <1>1, <1>4, <1>5, <2>2, <3>2, <4>1 DEF Apart
    <3> QED
      BY <1>1, <3>1, <3>2
  <2>3. Decides(v, near, k)
    BY <1>1, <2>1, <2>2 DEF Decides
  <2> QED
    BY <1>1, <1>3, <1>7, <2>1, <2>3
<1> QED
  BY <1>6, <1>7

-----------------------------------------------------------------------------
PageTextTypeOK ==
  /\ layers \in Seq(Layers)
  /\ ocr \in [pc : {"opening", "reading", "done", "failed"},
             waiting : SUBSET DOMAIN layers, read : SUBSET DOMAIN layers,
             failed : SUBSET DOMAIN layers, shares : SUBSET ((DOMAIN layers) \X Nat),
             converted : SUBSET (Nat \X Nat)]

(* What Tesseract read replaced a layer for a reason.                      *)
Replaced(i) ==
  \/ ~layers[i].usable
  \/ /\ layers[i].doubtful /\ i \notin ocr.failed
     /\ \E r \in ocr.shares : r[1] = i /\ r[2] > 2 * layers[i].share

(* Nothing happens before the layers are there ...                         *)
NotYet ==
  ocr.pc = "opening" =>
    {ocr.waiting, ocr.read, ocr.failed, ocr.shares, ocr.converted} = {{}}

(* ... a page waits until it is read or lost, once ...                     *)
EachPageOnce ==
  \A i \in ocr.waiting :
    i \in Scanned \cup Doubtful /\ i \notin ocr.read /\ i \notin ocr.failed

(* ... no scanned page is forgotten ...                                    *)
ScannedAreRead ==
  ocr.pc # "opening" /\ OcrEnabled => Scanned \subseteq ocr.waiting \cup ocr.read

(* ... and the encoding is judged of what Tesseract did not read, last.    *)
ConvertedLast ==
  ocr.pc = "done" =>
    LET kept == DOMAIN layers \ ocr.read
    IN  /\ ocr.waiting = {}
        /\ ocr.converted = IF IsTcvn3(kept) THEN UNION {ConvertedLines(i) : i \in kept} ELSE {}

PageTextInv ==
  /\ PageTextTypeOK
  /\ \A i \in ocr.read : Replaced(i)
  /\ NotYet /\ EachPageOnce /\ ScannedAreRead /\ ConvertedLast

(* The layer of a page.                                                    *)
LEMMA LayersAre ==
  ASSUME layers \in Seq(Layers), NEW i \in DOMAIN layers
  PROVE  /\ i \in Nat /\ layers[i] \in Layers /\ layers[i].share \in Nat
         /\ {layers[i].usable, layers[i].doubtful} \subseteq BOOLEAN
         /\ layers[i].lines \in Seq(Verdicts)
  BY PageTextAssumption

(* The converted lines are lines of the page.                              *)
LEMMA ConvertedAreLines ==
  ASSUME layers \in Seq(Layers), NEW P \in SUBSET DOMAIN layers
  PROVE  UNION {ConvertedLines(i) : i \in P} \in SUBSET (Nat \X Nat)
<1>1. ASSUME NEW i \in P PROVE ConvertedLines(i) \in SUBSET (Nat \X Nat)
  <2>1. i \in Nat /\ layers[i].lines \in Seq(Verdicts)
    BY LayersAre
  <2> QED
    BY <2>1 DEF ConvertedLines
<1> QED
  BY <1>1

LEMMA PageTextInvInit == PageTextInit => PageTextInv
<1> SUFFICES ASSUME PageTextInit PROVE PageTextInv
  OBVIOUS
<1>1. PageTextTypeOK
  BY DEF PageTextInit, PageTextTypeOK
<1> QED
  BY <1>1 DEF PageTextInit, PageTextInv, NotYet, EachPageOnce, ScannedAreRead, ConvertedLast

LEMMA AddPageKeeps == PageTextInv /\ AddPage => PageTextInv'
<1> SUFFICES ASSUME PageTextInv, AddPage PROVE PageTextInv'
  OBVIOUS
<1> USE DEF PageTextInv
<1>1. ocr' = ocr /\ ocr.pc = "opening"
      /\ {ocr.waiting, ocr.read, ocr.failed, ocr.shares, ocr.converted} = {{}}
  BY DEF AddPage, NotYet
<1>2. PageTextTypeOK'
  <2>1. layers' \in Seq(Layers)
    BY DEF AddPage, PageTextTypeOK
  <2> QED
    BY <1>1, <2>1 DEF PageTextTypeOK
<1> QED
  BY <1>1, <1>2 DEF NotYet, EachPageOnce, ScannedAreRead, ConvertedLast

LEMMA ExtractedKeeps == PageTextInv /\ Extracted => PageTextInv'
<1> SUFFICES ASSUME PageTextInv, Extracted PROVE PageTextInv'
  OBVIOUS
<1> USE DEF PageTextInv
<1>1. layers' = layers /\ Scanned' = Scanned /\ Doubtful' = Doubtful
  BY DEF Extracted, Scanned, Doubtful
<1>2. {ocr.waiting, ocr.read, ocr.failed, ocr.shares, ocr.converted} = {{}}
  BY DEF Extracted, NotYet
<1>3. ocr' = [ocr EXCEPT !.pc = "reading",
                !.waiting = IF OcrEnabled THEN Scanned \cup Doubtful ELSE {}]
  BY DEF Extracted
<1>4. ocr'.pc = "reading" /\ ocr'.read = {} /\ ocr'.failed = {}
      /\ ocr'.waiting = IF OcrEnabled THEN Scanned \cup Doubtful ELSE {}
  BY <1>2, <1>3 DEF PageTextTypeOK
<1>5. PageTextTypeOK'
  <2>1. Scanned \cup Doubtful \subseteq DOMAIN layers
    BY DEF Scanned, Doubtful
  <2> QED
    BY <1>1, <1>3, <2>1 DEF PageTextTypeOK
<1> QED
  BY <1>1, <1>4, <1>5 DEF NotYet, EachPageOnce, ScannedAreRead, ConvertedLast

(* What reading page i, or losing it, does to the pages.                   *)
PageDone(i, share, lost) ==
  ocr' = [ocr EXCEPT !.waiting = @ \ {i}, !.failed = @ \cup lost,
            !.read = IF Better(i, share) THEN @ \cup {i} ELSE @,
            !.shares = @ \cup {<<i, share>>}]

LEMMA PageDoneKeeps ==
  ASSUME PageTextInv, ocr.pc = "reading", UNCHANGED layers,
         NEW i \in ocr.waiting, NEW share \in Nat, NEW lost \in SUBSET {i},
         lost # {} => share = 0, PageDone(i, share, lost)
  PROVE  PageTextInv'
<1> USE DEF PageTextInv
<1>1. layers' = layers /\ Scanned' = Scanned /\ Doubtful' = Doubtful
  BY DEF Scanned, Doubtful
<1>2. /\ ocr'.pc = "reading" /\ ocr'.waiting = ocr.waiting \ {i}
      /\ ocr'.failed = ocr.failed \cup lost
      /\ ocr'.read = IF Better(i, share) THEN ocr.read \cup {i} ELSE ocr.read
      /\ ocr'.shares = ocr.shares \cup {<<i, share>>}
  BY DEF PageTextTypeOK, PageDone
<1>3. i \in DOMAIN layers
  BY DEF PageTextTypeOK
<1>4. PageTextTypeOK'
  <2> DEFINE r == IF Better(i, share) THEN ocr.read \cup {i} ELSE ocr.read
             h == ocr.shares \cup {<<i, share>>}
  <2>1. r \in SUBSET DOMAIN layers /\ lost \in SUBSET DOMAIN layers
    BY <1>3 DEF PageTextTypeOK
  <2>2. h \in SUBSET ((DOMAIN layers) \X Nat)
    BY <1>3 DEF PageTextTypeOK
  <2>3. ocr' = [ocr EXCEPT !.waiting = @ \ {i}, !.failed = @ \cup lost, !.read = r,
                  !.shares = h]
    BY DEF PageDone, PageTextTypeOK
  <2> HIDE DEF r, h
  <2> QED
    BY <1>1, <2>1, <2>2, <2>3 DEF PageTextTypeOK
<1>5. ASSUME NEW j \in ocr'.read PROVE Replaced(j)'
  <2>1. CASE j # i
    <3>1. j \in ocr.read
      BY <1>2, <1>5, <2>1
    <3>2. Replaced(j)
      BY <3>1
    <3> QED
      BY <1>1, <1>2, <2>1, <3>2 DEF Replaced
  <2>2. CASE j = i
    <3>1. Better(i, share)
      BY <1>2, <1>5, <2>2 DEF EachPageOnce
    <3>2. CASE i \notin Doubtful
      BY <1>1, <2>2, <3>2 DEF EachPageOnce, Scanned, Replaced
    <3>3. CASE i \in Doubtful
      <4>1. share > 2 * layers[i].share /\ layers[i].share \in Nat
        BY <1>3, <3>1, <3>3, LayersAre DEF Better, PageTextTypeOK
      <4>2. lost = {}
        BY <4>1
      <4>3. layers[i].doubtful /\ i \notin ocr.failed
        BY <3>3 DEF Doubtful, EachPageOnce
      <4>4. <<i, share>> \in ocr'.shares
        BY <1>2
      <4> QED
        BY <1>1, <1>2, <2>2, <4>1, <4>2, <4>3, <4>4 DEF Replaced
    <3> QED
      BY <3>2, <3>3
  <2> QED
    BY <2>1, <2>2
<1>6. EachPageOnce'
  <2>1. \A j \in ocr'.waiting : j \in ocr.waiting /\ j # i
    BY <1>2
  <2> QED
    BY <1>1, <1>2, <2>1 DEF EachPageOnce
<1>7. ScannedAreRead'
  <2>1. i \in Scanned => Better(i, share)
    BY DEF Scanned, Doubtful, Better
  <2>2. OcrEnabled => Scanned \subseteq ocr.waiting \cup ocr.read
    BY DEF ScannedAreRead
  <2> QED
    BY <1>1, <1>2, <2>1, <2>2 DEF ScannedAreRead
<1> QED
  BY <1>2, <1>4, <1>5, <1>6, <1>7 DEF NotYet, ConvertedLast

LEMMA ConvertKeeps == PageTextInv /\ Convert => PageTextInv'
<1> SUFFICES ASSUME PageTextInv, Convert PROVE PageTextInv'
  OBVIOUS
<1> USE DEF PageTextInv
<1> DEFINE kept == DOMAIN layers \ ocr.read
           now == IF IsTcvn3(kept) THEN UNION {ConvertedLines(i) : i \in kept} ELSE {}
<1>1. layers' = layers /\ Scanned' = Scanned /\ Doubtful' = Doubtful
  BY DEF Convert, Scanned, Doubtful
<1>2. PICK pc \in {"done", "failed"} : ocr' = [ocr EXCEPT !.pc = pc, !.converted = now]
  BY DEF Convert
<1>3. ocr.pc = "reading" /\ ocr.waiting = {}
  BY DEF Convert
<1>4. now \in SUBSET (Nat \X Nat)
  BY ConvertedAreLines DEF PageTextTypeOK
<1>5. (\A P : IsTcvn3(P)' = IsTcvn3(P)) /\ \A i : ConvertedLines(i)' = ConvertedLines(i)
  BY <1>1 DEF IsTcvn3, LinesOf, VerdictOf, ConvertedLines
<1> HIDE DEF now
<1>6. /\ ocr'.pc = pc /\ ocr'.converted = now /\ ocr'.waiting = {} /\ ocr'.read = ocr.read
      /\ ocr'.failed = ocr.failed /\ ocr'.shares = ocr.shares
  BY <1>2, <1>3 DEF PageTextTypeOK
<1>7. PageTextTypeOK'
  BY <1>1, <1>2, <1>4 DEF PageTextTypeOK
<1>8. ConvertedLast'
  <2>1. (DOMAIN layers \ ocr.read)' = kept
    BY <1>1, <1>6
  <2>2. now = (IF IsTcvn3(kept) THEN UNION {ConvertedLines(i) : i \in kept} ELSE {})'
    BY <1>1, <1>5, <2>1 DEF now
  <2> QED
    BY <1>6, <2>1, <2>2 DEF ConvertedLast
<1>9. \A i \in ocr'.read : Replaced(i)'
  BY <1>1, <1>6 DEF Replaced
<1>10. ScannedAreRead' /\ EachPageOnce' /\ NotYet'
  BY <1>1, <1>3, <1>6 DEF ScannedAreRead, EachPageOnce, NotYet
<1> QED
  BY <1>7, <1>8, <1>9, <1>10

LEMMA BreakKeeps == PageTextInv /\ Break => PageTextInv'
<1> SUFFICES ASSUME PageTextInv, Break PROVE PageTextInv'
  OBVIOUS
<1> USE DEF PageTextInv
<1>1. layers' = layers /\ Scanned' = Scanned /\ Doubtful' = Doubtful
  BY DEF Break, Scanned, Doubtful
<1>2. /\ ocr.pc = "reading" /\ ocr'.pc = "failed" /\ ocr'.waiting = ocr.waiting
      /\ ocr'.read = ocr.read /\ ocr'.failed = ocr.failed /\ ocr'.shares = ocr.shares
  BY DEF Break, PageTextTypeOK
<1>3. PageTextTypeOK'
  BY <1>1 DEF Break, PageTextTypeOK
<1>4. \A i \in ocr'.read : Replaced(i)'
  BY <1>1, <1>2 DEF Replaced
<1> QED
  BY <1>1, <1>2, <1>3, <1>4 DEF NotYet, EachPageOnce, ScannedAreRead, ConvertedLast

(* The inductive invariant of the text of a PDF, process_document_version's *)
(* loop over the pages: what Tesseract read, what waits and what is lost.  *)
THEOREM PagesAreInvariant == PageTextSpec => []PageTextInv
<1>1. ASSUME PageTextInv, [PageTextNext]_pageTextVars PROVE PageTextInv'
  <2>1. CASE AddPage
    BY <1>1, <2>1, AddPageKeeps
  <2>2. CASE Extracted
    BY <1>1, <2>2, ExtractedKeeps
  <2>3. CASE PageRead
    <3>1. PICK i \in ocr.waiting, share \in Readings :
            ocr' = [ocr EXCEPT !.waiting = @ \ {i},
                      !.read = IF Better(i, share) THEN @ \cup {i} ELSE @,
                      !.shares = @ \cup {<<i, share>>}]
      BY <2>3 DEF PageRead
    <3>2. share \in Nat
      BY PageTextAssumption
    <3>3. PageDone(i, share, {})
      BY <1>1, <3>1 DEF PageDone, PageTextInv, PageTextTypeOK
    <3>4. UNCHANGED layers /\ ocr.pc = "reading"
      BY <2>3 DEF PageRead
    <3> QED
      BY <1>1, <3>2, <3>3, <3>4, PageDoneKeeps
  <2>4. CASE PageFailed
    <3>1. PICK i \in ocr.waiting : PageDone(i, 0, {i})
      BY <2>4 DEF PageFailed, PageDone
    <3>2. UNCHANGED layers /\ ocr.pc = "reading"
      BY <2>4 DEF PageFailed
    <3> QED
      BY <1>1, <3>1, <3>2, PageDoneKeeps
  <2>5. CASE Convert
    BY <1>1, <2>5, ConvertKeeps
  <2>6. CASE Break
    BY <1>1, <2>6, BreakKeeps
  <2>7. CASE UNCHANGED pageTextVars
    <3>1. layers' = layers /\ ocr' = ocr
      BY <2>7 DEF pageTextVars
    <3>2. PageTextTypeOK' /\ \A i \in ocr'.read : Replaced(i)'
      BY <1>1, <3>1 DEF PageTextInv, PageTextTypeOK, Replaced
    <3>3. NotYet' /\ EachPageOnce' /\ ScannedAreRead'
      BY <1>1, <3>1 DEF PageTextInv, NotYet, EachPageOnce, ScannedAreRead, Scanned, Doubtful
    <3>4. ConvertedLast'
      BY <1>1, <3>1 DEF PageTextInv, ConvertedLast, IsTcvn3, LinesOf, VerdictOf, ConvertedLines
    <3> QED
      BY <3>2, <3>3, <3>4 DEF PageTextInv
  <2> QED
    BY <1>1, <2>1, <2>2, <2>3, <2>4, <2>5, <2>6, <2>7 DEF PageTextNext
<1> QED
  BY <1>1, PageTextInvInit, PTL DEF PageTextSpec

(* A converted line is one of a page that kept its layer, and not Unicode. *)
LEMMA ConvertedKept ==
  ASSUME PageTextInv, ocr.pc = "done", NEW i \in DOMAIN layers,
         NEW l \in ocr.converted, l[1] = i
  PROVE  i \notin ocr.read /\ VerdictOf(l) # "unicode"
<1>1. PICK j \in DOMAIN layers \ ocr.read : l \in ConvertedLines(j)
  BY DEF PageTextInv, ConvertedLast
<1> DEFINE lines == layers[j].lines
<1>2. lines \in Seq(Verdicts)
  BY LayersAre DEF PageTextInv, PageTextTypeOK
<1>3. PICK k \in DOMAIN lines : l = <<j, k>> /\ Nearest(lines)[k] = "legacy"
  BY <1>1 DEF ConvertedLines
<1>4. VerdictOf(l) = lines[k]
  BY <1>3 DEF VerdictOf
<1>5. lines[k] # "unicode"
  <2> SUFFICES ASSUME lines[k] = "unicode" PROVE FALSE
    OBVIOUS
  <2> HIDE DEF lines
  <2>1. PICK m \in DOMAIN lines : Decides(lines, m, k) /\ Nearest(lines)[k] = lines[m]
    BY <1>2, <1>3, NearestDecides
  <2>2. Decides(lines, k, k)
    BY <1>2 DEF Decides, Apart
  <2> QED
    BY <1>2, <1>3, <2>1, <2>2, OneDecides
<1> QED
  BY <1>1, <1>3, <1>4, <1>5

(* The pages and lines of a processed PDF come from where they should:     *)
(* process_document_version with _convert_tcvn3_text_layer.                *)
THEOREM PageTextIsRightAlways == PageTextSpec => []PageTextIsRight
<1>1. ASSUME PageTextInv PROVE PagesAreRight
  <2> SUFFICES ASSUME ocr.pc = "done", NEW i \in DOMAIN layers
               PROVE  /\ i \in ocr.read =>
                           \/ ~layers[i].usable
                           \/ /\ layers[i].doubtful /\ i \notin ocr.failed
                              /\ \E r \in ocr.shares : r[1] = i /\ r[2] > 2 * layers[i].share
                      /\ OcrEnabled /\ ~layers[i].usable => i \in ocr.read
                      /\ \A l \in ocr.converted :
                           l[1] = i => i \notin ocr.read /\ VerdictOf(l) # "unicode"
    BY DEF PagesAreRight
  <2>1. i \in ocr.read => Replaced(i)
    BY <1>1 DEF PageTextInv
  <2>2. OcrEnabled /\ ~layers[i].usable => i \in ocr.read
    BY <1>1 DEF PageTextInv, ScannedAreRead, ConvertedLast, Scanned
  <2>3. \A l \in ocr.converted : l[1] = i => i \notin ocr.read /\ VerdictOf(l) # "unicode"
    BY <1>1, ConvertedKept
  <2> QED
    BY <2>1, <2>2, <2>3 DEF Replaced
<1>2. ASSUME PageTextInv PROVE NearestLineDecides
  <2> DEFINE kept == DOMAIN layers \ ocr.read
  <2> SUFFICES ASSUME ocr.pc = "done", IsTcvn3(kept),
                      NEW i \in kept, NEW k \in DOMAIN layers[i].lines
               PROVE  <<i, k>> \in ocr.converted <=>
                        \E j \in DOMAIN layers[i].lines :
                          Decides(layers[i].lines, j, k) /\ layers[i].lines[j] = "legacy"
    BY DEF NearestLineDecides
  <2> DEFINE lines == layers[i].lines
  <2>1. lines \in Seq(Verdicts)
    BY <1>2, LayersAre DEF PageTextInv, PageTextTypeOK
  <2>2. <<i, k>> \in ocr.converted <=> Nearest(lines)[k] = "legacy"
    <3>1. ocr.converted = UNION {ConvertedLines(j) : j \in kept}
      BY <1>2 DEF PageTextInv, ConvertedLast
    <3>2. \A j \in kept : <<i, k>> \in ConvertedLines(j) <=>
            j = i /\ Nearest(lines)[k] = "legacy"
      BY DEF ConvertedLines
    <3> QED
      BY <3>1, <3>2
  <2> HIDE DEF lines
  <2>3. k \in DOMAIN lines
    BY DEF lines
  <2>4. CASE Nearest(lines)[k] = "mute" /\ \A j \in DOMAIN lines : lines[j] = "mute"
    BY <2>2, <2>4 DEF lines
  <2>5. CASE \E j \in DOMAIN lines : Decides(lines, j, k) /\ Nearest(lines)[k] = lines[j]
    <3>1. PICK j \in DOMAIN lines : Decides(lines, j, k) /\ Nearest(lines)[k] = lines[j]
      BY <2>5
    <3>2. \A h \in DOMAIN lines : Decides(lines, h, k) => h = j
      BY <2>1, <2>3, <3>1, OneDecides
    <3> QED
      BY <2>2, <3>1, <3>2 DEF lines
  <2> QED
    BY <2>1, <2>3, <2>4, <2>5, NearestDecides
<1>3. PageTextInv => PageTextIsRight
  BY <1>1, <1>2 DEF PageTextIsRight
<1> QED
  BY <1>3, PagesAreInvariant, PTL

-----------------------------------------------------------------------------
Rules == {"explicit", "guidance", "amendment"}
AllRepeals == [number : Numbers, on : DOMAIN YearOn, rule : Rules, by : Numbers]

RepealsTypeOK == titles \in Seq(DOMAIN TitleOf) /\ explicit \in Seq(Statements)

Says(s, n) == s.target = n /\ s.by # n

OneEach(R) == \A r, x \in R : x.number = r.number => x = r

(* The repeals after the first k statements.                               *)
StatedUpTo(R, k) ==
  /\ R \subseteq AllRepeals /\ OneEach(R)
  /\ \A r \in R :
       /\ r.rule = "explicit"
       /\ \E j \in 1 .. k :
            /\ Says(explicit[j], r.number)
            /\ explicit[j].on = r.on /\ explicit[j].by = r.by
       /\ \A j \in 1 .. k : Says(explicit[j], r.number) => r.on <= explicit[j].on
  /\ \A j \in 1 .. k : explicit[j].target # explicit[j].by => Ended(R, explicit[j].target)

LEMMA StatementsAre ==
  ASSUME RepealsTypeOK, NEW k \in DOMAIN explicit
  PROVE  /\ explicit[k].target \in Numbers /\ explicit[k].by \in Numbers
         /\ explicit[k].on \in DOMAIN YearOn /\ explicit[k].on \in Nat
  BY RepealsAssumption DEF RepealsTypeOK

LEMMA StatedIs ==
  ASSUME NEW R \in SUBSET AllRepeals, RepealsTypeOK, NEW k \in DOMAIN explicit
  PROVE  Stated(R, explicit[k]) \in SUBSET AllRepeals
  BY StatementsAre DEF Stated, KeepEarliest, AllRepeals, Rules

(* _keep_earliest keeps the earliest of what was said so far.              *)
LEMMA StatedKeepsEarliest ==
  ASSUME RepealsTypeOK, NEW k \in DOMAIN explicit, NEW R, StatedUpTo(R, k - 1)
  PROVE  StatedUpTo(Stated(R, explicit[k]), k)
<1> DEFINE s == explicit[k]
           new == [number |-> s.target, on |-> s.on, rule |-> "explicit", by |-> s.by]
           Q == Stated(R, s)
<1> SUFFICES StatedUpTo(Q, k)
  OBVIOUS
<1> HIDE DEF Q
<1>1. k \in Nat /\ k >= 1 /\ \A j \in 1 .. k : j \in 1 .. k - 1 \/ j = k
  BY DEF RepealsTypeOK
<1>2. \A j \in 1 .. k : j \in DOMAIN explicit
  BY DEF RepealsTypeOK
<1>3. s.target \in Numbers /\ s.by \in Numbers /\ s.on \in DOMAIN YearOn /\ s.on \in Nat
  BY StatementsAre
<1>4. \A r \in R : r.on \in Nat
  BY RepealsAssumption DEF StatedUpTo, AllRepeals
<1>5. \A j \in 1 .. k : explicit[j].on \in Nat
  BY <1>2, StatementsAre
<1>6. CASE s.target = s.by
  <2>1. Q = R
    BY <1>6 DEF Q, Stated
  <2>2. \A n : ~Says(s, n)
    BY <1>6 DEF Says
  <2>3. \A r \in R : \E j \in 1 .. k :
                       /\ Says(explicit[j], r.number)
                       /\ explicit[j].on = r.on /\ explicit[j].by = r.by
    BY <1>1 DEF StatedUpTo
  <2>4. \A r \in R : \A j \in 1 .. k : Says(explicit[j], r.number) => r.on <= explicit[j].on
    BY <1>1, <2>2 DEF StatedUpTo
  <2>5. \A j \in 1 .. k : explicit[j].target # explicit[j].by => Ended(R, explicit[j].target)
    BY <1>1, <1>6 DEF StatedUpTo
  <2> QED
    BY <2>1, <2>3, <2>4, <2>5 DEF StatedUpTo
<1>7. CASE s.target # s.by /\ \E x \in R : x.number = new.number /\ x.on <= new.on
  <2>1. Q = R
    BY <1>7 DEF Q, Stated, KeepEarliest
  <2>2. PICK x \in R : x.number = s.target /\ x.on <= s.on
    BY <1>7
  <2>3. \A r \in R : \E j \in 1 .. k :
                       /\ Says(explicit[j], r.number)
                       /\ explicit[j].on = r.on /\ explicit[j].by = r.by
    BY <1>1 DEF StatedUpTo
  <2>4. \A r \in R : \A j \in 1 .. k : Says(explicit[j], r.number) => r.on <= explicit[j].on
    <3> SUFFICES ASSUME NEW r \in R, NEW j \in 1 .. k, Says(explicit[j], r.number)
                 PROVE  r.on <= explicit[j].on
      OBVIOUS
    <3>1. CASE j \in 1 .. k - 1
      BY <3>1 DEF StatedUpTo
    <3>2. CASE j = k
      <4>1. x = r
        BY <2>2, <3>2 DEF StatedUpTo, OneEach, Says
      <4> QED
        BY <2>2, <3>2, <4>1
    <3> QED
      BY <1>1, <3>1, <3>2
  <2>5. \A j \in 1 .. k : explicit[j].target # explicit[j].by => Ended(R, explicit[j].target)
    BY <1>1, <2>2 DEF StatedUpTo, Ended
  <2> QED
    BY <2>1, <2>3, <2>4, <2>5 DEF StatedUpTo
<1>8. CASE s.target # s.by /\ ~\E x \in R : x.number = new.number /\ x.on <= new.on
  <2>1. Q = {x \in R : x.number # new.number} \cup {new}
    BY <1>8 DEF Q, Stated, KeepEarliest
  <2>2. new \in AllRepeals
    BY <1>3 DEF AllRepeals, Rules
  <2>3. new.number = s.target /\ new.on = s.on /\ new.by = s.by /\ new.rule = "explicit"
    OBVIOUS
  <2>4. \A x \in R : x.number = new.number => ~(x.on <= new.on)
    BY <1>8
  <2> HIDE DEF new
  <2>5. Q \subseteq AllRepeals
    BY <2>1, <2>2 DEF StatedUpTo
  <2>6. OneEach(Q)
    BY <2>1 DEF StatedUpTo, OneEach
  <2>7. ASSUME NEW r \in Q
        PROVE  /\ r.rule = "explicit"
               /\ \E j \in 1 .. k :
                    /\ Says(explicit[j], r.number)
                    /\ explicit[j].on = r.on /\ explicit[j].by = r.by
               /\ \A j \in 1 .. k : Says(explicit[j], r.number) => r.on <= explicit[j].on
    <3>1. CASE r = new
      <4>1. Says(explicit[k], r.number) /\ explicit[k].on = r.on /\ explicit[k].by = r.by
        BY <1>8, <2>3, <3>1 DEF Says
      <4>2. ASSUME NEW j \in 1 .. k - 1, Says(explicit[j], r.number)
            PROVE  r.on <= explicit[j].on
        <5>1. PICK x \in R : x.number = r.number
          BY <4>2 DEF StatedUpTo, Says, Ended
        <5>2. ~(x.on <= r.on) /\ x.on <= explicit[j].on
          BY <2>4, <3>1, <4>2, <5>1 DEF StatedUpTo
        <5>3. x.on \in Nat /\ r.on \in Nat /\ explicit[j].on \in Nat
          BY <1>1, <1>3, <1>4, <1>5, <2>3, <3>1
        <5> QED
          BY <5>2, <5>3
      <4>3. r.on <= explicit[k].on
        BY <1>3, <4>1
      <4> QED
        BY <1>1, <2>3, <3>1, <4>1, <4>2, <4>3
    <3>2. CASE r \in R /\ r.number # s.target
      <4>1. ~Says(explicit[k], r.number)
        BY <3>2 DEF Says
      <4> QED
        BY <1>1, <3>2, <4>1 DEF StatedUpTo
    <3> QED
      BY <2>1, <2>3, <3>1, <3>2
  <2>8. ASSUME NEW j \in 1 .. k, explicit[j].target # explicit[j].by
        PROVE  Ended(Q, explicit[j].target)
    <3>1. CASE explicit[j].target = s.target
      BY <2>1, <2>3, <3>1 DEF Ended
    <3>2. CASE explicit[j].target # s.target
      <4>1. j \in 1 .. k - 1
        BY <1>1, <3>2
      <4>2. PICK x \in R : x.number = explicit[j].target
        BY <2>8, <4>1 DEF StatedUpTo, Ended
      <4> QED
        BY <2>1, <2>3, <3>2, <4>2 DEF Ended
    <3> QED
      BY <3>1, <3>2
  <2> QED
    BY <2>5, <2>6, <2>7, <2>8 DEF StatedUpTo
<1> QED
  BY <1>6, <1>7, <1>8

LEMMA ExplicitIs ==
  ASSUME RepealsTypeOK
  PROVE  StatedUpTo(Explicit, Len(explicit))
<1> DEFINE N == Len(explicit)
           V == SUBSET AllRepeals
           step == [k \in 1 .. N |-> [R \in V |-> Stated(R, explicit[k])]]
           F == CHOOSE f :
                  f = [k \in 0 .. N |-> IF k = 0 THEN {} ELSE Stated(f[k - 1], explicit[k])]
<1>1. N \in Nat /\ DOMAIN explicit = 1 .. N
  BY DEF RepealsTypeOK
<1>2. step \in [1 .. N -> [V -> V]]
  <2>1. \A k \in 1 .. N : \A R \in V : Stated(R, explicit[k]) \in V
    BY <1>1, StatedIs
  <2> HIDE DEF N, V
  <2>2. \A k \in 1 .. N : [R \in V |-> Stated(R, explicit[k])] \in [V -> V]
    BY <2>1
  <2> QED
    BY <2>2, Zenon
<1>3. PICK f \in [0 .. N -> V] : f[0] = {} /\ \A k \in 1 .. N : f[k] = step[k][f[k - 1]]
  <2>1. {} \in V
    OBVIOUS
  <2> HIDE DEF N, step, V
  <2>2. Runs(N, V, {}, step)
    BY <1>1, <1>2, <2>1, StepByStep
  <2> QED
    BY <2>2 DEF Runs
<1>4. \A k \in 1 .. N : f[k] = Stated(f[k - 1], explicit[k])
  <2>1. \A k \in 1 .. N : k - 1 \in 0 .. N
    BY <1>1
  <2> QED
    BY <1>3, <2>1
<1>5. f = [k \in 0 .. N |-> IF k = 0 THEN {} ELSE Stated(f[k - 1], explicit[k])]
  <2> HIDE DEF N, step, V
  <2>1. \A k \in 0 .. N : k # 0 => k \in 1 .. N
    BY <1>1
  <2>2. \A k \in 0 .. N : f[k] = IF k = 0 THEN {} ELSE Stated(f[k - 1], explicit[k])
    BY <1>3, <1>4, <2>1
  <2> QED
    BY <1>3, <2>2
<1>6. F = [k \in 0 .. N |-> IF k = 0 THEN {} ELSE Stated(F[k - 1], explicit[k])]
  BY <1>5
<1>7. Explicit = F[N]
  BY DEF Explicit
<1> HIDE DEF F
<1>8. F[0] = {} /\ \A k \in 1 .. N : F[k] = Stated(F[k - 1], explicit[k])
  <2> HIDE DEF N
  <2>1. \A k \in 0 .. N : F[k] = IF k = 0 THEN {} ELSE Stated(F[k - 1], explicit[k])
    BY <1>6, Zenon
  <2>2. 0 \in 0 .. N /\ \A k \in 1 .. N : k \in 0 .. N /\ k # 0
    BY <1>1
  <2> QED
    BY <2>1, <2>2, Zenon
<1> DEFINE S == {k \in 0 .. N : StatedUpTo(F[k], k)}
<1>9. 0 \in S
  BY <1>1, <1>8 DEF StatedUpTo, OneEach
<1>10. ASSUME NEW k \in 0 .. N - 1, k \in S PROVE k + 1 \in S
  <2>1. k + 1 \in 1 .. N /\ (k + 1) - 1 = k /\ k + 1 \in 0 .. N
    BY <1>1
  <2>2. F[k + 1] = Stated(F[k], explicit[k + 1])
    BY <1>8, <2>1
  <2>3. StatedUpTo(F[k], (k + 1) - 1)
    BY <1>10, <2>1
  <2>4. StatedUpTo(Stated(F[k], explicit[k + 1]), k + 1)
    BY <1>1, <2>1, <2>3, StatedKeepsEarliest
  <2> QED
    BY <2>1, <2>2, <2>4
<1>11. N \in S
  <2> HIDE DEF S, N
  <2>1. \A k \in 0 .. N : k \in S
    BY <1>1, <1>9, <1>10, CountingUp
  <2> QED
    BY <1>1, <2>1
<1> QED
  BY <1>7, <1>11

-----------------------------------------------------------------------------
(* Repeals that each have a reason, and all that was said among them.      *)
Reasoned(R) ==
  /\ R \subseteq AllRepeals /\ OneEach(R)
  /\ \A r \in R :
       IF r.rule = "explicit"
       THEN /\ \E j \in DOMAIN explicit :
                 Says(explicit[j], r.number) /\ explicit[j].on = r.on /\ explicit[j].by = r.by
            /\ \A j \in DOMAIN explicit :
                          Says(explicit[j], r.number) => r.on <= explicit[j].on
       ELSE /\ \A j \in DOMAIN explicit : ~Says(explicit[j], r.number)
            /\ r.number \in ToSet(titles)
            /\ r.by \in ToSet(Parents(r.number)) /\ TakesAlong(R, r.by, r.number)
            /\ r.on = RepealOf(R, r.by).on
  /\ \A j \in DOMAIN explicit : explicit[j].target # explicit[j].by => Ended(R, explicit[j].target)

LEMMA RepealIs ==
  ASSUME NEW R, OneEach(R), NEW r \in R
  PROVE  RepealOf(R, r.number) = r
<1>1. \E x \in R : x.number = r.number
  OBVIOUS
<1>2. RepealOf(R, r.number) \in R /\ RepealOf(R, r.number).number = r.number
  BY <1>1 DEF RepealOf
<1> QED
  BY <1>2 DEF OneEach

(* What ended a document in fewer repeals ends it in more.                 *)
LEMMA TakesAlongGrows ==
  ASSUME NEW R, NEW Q, R \subseteq Q, OneEach(Q), NEW p, NEW n, Ended(R, p)
  PROVE  RepealOf(Q, p) = RepealOf(R, p) /\ TakesAlong(Q, p, n) = TakesAlong(R, p, n)
<1>1. PICK r \in R : r.number = p
  BY DEF Ended
<1>2. OneEach(R)
  BY DEF OneEach
<1>3. RepealOf(R, p) = r /\ RepealOf(Q, p) = r
  BY <1>1, <1>2, RepealIs
<1> QED
  BY <1>1, <1>3 DEF TakesAlong, Ended

LEMMA PlacesOfParents ==
  ASSUME RepealsTypeOK, NEW n \in DOMAIN TitleOf
  PROVE  \E m \in Nat : DOMAIN Parents(n) \subseteq 1 .. m
<1> DEFINE c == Len(TitleOf[n].cited)
           named == IF TitleOf[n].rule = "guidance" THEN Named(n) ELSE {}
<1>1. c \in Nat /\ DOMAIN TitleOf[n].cited = 1 .. c
  BY RepealsAssumption
<1>2. named \subseteq 1 .. Len(titles) /\ Len(titles) \in Nat
  <2>1. Named(n) \subseteq DOMAIN titles
    BY DEF Named, FirstOfLaw
  <2>2. DOMAIN titles = 1 .. Len(titles) /\ Len(titles) \in Nat
    BY DEF RepealsTypeOK
  <2> QED
    BY <2>1, <2>2
<1>3. DOMAIN Parents(n) = 1 .. c \cup {c + k : k \in named}
  <2>1. DOMAIN Parents(n) = DOMAIN TitleOf[n].cited \cup {c + k : k \in named}
    BY DEF Parents
  <2> QED
    BY <1>1, <2>1
<1> HIDE DEF c, named
<1>4. DOMAIN Parents(n) \subseteq 1 .. c + Len(titles)
  BY <1>1, <1>2, <1>3
<1> QED
  BY <1>1, <1>2, <1>4

(* What a document is inferred from, if anything.                          *)
LEMMA InferIs ==
  ASSUME RepealsTypeOK, NEW R, NEW n \in DOMAIN TitleOf
  PROVE  \/ /\ Infer(R, n) = R
            /\ \/ Ended(R, n) \/ TitleOf[n].rule = "none"
               \/ \A i \in DOMAIN Parents(n) : ~TakesAlong(R, Parents(n)[i], n)
         \/ \E p \in ToSet(Parents(n)) :
              /\ ~Ended(R, n) /\ TitleOf[n].rule # "none" /\ TakesAlong(R, p, n)
              /\ Infer(R, n) = R \cup {[number |-> n, on |-> RepealOf(R, p).on,
                                        rule |-> TitleOf[n].rule, by |-> p]}
<1> DEFINE parents == Parents(n)
           ended == {i \in DOMAIN parents : TakesAlong(R, parents[i], n)}
<1>1. CASE Ended(R, n) \/ TitleOf[n].rule = "none" \/ ended = {}
  BY <1>1 DEF Infer
<1>2. CASE ~(Ended(R, n) \/ TitleOf[n].rule = "none" \/ ended = {})
  <2>1. PICK m \in Nat : DOMAIN parents \subseteq 1 .. m
    BY PlacesOfParents
  <2>2. PICK i \in ended : \A j \in ended : i <= j
    <3>1. ended \in SUBSET (1 .. m) /\ ended # {}
      BY <1>2, <2>1
    <3> HIDE DEF ended
    <3> QED
      BY <2>1, <3>1, Least
  <2>3. Min(ended) \in ended
    BY <2>2 DEF Min
  <2>4. parents[Min(ended)] \in ToSet(parents)
    BY <2>3 DEF ToSet
  <2>5. TakesAlong(R, parents[Min(ended)], n)
    BY <2>3
  <2> QED
    BY <1>2, <2>4, <2>5 DEF Infer
<1> QED
  BY <1>1, <1>2

(* A document of a round keeps the reasons, and drops no repeal.           *)
LEMMA InferKeepsReasons ==
  ASSUME RepealsTypeOK, NEW R, Reasoned(R), NEW n \in ToSet(titles)
  PROVE  Reasoned(Infer(R, n)) /\ R \subseteq Infer(R, n)
<1>1. n \in DOMAIN TitleOf /\ n \in Numbers
  BY RepealsAssumption DEF RepealsTypeOK, ToSet
<1>2. CASE Infer(R, n) = R
  BY <1>2
<1>3. ASSUME NEW p \in ToSet(Parents(n)), ~Ended(R, n), TitleOf[n].rule # "none",
             TakesAlong(R, p, n)
      PROVE  Reasoned(R \cup {[number |-> n, on |-> RepealOf(R, p).on,
                               rule |-> TitleOf[n].rule, by |-> p]})
  <2> DEFINE new == [number |-> n, on |-> RepealOf(R, p).on, rule |-> TitleOf[n].rule, by |-> p]
             Q == R \cup {new}
  <2>1. PICK x \in R : x.number = p
    BY <1>3 DEF TakesAlong, Ended
  <2>2. RepealOf(R, p) = x /\ x \in AllRepeals
    BY <2>1, RepealIs DEF Reasoned
  <2>3. new \in AllRepeals /\ new.rule # "explicit"
    BY <1>1, <1>3, <2>1, <2>2, RepealsAssumption DEF AllRepeals, Rules
  <2>4. new.number = n /\ new.by = p /\ new.on = RepealOf(R, p).on
    OBVIOUS
  <2> HIDE DEF new
  <2>5. OneEach(Q)
    BY <1>3, <2>4 DEF Reasoned, OneEach, Ended
  <2>6. \A q, m : Ended(R, q) =>
          RepealOf(Q, q) = RepealOf(R, q) /\ TakesAlong(Q, q, m) = TakesAlong(R, q, m)
    BY <2>5, TakesAlongGrows
  <2>7. \A j \in DOMAIN explicit : ~Says(explicit[j], n)
    BY <1>3 DEF Reasoned, Says
  <2>8. ASSUME NEW r \in R, r.rule # "explicit"
        PROVE  TakesAlong(Q, r.by, r.number) /\ r.on = RepealOf(Q, r.by).on
    <3>1. TakesAlong(R, r.by, r.number) /\ r.on = RepealOf(R, r.by).on
      BY <2>8 DEF Reasoned
    <3>2. Ended(R, r.by)
      BY <3>1 DEF TakesAlong
    <3> QED
      BY <2>6, <3>1, <3>2
  <2>9. TakesAlong(Q, p, n) /\ new.on = RepealOf(Q, p).on
    BY <1>3, <2>4, <2>6 DEF TakesAlong
  <2>10. \A q : Ended(R, q) => Ended(Q, q)
    BY DEF Ended
  <2>11. Q \subseteq AllRepeals
    BY <2>3 DEF Reasoned
  <2>12. ASSUME NEW r \in Q
         PROVE  IF r.rule = "explicit"
                THEN /\ \E j \in DOMAIN explicit :
                          /\ Says(explicit[j], r.number)
                          /\ explicit[j].on = r.on /\ explicit[j].by = r.by
                     /\ \A j \in DOMAIN explicit :
                          Says(explicit[j], r.number) => r.on <= explicit[j].on
                ELSE /\ \A j \in DOMAIN explicit : ~Says(explicit[j], r.number)
                     /\ r.number \in ToSet(titles)
                     /\ r.by \in ToSet(Parents(r.number)) /\ TakesAlong(Q, r.by, r.number)
                     /\ r.on = RepealOf(Q, r.by).on
    <3>1. CASE r = new
      BY <1>3, <2>3, <2>4, <2>7, <2>9, <3>1
    <3>2. CASE r \in R
      BY <2>8, <3>2 DEF Reasoned
    <3> QED
      BY <3>1, <3>2
  <2>13. \A j \in DOMAIN explicit :
           explicit[j].target # explicit[j].by => Ended(Q, explicit[j].target)
    BY <2>10 DEF Reasoned
  <2>14. Reasoned(Q)
    BY <2>5, <2>11, <2>12, <2>13 DEF Reasoned
  <2> QED
    BY <2>14 DEF new
<1>4. CASE \E p \in ToSet(Parents(n)) :
             /\ ~Ended(R, n) /\ TitleOf[n].rule # "none" /\ TakesAlong(R, p, n)
             /\ Infer(R, n) = R \cup {[number |-> n, on |-> RepealOf(R, p).on,
                                       rule |-> TitleOf[n].rule, by |-> p]}
  BY <1>3, <1>4
<1> QED
  BY <1>1, <1>2, <1>4, InferIs

(* The steps of a round, from its start to its end.                        *)
LEMMA RoundIs ==
  ASSUME RepealsTypeOK, NEW R, Reasoned(R)
  PROVE  \E f : /\ f[0] = R /\ f[Len(titles)] = Round(R)
                /\ \A k \in 1 .. Len(titles) : f[k] = Infer(f[k - 1], titles[k])
                /\ \A k \in 0 .. Len(titles) : Reasoned(f[k])
<1> DEFINE N == Len(titles)
           V == {Q \in SUBSET AllRepeals : Reasoned(Q)}
           step == [k \in 1 .. N |-> [Q \in V |-> Infer(Q, titles[k])]]
           F == CHOOSE f : f = [k \in 0 .. N |-> IF k = 0 THEN R ELSE Infer(f[k - 1], titles[k])]
<1>1. N \in Nat /\ \A k \in 1 .. N : titles[k] \in ToSet(titles)
  BY DEF RepealsTypeOK, ToSet
<1>2. R \in V
  BY DEF Reasoned
<1>3. step \in [1 .. N -> [V -> V]]
  <2>1. \A k \in 1 .. N : \A Q \in V : Infer(Q, titles[k]) \in V
    <3>1. \A k \in 1 .. N : \A Q \in V : Reasoned(Infer(Q, titles[k]))
      BY <1>1, InferKeepsReasons
    <3> QED
      BY <3>1 DEF Reasoned
  <2> HIDE DEF N, V
  <2>2. \A k \in 1 .. N : [Q \in V |-> Infer(Q, titles[k])] \in [V -> V]
    BY <2>1
  <2> QED
    BY <2>2, Zenon
<1>4. PICK f \in [0 .. N -> V] : f[0] = R /\ \A k \in 1 .. N : f[k] = step[k][f[k - 1]]
  <2> HIDE DEF N, step, V
  <2>1. Runs(N, V, R, step)
    BY <1>1, <1>2, <1>3, StepByStep
  <2> QED
    BY <2>1 DEF Runs
<1>5. \A k \in 1 .. N : f[k] = Infer(f[k - 1], titles[k])
  <2>1. \A k \in 1 .. N : k - 1 \in 0 .. N
    BY <1>1
  <2> QED
    BY <1>4, <2>1
<1>6. f = [k \in 0 .. N |-> IF k = 0 THEN R ELSE Infer(f[k - 1], titles[k])]
  <2> HIDE DEF N, step, V
  <2>1. \A k \in 0 .. N : k # 0 => k \in 1 .. N
    BY <1>1
  <2>2. \A k \in 0 .. N : f[k] = IF k = 0 THEN R ELSE Infer(f[k - 1], titles[k])
    BY <1>4, <1>5, <2>1
  <2> QED
    BY <1>4, <2>2
<1>7. F = [k \in 0 .. N |-> IF k = 0 THEN R ELSE Infer(F[k - 1], titles[k])]
  BY <1>6
<1>8. Round(R) = F[N]
  BY DEF Round
<1> HIDE DEF F
<1>9. F[0] = R /\ \A k \in 1 .. N : F[k] = Infer(F[k - 1], titles[k])
  <2> HIDE DEF N
  <2>1. \A k \in 0 .. N : F[k] = IF k = 0 THEN R ELSE Infer(F[k - 1], titles[k])
    BY <1>7, Zenon
  <2>2. 0 \in 0 .. N /\ \A k \in 1 .. N : k \in 0 .. N /\ k # 0
    BY <1>1
  <2> QED
    BY <2>1, <2>2, Zenon
<1> DEFINE S == {k \in 0 .. N : Reasoned(F[k])}
<1>10. 0 \in S
  BY <1>1, <1>9
<1>11. ASSUME NEW k \in 0 .. N - 1, k \in S PROVE k + 1 \in S
  <2>1. k + 1 \in 1 .. N /\ (k + 1) - 1 = k /\ k + 1 \in 0 .. N
    BY <1>1
  <2>2. F[k + 1] = Infer(F[k], titles[k + 1])
    BY <1>9, <2>1
  <2> QED
    BY <1>1, <1>11, <2>1, <2>2, InferKeepsReasons
<1>12. \A k \in 0 .. N : k \in S
  <2> HIDE DEF S, N
  <2> QED
    BY <1>1, <1>10, <1>11, CountingUp
<1> QED
  BY <1>8, <1>9, <1>12

(* Every step of a round keeps the repeals it starts from, so a round that *)
(* ends as it began changed nothing on the way.                            *)
LEMMA RoundGrows ==
  ASSUME RepealsTypeOK, NEW R, Reasoned(R)
  PROVE  /\ Reasoned(Round(R)) /\ R \subseteq Round(R)
         /\ Round(R) = R => \A n \in ToSet(titles) : Infer(R, n) = R
         /\ (\A n \in ToSet(titles) : Ended(R, n)) => Round(R) = R
<1> DEFINE N == Len(titles)
<1>1. PICK f : /\ f[0] = R /\ f[N] = Round(R)
               /\ \A k \in 1 .. N : f[k] = Infer(f[k - 1], titles[k])
               /\ \A k \in 0 .. N : Reasoned(f[k])
  BY RoundIs
<1>2. N \in Nat /\ \A k \in 1 .. N : titles[k] \in ToSet(titles)
  BY DEF RepealsTypeOK, ToSet
<1>3. \A k \in 1 .. N : f[k - 1] \subseteq f[k]
  <2>1. \A k \in 1 .. N : Reasoned(f[k - 1])
    BY <1>1, <1>2
  <2> QED
    BY <1>1, <1>2, <2>1, InferKeepsReasons
<1> DEFINE S == {k \in 0 .. N : \A i \in 0 .. k : f[i] \subseteq f[k]}
<1>4. \A k \in 0 .. N : k \in S
  <2>1. 0 \in S
    BY <1>2
  <2>2. ASSUME NEW k \in 0 .. N - 1, k \in S PROVE k + 1 \in S
    <3>1. k + 1 \in 1 .. N /\ (k + 1) - 1 = k /\ k + 1 \in 0 .. N
      BY <1>2
    <3>2. f[k] \subseteq f[k + 1]
      BY <1>3, <3>1
    <3>3. \A i \in 0 .. k + 1 : i \in 0 .. k \/ i = k + 1
      BY <1>2
    <3> QED
      BY <2>2, <3>1, <3>2, <3>3
  <2> HIDE DEF S, N
  <2> QED
    BY <1>2, <2>1, <2>2, CountingUp
<1>5. R \subseteq Round(R)
  BY <1>1, <1>2, <1>4
<1>6. ASSUME Round(R) = R, NEW n \in ToSet(titles) PROVE Infer(R, n) = R
  <2>1. PICK k \in 1 .. N : titles[k] = n
    BY DEF RepealsTypeOK, ToSet
  <2>2. k - 1 \in 0 .. N /\ k \in 0 .. N /\ 0 \in 0 .. N /\ N \in 0 .. N
    BY <1>2
  <2>3. 0 \in 0 .. k - 1 /\ 0 \in 0 .. k /\ k - 1 \in 0 .. N /\ k \in 0 .. N
    BY <1>2
  <2>4. R \subseteq f[k - 1] /\ R \subseteq f[k] /\ f[k - 1] \subseteq f[N] /\ f[k] \subseteq f[N]
    <3> HIDE DEF N
    <3>1. \A j \in 0 .. N : \A i \in 0 .. j : f[i] \subseteq f[j]
      BY <1>4
    <3> QED
      BY <1>1, <2>2, <2>3, <3>1
  <2>5. f[k - 1] = R /\ f[k] = R
    BY <1>1, <1>6, <2>4
  <2> QED
    BY <1>1, <2>1, <2>5
<1>7. ASSUME \A n \in ToSet(titles) : Ended(R, n) PROVE Round(R) = R
  <2> DEFINE T == {k \in 0 .. N : f[k] = R}
  <2>1. 0 \in T
    BY <1>1, <1>2
  <2>2. ASSUME NEW k \in 0 .. N - 1, k \in T PROVE k + 1 \in T
    <3>1. k + 1 \in 1 .. N /\ (k + 1) - 1 = k /\ k + 1 \in 0 .. N
      BY <1>2
    <3>2. f[k + 1] = Infer(R, titles[k + 1])
      BY <1>1, <2>2, <3>1
    <3>3. Ended(R, titles[k + 1])
      BY <1>2, <1>7, <3>1
    <3>4. Infer(R, titles[k + 1]) = R
      BY <3>3 DEF Infer
    <3> QED
      BY <3>1, <3>2, <3>4
  <2>3. N \in T
    <3> HIDE DEF T, N
    <3>1. \A k \in 0 .. N : k \in T
      BY <1>2, <2>1, <2>2, CountingUp
    <3> QED
      BY <1>2, <3>1
  <2> QED
    BY <1>1, <2>3
<1>8. Reasoned(Round(R))
  BY <1>1, <1>2
<1> QED
  BY <1>5, <1>6, <1>7, <1>8

(* The documents of the corpus that ended.                                 *)
EndedTitles(R) == {n \in ToSet(titles) : Ended(R, n)}

(* A round that changes the repeals ends a document of the corpus.         *)
LEMMA RoundEndsMore ==
  ASSUME RepealsTypeOK, NEW R, Reasoned(R), Round(R) # R
  PROVE  /\ EndedTitles(R) \subseteq EndedTitles(Round(R))
         /\ EndedTitles(R) # EndedTitles(Round(R))
<1> DEFINE Q == Round(R)
<1>1. Reasoned(Q) /\ R \subseteq Q
  BY RoundGrows
<1> HIDE DEF Q
<1>2. PICK r \in Q : r \notin R
  BY <1>1 DEF Q
<1>3. ~Ended(R, r.number)
  BY <1>1, <1>2 DEF Ended, Reasoned, OneEach
<1>4. r.rule # "explicit"
  <2> SUFFICES ASSUME r.rule = "explicit" PROVE FALSE
    OBVIOUS
  <2>1. PICK j \in DOMAIN explicit : Says(explicit[j], r.number) /\ explicit[j].by = r.by
    BY <1>1, <1>2 DEF Reasoned
  <2>2. explicit[j].target = r.number /\ explicit[j].target # explicit[j].by
    BY <2>1 DEF Says
  <2> QED
    BY <1>3, <2>2 DEF Reasoned
<1>5. r.number \in ToSet(titles)
  BY <1>1, <1>2, <1>4 DEF Reasoned
<1>6. Ended(Q, r.number)
  BY <1>2 DEF Ended
<1>7. \A n : Ended(R, n) => Ended(Q, n)
  BY <1>1 DEF Ended
<1>8. EndedTitles(R) \subseteq EndedTitles(Q) /\ EndedTitles(R) # EndedTitles(Q)
  BY <1>3, <1>5, <1>6, <1>7 DEF EndedTitles
<1> QED
  BY <1>8 DEF Q

LEMMA TitlesAreFew ==
  ASSUME RepealsTypeOK
  PROVE  /\ IsFiniteSet(ToSet(titles)) /\ Cardinality(ToSet(titles)) <= Len(titles)
         /\ Cardinality(ToSet(titles)) \in Nat
<1>1. DOMAIN titles = 1 .. Len(titles) /\ Len(titles) \in Nat
  BY DEF RepealsTypeOK
<1>2. IsFiniteSet(DOMAIN titles) /\ Cardinality(DOMAIN titles) = Len(titles)
  <2>1. \A m \in Nat : IsFiniteSet(1 .. m) /\ Cardinality(1 .. m) = m
    BY FS_Interval
  <2> QED
    BY <1>1, <2>1
<1>3. ToSet(titles) = {titles[x] : x \in DOMAIN titles}
  BY DEF ToSet
<1>4. IsFiniteSet(ToSet(titles)) /\ Cardinality(ToSet(titles)) <= Len(titles)
  BY <1>2, <1>3, ValuesAreFew
<1> QED
  BY <1>4, FS_CardinalityType

(* The rounds suffice: after as many as there are titles another one would *)
(* change nothing, for each that did had ended a title.                    *)
LEMMA RoundsSuffice ==
  ASSUME RepealsTypeOK, NEW R, Reasoned(R)
  PROVE  Reasoned(InferRepeals(R)) /\ Round(InferRepeals(R)) = InferRepeals(R)
<1> DEFINE N == Len(titles)
           V == {Q \in SUBSET AllRepeals : Reasoned(Q)}
           step == [k \in 1 .. N |-> [Q \in V |-> Round(Q)]]
           F == CHOOSE f : f = [i \in 0 .. N |-> IF i = 0 THEN R ELSE Round(f[i - 1])]
<1>1. N \in Nat /\ R \in V
  BY DEF RepealsTypeOK, Reasoned
<1>2. step \in [1 .. N -> [V -> V]]
  <2>1. \A Q \in V : Round(Q) \in V
    <3>1. \A Q \in V : Reasoned(Round(Q))
      BY RoundGrows
    <3> QED
      BY <3>1 DEF Reasoned
  <2> HIDE DEF N, V
  <2>2. [Q \in V |-> Round(Q)] \in [V -> V]
    BY <2>1
  <2> QED
    BY <2>2, Zenon
<1>3. PICK f \in [0 .. N -> V] : f[0] = R /\ \A k \in 1 .. N : f[k] = step[k][f[k - 1]]
  <2> HIDE DEF N, step, V
  <2>1. Runs(N, V, R, step)
    BY <1>1, <1>2, StepByStep
  <2> QED
    BY <2>1 DEF Runs
<1>4. \A k \in 1 .. N : f[k] = Round(f[k - 1])
  <2>1. \A k \in 1 .. N : k - 1 \in 0 .. N
    BY <1>1
  <2> HIDE DEF N, V
  <2> QED
    BY <1>3, <2>1
<1>5. f = [i \in 0 .. N |-> IF i = 0 THEN R ELSE Round(f[i - 1])]
  <2> HIDE DEF N, step, V
  <2>1. \A k \in 0 .. N : k # 0 => k \in 1 .. N
    BY <1>1
  <2>2. \A k \in 0 .. N : f[k] = IF k = 0 THEN R ELSE Round(f[k - 1])
    BY <1>3, <1>4, <2>1
  <2> QED
    BY <1>3, <2>2
<1>6. F = [i \in 0 .. N |-> IF i = 0 THEN R ELSE Round(F[i - 1])]
  BY <1>5
<1>7. InferRepeals(R) = F[N]
  BY DEF InferRepeals
<1> HIDE DEF F
<1>8. F[0] = R /\ \A k \in 1 .. N : F[k] = Round(F[k - 1])
  <2> HIDE DEF N
  <2>1. \A k \in 0 .. N : F[k] = IF k = 0 THEN R ELSE Round(F[k - 1])
    BY <1>6, Zenon
  <2>2. 0 \in 0 .. N /\ \A k \in 1 .. N : k \in 0 .. N /\ k # 0
    BY <1>1
  <2> QED
    BY <2>1, <2>2, Zenon
<1>9. \A Q : IsFiniteSet(EndedTitles(Q)) /\ Cardinality(EndedTitles(Q)) \in Nat
  <2>1. \A Q : EndedTitles(Q) \in SUBSET ToSet(titles)
    BY DEF EndedTitles
  <2> QED
    BY <2>1, TitlesAreFew, FS_Subset, FS_CardinalityType
<1> DEFINE S == {k \in 0 .. N : /\ Reasoned(F[k])
                                /\ Round(F[k]) = F[k] \/ Cardinality(EndedTitles(F[k])) >= k}
<1>10. 0 \in S
  BY <1>1, <1>8, <1>9
<1>11. ASSUME NEW k \in 0 .. N - 1, k \in S PROVE k + 1 \in S
  <2>1. k + 1 \in 1 .. N /\ (k + 1) - 1 = k /\ k + 1 \in 0 .. N /\ k \in Nat
    BY <1>1
  <2>2. F[k + 1] = Round(F[k])
    BY <1>8, <2>1
  <2>3. Reasoned(F[k + 1])
    BY <1>11, <2>2, RoundGrows
  <2>4. CASE Round(F[k]) = F[k]
    BY <2>1, <2>2, <2>3, <2>4
  <2>5. CASE Round(F[k]) # F[k]
    <3>1. Cardinality(EndedTitles(F[k])) >= k
      BY <1>11, <2>5
    <3>2. /\ EndedTitles(F[k]) \subseteq EndedTitles(F[k + 1])
          /\ EndedTitles(F[k]) # EndedTitles(F[k + 1])
      BY <1>11, <2>2, <2>5, RoundEndsMore
    <3>3. /\ Cardinality(EndedTitles(F[k])) <= Cardinality(EndedTitles(F[k + 1]))
          /\ Cardinality(EndedTitles(F[k])) # Cardinality(EndedTitles(F[k + 1]))
      BY <1>9, <3>2, FS_Subset
    <3>4. Cardinality(EndedTitles(F[k + 1])) >= k + 1
      BY <1>9, <2>1, <3>1, <3>3
    <3> QED
      BY <2>1, <2>3, <3>4
  <2> QED
    BY <2>4, <2>5
<1>12. N \in S
  <2> HIDE DEF S, N
  <2>1. \A k \in 0 .. N : k \in S
    BY <1>1, <1>10, <1>11, CountingUp
  <2> QED
    BY <1>1, <2>1
<1>13. CASE Round(F[N]) # F[N]
  <2> DEFINE Q == F[N]
  <2>1. Cardinality(EndedTitles(Q)) >= N /\ Reasoned(Q)
    BY <1>12, <1>13
  <2>2. EndedTitles(Q) \in SUBSET ToSet(titles)
    BY DEF EndedTitles
  <2>3. EndedTitles(Q) = ToSet(titles)
    <3>1. Cardinality(EndedTitles(Q)) = Cardinality(ToSet(titles))
      <4>1. Cardinality(EndedTitles(Q)) <= Cardinality(ToSet(titles))
        BY <2>2, TitlesAreFew, FS_Subset
      <4> QED
        BY <1>1, <1>9, <2>1, <4>1, TitlesAreFew
    <3> QED
      BY <2>2, <3>1, TitlesAreFew, FS_Subset
  <2>4. \A n \in ToSet(titles) : Ended(Q, n)
    BY <2>3 DEF EndedTitles
  <2> HIDE DEF Q
  <2>5. Round(Q) = Q
    BY <2>1, <2>4, RoundGrows
  <2> QED
    BY <1>13, <2>5 DEF Q
<1> QED
  BY <1>7, <1>12, <1>13

(* What is said to be repealed and what follows from it: infer_repeals.    *)
LEMMA RepealsHaveReasons == RepealsTypeOK => RepealsAreJustified
<1> SUFFICES ASSUME RepealsTypeOK PROVE RepealsAreJustified
  OBVIOUS
<1> DEFINE R == InferRepeals(Explicit)
           said(n) == {s \in ToSet(explicit) : s.target = n /\ s.by # n}
<1>1. DOMAIN explicit = 1 .. Len(explicit)
  BY DEF RepealsTypeOK
<1>2. Reasoned(Explicit)
  BY <1>1, ExplicitIs DEF StatedUpTo, Reasoned
<1>3. Reasoned(R) /\ Round(R) = R
  BY <1>2, RoundsSuffice
<1>4. \A n \in ToSet(titles) : Infer(R, n) = R
  BY <1>3, RoundGrows
<1> HIDE DEF R
<1>5. \A n : said(n) = {explicit[j] : j \in {i \in DOMAIN explicit : Says(explicit[i], n)}}
  BY DEF ToSet, Says
<1> HIDE DEF said
<1>6. ASSUME NEW r \in R
      PROVE  /\ \A x \in R : x.number = r.number => x = r
             /\ r.rule = "explicit" => /\ \E s \in said(r.number) : s.on = r.on /\ s.by = r.by
                                       /\ \A s \in said(r.number) : r.on <= s.on
             /\ r.rule # "explicit" =>
                  /\ said(r.number) = {}
                  /\ r.by \in ToSet(Parents(r.number)) /\ TakesAlong(R, r.by, r.number)
                  /\ r.on = RepealOf(R, r.by).on
  <2>1. \A x \in R : x.number = r.number => x = r
    BY <1>3 DEF Reasoned, OneEach
  <2>2. CASE r.rule = "explicit"
    <3>1. \E j \in DOMAIN explicit :
            Says(explicit[j], r.number) /\ explicit[j].on = r.on /\ explicit[j].by = r.by
      BY <1>3, <2>2 DEF Reasoned
    <3>2. \A j \in DOMAIN explicit : Says(explicit[j], r.number) => r.on <= explicit[j].on
      BY <1>3, <2>2 DEF Reasoned
    <3> QED
      BY <1>5, <2>1, <2>2, <3>1, <3>2
  <2>3. CASE r.rule # "explicit"
    <3>1. \A j \in DOMAIN explicit : ~Says(explicit[j], r.number)
      BY <1>3, <2>3 DEF Reasoned
    <3>2. /\ r.by \in ToSet(Parents(r.number)) /\ TakesAlong(R, r.by, r.number)
          /\ r.on = RepealOf(R, r.by).on
      BY <1>3, <2>3 DEF Reasoned
    <3> QED
      BY <1>5, <2>1, <2>3, <3>1, <3>2
  <2> QED
    BY <2>2, <2>3
<1>7. ASSUME NEW n \in ToSet(titles), ~Ended(R, n)
      PROVE  /\ said(n) = {}
             /\ TitleOf[n].rule = "none"
                \/ \A i \in DOMAIN Parents(n) : ~TakesAlong(R, Parents(n)[i], n)
  <2>1. n \in DOMAIN TitleOf
    BY DEF RepealsTypeOK, ToSet
  <2>2. said(n) = {}
    <3>1. \A j \in DOMAIN explicit : ~Says(explicit[j], n)
      BY <1>3, <1>7 DEF Reasoned, Says
    <3> QED
      BY <1>5, <3>1
  <2>3. ASSUME NEW p, TakesAlong(R, p, n),
               Infer(R, n) = R \cup {[number |-> n, on |-> RepealOf(R, p).on,
                                      rule |-> TitleOf[n].rule, by |-> p]}
        PROVE  FALSE
    <3> DEFINE new == [number |-> n, on |-> RepealOf(R, p).on, rule |-> TitleOf[n].rule, by |-> p]
    <3>1. new \in R
      BY <1>4, <2>3
    <3>2. new.number = n
      OBVIOUS
    <3> HIDE DEF new
    <3> QED
      BY <1>7, <3>1, <3>2 DEF Ended
  <2> QED
    BY <1>7, <2>1, <2>2, <2>3, InferIs
<1>8. ASSUME NEW on \in DOMAIN YearOn, NEW n \in EndedDocuments(R, on, {"explicit"})
      PROVE  \E s \in ToSet(explicit) : s.target = n /\ s.on <= on
  <2>1. PICK r \in R : r.rule = "explicit" /\ r.on <= on /\ r.number = n
    BY DEF EndedDocuments
  <2>2. PICK j \in DOMAIN explicit : Says(explicit[j], n) /\ explicit[j].on = r.on
    BY <1>3, <2>1 DEF Reasoned
  <2>3. explicit[j] \in ToSet(explicit)
    BY DEF ToSet
  <2> QED
    BY <2>1, <2>2, <2>3 DEF Says
<1> QED
  BY <1>6, <1>7, <1>8 DEF RepealsAreJustified, R, said

(* Type correctness of the corpus and of what its documents say.           *)
LEMMA RepealsTyped == RepealsSpec => []RepealsTypeOK
<1>1. RepealsInit => RepealsTypeOK
  BY DEF RepealsInit, RepealsTypeOK
<1>2. RepealsTypeOK /\ [RepealsNext]_repealVars => RepealsTypeOK'
  <2> SUFFICES ASSUME RepealsTypeOK, [RepealsNext]_repealVars PROVE RepealsTypeOK'
    OBVIOUS
  <2>1. CASE AddTitle
    BY <2>1 DEF AddTitle, RepealsTypeOK
  <2>2. CASE AddStatement
    BY <2>2 DEF AddStatement, RepealsTypeOK
  <2>3. CASE UNCHANGED repealVars
    BY <2>3 DEF repealVars, RepealsTypeOK
  <2> QED
    BY <2>1, <2>2, <2>3 DEF RepealsNext
<1> QED
  BY <1>1, <1>2, PTL DEF RepealsSpec

(* infer_repeals, whatever the corpus and the statements: each end has its *)
(* reason, the rounds reach every document a rule reaches.                 *)
THEOREM RepealsAreJustifiedAlways == RepealsSpec => []RepealsAreJustified
  BY RepealsTyped, RepealsHaveReasons, PTL

-----------------------------------------------------------------------------
(* Word 97: fields and their codes.                                        *)
Marks == {"begin", "separator", "end", "letter"}

LEMMA HeightIs ==
  ASSUME NEW r \in Seq(Marks)
  PROVE  /\ Height(r, 0) = 0
         /\ \A i \in 0 .. Len(r) : Height(r, i) \in Int
         /\ \A i \in 1 .. Len(r) :
              Height(r, i) = Height(r, i - 1) + (IF r[i] = "begin" THEN 1
                                                 ELSE IF r[i] = "end" THEN -1 ELSE 0)
<1> DEFINE B == {j \in 1 .. Len(r) : r[j] = "begin"}
           E == {j \in 1 .. Len(r) : r[j] = "end"}
           b(m) == Cardinality({j \in 1 .. m : j \in B})
           e(m) == Cardinality({j \in 1 .. m : j \in E})
<1>1. Len(r) \in Nat
  OBVIOUS
<1>2. ASSUME NEW i \in 0 .. Len(r) PROVE Height(r, i) = b(i) - e(i)
  <2>1. {j \in 1 .. i : r[j] = "begin"} = {j \in 1 .. i : j \in B}
    BY <1>1
  <2>2. {j \in 1 .. i : r[j] = "end"} = {j \in 1 .. i : j \in E}
    BY <1>1
  <2> QED
    BY <2>1, <2>2 DEF Height
<1>3. \A i \in Nat : /\ b(i) \in Nat /\ b(0) = 0
                     /\ b(i + 1) = b(i) + (IF i + 1 \in B THEN 1 ELSE 0)
  <2> HIDE DEF B
  <2> QED
    BY CountingOn
<1>4. \A i \in Nat : /\ e(i) \in Nat /\ e(0) = 0
                     /\ e(i + 1) = e(i) + (IF i + 1 \in E THEN 1 ELSE 0)
  <2> HIDE DEF E
  <2> QED
    BY CountingOn
<1>5. \A i \in 1 .. Len(r) : (i \in B <=> r[i] = "begin") /\ (i \in E <=> r[i] = "end")
  OBVIOUS
<1> HIDE DEF B, E, b, e
<1>6. Height(r, 0) = 0 /\ \A i \in 0 .. Len(r) : Height(r, i) \in Int
  <2>1. 0 \in Nat /\ 0 \in 0 .. Len(r) /\ \A i \in 0 .. Len(r) : i \in Nat
    BY <1>1
  <2>2. b(0) = 0 /\ e(0) = 0
    BY <1>3, <1>4, <2>1
  <2>3. \A i \in 0 .. Len(r) : b(i) \in Nat /\ e(i) \in Nat
    BY <1>3, <1>4, <2>1
  <2>4. Height(r, 0) = b(0) - e(0)
    BY <1>2, <2>1
  <2> QED
    BY <1>2, <2>2, <2>3, <2>4
<1>7. ASSUME NEW i \in 1 .. Len(r)
      PROVE  Height(r, i) = Height(r, i - 1) + (IF r[i] = "begin" THEN 1
                                                ELSE IF r[i] = "end" THEN -1 ELSE 0)
  <2>1. i - 1 \in Nat /\ (i - 1) + 1 = i /\ i - 1 \in 0 .. Len(r) /\ i \in 0 .. Len(r)
    BY <1>1
  <2>2. b(i) = b(i - 1) + (IF r[i] = "begin" THEN 1 ELSE 0)
    BY <1>3, <1>5, <2>1
  <2>3. e(i) = e(i - 1) + (IF r[i] = "end" THEN 1 ELSE 0)
    BY <1>4, <1>5, <2>1
  <2>4. b(i - 1) \in Nat /\ e(i - 1) \in Nat
    BY <1>3, <1>4, <2>1
  <2> QED
    BY <1>2, <2>1, <2>2, <2>3, <2>4
<1> QED
  BY <1>6, <1>7

LEMMA AppendIs ==
  ASSUME NEW X, NEW r \in Seq(X), NEW c \in X
  PROVE  /\ Append(r, c) \in Seq(X) /\ Len(Append(r, c)) = Len(r) + 1
         /\ \A i \in 1 .. Len(r) : Append(r, c)[i] = r[i]
         /\ Append(r, c)[Len(r) + 1] = c
         /\ Len(r) \in Nat
  OBVIOUS

(* What was read keeps its heights.                                        *)
LEMMA HeightOfPrefix ==
  ASSUME NEW r \in Seq(Marks), NEW c \in Marks, NEW i \in 0 .. Len(r)
  PROVE  Height(Append(r, c), i) = Height(r, i)
<1>1. \A j \in 1 .. i : Append(r, c)[j] = r[j]
  OBVIOUS
<1>2. /\ {j \in 1 .. i : Append(r, c)[j] = "begin"} = {j \in 1 .. i : r[j] = "begin"}
      /\ {j \in 1 .. i : Append(r, c)[j] = "end"} = {j \in 1 .. i : r[j] = "end"}
  BY <1>1
<1> QED
  BY <1>2 DEF Height

LEMMA TextOfPrefix ==
  ASSUME NEW r \in Seq(Marks), NEW c \in Marks, NEW i \in 1 .. Len(r)
  PROVE  IsText(Append(r, c), i) = IsText(r, i)
<1> DEFINE q == Append(r, c)
<1>1. \A j \in 1 .. i : q[j] = r[j]
  OBVIOUS
<1>2. \A k \in 0 .. i : Height(q, k) = Height(r, k)
  BY HeightOfPrefix
<1> HIDE DEF q
<1>3. \A b \in 1 .. i : \A k \in b .. i : k \in 0 .. i
  OBVIOUS
<1>4. \A b \in 1 .. i : b \in 0 .. i
  OBVIOUS
<1>5. Around(q, i) = Around(r, i)
  BY <1>1, <1>2, <1>3, <1>4 DEF Around
<1> DEFINE m == Max(Around(r, i))
<1>6. CASE Around(r, i) = {}
  BY <1>5, <1>6 DEF IsText, q
<1>7. CASE Around(r, i) # {}
  <2>1. \E b \in Around(r, i) : \A j \in Around(r, i) : j <= b
    <3>1. Around(r, i) \in SUBSET (1 .. i) /\ i \in Nat
      BY DEF Around
    <3> QED
      BY <1>7, <3>1, Greatest
  <2>2. m \in Around(r, i)
    BY <2>1 DEF Max
  <2>3. m \in 1 .. i
    BY <2>2 DEF Around
  <2> HIDE DEF m
  <2>4. \A s \in m + 1 .. i : s \in 1 .. i /\ s \in 0 .. i
    BY <2>3
  <2>5. m \in 0 .. i
    BY <2>3
  <2>6. (\E s \in m + 1 .. i : q[s] = "separator" /\ Height(q, s) = Height(q, m))
          <=> \E s \in m + 1 .. i : r[s] = "separator" /\ Height(r, s) = Height(r, m)
    BY <1>1, <1>2, <2>4, <2>5
  <2> QED
    BY <1>5, <1>7, <2>6 DEF IsText, q, m
<1> QED
  BY <1>6, <1>7

(* The fields open after r: where each began, and its entry in in_code.    *)
OpenFields(r, inCode, ops) ==
  /\ ops \in [1 .. Len(inCode) -> 1 .. Len(r)]
  /\ \A d \in 1 .. Len(inCode) :
       /\ r[ops[d]] = "begin" /\ Height(r, ops[d]) = d
       /\ \A k \in ops[d] .. Len(r) : Height(r, k) >= d
       /\ inCode[d] <=> ~\E s \in ops[d] + 1 .. Len(r) : r[s] = "separator" /\ Height(r, s) = d

Nested(r) == \A i \in DOMAIN r : Height(r, i) >= 0

WordTypeOK ==
  word \in [read : Seq(Marks), inCode : Seq(BOOLEAN), output : Seq(Nat)]

FieldsInv ==
  /\ WordTypeOK
  /\ \A x \in ToSet(word.output) : x \in DOMAIN word.read
  /\ Nested(word.read) =>
       /\ Len(word.inCode) = Height(word.read, Len(word.read))
       /\ \E ops : OpenFields(word.read, word.inCode, ops)
       /\ \A i \in DOMAIN word.read :
            word.read[i] = "letter" => (i \in ToSet(word.output) <=> IsText(word.read, i))

(* Whether the innermost open field hides the next letter.                 *)
LEMMA LetterIsText ==
  ASSUME NEW r \in Seq(Marks), NEW inCode \in Seq(BOOLEAN), NEW ops,
         Len(inCode) = Height(r, Len(r)), OpenFields(r, inCode, ops), Nested(r)
  PROVE  IsText(Append(r, "letter"), Len(r) + 1) <=> (inCode = <<>> \/ ~inCode[Len(inCode)])
<1> DEFINE q == Append(r, "letter")
           n == Len(r)
           D == Len(inCode)
<1>1. /\ q \in Seq(Marks) /\ Len(q) = n + 1 /\ n \in Nat /\ D \in Nat
      /\ (\A j \in 1 .. n : q[j] = r[j]) /\ q[n + 1] = "letter"
  BY DEF Marks
<1>2. \A k \in 0 .. n : Height(q, k) = Height(r, k)
  BY HeightOfPrefix DEF Marks
<1>3. Height(q, n + 1) = D
  <2>1. Height(q, n + 1) = Height(q, n) + 0
    <3> HIDE DEF q
    <3>1. n + 1 \in 1 .. Len(q) /\ (n + 1) - 1 = n
      BY <1>1
    <3> QED
      BY <1>1, <3>1, HeightIs
  <2>2. Height(q, n) = D
    BY <1>1, <1>2
  <2> QED
    BY <1>1, <2>1, <2>2
<1> HIDE DEF q
<1>4. \A k \in 0 .. n + 1 : Height(q, k) \in Int
  BY <1>1, HeightIs
<1>5. \A b \in Around(q, n + 1) : b \in 1 .. n /\ r[b] = "begin" /\ Height(q, b) <= D
  BY <1>1, <1>3 DEF Around
<1>6. CASE D = 0
  <2>1. ASSUME NEW b \in Around(q, n + 1) PROVE FALSE
    <3>1. b \in 1 .. n /\ r[b] = "begin" /\ Height(q, b) <= 0 /\ b - 1 \in 0 .. n
      BY <1>1, <1>5, <1>6
    <3>2. Height(r, b) = Height(r, b - 1) + 1
      BY <3>1, HeightIs
    <3>3. Height(r, b - 1) >= 0
      <4>1. CASE b = 1
        BY <4>1, HeightIs
      <4>2. CASE b # 1
        <5>1. b - 1 \in DOMAIN r
          BY <1>1, <3>1, <4>2
        <5> QED
          BY <5>1 DEF Nested
      <4> QED
        BY <4>1, <4>2
    <3>4. Height(r, b - 1) \in Int /\ Height(q, b) = Height(r, b)
      BY <1>1, <1>2, <3>1, HeightIs
    <3> QED
      BY <3>1, <3>2, <3>3, <3>4
  <2>2. IsText(q, n + 1)
    BY <2>1 DEF IsText
  <2>3. inCode = <<>>
    BY <1>6
  <2> QED
    BY <2>2, <2>3 DEF q
<1>7. CASE D # 0
  <2> DEFINE o == ops[D]
  <2>1. D \in 1 .. D /\ o \in 1 .. n /\ r[o] = "begin" /\ Height(r, o) = D
    BY <1>1, <1>7 DEF OpenFields
  <2>2. \A k \in o .. n : Height(r, k) >= D
    BY <2>1 DEF OpenFields
  <2>3. inCode[D] <=> ~\E s \in o + 1 .. n : r[s] = "separator" /\ Height(r, s) = D
    BY <2>1 DEF OpenFields
  <2> HIDE DEF o
  <2>4. o \in Around(q, n + 1)
    <3>1. o \in 1 .. n + 1 /\ q[o] = "begin" /\ Height(q, o) = D
      BY <1>1, <1>2, <2>1
    <3>2. \A k \in o .. n + 1 : Height(q, k) >= D
      <4>1. \A k \in o .. n + 1 : (k \in o .. n /\ k \in 0 .. n) \/ k = n + 1
        BY <1>1, <2>1
      <4> QED
        BY <1>1, <1>2, <1>3, <2>2, <4>1
    <3> QED
      BY <3>1, <3>2 DEF Around
  <2>5. ASSUME NEW b \in Around(q, n + 1), b > o PROVE FALSE
    <3>1. /\ b \in 1 .. n /\ r[b] = "begin" /\ Height(q, b) <= D
          /\ b - 1 \in o .. n /\ b - 1 \in 0 .. n
      BY <1>1, <1>5, <2>1, <2>5
    <3>2. Height(r, b) = Height(r, b - 1) + 1
      BY <3>1, HeightIs
    <3>3. Height(r, b - 1) >= D /\ Height(r, b - 1) \in Int /\ Height(q, b) = Height(r, b)
      BY <1>1, <1>2, <2>2, <3>1, HeightIs
    <3> QED
      BY <1>1, <3>1, <3>2, <3>3
  <2>6. Max(Around(q, n + 1)) = o
    <3>1. \A b \in Around(q, n + 1) : b \in Nat /\ b <= o
      BY <1>1, <1>5, <2>1, <2>5
    <3> DEFINE m == Max(Around(q, n + 1))
    <3>2. m \in Around(q, n + 1) /\ \A b \in Around(q, n + 1) : m >= b
      BY <2>4, <3>1 DEF Max
    <3> HIDE DEF m
    <3>3. m <= o /\ m >= o /\ m \in Nat
      BY <2>4, <3>1, <3>2
    <3>4. m = o
      BY <2>1, <3>3
    <3> QED
      BY <3>4 DEF m
  <2>7. (\E s \in o + 1 .. n + 1 : q[s] = "separator" /\ Height(q, s) = Height(q, o))
          <=> \E s \in o + 1 .. n : r[s] = "separator" /\ Height(r, s) = D
    <3>1. \A s \in o + 1 .. n + 1 : (s \in o + 1 .. n /\ s \in 1 .. n /\ s \in 0 .. n) \/ s = n + 1
      BY <1>1, <2>1
    <3>2. \A s \in o + 1 .. n : s \in o + 1 .. n + 1 /\ s \in 1 .. n /\ s \in 0 .. n
      BY <1>1, <2>1
    <3>3. Height(q, o) = D
      BY <1>1, <1>2, <2>1
    <3> QED
      BY <1>1, <1>2, <3>1, <3>2, <3>3
  <2>8. IsText(q, n + 1) <=> ~inCode[D]
    BY <2>3, <2>4, <2>6, <2>7 DEF IsText
  <2> QED
    BY <1>1, <1>7, <2>8 DEF q
<1> QED
  BY <1>6, <1>7

(* The places up to n + 1 are n + 1 and those up to n.                     *)
LEMMA OneMore ==
  ASSUME NEW n \in Nat, NEW o \in 1 .. n
  PROVE  /\ \A k \in o .. n + 1 : (k \in o .. n /\ k \in 0 .. n) \/ k = n + 1
         /\ \A s \in o + 1 .. n + 1 :
              (s \in o + 1 .. n /\ s \in 1 .. n /\ s \in 0 .. n) \/ s = n + 1
         /\ \A s \in o + 1 .. n :
              s \in o + 1 .. n + 1 /\ s \in 1 .. n /\ s \in 0 .. n
         /\ n + 1 \in o + 1 .. n + 1 /\ o \in 1 .. n + 1 /\ o \in 0 .. n
  OBVIOUS

(* The fields of r are still open when c is a letter, or a mark that has   *)
(* no meaning where it stands.                                             *)
LEMMA FieldsStay ==
  ASSUME NEW r \in Seq(Marks), NEW inCode \in Seq(BOOLEAN), NEW ops, NEW c \in Marks,
         Len(inCode) = Height(r, Len(r)), OpenFields(r, inCode, ops),
         c = "letter" \/ (c = "separator" /\ inCode = <<>>)
  PROVE  /\ Height(Append(r, c), Len(r) + 1) = Len(inCode)
         /\ OpenFields(Append(r, c), inCode, ops)
<1> DEFINE q == Append(r, c)
           n == Len(r)
           D == Len(inCode)
<1>1. /\ q \in Seq(Marks) /\ Len(q) = n + 1 /\ n \in Nat /\ D \in Nat
      /\ (\A j \in 1 .. n : q[j] = r[j]) /\ q[n + 1] = c
  OBVIOUS
<1>2. \A k \in 0 .. n : Height(q, k) = Height(r, k)
  BY HeightOfPrefix
<1> HIDE DEF q
<1>3. Height(q, n + 1) = D
  <2>1. n + 1 \in 1 .. Len(q) /\ (n + 1) - 1 = n /\ n \in 0 .. n
    BY <1>1
  <2>2. Height(q, n + 1) = Height(q, n) + 0
    BY <1>1, <2>1, HeightIs
  <2> QED
    BY <1>1, <1>2, <2>1, <2>2
<1>4. ASSUME NEW d \in 1 .. D
      PROVE  /\ q[ops[d]] = "begin" /\ Height(q, ops[d]) = d
             /\ \A k \in ops[d] .. n + 1 : Height(q, k) >= d
             /\ inCode[d] <=> ~\E s \in ops[d] + 1 .. n + 1 : q[s] = "separator" /\ Height(q, s) = d
  <2> DEFINE o == ops[d]
  <2>1. o \in 1 .. n /\ r[o] = "begin" /\ Height(r, o) = d
    BY DEF OpenFields
  <2>2. \A k \in o .. n : Height(r, k) >= d
    BY DEF OpenFields
  <2>3. inCode[d] <=> ~\E s \in o + 1 .. n : r[s] = "separator" /\ Height(r, s) = d
    BY DEF OpenFields
  <2>4. c = "letter"
    BY <1>1
  <2> HIDE DEF o
  <2>5. q[o] = "begin" /\ Height(q, o) = d
    BY <1>1, <1>2, <2>1
  <2>6. \A k \in o .. n + 1 : (k \in o .. n /\ k \in 0 .. n) \/ k = n + 1
    BY <1>1, <2>1, OneMore
  <2>7. \A k \in o .. n + 1 : Height(q, k) >= d
    BY <1>1, <1>2, <1>3, <2>2, <2>6
  <2>8. \A s \in o + 1 .. n + 1 : (s \in o + 1 .. n /\ s \in 1 .. n /\ s \in 0 .. n) \/ s = n + 1
    BY <1>1, <2>1, OneMore
  <2>9. \A s \in o + 1 .. n : s \in o + 1 .. n + 1 /\ s \in 1 .. n /\ s \in 0 .. n
    BY <1>1, <2>1, OneMore
  <2>10. (\E s \in o + 1 .. n + 1 : q[s] = "separator" /\ Height(q, s) = d)
           <=> \E s \in o + 1 .. n : r[s] = "separator" /\ Height(r, s) = d
    BY <1>1, <1>2, <2>4, <2>8, <2>9
  <2> QED
    BY <2>3, <2>5, <2>7, <2>10 DEF o
<1>5. ops \in [1 .. D -> 1 .. Len(q)]
  BY <1>1 DEF OpenFields
<1> QED
  BY ZenonT(40), <1>1, <1>3, <1>4, <1>5 DEF OpenFields, q

(* A new field opens inside those of r.                                    *)
LEMMA FieldOpens ==
  ASSUME NEW r \in Seq(Marks), NEW inCode \in Seq(BOOLEAN), NEW ops,
         Len(inCode) = Height(r, Len(r)), OpenFields(r, inCode, ops)
  PROVE  /\ Height(Append(r, "begin"), Len(r) + 1) = Len(inCode) + 1
         /\ \E o : OpenFields(Append(r, "begin"), Append(inCode, TRUE), o)
<1> DEFINE q == Append(r, "begin")
           n == Len(r)
           D == Len(inCode)
           code == Append(inCode, TRUE)
           new == [d \in 1 .. D + 1 |-> IF d <= D THEN ops[d] ELSE n + 1]
<1>1. /\ q \in Seq(Marks) /\ Len(q) = n + 1 /\ n \in Nat /\ D \in Nat
      /\ (\A j \in 1 .. n : q[j] = r[j]) /\ q[n + 1] = "begin"
  BY DEF Marks
<1>2. \A k \in 0 .. n : Height(q, k) = Height(r, k)
  BY HeightOfPrefix DEF Marks
<1>3. Len(code) = D + 1 /\ (\A d \in 1 .. D : code[d] = inCode[d]) /\ code[D + 1] = TRUE
  <2> DEFINE B == BOOLEAN
             yes == TRUE
  <2>1. inCode \in Seq(B) /\ yes \in B
    OBVIOUS
  <2> HIDE DEF B, yes
  <2>2. /\ Len(Append(inCode, yes)) = D + 1
        /\ \A d \in 1 .. D : Append(inCode, yes)[d] = inCode[d]
        /\ Append(inCode, yes)[D + 1] = yes
    BY <2>1, AppendIs
  <2> QED
    BY <2>2 DEF yes
<1> HIDE DEF q, code
<1>4. Height(q, n + 1) = D + 1
  <2>1. n + 1 \in 1 .. Len(q) /\ (n + 1) - 1 = n /\ n \in 0 .. n
    BY <1>1
  <2>2. Height(q, n + 1) = Height(q, n) + 1
    BY <1>1, <2>1, HeightIs
  <2> QED
    BY <1>1, <1>2, <2>1, <2>2
<1>5. ASSUME NEW d \in 1 .. D + 1
      PROVE  /\ q[new[d]] = "begin" /\ Height(q, new[d]) = d /\ new[d] \in 1 .. n + 1
             /\ \A k \in new[d] .. n + 1 : Height(q, k) >= d
             /\ code[d] <=> ~\E s \in new[d] + 1 .. n + 1 : q[s] = "separator" /\ Height(q, s) = d
  <2>1. CASE d = D + 1
    <3>1. new[d] = n + 1
      BY <1>1, <2>1
    <3> HIDE DEF new
    <3>2. \A k \in new[d] .. n + 1 : k = n + 1
      BY <1>1, <3>1
    <3>3. \A s \in new[d] + 1 .. n + 1 : FALSE
      BY <1>1, <3>1
    <3> QED
      BY <1>1, <1>3, <1>4, <2>1, <3>1, <3>2, <3>3
  <2>2. CASE d \in 1 .. D
    <3> DEFINE o == ops[d]
    <3>1. new[d] = o
      BY <1>1, <2>2
    <3>2. o \in 1 .. n /\ r[o] = "begin" /\ Height(r, o) = d
      BY <2>2 DEF OpenFields
    <3>3. \A k \in o .. n : Height(r, k) >= d
      BY <2>2 DEF OpenFields
    <3>4. inCode[d] <=> ~\E s \in o + 1 .. n : r[s] = "separator" /\ Height(r, s) = d
      BY <2>2 DEF OpenFields
    <3> HIDE DEF o, new
    <3>5. q[o] = "begin" /\ Height(q, o) = d
      BY <1>1, <1>2, <3>2
    <3>6. \A k \in o .. n + 1 : (k \in o .. n /\ k \in 0 .. n) \/ k = n + 1
      BY <1>1, <3>2, OneMore
    <3>7. \A k \in o .. n + 1 : Height(q, k) >= d
      BY <1>1, <1>2, <1>4, <2>2, <3>3, <3>6
    <3>8. \A s \in o + 1 .. n + 1 : (s \in o + 1 .. n /\ s \in 1 .. n /\ s \in 0 .. n) \/ s = n + 1
      BY <1>1, <3>2, OneMore
    <3>9. \A s \in o + 1 .. n : s \in o + 1 .. n + 1 /\ s \in 1 .. n /\ s \in 0 .. n
      BY <1>1, <3>2, OneMore
    <3>10. (\E s \in o + 1 .. n + 1 : q[s] = "separator" /\ Height(q, s) = d)
             <=> \E s \in o + 1 .. n : r[s] = "separator" /\ Height(r, s) = d
      BY <1>1, <1>2, <3>8, <3>9
    <3>11. o \in 1 .. n + 1
      BY <1>1, <3>2
    <3> QED
      BY <1>3, <2>2, <3>1, <3>4, <3>5, <3>7, <3>10, <3>11
  <2>3. d = D + 1 \/ d \in 1 .. D
    BY <1>1
  <2> HIDE DEF new, D, q
  <2> QED
    BY <2>1, <2>2, <2>3
<1>6. new \in [1 .. D + 1 -> 1 .. n + 1]
  <2>1. \A d \in 1 .. D + 1 : new[d] \in 1 .. n + 1
    BY <1>5
  <2> QED
    BY <2>1
<1> HIDE DEF new
<1>7. OpenFields(q, code, new)
  BY <1>1, <1>3, <1>5, <1>6 DEF OpenFields
<1> QED
  BY <1>4, <1>7 DEF q, code

(* The innermost field of r has its separator.                             *)
LEMMA FieldSeparated ==
  ASSUME NEW r \in Seq(Marks), NEW inCode \in Seq(BOOLEAN), NEW ops,
         Len(inCode) = Height(r, Len(r)), OpenFields(r, inCode, ops), inCode # <<>>
  PROVE  /\ Height(Append(r, "separator"), Len(r) + 1) = Len(inCode)
         /\ OpenFields(Append(r, "separator"), [inCode EXCEPT ![Len(inCode)] = FALSE], ops)
<1> DEFINE q == Append(r, "separator")
           n == Len(r)
           D == Len(inCode)
           code == [inCode EXCEPT ![Len(inCode)] = FALSE]
<1>1. /\ q \in Seq(Marks) /\ Len(q) = n + 1 /\ n \in Nat /\ D \in Nat /\ D >= 1
      /\ (\A j \in 1 .. n : q[j] = r[j]) /\ q[n + 1] = "separator"
  BY DEF Marks
<1>2. \A k \in 0 .. n : Height(q, k) = Height(r, k)
  BY HeightOfPrefix DEF Marks
<1>3. Len(code) = D /\ (\A d \in 1 .. D - 1 : code[d] = inCode[d]) /\ code[D] = FALSE
  <2>1. DOMAIN inCode = 1 .. D /\ D \in DOMAIN inCode
    BY <1>1
  <2>2. D \in 1 .. D /\ (\A d \in 1 .. D - 1 : d \in 1 .. D /\ d # D)
    BY <1>1
  <2>3. DOMAIN code = 1 .. D /\ \A d \in 1 .. D : code[d] = IF d = D THEN FALSE ELSE inCode[d]
    BY <2>1, Zenon
  <2>4. Len(code) = D
    BY <1>1, <2>3
  <2> QED
    BY <2>2, <2>3, <2>4
<1> HIDE DEF q, code
<1>4. Height(q, n + 1) = D
  <2>1. n + 1 \in 1 .. Len(q) /\ (n + 1) - 1 = n /\ n \in 0 .. n
    BY <1>1
  <2>2. Height(q, n + 1) = Height(q, n) + 0
    BY <1>1, <2>1, HeightIs
  <2> QED
    BY <1>1, <1>2, <2>1, <2>2
<1>5. ASSUME NEW d \in 1 .. D
      PROVE  /\ q[ops[d]] = "begin" /\ Height(q, ops[d]) = d
             /\ \A k \in ops[d] .. n + 1 : Height(q, k) >= d
             /\ code[d] <=> ~\E s \in ops[d] + 1 .. n + 1 : q[s] = "separator" /\ Height(q, s) = d
  <2> DEFINE o == ops[d]
  <2>1. o \in 1 .. n /\ r[o] = "begin" /\ Height(r, o) = d
    BY DEF OpenFields
  <2>2. \A k \in o .. n : Height(r, k) >= d
    BY DEF OpenFields
  <2>3. inCode[d] <=> ~\E s \in o + 1 .. n : r[s] = "separator" /\ Height(r, s) = d
    BY DEF OpenFields
  <2> HIDE DEF o
  <2>5. q[o] = "begin" /\ Height(q, o) = d
    BY <1>1, <1>2, <2>1
  <2>6. \A k \in o .. n + 1 : (k \in o .. n /\ k \in 0 .. n) \/ k = n + 1
    BY <1>1, <2>1, OneMore
  <2>7. \A k \in o .. n + 1 : Height(q, k) >= d
    BY <1>1, <1>2, <1>4, <2>2, <2>6
  <2>8. \A s \in o + 1 .. n + 1 : (s \in o + 1 .. n /\ s \in 1 .. n /\ s \in 0 .. n) \/ s = n + 1
    BY <1>1, <2>1, OneMore
  <2>9. \A s \in o + 1 .. n : s \in o + 1 .. n + 1 /\ s \in 1 .. n /\ s \in 0 .. n
    BY <1>1, <2>1, OneMore
  <2>10. n + 1 \in o + 1 .. n + 1
    BY <1>1, <2>1
  <2>11. code[d] <=> ~\E s \in o + 1 .. n + 1 : q[s] = "separator" /\ Height(q, s) = d
    <3>1. CASE d = D
      BY <1>1, <1>3, <1>4, <2>10, <3>1
    <3>2. CASE d # D
      <4>1. d \in 1 .. D - 1
        BY <1>1, <3>2
      <4>2. (\E s \in o + 1 .. n + 1 : q[s] = "separator" /\ Height(q, s) = d)
              <=> \E s \in o + 1 .. n : r[s] = "separator" /\ Height(r, s) = d
        BY <1>1, <1>2, <1>4, <2>8, <2>9, <3>2
      <4> QED
        BY <1>3, <2>3, <4>1, <4>2
    <3> QED
      BY <3>1, <3>2
  <2> QED
    BY <2>5, <2>7, <2>11 DEF o
<1>6. ops \in [1 .. D -> 1 .. n + 1]
  BY <1>1 DEF OpenFields
<1>7. OpenFields(q, code, ops)
  BY <1>1, <1>3, <1>5, <1>6 DEF OpenFields
<1> QED
  BY <1>4, <1>7 DEF q, code

(* A stack without its last entry.                                         *)
LEMMA ShorterIs ==
  ASSUME NEW X, NEW s \in Seq(X), s # <<>>
  PROVE  /\ Front(s) \in Seq(X) /\ Len(Front(s)) = Len(s) - 1
         /\ Len(s) \in Nat \ {0}
         /\ \A d \in 1 .. Len(s) - 1 : Front(s)[d] = s[d]
<1>1. Len(s) \in Nat /\ Len(s) >= 1 /\ Len(s) \in Nat \ {0}
  OBVIOUS
<1>2. Front(s) = [d \in 1 .. Len(s) - 1 |-> s[d]]
  BY <1>1 DEF Front
<1>3. \A d \in 1 .. Len(s) - 1 : s[d] \in X
  BY <1>1
<1>4. Len(s) - 1 \in Nat /\ [d \in 1 .. Len(s) - 1 |-> s[d]] \in [1 .. Len(s) - 1 -> X]
  BY <1>1, <1>3
<1>5. Front(s) \in Seq(X) /\ Len(Front(s)) = Len(s) - 1
  BY <1>2, <1>4
<1> QED
  BY <1>1, <1>2, <1>5

(* The innermost field of r ends.                                          *)
LEMMA FieldEnds ==
  ASSUME NEW r \in Seq(Marks), NEW inCode \in Seq(BOOLEAN), NEW ops,
         Len(inCode) = Height(r, Len(r)), OpenFields(r, inCode, ops), inCode # <<>>
  PROVE  /\ Height(Append(r, "end"), Len(r) + 1) = Len(inCode) - 1
         /\ Front(inCode) \in Seq(BOOLEAN) /\ Len(Front(inCode)) = Len(inCode) - 1
         /\ \E o : OpenFields(Append(r, "end"), Front(inCode), o)
<1> DEFINE q == Append(r, "end")
           n == Len(r)
           D == Len(inCode)
           code == Front(inCode)
           new == [d \in 1 .. D - 1 |-> ops[d]]
<1>1. /\ q \in Seq(Marks) /\ Len(q) = n + 1 /\ n \in Nat /\ D \in Nat /\ D >= 1
      /\ (\A j \in 1 .. n : q[j] = r[j]) /\ q[n + 1] = "end"
  BY DEF Marks
<1>2. \A k \in 0 .. n : Height(q, k) = Height(r, k)
  BY HeightOfPrefix DEF Marks
<1>3. code \in Seq(BOOLEAN) /\ Len(code) = D - 1 /\ \A d \in 1 .. D - 1 : code[d] = inCode[d]
  BY <1>1 DEF Front
<1> HIDE DEF q, code
<1>4. Height(q, n + 1) = D - 1
  <2>1. n + 1 \in 1 .. Len(q) /\ (n + 1) - 1 = n /\ n \in 0 .. n
    BY <1>1
  <2>2. Height(q, n + 1) = Height(q, n) + (-1)
    BY <1>1, <2>1, HeightIs
  <2> QED
    BY <1>1, <1>2, <2>1, <2>2
<1>5. ASSUME NEW d \in 1 .. D - 1
      PROVE  /\ q[new[d]] = "begin" /\ Height(q, new[d]) = d /\ new[d] \in 1 .. n + 1
             /\ \A k \in new[d] .. n + 1 : Height(q, k) >= d
             /\ code[d] <=> ~\E s \in new[d] + 1 .. n + 1 : q[s] = "separator" /\ Height(q, s) = d
  <2> DEFINE o == ops[d]
  <2>0. d \in 1 .. D /\ new[d] = o
    BY <1>1
  <2>1. o \in 1 .. n /\ r[o] = "begin" /\ Height(r, o) = d
    BY <2>0 DEF OpenFields
  <2>2. \A k \in o .. n : Height(r, k) >= d
    BY <2>0 DEF OpenFields
  <2>3. inCode[d] <=> ~\E s \in o + 1 .. n : r[s] = "separator" /\ Height(r, s) = d
    BY <2>0 DEF OpenFields
  <2> HIDE DEF o, new
  <2>5. q[o] = "begin" /\ Height(q, o) = d /\ o \in 1 .. n + 1
    BY <1>1, <1>2, <2>1
  <2>6. \A k \in o .. n + 1 : (k \in o .. n /\ k \in 0 .. n) \/ k = n + 1
    BY <1>1, <2>1, OneMore
  <2>7. \A k \in o .. n + 1 : Height(q, k) >= d
    BY <1>1, <1>2, <1>4, <2>2, <2>6
  <2>8. \A s \in o + 1 .. n + 1 : (s \in o + 1 .. n /\ s \in 1 .. n /\ s \in 0 .. n) \/ s = n + 1
    BY <1>1, <2>1, OneMore
  <2>9. \A s \in o + 1 .. n : s \in o + 1 .. n + 1 /\ s \in 1 .. n /\ s \in 0 .. n
    BY <1>1, <2>1, OneMore
  <2>10. (\E s \in o + 1 .. n + 1 : q[s] = "separator" /\ Height(q, s) = d)
           <=> \E s \in o + 1 .. n : r[s] = "separator" /\ Height(r, s) = d
    BY <1>1, <1>2, <2>8, <2>9
  <2> QED
    BY <1>3, <2>0, <2>3, <2>5, <2>7, <2>10
<1>6. new \in [1 .. D - 1 -> 1 .. n + 1]
  <2>1. \A d \in 1 .. D - 1 : new[d] \in 1 .. n + 1
    BY <1>5
  <2> QED
    BY <2>1
<1> HIDE DEF new
<1>7. OpenFields(q, code, new)
  BY <1>1, <1>3, <1>5, <1>6 DEF OpenFields
<1> QED
  BY <1>3, <1>4, <1>7 DEF q, code
(* An output that grows by one place.                                      *)
LEMMA OutputGrows ==
  ASSUME NEW out \in Seq(Nat), NEW x \in Nat
  PROVE  Append(out, x) \in Seq(Nat) /\ ToSet(Append(out, x)) = ToSet(out) \cup {x}
<1> DEFINE more == Append(out, x)
<1>1. /\ more \in Seq(Nat) /\ Len(more) = Len(out) + 1 /\ Len(out) \in Nat
      /\ (\A i \in 1 .. Len(out) : more[i] = out[i]) /\ more[Len(out) + 1] = x
  BY AppendIs
<1> HIDE DEF more
<1>2. DOMAIN more = 1 .. Len(out) + 1 /\ DOMAIN out = 1 .. Len(out)
  BY <1>1
<1>3. ASSUME NEW y \in ToSet(more) PROVE y \in ToSet(out) \cup {x}
  <2>1. PICK i \in 1 .. Len(out) + 1 : y = more[i]
    BY <1>2 DEF ToSet
  <2>2. i \in 1 .. Len(out) \/ i = Len(out) + 1
    BY <1>1
  <2> QED
    BY <1>1, <1>2, <2>1, <2>2 DEF ToSet
<1>4. ASSUME NEW y \in ToSet(out) \cup {x} PROVE y \in ToSet(more)
  <2>1. CASE y = x
    <3>1. Len(out) + 1 \in 1 .. Len(out) + 1
      BY <1>1
    <3> QED
      BY <1>1, <1>2, <2>1, <3>1 DEF ToSet
  <2>2. CASE y \in ToSet(out)
    <3>1. PICK i \in 1 .. Len(out) : y = out[i]
      BY <1>2, <2>2 DEF ToSet
    <3>2. i \in 1 .. Len(out) + 1
      BY <1>1, <3>1
    <3> QED
      BY <1>1, <1>2, <3>1, <3>2 DEF ToSet
  <2> QED
    BY <1>4, <2>1, <2>2
<1> QED
  BY <1>1, <1>3, <1>4 DEF more

(* A mark leaves the fields that are open as they are told.                *)
LEMMA FieldsStep ==
  ASSUME FieldsInv, NEW c \in Marks, word' = ReadMark(word, c)
  PROVE  FieldsInv'
<1> DEFINE r == word.read
           n == Len(r)
           code == word.inCode
           out == word.output
           q == Append(r, c)
           inside == code # <<>>
           hidden == inside /\ Last(code)
           other == ~(c = "begin" \/ (c = "separator" /\ inside) \/ (c = "end" /\ inside))
<1>1. /\ r \in Seq(Marks) /\ code \in Seq(BOOLEAN) /\ out \in Seq(Nat) /\ n \in Nat
      /\ DOMAIN r = 1 .. n
  BY DEF FieldsInv, WordTypeOK
<1>2. /\ q \in Seq(Marks) /\ Len(q) = n + 1 /\ (\A i \in 1 .. n : q[i] = r[i])
      /\ q[n + 1] = c /\ DOMAIN q = 1 .. n + 1
  BY <1>1
<1>3. /\ word'.read = q
      /\ word'.inCode = IF c = "begin" THEN Append(code, TRUE)
                        ELSE IF c = "separator" /\ inside THEN [code EXCEPT ![Len(code)] = FALSE]
                        ELSE IF c = "end" /\ inside THEN Front(code) ELSE code
      /\ word'.output = IF other /\ ~hidden THEN Append(out, n + 1) ELSE out
      /\ word' = [read |-> word'.read, inCode |-> word'.inCode, output |-> word'.output]
  <2>1. word = [read |-> r, inCode |-> code, output |-> out]
    BY DEF FieldsInv, WordTypeOK
  <2> HIDE DEF r, code, out
  <2>2. CASE c = "begin"
    BY <2>1, <2>2 DEF ReadMark
  <2>3. CASE c = "separator" /\ inside
    BY <2>1, <2>3 DEF ReadMark
  <2>4. CASE c = "end" /\ inside
    BY <2>1, <2>4 DEF ReadMark
  <2>5. CASE other
    BY <2>1, <2>5 DEF ReadMark
  <2> QED
    BY <2>2, <2>3, <2>4, <2>5
<1>4. word'.inCode \in Seq(BOOLEAN) /\ word'.output \in Seq(Nat)
  <2>1. n + 1 \in Nat /\ Append(out, n + 1) \in Seq(Nat)
    BY <1>1, OutputGrows
  <2>2. Append(code, TRUE) \in Seq(BOOLEAN)
    BY <1>1
  <2>3. [code EXCEPT ![Len(code)] = FALSE] \in Seq(BOOLEAN)
    <3>1. code \in [1 .. Len(code) -> BOOLEAN] /\ Len(code) \in Nat
      BY <1>1
    <3>2. [code EXCEPT ![Len(code)] = FALSE] \in [1 .. Len(code) -> BOOLEAN]
      BY <3>1, Zenon
    <3> QED
      BY <3>1, <3>2
  <2>4. inside => Front(code) \in Seq(BOOLEAN)
    BY <1>1, ShorterIs
  <2> QED
    BY <1>1, <1>3, <2>1, <2>2, <2>3, <2>4
<1>5. WordTypeOK'
  BY <1>2, <1>3, <1>4 DEF WordTypeOK
<1>6. /\ \A i \in 1 .. n : i \in ToSet(word'.output) <=> i \in ToSet(out)
      /\ n + 1 \in ToSet(word'.output) <=> (other /\ ~hidden)
      /\ \A x \in ToSet(word'.output) : x \in 1 .. n + 1
  <2>1. \A x \in ToSet(out) : x \in 1 .. n
    BY <1>1 DEF FieldsInv
  <2>2. n + 1 \in Nat /\ ToSet(Append(out, n + 1)) = ToSet(out) \cup {n + 1}
    BY <1>1, OutputGrows
  <2>3. \A x \in 1 .. n : x \in 1 .. n + 1 /\ x # n + 1
    BY <1>1
  <2>4. n + 1 \in 1 .. n + 1
    BY <1>1
  <2> HIDE DEF r, code, out, n, other, hidden
  <2>5. CASE other /\ ~hidden
    <3>1. ToSet(word'.output) = ToSet(out) \cup {n + 1}
      BY <1>3, <2>2, <2>5
    <3> QED
      BY <2>1, <2>3, <2>4, <2>5, <3>1
  <2>6. CASE ~(other /\ ~hidden)
    <3>1. ToSet(word'.output) = ToSet(out)
      BY <1>3, <2>6
    <3> QED
      BY <2>1, <2>3, <2>4, <2>6, <3>1
  <2> QED
    BY <2>5, <2>6
<1>7. ASSUME Nested(q)
      PROVE  /\ Len(word'.inCode) = Height(q, n + 1)
             /\ \E ops : OpenFields(q, word'.inCode, ops)
             /\ \A i \in 1 .. n + 1 :
                  q[i] = "letter" => (i \in ToSet(word'.output) <=> IsText(q, i))
  <2>1. Nested(r)
    <3>1. \A i \in 1 .. n : i \in 1 .. n + 1 /\ i \in 0 .. n
      BY <1>1
    <3>2. \A i \in 1 .. n : Height(q, i) = Height(r, i)
      BY <1>1, <3>1, HeightOfPrefix
    <3>3. \A i \in 1 .. n + 1 : Height(q, i) >= 0
      BY <1>2, <1>7 DEF Nested
    <3> HIDE DEF q, r, n
    <3> QED
      BY <1>1, <3>1, <3>2, <3>3 DEF Nested
  <2>2. Len(code) = Height(r, n) /\ \E ops : OpenFields(r, code, ops)
    BY <2>1 DEF FieldsInv
  <2>3. PICK ops : OpenFields(r, code, ops)
    BY <2>2
  <2>4. Len(word'.inCode) = Height(q, n + 1) /\ \E o : OpenFields(q, word'.inCode, o)
    <3>1. CASE c = "begin"
      <4>1. word'.inCode = Append(code, TRUE) /\ Len(Append(code, TRUE)) = Len(code) + 1
        BY <1>1, <1>3, <3>1
      <4>2. Height(q, n + 1) = Len(code) + 1 /\ \E o : OpenFields(q, Append(code, TRUE), o)
        BY <1>1, <2>2, <2>3, <3>1, FieldOpens
      <4> HIDE DEF q, r, n, code
      <4> QED
        BY <4>1, <4>2
    <3>2. CASE c = "separator" /\ inside
      <4> DEFINE less == [code EXCEPT ![Len(code)] = FALSE]
      <4>1. word'.inCode = less /\ Len(less) = Len(code)
        BY <1>1, <1>3, <3>2
      <4>2. Height(q, n + 1) = Len(code) /\ OpenFields(q, less, ops)
        BY <1>1, <2>2, <2>3, <3>2, FieldSeparated
      <4> HIDE DEF q, r, n, code, less
      <4> QED
        BY <4>1, <4>2
    <3>3. CASE c = "end" /\ inside
      <4>1. word'.inCode = Front(code)
        BY <1>3, <3>3
      <4>2. Height(q, n + 1) = Len(code) - 1 /\ Len(Front(code)) = Len(code) - 1
            /\ \E o : OpenFields(q, Front(code), o)
        BY <1>1, <2>2, <2>3, <3>3, FieldEnds
      <4> HIDE DEF q, r, n, code
      <4> QED
        BY <4>1, <4>2
    <3>4. CASE c = "end" /\ ~inside
      <4>1. /\ n + 1 \in 1 .. Len(q) /\ (n + 1) - 1 = n /\ n \in 0 .. n
            /\ n + 1 \in DOMAIN q /\ Len(code) = 0 /\ q[n + 1] = "end"
        BY <1>1, <1>2, <3>4
      <4>2. Height(q, n) = Height(r, n)
        BY <1>1, <4>1, HeightOfPrefix
      <4>3. Height(q, n + 1) >= 0
        BY <1>7, <4>1 DEF Nested
      <4> HIDE DEF q, r, n, code
      <4>4. Height(q, n + 1) = Height(q, n) + (-1)
        BY <1>2, <4>1, HeightIs
      <4>5. Height(r, n) = 0
        BY <2>2, <4>1
      <4>6. FALSE
        BY <4>2, <4>3, <4>4, <4>5
      <4> QED
        BY <4>6
    <3>5. CASE c = "letter" \/ (c = "separator" /\ ~inside)
      <4>1. word'.inCode = code
        BY <1>3, <3>5
      <4>2. Height(q, n + 1) = Len(code) /\ OpenFields(q, code, ops)
        BY <1>1, <2>2, <2>3, <3>5, FieldsStay
      <4> HIDE DEF q, r, n, code
      <4> QED
        BY <4>1, <4>2
    <3> QED
      BY <3>1, <3>2, <3>3, <3>4, <3>5 DEF Marks
  <2>5. ASSUME NEW i \in 1 .. n + 1, q[i] = "letter"
        PROVE  i \in ToSet(word'.output) <=> IsText(q, i)
    <3>1. CASE i \in 1 .. n
      <4>1. r[i] = "letter" /\ IsText(q, i) = IsText(r, i)
        BY <1>1, <1>2, <2>5, <3>1, TextOfPrefix
      <4>2. r[i] = "letter" => (i \in ToSet(out) <=> IsText(r, i))
        BY <1>1, <2>1, <3>1 DEF FieldsInv
      <4> HIDE DEF q, r, n, out, other, hidden
      <4> QED
        BY <1>6, <3>1, <4>1, <4>2
    <3>2. CASE i = n + 1
      <4>1. c = "letter"
        BY <1>2, <2>5, <3>2
      <4>2. IsText(q, n + 1) <=> (code = <<>> \/ ~code[Len(code)])
        BY <1>1, <2>1, <2>2, <2>3, <4>1, LetterIsText
      <4>3. hidden <=> (code # <<>> /\ code[Len(code)])
        BY DEF Last
      <4>4. other
        BY <4>1
      <4> HIDE DEF q, r, n, out, code, other, hidden
      <4> QED
        BY <1>6, <3>2, <4>2, <4>3, <4>4
    <3> QED
      BY <1>1, <2>5, <3>1, <3>2
  <2> QED
    BY <2>4, <2>5
<1> HIDE DEF q, r, n, code, out, other, hidden, inside
<1> QED
  BY <1>2, <1>3, <1>5, <1>6, <1>7 DEF FieldsInv
LEMMA FieldsInit ==
  ASSUME WordTextInit
  PROVE  FieldsInv
<1>1. word = [read |-> <<>>, inCode |-> <<>>, output |-> <<>>]
  BY DEF WordTextInit
<1>2. word.read = <<>> /\ word.inCode = <<>> /\ word.output = <<>>
  BY <1>1
<1>3. WordTypeOK
  BY <1>1 DEF WordTypeOK
<1>4. ToSet(<<>>) = {}
  BY DEF ToSet
<1>5. Height(<<>>, 0) = 0
  <2> DEFINE e == <<>>
  <2>1. e \in Seq(Marks)
    OBVIOUS
  <2> HIDE DEF e
  <2>2. Height(e, 0) = 0
    BY <2>1, HeightIs
  <2> QED
    BY <2>2 DEF e
<1>6. OpenFields(<<>>, <<>>, [d \in 1 .. 0 |-> 1])
  BY DEF OpenFields
<1>7. Len(<<>>) = 0 /\ DOMAIN <<>> = {}
  OBVIOUS
<1> QED
  BY <1>2, <1>3, <1>4, <1>5, <1>6, <1>7 DEF FieldsInv

LEMMA FieldsTell ==
  ASSUME FieldsInv
  PROVE  FieldCodesHidden
<1> DEFINE r == word.read
           letters == {i \in DOMAIN r : r[i] = "letter"}
<1>1. ASSUME Nested(r)
      PROVE  {i \in letters : IsText(r, i)} = letters \cap ToSet(word.output)
  <2>1. \A i \in DOMAIN r : r[i] = "letter" => (i \in ToSet(word.output) <=> IsText(r, i))
    BY <1>1 DEF FieldsInv
  <2> HIDE DEF r
  <2> QED
    BY <2>1
<1> HIDE DEF letters
<1>2. (\A i \in DOMAIN r : Height(r, i) >= 0) =>
        {i \in letters : IsText(r, i)} = letters \cap ToSet(word.output)
  BY <1>1 DEF Nested
<1> QED
  BY <1>2, Zenon DEF FieldCodesHidden, letters

LEMMA FieldsNext ==
  ASSUME FieldsInv, [WordTextNext]_wordTextVars
  PROVE  FieldsInv'
<1>1. CASE word' = word
  BY <1>1 DEF FieldsInv, WordTypeOK
<1>2. CASE NextMark
  BY <1>2, FieldsStep DEF NextMark, Marks
<1> QED
  BY <1>1, <1>2 DEF WordTextNext, NextToken, wordTextVars

(* The text of a Word 97 file holds exactly the letters a reader sees.     *)
THEOREM FieldCodesHiddenAlways == WordTextSpec => []FieldCodesHidden
<1>1. WordTextInit => FieldsInv
  BY FieldsInit
<1>2. FieldsInv /\ [WordTextNext]_wordTextVars => FieldsInv'
  BY FieldsNext
<1>3. FieldsInv => FieldCodesHidden
  BY FieldsTell
<1> QED
  BY <1>1, <1>2, <1>3, PTL DEF WordTextSpec

-----------------------------------------------------------------------------
(* RTF: groups, settings and what is left out.                             *)
LEMMA TokenIs ==
  ASSUME NEW r \in Seq(Tokens)
  PROVE  /\ Len(r) \in Nat /\ DOMAIN r = 1 .. Len(r)
         /\ \A i \in 1 .. Len(r) : /\ r[i] \in Tokens /\ r[i].n \in Nat
                                   /\ r[i].kind \in TokenKinds
  BY WordTextAssumption

LEMMA DepthIs ==
  ASSUME NEW r \in Seq(Tokens)
  PROVE  /\ Depth(r, 1) = 0
         /\ \A i \in 1 .. Len(r) + 1 : Depth(r, i) \in Int
         /\ \A i \in 1 .. Len(r) :
              Depth(r, i + 1) = Depth(r, i) + (IF r[i].kind = "open" THEN 1
                                               ELSE IF r[i].kind = "close" THEN -1 ELSE 0)
<1> DEFINE B == {j \in 1 .. Len(r) : r[j].kind = "open"}
           E == {j \in 1 .. Len(r) : r[j].kind = "close"}
           b(m) == Cardinality({j \in 1 .. m : j \in B})
           e(m) == Cardinality({j \in 1 .. m : j \in E})
<1>1. Len(r) \in Nat
  OBVIOUS
<1>2. ASSUME NEW i \in 0 .. Len(r) PROVE Depth(r, i + 1) = b(i) - e(i)
  <2>0. (i + 1) - 1 = i
    BY <1>1
  <2>1. {j \in 1 .. i : r[j].kind = "open"} = {j \in 1 .. i : j \in B}
    BY <1>1
  <2>2. {j \in 1 .. i : r[j].kind = "close"} = {j \in 1 .. i : j \in E}
    BY <1>1
  <2>3. Depth(r, i + 1) = Cardinality({j \in 1 .. i : r[j].kind = "open"})
                            - Cardinality({j \in 1 .. i : r[j].kind = "close"})
    BY <2>0 DEF Depth
  <2> QED
    BY <2>1, <2>2, <2>3
<1>3. \A i \in Nat : /\ b(i) \in Nat /\ b(0) = 0
                     /\ b(i + 1) = b(i) + (IF i + 1 \in B THEN 1 ELSE 0)
  <2> HIDE DEF B
  <2> QED
    BY CountingOn
<1>4. \A i \in Nat : /\ e(i) \in Nat /\ e(0) = 0
                     /\ e(i + 1) = e(i) + (IF i + 1 \in E THEN 1 ELSE 0)
  <2> HIDE DEF E
  <2> QED
    BY CountingOn
<1>5. \A i \in 1 .. Len(r) : (i \in B <=> r[i].kind = "open") /\ (i \in E <=> r[i].kind = "close")
  OBVIOUS
<1> HIDE DEF B, E, b, e
<1>6. Depth(r, 1) = 0
  <2>1. 0 \in Nat /\ 0 \in 0 .. Len(r) /\ 0 + 1 = 1
    BY <1>1
  <2>2. b(0) = 0 /\ e(0) = 0
    BY <1>3, <1>4, <2>1
  <2>3. Depth(r, 0 + 1) = b(0) - e(0)
    BY <1>2, <2>1
  <2> QED
    BY <2>1, <2>2, <2>3
<1>7. \A i \in 0 .. Len(r) : b(i) \in Nat /\ e(i) \in Nat
  BY <1>1, <1>3, <1>4
<1>8. ASSUME NEW i \in 1 .. Len(r) + 1 PROVE Depth(r, i) \in Int
  <2>1. i - 1 \in 0 .. Len(r) /\ (i - 1) + 1 = i
    BY <1>1
  <2>2. Depth(r, (i - 1) + 1) = b(i - 1) - e(i - 1)
    BY <1>2, <2>1
  <2>3. b(i - 1) - e(i - 1) \in Int
    BY <1>7, <2>1
  <2> QED
    BY <2>1, <2>2, <2>3
<1>9. ASSUME NEW i \in 1 .. Len(r)
      PROVE  Depth(r, i + 1) = Depth(r, i) + (IF r[i].kind = "open" THEN 1
                                              ELSE IF r[i].kind = "close" THEN -1 ELSE 0)
  <2>1. i - 1 \in Nat /\ (i - 1) + 1 = i /\ i - 1 \in 0 .. Len(r) /\ i \in 0 .. Len(r)
    BY <1>1
  <2>2. b(i) = b(i - 1) + (IF r[i].kind = "open" THEN 1 ELSE 0)
    BY <1>3, <1>5, <2>1
  <2>3. e(i) = e(i - 1) + (IF r[i].kind = "close" THEN 1 ELSE 0)
    BY <1>4, <1>5, <2>1
  <2>4. Depth(r, i) = b(i - 1) - e(i - 1) /\ Depth(r, i + 1) = b(i) - e(i)
    BY <1>2, <2>1
  <2>5. b(i - 1) \in Nat /\ e(i - 1) \in Nat
    BY <1>7, <2>1
  <2> QED
    BY <2>2, <2>3, <2>4, <2>5
<1> QED
  BY <1>6, <1>8, <1>9

(* What was read keeps its depths, its groups and its settings.            *)
LEMMA DepthOfPrefix ==
  ASSUME NEW r \in Seq(Tokens), NEW t \in Tokens, NEW i \in 1 .. Len(r) + 1
  PROVE  Depth(Append(r, t), i) = Depth(r, i)
<1> DEFINE q == Append(r, t)
<1>1. \A j \in 1 .. i - 1 : q[j] = r[j]
  OBVIOUS
<1> HIDE DEF q
<1>2. /\ {j \in 1 .. i - 1 : q[j].kind = "open"} = {j \in 1 .. i - 1 : r[j].kind = "open"}
      /\ {j \in 1 .. i - 1 : q[j].kind = "close"} = {j \in 1 .. i - 1 : r[j].kind = "close"}
  BY <1>1
<1> QED
  BY <1>2 DEF Depth, q

LEMMA InForceOfPrefix ==
  ASSUME NEW r \in Seq(Tokens), NEW t \in Tokens, NEW i \in 1 .. Len(r) + 1
  PROVE  InForce(Append(r, t), i) = InForce(r, i)
<1> DEFINE q == Append(r, t)
<1>1. Len(r) \in Nat
  OBVIOUS
<1>2. \A j \in 1 .. i - 1 : j \in 1 .. Len(r) + 1 /\ \A k \in j .. i : k \in 1 .. Len(r) + 1
  BY <1>1
<1>3. \A k \in 1 .. Len(r) + 1 : Depth(q, k) = Depth(r, k)
  BY DepthOfPrefix
<1> HIDE DEF q
<1>4. InForce(q, i) = InForce(r, i)
  BY <1>2, <1>3 DEF InForce
<1> QED
  BY <1>4 DEF q

LEMMA HiddenOfPrefix ==
  ASSUME NEW r \in Seq(Tokens), NEW t \in Tokens, NEW i \in 1 .. Len(r) + 1
  PROVE  Hidden(Append(r, t), i) = Hidden(r, i)
<1> DEFINE q == Append(r, t)
<1>1. InForce(q, i) = InForce(r, i)
  BY InForceOfPrefix
<1>2. \A j \in InForce(r, i) : j \in 1 .. Len(r)
  BY DEF InForce
<1>3. \A j \in 1 .. Len(r) : q[j] = r[j]
  BY AppendIs
<1> HIDE DEF q
<1>4. Hidden(q, i) = Hidden(r, i)
  BY <1>1, <1>2, <1>3 DEF Hidden
<1> QED
  BY <1>4 DEF q

(* The tokens that set kind for token i.                                   *)
SetFor(r, kind, i) == {j \in InForce(r, i) : r[j].kind = kind /\ ~Hidden(r, j)}

LEMMA SetForIs ==
  ASSUME NEW r \in Seq(Tokens), NEW kind, NEW i \in 1 .. Len(r) + 1
  PROVE  /\ SetFor(r, kind, i) \subseteq 1 .. i - 1
         /\ SetFor(r, kind, i) \subseteq 1 .. Len(r)
         /\ SetFor(r, kind, i) # {} =>
              /\ Max(SetFor(r, kind, i)) \in SetFor(r, kind, i)
              /\ \A j \in SetFor(r, kind, i) : j <= Max(SetFor(r, kind, i))
<1> DEFINE S == SetFor(r, kind, i)
           m == Max(S)
<1>1. S \subseteq 1 .. i - 1 /\ S \subseteq 1 .. Len(r) /\ Len(r) \in Nat
  BY DEF SetFor, InForce
<1> HIDE DEF S
<1>2. ASSUME S # {} PROVE m \in S /\ \A j \in S : j <= m
  <2>1. \E j \in S : \A k \in S : k <= j
    BY <1>1, <1>2, Greatest
  <2>2. \A j \in S : j \in Nat
    BY <1>1
  <2>3. \E j \in S : \A k \in S : j >= k
    BY <2>1, <2>2
  <2>4. m \in S /\ \A k \in S : m >= k
    BY <2>3 DEF Max
  <2> HIDE DEF m
  <2> QED
    BY <2>2, <2>4
<1> QED
  BY <1>1, <1>2 DEF S

LEMMA SettingIs ==
  ASSUME NEW r \in Seq(Tokens), NEW kind, NEW default, NEW i \in 1 .. Len(r) + 1
  PROVE  /\ SettingAt(r, kind, default, i) = IF SetFor(r, kind, i) = {} THEN default
                                             ELSE r[Max(SetFor(r, kind, i))].n
         /\ default \in Nat => SettingAt(r, kind, default, i) \in Nat
<1>1. SettingAt(r, kind, default, i) = IF SetFor(r, kind, i) = {} THEN default
                                       ELSE r[Max(SetFor(r, kind, i))].n
  BY DEF SettingAt, SetFor
<1>2. ASSUME SetFor(r, kind, i) # {} PROVE r[Max(SetFor(r, kind, i))].n \in Nat
  BY <1>2, SetForIs, TokenIs
<1> QED
  BY <1>1, <1>2

LEMMA SettingOfPrefix ==
  ASSUME NEW r \in Seq(Tokens), NEW t \in Tokens, NEW kind, NEW default,
         NEW i \in 1 .. Len(r) + 1
  PROVE  SettingAt(Append(r, t), kind, default, i) = SettingAt(r, kind, default, i)
<1> DEFINE q == Append(r, t)
<1>1. InForce(q, i) = InForce(r, i) /\ \A j \in InForce(r, i) : j \in 1 .. Len(r)
  BY InForceOfPrefix DEF InForce
<1>2. \A j \in 1 .. Len(r) : q[j] = r[j]
  BY AppendIs
<1>3. \A j \in 1 .. Len(r) : Hidden(q, j) = Hidden(r, j)
  BY HiddenOfPrefix
<1>4. q \in Seq(Tokens) /\ i \in 1 .. Len(q) + 1
  BY AppendIs
<1> HIDE DEF q
<1>5. SetFor(q, kind, i) = SetFor(r, kind, i)
  BY <1>1, <1>2, <1>3 DEF SetFor
<1> DEFINE S == SetFor(r, kind, i)
<1>6. S # {} => Max(S) \in 1 .. Len(r)
  BY SetForIs
<1>7. SettingAt(q, kind, default, i) = IF S = {} THEN default ELSE q[Max(S)].n
  BY <1>4, <1>5, SettingIs
<1>8. SettingAt(r, kind, default, i) = IF S = {} THEN default ELSE r[Max(S)].n
  BY SettingIs
<1> HIDE DEF S
<1>9. SettingAt(q, kind, default, i) = SettingAt(r, kind, default, i)
  BY <1>2, <1>6, <1>7, <1>8
<1> QED
  BY <1>9 DEF q

(* A token is in force after it, with those it stands behind, unless it    *)
(* closes the group.                                                       *)
LEMMA InForceGrows ==
  ASSUME NEW q \in Seq(Tokens), NEW m \in 1 .. Len(q), q[m].kind # "close"
  PROVE  InForce(q, m + 1) = InForce(q, m) \cup {m}
<1>1. m \in Nat /\ Len(q) \in Nat /\ m + 1 \in 1 .. Len(q) + 1 /\ m \in 1 .. Len(q) + 1
  OBVIOUS
<1>2. Depth(q, m) \in Int /\ Depth(q, m + 1) \in Int /\ Depth(q, m + 1) >= Depth(q, m)
  BY <1>1, DepthIs
<1>3. ASSUME NEW j \in InForce(q, m) \cup {m} PROVE j \in InForce(q, m + 1)
  <2>1. CASE j = m
    <3>1. m \in 1 .. (m + 1) - 1 /\ \A k \in m .. m + 1 : k = m \/ k = m + 1
      BY <1>1
    <3> QED
      BY <1>2, <2>1, <3>1 DEF InForce
  <2>2. CASE j \in InForce(q, m)
    <3>1. j \in 1 .. m - 1 /\ \A k \in j .. m : Depth(q, k) >= Depth(q, j)
      BY <2>2 DEF InForce
    <3>2. j \in 1 .. (m + 1) - 1 /\ j \in 1 .. Len(q) + 1 /\ m \in j .. m
          /\ \A k \in j .. m + 1 : k \in j .. m \/ k = m + 1
      BY <1>1, <3>1
    <3>3. Depth(q, j) \in Int /\ Depth(q, m) >= Depth(q, j)
      BY <3>1, <3>2, DepthIs
    <3>4. Depth(q, m + 1) >= Depth(q, j)
      BY <1>2, <3>3
    <3> QED
      BY <3>1, <3>2, <3>4 DEF InForce
  <2> QED
    BY <1>3, <2>1, <2>2
<1>4. ASSUME NEW j \in InForce(q, m + 1) PROVE j \in InForce(q, m) \cup {m}
  <2>1. j \in 1 .. (m + 1) - 1 /\ \A k \in j .. m + 1 : Depth(q, k) >= Depth(q, j)
    BY DEF InForce
  <2>2. (j \in 1 .. m - 1 /\ \A k \in j .. m : k \in j .. m + 1) \/ j = m
    BY <1>1, <2>1
  <2> QED
    BY <2>1, <2>2 DEF InForce
<1> QED
  BY <1>3, <1>4

(* After a group only what stood before it, and its opener, is in force.   *)
LEMMA InForceReturns ==
  ASSUME NEW q \in Seq(Tokens), NEW m \in 1 .. Len(q), q[m].kind = "close",
         NEW o \in 1 .. m - 1, Depth(q, o) = Depth(q, m) - 1,
         \A k \in o + 1 .. m : Depth(q, k) >= Depth(q, m)
  PROVE  InForce(q, m + 1) = InForce(q, o) \cup {o}
<1> DEFINE D == Depth(q, m)
<1>1. m \in Nat /\ Len(q) \in Nat /\ m + 1 \in 1 .. Len(q) + 1 /\ m \in 1 .. Len(q) + 1
      /\ \A j \in 1 .. m : j \in 1 .. Len(q) + 1
  OBVIOUS
<1>2. D \in Int /\ Depth(q, m + 1) = D - 1
  BY <1>1, DepthIs
<1>3. \A j \in 1 .. m : Depth(q, j) \in Int
  BY <1>1, DepthIs
<1>4. Depth(q, o) = D - 1 /\ \A k \in o + 1 .. m : Depth(q, k) >= D
  OBVIOUS
<1> HIDE DEF D
<1>5. \A k \in o .. m + 1 : k = o \/ k \in o + 1 .. m \/ k = m + 1
  BY <1>1
<1>6. \A k \in o + 1 .. m : k \in 1 .. m
  BY <1>1
<1>7. \A k \in o .. m + 1 : Depth(q, k) >= D - 1
  BY <1>2, <1>3, <1>4, <1>5, <1>6
<1>8. ASSUME NEW j \in InForce(q, o) \cup {o} PROVE j \in InForce(q, m + 1)
  <2>1. CASE j = o
    <3>1. o \in 1 .. (m + 1) - 1
      BY <1>1
    <3> QED
      BY <1>4, <1>7, <2>1, <3>1 DEF InForce
  <2>2. CASE j \in InForce(q, o)
    <3>1. j \in 1 .. o - 1 /\ \A k \in j .. o : Depth(q, k) >= Depth(q, j)
      BY <2>2 DEF InForce
    <3>2. j \in 1 .. (m + 1) - 1 /\ j \in 1 .. m /\ o \in j .. o
          /\ \A k \in j .. m + 1 : (k \in j .. o \/ k \in o .. m + 1)
                                   /\ (k \in o .. m + 1 => k \in 1 .. m \/ k = m + 1)
      BY <1>1, <3>1
    <3>3. Depth(q, j) \in Int /\ D - 1 >= Depth(q, j)
      BY <1>3, <1>4, <3>1, <3>2
    <3>4. \A k \in o .. m + 1 : Depth(q, k) \in Int
      <4>1. \A k \in o .. m + 1 : k \in 1 .. m \/ k = m + 1
        BY <1>1
      <4> QED
        BY <1>2, <1>3, <4>1
    <3>5. \A k \in o .. m + 1 : Depth(q, k) >= Depth(q, j)
      BY <1>2, <1>7, <3>3, <3>4
    <3> QED
      BY <3>1, <3>2, <3>5 DEF InForce
  <2> QED
    BY <1>8, <2>1, <2>2
<1>9. ASSUME NEW j \in InForce(q, m + 1) PROVE j \in InForce(q, o) \cup {o}
  <2>1. j \in 1 .. (m + 1) - 1 /\ \A k \in j .. m + 1 : Depth(q, k) >= Depth(q, j)
    BY DEF InForce
  <2>2. m + 1 \in j .. m + 1 /\ j \in 1 .. m
    BY <1>1, <2>1
  <2>3. D - 1 >= Depth(q, j) /\ Depth(q, j) \in Int
    BY <1>2, <1>3, <2>1, <2>2
  <2>4. j \notin o + 1 .. m
    BY <1>2, <1>4, <2>3
  <2>5. (j \in 1 .. o - 1 /\ \A k \in j .. o : k \in j .. m + 1) \/ j = o
    BY <1>1, <2>2, <2>4
  <2> QED
    BY <2>1, <2>5 DEF InForce
<1> QED
  BY <1>8, <1>9

(* What one more token in force changes.                                   *)
LEMMA SettingsAfter ==
  ASSUME NEW q \in Seq(Tokens), NEW m \in 1 .. Len(q), NEW i \in 1 .. Len(q) + 1,
         InForce(q, i) = InForce(q, m) \cup {m}
  PROVE  /\ Hidden(q, i) <=> (Hidden(q, m) \/ q[m].kind = "skip")
         /\ \A kind, default :
              SettingAt(q, kind, default, i) =
                IF q[m].kind = kind /\ ~Hidden(q, m) THEN q[m].n
                ELSE SettingAt(q, kind, default, m)
<1>1. Hidden(q, i) <=> (Hidden(q, m) \/ q[m].kind = "skip")
  BY DEF Hidden
<1>2. ASSUME NEW kind, NEW default
      PROVE  SettingAt(q, kind, default, i) =
               IF q[m].kind = kind /\ ~Hidden(q, m) THEN q[m].n
               ELSE SettingAt(q, kind, default, m)
  <2> DEFINE S == SetFor(q, kind, m)
             T == SetFor(q, kind, i)
  <2>1. m \in 1 .. Len(q) + 1 /\ m \in Nat
    OBVIOUS
  <2>2. SettingAt(q, kind, default, i) = IF T = {} THEN default ELSE q[Max(T)].n
    BY SettingIs
  <2>3. SettingAt(q, kind, default, m) = IF S = {} THEN default ELSE q[Max(S)].n
    BY <2>1, SettingIs
  <2>4. S \subseteq 1 .. m - 1
    BY <2>1, SetForIs
  <2>5. T = S \cup (IF q[m].kind = kind /\ ~Hidden(q, m) THEN {m} ELSE {})
    BY DEF SetFor
  <2>6. T # {} => Max(T) \in T /\ \A j \in T : j <= Max(T)
    BY SetForIs
  <2> DEFINE top == Max(T)
  <2> HIDE DEF S, T, top
  <2>7. CASE q[m].kind = kind /\ ~Hidden(q, m)
    <3>1. T = S \cup {m} /\ T # {}
      BY <2>5, <2>7
    <3>2. top \in T /\ m <= top
      BY <2>6, <3>1 DEF top
    <3>3. top = m
      BY <2>1, <2>4, <3>1, <3>2
    <3> QED
      BY <2>2, <2>7, <3>1, <3>3 DEF top
  <2>8. CASE ~(q[m].kind = kind /\ ~Hidden(q, m))
    <3>1. T = S
      BY <2>5, <2>8
    <3> QED
      BY <2>2, <2>3, <2>8, <3>1
  <2> QED
    BY <2>7, <2>8
<1> QED
  BY <1>1, <1>2

(* Characters in the tokens up to each one.                                *)
LEMMA SizesAre ==
  ASSUME NEW r \in Seq(Tokens)
  PROVE  /\ Sizes(r)[0] = 0 /\ \A k \in 0 .. Len(r) : Sizes(r)[k] \in Nat
         /\ \A k \in 1 .. Len(r) : Sizes(r)[k] = Sizes(r)[k - 1] + SizeOf(r[k])
         /\ \A k \in 1 .. Len(r) : SizeOf(r[k]) \in Nat
<1> DEFINE N == Len(r)
           F == CHOOSE f : f = [k \in 0 .. N |-> IF k = 0 THEN 0 ELSE f[k - 1] + SizeOf(r[k])]
           step == [k \in 1 .. N |-> [Q \in Nat |-> Q + SizeOf(r[k])]]
<1>1. N \in Nat
  OBVIOUS
<1>2. \A k \in 1 .. N : SizeOf(r[k]) \in Nat
  BY TokenIs DEF SizeOf
<1>3. step \in [1 .. N -> [Nat -> Nat]]
  <2>1. ASSUME NEW k \in 1 .. N PROVE [Q \in Nat |-> Q + SizeOf(r[k])] \in [Nat -> Nat]
    BY <1>2
  <2> QED
    BY <2>1, Zenon
<1>4. PICK f \in [0 .. N -> Nat] : f[0] = 0 /\ \A k \in 1 .. N : f[k] = step[k][f[k - 1]]
  <2>1. 0 \in Nat
    OBVIOUS
  <2> HIDE DEF N, step
  <2>2. Runs(N, Nat, 0, step)
    BY <1>1, <1>3, <2>1, StepByStep
  <2> QED
    BY <2>2 DEF Runs
<1>5. \A k \in 1 .. N : f[k] = f[k - 1] + SizeOf(r[k])
  <2>1. \A k \in 1 .. N : k - 1 \in 0 .. N
    BY <1>1
  <2>2. \A k \in 1 .. N : f[k - 1] \in Nat
    BY <1>4, <2>1
  <2> QED
    BY <1>4, <2>2
<1>6. f = [k \in 0 .. N |-> IF k = 0 THEN 0 ELSE f[k - 1] + SizeOf(r[k])]
  <2> HIDE DEF N, step
  <2>1. \A k \in 0 .. N : k # 0 => k \in 1 .. N
    BY <1>1
  <2>2. \A k \in 0 .. N : f[k] = IF k = 0 THEN 0 ELSE f[k - 1] + SizeOf(r[k])
    BY <1>4, <1>5, <2>1
  <2> QED
    BY <1>4, <2>2
<1>7. F = [k \in 0 .. N |-> IF k = 0 THEN 0 ELSE F[k - 1] + SizeOf(r[k])]
  BY <1>6
<1>8. Sizes(r) = F
  BY DEF Sizes
<1> HIDE DEF F
<1>9. F[0] = 0 /\ \A k \in 1 .. N : F[k] = F[k - 1] + SizeOf(r[k])
  <2> HIDE DEF N
  <2>1. \A k \in 0 .. N : F[k] = IF k = 0 THEN 0 ELSE F[k - 1] + SizeOf(r[k])
    BY <1>7, Zenon
  <2>2. 0 \in 0 .. N /\ \A k \in 1 .. N : k \in 0 .. N /\ k # 0
    BY <1>1
  <2> QED
    BY <2>1, <2>2, Zenon
<1> DEFINE S == {k \in 0 .. N : F[k] \in Nat}
<1>10. 0 \in S
  BY <1>1, <1>9
<1>11. ASSUME NEW k \in 0 .. N - 1, k \in S PROVE k + 1 \in S
  <2>1. k + 1 \in 1 .. N /\ (k + 1) - 1 = k /\ k + 1 \in 0 .. N
    BY <1>1
  <2>2. F[k + 1] = F[k] + SizeOf(r[k + 1])
    BY <1>9, <2>1
  <2> QED
    BY <1>2, <1>11, <2>1, <2>2
<1>12. \A k \in 0 .. N : k \in S
  <2> HIDE DEF S, N
  <2> QED
    BY <1>1, <1>10, <1>11, CountingUp
<1> QED
  BY <1>2, <1>8, <1>9, <1>12

LEMMA SizesOfPrefix ==
  ASSUME NEW r \in Seq(Tokens), NEW t \in Tokens, NEW i \in 0 .. Len(r)
  PROVE  Sizes(Append(r, t))[i] = Sizes(r)[i]
<1> DEFINE q == Append(r, t)
           N == Len(r)
           S == {k \in 0 .. N : Sizes(q)[k] = Sizes(r)[k]}
<1>1. N \in Nat /\ q \in Seq(Tokens) /\ Len(q) = N + 1 /\ \A k \in 1 .. N : q[k] = r[k]
  BY AppendIs
<1> HIDE DEF q
<1>2. 0 \in S
  BY <1>1, SizesAre
<1>3. ASSUME NEW k \in 0 .. N - 1, k \in S PROVE k + 1 \in S
  <2>1. k + 1 \in 1 .. N /\ (k + 1) - 1 = k /\ k + 1 \in 0 .. N /\ k + 1 \in 1 .. Len(q)
    BY <1>1
  <2>2. Sizes(r)[k + 1] = Sizes(r)[k] + SizeOf(r[k + 1])
    BY <2>1, SizesAre
  <2>3. Sizes(q)[k + 1] = Sizes(q)[k] + SizeOf(q[k + 1])
    BY <1>1, <2>1, SizesAre
  <2> QED
    BY <1>1, <1>3, <2>1, <2>2, <2>3
<1>4. \A k \in 0 .. N : k \in S
  <2> HIDE DEF S, N
  <2> QED
    BY <1>1, <1>2, <1>3, CountingUp
<1> QED
  BY <1>4 DEF q

(* The visible \uN before token i, and what Fallback makes of the last.    *)
UnicodesBefore(r, i) == {j \in 1 .. i - 1 : r[j].kind = "unicode" /\ ~Hidden(r, j)}
LeftOf(r, last, i) == SettingAt(r, "uc", 1, last) - (Sizes(r)[i - 1] - Sizes(r)[last])

LEMMA UnicodesAre ==
  ASSUME NEW r \in Seq(Tokens), NEW i \in 1 .. Len(r) + 1, UnicodesBefore(r, i) # {}
  PROVE  LET last == Max(UnicodesBefore(r, i))
         IN  /\ last \in UnicodesBefore(r, i) /\ last \in 1 .. Len(r) /\ last \in 1 .. i - 1
             /\ \A j \in UnicodesBefore(r, i) : j <= last
             /\ LeftOf(r, last, i) \in Int
<1> DEFINE S == UnicodesBefore(r, i)
           m == Max(S)
<1>1. S \subseteq 1 .. Len(r) /\ S \subseteq 1 .. i - 1 /\ Len(r) \in Nat /\ S # {}
  BY DEF UnicodesBefore
<1> HIDE DEF S
<1>2. m \in S /\ \A j \in S : j <= m
  <2>1. \E j \in S : \A k \in S : k <= j
    BY <1>1, Greatest
  <2>2. \A j \in S : j \in Nat
    BY <1>1
  <2>3. \E j \in S : \A k \in S : j >= k
    BY <2>1, <2>2
  <2>4. m \in S /\ \A k \in S : m >= k
    BY <2>3 DEF Max
  <2> HIDE DEF m
  <2> QED
    BY <2>2, <2>4
<1> HIDE DEF m
<1>3. m \in 1 .. Len(r) /\ m \in 1 .. i - 1
  BY <1>1, <1>2
<1>4. LeftOf(r, m, i) \in Int
  <2>1. m \in 1 .. Len(r) + 1 /\ m \in 0 .. Len(r) /\ i - 1 \in 0 .. Len(r) /\ 1 \in Nat
    BY <1>1, <1>3
  <2>2. SettingAt(r, "uc", 1, m) \in Nat
    BY <2>1, SettingIs
  <2>3. Sizes(r)[m] \in Nat /\ Sizes(r)[i - 1] \in Nat
    BY <2>1, SizesAre
  <2> QED
    BY <2>2, <2>3 DEF LeftOf
<1> QED
  BY <1>2, <1>3, <1>4 DEF m, S

LEMMA FallbackIs ==
  ASSUME NEW r \in Seq(Tokens), NEW i \in 1 .. Len(r) + 1
  PROVE  /\ Fallback(r, i) \in Nat
         /\ UnicodesBefore(r, i) = {} => Fallback(r, i) = 0
         /\ UnicodesBefore(r, i) # {} =>
              Fallback(r, i) = LET left == LeftOf(r, Max(UnicodesBefore(r, i)), i)
                               IN  IF left < 0 THEN 0 ELSE left
<1> DEFINE B == UnicodesBefore(r, i)
           left == LeftOf(r, Max(B), i)
<1>1. Fallback(r, i) = IF B = {} \/ left < 0 THEN 0 ELSE left
  BY DEF Fallback, UnicodesBefore, LeftOf
<1>2. B # {} => left \in Int
  BY UnicodesAre
<1> HIDE DEF B, left
<1>3. /\ Fallback(r, i) \in Nat
      /\ B = {} => Fallback(r, i) = 0
      /\ B # {} => Fallback(r, i) = IF left < 0 THEN 0 ELSE left
  BY <1>1, <1>2
<1> QED
  BY <1>3 DEF B, left

LEMMA FallbackOfPrefix ==
  ASSUME NEW r \in Seq(Tokens), NEW t \in Tokens, NEW i \in 1 .. Len(r) + 1
  PROVE  Fallback(Append(r, t), i) = Fallback(r, i)
<1> DEFINE q == Append(r, t)
           B == UnicodesBefore(r, i)
           last == Max(B)
<1>1. /\ q \in Seq(Tokens) /\ Len(r) \in Nat /\ i \in 1 .. Len(q) + 1
      /\ \A j \in 1 .. Len(r) : q[j] = r[j]
  BY AppendIs
<1>2. \A j \in 1 .. i - 1 : j \in 1 .. Len(r) /\ j \in 1 .. Len(r) + 1
  BY <1>1
<1>3. \A j \in 1 .. Len(r) + 1 : Hidden(q, j) = Hidden(r, j)
  BY HiddenOfPrefix
<1>4. \A j \in 1 .. Len(r) + 1 : SettingAt(q, "uc", 1, j) = SettingAt(r, "uc", 1, j)
  BY SettingOfPrefix
<1>5. \A j \in 0 .. Len(r) : Sizes(q)[j] = Sizes(r)[j]
  BY SizesOfPrefix
<1> HIDE DEF q
<1>6. UnicodesBefore(q, i) = B
  BY <1>1, <1>2, <1>3 DEF UnicodesBefore
<1>7. B # {} => last \in 1 .. Len(r)
  BY UnicodesAre
<1>8. /\ B = {} => Fallback(r, i) = 0
      /\ B # {} => Fallback(r, i) = IF LeftOf(r, last, i) < 0 THEN 0 ELSE LeftOf(r, last, i)
  BY FallbackIs
<1>9. /\ B = {} => Fallback(q, i) = 0
      /\ B # {} => Fallback(q, i) = IF LeftOf(q, last, i) < 0 THEN 0 ELSE LeftOf(q, last, i)
  <2> DEFINE A == UnicodesBefore(q, i)
             end == Max(A)
  <2>1. /\ A = {} => Fallback(q, i) = 0
        /\ A # {} => Fallback(q, i) = IF LeftOf(q, end, i) < 0 THEN 0 ELSE LeftOf(q, end, i)
    BY <1>1, FallbackIs
  <2>2. A = B /\ end = last
    BY <1>6
  <2> HIDE DEF A, B, end, last
  <2> QED
    BY <2>1, <2>2
<1> HIDE DEF B, last
<1>10. B # {} => LeftOf(q, last, i) = LeftOf(r, last, i)
  <2>1. ASSUME B # {}
        PROVE  last \in 1 .. Len(r) + 1 /\ last \in 0 .. Len(r) /\ i - 1 \in 0 .. Len(r)
    BY <1>1, <1>7, <2>1
  <2> QED
    BY <1>4, <1>5, <2>1 DEF LeftOf
<1>11. Fallback(q, i) = Fallback(r, i)
  BY <1>8, <1>9, <1>10
<1> QED
  BY <1>11 DEF q

(* A visible \uN starts a fallback, any other token uses it up.            *)
LEMMA FallbackAfter ==
  ASSUME NEW q \in Seq(Tokens), NEW m \in 1 .. Len(q)
  PROVE  Fallback(q, m + 1) =
           IF q[m].kind = "unicode" /\ ~Hidden(q, m) THEN SettingAt(q, "uc", 1, m)
           ELSE IF Fallback(q, m) > SizeOf(q[m]) THEN Fallback(q, m) - SizeOf(q[m]) ELSE 0
<1> DEFINE B == UnicodesBefore(q, m)
           C == UnicodesBefore(q, m + 1)
           now == q[m].kind = "unicode" /\ ~Hidden(q, m)
           size == SizeOf(q[m])
<1>1. /\ m \in Nat /\ Len(q) \in Nat /\ m \in 1 .. Len(q) + 1 /\ m + 1 \in 1 .. Len(q) + 1
      /\ m - 1 \in 0 .. Len(q) /\ m \in 0 .. Len(q) /\ (m + 1) - 1 = m
  OBVIOUS
<1>2. \A j : j \in 1 .. m <=> (j \in 1 .. m - 1 \/ j = m)
  BY <1>1
<1>3. C = B \cup (IF now THEN {m} ELSE {})
  BY <1>1, <1>2 DEF UnicodesBefore
<1>4. Sizes(q)[m] = Sizes(q)[m - 1] + size /\ Sizes(q)[m] \in Nat /\ Sizes(q)[m - 1] \in Nat
      /\ size \in Nat
  BY <1>1, SizesAre
<1>5. Fallback(q, m) \in Nat
  BY <1>1, FallbackIs
<1>6. B \subseteq 1 .. m - 1
  BY DEF UnicodesBefore
<1>7. C = {} => Fallback(q, m + 1) = 0
  BY <1>1, FallbackIs
<1>8. C # {} => /\ Fallback(q, m + 1) = IF LeftOf(q, Max(C), m + 1) < 0 THEN 0
                                        ELSE LeftOf(q, Max(C), m + 1)
                /\ Max(C) \in C /\ (\A j \in C : j <= Max(C)) /\ Max(C) \in 1 .. Len(q)
  BY <1>1, FallbackIs, UnicodesAre
<1>9. B = {} => Fallback(q, m) = 0
  BY <1>1, FallbackIs
<1>10. B # {} => /\ Fallback(q, m) = IF LeftOf(q, Max(B), m) < 0 THEN 0
                                     ELSE LeftOf(q, Max(B), m)
                 /\ Max(B) \in 1 .. Len(q) /\ LeftOf(q, Max(B), m) \in Int
  BY <1>1, FallbackIs, UnicodesAre
<1> DEFINE left == LeftOf(q, Max(B), m)
           top == Max(C)
<1> HIDE DEF B, C, size
<1>11. CASE now
  <2>1. C = B \cup {m} /\ C # {}
    BY <1>3, <1>11
  <2>2. top \in C /\ m <= top
    BY <1>8, <2>1
  <2> HIDE DEF top
  <2>3. top = m
    BY <1>1, <1>6, <2>1, <2>2
  <2>4. SettingAt(q, "uc", 1, m) \in Nat
    BY <1>1, SettingIs
  <2>5. LeftOf(q, m, m + 1) = SettingAt(q, "uc", 1, m)
    BY <1>1, <1>4, <2>4 DEF LeftOf
  <2> QED
    BY <1>8, <1>11, <2>1, <2>3, <2>4, <2>5 DEF top
<1>12. CASE ~now
  <2>1. C = B
    BY <1>3, <1>12
  <2>2. CASE B = {}
    <3>1. Fallback(q, m) = 0 /\ Fallback(q, m + 1) = 0
      BY <1>7, <1>9, <2>1, <2>2
    <3>2. ~(Fallback(q, m) > size)
      BY <1>4, <3>1
    <3> QED
      BY <1>12, <3>1, <3>2 DEF size
  <2>3. CASE B # {}
    <3>1. Max(B) \in 1 .. Len(q) + 1 /\ Max(B) \in 0 .. Len(q)
      BY <1>1, <1>10, <2>3
    <3>2. SettingAt(q, "uc", 1, Max(B)) \in Nat /\ Sizes(q)[Max(B)] \in Nat
      BY <3>1, SettingIs, SizesAre
    <3>3. LeftOf(q, Max(B), m + 1) = left - size
      BY <1>1, <1>4, <3>2 DEF LeftOf
    <3>4. Fallback(q, m) = (IF left < 0 THEN 0 ELSE left) /\ left \in Int
      BY <1>10, <2>3
    <3>5. Fallback(q, m + 1) = IF left - size < 0 THEN 0 ELSE left - size
      BY <1>8, <2>1, <2>3, <3>3
    <3> HIDE DEF left
    <3>6. Fallback(q, m + 1) = IF Fallback(q, m) > size THEN Fallback(q, m) - size ELSE 0
      BY <1>4, <3>4, <3>5
    <3> QED
      BY <1>12, <3>6 DEF size
  <2> QED
    BY <2>2, <2>3
<1> QED
  BY <1>11, <1>12

(* The text of the tokens up to each one.                                  *)
Characters3 == Nat \X Nat \X Nat

LEMMA TokenTextIs ==
  ASSUME NEW r \in Seq(Tokens), NEW i \in 1 .. Len(r)
  PROVE  TextOf(r, i) \in Seq(Characters3)
<1>1. i \in 1 .. Len(r) + 1 /\ i \in Nat /\ Len(r) \in Nat
  OBVIOUS
<1>2. Fallback(r, i) \in Nat /\ SettingAt(r, "font", DefaultFont, i) \in Nat
  BY <1>1, FallbackIs, SettingIs, WordTextAssumption
<1>3. r[i].n \in Nat
  BY TokenIs
<1> DEFINE from == Fallback(r, i) + 1
           long == r[i].n - from + 1
           text == [k \in 1 .. long |-> <<i, from + k - 1, 0>>]
<1>4. text \in Seq(Characters3)
  <2>1. from \in Nat /\ long \in Int /\ from >= 1
    BY <1>2, <1>3
  <2> HIDE DEF from, long
  <2>2. \A k \in 1 .. long : <<i, from + k - 1, 0>> \in Characters3
    <3>1. \A k \in 1 .. long : from + k - 1 \in Nat
      BY <2>1
    <3> QED
      BY <1>1, <3>1 DEF Characters3
  <2>3. CASE long >= 0
    <3>1. long \in Nat
      BY <2>1, <2>3
    <3>2. text \in [1 .. long -> Characters3]
      BY <2>2, Zenon
    <3> HIDE DEF text
    <3> QED
      BY <3>1, <3>2
  <2>4. CASE long < 0
    <3>1. 1 .. long = 1 .. 0
      BY <2>1, <2>4
    <3>2. text \in [1 .. long -> Characters3]
      BY <2>2, Zenon
    <3> HIDE DEF text
    <3>3. text \in [1 .. 0 -> Characters3]
      BY <3>1, <3>2, Zenon
    <3> QED
      BY <3>3
  <2> HIDE DEF text
  <2> QED
    BY <2>1, <2>3, <2>4
<1>5. << <<i, 1, 0>> >> \in Seq(Characters3)
      /\ << <<i, 1, SettingAt(r, "font", DefaultFont, i)>> >> \in Seq(Characters3)
  BY <1>1, <1>2 DEF Characters3
<1>6. <<>> \in Seq(Characters3)
  OBVIOUS
<1>7. TextOf(r, i) \in {<<>>, << <<i, 1, 0>> >>,
                        << <<i, 1, SettingAt(r, "font", DefaultFont, i)>> >>, text}
  BY DEF TextOf
<1> HIDE DEF text
<1> QED
  BY <1>4, <1>5, <1>6, <1>7

LEMMA TextIs ==
  ASSUME NEW r \in Seq(Tokens)
  PROVE  /\ TextUpTo(r)[0] = <<>>
         /\ \A k \in 1 .. Len(r) : TextUpTo(r)[k] = TextUpTo(r)[k - 1] \o TextOf(r, k)
         /\ \A k \in 0 .. Len(r) : TextUpTo(r)[k] \in Seq(Characters3)
<1> DEFINE N == Len(r)
           V == Seq(Characters3)
           F == CHOOSE f : f = [k \in 0 .. N |-> IF k = 0 THEN <<>> ELSE f[k - 1] \o TextOf(r, k)]
           step == [k \in 1 .. N |-> [Q \in V |-> Q \o TextOf(r, k)]]
<1>1. N \in Nat
  OBVIOUS
<1>2. \A k \in 1 .. N : TextOf(r, k) \in V
  BY TokenTextIs
<1>3. \A Q, R \in V : Q \o R \in V
  <2> DEFINE C == Characters3
  <2> HIDE DEF C
  <2>1. \A Q, R \in Seq(C) : Q \o R \in Seq(C)
    BY ConcatProperties
  <2> QED
    BY <2>1 DEF C
<1>4. step \in [1 .. N -> [V -> V]]
  <2> HIDE DEF N, V
  <2>1. ASSUME NEW k \in 1 .. N PROVE [Q \in V |-> Q \o TextOf(r, k)] \in [V -> V]
    BY <1>2, <1>3
  <2> QED
    BY <2>1, Zenon
<1>5. PICK f \in [0 .. N -> V] : f[0] = <<>> /\ \A k \in 1 .. N : f[k] = step[k][f[k - 1]]
  <2>1. <<>> \in V
    OBVIOUS
  <2> HIDE DEF N, step, V
  <2>2. Runs(N, V, <<>>, step)
    BY <1>1, <1>4, <2>1, StepByStep
  <2> QED
    BY <2>2 DEF Runs
<1>6. \A k \in 1 .. N : f[k] = f[k - 1] \o TextOf(r, k)
  <2>1. \A k \in 1 .. N : k - 1 \in 0 .. N
    BY <1>1
  <2> HIDE DEF N, V
  <2>2. \A k \in 1 .. N : f[k - 1] \in V
    BY <1>5, <2>1
  <2> QED
    BY <1>5, <2>2
<1>7. f = [k \in 0 .. N |-> IF k = 0 THEN <<>> ELSE f[k - 1] \o TextOf(r, k)]
  <2> HIDE DEF N, step, V
  <2>1. \A k \in 0 .. N : k # 0 => k \in 1 .. N
    BY <1>1
  <2>2. \A k \in 0 .. N : f[k] = IF k = 0 THEN <<>> ELSE f[k - 1] \o TextOf(r, k)
    BY <1>5, <1>6, <2>1
  <2> QED
    BY <1>5, <2>2
<1>8. F = [k \in 0 .. N |-> IF k = 0 THEN <<>> ELSE F[k - 1] \o TextOf(r, k)]
  BY <1>7
<1>9. TextUpTo(r) = F
  BY DEF TextUpTo
<1> HIDE DEF F
<1>10. F[0] = <<>> /\ \A k \in 1 .. N : F[k] = F[k - 1] \o TextOf(r, k)
  <2> HIDE DEF N
  <2>1. \A k \in 0 .. N : F[k] = IF k = 0 THEN <<>> ELSE F[k - 1] \o TextOf(r, k)
    BY <1>8, Zenon
  <2>2. 0 \in 0 .. N /\ \A k \in 1 .. N : k \in 0 .. N /\ k # 0
    BY <1>1
  <2> QED
    BY <2>1, <2>2, Zenon
<1> DEFINE S == {k \in 0 .. N : F[k] \in V}
<1>11. 0 \in S
  <2>1. <<>> \in V
    OBVIOUS
  <2> HIDE DEF N, V
  <2>2. 0 \in 0 .. N
    BY <1>1
  <2> QED
    BY <1>10, <2>1, <2>2
<1>12. ASSUME NEW k \in 0 .. N - 1, k \in S PROVE k + 1 \in S
  <2>1. k + 1 \in 1 .. N /\ (k + 1) - 1 = k /\ k + 1 \in 0 .. N
    BY <1>1
  <2>2. F[k + 1] = F[k] \o TextOf(r, k + 1)
    BY <1>10, <2>1
  <2>3. F[k] \in V /\ TextOf(r, k + 1) \in V
    BY <1>2, <1>12, <2>1
  <2> HIDE DEF N, V
  <2>4. F[k + 1] \in V
    BY <1>3, <2>2, <2>3
  <2> QED
    BY <2>1, <2>4
<1>13. \A k \in 0 .. N : k \in S
  <2> HIDE DEF S, N
  <2> QED
    BY <1>1, <1>11, <1>12, CountingUp
<1> HIDE DEF V
<1>14. \A k \in 0 .. N : F[k] \in V
  BY <1>13
<1> QED
  BY <1>9, <1>10, <1>14 DEF V

LEMMA TokenTextOfPrefix ==
  ASSUME NEW r \in Seq(Tokens), NEW t \in Tokens, NEW i \in 1 .. Len(r)
  PROVE  TextOf(Append(r, t), i) = TextOf(r, i)
<1> DEFINE q == Append(r, t)
<1>1. i \in 1 .. Len(r) + 1 /\ q[i] = r[i]
  BY AppendIs
<1>2. /\ Fallback(q, i) = Fallback(r, i) /\ Hidden(q, i) = Hidden(r, i)
      /\ SettingAt(q, "font", DefaultFont, i) = SettingAt(r, "font", DefaultFont, i)
  BY <1>1, FallbackOfPrefix, HiddenOfPrefix, SettingOfPrefix
<1> HIDE DEF q
<1>3. TextOf(q, i) = TextOf(r, i)
  BY <1>1, <1>2, Zenon DEF TextOf
<1> QED
  BY <1>3 DEF q

LEMMA TextUpToPrefix ==
  ASSUME NEW r \in Seq(Tokens), NEW t \in Tokens
  PROVE  TextUpTo(Append(r, t))[Len(r)] = TextUpTo(r)[Len(r)]
<1> DEFINE q == Append(r, t)
           N == Len(r)
           S == {k \in 0 .. N : TextUpTo(q)[k] = TextUpTo(r)[k]}
<1>1. N \in Nat /\ q \in Seq(Tokens) /\ Len(q) = N + 1
  BY AppendIs
<1>2. \A k \in 1 .. N : TextOf(q, k) = TextOf(r, k)
  BY TokenTextOfPrefix
<1> HIDE DEF q
<1>3. 0 \in S
  BY <1>1, TextIs
<1>4. ASSUME NEW k \in 0 .. N - 1, k \in S PROVE k + 1 \in S
  <2>1. k + 1 \in 1 .. N /\ (k + 1) - 1 = k /\ k + 1 \in 0 .. N /\ k + 1 \in 1 .. Len(q)
    BY <1>1
  <2>2. TextUpTo(r)[k + 1] = TextUpTo(r)[k] \o TextOf(r, k + 1)
    BY <2>1, TextIs
  <2>3. TextUpTo(q)[k + 1] = TextUpTo(q)[k] \o TextOf(q, k + 1)
    BY <1>1, <2>1, TextIs
  <2>4. TextUpTo(q)[k] = TextUpTo(r)[k] /\ TextOf(q, k + 1) = TextOf(r, k + 1)
    BY <1>2, <1>4, <2>1
  <2>5. TextUpTo(q)[k + 1] = TextUpTo(r)[k + 1]
    BY <2>2, <2>3, <2>4, Zenon
  <2> QED
    BY <2>1, <2>5
<1>5. \A k \in 0 .. N : k \in S
  <2> HIDE DEF S, N
  <2> QED
    BY <1>1, <1>3, <1>4, CountingUp
<1>6. N \in 0 .. N
  BY <1>1
<1> QED
  BY <1>5, <1>6 DEF q

-----------------------------------------------------------------------------
(* The invariant of the RTF reader: the settings are those in force behind *)
(* what was read, each entry of the stack holds those its group began with,*)
(* and the output with the bytes that wait is the text so far.             *)
Saved == BOOLEAN \X Nat \X Nat

RtfTypeOK ==
  rtf \in [read : Seq(Tokens), stack : Seq(Saved), skipping : BOOLEAN,
           font : Nat, uc : Nat, pending : Nat, bytes : Seq(Nat), output : Seq(Characters3)]

(* Token o opened the group at depth d that is still open behind r.        *)
Opened(r, d, o) ==
  /\ o \in 1 .. Len(r) /\ r[o].kind = "open" /\ Depth(r, o) = d - 1
  /\ \A k \in o + 1 .. Len(r) + 1 : Depth(r, k) >= d

(* The settings at token i.                                                *)
Holds(r, e, i) ==
  /\ e[1] <=> Hidden(r, i)
  /\ e[2] = SettingAt(r, "uc", 1, i) /\ e[3] = SettingAt(r, "font", DefaultFont, i)

OpenGroups(r, stack, ops) ==
  \A d \in 1 .. Len(stack) : Opened(r, d, ops[d]) /\ Holds(r, stack[d], ops[d])

Decoded(bytes, font) == [k \in DOMAIN bytes |-> <<bytes[k], 1, font>>]

RtfInv ==
  LET r == rtf.read
      i == Len(rtf.read) + 1
  IN  /\ RtfTypeOK
      /\ rtf.skipping <=> Hidden(r, i)
      /\ rtf.uc = SettingAt(r, "uc", 1, i) /\ rtf.font = SettingAt(r, "font", DefaultFont, i)
      /\ rtf.pending = Fallback(r, i)
      /\ Len(rtf.stack) = Depth(r, i) /\ \E ops : OpenGroups(r, rtf.stack, ops)
      /\ rtf.output \o Decoded(rtf.bytes, rtf.font) = TextUpTo(r)[Len(r)]

LEMMA DecodedIs ==
  ASSUME NEW bytes \in Seq(Nat), NEW font \in Nat
  PROVE  /\ Decoded(bytes, font) \in Seq(Characters3)
         /\ Decoded(<<>>, font) = <<>>
         /\ \A i \in Nat :
              Decoded(Append(bytes, i), font) = Append(Decoded(bytes, font), <<i, 1, font>>)
<1> DEFINE D == Decoded(bytes, font)
<1>1. /\ D \in Seq(Characters3) /\ Len(D) = Len(bytes) /\ Len(bytes) \in Nat
      /\ \A k \in 1 .. Len(bytes) : D[k] = <<bytes[k], 1, font>>
  <2>1. DOMAIN bytes = 1 .. Len(bytes) /\ Len(bytes) \in Nat
        /\ \A k \in 1 .. Len(bytes) : bytes[k] \in Nat
    OBVIOUS
  <2>2. \A k \in 1 .. Len(bytes) : <<bytes[k], 1, font>> \in Characters3
    BY <2>1 DEF Characters3
  <2>3. D = [k \in 1 .. Len(bytes) |-> <<bytes[k], 1, font>>]
    BY <2>1 DEF Decoded
  <2>4. D \in [1 .. Len(bytes) -> Characters3]
    BY <2>2, <2>3, Zenon
  <2> HIDE DEF D
  <2>5. D \in Seq(Characters3) /\ Len(D) = Len(bytes)
    BY <2>1, <2>4
  <2> QED
    BY <2>1, <2>3, <2>5
<1>2. Decoded(<<>>, font) = <<>>
  BY DEF Decoded
<1>3. ASSUME NEW i \in Nat
      PROVE  Decoded(Append(bytes, i), font) = Append(D, <<i, 1, font>>)
  <2> DEFINE b == Append(bytes, i)
             c == <<i, 1, font>>
             E == Append(D, c)
  <2>1. /\ b \in Seq(Nat) /\ Len(b) = Len(bytes) + 1 /\ DOMAIN b = 1 .. Len(bytes) + 1
        /\ (\A k \in 1 .. Len(bytes) : b[k] = bytes[k]) /\ b[Len(bytes) + 1] = i
    BY AppendIs
  <2>2. c \in Characters3
    BY DEF Characters3
  <2> HIDE DEF D, b
  <2>3. /\ E \in Seq(Characters3) /\ Len(E) = Len(bytes) + 1 /\ DOMAIN E = 1 .. Len(bytes) + 1
        /\ (\A k \in 1 .. Len(bytes) : E[k] = D[k]) /\ E[Len(bytes) + 1] = c
    <3> HIDE DEF c
    <3>1. /\ E \in Seq(Characters3) /\ Len(E) = Len(D) + 1
          /\ (\A k \in 1 .. Len(D) : E[k] = D[k]) /\ E[Len(D) + 1] = c
      BY <1>1, <2>2, AppendIs
    <3> HIDE DEF E
    <3> QED
      BY <1>1, <3>1
  <2>4. \A k \in 1 .. Len(bytes) + 1 : k \in 1 .. Len(bytes) \/ k = Len(bytes) + 1
    BY <1>1
  <2>5. \A k \in 1 .. Len(bytes) + 1 : E[k] = <<b[k], 1, font>>
    <3> HIDE DEF E
    <3> QED
      BY <1>1, <2>1, <2>3, <2>4 DEF c
  <2> HIDE DEF E
  <2>6. Decoded(b, font) = [k \in 1 .. Len(bytes) + 1 |-> <<b[k], 1, font>>]
    BY <2>1 DEF Decoded
  <2>7. E = [k \in 1 .. Len(bytes) + 1 |-> E[k]]
    BY <2>3
  <2>8. Decoded(b, font) = E
    BY <2>5, <2>6, <2>7
  <2> QED
    BY <2>8 DEF E, b, D, c
<1> QED
  BY <1>1, <1>2, <1>3

LEMMA MinOfTwo ==
  ASSUME NEW a \in Nat, NEW b \in Nat
  PROVE  Min({a, b}) = IF a <= b THEN a ELSE b
<1> DEFINE m == Min({a, b})
<1>1. \E x \in {a, b} : \A y \in {a, b} : x <= y
  OBVIOUS
<1>2. m \in {a, b} /\ \A y \in {a, b} : m <= y
  BY <1>1 DEF Min
<1> HIDE DEF m
<1>3. m = IF a <= b THEN a ELSE b
  BY <1>2
<1> QED
  BY <1>3 DEF m

(* What one token does to each variable of the reader.                     *)
TokenText(s, t, i) ==
  IF s.skipping THEN <<>>
  ELSE IF t.kind = "unicode" THEN << <<i, 1, 0>> >>
  ELSE IF t.kind = "text" THEN [k \in 1 .. t.n - s.pending |-> <<i, s.pending + k, 0>>]
  ELSE <<>>

Reader(r, st, sk, fo, uc, pe, by, ou) ==
  [read |-> r, stack |-> st, skipping |-> sk, font |-> fo, uc |-> uc, pending |-> pe,
   bytes |-> by, output |-> ou]

LEMMA ReaderIs ==
  ASSUME RtfTypeOK
  PROVE  rtf = Reader(rtf.read, rtf.stack, rtf.skipping, rtf.font, rtf.uc, rtf.pending,
                      rtf.bytes, rtf.output)
  BY DEF RtfTypeOK, Reader

LEMMA ReaderFields ==
  ASSUME NEW r, NEW st, NEW sk, NEW fo, NEW uc, NEW pe, NEW by, NEW ou
  PROVE  LET s == Reader(r, st, sk, fo, uc, pe, by, ou)
         IN  /\ s.read = r /\ s.stack = st /\ s.skipping = sk /\ s.font = fo /\ s.uc = uc
             /\ s.pending = pe /\ s.bytes = by /\ s.output = ou
  BY DEF Reader

LEMMA FlushIs ==
  ASSUME NEW r, NEW st, NEW sk, NEW fo, NEW uc, NEW pe, NEW by, NEW ou
  PROVE  Flush(Reader(r, st, sk, fo, uc, pe, by, ou))
           = Reader(r, st, sk, fo, uc, pe, <<>>, ou \o Decoded(by, fo))
<1> DEFINE s == Reader(r, st, sk, fo, uc, pe, by, ou)
           more == ou \o Decoded(by, fo)
<1>1. s.output \o [k \in DOMAIN s.bytes |-> <<s.bytes[k], 1, s.font>>] = more
  BY DEF Reader, Decoded
<1>2. [s EXCEPT !.output = more, !.bytes = <<>>] = Reader(r, st, sk, fo, uc, pe, <<>>, more)
  <2> HIDE DEF s, more
  <2>1. [s EXCEPT !.output = more, !.bytes = <<>>]
          = [[s EXCEPT !.output = more] EXCEPT !.bytes = <<>>]
    OBVIOUS
  <2>2. [s EXCEPT !.output = more] = Reader(r, st, sk, fo, uc, pe, by, more)
    BY DEF Reader, s
  <2>3. [Reader(r, st, sk, fo, uc, pe, by, more) EXCEPT !.bytes = <<>>]
          = Reader(r, st, sk, fo, uc, pe, <<>>, more)
    BY DEF Reader
  <2> QED
    BY <2>1, <2>2, <2>3
<1> HIDE DEF s, more
<1>3. Flush(s) = [s EXCEPT !.output = more, !.bytes = <<>>]
  BY <1>1, Zenon DEF Flush
<1> QED
  BY <1>2, <1>3 DEF s, more

LEMMA OpenGroupIs ==
  ASSUME NEW r, NEW st, NEW sk, NEW fo, NEW uc, NEW pe, NEW by, NEW ou
  PROVE  OpenGroup(Reader(r, st, sk, fo, uc, pe, by, ou))
           = Reader(r, Append(st, <<sk, uc, fo>>), sk, fo, uc, pe, by, ou)
<1> DEFINE s == Reader(r, st, sk, fo, uc, pe, by, ou)
           more == Append(st, <<sk, uc, fo>>)
<1>1. Append(s.stack, <<s.skipping, s.uc, s.font>>) = more
  BY ReaderFields
<1>2. [s EXCEPT !.stack = more] = Reader(r, more, sk, fo, uc, pe, by, ou)
  <2> HIDE DEF more
  <2> QED
    BY DEF Reader
<1> HIDE DEF s, more
<1>3. OpenGroup(s) = [s EXCEPT !.stack = more]
  BY <1>1, Zenon DEF OpenGroup
<1> QED
  BY <1>2, <1>3 DEF s, more

LEMMA CloseGroupIs ==
  ASSUME NEW r, NEW st, NEW sk, NEW fo, NEW uc, NEW pe, NEW by, NEW ou, st # <<>>
  PROVE  CloseGroup(Reader(r, st, sk, fo, uc, pe, by, ou))
           = Reader(r, Front(st), Last(st)[1], Last(st)[3], Last(st)[2], pe, by, ou)
<1> DEFINE s == Reader(r, st, sk, fo, uc, pe, by, ou)
           front == Front(st)
           saved == Last(st)
<1>1. s.stack = st
  BY ReaderFields
<1>2. [s EXCEPT !.stack = front, !.skipping = saved[1], !.uc = saved[2], !.font = saved[3]]
        = Reader(r, front, saved[1], saved[3], saved[2], pe, by, ou)
  <2> DEFINE a == saved[1]
             b == saved[2]
             c == saved[3]
  <2> HIDE DEF s, front, a, b, c
  <2>1. [s EXCEPT !.stack = front, !.skipping = a, !.uc = b, !.font = c]
          = [[[[s EXCEPT !.stack = front] EXCEPT !.skipping = a] EXCEPT !.uc = b] EXCEPT !.font = c]
    OBVIOUS
  <2>2. [s EXCEPT !.stack = front] = Reader(r, front, sk, fo, uc, pe, by, ou)
    BY DEF Reader, s
  <2>3. [Reader(r, front, sk, fo, uc, pe, by, ou) EXCEPT !.skipping = a]
          = Reader(r, front, a, fo, uc, pe, by, ou)
    BY DEF Reader
  <2>4. [Reader(r, front, a, fo, uc, pe, by, ou) EXCEPT !.uc = b]
          = Reader(r, front, a, fo, b, pe, by, ou)
    BY DEF Reader
  <2>5. [Reader(r, front, a, fo, b, pe, by, ou) EXCEPT !.font = c]
          = Reader(r, front, a, c, b, pe, by, ou)
    BY DEF Reader
  <2> QED
    BY <2>1, <2>2, <2>3, <2>4, <2>5 DEF a, b, c
<1> HIDE DEF s, front, saved
<1>3. CloseGroup(s) = [s EXCEPT !.stack = front, !.skipping = saved[1],
                                !.uc = saved[2], !.font = saved[3]]
  BY <1>1, Zenon DEF CloseGroup, front, saved
<1> QED
  BY <1>2, <1>3 DEF s, front, saved

OnSkip(t, skipping) == IF t.kind = "skip" THEN TRUE ELSE skipping

LEMMA ControlWordIs ==
  ASSUME NEW r, NEW st, NEW sk \in BOOLEAN, NEW fo, NEW uc, NEW pe, NEW by, NEW ou, NEW t, NEW i,
         t.kind \in {"skip", "font", "uc", "unicode"}
  PROVE  ControlWord(Reader(r, st, sk, fo, uc, pe, by, ou), t, i) =
           Reader(r, st, OnSkip(t, sk),
                  IF t.kind = "font" /\ ~sk THEN t.n ELSE fo,
                  IF t.kind = "uc" /\ ~sk THEN t.n ELSE uc,
                  IF t.kind = "unicode" /\ ~sk THEN uc ELSE pe, by,
                  IF t.kind = "unicode" /\ ~sk THEN Append(ou, <<i, 1, 0>>) ELSE ou)
<1> DEFINE s == Reader(r, st, sk, fo, uc, pe, by, ou)
           c == <<i, 1, 0>>
           more == Append(ou, c)
<1>1. s.skipping = sk /\ s.uc = uc /\ s.output = ou
  BY DEF Reader
<1>2. CASE t.kind = "skip"
  <2> DEFINE yes == TRUE
  <2>1. ControlWord(s, t, i) = [s EXCEPT !.skipping = yes]
    BY <1>2 DEF ControlWord
  <2>2. yes = OnSkip(t, sk)
    BY <1>2 DEF OnSkip
  <2> HIDE DEF yes
  <2>3. [s EXCEPT !.skipping = yes] = Reader(r, st, yes, fo, uc, pe, by, ou)
    BY DEF Reader
  <2> HIDE DEF s
  <2> QED
    BY <1>2, <2>1, <2>2, <2>3 DEF s
<1>0. t.kind # "skip" => OnSkip(t, sk) = sk
  BY DEF OnSkip
<1>3. CASE t.kind = "font" /\ ~sk
  <2>1. [s EXCEPT !.font = t.n] = Reader(r, st, sk, t.n, uc, pe, by, ou)
    BY DEF Reader
  <2> HIDE DEF s
  <2>2. ControlWord(s, t, i) = [s EXCEPT !.font = t.n]
    BY <1>1, <1>3 DEF ControlWord
  <2> QED
    BY <1>0, <1>3, <2>1, <2>2 DEF s
<1>4. CASE t.kind = "uc" /\ ~sk
  <2>1. [s EXCEPT !.uc = t.n] = Reader(r, st, sk, fo, t.n, pe, by, ou)
    BY DEF Reader
  <2> HIDE DEF s
  <2>2. ControlWord(s, t, i) = [s EXCEPT !.uc = t.n]
    BY <1>1, <1>4 DEF ControlWord
  <2> QED
    BY <1>0, <1>4, <2>1, <2>2 DEF s
<1>5. CASE t.kind = "unicode" /\ ~sk
  <2>1. [s EXCEPT !.output = more] = Reader(r, st, sk, fo, uc, pe, by, more)
    <3> HIDE DEF more
    <3> QED
      BY DEF Reader
  <2>2. [Reader(r, st, sk, fo, uc, pe, by, more) EXCEPT !.pending = uc]
          = Reader(r, st, sk, fo, uc, uc, by, more)
    <3> HIDE DEF more
    <3> QED
      BY DEF Reader
  <2> HIDE DEF s, c, more
  <2>3. [s EXCEPT !.output = more, !.pending = uc]
          = [[s EXCEPT !.output = more] EXCEPT !.pending = uc]
    OBVIOUS
  <2>4. ControlWord(s, t, i) = [s EXCEPT !.output = Append(s.output, c), !.pending = s.uc]
    BY <1>1, <1>5 DEF ControlWord, c
  <2>5. Append(s.output, c) = more /\ s.uc = uc
    BY <1>1 DEF more
  <2>6. ControlWord(s, t, i) = Reader(r, st, sk, fo, uc, uc, by, more)
    BY <2>1, <2>2, <2>3, <2>4, <2>5
  <2> QED
    BY <1>0, <1>5, <2>6 DEF s, c, more
<1>6. CASE t.kind # "skip" /\ sk
  <2> HIDE DEF s
  <2>1. ControlWord(s, t, i) = s
    BY <1>1, <1>6 DEF ControlWord
  <2> QED
    BY <1>0, <1>6, <2>1 DEF s
<1> QED
  BY <1>2, <1>3, <1>4, <1>5, <1>6

(* What is left of a text behind the fallback.                             *)
Rest(t, pending, i) == [k \in 1 .. t.n - pending |-> <<i, pending + k, 0>>]

LEMMA CharactersAre ==
  ASSUME NEW r, NEW st, NEW sk \in BOOLEAN, NEW fo, NEW uc, NEW pe \in Nat, NEW by, NEW ou,
         NEW t \in Tokens, NEW i, t.kind \in {"text", "byte"}
  PROVE  Characters(Reader(r, st, sk, fo, uc, pe, by, ou), t, i) =
           Reader(r, st, sk, fo, uc, IF pe > SizeOf(t) THEN pe - SizeOf(t) ELSE 0,
                  IF t.kind = "byte" /\ ~sk /\ pe = 0 THEN Append(by, i) ELSE by,
                  IF t.kind = "text" /\ ~sk /\ t.n > pe
                  THEN ou \o Rest(t, pe, i) ELSE ou)
<1> DEFINE s == Reader(r, st, sk, fo, uc, pe, by, ou)
           length == IF t.kind = "text" THEN t.n ELSE 1
           dropped == Min({s.pending, length})
           rest == [s EXCEPT !.pending = @ - dropped]
           left == IF pe > SizeOf(t) THEN pe - SizeOf(t) ELSE 0
           new == [k \in 1 .. length - dropped |-> <<i, dropped + k, 0>>]
<1>1. s.skipping = sk /\ s.pending = pe /\ s.output = ou /\ s.bytes = by
  BY DEF Reader
<1>2. length = SizeOf(t) /\ length \in Nat
  BY WordTextAssumption DEF SizeOf
<1>3. dropped = IF pe <= length THEN pe ELSE length
  <2> HIDE DEF s, length
  <2> QED
    BY <1>1, <1>2, MinOfTwo
<1> HIDE DEF dropped
<1>4. pe - dropped = left
  BY <1>2, <1>3
<1>5. rest = Reader(r, st, sk, fo, uc, left, by, ou)
  <2> HIDE DEF left
  <2>1. rest = [s EXCEPT !.pending = left]
    BY <1>1, <1>4
  <2>2. [s EXCEPT !.pending = left] = Reader(r, st, sk, fo, uc, left, by, ou)
    BY DEF Reader
  <2> QED
    BY <2>1, <2>2
<1> HIDE DEF s, left
<1>6. Characters(s, t, i) =
        IF s.skipping \/ dropped = length THEN rest
        ELSE IF t.kind = "byte" THEN [rest EXCEPT !.bytes = Append(@, i)]
        ELSE [rest EXCEPT !.output = @ \o new]
  BY DEF Characters, dropped
<1> HIDE DEF rest, length, new
<1>7. rest.bytes = by /\ rest.output = ou
  BY <1>5, ReaderFields
<1>8. CASE sk \/ dropped = length
  <2>1. Characters(s, t, i) = rest
    BY <1>1, <1>6, <1>8
  <2>2. ~(t.kind = "byte" /\ ~sk /\ pe = 0)
    BY <1>2, <1>3, <1>8 DEF SizeOf
  <2>3. ~(t.kind = "text" /\ ~sk /\ t.n > pe)
    BY <1>2, <1>3, <1>8 DEF SizeOf
  <2> QED
    BY <1>5, <2>1, <2>2, <2>3 DEF s, left
<1>9. CASE ~sk /\ dropped # length /\ t.kind = "byte"
  <2>1. Characters(s, t, i) = [rest EXCEPT !.bytes = Append(by, i)]
    BY <1>1, <1>6, <1>7, <1>9
  <2>2. pe = 0
    BY <1>2, <1>3, <1>9 DEF SizeOf
  <2>3. [Reader(r, st, sk, fo, uc, left, by, ou) EXCEPT !.bytes = Append(by, i)]
          = Reader(r, st, sk, fo, uc, left, Append(by, i), ou)
    BY DEF Reader
  <2> QED
    BY <1>5, <1>9, <2>1, <2>2, <2>3 DEF s, left
<1>10. CASE ~sk /\ dropped # length /\ t.kind = "text"
  <2>1. Characters(s, t, i) = [rest EXCEPT !.output = ou \o new]
    BY <1>1, <1>6, <1>7, <1>10
  <2>2. length = t.n /\ dropped = pe /\ t.n > pe
    BY <1>2, <1>3, <1>10 DEF SizeOf
  <2>3. new = Rest(t, pe, i)
    BY <2>2 DEF new, Rest
  <2>4. [Reader(r, st, sk, fo, uc, left, by, ou) EXCEPT !.output = ou \o new]
          = Reader(r, st, sk, fo, uc, left, by, ou \o new)
    <3> DEFINE more == ou \o new
    <3> HIDE DEF more
    <3>1. [Reader(r, st, sk, fo, uc, left, by, ou) EXCEPT !.output = more]
            = Reader(r, st, sk, fo, uc, left, by, more)
      BY DEF Reader
    <3> QED
      BY <3>1 DEF more
  <2> QED
    BY <1>5, <1>10, <2>1, <2>2, <2>3, <2>4 DEF s, left
<1> QED
  BY <1>8, <1>9, <1>10

LEMMA TokenRead ==
  ASSUME RtfTypeOK, NEW t \in Tokens, t.kind = "close" => rtf.stack # <<>>
  PROVE  LET i == Len(rtf.read) + 1
             saved == Last(rtf.stack)
         IN  ReadToken(rtf, t) =
               Reader(Append(rtf.read, t),
                      IF t.kind = "open" THEN Append(rtf.stack, <<rtf.skipping, rtf.uc, rtf.font>>)
                      ELSE IF t.kind = "close" THEN Front(rtf.stack) ELSE rtf.stack,
                      IF t.kind = "close" THEN saved[1]
                      ELSE OnSkip(t, rtf.skipping),
                      IF t.kind = "close" THEN saved[3]
                      ELSE IF t.kind = "font" /\ ~rtf.skipping THEN t.n ELSE rtf.font,
                      IF t.kind = "close" THEN saved[2]
                      ELSE IF t.kind = "uc" /\ ~rtf.skipping THEN t.n ELSE rtf.uc,
                      IF t.kind = "unicode" /\ ~rtf.skipping THEN rtf.uc
                      ELSE IF rtf.pending > SizeOf(t) THEN rtf.pending - SizeOf(t) ELSE 0,
                      IF t.kind # "byte" THEN <<>>
                      ELSE IF rtf.skipping \/ rtf.pending > 0 THEN rtf.bytes
                      ELSE Append(rtf.bytes, i),
                      IF t.kind = "byte" THEN rtf.output
                      ELSE (rtf.output \o Decoded(rtf.bytes, rtf.font)) \o TokenText(rtf, t, i))
<1> DEFINE s == ReadToken(rtf, t)
           i == Len(rtf.read) + 1
           saved == Last(rtf.stack)
           q == Append(rtf.read, t)
           out == rtf.output \o Decoded(rtf.bytes, rtf.font)
           by == IF t.kind = "byte" THEN rtf.bytes ELSE <<>>
           ou == IF t.kind = "byte" THEN rtf.output ELSE out
           flushed == Reader(q, rtf.stack, rtf.skipping, rtf.font, rtf.uc, rtf.pending, by, ou)
           started == [rtf EXCEPT !.read = q]
           stack2 == IF t.kind = "open" THEN Append(rtf.stack, <<rtf.skipping, rtf.uc, rtf.font>>)
                     ELSE IF t.kind = "close" THEN Front(rtf.stack) ELSE rtf.stack
           skipping2 == IF t.kind = "close" THEN saved[1]
                        ELSE OnSkip(t, rtf.skipping)
           font2 == IF t.kind = "close" THEN saved[3]
                    ELSE IF t.kind = "font" /\ ~rtf.skipping THEN t.n ELSE rtf.font
           uc2 == IF t.kind = "close" THEN saved[2]
                  ELSE IF t.kind = "uc" /\ ~rtf.skipping THEN t.n ELSE rtf.uc
           pending2 == IF t.kind = "unicode" /\ ~rtf.skipping THEN rtf.uc
                       ELSE IF rtf.pending > SizeOf(t) THEN rtf.pending - SizeOf(t) ELSE 0
           bytes2 == IF t.kind # "byte" THEN <<>>
                     ELSE IF rtf.skipping \/ rtf.pending > 0 THEN rtf.bytes
                     ELSE Append(rtf.bytes, i)
           output2 == IF t.kind = "byte" THEN rtf.output ELSE out \o TokenText(rtf, t, i)
<1> SUFFICES s = Reader(q, stack2, skipping2, font2, uc2, pending2, bytes2, output2)
  OBVIOUS
<1>0. t.kind # "skip" => OnSkip(t, rtf.skipping) = rtf.skipping
  BY DEF OnSkip
<1>1. started = Reader(q, rtf.stack, rtf.skipping, rtf.font, rtf.uc, rtf.pending,
                       rtf.bytes, rtf.output)
  <2> DEFINE r == rtf.read
             st == rtf.stack
             sk == rtf.skipping
             fo == rtf.font
             uc == rtf.uc
             pe == rtf.pending
             b == rtf.bytes
             o == rtf.output
  <2>1. rtf = Reader(r, st, sk, fo, uc, pe, b, o)
    BY ReaderIs
  <2> HIDE DEF r, st, sk, fo, uc, pe, b, o, q
  <2>2. [Reader(r, st, sk, fo, uc, pe, b, o) EXCEPT !.read = q]
          = Reader(q, st, sk, fo, uc, pe, b, o)
    BY DEF Reader
  <2> QED
    BY <2>1, <2>2 DEF st, sk, fo, uc, pe, b, o
<1>2. Flushed(started, t) = flushed
  <2>1. Flush(started) = Reader(q, rtf.stack, rtf.skipping, rtf.font, rtf.uc, rtf.pending,
                                <<>>, out)
    BY <1>1, FlushIs
  <2> HIDE DEF started
  <2> QED
    BY <1>1, <2>1 DEF Flushed
<1>3. rtf.skipping \in BOOLEAN /\ rtf.pending \in Nat /\ rtf.uc \in Nat
      /\ t.kind \in TokenKinds /\ t.n \in Nat
  BY WordTextAssumption DEF RtfTypeOK
<1>4. s = IF t.kind = "open" THEN OpenGroup(flushed)
          ELSE IF t.kind = "close" THEN CloseGroup(flushed)
          ELSE IF t.kind \in {"text", "byte"} THEN Characters(flushed, t, i)
          ELSE ControlWord(flushed, t, i)
  <2> HIDE DEF flushed
  <2>1. started = [rtf EXCEPT !.read = Append(@, t)]
    OBVIOUS
  <2> HIDE DEF started
  <2> QED
    BY <1>2, <2>1, Zenon DEF ReadToken
<1>5. out \in Seq(Characters3) /\ out \o <<>> = out
      /\ \A c \in Characters3 : Append(out, c) = out \o <<c>>
  <2> DEFINE C == Characters3
             d == Decoded(rtf.bytes, rtf.font)
             o == rtf.output
  <2>1. d \in Seq(C) /\ o \in Seq(C)
    BY DecodedIs DEF RtfTypeOK
  <2> HIDE DEF C, d, o
  <2>2. o \o d \in Seq(C)
    BY <2>1, ConcatProperties
  <2>3. out = o \o d
    BY DEF o, d
  <2> HIDE DEF out
  <2>4. out \in Seq(C)
    BY <2>2, <2>3
  <2>5. out \o <<>> = out
    BY <2>4, ConcatEmptySeq
  <2>6. \A c \in C : Append(out, c) = out \o <<c>>
    BY <2>4, AppendIsConcat
  <2> QED
    BY <2>4, <2>5, <2>6 DEF C
<1> DEFINE pe0 == IF rtf.pending > SizeOf(t) THEN rtf.pending - SizeOf(t) ELSE 0
<1>6. t.kind \notin {"text", "byte"} => SizeOf(t) = 0 /\ pe0 = rtf.pending
  BY <1>3 DEF SizeOf
<1> HIDE DEF started, s, flushed, q, out, pe0
<1>7. CASE t.kind = "open"
  <2>1. s = Reader(q, Append(rtf.stack, <<rtf.skipping, rtf.uc, rtf.font>>), rtf.skipping,
                   rtf.font, rtf.uc, rtf.pending, <<>>, out)
    BY <1>4, <1>7, OpenGroupIs DEF flushed
  <2>2. pending2 = rtf.pending /\ output2 = out
    BY <1>5, <1>6, <1>7 DEF TokenText, pe0
  <2> QED
    BY <1>0, <1>7, <2>1, <2>2
<1>8. CASE t.kind = "close"
  <2>1. s = Reader(q, Front(rtf.stack), saved[1], saved[3], saved[2], rtf.pending, <<>>, out)
    BY <1>4, <1>8, CloseGroupIs DEF flushed
  <2>2. pending2 = rtf.pending /\ output2 = out
    BY <1>5, <1>6, <1>8 DEF TokenText, pe0
  <2> HIDE DEF saved
  <2> QED
    BY <1>8, <2>1, <2>2
<1>9. CASE t.kind \in {"skip", "font", "uc", "unicode"}
  <2>1. s = Reader(q, rtf.stack, OnSkip(t, rtf.skipping),
                   IF t.kind = "font" /\ ~rtf.skipping THEN t.n ELSE rtf.font,
                   IF t.kind = "uc" /\ ~rtf.skipping THEN t.n ELSE rtf.uc,
                   IF t.kind = "unicode" /\ ~rtf.skipping THEN rtf.uc ELSE rtf.pending, by,
                   IF t.kind = "unicode" /\ ~rtf.skipping THEN Append(ou, <<i, 1, 0>>) ELSE ou)
    <3> DEFINE st == rtf.stack
               sk == rtf.skipping
               fo == rtf.font
               uc == rtf.uc
               pe == rtf.pending
    <3>0. sk \in BOOLEAN
      BY <1>3
    <3>1. flushed = Reader(q, st, sk, fo, uc, pe, by, ou)
      BY DEF flushed
    <3>2. s = ControlWord(flushed, t, i)
      BY <1>4, <1>9
    <3> HIDE DEF st, sk, fo, uc, pe, by, ou, i, q, s, flushed
    <3>3. ControlWord(Reader(q, st, sk, fo, uc, pe, by, ou), t, i) =
            Reader(q, st, OnSkip(t, sk),
                   IF t.kind = "font" /\ ~sk THEN t.n ELSE fo,
                   IF t.kind = "uc" /\ ~sk THEN t.n ELSE uc,
                   IF t.kind = "unicode" /\ ~sk THEN uc ELSE pe, by,
                   IF t.kind = "unicode" /\ ~sk THEN Append(ou, <<i, 1, 0>>) ELSE ou)
      BY <1>9, <3>0, ControlWordIs
    <3> QED
      BY <3>1, <3>2, <3>3 DEF st, sk, fo, uc, pe
  <2>2. bytes2 = <<>> /\ by = <<>> /\ ou = out
    BY <1>9
  <2>3. pending2 = IF t.kind = "unicode" /\ ~rtf.skipping THEN rtf.uc ELSE rtf.pending
    BY <1>6, <1>9 DEF pe0
  <2>4. output2 = IF t.kind = "unicode" /\ ~rtf.skipping THEN Append(out, <<i, 1, 0>>) ELSE out
    <3>0. i \in Nat
      BY DEF RtfTypeOK
    <3> HIDE DEF i
    <3>1. <<i, 1, 0>> \in Characters3
      BY <3>0 DEF Characters3
    <3> QED
      BY <1>5, <1>9, <3>1 DEF TokenText
  <2> HIDE DEF by, ou
  <2> QED
    BY <1>0, <1>9, <2>1, <2>2, <2>3, <2>4
<1>10. CASE t.kind \in {"text", "byte"}
  <2> DEFINE new == [k \in 1 .. t.n - rtf.pending |-> <<i, rtf.pending + k, 0>>]
  <2>1. s = Reader(q, rtf.stack, rtf.skipping, rtf.font, rtf.uc,
                   IF rtf.pending > SizeOf(t) THEN rtf.pending - SizeOf(t) ELSE 0,
                   IF t.kind = "byte" /\ ~rtf.skipping /\ rtf.pending = 0
                   THEN Append(by, i) ELSE by,
                   IF t.kind = "text" /\ ~rtf.skipping /\ t.n > rtf.pending
                   THEN ou \o new ELSE ou)
    <3> DEFINE st == rtf.stack
               sk == rtf.skipping
               fo == rtf.font
               uc == rtf.uc
               pe == rtf.pending
    <3>0. sk \in BOOLEAN /\ pe \in Nat
      BY <1>3
    <3>1. flushed = Reader(q, st, sk, fo, uc, pe, by, ou)
      BY DEF flushed
    <3>2. s = Characters(flushed, t, i)
      BY <1>4, <1>10
    <3> HIDE DEF st, sk, fo, uc, pe, by, ou, i, new, q, s, flushed
    <3>3. Characters(Reader(q, st, sk, fo, uc, pe, by, ou), t, i) =
            Reader(q, st, sk, fo, uc, IF pe > SizeOf(t) THEN pe - SizeOf(t) ELSE 0,
                   IF t.kind = "byte" /\ ~sk /\ pe = 0 THEN Append(by, i) ELSE by,
                   IF t.kind = "text" /\ ~sk /\ t.n > pe
                   THEN ou \o Rest(t, pe, i) ELSE ou)
      BY <1>10, <3>0, CharactersAre
    <3>4. new = Rest(t, pe, i)
      BY DEF new, Rest, pe
    <3> QED
      BY <3>1, <3>2, <3>3, <3>4 DEF st, sk, fo, uc, pe
  <2>2. CASE t.kind = "byte"
    <3>1. bytes2 = IF ~rtf.skipping /\ rtf.pending = 0 THEN Append(by, i) ELSE by
      BY <1>3, <2>2
    <3> QED
      BY <1>0, <2>1, <2>2, <3>1
  <2>3. CASE t.kind = "text"
    <3>1. output2 = IF ~rtf.skipping /\ t.n > rtf.pending THEN out \o new ELSE out
      <4>1. CASE rtf.skipping
        BY <1>5, <2>3, <4>1 DEF TokenText
      <4>2. CASE ~rtf.skipping /\ t.n > rtf.pending
        BY <2>3, <4>2 DEF TokenText
      <4>3. CASE ~rtf.skipping /\ ~(t.n > rtf.pending)
        <5>1. 1 .. t.n - rtf.pending = {}
          BY <1>3, <4>3
        <5>2. new = <<>>
          BY <5>1
        <5>3. TokenText(rtf, t, i) = new
          BY <2>3, <4>3 DEF TokenText
        <5> HIDE DEF new
        <5> QED
          BY <1>5, <2>3, <4>3, <5>2, <5>3
      <4> QED
        BY <1>3, <4>1, <4>2, <4>3
    <3> HIDE DEF new
    <3> QED
      BY <1>0, <2>1, <2>3, <3>1
  <2> QED
    BY <1>10, <2>2, <2>3
<1> QED
  BY <1>3, <1>7, <1>8, <1>9, <1>10 DEF TokenKinds

LEMMA OpenedStays ==
  ASSUME NEW r \in Seq(Tokens), NEW t \in Tokens, NEW d \in Nat, NEW o, NEW e,
         Opened(r, d, o), Holds(r, e, o), Depth(Append(r, t), Len(r) + 2) >= d
  PROVE  Opened(Append(r, t), d, o) /\ Holds(Append(r, t), e, o)
<1> DEFINE q == Append(r, t)
           n == Len(r)
<1>1. /\ n \in Nat /\ Len(q) = n + 1 /\ \A j \in 1 .. n : q[j] = r[j]
  BY AppendIs
<1>2. \A k \in 1 .. n + 1 : Depth(q, k) = Depth(r, k)
  BY DepthOfPrefix
<1>3. o \in 1 .. n /\ r[o].kind = "open" /\ Depth(r, o) = d - 1
      /\ \A k \in o + 1 .. n + 1 : Depth(r, k) >= d
  BY DEF Opened
<1>4. Depth(q, n + 2) >= d
  OBVIOUS
<1> HIDE DEF q, n
<1>5. o \in 1 .. n + 1 /\ o \in 1 .. Len(q)
  BY <1>1, <1>3
<1>6. \A k \in o + 1 .. Len(q) + 1 : (k \in o + 1 .. n + 1 /\ k \in 1 .. n + 1) \/ k = n + 2
  BY <1>1, <1>3
<1>7. \A k \in o + 1 .. Len(q) + 1 : Depth(q, k) >= d
  BY <1>2, <1>3, <1>4, <1>6
<1>8. Opened(q, d, o)
  BY <1>1, <1>2, <1>3, <1>5, <1>7 DEF Opened
<1>9. /\ Hidden(q, o) = Hidden(r, o) /\ SettingAt(q, "uc", 1, o) = SettingAt(r, "uc", 1, o)
      /\ SettingAt(q, "font", DefaultFont, o) = SettingAt(r, "font", DefaultFont, o)
  BY <1>5, HiddenOfPrefix, SettingOfPrefix DEF q, n
<1>10. Holds(q, e, o)
  BY <1>9 DEF Holds
<1> QED
  BY <1>8, <1>10 DEF q

LEMMA DepthAfter ==
  ASSUME NEW r \in Seq(Tokens), NEW t \in Tokens
  PROVE  Depth(Append(r, t), Len(r) + 2) =
           Depth(r, Len(r) + 1)
             + (IF t.kind = "open" THEN 1 ELSE IF t.kind = "close" THEN -1 ELSE 0)
<1> DEFINE q == Append(r, t)
           n == Len(r)
<1>1. q \in Seq(Tokens) /\ n \in Nat /\ Len(q) = n + 1 /\ q[n + 1] = t
  BY AppendIs
<1>2. Depth(q, n + 1) = Depth(r, n + 1)
  <2>1. n + 1 \in 1 .. n + 1
    BY <1>1
  <2> QED
    BY <2>1, DepthOfPrefix
<1> HIDE DEF q, n
<1>3. n + 1 \in 1 .. Len(q) /\ (n + 1) + 1 = n + 2
  BY <1>1
<1>4. Depth(q, (n + 1) + 1) = Depth(q, n + 1) + (IF q[n + 1].kind = "open" THEN 1
                                                 ELSE IF q[n + 1].kind = "close" THEN -1 ELSE 0)
  BY <1>1, <1>3, DepthIs
<1>5. Depth(q, n + 2) = Depth(r, n + 1) + (IF t.kind = "open" THEN 1
                                           ELSE IF t.kind = "close" THEN -1 ELSE 0)
  BY <1>1, <1>2, <1>3, <1>4
<1> QED
  BY <1>5 DEF q, n

(* The groups that are open behind one more token.                         *)
LEMMA GroupsStay ==
  ASSUME NEW r \in Seq(Tokens), NEW t \in Tokens, NEW stack \in Seq(Saved), NEW ops,
         Len(stack) = Depth(r, Len(r) + 1), OpenGroups(r, stack, ops),
         t.kind \notin {"open", "close"}
  PROVE  /\ Depth(Append(r, t), Len(r) + 2) = Len(stack)
         /\ OpenGroups(Append(r, t), stack, ops)
<1>1. Len(stack) \in Nat
  OBVIOUS
<1>2. Depth(Append(r, t), Len(r) + 2) = Len(stack)
  BY <1>1, DepthAfter
<1>3. ASSUME NEW d \in 1 .. Len(stack)
      PROVE  Opened(Append(r, t), d, ops[d]) /\ Holds(Append(r, t), stack[d], ops[d])
  <2>1. d \in Nat /\ Depth(Append(r, t), Len(r) + 2) >= d
    BY <1>1, <1>2
  <2>2. Opened(r, d, ops[d]) /\ Holds(r, stack[d], ops[d])
    BY DEF OpenGroups
  <2> QED
    BY <2>1, <2>2, OpenedStays
<1> QED
  BY <1>2, <1>3 DEF OpenGroups

LEMMA GroupOpens ==
  ASSUME NEW r \in Seq(Tokens), NEW t \in Tokens, NEW stack \in Seq(Saved), NEW ops,
         Len(stack) = Depth(r, Len(r) + 1), OpenGroups(r, stack, ops),
         t.kind = "open", NEW e \in Saved, Holds(r, e, Len(r) + 1)
  PROVE  /\ Depth(Append(r, t), Len(r) + 2) = Len(Append(stack, e))
         /\ \E o : OpenGroups(Append(r, t), Append(stack, e), o)
<1> DEFINE q == Append(r, t)
           n == Len(r)
           D == Len(stack)
           more == Append(stack, e)
           new == [d \in 1 .. D + 1 |-> IF d <= D THEN ops[d] ELSE n + 1]
<1>1. /\ n \in Nat /\ Len(q) = n + 1 /\ q[n + 1] = t /\ q \in Seq(Tokens)
  BY AppendIs
<1>2. /\ Len(more) = D + 1 /\ D \in Nat /\ more[D + 1] = e
      /\ \A d \in 1 .. D : more[d] = stack[d]
  BY AppendIs
<1>3. Depth(q, n + 2) = D + 1
  BY <1>2, DepthAfter
<1> HIDE DEF more
<1>4. ASSUME NEW d \in 1 .. D + 1
      PROVE  Opened(q, d, new[d]) /\ Holds(q, more[d], new[d])
  <2>1. CASE d = D + 1
    <3>1. new[d] = n + 1 /\ more[d] = e
      BY <1>2, <2>1
    <3>2. n + 1 \in 1 .. n + 1
      BY <1>1
    <3>3. Depth(q, n + 1) = D
      BY <3>2, DepthOfPrefix
    <3>4. /\ Hidden(q, n + 1) = Hidden(r, n + 1)
          /\ SettingAt(q, "uc", 1, n + 1) = SettingAt(r, "uc", 1, n + 1)
          /\ SettingAt(q, "font", DefaultFont, n + 1) = SettingAt(r, "font", DefaultFont, n + 1)
      BY <3>2, HiddenOfPrefix, SettingOfPrefix
    <3> HIDE DEF q, n, D, new
    <3>5. \A k \in (n + 1) + 1 .. Len(q) + 1 : k = n + 2
      BY <1>1
    <3>6. \A k \in (n + 1) + 1 .. Len(q) + 1 : Depth(q, k) >= d
      BY <1>2, <1>3, <2>1, <3>5
    <3>7. Opened(q, d, n + 1)
      BY <1>1, <1>2, <2>1, <3>2, <3>3, <3>6 DEF Opened
    <3>8. Holds(q, e, n + 1)
      BY <3>4 DEF Holds, n
    <3> QED
      BY <3>1, <3>7, <3>8
  <2>2. CASE d \in 1 .. D
    <3>1. new[d] = ops[d] /\ more[d] = stack[d]
      BY <1>2, <2>2
    <3>2. Opened(r, d, ops[d]) /\ Holds(r, stack[d], ops[d])
      BY <2>2 DEF OpenGroups
    <3>3. d \in Nat /\ Depth(q, n + 2) >= d
      BY <1>2, <1>3, <2>2
    <3> HIDE DEF new
    <3>4. Opened(q, d, ops[d]) /\ Holds(q, stack[d], ops[d])
      BY <3>2, <3>3, OpenedStays
    <3> QED
      BY <3>1, <3>4
  <2> QED
    BY <1>2, <2>1, <2>2
<1> HIDE DEF new, q
<1>5. OpenGroups(q, more, new)
  BY <1>2, <1>4 DEF OpenGroups
<1> QED
  BY <1>2, <1>3, <1>5 DEF more, q

LEMMA GroupCloses ==
  ASSUME NEW r \in Seq(Tokens), NEW t \in Tokens, NEW stack \in Seq(Saved), NEW ops,
         Len(stack) = Depth(r, Len(r) + 1), OpenGroups(r, stack, ops),
         t.kind = "close", stack # <<>>
  PROVE  /\ Front(stack) \in Seq(Saved) /\ Last(stack) \in Saved
         /\ Depth(Append(r, t), Len(r) + 2) = Len(Front(stack))
         /\ OpenGroups(Append(r, t), Front(stack), ops)
<1> DEFINE D == Len(stack)
           less == Front(stack)
<1>1. /\ less \in Seq(Saved) /\ Len(less) = D - 1 /\ D \in Nat \ {0}
      /\ \A d \in 1 .. D - 1 : less[d] = stack[d]
  BY ShorterIs
<1>2. Last(stack) \in Saved
  BY <1>1 DEF Last
<1> HIDE DEF less
<1>3. Depth(Append(r, t), Len(r) + 2) = D - 1
  BY <1>1, DepthAfter
<1>4. ASSUME NEW d \in 1 .. Len(less)
      PROVE  Opened(Append(r, t), d, ops[d]) /\ Holds(Append(r, t), less[d], ops[d])
  <2>1. d \in Nat /\ Depth(Append(r, t), Len(r) + 2) >= d /\ d \in 1 .. D /\ less[d] = stack[d]
    BY <1>1, <1>3
  <2>2. Opened(r, d, ops[d]) /\ Holds(r, stack[d], ops[d])
    BY <2>1 DEF OpenGroups
  <2> QED
    BY <2>1, <2>2, OpenedStays
<1> QED
  BY <1>1, <1>2, <1>3, <1>4 DEF OpenGroups, less

(* The settings behind one more token.                                     *)
LEMMA SettingsGrow ==
  ASSUME NEW r \in Seq(Tokens), NEW t \in Tokens, t.kind # "close"
  PROVE  LET q == Append(r, t)
             i == Len(r) + 1
         IN  /\ Hidden(q, i + 1) <=> (Hidden(r, i) \/ t.kind = "skip")
             /\ \A kind, default :
                  SettingAt(q, kind, default, i + 1) =
                    IF t.kind = kind /\ ~Hidden(r, i) THEN t.n ELSE SettingAt(r, kind, default, i)
<1> DEFINE q == Append(r, t)
           i == Len(r) + 1
<1>1. q \in Seq(Tokens) /\ Len(q) = i /\ q[i] = t /\ Len(r) \in Nat
  BY AppendIs
<1>2. i \in 1 .. Len(r) + 1
  BY <1>1
<1>3. Hidden(q, i) = Hidden(r, i)
  BY <1>2, HiddenOfPrefix
<1>4. \A kind, default : SettingAt(q, kind, default, i) = SettingAt(r, kind, default, i)
  BY <1>2, SettingOfPrefix
<1>5. i \in 1 .. Len(q) /\ i + 1 \in 1 .. Len(q) + 1
  BY <1>1
<1> HIDE DEF q, i
<1>6. InForce(q, i + 1) = InForce(q, i) \cup {i}
  BY <1>1, <1>5, InForceGrows
<1>7. /\ Hidden(q, i + 1) <=> (Hidden(q, i) \/ q[i].kind = "skip")
      /\ \A kind, default :
           SettingAt(q, kind, default, i + 1) =
             IF q[i].kind = kind /\ ~Hidden(q, i) THEN q[i].n
             ELSE SettingAt(q, kind, default, i)
  BY <1>1, <1>5, <1>6, SettingsAfter
<1>8. /\ Hidden(q, i + 1) <=> (Hidden(r, i) \/ t.kind = "skip")
      /\ \A kind, default :
           SettingAt(q, kind, default, i + 1) =
             IF t.kind = kind /\ ~Hidden(r, i) THEN t.n ELSE SettingAt(r, kind, default, i)
  BY <1>1, <1>3, <1>4, <1>7
<1> QED
  BY <1>8 DEF q, i

LEMMA SettingsReturn ==
  ASSUME NEW r \in Seq(Tokens), NEW t \in Tokens, t.kind = "close", NEW d, NEW o, NEW e,
         d = Depth(r, Len(r) + 1), Opened(r, d, o), Holds(r, e, o)
  PROVE  Holds(Append(r, t), e, Len(r) + 2)
<1> DEFINE q == Append(r, t)
           m == Len(r) + 1
<1>1. /\ q \in Seq(Tokens) /\ Len(q) = m /\ q[m] = t /\ Len(r) \in Nat
      /\ \A j \in 1 .. Len(r) : q[j] = r[j]
  BY AppendIs
<1>2. m \in 1 .. Len(r) + 1 /\ m \in 1 .. Len(q) /\ m + 1 = Len(r) + 2
      /\ m + 1 \in 1 .. Len(q) + 1 /\ m \in Nat
  BY <1>1
<1>3. \A k \in 1 .. m : Depth(q, k) = Depth(r, k)
  BY DepthOfPrefix
<1>4. o \in 1 .. Len(r) /\ r[o].kind = "open" /\ Depth(r, o) = d - 1
      /\ \A k \in o + 1 .. m : Depth(r, k) >= d
  BY DEF Opened
<1>5. o \in 1 .. m /\ o \in 1 .. m - 1 /\ o \in 1 .. Len(q)
      /\ \A k \in o + 1 .. m : k \in 1 .. m
  BY <1>1, <1>4
<1>6. /\ Hidden(q, o) = Hidden(r, o) /\ SettingAt(q, "uc", 1, o) = SettingAt(r, "uc", 1, o)
      /\ SettingAt(q, "font", DefaultFont, o) = SettingAt(r, "font", DefaultFont, o)
  BY <1>5, HiddenOfPrefix, SettingOfPrefix
<1>7. Depth(q, m) = d
  BY <1>2, <1>3
<1> HIDE DEF q, m
<1>8. InForce(q, m + 1) = InForce(q, o) \cup {o}
  <2>1. Depth(q, o) = Depth(q, m) - 1
    BY <1>3, <1>4, <1>5, <1>7
  <2>2. \A k \in o + 1 .. m : Depth(q, k) >= Depth(q, m)
    BY <1>3, <1>4, <1>5, <1>7
  <2> QED
    BY <1>1, <1>2, <1>5, <2>1, <2>2, InForceReturns
<1>9. /\ Hidden(q, m + 1) <=> (Hidden(q, o) \/ q[o].kind = "skip")
      /\ \A kind, default :
           SettingAt(q, kind, default, m + 1) =
             IF q[o].kind = kind /\ ~Hidden(q, o) THEN q[o].n
             ELSE SettingAt(q, kind, default, o)
  BY <1>1, <1>2, <1>5, <1>8, SettingsAfter
<1>10. q[o].kind = "open"
  BY <1>1, <1>4
<1>11. Holds(q, e, m + 1)
  BY <1>6, <1>9, <1>10 DEF Holds
<1> QED
  BY <1>2, <1>11 DEF q

(* The fallback that is left, and the text of the token.                   *)
LEMMA FallbackGoesOn ==
  ASSUME NEW r \in Seq(Tokens), NEW t \in Tokens
  PROVE  Fallback(Append(r, t), Len(r) + 2) =
           IF t.kind = "unicode" /\ ~Hidden(r, Len(r) + 1) THEN SettingAt(r, "uc", 1, Len(r) + 1)
           ELSE IF Fallback(r, Len(r) + 1) > SizeOf(t) THEN Fallback(r, Len(r) + 1) - SizeOf(t)
           ELSE 0
<1> DEFINE q == Append(r, t)
           m == Len(r) + 1
<1>1. q \in Seq(Tokens) /\ Len(q) = m /\ q[m] = t /\ Len(r) \in Nat
  BY AppendIs
<1>2. m \in 1 .. Len(r) + 1 /\ m \in 1 .. Len(q) /\ m + 1 = Len(r) + 2
  BY <1>1
<1>3. Hidden(q, m) = Hidden(r, m) /\ SettingAt(q, "uc", 1, m) = SettingAt(r, "uc", 1, m)
      /\ Fallback(q, m) = Fallback(r, m)
  BY <1>2, HiddenOfPrefix, SettingOfPrefix, FallbackOfPrefix
<1> HIDE DEF q, m
<1>4. Fallback(q, m + 1) =
        IF q[m].kind = "unicode" /\ ~Hidden(q, m) THEN SettingAt(q, "uc", 1, m)
        ELSE IF Fallback(q, m) > SizeOf(q[m]) THEN Fallback(q, m) - SizeOf(q[m]) ELSE 0
  BY <1>1, <1>2, FallbackAfter
<1>5. Fallback(q, m + 1) =
        IF t.kind = "unicode" /\ ~Hidden(r, m) THEN SettingAt(r, "uc", 1, m)
        ELSE IF Fallback(r, m) > SizeOf(t) THEN Fallback(r, m) - SizeOf(t) ELSE 0
  BY <1>1, <1>3, <1>4
<1> QED
  BY <1>2, <1>5 DEF q, m

LEMMA TextGoesOn ==
  ASSUME NEW r \in Seq(Tokens), NEW t \in Tokens
  PROVE  LET q == Append(r, t)
         IN  TextUpTo(q)[Len(q)] = TextUpTo(r)[Len(r)] \o TextOf(q, Len(r) + 1)
<1> DEFINE q == Append(r, t)
           n == Len(r)
<1>1. q \in Seq(Tokens) /\ Len(q) = n + 1 /\ n \in Nat
  BY AppendIs
<1>2. TextUpTo(q)[n] = TextUpTo(r)[n]
  BY TextUpToPrefix
<1> HIDE DEF q, n
<1>3. n + 1 \in 1 .. Len(q) /\ (n + 1) - 1 = n
  BY <1>1
<1>4. TextUpTo(q)[n + 1] = TextUpTo(q)[(n + 1) - 1] \o TextOf(q, n + 1)
  BY <1>1, <1>3, TextIs
<1>5. TextUpTo(q)[Len(q)] = TextUpTo(r)[n] \o TextOf(q, n + 1)
  BY <1>1, <1>2, <1>3, <1>4
<1> QED
  BY <1>5 DEF q, n

(* The text of the token just read, as the reader's variables tell it.     *)
LEMMA TokenTextIsRight ==
  ASSUME RtfInv, NEW t \in Tokens
  PROVE  LET q == Append(rtf.read, t)
             i == Len(rtf.read) + 1
         IN  /\ t.kind # "byte" => TextOf(q, i) = TokenText(rtf, t, i)
             /\ t.kind = "byte" =>
                  TextOf(q, i) = IF ~rtf.skipping /\ rtf.pending = 0
                                 THEN << <<i, 1, rtf.font>> >> ELSE <<>>
<1> DEFINE r == rtf.read
           q == Append(r, t)
           i == Len(r) + 1
           pe == rtf.pending
           n == t.n
<1>1. r \in Seq(Tokens) /\ pe \in Nat /\ n \in Nat /\ t.kind \in TokenKinds
  BY WordTextAssumption DEF RtfInv, RtfTypeOK
<1>2. q[i] = t /\ i \in 1 .. i /\ Len(r) \in Nat /\ i \in Nat
  BY <1>1, AppendIs
<1>3. /\ Hidden(q, i) = Hidden(r, i) /\ Fallback(q, i) = Fallback(r, i)
      /\ SettingAt(q, "font", DefaultFont, i) = SettingAt(r, "font", DefaultFont, i)
  BY <1>1, <1>2, HiddenOfPrefix, FallbackOfPrefix, SettingOfPrefix
<1>4. /\ rtf.skipping <=> Hidden(q, i)
      /\ pe = Fallback(q, i) /\ rtf.font = SettingAt(q, "font", DefaultFont, i)
  BY <1>3 DEF RtfInv
<1> HIDE DEF r, q, i, n
<1>5. TextOf(q, i) =
        IF rtf.skipping THEN <<>>
        ELSE IF t.kind = "unicode" THEN << <<i, 1, 0>> >>
        ELSE IF t.kind = "byte" /\ pe + 1 = 1 THEN << <<i, 1, rtf.font>> >>
        ELSE IF t.kind = "text" THEN [k \in 1 .. t.n - (pe + 1) + 1 |-> <<i, (pe + 1) + k - 1, 0>>]
        ELSE <<>>
  <2> DEFINE c == <<i, 1, 0>>
             b == <<i, 1, rtf.font>>
             text == [k \in 1 .. t.n - (pe + 1) + 1 |-> <<i, (pe + 1) + k - 1, 0>>]
             from == pe + 1
  <2>1. TextOf(q, i) = IF Hidden(q, i) THEN <<>>
                       ELSE CASE t.kind = "unicode" -> <<c>>
                              [] t.kind = "byte" /\ from = 1 -> <<b>>
                              [] t.kind = "text" -> text
                              [] OTHER -> <<>>
    BY <1>2, <1>4 DEF TextOf
  <2> HIDE DEF c, b, text, from
  <2>2. TextOf(q, i) = IF Hidden(q, i) THEN <<>>
                       ELSE IF t.kind = "unicode" THEN <<c>>
                       ELSE IF t.kind = "byte" /\ from = 1 THEN <<b>>
                       ELSE IF t.kind = "text" THEN text ELSE <<>>
    BY <2>1
  <2> QED
    BY <1>4, <2>2 DEF c, b, text, from
<1>6. [k \in 1 .. t.n - (pe + 1) + 1 |-> <<i, (pe + 1) + k - 1, 0>>]
        = [k \in 1 .. t.n - pe |-> <<i, pe + k, 0>>]
  <2>1. t.n - (pe + 1) + 1 = t.n - pe
    BY <1>1 DEF n
  <2>2. \A k \in 1 .. t.n - pe : (pe + 1) + k - 1 = pe + k
    BY <1>1
  <2> HIDE DEF pe
  <2> QED
    BY <2>1, <2>2
<1>7. pe + 1 = 1 <=> pe = 0
  BY <1>1
<1>8. t.kind # "byte" => TextOf(q, i) = TokenText(rtf, t, i)
  BY <1>5, <1>6 DEF TokenText
<1>9. t.kind = "byte" => TextOf(q, i) = IF ~rtf.skipping /\ pe = 0
                                        THEN << <<i, 1, rtf.font>> >> ELSE <<>>
  BY <1>5, <1>7
<1> QED
  BY <1>8, <1>9 DEF r, q, i

LEMMA RtfStep ==
  ASSUME RtfInv, NEW t \in Tokens, t.kind = "close" => rtf.stack # <<>>,
         rtf' = ReadToken(rtf, t)
  PROVE  RtfInv'
<1> DEFINE r == rtf.read
           n == Len(r)
           q == Append(r, t)
           i == n + 1
           stack == rtf.stack
           D == Len(stack)
           saved == Last(stack)
           now == <<rtf.skipping, rtf.uc, rtf.font>>
           stack2 == IF t.kind = "open" THEN Append(stack, now)
                     ELSE IF t.kind = "close" THEN Front(stack) ELSE stack
           skipping2 == IF t.kind = "close" THEN saved[1] ELSE OnSkip(t, rtf.skipping)
           font2 == IF t.kind = "close" THEN saved[3]
                    ELSE IF t.kind = "font" /\ ~rtf.skipping THEN t.n ELSE rtf.font
           uc2 == IF t.kind = "close" THEN saved[2]
                  ELSE IF t.kind = "uc" /\ ~rtf.skipping THEN t.n ELSE rtf.uc
           pending2 == IF t.kind = "unicode" /\ ~rtf.skipping THEN rtf.uc
                       ELSE IF rtf.pending > SizeOf(t) THEN rtf.pending - SizeOf(t) ELSE 0
           bytes2 == IF t.kind # "byte" THEN <<>>
                     ELSE IF rtf.skipping \/ rtf.pending > 0 THEN rtf.bytes
                     ELSE Append(rtf.bytes, i)
           decoded == Decoded(rtf.bytes, rtf.font)
           output2 == IF t.kind = "byte" THEN rtf.output
                      ELSE (rtf.output \o decoded) \o TokenText(rtf, t, i)
<1>1. /\ r \in Seq(Tokens) /\ stack \in Seq(Saved) /\ rtf.skipping \in BOOLEAN
      /\ rtf.font \in Nat /\ rtf.uc \in Nat /\ rtf.pending \in Nat
      /\ rtf.bytes \in Seq(Nat) /\ rtf.output \in Seq(Characters3)
      /\ n \in Nat /\ i \in Nat /\ t.n \in Nat /\ t.kind \in TokenKinds
  BY WordTextAssumption DEF RtfInv, RtfTypeOK
<1>2. q \in Seq(Tokens) /\ Len(q) = i /\ q[i] = t
  BY <1>1, AppendIs
<1>3. rtf' = Reader(q, stack2, skipping2, font2, uc2, pending2, bytes2, output2)
  BY TokenRead DEF RtfInv
<1>4. /\ rtf'.read = q /\ rtf'.stack = stack2 /\ rtf'.skipping = skipping2
      /\ rtf'.font = font2 /\ rtf'.uc = uc2 /\ rtf'.pending = pending2
      /\ rtf'.bytes = bytes2 /\ rtf'.output = output2
  <2> HIDE DEF q, stack2, skipping2, font2, uc2, pending2, bytes2, output2
  <2> QED
    BY <1>3, ReaderFields
<1>5. /\ now \in Saved /\ Holds(r, now, i)
      /\ D = Depth(r, i) /\ \E ops : OpenGroups(r, stack, ops)
      /\ rtf.pending = Fallback(r, i) /\ (rtf.skipping <=> Hidden(r, i))
      /\ rtf.uc = SettingAt(r, "uc", 1, i) /\ rtf.font = SettingAt(r, "font", DefaultFont, i)
      /\ rtf.output \o decoded = TextUpTo(r)[n]
  BY <1>1 DEF RtfInv, Holds, Saved
<1>6. PICK ops : OpenGroups(r, stack, ops)
  BY <1>5
<1>7. n + 2 = i + 1 /\ n + 1 = i /\ Len(r) = n
  BY <1>1
<1>8. /\ Depth(q, i + 1) = Len(stack2) /\ stack2 \in Seq(Saved)
      /\ \E o : OpenGroups(q, stack2, o)
  <2>1. CASE t.kind = "open"
    <3>1. stack2 = Append(stack, now)
      BY <2>1
    <3> HIDE DEF now, stack2, q
    <3>2. Append(stack, now) \in Seq(Saved)
      BY <1>1, <1>5, AppendIs
    <3> HIDE DEF stack, r, n, i
    <3>3. /\ Depth(q, n + 2) = Len(Append(stack, now))
          /\ \E o : OpenGroups(q, Append(stack, now), o)
      BY <1>1, <1>5, <1>6, <1>7, <2>1, GroupOpens DEF q
    <3> QED
      BY <1>7, <3>1, <3>2, <3>3
  <2>2. CASE t.kind = "close"
    <3>1. stack2 = Front(stack) /\ stack # <<>>
      BY <2>2
    <3> HIDE DEF stack2, q, stack, r, n, i
    <3>2. /\ Front(stack) \in Seq(Saved) /\ Depth(q, n + 2) = Len(Front(stack))
          /\ OpenGroups(q, Front(stack), ops)
      BY <1>1, <1>5, <1>6, <1>7, <2>2, <3>1, GroupCloses DEF q
    <3> QED
      BY <1>7, <3>1, <3>2
  <2>3. CASE t.kind \notin {"open", "close"}
    <3>1. stack2 = stack
      BY <2>3
    <3> HIDE DEF stack2, q, stack, r, n, i
    <3>2. Depth(q, n + 2) = Len(stack) /\ OpenGroups(q, stack, ops)
      BY <1>1, <1>5, <1>6, <1>7, <2>3, GroupsStay DEF q
    <3> QED
      BY <1>1, <1>7, <3>1, <3>2
  <2> QED
    BY <2>1, <2>2, <2>3
<1>9. /\ (skipping2 <=> Hidden(q, i + 1)) /\ skipping2 \in BOOLEAN
      /\ uc2 = SettingAt(q, "uc", 1, i + 1) /\ uc2 \in Nat
      /\ font2 = SettingAt(q, "font", DefaultFont, i + 1) /\ font2 \in Nat
  <2>1. CASE t.kind = "close"
    <3>1. /\ saved = stack[D] /\ D \in 1 .. D /\ saved \in Saved
      <4>1. stack # <<>>
        BY <2>1
      <4>2. D \in Nat \ {0} /\ saved = stack[D]
        BY <1>1, <4>1 DEF Last
      <4> HIDE DEF stack, D, saved
      <4>3. D \in 1 .. D
        BY <4>2
      <4> QED
        BY <1>1, <4>2, <4>3 DEF D
    <3>2. Opened(r, D, ops[D]) /\ Holds(r, saved, ops[D])
      BY <1>6, <3>1 DEF OpenGroups
    <3> HIDE DEF q, r, n, i, D, saved
    <3>3. Holds(q, saved, n + 2)
      BY <1>1, <1>5, <1>7, <2>1, <3>2, SettingsReturn DEF q
    <3>4. /\ (saved[1] <=> Hidden(q, i + 1)) /\ saved[2] = SettingAt(q, "uc", 1, i + 1)
          /\ saved[3] = SettingAt(q, "font", DefaultFont, i + 1)
      BY <1>7, <3>3 DEF Holds
    <3>5. saved[1] \in BOOLEAN /\ saved[2] \in Nat /\ saved[3] \in Nat
      BY <3>1 DEF Saved
    <3> QED
      BY <2>1, <3>4, <3>5
  <2>2. CASE t.kind # "close"
    <3> HIDE DEF q, r, n, i
    <3>1. /\ Hidden(q, i + 1) <=> (Hidden(r, i) \/ t.kind = "skip")
          /\ \A kind, default :
               SettingAt(q, kind, default, i + 1) =
                 IF t.kind = kind /\ ~Hidden(r, i) THEN t.n ELSE SettingAt(r, kind, default, i)
      BY <1>1, <1>7, <2>2, SettingsGrow DEF q
    <3>2. /\ SettingAt(q, "uc", 1, i + 1) = IF t.kind = "uc" /\ ~Hidden(r, i) THEN t.n
                                            ELSE SettingAt(r, "uc", 1, i)
          /\ SettingAt(q, "font", DefaultFont, i + 1) =
               IF t.kind = "font" /\ ~Hidden(r, i) THEN t.n
               ELSE SettingAt(r, "font", DefaultFont, i)
      BY <3>1
    <3>3. uc2 = SettingAt(q, "uc", 1, i + 1) /\ uc2 \in Nat
      BY <1>1, <1>5, <2>2, <3>2
    <3>4. font2 = SettingAt(q, "font", DefaultFont, i + 1) /\ font2 \in Nat
      BY <1>1, <1>5, <2>2, <3>2
    <3>5. (skipping2 <=> Hidden(q, i + 1)) /\ skipping2 \in BOOLEAN
      BY <1>1, <1>5, <2>2, <3>1 DEF OnSkip
    <3> QED
      BY <3>3, <3>4, <3>5
  <2> QED
    BY <2>1, <2>2
<1>10. pending2 = Fallback(q, i + 1) /\ pending2 \in Nat
  <2> HIDE DEF q, r, n, i
  <2>1. Fallback(q, n + 2) =
          IF t.kind = "unicode" /\ ~Hidden(r, i) THEN SettingAt(r, "uc", 1, i)
          ELSE IF Fallback(r, i) > SizeOf(t) THEN Fallback(r, i) - SizeOf(t) ELSE 0
    BY <1>1, <1>7, FallbackGoesOn DEF q
  <2>2. SizeOf(t) \in Nat
    BY <1>1 DEF SizeOf
  <2> QED
    BY <1>1, <1>5, <1>7, <2>1, <2>2
<1>11. bytes2 \in Seq(Nat)
  <2>1. Append(rtf.bytes, i) \in Seq(Nat)
    BY <1>1, AppendIs
  <2> HIDE DEF i
  <2> QED
    BY <1>1, <2>1
<1>12. output2 \in Seq(Characters3) /\ output2 \o Decoded(bytes2, font2) = TextUpTo(q)[Len(q)]
  <2> DEFINE O == rtf.output
             W == TextUpTo(r)[n]
             T == TextOf(q, i)
             more == TokenText(rtf, t, i)
  <2>1. T \in Seq(Characters3) /\ W \in Seq(Characters3) /\ decoded \in Seq(Characters3)
    <3>1. T \in Seq(Characters3)
      <4>1. i \in 1 .. Len(q)
        BY <1>1, <1>2
      <4> HIDE DEF q, i
      <4> QED
        BY <1>2, <4>1, TokenTextIs
    <3>2. W \in Seq(Characters3)
      <4>1. n \in 0 .. Len(r)
        BY <1>1
      <4> QED
        BY <1>1, <4>1, TextIs
    <3>3. decoded \in Seq(Characters3)
      BY <1>1, DecodedIs
    <3> QED
      BY <3>1, <3>2, <3>3
  <2>2. TextUpTo(q)[Len(q)] = W \o T
    BY <1>1, TextGoesOn
  <2>3. W = O \o decoded
    BY <1>5
  <2>4. /\ t.kind # "byte" => T = more
        /\ t.kind = "byte" => T = IF ~rtf.skipping /\ rtf.pending = 0
                                  THEN << <<i, 1, rtf.font>> >> ELSE <<>>
    BY TokenTextIsRight
  <2>5. O \in Seq(Characters3)
    BY <1>1
  <2>6. CASE t.kind # "byte"
    <3>1. output2 = (O \o decoded) \o more /\ bytes2 = <<>> /\ more = T
      BY <2>4, <2>6
    <3>2. Decoded(<<>>, font2) = <<>>
      BY DEF Decoded
    <3>3. output2 = W \o T
      BY <2>3, <3>1, Zenon
    <3> HIDE DEF output2, bytes2, font2, W, T, O, decoded, more
    <3>4. Decoded(bytes2, font2) = <<>>
      BY <3>1, <3>2, Zenon
    <3> DEFINE C == Characters3
    <3> HIDE DEF C
    <3>5. W \in Seq(C) /\ T \in Seq(C)
      BY <2>1 DEF C
    <3>6. W \o T \in Seq(C)
      BY <3>5, ConcatProperties
    <3>7. (W \o T) \o <<>> = W \o T
      BY <3>6, ConcatEmptySeq
    <3>8. output2 \o Decoded(bytes2, font2) = TextUpTo(q)[Len(q)]
      BY <2>2, <3>3, <3>4, <3>7, Zenon
    <3> QED
      BY <3>3, <3>6, <3>8 DEF C
  <2>7. CASE t.kind = "byte" /\ (rtf.skipping \/ rtf.pending > 0)
    <3>1. output2 = O /\ bytes2 = rtf.bytes /\ font2 = rtf.font
      BY <2>7
    <3>2. T = <<>>
      BY <1>1, <2>4, <2>7
    <3> HIDE DEF output2, bytes2, font2, W, T, O
    <3>3. Decoded(bytes2, font2) = decoded
      BY <3>1, Zenon
    <3> HIDE DEF decoded
    <3> DEFINE C == Characters3
    <3> HIDE DEF C
    <3>4. W \in Seq(C)
      BY <2>1 DEF C
    <3>5. W \o <<>> = W
      BY <3>4, ConcatEmptySeq
    <3>6. output2 \o Decoded(bytes2, font2) = TextUpTo(q)[Len(q)]
      BY <2>2, <2>3, <3>1, <3>2, <3>3, <3>5, Zenon
    <3> QED
      BY <2>5, <3>1, <3>6
  <2>8. CASE t.kind = "byte" /\ ~rtf.skipping /\ ~(rtf.pending > 0)
    <3> DEFINE c == <<i, 1, rtf.font>>
    <3>1. output2 = O /\ bytes2 = Append(rtf.bytes, i) /\ font2 = rtf.font
      BY <2>8
    <3>2. T = <<c>>
      BY <1>1, <2>4, <2>8
    <3>3. c \in Characters3
      BY <1>1 DEF Characters3
    <3>4. Decoded(Append(rtf.bytes, i), rtf.font) = Append(decoded, c)
      BY <1>1, DecodedIs
    <3> HIDE DEF output2, bytes2, font2, W, T, O, c, decoded
    <3>5. Decoded(bytes2, font2) = Append(decoded, c)
      BY <3>1, <3>4, Zenon
    <3> DEFINE C == Characters3
    <3> HIDE DEF C
    <3>6. O \in Seq(C) /\ decoded \in Seq(C) /\ T \in Seq(C) /\ c \in C
      BY <2>1, <2>5, <3>3 DEF C
    <3>7. Append(decoded, c) = decoded \o T
      BY <3>2, <3>6, AppendIsConcat
    <3>8. (O \o decoded) \o T = O \o (decoded \o T)
      BY <3>6, ConcatAssociative
    <3>9. output2 \o Decoded(bytes2, font2) = TextUpTo(q)[Len(q)]
      BY <2>2, <2>3, <3>1, <3>5, <3>7, <3>8, Zenon
    <3> QED
      BY <2>5, <3>1, <3>9
  <2> QED
    BY <2>6, <2>7, <2>8
<1>13. RtfTypeOK'
  <2> HIDE DEF q, stack2, skipping2, font2, uc2, pending2, bytes2, output2
  <2>1. Reader(q, stack2, skipping2, font2, uc2, pending2, bytes2, output2)
          \in [read : Seq(Tokens), stack : Seq(Saved), skipping : BOOLEAN, font : Nat, uc : Nat,
               pending : Nat, bytes : Seq(Nat), output : Seq(Characters3)]
    BY <1>2, <1>8, <1>9, <1>10, <1>11, <1>12 DEF Reader
  <2> QED
    BY <1>3, <2>1 DEF RtfTypeOK
<1>14. Len(q) + 1 = i + 1
  BY <1>2
<1> HIDE DEF q, stack2, skipping2, font2, uc2, pending2, bytes2, output2, i
<1>15. /\ rtf'.skipping <=> Hidden(rtf'.read, Len(rtf'.read) + 1)
       /\ rtf'.uc = SettingAt(rtf'.read, "uc", 1, Len(rtf'.read) + 1)
       /\ rtf'.font = SettingAt(rtf'.read, "font", DefaultFont, Len(rtf'.read) + 1)
       /\ rtf'.pending = Fallback(rtf'.read, Len(rtf'.read) + 1)
       /\ Len(rtf'.stack) = Depth(rtf'.read, Len(rtf'.read) + 1)
  BY <1>4, <1>8, <1>9, <1>10, <1>14
<1>16. \E o : OpenGroups(rtf'.read, rtf'.stack, o)
  BY <1>4, <1>8
<1>17. rtf'.output \o Decoded(rtf'.bytes, rtf'.font) = TextUpTo(rtf'.read)[Len(rtf'.read)]
  BY <1>4, <1>12
<1> QED
  BY <1>13, <1>15, <1>16, <1>17 DEF RtfInv

LEMMA RtfInit ==
  ASSUME WordTextInit
  PROVE  RtfInv
<1> DEFINE r == <<>>
<1>1. rtf = Reader(r, <<>>, FALSE, DefaultFont, 1, 0, <<>>, <<>>)
  BY DEF WordTextInit, Reader
<1>2. r \in Seq(Tokens) /\ Len(r) = 0 /\ Len(r) + 1 = 1 /\ 1 .. 1 - 1 = {} /\ Len(<<>>) = 0
      /\ 1 .. 0 = {}
  OBVIOUS
<1>3. DefaultFont \in Nat
  BY WordTextAssumption
<1> HIDE DEF r
<1>4. Depth(r, 1) = 0 /\ TextUpTo(r)[0] = <<>>
  BY <1>2, DepthIs, TextIs
<1>5. InForce(r, 1) = {}
  BY <1>2 DEF InForce
<1>6. ~Hidden(r, 1) /\ \A kind, default : SettingAt(r, kind, default, 1) = default
  BY <1>5 DEF Hidden, SettingAt
<1>7. {j \in 1 .. 1 - 1 : r[j].kind = "unicode" /\ ~Hidden(r, j)} = {}
  BY <1>2
<1>8. Fallback(r, 1) = 0
  BY <1>7, Zenon DEF Fallback
<1>9. OpenGroups(r, <<>>, <<>>)
  BY <1>2 DEF OpenGroups
<1>10. Decoded(<<>>, DefaultFont) = <<>>
  BY DEF Decoded
<1>11. <<>> \o <<>> = <<>>
  OBVIOUS
<1>12. /\ rtf.read = r /\ rtf.stack = <<>> /\ rtf.skipping = FALSE /\ rtf.font = DefaultFont
       /\ rtf.uc = 1 /\ rtf.pending = 0 /\ rtf.bytes = <<>> /\ rtf.output = <<>>
  BY <1>1 DEF Reader
<1>13. RtfTypeOK
  BY <1>1, <1>2, <1>3 DEF RtfTypeOK, Reader
<1> QED
  BY <1>2, <1>4, <1>6, <1>8, <1>9, <1>10, <1>11, <1>12, <1>13 DEF RtfInv

LEMMA RtfTells ==
  ASSUME RtfInv
  PROVE  RtfTextIsRight
<1> DEFINE more == rtf.output \o Decoded(rtf.bytes, rtf.font)
<1>1. Flush(rtf) = Reader(rtf.read, rtf.stack, rtf.skipping, rtf.font, rtf.uc, rtf.pending,
                          <<>>, more)
  <2>1. rtf = Reader(rtf.read, rtf.stack, rtf.skipping, rtf.font, rtf.uc, rtf.pending,
                     rtf.bytes, rtf.output)
    BY ReaderIs DEF RtfInv
  <2> DEFINE r == rtf.read
             st == rtf.stack
             sk == rtf.skipping
             fo == rtf.font
             uc == rtf.uc
             pe == rtf.pending
             by == rtf.bytes
             ou == rtf.output
  <2> HIDE DEF r, st, sk, fo, uc, pe, by, ou
  <2>2. Flush(Reader(r, st, sk, fo, uc, pe, by, ou))
          = Reader(r, st, sk, fo, uc, pe, <<>>, ou \o Decoded(by, fo))
    BY FlushIs
  <2> QED
    BY <2>1, <2>2 DEF r, st, sk, fo, uc, pe, by, ou
<1>2. more = TextUpTo(rtf.read)[Len(rtf.read)]
  BY DEF RtfInv
<1> HIDE DEF more
<1>3. Flush(rtf).output = more
  BY <1>1, ReaderFields
<1> QED
  BY <1>2, <1>3 DEF RtfTextIsRight

LEMMA RtfNext ==
  ASSUME RtfInv, [WordTextNext]_wordTextVars
  PROVE  RtfInv'
<1>1. CASE rtf' = rtf
  BY <1>1 DEF RtfInv, RtfTypeOK
<1>2. CASE NextToken
  <2>1. PICK t \in Tokens : (t.kind = "close" => rtf.stack # <<>>) /\ rtf' = ReadToken(rtf, t)
    BY <1>2 DEF NextToken
  <2> QED
    BY <2>1, RtfStep
<1> QED
  BY <1>1, <1>2 DEF WordTextNext, NextMark, wordTextVars

(* The text of a word-processor file, of either format, is what a reader   *)
(* of it sees.                                                             *)
THEOREM WordTextIsRightAlways == WordTextSpec => []WordTextIsRight
<1> DEFINE Inv == RtfInv /\ FieldsInv
<1>1. WordTextInit => Inv
  BY RtfInit, FieldsInit
<1>2. Inv /\ [WordTextNext]_wordTextVars => Inv'
  BY RtfNext, FieldsNext
<1>3. Inv => WordTextIsRight
  BY RtfTells, FieldsTell DEF WordTextIsRight
<1> QED
  BY <1>1, <1>2, <1>3, PTL DEF WordTextSpec

-----------------------------------------------------------------------------
(* Library: orders and sums.                                               *)

(* An order as a sequence: each element once, none before one ahead of it. *)
LEMMA InOrderIsWhole ==
  ASSUME NEW S, NEW ahead, IsOrder(S, ahead)
  PROVE  LET n == Cardinality(S)
             order == InOrder(S, ahead)
         IN  /\ n \in Nat
             /\ order \in Bijection(1 .. n, S)
             /\ \A j, k \in 1 .. n : j < k => order[j] \in ahead[order[k]]
<1> DEFINE n == Cardinality(S)
           order == [k \in 1 .. n |-> CHOOSE x \in S : Cardinality(ahead[x]) = k - 1]
<1>1. /\ n \in Nat
      /\ \A k \in 1 .. n : \E x \in S : Cardinality(ahead[x]) = k - 1
      /\ \A x \in S : Cardinality(ahead[x]) + 1 \in 1 .. n
      /\ \A x, y \in S : Cardinality(ahead[x]) = Cardinality(ahead[y]) => x = y
      /\ \A x \in S : \A y \in ahead[x] : Cardinality(ahead[y]) < Cardinality(ahead[x])
  BY OneOfEachRank
<1>2. \A k \in 1 .. n : order[k] \in S /\ Cardinality(ahead[order[k]]) = k - 1
  <2> HIDE DEF n
  <2> QED
    BY <1>1
<1>3. order \in [1 .. n -> S]
  <2> HIDE DEF n
  <2> QED
    BY <1>2
<1> HIDE DEF order, n
<1>4. \A j, k \in 1 .. n : order[j] = order[k] => j = k
  BY <1>1, <1>2
<1>5. \A x \in S : \E k \in 1 .. n : order[k] = x
  <2> SUFFICES ASSUME NEW x \in S PROVE \E k \in 1 .. n : order[k] = x
    OBVIOUS
  <2> DEFINE k == Cardinality(ahead[x]) + 1
  <2>1. k \in 1 .. n
    BY <1>1
  <2>2. Cardinality(ahead[x]) \in Nat
    <3>1. ahead[x] \in SUBSET S /\ IsFiniteSet(S)
      BY DEF IsOrder
    <3> QED
      BY <3>1, FS_Subset, FS_CardinalityType
  <2>3. order[k] \in S /\ Cardinality(ahead[order[k]]) = Cardinality(ahead[x])
    <3>1. k - 1 = Cardinality(ahead[x])
      BY <2>2
    <3> QED
      BY <1>2, <2>1, <3>1
  <2> QED
    BY <1>1, <2>1, <2>3
<1>6. order \in Bijection(1 .. n, S)
  <2>1. order \in Injection(1 .. n, S)
    BY <1>3, <1>4, Fun_IsInj
  <2>2. order \in Surjection(1 .. n, S)
    BY <1>3, <1>5, Fun_IsSurj
  <2> QED
    BY <2>1, <2>2 DEF Bijection
<1>7. ASSUME NEW j \in 1 .. n, NEW k \in 1 .. n, j < k PROVE order[j] \in ahead[order[k]]
  <2>1. order[j] # order[k] /\ order[j] \in S /\ order[k] \in S
    BY <1>2, <1>4, <1>7
  <2>2. ~ order[k] \in ahead[order[j]]
    <3>1. Cardinality(ahead[order[j]]) = j - 1 /\ Cardinality(ahead[order[k]]) = k - 1
      BY <1>2
    <3>2. order[k] \in ahead[order[j]] => k - 1 < j - 1
      BY <1>1, <2>1, <3>1
    <3> QED
      BY <1>1, <1>7, <3>2
  <2> QED
    BY <2>1, <2>2 DEF IsOrder
<1>8. InOrder(S, ahead) = order
  BY DEF InOrder, order, n
<1> QED
  BY <1>1, <1>6, <1>7, <1>8 DEF n

(* The rows a sum counts.                                                  *)
RowsOfSum(S, f) == UNION {{x} \X (1 .. f[x]) : x \in S}

LEMMA RowsOfSumAre ==
  ASSUME NEW S, NEW f
  PROVE  \A p : p \in RowsOfSum(S, f) <=> \E x \in S : \E n \in 1 .. f[x] : p = <<x, n>>
BY DEF RowsOfSum

LEMMA RowsOfSumFinite ==
  ASSUME NEW S, NEW f, IsFiniteSet(S), \A x \in S : f[x] \in Nat
  PROVE  IsFiniteSet(RowsOfSum(S, f)) /\ SumOf(S, f) \in Nat
<1> DEFINE piece == [x \in S |-> {x} \X (1 .. f[x])]
           pieces == {{x} \X (1 .. f[x]) : x \in S}
<1>1. piece \in Surjection(S, pieces)
  <2>1. piece \in [S -> pieces] /\ \A t \in pieces : \E x \in S : piece[x] = t
    OBVIOUS
  <2> QED
    BY <2>1, Fun_IsSurj
<1>2. IsFiniteSet(pieces)
  <2> HIDE DEF piece, pieces
  <2> QED
    BY <1>1, FS_Surjection
<1>3. \A t \in pieces : IsFiniteSet(t)
  <2> SUFFICES ASSUME NEW x \in S PROVE IsFiniteSet({x} \X (1 .. f[x]))
    OBVIOUS
  <2>1. IsFiniteSet({x})
    BY FS_Singleton
  <2>2. IsFiniteSet(1 .. f[x])
    <3>1. 1 \in Int /\ f[x] \in Int
      OBVIOUS
    <3> QED
      BY <3>1, FS_Interval
  <2> QED
    BY <2>1, <2>2, FS_Product
<1>4. IsFiniteSet(UNION pieces)
  <2> HIDE DEF pieces
  <2> QED
    BY <1>2, <1>3, FS_UNION
<1> QED
  BY <1>4, FS_CardinalityType DEF RowsOfSum, SumOf

(* Counting a set group by group: f says how many of T are in each group.  *)
LEMMA SumIsCount ==
  ASSUME NEW S, NEW T, IsFiniteSet(T), NEW h \in [T -> S], NEW f,
         \A x \in S : f[x] = Cardinality({t \in T : h[t] = x})
  PROVE  SumOf(S, f) = Cardinality(T)
<1> DEFINE group(x) == {t \in T : h[t] = x}
           rows == RowsOfSum(S, f)
           number == [x \in S |-> CHOOSE g : g \in Bijection(1 .. f[x], group(x))]
           m == [p \in rows |-> number[p[1]][p[2]]]
<1>1. \A x \in S : f[x] \in Nat /\ number[x] \in Bijection(1 .. f[x], group(x))
  <2> SUFFICES ASSUME NEW x \in S
               PROVE  f[x] \in Nat /\ number[x] \in Bijection(1 .. f[x], group(x))
    OBVIOUS
  <2>1. IsFiniteSet(group(x))
    BY FS_Subset
  <2>2. f[x] \in Nat /\ ExistsBijection(1 .. f[x], group(x))
    BY <2>1, FS_CardinalityType
  <2>3. \E g : g \in Bijection(1 .. f[x], group(x))
    <3> HIDE DEF group
    <3> QED
      BY <2>2, Fun_ExistsBij
  <2> QED
    BY <2>2, <2>3
<1> HIDE DEF number
<1>2. /\ \A x \in S : \A n \in 1 .. f[x] : number[x][n] \in T /\ h[number[x][n]] = x
      /\ \A x \in S : \A n, k \in 1 .. f[x] : number[x][n] = number[x][k] => n = k
      /\ \A x \in S : \A t \in T : h[t] = x => \E n \in 1 .. f[x] : number[x][n] = t
  <2> SUFFICES ASSUME NEW x \in S
               PROVE  /\ \A n \in 1 .. f[x] : number[x][n] \in T /\ h[number[x][n]] = x
                      /\ \A n, k \in 1 .. f[x] : number[x][n] = number[x][k] => n = k
                      /\ \A t \in T : h[t] = x => \E n \in 1 .. f[x] : number[x][n] = t
    OBVIOUS
  <2>1. /\ number[x] \in [1 .. f[x] -> group(x)]
        /\ \A n, k \in 1 .. f[x] : number[x][n] = number[x][k] => n = k
        /\ \A t \in group(x) : \E n \in 1 .. f[x] : number[x][n] = t
    <3> HIDE DEF group
    <3> QED
      BY <1>1, Fun_BijectionProperties
  <2> QED
    BY <2>1
<1>3. /\ \A p \in rows : p = <<p[1], p[2]>> /\ p[1] \in S /\ p[2] \in 1 .. f[p[1]]
      /\ \A x \in S : \A n \in 1 .. f[x] : <<x, n>> \in rows
  BY RowsOfSumAre
<1> HIDE DEF rows
<1>4. m \in [rows -> T]
  BY <1>2, <1>3
<1>5. \A p, q \in rows : m[p] = m[q] => p = q
  <2> SUFFICES ASSUME NEW p \in rows, NEW q \in rows, m[p] = m[q] PROVE p = q
    OBVIOUS
  <2>1. number[p[1]][p[2]] = number[q[1]][q[2]]
    OBVIOUS
  <2>2. p[1] = q[1]
    BY <1>2, <1>3, <2>1
  <2>3. p[2] = q[2]
    BY <1>2, <1>3, <2>1, <2>2
  <2> QED
    BY <1>3, <2>2, <2>3
<1>6. \A t \in T : \E p \in rows : m[p] = t
  <2> SUFFICES ASSUME NEW t \in T PROVE \E p \in rows : m[p] = t
    OBVIOUS
  <2>1. h[t] \in S
    OBVIOUS
  <2>2. PICK n \in 1 .. f[h[t]] : number[h[t]][n] = t
    BY <1>2, <2>1
  <2>3. <<h[t], n>> \in rows /\ m[<<h[t], n>>] = t
    BY <1>3, <2>1, <2>2
  <2> QED
    BY <2>3
<1>7. m \in Bijection(rows, T)
  <2> HIDE DEF m
  <2>1. m \in Injection(rows, T) /\ m \in Surjection(rows, T)
    BY <1>4, <1>5, <1>6, Fun_IsInj, Fun_IsSurj
  <2> QED
    BY <2>1 DEF Bijection
<1>8. ExistsBijection(T, rows)
  <2> HIDE DEF m
  <2> QED
    BY <1>7, Fun_ExistsBij, Fun_ExistsBijSymmetric
<1>9. Cardinality(rows) = Cardinality(T)
  BY <1>8, FS_Bijection
<1> QED
  BY <1>9 DEF rows, RowsOfSum, SumOf

(* The rows of some of the elements, by another name of f.                 *)
LEMMA SumOfSome ==
  ASSUME NEW S, NEW f, NEW A \in SUBSET S, NEW g, \A x \in A : g[x] = f[x]
  PROVE  SumOf(A, g) = Cardinality({p \in RowsOfSum(S, f) : p[1] \in A})
<1>1. RowsOfSum(A, g) = {p \in RowsOfSum(S, f) : p[1] \in A}
  <2>1. \A p : p \in RowsOfSum(A, g) <=> \E x \in A : \E n \in 1 .. f[x] : p = <<x, n>>
    BY RowsOfSumAre
  <2>2. \A p : p \in RowsOfSum(S, f) <=> \E x \in S : \E n \in 1 .. f[x] : p = <<x, n>>
    BY RowsOfSumAre
  <2>3. \A p : p \in RowsOfSum(A, g) <=> p \in RowsOfSum(S, f) /\ p[1] \in A
    BY <2>1, <2>2
  <2> QED
    BY <2>3
<1> QED
  BY <1>1 DEF SumOf, RowsOfSum

(* Counting and summing in another order.                                  *)
LEMMA CountInOrder ==
  ASSUME NEW K, NEW S, IsFiniteSet(S), NEW g \in Bijection(K, S), NEW P
  PROVE  Cardinality({k \in K : g[k] \in P}) = Cardinality({x \in S : x \in P})
<1> DEFINE A == {k \in K : g[k] \in P}
           B == {x \in S : x \in P}
           m == [k \in A |-> g[k]]
<1>1. /\ g \in [K -> S]
      /\ \A j, k \in K : g[j] = g[k] => j = k
      /\ \A x \in S : \E k \in K : g[k] = x
  BY Fun_BijectionProperties
<1>2. m \in [A -> B] /\ (\A j, k \in A : m[j] = m[k] => j = k) /\ \A x \in B : \E k \in A : m[k] = x
  BY <1>1
<1>3. m \in Bijection(A, B)
  <2> HIDE DEF m, A, B
  <2>1. m \in Injection(A, B) /\ m \in Surjection(A, B)
    BY <1>2, Fun_IsInj, Fun_IsSurj
  <2> QED
    BY <2>1 DEF Bijection
<1>4. ExistsBijection(B, A)
  <2> HIDE DEF m, A, B
  <2> QED
    BY <1>3, Fun_ExistsBij, Fun_ExistsBijSymmetric
<1>5. IsFiniteSet(B)
  BY FS_Subset
<1> QED
  BY <1>4, <1>5, FS_Bijection

LEMMA SumInOrder ==
  ASSUME NEW K, NEW S, IsFiniteSet(S), NEW g \in Bijection(K, S), NEW f,
         \A x \in S : f[x] \in Nat
  PROVE  SumOf(K, [k \in K |-> f[g[k]]]) = SumOf(S, f)
<1> DEFINE fg == [k \in K |-> f[g[k]]]
           A == RowsOfSum(K, fg)
           B == RowsOfSum(S, f)
           m == [p \in A |-> <<g[p[1]], p[2]>>]
<1>1. /\ g \in [K -> S]
      /\ \A j, k \in K : g[j] = g[k] => j = k
      /\ \A x \in S : \E k \in K : g[k] = x
  BY Fun_BijectionProperties
<1>2. /\ \A p : p \in A <=> \E k \in K : \E n \in 1 .. f[g[k]] : p = <<k, n>>
      /\ \A p : p \in B <=> \E x \in S : \E n \in 1 .. f[x] : p = <<x, n>>
  <2>1. \A p : p \in A <=> \E k \in K : \E n \in 1 .. fg[k] : p = <<k, n>>
    <3> HIDE DEF fg
    <3> QED
      BY RowsOfSumAre
  <2>2. \A p : p \in B <=> \E x \in S : \E n \in 1 .. f[x] : p = <<x, n>>
    BY RowsOfSumAre
  <2> HIDE DEF A, B
  <2> QED
    BY <2>1, <2>2
<1>3. IsFiniteSet(B)
  BY RowsOfSumFinite
<1> HIDE DEF A, B
<1>4. m \in [A -> B]
  BY <1>1, <1>2
<1>5. \A p, q \in A : m[p] = m[q] => p = q
  <2> SUFFICES ASSUME NEW p \in A, NEW q \in A, m[p] = m[q] PROVE p = q
    OBVIOUS
  <2>1. g[p[1]] = g[q[1]] /\ p[2] = q[2]
    OBVIOUS
  <2> QED
    BY <1>1, <1>2, <2>1
<1>6. \A x \in B : \E p \in A : m[p] = x
  <2> SUFFICES ASSUME NEW b \in B PROVE \E p \in A : m[p] = b
    OBVIOUS
  <2>1. PICK x \in S : \E n \in 1 .. f[x] : b = <<x, n>>
    BY <1>2
  <2>2. PICK n \in 1 .. f[x] : b = <<x, n>>
    BY <2>1
  <2>3. PICK k \in K : g[k] = x
    BY <1>1
  <2>4. <<k, n>> \in A
    BY <1>2, <2>3
  <2>5. m[<<k, n>>] = <<x, n>>
    BY <2>3, <2>4
  <2> QED
    BY <2>2, <2>4, <2>5
<1>7. m \in Bijection(A, B)
  <2> HIDE DEF m
  <2>1. m \in Injection(A, B) /\ m \in Surjection(A, B)
    BY <1>4, <1>5, <1>6, Fun_IsInj, Fun_IsSurj
  <2> QED
    BY <2>1 DEF Bijection
<1>8. ExistsBijection(B, A)
  <2> HIDE DEF m
  <2> QED
    BY <1>7, Fun_ExistsBij, Fun_ExistsBijSymmetric
<1>9. Cardinality(A) = Cardinality(B)
  BY <1>3, <1>8, FS_Bijection
<1> QED
  BY <1>9 DEF A, B, RowsOfSum, SumOf

-----------------------------------------------------------------------------
(* Library: the corpus, and what its pages say of the versions.            *)

(* The rows of the corpus are versions that may be filed.                  *)
VersionsAreFilings == versions \in Seq(Filings)

LEMMA LibraryStart == LibraryInit => VersionsAreFilings
BY DEF LibraryInit, VersionsAreFilings

LEMMA LibraryStep ==
  VersionsAreFilings /\ [LibraryNext]_libraryVars => VersionsAreFilings'
BY DEF VersionsAreFilings, LibraryNext, libraryVars

LEMMA CorpusIsTyped ==
  ASSUME VersionsAreFilings
  PROVE  /\ Len(versions) \in Nat
         /\ \A i \in VersionIds :
              /\ i \in Nat
              /\ versions[i] \in Filings
              /\ versions[i].document \in Documents /\ versions[i].document \in Nat
              /\ versions[i].document \in Stored /\ i \in Of(versions[i].document)
              /\ versions[i].issue \in Nat /\ versions[i].passages \in Nat
         /\ Stored \subseteq Documents /\ Documents \subseteq Nat
         /\ \A d \in Stored : Of(d) # {}
         /\ \A d : Of(d) \subseteq VersionIds /\ \A i \in Of(d) : versions[i].document = d
         /\ IsFiniteSet(VersionIds) /\ IsFiniteSet(Stored)
         /\ \A d : IsFiniteSet(Of(d))
<1>1. /\ Len(versions) \in Nat
      /\ \A i \in VersionIds : i \in Nat /\ versions[i] \in Filings
  BY DEF VersionsAreFilings, VersionIds
<1>2. \A f \in Filings : f.document \in Documents /\ f.issue \in Nat /\ f.passages \in Nat
  BY LibraryAssumption
<1>3. Documents \subseteq Nat
  BY LibraryAssumption
<1>4. IsFiniteSet(VersionIds)
  BY <1>1, FS_Interval DEF VersionIds
<1>5. \A d : Of(d) \subseteq VersionIds /\ \A i \in Of(d) : versions[i].document = d
  BY DEF Of
<1>6. IsFiniteSet(Stored)
  <2> DEFINE h == [i \in VersionIds |-> versions[i].document]
  <2>1. h \in [VersionIds -> Stored] /\ \A d \in Stored : \E i \in VersionIds : h[i] = d
    BY DEF Stored
  <2> HIDE DEF h
  <2>2. h \in Surjection(VersionIds, Stored)
    BY <2>1, Fun_IsSurj
  <2> QED
    BY <1>4, <2>2, FS_Surjection
<1>7. \A d : IsFiniteSet(Of(d))
  BY <1>4, <1>5, FS_Subset
<1> QED
  BY <1>1, <1>2, <1>3, <1>4, <1>5, <1>6, <1>7 DEF Stored, Of

(* What both the page of a document and the spreadsheet say of versions is *)
(* true of them in whatever order they are shown.                          *)
LEMMA SummariesAreTrue ==
  ASSUME VersionsAreFilings, NEW S \in SUBSET VersionIds, NEW n \in Nat,
         NEW order \in Bijection(1 .. n, S)
  PROVE  /\ FailedIn(Summaries(order)) = Cardinality({i \in S : LastJob(i) = "FAILED"})
         /\ PassagesIn(Summaries(order))
              = SumOf(S, [i \in VersionIds |-> versions[i].passages])
<1> DEFINE K == 1 .. n
           rows == Summaries(order)
           f == [i \in VersionIds |-> versions[i].passages]
           failed == {i \in VersionIds : LastJob(i) = "FAILED"}
<1>1. order \in [K -> S] /\ DOMAIN order = K /\ IsFiniteSet(S)
  <2>1. order \in [1 .. n -> S]
    BY Fun_BijectionProperties
  <2>2. IsFiniteSet(S)
    BY CorpusIsTyped, FS_Subset
  <2> QED
    BY <2>1, <2>2
<1>2. /\ DOMAIN rows = K
      /\ \A k \in K : /\ rows[k].status = LastJob(order[k])
                      /\ rows[k].chunks = versions[order[k]].passages
  <2> HIDE DEF K
  <2> QED
    BY <1>1 DEF Summaries
<1> HIDE DEF rows
<1>3. FailedIn(rows) = Cardinality({i \in S : LastJob(i) = "FAILED"})
  <2>1. {k \in DOMAIN rows : rows[k].status = "FAILED"} = {k \in K : order[k] \in failed}
    BY <1>1, <1>2
  <2>2. {i \in S : LastJob(i) = "FAILED"} = {i \in S : i \in failed}
    OBVIOUS
  <2>3. order \in Bijection(K, S)
    OBVIOUS
  <2> HIDE DEF failed, K
  <2>4. Cardinality({k \in K : order[k] \in failed}) = Cardinality({i \in S : i \in failed})
    BY <1>1, <2>3, CountInOrder
  <2> QED
    BY <2>1, <2>2, <2>4 DEF FailedIn
<1>4. PassagesIn(rows) = SumOf(S, f)
  <2>1. [k \in DOMAIN rows |-> rows[k].chunks] = [k \in K |-> f[order[k]]]
    BY <1>1, <1>2
  <2>2. \A i \in S : f[i] \in Nat
    BY CorpusIsTyped
  <2> HIDE DEF f, K
  <2>3. SumOf(K, [k \in K |-> f[order[k]]]) = SumOf(S, f)
    BY <1>1, <2>2, SumInOrder DEF K
  <2> QED
    BY <1>2, <2>1, <2>3 DEF PassagesIn
<1> QED
  BY <1>3, <1>4 DEF rows, f

(* The order of the versions on a document's page, and of the spreadsheet. *)
LEMMA DetailIsTrue ==
  ASSUME VersionsAreFilings, NEW d
  PROVE  /\ FailedIn(Detail(d)) = Cardinality({i \in Of(d) : LastJob(i) = "FAILED"})
         /\ PassagesIn(Detail(d)) = SumOf(Of(d), [i \in VersionIds |-> versions[i].passages])
<1> DEFINE S == Of(d)
           ahead == [i \in S |->
             {j \in S :
                \/ versions[j].issue = 0 /\ versions[i].issue # 0
                \/ /\ (versions[j].issue = 0) = (versions[i].issue = 0)
                   /\ \/ versions[j].issue > versions[i].issue
                      \/ versions[j].issue = versions[i].issue /\ j > i}]
<1>1. /\ S \subseteq VersionIds /\ IsFiniteSet(S)
      /\ \A i \in S : i \in Nat /\ versions[i].issue \in Nat
  BY CorpusIsTyped
<1>2. IsOrder(S, ahead)
  <2> DEFINE v == [i \in S |-> versions[i].issue]
  <2> HIDE DEF S
  <2>1. v \in [S -> Nat] /\ S \subseteq Nat
    BY <1>1
  <2>2. \A i, j \in S : j \in ahead[i] <=>
          \/ v[j] = 0 /\ v[i] # 0
          \/ /\ (v[j] = 0) <=> (v[i] = 0)
             /\ v[j] > v[i] \/ (v[j] = v[i] /\ j > i)
    OBVIOUS
  <2>3. ahead \in [S -> SUBSET S]
    OBVIOUS
  <2> HIDE DEF ahead, v
  <2>4. \A i \in S : i \notin ahead[i]
    BY <2>1, <2>2
  <2>5. \A x, y, z \in S : z \in ahead[y] /\ y \in ahead[x] => z \in ahead[x]
    <3> SUFFICES ASSUME NEW x \in S, NEW y \in S, NEW z \in S, z \in ahead[y], y \in ahead[x]
                 PROVE  z \in ahead[x]
      OBVIOUS
    <3>1. /\ x \in Nat /\ y \in Nat /\ z \in Nat
          /\ v[x] \in Nat /\ v[y] \in Nat /\ v[z] \in Nat
      BY <2>1
    <3> QED
      BY <2>2, <3>1
  <2>6. \A x, y \in S : x # y => x \in ahead[y] \/ y \in ahead[x]
    <3> SUFFICES ASSUME NEW x \in S, NEW y \in S, x # y
                 PROVE  x \in ahead[y] \/ y \in ahead[x]
      OBVIOUS
    <3>1. x \in Nat /\ y \in Nat /\ v[x] \in Nat /\ v[y] \in Nat
      BY <2>1
    <3>2. x < y \/ y < x
      BY <3>1
    <3>3. v[x] < v[y] \/ v[y] < v[x] \/ v[x] = v[y]
      BY <3>1
    <3> QED
      BY <2>2, <3>1, <3>2, <3>3
  <2> QED
    BY <1>1, <2>3, <2>4, <2>5, <2>6 DEF IsOrder
<1> HIDE DEF ahead, S
<1>3. /\ Cardinality(S) \in Nat
      /\ InOrder(S, ahead) \in Bijection(1 .. Cardinality(S), S)
  BY <1>2, InOrderIsWhole
<1>4. Detail(d) = Summaries(InOrder(S, ahead))
  BY DEF Detail, S, ahead
<1> QED
  BY <1>1, <1>3, <1>4, SummariesAreTrue DEF S

LEMMA ExportIsTrue ==
  ASSUME VersionsAreFilings
  PROVE  /\ FailedIn(Export) = Overview.failed
         /\ PassagesIn(Export) = Overview.passages
<1> DEFINE S == VersionIds
           ahead == [i \in S |->
             {j \in S :
                \/ versions[j].document < versions[i].document
                \/ versions[j].document = versions[i].document /\ j < i}]
<1>1. /\ IsFiniteSet(S)
      /\ \A i \in S : i \in Nat /\ versions[i].document \in Nat
  BY CorpusIsTyped
<1>2. IsOrder(S, ahead)
  <2> DEFINE v == [i \in S |-> versions[i].document]
  <2> HIDE DEF S
  <2>1. v \in [S -> Nat] /\ S \subseteq Nat
    BY <1>1
  <2>2. \A i, j \in S : j \in ahead[i] <=> v[j] < v[i] \/ (v[j] = v[i] /\ j < i)
    OBVIOUS
  <2>3. ahead \in [S -> SUBSET S]
    OBVIOUS
  <2> HIDE DEF ahead, v
  <2>4. \A i \in S : i \notin ahead[i]
    BY <2>1, <2>2
  <2>5. \A x, y, z \in S : z \in ahead[y] /\ y \in ahead[x] => z \in ahead[x]
    <3> SUFFICES ASSUME NEW x \in S, NEW y \in S, NEW z \in S, z \in ahead[y], y \in ahead[x]
                 PROVE  z \in ahead[x]
      OBVIOUS
    <3>1. /\ x \in Nat /\ y \in Nat /\ z \in Nat
          /\ v[x] \in Nat /\ v[y] \in Nat /\ v[z] \in Nat
      BY <2>1
    <3> QED
      BY <2>2, <3>1
  <2>6. \A x, y \in S : x # y => x \in ahead[y] \/ y \in ahead[x]
    <3> SUFFICES ASSUME NEW x \in S, NEW y \in S, x # y
                 PROVE  x \in ahead[y] \/ y \in ahead[x]
      OBVIOUS
    <3>1. x \in Nat /\ y \in Nat /\ v[x] \in Nat /\ v[y] \in Nat
      BY <2>1
    <3>2. x < y \/ y < x
      BY <3>1
    <3>3. v[x] < v[y] \/ v[y] < v[x] \/ v[x] = v[y]
      BY <3>1
    <3> QED
      BY <2>2, <3>1, <3>2, <3>3
  <2> QED
    BY <1>1, <2>3, <2>4, <2>5, <2>6 DEF IsOrder
<1> HIDE DEF ahead, S
<1>3. /\ Cardinality(S) \in Nat
      /\ InOrder(S, ahead) \in Bijection(1 .. Cardinality(S), S)
  BY <1>2, InOrderIsWhole
<1>4. Export = Summaries(InOrder(S, ahead))
  BY DEF Export, S, ahead
<1>5. /\ FailedIn(Export) = Cardinality({i \in S : LastJob(i) = "FAILED"})
      /\ PassagesIn(Export) = SumOf(S, [i \in VersionIds |-> versions[i].passages])
  <2>1. S \in SUBSET VersionIds
    BY DEF S
  <2> QED
    BY <1>3, <1>4, <2>1, SummariesAreTrue
<1> QED
  BY <1>5 DEF S, Overview

(* Counting the versions document by document counts all of them.          *)
LEMMA VersionsDoAgree == VersionsAreFilings => VersionsAgree
<1> SUFFICES ASSUME VersionsAreFilings PROVE VersionsAgree
  OBVIOUS
<1> DEFINE passages == [i \in VersionIds |-> versions[i].passages]
           failed == {i \in VersionIds : LastJob(i) = "FAILED"}
           rows == RowsOfSum(VersionIds, passages)
<1>1. Overview.failed = SumOf(Stored, [d \in Stored |-> FailedIn(Detail(d))])
  <2> DEFINE h == [i \in failed |-> versions[i].document]
             f == [d \in Stored |-> FailedIn(Detail(d))]
  <2>1. h \in [failed -> Stored]
    BY CorpusIsTyped
  <2>2. \A d \in Stored : f[d] = Cardinality({i \in failed : h[i] = d})
    <3> SUFFICES ASSUME NEW d \in Stored PROVE f[d] = Cardinality({i \in failed : h[i] = d})
      OBVIOUS
    <3>1. {i \in failed : h[i] = d} = {i \in Of(d) : LastJob(i) = "FAILED"}
      BY DEF Of
    <3> QED
      BY <3>1, DetailIsTrue
  <2>3. IsFiniteSet(failed)
    BY CorpusIsTyped, FS_Subset
  <2> HIDE DEF h, f, failed
  <2>4. SumOf(Stored, f) = Cardinality(failed)
    BY <2>1, <2>2, <2>3, SumIsCount
  <2> QED
    BY <2>4 DEF f, failed, Overview
<1>2. Overview.passages = SumOf(Stored, [d \in Stored |-> PassagesIn(Detail(d))])
  <2> DEFINE h == [p \in rows |-> versions[p[1]].document]
             f == [d \in Stored |-> PassagesIn(Detail(d))]
  <2>1. \A p \in rows : p[1] \in VersionIds
    <3> HIDE DEF passages
    <3> QED
      BY RowsOfSumAre
  <2>2. IsFiniteSet(rows)
    <3>1. \A i \in VersionIds : passages[i] \in Nat
      BY CorpusIsTyped
    <3> HIDE DEF passages
    <3> QED
      BY <3>1, CorpusIsTyped, RowsOfSumFinite
  <2> HIDE DEF rows
  <2>3. h \in [rows -> Stored]
    BY <2>1, CorpusIsTyped
  <2>4. \A d \in Stored : f[d] = Cardinality({p \in rows : h[p] = d})
    <3> SUFFICES ASSUME NEW d \in Stored PROVE f[d] = Cardinality({p \in rows : h[p] = d})
      OBVIOUS
    <3>1. {p \in rows : h[p] = d} = {p \in rows : p[1] \in Of(d)}
      BY <2>1 DEF Of
    <3>2. Of(d) \in SUBSET VersionIds
      BY DEF Of
    <3>3. f[d] = SumOf(Of(d), passages)
      BY DetailIsTrue
    <3> HIDE DEF passages, f, h
    <3>4. SumOf(Of(d), passages) = Cardinality({p \in RowsOfSum(VersionIds, passages) : p[1] \in Of(d)})
      BY <3>2, SumOfSome
    <3> QED
      BY <3>1, <3>3, <3>4 DEF rows
  <2> HIDE DEF h, f
  <2>5. SumOf(Stored, f) = Cardinality(rows)
    BY <2>2, <2>3, <2>4, SumIsCount
  <2>6. Overview.passages = Cardinality(rows)
    BY DEF Overview, rows, RowsOfSum, SumOf
  <2> QED
    BY <2>5, <2>6 DEF f
<1> QED
  BY <1>1, <1>2, ExportIsTrue DEF VersionsAgree

-----------------------------------------------------------------------------
(* Library: the filters.                                                   *)

(* No version has an unset source or status, no document an unset type.    *)
LEMMA FiltersAreSet ==
  ASSUME VersionsAreFilings
  PROVE  /\ \A i \in VersionIds : /\ versions[i].source # Unset /\ versions[i].source \in Sources
                                  /\ versions[i].status # Unset /\ versions[i].status \in Statuses
                                  /\ TypeOf[versions[i].document] \in DOMAIN KindOf
         /\ \A s \in Sources \cup Statuses \cup Kinds \cup DOMAIN KindOf : s # Unset
         /\ \A d \in Stored : TypeOf[d] \in DOMAIN KindOf
<1>1. \A i \in VersionIds : versions[i].source \in Sources /\ versions[i].status \in Statuses
  <2>1. \A i \in VersionIds : versions[i] \in Filings
    BY CorpusIsTyped
  <2> QED
    BY <2>1 DEF Sources, Statuses
<1>2. \A s \in Sources \cup Statuses \cup Kinds \cup DOMAIN KindOf : s # Unset
  BY LibraryAssumption
<1>3. \A d \in Documents : TypeOf[d] \in DOMAIN KindOf
  BY LibraryAssumption
<1> QED
  BY <1>1, <1>2, <1>3, CorpusIsTyped

(* Without a kind and a type the types narrow nothing.                     *)
LEMMA NoTypeAsked ==
  ASSUME VersionsAreFilings
  PROVE  \A i \in VersionIds : /\ versions[i].document \in Documents
                               /\ TypeOf[versions[i].document] \in TypesWanted(Unset, Unset)
BY CorpusIsTyped, FiltersAreSet DEF TypesWanted

LEMMA SourcesAgree ==
  ASSUME VersionsAreFilings, NEW s \in Sources
  PROVE  Total([NoFilter EXCEPT !.source = s]) = BySource(s)
<1> DEFINE r == [NoFilter EXCEPT !.source = s]
<1>1. /\ r.text = Documents /\ r.kind = Unset /\ r.type = Unset /\ r.source = s /\ r.status = Unset
  BY DEF NoFilter
<1> HIDE DEF r
<1>2. s # Unset
  BY FiltersAreSet
<1>3. MatchingRows(r) = {i \in VersionIds : versions[i].source = s}
  BY <1>1, <1>2, NoTypeAsked DEF MatchingRows
<1>4. Total(r) = BySource(s)
  BY <1>3 DEF Total, Matching, BySource, DocumentsPer
<1> QED
  BY <1>4 DEF r

LEMMA StatusesAgree ==
  ASSUME VersionsAreFilings, NEW s \in Statuses
  PROVE  Total([NoFilter EXCEPT !.status = s]) = ByStatus(s)
<1> DEFINE r == [NoFilter EXCEPT !.status = s]
<1>1. /\ r.text = Documents /\ r.kind = Unset /\ r.type = Unset /\ r.source = Unset /\ r.status = s
  BY DEF NoFilter
<1> HIDE DEF r
<1>2. s # Unset
  BY FiltersAreSet
<1>3. MatchingRows(r) = {i \in VersionIds : versions[i].status = s}
  BY <1>1, <1>2, NoTypeAsked DEF MatchingRows
<1>4. Total(r) = ByStatus(s)
  BY <1>3 DEF Total, Matching, ByStatus, DocumentsPer
<1> QED
  BY <1>4 DEF r

(* A kind's number adds those of its types.                                *)
LEMMA KindsAgree ==
  ASSUME VersionsAreFilings, NEW kind \in Kinds
  PROVE  Total([NoFilter EXCEPT !.kind = kind]) = ByKind(kind)
<1> DEFINE r == [NoFilter EXCEPT !.kind = kind]
           types == {t \in {TypeOf[d] : d \in Stored} : KindOf[t] = kind}
           T == {d \in Stored : KindOf[TypeOf[d]] = kind}
           h == [d \in T |-> TypeOf[d]]
           f == [t \in DOMAIN KindOf |-> Cardinality({d \in Stored : TypeOf[d] = t})]
<1>1. /\ r.text = Documents /\ r.kind = kind /\ r.type = Unset /\ r.source = Unset /\ r.status = Unset
  BY DEF NoFilter
<1>2. kind # Unset
  BY FiltersAreSet
<1>3. Matching(r) = T
  <2> HIDE DEF r
  <2>1. TypesWanted(r.kind, r.type) = types
    BY <1>1, <1>2 DEF TypesWanted
  <2>2. MatchingRows(r) = {i \in VersionIds : KindOf[TypeOf[versions[i].document]] = kind}
    <3>1. \A i \in VersionIds : versions[i].document \in Documents /\ versions[i].document \in Stored
      BY CorpusIsTyped
    <3> HIDE DEF types
    <3>2. \A i \in VersionIds : i \in MatchingRows(r) <=> TypeOf[versions[i].document] \in types
      BY <1>1, <2>1, <3>1 DEF MatchingRows
    <3>3. \A d \in Stored : TypeOf[d] \in types <=> KindOf[TypeOf[d]] = kind
      BY DEF types
    <3>4. MatchingRows(r) \subseteq VersionIds
      BY DEF MatchingRows
    <3> QED
      BY <3>1, <3>2, <3>3, <3>4
  <2> QED
    BY <2>2 DEF Matching, Stored
<1>4. IsFiniteSet(T) /\ h \in [T -> types]
  <2>1. IsFiniteSet(T)
    BY CorpusIsTyped, FS_Subset
  <2> QED
    BY <2>1
<1>5. \A t \in types : f[t] = Cardinality({d \in T : h[d] = t})
  <2> SUFFICES ASSUME NEW t \in types PROVE f[t] = Cardinality({d \in T : h[d] = t})
    OBVIOUS
  <2>1. t \in DOMAIN KindOf /\ KindOf[t] = kind
    BY FiltersAreSet
  <2>2. {d \in T : h[d] = t} = {d \in Stored : TypeOf[d] = t}
    BY <2>1
  <2> QED
    BY <2>1, <2>2
<1>6. SumOf(types, f) = Cardinality(T)
  <2> HIDE DEF r, types, T, h, f
  <2>1. IsFiniteSet(T)
    BY <1>4
  <2>2. h \in [T -> types]
    BY <1>4
  <2> QED
    BY <2>1, <2>2, <1>5, SumIsCount, Z3
<1>7. ByKind(kind) = SumOf(types, f)
  BY DEF ByKind
<1> HIDE DEF r, T
<1>8. Total(r) = ByKind(kind)
  BY <1>3, <1>6, <1>7 DEF Total
<1> QED
  BY <1>8 DEF r

LEMMA FiltersDoAgree == VersionsAreFilings => FiltersAgree
<1> SUFFICES ASSUME VersionsAreFilings PROVE FiltersAgree
  OBVIOUS
<1>1. Overview.documents = Total(NoFilter)
  <2>1. MatchingRows(NoFilter) = VersionIds
    BY NoTypeAsked DEF MatchingRows, NoFilter
  <2> QED
    BY <2>1 DEF Overview, Total, Matching, Stored
<1> QED
  BY <1>1, SourcesAgree, StatusesAgree, KindsAgree DEF FiltersAgree

LEMMA TypesDoAgree == VersionsAreFilings => TypesAgree
<1> SUFFICES ASSUME VersionsAreFilings, NEW r \in Requests, NEW d \in Matching(r)
             PROVE  /\ r.type \in {Unset, TypeOf[d]}
                    /\ r.kind = Unset \/ Item(d).kind = r.kind \/ ByKind(r.kind) = 0
  BY DEF TypesAgree
<1> DEFINE ofKind == {t \in {TypeOf[e] : e \in Stored} : KindOf[t] = r.kind}
<1>1. TypeOf[d] \in TypesWanted(r.kind, r.type)
  BY DEF Matching, MatchingRows
<1>2. r.type \in {Unset, TypeOf[d]}
  BY <1>1 DEF TypesWanted
<1>3. r.kind = Unset \/ KindOf[TypeOf[d]] = r.kind \/ ofKind = {}
  BY <1>1 DEF TypesWanted
<1>4. ofKind = {} => ByKind(r.kind) = 0
  <2> SUFFICES ASSUME ofKind = {} PROVE ByKind(r.kind) = 0
    OBVIOUS
  <2>1. ByKind(r.kind) = Cardinality({})
    BY DEF ByKind, SumOf
  <2> QED
    BY <2>1, FS_EmptySet
<1> QED
  BY <1>2, <1>3, <1>4 DEF Item

-----------------------------------------------------------------------------
(* Library: the pages.                                                     *)

(* A document's item shows its latest issue date.                          *)
LEMMA ItemIsLatest ==
  ASSUME VersionsAreFilings, NEW d \in Stored
  PROVE  Item(d).issue = LatestIssue(d) /\ LatestIssue(d) \in Nat
<1> DEFINE S == Of(d)
           v == [i \in S |-> versions[i].issue]
           ahead == [i \in S |-> {j \in S : v[j] > v[i] \/ (v[j] = v[i] /\ j > i)}]
<1>1. S # {} /\ IsFiniteSet(S) /\ S \subseteq Nat /\ v \in [S -> Nat]
  BY CorpusIsTyped
<1>2. \A i \in S : v[i] = versions[i].issue
  OBVIOUS
<1> HIDE DEF S, v
<1>3. IsOrder(S, ahead)
  <2>1. \A i, j \in S : j \in ahead[i] <=> v[j] > v[i] \/ (v[j] = v[i] /\ j > i)
    OBVIOUS
  <2>2. ahead \in [S -> SUBSET S]
    OBVIOUS
  <2> HIDE DEF ahead
  <2>3. \A i \in S : i \notin ahead[i]
    BY <1>1, <2>1
  <2>4. \A x, y, z \in S : z \in ahead[y] /\ y \in ahead[x] => z \in ahead[x]
    <3> SUFFICES ASSUME NEW x \in S, NEW y \in S, NEW z \in S, z \in ahead[y], y \in ahead[x]
                 PROVE  z \in ahead[x]
      OBVIOUS
    <3>1. /\ x \in Nat /\ y \in Nat /\ z \in Nat
          /\ v[x] \in Nat /\ v[y] \in Nat /\ v[z] \in Nat
      BY <1>1
    <3> QED
      BY <2>1, <3>1
  <2>5. \A x, y \in S : x # y => x \in ahead[y] \/ y \in ahead[x]
    <3> SUFFICES ASSUME NEW x \in S, NEW y \in S, x # y
                 PROVE  x \in ahead[y] \/ y \in ahead[x]
      OBVIOUS
    <3>1. x \in Nat /\ y \in Nat /\ v[x] \in Nat /\ v[y] \in Nat
      BY <1>1
    <3>2. x < y \/ y < x
      BY <3>1
    <3>3. v[x] < v[y] \/ v[y] < v[x] \/ v[x] = v[y]
      BY <3>1
    <3> QED
      BY <2>1, <3>1, <3>2, <3>3
  <2> QED
    BY <1>1, <2>2, <2>3, <2>4, <2>5 DEF IsOrder
<1>4. PICK i \in S : ahead[i] = {}
  <2> HIDE DEF ahead
  <2> QED
    BY <1>1, <1>3, SomeoneIsFirst
<1>5. \A j \in S : v[i] > v[j] \/ (v[i] = v[j] /\ i >= j)
  <2> SUFFICES ASSUME NEW j \in S PROVE v[i] > v[j] \/ (v[i] = v[j] /\ i >= j)
    OBVIOUS
  <2>1. ~ (v[j] > v[i] \/ (v[j] = v[i] /\ j > i))
    BY <1>4
  <2>2. i \in Nat /\ j \in Nat /\ v[i] \in Nat /\ v[j] \in Nat
    BY <1>1
  <2> QED
    BY <2>1, <2>2
<1> DEFINE L == LatestVersion(d)
<1>6. L \in S /\ \A j \in S : v[L] > v[j] \/ (v[L] = v[j] /\ L >= j)
  <2>1. L = CHOOSE k \in S : \A j \in S : versions[k].issue > versions[j].issue
                                            \/ (versions[k].issue = versions[j].issue /\ k >= j)
    BY DEF LatestVersion, S
  <2>2. \A j \in S : versions[i].issue > versions[j].issue
                       \/ (versions[i].issue = versions[j].issue /\ i >= j)
    BY <1>2, <1>5
  <2> HIDE DEF L
  <2>3. L \in S /\ \A j \in S : versions[L].issue > versions[j].issue
                                  \/ (versions[L].issue = versions[j].issue /\ L >= j)
    BY <2>1, <2>2
  <2> QED
    BY <1>2, <2>3
<1> HIDE DEF L
<1>7. LatestIssue(d) = v[L]
  <2> DEFINE issues == {versions[k].issue : k \in S}
  <2>1. LatestIssue(d) = CHOOSE x \in issues : \A y \in issues : x >= y
    BY DEF LatestIssue, Max, S
  <2>2. v[L] \in issues /\ \A y \in issues : v[L] >= y /\ y \in Nat
    BY <1>1, <1>2, <1>6
  <2> HIDE DEF issues
  <2>3. LatestIssue(d) \in issues /\ \A y \in issues : LatestIssue(d) >= y
    BY <2>1, <2>2
  <2>4. LatestIssue(d) \in Nat /\ v[L] \in Nat /\ LatestIssue(d) >= v[L] /\ v[L] >= LatestIssue(d)
    BY <2>2, <2>3
  <2> QED
    BY <2>4
<1>8. Item(d).issue = v[L]
  BY <1>2, <1>6 DEF Item, L
<1> QED
  BY <1>1, <1>6, <1>7, <1>8

(* The order of the list: each document that matches, newest issue first.  *)
LEMMA ListIsInOrder ==
  ASSUME VersionsAreFilings, NEW r
  PROVE  /\ Total(r) \in Nat
         /\ ListOrder(r) \in Bijection(1 .. Total(r), Matching(r))
         /\ ListOrder(r) \in [1 .. Total(r) -> Matching(r)]
         /\ Matching(r) \subseteq Stored
         /\ \A k \in 1 .. Total(r) - 1 :
              LatestIssue(ListOrder(r)[k]) >= LatestIssue(ListOrder(r)[k + 1])
<1> DEFINE S == Matching(r)
           v == [d \in S |-> LatestIssue(d)]
           ahead == [d \in S |-> {e \in S : v[e] > v[d] \/ (v[e] = v[d] /\ e < d)}]
<1>1. S \subseteq Stored
  BY DEF Matching, MatchingRows, Stored
<1>2. IsFiniteSet(S) /\ S \subseteq Nat
  <2>1. IsFiniteSet(Stored) /\ Stored \subseteq Nat
    BY CorpusIsTyped
  <2> HIDE DEF S
  <2> QED
    BY <1>1, <2>1, FS_Subset
<1>3. v \in [S -> Nat]
  <2>1. \A d \in S : LatestIssue(d) \in Nat
    BY <1>1, ItemIsLatest
  <2> QED
    BY <2>1
<1>4. ListOrder(r) = InOrder(S, ahead)
  <2>1. \A d \in S : {e \in S : v[e] > v[d] \/ (v[e] = v[d] /\ e < d)}
                       = {e \in S : \/ LatestIssue(e) > LatestIssue(d)
                                    \/ LatestIssue(e) = LatestIssue(d) /\ e < d}
    OBVIOUS
  <2>2. ahead = [d \in S |-> {e \in S : \/ LatestIssue(e) > LatestIssue(d)
                                        \/ LatestIssue(e) = LatestIssue(d) /\ e < d}]
    BY <2>1
  <2> QED
    BY <2>2 DEF ListOrder
<1>5. \A d \in S : v[d] = LatestIssue(d)
  OBVIOUS
<1> HIDE DEF S, v
<1>6. \A d, e \in S : e \in ahead[d] <=> v[e] > v[d] \/ (v[e] = v[d] /\ e < d)
  OBVIOUS
<1>7. IsOrder(S, ahead)
  <2>1. ahead \in [S -> SUBSET S]
    OBVIOUS
  <2> HIDE DEF ahead
  <2>2. \A i \in S : i \notin ahead[i]
    BY <1>2, <1>3, <1>6
  <2>3. \A x, y, z \in S : z \in ahead[y] /\ y \in ahead[x] => z \in ahead[x]
    <3> SUFFICES ASSUME NEW x \in S, NEW y \in S, NEW z \in S, z \in ahead[y], y \in ahead[x]
                 PROVE  z \in ahead[x]
      OBVIOUS
    <3>1. /\ x \in Nat /\ y \in Nat /\ z \in Nat
          /\ v[x] \in Nat /\ v[y] \in Nat /\ v[z] \in Nat
      BY <1>2, <1>3
    <3> QED
      BY <1>6, <3>1
  <2>4. \A x, y \in S : x # y => x \in ahead[y] \/ y \in ahead[x]
    <3> SUFFICES ASSUME NEW x \in S, NEW y \in S, x # y
                 PROVE  x \in ahead[y] \/ y \in ahead[x]
      OBVIOUS
    <3>1. x \in Nat /\ y \in Nat /\ v[x] \in Nat /\ v[y] \in Nat
      BY <1>2, <1>3
    <3>2. x < y \/ y < x
      BY <3>1
    <3>3. v[x] < v[y] \/ v[y] < v[x] \/ v[x] = v[y]
      BY <3>1
    <3> QED
      BY <1>6, <3>1, <3>2, <3>3
  <2> QED
    BY <1>2, <2>1, <2>2, <2>3, <2>4 DEF IsOrder
<1> HIDE DEF ahead
<1> DEFINE n == Cardinality(S)
           order == InOrder(S, ahead)
<1>8. /\ n \in Nat
      /\ order \in Bijection(1 .. n, S)
      /\ \A j, k \in 1 .. n : j < k => order[j] \in ahead[order[k]]
  BY <1>7, InOrderIsWhole
<1> HIDE DEF n, order
<1>9. order \in [1 .. n -> S]
  BY <1>8, Fun_BijectionProperties
<1>10. ASSUME NEW k \in 1 .. n - 1
       PROVE  LatestIssue(order[k]) >= LatestIssue(order[k + 1])
  <2>1. k \in 1 .. n /\ k + 1 \in 1 .. n /\ k < k + 1
    BY <1>8
  <2>2. order[k] \in S /\ order[k + 1] \in S /\ order[k] \in ahead[order[k + 1]]
    BY <1>8, <1>9, <2>1
  <2>3. v[order[k]] >= v[order[k + 1]]
    BY <1>3, <1>6, <2>2
  <2> QED
    BY <1>5, <2>2, <2>3
<1>11. Total(r) = n /\ ListOrder(r) = order /\ Matching(r) = S
  BY <1>4 DEF Total, n, order, S
<1> QED
  BY <1>1, <1>8, <1>9, <1>10, <1>11

(* As many pages as it takes: each begins within the list, the last one    *)
(* ends at its end or behind it.                                           *)
LEMMA PagesSuffice ==
  ASSUME NEW total \in Nat, NEW limit \in Nat \ {0}
  PROVE  LET n == (total + limit - 1) \div limit
         IN  /\ n \in Nat /\ n * limit >= total
             /\ \A k \in 1 .. n : /\ (k - 1) * limit \in Nat /\ k * limit \in Nat
                                  /\ (k - 1) * limit < total
                                  /\ k * limit = (k - 1) * limit + limit
<1> DEFINE n == (total + limit - 1) \div limit
<1>1. n \in Nat /\ n * limit <= total + limit - 1 /\ total + limit - 1 < n * limit + limit
  OBVIOUS
<1> HIDE DEF n
<1>2. n * limit \in Nat /\ n * limit >= total
  BY <1>1
<1>3. ASSUME NEW k \in 1 .. n
      PROVE  /\ (k - 1) * limit \in Nat /\ k * limit \in Nat
             /\ (k - 1) * limit < total
             /\ k * limit = (k - 1) * limit + limit
  <2>1. k \in Nat /\ k - 1 \in Nat /\ n - k \in Nat
    BY <1>1
  <2>2. k * limit \in Nat /\ (k - 1) * limit \in Nat /\ (n - k) * limit \in Nat
    BY <2>1
  <2>3. k * limit = (k - 1) * limit + limit
    BY <2>1
  <2>4. n * limit = k * limit + (n - k) * limit
    BY <1>1, <2>1
  <2> QED
    BY <1>1, <1>2, <2>2, <2>3, <2>4
<1> QED
  BY <1>1, <1>2, <1>3 DEF n

(* One page more: the beginning of a list up to b is that up to a and the  *)
(* piece between.                                                          *)
LEMMA BeginningGrows ==
  ASSUME NEW C, NEW s \in Seq(C), NEW a \in 0 .. Len(s), NEW b \in a .. Len(s)
  PROVE  SubSeq(s, 1, a) \o SubSeq(s, a + 1, b) = SubSeq(s, 1, b)
<1> DEFINE x == SubSeq(s, 1, a)
           y == SubSeq(s, a + 1, b)
           z == SubSeq(s, 1, b)
<1>1. /\ Len(s) \in Nat /\ a \in Nat /\ b \in Nat /\ a <= b /\ b <= Len(s)
      /\ \A i \in 1 .. Len(s) : s[i] \in C
  OBVIOUS
<1>2. /\ x \in Seq(C) /\ Len(x) = a
      /\ \A i \in 1 .. a : x[i] = s[i]
  <2>1. \A i \in 1 .. a : s[i] \in C
    BY <1>1
  <2>2. /\ x \in Seq(C) /\ Len(x) = IF 1 <= a THEN a - 1 + 1 ELSE 0
        /\ \A i \in 1 .. a - 1 + 1 : x[i] = s[1 + i - 1]
    <3>1. 1 \in Int /\ a \in Int
      BY <1>1
    <3> QED
      BY <2>1, <3>1, SubSeqProperties
  <2> HIDE DEF x
  <2> QED
    BY <1>1, <2>2
<1>3. /\ y \in Seq(C) /\ Len(y) = b - a
      /\ \A i \in 1 .. b - a : y[i] = s[a + i]
  <2>1. \A i \in a + 1 .. b : s[i] \in C
    BY <1>1
  <2>2. a + 1 \in Int /\ b \in Int
    OBVIOUS
  <2>3. /\ y \in Seq(C) /\ Len(y) = IF a + 1 <= b THEN b - (a + 1) + 1 ELSE 0
        /\ \A i \in 1 .. b - (a + 1) + 1 : y[i] = s[a + 1 + i - 1]
    BY <2>1, <2>2, SubSeqProperties
  <2> HIDE DEF y
  <2> QED
    BY <1>1, <2>3
<1>4. /\ z \in Seq(C) /\ Len(z) = b
      /\ \A i \in 1 .. b : z[i] = s[i]
  <2>1. \A i \in 1 .. b : s[i] \in C
    BY <1>1
  <2>2. /\ z \in Seq(C) /\ Len(z) = IF 1 <= b THEN b - 1 + 1 ELSE 0
        /\ \A i \in 1 .. b - 1 + 1 : z[i] = s[1 + i - 1]
    <3>1. 1 \in Int /\ b \in Int
      BY <1>1
    <3> QED
      BY <2>1, <3>1, SubSeqProperties
  <2> HIDE DEF z
  <2> QED
    BY <1>1, <2>2
<1> HIDE DEF x, y, z
<1>5. /\ x \o y \in Seq(C) /\ Len(x \o y) = Len(x) + Len(y)
      /\ \A i \in 1 .. Len(x) + Len(y) : (x \o y)[i] = IF i <= Len(x) THEN x[i] ELSE y[i - Len(x)]
  BY <1>2, <1>3, ConcatProperties
<1>6. Len(x \o y) = b
  BY <1>2, <1>3, <1>5
<1>7. \A i \in 1 .. b : (x \o y)[i] = z[i]
  <2> SUFFICES ASSUME NEW i \in 1 .. b PROVE (x \o y)[i] = z[i]
    OBVIOUS
  <2>1. (x \o y)[i] = IF i <= a THEN x[i] ELSE y[i - a]
    <3>1. i \in 1 .. Len(x) + Len(y)
      BY <1>1, <1>2, <1>3
    <3>2. (x \o y)[i] = IF i <= Len(x) THEN x[i] ELSE y[i - Len(x)]
      BY <1>5, <3>1
    <3> QED
      BY <1>2, <3>2
  <2>2. CASE i <= a
    <3>1. i \in 1 .. a
      BY <2>2
    <3> QED
      BY <1>2, <1>4, <2>1, <2>2, <3>1
  <2>3. CASE ~ (i <= a)
    <3>1. i - a \in 1 .. b - a /\ a + (i - a) = i
      BY <1>1, <2>3
    <3> QED
      BY <1>3, <1>4, <2>1, <2>3, <3>1
  <2> QED
    BY <2>2, <2>3
<1>8. x \o y = z
  BY <1>4, <1>5, <1>6, <1>7, SeqEqual
<1> QED
  BY <1>8 DEF x, y, z

(* Turning all pages shows the list.                                       *)
LEMMA TurningShowsAll ==
  ASSUME VersionsAreFilings, NEW r, NEW limit \in Nat \ {0}
  PROVE  Turning(r, limit, (Total(r) + limit - 1) \div limit) = ListOrder(r)
<1> DEFINE total == Total(r)
           n == (total + limit - 1) \div limit
           order == ListOrder(r)
           upTo(k) == IF k * limit <= total THEN k * limit ELSE total
           C == [k \in 0 .. n |-> SubSeq(order, 1, upTo(k))]
           F == CHOOSE f : f = [k \in 0 .. n |->
                  IF k = 0 THEN <<>> ELSE f[k - 1] \o Page(r, (k - 1) * limit, limit)]
<1>1. /\ total \in Nat /\ order \in Seq(Matching(r)) /\ Len(order) = total
  <2>1. total \in Nat /\ order \in [1 .. total -> Matching(r)]
    BY ListIsInOrder
  <2> HIDE DEF total, order
  <2> QED
    BY <2>1
<1>2. /\ n \in Nat /\ n * limit >= total
      /\ \A k \in 1 .. n : /\ (k - 1) * limit \in Nat /\ k * limit \in Nat
                           /\ (k - 1) * limit < total
                           /\ k * limit = (k - 1) * limit + limit
  <2> HIDE DEF total
  <2> QED
    BY <1>1, PagesSuffice
<1> HIDE DEF n, order, total
<1>3. \A k \in 1 .. n : SubSeq(order, 1, upTo(k - 1)) \o Page(r, (k - 1) * limit, limit)
                          = SubSeq(order, 1, upTo(k))
  <2> SUFFICES ASSUME NEW k \in 1 .. n
               PROVE  SubSeq(order, 1, upTo(k - 1)) \o Page(r, (k - 1) * limit, limit)
                        = SubSeq(order, 1, upTo(k))
    OBVIOUS
  <2> DEFINE a == (k - 1) * limit
             b == upTo(k)
  <2>1. a \in 0 .. total /\ b \in a .. total /\ upTo(k - 1) = a
    BY <1>1, <1>2
  <2>2. Min({a + limit, total}) = b
    <3>1. k * limit = a + limit /\ a + limit \in Nat
      BY <1>2
    <3>2. Min({a + limit, total}) = IF a + limit <= total THEN a + limit ELSE total
      <4> HIDE DEF a
      <4> QED
        BY <1>1, <3>1, LesserOfTwo
    <3> QED
      BY <3>1, <3>2
  <2>3. Page(r, a, limit) = SubSeq(order, a + 1, b)
    <3> HIDE DEF a, b
    <3> QED
      BY <1>1, <2>2 DEF Page, order
  <2>4. SubSeq(order, 1, a) \o SubSeq(order, a + 1, b) = SubSeq(order, 1, b)
    <3> HIDE DEF a, b
    <3> QED
      BY <1>1, <2>1, BeginningGrows
  <2> QED
    BY <2>1, <2>3, <2>4
<1>4. SubSeq(order, 1, upTo(0)) = <<>>
  <2>1. upTo(0) = 0
    BY <1>1
  <2>2. SubSeq(order, 1, 0) = <<>>
    BY SubSeqEmpty
  <2> QED
    BY <2>1, <2>2
<1>5. C = [k \in 0 .. n |-> IF k = 0 THEN <<>> ELSE C[k - 1] \o Page(r, (k - 1) * limit, limit)]
  <2>1. \A k \in 0 .. n : k # 0 => k \in 1 .. n /\ k - 1 \in 0 .. n
    BY <1>2
  <2>2. \A k \in 0 .. n : C[k] = SubSeq(order, 1, upTo(k))
    OBVIOUS
  <2>3. C = [k \in 0 .. n |-> C[k]]
    OBVIOUS
  <2> HIDE DEF C, upTo
  <2>4. \A k \in 0 .. n : C[k] = IF k = 0 THEN <<>> ELSE C[k - 1] \o Page(r, (k - 1) * limit, limit)
    BY <1>3, <1>4, <2>1, <2>2
  <2> QED
    BY <2>3, <2>4
<1>6. F = [k \in 0 .. n |-> IF k = 0 THEN <<>> ELSE F[k - 1] \o Page(r, (k - 1) * limit, limit)]
  <2> HIDE DEF C
  <2> QED
    BY <1>5
<1>7. Turning(r, limit, n) = F[n]
  BY DEF Turning
<1> HIDE DEF F
<1>8. F[0] = <<>> /\ \A k \in 1 .. n : F[k] = F[k - 1] \o Page(r, (k - 1) * limit, limit)
  <2>1. \A k \in 0 .. n : F[k] = IF k = 0 THEN <<>> ELSE F[k - 1] \o Page(r, (k - 1) * limit, limit)
    BY <1>6, Zenon
  <2>2. 0 \in 0 .. n /\ \A k \in 1 .. n : k \in 0 .. n /\ k # 0
    BY <1>2
  <2> QED
    BY <2>1, <2>2
<1>9. \A k \in 0 .. n : F[k] = SubSeq(order, 1, upTo(k))
  <2> DEFINE good == {k \in 0 .. n : F[k] = SubSeq(order, 1, upTo(k))}
  <2> HIDE DEF upTo
  <2>1. 0 \in good
    <3>1. F[0] = SubSeq(order, 1, upTo(0))
      BY <1>4, <1>8
    <3> QED
      BY <1>2, <3>1
  <2>2. ASSUME NEW k \in 0 .. n - 1, k \in good PROVE k + 1 \in good
    <3>1. k + 1 \in 1 .. n /\ (k + 1) - 1 = k /\ k + 1 \in 0 .. n
      BY <1>2
    <3>2. F[k] = SubSeq(order, 1, upTo(k))
      BY <2>2
    <3>3. F[k + 1] = F[k] \o Page(r, k * limit, limit)
      BY <1>8, <3>1
    <3>4. SubSeq(order, 1, upTo(k)) \o Page(r, k * limit, limit) = SubSeq(order, 1, upTo(k + 1))
      BY <1>3, <3>1
    <3> QED
      BY <3>1, <3>2, <3>3, <3>4
  <2> HIDE DEF good
  <2>3. \A k \in 0 .. n : k \in good
    BY <1>2, <2>1, <2>2, CountingUp
  <2> QED
    BY <2>3 DEF good
<1>10. F[n] = SubSeq(order, 1, total)
  <2>1. upTo(n) = total /\ n \in 0 .. n
    BY <1>1, <1>2
  <2> QED
    BY <1>9, <2>1
<1>11. SubSeq(order, 1, total) = order
  BY <1>1, SubSeqFull
<1> QED
  BY <1>7, <1>10, <1>11 DEF n, order, total

LEMMA PagesAreAlwaysWhole == VersionsAreFilings => PagesAreWhole
<1> SUFFICES ASSUME VersionsAreFilings, NEW r, NEW limit \in PageLimits
             PROVE  LET shown == Turning(r, limit, (Total(r) + limit - 1) \div limit)
                    IN  /\ Len(shown) = Total(r) /\ ToSet(shown) = Matching(r)
                        /\ \A k \in 1 .. Len(shown) - 1 :
                             Item(shown[k]).issue >= Item(shown[k + 1]).issue
  BY DEF PagesAreWhole
<1> DEFINE shown == ListOrder(r)
           total == Total(r)
<1>1. Turning(r, limit, (Total(r) + limit - 1) \div limit) = shown
  <2>1. limit \in Nat \ {0}
    BY LibraryAssumption
  <2> QED
    BY <2>1, TurningShowsAll
<1>2. /\ total \in Nat
      /\ shown \in Bijection(1 .. total, Matching(r))
      /\ shown \in [1 .. total -> Matching(r)]
      /\ Matching(r) \subseteq Stored
      /\ \A k \in 1 .. total - 1 : LatestIssue(shown[k]) >= LatestIssue(shown[k + 1])
  BY ListIsInOrder
<1> HIDE DEF shown, total
<1>3. Len(shown) = total /\ DOMAIN shown = 1 .. total
  BY <1>2
<1>4. ToSet(shown) = Matching(r)
  <2>1. \A d \in Matching(r) : \E k \in 1 .. total : shown[k] = d
    BY <1>2, Fun_BijectionProperties
  <2> QED
    BY <1>2, <1>3, <2>1 DEF ToSet
<1>5. \A k \in 1 .. total - 1 : Item(shown[k]).issue >= Item(shown[k + 1]).issue
  <2> SUFFICES ASSUME NEW k \in 1 .. total - 1
               PROVE  Item(shown[k]).issue >= Item(shown[k + 1]).issue
    OBVIOUS
  <2>1. k \in 1 .. total /\ k + 1 \in 1 .. total
    BY <1>2
  <2>2. shown[k] \in Stored /\ shown[k + 1] \in Stored
    BY <1>2, <2>1
  <2>3. Item(shown[k]).issue = LatestIssue(shown[k]) /\ Item(shown[k + 1]).issue = LatestIssue(shown[k + 1])
    BY <2>2, ItemIsLatest
  <2> QED
    BY <1>2, <2>3
<1> QED
  BY <1>1, <1>3, <1>4, <1>5 DEF total

(* Whatever the corpus holds, and for pages of any size: the lists are     *)
(* whole and in order, the numbers beside the filters are what the list    *)
(* shows under them, and the overview, the documents' own pages and the    *)
(* spreadsheet say the same of the versions.                               *)
THEOREM ListsAgreeAlways == LibrarySpec => []ListsAgree
<1>1. VersionsAreFilings => ListsAgree
  BY PagesAreAlwaysWhole, FiltersDoAgree, TypesDoAgree, VersionsDoAgree DEF ListsAgree
<1> QED
  BY <1>1, LibraryStart, LibraryStep, PTL DEF LibrarySpec
=============================================================================
