----------------------------- MODULE Retrieval ------------------------------
(***************************************************************************)
(* Ranking passages: retrieval/search.py and the slices of it that         *)
(* api/routes/search.py returns.                                           *)
(*                                                                         *)
(* A ranking is a sequence of passages.  A query is a record of what the   *)
(* database computes for it: per text, the matched terms and the rank that *)
(* breaks their ties, the distance of its vector, and whether the query    *)
(* asks for a form.  Words, vectors and filters are left out but for these.*)
(***************************************************************************)
EXTENDS Naturals, Sequences, FiniteSets

CONSTANTS
  Passages,    \* chunk rows, by id; ids are random, so their order is any
  Texts,
  TextOf,      \* a passage's heading and content
  Versions,
  VersionOf,   \* a passage's document version
  Documents,
  DocumentOf,  \* a version's document
  PlaceOf,     \* article, clause and heading; NoPlace without article and heading
  NoPlace,
  Forms,       \* texts with four or more blanks to fill in
  RrfK,        \* RRF_K
  Pool         \* candidate_limit

ASSUME RetrievalAssumption ==
  /\ Passages \subseteq Nat /\ IsFiniteSet(Passages)
  /\ TextOf \in [Passages -> Texts]
  /\ VersionOf \in [Passages -> Versions]
  /\ DocumentOf \in [Versions -> Documents]
  /\ Passages = DOMAIN PlaceOf
  /\ Forms \subseteq Texts
  /\ RrfK \in Nat \ {0} /\ Pool \in Nat \ {0}

(* Scores count half terms: one for an accented match, two for a plain one.*)
Whole == 2

(* match: 0 for no term; tail: ts_rank_cd, always below one whole;         *)
(* distance: 0 for no vector.                                              *)
Queries == [match : [Texts -> Nat], tail : [Texts -> 0..Whole - 1],
            distance : [Texts -> Nat], asksForm : BOOLEAN]

-----------------------------------------------------------------------------
(* Sequences.                                                              *)

In(seq) == {seq[i] : i \in DOMAIN seq}

Top(n, seq) == SubSeq(seq, 1, IF n < Len(seq) THEN n ELSE Len(seq))

(* The elements of S in an order without ties; ahead[x] come before x.     *)
Sorted(S, ahead) ==
  [i \in 1..Cardinality(S) |-> CHOOSE x \in S : Cardinality(ahead[x]) = i - 1]

Ascending(N) == Sorted(N, [i \in N |-> {j \in N : j < i}])

(* The elements at some positions, in their order.                         *)
At(seq, positions) ==
  LET order == Ascending(positions)
  IN  [k \in DOMAIN order |-> seq[order[k]]]

Kept(seq, S) == At(seq, {i \in DOMAIN seq : seq[i] \in S})

Position(seq, x) == CHOOSE i \in DOMAIN seq : seq[i] = x

-----------------------------------------------------------------------------
(* Keyword and semantic search.                                            *)

Match(q, p) == q.match[TextOf[p]]
Score(q, p) == Match(q, p) + q.tail[TextOf[p]]

Matched(q, rows) == {p \in rows : Match(q, p) > 0}

HigherScore(q, p, r) ==
  Score(q, p) > Score(q, r) \/ (Score(q, p) = Score(q, r) /\ p < r)

ByScore(q, S) == Sorted(S, [r \in S |-> {p \in S : HigherScore(q, p, r)}])

(* The match score of the n-th best passage, by matched terms alone.       *)
LastKept(q, rows, n) ==
  LET better(m) == {p \in Matched(q, rows) : Match(q, p) > m}
      atLeast(m) == {p \in Matched(q, rows) : Match(q, p) >= m}
  IN  IF Cardinality(Matched(q, rows)) < n THEN 0
      ELSE CHOOSE m \in {Match(q, p) : p \in rows} :
             Cardinality(better(m)) < n /\ n <= Cardinality(atLeast(m))

(* Mutant: the tie-breaker is forgotten.                                   *)
Contenders_Level(q, rows, n) ==
  {p \in Matched(q, rows) : Match(q, p) >= LastKept(q, rows, n)}

(* The passages whose vectors are read: those that can still be among the  *)
(* first n.                                                                *)
Contenders(q, rows, n) ==
  {p \in Matched(q, rows) : Match(q, p) + Whole > LastKept(q, rows, n)}

KeywordRows(q, rows, n) == Top(n, ByScore(q, Contenders(q, rows, n)))

Distance(q, p) == q.distance[TextOf[p]]

Nearer(q, p, r) ==
  Distance(q, p) < Distance(q, r) \/ (Distance(q, p) = Distance(q, r) /\ p < r)

ByDistance(q, S) == Sorted(S, [r \in S |-> {p \in S : Nearer(q, p, r)}])

SemanticRows(q, rows, n) == Top(n, ByDistance(q, {p \in rows : Distance(q, p) > 0}))

(* Forms are left out of twice as many rows, unless one is asked for.      *)
Fetched(q, n) == IF q.asksForm THEN n ELSE 2 * n

WithoutForms(q, found, n) ==
  IF q.asksForm THEN found
  ELSE Top(n, Kept(found, {p \in Passages : TextOf[p] \notin Forms}))

KeywordSearch(q, rows, n) == WithoutForms(q, KeywordRows(q, rows, Fetched(q, n)), n)
SemanticSearch(q, rows, n) == WithoutForms(q, SemanticRows(q, rows, Fetched(q, n)), n)

-----------------------------------------------------------------------------
(* Fusion and duplicates.                                                  *)

(* Reciprocal rank scores as fractions: nominator and denominator.         *)
Points(keyword, semantic, p) ==
  LET a == RrfK + Position(keyword, p)
      b == RrfK + Position(semantic, p)
  IN  IF p \notin In(semantic) THEN <<1, a>>
      ELSE IF p \notin In(keyword) THEN <<1, b>>
      ELSE <<a + b, a * b>>

MorePoints(keyword, semantic, p, r) ==
  LET x == Points(keyword, semantic, p)
      y == Points(keyword, semantic, r)
  IN  x[1] * y[2] > y[1] * x[2] \/ (x[1] * y[2] = y[1] * x[2] /\ p < r)

Fuse(keyword, semantic, n) ==
  LET found == In(keyword) \cup In(semantic)
  IN  Top(n, Sorted(found, [r \in found |->
                              {p \in found : MorePoints(keyword, semantic, p, r)}]))

(* The same place of the same document.                                    *)
SamePlace(p, r) ==
  /\ PlaceOf[p] = PlaceOf[r] /\ PlaceOf[p] # NoPlace
  /\ DocumentOf[VersionOf[p]] = DocumentOf[VersionOf[r]]

(* A place belongs to the version that holds it first.                     *)
FirstOfPlace(seq, i) ==
  \A j \in 1..i - 1 :
    /\ SamePlace(seq[i], seq[j])
    /\ \A k \in 1..j - 1 : ~SamePlace(seq[i], seq[k])
    => VersionOf[seq[i]] = VersionOf[seq[j]]

Deduplicate(seq) == At(seq, {i \in DOMAIN seq : FirstOfPlace(seq, i)})

Hybrid(q, rows, limit, pool) ==
  Top(limit, Deduplicate(
    Fuse(KeywordSearch(q, rows, pool), SemanticSearch(q, rows, pool), pool)))

(* GET /search in hybrid mode.                                             *)
Search(q, rows, offset, limit) ==
  LET window == offset + limit
      found == Hybrid(q, rows, window, IF window > Pool THEN window ELSE Pool)
  IN  SubSeq(found, offset + 1, Len(found))
=============================================================================
