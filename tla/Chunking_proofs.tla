-------------------------- MODULE Chunking_proofs ---------------------------
(***************************************************************************)
(* Proofs about Chunking and Previews, for every text of any lines and     *)
(* pages.  A text is taken apart as the code does it: the scans find       *)
(* headings and clauses in the order of the text, the headings cut it into *)
(* parts, a part is cut into passages.  What is known of each of these     *)
(* (AreSegments, AreParts, ArePassages) gives the properties; the last     *)
(* part compares a text with what was stored of it, step by step.          *)
(***************************************************************************)
EXTENDS Previews, Ranks_proofs, SequenceTheorems

-----------------------------------------------------------------------------
(* Texts, and the pieces of a span.                                        *)

(* What a text is made of.                                                 *)
Symbols == White \cup UNION {ToSet(line) : line \in Lines}
Texts == Seq(Symbols)

(* The greatest of a few positions.                                        *)
LEMMA LastPlace ==
  ASSUME NEW n \in Nat, NEW S \in SUBSET (1 .. n), S # {}
  PROVE  Max(S) \in S /\ \A k \in S : k <= Max(S)
<1>1. IsFiniteSet(S)
  <2>1. IsFiniteSet(1 .. n)
    BY FS_Interval
  <2> QED
    BY <2>1, FS_Subset
<1>2. S \in SUBSET Nat
  OBVIOUS
<1> QED
  BY <1>1, <1>2, GreatestOfAll

(* A trimmed span: solid at both ends, or empty at the end.                *)
LEMMA TrimIs ==
  ASSUME NEW t \in Texts, NEW from \in 1 .. Len(t) + 1, NEW to \in from .. Len(t) + 1
  PROVE  LET span == Trim(t, from, to)
         IN  /\ span = <<span[1], span[2]>>
             /\ span[1] \in from .. to /\ span[2] \in span[1] .. to
             /\ \A i \in from .. to - 1 : t[i] \notin White => i \in span[1] .. span[2] - 1
             /\ span[1] < span[2] => t[span[1]] \notin White /\ t[span[2] - 1] \notin White
             /\ span[1] = span[2] => span[1] = to
<1> DEFINE solid == {i \in from .. to - 1 : t[i] \notin White}
<1>1. Len(t) \in Nat /\ solid \in SUBSET (1 .. Len(t))
  BY DEF Texts
<1>2. CASE solid = {}
  <2>1. Trim(t, from, to) = <<to, to>>
    BY <1>2 DEF Trim
  <2> QED
    BY <1>2, <2>1
<1>3. CASE solid # {}
  <2>1. Trim(t, from, to) = <<Min(solid), Max(solid) + 1>>
    BY <1>3 DEF Trim
  <2> HIDE DEF solid
  <2>2. Min(solid) \in solid /\ \A k \in solid : Min(solid) <= k
    BY <1>1, <1>3, LeastOfAll
  <2>3. Max(solid) \in solid /\ \A k \in solid : k <= Max(solid)
    BY <1>1, <1>3, LastPlace
  <2>4. \A i : i \in solid <=> i \in from .. to - 1 /\ t[i] \notin White
    BY DEF solid
  <2> HIDE DEF solid
  <2> DEFINE first == Min(solid)
             last == Max(solid)
  <2>5. /\ first \in from .. to - 1 /\ last \in from .. to - 1 /\ first <= last
        /\ t[first] \notin White /\ t[last] \notin White
        /\ \A i \in from .. to - 1 : t[i] \notin White => first <= i /\ i <= last
    BY <2>2, <2>3, <2>4
  <2>6. Trim(t, from, to) = <<first, last + 1>>
    BY <2>1
  <2> HIDE DEF first, last
  <2>7. (last + 1) - 1 = last
    BY <1>1, <2>5
  <2> QED
    BY <1>1, <2>5, <2>6, <2>7
<1> QED
  BY <1>2, <1>3

(* A piece ends after where it starts, and within a chunk of it.           *)
LEMMA CutIs ==
  ASSUME NEW t \in Texts, NEW start \in 1 .. Len(t), start + MaxChunk <= Len(t)
  PROVE  CutAt(t, start) \in start + 1 .. start + MaxChunk
<1> DEFINE breaks(symbol) ==
             {i \in start + MaxChunk \div 2 .. start + MaxChunk - 1 : t[i] = symbol}
<1>1. Len(t) \in Nat /\ MaxChunk \in Nat /\ MaxChunk >= 2
  BY ChunkingAssumption DEF Texts
<1>2. MaxChunk \div 2 \in 1 .. MaxChunk
  BY <1>1
<1>3. \A s : breaks(s) \in SUBSET (1 .. Len(t))
             /\ breaks(s) \in SUBSET (start + 1 .. start + MaxChunk)
  BY <1>1, <1>2
<1> HIDE DEF breaks
<1>4. \A s : breaks(s) # {} => Max(breaks(s)) \in breaks(s)
  <2> SUFFICES ASSUME NEW s, breaks(s) # {} PROVE Max(breaks(s)) \in breaks(s)
    OBVIOUS
  <2>1. breaks(s) \in SUBSET (1 .. Len(t))
    BY <1>3
  <2> QED
    BY <1>1, <2>1, LastPlace
<1>5. \A s : breaks(s) # {} => Max(breaks(s)) \in start + 1 .. start + MaxChunk
  BY <1>3, <1>4
<1>6. CutAt(t, start) = IF breaks("/") # {} THEN Max(breaks("/"))
                        ELSE IF breaks(" ") # {} THEN Max(breaks(" "))
                        ELSE start + MaxChunk
  BY DEF CutAt, breaks
<1>7. start + MaxChunk \in start + 1 .. start + MaxChunk
  BY <1>1
<1> QED
  BY <1>5, <1>6, <1>7

(* An element before a sequence.                                           *)
LEMMA OneBefore ==
  ASSUME NEW X, NEW x \in X, NEW s \in Seq(X)
  PROVE  LET all == <<x>> \o s
         IN  /\ all \in Seq(X) /\ Len(all) = Len(s) + 1 /\ Len(s) \in Nat
             /\ all[1] = x /\ \A k \in 1 .. Len(s) : all[k + 1] = s[k]
  OBVIOUS

(* A cut of a span into pieces: none too long, none white at its ends, in  *)
(* order, and nothing solid left out.                                      *)
Spans == Nat \X Nat
IsCut(t, spans, from, to) ==
  /\ spans \in Seq(Spans)
  /\ \A k \in 1 .. Len(spans) :
       /\ from <= spans[k][1] /\ spans[k][2] <= to
       /\ spans[k][2] - spans[k][1] \in 1 .. MaxChunk
       /\ t[spans[k][1]] \notin White /\ t[spans[k][2] - 1] \notin White
  /\ \A j, k \in 1 .. Len(spans) : j < k => spans[j][2] <= spans[k][1]
  /\ \A i \in from .. to - 1 :
       t[i] \notin White => \E k \in 1 .. Len(spans) : i \in spans[k][1] .. spans[k][2] - 1

(* What is left from i on, the pieces of what is left later being known.   *)
PiecesFrom(t, end, later, i) ==
  IF i = end THEN <<>>
  ELSE IF end - i <= MaxChunk THEN << <<i, end>> >>
  ELSE << Trim(t, i, CutAt(t, i)) >> \o later[Trim(t, CutAt(t, i), end)[1]]

(* The piece cut off and where the rest starts.                            *)
LEMMA PieceIs ==
  ASSUME NEW t \in Texts, NEW end \in 1 .. Len(t) + 1, NEW i \in 1 .. Len(t),
         end - i > MaxChunk
  PROVE  LET cut == CutAt(t, i)
             rest == Trim(t, cut, end)[1]
         IN  /\ cut \in i + 1 .. i + MaxChunk /\ cut < end
             /\ rest \in cut .. end
             /\ rest < end => t[rest] \notin White
             /\ \A j \in cut .. end - 1 : t[j] \notin White => j >= rest
             /\ Trim(t, i, cut) \in Spans
<1> DEFINE cut == CutAt(t, i)
<1>1. Len(t) \in Nat /\ MaxChunk \in Nat
  BY ChunkingAssumption DEF Texts
<1>2. cut \in i + 1 .. i + MaxChunk
  BY <1>1, CutIs
<1> HIDE DEF cut
<1>3. cut \in 1 .. Len(t) + 1 /\ end \in cut .. Len(t) + 1 /\ cut \in i .. Len(t) + 1
      /\ i \in 1 .. Len(t) + 1 /\ cut < end
  BY <1>1, <1>2
<1> DEFINE span == Trim(t, cut, end)
           piece == Trim(t, i, cut)
<1>4. /\ span[1] \in cut .. end /\ span[2] \in span[1] .. end
      /\ \A j \in cut .. end - 1 : t[j] \notin White => j \in span[1] .. span[2] - 1
      /\ span[1] < span[2] => t[span[1]] \notin White
      /\ span[1] = span[2] => span[1] = end
  BY <1>3, TrimIs
<1>5. piece = <<piece[1], piece[2]>> /\ piece[1] \in i .. cut /\ piece[2] \in piece[1] .. cut
  BY <1>3, TrimIs
<1> HIDE DEF span, piece
<1>6. piece \in Spans
  <2>1. piece[1] \in Nat /\ piece[2] \in Nat
    BY <1>1, <1>3, <1>5
  <2> QED
    BY <1>5, <2>1 DEF Spans
<1> QED
  BY <1>1, <1>2, <1>3, <1>4, <1>6 DEF cut, span, piece

(* The pieces of what is left are those PiecesFrom says: so SplitSpan      *)
(* comes to an end.                                                        *)
LEMMA PiecesAre ==
  ASSUME NEW t \in Texts, NEW from \in 1 .. Len(t) + 1, NEW to \in from .. Len(t) + 1
  PROVE  \E pieces \in [from .. to -> Seq(Spans)] :
            /\ SplitSpan(t, from, to) = pieces[Trim(t, from, to)[1]]
            /\ \A i \in from .. to :
                 pieces[i] = PiecesFrom(t, Trim(t, from, to)[2], pieces, i)
<1> DEFINE end == Trim(t, from, to)[2]
           V == [from .. to -> Seq(Spans)]
           N == to - from + 1
           fits(h, n) == \A i \in from .. to : to - i < n => h[i] = PiecesFrom(t, end, h, i)
           S == {n \in 0 .. N : \E h \in V : fits(h, n)}
<1>1. Len(t) \in Nat /\ MaxChunk \in Nat /\ MaxChunk >= 2 /\ N \in Nat
  BY ChunkingAssumption DEF Texts
<1>2. end \in from .. to
  <2>1. Trim(t, from, to)[1] \in from .. to /\ Trim(t, from, to)[2] \in Trim(t, from, to)[1] .. to
    BY TrimIs
  <2> QED
    BY <1>1, <2>1
<1> HIDE DEF end
<1>3. \A i \in from .. to : end - i > MaxChunk =>
         LET rest == Trim(t, CutAt(t, i), end)[1]
         IN  rest \in from .. to /\ rest > i /\ Trim(t, i, CutAt(t, i)) \in Spans
  <2> SUFFICES ASSUME NEW i \in from .. to, end - i > MaxChunk
               PROVE  LET rest == Trim(t, CutAt(t, i), end)[1]
                      IN  rest \in from .. to /\ rest > i /\ Trim(t, i, CutAt(t, i)) \in Spans
    OBVIOUS
  <2>1. i \in 1 .. Len(t) /\ end \in 1 .. Len(t) + 1
    BY <1>1, <1>2
  <2> DEFINE cut == CutAt(t, i)
             rest == Trim(t, cut, end)[1]
  <2>2. /\ cut \in i + 1 .. i + MaxChunk /\ cut < end
        /\ rest \in cut .. end /\ Trim(t, i, cut) \in Spans
    BY <2>1, PieceIs
  <2> HIDE DEF cut, rest
  <2>3. rest \in from .. to /\ rest > i
    BY <1>1, <1>2, <2>1, <2>2
  <2> QED
    BY <2>2, <2>3 DEF cut, rest
<1>4. ASSUME NEW h \in V, NEW i \in from .. to PROVE PiecesFrom(t, end, h, i) \in Seq(Spans)
  <2>1. CASE i = end
    BY <2>1 DEF PiecesFrom
  <2>2. CASE i # end /\ end - i <= MaxChunk
    <3>1. <<i, end>> \in Spans
      BY <1>1, <1>2 DEF Spans
    <3>2. << <<i, end>> >> \in Seq(Spans)
      BY <3>1
    <3> QED
      BY <2>2, <3>2 DEF PiecesFrom
  <2>3. CASE i # end /\ end - i > MaxChunk
    <3> DEFINE rest == Trim(t, CutAt(t, i), end)[1]
               piece == Trim(t, i, CutAt(t, i))
    <3>1. rest \in from .. to /\ piece \in Spans
      BY <1>3, <2>3
    <3>2. PiecesFrom(t, end, h, i) = <<piece>> \o h[rest]
      <4>1. i # end /\ ~(end - i <= MaxChunk)
        BY <1>1, <1>2, <2>3
      <4> QED
        BY <4>1, Zenon DEF PiecesFrom
    <3> HIDE DEF rest, piece
    <3>3. h[rest] \in Seq(Spans)
      BY <3>1
    <3> QED
      BY <3>1, <3>2, <3>3, OneBefore
  <2> QED
    BY <1>1, <1>2, <2>1, <2>2, <2>3
<1>5. 0 \in S
  <2> DEFINE h == [i \in from .. to |-> <<>>]
  <2>1. h \in V
    OBVIOUS
  <2>2. fits(h, 0)
    BY <1>1
  <2>3. 0 \in 0 .. N
    BY <1>1
  <2> HIDE DEF h, fits, V, N
  <2> QED
    BY <2>1, <2>2, <2>3
<1>6. ASSUME NEW n \in 0 .. N - 1, n \in S PROVE n + 1 \in S
  <2>1. PICK h \in V : fits(h, n)
    BY <1>6
  <2> DEFINE g == [i \in from .. to |-> PiecesFrom(t, end, h, i)]
  <2>2. g \in V
    BY <1>4
  <2>3. \A i \in from .. to : g[i] = PiecesFrom(t, end, h, i)
    OBVIOUS
  <2> HIDE DEF g
  <2>4. ASSUME NEW i \in from .. to, to - i < n + 1 PROVE g[i] = PiecesFrom(t, end, g, i)
    <3>1. CASE end - i <= MaxChunk
      BY <1>1, <1>2, <2>3, <3>1 DEF PiecesFrom
    <3>2. CASE end - i > MaxChunk
      <4> DEFINE rest == Trim(t, CutAt(t, i), end)[1]
      <4>1. rest \in from .. to /\ rest > i
        BY <1>3, <3>2
      <4> HIDE DEF rest
      <4>2. to - rest < n
        BY <1>1, <2>4, <4>1
      <4>3. g[rest] = h[rest]
        BY <2>1, <2>3, <4>1, <4>2
      <4>4. PiecesFrom(t, end, g, i) = PiecesFrom(t, end, h, i)
        BY <1>1, <1>2, <3>2, <4>3 DEF PiecesFrom, rest
      <4> QED
        BY <2>3, <4>4
    <3> QED
      BY <1>1, <1>2, <3>1, <3>2
  <2>5. fits(g, n + 1)
    BY <2>4
  <2> HIDE DEF fits, V
  <2> QED
    BY <1>1, <2>2, <2>5
<1>7. PICK h \in V : fits(h, N)
  <2>1. N \in 0 .. N
    BY <1>1
  <2> HIDE DEF S, N
  <2>2. \A n \in 0 .. N : n \in S
    BY <1>1, <1>5, <1>6, CountingUp
  <2>3. N \in S
    BY <2>1, <2>2
  <2> QED
    BY <2>3 DEF S
<1>8. \A i \in from .. to : h[i] = PiecesFrom(t, end, h, i)
  BY <1>1, <1>7
<1> DEFINE F == CHOOSE f : f = [i \in from .. to |-> PiecesFrom(t, end, f, i)]
<1>9. h = [i \in from .. to |-> PiecesFrom(t, end, h, i)]
  BY <1>7, <1>8
<1>10. F = [i \in from .. to |-> PiecesFrom(t, end, F, i)]
  BY <1>9
<1>11. SplitSpan(t, from, to) = F[Trim(t, from, to)[1]]
  BY DEF SplitSpan, PiecesFrom, end
<1> HIDE DEF F
<1>12. \A i \in from .. to : F[i] = PiecesFrom(t, end, F, i)
  BY <1>10, Zenon
<1> DEFINE T == {n \in 0 .. N : \A i \in from .. to : to - i < n => F[i] = h[i]}
<1>13. 0 \in T
  BY <1>1
<1>14. ASSUME NEW n \in 0 .. N - 1, n \in T PROVE n + 1 \in T
  <2>1. ASSUME NEW i \in from .. to, to - i < n + 1 PROVE F[i] = h[i]
    <3>1. CASE end - i <= MaxChunk
      <4>1. PiecesFrom(t, end, F, i) = PiecesFrom(t, end, h, i)
        BY <1>1, <1>2, <3>1 DEF PiecesFrom
      <4> QED
        BY <1>8, <1>12, <4>1
    <3>2. CASE end - i > MaxChunk
      <4> DEFINE rest == Trim(t, CutAt(t, i), end)[1]
      <4>1. rest \in from .. to /\ rest > i
        BY <1>3, <3>2
      <4> HIDE DEF rest
      <4>2. to - rest < n
        BY <1>1, <2>1, <4>1
      <4>3. F[rest] = h[rest]
        BY <1>14, <4>1, <4>2
      <4>4. PiecesFrom(t, end, F, i) = PiecesFrom(t, end, h, i)
        BY <1>1, <1>2, <3>2, <4>3 DEF PiecesFrom, rest
      <4> QED
        BY <1>8, <1>12, <4>4
    <3> QED
      BY <1>1, <1>2, <3>1, <3>2
  <2>2. n + 1 \in 0 .. N
    BY <1>1
  <2> QED
    BY <2>1, <2>2
<1>15. \A n \in 0 .. N : n \in T
  <2> HIDE DEF T, N
  <2> QED
    BY <1>1, <1>13, <1>14, CountingUp
<1>16. \A i \in from .. to : F[i] = h[i]
  <2>1. N \in T
    <3>1. N \in 0 .. N
      BY <1>1
    <3> HIDE DEF N, T
    <3> QED
      BY <1>15, <3>1
  <2>2. \A i \in from .. to : to - i < N
    BY <1>1
  <2> HIDE DEF N
  <2> QED
    BY <2>1, <2>2
<1>17. F = h
  BY <1>7, <1>10, <1>16
<1> QED
  BY <1>7, <1>8, <1>11, <1>17 DEF end

(* A piece before those of the rest.                                       *)
LEMMA PieceBefore ==
  ASSUME NEW t \in Texts, NEW i \in 1 .. Len(t), NEW end \in i + 1 .. Len(t) + 1,
         NEW b \in i + 1 .. end, NEW rest \in b .. end, NEW s, IsCut(t, s, rest, end),
         b - i <= MaxChunk, t[i] \notin White, t[b - 1] \notin White,
         \A j \in b .. end - 1 : t[j] \notin White => j >= rest
  PROVE  IsCut(t, << <<i, b>> >> \o s, i, end)
<1> DEFINE all == << <<i, b>> >> \o s
           n == Len(s)
<1>1. Len(t) \in Nat /\ MaxChunk \in Nat
  BY ChunkingAssumption DEF Texts
<1>2. <<i, b>> \in Spans /\ s \in Seq(Spans)
  BY <1>1 DEF Spans, IsCut
<1>3. /\ all \in Seq(Spans) /\ Len(all) = n + 1 /\ n \in Nat
      /\ all[1] = <<i, b>> /\ \A k \in 1 .. n : all[k + 1] = s[k]
  BY <1>2, OneBefore
<1> HIDE DEF all
<1>4. \A k \in 1 .. n : s[k][1] \in Nat /\ s[k][2] \in Nat
  <2>1. \A k \in 1 .. n : s[k] \in Spans
    BY <1>2, ElementOfSeq
  <2> QED
    BY <2>1 DEF Spans
<1>5. \A k \in 1 .. n + 1 : k = 1 \/ (k - 1 \in 1 .. n /\ all[k] = s[k - 1])
  <2> SUFFICES ASSUME NEW k \in 1 .. n + 1, k # 1 PROVE k - 1 \in 1 .. n /\ all[k] = s[k - 1]
    OBVIOUS
  <2>1. k - 1 \in 1 .. n /\ (k - 1) + 1 = k
    BY <1>3
  <2> QED
    BY <1>3, <2>1
<1>6. all[1][1] = i /\ all[1][2] = b
  BY <1>3
<1> HIDE DEF n
<1>7. /\ \A k \in 1 .. n : /\ rest <= s[k][1] /\ s[k][2] <= end
                           /\ s[k][2] - s[k][1] \in 1 .. MaxChunk
                           /\ t[s[k][1]] \notin White /\ t[s[k][2] - 1] \notin White
      /\ \A j, k \in 1 .. n : j < k => s[j][2] <= s[k][1]
      /\ \A j \in rest .. end - 1 :
           t[j] \notin White => \E k \in 1 .. n : j \in s[k][1] .. s[k][2] - 1
  BY DEF IsCut, n
<1>8. ASSUME NEW k \in 1 .. n + 1
      PROVE  /\ i <= all[k][1] /\ all[k][2] <= end
             /\ all[k][2] - all[k][1] \in 1 .. MaxChunk
             /\ t[all[k][1]] \notin White /\ t[all[k][2] - 1] \notin White
  <2>1. CASE k = 1
    <3>1. b - i \in 1 .. MaxChunk /\ i <= i /\ b <= end
      BY <1>1
    <3> QED
      BY <1>6, <2>1, <3>1
  <2>2. CASE k - 1 \in 1 .. n /\ all[k] = s[k - 1]
    <3>1. /\ rest <= s[k - 1][1] /\ s[k - 1][2] <= end
          /\ s[k - 1][2] - s[k - 1][1] \in 1 .. MaxChunk
          /\ t[s[k - 1][1]] \notin White /\ t[s[k - 1][2] - 1] \notin White
          /\ s[k - 1][1] \in Nat
      BY <1>4, <1>7, <2>2
    <3>2. i <= s[k - 1][1]
      BY SMTT(40), <1>1, <3>1
    <3> QED
      BY <2>2, <3>1, <3>2
  <2> QED
    BY <1>5, <2>1, <2>2
<1>9. ASSUME NEW j \in 1 .. n + 1, NEW k \in 1 .. n + 1, j < k PROVE all[j][2] <= all[k][1]
  <2>1. k - 1 \in 1 .. n /\ all[k] = s[k - 1]
    BY SMTT(40), <1>3, <1>5, <1>9 DEF n
  <2>2. CASE j = 1
    <3>1. rest <= s[k - 1][1] /\ s[k - 1][1] \in Nat
      BY <1>4, <1>7, <2>1
    <3> QED
      BY <1>1, <1>6, <2>1, <2>2, <3>1
  <2>3. CASE j - 1 \in 1 .. n /\ all[j] = s[j - 1]
    <3>1. j - 1 < k - 1
      BY <1>9
    <3> QED
      BY <1>7, <2>1, <2>3, <3>1
  <2> QED
    BY <1>5, <2>2, <2>3
<1>10. ASSUME NEW j \in i .. end - 1, t[j] \notin White
       PROVE  \E k \in 1 .. n + 1 : j \in all[k][1] .. all[k][2] - 1
  <2>1. CASE j < b
    <3>1. j \in i .. b - 1 /\ 1 \in 1 .. n + 1
      BY <1>1, <1>3, <2>1 DEF n
    <3> QED
      BY <1>6, <3>1
  <2>2. CASE j >= b
    <3>1. j \in rest .. end - 1
      BY <1>1, <1>10, <2>2
    <3>2. PICK k \in 1 .. n : j \in s[k][1] .. s[k][2] - 1
      BY <1>7, <1>10, <3>1
    <3>3. k + 1 \in 1 .. n + 1 /\ all[k + 1] = s[k]
      BY <1>3, <3>2 DEF n
    <3> QED
      BY <3>2, <3>3
  <2> QED
    BY <1>1, <2>1, <2>2
<1>11. Len(all) = n + 1 /\ all \in Seq(Spans)
  BY <1>3 DEF n
<1>12. IsCut(t, all, i, end)
  BY <1>8, <1>9, <1>10, <1>11 DEF IsCut
<1> QED
  BY <1>12 DEF all

(* A stretch in which more than white space is too far from its beginning  *)
(* for one passage.                                                        *)
IsLong(t, from, to) == \E x \in from + MaxChunk .. to - 1 : t[x] \notin White

(* SplitSpan cuts a span, and the first piece starts where the span does,  *)
(* the only one if the span is not too long.                               *)
LEMMA SplitSpanIs ==
  ASSUME NEW t \in Texts, NEW from \in 1 .. Len(t) + 1, NEW to \in from .. Len(t) + 1
  PROVE  LET spans == SplitSpan(t, from, to)
         IN  /\ IsCut(t, spans, from, to)
             /\ from < to /\ t[from] \notin White => Len(spans) >= 1 /\ spans[1][1] = from
             /\ from < to /\ t[from] \notin White =>
                  \A k \in 1 .. Len(spans) : spans[k][1] = from \/ IsLong(t, from, to)
<1> DEFINE first == Trim(t, from, to)[1]
           end == Trim(t, from, to)[2]
           N == to - from
<1>1. Len(t) \in Nat /\ MaxChunk \in Nat /\ MaxChunk >= 2 /\ N \in Nat
  BY ChunkingAssumption DEF Texts
<1>2. /\ first \in from .. to /\ end \in first .. to
      /\ \A i \in from .. to - 1 : t[i] \notin White => i \in first .. end - 1
      /\ first < end => t[first] \notin White /\ t[end - 1] \notin White
  BY TrimIs
<1>3. PICK pieces \in [from .. to -> Seq(Spans)] :
           /\ SplitSpan(t, from, to) = pieces[first]
           /\ \A i \in from .. to : pieces[i] = PiecesFrom(t, end, pieces, i)
  BY PiecesAre
<1> HIDE DEF first, end
<1> DEFINE good(i) == /\ IsCut(t, pieces[i], i, end)
                      /\ i < end => Len(pieces[i]) >= 1 /\ pieces[i][1][1] = i
           S == {n \in 0 .. N : \A i \in first .. end :
                   end - i <= n /\ (i < end => t[i] \notin White) => good(i)}
<1>4. ASSUME NEW i \in first .. end, i = end PROVE good(i)
  <2>1. pieces[i] = <<>>
    <3>1. i \in from .. to
      BY <1>1, <1>2
    <3>2. pieces[i] = PiecesFrom(t, end, pieces, i)
      BY <1>3, <3>1
    <3> QED
      BY <1>4, <3>2 DEF PiecesFrom
  <2>2. i .. end - 1 = {}
    BY <1>1, <1>2, <1>4
  <2> QED
    BY <1>1, <1>2, <1>4, <2>1, <2>2 DEF IsCut
<1>5. ASSUME NEW i \in first .. end, i < end, end - i <= MaxChunk, t[i] \notin White
      PROVE  good(i)
  <2>1. i \in from .. to /\ i # end /\ i \in Nat /\ end \in Nat
    BY <1>1, <1>2, <1>5
  <2>2. pieces[i] = << <<i, end>> >>
    BY <1>3, <1>5, <2>1 DEF PiecesFrom
  <2> DEFINE one == << <<i, end>> >>
  <2>3. one \in Seq(Spans) /\ Len(one) = 1 /\ one[1] = <<i, end>>
        /\ one[1][1] = i /\ one[1][2] = end
    <3>1. <<i, end>> \in Spans
      BY <2>1 DEF Spans
    <3> QED
      BY <3>1
  <2> HIDE DEF one
  <2>4. end - i \in 1 .. MaxChunk /\ t[end - 1] \notin White /\ first < end
    BY <1>1, <1>2, <1>5
  <2>5. IsCut(t, one, i, end)
    <3>1. \A k \in 1 .. Len(one) : k = 1
      BY <2>3
    <3>2. 1 \in 1 .. Len(one) /\ ~(1 < 1)
      BY <2>3
    <3>3. i <= one[1][1] /\ one[1][2] <= end
      BY <2>1, <2>3
    <3> QED
      BY <1>5, <2>3, <2>4, <3>1, <3>2, <3>3 DEF IsCut
  <2>6. pieces[i] = one
    BY <2>2 DEF one
  <2>7. Len(one) >= 1
    BY <2>3
  <2> QED
    BY <2>3, <2>5, <2>6, <2>7, Zenon
<1>6. 0 \in S
  <2>1. \A i \in first .. end : end - i <= 0 => i = end
    BY <1>1, <1>2
  <2>2. 0 \in 0 .. N
    BY <1>1
  <2> HIDE DEF good, N
  <2> QED
    BY <1>4, <2>1, <2>2
<1>7. ASSUME NEW n \in 0 .. N - 1, n \in S PROVE n + 1 \in S
  <2>1. ASSUME NEW i \in first .. end, end - i <= n + 1, i < end => t[i] \notin White
        PROVE  good(i)
    <3>1. CASE i = end
      BY <1>4, <3>1
    <3>2. CASE i < end /\ end - i <= MaxChunk
      BY <1>5, <2>1, <3>2
    <3>3. CASE i < end /\ end - i > MaxChunk
      <4> DEFINE cut == CutAt(t, i)
                 piece == Trim(t, i, cut)
                 rest == Trim(t, cut, end)[1]
      <4>1. i \in 1 .. Len(t) /\ end \in 1 .. Len(t) + 1 /\ end \in i + 1 .. Len(t) + 1
            /\ i \in from .. to /\ i # end /\ ~(end - i <= MaxChunk) /\ t[i] \notin White
        BY SMTT(40), <1>1, <1>2, <2>1, <3>3
      <4>2. /\ cut \in i + 1 .. i + MaxChunk /\ cut < end
            /\ rest \in cut .. end
            /\ rest < end => t[rest] \notin White
            /\ \A j \in cut .. end - 1 : t[j] \notin White => j >= rest
        BY <3>3, <4>1, PieceIs
      <4>3. pieces[i] = <<piece>> \o pieces[rest]
        BY <1>3, <4>1, Zenon DEF PiecesFrom
      <4>4. cut \in i .. Len(t) + 1 /\ i \in 1 .. Len(t) + 1 /\ i \in i .. cut - 1
        <5> HIDE DEF cut, rest
        <5> QED
          BY <1>1, <4>1, <4>2
      <4>5. /\ piece = <<piece[1], piece[2]>>
            /\ piece[1] \in i .. cut /\ piece[2] \in piece[1] .. cut
            /\ \A j \in i .. cut - 1 : t[j] \notin White => j \in piece[1] .. piece[2] - 1
            /\ piece[1] < piece[2] => t[piece[2] - 1] \notin White
        <5> HIDE DEF cut
        <5> QED
          BY <4>4, TrimIs
      <4> HIDE DEF cut, piece, rest
      <4>6. piece[1] = i /\ piece[2] \in i + 1 .. cut /\ t[piece[2] - 1] \notin White
        <5>1. i \in piece[1] .. piece[2] - 1
          BY <4>1, <4>4, <4>5
        <5> DEFINE a == piece[1]
                   b == piece[2]
        <5>2. a \in i .. cut /\ b \in a .. cut /\ i \in a .. b - 1 /\ i \in Nat /\ cut \in Nat
          <6>1. i \in Nat /\ cut \in Nat
            BY <1>1, <4>1, <4>2
          <6> QED
            BY <4>5, <5>1, <6>1
        <5>3. a < b => t[b - 1] \notin White
          BY <4>5
        <5> HIDE DEF a, b
        <5>4. a = i /\ b \in i + 1 .. cut /\ a < b
          BY <5>2
        <5> QED
          BY <5>3, <5>4 DEF a, b
      <4>7. \A j \in piece[2] .. end - 1 : t[j] \notin White => j >= rest
        <5> SUFFICES ASSUME NEW j \in piece[2] .. end - 1, t[j] \notin White PROVE j >= rest
          OBVIOUS
        <5>1. CASE j >= cut
          <6>1. j \in cut .. end - 1
            BY <1>1, <4>1, <4>2, <4>6, <5>1
          <6> QED
            BY <4>2, <6>1
        <5>2. CASE j < cut
          <6>1. j \in i .. cut - 1
            BY <1>1, <4>1, <4>2, <4>6, <5>2
          <6>2. j \in piece[1] .. piece[2] - 1
            BY <4>5, <6>1
          <6> QED
            BY <1>1, <4>1, <4>6, <6>2
        <5> QED
          BY <1>1, <4>1, <4>2, <4>6, <5>1, <5>2
      <4>8. good(rest)
        <5>1. rest \in first .. end /\ end - rest <= n
          BY <1>1, <1>2, <2>1, <4>1, <4>2
        <5> HIDE DEF good
        <5> QED
          BY <1>7, <4>2, <5>1
      <4> DEFINE b == piece[2]
      <4>9. b \in i + 1 .. end /\ rest \in b .. end /\ b - i <= MaxChunk /\ t[b - 1] \notin White
        <5>1. b \in i + 1 .. cut /\ t[b - 1] \notin White
          BY <4>6
        <5> HIDE DEF b
        <5>2. i \in Nat /\ cut \in Nat /\ end \in Nat /\ rest \in cut .. end
              /\ cut < end /\ cut \in i + 1 .. i + MaxChunk
          BY <1>1, <4>1, <4>2
        <5> QED
          BY <1>1, <5>1, <5>2
      <4>10. IsCut(t, << <<i, b>> >> \o pieces[rest], i, end)
        <5>1. IsCut(t, pieces[rest], rest, end)
          BY <4>8
        <5>2. \A j \in b .. end - 1 : t[j] \notin White => j >= rest
          BY <4>7
        <5> HIDE DEF b
        <5> QED
          BY <4>1, <4>9, <5>1, <5>2, PieceBefore
      <4>11. pieces[i] = << <<i, b>> >> \o pieces[rest]
        BY <4>3, <4>5, <4>6
      <4>12. Len(pieces[i]) >= 1 /\ pieces[i][1][1] = i
        <5>1. <<i, b>> \in Spans /\ pieces[rest] \in Seq(Spans)
          <6>1. i \in Nat /\ b \in Nat
            BY <1>1, <4>1, <4>9
          <6> QED
            BY <4>8, <6>1 DEF Spans, IsCut
        <5> HIDE DEF b
        <5>2. /\ Len(pieces[i]) = Len(pieces[rest]) + 1 /\ Len(pieces[rest]) \in Nat
              /\ pieces[i][1] = <<i, b>>
          BY <4>11, <5>1, OneBefore
        <5> QED
          BY <5>2
      <4> QED
        BY <4>10, <4>11, <4>12
    <3> QED
      BY <1>1, <1>2, <2>1, <3>1, <3>2, <3>3
  <2>2. n + 1 \in 0 .. N
    BY <1>1
  <2> HIDE DEF good
  <2> QED
    BY <2>1, <2>2
<1>8. \A n \in 0 .. N : n \in S
  <2> HIDE DEF S, N
  <2> QED
    BY <1>1, <1>6, <1>7, CountingUp
<1>9. good(first)
  <2>1. N \in 0 .. N /\ end - first <= N /\ first \in first .. end
    BY <1>1, <1>2
  <2> HIDE DEF good, N
  <2> QED
    BY <1>2, <1>8, <2>1
<1> DEFINE spans == SplitSpan(t, from, to)
<1>10. spans = pieces[first]
  BY <1>3
<1> HIDE DEF spans
<1>11. IsCut(t, spans, from, to)
  <2>1. /\ spans \in Seq(Spans)
        /\ \A k \in 1 .. Len(spans) :
             /\ first <= spans[k][1] /\ spans[k][2] <= end
             /\ spans[k][2] - spans[k][1] \in 1 .. MaxChunk
             /\ t[spans[k][1]] \notin White /\ t[spans[k][2] - 1] \notin White
        /\ \A j, k \in 1 .. Len(spans) : j < k => spans[j][2] <= spans[k][1]
        /\ \A i \in first .. end - 1 :
             t[i] \notin White => \E k \in 1 .. Len(spans) : i \in spans[k][1] .. spans[k][2] - 1
    BY <1>9, <1>10 DEF IsCut
  <2>2. \A k \in 1 .. Len(spans) : spans[k][1] \in Nat /\ spans[k][2] \in Nat
    BY SMTT(40), <2>1 DEF Spans
  <2>3. \A k \in 1 .. Len(spans) : from <= spans[k][1] /\ spans[k][2] <= to
    <3> SUFFICES ASSUME NEW k \in 1 .. Len(spans)
                 PROVE  from <= spans[k][1] /\ spans[k][2] <= to
      OBVIOUS
    <3>1. /\ first <= spans[k][1] /\ spans[k][2] <= end
          /\ spans[k][1] \in Nat /\ spans[k][2] \in Nat
      BY <2>1, <2>2
    <3>2. /\ from \in Nat /\ to \in Nat /\ first \in Nat /\ end \in Nat
          /\ from <= first /\ end <= to
      BY <1>1, <1>2
    <3> DEFINE a == spans[k][1]
               b == spans[k][2]
    <3>3. first <= a /\ b <= end /\ a \in Nat /\ b \in Nat
      BY <3>1
    <3> HIDE DEF a, b
    <3>4. from <= a /\ b <= to
      BY <3>2, <3>3
    <3> QED
      BY <3>4 DEF a, b
  <2>4. \A i \in from .. to - 1 :
             t[i] \notin White => \E k \in 1 .. Len(spans) : i \in spans[k][1] .. spans[k][2] - 1
    BY <1>2, <2>1
  <2> QED
    BY <2>1, <2>3, <2>4 DEF IsCut
<1>12. from < to /\ t[from] \notin White => Len(spans) >= 1 /\ spans[1][1] = from
  <2> SUFFICES ASSUME from < to, t[from] \notin White PROVE Len(spans) >= 1 /\ spans[1][1] = from
    OBVIOUS
  <2>1. from \in from .. to - 1
    BY <1>1
  <2>2. from \in first .. end - 1
    BY <1>2, <2>1
  <2>3. first = from /\ first < end
    BY <1>1, <1>2, <2>2
  <2> QED
    BY <1>9, <1>10, <2>3
<1>13. ASSUME from < to, t[from] \notin White, NEW k \in 1 .. Len(spans), ~IsLong(t, from, to)
       PROVE  spans[k][1] = from
  <2>1. from \in from .. to - 1
    BY <1>1, <1>13
  <2>2. from \in first .. end - 1
    BY <1>2, <1>13, <2>1
  <2>3. first = from /\ first < end /\ end \in Nat /\ from \in Nat /\ to \in Nat /\ end <= to
    BY <1>1, <1>2, <2>2
  <2>4. t[end - 1] \notin White
    BY <1>2, <2>3
  <2>5. end - 1 \notin from + MaxChunk .. to - 1
    BY <1>13, <2>4 DEF IsLong
  <2>6. end - from <= MaxChunk /\ from # end /\ from \in from .. to
    BY <1>1, <2>3, <2>5
  <2>7. spans = << <<from, end>> >>
    BY <1>3, <1>10, <2>3, <2>6 DEF PiecesFrom
  <2> DEFINE one == << <<from, end>> >>
  <2>8. Len(one) = 1 /\ one[1][1] = from
    OBVIOUS
  <2> HIDE DEF one
  <2>9. k \in 1 .. Len(one) /\ spans = one
    BY <1>13, <2>7 DEF one
  <2>10. k = 1
    BY <2>8, <2>9
  <2> QED
    BY <2>8, <2>9, <2>10
<1> QED
  BY <1>11, <1>12, <1>13 DEF spans

-----------------------------------------------------------------------------
(* Lists in a row.                                                         *)

(* Which of the first k lists each item of a chain is from, and where in   *)
(* it: the items are in the order of the lists, and none is missing.       *)
IsChain(chain, lists, k, own, loc) ==
  /\ own \in [1 .. Len(chain) -> 1 .. k] /\ loc \in [1 .. Len(chain) -> Nat]
  /\ \A a \in 1 .. Len(chain) :
       loc[a] \in 1 .. Len(lists[own[a]]) /\ chain[a] = lists[own[a]][loc[a]]
  /\ \A a, b \in 1 .. Len(chain) :
       a < b => own[a] < own[b] \/ (own[a] = own[b] /\ loc[a] < loc[b])
  /\ \A j \in 1 .. k : \A l \in 1 .. Len(lists[j]) :
       \E a \in 1 .. Len(chain) : own[a] = j /\ loc[a] = l

(* One list more is in the row.                                            *)
LEMMA OneListMore ==
  ASSUME NEW X, NEW lists \in Seq(Seq(X)), NEW k \in 1 .. Len(lists), NEW chain \in Seq(X),
         NEW own, NEW loc, IsChain(chain, lists, k - 1, own, loc)
  PROVE  \E o, l : IsChain(chain \o lists[k], lists, k, o, l)
<1> DEFINE n == Len(chain)
           m == Len(lists[k])
           more == chain \o lists[k]
           o == [a \in 1 .. n + m |-> IF a <= n THEN own[a] ELSE k]
           l == [a \in 1 .. n + m |-> IF a <= n THEN loc[a] ELSE a - n]
<1>1. lists[k] \in Seq(X) /\ n \in Nat /\ m \in Nat /\ k \in Nat /\ Len(lists) \in Nat
  OBVIOUS
<1>2. /\ Len(more) = n + m
      /\ \A a \in 1 .. n : more[a] = chain[a]
      /\ \A a \in 1 .. m : more[n + a] = lists[k][a]
  <2> DEFINE c == chain
             d == lists[k]
  <2>1. c \in Seq(X) /\ d \in Seq(X) /\ Len(c) = n /\ Len(d) = m
    BY <1>1
  <2> HIDE DEF c, d, n, m
  <2>2. Len(c \o d) = n + m
    BY <2>1, ConcatProperties
  <2>3. \A a \in 1 .. n : (c \o d)[a] = c[a]
    BY <1>1, <2>1, ConcatProperties
  <2>4. \A a \in 1 .. m : (c \o d)[n + a] = d[a]
    <3> SUFFICES ASSUME NEW a \in 1 .. m PROVE (c \o d)[n + a] = d[a]
      OBVIOUS
    <3> DEFINE r == n + a
    <3>1. r \in 1 .. n + m /\ ~(r <= n) /\ r - n = a
      BY <1>1
    <3> HIDE DEF r
    <3>2. (c \o d)[r] = IF r <= n THEN c[r] ELSE d[r - n]
      BY <2>1, <3>1, ConcatProperties
    <3>3. (c \o d)[r] = d[a]
      BY <3>1, <3>2
    <3> QED
      BY <3>3 DEF r
  <2>5. more = c \o d /\ c = chain /\ d = lists[k]
    BY DEF c, d
  <2> QED
    BY <2>2, <2>3, <2>4, <2>5
<1>3. /\ own \in [1 .. n -> 1 .. k - 1] /\ loc \in [1 .. n -> Nat]
      /\ \A a \in 1 .. n : loc[a] \in 1 .. Len(lists[own[a]]) /\ chain[a] = lists[own[a]][loc[a]]
      /\ \A a, b \in 1 .. n :
           a < b => own[a] < own[b] \/ (own[a] = own[b] /\ loc[a] < loc[b])
      /\ \A j \in 1 .. k - 1 : \A i \in 1 .. Len(lists[j]) :
           \E a \in 1 .. n : own[a] = j /\ loc[a] = i
  BY DEF IsChain
<1> HIDE DEF more
<1>4. /\ \A a \in 1 .. n + m : a <= n => a \in 1 .. n /\ o[a] = own[a] /\ l[a] = loc[a]
      /\ \A a \in 1 .. n + m : ~(a <= n) => a - n \in 1 .. m /\ o[a] = k /\ l[a] = a - n
                                             /\ n + (a - n) = a
  BY <1>1
<1>5. o \in [1 .. n + m -> 1 .. k] /\ l \in [1 .. n + m -> Nat]
  <2>1. ASSUME NEW a \in 1 .. n + m PROVE o[a] \in 1 .. k /\ l[a] \in Nat
    <3>1. CASE a <= n
      <4>1. own[a] \in 1 .. k - 1 /\ loc[a] \in Nat
        BY <1>3, <1>4, <3>1
      <4> QED
        BY <1>1, <1>4, <3>1, <4>1
    <3>2. CASE ~(a <= n)
      <4>1. a - n \in 1 .. m /\ o[a] = k /\ l[a] = a - n
        BY <1>4, <3>2
      <4> QED
        BY <1>1, <4>1
    <3> QED
      BY <3>1, <3>2
  <2> QED
    BY <2>1
<1> HIDE DEF o, l
<1>6. ASSUME NEW a \in 1 .. n + m
      PROVE  l[a] \in 1 .. Len(lists[o[a]]) /\ more[a] = lists[o[a]][l[a]]
  <2>1. CASE a <= n
    BY <1>2, <1>3, <1>4, <2>1
  <2>2. CASE ~(a <= n)
    <3>1. a - n \in 1 .. m /\ o[a] = k /\ l[a] = a - n /\ n + (a - n) = a
      BY <1>4, <2>2
    <3>2. more[n + (a - n)] = lists[k][a - n]
      BY <1>2, <3>1
    <3> QED
      BY <3>1, <3>2
  <2> QED
    BY <2>1, <2>2
<1>7. ASSUME NEW a \in 1 .. n + m, NEW b \in 1 .. n + m, a < b
      PROVE  o[a] < o[b] \/ (o[a] = o[b] /\ l[a] < l[b])
  <2>1. CASE b <= n
    <3>1. a <= n
      BY <1>1, <1>7, <2>1
    <3> QED
      BY <1>3, <1>4, <1>7, <2>1, <3>1
  <2>2. CASE ~(b <= n) /\ a <= n
    <3>1. o[a] \in 1 .. k - 1 /\ o[b] = k
      BY <1>3, <1>4, <2>2
    <3> QED
      BY <1>1, <3>1
  <2>3. CASE ~(b <= n) /\ ~(a <= n)
    <3>1. o[a] = k /\ o[b] = k /\ l[a] = a - n /\ l[b] = b - n
      BY <1>4, <2>3
    <3>2. a - n < b - n
      BY <1>1, <1>7
    <3> QED
      BY <3>1, <3>2
  <2> QED
    BY <2>1, <2>2, <2>3
<1>8. ASSUME NEW j \in 1 .. k, NEW i \in 1 .. Len(lists[j])
      PROVE  \E a \in 1 .. n + m : o[a] = j /\ l[a] = i
  <2>1. CASE j < k
    <3>1. j \in 1 .. k - 1
      BY <1>1, <2>1
    <3>2. PICK a \in 1 .. n : own[a] = j /\ loc[a] = i
      BY <1>3, <3>1
    <3>3. a \in 1 .. n + m /\ a <= n
      BY <1>1
    <3> QED
      BY <1>4, <3>2, <3>3
  <2>2. CASE j = k
    <3>1. n + i \in 1 .. n + m /\ ~(n + i <= n) /\ (n + i) - n = i
      BY <1>1, <2>2
    <3> QED
      BY <1>4, <2>2, <3>1
  <2> QED
    BY <1>1, <2>1, <2>2
<1>9. IsChain(more, lists, k, o, l)
  BY <1>2, <1>5, <1>6, <1>7, <1>8 DEF IsChain
<1> QED
  BY <1>9 DEF more

(* Chained adds one list after the other.                                  *)
LEMMA ChainIsRead ==
  ASSUME NEW X, NEW lists \in Seq(Seq(X))
  PROVE  \E f \in [0 .. Len(lists) -> Seq(X)] :
           /\ Chained(lists) = f[Len(lists)]
           /\ f[0] = <<>>
           /\ \A k \in 1 .. Len(lists) : f[k] = f[k - 1] \o lists[k]
<1> DEFINE N == Len(lists)
           V == Seq(X)
           F == CHOOSE f : f = [k \in 0 .. N |-> IF k = 0 THEN <<>> ELSE f[k - 1] \o lists[k]]
           step == [k \in 1 .. N |-> [Q \in V |-> Q \o lists[k]]]
<1>1. N \in Nat
  OBVIOUS
<1>2. \A k \in 1 .. N : lists[k] \in V
  OBVIOUS
<1>3. \A Q, R \in V : Q \o R \in V
  BY ConcatProperties
<1>4. step \in [1 .. N -> [V -> V]]
  <2> HIDE DEF N, V
  <2>1. ASSUME NEW k \in 1 .. N PROVE [Q \in V |-> Q \o lists[k]] \in [V -> V]
    BY <1>2, <1>3
  <2> QED
    BY <2>1, Zenon
<1>5. PICK f \in [0 .. N -> V] : f[0] = <<>> /\ \A k \in 1 .. N : f[k] = step[k][f[k - 1]]
  <2>1. <<>> \in V
    OBVIOUS
  <2> HIDE DEF N, step, V
  <2>2. Runs(N, V, <<>>, step)
    BY <1>1, <1>4, <2>1, StepByStep
  <2> QED
    BY <2>2 DEF Runs
<1>6. \A k \in 1 .. N : f[k] = f[k - 1] \o lists[k]
  <2>1. \A k \in 1 .. N : k - 1 \in 0 .. N
    BY <1>1
  <2> HIDE DEF N, V
  <2>2. \A k \in 1 .. N : f[k - 1] \in V
    BY <1>5, <2>1
  <2> QED
    BY <1>5, <2>2
<1>7. f = [k \in 0 .. N |-> IF k = 0 THEN <<>> ELSE f[k - 1] \o lists[k]]
  <2> HIDE DEF N, step, V
  <2>1. \A k \in 0 .. N : k # 0 => k \in 1 .. N
    BY <1>1
  <2>2. \A k \in 0 .. N : f[k] = IF k = 0 THEN <<>> ELSE f[k - 1] \o lists[k]
    BY <1>5, <1>6, <2>1
  <2> QED
    BY <1>5, <2>2
<1>8. F = [k \in 0 .. N |-> IF k = 0 THEN <<>> ELSE F[k - 1] \o lists[k]]
  BY <1>7
<1>9. Chained(lists) = F[N]
  BY DEF Chained
<1> HIDE DEF F
<1>10. F[0] = <<>> /\ \A k \in 1 .. N : F[k] = F[k - 1] \o lists[k]
  <2> HIDE DEF N
  <2>1. \A k \in 0 .. N : F[k] = IF k = 0 THEN <<>> ELSE F[k - 1] \o lists[k]
    BY <1>8, Zenon
  <2>2. 0 \in 0 .. N /\ \A k \in 1 .. N : k \in 0 .. N /\ k # 0
    BY <1>1
  <2> QED
    BY <2>1, <2>2, Zenon
<1> DEFINE S == {k \in 0 .. N : F[k] \in V}
<1>11. 0 \in S
  <2>1. <<>> \in V
    OBVIOUS
  <2> HIDE DEF V, N
  <2>2. 0 \in 0 .. N
    BY <1>1
  <2> QED
    BY <1>10, <2>1, <2>2
<1>12. ASSUME NEW k \in 0 .. N - 1, k \in S PROVE k + 1 \in S
  <2>1. k + 1 \in 1 .. N /\ (k + 1) - 1 = k /\ k + 1 \in 0 .. N
    BY <1>1
  <2>2. F[k + 1] = F[k] \o lists[k + 1]
    BY <1>10, <2>1
  <2>3. F[k] \in V
    BY <1>12
  <2> HIDE DEF N, V
  <2>4. F[k + 1] \in V
    BY <1>2, <1>3, <2>1, <2>2, <2>3
  <2> QED
    BY <2>1, <2>4
<1>13. \A k \in 0 .. N : k \in S
  <2> HIDE DEF S, N
  <2> QED
    BY <1>1, <1>11, <1>12, CountingUp
<1> HIDE DEF V, N
<1>14. F \in [0 .. N -> V]
  BY <1>8, <1>13
<1> QED
  BY <1>9, <1>10, <1>14 DEF N, V

(* Chained makes such a chain of all the lists.                            *)
LEMMA ChainedIs ==
  ASSUME NEW X, NEW lists \in Seq(Seq(X))
  PROVE  /\ Chained(lists) \in Seq(X)
         /\ \E own, loc : IsChain(Chained(lists), lists, Len(lists), own, loc)
<1> DEFINE N == Len(lists)
           V == Seq(X)
<1>1. N \in Nat
  OBVIOUS
<1>2. \A k \in 1 .. N : lists[k] \in V
  OBVIOUS
<1>3. \A Q, R \in V : Q \o R \in V
  BY ConcatProperties
<1>4. PICK F \in [0 .. N -> V] :
        /\ Chained(lists) = F[N]
        /\ F[0] = <<>>
        /\ \A k \in 1 .. N : F[k] = F[k - 1] \o lists[k]
  BY ChainIsRead
<1>9. Chained(lists) = F[N]
  BY <1>4
<1>10. F[0] = <<>> /\ \A k \in 1 .. N : F[k] = F[k - 1] \o lists[k]
  BY <1>4
<1> DEFINE S == {k \in 0 .. N : F[k] \in V /\ \E own, loc : IsChain(F[k], lists, k, own, loc)}
<1>11. 0 \in S
  <2> DEFINE none == [a \in 1 .. 0 |-> 0]
  <2>1. none \in [1 .. 0 -> 1 .. 0] /\ none \in [1 .. 0 -> Nat] /\ Len(<<>>) = 0
        /\ 1 .. 0 = {} /\ <<>> \in V
    OBVIOUS
  <2> HIDE DEF none, V
  <2>2. IsChain(<<>>, lists, 0, none, none)
    BY <2>1 DEF IsChain
  <2>3. 0 \in 0 .. N
    BY <1>1
  <2> HIDE DEF N
  <2> QED
    BY <1>10, <2>1, <2>2, <2>3
<1>12. ASSUME NEW k \in 0 .. N - 1, k \in S PROVE k + 1 \in S
  <2>1. k + 1 \in 1 .. N /\ (k + 1) - 1 = k /\ k + 1 \in 0 .. N
    BY <1>1
  <2>2. F[k + 1] = F[k] \o lists[k + 1]
    BY <1>10, <2>1
  <2>3. F[k] \in V
    BY <1>12
  <2>4. PICK own, loc : IsChain(F[k], lists, k, own, loc)
    BY <1>12
  <2>5. F[k + 1] \in V
    <3> HIDE DEF N, V
    <3> QED
      BY <1>2, <1>3, <2>1, <2>2, <2>3
  <2>6. \E o, l : IsChain(F[k] \o lists[k + 1], lists, k + 1, o, l)
    <3>1. IsChain(F[k], lists, (k + 1) - 1, own, loc)
      BY <2>1, <2>4
    <3> QED
      BY <2>1, <2>3, <3>1, OneListMore
  <2> HIDE DEF N, V
  <2> QED
    BY <2>1, <2>2, <2>5, <2>6
<1>13. \A k \in 0 .. N : k \in S
  <2> HIDE DEF S, N
  <2> QED
    BY <1>1, <1>11, <1>12, CountingUp
<1>14. N \in S
  <2>1. N \in 0 .. N
    BY <1>1
  <2> HIDE DEF S, N
  <2> QED
    BY <1>13, <2>1
<1> QED
  BY <1>9, <1>14

-----------------------------------------------------------------------------
(* Scans of a text.                                                        *)

(* The scans keep some of the places they come by.                         *)
LEMMA KeptOrNot ==
  ASSUME NEW Q \in Seq(Nat), NEW i \in Nat, NEW next, next = Q \/ next = Append(Q, i)
  PROVE  next \in Seq(Nat)
  OBVIOUS

(* A reader keeps what it has or adds the place it is at.                  *)
LEMMA ReadsAre ==
  ASSUME NEW t, NEW Q, NEW i
  PROVE  /\ ReadArticle(t, Q, i) = Q \/ ReadArticle(t, Q, i) = Append(Q, i)
         /\ ReadSection(t, Q, i) = Q \/ ReadSection(t, Q, i) = Append(Q, i)
         /\ \A from : ReadClause(t, from, Q, i) = Q \/ ReadClause(t, from, Q, i) = Append(Q, i)
  BY DEF ReadArticle, ReadSection, ReadClause

(* FindArticles reads one place after the other.                           *)
LEMMA ArticlesRead ==
  ASSUME NEW t \in Texts
  PROVE  \E f \in [0 .. Len(t) -> Seq(Nat)] :
            /\ FindArticles(t) = f[Len(t)]
            /\ f[0] = <<>>
            /\ \A k \in 1 .. Len(t) : f[k] = ReadArticle(t, f[k - 1], k)
<1> DEFINE N == Len(t)
           V == Seq(Nat)
           F == CHOOSE f : f = [k \in 0 .. N |-> IF k = 0 THEN <<>>
                                              ELSE ReadArticle(t, f[k - 1], k)]
           step == [k \in 1 .. N |-> [Q \in V |-> ReadArticle(t, Q, k)]]
<1>1. N \in Nat
  BY DEF Texts
<1>2. ASSUME NEW k \in 1 .. N, NEW Q \in V PROVE ReadArticle(t, Q, k) \in V
  <2>1. k \in Nat /\ Q \in Seq(Nat)
    BY <1>1
  <2> QED
    BY <2>1, ReadsAre, KeptOrNot
<1>3. step \in [1 .. N -> [V -> V]]
  <2> HIDE DEF N, V
  <2>1. ASSUME NEW k \in 1 .. N PROVE [Q \in V |-> ReadArticle(t, Q, k)] \in [V -> V]
    BY <1>2
  <2> QED
    BY <2>1, Zenon
<1>4. PICK f \in [0 .. N -> V] : f[0] = <<>> /\ \A k \in 1 .. N : f[k] = step[k][f[k - 1]]
  <2>1. <<>> \in V
    OBVIOUS
  <2> HIDE DEF N, step, V
  <2>2. Runs(N, V, <<>>, step)
    BY <1>1, <1>3, <2>1, StepByStep
  <2> QED
    BY <2>2 DEF Runs
<1>5. \A k \in 1 .. N : f[k] = ReadArticle(t, f[k - 1], k)
  <2>1. \A k \in 1 .. N : k - 1 \in 0 .. N
    BY <1>1
  <2> HIDE DEF N, V
  <2>2. \A k \in 1 .. N : f[k - 1] \in V
    BY <1>4, <2>1
  <2> QED
    BY <1>4, <2>2
<1>6. f = [k \in 0 .. N |-> IF k = 0 THEN <<>>
                                              ELSE ReadArticle(t, f[k - 1], k)]
  <2> HIDE DEF N, step, V
  <2>1. \A k \in 0 .. N : k # 0 => k \in 1 .. N
    BY <1>1
  <2>2. \A k \in 0 .. N : f[k] = IF k = 0 THEN <<>> ELSE ReadArticle(t, f[k - 1], k)
    BY <1>4, <1>5, <2>1
  <2> QED
    BY <1>4, <2>2
<1>7. F = [k \in 0 .. N |-> IF k = 0 THEN <<>> ELSE ReadArticle(t, F[k - 1], k)]
  BY <1>6
<1>8. FindArticles(t) = F[Len(t)]
  BY DEF FindArticles
<1> HIDE DEF F
<1>9. F[0] = <<>> /\ \A k \in 1 .. N : F[k] = ReadArticle(t, F[k - 1], k)
  <2> HIDE DEF N
  <2>1. \A k \in 0 .. N : F[k] = IF k = 0 THEN <<>> ELSE ReadArticle(t, F[k - 1], k)
    BY <1>7, Zenon
  <2>2. 0 \in 0 .. N /\ \A k \in 1 .. N : k \in 0 .. N /\ k # 0
    BY <1>1
  <2> QED
    BY <2>1, <2>2, Zenon
<1> DEFINE S == {k \in 0 .. N : F[k] \in V}
<1>10. 0 \in S
  <2>1. <<>> \in V
    OBVIOUS
  <2> HIDE DEF V, N
  <2>2. 0 \in 0 .. N
    BY <1>1
  <2> QED
    BY <1>9, <2>1, <2>2
<1>11. ASSUME NEW k \in 0 .. N - 1, k \in S PROVE k + 1 \in S
  <2>1. k + 1 \in 1 .. N /\ (k + 1) - 1 = k /\ k + 1 \in 0 .. N
    BY <1>1
  <2> HIDE DEF V, N
  <2>2. F[k + 1] = ReadArticle(t, F[k], k + 1)
    BY <1>9, <2>1
  <2>3. F[k] \in V
    BY <1>11
  <2>4. ReadArticle(t, F[k], k + 1) \in V
    BY <1>2, <2>1, <2>3
  <2> QED
    BY <2>1, <2>2, <2>4
<1>12. \A k \in 0 .. N : k \in S
  <2> HIDE DEF S, N
  <2> QED
    BY <1>1, <1>10, <1>11, CountingUp
<1> HIDE DEF V, N
<1>13. F \in [0 .. N -> V]
  BY <1>7, <1>12
<1> QED
  BY <1>8, <1>9, <1>13 DEF N, V

(* FindSections reads one place after the other.                           *)
LEMMA SectionsRead ==
  ASSUME NEW t \in Texts
  PROVE  \E f \in [0 .. Len(t) -> Seq(Nat)] :
            /\ FindSections(t) = f[Len(t)]
            /\ f[0] = <<>>
            /\ \A k \in 1 .. Len(t) : f[k] = ReadSection(t, f[k - 1], k)
<1> DEFINE N == Len(t)
           V == Seq(Nat)
           F == CHOOSE f : f = [k \in 0 .. N |-> IF k = 0 THEN <<>>
                                              ELSE ReadSection(t, f[k - 1], k)]
           step == [k \in 1 .. N |-> [Q \in V |-> ReadSection(t, Q, k)]]
<1>1. N \in Nat
  BY DEF Texts
<1>2. ASSUME NEW k \in 1 .. N, NEW Q \in V PROVE ReadSection(t, Q, k) \in V
  <2>1. k \in Nat /\ Q \in Seq(Nat)
    BY <1>1
  <2> QED
    BY <2>1, ReadsAre, KeptOrNot
<1>3. step \in [1 .. N -> [V -> V]]
  <2> HIDE DEF N, V
  <2>1. ASSUME NEW k \in 1 .. N PROVE [Q \in V |-> ReadSection(t, Q, k)] \in [V -> V]
    BY <1>2
  <2> QED
    BY <2>1, Zenon
<1>4. PICK f \in [0 .. N -> V] : f[0] = <<>> /\ \A k \in 1 .. N : f[k] = step[k][f[k - 1]]
  <2>1. <<>> \in V
    OBVIOUS
  <2> HIDE DEF N, step, V
  <2>2. Runs(N, V, <<>>, step)
    BY <1>1, <1>3, <2>1, StepByStep
  <2> QED
    BY <2>2 DEF Runs
<1>5. \A k \in 1 .. N : f[k] = ReadSection(t, f[k - 1], k)
  <2>1. \A k \in 1 .. N : k - 1 \in 0 .. N
    BY <1>1
  <2> HIDE DEF N, V
  <2>2. \A k \in 1 .. N : f[k - 1] \in V
    BY <1>4, <2>1
  <2> QED
    BY <1>4, <2>2
<1>6. f = [k \in 0 .. N |-> IF k = 0 THEN <<>>
                                              ELSE ReadSection(t, f[k - 1], k)]
  <2> HIDE DEF N, step, V
  <2>1. \A k \in 0 .. N : k # 0 => k \in 1 .. N
    BY <1>1
  <2>2. \A k \in 0 .. N : f[k] = IF k = 0 THEN <<>> ELSE ReadSection(t, f[k - 1], k)
    BY <1>4, <1>5, <2>1
  <2> QED
    BY <1>4, <2>2
<1>7. F = [k \in 0 .. N |-> IF k = 0 THEN <<>> ELSE ReadSection(t, F[k - 1], k)]
  BY <1>6
<1>8. FindSections(t) = F[Len(t)]
  BY DEF FindSections
<1> HIDE DEF F
<1>9. F[0] = <<>> /\ \A k \in 1 .. N : F[k] = ReadSection(t, F[k - 1], k)
  <2> HIDE DEF N
  <2>1. \A k \in 0 .. N : F[k] = IF k = 0 THEN <<>> ELSE ReadSection(t, F[k - 1], k)
    BY <1>7, Zenon
  <2>2. 0 \in 0 .. N /\ \A k \in 1 .. N : k \in 0 .. N /\ k # 0
    BY <1>1
  <2> QED
    BY <2>1, <2>2, Zenon
<1> DEFINE S == {k \in 0 .. N : F[k] \in V}
<1>10. 0 \in S
  <2>1. <<>> \in V
    OBVIOUS
  <2> HIDE DEF V, N
  <2>2. 0 \in 0 .. N
    BY <1>1
  <2> QED
    BY <1>9, <2>1, <2>2
<1>11. ASSUME NEW k \in 0 .. N - 1, k \in S PROVE k + 1 \in S
  <2>1. k + 1 \in 1 .. N /\ (k + 1) - 1 = k /\ k + 1 \in 0 .. N
    BY <1>1
  <2> HIDE DEF V, N
  <2>2. F[k + 1] = ReadSection(t, F[k], k + 1)
    BY <1>9, <2>1
  <2>3. F[k] \in V
    BY <1>11
  <2>4. ReadSection(t, F[k], k + 1) \in V
    BY <1>2, <2>1, <2>3
  <2> QED
    BY <2>1, <2>2, <2>4
<1>12. \A k \in 0 .. N : k \in S
  <2> HIDE DEF S, N
  <2> QED
    BY <1>1, <1>10, <1>11, CountingUp
<1> HIDE DEF V, N
<1>13. F \in [0 .. N -> V]
  BY <1>7, <1>12
<1> QED
  BY <1>8, <1>9, <1>13 DEF N, V

(* So are the numbers of an article.                                       *)
LEMMA ClausesRead ==
  ASSUME NEW t \in Texts, NEW from \in Nat, NEW to \in 1 .. Len(t) + 1
  PROVE  \E f \in [0 .. to - 1 -> Seq(Nat)] :
            /\ ClausesInOrder(t, from, to) = f[to - 1]
            /\ f[0] = <<>>
            /\ \A k \in 1 .. to - 1 : f[k] = ReadClause(t, from, f[k - 1], k)
<1> DEFINE N == to - 1
           V == Seq(Nat)
           F == CHOOSE f : f = [k \in 0 .. N |-> IF k = 0 THEN <<>>
                                              ELSE ReadClause(t, from, f[k - 1], k)]
           step == [k \in 1 .. N |-> [Q \in V |-> ReadClause(t, from, Q, k)]]
<1>1. N \in Nat
  BY DEF Texts
<1>2. ASSUME NEW k \in 1 .. N, NEW Q \in V PROVE ReadClause(t, from, Q, k) \in V
  <2>1. k \in Nat /\ Q \in Seq(Nat)
    BY <1>1
  <2>2. ReadClause(t, from, Q, k) = Q \/ ReadClause(t, from, Q, k) = Append(Q, k)
    BY ReadsAre
  <2> QED
    BY <2>1, <2>2, KeptOrNot
<1>3. step \in [1 .. N -> [V -> V]]
  <2> HIDE DEF N, V
  <2>1. ASSUME NEW k \in 1 .. N PROVE [Q \in V |-> ReadClause(t, from, Q, k)] \in [V -> V]
    BY <1>2
  <2> QED
    BY <2>1, Zenon
<1>4. PICK f \in [0 .. N -> V] : f[0] = <<>> /\ \A k \in 1 .. N : f[k] = step[k][f[k - 1]]
  <2>1. <<>> \in V
    OBVIOUS
  <2> HIDE DEF N, step, V
  <2>2. Runs(N, V, <<>>, step)
    BY <1>1, <1>3, <2>1, StepByStep
  <2> QED
    BY <2>2 DEF Runs
<1>5. \A k \in 1 .. N : f[k] = ReadClause(t, from, f[k - 1], k)
  <2>1. \A k \in 1 .. N : k - 1 \in 0 .. N
    BY <1>1
  <2> HIDE DEF N, V
  <2>2. \A k \in 1 .. N : f[k - 1] \in V
    BY <1>4, <2>1
  <2> QED
    BY <1>4, <2>2
<1>6. f = [k \in 0 .. N |-> IF k = 0 THEN <<>>
                                              ELSE ReadClause(t, from, f[k - 1], k)]
  <2> HIDE DEF N, step, V
  <2>1. \A k \in 0 .. N : k # 0 => k \in 1 .. N
    BY <1>1
  <2>2. \A k \in 0 .. N : f[k] = IF k = 0 THEN <<>> ELSE ReadClause(t, from, f[k - 1], k)
    BY <1>4, <1>5, <2>1
  <2> QED
    BY <1>4, <2>2
<1>7. F = [k \in 0 .. N |-> IF k = 0 THEN <<>> ELSE ReadClause(t, from, F[k - 1], k)]
  BY <1>6
<1>8. ClausesInOrder(t, from, to) = F[to - 1]
  BY DEF ClausesInOrder
<1> HIDE DEF F
<1>9. F[0] = <<>> /\ \A k \in 1 .. N : F[k] = ReadClause(t, from, F[k - 1], k)
  <2> HIDE DEF N
  <2>1. \A k \in 0 .. N : F[k] = IF k = 0 THEN <<>> ELSE ReadClause(t, from, F[k - 1], k)
    BY <1>7, Zenon
  <2>2. 0 \in 0 .. N /\ \A k \in 1 .. N : k \in 0 .. N /\ k # 0
    BY <1>1
  <2> QED
    BY <2>1, <2>2, Zenon
<1> DEFINE S == {k \in 0 .. N : F[k] \in V}
<1>10. 0 \in S
  <2>1. <<>> \in V
    OBVIOUS
  <2> HIDE DEF V, N
  <2>2. 0 \in 0 .. N
    BY <1>1
  <2> QED
    BY <1>9, <2>1, <2>2
<1>11. ASSUME NEW k \in 0 .. N - 1, k \in S PROVE k + 1 \in S
  <2>1. k + 1 \in 1 .. N /\ (k + 1) - 1 = k /\ k + 1 \in 0 .. N
    BY <1>1
  <2> HIDE DEF V, N
  <2>2. F[k + 1] = ReadClause(t, from, F[k], k + 1)
    BY <1>9, <2>1
  <2>3. F[k] \in V
    BY <1>11
  <2>4. ReadClause(t, from, F[k], k + 1) \in V
    BY <1>2, <2>1, <2>3
  <2> QED
    BY <2>1, <2>2, <2>4
<1>12. \A k \in 0 .. N : k \in S
  <2> HIDE DEF S, N
  <2> QED
    BY <1>1, <1>10, <1>11, CountingUp
<1> HIDE DEF V, N
<1>13. F \in [0 .. N -> V]
  BY <1>7, <1>12
<1> QED
  BY <1>8, <1>9, <1>13 DEF N, V

(* The separator is made of symbols.                                       *)
LEMMA SeparatorIs ==
  PageSeparator \in Texts /\ Len(PageSeparator) = 3
<1>1. "/" \in Symbols /\ "^" \in Symbols
  BY DEF Symbols, White
<1> QED
  BY <1>1 DEF PageSeparator, Texts

(* Pages are joined one after the other.                                   *)
LEMMA PagesJoined ==
  ASSUME NEW ps \in Seq(Texts)
  PROVE  \E f \in [0 .. Len(ps) -> Texts] :
            /\ Joined(ps) = f[Len(ps)]
            /\ f[0] = <<>>
            /\ \A k \in 1 .. Len(ps) : f[k] = WithPage(f[k - 1], ps, k)
<1> DEFINE N == Len(ps)
           V == Texts
           F == CHOOSE f : f = [k \in 0 .. N |-> IF k = 0 THEN <<>> ELSE WithPage(f[k - 1], ps, k)]
           step == [k \in 1 .. N |-> [Q \in V |-> WithPage(Q, ps, k)]]
<1>1. N \in Nat
  OBVIOUS
<1>2. ASSUME NEW k \in 1 .. N, NEW Q \in V PROVE WithPage(Q, ps, k) \in V
  <2>1. k \in 1 .. Len(ps) /\ ps[k] \in Texts /\ (k = 1 => ps[1] \in Texts)
    BY <1>1
  <2>2. \A P, R \in Texts : P \o R \in Texts
    <3>1. \A P, R \in Seq(Symbols) : P \o R \in Seq(Symbols)
      BY ConcatProperties
    <3> QED
      BY <3>1 DEF Texts
  <2>3. Q \o PageSeparator \o ps[k] \in Texts
    BY <2>1, <2>2, SeparatorIs
  <2> QED
    BY <2>1, <2>3 DEF WithPage
<1>3. step \in [1 .. N -> [V -> V]]
  <2> HIDE DEF N, V
  <2>1. ASSUME NEW k \in 1 .. N PROVE [Q \in V |-> WithPage(Q, ps, k)] \in [V -> V]
    BY <1>2
  <2> QED
    BY <2>1, Zenon
<1>4. PICK f \in [0 .. N -> V] : f[0] = <<>> /\ \A k \in 1 .. N : f[k] = step[k][f[k - 1]]
  <2>1. <<>> \in V
    BY DEF Texts
  <2> HIDE DEF N, step, V
  <2>2. Runs(N, V, <<>>, step)
    BY <1>1, <1>3, <2>1, StepByStep
  <2> QED
    BY <2>2 DEF Runs
<1>5. \A k \in 1 .. N : f[k] = WithPage(f[k - 1], ps, k)
  <2>1. \A k \in 1 .. N : k - 1 \in 0 .. N
    BY <1>1
  <2> HIDE DEF N, V
  <2>2. \A k \in 1 .. N : f[k - 1] \in V
    BY <1>4, <2>1
  <2> QED
    BY <1>4, <2>2
<1>6. f = [k \in 0 .. N |-> IF k = 0 THEN <<>> ELSE WithPage(f[k - 1], ps, k)]
  <2> HIDE DEF N, step, V
  <2>1. \A k \in 0 .. N : k # 0 => k \in 1 .. N
    BY <1>1
  <2>2. \A k \in 0 .. N : f[k] = IF k = 0 THEN <<>> ELSE WithPage(f[k - 1], ps, k)
    BY <1>4, <1>5, <2>1
  <2> QED
    BY <1>4, <2>2
<1>7. F = [k \in 0 .. N |-> IF k = 0 THEN <<>> ELSE WithPage(F[k - 1], ps, k)]
  BY <1>6
<1>8. Joined(ps) = F[Len(ps)]
  BY DEF Joined
<1> HIDE DEF F
<1>9. F[0] = <<>> /\ \A k \in 1 .. N : F[k] = WithPage(F[k - 1], ps, k)
  <2> HIDE DEF N
  <2>1. \A k \in 0 .. N : F[k] = IF k = 0 THEN <<>> ELSE WithPage(F[k - 1], ps, k)
    BY <1>7, Zenon
  <2>2. 0 \in 0 .. N /\ \A k \in 1 .. N : k \in 0 .. N /\ k # 0
    BY <1>1
  <2> QED
    BY <2>1, <2>2, Zenon
<1> DEFINE S == {k \in 0 .. N : F[k] \in V}
<1>10. 0 \in S
  <2>1. <<>> \in V
    BY DEF Texts
  <2> HIDE DEF V, N
  <2>2. 0 \in 0 .. N
    BY <1>1
  <2> QED
    BY <1>9, <2>1, <2>2
<1>11. ASSUME NEW k \in 0 .. N - 1, k \in S PROVE k + 1 \in S
  <2>1. k + 1 \in 1 .. N /\ (k + 1) - 1 = k /\ k + 1 \in 0 .. N
    BY <1>1
  <2> HIDE DEF V, N
  <2>2. F[k + 1] = WithPage(F[k], ps, k + 1)
    BY <1>9, <2>1
  <2>3. F[k] \in V
    BY <1>11
  <2>4. WithPage(F[k], ps, k + 1) \in V
    BY <1>2, <2>1, <2>3
  <2> QED
    BY <2>1, <2>2, <2>4
<1>12. \A k \in 0 .. N : k \in S
  <2> HIDE DEF S, N
  <2> QED
    BY <1>1, <1>10, <1>11, CountingUp
<1> HIDE DEF V, N
<1>13. F \in [0 .. N -> V]
  BY <1>7, <1>12
<1> QED
  BY <1>8, <1>9, <1>13 DEF N, V

(* Where each page starts, and the next would after the last.              *)
LEMMA PagesBounded ==
  ASSUME NEW ps \in Seq(Texts)
  PROVE  \E f \in [0 .. Len(ps) -> Nat] :
            /\ Boundaries(ps) = [k \in DOMAIN ps |-> f[k - 1]]
            /\ f[0] = 1
            /\ \A k \in 1 .. Len(ps) : f[k] = f[k - 1] + Len(ps[k]) + Len(PageSeparator)
<1> DEFINE N == Len(ps)
           V == Nat
           F == CHOOSE f : f = [k \in 0 .. N |-> IF k = 0 THEN 1
                                              ELSE f[k - 1] + Len(ps[k]) + Len(PageSeparator)]
           step == [k \in 1 .. N |-> [Q \in V |-> Q + Len(ps[k]) + Len(PageSeparator)]]
<1>1. N \in Nat
  OBVIOUS
<1>2. ASSUME NEW k \in 1 .. N, NEW Q \in V PROVE Q + Len(ps[k]) + Len(PageSeparator) \in V
  <2>1. Len(ps[k]) \in Nat
    BY <1>1 DEF Texts
  <2> QED
    BY <2>1, SeparatorIs
<1>3. step \in [1 .. N -> [V -> V]]
  <2> HIDE DEF N, V
  <2>1. ASSUME NEW k \in 1 .. N PROVE [Q \in V |-> Q + Len(ps[k]) + Len(PageSeparator)] \in [V -> V]
    BY <1>2
  <2> QED
    BY <2>1, Zenon
<1>4. PICK f \in [0 .. N -> V] : f[0] = 1 /\ \A k \in 1 .. N : f[k] = step[k][f[k - 1]]
  <2>1. 1 \in V
    OBVIOUS
  <2> HIDE DEF N, step, V
  <2>2. Runs(N, V, 1, step)
    BY <1>1, <1>3, <2>1, StepByStep
  <2> QED
    BY <2>2 DEF Runs
<1>5. \A k \in 1 .. N : f[k] = f[k - 1] + Len(ps[k]) + Len(PageSeparator)
  <2>1. \A k \in 1 .. N : k - 1 \in 0 .. N
    BY <1>1
  <2> HIDE DEF N, V
  <2>2. \A k \in 1 .. N : f[k - 1] \in V
    BY <1>4, <2>1
  <2> QED
    BY <1>4, <2>2
<1>6. f = [k \in 0 .. N |-> IF k = 0 THEN 1 ELSE f[k - 1] + Len(ps[k]) + Len(PageSeparator)]
  <2> HIDE DEF N, step, V
  <2>1. \A k \in 0 .. N : k # 0 => k \in 1 .. N
    BY <1>1
  <2>2. \A k \in 0 .. N : f[k] = IF k = 0 THEN 1 ELSE f[k - 1] + Len(ps[k]) + Len(PageSeparator)
    BY <1>4, <1>5, <2>1
  <2> QED
    BY <1>4, <2>2
<1>7. F = [k \in 0 .. N |-> IF k = 0 THEN 1 ELSE F[k - 1] + Len(ps[k]) + Len(PageSeparator)]
  BY <1>6
<1>8. Boundaries(ps) = [k \in DOMAIN ps |-> F[k - 1]]
  BY DEF Boundaries
<1> HIDE DEF F
<1>9. F[0] = 1 /\ \A k \in 1 .. N : F[k] = F[k - 1] + Len(ps[k]) + Len(PageSeparator)
  <2> HIDE DEF N
  <2>1. \A k \in 0 .. N : F[k] = IF k = 0 THEN 1 ELSE F[k - 1] + Len(ps[k]) + Len(PageSeparator)
    BY <1>7, Zenon
  <2>2. 0 \in 0 .. N /\ \A k \in 1 .. N : k \in 0 .. N /\ k # 0
    BY <1>1
  <2> QED
    BY <2>1, <2>2, Zenon
<1> DEFINE S == {k \in 0 .. N : F[k] \in V}
<1>10. 0 \in S
  <2>1. 1 \in V
    OBVIOUS
  <2> HIDE DEF V, N
  <2>2. 0 \in 0 .. N
    BY <1>1
  <2> QED
    BY <1>9, <2>1, <2>2
<1>11. ASSUME NEW k \in 0 .. N - 1, k \in S PROVE k + 1 \in S
  <2>1. k + 1 \in 1 .. N /\ (k + 1) - 1 = k /\ k + 1 \in 0 .. N
    BY <1>1
  <2> HIDE DEF V, N
  <2>2. F[k + 1] = F[k] + Len(ps[k + 1]) + Len(PageSeparator)
    BY <1>9, <2>1
  <2>3. F[k] \in V
    BY <1>11
  <2>4. F[k] + Len(ps[k + 1]) + Len(PageSeparator) \in V
    BY <1>2, <2>1, <2>3
  <2> QED
    BY <2>1, <2>2, <2>4
<1>12. \A k \in 0 .. N : k \in S
  <2> HIDE DEF S, N
  <2> QED
    BY <1>1, <1>10, <1>11, CountingUp
<1> HIDE DEF V, N
<1>13. F \in [0 .. N -> V]
  BY <1>7, <1>12
<1> QED
  BY <1>8, <1>9, <1>13 DEF N, V

(* Places in the order of the text, up to n.                               *)
Ascending(s, n) ==
  /\ s \in Seq(Nat)
  /\ \A k \in 1 .. Len(s) : s[k] \in 1 .. n
  /\ \A j, k \in 1 .. Len(s) : j < k => s[j] < s[k]

(* A place behind all those found.                                         *)
LEMMA OnePlaceMore ==
  ASSUME NEW n \in Nat, NEW s, Ascending(s, n)
  PROVE  /\ Ascending(s, n + 1) /\ Ascending(Append(s, n + 1), n + 1)
         /\ Len(Append(s, n + 1)) = Len(s) + 1 /\ Len(s) \in Nat
         /\ \A k \in 1 .. Len(s) : Append(s, n + 1)[k] = s[k]
         /\ Append(s, n + 1)[Len(s) + 1] = n + 1 /\ Last(Append(s, n + 1)) = n + 1
<1> DEFINE r == Append(s, n + 1)
           m == Len(s)
<1>1. s \in Seq(Nat) /\ m \in Nat /\ n + 1 \in Nat
  BY DEF Ascending
<1>2. /\ \A k \in 1 .. m : s[k] \in 1 .. n
      /\ \A j, k \in 1 .. m : j < k => s[j] < s[k]
  BY DEF Ascending
<1>3. /\ r \in Seq(Nat) /\ Len(r) = m + 1
      /\ \A k \in 1 .. m : r[k] = s[k]
      /\ r[m + 1] = n + 1
  BY <1>1
<1> HIDE DEF r, m
<1>4. \A k \in 1 .. m + 1 : k = m + 1 \/ k \in 1 .. m
  BY <1>1
<1>5. \A k \in 1 .. m : s[k] \in 1 .. n + 1
  BY <1>2
<1>6. Ascending(s, n + 1)
  BY <1>1, <1>2, <1>5 DEF Ascending, m
<1>7. \A k \in 1 .. m + 1 : r[k] \in 1 .. n + 1
  BY <1>1, <1>3, <1>4, <1>5
<1>8. ASSUME NEW j \in 1 .. m + 1, NEW k \in 1 .. m + 1, j < k PROVE r[j] < r[k]
  <2>1. j \in 1 .. m /\ r[j] = s[j] /\ s[j] \in 1 .. n
    BY <1>1, <1>2, <1>3, <1>8
  <2>2. CASE k = m + 1
    BY <1>3, <2>1, <2>2
  <2>3. CASE k \in 1 .. m
    BY <1>2, <1>3, <1>8, <2>1, <2>3
  <2> QED
    BY <1>4, <2>2, <2>3
<1>9. Ascending(r, n + 1)
  BY <1>3, <1>7, <1>8 DEF Ascending
<1>10. Last(r) = n + 1
  BY <1>3 DEF Last
<1> QED
  BY <1>1, <1>3, <1>6, <1>9, <1>10 DEF r, m

(* None found.                                                             *)
LEMMA NoPlaces ==
  \A n \in Nat : Ascending(<<>>, n)
<1>1. Len(<<>>) = 0 /\ <<>> \in Seq(Nat) /\ 1 .. 0 = {}
  OBVIOUS
<1> QED
  BY <1>1 DEF Ascending

(* The first place found and the last.                                     *)
LEMMA LastOfPlaces ==
  ASSUME NEW n \in Nat, NEW s, Ascending(s, n), s # <<>>
  PROVE  /\ Len(s) \in Nat /\ Len(s) >= 1 /\ Last(s) = s[Len(s)] /\ Head(s) = s[1]
         /\ Last(s) \in 1 .. n /\ Head(s) \in 1 .. n
         /\ \A k \in 1 .. Len(s) : Head(s) <= s[k] /\ s[k] <= Last(s)
<1>1. s \in Seq(Nat) /\ Len(s) \in Nat /\ Len(s) >= 1 /\ Last(s) = s[Len(s)] /\ Head(s) = s[1]
  BY DEF Ascending, Last
<1>2. /\ \A k \in 1 .. Len(s) : s[k] \in 1 .. n
      /\ \A j, k \in 1 .. Len(s) : j < k => s[j] < s[k]
  BY DEF Ascending
<1>3. 1 \in 1 .. Len(s) /\ Len(s) \in 1 .. Len(s)
  BY <1>1
<1>4. ASSUME NEW k \in 1 .. Len(s) PROVE s[1] <= s[k] /\ s[k] <= s[Len(s)]
  <2>1. k = 1 \/ 1 < k
    BY <1>1
  <2>2. k = Len(s) \/ k < Len(s)
    BY <1>1
  <2>3. s[k] \in 1 .. n /\ s[1] \in 1 .. n /\ s[Len(s)] \in 1 .. n
    BY <1>2, <1>3
  <2>4. s[1] = s[k] \/ s[1] < s[k]
    BY <1>2, <1>3, <2>1
  <2>5. s[k] = s[Len(s)] \/ s[k] < s[Len(s)]
    BY <1>2, <1>3, <2>2
  <2> QED
    BY <2>3, <2>4, <2>5
<1> QED
  BY <1>1, <1>2, <1>3, <1>4

(* FindArticles finds the article lines whose number is above those of all *)
(* before.                                                                 *)
NumberedLines(t) == {i \in DOMAIN t : IsArticleLine(t, i) /\ Number(t, i) > 0}

RecordArticles(t) ==
  LET lines == NumberedLines(t)
  IN  {i \in lines : \A j \in lines : j < i => Number(t, j) < Number(t, i)}

(* The articles among the first n places are those of s.                   *)
ArticlesUpTo(t, s, n) ==
  /\ Ascending(s, n)
  /\ \A k \in 1 .. Len(s) : s[k] \in RecordArticles(t)
  /\ \A x \in RecordArticles(t) : x <= n => \E k \in 1 .. Len(s) : s[k] = x
  /\ \A j \in NumberedLines(t) : j <= n => s # <<>> /\ Number(t, j) <= Number(t, Last(s))

(* What the numbered lines are, and those above all before among them.     *)
LEMMA RecordArticlesAre ==
  ASSUME NEW t \in Texts
  PROVE  /\ RecordArticles(t) = {i \in NumberedLines(t) : \A j \in NumberedLines(t) :
                                 j < i => Number(t, j) < Number(t, i)}
         /\ \A i \in NumberedLines(t) :
              /\ i \in 1 .. Len(t) /\ IsArticleLine(t, i) /\ StartsLine(t, i)
              /\ t[i] \in DOMAIN Articles /\ Number(t, i) \in Nat /\ Number(t, i) > 0
<1>1. RecordArticles(t) = {i \in NumberedLines(t) : \A j \in NumberedLines(t) :
                                 j < i => Number(t, j) < Number(t, i)}
  BY DEF RecordArticles
<1>2. ASSUME NEW i \in NumberedLines(t)
      PROVE  /\ i \in 1 .. Len(t) /\ IsArticleLine(t, i) /\ StartsLine(t, i)
             /\ t[i] \in DOMAIN Articles /\ Number(t, i) \in Nat /\ Number(t, i) > 0
  <2>1. i \in DOMAIN t /\ IsArticleLine(t, i) /\ Number(t, i) > 0 /\ DOMAIN t = 1 .. Len(t)
    BY DEF NumberedLines, Texts
  <2>2. t[i] \in DOMAIN Articles /\ StartsLine(t, i)
    BY <2>1 DEF IsArticleLine
  <2>3. Number(t, i) \in Nat
    BY <2>2, TextAssumption DEF Number
  <2> QED
    BY <2>1, <2>2, <2>3
<1> QED
  BY <1>1, <1>2

(* In a text whose articles go up, these are the true articles.            *)
LEMMA TrueAreRecords ==
  ASSUME NEW t \in Texts, ArticlesGoUp(t)
  PROVE  TrueArticles(t) = RecordArticles(t)
<1> DEFINE T == TrueArticles(t)
           N == NumberedLines(t)
           R == RecordArticles(t)
<1>1. /\ R = {i \in N : \A j \in N : j < i => Number(t, j) < Number(t, i)}
      /\ \A i \in N : i \in 1 .. Len(t) /\ Number(t, i) \in Nat
  BY RecordArticlesAre
<1>2. /\ \A i \in T : i \in N
      /\ \A i, j \in T : j < i => Number(t, j) < Number(t, i)
      /\ \A i \in N : i \in T \/ \E j \in T : j < i /\ Number(t, i) <= Number(t, j)
  BY DEF ArticlesGoUp, TrueArticles, NumberedLines
<1>3. Len(t) \in Nat
  BY DEF Texts
<1> HIDE DEF T, N, R
<1>4. ASSUME NEW i \in T PROVE i \in R
  <2>1. ASSUME NEW j \in N, j < i PROVE Number(t, j) < Number(t, i)
    <3>1. CASE j \in T
      BY <1>2, <2>1, <3>1
    <3>2. CASE j \notin T
      <4>1. PICK k \in T : k < j /\ Number(t, j) <= Number(t, k)
        BY <1>2, <3>2
      <4>2. i \in 1 .. Len(t) /\ j \in 1 .. Len(t) /\ k \in 1 .. Len(t)
        BY <1>1, <1>2
      <4>3. k < i
        BY <1>3, <2>1, <4>1, <4>2
      <4>4. Number(t, k) < Number(t, i)
        BY <1>2, <4>3
      <4>5. Number(t, i) \in Nat /\ Number(t, j) \in Nat /\ Number(t, k) \in Nat
        BY <1>1, <1>2
      <4> QED
        BY <4>1, <4>4, <4>5
    <3> QED
      BY <3>1, <3>2
  <2> QED
    BY <1>1, <1>2, <2>1
<1>5. ASSUME NEW i \in R, i \notin T PROVE FALSE
  <2>1. i \in N
    BY <1>1
  <2>2. PICK j \in T : j < i /\ Number(t, i) <= Number(t, j)
    BY <1>2, <1>5, <2>1
  <2>3. Number(t, j) < Number(t, i)
    BY <1>1, <1>2, <2>2
  <2> QED
    BY <1>1, <1>2, <2>1, <2>2, <2>3
<1>6. T = R
  BY <1>4, <1>5
<1> QED
  BY <1>6 DEF T, R

(* FindArticles finds them, in the order of the text.                      *)
LEMMA ArticlesFound ==
  ASSUME NEW t \in Texts
  PROVE  ArticlesUpTo(t, FindArticles(t), Len(t))
<1> DEFINE N == Len(t)
<1>1. N \in Nat
  BY DEF Texts
<1>2. PICK f \in [0 .. N -> Seq(Nat)] :
           /\ FindArticles(t) = f[N]
           /\ f[0] = <<>>
           /\ \A k \in 1 .. N : f[k] = ReadArticle(t, f[k - 1], k)
  BY ArticlesRead
<1> DEFINE S == {k \in 0 .. N : ArticlesUpTo(t, f[k], k)}
<1>3. 0 \in S
  <2>1. \A j \in NumberedLines(t) : ~(j <= 0)
    BY RecordArticlesAre
  <2>2. \A j \in RecordArticles(t) : ~(j <= 0)
    BY <2>1, RecordArticlesAre
  <2>3. Len(<<>>) = 0 /\ 1 .. 0 = {}
    OBVIOUS
  <2>4. ArticlesUpTo(t, <<>>, 0)
    BY <2>1, <2>2, <2>3, NoPlaces DEF ArticlesUpTo
  <2> QED
    BY <1>1, <1>2, <2>4
<1>4. ASSUME NEW k \in 0 .. N - 1, k \in S PROVE k + 1 \in S
  <2> DEFINE Q == f[k]
             p == k + 1
             r == Append(Q, p)
             previous == IF Q = <<>> THEN 0 ELSE Number(t, Last(Q))
  <2>1. k \in Nat /\ p \in 1 .. N /\ p \in 0 .. N /\ p - 1 = k
    BY <1>1
  <2>2. f[p] = IF IsArticleLine(t, p) /\ Number(t, p) > previous THEN r ELSE Q
    <3>1. f[p] = ReadArticle(t, Q, p)
      BY <1>2, <2>1
    <3> QED
      BY <3>1 DEF ReadArticle
  <2>3. /\ Ascending(Q, k)
        /\ \A j \in 1 .. Len(Q) : Q[j] \in RecordArticles(t)
        /\ \A x \in RecordArticles(t) : x <= k => \E j \in 1 .. Len(Q) : Q[j] = x
        /\ \A j \in NumberedLines(t) : j <= k => Q # <<>> /\ Number(t, j) <= previous
    BY <1>4 DEF ArticlesUpTo
  <2>4. /\ Ascending(Q, p) /\ Ascending(r, p) /\ Len(r) = Len(Q) + 1 /\ Len(Q) \in Nat
        /\ \A j \in 1 .. Len(Q) : r[j] = Q[j]
        /\ r[Len(Q) + 1] = p /\ Last(r) = p
    <3> HIDE DEF Q
    <3> QED
      BY <2>1, <2>3, OnePlaceMore
  <2>5. \A j \in NumberedLines(t) : /\ j \in Nat /\ Number(t, j) \in Nat
                                    /\ j <= p => j <= k \/ j = p
    <3>1. \A j \in NumberedLines(t) : j \in Nat /\ Number(t, j) \in Nat
      BY RecordArticlesAre
    <3> QED
      BY <2>1, <3>1
  <2>6. previous \in Nat /\ (Q # <<>> => Last(Q) \in RecordArticles(t) /\ Last(Q) \in 1 .. k
                                         /\ previous = Number(t, Last(Q)) /\ previous > 0)
    <3>1. CASE Q = <<>>
      BY <3>1
    <3>2. CASE Q # <<>>
      <4>1. Last(Q) = Q[Len(Q)] /\ Len(Q) >= 1 /\ Last(Q) \in 1 .. k
        BY <2>1, <2>3, <3>2, LastOfPlaces
      <4>2. Last(Q) \in RecordArticles(t)
        BY <2>3, <2>4, <4>1
      <4>3. Number(t, Last(Q)) \in Nat /\ Number(t, Last(Q)) > 0
        BY <4>2, RecordArticlesAre
      <4> QED
        BY <3>2, <4>1, <4>2, <4>3
    <3> QED
      BY <3>1, <3>2
  <2>7. RecordArticles(t) = {i \in NumberedLines(t) : \A j \in NumberedLines(t) :
                                 j < i => Number(t, j) < Number(t, i)}
    BY RecordArticlesAre
  <2> HIDE DEF Q, previous, r, p
  <2>8. CASE IsArticleLine(t, p) /\ Number(t, p) > previous
    <3>1. p \in NumberedLines(t)
      <4>1. t[p] \in DOMAIN Articles
        BY <2>8 DEF IsArticleLine
      <4>2. Number(t, p) \in Nat
        BY <4>1, TextAssumption DEF Number
      <4>3. Number(t, p) > 0
        BY <2>6, <2>8, <4>2
      <4>4. p \in DOMAIN t
        BY <2>1 DEF Texts
      <4> QED
        BY <2>8, <4>3, <4>4 DEF NumberedLines
    <3>2. \A j \in NumberedLines(t) : j <= k => Number(t, j) < Number(t, p)
      <4> SUFFICES ASSUME NEW j \in NumberedLines(t), j <= k PROVE Number(t, j) < Number(t, p)
        OBVIOUS
      <4>1. Number(t, j) <= previous /\ Number(t, j) \in Nat /\ Number(t, p) \in Nat
        BY <2>3, <2>5, <3>1
      <4> QED
        BY <2>6, <2>8, <4>1
    <3>3. p \in RecordArticles(t)
      <4>1. \A j \in NumberedLines(t) : j < p => j <= k
        BY <2>1, <2>5
      <4> QED
        BY <2>7, <3>1, <3>2, <4>1
    <3>4. \A j \in 1 .. Len(r) : r[j] \in RecordArticles(t)
      <4>1. \A j \in 1 .. Len(r) : j \in 1 .. Len(Q) \/ j = Len(Q) + 1
        BY <2>4
      <4> QED
        BY <2>3, <2>4, <3>3, <4>1
    <3>5. ASSUME NEW x \in RecordArticles(t), x <= p PROVE \E j \in 1 .. Len(r) : r[j] = x
      <4>1. x <= k \/ x = p
        BY <2>5, <2>7, <3>5
      <4>2. CASE x <= k
        <5>1. PICK j \in 1 .. Len(Q) : Q[j] = x
          BY <2>3, <4>2
        <5>2. j \in 1 .. Len(r) /\ r[j] = x
          BY <2>4, <5>1
        <5> QED
          BY <5>2
      <4>3. CASE x = p
        <5>1. Len(Q) + 1 \in 1 .. Len(r)
          BY <2>4
        <5> QED
          BY <2>4, <4>3, <5>1
      <4> QED
        BY <4>1, <4>2, <4>3
    <3>6. ASSUME NEW j \in NumberedLines(t), j <= p
          PROVE  r # <<>> /\ Number(t, j) <= Number(t, Last(r))
      <4>1. r # <<>>
        BY <2>4
      <4>2. j <= k \/ j = p
        BY <2>5, <3>6
      <4>3. Number(t, j) \in Nat /\ Number(t, p) \in Nat
        BY <2>5, <3>1
      <4>4. Number(t, j) <= Number(t, p)
        BY <3>2, <4>2, <4>3
      <4> QED
        BY <2>4, <4>1, <4>4
    <3>7. ArticlesUpTo(t, r, p)
      BY <2>4, <3>4, <3>5, <3>6 DEF ArticlesUpTo
    <3>8. f[p] = r
      BY <2>2, <2>8
    <3> QED
      BY <2>1, <3>7, <3>8 DEF p
  <2>9. CASE ~(IsArticleLine(t, p) /\ Number(t, p) > previous)
    <3>1. \A x \in RecordArticles(t) : x <= p => x <= k
      <4> SUFFICES ASSUME p \in RecordArticles(t) PROVE FALSE
        BY <2>5, <2>7
      <4>1. p \in NumberedLines(t) /\ IsArticleLine(t, p) /\ Number(t, p) \in Nat
            /\ Number(t, p) > 0
        BY <2>7, RecordArticlesAre
      <4>2. Q # <<>> => previous < Number(t, p)
        <5> SUFFICES ASSUME Q # <<>> PROVE previous < Number(t, p)
          OBVIOUS
        <5>1. Last(Q) \in NumberedLines(t) /\ Last(Q) < p
          BY <2>1, <2>6, <2>7
        <5> QED
          BY <2>6, <2>7, <5>1
      <4>3. Q = <<>> => previous < Number(t, p)
        BY <4>1 DEF previous
      <4> QED
        BY <2>6, <2>9, <4>1, <4>2, <4>3
    <3>2. ASSUME NEW j \in NumberedLines(t), j <= p
          PROVE  Q # <<>> /\ Number(t, j) <= Number(t, Last(Q))
      <4>1. CASE j <= k
        <5>1. Q # <<>> /\ Number(t, j) <= previous
          BY <2>3, <4>1
        <5> QED
          BY <2>6, <5>1
      <4>2. CASE j = p
        <5>1. IsArticleLine(t, p) /\ Number(t, p) \in Nat /\ Number(t, p) > 0
          BY <4>2, RecordArticlesAre
        <5>2. Number(t, p) <= previous
          BY <2>6, <2>9, <5>1
        <5>3. Q # <<>>
          BY <5>1, <5>2 DEF previous
        <5> QED
          BY <2>6, <4>2, <5>2, <5>3
      <4> QED
        BY <2>5, <3>2, <4>1, <4>2
    <3>3. ArticlesUpTo(t, Q, p)
      BY <2>3, <2>4, <3>1, <3>2 DEF ArticlesUpTo
    <3>4. f[p] = Q
      BY <2>2, <2>9
    <3> QED
      BY <2>1, <3>3, <3>4 DEF p
  <2> QED
    BY <2>8, <2>9
<1>5. \A k \in 0 .. N : k \in S
  <2> HIDE DEF S, N
  <2> QED
    BY <1>1, <1>3, <1>4, CountingUp
<1>6. N \in S
  <2>1. N \in 0 .. N
    BY <1>1
  <2> HIDE DEF S, N
  <2> QED
    BY <1>5, <2>1
<1> QED
  BY <1>2, <1>6

(* A section heading is where FindSections found one.                      *)
SectionsUpTo(t, s, n) ==
  /\ Ascending(s, n)
  /\ \A k \in 1 .. Len(s) : t[s[k]] \in DOMAIN Sections /\ StartsLine(t, s[k])

(* FindSections finds section lines, in the order of the text.             *)
LEMMA SectionsFound ==
  ASSUME NEW t \in Texts
  PROVE  SectionsUpTo(t, FindSections(t), Len(t))
<1> DEFINE N == Len(t)
<1>1. N \in Nat
  BY DEF Texts
<1>2. PICK f \in [0 .. N -> Seq(Nat)] :
           /\ FindSections(t) = f[N]
           /\ f[0] = <<>>
           /\ \A k \in 1 .. N : f[k] = ReadSection(t, f[k - 1], k)
  BY SectionsRead
<1> DEFINE S == {k \in 0 .. N : SectionsUpTo(t, f[k], k)}
<1>3. 0 \in S
  <2>1. Len(<<>>) = 0 /\ 1 .. 0 = {}
    OBVIOUS
  <2>2. SectionsUpTo(t, <<>>, 0)
    BY <2>1, NoPlaces DEF SectionsUpTo
  <2> QED
    BY <1>1, <1>2, <2>2
<1>4. ASSUME NEW k \in 0 .. N - 1, k \in S PROVE k + 1 \in S
  <2> DEFINE Q == f[k]
             r == Append(Q, k + 1)
  <2>1. k \in Nat /\ k + 1 \in 1 .. N /\ k + 1 \in 0 .. N /\ (k + 1) - 1 = k
    BY <1>1
  <2>2. /\ f[k + 1] = Q \/ f[k + 1] = r
        /\ f[k + 1] # Q => t[k + 1] \in DOMAIN Sections /\ StartsLine(t, k + 1)
    <3>1. f[k + 1] = ReadSection(t, Q, k + 1)
      BY <1>2, <2>1
    <3> HIDE DEF Q
    <3> QED
      BY <3>1 DEF ReadSection
  <2>3. /\ Ascending(Q, k)
        /\ \A j \in 1 .. Len(Q) : t[Q[j]] \in DOMAIN Sections /\ StartsLine(t, Q[j])
    BY <1>4 DEF SectionsUpTo
  <2>4. /\ Ascending(Q, k + 1) /\ Ascending(r, k + 1) /\ Len(r) = Len(Q) + 1 /\ Len(Q) \in Nat
        /\ \A j \in 1 .. Len(Q) : r[j] = Q[j]
        /\ r[Len(Q) + 1] = k + 1
    <3> HIDE DEF Q
    <3> QED
      BY <2>1, <2>3, OnePlaceMore
  <2> HIDE DEF Q, r
  <2>5. CASE f[k + 1] = Q
    <3>1. SectionsUpTo(t, Q, k + 1)
      BY <2>3, <2>4 DEF SectionsUpTo
    <3> QED
      BY <2>1, <2>5, <3>1
  <2>6. CASE f[k + 1] = r /\ f[k + 1] # Q
    <3>1. \A j \in 1 .. Len(r) : j \in 1 .. Len(Q) \/ j = Len(Q) + 1
      BY <2>4
    <3>2. SectionsUpTo(t, r, k + 1)
      BY <2>2, <2>3, <2>4, <2>6, <3>1 DEF SectionsUpTo
    <3> QED
      BY <2>1, <2>6, <3>2
  <2> QED
    BY <2>2, <2>5, <2>6
<1>5. \A k \in 0 .. N : k \in S
  <2> HIDE DEF S, N
  <2> QED
    BY <1>1, <1>3, <1>4, CountingUp
<1>6. N \in S
  <2>1. N \in 0 .. N
    BY <1>1
  <2> HIDE DEF S, N
  <2> QED
    BY <1>5, <2>1
<1> QED
  BY <1>2, <1>6

(* The headings of a text: those articles if it has any, else sections.    *)
LEMMA HeadingsAre ==
  ASSUME NEW t \in Texts
  PROVE  LET all == Headings(t)
         IN  /\ Ascending(all, Len(t))
             /\ \A k \in 1 .. Len(all) :
                  /\ StartsLine(t, all[k])
                  /\ t[all[k]] \notin White /\ t[all[k]] \notin DOMAIN Clauses
             /\ IF RecordArticles(t) = {}
                THEN \A k \in 1 .. Len(all) : t[all[k]] \notin DOMAIN Articles
                ELSE /\ all # <<>>
                     /\ \A k \in 1 .. Len(all) : all[k] \in RecordArticles(t)
                     /\ \A x \in RecordArticles(t) : \E k \in 1 .. Len(all) : all[k] = x
<1> DEFINE articles == FindArticles(t)
           sections == FindSections(t)
<1>1. /\ Ascending(articles, Len(t))
      /\ \A k \in 1 .. Len(articles) : articles[k] \in RecordArticles(t)
      /\ \A x \in RecordArticles(t) : x <= Len(t) => \E k \in 1 .. Len(articles) : articles[k] = x
  BY ArticlesFound DEF ArticlesUpTo
<1>2. /\ Ascending(sections, Len(t))
      /\ \A k \in 1 .. Len(sections) :
           t[sections[k]] \in DOMAIN Sections /\ StartsLine(t, sections[k])
  BY SectionsFound DEF SectionsUpTo
<1>3. Headings(t) = IF articles # <<>> THEN articles ELSE sections
  BY DEF Headings
<1> HIDE DEF articles, sections
<1>4. \A i \in RecordArticles(t) : /\ i \in 1 .. Len(t) /\ i <= Len(t) /\ StartsLine(t, i)
                                 /\ t[i] \in DOMAIN Articles
  <2>1. Len(t) \in Nat
    BY DEF Texts
  <2> QED
    BY <2>1, RecordArticlesAre
<1>5. /\ \A s \in DOMAIN Articles : s \notin White /\ s \notin DOMAIN Clauses
      /\ \A s \in DOMAIN Sections : /\ s \notin White /\ s \notin DOMAIN Clauses
                                    /\ s \notin DOMAIN Articles
  BY TextAssumption
<1>6. CASE articles # <<>>
  <2>1. RecordArticles(t) # {}
    <3>1. 1 \in 1 .. Len(articles)
      <4>1. Len(articles) \in Nat /\ Len(articles) >= 1
        BY <1>1, <1>6 DEF Ascending
      <4> QED
        BY <4>1
    <3> QED
      BY <1>1, <3>1
  <2> QED
    BY <1>1, <1>3, <1>4, <1>5, <1>6, <2>1, Zenon
<1>7. CASE articles = <<>>
  <2>1. RecordArticles(t) = {}
    <3>1. 1 .. Len(articles) = {}
      BY <1>7
    <3> QED
      BY <1>1, <1>4, <3>1
  <2> QED
    BY <1>2, <1>3, <1>5, <1>7, <2>1, Zenon
<1> QED
  BY <1>6, <1>7

(* A line numbered n.                                                      *)
Numbered(t, i, n) == StartsLine(t, i) /\ t[i] \in DOMAIN Clauses /\ Clauses[t[i]] = n

(* The clause lines found from one place to another: 1, 2, 3, and the next *)
(* number that comes is not passed over.                                   *)
ClausesUpTo(t, s, from, n) ==
  /\ Ascending(s, n)
  /\ \A k \in 1 .. Len(s) : s[k] >= from /\ Numbered(t, s[k], k)
  /\ \A k \in 0 .. Len(s) : \A x \in from .. n :
       (k > 0 => s[k] < x) /\ Numbered(t, x, k + 1) => k < Len(s) /\ s[k + 1] <= x

(* ClausesInOrder finds clause lines numbered 1, 2, 3.                     *)
LEMMA ClausesFound ==
  ASSUME NEW t \in Texts, NEW from \in 1 .. Len(t) + 1, NEW to \in 1 .. Len(t) + 1
  PROVE  ClausesUpTo(t, ClausesInOrder(t, from, to), from, to - 1)
<1> DEFINE N == to - 1
<1>1. N \in Nat /\ from \in Nat /\ from >= 1 /\ Len(t) \in Nat
  BY DEF Texts
<1>2. PICK f \in [0 .. N -> Seq(Nat)] :
           /\ ClausesInOrder(t, from, to) = f[N]
           /\ f[0] = <<>>
           /\ \A k \in 1 .. N : f[k] = ReadClause(t, from, f[k - 1], k)
  BY <1>1, ClausesRead
<1> DEFINE S == {k \in 0 .. N : ClausesUpTo(t, f[k], from, k)}
<1>3. 0 \in S
  <2>1. Len(<<>>) = 0 /\ 1 .. 0 = {}
    OBVIOUS
  <2>2. from .. 0 = {}
    BY <1>1
  <2>3. ClausesUpTo(t, <<>>, from, 0)
    BY <2>1, <2>2, NoPlaces DEF ClausesUpTo
  <2> QED
    BY <1>1, <1>2, <2>3
<1>4. ASSUME NEW i \in 0 .. N - 1, i \in S PROVE i + 1 \in S
  <2> DEFINE Q == f[i]
             p == i + 1
             r == Append(Q, p)
             m == Len(Q)
             fits == p >= from /\ Numbered(t, p, m + 1)
  <2>1. i \in Nat /\ p \in 1 .. N /\ p \in 0 .. N /\ p - 1 = i
    BY <1>1
  <2>2. f[p] = IF fits THEN r ELSE Q
    <3>1. f[p] = ReadClause(t, from, Q, p)
      BY <1>2, <2>1
    <3> HIDE DEF Q, p
    <3> QED
      BY <3>1 DEF ReadClause, Numbered
  <2>3. /\ Ascending(Q, i)
        /\ \A k \in 1 .. m : Q[k] >= from /\ Numbered(t, Q[k], k)
        /\ \A k \in 0 .. m : \A x \in from .. i :
             (k > 0 => Q[k] < x) /\ Numbered(t, x, k + 1) => k < m /\ Q[k + 1] <= x
    BY <1>4 DEF ClausesUpTo
  <2>4. /\ Ascending(Q, p) /\ Ascending(r, p) /\ Len(r) = m + 1 /\ m \in Nat
        /\ \A j \in 1 .. m : r[j] = Q[j]
        /\ r[m + 1] = p
    <3> HIDE DEF Q
    <3> QED
      BY <2>1, <2>3, OnePlaceMore
  <2>5. \A k \in 1 .. m : Q[k] \in 1 .. i
    BY <2>3 DEF Ascending
  <2>6. \A x \in from .. p : x \in from .. i \/ x = p
    BY <1>1, <2>1
  <2> HIDE DEF Q, r, p, m
  <2>7. CASE fits
    <3>1. \A k \in 1 .. m + 1 : k \in 1 .. m \/ k = m + 1
      BY <2>4
    <3>2. \A k \in 1 .. m + 1 : r[k] >= from /\ Numbered(t, r[k], k)
      BY <2>3, <2>4, <2>7, <3>1
    <3>3. ASSUME NEW k \in 0 .. m + 1, NEW x \in from .. p,
                 k > 0 => r[k] < x, Numbered(t, x, k + 1)
          PROVE  k < m + 1 /\ r[k + 1] <= x
      <4>1. CASE k = m + 1
        <5>1. r[k] = p /\ k > 0
          BY <2>4, <4>1
        <5> QED
          BY <1>1, <2>1, <3>3, <5>1
      <4>2. CASE k \in 0 .. m
        <5>1. k + 1 \in 1 .. m + 1 /\ k < m + 1
          BY <2>4, <4>2
        <5>2. CASE x = p
          <6>1. k + 1 = m + 1 \/ k + 1 \in 1 .. m
            BY <2>4, <5>1
          <6>2. k + 1 \in 1 .. m => r[k + 1] \in 1 .. i
            BY <2>4, <2>5
          <6>3. r[k + 1] <= p
            <7>1. p \in Nat /\ i <= p
              BY <2>1 DEF p
            <7> QED
              BY <2>1, <2>4, <6>1, <6>2, <7>1
          <6> QED
            BY <5>1, <5>2, <6>3
        <5>3. CASE x \in from .. i
          <6>1. k > 0 => Q[k] < x
            <7>1. k > 0 => k \in 1 .. m
              BY <2>4, <4>2
            <7> QED
              BY <2>4, <3>3, <7>1
          <6>2. k < m /\ Q[k + 1] <= x
            BY <2>3, <3>3, <4>2, <5>3, <6>1
          <6>3. k + 1 \in 1 .. m
            BY <2>4, <4>2, <6>2
          <6> QED
            BY <2>4, <5>1, <6>2, <6>3
        <5> QED
          BY <2>6, <5>2, <5>3
      <4> QED
        BY <2>4, <4>1, <4>2
    <3>4. ClausesUpTo(t, r, from, p)
      BY <2>4, <3>2, <3>3 DEF ClausesUpTo
    <3>5. f[p] = r
      BY <2>2, <2>7
    <3> QED
      BY <2>1, <3>4, <3>5 DEF p
  <2>8. CASE ~fits
    <3>1. ASSUME NEW k \in 0 .. m, NEW x \in from .. p,
                 k > 0 => Q[k] < x, Numbered(t, x, k + 1)
          PROVE  k < m /\ Q[k + 1] <= x
      <4>1. CASE x \in from .. i
        BY <2>3, <3>1, <4>1
      <4>2. CASE x = p
        <5>1. p >= from
          BY <1>1, <2>1, <3>1, <4>2
        <5>2. k # m
          BY <2>8, <3>1, <4>2, <5>1
        <5>3. k < m /\ k + 1 \in 1 .. m
          BY <2>4, <5>2
        <5>4. Q[k + 1] \in 1 .. i
          BY <2>5, <5>3
        <5> QED
          BY <2>1, <4>2, <5>3, <5>4 DEF p
      <4> QED
        BY <2>6, <4>1, <4>2
    <3>2. ClausesUpTo(t, Q, from, p)
      BY <2>3, <2>4, <3>1 DEF ClausesUpTo, m
    <3>3. f[p] = Q
      BY <2>2, <2>8
    <3> QED
      BY <2>1, <3>2, <3>3 DEF p
  <2> QED
    BY <2>7, <2>8
<1>5. \A k \in 0 .. N : k \in S
  <2> HIDE DEF S, N
  <2> QED
    BY <1>1, <1>3, <1>4, CountingUp
<1>6. N \in S
  <2>1. N \in 0 .. N
    BY <1>1
  <2> HIDE DEF S, N
  <2> QED
    BY <1>5, <2>1
<1> QED
  BY <1>2, <1>6

-----------------------------------------------------------------------------
(* What is before a place, and where the appendix starts.                  *)

(* The places before i are the first ones.                                 *)
LEMMA BeforeIs ==
  ASSUME NEW n \in Nat, NEW s, Ascending(s, n), NEW i \in Nat
  PROVE  \E m \in 0 .. Len(s) :
            /\ \A k \in 1 .. Len(s) : s[k] < i <=> k <= m
            /\ Before(s, i) = SubSeq(s, 1, m) /\ From(s, i) = SubSeq(s, m + 1, Len(s))
            /\ Len(Before(s, i)) = m /\ \A k \in 1 .. m : Before(s, i)[k] = s[k]
            /\ Len(From(s, i)) = Len(s) - m
            /\ \A k \in 1 .. Len(s) - m : From(s, i)[k] = s[m + k]
            /\ Ascending(Before(s, i), n)
<1> DEFINE N == Len(s)
           K == {k \in 1 .. N : s[k] < i}
           m == Cardinality(K)
<1>1. /\ N \in Nat /\ s \in Seq(Nat) /\ DOMAIN s = 1 .. N
      /\ \A k \in 1 .. N : s[k] \in 1 .. n /\ s[k] \in Nat
      /\ \A j, k \in 1 .. N : j < k => s[j] < s[k]
  BY DEF Ascending
<1>2. \E M \in 0 .. N : K = 1 .. M
  <2>1. CASE K = {}
    <3>1. K = 1 .. 0 /\ 0 \in 0 .. N
      BY <1>1, <2>1
    <3> HIDE DEF K, N
    <3> QED
      BY <3>1
  <2>2. CASE K # {}
    <3>1. K \in SUBSET (1 .. N)
      OBVIOUS
    <3>2. Max(K) \in K /\ \A k \in K : k <= Max(K)
      <4> HIDE DEF K, N
      <4> QED
        BY <1>1, <2>2, <3>1, LastPlace
    <3> DEFINE M == Max(K)
    <3>3. M \in K /\ \A k \in K : k <= M
      BY <3>2
    <3> HIDE DEF M
    <3>4. M \in 1 .. N /\ s[M] < i
      BY <3>3
    <3>5. ASSUME NEW k \in 1 .. M PROVE k \in K
      <4>1. k \in 1 .. N /\ (k = M \/ k < M)
        BY <1>1, <3>4
      <4>2. s[k] = s[M] \/ s[k] < s[M]
        BY <1>1, <3>4, <4>1
      <4>3. s[k] < i
        BY <1>1, <3>4, <4>1, <4>2
      <4> QED
        BY <4>1, <4>3
    <3>6. K = 1 .. M
      BY <1>1, <3>3, <3>4, <3>5
    <3> HIDE DEF K, N
    <3> QED
      BY <3>4, <3>6
  <2> QED
    BY <2>1, <2>2
<1>3. PICK M \in 0 .. N : K = 1 .. M
  BY <1>2
<1>4. Cardinality(1 .. M) = M
  <2>1. M \in Nat
    BY <1>1
  <2>2. Cardinality(1 .. M) = IF 1 > M THEN 0 ELSE M - 1 + 1
    BY <2>1, FS_Interval
  <2> QED
    BY <2>1, <2>2
<1>5. Cardinality({k \in DOMAIN s : s[k] < i}) = M
  BY <1>1, <1>3, <1>4
<1>6. Before(s, i) = SubSeq(s, 1, M)
  BY <1>5 DEF Before
<1>7. /\ SubSeq(s, 1, M) \in Seq(Nat) /\ Len(SubSeq(s, 1, M)) = M
      /\ \A k \in 1 .. M : SubSeq(s, 1, M)[k] = s[k]
  BY <1>1, <1>3
<1>8. From(s, i) = SubSeq(s, M + 1, N)
  BY <1>6, <1>7 DEF From
<1>9. /\ Len(SubSeq(s, M + 1, N)) = N - M
      /\ \A k \in 1 .. N - M : SubSeq(s, M + 1, N)[k] = s[M + k]
  <2>1. M + 1 \in 1 .. N + 1 /\ N \in M .. N /\ N \in Nat /\ M \in Nat /\ (M + 1) - 1 = M
    BY <1>1, <1>3
  <2> HIDE DEF N
  <2> DEFINE tail == SubSeq(s, M + 1, N)
  <2>2. Len(tail) = IF M + 1 <= N THEN N - (M + 1) + 1 ELSE 0
    BY <1>1, <2>1, SubSeqProperties DEF N
  <2>3. \A k \in 1 .. N - (M + 1) + 1 : tail[k] = s[(M + 1) + k - 1]
    BY <1>1, <2>1, SubSeqProperties DEF N
  <2>4. \A k \in 1 .. N - M : k \in 1 .. N - (M + 1) + 1 /\ (M + 1) + k - 1 = M + k
    BY <2>1
  <2>5. Len(tail) = N - M
    BY <2>1, <2>2
  <2> QED
    BY <2>3, <2>4, <2>5
<1>10. \A k \in 1 .. N : s[k] < i <=> k <= M
  <2>1. \A k \in 1 .. N : s[k] < i <=> k \in 1 .. M
    BY <1>3
  <2> QED
    BY <1>1, <2>1
<1> DEFINE b == Before(s, i)
<1>11. b \in Seq(Nat) /\ Len(b) = M /\ \A k \in 1 .. M : b[k] = s[k] /\ k \in 1 .. N
  BY <1>1, <1>6, <1>7
<1> HIDE DEF b
<1>12. Ascending(b, n)
  BY <1>1, <1>11 DEF Ascending
<1> QED
  BY <1>3, <1>6, <1>7, <1>8, <1>9, <1>10, <1>12 DEF b

(* A line that starts with more than white space has an end.               *)
LEMMA LineEndIs ==
  ASSUME NEW t \in Texts, NEW i \in 1 .. Len(t), t[i] \notin White
  PROVE  LET end == LineEnd(t, i)
         IN  /\ end \in i + 1 .. Len(t) + 1
             /\ \A j \in i .. end - 1 : t[j] # "/"
             /\ end <= Len(t) => t[end] = "/"
             /\ \A j \in i + 1 .. end : ~StartsLine(t, j)
<1> DEFINE S == {j \in i .. Len(t) : t[j] = "/"} \cup {Len(t) + 1}
           end == Min(S)
<1>1. Len(t) \in Nat /\ Len(t) + 1 \in Nat /\ t[i] # "/"
  <2>1. Len(t) \in Nat
    BY DEF Texts
  <2>2. t[i] # "/"
    BY DEF White
  <2> QED
    BY <2>1, <2>2
<1>2. S \in SUBSET (1 .. Len(t) + 1) /\ S # {}
  BY <1>1
<1>3. end \in S /\ \A k \in S : end <= k
  <2> HIDE DEF S
  <2> QED
    BY <1>1, <1>2, LeastOfAll
<1> HIDE DEF end
<1>4. end \in i + 1 .. Len(t) + 1 /\ (end <= Len(t) => t[end] = "/")
  BY <1>1, <1>3
<1>5. ASSUME NEW j \in i .. end - 1 PROVE t[j] # "/"
  <2>1. j \in i .. Len(t) /\ ~(end <= j)
    BY <1>1, <1>4
  <2> QED
    BY <1>3, <2>1
<1>6. ASSUME NEW j \in i + 1 .. end PROVE ~StartsLine(t, j)
  <2>1. j - 1 \in i .. end - 1 /\ j # 1
    BY <1>1, <1>4
  <2> QED
    BY <1>5, <2>1 DEF StartsLine
<1>7. LineEnd(t, i) = end
  BY DEF LineEnd, end
<1> QED
  BY <1>4, <1>5, <1>6, <1>7

(* The appendix starts at the first line that ends a text with articles.   *)
LEMMA AppendixIs ==
  ASSUME NEW t \in Texts
  PROVE  LET all == Headings(t)
             e == AppendixStart(t, all)
             ends(i) == i \in LineStarts(t) /\ i >= LineEnd(t, Head(all)) /\ EndsText(t, all, i)
         IN  /\ e # 0 => RecordArticles(t) # {} /\ e \in 1 .. Len(t) /\ ends(e)
             /\ e \in 0 .. Len(t)
             /\ \A i : RecordArticles(t) # {} /\ ends(i) => e # 0 /\ e <= i
<1> DEFINE all == Headings(t)
           e == AppendixStart(t, all)
           ends(i) == i \in LineStarts(t) /\ i >= LineEnd(t, Head(all)) /\ EndsText(t, all, i)
           found == {i \in LineStarts(t) : i >= LineEnd(t, Head(all)) /\ EndsText(t, all, i)}
<1>1. Len(t) \in Nat /\ LineStarts(t) \in SUBSET (1 .. Len(t))
  BY DEF Texts, LineStarts
<1>2. e = IF all = <<>> \/ t[Head(all)] \notin DOMAIN Articles \/ found = {} THEN 0 ELSE Min(found)
  BY DEF AppendixStart
<1>3. found # {} => Min(found) \in found /\ \A i \in found : Min(found) <= i
  <2>1. found \in SUBSET (1 .. Len(t))
    BY <1>1
  <2> HIDE DEF found
  <2> QED
    BY <1>1, <2>1, LeastOfAll
<1>4. RecordArticles(t) # {} <=> all # <<>> /\ t[Head(all)] \in DOMAIN Articles
  <2>1. Ascending(all, Len(t))
    BY HeadingsAre
  <2>2. IF RecordArticles(t) = {}
        THEN \A k \in 1 .. Len(all) : t[all[k]] \notin DOMAIN Articles
        ELSE all # <<>> /\ \A k \in 1 .. Len(all) : all[k] \in RecordArticles(t)
    BY HeadingsAre
  <2> HIDE DEF all
  <2>3. all # <<>> => Head(all) = all[1] /\ 1 \in 1 .. Len(all)
    <3>1. all # <<>> => Len(all) \in Nat /\ Len(all) >= 1 /\ Head(all) = all[1]
      BY <1>1, <2>1, LastOfPlaces
    <3> QED
      BY <3>1
  <2>4. \A x \in RecordArticles(t) : t[x] \in DOMAIN Articles
    BY RecordArticlesAre
  <2> QED
    BY <2>2, <2>3, <2>4
<1> HIDE DEF all
<1>5. \A i : i \in found <=> ends(i)
  OBVIOUS
<1> HIDE DEF found, ends, e
<1>6. \A i \in found : i \in 1 .. Len(t)
  BY <1>1 DEF found
<1>7. e # 0 => RecordArticles(t) # {} /\ e \in 1 .. Len(t) /\ ends(e)
  BY <1>2, <1>3, <1>4, <1>5, <1>6
<1>8. e \in 0 .. Len(t)
  <2>1. e = 0 \/ e \in 1 .. Len(t)
    BY <1>7
  <2> QED
    BY <1>1, <2>1
<1>9. \A i : RecordArticles(t) # {} /\ ends(i) => e # 0 /\ e <= i
  <2> SUFFICES ASSUME NEW i, RecordArticles(t) # {}, ends(i) PROVE e # 0 /\ e <= i
    OBVIOUS
  <2>1. i \in found /\ found # {}
    BY <1>5
  <2>2. e = Min(found)
    BY <1>2, <1>4, <2>1
  <2>3. e \in 1 .. Len(t) /\ e <= i
    BY <1>3, <1>6, <2>1, <2>2
  <2> QED
    BY <1>1, <2>3
<1> QED
  BY <1>7, <1>8, <1>9 DEF all, e, ends

-----------------------------------------------------------------------------
(* The parts of a text.                                                    *)

(* Records that Part makes.                                                *)
Parts == [from : Nat, to : Nat, heading : Nat, clause : Nat]

(* The fields of a part.                                                   *)
LEMMA PartIs ==
  ASSUME NEW from \in Nat, NEW to \in Nat, NEW heading \in Nat, NEW clause \in Nat
  PROVE  LET p == Part(from, to, heading, clause)
         IN  /\ p \in Parts /\ p.from = from /\ p.to = to
             /\ p.heading = heading /\ p.clause = clause
  BY DEF Part, Parts

(* A part of an article under a number: the number, or the article's       *)
(* heading for the first, opens it, and in it the next does not follow it. *)
ClauseOpens(t, p, h) == (p.clause = 1 /\ p.from = h) \/ Numbered(t, p.from, p.clause)
ClauseHolds(t, p, h) ==
  \A x \in p.from .. p.to - 1 : \A b \in h .. x - 1 :
    ~(Numbered(t, b, p.clause) /\ Numbered(t, x, p.clause + 1))

(* The segments of an article lie side by side, in the order of clauses.   *)
AreSegments(t, segs, h, to) ==
  /\ segs \in Seq(Parts) /\ Len(segs) >= 1 /\ segs[1].from = h /\ segs[Len(segs)].to = to
  /\ \A k \in 1 .. Len(segs) :
       /\ segs[k].heading = h
       /\ h <= segs[k].from /\ segs[k].from < segs[k].to /\ segs[k].to <= to
       /\ t[segs[k].from] \notin White
       /\ segs[k].clause > 0 => ClauseOpens(t, segs[k], h) /\ ClauseHolds(t, segs[k], h)
       /\ segs[k].clause > 0 =>
            \/ segs[k].clause = 1 /\ segs[k].from = h
            \/ k > 1 /\ segs[k - 1].clause = segs[k].clause - 1
  /\ \A k \in 1 .. Len(segs) - 1 : segs[k].to = segs[k + 1].from
  /\ \A j, k \in 1 .. Len(segs) :
       j < k => segs[j].to <= segs[k].from /\ segs[j].clause < segs[k].clause

(* The parts that start at a number.                                       *)
LEMMA ClausePartsAre ==
  ASSUME NEW t \in Texts, NEW h \in 1 .. Len(t), NEW to \in h + 1 .. Len(t) + 1,
         t[h] \notin White, t[h] \notin DOMAIN Clauses,
         NEW s, ClausesUpTo(t, s, LineEnd(t, h), to - 1), Len(s) >= 1, NEW apart \in BOOLEAN
  PROVE  LET from(k) == IF k = 1 /\ ~apart THEN h ELSE s[k]
             end(k) == IF k < Len(s) THEN s[k + 1] ELSE to
         IN  \A k \in 1 .. Len(s) :
               /\ from(k) \in Nat /\ end(k) \in Nat /\ from(k) \in h .. s[k]
               /\ s[k] < end(k) /\ end(k) <= to /\ s[k] \in h + 1 .. to - 1
               /\ t[from(k)] \notin White
               /\ ClauseOpens(t, Part(from(k), end(k), h, k), h)
               /\ ClauseHolds(t, Part(from(k), end(k), h, k), h)
<1> DEFINE from(k) == IF k = 1 /\ ~apart THEN h ELSE s[k]
           end(k) == IF k < Len(s) THEN s[k + 1] ELSE to
           L == LineEnd(t, h)
           n == Len(s)
<1>1. Len(t) \in Nat /\ h \in Nat /\ to \in Nat
  BY DEF Texts
<1>2. L \in h + 1 .. Len(t) + 1 /\ \A j \in h + 1 .. L : ~StartsLine(t, j)
  BY LineEndIs
<1> HIDE DEF L
<1>3. /\ s \in Seq(Nat) /\ n \in Nat /\ \A k \in 1 .. n : s[k] \in 1 .. to - 1
      /\ \A j, k \in 1 .. n : j < k => s[j] < s[k]
      /\ \A k \in 1 .. n : s[k] >= L /\ Numbered(t, s[k], k)
  <2>1. ClausesUpTo(t, s, L, to - 1)
    BY DEF L
  <2>2. Ascending(s, to - 1) /\ \A k \in 1 .. n : s[k] >= L /\ Numbered(t, s[k], k)
    BY <2>1 DEF ClausesUpTo
  <2>3. s \in Seq(Nat) /\ \A k \in 1 .. n : s[k] \in 1 .. to - 1
    BY <2>2 DEF Ascending
  <2>4. \A j, k \in 1 .. n : j < k => s[j] < s[k]
    BY <2>2 DEF Ascending
  <2>5. n \in Nat
    BY <2>3
  <2> QED
    BY <2>2, <2>3, <2>4, <2>5
<1>4. \A k \in 0 .. n : \A x \in L .. to - 1 :
        (k > 0 => s[k] < x) /\ Numbered(t, x, k + 1) => k < n /\ s[k + 1] <= x
  BY DEF ClausesUpTo, L
<1>5. \A x, c : Numbered(t, x, c) => StartsLine(t, x) /\ t[x] \in DOMAIN Clauses
                                   /\ Clauses[t[x]] = c
  BY DEF Numbered
<1> SUFFICES ASSUME NEW k \in 1 .. n
             PROVE  /\ from(k) \in Nat /\ end(k) \in Nat /\ from(k) \in h .. s[k]
                    /\ s[k] < end(k) /\ end(k) <= to /\ s[k] \in h + 1 .. to - 1
                    /\ t[from(k)] \notin White
                    /\ ClauseOpens(t, Part(from(k), end(k), h, k), h)
                    /\ ClauseHolds(t, Part(from(k), end(k), h, k), h)
  BY DEF n
<1>6. s[k] \in h + 1 .. to - 1 /\ s[k] \in Nat /\ k \in Nat
  BY <1>1, <1>2, <1>3
<1>7. from(k) \in h .. s[k] /\ from(k) \in Nat
  BY <1>1, <1>6
<1>8. s[k] < end(k) /\ end(k) <= to /\ end(k) \in Nat
  <2>1. CASE k < n
    <3>1. k + 1 \in 1 .. n /\ k < k + 1
      BY <1>3, <2>1
    <3>2. s[k] < s[k + 1] /\ s[k + 1] \in 1 .. to - 1
      BY <1>3, <3>1
    <3> QED
      BY <1>1, <2>1, <3>2
  <2>2. CASE ~(k < n)
    BY <1>1, <1>6, <2>2
  <2> QED
    BY <2>1, <2>2
<1>9. t[s[k]] \notin White
  BY <1>3, <1>5, TextAssumption
<1> DEFINE p == Part(from(k), end(k), h, k)
<1>10. p.from = from(k) /\ p.to = end(k) /\ p.clause = k
  BY DEF Part
<1>11. ClauseOpens(t, p, h)
  BY <1>3, <1>10 DEF ClauseOpens
<1>12. ClauseHolds(t, p, h)
  <2> SUFFICES ASSUME NEW x \in from(k) .. end(k) - 1, NEW b \in h .. x - 1,
                      Numbered(t, b, k), Numbered(t, x, k + 1)
               PROVE  FALSE
    BY <1>10 DEF ClauseHolds
  <2>1. b \in L .. x /\ x \in L .. to - 1 /\ b < x
    <3>1. b # h
      BY <1>5
    <3>2. b \notin h + 1 .. L
      BY <1>2, <1>5
    <3> HIDE DEF from, end
    <3> QED
      BY SMTT(40), <1>1, <1>2, <1>7, <1>8, <3>1, <3>2
  <2>2. s[k] < x
    <3>1. CASE k = 1 /\ ~apart
      <4>1. 0 \in 0 .. n /\ 0 + 1 = k /\ ~(0 > 0) /\ b \in L .. to - 1
        BY <1>1, <1>2, <1>3, <2>1, <3>1
      <4>2. s[1] <= b
        BY <1>4, <3>1, <4>1
      <4> QED
        BY <1>1, <1>2, <1>6, <2>1, <3>1, <4>2
    <3>2. CASE ~(k = 1 /\ ~apart)
      <4>1. from(k) = s[k]
        BY <3>2
      <4>2. x # s[k]
        <5>1. Clauses[t[x]] = k + 1 /\ Clauses[t[s[k]]] = k
          BY <1>3, <1>5
        <5> QED
          BY <1>6, <5>1
      <4> HIDE DEF from, end
      <4> QED
        BY SMTT(40), <1>6, <1>8, <4>1, <4>2
    <3> QED
      BY <3>1, <3>2
  <2>3. k \in 0 .. n
    BY <1>3
  <2>4. k < n /\ s[k + 1] <= x
    BY <1>4, <2>1, <2>2, <2>3
  <2>5. end(k) = s[k + 1]
    BY <2>4
  <2> HIDE DEF from, end
  <2> QED
    BY <1>7, <1>8, <2>4, <2>5
<1> HIDE DEF p
<1>13. t[from(k)] \notin White
  BY <1>9
<1> QED
  BY <1>6, <1>7, <1>8, <1>11, <1>12, <1>13 DEF p

(* An article in one piece.                                                *)
LEMMA OneSegment ==
  ASSUME NEW t \in Texts, NEW h \in 1 .. Len(t), NEW to \in h + 1 .. Len(t) + 1, t[h] \notin White
  PROVE  AreSegments(t, << Part(h, to, h, 0) >>, h, to)
<1> DEFINE p == Part(h, to, h, 0)
           one == << p >>
<1>1. h \in Nat /\ to \in Nat /\ h < to
  BY DEF Texts
<1>2. p \in Parts /\ p.from = h /\ p.to = to /\ p.heading = h /\ p.clause = 0
  <2>1. 0 \in Nat
    OBVIOUS
  <2> QED
    BY <1>1, <2>1 DEF Part, Parts
<1> HIDE DEF p
<1>3. one \in Seq(Parts) /\ Len(one) = 1 /\ one[1] = p
  BY <1>2
<1>4. 1 .. 1 = {1} /\ 1 .. 1 - 1 = {} /\ 1 \in 1 .. 1 /\ ~(0 > 0) /\ ~(1 < 1)
  OBVIOUS
<1> HIDE DEF one
<1>5. \A k \in 1 .. Len(one) :
       /\ one[k].heading = h
       /\ h <= one[k].from /\ one[k].from < one[k].to /\ one[k].to <= to
       /\ t[one[k].from] \notin White /\ one[k].clause = 0
  BY <1>1, <1>2, <1>3, <1>4
<1>6. Len(one) >= 1 /\ one[1].from = h /\ one[Len(one)].to = to
  BY <1>2, <1>3
<1>7. \A k \in 1 .. Len(one) - 1 : one[k].to = one[k + 1].from
  BY <1>3, <1>4
<1>8. \A j, k \in 1 .. Len(one) : ~(j < k)
  BY <1>3, <1>4
<1>9. \A k \in 1 .. Len(one) : ~(one[k].clause > 0)
  BY <1>4, <1>5
<1>10. AreSegments(t, one, h, to)
  BY <1>3, <1>5, <1>6, <1>7, <1>8, <1>9 DEF AreSegments
<1> QED
  BY <1>10 DEF one, p

(* The segments of an article lie side by side.                            *)
LEMMA SegmentsAre ==
  ASSUME NEW t \in Texts, NEW h \in 1 .. Len(t), NEW to \in h + 1 .. Len(t) + 1,
         t[h] \notin White, t[h] \notin DOMAIN Clauses
  PROVE  AreSegments(t, ArticleSegments(t, h, to), h, to)
<1> DEFINE L == LineEnd(t, h)
           s == ClausesInOrder(t, L, to)
           starts == ClauseStarts(t, L, to)
           n == Len(s)
<1>1. Len(t) \in Nat /\ h \in Nat /\ to \in Nat
  BY DEF Texts
<1>2. L \in 1 .. Len(t) + 1
  BY LineEndIs, <1>1
<1>3. ClausesUpTo(t, s, L, to - 1)
  <2>1. to \in 1 .. Len(t) + 1
    BY <1>1
  <2> QED
    BY <1>2, <2>1, ClausesFound
<1>4. s \in Seq(Nat) /\ n \in Nat /\ \A k \in 1 .. n : s[k] \in Nat
  BY <1>3 DEF ClausesUpTo, Ascending
<1>5. starts = IF n = 1 THEN <<>> ELSE s
  BY DEF ClauseStarts
<1> DEFINE apart == starts[1] - h > MaxIntro
           from(k) == IF k = 1 /\ ~apart THEN h ELSE starts[k]
           end(k) == IF k < Len(starts) THEN starts[k + 1] ELSE to
           intro == IF apart THEN << Part(h, starts[1], h, 0) >> ELSE <<>>
           parts == [k \in DOMAIN starts |-> Part(from(k), end(k), h, k)]
<1>6. ArticleSegments(t, h, to) =
        IF to - h <= MaxChunk \/ starts = <<>> THEN << Part(h, to, h, 0) >> ELSE intro \o parts
  BY DEF ArticleSegments
<1>7. CASE to - h <= MaxChunk \/ starts = <<>>
  <2>1. ArticleSegments(t, h, to) = << Part(h, to, h, 0) >>
    <3> HIDE DEF starts, intro, parts
    <3> QED
      BY <1>6, <1>7
  <2> QED
    BY <2>1, OneSegment
<1>8. CASE ~(to - h <= MaxChunk \/ starts = <<>>)
  <2>1. ArticleSegments(t, h, to) = intro \o parts
    <3> HIDE DEF starts, intro, parts
    <3> QED
      BY <1>6, <1>8
  <2>2. starts = s /\ n >= 1 /\ DOMAIN starts = 1 .. n
    <3>1. starts = s /\ s # <<>>
      <4> HIDE DEF s, starts
      <4> QED
        BY <1>5, <1>8
    <3> HIDE DEF s, starts
    <3> QED
      BY <1>4, <3>1
  <2> HIDE DEF L, s, starts
  <2> DEFINE a == apart
             from2(k) == IF k = 1 /\ ~a THEN h ELSE s[k]
             end2(k) == IF k < n THEN s[k + 1] ELSE to
  <2>3. a \in BOOLEAN
    OBVIOUS
  <2> HIDE DEF a
  <2>4. \A k \in 1 .. n :
          /\ from2(k) \in Nat /\ end2(k) \in Nat /\ from2(k) \in h .. s[k]
          /\ s[k] < end2(k) /\ end2(k) <= to /\ s[k] \in h + 1 .. to - 1
          /\ t[from2(k)] \notin White
          /\ ClauseOpens(t, Part(from2(k), end2(k), h, k), h)
          /\ ClauseHolds(t, Part(from2(k), end2(k), h, k), h)
    BY SMTT(40), <1>3, <2>2, <2>3, ClausePartsAre DEF L
  <2>5. parts = [k \in 1 .. n |-> Part(from2(k), end2(k), h, k)]
    BY <2>2 DEF a
  <2> DEFINE c == [k \in 1 .. n |-> Part(from2(k), end2(k), h, k)]
  <2>6. \A k \in 1 .. n :
          /\ c[k] \in Parts /\ c[k].from = from2(k) /\ c[k].to = end2(k)
          /\ c[k].heading = h /\ c[k].clause = k
          /\ c[k] = Part(from2(k), end2(k), h, k)
    <3> SUFFICES ASSUME NEW k \in 1 .. n
                 PROVE  /\ c[k] \in Parts /\ c[k].from = from2(k) /\ c[k].to = end2(k)
                        /\ c[k].heading = h /\ c[k].clause = k
                        /\ c[k] = Part(from2(k), end2(k), h, k)
      OBVIOUS
    <3>1. from2(k) \in Nat /\ end2(k) \in Nat /\ k \in Nat
      BY <1>4, <2>4
    <3>2. c[k] = Part(from2(k), end2(k), h, k)
      OBVIOUS
    <3> HIDE DEF from2, end2, c
    <3> QED
      BY <1>1, <3>1, <3>2 DEF Part, Parts
  <2>7. c \in Seq(Parts) /\ Len(c) = n
    <3>1. c \in [1 .. n -> Parts]
      BY <2>6
    <3> HIDE DEF c
    <3> QED
      BY SMTT(40), <1>4, <3>1
  <2>8. \A k \in 1 .. n :
          /\ c[k].heading = h /\ c[k].clause = k
          /\ h <= c[k].from /\ c[k].from < c[k].to /\ c[k].to <= to /\ c[k].from <= s[k]
          /\ t[c[k].from] \notin White /\ c[k].from \in Nat
          /\ ClauseOpens(t, c[k], h) /\ ClauseHolds(t, c[k], h)
    <3> SUFFICES ASSUME NEW k \in 1 .. n
                 PROVE  /\ c[k].heading = h /\ c[k].clause = k
                        /\ h <= c[k].from /\ c[k].from < c[k].to /\ c[k].to <= to
                        /\ c[k].from <= s[k] /\ t[c[k].from] \notin White /\ c[k].from \in Nat
                        /\ ClauseOpens(t, c[k], h) /\ ClauseHolds(t, c[k], h)
      OBVIOUS
    <3>1. /\ from2(k) \in Nat /\ end2(k) \in Nat /\ from2(k) \in h .. s[k]
          /\ s[k] < end2(k) /\ end2(k) <= to
          /\ t[from2(k)] \notin White
          /\ ClauseOpens(t, Part(from2(k), end2(k), h, k), h)
          /\ ClauseHolds(t, Part(from2(k), end2(k), h, k), h)
      BY <2>4
    <3>2. /\ c[k].from = from2(k) /\ c[k].to = end2(k)
          /\ c[k].heading = h /\ c[k].clause = k
          /\ c[k] = Part(from2(k), end2(k), h, k)
      BY <2>6
    <3>3. s[k] \in Nat
      BY <1>4
    <3> HIDE DEF from2, end2, c
    <3>4. h <= from2(k) /\ from2(k) < end2(k) /\ from2(k) <= s[k]
      BY <3>1, <3>3
    <3> QED
      BY <3>1, <3>2, <3>4
  <2>9. \A k \in 1 .. n - 1 : c[k].to = c[k + 1].from
    <3> SUFFICES ASSUME NEW k \in 1 .. n - 1 PROVE c[k].to = c[k + 1].from
      OBVIOUS
    <3>1. k \in 1 .. n /\ k + 1 \in 1 .. n /\ k < n /\ k + 1 # 1
      BY <1>4
    <3>2. end2(k) = s[k + 1] /\ from2(k + 1) = s[k + 1]
      BY <3>1
    <3> HIDE DEF from2, end2, c
    <3> QED
      BY <2>6, <3>1, <3>2
  <2>10. \A j, k \in 1 .. n : j < k => c[j].to <= c[k].from
    <3> SUFFICES ASSUME NEW j \in 1 .. n, NEW k \in 1 .. n, j < k PROVE c[j].to <= c[k].from
      OBVIOUS
    <3>1. j < n /\ j + 1 \in 1 .. n /\ k # 1 /\ (j + 1 = k \/ j + 1 < k)
      BY SMTT(40), <1>4
    <3>2. end2(j) = s[j + 1] /\ from2(k) = s[k]
      BY <3>1
    <3>3. s[j + 1] <= s[k]
      <4>1. \A i, l \in 1 .. n : i < l => s[i] < s[l]
        BY <1>3 DEF ClausesUpTo, Ascending
      <4> QED
        BY SMTT(40), <1>4, <3>1, <4>1
    <3> HIDE DEF from2, end2, c
    <3> QED
      BY <2>6, <3>2, <3>3
  <2>11. c[n].to = to
    <3>1. n \in 1 .. n /\ ~(n < n)
      BY <1>4, <2>2
    <3>2. end2(n) = to
      BY <3>1
    <3> HIDE DEF from2, end2, c
    <3> QED
      BY <2>6, <3>1, <3>2
  <2>12. \A k \in 1 .. n : c[k].clause = 1 /\ ~a => c[k].from = h
    BY <2>6
  <2>13. a => c[1].from = s[1]
    BY <2>2, <2>6, <1>4
  <2>14. s[1] \in h + 1 .. to - 1
    <3>1. 1 \in 1 .. n
      BY <1>4, <2>2
    <3> QED
      BY <2>4, <3>1
  <2> HIDE DEF c
  <2>15. parts = c
    BY <2>5 DEF c
  <2>16. CASE ~a
    <3>1. intro = <<>>
      BY <2>16 DEF a
    <3> HIDE DEF intro, parts
    <3>2. ArticleSegments(t, h, to) = c
      BY <2>1, <2>7, <2>15, <3>1
    <3>3. \A k \in 1 .. n : \/ c[k].clause = 1 /\ c[k].from = h
                            \/ k > 1 /\ c[k - 1].clause = c[k].clause - 1
      <4> SUFFICES ASSUME NEW k \in 1 .. n, k # 1
                   PROVE  k > 1 /\ c[k - 1].clause = c[k].clause - 1
        BY <2>8, <2>12, <2>16
      <4>1. k > 1 /\ k - 1 \in 1 .. n
        BY <1>4
      <4>2. c[k].clause = k /\ c[k - 1].clause = k - 1
        BY <2>8, <4>1
      <4> QED
        BY <4>1, <4>2
    <3>4. 1 \in 1 .. n /\ c[1].from = h
      <4>1. 1 \in 1 .. n
        BY <1>4, <2>2
      <4> QED
        BY <2>8, <2>12, <2>16, <4>1
    <3>5. \A j, k \in 1 .. n : j < k => c[j].clause < c[k].clause
      BY <2>8
    <3>6. AreSegments(t, c, h, to)
      BY <2>2, <2>7, <2>8, <2>9, <2>10, <2>11, <3>3, <3>4, <3>5 DEF AreSegments
    <3> QED
      BY <3>2, <3>6
  <2>17. CASE a
    <3> DEFINE p == Part(h, s[1], h, 0)
               all == <<p>> \o c
    <3>1. p \in Parts /\ p.from = h /\ p.to = s[1] /\ p.heading = h /\ p.clause = 0
      <4>1. 0 \in Nat /\ s[1] \in Nat
        BY <1>1, <2>14
      <4> QED
        BY <1>1, <4>1 DEF Part, Parts
    <3> HIDE DEF p
    <3>2. ArticleSegments(t, h, to) = all
      <4>1. intro = << Part(h, starts[1], h, 0) >>
        BY <2>17 DEF a
      <4> HIDE DEF intro, parts
      <4> QED
        BY <2>1, <2>2, <2>15, <4>1 DEF p
    <3>3. /\ all \in Seq(Parts) /\ Len(all) = n + 1
          /\ all[1] = p /\ \A k \in 1 .. n : all[k + 1] = c[k]
      <4> HIDE DEF all
      <4> QED
        BY <2>7, <3>1, OneBefore DEF all
    <3> HIDE DEF all
    <3>4. \A k \in 1 .. n + 1 : k = 1 \/ (k - 1 \in 1 .. n /\ all[k] = c[k - 1])
      <4> SUFFICES ASSUME NEW k \in 1 .. n + 1, k # 1 PROVE k - 1 \in 1 .. n /\ all[k] = c[k - 1]
        OBVIOUS
      <4>1. k - 1 \in 1 .. n /\ (k - 1) + 1 = k
        BY <1>4
      <4> QED
        BY <3>3, <4>1
    <3>5. all[1].from = h /\ all[1].to = s[1] /\ all[1].heading = h /\ all[1].clause = 0
      BY <3>1, <3>3
    <3>6. \A k \in 1 .. n + 1 :
            /\ all[k].heading = h
            /\ h <= all[k].from /\ all[k].from < all[k].to /\ all[k].to <= to
            /\ t[all[k].from] \notin White
            /\ all[k].clause = k - 1
      <4> SUFFICES ASSUME NEW k \in 1 .. n + 1
                   PROVE  /\ all[k].heading = h
                          /\ h <= all[k].from /\ all[k].from < all[k].to /\ all[k].to <= to
                          /\ t[all[k].from] \notin White
                          /\ all[k].clause = k - 1
        OBVIOUS
      <4>1. CASE k = 1
        <5>1. h <= h /\ h < s[1] /\ s[1] <= to /\ 0 = 1 - 1
          BY <1>1, <2>14
        <5> QED
          BY <3>5, <4>1, <5>1
      <4>2. CASE k # 1
        <5> DEFINE j == k - 1
        <5>1. j \in 1 .. n /\ all[k] = c[j]
          BY <3>4, <4>2
        <5> HIDE DEF j
        <5>2. /\ c[j].heading = h
              /\ h <= c[j].from /\ c[j].from < c[j].to /\ c[j].to <= to
              /\ t[c[j].from] \notin White
              /\ c[j].clause = j
          BY <2>8, <5>1
        <5> QED
          BY <5>1, <5>2 DEF j
      <4> QED
        BY <4>1, <4>2
    <3>7. \A k \in 1 .. n + 1 : all[k].clause > 0 =>
            /\ ClauseOpens(t, all[k], h) /\ ClauseHolds(t, all[k], h)
            /\ k > 1 /\ all[k - 1].clause = all[k].clause - 1
      <4> SUFFICES ASSUME NEW k \in 1 .. n + 1, all[k].clause > 0
                   PROVE  /\ ClauseOpens(t, all[k], h) /\ ClauseHolds(t, all[k], h)
                          /\ k > 1 /\ all[k - 1].clause = all[k].clause - 1
        OBVIOUS
      <4>1. k > 1 /\ k - 1 \in 1 .. n /\ k - 1 \in 1 .. n + 1 /\ all[k] = c[k - 1]
        BY <1>4, <3>4, <3>5
      <4>2. all[k].clause = k - 1 /\ all[k - 1].clause = k - 2
        BY <3>6, <4>1
      <4> QED
        BY <2>8, <4>1, <4>2
    <3>8. \A k \in 1 .. n : all[k].to = all[k + 1].from
      <4> SUFFICES ASSUME NEW k \in 1 .. n PROVE all[k].to = all[k + 1].from
        OBVIOUS
      <4>1. all[k + 1] = c[k]
        BY <3>3
      <4>2. CASE k = 1
        BY <2>13, <2>17, <3>5, <4>1, <4>2
      <4>3. CASE k # 1
        <5>1. k - 1 \in 1 .. n - 1 /\ (k - 1) + 1 = k /\ k \in 1 .. n + 1
          BY <1>4, <4>3
        <5> QED
          BY <2>9, <3>4, <4>1, <4>3, <5>1
      <4> QED
        BY <4>2, <4>3
    <3>9. \A j, k \in 1 .. n + 1 : j < k => all[j].to <= all[k].from
      <4> SUFFICES ASSUME NEW j \in 1 .. n + 1, NEW k \in 1 .. n + 1, j < k
                   PROVE  all[j].to <= all[k].from
        OBVIOUS
      <4>1. k # 1 /\ k - 1 \in 1 .. n /\ all[k] = c[k - 1]
        BY SMTT(40), <1>4, <3>4
      <4>2. CASE j = 1
        <5>1. 1 \in 1 .. n /\ (k - 1 = 1 \/ 1 < k - 1)
          BY <1>4, <2>2, <4>1
        <5>2. c[1].from <= c[k - 1].from
          <6>1. c[1].from < c[1].to /\ c[1].from \in Nat /\ c[k - 1].from \in Nat
                /\ c[1] \in Parts
            BY <2>6, <2>8, <4>1, <5>1 DEF c
          <6>2. c[1].to \in Nat
            BY <6>1 DEF Parts
          <6> QED
            BY SMTT(40), <2>10, <4>1, <5>1, <6>1, <6>2
        <5> QED
          BY <2>13, <2>17, <3>5, <4>1, <4>2, <5>2
      <4>3. CASE j # 1
        <5>1. j - 1 \in 1 .. n /\ all[j] = c[j - 1] /\ j - 1 < k - 1
          BY <3>4, <4>1, <4>3
        <5> QED
          BY <2>10, <4>1, <5>1
      <4> QED
        BY <4>2, <4>3
    <3>10. \A j, k \in 1 .. n + 1 : j < k => all[j].clause < all[k].clause
      <4> SUFFICES ASSUME NEW j \in 1 .. n + 1, NEW k \in 1 .. n + 1, j < k
                   PROVE  all[j].clause < all[k].clause
        OBVIOUS
      <4>1. all[j].clause = j - 1 /\ all[k].clause = k - 1
        BY <3>6
      <4> QED
        BY <1>4, <4>1
    <3>11. n + 1 >= 1 /\ all[n + 1].to = to /\ (n + 1) - 1 = n
      <4>1. n \in 1 .. n
        BY <1>4, <2>2
      <4>2. all[n + 1] = c[n]
        BY <3>3, <4>1
      <4> QED
        BY <1>4, <2>11, <4>2
    <3>12. AreSegments(t, all, h, to)
      <4>1. \A k \in 1 .. Len(all) - 1 : all[k].to = all[k + 1].from
        BY <3>3, <3>8, <3>11
      <4> QED
        BY <3>3, <3>5, <3>6, <3>7, <3>9, <3>10, <3>11, <4>1 DEF AreSegments
    <3> QED
      BY <3>2, <3>12
  <2> QED
    BY <2>16, <2>17
<1> QED
  BY <1>7, <1>8

(* A text is a preamble, m articles or sections and what follows them:     *)
(* cut[g] is where the g-th of these starts, and lists[g] are its parts.   *)
AreGroups(t, lists, m, cut) ==
  LET all == Headings(t)
      e == AppendixStart(t, all)
  IN  /\ m \in 0 .. Len(all) /\ lists \in Seq(Seq(Parts)) /\ Len(lists) = m + 2
      /\ cut \in [1 .. m + 3 -> 1 .. Len(t) + 1] /\ cut[1] = 1 /\ cut[m + 3] = Len(t) + 1
      /\ \A g \in 1 .. m : cut[g + 1] = all[g]
      /\ IF e = 0 THEN cut[m + 2] = Len(t) + 1 /\ m = Len(all) ELSE cut[m + 2] = e
      /\ \A k \in m + 1 .. Len(all) : cut[m + 2] <= all[k]
      /\ all # <<>> => m > 0
      /\ \A g, k \in 1 .. m + 3 : g < k => cut[g] <= cut[k]
      /\ \/ lists[1] = << Part(1, cut[2], 0, 0) >>
         \/ lists[1] = <<>> /\ m > 0 /\ Solid(t, 1, cut[2]) < MinPreamble
      /\ \A g \in 1 .. m : AreSegments(t, lists[g + 1], all[g], cut[g + 2])
      /\ lists[m + 2] = IF e = 0 THEN <<>> ELSE << Part(e, Len(t) + 1, 0, 0) >>

(* Which headings are before the appendix, and what the parts are exactly. *)
GroupsHold(t, lists, m, cut) ==
  /\ \A k \in 1 .. Len(Headings(t)) : Headings(t)[k] < cut[m + 2] <=> k <= m
  /\ lists[1] = IF m = 0 \/ Solid(t, 1, cut[2]) >= MinPreamble
                THEN << Part(1, cut[2], 0, 0) >> ELSE <<>>
  /\ \A g \in 1 .. m : lists[g + 1] = ArticleSegments(t, Headings(t)[g], cut[g + 2])

(* Something before a sequence and something behind it.                    *)
LEMMA ThreeTogether ==
  ASSUME NEW X, NEW x \in X, NEW s \in Seq(X), NEW y \in X
  PROVE  LET all == <<x>> \o s \o <<y>>
         IN  /\ all \in Seq(X) /\ Len(all) = Len(s) + 2 /\ Len(s) \in Nat
             /\ all[1] = x /\ all[Len(s) + 2] = y
             /\ \A k \in 1 .. Len(s) : all[k + 1] = s[k]
<1> DEFINE b == <<x>> \o s
           n == Len(s)
           one == <<y>>
<1>1. /\ b \in Seq(X) /\ Len(b) = n + 1 /\ n \in Nat
      /\ b[1] = x /\ \A k \in 1 .. n : b[k + 1] = s[k]
  BY OneBefore
<1> HIDE DEF b, n
<1>2. one \in Seq(X) /\ Len(one) = 1 /\ one[1] = y
  OBVIOUS
<1> HIDE DEF one
<1> DEFINE all == b \o one
<1>3. /\ all \in Seq(X) /\ Len(all) = n + 1 + 1
      /\ \A k \in 1 .. n + 1 : all[k] = b[k]
      /\ all[n + 1 + 1] = one[1]
  <2>1. all \in Seq(X) /\ Len(all) = Len(b) + Len(one)
    BY <1>1, <1>2, ConcatProperties
  <2>2. \A k \in 1 .. Len(b) + Len(one) :
          all[k] = IF k <= Len(b) THEN b[k] ELSE one[k - Len(b)]
    BY <1>1, <1>2, ConcatProperties
  <2>3. \A k \in 1 .. n + 1 : all[k] = b[k]
    BY <1>1, <1>2, <2>2
  <2>4. n + 1 + 1 \in 1 .. Len(b) + Len(one) /\ ~(n + 1 + 1 <= n + 1) /\ (n + 1 + 1) - (n + 1) = 1
    BY <1>1, <1>2
  <2>5. all[n + 1 + 1] = one[1]
    BY <1>1, <2>2, <2>4
  <2> QED
    BY <1>1, <1>2, <2>1, <2>3, <2>5
<1> HIDE DEF all
<1>4. n + 1 + 1 = n + 2 /\ 1 \in 1 .. n + 1 /\ \A k \in 1 .. n : k + 1 \in 1 .. n + 1
  BY <1>1
<1>5. /\ all \in Seq(X) /\ Len(all) = n + 2 /\ all[1] = x /\ all[n + 2] = y
      /\ \A k \in 1 .. n : all[k + 1] = s[k]
  BY <1>1, <1>2, <1>3, <1>4
<1> QED
  BY <1>1, <1>5 DEF all, b, one, n

(* TextParts is made of such groups.                                       *)
LEMMA GroupsAre ==
  ASSUME NEW t \in Texts
  PROVE  \E lists, m, cut : /\ AreGroups(t, lists, m, cut) /\ GroupsHold(t, lists, m, cut)
                            /\ TextParts(t) = Chained(lists)
<1> DEFINE all == Headings(t)
           e == AppendixStart(t, all)
           end == Len(t) + 1
           opEnd == IF e = 0 THEN end ELSE e
           H == Before(all, opEnd)
           aEnd(k) == IF k < Len(H) THEN H[k + 1] ELSE opEnd
           pEnd == IF H = <<>> THEN opEnd ELSE Head(H)
           preamble == IF H = <<>> \/ Solid(t, 1, pEnd) >= MinPreamble
                       THEN << Part(1, pEnd, 0, 0) >> ELSE <<>>
           articles == [k \in DOMAIN H |-> ArticleSegments(t, H[k], aEnd(k))]
           rest == IF e = 0 THEN <<>> ELSE << Part(e, end, 0, 0) >>
           lists == <<preamble>> \o articles \o <<rest>>
<1>1. TextParts(t) = Chained(lists)
  BY DEF TextParts, PartsOf
<1>2. Len(t) \in Nat /\ end \in Nat
  BY DEF Texts
<1>3. Ascending(all, Len(t)) /\ \A k \in 1 .. Len(all) :
        StartsLine(t, all[k]) /\ t[all[k]] \notin White /\ t[all[k]] \notin DOMAIN Clauses
  BY HeadingsAre
<1>4. e \in 0 .. Len(t) /\ (e # 0 => all # <<>> /\ e >= LineEnd(t, Head(all)))
  <2>1. /\ e # 0 => RecordArticles(t) # {} /\ e >= LineEnd(t, Head(all))
        /\ e \in 0 .. Len(t)
    BY AppendixIs
  <2>2. RecordArticles(t) # {} => all # <<>>
    BY HeadingsAre
  <2> QED
    BY <2>1, <2>2
<1> HIDE DEF e
<1>5. opEnd \in 1 .. Len(t) + 1
  BY <1>2, <1>4
<1> DEFINE n == Len(all)
           last == opEnd
<1> HIDE DEF all, opEnd
<1>6. PICK m \in 0 .. n :
        /\ \A k \in 1 .. n : all[k] < last <=> k <= m
        /\ Len(H) = m /\ \A k \in 1 .. m : H[k] = all[k]
        /\ Ascending(H, Len(t))
  <2>1. opEnd \in Nat
    BY <1>2, <1>5
  <2>2. \E m \in 0 .. Len(all) :
          /\ \A k \in 1 .. Len(all) : all[k] < opEnd <=> k <= m
          /\ Len(Before(all, opEnd)) = m /\ \A k \in 1 .. m : Before(all, opEnd)[k] = all[k]
          /\ Ascending(Before(all, opEnd), Len(t))
    BY <1>2, <1>3, <2>1, BeforeIs
  <2> QED
    BY <2>2
<1> HIDE DEF H
<1>7. /\ n \in Nat /\ all \in Seq(Nat) /\ \A k \in 1 .. n : all[k] \in 1 .. Len(t)
      /\ \A j, k \in 1 .. n : j < k => all[j] < all[k]
  BY <1>3 DEF Ascending
<1>8. all # <<>> => n >= 1 /\ Head(all) = all[1]
  BY <1>2, <1>3, LastOfPlaces
<1>9. all # <<>> => m > 0
  <2> SUFFICES ASSUME all # <<>> PROVE 1 <= m
    BY <1>7
  <2>1. 1 \in 1 .. n /\ all[1] \in 1 .. Len(t) /\ t[all[1]] \notin White
    BY <1>3, <1>7, <1>8
  <2>2. all[1] < last
    <3>1. CASE e = 0
      BY <1>2, <2>1, <3>1 DEF opEnd
    <3>2. CASE e # 0
      <4>1. LineEnd(t, all[1]) \in all[1] + 1 .. Len(t) + 1
        BY <2>1, LineEndIs
      <4>2. e >= LineEnd(t, all[1])
        BY <1>4, <1>8, <3>2
      <4> QED
        BY <1>2, <1>4, <2>1, <3>2, <4>1, <4>2 DEF opEnd
    <3> QED
      BY <3>1, <3>2
  <2> QED
    BY <1>6, <2>1, <2>2
<1>10. H \in Seq(Nat) /\ DOMAIN H = 1 .. m /\ m \in Nat
  BY <1>6, <1>7 DEF Ascending
<1>11. H = <<>> <=> m = 0
  BY <1>6, <1>10
<1>12. m > 0 => Head(H) = all[1]
  BY <1>6, <1>10, <1>11
<1> DEFINE cut == [g \in 1 .. m + 3 |-> IF g = 1 THEN 1
                                       ELSE IF g <= m + 1 THEN all[g - 1]
                                       ELSE IF g = m + 2 THEN last ELSE end]
<1>13. /\ cut \in [1 .. m + 3 -> 1 .. Len(t) + 1] /\ cut[1] = 1 /\ cut[m + 3] = Len(t) + 1
       /\ \A g \in 1 .. m : cut[g + 1] = all[g]
       /\ cut[m + 2] = last
  <2>1. ASSUME NEW g \in 1 .. m + 3 PROVE cut[g] \in 1 .. Len(t) + 1
    <3>1. CASE g = 1
      BY <1>2, <3>1
    <3>2. CASE g # 1 /\ g <= m + 1
      <4>1. g - 1 \in 1 .. n
        BY <1>6, <1>7, <1>10, <3>2
      <4>2. all[g - 1] \in 1 .. Len(t)
        BY <1>7, <4>1
      <4> QED
        BY <1>2, <3>2, <4>2
    <3>3. CASE g # 1 /\ ~(g <= m + 1)
      <4>1. end \in 1 .. Len(t) + 1
        BY <1>2
      <4> HIDE DEF end
      <4>2. cut[g] = last \/ cut[g] = end
        BY <3>3
      <4> QED
        BY <1>5, <4>1, <4>2
    <3> QED
      BY <3>1, <3>2, <3>3
  <2>2. cut \in [1 .. m + 3 -> 1 .. Len(t) + 1]
    BY <2>1
  <2>3. cut[1] = 1 /\ cut[m + 3] = Len(t) + 1 /\ cut[m + 2] = last
    BY <1>10
  <2>4. \A g \in 1 .. m : cut[g + 1] = all[g]
    BY <1>10
  <2> HIDE DEF cut
  <2> QED
    BY <2>2, <2>3, <2>4
<1>14. \A g \in 1 .. m + 3 : g = 1 \/ (g - 1 \in 1 .. m /\ (g - 1) + 1 = g /\ cut[g] = all[g - 1])
                                 \/ g = m + 2 \/ g = m + 3
  <2> SUFFICES ASSUME NEW g \in 1 .. m + 3, g # 1, g # m + 2, g # m + 3
               PROVE  g - 1 \in 1 .. m /\ (g - 1) + 1 = g /\ cut[g] = all[g - 1]
    OBVIOUS
  <2>1. g - 1 \in 1 .. m /\ (g - 1) + 1 = g
    BY <1>10
  <2> HIDE DEF cut
  <2> QED
    BY <1>13, <2>1
<1> HIDE DEF cut
<1>15. last <= Len(t) + 1 /\ last \in Nat /\ 1 <= last
  BY <1>5, <1>2
<1> HIDE DEF last
<1>16. ASSUME NEW g \in 1 .. m + 3, NEW k \in 1 .. m + 3, g < k PROVE cut[g] <= cut[k]
  <2>1. cut[g] \in 1 .. Len(t) + 1 /\ cut[k] \in 1 .. Len(t) + 1
    BY <1>13
  <2>2. CASE g = 1
    BY <1>2, <1>13, <2>1, <2>2
  <2>3. CASE k = m + 3
    BY <1>2, <1>13, <2>1, <2>3
  <2>4. CASE g # 1 /\ k = m + 2
    <3>1. g # m + 2 /\ g # m + 3
      BY <1>10, <1>16, <2>4
    <3>2. g - 1 \in 1 .. m /\ cut[g] = all[g - 1]
      BY <1>14, <2>4, <3>1
    <3> DEFINE j == g - 1
    <3>3. j \in 1 .. n /\ j <= m /\ cut[g] = all[j]
      BY <1>6, <1>7, <1>10, <3>2
    <3> HIDE DEF j
    <3>4. all[j] < last /\ all[j] \in Nat
      BY <1>6, <1>7, <3>3
    <3>5. cut[k] = last
      BY <1>13, <2>4
    <3> QED
      BY <1>15, <3>3, <3>4, <3>5
  <2>5. CASE g # 1 /\ k # m + 2 /\ k # m + 3
    <3>1. g # m + 2 /\ g # m + 3 /\ k # 1
      BY <1>10, <1>16, <2>5
    <3>2. /\ g - 1 \in 1 .. m /\ cut[g] = all[g - 1]
          /\ k - 1 \in 1 .. m /\ cut[k] = all[k - 1]
      BY <1>14, <2>5, <3>1
    <3> DEFINE i == g - 1
               j == k - 1
    <3>3. i \in 1 .. n /\ j \in 1 .. n /\ i < j /\ cut[g] = all[i] /\ cut[k] = all[j]
      <4>1. i \in 1 .. m /\ j \in 1 .. m /\ cut[g] = all[i] /\ cut[k] = all[j]
        BY <3>2
      <4>2. i < j
        BY <1>10, <1>16
      <4>3. m \in Nat /\ n \in Nat /\ m <= n
        BY <1>6, <1>7, <1>10
      <4> HIDE DEF i, j
      <4> QED
        BY <4>1, <4>2, <4>3
    <3> HIDE DEF i, j
    <3>4. all[i] < all[j] /\ all[i] \in Nat /\ all[j] \in Nat
      BY <1>7, <3>3
    <3> QED
      BY <3>3, <3>4
  <2> QED
    BY <2>2, <2>3, <2>4, <2>5
<1>17. pEnd = cut[2] /\ cut[2] \in Nat
  <2>1. CASE m = 0
    BY <1>11, <1>13, <1>15, <2>1 DEF last
  <2>2. CASE m > 0
    <3>1. 1 \in 1 .. m /\ 1 + 1 = 2 /\ 1 \in 1 .. n
      BY <1>7, <1>10, <2>2
    <3>2. cut[2] = all[1] /\ all[1] \in Nat
      BY SMTT(40), <1>7, <1>13, <3>1
    <3> QED
      BY <1>11, <1>12, <2>2, <3>2
  <2> QED
    BY <1>10, <2>1, <2>2
<1>18. preamble \in Seq(Parts)
       /\ (preamble = << Part(1, cut[2], 0, 0) >>
             \/ (preamble = <<>> /\ m > 0 /\ Solid(t, 1, cut[2]) < MinPreamble))
       /\ preamble = IF m = 0 \/ Solid(t, 1, cut[2]) >= MinPreamble
                     THEN << Part(1, cut[2], 0, 0) >> ELSE <<>>
  <2> DEFINE solid == Solid(t, 1, cut[2])
             p == Part(1, cut[2], 0, 0)
  <2>1. p \in Parts
    <3>1. 0 \in Nat /\ 1 \in Nat
      OBVIOUS
    <3> QED
      BY <1>17, <3>1 DEF Part, Parts
  <2>2. solid \in Nat
    <3>1. {i \in 1 .. cut[2] - 1 : t[i] \notin White} \in SUBSET (1 .. cut[2] - 1)
      OBVIOUS
    <3>2. IsFiniteSet(1 .. cut[2] - 1)
      <4>1. 1 \in Int /\ cut[2] - 1 \in Int
        BY <1>17
      <4> QED
        BY <4>1, FS_Interval
    <3> QED
      BY <3>1, <3>2, FS_Subset, FS_CardinalityType DEF Solid
  <2>3. MinPreamble \in Nat
    BY ChunkingAssumption
  <2>4. /\ m = 0 \/ solid >= MinPreamble => preamble = <<p>>
        /\ ~(m = 0 \/ solid >= MinPreamble) => preamble = <<>>
    <3> HIDE DEF pEnd
    <3> QED
      BY <1>11, <1>17
  <2> HIDE DEF preamble, p, solid
  <2>5. preamble = <<p>> \/ (preamble = <<>> /\ m > 0 /\ solid < MinPreamble)
    <3>1. solid >= MinPreamble \/ solid < MinPreamble
      BY <2>2, <2>3
    <3>2. m = 0 \/ m > 0
      BY <1>10
    <3>3. CASE m = 0 \/ solid >= MinPreamble
      BY <2>4, <3>3
    <3>4. CASE ~(m = 0 \/ solid >= MinPreamble)
      BY <2>4, <3>1, <3>2, <3>4
    <3> QED
      BY <3>3, <3>4
  <2>6. preamble \in Seq(Parts)
    <3>1. <<p>> \in Seq(Parts) /\ <<>> \in Seq(Parts)
      BY <2>1
    <3> QED
      BY <2>5, <3>1
  <2>7. preamble = IF m = 0 \/ solid >= MinPreamble THEN <<p>> ELSE <<>>
    BY <2>4
  <2> QED
    BY <2>5, <2>6, <2>7 DEF p, solid
<1> HIDE DEF preamble, pEnd
<1>19. ASSUME NEW k \in 1 .. m PROVE aEnd(k) = cut[k + 2]
  <2>1. CASE k < m
    <3>1. k + 1 \in 1 .. m /\ (k + 1) + 1 = k + 2
      BY <1>10, <2>1
    <3>2. cut[k + 2] = all[k + 1] /\ H[k + 1] = all[k + 1]
      BY <1>6, <1>13, <3>1
    <3> QED
      BY <1>6, <2>1, <3>2
  <2>2. CASE ~(k < m)
    <3>1. k = m
      BY <1>10, <2>2
    <3> QED
      BY <1>6, <1>13, <3>1, <2>2 DEF last
  <2> QED
    BY <2>1, <2>2
<1>20. \A k \in 1 .. m : AreSegments(t, ArticleSegments(t, all[k], cut[k + 2]), all[k], cut[k + 2])
  <2> SUFFICES ASSUME NEW k \in 1 .. m
               PROVE  AreSegments(t, ArticleSegments(t, all[k], cut[k + 2]), all[k], cut[k + 2])
    OBVIOUS
  <2>1. k \in 1 .. n /\ all[k] \in 1 .. Len(t) /\ k \in Nat
    BY <1>7, <1>10
  <2>2. k + 1 \in 1 .. m + 3 /\ k + 2 \in 1 .. m + 3 /\ k + 1 < k + 2 /\ cut[k + 1] = all[k]
    BY <1>10, <1>13
  <2>3. cut[k + 2] \in 1 .. Len(t) + 1
    BY <1>13, <2>2
  <2>4. all[k] < cut[k + 2]
    <3>1. CASE k < m
      <4>1. k + 1 \in 1 .. m /\ (k + 1) + 1 = k + 2 /\ k + 1 \in 1 .. n /\ k < k + 1
        BY <1>7, <1>10, <3>1
      <4> QED
        BY <1>7, <1>13, <2>1, <4>1
    <3>2. CASE ~(k < m)
      <4>1. k = m /\ k <= m
        BY <1>10, <3>2
      <4> QED
        BY <1>6, <1>13, <2>1, <4>1
    <3> QED
      BY <3>1, <3>2
  <2>5. cut[k + 2] \in all[k] + 1 .. Len(t) + 1
    BY <1>2, <2>1, <2>3, <2>4
  <2> QED
    BY <1>3, <2>1, <2>5, SegmentsAre
<1>21. articles = [k \in 1 .. m |-> ArticleSegments(t, all[k], cut[k + 2])]
  <2>1. \A k \in 1 .. m : ArticleSegments(t, H[k], aEnd(k)) = ArticleSegments(t, all[k], cut[k + 2])
    <3> HIDE DEF aEnd
    <3> QED
      BY <1>6, <1>19
  <2> HIDE DEF aEnd
  <2> QED
    BY <1>10, <2>1
<1>22. articles \in Seq(Seq(Parts)) /\ Len(articles) = m
       /\ \A k \in 1 .. m : AreSegments(t, articles[k], all[k], cut[k + 2])
  <2>1. \A k \in 1 .. m : AreSegments(t, articles[k], all[k], cut[k + 2])
    BY <1>20, <1>21
  <2>2. \A k \in 1 .. m : articles[k] \in Seq(Parts)
    BY <2>1 DEF AreSegments
  <2>3. articles \in [1 .. m -> Seq(Parts)]
    BY <1>21, <2>2
  <2> HIDE DEF articles
  <2> QED
    BY <1>10, <2>1, <2>3
<1>23. rest \in Seq(Parts)
  <2> DEFINE p == Part(e, end, 0, 0)
  <2>1. p \in Parts
    <3>1. 0 \in Nat /\ e \in Nat
      BY <1>4
    <3> QED
      BY <1>2, <3>1 DEF Part, Parts
  <2> HIDE DEF p
  <2>2. <<p>> \in Seq(Parts) /\ <<>> \in Seq(Parts)
    BY <2>1
  <2> QED
    BY <2>2 DEF p
<1> HIDE DEF articles
<1>24. /\ lists \in Seq(Seq(Parts)) /\ Len(lists) = m + 2
       /\ lists[1] = preamble /\ lists[m + 2] = rest
       /\ \A k \in 1 .. m : lists[k + 1] = articles[k]
  <2> HIDE DEF rest, lists
  <2> QED
    BY <1>18, <1>22, <1>23, ThreeTogether DEF lists
<1> HIDE DEF lists
<1>25. IF e = 0 THEN last = Len(t) + 1 /\ m = n ELSE last = e
  <2>1. CASE e = 0
    <3>1. last = Len(t) + 1
      BY <2>1 DEF last, opEnd
    <3>2. n > m => FALSE
      <4> SUFFICES ASSUME n > m PROVE FALSE
        OBVIOUS
      <4>1. n \in 1 .. n /\ ~(n <= m) /\ all[n] \in 1 .. Len(t)
        BY <1>7, <1>10
      <4>2. ~(all[n] < last)
        BY <1>6, <4>1
      <4> QED
        BY <1>2, <3>1, <4>1, <4>2
    <3> QED
      BY <1>6, <1>7, <2>1, <3>1, <3>2
  <2>2. CASE e # 0
    BY <2>2 DEF last, opEnd
  <2> QED
    BY <2>1, <2>2
<1>26. \A k \in m + 1 .. n : last <= all[k]
  <2> SUFFICES ASSUME NEW k \in m + 1 .. n PROVE last <= all[k]
    OBVIOUS
  <2>1. k \in 1 .. n /\ ~(k <= m)
    BY <1>7, <1>10
  <2>2. ~(all[k] < last) /\ all[k] \in 1 .. Len(t)
    BY <1>6, <1>7, <2>1
  <2> QED
    BY <1>2, <1>15, <2>2
<1>27. lists[m + 2] = IF e = 0 THEN <<>> ELSE << Part(e, Len(t) + 1, 0, 0) >>
  BY <1>24
<1> HIDE DEF rest, end
<1>28. /\ m \in 0 .. Len(Headings(t)) /\ Headings(t) = all
       /\ AppendixStart(t, Headings(t)) = e
  BY <1>6 DEF all, e
<1>29. \A k \in m + 1 .. Len(all) : cut[m + 2] <= all[k]
  BY <1>13, <1>26
<1>30. IF e = 0 THEN cut[m + 2] = Len(t) + 1 /\ m = Len(all) ELSE cut[m + 2] = e
  BY <1>13, <1>25
<1>31. \A g \in 1 .. m : AreSegments(t, lists[g + 1], all[g], cut[g + 2])
  BY <1>22, <1>24
<1>32. lists[1] = << Part(1, cut[2], 0, 0) >>
       \/ (lists[1] = <<>> /\ m > 0 /\ Solid(t, 1, cut[2]) < MinPreamble)
  BY <1>18, <1>24
<1>33. AreGroups(t, lists, m, cut)
  <2> HIDE DEF n, all, e
  <2> QED
    BY <1>9, <1>13, <1>16, <1>24, <1>27, <1>28, <1>29, <1>30, <1>31, <1>32 DEF AreGroups
<1>34. \A k \in 1 .. Len(all) : all[k] < cut[m + 2] <=> k <= m
  BY <1>6, <1>13
<1>35. lists[1] = IF m = 0 \/ Solid(t, 1, cut[2]) >= MinPreamble
                  THEN << Part(1, cut[2], 0, 0) >> ELSE <<>>
  BY <1>18, <1>24
<1>36. \A g \in 1 .. m : lists[g + 1] = ArticleSegments(t, all[g], cut[g + 2])
  BY <1>21, <1>24
<1>37. GroupsHold(t, lists, m, cut)
  <2> HIDE DEF n, all
  <2> QED
    BY <1>28, <1>34, <1>35, <1>36 DEF GroupsHold
<1> QED
  BY <1>1, <1>33, <1>37

(* Each place of an article lies in one of its segments.                   *)
LEMMA SegmentCovers ==
  ASSUME NEW t \in Texts, NEW segs, NEW h \in Nat, NEW to \in Nat, AreSegments(t, segs, h, to),
         NEW i \in h .. to - 1
  PROVE  \E l \in 1 .. Len(segs) : i \in segs[l].from .. segs[l].to - 1
<1> DEFINE n == Len(segs)
           S == {l \in 1 .. n : segs[l].from <= i}
<1>1. segs \in Seq(Parts) /\ n \in Nat /\ n >= 1 /\ segs[1].from = h /\ segs[n].to = to
  BY DEF AreSegments
<1>2. \A l \in 1 .. n : segs[l].from \in Nat /\ segs[l].to \in Nat
  <2>1. \A l \in 1 .. n : segs[l] \in Parts
    BY <1>1
  <2> QED
    BY <2>1 DEF Parts
<1>3. \A l \in 1 .. n - 1 : segs[l].to = segs[l + 1].from
  BY DEF AreSegments
<1>4. S \in SUBSET (1 .. n) /\ 1 \in S
  BY <1>1
<1>5. Max(S) \in S /\ \A l \in S : l <= Max(S)
  <2> HIDE DEF S, n
  <2> QED
    BY <1>1, <1>4, LastPlace
<1> DEFINE l == Max(S)
<1>6. l \in 1 .. n /\ segs[l].from <= i
  BY <1>5
<1>7. \A k \in 1 .. n : segs[k].from <= i => k <= l
  BY <1>5
<1> HIDE DEF l, S
<1>8. i < segs[l].to
  <2>1. CASE l = n
    BY <1>1, <2>1
  <2>2. CASE l # n
    <3>1. l \in 1 .. n - 1 /\ l + 1 \in 1 .. n /\ ~(l + 1 <= l)
      BY <1>1, <1>6, <2>2
    <3>2. ~(segs[l + 1].from <= i) /\ segs[l + 1].from \in Nat
      BY <1>2, <1>7, <3>1
    <3> QED
      BY <1>3, <3>1, <3>2
  <2> QED
    BY <2>1, <2>2
<1>9. i \in segs[l].from .. segs[l].to - 1
  BY <1>2, <1>6, <1>8
<1> QED
  BY <1>6, <1>9

(* The parts of a group lie between its cuts; those of an article are its  *)
(* segments, and before and after the articles there is one part at most.  *)
LEMMA GroupIs ==
  ASSUME NEW t \in Texts, NEW lists, NEW m, NEW cut, AreGroups(t, lists, m, cut),
         NEW g \in 1 .. m + 2, NEW l \in 1 .. Len(lists[g])
  PROVE  LET p == lists[g][l]
             all == Headings(t)
             e == AppendixStart(t, all)
         IN  /\ p \in Parts
             /\ cut[g] <= p.from /\ p.from <= p.to /\ p.to <= cut[g + 1]
             /\ IF g \in 2 .. m + 1
                THEN /\ p.heading = all[g - 1] /\ p.heading = cut[g]
                     /\ AreSegments(t, lists[g], all[g - 1], cut[g + 1])
                ELSE /\ p.heading = 0 /\ p.clause = 0
                     /\ p.from = cut[g] /\ p.to = cut[g + 1] /\ l = 1
                     /\ g = 1 \/ (g = m + 2 /\ e # 0 /\ p.from = e)
<1> DEFINE all == Headings(t)
           e == AppendixStart(t, all)
           p == lists[g][l]
<1>1. /\ m \in 0 .. Len(all) /\ lists \in Seq(Seq(Parts)) /\ Len(lists) = m + 2
      /\ cut \in [1 .. m + 3 -> 1 .. Len(t) + 1] /\ cut[1] = 1 /\ cut[m + 3] = Len(t) + 1
      /\ \A i \in 1 .. m : cut[i + 1] = all[i]
      /\ (IF e = 0 THEN cut[m + 2] = Len(t) + 1 /\ m = Len(all) ELSE cut[m + 2] = e)
      /\ \A i, k \in 1 .. m + 3 : i < k => cut[i] <= cut[k]
      /\ lists[1] = << Part(1, cut[2], 0, 0) >> \/ lists[1] = <<>>
      /\ \A i \in 1 .. m : AreSegments(t, lists[i + 1], all[i], cut[i + 2])
      /\ lists[m + 2] = IF e = 0 THEN <<>> ELSE << Part(e, Len(t) + 1, 0, 0) >>
  BY DEF AreGroups
<1>2. Len(t) \in Nat /\ Len(t) + 1 \in Nat /\ e \in Nat
  <2>1. Len(t) \in Nat
    BY DEF Texts
  <2>2. e \in 0 .. Len(t)
    BY AppendixIs
  <2> HIDE DEF e
  <2> QED
    BY <2>1, <2>2
<1> HIDE DEF all, e
<1>3. m \in Nat
  <2>1. all \in Seq(Nat)
    BY HeadingsAre DEF Ascending, all
  <2> QED
    BY <1>1, <2>1
<1>4. g \in 1 .. m + 3 /\ g + 1 \in 1 .. m + 3 /\ g < g + 1 /\ g \in 1 .. Len(lists)
  BY <1>1, <1>3
<1>5. cut[g] \in Nat /\ cut[g + 1] \in Nat /\ cut[g] <= cut[g + 1]
  <2>1. cut[g] \in 1 .. Len(t) + 1 /\ cut[g + 1] \in 1 .. Len(t) + 1
    BY <1>1, <1>4
  <2>2. cut[g] <= cut[g + 1]
    BY <1>1, <1>4
  <2> QED
    BY <1>2, <2>1, <2>2
<1>6. p \in Parts
  <2>1. lists[g] \in Seq(Parts)
    BY <1>1, <1>4
  <2> QED
    BY <2>1
<1>7. p.from \in Nat /\ p.to \in Nat
  BY <1>6 DEF Parts
<1>8. CASE g = 1
  <2>1. lists[1] = << Part(1, cut[2], 0, 0) >> /\ Len(lists[1]) = 1 /\ l = 1
    <3>1. lists[1] # <<>>
      <4>1. l \in 1 .. Len(lists[1])
        BY <1>8
      <4>2. Len(<<>>) = 0 /\ 1 .. 0 = {}
        OBVIOUS
      <4> QED
        BY <4>1, <4>2
    <3>2. lists[1] = << Part(1, cut[2], 0, 0) >>
      BY <1>1, <3>1
    <3> QED
      BY <1>8, <3>2
  <2>2. p = Part(1, cut[2], 0, 0)
    BY <1>8, <2>1
  <2>3. p.from = cut[g] /\ p.to = cut[g + 1] /\ p.heading = 0 /\ p.clause = 0
    BY <1>1, <1>8, <2>2 DEF Part
  <2>4. g \notin 2 .. m + 1
    BY <1>8
  <2> HIDE DEF p
  <2> QED
    BY <1>5, <1>6, <1>8, <2>1, <2>3, <2>4 DEF p
<1>9. CASE g = m + 2
  <2>1. e # 0 /\ lists[g] = << Part(e, Len(t) + 1, 0, 0) >>
    <3>1. lists[g] = IF e = 0 THEN <<>> ELSE << Part(e, Len(t) + 1, 0, 0) >>
      BY <1>1, <1>9
    <3>2. lists[g] # <<>>
      <4>1. l \in 1 .. Len(lists[g])
        OBVIOUS
      <4>2. Len(<<>>) = 0 /\ 1 .. 0 = {}
        OBVIOUS
      <4> QED
        BY <4>1, <4>2
    <3> QED
      BY <3>1, <3>2
  <2>2. Len(lists[g]) = 1 /\ l = 1
    BY <2>1
  <2>3. p = Part(e, Len(t) + 1, 0, 0)
    BY <2>1, <2>2
  <2>4. g + 1 = m + 3
    BY <1>3, <1>9
  <2>5. p.from = cut[g] /\ p.to = cut[g + 1] /\ p.heading = 0 /\ p.clause = 0 /\ p.from = e
    <3>1. cut[g] = e /\ cut[g + 1] = Len(t) + 1
      BY <1>1, <1>9, <2>1, <2>4
    <3>2. p.from = e /\ p.to = Len(t) + 1 /\ p.heading = 0 /\ p.clause = 0
      BY <2>3 DEF Part
    <3> HIDE DEF p
    <3> QED
      BY <3>1, <3>2
  <2>6. g \notin 2 .. m + 1
    BY <1>3, <1>9
  <2> HIDE DEF p
  <2> QED
    BY <1>5, <1>6, <1>9, <2>1, <2>2, <2>5, <2>6 DEF p, all, e
<1>10. CASE g # 1 /\ g # m + 2
  <2> DEFINE i == g - 1
  <2>1. i \in 1 .. m /\ g = i + 1 /\ g + 1 = i + 2 /\ g \in 2 .. m + 1
    BY <1>3, <1>10
  <2> HIDE DEF i
  <2>2. AreSegments(t, lists[g], all[i], cut[g + 1]) /\ cut[g] = all[i]
    BY <1>1, <2>1
  <2>3. p.heading = all[i] /\ all[i] <= p.from /\ p.from < p.to /\ p.to <= cut[g + 1]
    BY <2>2 DEF AreSegments
  <2> HIDE DEF p
  <2> QED
    BY <1>6, <1>7, <2>1, <2>2, <2>3 DEF p, i, all
<1> QED
  BY <1>8, <1>9, <1>10

(* What comes before an item of a chain: the one before it in its list, or *)
(* one of the list before.                                                 *)
LEMMA ChainBefore ==
  ASSUME NEW X, NEW chain \in Seq(X), NEW lists \in Seq(Seq(X)), NEW own, NEW loc,
         IsChain(chain, lists, Len(lists), own, loc), NEW a \in 1 .. Len(chain)
  PROVE  /\ loc[a] > 1 => a > 1 /\ own[a - 1] = own[a] /\ loc[a - 1] = loc[a] - 1
         /\ loc[a] = 1 /\ own[a] > 1 /\ Len(lists[own[a] - 1]) >= 1
              => a > 1 /\ own[a - 1] = own[a] - 1
<1> DEFINE n == Len(chain)
           k == Len(lists)
<1>1. n \in Nat /\ k \in Nat /\ \A j \in 1 .. k : Len(lists[j]) \in Nat
  OBVIOUS
<1>2. /\ \A b \in 1 .. n : own[b] \in 1 .. k /\ own[b] \in Nat /\ loc[b] \in Nat
      /\ \A b \in 1 .. n : loc[b] \in 1 .. Len(lists[own[b]]) /\ loc[b] >= 1
  <2>1. own \in [1 .. n -> 1 .. k] /\ loc \in [1 .. n -> Nat]
    BY DEF IsChain
  <2>2. \A b \in 1 .. n : loc[b] \in 1 .. Len(lists[own[b]])
    BY DEF IsChain
  <2>3. \A b \in 1 .. n : own[b] \in 1 .. k /\ loc[b] \in Nat
    BY <2>1
  <2>4. \A b \in 1 .. n : own[b] \in Nat
    BY <2>3
  <2>5. \A b \in 1 .. n : loc[b] >= 1
    BY <2>2, <2>3
  <2> QED
    BY <2>2, <2>3, <2>4, <2>5
<1>3. \A b, c \in 1 .. n : b < c => own[b] < own[c] \/ (own[b] = own[c] /\ loc[b] < loc[c])
  BY DEF IsChain
<1>4. \A j \in 1 .. k : \A l \in 1 .. Len(lists[j]) :
        \E b \in 1 .. n : own[b] = j /\ loc[b] = l
  BY DEF IsChain
<1> HIDE DEF n, k
<1>5. ASSUME loc[a] > 1
      PROVE  a > 1 /\ own[a - 1] = own[a] /\ loc[a - 1] = loc[a] - 1
  <2>1. own[a] \in 1 .. k /\ loc[a] - 1 \in 1 .. Len(lists[own[a]])
    <3>1. own[a] \in 1 .. k /\ loc[a] \in 1 .. Len(lists[own[a]]) /\ loc[a] \in Nat
      BY <1>2 DEF n
    <3> QED
      BY <1>5, <3>1
  <2>2. PICK b \in 1 .. n : own[b] = own[a] /\ loc[b] = loc[a] - 1
    BY <1>4, <2>1
  <2>3. a \in 1 .. n /\ b \in 1 .. n
    BY DEF n
  <2>4. b < a
    <3>1. ~(a < b)
      BY <1>2, <1>3, <2>2, <2>3
    <3>2. a # b
      BY <1>2, <2>2, <2>3
    <3> QED
      BY <1>1, <2>3, <3>1, <3>2
  <2>5. a - 1 \in 1 .. n /\ a - 1 < a /\ (b = a - 1 \/ b < a - 1) /\ a > 1
    BY <1>1, <2>3, <2>4
  <2>6. own[a - 1] = own[a]
    <3>1. own[a - 1] <= own[a]
      BY <1>2, <1>3, <2>3, <2>5
    <3>2. own[a] <= own[a - 1]
      BY <1>2, <1>3, <2>2, <2>3, <2>5
    <3> QED
      BY <1>2, <2>3, <2>5, <3>1, <3>2
  <2>7. loc[a - 1] = loc[a] - 1
    <3>1. loc[a - 1] < loc[a]
      BY <1>2, <1>3, <2>3, <2>5, <2>6
    <3>2. loc[b] <= loc[a - 1]
      BY SMTT(40), <1>1, <1>2, <1>3, <2>2, <2>3, <2>5, <2>6
    <3> QED
      BY <1>2, <2>2, <2>3, <2>5, <3>1, <3>2
  <2> QED
    BY <2>5, <2>6, <2>7
<1>6. ASSUME loc[a] = 1, own[a] > 1, Len(lists[own[a] - 1]) >= 1
      PROVE  a > 1 /\ own[a - 1] = own[a] - 1
  <2>1. a \in 1 .. n /\ own[a] \in 1 .. k
    BY <1>2 DEF n
  <2>2. own[a] - 1 \in 1 .. k
    BY <1>1, <1>6, <2>1
  <2>3. PICK b \in 1 .. n : own[b] = own[a] - 1
    <3>1. \E l : l \in 1 .. Len(lists[own[a] - 1])
      <4>1. 1 \in 1 .. Len(lists[own[a] - 1])
        BY <1>1, <1>6, <2>2
      <4> QED
        BY <4>1
    <3> QED
      BY <1>4, <2>2, <3>1
  <2>4. b < a
    <3>1. ~(a < b) /\ a # b
      BY <1>2, <1>3, <2>1, <2>3
    <3> QED
      BY <1>1, <2>1, <3>1
  <2>5. a - 1 \in 1 .. n /\ a - 1 < a /\ (b = a - 1 \/ b < a - 1) /\ a > 1
    BY <1>1, <2>1, <2>4
  <2>6. own[a - 1] # own[a]
    <3>1. own[a - 1] = own[a] => loc[a - 1] < loc[a]
      BY <1>2, <1>3, <2>1, <2>5
    <3>2. loc[a - 1] >= 1 /\ loc[a - 1] \in Nat
      BY <1>2, <2>5
    <3> QED
      BY <1>6, <3>1, <3>2
  <2>7. own[a - 1] <= own[a] /\ own[b] <= own[a - 1]
    <3>1. own[a - 1] \in Nat /\ own[a] \in Nat /\ own[b] \in Nat
      BY <1>2, <2>1, <2>5
    <3>2. own[a - 1] <= own[a]
      <4> DEFINE c == a - 1
      <4>1. c \in 1 .. n /\ c < a
        BY <2>5
      <4> HIDE DEF c
      <4>2. own[c] < own[a] \/ own[c] = own[a]
        BY <1>3, <2>1, <4>1
      <4> QED
        BY <3>1, <4>2 DEF c
    <3>3. own[b] <= own[a - 1]
      BY SMTT(40), <1>3, <2>5, <3>1
    <3> QED
      BY <3>2, <3>3
  <2> QED
    BY <1>2, <2>1, <2>3, <2>5, <2>6, <2>7
<1> QED
  BY <1>5, <1>6

(* The heading of a part, and its place in the text.                       *)
PartIsUnder(p, t, all, e) ==
  IF p.heading = 0
  THEN /\ p.clause = 0
       /\ (\A i \in 1 .. Len(all) : p.to <= all[i]) \/ (e # 0 /\ p.from = e)
  ELSE /\ \E i \in 1 .. Len(all) : p.heading = all[i]
       /\ p.heading <= p.from /\ p.from < p.to /\ t[p.from] \notin White
       /\ \A i \in 1 .. Len(all) : all[i] <= p.heading \/ p.to <= all[i]
       /\ e = 0 \/ p.to <= e
       /\ p.clause > 0 => ClauseOpens(t, p, p.heading) /\ ClauseHolds(t, p, p.heading)

(* The parts of a text lie in its order, and leave out its top at most.    *)
AreParts(t, parts) ==
  /\ parts \in Seq(Parts)
  /\ \A k \in 1 .. Len(parts) :
       /\ 1 <= parts[k].from /\ parts[k].from <= parts[k].to /\ parts[k].to <= Len(t) + 1
       /\ PartIsUnder(parts[k], t, Headings(t), AppendixStart(t, Headings(t)))
       /\ parts[k].clause > 0 =>
            \/ parts[k].clause = 1 /\ parts[k].from = parts[k].heading
            \/ /\ k > 1 /\ parts[k - 1].heading = parts[k].heading
               /\ parts[k - 1].clause = parts[k].clause - 1
  /\ \A j, k \in 1 .. Len(parts) : j < k =>
       /\ parts[j].to <= parts[k].from
       /\ parts[j].heading # 0 /\ parts[k].heading # 0 =>
            \/ parts[j].heading < parts[k].heading
            \/ parts[j].heading = parts[k].heading /\ parts[j].clause < parts[k].clause
  /\ \E top \in 1 .. Len(t) + 1 :
       /\ top = 1 \/ Solid(t, 1, top) < MinPreamble
       /\ Headings(t) # <<>> => top <= Headings(t)[1]
       /\ \A k \in 1 .. Len(parts) : top <= parts[k].from
       /\ \A i \in top .. Len(t) :
            \E k \in 1 .. Len(parts) : i \in parts[k].from .. parts[k].to - 1

(* What TextParts makes are parts in the order of the text.                *)
LEMMA TextPartsAre ==
  ASSUME NEW t \in Texts
  PROVE  AreParts(t, TextParts(t))
<1>1. PICK lists, m, cut : AreGroups(t, lists, m, cut) /\ TextParts(t) = Chained(lists)
  BY GroupsAre
<1> DEFINE parts == Chained(lists)
           n == Len(parts)
           all == Headings(t)
           e == AppendixStart(t, all)
<1>2. /\ m \in 0 .. Len(all) /\ lists \in Seq(Seq(Parts)) /\ Len(lists) = m + 2
      /\ cut \in [1 .. m + 3 -> 1 .. Len(t) + 1] /\ cut[1] = 1 /\ cut[m + 3] = Len(t) + 1
      /\ \A g \in 1 .. m : cut[g + 1] = all[g]
      /\ (IF e = 0 THEN cut[m + 2] = Len(t) + 1 /\ m = Len(all) ELSE cut[m + 2] = e)
      /\ \A k \in m + 1 .. Len(all) : cut[m + 2] <= all[k]
      /\ all # <<>> => m > 0
      /\ \A g, k \in 1 .. m + 3 : g < k => cut[g] <= cut[k]
      /\ \/ lists[1] = << Part(1, cut[2], 0, 0) >>
         \/ lists[1] = <<>> /\ m > 0 /\ Solid(t, 1, cut[2]) < MinPreamble
      /\ lists[m + 2] = IF e = 0 THEN <<>> ELSE << Part(e, Len(t) + 1, 0, 0) >>
  BY <1>1 DEF AreGroups
<1>2a. \A g \in 1 .. m : AreSegments(t, lists[g + 1], all[g], cut[g + 2])
  BY <1>1 DEF AreGroups
<1>2b. m \in 0 .. Len(all) /\ (all # <<>> => m > 0)
  BY <1>2
<1>2c. lists \in Seq(Seq(Parts)) /\ Len(lists) = m + 2
  BY <1>2
<1>2d. /\ cut[1] = 1 /\ cut[m + 3] = Len(t) + 1
       /\ \A g \in 1 .. m : cut[g + 1] = all[g]
       /\ \A k \in m + 1 .. Len(all) : cut[m + 2] <= all[k]
       /\ e # 0 => cut[m + 2] = e
  BY <1>2
<1>3. parts \in Seq(Parts) /\ n \in Nat /\ \E own, loc : IsChain(parts, lists, Len(lists), own, loc)
  <2>1. parts \in Seq(Parts) /\ \E own, loc : IsChain(parts, lists, Len(lists), own, loc)
    BY <1>2c, ChainedIs
  <2> HIDE DEF parts
  <2>2. n \in Nat
    BY <2>1
  <2> QED
    BY <2>1, <2>2
<1>4. PICK own, loc : IsChain(parts, lists, Len(lists), own, loc)
  BY <1>3
<1>5. Ascending(all, Len(t)) /\ Len(t) \in Nat /\ Len(t) + 1 \in Nat /\ e \in Nat
  <2>1. Len(t) \in Nat
    BY DEF Texts
  <2>2. Ascending(all, Len(t))
    BY HeadingsAre
  <2>3. e \in 0 .. Len(t)
    BY AppendixIs
  <2> HIDE DEF e, all
  <2> QED
    BY <2>1, <2>2, <2>3
<1> HIDE DEF all, e, parts
<1>6. /\ all \in Seq(Nat) /\ Len(all) \in Nat /\ \A k \in 1 .. Len(all) : all[k] \in Nat
      /\ \A j, k \in 1 .. Len(all) : j < k => all[j] < all[k]
  BY <1>5 DEF Ascending
<1>7. m \in Nat
  BY <1>2, <1>6
<1>8. /\ \A g \in 1 .. m + 3 : cut[g] \in Nat /\ 1 <= cut[g] /\ cut[g] <= Len(t) + 1
      /\ \A g, k \in 1 .. m + 3 : g <= k => cut[g] <= cut[k]
  <2>1. \A g \in 1 .. m + 3 : cut[g] \in 1 .. Len(t) + 1
    BY <1>2
  <2>2. \A g \in 1 .. m + 3 : cut[g] \in Nat /\ 1 <= cut[g] /\ cut[g] <= Len(t) + 1
    BY <1>5, <2>1
  <2>3. ASSUME NEW g \in 1 .. m + 3, NEW k \in 1 .. m + 3, g <= k PROVE cut[g] <= cut[k]
    <3>1. g = k \/ g < k
      BY <1>7, <2>3
    <3> QED
      BY <1>2, <2>2, <3>1
  <2> QED
    BY <2>2, <2>3
<1>9. \A a \in 1 .. n :
        /\ own[a] \in 1 .. m + 2 /\ loc[a] \in 1 .. Len(lists[own[a]])
        /\ loc[a] \in Nat /\ parts[a] = lists[own[a]][loc[a]]
  <2>1. own \in [1 .. n -> 1 .. Len(lists)] /\ loc \in [1 .. n -> Nat]
    BY <1>4 DEF IsChain
  <2>2. \A a \in 1 .. n : loc[a] \in 1 .. Len(lists[own[a]]) /\ parts[a] = lists[own[a]][loc[a]]
    BY <1>4 DEF IsChain
  <2> QED
    BY <1>2, <2>1, <2>2
<1>10. \A a, b \in 1 .. n : a < b => own[a] < own[b] \/ (own[a] = own[b] /\ loc[a] < loc[b])
  BY <1>4 DEF IsChain
<1>11. \A j \in 1 .. m + 2 : \A l \in 1 .. Len(lists[j]) :
         \E a \in 1 .. n : own[a] = j /\ loc[a] = l
  BY <1>2, <1>4 DEF IsChain
<1>12. ASSUME NEW a \in 1 .. n
       PROVE  /\ parts[a] \in Parts
              /\ cut[own[a]] <= parts[a].from /\ parts[a].from <= parts[a].to
              /\ parts[a].to <= cut[own[a] + 1]
              /\ IF own[a] \in 2 .. m + 1
                 THEN /\ parts[a].heading = all[own[a] - 1] /\ parts[a].heading = cut[own[a]]
                      /\ AreSegments(t, lists[own[a]], all[own[a] - 1], cut[own[a] + 1])
                 ELSE /\ parts[a].heading = 0 /\ parts[a].clause = 0
                      /\ parts[a].from = cut[own[a]] /\ parts[a].to = cut[own[a] + 1] /\ loc[a] = 1
                      /\ own[a] = 1 \/ (own[a] = m + 2 /\ e # 0 /\ parts[a].from = e)
  <2> DEFINE g == own[a]
             l == loc[a]
             p == lists[g][l]
  <2>1. g \in 1 .. m + 2 /\ l \in 1 .. Len(lists[g]) /\ parts[a] = p
    BY <1>9
  <2>2. AreGroups(t, lists, m, cut)
    BY <1>1
  <2> HIDE DEF g, l, p
  <2>3. /\ p \in Parts
        /\ cut[g] <= p.from /\ p.from <= p.to /\ p.to <= cut[g + 1]
        /\ IF g \in 2 .. m + 1
           THEN /\ p.heading = all[g - 1] /\ p.heading = cut[g]
                /\ AreSegments(t, lists[g], all[g - 1], cut[g + 1])
           ELSE /\ p.heading = 0 /\ p.clause = 0
                /\ p.from = cut[g] /\ p.to = cut[g + 1] /\ l = 1
                /\ g = 1 \/ (g = m + 2 /\ e # 0 /\ p.from = e)
    BY <2>1, <2>2, GroupIs DEF p, all, e
  <2> QED
    BY <2>1, <2>3 DEF g, l
<1>13. \A a \in 1 .. n : /\ parts[a].from \in Nat /\ parts[a].to \in Nat
                         /\ parts[a].heading \in Nat /\ parts[a].clause \in Nat
  BY <1>12 DEF Parts
<1> HIDE DEF n
<1>14. \A a \in 1 .. n : /\ own[a] \in 1 .. m + 3 /\ own[a] + 1 \in 1 .. m + 3
                         /\ own[a] \in Nat /\ own[a] - 1 \in Nat
  BY <1>7, <1>9
<1>15. \A a \in 1 .. n : own[a] \in 2 .. m + 1 =>
         /\ own[a] - 1 \in 1 .. m /\ own[a] - 1 \in 1 .. Len(all)
         /\ all[own[a] - 1] \in Nat /\ all[own[a] - 1] > 0
  <2> SUFFICES ASSUME NEW a \in 1 .. n, own[a] \in 2 .. m + 1
               PROVE  /\ own[a] - 1 \in 1 .. m /\ own[a] - 1 \in 1 .. Len(all)
                      /\ all[own[a] - 1] \in Nat /\ all[own[a] - 1] > 0
    OBVIOUS
  <2> DEFINE o == own[a]
             i == o - 1
             L == Len(all)
  <2>0. o \in 2 .. m + 1 /\ m \in 0 .. L /\ L \in Nat
    BY <1>2b, <1>6
  <2> HIDE DEF o, L
  <2>1. i \in 1 .. m /\ i \in 1 .. L
    BY <2>0
  <2> HIDE DEF i
  <2>2. all[i] \in 1 .. Len(t)
    BY <1>5, <2>1 DEF Ascending, L
  <2>3. all[i] \in Nat /\ all[i] > 0
    BY <1>5, <2>2
  <2> QED
    BY <2>1, <2>3 DEF i, o, L
<1>16. \A a \in 1 .. n : parts[a].heading # 0 => own[a] \in 2 .. m + 1
  BY <1>12
<1>17. \A a \in 1 .. n :
         1 <= parts[a].from /\ parts[a].from <= parts[a].to /\ parts[a].to <= Len(t) + 1
  <2> SUFFICES ASSUME NEW a \in 1 .. n
               PROVE  /\ 1 <= parts[a].from /\ parts[a].from <= parts[a].to
                      /\ parts[a].to <= Len(t) + 1
    OBVIOUS
  <2>1. /\ cut[own[a]] \in Nat /\ 1 <= cut[own[a]]
        /\ cut[own[a] + 1] \in Nat /\ cut[own[a] + 1] <= Len(t) + 1
    BY <1>8, <1>14
  <2>2. /\ cut[own[a]] <= parts[a].from /\ parts[a].from <= parts[a].to
        /\ parts[a].to <= cut[own[a] + 1]
    BY <1>12
  <2>3. parts[a].from \in Nat /\ parts[a].to \in Nat
    BY <1>13
  <2> QED
    BY <1>5, <2>1, <2>2, <2>3
<1>18. ASSUME NEW a \in 1 .. n, own[a] \in 2 .. m + 1
       PROVE  LET p == parts[a]
              IN  /\ p.heading <= p.from /\ p.from < p.to /\ t[p.from] \notin White
                  /\ p.clause > 0 => ClauseOpens(t, p, p.heading) /\ ClauseHolds(t, p, p.heading)
  BY SMTT(40), <1>9, <1>12, <1>18 DEF AreSegments
<1>19. ASSUME NEW a \in 1 .. n, own[a] \in 2 .. m + 1, NEW i \in 1 .. Len(all)
       PROVE  all[i] <= parts[a].heading \/ parts[a].to <= all[i]
  <2> DEFINE g == own[a] - 1
  <2>1. /\ g \in 1 .. m /\ g \in 1 .. Len(all) /\ parts[a].heading = all[g]
        /\ own[a] = g + 1 /\ own[a] + 1 = g + 2
    BY SMTT(40), <1>12, <1>14, <1>15, <1>19
  <2> HIDE DEF g
  <2>2. parts[a].to <= cut[g + 2] /\ parts[a].to \in Nat /\ cut[g + 2] \in Nat
    BY <1>8, <1>12, <1>13, <1>14, <2>1
  <2>3. CASE i <= g
    BY <1>6, <2>1, <2>3
  <2>4. CASE g < i /\ g < m
    <3>1. g + 1 \in 1 .. m /\ (g + 1) + 1 = g + 2 /\ g + 1 <= i /\ g + 1 \in 1 .. Len(all)
      BY <1>2, <1>6, <1>7, <2>1, <2>4
    <3>2. cut[g + 2] = all[g + 1]
      BY <1>2, <3>1
    <3>3. all[g + 1] <= all[i]
      BY SMTT(40), <1>6, <3>1
    <3> QED
      BY <1>6, <2>2, <3>1, <3>2, <3>3
  <2>5. CASE g < i /\ ~(g < m)
    <3>1. g = m /\ i \in m + 1 .. Len(all)
      BY <1>6, <1>7, <2>1, <2>5
    <3>2. cut[g + 2] <= all[i]
      BY <1>2, <3>1
    <3> QED
      BY <1>6, <2>2, <3>2
  <2> QED
    BY <1>7, <2>1, <2>3, <2>4, <2>5
<1>20. ASSUME NEW a \in 1 .. n, own[a] \in 2 .. m + 1 PROVE e = 0 \/ parts[a].to <= e
  <2>1. own[a] + 1 \in 1 .. m + 3 /\ m + 2 \in 1 .. m + 3 /\ own[a] + 1 <= m + 2
    BY <1>7, <1>14, <1>20
  <2>2. cut[own[a] + 1] <= cut[m + 2] /\ cut[own[a] + 1] \in Nat
    BY <1>8, <2>1
  <2>3. parts[a].to <= cut[own[a] + 1] /\ parts[a].to \in Nat
    BY <1>12, <1>13
  <2> QED
    BY <1>2d, <1>5, <2>2, <2>3
<1>21. ASSUME NEW a \in 1 .. n, own[a] \notin 2 .. m + 1
       PROVE  (\A i \in 1 .. Len(all) : parts[a].to <= all[i]) \/ (e # 0 /\ parts[a].from = e)
  <2>1. CASE own[a] = 1
    <3> SUFFICES ASSUME NEW i \in 1 .. Len(all) PROVE parts[a].to <= all[i]
      OBVIOUS
    <3>1. parts[a].to = cut[2]
      BY <1>12, <1>21, <2>1
    <3>2. m > 0
      <4>1. all # <<>>
        BY <1>6
      <4> QED
        BY <1>2, <4>1
    <3>3. 1 \in 1 .. m /\ 1 + 1 = 2 /\ 1 \in 1 .. Len(all) /\ (i = 1 \/ 1 < i)
      BY <1>2b, <1>6, <1>7, <3>2
    <3>4. cut[2] = all[1] /\ all[1] <= all[i]
      <4>1. cut[1 + 1] = all[1]
        BY <1>2d, <3>3
      <4>2. all[1] = all[i] \/ all[1] < all[i]
        BY <1>6, <3>3
      <4>3. all[1] \in Nat /\ all[i] \in Nat
        BY <1>6, <3>3
      <4> QED
        BY <3>3, <4>1, <4>2, <4>3
    <3> QED
      BY <3>1, <3>4
  <2>2. CASE own[a] # 1
    BY <1>12, <1>21, <2>2
  <2> QED
    BY <2>1, <2>2
<1>22. ASSUME NEW a \in 1 .. n PROVE PartIsUnder(parts[a], t, all, e)
  <2>1. CASE own[a] \in 2 .. m + 1
    <3>1. parts[a].heading = all[own[a] - 1] /\ own[a] - 1 \in 1 .. Len(all) /\ parts[a].heading # 0
      BY <1>12, <1>15, <2>1
    <3>2. \E i \in 1 .. Len(all) : parts[a].heading = all[i]
      BY <3>1
    <3>3. /\ parts[a].heading <= parts[a].from /\ parts[a].from < parts[a].to
          /\ t[parts[a].from] \notin White
          /\ parts[a].clause > 0 => /\ ClauseOpens(t, parts[a], parts[a].heading)
                                    /\ ClauseHolds(t, parts[a], parts[a].heading)
      BY <1>18, <2>1
    <3> QED
      BY <1>19, <1>20, <2>1, <3>1, <3>2, <3>3 DEF PartIsUnder
  <2>2. CASE own[a] \notin 2 .. m + 1
    BY <1>12, <1>21, <2>2 DEF PartIsUnder
  <2> QED
    BY <2>1, <2>2
<1>23. ASSUME NEW a \in 1 .. n, parts[a].clause > 0
       PROVE  \/ parts[a].clause = 1 /\ parts[a].from = parts[a].heading
              \/ /\ a > 1 /\ parts[a - 1].heading = parts[a].heading
                 /\ parts[a - 1].clause = parts[a].clause - 1
  <2>1. own[a] \in 2 .. m + 1
    BY <1>12, <1>23
  <2> DEFINE segs == lists[own[a]]
             h == all[own[a] - 1]
             l == loc[a]
  <2>2. /\ parts[a] = segs[l] /\ l \in 1 .. Len(segs) /\ l \in Nat /\ parts[a].heading = h
        /\ AreSegments(t, segs, h, cut[own[a] + 1])
    BY <1>9, <1>12, <2>1
  <2>3. CASE parts[a].clause = 1 /\ parts[a].from = h
    BY <2>2, <2>3
  <2>4. CASE l > 1 /\ segs[l - 1].clause = segs[l].clause - 1
    <3>1. a > 1 /\ own[a - 1] = own[a] /\ loc[a - 1] = loc[a] - 1
      BY <1>2, <1>3, <1>4, <2>4, ChainBefore DEF n
    <3>2. a - 1 \in 1 .. n
      BY <1>3, <3>1 DEF n
    <3>3. parts[a - 1] = segs[l - 1]
      BY <1>9, <3>1, <3>2
    <3>4. parts[a - 1].heading = h
      BY <1>12, <2>1, <3>1, <3>2
    <3> QED
      BY <2>2, <2>4, <3>1, <3>3, <3>4
  <2>5. \/ parts[a].clause = 1 /\ parts[a].from = h
        \/ l > 1 /\ segs[l - 1].clause = segs[l].clause - 1
    <3> HIDE DEF segs, h, l
    <3> QED
      BY <1>23, <2>2 DEF AreSegments
  <2> QED
    BY <2>3, <2>4, <2>5
<1>24. ASSUME NEW j \in 1 .. n, NEW k \in 1 .. n, j < k
       PROVE  parts[j].to <= parts[k].from
  <2>1. CASE own[j] < own[k]
    <3>1. own[j] + 1 <= own[k]
      BY <1>14, <2>1
    <3>2. cut[own[j] + 1] <= cut[own[k]] /\ cut[own[j] + 1] \in Nat /\ cut[own[k]] \in Nat
      BY <1>8, <1>14, <3>1
    <3> QED
      BY <1>12, <1>13, <3>2
  <2>2. CASE own[j] = own[k] /\ loc[j] < loc[k]
    <3>1. own[j] \in 2 .. m + 1
      <4>1. own[j] \notin 2 .. m + 1 => loc[j] = 1 /\ loc[k] = 1
        BY <1>12, <2>2
      <4> QED
        BY <2>2, <4>1
    <3>2. AreSegments(t, lists[own[j]], all[own[j] - 1], cut[own[j] + 1])
      BY <1>12, <3>1
    <3>3. /\ loc[j] \in 1 .. Len(lists[own[j]]) /\ parts[j] = lists[own[j]][loc[j]]
          /\ loc[k] \in 1 .. Len(lists[own[j]]) /\ parts[k] = lists[own[j]][loc[k]]
      BY <1>9, <2>2
    <3> QED
      BY <2>2, <3>2, <3>3 DEF AreSegments
  <2> QED
    BY <1>10, <1>24, <2>1, <2>2
<1>25. ASSUME NEW j \in 1 .. n, NEW k \in 1 .. n, j < k,
              parts[j].heading # 0, parts[k].heading # 0
       PROVE  \/ parts[j].heading < parts[k].heading
              \/ parts[j].heading = parts[k].heading /\ parts[j].clause < parts[k].clause
  <2>1. own[j] \in 2 .. m + 1 /\ own[k] \in 2 .. m + 1
    BY <1>16, <1>25
  <2>2. CASE own[j] < own[k]
    <3> DEFINE i == own[j] - 1
               l == own[k] - 1
    <3>1. i \in 1 .. Len(all) /\ l \in 1 .. Len(all) /\ i < l
      BY SMTT(40), <1>14, <1>15, <2>1, <2>2
    <3>2. parts[j].heading = all[i] /\ parts[k].heading = all[l]
      BY <1>12, <2>1
    <3> HIDE DEF i, l
    <3> QED
      BY <1>6, <3>1, <3>2
  <2>3. CASE own[j] = own[k] /\ loc[j] < loc[k]
    <3>1. AreSegments(t, lists[own[j]], all[own[j] - 1], cut[own[j] + 1])
      BY <1>12, <2>1
    <3>2. /\ loc[j] \in 1 .. Len(lists[own[j]]) /\ parts[j] = lists[own[j]][loc[j]]
          /\ loc[k] \in 1 .. Len(lists[own[j]]) /\ parts[k] = lists[own[j]][loc[k]]
      BY <1>9, <2>3
    <3>3. parts[j].clause < parts[k].clause
      BY <2>3, <3>1, <3>2 DEF AreSegments
    <3>4. parts[j].heading = parts[k].heading
      BY <1>12, <2>1, <2>3
    <3> QED
      BY <3>3, <3>4
  <2> QED
    BY <1>10, <1>25, <2>2, <2>3
<1> DEFINE top == IF lists[1] = <<>> THEN cut[2] ELSE 1
<1>26. /\ top \in 1 .. Len(t) + 1 /\ top \in Nat
       /\ top = 1 \/ Solid(t, 1, top) < MinPreamble
       /\ lists[1] = <<>> => top = cut[2]
       /\ lists[1] # <<>> => top = 1
  <2>1. 2 \in 1 .. m + 3
    BY <1>7
  <2>2. cut[2] \in 1 .. Len(t) + 1 /\ cut[2] \in Nat
    BY <1>2, <1>8, <2>1
  <2>3. << Part(1, cut[2], 0, 0) >> # <<>>
    OBVIOUS
  <2>4. lists[1] = <<>> => Solid(t, 1, cut[2]) < MinPreamble
    BY <1>2, <2>3
  <2> QED
    BY <1>5, <2>2, <2>4
<1> HIDE DEF top
<1>27. ASSUME NEW k \in 1 .. n PROVE top <= parts[k].from
  <2>1. CASE lists[1] = <<>>
    <3>1. own[k] # 1
      <4>1. loc[k] \in 1 .. Len(lists[own[k]]) /\ Len(<<>>) = 0 /\ 1 .. 0 = {}
        BY <1>9
      <4> QED
        BY <2>1, <4>1
    <3>2. 2 \in 1 .. m + 3 /\ 2 <= own[k]
      BY <1>7, <1>9, <3>1
    <3>3. cut[2] <= cut[own[k]] /\ cut[2] \in Nat /\ cut[own[k]] \in Nat
      BY <1>8, <1>14, <3>2
    <3> QED
      BY <1>12, <1>13, <1>26, <2>1, <3>3
  <2>2. CASE lists[1] # <<>>
    BY <1>17, <1>26, <2>2
  <2> QED
    BY <2>1, <2>2
<1>28. ASSUME NEW i \in top .. Len(t)
       PROVE  \E k \in 1 .. n : i \in parts[k].from .. parts[k].to - 1
  <2> DEFINE S == {g \in 1 .. m + 2 : cut[g] <= i}
  <2>1. S \in SUBSET (1 .. m + 2) /\ 1 \in S /\ m + 2 \in Nat /\ i \in Nat /\ 1 <= i /\ top <= i
        /\ i <= Len(t)
    <3>1. i \in Nat /\ 1 <= i /\ top <= i /\ i <= Len(t)
      BY <1>5, <1>26
    <3>2. 1 \in 1 .. m + 2 /\ m + 2 \in Nat
      BY <1>7
    <3> QED
      BY <1>2, <3>1, <3>2
  <2>2. Max(S) \in S /\ \A l \in S : l <= Max(S)
    <3> HIDE DEF S
    <3> QED
      BY <2>1, LastPlace
  <2> DEFINE g == Max(S)
  <2>3. g \in 1 .. m + 2 /\ cut[g] <= i /\ \A l \in 1 .. m + 2 : cut[l] <= i => l <= g
    BY <2>2
  <2> HIDE DEF g, S
  <2>4. g + 1 \in 1 .. m + 3 /\ g \in 1 .. m + 3 /\ g \in Nat
    BY <1>7, <2>3
  <2>5. cut[g] \in Nat /\ cut[g + 1] \in Nat
    BY <1>8, <2>4
  <2>6. i < cut[g + 1]
    <3>1. CASE g = m + 2
      <4>1. g + 1 = m + 3
        BY <1>7, <3>1
      <4> QED
        BY <1>2d, <1>5, <2>1, <4>1
    <3>2. CASE g # m + 2
      <4>1. g + 1 \in 1 .. m + 2 /\ ~(g + 1 <= g)
        BY <1>7, <2>3, <3>2
      <4>2. ~(cut[g + 1] <= i)
        BY <2>3, <4>1
      <4> QED
        BY <2>1, <2>5, <4>2
    <3> QED
      BY <3>1, <3>2
  <2>7. i \in cut[g] .. cut[g + 1] - 1
    BY <2>1, <2>3, <2>5, <2>6
  <2>8. \E l \in 1 .. Len(lists[g]) : i \in lists[g][l].from .. lists[g][l].to - 1
    <3>1. CASE g \in 2 .. m + 1
      <4> DEFINE h == g - 1
      <4>1. h \in 1 .. m /\ h + 1 = g /\ h + 2 = g + 1
        BY <1>7, <2>4, <3>1
      <4> HIDE DEF h
      <4>2. AreSegments(t, lists[g], all[h], cut[g + 1]) /\ cut[g] = all[h]
        BY <1>2, <1>2a, <4>1
      <4> QED
        BY <2>5, <2>7, <4>2, SegmentCovers
    <3>2. CASE g = 1
      <4>1. lists[1] # <<>>
        <5>1. lists[1] = <<>> => top = cut[2]
          BY <1>26
        <5>2. g + 1 = 2
          BY <3>2
        <5> QED
          BY <1>26, <2>1, <2>5, <2>6, <5>1, <5>2
      <4>2. lists[1] = << Part(1, cut[2], 0, 0) >>
        BY <1>2, <4>1
      <4>3. Len(lists[g]) = 1 /\ lists[g][1] = Part(1, cut[2], 0, 0) /\ 1 \in 1 .. 1
        BY <3>2, <4>2
      <4>4. Part(1, cut[2], 0, 0).from = 1 /\ Part(1, cut[2], 0, 0).to = cut[2]
        BY DEF Part
      <4>5. cut[g] = 1 /\ g + 1 = 2
        BY <1>2d, <3>2
      <4> QED
        BY <2>7, <4>3, <4>4, <4>5
    <3>3. CASE g = m + 2
      <4>1. g + 1 = m + 3
        BY <1>7, <3>3
      <4>2. e # 0
        <5>1. e = 0 => cut[g] = Len(t) + 1
          BY <1>2, <3>3
        <5> QED
          BY <1>5, <2>1, <2>3, <5>1
      <4>3. lists[g] = << Part(e, Len(t) + 1, 0, 0) >>
        BY <1>2, <3>3, <4>2
      <4>4. Len(lists[g]) = 1 /\ lists[g][1] = Part(e, Len(t) + 1, 0, 0) /\ 1 \in 1 .. 1
        BY <4>3
      <4>5. Part(e, Len(t) + 1, 0, 0).from = e /\ Part(e, Len(t) + 1, 0, 0).to = Len(t) + 1
        BY DEF Part
      <4>6. cut[g] = e /\ cut[g + 1] = Len(t) + 1
        BY <1>2, <3>3, <4>1, <4>2
      <4> QED
        BY <2>7, <4>4, <4>5, <4>6
    <3> QED
      BY <1>7, <2>3, <3>1, <3>2, <3>3
  <2>9. PICK l \in 1 .. Len(lists[g]) : i \in lists[g][l].from .. lists[g][l].to - 1
    BY <2>8
  <2>10. PICK k \in 1 .. n : own[k] = g /\ loc[k] = l
    BY <1>11, <2>3
  <2> QED
    BY <1>9, <2>9, <2>10
<1>28a. all # <<>> => top <= all[1]
  <2> SUFFICES ASSUME all # <<>> PROVE top <= all[1]
    OBVIOUS
  <2>1. m > 0 /\ 1 \in 1 .. m
    BY <1>2, <1>7
  <2>2. cut[1 + 1] = all[1]
    BY <1>2d, <2>1
  <2>3. all[1] \in Nat /\ 1 <= all[1]
    <3>1. 2 \in 1 .. m + 3 /\ 1 + 1 = 2
      BY <1>7
    <3>2. cut[2] \in 1 .. Len(t) + 1
      BY <1>2, <3>1
    <3> QED
      BY <1>5, <2>2, <3>1, <3>2
  <2> QED
    BY <1>26, <2>2, <2>3
<1>29. AreParts(t, parts)
  <2>1. /\ all = Headings(t) /\ e = AppendixStart(t, Headings(t)) /\ n = Len(parts)
    BY DEF all, e, n
  <2>2. parts \in Seq(Parts)
    BY <1>3
  <2>3. \A k \in 1 .. n : PartIsUnder(parts[k], t, Headings(t), AppendixStart(t, Headings(t)))
    BY <1>22, <2>1
  <2> HIDE DEF n
  <2> QED
    BY <1>17, <1>23, <1>24, <1>25, <1>26, <1>27, <1>28, <1>28a, <2>1, <2>2, <2>3 DEF AreParts
<1> QED
  BY <1>1, <1>29 DEF parts

-----------------------------------------------------------------------------
(* The passages of the parts.                                              *)

(* Records that ParsedChunk makes.                                         *)
Passages == [start : Nat, end : Nat, heading : Nat, clause : Nat, first : Nat, last : Nat]

(* A page is a number.                                                     *)
LEMMA PageForIs ==
  ASSUME NEW bounds \in Seq(Nat), NEW i
  PROVE  PageFor(bounds, i) \in Nat
<1> DEFINE S == {p \in DOMAIN bounds : bounds[p] <= i}
<1>1. DOMAIN bounds = 1 .. Len(bounds) /\ Len(bounds) \in Nat
  OBVIOUS
<1>2. IsFiniteSet(DOMAIN bounds)
  <2>1. 1 \in Int /\ Len(bounds) \in Int
    BY <1>1
  <2> QED
    BY <1>1, <2>1, FS_Interval
<1>3. S \in SUBSET (DOMAIN bounds)
  OBVIOUS
<1>4. Cardinality(S) \in Nat
  BY <1>2, <1>3, FS_Subset, FS_CardinalityType
<1> QED
  BY <1>4 DEF PageFor

(* What starts with more than white space.                                 *)
IsSolid(t, p) == p.from < p.to /\ t[p.from] \notin White

(* A passage is a piece of a part, of a long one if it does not begin it.  *)
IsPassage(t, bounds, c, p) ==
  /\ c \in Passages
  /\ p.from <= c.start /\ c.start < c.end /\ c.end <= p.to /\ c.end - c.start <= MaxChunk
  /\ t[c.start] \notin White /\ t[c.end - 1] \notin White
  /\ c.heading = p.heading /\ c.clause = p.clause
  /\ c.first = PageFor(bounds, c.start) /\ c.last = PageFor(bounds, c.end - 1)
  /\ IsSolid(t, p) => c.start = p.from \/ IsLong(t, p.from, p.to)

(* The passages of a part.                                                 *)
LEMMA ChunksAre ==
  ASSUME NEW t \in Texts, NEW bounds \in Seq(Nat), NEW p \in Parts,
         p.from \in 1 .. Len(t) + 1, p.to \in p.from .. Len(t) + 1
  PROVE  LET s == ChunksOf(t, bounds, p)
         IN  /\ s \in Seq(Passages)
             /\ \A k \in 1 .. Len(s) : IsPassage(t, bounds, s[k], p)
             /\ \A j, k \in 1 .. Len(s) : j < k => s[j].end <= s[k].start
             /\ \A i \in p.from .. p.to - 1 : t[i] \notin White =>
                  \E k \in 1 .. Len(s) : i \in s[k].start .. s[k].end - 1
             /\ IsSolid(t, p) => Len(s) >= 1 /\ s[1].start = p.from
<1> DEFINE spans == SplitSpan(t, p.from, p.to)
           s == ChunksOf(t, bounds, p)
           n == Len(spans)
<1>1. /\ IsCut(t, spans, p.from, p.to)
      /\ IsSolid(t, p) => n >= 1 /\ spans[1][1] = p.from
      /\ IsSolid(t, p) => \A k \in 1 .. n : spans[k][1] = p.from \/ IsLong(t, p.from, p.to)
  BY SplitSpanIs DEF IsSolid
<1>2. spans \in Seq(Spans) /\ DOMAIN spans = 1 .. n /\ n \in Nat
  <2>1. spans \in Seq(Spans)
    BY <1>1 DEF IsCut
  <2> HIDE DEF spans
  <2> QED
    BY <2>1
<1>3. s = [k \in 1 .. n |-> ParsedChunk(bounds, spans[k], p)]
  BY <1>2 DEF ChunksOf
<1>4. /\ \A k \in 1 .. n :
           /\ p.from <= spans[k][1] /\ spans[k][2] <= p.to
           /\ spans[k][2] - spans[k][1] \in 1 .. MaxChunk
           /\ t[spans[k][1]] \notin White /\ t[spans[k][2] - 1] \notin White
      /\ \A j, k \in 1 .. n : j < k => spans[j][2] <= spans[k][1]
      /\ \A i \in p.from .. p.to - 1 :
           t[i] \notin White => \E k \in 1 .. n : i \in spans[k][1] .. spans[k][2] - 1
  BY <1>1 DEF IsCut
<1> HIDE DEF spans, n, s
<1>5. MaxChunk \in Nat
  BY ChunkingAssumption
<1>6. ASSUME NEW k \in 1 .. n
      PROVE  /\ s[k].start = spans[k][1] /\ s[k].end = spans[k][2]
             /\ IsPassage(t, bounds, s[k], p)
  <2> DEFINE a == spans[k][1]
             b == spans[k][2]
             c == s[k]
  <2>1. a \in Nat /\ b \in Nat
    <3>1. spans[k] \in Spans
      BY <1>2 DEF n
    <3> QED
      BY <3>1 DEF Spans
  <2>2. p.from <= a /\ b <= p.to /\ b - a \in 1 .. MaxChunk
    BY <1>4
  <2>3. c = ParsedChunk(bounds, spans[k], p)
    BY <1>3
  <2>4. /\ c.start = a /\ c.end = b /\ c.heading = p.heading /\ c.clause = p.clause
        /\ c.first = PageFor(bounds, a) /\ c.last = PageFor(bounds, Max({b - 1, a}))
        /\ c = [start |-> a, end |-> b, heading |-> p.heading, clause |-> p.clause,
                first |-> PageFor(bounds, a), last |-> PageFor(bounds, Max({b - 1, a}))]
    BY <2>3 DEF ParsedChunk
  <2>4a. t[a] \notin White /\ t[b - 1] \notin White
    BY <1>4
  <2>4b. IsSolid(t, p) => a = p.from \/ IsLong(t, p.from, p.to)
    BY <1>1 DEF n
  <2> HIDE DEF a, b
  <2>5. a < b /\ b - a <= MaxChunk /\ b - 1 \in Nat /\ b - 1 >= a
    BY <1>5, <2>1, <2>2
  <2>6. Max({b - 1, a}) = b - 1
    <3> DEFINE S == {b - 1, a}
    <3>1. S \in SUBSET Nat /\ S # {} /\ IsFiniteSet(S)
      <4>1. a \in Int /\ b - 1 \in Int /\ S \subseteq a .. b - 1
        BY <2>1, <2>5
      <4>2. IsFiniteSet(a .. b - 1)
        BY <4>1, FS_Interval
      <4>3. IsFiniteSet(S)
        BY <4>1, <4>2, FS_Subset
      <4> QED
        BY <2>1, <2>5, <4>3
    <3> HIDE DEF S
    <3>2. Max(S) \in S /\ \A i \in S : i <= Max(S)
      BY <3>1, GreatestOfAll
    <3> QED
      BY <2>1, <2>5, <3>2 DEF S
  <2>7. PageFor(bounds, a) \in Nat /\ PageFor(bounds, b - 1) \in Nat
    BY PageForIs
  <2>8. c \in Passages
    <3>1. p.heading \in Nat /\ p.clause \in Nat
      BY DEF Parts
    <3> HIDE DEF c
    <3> QED
      BY <2>1, <2>4, <2>6, <2>7, <3>1 DEF Passages
  <2> HIDE DEF c
  <2>9. IsPassage(t, bounds, c, p)
    BY <2>2, <2>4, <2>4a, <2>4b, <2>5, <2>6, <2>8 DEF IsPassage
  <2> QED
    BY <2>4, <2>9 DEF a, b, c
<1>7. s \in Seq(Passages) /\ Len(s) = n
  <2>1. s \in [1 .. n -> Passages]
    <3>1. \A k \in 1 .. n : s[k] \in Passages
      BY <1>6 DEF IsPassage
    <3>2. DOMAIN s = 1 .. n /\ s = [k \in 1 .. n |-> s[k]]
      BY <1>3
    <3> QED
      BY <3>1, <3>2
  <2>2. n \in Nat
    BY <1>2
  <2> QED
    BY <2>1, <2>2
<1>8. \A j, k \in 1 .. n : j < k => s[j].end <= s[k].start
  BY <1>4, <1>6
<1>9. \A i \in p.from .. p.to - 1 : t[i] \notin White =>
        \E k \in 1 .. n : i \in s[k].start .. s[k].end - 1
  BY <1>4, <1>6
<1>10. IsSolid(t, p) => n >= 1 /\ s[1].start = p.from
  <2> SUFFICES ASSUME IsSolid(t, p) PROVE n >= 1 /\ s[1].start = p.from
    OBVIOUS
  <2>1. n >= 1 /\ spans[1][1] = p.from
    BY <1>1 DEF n
  <2>2. 1 \in 1 .. n
    BY <1>2, <2>1
  <2> QED
    BY <1>6, <2>1, <2>2
<1> QED
  BY <1>6, <1>7, <1>8, <1>9, <1>10 DEF s

(* The passages of a text, and the part each is from.                      *)
ArePassages(t, bounds, parts, chunks, own) ==
  /\ chunks \in Seq(Passages) /\ own \in [1 .. Len(chunks) -> 1 .. Len(parts)]
  /\ \A k \in 1 .. Len(chunks) :
       /\ IsPassage(t, bounds, chunks[k], parts[own[k]])
       /\ \/ k > 1 /\ own[k - 1] = own[k]
          \/ /\ IsSolid(t, parts[own[k]]) => chunks[k].start = parts[own[k]].from
             /\ own[k] > 1 /\ IsSolid(t, parts[own[k] - 1]) => k > 1 /\ own[k - 1] = own[k] - 1
  /\ \A j, k \in 1 .. Len(chunks) : j < k => chunks[j].end <= chunks[k].start /\ own[j] <= own[k]
  /\ \A p \in 1 .. Len(parts) : \A i \in parts[p].from .. parts[p].to - 1 :
       t[i] \notin White => \E k \in 1 .. Len(chunks) : i \in chunks[k].start .. chunks[k].end - 1

(* The passages of all parts, in their order.                              *)
LEMMA PassagesAre ==
  ASSUME NEW t \in Texts, NEW bounds \in Seq(Nat), AreParts(t, TextParts(t))
  PROVE  \E own : ArePassages(t, bounds, TextParts(t), PassagesOf(t, bounds), own)
<1> DEFINE parts == TextParts(t)
           lists == [k \in DOMAIN parts |-> ChunksOf(t, bounds, parts[k])]
           chunks == PassagesOf(t, bounds)
           m == Len(parts)
           n == Len(chunks)
<1>1. chunks = Chained(lists)
  BY DEF PassagesOf
<1>2. /\ parts \in Seq(Parts)
      /\ \A k \in 1 .. m :
           1 <= parts[k].from /\ parts[k].from <= parts[k].to /\ parts[k].to <= Len(t) + 1
      /\ \A j, k \in 1 .. m : j < k => parts[j].to <= parts[k].from
  BY DEF AreParts
<1> HIDE DEF parts, chunks
<1>3. DOMAIN parts = 1 .. m /\ m \in Nat /\ \A k \in 1 .. m : parts[k] \in Parts
  BY <1>2
<1>4. lists = [k \in 1 .. m |-> ChunksOf(t, bounds, parts[k])]
  BY <1>3
<1> HIDE DEF lists
<1>5. ASSUME NEW k \in 1 .. m
      PROVE  LET s == lists[k]
                 p == parts[k]
             IN  /\ s \in Seq(Passages)
                 /\ \A l \in 1 .. Len(s) : IsPassage(t, bounds, s[l], p)
                 /\ \A j, l \in 1 .. Len(s) : j < l => s[j].end <= s[l].start
                 /\ \A i \in p.from .. p.to - 1 : t[i] \notin White =>
                      \E l \in 1 .. Len(s) : i \in s[l].start .. s[l].end - 1
                 /\ IsSolid(t, p) => Len(s) >= 1 /\ s[1].start = p.from
  <2> DEFINE p == parts[k]
  <2>1. lists[k] = ChunksOf(t, bounds, p) /\ p \in Parts
    BY <1>3, <1>4
  <2>2. 1 <= p.from /\ p.from <= p.to /\ p.to <= Len(t) + 1
    BY <1>2
  <2> HIDE DEF p
  <2>3. p.from \in Nat /\ p.to \in Nat /\ Len(t) \in Nat
    BY <2>1 DEF Parts, Texts
  <2>4. p.from \in 1 .. Len(t) + 1 /\ p.to \in p.from .. Len(t) + 1
    BY <2>2, <2>3
  <2> DEFINE s == ChunksOf(t, bounds, p)
  <2>5. /\ s \in Seq(Passages)
        /\ \A l \in 1 .. Len(s) : IsPassage(t, bounds, s[l], p)
        /\ \A j, l \in 1 .. Len(s) : j < l => s[j].end <= s[l].start
        /\ \A i \in p.from .. p.to - 1 : t[i] \notin White =>
             \E l \in 1 .. Len(s) : i \in s[l].start .. s[l].end - 1
        /\ IsSolid(t, p) => Len(s) >= 1 /\ s[1].start = p.from
    BY <2>1, <2>4, ChunksAre
  <2>6. lists[k] = s
    BY <2>1
  <2> HIDE DEF s
  <2> QED
    BY <2>5, <2>6 DEF p
<1>6. lists \in Seq(Seq(Passages)) /\ Len(lists) = m
  <2>1. \A k \in 1 .. m : lists[k] \in Seq(Passages)
    BY <1>5
  <2>2. lists \in [1 .. m -> Seq(Passages)]
    BY <1>4, <2>1
  <2> QED
    BY <1>3, <2>2
<1>7. chunks \in Seq(Passages) /\ n \in Nat
      /\ \E own, loc : IsChain(chunks, lists, Len(lists), own, loc)
  <2>1. chunks \in Seq(Passages) /\ \E own, loc : IsChain(chunks, lists, Len(lists), own, loc)
    BY <1>1, <1>6, ChainedIs
  <2> QED
    BY <2>1
<1>8. PICK own, loc : IsChain(chunks, lists, Len(lists), own, loc)
  BY <1>7
<1>9. /\ own \in [1 .. n -> 1 .. m]
      /\ \A a \in 1 .. n : /\ own[a] \in 1 .. m /\ loc[a] \in 1 .. Len(lists[own[a]])
                           /\ chunks[a] = lists[own[a]][loc[a]]
      /\ \A a, b \in 1 .. n : a < b => own[a] < own[b] \/ (own[a] = own[b] /\ loc[a] < loc[b])
      /\ \A j \in 1 .. m : \A l \in 1 .. Len(lists[j]) :
           \E a \in 1 .. n : own[a] = j /\ loc[a] = l
  <2>1. own \in [1 .. n -> 1 .. m]
    BY <1>6, <1>8 DEF IsChain
  <2>2. \A a \in 1 .. n : /\ own[a] \in 1 .. m /\ loc[a] \in 1 .. Len(lists[own[a]])
                          /\ chunks[a] = lists[own[a]][loc[a]]
    BY <1>8, <2>1 DEF IsChain
  <2>3. \A a, b \in 1 .. n : a < b => own[a] < own[b] \/ (own[a] = own[b] /\ loc[a] < loc[b])
    BY <1>8 DEF IsChain
  <2>4. \A j \in 1 .. m : \A l \in 1 .. Len(lists[j]) : \E a \in 1 .. n : own[a] = j /\ loc[a] = l
    BY <1>6, <1>8 DEF IsChain
  <2> QED
    BY <2>1, <2>2, <2>3, <2>4
<1>10. ASSUME NEW a \in 1 .. n PROVE IsPassage(t, bounds, chunks[a], parts[own[a]])
  BY ZenonT(40), <1>5, <1>9
<1>11. \A a \in 1 .. n : chunks[a].start \in Nat /\ chunks[a].end \in Nat
  <2>1. \A a \in 1 .. n : chunks[a] \in Passages
    BY <1>10 DEF IsPassage
  <2> QED
    BY <2>1 DEF Passages
<1>12. \A k \in 1 .. m : parts[k].from \in Nat /\ parts[k].to \in Nat
  BY <1>3 DEF Parts
<1>13. ASSUME NEW a \in 1 .. n
       PROVE  \/ a > 1 /\ own[a - 1] = own[a]
              \/ /\ IsSolid(t, parts[own[a]]) => chunks[a].start = parts[own[a]].from
                 /\ own[a] > 1 /\ IsSolid(t, parts[own[a] - 1]) => a > 1 /\ own[a - 1] = own[a] - 1
  <2>1. own[a] \in 1 .. m /\ loc[a] \in 1 .. Len(lists[own[a]]) /\ loc[a] \in Nat /\ own[a] \in Nat
    <3>1. own[a] \in 1 .. m /\ loc[a] \in 1 .. Len(lists[own[a]])
      BY <1>9
    <3>2. Len(lists[own[a]]) \in Nat
      BY <1>6, <3>1
    <3> QED
      BY <1>3, <3>1, <3>2
  <2>2. /\ loc[a] > 1 => a > 1 /\ own[a - 1] = own[a]
        /\ loc[a] = 1 /\ own[a] > 1 /\ Len(lists[own[a] - 1]) >= 1 =>
             a > 1 /\ own[a - 1] = own[a] - 1
    BY <1>6, <1>7, <1>8, ChainBefore
  <2>3. CASE loc[a] = 1
    <3>1. IsSolid(t, parts[own[a]]) => chunks[a].start = parts[own[a]].from
      <4> DEFINE k == own[a]
      <4>1. k \in 1 .. m
        BY <2>1
      <4>2. chunks[a] = lists[k][1]
        BY <1>9, <2>3
      <4> HIDE DEF k
      <4>3. IsSolid(t, parts[k]) => lists[k][1].start = parts[k].from
        BY <1>5, <4>1
      <4>4. IsSolid(t, parts[k]) => chunks[a].start = parts[k].from
        BY <4>2, <4>3
      <4> QED
        BY <4>4 DEF k
    <3>2. own[a] > 1 /\ IsSolid(t, parts[own[a] - 1]) => a > 1 /\ own[a - 1] = own[a] - 1
      <4> SUFFICES ASSUME own[a] > 1, IsSolid(t, parts[own[a] - 1])
                   PROVE  a > 1 /\ own[a - 1] = own[a] - 1
        OBVIOUS
      <4>1. own[a] - 1 \in 1 .. m
        BY <1>3, <2>1
      <4>2. Len(lists[own[a] - 1]) >= 1
        BY <1>5, <4>1
      <4> QED
        BY <2>2, <2>3, <4>2
    <3> QED
      BY <3>1, <3>2
  <2>4. CASE loc[a] > 1
    BY <2>2, <2>4
  <2> QED
    BY <2>1, <2>3, <2>4
<1>14. ASSUME NEW a \in 1 .. n, NEW b \in 1 .. n, a < b
       PROVE  chunks[a].end <= chunks[b].start /\ own[a] <= own[b]
  <2>1. own[a] \in 1 .. m /\ own[b] \in 1 .. m
    BY <1>9
  <2>2. CASE own[a] < own[b]
    <3>1. parts[own[a]].to <= parts[own[b]].from
      BY <1>2, <2>1, <2>2
    <3>2. chunks[a].end <= parts[own[a]].to /\ parts[own[b]].from <= chunks[b].start
      BY <1>10 DEF IsPassage
    <3> DEFINE x == chunks[a].end
               y == parts[own[a]].to
               z == parts[own[b]].from
               w == chunks[b].start
    <3>3. x \in Nat /\ w \in Nat
      BY <1>11
    <3>4. y \in Nat /\ z \in Nat
      BY <1>12, <2>1
    <3>5. x <= y /\ y <= z /\ z <= w
      BY <3>1, <3>2
    <3> HIDE DEF x, y, z, w
    <3>6. x <= w
      BY <3>3, <3>4, <3>5
    <3>7. chunks[a].end <= chunks[b].start
      BY <3>6 DEF x, w
    <3> QED
      BY <1>3, <2>1, <2>2, <3>7
  <2>3. CASE own[a] = own[b] /\ loc[a] < loc[b]
    <3>1. /\ chunks[a] = lists[own[a]][loc[a]] /\ loc[a] \in 1 .. Len(lists[own[a]])
          /\ chunks[b] = lists[own[a]][loc[b]] /\ loc[b] \in 1 .. Len(lists[own[a]])
      BY <1>9, <2>3
    <3>2. chunks[a].end <= chunks[b].start
      BY <1>5, <2>1, <2>3, <3>1
    <3> QED
      BY <1>3, <2>1, <2>3, <3>2
  <2> QED
    BY <1>9, <1>14, <2>2, <2>3
<1>15. ASSUME NEW p \in 1 .. m, NEW i \in parts[p].from .. parts[p].to - 1, t[i] \notin White
       PROVE  \E k \in 1 .. n : i \in chunks[k].start .. chunks[k].end - 1
  <2>1. PICK l \in 1 .. Len(lists[p]) : i \in lists[p][l].start .. lists[p][l].end - 1
    BY <1>5, <1>15
  <2>2. PICK k \in 1 .. n : own[k] = p /\ loc[k] = l
    BY <1>9
  <2>3. chunks[k] = lists[p][l]
    BY <1>9, <2>2
  <2> QED
    BY <2>1, <2>3
<1>16. ArePassages(t, bounds, parts, chunks, own)
  <2>1. own \in [1 .. n -> 1 .. m] /\ chunks \in Seq(Passages)
    BY <1>7, <1>9
  <2>2. \A j, k \in 1 .. n : j < k => chunks[j].end <= chunks[k].start /\ own[j] <= own[k]
    BY <1>14
  <2> QED
    BY <1>10, <1>13, <1>15, <2>1, <2>2 DEF ArePassages
<1> QED
  BY <1>16 DEF parts, chunks

(* Nothing but white space and a short preamble is left out.               *)
LEMMA NoneIsLost ==
  ASSUME NEW t \in Texts, NEW bounds \in Seq(Nat)
  PROVE  NothingIsLost(t, PassagesOf(t, bounds))
<1> DEFINE parts == TextParts(t)
           chunks == PassagesOf(t, bounds)
           n == Len(chunks)
           m == Len(parts)
           covered == UNION {chunks[k].start .. chunks[k].end - 1 : k \in DOMAIN chunks}
           lost == {i \in DOMAIN t : t[i] \notin White} \ covered
<1>1. AreParts(t, parts)
  BY TextPartsAre
<1>2. PICK own : ArePassages(t, bounds, parts, chunks, own)
  BY <1>1, PassagesAre
<1> HIDE DEF parts, chunks
<1>3. /\ \A k \in 1 .. m : parts[k] \in Parts
      /\ \A k \in 1 .. m : parts[k].from \in Nat
  <2>1. parts \in Seq(Parts)
    BY <1>1 DEF AreParts
  <2>2. \A k \in 1 .. m : parts[k] \in Parts
    BY <2>1
  <2> QED
    BY <2>2 DEF Parts
<1>4. /\ chunks \in Seq(Passages) /\ DOMAIN chunks = 1 .. n /\ n \in Nat
      /\ \A k \in 1 .. n : own[k] \in 1 .. m
      /\ \A k \in 1 .. n : IsPassage(t, bounds, chunks[k], parts[own[k]])
      /\ \A j, k \in 1 .. n : j < k => chunks[j].end <= chunks[k].start
      /\ \A p \in 1 .. m : \A i \in parts[p].from .. parts[p].to - 1 :
           t[i] \notin White => \E k \in 1 .. n : i \in chunks[k].start .. chunks[k].end - 1
  <2>1. chunks \in Seq(Passages) /\ own \in [1 .. n -> 1 .. m]
    BY <1>2 DEF ArePassages
  <2>2. DOMAIN chunks = 1 .. n /\ n \in Nat /\ \A k \in 1 .. n : own[k] \in 1 .. m
    BY <2>1
  <2>3. \A k \in 1 .. n : IsPassage(t, bounds, chunks[k], parts[own[k]])
    BY <1>2 DEF ArePassages
  <2>4. \A j, k \in 1 .. n : j < k => chunks[j].end <= chunks[k].start
    BY <1>2 DEF ArePassages
  <2>5. \A p \in 1 .. m : \A i \in parts[p].from .. parts[p].to - 1 :
          t[i] \notin White => \E k \in 1 .. n : i \in chunks[k].start .. chunks[k].end - 1
    BY <1>2 DEF ArePassages
  <2> QED
    BY <2>1, <2>2, <2>3, <2>4, <2>5
<1>5. ASSUME NEW k \in 1 .. n
      PROVE  /\ chunks[k].start \in Nat /\ chunks[k].end \in Nat
             /\ chunks[k].end - chunks[k].start \in 1 .. MaxChunk
             /\ parts[own[k]].from <= chunks[k].start
             /\ t[chunks[k].start] \notin White /\ t[chunks[k].end - 1] \notin White
  <2>1. IsPassage(t, bounds, chunks[k], parts[own[k]])
    BY <1>4
  <2>2. chunks[k].start \in Nat /\ chunks[k].end \in Nat
    BY <2>1 DEF IsPassage, Passages
  <2>3. MaxChunk \in Nat
    BY ChunkingAssumption
  <2> QED
    BY <2>1, <2>2, <2>3 DEF IsPassage
<1>6. Len(t) \in Nat /\ DOMAIN t = 1 .. Len(t)
  BY DEF Texts
<1>7. PICK top \in 1 .. Len(t) + 1 :
        /\ top = 1 \/ Solid(t, 1, top) < MinPreamble
        /\ \A k \in 1 .. m : top <= parts[k].from
        /\ \A i \in top .. Len(t) :
             \E k \in 1 .. m : i \in parts[k].from .. parts[k].to - 1
  BY <1>1 DEF AreParts
<1>8. \A i \in lost : i \in 1 .. top - 1 /\ t[i] \notin White
  <2> SUFFICES ASSUME NEW i \in lost PROVE i \in 1 .. top - 1 /\ t[i] \notin White
    OBVIOUS
  <2>1. i \in 1 .. Len(t) /\ t[i] \notin White
    BY <1>6
  <2>2. ~\E k \in 1 .. n : i \in chunks[k].start .. chunks[k].end - 1
    BY <1>4
  <2>3. i \notin top .. Len(t)
    <3> SUFFICES ASSUME i \in top .. Len(t) PROVE FALSE
      OBVIOUS
    <3>1. PICK p \in 1 .. m : i \in parts[p].from .. parts[p].to - 1
      BY <1>7
    <3> QED
      BY <1>4, <2>1, <2>2, <3>1
  <2> HIDE DEF lost
  <2> QED
    BY <1>6, <2>1, <2>3
<1>9. lost # {} => Cardinality(lost) < MinPreamble
  <2> DEFINE S == {i \in 1 .. top - 1 : t[i] \notin White}
  <2>1. lost # {} => top # 1
    <3> HIDE DEF lost
    <3>1. 1 .. 1 - 1 = {}
      OBVIOUS
    <3> QED
      BY <1>8, <3>1
  <2>2. lost \subseteq S
    <3> HIDE DEF lost
    <3> QED
      BY <1>8
  <2>3. IsFiniteSet(S)
    <3>1. 1 \in Int /\ top - 1 \in Int
      BY <1>6
    <3>2. IsFiniteSet(1 .. top - 1) /\ S \subseteq 1 .. top - 1
      BY <3>1, FS_Interval
    <3> HIDE DEF S
    <3> QED
      BY <3>2, FS_Subset
  <2>4. Cardinality(S) = Solid(t, 1, top)
    BY DEF Solid
  <2> HIDE DEF S, lost
  <2>5. IsFiniteSet(lost) /\ Cardinality(lost) <= Cardinality(S)
    BY <2>2, <2>3, FS_Subset
  <2>6. Cardinality(lost) \in Nat /\ Cardinality(S) \in Nat /\ MinPreamble \in Nat
    BY <2>3, <2>5, FS_CardinalityType, ChunkingAssumption
  <2> QED
    BY <1>7, <2>1, <2>4, <2>5, <2>6
<1>10. \A i \in lost : \A k \in 1 .. n : i < chunks[k].start
  <2> SUFFICES ASSUME NEW i \in lost, NEW k \in 1 .. n PROVE i < chunks[k].start
    OBVIOUS
  <2>1. i \in 1 .. top - 1
    BY <1>8
  <2>2. top <= parts[own[k]].from /\ parts[own[k]].from \in Nat
    BY <1>3, <1>4, <1>7
  <2>3. parts[own[k]].from <= chunks[k].start /\ chunks[k].start \in Nat
    BY <1>5
  <2> HIDE DEF lost
  <2> QED
    BY <1>6, <2>1, <2>2, <2>3
<1>11. \A k \in 1 .. n : k > 1 => chunks[k - 1].end <= chunks[k].start
  <2> SUFFICES ASSUME NEW k \in 1 .. n, k > 1 PROVE chunks[k - 1].end <= chunks[k].start
    OBVIOUS
  <2>1. k - 1 \in 1 .. n /\ k - 1 < k
    BY <1>4
  <2> QED
    BY <1>4, <2>1
<1>12. \A k \in 1 .. n : {t[chunks[k].start], t[chunks[k].end - 1]} \cap White = {}
  BY <1>5
<1>13. NothingIsLost(t, chunks)
  <2> HIDE DEF n
  <2>1. \A k \in DOMAIN chunks :
          /\ chunks[k].end - chunks[k].start \in 1 .. MaxChunk
          /\ k > 1 => chunks[k - 1].end <= chunks[k].start
          /\ {t[chunks[k].start], t[chunks[k].end - 1]} \cap White = {}
    BY <1>4, <1>5, <1>11, <1>12
  <2>2. lost # {} => /\ Cardinality(lost) < MinPreamble
                     /\ \A i \in lost : \A k \in DOMAIN chunks : i < chunks[k].start
    BY <1>4, <1>9, <1>10
  <2> QED
    BY <2>1, <2>2 DEF NothingIsLost
<1> QED
  BY <1>13 DEF chunks

-----------------------------------------------------------------------------
(* Articles.                                                               *)

(* The articles of a text that has any are its headings.                   *)
LEMMA ArticlesAreHeadings ==
  ASSUME NEW t \in Texts, RecordArticles(t) # {}
  PROVE  LET all == Headings(t)
         IN  /\ Len(all) \in Nat /\ Len(all) >= 1 /\ Head(all) = all[1] /\ Last(all) = all[Len(all)]
             /\ \A k \in 1 .. Len(all) : all[k] \in RecordArticles(t) /\ all[k] \in 1 .. Len(t)
             /\ \A x \in RecordArticles(t) : \E k \in 1 .. Len(all) : all[k] = x
             /\ \A j, k \in 1 .. Len(all) : j < k => all[j] < all[k]
             /\ \A x \in RecordArticles(t) :
                  /\ x \in 1 .. Len(t) /\ t[x] \notin White /\ Number(t, x) \in Nat
                  /\ all[1] <= x /\ x <= all[Len(all)]
             /\ \A x, y \in RecordArticles(t) : x < y => Number(t, x) < Number(t, y)
<1> DEFINE all == Headings(t)
           n == Len(all)
           T == RecordArticles(t)
<1>1. /\ Ascending(all, Len(t)) /\ all # <<>>
      /\ \A k \in 1 .. n : t[all[k]] \notin White /\ all[k] \in T
      /\ \A x \in T : \E k \in 1 .. n : all[k] = x
  BY HeadingsAre
<1>2. Len(t) \in Nat
  BY DEF Texts
<1> HIDE DEF all
<1>3. /\ n \in Nat /\ n >= 1 /\ Last(all) = all[n] /\ Head(all) = all[1]
      /\ \A k \in 1 .. n : all[1] <= all[k] /\ all[k] <= all[n]
  BY <1>1, <1>2, LastOfPlaces
<1>4. \A k \in 1 .. n : all[k] \in 1 .. Len(t)
  BY <1>1 DEF Ascending
<1>5. \A j, k \in 1 .. n : j < k => all[j] < all[k]
  BY <1>1 DEF Ascending
<1>6. \A x \in T : x \in 1 .. Len(t) /\ t[x] \notin White /\ all[1] <= x /\ x <= all[n]
  BY <1>1, <1>3, <1>4
<1>7. /\ \A x \in T : Number(t, x) \in Nat
      /\ \A x, y \in T : x < y => Number(t, x) < Number(t, y)
  BY RecordArticlesAre
<1> QED
  BY <1>1, <1>3, <1>4, <1>5, <1>6, <1>7 DEF all

(* A line below a heading starts behind the line of the heading.           *)
LEMMA LineBelow ==
  ASSUME NEW t \in Texts, NEW h \in 1 .. Len(t), t[h] \notin White,
         NEW c \in LineStarts(t), h < c
  PROVE  LineEnd(t, h) <= c
<1>1. c \in 1 .. Len(t) /\ StartsLine(t, c) /\ Len(t) \in Nat
  BY DEF LineStarts, Texts
<1> DEFINE end == LineEnd(t, h)
<1>2. end \in h + 1 .. Len(t) + 1 /\ \A j \in h + 1 .. end : ~StartsLine(t, j)
  BY LineEndIs
<1> HIDE DEF end
<1>3. c \notin h + 1 .. end
  BY <1>1, <1>2
<1>4. end <= c
  BY <1>1, <1>2, <1>3
<1> QED
  BY <1>4 DEF end

(* A signature or an appendix behind the last article ends the text there  *)
(* at the latest.                                                          *)
LEMMA EndIsBefore ==
  ASSUME NEW t \in Texts, RecordArticles(t) # {},
         NEW c \in LineStarts(t), t[c] \in Signatures \cup Appendices,
         \A x \in RecordArticles(t) : x < c
  PROVE  AppendixStart(t, Headings(t)) # 0 /\ AppendixStart(t, Headings(t)) <= c
<1> DEFINE all == Headings(t)
           n == Len(all)
           ends(i) == i \in LineStarts(t) /\ i >= LineEnd(t, Head(all)) /\ EndsText(t, all, i)
<1>1. /\ n \in Nat /\ n >= 1 /\ Head(all) = all[1] /\ Last(all) = all[n]
      /\ \A k \in 1 .. n : all[k] \in RecordArticles(t) /\ all[k] \in 1 .. Len(t)
      /\ \A k \in 1 .. n : t[all[k]] \notin White
  <2>1. \A x \in RecordArticles(t) : t[x] \notin White
    BY ArticlesAreHeadings
  <2> QED
    BY <2>1, ArticlesAreHeadings
<1>2. Ascending(all, Len(t)) /\ Len(t) \in Nat /\ c \in Nat
  BY HeadingsAre DEF Texts, LineStarts
<1> HIDE DEF all
<1>3. \A k \in 1 .. n : LineEnd(t, all[k]) <= c /\ LineEnd(t, all[k]) \in Nat
  <2> SUFFICES ASSUME NEW k \in 1 .. n
               PROVE  LineEnd(t, all[k]) <= c /\ LineEnd(t, all[k]) \in Nat
    OBVIOUS
  <2>1. all[k] \in 1 .. Len(t) /\ t[all[k]] \notin White /\ all[k] < c
    BY <1>1
  <2>2. LineEnd(t, all[k]) <= c
    BY <2>1, LineBelow
  <2>3. LineEnd(t, all[k]) \in all[k] + 1 .. Len(t) + 1
    BY <2>1, LineEndIs
  <2> QED
    BY <1>2, <2>1, <2>2, <2>3
<1>4. From(all, c) = <<>>
  <2>1. PICK m \in 0 .. n :
          /\ \A k \in 1 .. n : all[k] < c <=> k <= m
          /\ From(all, c) = SubSeq(all, m + 1, n)
    BY ZenonT(40), <1>2, BeforeIs
  <2>2. n \in 1 .. n /\ all[n] < c
    BY <1>1
  <2>3. m = n
    BY <1>1, <2>1, <2>2
  <2>4. n + 1 \in Int /\ n \in Int /\ n < n + 1
    BY <1>1
  <2> QED
    BY <2>1, <2>3, <2>4, SubSeqEmpty
<1>5. EndsText(t, all, c)
  <2>1. n \in 1 .. n
    BY <1>1
  <2>2. c >= LineEnd(t, Last(all))
    BY <1>1, <1>2, <1>3, <2>1
  <2> QED
    BY <1>4, <2>2 DEF EndsText
<1>6. c >= LineEnd(t, Head(all))
  <2>1. 1 \in 1 .. n
    BY <1>1
  <2> QED
    BY <1>1, <1>2, <1>3, <2>1
<1>7. ends(c)
  BY <1>5, <1>6
<1>8. \A i : RecordArticles(t) # {} /\ ends(i) =>
        AppendixStart(t, all) # 0 /\ AppendixStart(t, all) <= i
  BY AppendixIs DEF all
<1> HIDE DEF ends
<1> QED
  BY <1>7, <1>8 DEF all

(* Where the text ends, the numbering of its articles does not go on.      *)
LEMMA EndHolds ==
  ASSUME NEW t \in Texts, RecordArticles(t) # {}, AppendixStart(t, Headings(t)) # 0,
         NEW i \in RecordArticles(t), i > AppendixStart(t, Headings(t)),
         NEW j \in RecordArticles(t), j < AppendixStart(t, Headings(t)),
         Number(t, i) = Number(t, j) + 1
  PROVE  FALSE
<1> DEFINE all == Headings(t)
           n == Len(all)
           e == AppendixStart(t, all)
<1>1. /\ n \in Nat /\ n >= 1 /\ Head(all) = all[1] /\ Last(all) = all[n]
      /\ \A k \in 1 .. n : all[k] \in RecordArticles(t) /\ all[k] \in 1 .. Len(t)
      /\ \A x \in RecordArticles(t) : \E k \in 1 .. n : all[k] = x
      /\ \A k, l \in 1 .. n : k < l => all[k] < all[l]
  BY ArticlesAreHeadings
<1>1a. /\ \A x \in RecordArticles(t) :
            /\ x \in 1 .. Len(t) /\ t[x] \notin White /\ Number(t, x) \in Nat
            /\ x <= all[n]
       /\ \A x, y \in RecordArticles(t) : x < y => Number(t, x) < Number(t, y)
  BY ArticlesAreHeadings
<1>2. Ascending(all, Len(t)) /\ Len(t) \in Nat
  BY HeadingsAre DEF Texts
<1>3. e \in 1 .. Len(t) /\ EndsText(t, all, e)
  BY AppendixIs
<1> HIDE DEF all, e
<1>4. e \in Nat /\ i > e /\ j < e
  BY <1>2, <1>3 DEF e, all
<1>5. PICK m \in 0 .. n :
        /\ \A k \in 1 .. n : all[k] < e <=> k <= m
        /\ Len(Before(all, e)) = m /\ \A k \in 1 .. m : Before(all, e)[k] = all[k]
        /\ Len(From(all, e)) = n - m /\ \A k \in 1 .. n - m : From(all, e)[k] = all[m + k]
        /\ Ascending(Before(all, e), Len(t)) /\ From(all, e) = SubSeq(all, m + 1, n)
  BY ZenonT(40), <1>2, <1>4, BeforeIs
<1>6. PICK q \in 1 .. n : all[q] = i
  BY <1>1
<1>7. PICK r \in 1 .. n : all[r] = j
  BY <1>1
<1>8. i \in Nat /\ j \in Nat /\ m \in Nat
  BY SMTT(40), <1>1, <1>1a, <1>2
<1>9. r <= m /\ m < q
  <2>1. r <= m
    BY <1>4, <1>5, <1>7
  <2>2. ~(q <= m)
    BY <1>4, <1>5, <1>6, <1>8
  <2> QED
    BY <1>1, <1>8, <2>1, <2>2
<1>10. m \in 1 .. n /\ m + 1 \in 1 .. n /\ m < m + 1 /\ (r = m \/ r < m) /\ (q = m + 1 \/ m + 1 < q)
  BY <1>1, <1>8, <1>9
<1>11. Number(t, all[m + 1]) = Number(t, all[m]) + 1
  <2>1. /\ all[m] \in RecordArticles(t) /\ all[m + 1] \in RecordArticles(t) /\ all[m] < all[m + 1]
        /\ j = all[m] \/ j < all[m]
        /\ i = all[m + 1] \/ all[m + 1] < i
    BY <1>1, <1>6, <1>7, <1>10
  <2> DEFINE a == Number(t, all[m])
             b == Number(t, all[m + 1])
             c == Number(t, j)
             d == Number(t, i)
  <2>2. a < b /\ (c = a \/ c < a) /\ (d = b \/ b < d) /\ d = c + 1
    BY <1>1a, <2>1
  <2>3. a \in Nat /\ b \in Nat /\ c \in Nat /\ d \in Nat
    BY <1>1a, <2>1
  <2> HIDE DEF a, b, c, d
  <2>4. b = a + 1
    BY <2>2, <2>3
  <2> QED
    BY <2>4 DEF a, b
<1>12. Last(Before(all, e)) = all[m]
  <2>1. Before(all, e) # <<>>
    <3>1. Len(<<>>) = 0
      OBVIOUS
    <3> QED
      BY <1>5, <1>10, <3>1
  <2>2. Last(Before(all, e)) = Before(all, e)[m]
    BY <1>2, <1>5, <2>1, LastOfPlaces
  <2>3. m \in 1 .. m
    BY <1>10
  <2> QED
    BY <1>5, <2>2, <2>3
<1>13. From(all, e) # <<>> /\ Head(From(all, e)) = all[m + 1]
  <2> DEFINE f == From(all, e)
  <2>1. f \in Seq(Nat)
    <3>1. all \in Seq(Nat) /\ \A k \in m + 1 .. n : all[k] \in Nat
      <4>1. all \in Seq(Nat)
        BY <1>2 DEF Ascending
      <4>2. m + 1 .. n \subseteq 1 .. n
        BY <1>8, <1>10
      <4> QED
        BY <4>1, <4>2
    <3>2. m + 1 \in Int /\ n \in Int
      BY <1>1, <1>8
    <3> QED
      BY <1>5, <3>1, <3>2, SubSeqProperties
  <2>2. Len(f) = n - m /\ n - m >= 1 /\ 1 \in 1 .. n - m
    BY <1>1, <1>5, <1>8, <1>10
  <2>3. f[1] = all[m + 1]
    BY <1>5, <2>2
  <2> HIDE DEF f
  <2>4. f # <<>>
    BY <2>1, <2>2
  <2>5. Head(f) = f[1]
    BY <2>1, <2>4
  <2> QED
    BY <2>3, <2>4, <2>5 DEF f
<1>14. ArticlesAreReal(t, Before(all, e), From(all, e))
  BY <1>11, <1>12, <1>13 DEF ArticlesAreReal
<1>15. ~(e >= LineEnd(t, Last(all)))
  <2>1. n \in 1 .. n
    BY <1>1
  <2>2. all[n] \in 1 .. Len(t) /\ t[all[n]] \notin White /\ i <= all[n]
    BY <1>1, <1>1a, <2>1
  <2>3. LineEnd(t, all[n]) \in all[n] + 1 .. Len(t) + 1
    BY <2>2, LineEndIs
  <2> QED
    BY <1>1, <1>2, <1>4, <1>8, <2>2, <2>3
<1> QED
  BY <1>3, <1>13, <1>14, <1>15 DEF EndsText

(* The heading of a passage, and its place in the text.                    *)
PassageIsUnder(c, t, all, e) ==
  /\ c.start \in 1 .. Len(t) /\ c.start < c.end /\ c.end \in 1 .. Len(t) + 1
  /\ IF c.heading = 0
     THEN (\A i \in 1 .. Len(all) : c.start < all[i]) \/ (e # 0 /\ e <= c.start)
     ELSE /\ \E i \in 1 .. Len(all) : c.heading = all[i]
          /\ c.heading <= c.start
          /\ \A i \in 1 .. Len(all) : all[i] <= c.heading \/ c.end <= all[i]
          /\ e = 0 \/ c.end <= e

(* A passage is under the heading of its part.                             *)
LEMMA PassagesAreUnder ==
  ASSUME NEW t \in Texts, NEW bounds \in Seq(Nat), NEW k \in DOMAIN PassagesOf(t, bounds)
  PROVE  PassageIsUnder(PassagesOf(t, bounds)[k], t, Headings(t), AppendixStart(t, Headings(t)))
<1> DEFINE parts == TextParts(t)
           chunks == PassagesOf(t, bounds)
           all == Headings(t)
           e == AppendixStart(t, all)
           c == chunks[k]
<1>1. AreParts(t, parts)
  BY TextPartsAre
<1>2. PICK own : ArePassages(t, bounds, parts, chunks, own)
  BY <1>1, PassagesAre
<1> DEFINE p == parts[own[k]]
<1>3. k \in 1 .. Len(chunks) /\ own[k] \in 1 .. Len(parts)
  <2> HIDE DEF chunks, parts
  <2>1. chunks \in Seq(Passages) /\ own \in [1 .. Len(chunks) -> 1 .. Len(parts)]
    BY <1>2 DEF ArePassages
  <2>2. k \in DOMAIN chunks
    BY DEF chunks
  <2>3. k \in 1 .. Len(chunks)
    BY <2>1, <2>2
  <2> QED
    BY <2>1, <2>3
<1>4. Ascending(all, Len(t)) /\ Len(t) \in Nat /\ e \in Nat
  <2>1. e \in 0 .. Len(t)
    BY AppendixIs
  <2>2. Len(t) \in Nat
    BY DEF Texts
  <2> HIDE DEF e
  <2> QED
    BY <2>1, <2>2, HeadingsAre
<1> HIDE DEF parts, chunks, all, e
<1>5. IsPassage(t, bounds, c, p)
  BY <1>2, <1>3 DEF ArePassages
<1>6. /\ p \in Parts /\ 1 <= p.from /\ p.to <= Len(t) + 1 /\ PartIsUnder(p, t, all, e)
  <2>1. parts \in Seq(Parts)
    BY <1>1 DEF AreParts
  <2>2. parts[own[k]] \in Parts
    BY <1>3, <2>1
  <2>3. /\ 1 <= parts[own[k]].from /\ parts[own[k]].to <= Len(t) + 1
        /\ PartIsUnder(parts[own[k]], t, Headings(t), AppendixStart(t, Headings(t)))
    BY <1>1, <1>3 DEF AreParts
  <2> QED
    BY <2>2, <2>3 DEF all, e
<1> HIDE DEF c, p
<1>7. c.start \in Nat /\ c.end \in Nat /\ p.from \in Nat /\ p.to \in Nat
  BY <1>5, <1>6 DEF IsPassage, Passages, Parts
<1>8. c.heading = p.heading /\ p.from <= c.start /\ c.start < c.end /\ c.end <= p.to
  BY <1>5 DEF IsPassage
<1>9. \A i \in 1 .. Len(all) : all[i] \in Nat
  BY <1>4 DEF Ascending
<1>10. c.start \in 1 .. Len(t) /\ c.end \in 1 .. Len(t) + 1
  BY <1>4, <1>6, <1>7, <1>8
<1>11. CASE c.heading = 0
  <2>1. CASE \A i \in 1 .. Len(all) : p.to <= all[i]
    <3>1. \A i \in 1 .. Len(all) : c.start < all[i]
      BY <1>7, <1>8, <1>9, <2>1
    <3> QED
      BY <1>8, <1>10, <1>11, <3>1 DEF PassageIsUnder, c, chunks, all, e
  <2>2. CASE e # 0 /\ p.from = e
    <3>1. e <= c.start
      BY <1>8, <2>2
    <3> QED
      BY <1>8, <1>10, <1>11, <2>2, <3>1 DEF PassageIsUnder, c, chunks, all, e
  <2> QED
    BY <1>6, <1>8, <1>11, <2>1, <2>2 DEF PartIsUnder
<1>12. CASE c.heading # 0
  <2>1. /\ \E i \in 1 .. Len(all) : p.heading = all[i]
        /\ p.heading <= p.from
        /\ \A i \in 1 .. Len(all) : all[i] <= p.heading \/ p.to <= all[i]
        /\ e = 0 \/ p.to <= e
    BY <1>6, <1>8, <1>12 DEF PartIsUnder
  <2>2. p.heading \in Nat
    BY <1>6 DEF Parts
  <2>3. c.heading <= c.start
    BY <1>7, <1>8, <2>1, <2>2
  <2>4. \A i \in 1 .. Len(all) : all[i] <= c.heading \/ c.end <= all[i]
    BY SMTT(40), <1>7, <1>8, <1>9, <2>1
  <2>5. e = 0 \/ c.end <= e
    BY <1>4, <1>7, <1>8, <2>1
  <2> QED
    BY <1>8, <1>10, <1>12, <2>1, <2>3, <2>4, <2>5 DEF PassageIsUnder, c, chunks, all, e
<1> QED
  BY <1>11, <1>12

(* Where articles go up, each passage is filed under the last article      *)
(* heading before it, or, before the first and behind the text, under none.*)
LEMMA ArticlesAreFound ==
  ASSUME NEW t \in Texts, NEW bounds \in Seq(Nat), ArticlesGoUp(t)
  PROVE  ArticlesAreRight(t, PassagesOf(t, bounds))
<1> DEFINE chunks == PassagesOf(t, bounds)
           all == Headings(t)
           n == Len(all)
           e == AppendixStart(t, all)
           T == TrueArticles(t)
           closing == {i \in LineStarts(t) : t[i] \in Signatures \cup Appendices}
           goesOn(c) ==
             \E i \in T : /\ i > c
                          /\ \A j \in T : ~(j > c /\ j < i)
                          /\ \E j \in T : j < c /\ Number(t, i) = Number(t, j) + 1
           earlier(k) == {i \in T : i <= chunks[k].start}
           shut(k) == {c \in closing : earlier(k) # {} /\ c <= chunks[k].start /\ c > Min(T)}
<1> SUFFICES ASSUME T # {}, NEW k \in DOMAIN chunks
             PROVE  /\ chunks[k].heading # 0 => chunks[k].heading = Max(earlier(k))
                    /\ chunks[k].heading = 0 => earlier(k) = {} \/ shut(k) # {}
                    /\ (\E c \in shut(k) : \A i \in T : i < c) => chunks[k].heading = 0
                    /\ (earlier(k) # {} /\ \A c \in shut(k) : t[c] \in Signatures /\ goesOn(c))
                         => chunks[k].heading # 0
                    /\ ~\E i \in T : /\ chunks[k].heading # 0
                                     /\ chunks[k].start < i /\ i < chunks[k].end
  BY DEF ArticlesAreRight
<1>0. T = RecordArticles(t)
  BY TrueAreRecords
<1> HIDE DEF T
<1> USE <1>0
<1> DEFINE p == chunks[k]
           before == earlier(k)
           ended == shut(k)
<1>1. PassageIsUnder(p, t, all, e)
  BY PassagesAreUnder
<1>2. /\ n \in Nat /\ n >= 1 /\ Head(all) = all[1]
      /\ \A i \in 1 .. n : all[i] \in T /\ all[i] \in 1 .. Len(t)
      /\ \A x \in T : \E i \in 1 .. n : all[i] = x
      /\ \A x \in T : x \in 1 .. Len(t) /\ t[x] \notin White /\ all[1] <= x
  BY ArticlesAreHeadings
<1>3. Len(t) \in Nat /\ e \in 0 .. Len(t)
  BY AppendixIs DEF Texts
<1>4. e # 0 => e \in closing /\ e >= LineEnd(t, Head(all))
  <2>1. e # 0 => e \in LineStarts(t) /\ e >= LineEnd(t, Head(all)) /\ EndsText(t, all, e)
    BY AppendixIs
  <2> HIDE DEF e, all
  <2> QED
    BY <2>1 DEF EndsText
<1>5. \A c \in closing : /\ c \in LineStarts(t) /\ c \in 1 .. Len(t)
                          /\ t[c] \in Signatures \cup Appendices
  BY DEF LineStarts, Texts
<1>6. \A c \in T : t[c] \notin White
  BY <1>2
<1>7. \A c \in closing : (\A x \in T : x < c) => e # 0 /\ e <= c
  BY <1>5, EndIsBefore
<1>8. e # 0 => \A i, j \in T : i > e /\ j < e => Number(t, i) # Number(t, j) + 1
  BY EndHolds
<1>9. \A i : i \in before <=> i \in T /\ i <= p.start
  OBVIOUS
<1>10. \A c : c \in ended <=> c \in closing /\ before # {} /\ c <= p.start /\ c > Min(T)
  OBVIOUS
<1>11. \A c : goesOn(c) => \E i, j \in T : i > c /\ j < c /\ Number(t, i) = Number(t, j) + 1
  OBVIOUS
<1> HIDE DEF chunks, T, closing, goesOn, earlier, shut, before, ended, p, all, e
<1>12. /\ p.start \in 1 .. Len(t) /\ p.start \in Nat /\ p.end \in Nat /\ p.start < p.end
       /\ p.heading = 0 => (\A i \in 1 .. n : p.start < all[i]) \/ (e # 0 /\ e <= p.start)
       /\ p.heading # 0 => /\ \E i \in 1 .. n : p.heading = all[i]
                           /\ p.heading <= p.start
                           /\ \A i \in 1 .. n : all[i] <= p.heading \/ p.end <= all[i]
                           /\ e = 0 \/ p.end <= e
  <2>1. p.start \in 1 .. Len(t) /\ p.start < p.end /\ p.end \in 1 .. Len(t) + 1
    BY <1>1 DEF PassageIsUnder
  <2>2. /\ p.heading = 0 => (\A i \in 1 .. n : p.start < all[i]) \/ (e # 0 /\ e <= p.start)
        /\ p.heading # 0 => /\ \E i \in 1 .. n : p.heading = all[i]
                            /\ p.heading <= p.start
                            /\ \A i \in 1 .. n : all[i] <= p.heading \/ p.end <= all[i]
                            /\ e = 0 \/ p.end <= e
    BY <1>1 DEF PassageIsUnder
  <2> QED
    BY <1>3, <2>1, <2>2
<1>13. Min(T) = all[1] /\ all[1] \in T /\ all[1] \in Nat
  <2>1. 1 \in 1 .. n
    BY <1>2
  <2>2. T \in SUBSET (1 .. Len(t)) /\ all[1] \in T
    BY <1>2, <2>1
  <2>3. Min(T) \in T /\ Min(T) <= all[1]
    BY <1>3, <2>2, LeastOfAll
  <2>4. all[1] <= Min(T) /\ Min(T) \in 1 .. Len(t) /\ all[1] \in 1 .. Len(t)
    BY <1>2, <2>2, <2>3
  <2> QED
    BY <1>3, <2>2, <2>3, <2>4
<1>14. p.heading # 0 => \A x \in T : x <= p.heading \/ p.end <= x
  BY <1>2, <1>12
<1>15. \A x \in T : x \in Nat
  BY <1>2
<1>16. ASSUME p.heading = 0 PROVE before = {} \/ (e # 0 /\ e \in ended)
  <2>1. CASE \A i \in 1 .. n : p.start < all[i]
    <3>1. ASSUME NEW x \in T PROVE ~(x <= p.start)
      <4>1. p.start < x
        BY <1>2, <2>1
      <4> QED
        BY <1>12, <1>15, <4>1
    <3> QED
      BY <1>9, <3>1
  <2>2. CASE e # 0 /\ e <= p.start
    <3>1. LineEnd(t, all[1]) \in all[1] + 1 .. Len(t) + 1
      <4>1. all[1] \in 1 .. Len(t) /\ t[all[1]] \notin White
        BY <1>2, <1>13
      <4> QED
        BY <4>1, LineEndIs
    <3>2. e > all[1] /\ e \in closing /\ e \in Nat
      BY <1>2, <1>3, <1>4, <1>13, <2>2, <3>1
    <3>3. all[1] <= p.start
      BY <1>12, <1>13, <2>2, <3>2
    <3>4. before # {}
      BY <1>9, <1>13, <3>3
    <3> QED
      BY <1>10, <1>13, <2>2, <3>2, <3>4
  <2> QED
    BY <1>12, <1>16, <2>1, <2>2
<1>17. p.heading # 0 => p.heading = Max(before)
  <2> SUFFICES ASSUME p.heading # 0 PROVE p.heading = Max(before)
    OBVIOUS
  <2>1. p.heading \in T /\ p.heading <= p.start
    BY <1>2, <1>12
  <2>2. p.heading \in before /\ before \in SUBSET (1 .. Len(t))
    BY <1>2, <1>9, <2>1
  <2>3. Max(before) \in before /\ p.heading <= Max(before)
    BY <1>3, <2>2, LastPlace
  <2>4. Max(before) \in T /\ Max(before) <= p.start
    BY <1>9, <2>3
  <2>5. Max(before) <= p.heading
    BY <1>12, <1>14, <1>15, <2>4
  <2>6. Max(before) \in Nat /\ p.heading \in Nat
    BY <1>15, <2>1, <2>4
  <2> QED
    BY <2>3, <2>5, <2>6
<1>18. p.heading = 0 => before = {} \/ ended # {}
  BY <1>16
<1>19. (\E c \in ended : \A i \in T : i < c) => p.heading = 0
  <2> SUFFICES ASSUME NEW c \in ended, \A i \in T : i < c, p.heading # 0 PROVE FALSE
    OBVIOUS
  <2>1. c \in closing /\ c <= p.start
    BY <1>10
  <2>2. e # 0 /\ e <= c
    BY <1>7, <2>1
  <2>3. p.end <= e
    BY <1>12, <2>2
  <2>4. c \in Nat /\ e \in Nat
    BY <1>3, <1>5, <2>1
  <2> QED
    BY <1>12, <2>1, <2>2, <2>3, <2>4
<1>20. (before # {} /\ \A c \in ended : t[c] \in Signatures /\ goesOn(c)) => p.heading # 0
  <2> SUFFICES ASSUME before # {}, \A c \in ended : goesOn(c), p.heading = 0 PROVE FALSE
    OBVIOUS
  <2>1. e # 0 /\ goesOn(e)
    BY <1>16
  <2> QED
    BY <1>8, <1>11, <2>1
<1>21. ~\E i \in T : p.heading # 0 /\ p.start < i /\ i < p.end
  <2> SUFFICES ASSUME NEW i \in T, p.heading # 0, p.start < i, i < p.end PROVE FALSE
    OBVIOUS
  <2>1. i <= p.heading \/ p.end <= i
    BY <1>14
  <2>2. p.heading <= p.start /\ p.heading \in T
    BY <1>2, <1>12
  <2> QED
    BY <1>12, <1>15, <2>1, <2>2
<1> QED
  BY <1>17, <1>18, <1>19, <1>20, <1>21 DEF p, before, ended

-----------------------------------------------------------------------------
(* Pages.                                                                  *)

(* A page joined to those before it.                                       *)
LEMMA OnePageMore ==
  ASSUME NEW joined \in Texts, NEW page \in Texts
  PROVE  LET r == joined \o PageSeparator \o page
             n == Len(joined)
         IN  /\ r \in Texts /\ n \in Nat /\ Len(page) \in Nat /\ Len(r) = n + 3 + Len(page)
             /\ \A i \in 1 .. n : r[i] = joined[i]
             /\ r[n + 1] = "/" /\ r[n + 2] = "^" /\ r[n + 3] = "/"
             /\ \A i \in 1 .. Len(page) : r[n + 3 + i] = page[i]
<1> DEFINE n == Len(joined)
           m == Len(page)
           a == joined \o PageSeparator
           r == a \o page
<1>1. joined \in Seq(Symbols) /\ page \in Seq(Symbols) /\ n \in Nat /\ m \in Nat
  BY DEF Texts
<1>2. /\ PageSeparator \in Seq(Symbols) /\ Len(PageSeparator) = 3
      /\ PageSeparator[1] = "/" /\ PageSeparator[2] = "^" /\ PageSeparator[3] = "/"
  <2>1. PageSeparator \in Seq(Symbols) /\ Len(PageSeparator) = 3
    BY SeparatorIs DEF Texts
  <2> QED
    BY <2>1 DEF PageSeparator
<1> HIDE DEF n, m
<1>3. /\ a \in Seq(Symbols) /\ Len(a) = n + 3
      /\ \A i \in 1 .. n + 3 : a[i] = IF i <= n THEN joined[i] ELSE PageSeparator[i - n]
  <2>1. a \in Seq(Symbols) /\ Len(a) = Len(joined) + Len(PageSeparator)
    BY <1>1, <1>2, ConcatProperties
  <2>2. \A i \in 1 .. Len(joined) + Len(PageSeparator) :
          a[i] = IF i <= Len(joined) THEN joined[i] ELSE PageSeparator[i - Len(joined)]
    BY <1>1, <1>2, ConcatProperties
  <2> HIDE DEF a
  <2> QED
    BY <1>2, <2>1, <2>2 DEF n
<1> HIDE DEF a
<1>4. /\ r \in Seq(Symbols) /\ Len(r) = n + 3 + m
      /\ \A i \in 1 .. n + 3 + m : r[i] = IF i <= n + 3 THEN a[i] ELSE page[i - (n + 3)]
  <2>1. r \in Seq(Symbols) /\ Len(r) = Len(a) + Len(page)
    BY <1>1, <1>3, ConcatProperties
  <2>2. \A i \in 1 .. Len(a) + Len(page) :
          r[i] = IF i <= Len(a) THEN a[i] ELSE page[i - Len(a)]
    BY <1>1, <1>3, ConcatProperties
  <2> HIDE DEF r
  <2> QED
    BY <1>3, <2>1, <2>2 DEF m
<1> HIDE DEF r
<1>5. \A i \in 1 .. n : r[i] = joined[i]
  <2> SUFFICES ASSUME NEW i \in 1 .. n PROVE r[i] = joined[i]
    OBVIOUS
  <2>1. i \in 1 .. n + 3 + m /\ i \in 1 .. n + 3 /\ i <= n + 3 /\ i <= n
    BY <1>1
  <2> QED
    BY <1>3, <1>4, <2>1
<1>6. ASSUME NEW k \in 1 .. 3 PROVE r[n + k] = PageSeparator[k]
  <2>1. /\ n + k \in 1 .. n + 3 + m /\ n + k \in 1 .. n + 3 /\ n + k <= n + 3
        /\ ~(n + k <= n) /\ (n + k) - n = k
    BY <1>1
  <2> QED
    BY <1>3, <1>4, <2>1
<1>7. r[n + 1] = "/" /\ r[n + 2] = "^" /\ r[n + 3] = "/"
  BY <1>2, <1>6
<1>8. \A i \in 1 .. m : r[n + 3 + i] = page[i]
  <2> SUFFICES ASSUME NEW i \in 1 .. m PROVE r[n + 3 + i] = page[i]
    OBVIOUS
  <2>1. n + 3 + i \in 1 .. n + 3 + m /\ ~(n + 3 + i <= n + 3) /\ (n + 3 + i) - (n + 3) = i
    BY <1>1
  <2> QED
    BY <1>4, <2>1
<1> QED
  BY <1>1, <1>4, <1>5, <1>7, <1>8 DEF Texts, r, a, n, m

(* A page does not hold the mark that separates pages.                     *)
PlainTexts == {p \in Texts : \A i \in 1 .. Len(p) : p[i] # "^"}

(* The first k pages joined, the next starting at next[k].                 *)
IsJoined(joined, next, k) ==
  /\ Len(joined) + 4 = next[k]
  /\ \A p \in 0 .. k - 1 : next[p] < next[k]
  /\ \A j \in 1 .. k - 1 : /\ next[j] - 2 \in 1 .. Len(joined) /\ next[j] - 1 \in 1 .. Len(joined)
                           /\ joined[next[j] - 2] = "^" /\ joined[next[j] - 1] = "/"
  /\ \A i \in 1 .. Len(joined) : joined[i] = "^" => \E j \in 1 .. k - 1 : i = next[j] - 2

(* Each of the pages joined so far starts at its bound.                    *)
LEMMA JoinedIs ==
  ASSUME NEW ps \in Seq(PlainTexts), NEW f \in [0 .. Len(ps) -> Texts],
         NEW g \in [0 .. Len(ps) -> Nat], g[0] = 1,
         \A k \in 1 .. Len(ps) : f[k] = WithPage(f[k - 1], ps, k),
         \A k \in 1 .. Len(ps) : g[k] = g[k - 1] + Len(ps[k]) + Len(PageSeparator)
  PROVE  \A k \in 1 .. Len(ps) : IsJoined(f[k], g, k)
<1> DEFINE N == Len(ps)
           S == {k \in 0 .. N : k = 0 \/ IsJoined(f[k], g, k)}
<1>1. N \in Nat /\ \A k \in 1 .. N : ps[k] \in PlainTexts /\ ps[k] \in Texts
  <2>1. N \in Nat /\ \A k \in 1 .. N : ps[k] \in PlainTexts
    OBVIOUS
  <2> QED
    BY <2>1 DEF PlainTexts
<1>2. \A k \in 1 .. N : Len(ps[k]) \in Nat /\ \A i \in 1 .. Len(ps[k]) : ps[k][i] # "^"
  BY <1>1 DEF PlainTexts, Texts
<1>3. \A k \in 0 .. N : f[k] \in Texts /\ g[k] \in Nat /\ Len(f[k]) \in Nat
  BY SMTT(40) DEF Texts
<1>4. \A k \in 1 .. N : g[k] = g[k - 1] + Len(ps[k]) + 3
  BY SeparatorIs
<1> HIDE DEF N
<1>5. 0 \in S
  BY <1>1
<1>6. ASSUME NEW k \in 0 .. N - 1, k \in S PROVE k + 1 \in S
  <2> DEFINE page == ps[k + 1]
             r == f[k + 1]
             L == Len(f[k])
             m == Len(page)
  <2>1. k + 1 \in 1 .. N /\ k + 1 \in 0 .. N /\ (k + 1) - 1 = k /\ k \in 0 .. N /\ k \in Nat
    BY <1>1
  <2>2. page \in Texts /\ m \in Nat /\ \A i \in 1 .. m : page[i] # "^"
    BY <1>1, <1>2, <2>1
  <2>3. r = WithPage(f[k], ps, k + 1) /\ g[k + 1] = g[k] + m + 3
    BY <1>4, <2>1 DEF N
  <2>4. CASE k = 0
    <3>1. r = page /\ 1 .. (k + 1) - 1 = {} /\ 0 .. (k + 1) - 1 = {0} /\ k + 1 = 1
      BY <2>1, <2>3, <2>4 DEF WithPage
    <3> HIDE DEF page, r, m
    <3>2. Len(r) + 4 = g[1] /\ g[0] < g[1]
      BY <2>2, <2>3, <2>4, <3>1 DEF m
    <3>3. IsJoined(r, g, k + 1)
      BY <2>2, <3>1, <3>2 DEF IsJoined, m
    <3> QED
      BY <2>1, <3>3 DEF r
  <2>5. CASE k # 0
    <3>1. r = f[k] \o PageSeparator \o page
      <4>1. k + 1 # 1
        BY <2>1, <2>5
      <4> QED
        BY <2>3, <4>1 DEF WithPage
    <3>2. /\ r \in Texts /\ L \in Nat /\ Len(r) = L + 3 + m
          /\ \A i \in 1 .. L : r[i] = f[k][i]
          /\ r[L + 1] = "/" /\ r[L + 2] = "^" /\ r[L + 3] = "/"
          /\ \A i \in 1 .. m : r[L + 3 + i] = page[i]
      <4>1. f[k] \in Texts
        BY <1>3, <2>1
      <4> HIDE DEF page, r
      <4> QED
        BY ZenonT(40), <2>2, <3>1, <4>1, OnePageMore
    <3> HIDE DEF page, r, m, L
    <3>3. /\ L + 4 = g[k] /\ g[k] \in Nat /\ \A p \in 0 .. k - 1 : g[p] < g[k]
          /\ \A j \in 1 .. k - 1 : /\ g[j] - 2 \in 1 .. L /\ g[j] - 1 \in 1 .. L
                                   /\ f[k][g[j] - 2] = "^" /\ f[k][g[j] - 1] = "/"
          /\ \A i \in 1 .. L : f[k][i] = "^" => \E j \in 1 .. k - 1 : i = g[j] - 2
      <4>1. IsJoined(f[k], g, k)
        BY <1>6, <2>5
      <4> QED
        BY <1>3, <2>1, <4>1 DEF IsJoined, L
    <3>4. Len(r) + 4 = g[k + 1] /\ g[k] < g[k + 1] /\ Len(r) \in Nat /\ g[k + 1] \in Nat
      <4>1. m \in Nat /\ L \in Nat /\ g[k] \in Nat
        BY <2>2, <3>2, <3>3
      <4>2. g[k + 1] = g[k] + m + 3
        BY <2>3
      <4>3. Len(r) = L + 3 + m
        BY <3>2
      <4>4. L + 4 = g[k]
        BY <3>3
      <4> DEFINE here == g[k]
                 after == g[k + 1]
                 length == Len(r)
      <4> HIDE DEF here, after, length
      <4>5. /\ here \in Nat /\ m \in Nat /\ L \in Nat /\ after = here + m + 3
            /\ length = L + 3 + m /\ L + 4 = here
        BY <4>1, <4>2, <4>3, <4>4 DEF here, after, length
      <4>6. length + 4 = after /\ here < after /\ length \in Nat /\ after \in Nat
        BY <4>5
      <4> QED
        BY <4>6 DEF here, after, length
    <3>5. ASSUME NEW p \in 0 .. (k + 1) - 1 PROVE g[p] < g[k + 1]
      <4>1. p = k \/ p \in 0 .. k - 1
        BY <2>1
      <4>2. p \in 0 .. N
        BY <1>1, <2>1
      <4>3. g[p] \in Nat
        BY <1>3, <4>2
      <4> QED
        BY <3>3, <3>4, <4>1, <4>3
    <3>6. ASSUME NEW j \in 1 .. (k + 1) - 1
          PROVE  /\ g[j] - 2 \in 1 .. Len(r) /\ g[j] - 1 \in 1 .. Len(r)
                 /\ r[g[j] - 2] = "^" /\ r[g[j] - 1] = "/"
      <4>1. CASE j = k
        <5>1. g[j] - 2 = L + 2 /\ g[j] - 1 = L + 3
          BY <3>2, <3>3, <4>1
        <5>2. L + 2 \in 1 .. Len(r) /\ L + 3 \in 1 .. Len(r)
          BY <2>2, <3>2
        <5> QED
          BY <3>2, <5>1, <5>2
      <4>2. CASE j # k
        <5>1. j \in 1 .. k - 1
          BY <2>1, <4>2
        <5>2. g[j] - 2 \in 1 .. L /\ g[j] - 1 \in 1 .. L
          BY <3>3, <5>1
        <5>3. g[j] - 2 \in 1 .. Len(r) /\ g[j] - 1 \in 1 .. Len(r)
          BY <2>2, <3>2, <5>2
        <5> QED
          BY <3>2, <3>3, <5>1, <5>2, <5>3
      <4> QED
        BY <4>1, <4>2
    <3>7. ASSUME NEW i \in 1 .. Len(r), r[i] = "^" PROVE \E j \in 1 .. (k + 1) - 1 : i = g[j] - 2
      <4>1. CASE i \in 1 .. L
        <5>1. PICK j \in 1 .. k - 1 : i = g[j] - 2
          BY <3>2, <3>3, <3>7, <4>1
        <5>2. j \in 1 .. (k + 1) - 1
          BY <2>1
        <5> QED
          BY <5>1, <5>2
      <4>2. CASE i = L + 2
        <5>1. k \in 1 .. (k + 1) - 1 /\ i = g[k] - 2
          BY <2>1, <2>5, <3>2, <3>3, <4>2
        <5> QED
          BY <5>1
      <4>3. CASE i = L + 1 \/ i = L + 3
        BY <3>2, <3>7, <4>3
      <4>4. CASE i \notin 1 .. L /\ i # L + 1 /\ i # L + 2 /\ i # L + 3
        <5>1. i - (L + 3) \in 1 .. m /\ L + 3 + (i - (L + 3)) = i
          BY <2>2, <3>2, <4>4
        <5> QED
          BY <2>2, <3>2, <3>7, <5>1
      <4> QED
        BY <4>1, <4>2, <4>3, <4>4
    <3>8. IsJoined(r, g, k + 1)
      BY <3>4, <3>5, <3>6, <3>7 DEF IsJoined
    <3> QED
      BY <2>1, <3>8 DEF r
  <2> QED
    BY <2>4, <2>5
<1>7. \A k \in 0 .. N : k \in S
  <2> HIDE DEF S
  <2> QED
    BY <1>1, <1>5, <1>6, CountingUp
<1> QED
  BY <1>7 DEF N

(* The page of a position, told by the marks before it.                    *)
OnPage(t, i) == 1 + Cardinality({j \in 1 .. i : t[j] = "^"})

(* Joined pages are a text, and their bounds numbers.                      *)
LEMMA PlainPagesAre ==
  ASSUME NEW ps \in Seq(PlainTexts)
  PROVE  /\ ps \in Seq(Texts) /\ Len(ps) \in Nat /\ DOMAIN ps = 1 .. Len(ps)
         /\ Joined(ps) \in Texts /\ Boundaries(ps) \in Seq(Nat)
<1>1. ps \in Seq(Texts) /\ Len(ps) \in Nat /\ DOMAIN ps = 1 .. Len(ps)
  BY DEF PlainTexts
<1>2. PICK f \in [0 .. Len(ps) -> Texts] : Joined(ps) = f[Len(ps)]
  BY <1>1, PagesJoined
<1>3. PICK g \in [0 .. Len(ps) -> Nat] : Boundaries(ps) = [k \in DOMAIN ps |-> g[k - 1]]
  BY <1>1, PagesBounded
<1> DEFINE N == Len(ps)
           b == Boundaries(ps)
<1>4. N \in Nat /\ g \in [0 .. N -> Nat] /\ b = [k \in 1 .. N |-> g[k - 1]]
  BY <1>1, <1>3
<1>5. Joined(ps) \in Texts
  <2>1. Len(ps) \in 0 .. Len(ps)
    BY <1>1
  <2> QED
    BY <1>2, <2>1
<1> HIDE DEF b, N
<1>6. b \in Seq(Nat)
  <2>1. \A k \in 1 .. N : k - 1 \in 0 .. N
    BY <1>4
  <2>2. b \in [1 .. N -> Nat]
    BY <1>4, <2>1
  <2> QED
    BY <1>4, <2>2
<1> QED
  BY <1>1, <1>5, <1>6 DEF b

(* A page is counted by the marks before it.                               *)
LEMMA OnPageIs ==
  ASSUME NEW ps \in Seq(PlainTexts), ps # <<>>,
         NEW i \in 1 .. Len(Joined(ps)), Joined(ps)[i] \notin White
  PROVE  PageFor(Boundaries(ps), i) = OnPage(Joined(ps), i)
<1> DEFINE N == Len(ps)
           t == Joined(ps)
           b == Boundaries(ps)
<1>1. ps \in Seq(Texts) /\ N \in Nat /\ N # 0 /\ DOMAIN ps = 1 .. N /\ t \in Texts
  <2>1. ps \in Seq(Texts) /\ Len(ps) \in Nat /\ DOMAIN ps = 1 .. Len(ps) /\ t \in Texts
    BY PlainPagesAre
  <2> HIDE DEF t
  <2> QED
    BY <2>1
<1>2. PICK f \in [0 .. N -> Texts] :
        t = f[N] /\ \A k \in 1 .. N : f[k] = WithPage(f[k - 1], ps, k)
  BY <1>1, PagesJoined
<1>3. PICK g \in [0 .. N -> Nat] :
        /\ b = [k \in DOMAIN ps |-> g[k - 1]] /\ g[0] = 1
        /\ \A k \in 1 .. N : g[k] = g[k - 1] + Len(ps[k]) + Len(PageSeparator)
  BY <1>1, PagesBounded
<1>4. \A k \in 1 .. N : IsJoined(f[k], g, k)
  BY <1>2, <1>3, JoinedIs
<1>5. b = [k \in 1 .. N |-> g[k - 1]]
  BY <1>1, <1>3
<1>5a. i \in 1 .. Len(t) /\ t[i] \notin White /\ Len(t) \in Nat
  BY <1>1 DEF Texts
<1> HIDE DEF N, t, b
<1>6. IsJoined(t, g, N) /\ N \in 1 .. N /\ N - 1 \in Nat
  BY <1>1, <1>2, <1>4
<1>7. /\ \A j \in 1 .. N - 1 : /\ g[j] - 2 \in 1 .. Len(t) /\ g[j] - 1 \in 1 .. Len(t)
                               /\ t[g[j] - 2] = "^" /\ t[g[j] - 1] = "/"
      /\ \A k \in 1 .. Len(t) : t[k] = "^" => \E j \in 1 .. N - 1 : k = g[j] - 2
  BY <1>6 DEF IsJoined
<1>8. \A p \in 0 .. N : g[p] \in Nat
  BY <1>3
<1>9. ASSUME NEW p \in 1 .. N - 1, NEW q \in 1 .. N - 1, g[p] = g[q] PROVE p = q
  <2>1. \A k \in 1 .. N : \A l \in 0 .. k - 1 : g[l] < g[k]
    BY <1>4 DEF IsJoined
  <2>2. p < q => g[p] < g[q]
    BY <1>1, <2>1
  <2>3. q < p => g[q] < g[p]
    BY <1>1, <2>1
  <2>4. g[p] \in Nat /\ g[q] \in Nat
    BY <1>1, <1>8
  <2> DEFINE a == g[p]
             c == g[q]
  <2> HIDE DEF a, c
  <2>5. a \in Nat /\ c \in Nat /\ a = c /\ (p < q => a < c) /\ (q < p => c < a)
    BY <1>9, <2>2, <2>3, <2>4 DEF a, c
  <2>6. p \in Nat /\ q \in Nat
    BY <1>1
  <2> QED
    BY <2>5, <2>6
<1> DEFINE S == {p \in 1 .. N : b[p] <= i}
           R == {p \in 1 .. N - 1 : g[p] <= i}
           C == {j \in 1 .. i : t[j] = "^"}
           h == [p \in R |-> g[p] - 2]
           up == [p \in R |-> p + 1]
<1>10. i \in Nat /\ i >= 1 /\ i <= Len(t) /\ t[i] # "^" /\ t[i] # "/"
  <2>1. i \in 1 .. Len(t) /\ Len(t) \in Nat
    BY <1>5a
  <2>2. t[i] # "^" /\ t[i] # "/"
    <3>1. t[i] \notin White
      BY <1>5a
    <3> QED
      BY <3>1 DEF White
  <2>3. i \in Nat /\ i >= 1 /\ i <= Len(t)
    BY <2>1
  <2> QED
    BY <2>2, <2>3
<1>11. IsFiniteSet(R) /\ IsFiniteSet(1 .. N)
  <2>1. 1 \in Int /\ N - 1 \in Int /\ N \in Int
    BY <1>1
  <2>2. IsFiniteSet(1 .. N - 1) /\ IsFiniteSet(1 .. N)
    BY <2>1, FS_Interval
  <2>3. R \in SUBSET (1 .. N - 1)
    OBVIOUS
  <2> QED
    BY <2>2, <2>3, FS_Subset
<1>12. Cardinality(C) = Cardinality(R)
  <2>1. \A x, y \in R : h[x] = h[y] => x = y
    <3> SUFFICES ASSUME NEW x \in R, NEW y \in R, h[x] = h[y] PROVE x = y
      OBVIOUS
    <3>1. g[x] \in Nat /\ g[y] \in Nat /\ x \in 1 .. N - 1 /\ y \in 1 .. N - 1
      BY <1>1, <1>8
    <3>2. g[x] - 2 = g[y] - 2
      OBVIOUS
    <3>3. g[x] = g[y]
      BY <3>1, <3>2
    <3> QED
      BY <1>9, <3>1, <3>3
  <2>2. {h[x] : x \in R} = C
    <3>1. ASSUME NEW p \in R PROVE g[p] - 2 \in C
      <4>1. p \in 1 .. N - 1 /\ g[p] <= i /\ g[p] \in Nat
        BY <1>1, <1>8
      <4>2. g[p] - 2 \in 1 .. Len(t) /\ t[g[p] - 2] = "^"
        BY <1>7, <4>1
      <4>3. g[p] - 2 \in 1 .. i
        BY <1>10, <4>1, <4>2
      <4> QED
        BY <4>2, <4>3
    <3>2. ASSUME NEW j \in C PROVE \E p \in R : j = g[p] - 2
      <4>1. j \in 1 .. i /\ t[j] = "^" /\ j \in 1 .. Len(t) /\ j # i
        BY <1>5a, <1>10
      <4>2. PICK p \in 1 .. N - 1 : j = g[p] - 2
        BY <1>7, <4>1
      <4>3. g[p] \in Nat /\ g[p] - 1 # i
        BY <1>1, <1>7, <1>8, <1>10
      <4>4. g[p] <= i
        BY <1>10, <4>1, <4>2, <4>3
      <4> QED
        BY <4>2, <4>4
    <3>3. \A x \in R : h[x] = g[x] - 2
      OBVIOUS
    <3> HIDE DEF R, C, h
    <3> QED
      BY <3>1, <3>2, <3>3
  <2>3. DOMAIN h = R
    OBVIOUS
  <2> HIDE DEF R, C, h
  <2> QED
    BY <1>11, <2>1, <2>2, <2>3, ValuesAreFew
<1>13. S = {1} \cup {up[x] : x \in R}
  <2>1. b[1] = 1 /\ 1 \in 1 .. N /\ g[0] = 1
    <3>1. 1 \in 1 .. N /\ 1 - 1 = 0
      BY <1>1
    <3> QED
      BY <1>3, <1>5, <3>1
  <2>2. 1 \in S
    BY <1>10, <2>1
  <2>3. ASSUME NEW p \in R PROVE p + 1 \in S
    <3>1. p + 1 \in 1 .. N /\ (p + 1) - 1 = p
      BY <1>1
    <3>2. b[p + 1] = g[p]
      BY <1>5, <3>1
    <3> QED
      BY <3>1, <3>2
  <2>4. ASSUME NEW p \in S, p # 1 PROVE p - 1 \in R /\ (p - 1) + 1 = p
    <3>1. p - 1 \in 1 .. N - 1 /\ (p - 1) + 1 = p /\ p \in 1 .. N
      BY <1>1, <2>4
    <3>2. b[p] = g[p - 1] /\ b[p] <= i
      BY <1>5, <3>1
    <3> QED
      BY <3>1, <3>2
  <2>5. \A x \in R : up[x] = x + 1
    OBVIOUS
  <2> HIDE DEF R, S, up
  <2>6. ASSUME NEW p \in S PROVE p \in {1} \cup {up[x] : x \in R}
    <3>1. CASE p = 1
      BY <3>1
    <3>2. CASE p # 1
      <4>1. up[p - 1] = p /\ p - 1 \in R
        BY <2>4, <2>5, <3>2
      <4> QED
        BY <4>1
    <3> QED
      BY <3>1, <3>2
  <2> QED
    BY <2>2, <2>3, <2>5, <2>6
<1>14. LET T == {up[x] : x \in R}
       IN  IsFiniteSet(T) /\ Cardinality(T) = Cardinality(R) /\ 1 \notin T
  <2>1. DOMAIN up = R /\ \A x \in R : up[x] = x + 1 /\ x \in Nat /\ x >= 1
    BY <1>1
  <2> HIDE DEF R, up
  <2>2. \A x, y \in R : up[x] = up[y] => x = y
    BY <2>1
  <2>3. 1 \notin {up[x] : x \in R}
    BY <2>1
  <2> QED
    BY SMTT(40), <1>11, <2>1, <2>2, <2>3, ValuesAreFew
<1>15. Cardinality(S) = Cardinality(R) + 1
  <2> DEFINE T == {up[x] : x \in R}
  <2>1. IsFiniteSet(T) /\ Cardinality(T) = Cardinality(R) /\ 1 \notin T /\ S = T \cup {1}
    BY <1>13, <1>14
  <2> HIDE DEF T, S, R
  <2> QED
    BY <2>1, FS_AddElement
<1>16. Cardinality(R) \in Nat
  BY <1>11, FS_CardinalityType
<1>17. PageFor(b, i) = Cardinality(S) /\ OnPage(t, i) = 1 + Cardinality(C)
  <2>1. DOMAIN b = 1 .. N
    BY <1>5
  <2> QED
    BY <2>1 DEF PageFor, OnPage
<1> HIDE DEF S, R, C
<1> QED
  BY <1>12, <1>15, <1>16, <1>17 DEF t, b

-----------------------------------------------------------------------------
(* Places.                                                                 *)

(* The pages a sequence of bounds tells are those the marks tell.          *)
PagesAreTold(t, bounds) ==
  \A i \in 1 .. Len(t) : t[i] \notin White => PageFor(bounds, i) = OnPage(t, i)

(* A passage as it says where it stands.                                   *)
PlaceIsRight(t, chunks, k) ==
  LET c == chunks[k]
  IN  /\ c.first = OnPage(t, c.start) /\ c.last = OnPage(t, c.end - 1)
      /\ c.clause > 0 /\ (k = 1 \/ chunks[k - 1].heading # c.heading
                                \/ chunks[k - 1].clause # c.clause) =>
           IF c.clause = 1 /\ c.start = c.heading THEN TRUE
           ELSE /\ Numbered(t, c.start, c.clause)
                /\ chunks[k - 1].heading = c.heading
                /\ chunks[k - 1].clause = c.clause - 1
      /\ c.clause > 0 =>
           ~\E i \in c.start .. c.end - 1 : \E b \in c.heading .. i - 1 :
               Numbered(t, b, c.clause) /\ Numbered(t, i, c.clause + 1)

(* What a passage has from its part.                                       *)
LEMMA PassageIsFrom ==
  ASSUME NEW t \in Texts, NEW bounds \in Seq(Nat), NEW parts, NEW chunks, NEW own,
         AreParts(t, parts), ArePassages(t, bounds, parts, chunks, own),
         NEW k \in 1 .. Len(chunks)
  PROVE  LET c == chunks[k]
             p == parts[own[k]]
         IN  /\ own[k] \in 1 .. Len(parts) /\ Len(parts) \in Nat /\ Len(chunks) \in Nat
             /\ c \in Passages /\ p \in Parts
             /\ c.start \in Nat /\ c.end \in Nat /\ c.heading \in Nat /\ c.clause \in Nat
             /\ p.from \in Nat /\ p.to \in Nat /\ p.from >= 1 /\ p.to <= Len(t) + 1
             /\ p.from <= c.start /\ c.start < c.end /\ c.end <= p.to
             /\ c.start \in 1 .. Len(t) /\ c.end - 1 \in 1 .. Len(t)
             /\ t[c.start] \notin White /\ t[c.end - 1] \notin White
             /\ c.heading = p.heading /\ c.clause = p.clause
             /\ c.first = PageFor(bounds, c.start) /\ c.last = PageFor(bounds, c.end - 1)
<1> DEFINE c == chunks[k]
           p == parts[own[k]]
<1>1. /\ own[k] \in 1 .. Len(parts) /\ parts \in Seq(Parts) /\ chunks \in Seq(Passages)
      /\ IsPassage(t, bounds, c, p)
  <2>1. own \in [1 .. Len(chunks) -> 1 .. Len(parts)] /\ chunks \in Seq(Passages)
    BY DEF ArePassages
  <2>2. IsPassage(t, bounds, c, p)
    BY DEF ArePassages
  <2>3. parts \in Seq(Parts)
    BY DEF AreParts
  <2> QED
    BY <2>1, <2>2, <2>3
<1>2. p \in Parts /\ Len(parts) \in Nat /\ Len(chunks) \in Nat /\ Len(t) \in Nat
  BY <1>1 DEF Texts
<1>3. 1 <= p.from /\ p.to <= Len(t) + 1
  BY <1>1 DEF AreParts
<1> HIDE DEF c, p
<1>4. /\ c \in Passages
      /\ p.from <= c.start /\ c.start < c.end /\ c.end <= p.to
      /\ t[c.start] \notin White /\ t[c.end - 1] \notin White
      /\ c.heading = p.heading /\ c.clause = p.clause
      /\ c.first = PageFor(bounds, c.start) /\ c.last = PageFor(bounds, c.end - 1)
  BY <1>1 DEF IsPassage
<1>5. c.start \in Nat /\ c.end \in Nat /\ c.heading \in Nat /\ c.clause \in Nat
  BY <1>4 DEF Passages
<1>6. p.from \in Nat /\ p.to \in Nat
  BY <1>2 DEF Parts
<1>7. c.start \in 1 .. Len(t) /\ c.end - 1 \in 1 .. Len(t)
  <2> DEFINE a == c.start
             b == c.end
             from == p.from
             to == p.to
             L == Len(t)
  <2> HIDE DEF a, b, from, to, L
  <2>1. /\ a \in Nat /\ b \in Nat /\ from \in Nat /\ to \in Nat /\ L \in Nat
        /\ 1 <= from /\ to <= L + 1 /\ from <= a /\ a < b /\ b <= to
    BY <1>2, <1>3, <1>4, <1>5, <1>6 DEF a, b, from, to, L
  <2>2. a \in 1 .. L /\ b - 1 \in 1 .. L
    BY <2>1
  <2> QED
    BY <2>2 DEF a, b, L
<1> QED
  BY <1>1, <1>2, <1>3, <1>4, <1>5, <1>6, <1>7 DEF c, p

(* Pages told by their bounds are told right, and so are clauses.          *)
LEMMA PlacesAreFound ==
  ASSUME NEW t \in Texts, NEW bounds \in Seq(Nat), PagesAreTold(t, bounds)
  PROVE  PlacesAreRight(t, PassagesOf(t, bounds))
<1> DEFINE parts == TextParts(t)
           chunks == PassagesOf(t, bounds)
<1>1. AreParts(t, parts)
  BY TextPartsAre
<1>2. PICK own : ArePassages(t, bounds, parts, chunks, own)
  BY <1>1, PassagesAre
<1>3. chunks \in Seq(Passages) /\ DOMAIN chunks = 1 .. Len(chunks)
  <2>1. chunks \in Seq(Passages)
    BY <1>2 DEF ArePassages
  <2> HIDE DEF chunks
  <2> QED
    BY <2>1
<1> HIDE DEF parts, chunks
<1>3a. \A j \in 1 .. Len(parts) :
         PartIsUnder(parts[j], t, Headings(t), AppendixStart(t, Headings(t)))
  BY <1>1 DEF AreParts
<1>4. ASSUME NEW k \in 1 .. Len(chunks) PROVE PlaceIsRight(t, chunks, k)
  <2> DEFINE c == chunks[k]
             p == parts[own[k]]
  <2>1. /\ own[k] \in 1 .. Len(parts) /\ Len(parts) \in Nat /\ Len(chunks) \in Nat
        /\ c.start \in Nat /\ c.end \in Nat /\ c.heading \in Nat /\ c.clause \in Nat
        /\ p.from \in Nat /\ p.to \in Nat
        /\ p.from <= c.start /\ c.start < c.end /\ c.end <= p.to
        /\ c.start \in 1 .. Len(t) /\ c.end - 1 \in 1 .. Len(t)
        /\ t[c.start] \notin White /\ t[c.end - 1] \notin White
        /\ c.heading = p.heading /\ c.clause = p.clause
        /\ c.first = PageFor(bounds, c.start) /\ c.last = PageFor(bounds, c.end - 1)
    BY <1>1, <1>2, PassageIsFrom
  <2>2. c.first = OnPage(t, c.start) /\ c.last = OnPage(t, c.end - 1)
    BY <2>1 DEF PagesAreTold
  <2>3. /\ PartIsUnder(p, t, Headings(t), AppendixStart(t, Headings(t)))
        /\ p.clause > 0 =>
             \/ p.clause = 1 /\ p.from = p.heading
             \/ /\ own[k] > 1 /\ parts[own[k] - 1].heading = p.heading
                /\ parts[own[k] - 1].clause = p.clause - 1
    BY <1>1, <2>1 DEF AreParts
  <2>4. \/ k > 1 /\ own[k - 1] = own[k]
        \/ /\ IsSolid(t, p) => c.start = p.from
           /\ own[k] > 1 /\ IsSolid(t, parts[own[k] - 1]) => k > 1 /\ own[k - 1] = own[k] - 1
    BY <1>2 DEF ArePassages
  <2>5. c.clause > 0 =>
          /\ p.heading # 0 /\ IsSolid(t, p)
          /\ ClauseOpens(t, p, p.heading) /\ ClauseHolds(t, p, p.heading)
    <3> SUFFICES ASSUME c.clause > 0
                 PROVE  /\ p.heading # 0 /\ IsSolid(t, p)
                        /\ ClauseOpens(t, p, p.heading) /\ ClauseHolds(t, p, p.heading)
      OBVIOUS
    <3>1. p.clause > 0
      BY <2>1
    <3>2. p.heading # 0
      <4>1. p.heading = 0 => p.clause = 0
        BY <2>3 DEF PartIsUnder
      <4> QED
        BY <3>1, <4>1
    <3> HIDE DEF p
    <3> QED
      BY <2>3, <3>1, <3>2 DEF PartIsUnder, IsSolid
  <2>6. c.clause > 0 =>
          ~\E i \in c.start .. c.end - 1 : \E b \in c.heading .. i - 1 :
              Numbered(t, b, c.clause) /\ Numbered(t, i, c.clause + 1)
    <3> SUFFICES ASSUME c.clause > 0, NEW i \in c.start .. c.end - 1,
                        NEW b \in c.heading .. i - 1,
                        Numbered(t, b, c.clause), Numbered(t, i, c.clause + 1)
                 PROVE  FALSE
      OBVIOUS
    <3>1. ClauseHolds(t, p, c.heading)
      BY <2>1, <2>5
    <3>2. i \in p.from .. p.to - 1
      <4> DEFINE start == c.start
                 end == c.end
                 from == p.from
                 to == p.to
      <4>1. i \in start .. end - 1
        OBVIOUS
      <4> HIDE DEF start, end, from, to
      <4>2. /\ start \in Nat /\ end \in Nat /\ from \in Nat /\ to \in Nat
            /\ from <= start /\ end <= to
        BY <2>1 DEF start, end, from, to
      <4>3. i \in from .. to - 1
        BY <4>1, <4>2
      <4> QED
        BY <4>3 DEF from, to
    <3>3. ~(Numbered(t, b, p.clause) /\ Numbered(t, i, p.clause + 1))
      BY <3>1, <3>2 DEF ClauseHolds
    <3>4. p.clause = c.clause
      BY <2>1
    <3> HIDE DEF c, p
    <3>5. ~(Numbered(t, b, c.clause) /\ Numbered(t, i, c.clause + 1))
      BY <3>3, <3>4
    <3> QED
      BY <3>5
  <2>7. ASSUME c.clause > 0,
               k = 1 \/ chunks[k - 1].heading # c.heading \/ chunks[k - 1].clause # c.clause,
               ~(c.clause = 1 /\ c.start = c.heading)
        PROVE  /\ Numbered(t, c.start, c.clause)
               /\ chunks[k - 1].heading = c.heading
               /\ chunks[k - 1].clause = c.clause - 1
    <3>0. k \in Nat /\ (k > 1 => k - 1 \in 1 .. Len(chunks))
      <4>1. Len(chunks) \in Nat
        BY <2>1
      <4> QED
        BY <4>1
    <3>1. k > 1 => /\ own[k - 1] \in 1 .. Len(parts)
                   /\ chunks[k - 1].heading = parts[own[k - 1]].heading
                   /\ chunks[k - 1].clause = parts[own[k - 1]].clause
      <4> SUFFICES ASSUME k > 1
                   PROVE  /\ own[k - 1] \in 1 .. Len(parts)
                          /\ chunks[k - 1].heading = parts[own[k - 1]].heading
                          /\ chunks[k - 1].clause = parts[own[k - 1]].clause
        OBVIOUS
      <4> DEFINE j == k - 1
      <4>1. j \in 1 .. Len(chunks)
        BY <3>0
      <4> HIDE DEF j
      <4>2. /\ own[j] \in 1 .. Len(parts)
            /\ chunks[j].heading = parts[own[j]].heading
            /\ chunks[j].clause = parts[own[j]].clause
        BY <1>1, <1>2, <4>1, PassageIsFrom
      <4> QED
        BY <4>2 DEF j
    <3>2. ~(k > 1 /\ own[k - 1] = own[k])
      <4> SUFFICES ASSUME k > 1, own[k - 1] = own[k] PROVE FALSE
        OBVIOUS
      <4>1. k # 1 /\ chunks[k - 1].heading = p.heading /\ chunks[k - 1].clause = p.clause
        BY <3>0, <3>1
      <4>2. c.heading = p.heading /\ c.clause = p.clause
        BY <2>1
      <4> QED
        BY <2>7, <4>1, <4>2
    <3>3. IsSolid(t, p) /\ p.heading # 0 /\ ClauseOpens(t, p, p.heading)
      BY <2>5, <2>7
    <3>4. c.start = p.from
      BY <2>4, <3>2, <3>3
    <3>5. c.heading = p.heading /\ c.clause = p.clause /\ p.clause > 0
      BY <2>1, <2>7
    <3>6. ~(p.clause = 1 /\ p.from = p.heading)
      BY <2>7, <3>4, <3>5
    <3>7. Numbered(t, c.start, c.clause)
      BY <3>3, <3>4, <3>5, <3>6 DEF ClauseOpens
    <3>8. /\ own[k] > 1 /\ parts[own[k] - 1].heading = p.heading
          /\ parts[own[k] - 1].clause = p.clause - 1
      BY <2>3, <3>5, <3>6
    <3>9. IsSolid(t, parts[own[k] - 1])
      <4> DEFINE o == own[k] - 1
                 q == parts[o]
      <4>1. o \in 1 .. Len(parts)
        <5> DEFINE w == own[k]
                   m == Len(parts)
        <5> HIDE DEF w, m
        <5>1. w \in 1 .. m /\ m \in Nat
          BY <2>1 DEF w, m
        <5>2. w > 1
          BY <3>8 DEF w
        <5>3. w - 1 \in 1 .. m
          BY <5>1, <5>2
        <5> QED
          BY <5>3 DEF w, m
      <4>2. q.heading # 0
        BY <3>3, <3>8
      <4> HIDE DEF o
      <4>3. PartIsUnder(q, t, Headings(t), AppendixStart(t, Headings(t)))
        BY <1>3a, <4>1
      <4> HIDE DEF q
      <4>4. IsSolid(t, q)
        BY <4>2, <4>3 DEF PartIsUnder, IsSolid
      <4> QED
        BY <4>4 DEF o, q
    <3>10. k > 1 /\ own[k - 1] = own[k] - 1
      BY <2>4, <3>2, <3>8, <3>9
    <3>11. chunks[k - 1].heading = p.heading /\ chunks[k - 1].clause = p.clause - 1
      BY <3>1, <3>8, <3>10
    <3> QED
      BY <3>5, <3>7, <3>11
  <2> QED
    BY <2>2, <2>6, <2>7 DEF PlaceIsRight
<1>5. \A k \in 1 .. Len(chunks) : PlaceIsRight(t, chunks, k)
  BY <1>4
<1>6. PlacesAreRight(t, chunks)
  BY <1>3, <1>5 DEF PlacesAreRight, PlaceIsRight, Numbered, OnPage
<1> QED
  BY <1>6 DEF chunks

-----------------------------------------------------------------------------
(* The preview.                                                            *)

(* The pages of a text go up.                                              *)
LEMMA PagesGoUp ==
  ASSUME NEW bounds \in Seq(Nat), NEW i \in Nat, NEW j \in Nat, i <= j
  PROVE  PageFor(bounds, i) <= PageFor(bounds, j)
<1> DEFINE S(x) == {p \in DOMAIN bounds : bounds[p] <= x}
<1>1. DOMAIN bounds = 1 .. Len(bounds) /\ Len(bounds) \in Nat
      /\ \A p \in DOMAIN bounds : bounds[p] \in Nat
  OBVIOUS
<1>2. IsFiniteSet(DOMAIN bounds)
  <2>1. 1 \in Int /\ Len(bounds) \in Int
    BY <1>1
  <2> QED
    BY <1>1, <2>1, FS_Interval
<1>3. S(i) \subseteq S(j) /\ S(j) \in SUBSET (DOMAIN bounds)
  BY <1>1
<1> HIDE DEF S
<1>4. IsFiniteSet(S(j))
  BY <1>2, <1>3, FS_Subset
<1>5. Cardinality(S(i)) <= Cardinality(S(j))
  BY <1>3, <1>4, FS_Subset
<1> QED
  BY <1>5 DEF PageFor, S

(* The number of the article a passage belongs to, or 0.                   *)
NumberOf(t, c) ==
  IF c.heading = 0 \/ t[c.heading] \notin DOMAIN Articles THEN 0
  ELSE Articles[t[c.heading]].number

(* The passages of articles are those with a number, and they are in the   *)
(* order of pages, of articles and of clauses.                             *)
LEMMA PassagesInOrder ==
  ASSUME NEW t \in Texts, NEW bounds \in Seq(Nat)
  PROVE  LET chunks == PassagesOf(t, bounds)
         IN  /\ DOMAIN chunks = 1 .. Len(chunks) /\ Len(chunks) \in Nat
             /\ \A k \in 1 .. Len(chunks) :
                  /\ chunks[k].first \in Nat /\ chunks[k].clause \in Nat
                  /\ NumberOf(t, chunks[k]) \in Nat
                  /\ chunks[k].heading # 0 /\ t[chunks[k].heading] \in DOMAIN Articles
                       => NumberOf(t, chunks[k]) > 0
             /\ \A j, k \in 1 .. Len(chunks) : j < k =>
                  /\ chunks[j].first <= chunks[k].first
                  /\ NumberOf(t, chunks[j]) > 0 /\ NumberOf(t, chunks[k]) > 0 =>
                       \/ NumberOf(t, chunks[j]) < NumberOf(t, chunks[k])
                       \/ /\ chunks[j].heading = chunks[k].heading
                          /\ chunks[j].clause <= chunks[k].clause
<1> DEFINE parts == TextParts(t)
           chunks == PassagesOf(t, bounds)
           all == Headings(t)
           n == Len(chunks)
<1>1. AreParts(t, parts)
  BY TextPartsAre
<1>2. PICK own : ArePassages(t, bounds, parts, chunks, own)
  BY <1>1, PassagesAre
<1>3. \A k \in DOMAIN chunks : chunks[k].heading # 0 =>
        \E i \in 1 .. Len(all) : chunks[k].heading = all[i]
  BY PassagesAreUnder DEF PassageIsUnder
<1>4. IF RecordArticles(t) = {}
      THEN \A k \in 1 .. Len(all) : t[all[k]] \notin DOMAIN Articles
      ELSE \A k \in 1 .. Len(all) : all[k] \in RecordArticles(t)
  BY HeadingsAre
<1>5. chunks \in Seq(Passages) /\ DOMAIN chunks = 1 .. n /\ n \in Nat
  <2>1. chunks \in Seq(Passages)
    BY <1>2 DEF ArePassages
  <2> HIDE DEF chunks
  <2> QED
    BY <2>1
<1> HIDE DEF parts, chunks, all
<1>6. ASSUME NEW k \in 1 .. n, chunks[k].heading # 0, t[chunks[k].heading] \in DOMAIN Articles
      PROVE  chunks[k].heading \in RecordArticles(t)
  <2>1. PICK i \in 1 .. Len(all) : chunks[k].heading = all[i]
    BY <1>3, <1>5, <1>6
  <2>2. RecordArticles(t) # {}
    BY <1>4, <1>6, <2>1
  <2> QED
    BY <1>4, <2>1, <2>2
<1>7. /\ \A i \in RecordArticles(t) : Number(t, i) \in Nat /\ Number(t, i) > 0
      /\ \A i, j \in RecordArticles(t) : j < i => Number(t, j) < Number(t, i)
  BY RecordArticlesAre
<1>8. ASSUME NEW k \in 1 .. n
      PROVE  /\ NumberOf(t, chunks[k]) \in Nat
             /\ NumberOf(t, chunks[k]) > 0 =>
                  /\ chunks[k].heading # 0
                  /\ chunks[k].heading \in RecordArticles(t)
                  /\ NumberOf(t, chunks[k]) = Number(t, chunks[k].heading)
             /\ chunks[k].heading # 0 /\ t[chunks[k].heading] \in DOMAIN Articles
                  => NumberOf(t, chunks[k]) > 0
  <2>1. CASE chunks[k].heading # 0 /\ t[chunks[k].heading] \in DOMAIN Articles
    <3>1. chunks[k].heading \in RecordArticles(t)
      BY <1>6, <2>1
    <3>2. NumberOf(t, chunks[k]) = Number(t, chunks[k].heading)
      BY <2>1 DEF NumberOf, Number
    <3> QED
      BY <1>7, <2>1, <3>1, <3>2
  <2>2. CASE ~(chunks[k].heading # 0 /\ t[chunks[k].heading] \in DOMAIN Articles)
    <3>1. NumberOf(t, chunks[k]) = 0
      BY <2>2 DEF NumberOf
    <3> QED
      BY <2>2, <3>1
  <2> QED
    BY <2>1, <2>2
<1>9. ASSUME NEW k \in 1 .. n
      PROVE  /\ own[k] \in 1 .. Len(parts)
             /\ chunks[k].start \in Nat /\ chunks[k].end \in Nat
             /\ chunks[k].start < chunks[k].end
             /\ chunks[k].heading \in Nat /\ chunks[k].clause \in Nat
             /\ chunks[k].heading = parts[own[k]].heading
             /\ chunks[k].clause = parts[own[k]].clause
             /\ chunks[k].first = PageFor(bounds, chunks[k].start)
  BY <1>1, <1>2, PassageIsFrom
<1>10. ASSUME NEW k \in 1 .. n PROVE chunks[k].first \in Nat
  BY <1>9, PageForIs
<1>11. \A j, k \in 1 .. n : j < k => chunks[j].end <= chunks[k].start /\ own[j] <= own[k]
  BY <1>2 DEF ArePassages
<1>12. ASSUME NEW j \in 1 .. n, NEW k \in 1 .. n, j < k
       PROVE  chunks[j].first <= chunks[k].first
  <2> DEFINE a == chunks[j].start
             b == chunks[j].end
             c == chunks[k].start
  <2> HIDE DEF a, b, c
  <2>1. a \in Nat /\ b \in Nat /\ c \in Nat /\ a < b
    BY <1>9 DEF a, b, c
  <2>2. b <= c
    BY <1>11, <1>12 DEF b, c
  <2>3. a <= c
    BY <2>1, <2>2
  <2>4. PageFor(bounds, a) <= PageFor(bounds, c)
    BY <2>1, <2>3, PagesGoUp
  <2> QED
    BY <1>9, <2>4 DEF a, c
<1>13. \A j, k \in 1 .. Len(parts) : j < k =>
         \/ parts[j].heading = 0 \/ parts[k].heading = 0
         \/ parts[j].heading < parts[k].heading
         \/ parts[j].heading = parts[k].heading /\ parts[j].clause < parts[k].clause
  BY <1>1 DEF AreParts
<1>14. ASSUME NEW j \in 1 .. n, NEW k \in 1 .. n, j < k,
              NumberOf(t, chunks[j]) > 0, NumberOf(t, chunks[k]) > 0
       PROVE  \/ NumberOf(t, chunks[j]) < NumberOf(t, chunks[k])
              \/ /\ chunks[j].heading = chunks[k].heading
                 /\ chunks[j].clause <= chunks[k].clause
  <2> DEFINE p == own[j]
             q == own[k]
  <2>1. p \in 1 .. Len(parts) /\ q \in 1 .. Len(parts) /\ p <= q
    BY <1>9, <1>11, <1>14
  <2>2. /\ chunks[j].heading = parts[p].heading /\ chunks[j].clause = parts[p].clause
        /\ chunks[k].heading = parts[q].heading /\ chunks[k].clause = parts[q].clause
        /\ chunks[j].clause \in Nat /\ chunks[k].clause \in Nat
    BY <1>9
  <2>3. /\ chunks[j].heading # 0 /\ chunks[j].heading \in RecordArticles(t)
        /\ NumberOf(t, chunks[j]) = Number(t, chunks[j].heading)
        /\ chunks[k].heading # 0 /\ chunks[k].heading \in RecordArticles(t)
        /\ NumberOf(t, chunks[k]) = Number(t, chunks[k].heading)
    BY <1>8, <1>14
  <2> HIDE DEF p, q
  <2>4. CASE p = q
    BY <2>2, <2>4
  <2>5. CASE p # q
    <3>1. p < q
      BY <2>1, <2>5
    <3>2. \/ chunks[j].heading < chunks[k].heading
          \/ chunks[j].heading = chunks[k].heading /\ chunks[j].clause < chunks[k].clause
      BY <1>13, <2>1, <2>2, <2>3, <3>1
    <3>3. CASE chunks[j].heading < chunks[k].heading
      <4>1. Number(t, chunks[j].heading) < Number(t, chunks[k].heading)
        BY <1>7, <2>3, <3>3
      <4> QED
        BY <2>3, <4>1
    <3>4. CASE chunks[j].heading = chunks[k].heading /\ chunks[j].clause < chunks[k].clause
      BY <2>2, <3>4
    <3> QED
      BY <3>2, <3>3, <3>4
  <2> QED
    BY <2>4, <2>5
<1>15. \A k \in 1 .. n : /\ chunks[k].first \in Nat /\ chunks[k].clause \in Nat
                         /\ NumberOf(t, chunks[k]) \in Nat
                         /\ chunks[k].heading # 0 /\ t[chunks[k].heading] \in DOMAIN Articles
                              => NumberOf(t, chunks[k]) > 0
  BY <1>8, <1>9, <1>10
<1> QED
  BY <1>5, <1>12, <1>14, <1>15 DEF chunks, n

(* A preview is of the article, the clause and the page of the first       *)
(* passage of an article.                                                  *)
LEMMA PreviewsAre ==
  ASSUME NEW t \in Texts, NEW bounds \in Seq(Nat), NEW k \in Previews(t, PassagesOf(t, bounds)),
         NEW m \in 1 .. Len(PassagesOf(t, bounds)), NumberOf(t, PassagesOf(t, bounds)[m]) > 0,
         \A j \in 1 .. Len(PassagesOf(t, bounds)) :
           NumberOf(t, PassagesOf(t, bounds)[j]) > 0 => m <= j
  PROVE  LET chunks == PassagesOf(t, bounds)
         IN  /\ k \in 1 .. Len(chunks) /\ m <= k
             /\ chunks[k].first = chunks[m].first
             /\ chunks[k].heading = chunks[m].heading
             /\ chunks[k].clause = chunks[m].clause
<1> DEFINE chunks == PassagesOf(t, bounds)
           n == Len(chunks)
           num(i) == NumberOf(t, chunks[i])
<1>1. /\ DOMAIN chunks = 1 .. n /\ n \in Nat
      /\ \A i \in 1 .. n : /\ chunks[i].first \in Nat /\ chunks[i].clause \in Nat
                           /\ num(i) \in Nat
      /\ \A i, j \in 1 .. n : i < j =>
           /\ chunks[i].first <= chunks[j].first
           /\ num(i) > 0 /\ num(j) > 0 => \/ num(i) < num(j)
                                         \/ /\ chunks[i].heading = chunks[j].heading
                                            /\ chunks[i].clause <= chunks[j].clause
  BY PassagesInOrder
<1>2. m \in 1 .. n /\ num(m) > 0 /\ \A j \in 1 .. n : num(j) > 0 => m <= j
  OBVIOUS
<1> HIDE DEF chunks
<1>3. /\ k \in 1 .. n
      /\ ~ \/ num(m) > 0 /\ num(k) = 0
           \/ /\ (num(m) = 0) = (num(k) = 0)
              /\ \/ chunks[m].first < chunks[k].first
                 \/ chunks[m].first = chunks[k].first /\ num(m) < num(k)
                 \/ /\ chunks[m].first = chunks[k].first /\ num(m) = num(k)
                    /\ chunks[m].clause < chunks[k].clause
  BY <1>1, <1>2 DEF Previews, NumberOf, ClauseRank, chunks
<1>4. chunks[m].heading = chunks[k].heading => num(m) = num(k)
  BY DEF NumberOf
<1> HIDE DEF num
<1>5. /\ num(m) \in Nat /\ num(k) \in Nat /\ chunks[m].first \in Nat /\ chunks[k].first \in Nat
      /\ chunks[m].clause \in Nat /\ chunks[k].clause \in Nat
  BY <1>1, <1>2, <1>3
<1>6. num(k) > 0
  BY <1>2, <1>3, <1>5
<1>7. m <= k
  BY <1>2, <1>3, <1>6
<1>8. CASE m = k
  BY <1>3, <1>8 DEF chunks
<1>9. CASE m # k
  <2>1. m < k
    BY <1>2, <1>3, <1>7, <1>9
  <2>2. /\ chunks[m].first <= chunks[k].first
        /\ \/ num(m) < num(k)
           \/ chunks[m].heading = chunks[k].heading /\ chunks[m].clause <= chunks[k].clause
    BY <1>1, <1>2, <1>3, <1>6, <2>1
  <2>3. (num(m) = 0) = (num(k) = 0)
    BY <1>2, <1>5, <1>6
  <2>4. chunks[m].first = chunks[k].first /\ ~(num(m) < num(k))
    BY <1>3, <1>5, <2>2, <2>3
  <2>5. /\ chunks[m].heading = chunks[k].heading /\ chunks[m].clause <= chunks[k].clause
        /\ num(m) = num(k)
    BY <1>4, <2>2, <2>4
  <2>6. chunks[m].clause = chunks[k].clause
    BY <1>3, <1>5, <2>3, <2>4, <2>5
  <2> QED
    BY <1>3, <1>7, <2>4, <2>5, <2>6 DEF chunks
<1> QED
  BY <1>8, <1>9

(* Positions in two parts: the parts are the same.                         *)
LEMMA OnePart ==
  ASSUME NEW t \in Texts, NEW parts, AreParts(t, parts),
         NEW p \in 1 .. Len(parts), NEW q \in 1 .. Len(parts), NEW x \in Nat,
         parts[p].from <= x, x < parts[p].to, parts[q].from <= x, x < parts[q].to
  PROVE  p = q
<1>1. /\ parts \in Seq(Parts)
      /\ \A j, k \in 1 .. Len(parts) : j < k => parts[j].to <= parts[k].from
  BY DEF AreParts
<1>2. \A j \in 1 .. Len(parts) : parts[j] \in Parts
  BY <1>1, ElementOfSeq
<1>3. \A j \in 1 .. Len(parts) : parts[j].from \in Nat /\ parts[j].to \in Nat
  BY <1>2 DEF Parts
<1>4. ~(p < q)
  <2> SUFFICES ASSUME p < q PROVE FALSE
    OBVIOUS
  <2>1. parts[p].to <= parts[q].from
    BY <1>1
  <2> QED
    BY <1>3, <2>1
<1>5. ~(q < p)
  <2> SUFFICES ASSUME q < p PROVE FALSE
    OBVIOUS
  <2>1. parts[q].to <= parts[p].from
    BY <1>1
  <2> QED
    BY <1>3, <2>1
<1> QED
  BY <1>4, <1>5

(* The first article begins a part, and a passage.                         *)
LEMMA OpeningPart ==
  ASSUME NEW t \in Texts, NEW parts, AreParts(t, parts), RecordArticles(t) # {}
  PROVE  LET first == Headings(t)[1]
         IN  \E p \in 1 .. Len(parts) : /\ parts[p].from = first /\ parts[p].heading = first
                                        /\ IsSolid(t, parts[p])
<1> DEFINE all == Headings(t)
           first == all[1]
           e == AppendixStart(t, all)
<1>1. /\ Len(all) \in Nat /\ 1 \in 1 .. Len(all) /\ all # <<>> /\ Head(all) = first
      /\ first \in 1 .. Len(t) /\ t[first] \notin White
      /\ \A i \in 1 .. Len(all) : all[i] \in Nat /\ first <= all[i]
  <2>1. /\ Len(all) \in Nat /\ Len(all) >= 1 /\ Head(all) = all[1]
        /\ \A k \in 1 .. Len(all) : all[k] \in RecordArticles(t) /\ all[k] \in 1 .. Len(t)
        /\ \A x \in RecordArticles(t) : t[x] \notin White /\ all[1] <= x
    BY ArticlesAreHeadings
  <2> HIDE DEF all
  <2>2. 1 \in 1 .. Len(all) /\ all # <<>>
    BY <2>1
  <2> QED
    BY <2>1, <2>2
<1>2. e # 0 => e >= LineEnd(t, first) /\ e \in Nat
  <2>1. Head(all) = first
    BY <1>1
  <2>2. e # 0 => e >= LineEnd(t, Head(all)) /\ e \in 0 .. Len(t)
    BY AppendixIs
  <2> QED
    BY <2>1, <2>2
<1>3. LineEnd(t, first) \in first + 1 .. Len(t) + 1 /\ Len(t) \in Nat
  BY <1>1, LineEndIs DEF Texts
<1>4. PICK top \in 1 .. Len(t) + 1 :
        /\ top <= first
        /\ \A i \in top .. Len(t) :
             \E k \in 1 .. Len(parts) : i \in parts[k].from .. parts[k].to - 1
  BY <1>1 DEF AreParts
<1>5. /\ parts \in Seq(Parts)
      /\ \A k \in 1 .. Len(parts) : PartIsUnder(parts[k], t, all, e)
  BY DEF AreParts
<1> HIDE DEF all, e
<1>6. first \in top .. Len(t) /\ first \in Nat
  BY <1>1, <1>3, <1>4
<1>7. PICK p \in 1 .. Len(parts) : first \in parts[p].from .. parts[p].to - 1
  BY <1>4, <1>6
<1> DEFINE q == parts[p]
<1>8. q \in Parts /\ PartIsUnder(q, t, all, e)
  BY <1>5, ElementOfSeq
<1> HIDE DEF first
<1>9. q.from \in Nat /\ q.to \in Nat /\ q.heading \in Nat
  BY <1>8 DEF Parts
<1>10. q.from <= first /\ first < q.to
  BY <1>6, <1>7, <1>9
<1> HIDE DEF q
<1>11. q.heading # 0
  <2> SUFFICES ASSUME q.heading = 0 PROVE FALSE
    OBVIOUS
  <2>1. (\A i \in 1 .. Len(all) : q.to <= all[i]) \/ (e # 0 /\ q.from = e)
    BY <1>8 DEF PartIsUnder
  <2>2. ~(\A i \in 1 .. Len(all) : q.to <= all[i])
    BY <1>1, <1>6, <1>9, <1>10 DEF first
  <2>3. ~(e # 0 /\ q.from = e)
    BY <1>1, <1>2, <1>3, <1>6, <1>10
  <2> QED
    BY <2>1, <2>2, <2>3
<1>12. /\ \E i \in 1 .. Len(all) : q.heading = all[i]
       /\ q.heading <= q.from /\ q.from < q.to /\ t[q.from] \notin White
  BY <1>8, <1>11 DEF PartIsUnder
<1>13. first <= q.heading
  BY <1>1, <1>12
<1>14. q.from = first /\ q.heading = first
  BY <1>6, <1>9, <1>10, <1>12, <1>13
<1>15. parts[p].from = first /\ parts[p].heading = first /\ IsSolid(t, parts[p])
  BY <1>12, <1>14 DEF q, IsSolid
<1> QED
  BY <1>15 DEF first, all

(* The passage previewed is the one that opens the first article, or a     *)
(* later piece of what is too long for one passage.                        *)
LEMMA OpeningIsFound ==
  ASSUME NEW t \in Texts, NEW bounds \in Seq(Nat), TrueArticles(t) # {}, ArticlesGoUp(t)
  PROVE  OpensAt(Min(TrueArticles(t)), t, PassagesOf(t, bounds))
<1> DEFINE chunks == PassagesOf(t, bounds)
           parts == TextParts(t)
           n == Len(chunks)
           R == RecordArticles(t)
           all == Headings(t)
           first == all[1]
<1>1. TrueArticles(t) = R
  BY TrueAreRecords
<1>2. /\ Len(all) \in Nat /\ Len(all) >= 1
      /\ \A k \in 1 .. Len(all) : all[k] \in R /\ all[k] \in 1 .. Len(t)
      /\ \A x \in R : x \in 1 .. Len(t) /\ all[1] <= x
      /\ \A k \in 1 .. Len(all) : all[1] <= all[k]
  <2>1. R # {}
    BY <1>1
  <2>2. /\ Len(all) \in Nat /\ Len(all) >= 1
        /\ \A k \in 1 .. Len(all) : all[k] \in R /\ all[k] \in 1 .. Len(t)
        /\ \A x \in R : x \in 1 .. Len(t) /\ all[1] <= x
    BY <2>1, ArticlesAreHeadings
  <2> QED
    BY <2>2
<1>3. AreParts(t, parts)
  BY TextPartsAre
<1>4. PICK own : ArePassages(t, bounds, parts, chunks, own)
  BY <1>3, PassagesAre
<1>5. PICK p \in 1 .. Len(parts) : /\ parts[p].from = first /\ parts[p].heading = first
                                   /\ IsSolid(t, parts[p])
  <2>1. R # {}
    BY <1>1
  <2> QED
    BY <1>3, <2>1, OpeningPart
<1>6. /\ n \in Nat /\ DOMAIN chunks = 1 .. n
      /\ \A k \in 1 .. n : NumberOf(t, chunks[k]) \in Nat
      /\ \A k \in 1 .. n : chunks[k].heading # 0 /\ t[chunks[k].heading] \in DOMAIN Articles
                             => NumberOf(t, chunks[k]) > 0
  BY PassagesInOrder
<1>7. \A k \in 1 .. n : chunks[k].heading # 0 => \E i \in 1 .. Len(all) : chunks[k].heading = all[i]
  BY <1>6, PassagesAreUnder DEF PassageIsUnder
<1>7a. \A k \in 1 .. n : chunks[k].heading # 0 => chunks[k].heading <= chunks[k].start
  BY <1>6, PassagesAreUnder DEF PassageIsUnder
<1>8. /\ \A j, k \in 1 .. n : j < k => chunks[j].end <= chunks[k].start /\ own[j] <= own[k]
      /\ \A i \in 1 .. Len(parts) : \A x \in parts[i].from .. parts[i].to - 1 :
           t[x] \notin White => \E k \in 1 .. n : x \in chunks[k].start .. chunks[k].end - 1
      /\ \A k \in 1 .. n : IsSolid(t, parts[own[k]]) =>
           \/ chunks[k].start = parts[own[k]].from
           \/ IsLong(t, parts[own[k]].from, parts[own[k]].to)
  BY <1>4 DEF ArePassages, IsPassage
<1>9. MaxChunk \in Nat /\ MaxChunk > 0 /\ Len(t) \in Nat
  BY ChunkingAssumption DEF Texts
<1>10. first \in R /\ first \in Nat /\ first # 0 /\ t[first] \in DOMAIN Articles
  <2>1. 1 \in 1 .. Len(all)
    BY <1>2
  <2>2. first \in R /\ first \in 1 .. Len(t)
    BY <1>2, <2>1
  <2>3. \A x \in R : t[x] \in DOMAIN Articles
    BY RecordArticlesAre
  <2> QED
    BY <1>9, <2>2, <2>3
<1>11. Min(TrueArticles(t)) = first
  <2>1. R \in SUBSET (1 .. Len(t)) /\ first \in R /\ \A x \in R : first <= x
    BY <1>2, <1>10
  <2> HIDE DEF R, first
  <2>2. Min(R) \in R /\ Min(R) <= first
    BY <1>9, <2>1, LeastOfAll
  <2>3. Min(R) \in Nat /\ first <= Min(R)
    <3>1. Min(R) \in Nat
      <4>1. R \in SUBSET Nat
        <5>1. 1 .. Len(t) \in SUBSET Nat
          BY <1>9
        <5> QED
          BY <2>1, <5>1
      <4> QED
        BY <2>2, <4>1
    <3>2. first <= Min(R)
      BY <2>1, <2>2
    <3> QED
      BY <3>1, <3>2
  <2> QED
    BY <1>1, <1>10, <2>2, <2>3
<1> HIDE DEF chunks, parts, R, all, first
<1>12. ASSUME NEW k \in 1 .. n
       PROVE  /\ own[k] \in 1 .. Len(parts)
              /\ chunks[k].start \in Nat /\ chunks[k].end \in Nat
              /\ parts[own[k]].from <= chunks[k].start /\ chunks[k].start < chunks[k].end
              /\ chunks[k].end <= parts[own[k]].to
              /\ parts[own[k]].from \in Nat /\ parts[own[k]].to \in Nat
              /\ chunks[k].heading \in Nat /\ chunks[k].clause \in Nat
              /\ chunks[k].heading = parts[own[k]].heading
              /\ chunks[k].clause = parts[own[k]].clause
  BY <1>3, <1>4, PassageIsFrom DEF n
<1>13. ASSUME NEW k \in 1 .. n, NEW x \in parts[p].from .. parts[p].to - 1,
              x \in chunks[k].start .. chunks[k].end - 1
       PROVE  own[k] = p
  <2> DEFINE q == own[k]
             a == parts[p].from
             b == parts[p].to
             c == parts[q].from
             d == parts[q].to
             y == chunks[k].start
             z == chunks[k].end
  <2>1. /\ q \in 1 .. Len(parts) /\ y \in Nat /\ z \in Nat /\ c <= y /\ z <= d
        /\ c \in Nat /\ d \in Nat
    BY <1>12
  <2>2. a \in Nat /\ b \in Nat
    <3>1. parts \in Seq(Parts)
      BY <1>3 DEF AreParts
    <3>2. parts[p] \in Parts
      BY <3>1, ElementOfSeq
    <3> QED
      BY <3>2 DEF Parts
  <2>3. x \in a .. b - 1 /\ x \in y .. z - 1
    BY <1>13
  <2> HIDE DEF q, a, b, c, d, y, z
  <2>4. x \in Nat /\ a <= x /\ x < b /\ c <= x /\ x < d
    BY <2>1, <2>2, <2>3
  <2>5. p = q
    BY <1>3, <2>1, <2>4, OnePart DEF a, b, c, d
  <2> QED
    BY <2>5 DEF q
<1>14. PICK o \in 1 .. n : own[o] = p /\ chunks[o].start = first
  <2>1. parts[p].from \in parts[p].from .. parts[p].to - 1 /\ t[first] \notin White
    <3>1. parts[p].from < parts[p].to /\ t[parts[p].from] \notin White
      BY <1>5 DEF IsSolid
    <3>2. parts \in Seq(Parts)
      BY <1>3 DEF AreParts
    <3>3. parts[p] \in Parts
      BY <3>2, ElementOfSeq
    <3>4. parts[p].from \in Nat /\ parts[p].to \in Nat
      BY <3>3 DEF Parts
    <3> QED
      BY <1>5, <3>1, <3>4
  <2>2. PICK o \in 1 .. n : first \in chunks[o].start .. chunks[o].end - 1
    BY <1>5, <1>8, <2>1
  <2>3. own[o] = p
    BY <1>5, <1>13, <2>1, <2>2
  <2>4. first <= chunks[o].start /\ chunks[o].start \in Nat /\ chunks[o].end \in Nat
    BY <1>5, <1>12, <2>3
  <2>5. chunks[o].start = first
    BY <1>10, <2>2, <2>4
  <2> QED
    BY <2>3, <2>5
<1>15. chunks[o].heading = first
  BY <1>5, <1>12, <1>14
<1>16. ASSUME NEW k \in 1 .. n, chunks[k].heading # 0 PROVE o <= k
  <2> SUFFICES ASSUME k < o PROVE FALSE
    BY <1>6
  <2>1. chunks[k].end <= first
    BY <1>8, <1>14
  <2>2. first <= chunks[k].heading
    BY <1>2, <1>7, <1>16 DEF first
  <2>3. chunks[k].heading <= chunks[k].start
    BY <1>7a, <1>16
  <2>4. /\ chunks[k].heading \in Nat /\ chunks[k].start \in Nat /\ chunks[k].end \in Nat
        /\ chunks[k].start < chunks[k].end
    BY <1>12
  <2> QED
    BY <1>10, <2>1, <2>2, <2>3, <2>4
<1> DEFINE opening == Min({k \in DOMAIN chunks : chunks[k].heading = first})
           pieces == {k \in opening .. Len(chunks) : \A j \in opening .. k :
                        /\ chunks[j].heading = first
                        /\ chunks[j].clause = chunks[opening].clause}
           long == chunks[Max(pieces)].end - first > MaxChunk
<1>17. opening = o
  <2> DEFINE S == {k \in DOMAIN chunks : chunks[k].heading = first}
  <2>1. S \in SUBSET (1 .. n) /\ o \in S /\ \A k \in S : o <= k
    BY <1>6, <1>10, <1>15, <1>16
  <2> HIDE DEF S
  <2>2. Min(S) \in S /\ Min(S) <= o
    BY <1>6, <2>1, LeastOfAll
  <2>3. o <= Min(S) /\ Min(S) \in 1 .. n
    BY <2>1, <2>2
  <2> QED
    BY <1>6, <2>2, <2>3 DEF S
<1> HIDE DEF opening
<1>18. \A k : k \in pieces <=> /\ k \in o .. n
                               /\ \A j \in o .. k : /\ chunks[j].heading = first
                                                    /\ chunks[j].clause = chunks[o].clause
  BY <1>17 DEF n
<1> HIDE DEF pieces
<1>19. ASSUME NEW k \in 1 .. n, o <= k, own[k] = p PROVE k \in pieces
  <2>1. ASSUME NEW j \in o .. k
        PROVE  chunks[j].heading = first /\ chunks[j].clause = chunks[o].clause
    <3>1. j \in 1 .. n /\ o <= j /\ j <= k
      BY <1>6
    <3>2. own[o] <= own[j] /\ own[j] <= own[k]
      <4>1. /\ own[o] \in 1 .. Len(parts) /\ own[j] \in 1 .. Len(parts)
            /\ own[k] \in 1 .. Len(parts) /\ Len(parts) \in Nat
        <5>1. parts \in Seq(Parts)
          BY <1>3 DEF AreParts
        <5>2. Len(parts) \in Nat
          BY <5>1
        <5> QED
          BY <1>12, <3>1, <5>2
      <4>2. o = j \/ o < j
        BY <1>6, <3>1
      <4>3. j = k \/ j < k
        BY <1>6, <3>1
      <4> QED
        BY <1>8, <3>1, <4>1, <4>2, <4>3
    <3>3. own[j] = p
      <4>1. own[j] \in 1 .. Len(parts)
        BY <1>12, <3>1
      <4>2. p <= own[j] /\ own[j] <= p
        BY <1>14, <1>19, <3>2
      <4> QED
        BY <4>1, <4>2
    <3> QED
      BY <1>5, <1>12, <1>14, <3>1, <3>3
  <2>2. k \in o .. n
    BY <1>6, <1>19
  <2> QED
    BY <1>18, <2>1, <2>2
<1>20. ASSUME NEW k \in 1 .. n, own[k] = p, chunks[k].start # first PROVE long
  <2>1. IsLong(t, first, parts[p].to)
    BY <1>5, <1>8, <1>20
  <2>2. PICK x \in first + MaxChunk .. parts[p].to - 1 : t[x] \notin White
    BY <2>1 DEF IsLong
  <2>3. parts[p].to \in Nat
    BY <1>12, <1>20
  <2>4. x \in parts[p].from .. parts[p].to - 1 /\ x \in Nat /\ x >= first + MaxChunk
    BY <1>5, <1>9, <1>10, <2>2, <2>3
  <2>5. PICK l \in 1 .. n : x \in chunks[l].start .. chunks[l].end - 1
    BY <1>8, <2>2, <2>4
  <2>6. own[l] = p
    BY <1>13, <2>4, <2>5
  <2>7. o <= l
    BY <1>5, <1>10, <1>12, <1>16, <2>6
  <2>8. l \in pieces /\ pieces \in SUBSET (1 .. n)
    <3>1. pieces \in SUBSET (1 .. n)
      BY <1>6, <1>18
    <3> QED
      BY <1>19, <2>6, <2>7, <3>1
  <2> DEFINE M == Max(pieces)
  <2>9. M \in 1 .. n /\ l <= M
    BY <1>6, <2>8, LastPlace
  <2> HIDE DEF M
  <2>10. /\ chunks[l].end \in Nat /\ chunks[l].start \in Nat
         /\ chunks[M].end \in Nat /\ chunks[M].start \in Nat /\ chunks[M].start < chunks[M].end
    BY <1>12, <2>9
  <2>11. chunks[l].end <= chunks[M].end
    <3>1. CASE l = M
      BY <2>10, <3>1
    <3>2. CASE l # M
      <4>1. l < M
        BY <1>6, <2>9, <3>2
      <4>2. chunks[l].end <= chunks[M].start
        BY <1>8, <2>9, <4>1
      <4> DEFINE y == chunks[l].end
                 v == chunks[M].start
                 z == chunks[M].end
      <4>3. y \in Nat /\ v \in Nat /\ z \in Nat /\ y <= v /\ v < z
        BY <2>10, <4>2
      <4> HIDE DEF y, v, z
      <4>4. y <= z
        BY <4>3
      <4> QED
        BY <4>4 DEF y, z
    <3> QED
      BY <3>1, <3>2
  <2>12. x < chunks[l].end
    BY <2>5, <2>10
  <2> DEFINE y == chunks[l].end
             z == chunks[M].end
  <2>13. y \in Nat /\ z \in Nat /\ y <= z /\ x < y
    BY <2>10, <2>11, <2>12
  <2> HIDE DEF y, z
  <2>14. z - first > MaxChunk
    BY <1>9, <1>10, <2>4, <2>13
  <2> QED
    BY <2>14 DEF M, z
<1> HIDE DEF long
<1>21. ASSUME NEW k \in Previews(t, chunks)
       PROVE  \/ chunks[k].start = first
              \/ long /\ k \in pieces /\ chunks[k].first = chunks[opening].first
  <2>1. NumberOf(t, chunks[o]) > 0 /\ \A j \in 1 .. n : NumberOf(t, chunks[j]) > 0 => o <= j
    <3>1. NumberOf(t, chunks[o]) > 0
      BY <1>6, <1>10, <1>15
    <3>2. ASSUME NEW j \in 1 .. n, NumberOf(t, chunks[j]) > 0 PROVE o <= j
      <4>1. chunks[j].heading # 0
        BY <3>2 DEF NumberOf
      <4> QED
        BY <1>16, <4>1
    <3> QED
      BY <3>1, <3>2
  <2>2. /\ k \in 1 .. n /\ o <= k
        /\ chunks[k].first = chunks[o].first
        /\ chunks[k].heading = chunks[o].heading
        /\ chunks[k].clause = chunks[o].clause
    BY <2>1, PreviewsAre DEF chunks, n
  <2>3. own[k] = p
    <3>1. /\ own[k] \in 1 .. Len(parts) /\ own[o] = p
          /\ parts[own[k]].heading = parts[p].heading /\ parts[own[k]].clause = parts[p].clause
      BY <1>12, <1>14, <2>2
    <3>2. parts[p].heading # 0 /\ parts[own[k]].clause \in Nat /\ parts[p].heading \in Nat
      BY <1>5, <1>10, <1>12, <2>2
    <3>3. \A i, j \in 1 .. Len(parts) :
            i < j /\ parts[i].heading # 0 /\ parts[j].heading # 0 =>
              \/ parts[i].heading < parts[j].heading
              \/ parts[i].heading = parts[j].heading /\ parts[i].clause < parts[j].clause
      BY <1>3 DEF AreParts
    <3> DEFINE q == own[k]
               a == parts[p].heading
               b == parts[q].heading
               c == parts[p].clause
               d == parts[q].clause
    <3>4. a = b /\ c = d /\ a # 0 /\ a \in Nat /\ c \in Nat /\ q \in 1 .. Len(parts)
      BY <3>1, <3>2
    <3>5. /\ q < p => b < a \/ (b = a /\ d < c)
          /\ p < q => a < b \/ (a = b /\ c < d)
      BY <3>3, <3>4
    <3> HIDE DEF q, a, b, c, d
    <3>6. ~(q < p) /\ ~(p < q)
      BY <3>4, <3>5
    <3>7. q \in Nat /\ p \in Nat
      <4>1. parts \in Seq(Parts)
        BY <1>3 DEF AreParts
      <4>2. Len(parts) \in Nat
        BY <4>1
      <4> QED
        BY <3>4, <4>2
    <3>8. q = p
      BY <3>6, <3>7
    <3> QED
      BY <3>8 DEF q
  <2>4. k \in pieces
    BY <1>19, <2>2, <2>3
  <2>5. chunks[k].start = first \/ long
    BY <1>20, <2>2, <2>3
  <2> QED
    BY <1>17, <2>2, <2>4, <2>5
<1>22. OpensAt(first, t, chunks)
  BY <1>21 DEF OpensAt, long, pieces, opening
<1> QED
  BY <1>11, <1>22 DEF chunks

-----------------------------------------------------------------------------
(* What holds of every text.                                               *)

(* There is a page, and pages are made of lines.                           *)
PagesInv == pages \in Seq(PlainTexts) /\ pages # <<>>

(* A line has no form feed in it.                                          *)
LEMMA LinesArePlain ==
  ASSUME NEW line \in Lines
  PROVE  line \in PlainTexts
<1>1. line \in Seq(ToSet(line)) /\ "^" \notin ToSet(line)
  BY TextAssumption
<1>2. ToSet(line) \subseteq Symbols
  BY DEF Symbols
<1>3. line \in Seq(Symbols) /\ \A i \in 1 .. Len(line) : line[i] \in ToSet(line)
  BY <1>1, <1>2
<1> QED
  BY <1>1, <1>3 DEF PlainTexts, Texts

(* A page with a line more.                                                *)
LEMMA LineMore ==
  ASSUME NEW page \in PlainTexts, NEW line \in PlainTexts
  PROVE  page \o <<"/">> \o line \in PlainTexts
<1> DEFINE a == page \o <<"/">>
           r == a \o line
           n == Len(page)
           m == Len(line)
<1>1. /\ page \in Seq(Symbols) /\ line \in Seq(Symbols) /\ n \in Nat /\ m \in Nat
      /\ \A i \in 1 .. n : page[i] # "^"
      /\ \A i \in 1 .. m : line[i] # "^"
  BY DEF PlainTexts, Texts
<1>2. <<"/">> \in Seq(Symbols) /\ Len(<<"/">>) = 1 /\ \A i \in 1 .. 1 : <<"/">>[i] # "^"
  <2>1. "/" \in Symbols
    BY DEF Symbols, White
  <2>2. <<"/">>[1] # "^"
    OBVIOUS
  <2> QED
    BY <2>1, <2>2
<1> HIDE DEF n, m
<1>3. a \in Seq(Symbols) /\ Len(a) = n + 1 /\ \A i \in 1 .. n + 1 : a[i] # "^"
  <2>1. a \in Seq(Symbols) /\ Len(a) = Len(page) + Len(<<"/">>)
    BY <1>1, <1>2, ConcatProperties
  <2>2. \A i \in 1 .. Len(page) + Len(<<"/">>) :
          a[i] = IF i <= Len(page) THEN page[i] ELSE <<"/">>[i - Len(page)]
    BY <1>1, <1>2, ConcatProperties
  <2> DEFINE one == <<"/">>
  <2> HIDE DEF a, one
  <2>3. Len(a) = n + 1 /\ \A i \in 1 .. n + 1 : a[i] = IF i <= n THEN page[i] ELSE one[i - n]
    BY <1>2, <2>1, <2>2 DEF n, one
  <2>4. ASSUME NEW i \in 1 .. n + 1 PROVE a[i] # "^"
    <3>1. CASE i <= n
      <4>1. i \in 1 .. n
        BY <1>1, <3>1
      <4> QED
        BY <1>1, <2>3, <3>1, <4>1
    <3>2. CASE ~(i <= n)
      <4>1. i - n = 1
        BY <1>1, <3>2
      <4>2. a[i] = one[1]
        BY <2>3, <3>2, <4>1
      <4> QED
        BY <1>2, <4>2 DEF one
    <3> QED
      BY <3>1, <3>2
  <2> QED
    BY <2>1, <2>3, <2>4
<1> HIDE DEF a
<1>4. r \in Seq(Symbols) /\ \A i \in 1 .. Len(r) : r[i] # "^"
  <2>1. r \in Seq(Symbols) /\ Len(r) = Len(a) + Len(line)
    BY <1>1, <1>3, ConcatProperties
  <2>2. \A i \in 1 .. Len(a) + Len(line) :
          r[i] = IF i <= Len(a) THEN a[i] ELSE line[i - Len(a)]
    BY <1>1, <1>3, ConcatProperties
  <2> HIDE DEF r
  <2>3. /\ Len(r) = n + 1 + m
        /\ \A i \in 1 .. n + 1 + m : r[i] = IF i <= n + 1 THEN a[i] ELSE line[i - (n + 1)]
    BY <1>3, <2>1, <2>2 DEF m
  <2>4. ASSUME NEW i \in 1 .. n + 1 + m PROVE r[i] # "^"
    <3>1. CASE i <= n + 1
      <4>1. i \in 1 .. n + 1
        BY <1>1, <3>1
      <4> QED
        BY <1>3, <2>3, <3>1, <4>1
    <3>2. CASE ~(i <= n + 1)
      <4>1. i - (n + 1) \in 1 .. m
        BY <1>1, <3>2
      <4> QED
        BY <1>1, <2>3, <3>2, <4>1
    <3> QED
      BY <3>1, <3>2
  <2> QED
    BY <2>1, <2>3, <2>4
<1> QED
  BY <1>4 DEF PlainTexts, Texts, r, a

(* Pages stay pages.                                                       *)
LEMMA PagesAreInductive ==
  (ChunkInit => PagesInv) /\ (PagesInv /\ [ChunkNext]_chunkVars => PagesInv')
<1>1. <<>> \in PlainTexts
  BY DEF PlainTexts, Texts
<1>2. ChunkInit => PagesInv
  BY <1>1 DEF ChunkInit, PagesInv
<1>3. ASSUME PagesInv, AddLine PROVE PagesInv'
  <2>1. PICK line \in Lines :
          pages' = [pages EXCEPT ![Len(pages)] =
                      IF @ = <<>> THEN line ELSE @ \o <<"/">> \o line]
    BY <1>3 DEF AddLine
  <2>2. /\ pages \in Seq(PlainTexts) /\ Len(pages) \in 1 .. Len(pages)
        /\ pages[Len(pages)] \in PlainTexts
    BY <1>3 DEF PagesInv
  <2> DEFINE page == pages[Len(pages)]
             more == IF page = <<>> THEN line ELSE page \o <<"/">> \o line
  <2>3. more \in PlainTexts
    BY <2>2, LinesArePlain, LineMore
  <2>4. pages' = [pages EXCEPT ![Len(pages)] = more]
    BY <2>1, <2>2
  <2> HIDE DEF more
  <2>5. pages' \in Seq(PlainTexts) /\ Len(pages') = Len(pages)
    BY <2>2, <2>3, <2>4
  <2> QED
    BY <2>2, <2>5 DEF PagesInv
<1>4. ASSUME PagesInv, TurnPage PROVE PagesInv'
  BY <1>1, <1>4 DEF PagesInv, TurnPage
<1>5. ASSUME PagesInv, UNCHANGED chunkVars PROVE PagesInv'
  BY <1>5 DEF PagesInv, chunkVars
<1> QED
  BY <1>2, <1>3, <1>4, <1>5 DEF ChunkNext

(* Whatever the pages are, the passages of their text are right.           *)
LEMMA PlacesAreInPages ==
  PagesInv => /\ LocatorsAreRight /\ PreviewOpens
              /\ NothingIsLost(Joined(pages), BuildArticleChunks(pages))
<1> SUFFICES ASSUME PagesInv
             PROVE  /\ LocatorsAreRight /\ PreviewOpens
                    /\ NothingIsLost(Joined(pages), BuildArticleChunks(pages))
  OBVIOUS
<1> DEFINE t == Joined(pages)
           b == Boundaries(pages)
<1>1. pages \in Seq(PlainTexts) /\ pages # <<>>
  BY DEF PagesInv
<1>2. t \in Texts /\ b \in Seq(Nat)
  BY <1>1, PlainPagesAre
<1>3. PagesAreTold(t, b)
  BY <1>1, OnPageIs DEF PagesAreTold
<1>4. BuildArticleChunks(pages) = PassagesOf(t, b)
  BY DEF BuildArticleChunks
<1> HIDE DEF t, b
<1>5. /\ ArticlesGoUp(t) => ArticlesAreRight(t, PassagesOf(t, b))
      /\ PlacesAreRight(t, PassagesOf(t, b)) /\ NothingIsLost(t, PassagesOf(t, b))
      /\ TrueArticles(t) # {} /\ ArticlesGoUp(t) =>
           OpensAt(Min(TrueArticles(t)), t, PassagesOf(t, b))
  BY <1>2, <1>3, ArticlesAreFound, PlacesAreFound, OpeningIsFound, NoneIsLost
<1> QED
  BY <1>4, <1>5 DEF LocatorsAreRight, PreviewOpens, t

(* What a passage says of where it stands is so: its pages, and the        *)
(* article, section and clause it is filed under.                          *)
THEOREM LocatorsAreRightAlways == ChunkSpec => []LocatorsAreRight
<1>1. ChunkInit => PagesInv
  BY PagesAreInductive
<1>2. PagesInv /\ [ChunkNext]_chunkVars => PagesInv'
  BY PagesAreInductive
<1>3. PagesInv => LocatorsAreRight
  BY PlacesAreInPages
<1> QED
  BY <1>1, <1>2, <1>3, PTL DEF ChunkSpec

(* The passage the library previews opens the text's first article, or is  *)
(* a later piece of what is too long for one passage there.                *)
THEOREM PreviewOpensAlways == ChunkSpec => []PreviewOpens
<1>1. ChunkInit => PagesInv
  BY PagesAreInductive
<1>2. PagesInv /\ [ChunkNext]_chunkVars => PagesInv'
  BY PagesAreInductive
<1>3. PagesInv => PreviewOpens
  BY PlacesAreInPages
<1> QED
  BY <1>1, <1>2, <1>3, PTL DEF ChunkSpec

-----------------------------------------------------------------------------
(* What was stored: the text without white space at its end.               *)

(* Two scans that read alike to m, the one reading nothing after.          *)
ReadAlike(f, g, n, m) ==
  /\ n \in Nat /\ m \in 0 .. n
  /\ f[0] = g[0]
  /\ \A k \in 1 .. m : f[k - 1] = g[k - 1] => f[k] = g[k]
  /\ \A k \in m + 1 .. n : f[k] = f[k - 1]

(* So they end alike.                                                      *)
LEMMA SameScan ==
  ASSUME NEW n, NEW m, NEW f, NEW g, ReadAlike(f, g, n, m)
  PROVE  f[n] = g[m]
<1>0. /\ n \in Nat /\ m \in 0 .. n
      /\ f[0] = g[0]
      /\ \A k \in 1 .. m : f[k - 1] = g[k - 1] => f[k] = g[k]
      /\ \A k \in m + 1 .. n : f[k] = f[k - 1]
  BY DEF ReadAlike
<1> DEFINE S == {k \in 0 .. n : IF k <= m THEN f[k] = g[k] ELSE f[k] = g[m]}
<1>1. 0 \in S
  BY <1>0
<1>2. ASSUME NEW k \in 0 .. n - 1, k \in S PROVE k + 1 \in S
  <2>1. k + 1 \in 0 .. n /\ (k + 1) - 1 = k
    BY <1>0
  <2>2. CASE k + 1 <= m
    <3>1. k + 1 \in 1 .. m /\ k <= m
      BY <1>0, <2>2
    <3>2. f[k] = g[k]
      BY <1>2, <3>1
    <3>3. f[k + 1] = g[k + 1]
      BY <1>0, <2>1, <3>1, <3>2
    <3> QED
      BY <2>1, <2>2, <3>3
  <2>3. CASE ~(k + 1 <= m)
    <3>1. k + 1 \in m + 1 .. n /\ (k <= m => k = m)
      BY <1>0, <2>3
    <3>2. f[k + 1] = f[k]
      BY <1>0, <2>1, <3>1
    <3>3. f[k] = g[m]
      BY <1>2, <3>1
    <3> QED
      BY <2>1, <2>3, <3>2, <3>3
  <2> QED
    BY <2>2, <2>3
<1>3. \A k \in 0 .. n : k \in S
  <2> HIDE DEF S
  <2> QED
    BY <1>0, <1>1, <1>2, CountingUp
<1>4. n \in S /\ (n <= m => n = m)
  BY <1>0, <1>3
<1> QED
  BY <1>4

(* A text that is another with nothing but white space behind it, and that *)
(* on lines of its own.                                                    *)
StartsAs(t, s) ==
  /\ Len(s) <= Len(t)
  /\ \A i \in 1 .. Len(s) : t[i] = s[i]
  /\ \A i \in Len(s) + 1 .. Len(t) : t[i] \in White
  /\ Len(s) < Len(t) => t[Len(s) + 1] = "/"

(* An empty page more.                                                     *)
LEMMA EmptyPageMore ==
  ASSUME NEW s \in Texts, NEW t \in Texts, StartsAs(t, s)
  PROVE  StartsAs(t \o PageSeparator \o <<>>, s)
<1> DEFINE none == <<>>
           r == t \o PageSeparator \o none
           n == Len(t)
           m == Len(s)
<1>1. none \in Texts /\ Len(none) = 0
  BY DEF Texts
<1> HIDE DEF none
<1>2. /\ r \in Texts /\ n \in Nat /\ Len(none) \in Nat /\ Len(r) = n + 3 + Len(none)
      /\ \A i \in 1 .. n : r[i] = t[i]
      /\ r[n + 1] = "/" /\ r[n + 2] = "^" /\ r[n + 3] = "/"
      /\ \A i \in 1 .. Len(none) : r[n + 3 + i] = none[i]
  BY ZenonT(40), <1>1, OnePageMore
<1> HIDE DEF r
<1>3. m \in Nat /\ n \in Nat /\ Len(r) = n + 3
  <2>1. m \in Nat
    BY DEF Texts
  <2>2. n \in Nat /\ Len(r) = n + 3 + 0
    BY <1>1, <1>2
  <2> HIDE DEF n, m
  <2> QED
    BY <2>1, <2>2
<1>4. /\ m <= n /\ \A i \in 1 .. m : t[i] = s[i]
      /\ \A i \in m + 1 .. n : t[i] \in White
      /\ m < n => t[m + 1] = "/"
  BY DEF StartsAs
<1> HIDE DEF n, m
<1>5. \A i \in 1 .. m : r[i] = s[i]
  <2>1. \A i \in 1 .. m : i \in 1 .. n
    BY <1>3, <1>4
  <2> QED
    BY <1>2, <1>4, <2>1
<1>6. \A i \in m + 1 .. n + 3 : r[i] \in White
  <2> SUFFICES ASSUME NEW i \in m + 1 .. n + 3 PROVE r[i] \in White
    OBVIOUS
  <2>1. CASE i <= n
    <3>1. i \in 1 .. n /\ i \in m + 1 .. n
      BY <1>3, <1>4, <2>1
    <3> QED
      BY <1>2, <1>4, <3>1
  <2>2. CASE ~(i <= n)
    <3>1. i = n + 1 \/ i = n + 2 \/ i = n + 3
      BY <1>3, <2>2
    <3> QED
      BY <1>2, <3>1 DEF White
  <2> QED
    BY <2>1, <2>2
<1>7. r[m + 1] = "/"
  <2>1. CASE m = n
    BY <1>2, <2>1
  <2>2. CASE m # n
    <3>1. m < n /\ m + 1 \in 1 .. n
      BY <1>3, <1>4, <2>2
    <3> QED
      BY <1>2, <1>4, <3>1
  <2> QED
    BY <2>1, <2>2
<1>8. m <= n + 3
  BY <1>3, <1>4
<1> QED
  BY <1>3, <1>5, <1>6, <1>7, <1>8 DEF StartsAs, r, m, none

(* The stored text has the pages up to the last that is not empty, and the *)
(* text is it with only white space behind.                                *)
LEMMA StoredIs ==
  ASSUME NEW ps \in Seq(PlainTexts), ps # <<>>
  PROVE  /\ StoredPages(ps) \in Seq(PlainTexts) /\ StoredPages(ps) # <<>>
         /\ StartsAs(Joined(ps), Joined(StoredPages(ps)))
<1> DEFINE N == Len(ps)
           kept == {i \in DOMAIN ps : ps[i] # <<>>}
           m == IF kept = {} THEN 1 ELSE Max(kept)
           qs == StoredPages(ps)
<1>1. ps \in Seq(Texts) /\ N \in Nat /\ N # 0 /\ DOMAIN ps = 1 .. N
  BY PlainPagesAre
<1>2. m \in 1 .. N /\ \A k \in m + 1 .. N : ps[k] = <<>>
  <2>1. kept \in SUBSET (1 .. N)
    BY <1>1
  <2>2. CASE kept = {}
    <3>1. \A k \in 1 .. N : ps[k] = <<>>
      BY <1>1, <2>2
    <3>2. m = 1
      BY <2>2
    <3> HIDE DEF m, kept, N
    <3> QED
      BY <1>1, <3>1, <3>2
  <2>3. CASE kept # {}
    <3> HIDE DEF N
    <3>1. m = Max(kept)
      BY <2>3
    <3>2. \A k \in 1 .. N : ps[k] # <<>> => k \in kept
      BY <1>1
    <3> HIDE DEF kept, m
    <3>3. m \in kept /\ \A k \in kept : k <= m
      BY <1>1, <2>1, <2>3, <3>1, LastPlace
    <3>4. m \in 1 .. N
      BY <2>1, <3>3
    <3>5. ASSUME NEW k \in m + 1 .. N, ps[k] # <<>> PROVE FALSE
      <4>1. k \in 1 .. N /\ ~(k <= m)
        BY <1>1, <3>4
      <4> QED
        BY <3>2, <3>3, <3>5, <4>1
    <3> QED
      BY <3>4, <3>5
  <2> QED
    BY <2>2, <2>3
<1>3. qs = SubSeq(ps, 1, m)
  <2>1. CASE kept = {}
    <3>1. ps[1] = <<>> /\ 1 \in 1 .. N
      BY <1>1, <2>1
    <3>2. SubSeq(ps, 1, 1) = << ps[1] >>
      <4>1. 1 \in Int /\ \A i \in 1 .. 1 : ps[i] \in Texts
        BY <1>1, <3>1
      <4>2. /\ SubSeq(ps, 1, 1) \in Seq(Texts) /\ Len(SubSeq(ps, 1, 1)) = 1
            /\ SubSeq(ps, 1, 1)[1] = ps[1]
        <5>1. /\ SubSeq(ps, 1, 1) \in Seq(Texts)
              /\ Len(SubSeq(ps, 1, 1)) = IF 1 <= 1 THEN 1 - 1 + 1 ELSE 0
          BY <4>1, SubSeqProperties
        <5>2. \A i \in 1 .. 1 - 1 + 1 : SubSeq(ps, 1, 1)[i] = ps[1 + i - 1]
          BY <4>1, SubSeqProperties
        <5> QED
          BY <5>1, <5>2
      <4> DEFINE w == SubSeq(ps, 1, 1)
                 page == ps[1]
      <4> HIDE DEF w, page
      <4>3. w \in Seq(Texts) /\ Len(w) = 1 /\ w[1] = page
        BY <4>2 DEF w, page
      <4>4. w = << page >>
        BY <4>3
      <4> QED
        BY <4>4 DEF w, page
    <3> QED
      BY <2>1, <3>1, <3>2 DEF StoredPages
  <2>2. CASE kept # {}
    BY <2>2 DEF StoredPages
  <2> QED
    BY <2>1, <2>2
<1> HIDE DEF N, m, qs
<1>4. qs \in Seq(PlainTexts) /\ Len(qs) = m /\ \A k \in 1 .. m : qs[k] = ps[k]
  <2>0. 1 \in Int /\ m \in Int /\ \A i \in 1 .. m : ps[i] \in PlainTexts
    <3>1. \A i \in 1 .. N : ps[i] \in PlainTexts
      BY DEF N
    <3>2. 1 \in Int /\ m \in Int /\ \A i \in 1 .. m : i \in 1 .. N
      BY <1>1, <1>2
    <3> QED
      BY <3>1, <3>2
  <2>1. SubSeq(ps, 1, m) \in Seq(PlainTexts)
        /\ Len(SubSeq(ps, 1, m)) = IF 1 <= m THEN m - 1 + 1 ELSE 0
    BY <2>0, SubSeqProperties
  <2>2. \A i \in 1 .. m - 1 + 1 : SubSeq(ps, 1, m)[i] = ps[1 + i - 1]
    BY <2>0, SubSeqProperties
  <2>3. m \in Nat /\ 1 <= m /\ m - 1 + 1 = m
    BY <1>1, <1>2
  <2>4. \A i \in 1 .. m : 1 + i - 1 = i
    BY <2>3
  <2> QED
    BY <1>3, <2>1, <2>2, <2>3, <2>4
<1>5. qs # <<>> /\ qs \in Seq(Texts)
  <2>1. Len(qs) # 0
    BY <1>1, <1>2, <1>4
  <2> QED
    BY <1>4, <2>1, PlainPagesAre
<1>6. PICK f \in [0 .. N -> Texts] :
           /\ Joined(ps) = f[N] /\ f[0] = <<>>
           /\ \A k \in 1 .. N : f[k] = WithPage(f[k - 1], ps, k)
  BY <1>1, PagesJoined DEF N
<1>7. PICK g \in [0 .. m -> Texts] :
           /\ Joined(qs) = g[m] /\ g[0] = <<>>
           /\ \A k \in 1 .. m : g[k] = WithPage(g[k - 1], qs, k)
  BY <1>4, <1>5, PagesJoined
<1>8. f[m] = g[m]
  <2>1. ASSUME NEW k \in 1 .. m, f[k - 1] = g[k - 1] PROVE f[k] = g[k]
    <3>1. k \in 1 .. N /\ qs[k] = ps[k] /\ 1 \in 1 .. m
      BY <1>1, <1>2, <1>4
    <3>2. qs[1] = ps[1]
      BY <1>4, <3>1
    <3>3. f[k] = WithPage(g[k - 1], ps, k) /\ g[k] = WithPage(g[k - 1], qs, k)
      BY <1>6, <1>7, <2>1, <3>1
    <3> QED
      BY <3>1, <3>2, <3>3 DEF WithPage
  <2>2. m \in Nat /\ m \in 0 .. m /\ m + 1 .. m = {}
    BY <1>1, <1>2
  <2>3. \A k \in m + 1 .. m : f[k] = f[k - 1]
    BY <2>2
  <2>4. f[0] = g[0] /\ \A k \in 1 .. m : f[k - 1] = g[k - 1] => f[k] = g[k]
    BY <1>6, <1>7, <2>1
  <2>5. ReadAlike(f, g, m, m)
    BY <2>2, <2>3, <2>4 DEF ReadAlike
  <2> QED
    BY <2>5, SameScan
<1> DEFINE S == {k \in 0 .. N : k >= m => StartsAs(f[k], g[m])}
<1>9. 0 \in S
  BY <1>1, <1>2
<1>10. ASSUME NEW k \in 0 .. N - 1, k \in S PROVE k + 1 \in S
  <2>1. k + 1 \in 1 .. N /\ k + 1 \in 0 .. N /\ (k + 1) - 1 = k /\ k \in 0 .. N
    BY <1>1
  <2>2. g[m] \in Texts /\ f[k] \in Texts
    <3>1. m \in 0 .. m
      BY <1>1, <1>2
    <3> QED
      BY <1>6, <1>7, <2>1, <3>1
  <2>3. CASE k + 1 < m
    BY <1>1, <1>2, <2>1, <2>3
  <2>4. CASE k + 1 = m
    <3>1. Len(g[m]) \in Nat
      BY <2>2 DEF Texts
    <3>2. StartsAs(g[m], g[m])
      BY <3>1 DEF StartsAs
    <3> QED
      BY <1>8, <2>1, <2>4, <3>2
  <2>5. CASE k + 1 > m
    <3>1. k >= m /\ k + 1 \in m + 1 .. N /\ k + 1 # 1
      BY <1>1, <1>2, <2>1, <2>5
    <3>2. StartsAs(f[k], g[m])
      BY <1>10, <3>1
    <3>3. f[k + 1] = f[k] \o PageSeparator \o <<>>
      <4>1. ps[k + 1] = <<>>
        BY <1>2, <3>1
      <4>2. f[k + 1] = WithPage(f[k], ps, k + 1)
        BY <1>6, <2>1
      <4> QED
        BY <3>1, <4>1, <4>2 DEF WithPage
    <3>4. StartsAs(f[k + 1], g[m])
      BY <2>2, <3>2, <3>3, EmptyPageMore
    <3> QED
      BY <2>1, <3>4
  <2> QED
    BY <1>1, <1>2, <2>1, <2>3, <2>4, <2>5
<1>11. N \in S
  <2> HIDE DEF S
  <2>1. \A k \in 0 .. N : k \in S
    BY <1>1, <1>9, <1>10, CountingUp
  <2>2. N \in 0 .. N
    BY <1>1
  <2> QED
    BY <2>1, <2>2
<1>12. StartsAs(f[N], g[m])
  BY <1>1, <1>2, <1>11
<1> QED
  BY <1>4, <1>5, <1>6, <1>7, <1>12 DEF qs

(* The same end of a span: in the shorter text, or at the end of each.     *)
SameEnd(t, s, to, e) == (to = e /\ e <= Len(s) + 1) \/ (to = Len(t) + 1 /\ e = Len(s) + 1)

(* What StartsAs says, with the lengths as numbers.                        *)
LEMMA StartIs ==
  ASSUME NEW t \in Texts, NEW s \in Texts, StartsAs(t, s)
  PROVE  /\ Len(t) \in Nat /\ Len(s) \in Nat /\ Len(s) <= Len(t)
         /\ \A i \in 1 .. Len(s) : t[i] = s[i]
         /\ \A i \in Len(s) + 1 .. Len(t) : t[i] \in White
         /\ Len(s) < Len(t) => t[Len(s) + 1] = "/"
<1>1. Len(t) \in Nat /\ Len(s) \in Nat
  BY DEF Texts
<1> QED
  BY <1>1 DEF StartsAs

(* Nothing solid is behind the shorter text.                               *)
LEMMA SolidAlike ==
  ASSUME NEW t \in Texts, NEW s \in Texts, StartsAs(t, s),
         NEW from \in 1 .. Len(s) + 1, NEW to \in from .. Len(t) + 1, NEW e \in Nat,
         SameEnd(t, s, to, e)
  PROVE  /\ {i \in from .. to - 1 : t[i] \notin White} = {i \in from .. e - 1 : s[i] \notin White}
         /\ e \in from .. Len(s) + 1
<1> DEFINE n == Len(s)
           N == Len(t)
<1>1. /\ N \in Nat /\ n \in Nat /\ n <= N
      /\ \A i \in 1 .. n : t[i] = s[i]
      /\ \A i \in n + 1 .. N : t[i] \in White
  BY StartIs
<1>2. /\ from \in 1 .. n + 1 /\ to \in from .. N + 1 /\ e \in Nat
      /\ (to = e /\ e <= n + 1) \/ (to = N + 1 /\ e = n + 1)
  BY DEF SameEnd
<1> HIDE DEF n, N
<1>3. e \in from .. n + 1 /\ e <= to
  BY <1>1, <1>2
<1>4. ASSUME NEW i \in from .. to - 1, t[i] \notin White PROVE i \in from .. e - 1
  <2>1. i \in 1 .. N
    BY <1>1, <1>2
  <2>2. i \notin n + 1 .. N
    BY <1>1, <1>4
  <2> QED
    BY <1>1, <1>2, <2>1, <2>2
<1>5. ASSUME NEW i \in from .. e - 1 PROVE i \in from .. to - 1 /\ t[i] = s[i]
  <2>1. i \in 1 .. n /\ i \in from .. to - 1
    BY <1>1, <1>2, <1>3
  <2> QED
    BY <1>1, <2>1
<1> DEFINE A == {i \in from .. to - 1 : t[i] \notin White}
           B == {i \in from .. e - 1 : s[i] \notin White}
<1>6. A = B
  <2>1. \A i \in A : i \in B
    BY <1>4, <1>5
  <2>2. \A i \in B : i \in A
    BY <1>5
  <2> QED
    BY <2>1, <2>2
<1> QED
  BY <1>3, <1>6 DEF n

(* A span trimmed in both texts is the same, or empty at either end.       *)
LEMMA TrimAlike ==
  ASSUME NEW t \in Texts, NEW s \in Texts, StartsAs(t, s),
         NEW from \in 1 .. Len(s) + 1, NEW to \in from .. Len(t) + 1, NEW e \in Nat,
         SameEnd(t, s, to, e)
  PROVE  Trim(t, from, to) = Trim(s, from, e)
         \/ (Trim(t, from, to) = <<to, to>> /\ Trim(s, from, e) = <<e, e>>)
<1> DEFINE A == {i \in from .. to - 1 : t[i] \notin White}
           B == {i \in from .. e - 1 : s[i] \notin White}
<1>1. A = B
  BY SolidAlike
<1>2. /\ Trim(t, from, to) = IF A = {} THEN <<to, to>> ELSE <<Min(A), Max(A) + 1>>
      /\ Trim(s, from, e) = IF B = {} THEN <<e, e>> ELSE <<Min(B), Max(B) + 1>>
  BY DEF Trim
<1> HIDE DEF A, B
<1> QED
  BY <1>1, <1>2

(* Within the shorter text.                                                *)
LEMMA TrimWithin ==
  ASSUME NEW t \in Texts, NEW s \in Texts, StartsAs(t, s),
         NEW from \in 1 .. Len(s) + 1, NEW to \in from .. Len(s) + 1
  PROVE  Trim(t, from, to) = Trim(s, from, to)
<1>1. Len(s) <= Len(t) /\ Len(s) \in Nat /\ Len(t) \in Nat
  BY StartIs
<1>2. to \in from .. Len(t) + 1 /\ to \in Nat /\ to <= Len(s) + 1
  BY <1>1
<1>3. SameEnd(t, s, to, to)
  BY <1>2 DEF SameEnd
<1> QED
  BY <1>2, <1>3, TrimAlike

(* A window within the shorter text is cut at the same place.              *)
LEMMA CutAlike ==
  ASSUME NEW t \in Texts, NEW s \in Texts, StartsAs(t, s),
         NEW start \in 1 .. Len(s), start + MaxChunk <= Len(s)
  PROVE  CutAt(t, start) = CutAt(s, start)
<1>1. Len(s) \in Nat /\ MaxChunk \in Nat /\ \A i \in 1 .. Len(s) : t[i] = s[i]
  BY StartIs, ChunkingAssumption
<1>2. MaxChunk \div 2 \in 0 .. MaxChunk
  <2>1. MaxChunk \in Nat
    BY <1>1
  <2> QED
    BY <2>1
<1> DEFINE breaks(text, symbol) ==
             {i \in start + MaxChunk \div 2 .. start + MaxChunk - 1 : text[i] = symbol}
<1>3. \A i \in start + MaxChunk \div 2 .. start + MaxChunk - 1 : t[i] = s[i]
  <2> SUFFICES ASSUME NEW i \in start + MaxChunk \div 2 .. start + MaxChunk - 1
               PROVE  t[i] = s[i]
    OBVIOUS
  <2>1. i \in 1 .. Len(s)
    BY <1>1, <1>2
  <2> QED
    BY <1>1, <2>1
<1>4. breaks(t, "/") = breaks(s, "/") /\ breaks(t, " ") = breaks(s, " ")
  BY <1>3
<1>5. \A text : CutAt(text, start) = IF breaks(text, "/") # {} THEN Max(breaks(text, "/"))
                                     ELSE IF breaks(text, " ") # {} THEN Max(breaks(text, " "))
                                     ELSE start + MaxChunk
  BY DEF CutAt
<1> HIDE DEF breaks
<1> QED
  BY <1>4, <1>5

(* The pieces of a span.                                                   *)
LEMMA SpansAlike ==
  ASSUME NEW t \in Texts, NEW s \in Texts, StartsAs(t, s),
         NEW from \in 1 .. Len(s) + 1, NEW to \in from .. Len(t) + 1, NEW e \in Nat,
         SameEnd(t, s, to, e)
  PROVE  SplitSpan(t, from, to) = SplitSpan(s, from, e)
<1> DEFINE n == Len(s)
           a == Trim(t, from, to)[1]
           b == Trim(t, from, to)[2]
           c == Trim(s, from, e)[1]
           d == Trim(s, from, e)[2]
<1>1. Len(t) \in Nat /\ n \in Nat /\ n <= Len(t) /\ MaxChunk \in Nat /\ from \in Nat /\ to \in Nat
  BY StartIs, ChunkingAssumption
<1>2. e \in from .. n + 1
  BY SolidAlike
<1>3. from \in 1 .. Len(t) + 1
  BY <1>1
<1>4. PICK P \in [from .. to -> Seq(Spans)] :
           /\ SplitSpan(t, from, to) = P[a]
           /\ \A i \in from .. to : P[i] = PiecesFrom(t, b, P, i)
  BY <1>3, PiecesAre
<1>5. PICK Q \in [from .. e -> Seq(Spans)] :
           /\ SplitSpan(s, from, e) = Q[c]
           /\ \A i \in from .. e : Q[i] = PiecesFrom(s, d, Q, i)
  BY <1>2, PiecesAre
<1>6. a \in from .. to /\ b \in a .. to /\ c \in from .. e /\ d \in c .. e
  <2>1. a \in from .. to /\ b \in a .. to
    BY <1>3, TrimIs
  <2>2. c \in from .. e /\ d \in c .. e
    BY <1>2, TrimIs
  <2> QED
    BY <2>1, <2>2
<1>7. (a = c /\ b = d) \/ (a = b /\ c = d)
  <2>1. CASE Trim(t, from, to) = Trim(s, from, e)
    BY <2>1
  <2>2. CASE Trim(t, from, to) = <<to, to>> /\ Trim(s, from, e) = <<e, e>>
    BY <2>2
  <2> QED
    BY <2>1, <2>2, TrimAlike
<1> HIDE DEF a, b, c, d, n
<1>8. CASE a = b /\ c = d
  <2>1. P[a] = PiecesFrom(t, b, P, a) /\ Q[c] = PiecesFrom(s, d, Q, c)
    BY <1>4, <1>5, <1>6
  <2>2. P[a] = <<>> /\ Q[c] = <<>>
    BY <1>8, <2>1 DEF PiecesFrom
  <2> QED
    BY <1>4, <1>5, <2>2
<1>9. CASE a = c /\ b = d
  <2> DEFINE N == b - from
             S == {k \in 0 .. N : \A i \in from .. b : b - i <= k => P[i] = Q[i]}
  <2>1. N \in Nat /\ b \in Nat /\ b <= e /\ b <= to /\ b <= n + 1 /\ from <= b
    BY <1>1, <1>2, <1>6, <1>9
  <2>2. \A i \in from .. b : i \in from .. to /\ i \in from .. e
    BY <1>1, <1>2, <2>1
  <2>3. ASSUME NEW i \in from .. b
        PROVE  P[i] = PiecesFrom(t, b, P, i) /\ Q[i] = PiecesFrom(s, b, Q, i)
    BY <1>4, <1>5, <1>9, <2>2
  <2>4. ASSUME NEW i \in from .. b, b - i > MaxChunk
        PROVE  LET cut == CutAt(t, i)
                   rest == Trim(t, cut, b)[1]
               IN  /\ CutAt(s, i) = cut /\ Trim(s, i, cut) = Trim(t, i, cut)
                   /\ Trim(s, cut, b) = Trim(t, cut, b)
                   /\ rest \in i + 1 .. b
    <3> DEFINE cut == CutAt(s, i)
               rest == Trim(s, cut, b)[1]
    <3>1. i \in 1 .. n /\ i + MaxChunk <= n /\ b \in 1 .. n + 1
      BY <1>1, <2>1, <2>4
    <3>2. CutAt(t, i) = cut
      BY <3>1, CutAlike DEF n
    <3>3. cut \in i + 1 .. i + MaxChunk /\ cut < b /\ rest \in cut .. b
      BY <2>4, <3>1, PieceIs DEF n
    <3> HIDE DEF cut
    <3>4. /\ cut \in i .. n + 1 /\ cut \in 1 .. n + 1 /\ b \in cut .. n + 1 /\ i \in 1 .. n + 1
          /\ cut \in Nat
      BY <1>1, <2>1, <3>1, <3>3
    <3>5. Trim(t, i, cut) = Trim(s, i, cut) /\ Trim(t, cut, b) = Trim(s, cut, b)
      BY <3>4, TrimWithin DEF n
    <3> HIDE DEF rest
    <3>6. rest \in i + 1 .. b
      BY <2>1, <3>1, <3>3, <3>4
    <3>7. CutAt(s, i) = CutAt(t, i)
      BY <3>2 DEF cut
    <3>8. /\ Trim(s, i, CutAt(t, i)) = Trim(t, i, CutAt(t, i))
          /\ Trim(s, CutAt(t, i), b) = Trim(t, CutAt(t, i), b)
      BY <3>2, <3>5
    <3>9. Trim(t, CutAt(t, i), b)[1] \in i + 1 .. b
      BY <3>2, <3>5, <3>6 DEF rest
    <3> QED
      BY <3>7, <3>8, <3>9
  <2>5. 0 \in S
    <3>1. ASSUME NEW i \in from .. b, b - i <= 0 PROVE P[i] = Q[i]
      <4>1. i = b
        BY <2>1, <3>1
      <4> QED
        BY <2>3, <4>1 DEF PiecesFrom
    <3> QED
      BY <2>1, <3>1
  <2>6. ASSUME NEW k \in 0 .. N - 1, k \in S PROVE k + 1 \in S
    <3>1. ASSUME NEW i \in from .. b, b - i <= k + 1 PROVE P[i] = Q[i]
      <4>1. CASE b - i <= MaxChunk
        BY <2>3, <4>1 DEF PiecesFrom
      <4>2. CASE b - i > MaxChunk
        <5> DEFINE cut == CutAt(t, i)
                   rest == Trim(t, cut, b)[1]
                   piece == Trim(t, i, cut)
        <5>1. /\ CutAt(s, i) = cut /\ Trim(s, i, cut) = piece
              /\ Trim(s, cut, b)[1] = rest /\ rest \in i + 1 .. b
          BY <2>4, <4>2
        <5>2. i # b /\ ~(b - i <= MaxChunk)
          BY <1>1, <2>1, <4>2
        <5>3. P[i] = <<piece>> \o P[rest] /\ Q[i] = <<piece>> \o Q[rest]
          <6>1. P[i] = <<piece>> \o P[rest]
            BY <2>3, <5>2, Zenon DEF PiecesFrom
          <6>2. Q[i] = <<piece>> \o Q[rest]
            BY <2>3, <5>1, <5>2, Zenon DEF PiecesFrom
          <6> QED
            BY <6>1, <6>2
        <5> HIDE DEF cut, rest, piece
        <5>4. rest \in from .. b /\ b - rest <= k
          BY <2>1, <3>1, <5>1
        <5>5. P[rest] = Q[rest]
          BY <2>6, <5>4
        <5> QED
          BY <5>3, <5>5
      <4> QED
        BY <1>1, <2>1, <4>1, <4>2
    <3>2. k + 1 \in 0 .. N
      BY <2>1
    <3> QED
      BY <3>1, <3>2
  <2>7. N \in S
    <3> HIDE DEF S, N
    <3>1. \A k \in 0 .. N : k \in S
      BY <2>1, <2>5, <2>6, CountingUp
    <3>2. N \in 0 .. N
      BY <2>1
    <3> QED
      BY <3>1, <3>2
  <2>8. a \in from .. b /\ b - a <= N
    BY <1>1, <1>6, <2>1
  <2>9. P[a] = Q[a]
    BY <2>7, <2>8
  <2> QED
    BY <1>4, <1>5, <1>9, <2>9
<1> QED
  BY <1>7, <1>8, <1>9

(* A line that starts in the shorter text is the same line in both.        *)
LEMMA LinesAlike ==
  ASSUME NEW t \in Texts, NEW s \in Texts, StartsAs(t, s), NEW i \in 1 .. Len(s)
  PROVE  /\ t[i] = s[i] /\ StartsLine(t, i) = StartsLine(s, i)
         /\ Number(t, i) = Number(s, i)
         /\ IsArticleLine(t, i) = IsArticleLine(s, i)
<1>1. Len(s) \in Nat /\ \A k \in 1 .. Len(s) : t[k] = s[k]
  BY StartIs
<1>2. StartsLine(t, i) = StartsLine(s, i)
  <2>1. CASE i = 1
    BY <2>1 DEF StartsLine
  <2>2. CASE i # 1
    <3>1. i - 1 \in 1 .. Len(s)
      BY <1>1, <2>2
    <3>2. t[i - 1] = s[i - 1]
      BY <1>1, <3>1
    <3> QED
      BY <2>2, <3>2 DEF StartsLine
  <2> QED
    BY <2>1, <2>2
<1>3. ContinuesSentence(t, i) = ContinuesSentence(s, i)
  <2> DEFINE before == Trim(s, 1, i)
             b == before[2]
             a == before[1]
  <2>1. 1 \in 1 .. Len(s) + 1 /\ i \in 1 .. Len(s) + 1
    BY <1>1
  <2>2. Trim(t, 1, i) = before
    BY <2>1, TrimWithin
  <2>3. a \in 1 .. i /\ b \in a .. i
    BY <2>1, TrimIs
  <2>4. /\ ContinuesSentence(t, i) = (a < b /\ t[b - 1] \notin Stops)
        /\ ContinuesSentence(s, i) = (a < b /\ s[b - 1] \notin Stops)
    BY <2>2 DEF ContinuesSentence
  <2> HIDE DEF a, b
  <2>5. a < b => b - 1 \in 1 .. Len(s)
    BY <1>1, <2>3
  <2>6. a < b => t[b - 1] = s[b - 1]
    BY <1>1, <2>5
  <2> QED
    BY <2>4, <2>6
<1>4. t[i] = s[i]
  BY <1>1
<1> QED
  BY <1>2, <1>3, <1>4 DEF IsArticleLine, Number

(* A scan keeps places it came by.                                         *)
LEMMA ScanIsWithin ==
  ASSUME NEW n \in Nat, NEW f, f[0] = <<>>,
         \A k \in 1 .. n : f[k] = f[k - 1] \/ f[k] = Append(f[k - 1], k)
  PROVE  \A k \in 0 .. n : f[k] \in Seq(1 .. n)
<1> DEFINE X == 1 .. n
           S == {k \in 0 .. n : f[k] \in Seq(X)}
<1>0. \A k \in 1 .. n : k \in X
  OBVIOUS
<1> HIDE DEF X
<1>1. 0 \in S
  <2>1. <<>> \in Seq(X)
    OBVIOUS
  <2>2. f[0] \in Seq(X)
    BY <2>1, Zenon
  <2>3. 0 \in 0 .. n
    OBVIOUS
  <2> QED
    BY <2>2, <2>3
<1>2. ASSUME NEW k \in 0 .. n - 1, k \in S PROVE k + 1 \in S
  <2> DEFINE Q == f[k]
             R == f[k + 1]
             x == k + 1
  <2>1. x \in 1 .. n /\ x \in 0 .. n /\ x - 1 = k
    OBVIOUS
  <2>2. Q \in Seq(X)
    BY <1>2
  <2>3. R = Q \/ R = Append(Q, x)
    BY <2>1
  <2>4. x \in X
    BY <1>0, <2>1
  <2> HIDE DEF Q, x
  <2>5. R \in Seq(X)
    <3> HIDE DEF R
    <3> QED
      BY <2>2, <2>3, <2>4, AppendProperties
  <2> QED
    BY <2>1, <2>5 DEF x
<1>3. \A k \in 0 .. n : k \in S
  <2> HIDE DEF S
  <2> QED
    BY <1>1, <1>2, CountingUp
<1> QED
  BY <1>3 DEF X

(* The same articles are found.                                            *)
LEMMA ArticlesAlike ==
  ASSUME NEW t \in Texts, NEW s \in Texts, StartsAs(t, s)
  PROVE  FindArticles(t) = FindArticles(s)
<1> DEFINE n == Len(t)
           m == Len(s)
<1>1. /\ n \in Nat /\ m \in Nat /\ m <= n
      /\ \A i \in m + 1 .. n : t[i] \in White
  BY StartIs
<1>2. PICK f \in [0 .. n -> Seq(Nat)] :
        /\ FindArticles(t) = f[n] /\ f[0] = <<>>
        /\ \A k \in 1 .. n : f[k] = ReadArticle(t, f[k - 1], k)
  BY ArticlesRead
<1>3. PICK g \in [0 .. m -> Seq(Nat)] :
        /\ FindArticles(s) = g[m] /\ g[0] = <<>>
        /\ \A k \in 1 .. m : g[k] = ReadArticle(s, g[k - 1], k)
  BY ArticlesRead
<1> HIDE DEF n
<1>4. \A k \in 0 .. m : g[k] \in Seq(1 .. m)
  <2>1. \A k \in 1 .. m : g[k] = g[k - 1] \/ g[k] = Append(g[k - 1], k)
    BY <1>3, ReadsAre
  <2> HIDE DEF m
  <2> QED
    BY <1>1, <1>3, <2>1, ScanIsWithin
<1>5. ASSUME NEW k \in 1 .. m, f[k - 1] = g[k - 1] PROVE f[k] = g[k]
  <2> DEFINE Q == g[k - 1]
             x == Last(Q)
  <2>1. k \in 1 .. n /\ k - 1 \in 0 .. m
    BY <1>1
  <2>2. f[k] = ReadArticle(t, Q, k) /\ g[k] = ReadArticle(s, Q, k)
    BY <1>2, <1>3, <1>5, <2>1
  <2>3. Q \in Seq(1 .. m)
    BY <1>4, <2>1
  <2> HIDE DEF Q
  <2>4. Q # <<>> => x \in 1 .. m
    <3> DEFINE X == 1 .. m
    <3>1. Q \in Seq(X)
      BY <2>3
    <3> HIDE DEF X
    <3>2. Q # <<>> => Last(Q) \in X
      BY <3>1 DEF Last
    <3> QED
      BY <3>2 DEF X
  <2> HIDE DEF x
  <2>5. Q # <<>> => Number(t, x) = Number(s, x)
    BY <2>4, LinesAlike DEF m
  <2>6. IsArticleLine(t, k) = IsArticleLine(s, k) /\ Number(t, k) = Number(s, k)
    BY LinesAlike DEF m
  <2> DEFINE before(text) == IF Q = <<>> THEN 0 ELSE Number(text, x)
  <2>7. before(t) = before(s)
    BY <2>5
  <2>8. /\ ReadArticle(t, Q, k) = IF IsArticleLine(t, k) /\ Number(t, k) > before(t)
                                  THEN Append(Q, k) ELSE Q
        /\ ReadArticle(s, Q, k) = IF IsArticleLine(s, k) /\ Number(s, k) > before(s)
                                  THEN Append(Q, k) ELSE Q
    BY DEF ReadArticle, x
  <2> HIDE DEF before
  <2> QED
    BY <2>2, <2>6, <2>7, <2>8
<1>6. ASSUME NEW k \in m + 1 .. n PROVE f[k] = f[k - 1]
  <2>1. k \in 1 .. n
    BY <1>1
  <2>2. t[k] \notin DOMAIN Articles
    BY <1>1, TextAssumption
  <2>3. ReadArticle(t, f[k - 1], k) = f[k - 1]
    BY <2>2 DEF ReadArticle, IsArticleLine
  <2> QED
    BY <1>2, <2>1, <2>3
<1> HIDE DEF m
<1>7. n \in Nat /\ m \in 0 .. n
  BY <1>1
<1>8. ReadAlike(f, g, n, m)
  BY <1>2, <1>3, <1>5, <1>6, <1>7 DEF ReadAlike
<1>9. f[n] = g[m]
  <2> DEFINE F == f
             G == g
  <2>1. ReadAlike(F, G, n, m)
    BY <1>8
  <2> HIDE DEF F, G
  <2>2. F[n] = G[m]
    BY <2>1, SameScan
  <2> QED
    BY <2>2 DEF F, G
<1> QED
  BY <1>2, <1>3, <1>9 DEF m, n

(* The same sections are found.                                            *)
LEMMA SectionsAlike ==
  ASSUME NEW t \in Texts, NEW s \in Texts, StartsAs(t, s)
  PROVE  FindSections(t) = FindSections(s)
<1> DEFINE n == Len(t)
           m == Len(s)
<1>1. /\ n \in Nat /\ m \in Nat /\ m <= n
      /\ \A i \in m + 1 .. n : t[i] \in White
      /\ \A i \in 1 .. m : t[i] = s[i]
  BY StartIs
<1>2. PICK f \in [0 .. n -> Seq(Nat)] :
        /\ FindSections(t) = f[n] /\ f[0] = <<>>
        /\ \A k \in 1 .. n : f[k] = ReadSection(t, f[k - 1], k)
  BY SectionsRead
<1>3. PICK g \in [0 .. m -> Seq(Nat)] :
        /\ FindSections(s) = g[m] /\ g[0] = <<>>
        /\ \A k \in 1 .. m : g[k] = ReadSection(s, g[k - 1], k)
  BY SectionsRead
<1> HIDE DEF n
<1>4. \A k \in 0 .. m : g[k] \in Seq(1 .. m)
  <2>1. \A k \in 1 .. m : g[k] = g[k - 1] \/ g[k] = Append(g[k - 1], k)
    BY <1>3, ReadsAre
  <2> HIDE DEF m
  <2> QED
    BY <1>1, <1>3, <2>1, ScanIsWithin
<1>5. ASSUME NEW k \in 1 .. m, f[k - 1] = g[k - 1] PROVE f[k] = g[k]
  <2> DEFINE Q == g[k - 1]
             x == Last(Q)
  <2>1. k \in 1 .. n /\ k - 1 \in 0 .. m
    BY <1>1
  <2>2. f[k] = ReadSection(t, Q, k) /\ g[k] = ReadSection(s, Q, k)
    BY <1>2, <1>3, <1>5, <2>1
  <2>3. Q \in Seq(1 .. m)
    BY <1>4, <2>1
  <2> HIDE DEF Q
  <2>4. Q # <<>> => x \in 1 .. m
    <3> DEFINE X == 1 .. m
    <3>1. Q \in Seq(X)
      BY <2>3
    <3> HIDE DEF X
    <3>2. Q # <<>> => Last(Q) \in X
      BY <3>1 DEF Last
    <3> QED
      BY <3>2 DEF X
  <2> HIDE DEF x
  <2>5. Q # <<>> => t[x] = s[x]
    BY <1>1, <2>4
  <2>6. t[k] = s[k] /\ StartsLine(t, k) = StartsLine(s, k)
    BY LinesAlike DEF m
  <2> DEFINE before(text) == IF Q = <<>> THEN 0 ELSE Sections[text[x]]
  <2>7. before(t) = before(s)
    BY <2>5
  <2>8. /\ ReadSection(t, Q, k) =
             IF /\ t[k] \in DOMAIN Sections /\ StartsLine(t, k)
                /\ Sections[t[k]] \in {0, 1, before(t) + 1}
             THEN Append(Q, k) ELSE Q
        /\ ReadSection(s, Q, k) =
             IF /\ s[k] \in DOMAIN Sections /\ StartsLine(s, k)
                /\ Sections[s[k]] \in {0, 1, before(s) + 1}
             THEN Append(Q, k) ELSE Q
    BY DEF ReadSection, x
  <2> HIDE DEF before
  <2> QED
    BY <2>2, <2>6, <2>7, <2>8
<1>6. ASSUME NEW k \in m + 1 .. n PROVE f[k] = f[k - 1]
  <2>1. k \in 1 .. n
    BY <1>1
  <2>2. t[k] \notin DOMAIN Sections
    BY <1>1, TextAssumption
  <2>3. ReadSection(t, f[k - 1], k) = f[k - 1]
    BY <2>2 DEF ReadSection
  <2> QED
    BY <1>2, <2>1, <2>3
<1> HIDE DEF m
<1>7. n \in Nat /\ m \in 0 .. n
  BY <1>1
<1>8. ReadAlike(f, g, n, m)
  BY <1>2, <1>3, <1>5, <1>6, <1>7 DEF ReadAlike
<1>9. f[n] = g[m]
  <2> DEFINE F == f
             G == g
  <2>1. ReadAlike(F, G, n, m)
    BY <1>8
  <2> HIDE DEF F, G
  <2>2. F[n] = G[m]
    BY <2>1, SameScan
  <2> QED
    BY <2>2 DEF F, G
<1> QED
  BY <1>2, <1>3, <1>9 DEF m, n

(* The same clauses are found.                                             *)
LEMMA ClausesAlike ==
  ASSUME NEW t \in Texts, NEW s \in Texts, StartsAs(t, s), NEW from \in Nat,
         NEW to \in 1 .. Len(t) + 1, NEW e \in 1 .. Len(s) + 1, SameEnd(t, s, to, e)
  PROVE  ClauseStarts(t, from, to) = ClauseStarts(s, from, e)
<1> DEFINE n == to - 1
           m == e - 1
           L == Len(s)
           N == Len(t)
<1>1. /\ N \in Nat /\ L \in Nat /\ L <= N
      /\ \A i \in L + 1 .. N : t[i] \in White
      /\ \A i \in 1 .. L : t[i] = s[i]
  BY StartIs
<1>2. PICK f \in [0 .. n -> Seq(Nat)] :
        /\ ClausesInOrder(t, from, to) = f[n] /\ f[0] = <<>>
        /\ \A k \in 1 .. n : f[k] = ReadClause(t, from, f[k - 1], k)
  BY ClausesRead
<1>3. PICK g \in [0 .. m -> Seq(Nat)] :
        /\ ClausesInOrder(s, from, e) = g[m] /\ g[0] = <<>>
        /\ \A k \in 1 .. m : g[k] = ReadClause(s, from, g[k - 1], k)
  BY ClausesRead
<1>4. /\ n \in Nat /\ m \in 0 .. n /\ m <= L /\ n <= N
      /\ \A k \in m + 1 .. n : k \in L + 1 .. N
  <2>1. (to = e /\ e <= L + 1) \/ (to = N + 1 /\ e = L + 1)
    BY DEF SameEnd
  <2>2. to \in 1 .. N + 1 /\ e \in 1 .. L + 1
    OBVIOUS
  <2> HIDE DEF L, N
  <2> QED
    BY <1>1, <2>1, <2>2
<1> HIDE DEF n, m
<1>5. ASSUME NEW k \in 1 .. m, f[k - 1] = g[k - 1] PROVE f[k] = g[k]
  <2> DEFINE Q == g[k - 1]
  <2>1. k \in 1 .. n /\ k \in 1 .. L
    BY <1>1, <1>4
  <2>2. f[k] = ReadClause(t, from, Q, k) /\ g[k] = ReadClause(s, from, Q, k)
    BY <1>2, <1>3, <1>5, <2>1
  <2> HIDE DEF Q
  <2>3. t[k] = s[k] /\ StartsLine(t, k) = StartsLine(s, k)
    BY <2>1, LinesAlike
  <2> QED
    BY <2>2, <2>3 DEF ReadClause
<1>6. ASSUME NEW k \in m + 1 .. n PROVE f[k] = f[k - 1]
  <2>1. k \in 1 .. n /\ t[k] \in White
    BY <1>1, <1>4
  <2>2. t[k] \notin DOMAIN Clauses
    BY <2>1, TextAssumption
  <2>3. ReadClause(t, from, f[k - 1], k) = f[k - 1]
    BY <2>2 DEF ReadClause
  <2> QED
    BY <1>2, <2>1, <2>3
<1>7. f[n] = g[m]
  <2>1. n \in Nat /\ m \in 0 .. n
    BY <1>4
  <2> DEFINE F == f
             G == g
  <2>2. ReadAlike(F, G, n, m)
    BY <1>2, <1>3, <1>5, <1>6, <2>1 DEF ReadAlike
  <2> HIDE DEF F, G
  <2>3. F[n] = G[m]
    BY <2>2, SameScan
  <2> QED
    BY <2>3 DEF F, G
<1>8. ClausesInOrder(t, from, to) = ClausesInOrder(s, from, e)
  BY <1>2, <1>3, <1>7
<1> QED
  BY <1>8 DEF ClauseStarts

(* A line that starts solid in the shorter text ends at the same place.    *)
LEMMA LineEndAlike ==
  ASSUME NEW t \in Texts, NEW s \in Texts, StartsAs(t, s),
         NEW i \in 1 .. Len(s), s[i] \notin White
  PROVE  LineEnd(t, i) = LineEnd(s, i) /\ LineEnd(s, i) \in i + 1 .. Len(s) + 1
<1> DEFINE L == Len(s)
           N == Len(t)
           a == LineEnd(t, i)
           b == LineEnd(s, i)
<1>1. /\ N \in Nat /\ L \in Nat /\ L <= N
      /\ \A k \in 1 .. L : t[k] = s[k]
      /\ L < N => t[L + 1] = "/"
  BY StartIs
<1>2. i \in 1 .. N /\ t[i] \notin White
  BY <1>1
<1>3. /\ a \in i + 1 .. N + 1 /\ \A j \in i .. a - 1 : t[j] # "/"
      /\ a <= N => t[a] = "/"
  BY <1>2, LineEndIs
<1>4. /\ b \in i + 1 .. L + 1 /\ \A j \in i .. b - 1 : s[j] # "/"
      /\ b <= L => s[b] = "/"
  BY LineEndIs
<1>4a. i \in 1 .. L
  OBVIOUS
<1> HIDE DEF L, N, a, b
<1>5. ASSUME a < b PROVE FALSE
  <2>1. a \in i .. b - 1 /\ a <= N /\ a \in 1 .. L
    BY <1>1, <1>3, <1>4, <1>4a, <1>5
  <2> QED
    BY <1>1, <1>3, <1>4, <2>1
<1>6. ASSUME b < a PROVE FALSE
  <2>1. b \in i .. a - 1 /\ (b <= L => b \in 1 .. L) /\ (~(b <= L) => b = L + 1 /\ L < N)
    BY <1>1, <1>3, <1>4, <1>4a, <1>6
  <2> QED
    BY <1>1, <1>3, <1>4, <2>1
<1>7. a = b
  <2>1. a \in Nat /\ b \in Nat
    BY <1>1, <1>3, <1>4, <1>4a
  <2> QED
    BY <1>5, <1>6, <2>1
<1> QED
  BY <1>4, <1>7 DEF a, b, L

(* The same headings are found.                                            *)
LEMMA HeadingsAlike ==
  ASSUME NEW t \in Texts, NEW s \in Texts, StartsAs(t, s)
  PROVE  Headings(t) = Headings(s)
  BY ArticlesAlike, SectionsAlike DEF Headings

(* What is a real article in one text is in the other.                     *)
LEMMA RealAlike ==
  ASSUME NEW t \in Texts, NEW s \in Texts, StartsAs(t, s),
         NEW before \in Seq(1 .. Len(s)), NEW after \in Seq(1 .. Len(s)),
         before # <<>>, after # <<>>
  PROVE  ArticlesAreReal(t, before, after) = ArticlesAreReal(s, before, after)
<1> DEFINE X == 1 .. Len(s)
           n == Len(after)
<1>1. ASSUME NEW x \in X PROVE Number(t, x) = Number(s, x)
  BY LinesAlike
<1>2. before \in Seq(X) /\ after \in Seq(X)
  OBVIOUS
<1> HIDE DEF X
<1>3. Last(before) \in X /\ Head(after) \in X
  BY <1>2 DEF Last
<1>4. n \in Nat /\ \A k \in 1 .. n : after[k] \in X
  BY <1>2
<1>5. \A k \in 1 .. n - 1 : after[k] \in X /\ after[k + 1] \in X
  <2>1. \A k \in 1 .. n - 1 : k \in 1 .. n /\ k + 1 \in 1 .. n
    BY <1>4
  <2> QED
    BY <1>4, <2>1
<1>6. \A k \in 1 .. n - 1 : /\ Number(t, after[k]) = Number(s, after[k])
                            /\ Number(t, after[k + 1]) = Number(s, after[k + 1])
  BY <1>1, <1>5
<1>7. /\ Number(t, Head(after)) = Number(s, Head(after))
      /\ Number(t, Last(before)) = Number(s, Last(before))
  BY <1>1, <1>3
<1> HIDE DEF n
<1> DEFINE up(text) == \A k \in 1 .. n - 1 : Number(text, after[k + 1]) > Number(text, after[k])
<1>8. up(t) = up(s)
  BY <1>6
<1>9. \A text : ArticlesAreReal(text, before, after) =
        (\/ Number(text, Head(after)) = Number(text, Last(before)) + 1
         \/ Number(text, Head(after)) = 1 /\ Len(after) >= MinAttached /\ up(text))
  BY DEF ArticlesAreReal, n
<1> HIDE DEF up
<1> QED
  BY <1>7, <1>8, <1>9

(* The same place ends the text.                                           *)
LEMMA AppendixAlike ==
  ASSUME NEW t \in Texts, NEW s \in Texts, StartsAs(t, s)
  PROVE  AppendixStart(t, Headings(t)) = AppendixStart(s, Headings(s))
<1> DEFINE all == Headings(s)
           n == Len(all)
           L == Len(s)
           N == Len(t)
           found(text) == {i \in LineStarts(text) :
                             i >= LineEnd(text, Head(all)) /\ EndsText(text, all, i)}
<1>1. /\ N \in Nat /\ L \in Nat /\ L <= N
      /\ \A k \in 1 .. L : t[k] = s[k]
      /\ \A i \in L + 1 .. N : t[i] \in White
  BY StartIs
<1>2. Headings(t) = all
  BY HeadingsAlike
<1>3. CASE all = <<>>
  BY <1>2, <1>3 DEF AppendixStart
<1>4. CASE all # <<>>
  <2>1. Ascending(all, L) /\ \A k \in 1 .. n : s[all[k]] \notin White
    BY HeadingsAre
  <2>2. DOMAIN t = 1 .. N /\ DOMAIN s = 1 .. L
    BY DEF Texts
  <2> HIDE DEF all, N, L
  <2>3. /\ n \in Nat /\ n >= 1 /\ Last(all) = all[n] /\ Head(all) = all[1]
        /\ \A k \in 1 .. n : all[k] \in 1 .. L
        /\ \A k \in 1 .. n : all[1] <= all[k] /\ all[k] <= all[n]
    <3>1. /\ n \in Nat /\ n >= 1 /\ Last(all) = all[n] /\ Head(all) = all[1]
          /\ \A k \in 1 .. n : all[1] <= all[k] /\ all[k] <= all[n]
      BY <1>1, <1>4, <2>1, LastOfPlaces
    <3>2. \A k \in 1 .. n : all[k] \in 1 .. L
      BY <2>1 DEF Ascending
    <3> QED
      BY <3>1, <3>2
  <2>4. /\ Head(all) \in 1 .. L /\ Last(all) \in 1 .. L
        /\ s[Head(all)] \notin White /\ s[Last(all)] \notin White
    <3>1. 1 \in 1 .. n /\ n \in 1 .. n
      BY <2>3
    <3> QED
      BY <2>1, <2>3, <3>1
  <2>5. /\ LineEnd(t, Head(all)) = LineEnd(s, Head(all))
        /\ LineEnd(t, Last(all)) = LineEnd(s, Last(all))
        /\ LineEnd(s, Head(all)) \in Head(all) + 1 .. L + 1
    BY <2>4, LineEndAlike DEF L
  <2>6. ASSUME NEW i \in LineStarts(t), EndsText(t, all, i) PROVE i \in LineStarts(s)
    <3>1. i \in 1 .. N /\ StartsLine(t, i)
      BY <2>2 DEF LineStarts
    <3>2. t[i] \in Signatures \cup Appendices
      BY <2>6 DEF EndsText
    <3>3. t[i] \notin White
      BY <3>2, TextAssumption
    <3>4. i \in 1 .. L
      BY <1>1, <3>1, <3>3
    <3>5. StartsLine(s, i)
      BY <3>1, <3>4, LinesAlike DEF L
    <3> QED
      BY <2>2, <3>4, <3>5 DEF LineStarts
  <2>7. ASSUME NEW i \in LineStarts(s) PROVE i \in 1 .. L /\ i \in LineStarts(t) /\ t[i] = s[i]
    <3>1. i \in 1 .. L /\ StartsLine(s, i)
      BY <2>2 DEF LineStarts
    <3>2. StartsLine(t, i) /\ t[i] = s[i]
      BY <3>1, LinesAlike DEF L
    <3>3. i \in 1 .. N
      BY <1>1, <3>1
    <3> QED
      BY <2>2, <3>1, <3>2, <3>3 DEF LineStarts
  <2>8. ASSUME NEW i \in LineStarts(s), i >= LineEnd(s, Head(all))
        PROVE  EndsText(t, all, i) = EndsText(s, all, i)
    <3> DEFINE before == Before(all, i)
               after == From(all, i)
    <3>1. i \in 1 .. L /\ i \in Nat /\ t[i] = s[i]
      BY <1>1, <2>7
    <3>2. PICK m \in 0 .. Len(all) :
            /\ \A k \in 1 .. Len(all) : all[k] < i <=> k <= m
            /\ before = SubSeq(all, 1, m) /\ after = SubSeq(all, m + 1, Len(all))
            /\ Len(before) = m /\ \A k \in 1 .. m : before[k] = all[k]
            /\ Len(after) = Len(all) - m
            /\ \A k \in 1 .. Len(all) - m : after[k] = all[m + k]
            /\ Ascending(before, L)
      BY <1>1, <2>1, <3>1, BeforeIs
    <3>3. before # <<>>
      <4>1. all[1] < i
        BY <1>1, <2>3, <2>4, <2>5, <2>8, <3>1
      <4>2. 1 \in 1 .. n
        BY <2>3
      <4>3. Len(before) >= 1
        BY <2>3, <3>2, <4>1, <4>2
      <4> HIDE DEF before
      <4> QED
        BY <4>3
    <3>4. before \in Seq(1 .. L) /\ after \in Seq(1 .. L)
      <4>1. /\ 1 \in Int /\ m \in Int /\ m + 1 \in Int /\ n \in Int
            /\ \A k \in 1 .. m : all[k] \in 1 .. L
            /\ \A k \in m + 1 .. n : all[k] \in 1 .. L
        <5>1. /\ 1 \in Int /\ m \in Int /\ m + 1 \in Int /\ n \in Int
              /\ \A k \in 1 .. m : k \in 1 .. n
              /\ \A k \in m + 1 .. n : k \in 1 .. n
          BY <2>3
        <5> QED
          BY <2>3, <5>1
      <4>2. SubSeq(all, 1, m) \in Seq(1 .. L) /\ SubSeq(all, m + 1, n) \in Seq(1 .. L)
        BY <4>1, SubSeqProperties
      <4> QED
        BY <3>2, <4>2
    <3> HIDE DEF before, after
    <3>5. after # <<>> => ArticlesAreReal(t, before, after) = ArticlesAreReal(s, before, after)
      BY <3>3, <3>4, RealAlike DEF L
    <3>6. \A text : EndsText(text, all, i) =
            (\/ /\ text[i] \in Signatures
                /\ after = <<>> \/ ~ArticlesAreReal(text, before, after)
             \/ text[i] \in Appendices /\ i >= LineEnd(text, Last(all)))
      BY DEF EndsText, before, after
    <3> QED
      BY <2>5, <3>1, <3>5, <3>6
  <2>9. found(t) = found(s)
    <3>1. \A i \in found(t) : i \in found(s)
      BY <2>5, <2>6, <2>8
    <3>2. \A i \in found(s) : i \in found(t)
      BY <2>5, <2>7, <2>8
    <3> QED
      BY <3>1, <3>2
  <2>10. t[Head(all)] = s[Head(all)]
    BY <1>1, <2>4
  <2>11. \A text : AppendixStart(text, all) =
           IF all = <<>> \/ text[Head(all)] \notin DOMAIN Articles \/ found(text) = {} THEN 0
           ELSE Min(found(text))
    BY DEF AppendixStart
  <2> HIDE DEF found
  <2>12. AppendixStart(t, all) = AppendixStart(s, all)
    BY <2>9, <2>10, <2>11
  <2> QED
    BY <1>2, <2>12 DEF all
<1> QED
  BY <1>3, <1>4

(* Parts that differ in where they end at most, and there as the texts do. *)
Alike(t, s, p, q) ==
  /\ p.from = q.from /\ p.heading = q.heading /\ p.clause = q.clause
  /\ SameEnd(t, s, p.to, q.to)

(* Two lists of parts, one by one.                                         *)
AlikeLists(t, s, P, Q) ==
  /\ P \in Seq(Parts) /\ Q \in Seq(Parts) /\ Len(P) = Len(Q)
  /\ \A k \in 1 .. Len(P) : Alike(t, s, P[k], Q[k])

(* Two parts that end alike.                                               *)
LEMMA OneAlike ==
  ASSUME NEW t, NEW s, NEW from \in Nat, NEW to \in Nat, NEW e \in Nat, NEW heading \in Nat,
         NEW clause \in Nat, SameEnd(t, s, to, e)
  PROVE  /\ Alike(t, s, Part(from, to, heading, clause), Part(from, e, heading, clause))
         /\ AlikeLists(t, s, << Part(from, to, heading, clause) >>,
                       << Part(from, e, heading, clause) >>)
<1> DEFINE p == Part(from, to, heading, clause)
           q == Part(from, e, heading, clause)
<1>1. p \in Parts /\ q \in Parts /\ Alike(t, s, p, q)
  BY DEF Part, Parts, Alike
<1> HIDE DEF p, q
<1> DEFINE P == << p >>
           Q == << q >>
<1>2. P \in Seq(Parts) /\ Q \in Seq(Parts) /\ Len(P) = 1 /\ Len(Q) = 1 /\ P[1] = p /\ Q[1] = q
  BY <1>1
<1> HIDE DEF P, Q
<1>3. \A k \in 1 .. Len(P) : Alike(t, s, P[k], Q[k])
  <2>1. \A k \in 1 .. Len(P) : k = 1
    BY <1>2
  <2> QED
    BY <1>1, <1>2, <2>1
<1>4. AlikeLists(t, s, P, Q)
  BY <1>2, <1>3 DEF AlikeLists
<1> QED
  BY <1>1, <1>4 DEF P, Q, p, q

(* Two empty lists.                                                        *)
LEMMA NoneAlike ==
  ASSUME NEW t, NEW s
  PROVE  AlikeLists(t, s, <<>>, <<>>)
<1>1. <<>> \in Seq(Parts) /\ Len(<<>>) = 0 /\ 1 .. 0 = {}
  OBVIOUS
<1> QED
  BY <1>1 DEF AlikeLists

(* Two lists and two more behind them.                                     *)
LEMMA AppendAlike ==
  ASSUME NEW t, NEW s, NEW P, NEW Q, NEW R, NEW U,
         AlikeLists(t, s, P, Q), AlikeLists(t, s, R, U)
  PROVE  AlikeLists(t, s, P \o R, Q \o U)
<1> DEFINE n == Len(P)
           m == Len(R)
           A == P \o R
           B == Q \o U
<1>1. /\ P \in Seq(Parts) /\ Q \in Seq(Parts) /\ R \in Seq(Parts) /\ U \in Seq(Parts)
      /\ Len(Q) = n /\ Len(U) = m /\ n \in Nat /\ m \in Nat
      /\ \A k \in 1 .. n : Alike(t, s, P[k], Q[k])
      /\ \A k \in 1 .. m : Alike(t, s, R[k], U[k])
  BY DEF AlikeLists
<1>2. /\ A \in Seq(Parts) /\ Len(A) = n + m
      /\ \A k \in 1 .. n + m : A[k] = IF k <= n THEN P[k] ELSE R[k - n]
  <2>1. A \in Seq(Parts) /\ Len(A) = Len(P) + Len(R)
    BY <1>1, ConcatProperties
  <2>2. \A k \in 1 .. Len(P) + Len(R) : A[k] = IF k <= Len(P) THEN P[k] ELSE R[k - Len(P)]
    BY <1>1, ConcatProperties
  <2> QED
    BY <2>1, <2>2
<1>3. /\ B \in Seq(Parts) /\ Len(B) = n + m
      /\ \A k \in 1 .. n + m : B[k] = IF k <= n THEN Q[k] ELSE U[k - n]
  <2>1. B \in Seq(Parts) /\ Len(B) = Len(Q) + Len(U)
    BY <1>1, ConcatProperties
  <2>2. \A k \in 1 .. Len(Q) + Len(U) : B[k] = IF k <= Len(Q) THEN Q[k] ELSE U[k - Len(Q)]
    BY <1>1, ConcatProperties
  <2> HIDE DEF n, m, B
  <2> QED
    BY <1>1, <2>1, <2>2
<1> HIDE DEF n, m, A, B
<1>4. ASSUME NEW k \in 1 .. n + m PROVE Alike(t, s, A[k], B[k])
  <2>1. CASE k <= n
    <3>1. k \in 1 .. n
      BY <1>1, <2>1
    <3> QED
      BY <1>1, <1>2, <1>3, <2>1, <3>1
  <2>2. CASE ~(k <= n)
    <3>1. k - n \in 1 .. m
      BY <1>1, <2>2
    <3>2. A[k] = R[k - n] /\ B[k] = U[k - n]
      BY <1>2, <1>3, <2>2
    <3> QED
      BY <1>1, <3>1, <3>2
  <2> QED
    BY <2>1, <2>2
<1>5. AlikeLists(t, s, A, B)
  BY <1>2, <1>3, <1>4 DEF AlikeLists
<1> QED
  BY <1>5 DEF A, B

(* Lists in a row, one by one.                                             *)
LEMMA ChainAlike ==
  ASSUME NEW t, NEW s, NEW P \in Seq(Seq(Parts)), NEW Q \in Seq(Seq(Parts)), Len(P) = Len(Q),
         \A k \in 1 .. Len(P) : AlikeLists(t, s, P[k], Q[k])
  PROVE  AlikeLists(t, s, Chained(P), Chained(Q))
<1> DEFINE n == Len(P)
<1>1. n \in Nat
  OBVIOUS
<1>2. PICK f \in [0 .. n -> Seq(Parts)] :
        /\ Chained(P) = f[n] /\ f[0] = <<>>
        /\ \A k \in 1 .. n : f[k] = f[k - 1] \o P[k]
  BY ChainIsRead
<1>3. PICK g \in [0 .. n -> Seq(Parts)] :
        /\ Chained(Q) = g[n] /\ g[0] = <<>>
        /\ \A k \in 1 .. n : g[k] = g[k - 1] \o Q[k]
  <2>1. \E h \in [0 .. Len(Q) -> Seq(Parts)] :
          /\ Chained(Q) = h[Len(Q)] /\ h[0] = <<>>
          /\ \A k \in 1 .. Len(Q) : h[k] = h[k - 1] \o Q[k]
    BY ChainIsRead
  <2> QED
    BY <2>1
<1>4. \A k \in 1 .. n : AlikeLists(t, s, P[k], Q[k])
  OBVIOUS
<1> HIDE DEF n
<1> DEFINE S == {k \in 0 .. n : AlikeLists(t, s, f[k], g[k])}
<1>5. 0 \in S
  <2>1. AlikeLists(t, s, f[0], g[0])
    BY <1>2, <1>3, NoneAlike, Zenon
  <2> QED
    BY <1>1, <2>1
<1>6. ASSUME NEW k \in 0 .. n - 1, k \in S PROVE k + 1 \in S
  <2>1. k + 1 \in 1 .. n /\ k + 1 \in 0 .. n /\ (k + 1) - 1 = k
    BY <1>1
  <2>2. f[k + 1] = f[k] \o P[k + 1] /\ g[k + 1] = g[k] \o Q[k + 1]
    BY <1>2, <1>3, <2>1
  <2>3. AlikeLists(t, s, f[k], g[k]) /\ AlikeLists(t, s, P[k + 1], Q[k + 1])
    BY <1>4, <1>6, <2>1
  <2>4. AlikeLists(t, s, f[k] \o P[k + 1], g[k] \o Q[k + 1])
    BY <2>3, AppendAlike
  <2> QED
    BY <2>1, <2>2, <2>4
<1>7. \A k \in 0 .. n : k \in S
  <2> HIDE DEF S
  <2> QED
    BY <1>1, <1>5, <1>6, CountingUp
<1>8. n \in 0 .. n
  BY <1>1
<1> QED
  BY <1>2, <1>3, <1>7, <1>8

(* The segments of an article that is long in both texts or in neither.    *)
LEMMA SegmentsAlike ==
  ASSUME NEW t \in Texts, NEW s \in Texts, StartsAs(t, s),
         NEW h \in 1 .. Len(s), s[h] \notin White,
         NEW to \in h + 1 .. Len(t) + 1, NEW e \in h + 1 .. Len(s) + 1, SameEnd(t, s, to, e),
         (to - h <= MaxChunk) = (e - h <= MaxChunk)
  PROVE  AlikeLists(t, s, ArticleSegments(t, h, to), ArticleSegments(s, h, e))
<1> DEFINE L == LineEnd(s, h)
           inOrder == ClausesInOrder(s, L, e)
           S == ClauseStarts(s, L, e)
           n == Len(S)
<1>1. Len(s) \in Nat /\ Len(t) \in Nat /\ h \in Nat /\ to \in Nat /\ e \in Nat
      /\ e \in 1 .. Len(s) + 1 /\ to \in 1 .. Len(t) + 1
  BY StartIs
<1>2. LineEnd(t, h) = L /\ L \in 1 .. Len(s) + 1
  BY <1>1, LineEndAlike
<1>3. ClauseStarts(t, L, to) = S
  BY <1>1, <1>2, ClausesAlike
<1>4. S \in Seq(Nat) /\ n \in Nat /\ DOMAIN S = 1 .. n /\ \A k \in 1 .. n : S[k] \in 1 .. Len(s)
  <2>1. ClausesUpTo(s, inOrder, L, e - 1)
    BY <1>1, <1>2, ClausesFound
  <2>2. inOrder \in Seq(Nat) /\ \A k \in 1 .. Len(inOrder) : inOrder[k] \in 1 .. e - 1
    BY <2>1 DEF ClausesUpTo, Ascending
  <2>3. \A x \in 1 .. e - 1 : x \in 1 .. Len(s)
    BY <1>1
  <2>4. S = IF Len(inOrder) = 1 THEN <<>> ELSE inOrder
    BY DEF ClauseStarts
  <2> HIDE DEF inOrder, S
  <2>5. CASE Len(inOrder) = 1
    <3>1. S = <<>>
      BY <2>4, <2>5
    <3>2. <<>> \in Seq(Nat) /\ Len(<<>>) = 0 /\ DOMAIN <<>> = 1 .. 0 /\ 1 .. 0 = {}
      OBVIOUS
    <3> QED
      BY <3>1, <3>2
  <2>6. CASE Len(inOrder) # 1
    <3>1. S = inOrder
      BY <2>4, <2>6
    <3>2. \A k \in 1 .. n : S[k] \in 1 .. Len(s)
      BY <2>2, <2>3, <3>1
    <3> QED
      BY <2>2, <3>1, <3>2
  <2> QED
    BY <2>5, <2>6
<1> HIDE DEF L, S
<1> DEFINE apart == S[1] - h > MaxIntro
           from(k) == IF k = 1 /\ ~apart THEN h ELSE S[k]
           end(k, last) == IF k < n THEN S[k + 1] ELSE last
           intro == IF apart THEN << Part(h, S[1], h, 0) >> ELSE <<>>
           items(last) == [k \in DOMAIN S |-> Part(from(k), end(k, last), h, k)]
<1>5. /\ ArticleSegments(t, h, to) =
           IF to - h <= MaxChunk \/ S = <<>> THEN << Part(h, to, h, 0) >> ELSE intro \o items(to)
      /\ ArticleSegments(s, h, e) =
           IF e - h <= MaxChunk \/ S = <<>> THEN << Part(h, e, h, 0) >> ELSE intro \o items(e)
  BY <1>2, <1>3 DEF ArticleSegments, L, S
<1>6. ASSUME S # <<>> PROVE AlikeLists(t, s, intro \o items(to), intro \o items(e))
  <2>1. n >= 1 /\ S[1] \in 1 .. Len(s) /\ S[1] \in Nat
    <3>1. n >= 1
      BY <1>4, <1>6
    <3>2. 1 \in 1 .. n
      BY <1>4, <3>1
    <3> QED
      BY <1>1, <1>4, <3>2
  <2>2. \A x \in 1 .. Len(s) : SameEnd(t, s, x, x)
    BY <1>1 DEF SameEnd
  <2>3. AlikeLists(t, s, intro, intro)
    <3>1. AlikeLists(t, s, << Part(h, S[1], h, 0) >>, << Part(h, S[1], h, 0) >>)
      <4>1. 0 \in Nat /\ SameEnd(t, s, S[1], S[1])
        BY <2>1, <2>2
      <4> QED
        BY <1>1, <2>1, <4>1, OneAlike
    <3> QED
      BY <3>1, NoneAlike
  <2>4. ASSUME NEW k \in 1 .. n
        PROVE  /\ from(k) \in Nat /\ end(k, to) \in Nat /\ end(k, e) \in Nat
               /\ SameEnd(t, s, end(k, to), end(k, e))
    <3>1. S[k] \in Nat
      BY <1>1, <1>4
    <3>2. CASE k < n
      <4>1. k + 1 \in 1 .. n
        BY <1>4, <3>2
      <4>2. S[k + 1] \in 1 .. Len(s) /\ S[k + 1] \in Nat
        BY <1>1, <1>4, <4>1
      <4> QED
        BY <1>1, <2>2, <3>1, <3>2, <4>2
    <3>3. CASE ~(k < n)
      BY <1>1, <3>1, <3>3
    <3> QED
      BY <3>2, <3>3
  <2>5. ASSUME NEW k \in 1 .. n
        PROVE  /\ items(to)[k] \in Parts /\ items(e)[k] \in Parts
               /\ Alike(t, s, items(to)[k], items(e)[k])
    <3> DEFINE p == items(to)[k]
               q == items(e)[k]
    <3>1. p = Part(from(k), end(k, to), h, k) /\ q = Part(from(k), end(k, e), h, k)
      BY <1>4
    <3>2. k \in Nat
      BY <1>4
    <3>3. /\ from(k) \in Nat /\ end(k, to) \in Nat /\ end(k, e) \in Nat
          /\ SameEnd(t, s, end(k, to), end(k, e))
      BY <2>4
    <3> HIDE DEF p, q, from, end
    <3>4. Alike(t, s, p, q)
      BY <1>1, <3>1, <3>2, <3>3, OneAlike
    <3>5. p \in Parts /\ q \in Parts
      BY <1>1, <3>1, <3>2, <3>3, PartIs
    <3> QED
      BY <3>4, <3>5 DEF p, q
  <2>6. AlikeLists(t, s, items(to), items(e))
    <3> DEFINE A == items(to)
               B == items(e)
    <3>1. DOMAIN A = 1 .. n /\ DOMAIN B = 1 .. n
      BY <1>4
    <3>2. A = [k \in 1 .. n |-> A[k]] /\ B = [k \in 1 .. n |-> B[k]]
      BY <1>4
    <3>3. \A k \in 1 .. n : A[k] \in Parts /\ B[k] \in Parts /\ Alike(t, s, A[k], B[k])
      BY <2>5
    <3> HIDE DEF A, B
    <3>4. A \in [1 .. n -> Parts] /\ B \in [1 .. n -> Parts]
      BY <3>2, <3>3
    <3>5. n \in Nat
      BY <1>4
    <3> HIDE DEF n
    <3>6. A \in Seq(Parts) /\ B \in Seq(Parts) /\ Len(A) = n /\ Len(B) = n
      BY <3>4, <3>5
    <3>7. AlikeLists(t, s, A, B)
      BY <3>3, <3>6 DEF AlikeLists
    <3> QED
      BY <3>7 DEF A, B
  <2> HIDE DEF intro, items
  <2> QED
    BY <2>3, <2>6, AppendAlike
<1>7. AlikeLists(t, s, << Part(h, to, h, 0) >>, << Part(h, e, h, 0) >>)
  <2>1. 0 \in Nat
    OBVIOUS
  <2> QED
    BY <1>1, <2>1, OneAlike
<1> HIDE DEF intro, items
<1>8. CASE to - h <= MaxChunk \/ S = <<>>
  <2>1. e - h <= MaxChunk \/ S = <<>>
    BY <1>8
  <2> QED
    BY <1>5, <1>7, <1>8, <2>1
<1>9. CASE ~(to - h <= MaxChunk \/ S = <<>>)
  <2>1. ~(e - h <= MaxChunk \/ S = <<>>)
    BY <1>9
  <2> QED
    BY <1>5, <1>6, <1>9, <2>1
<1> QED
  BY <1>8, <1>9

(* Whether the last article fits one passage is the same in both texts.    *)
KeptShort(t, s) ==
  Headings(s) # <<>> =>
    (Len(t) + 1 - Last(Headings(s)) <= MaxChunk) = (Len(s) + 1 - Last(Headings(s)) <= MaxChunk)

(* The parts of a text and of one that goes on with white space.           *)
LEMMA PartsAlike ==
  ASSUME NEW t \in Texts, NEW s \in Texts, StartsAs(t, s), KeptShort(t, s)
  PROVE  AlikeLists(t, s, TextParts(t), TextParts(s))
<1> DEFINE H == Headings(s)
           e == AppendixStart(s, H)
           n == Len(H)
           N == Len(t)
           L == Len(s)
<1>1. PICK P, m, c : /\ AreGroups(t, P, m, c) /\ GroupsHold(t, P, m, c)
                     /\ TextParts(t) = Chained(P)
  BY GroupsAre
<1>2. PICK Q, k2, d : /\ AreGroups(s, Q, k2, d) /\ GroupsHold(s, Q, k2, d)
                      /\ TextParts(s) = Chained(Q)
  BY GroupsAre
<1>3. Headings(t) = H /\ AppendixStart(t, H) = e
  BY HeadingsAlike, AppendixAlike
<1>4. N \in Nat /\ L \in Nat /\ L <= N
  BY StartIs
<1>5. /\ Ascending(H, L)
      /\ \A k \in 1 .. n : s[H[k]] \notin White
  BY HeadingsAre
<1>6. e \in 0 .. L
  BY AppendixIs
<1>7. /\ n \in Nat /\ \A k \in 1 .. n : H[k] \in 1 .. L
      /\ \A j, k \in 1 .. n : j < k => H[j] < H[k]
      /\ n >= 1 => H # <<>> /\ Last(H) = H[n]
  <2>1. n \in Nat /\ H \in Seq(Nat) /\ \A k \in 1 .. n : H[k] \in 1 .. L
    BY <1>5 DEF Ascending
  <2>2. \A j, k \in 1 .. n : j < k => H[j] < H[k]
    BY <1>5 DEF Ascending
  <2>3. n >= 1 => H # <<>> /\ Last(H) = H[n]
    <3> HIDE DEF H
    <3>1. n >= 1 => H # <<>>
      BY <2>1
    <3> QED
      BY <3>1, <1>4, <1>5, LastOfPlaces
  <2> QED
    BY <2>1, <2>2, <2>3
<1>8. /\ m \in 0 .. n /\ P \in Seq(Seq(Parts)) /\ Len(P) = m + 2
      /\ c \in [1 .. m + 3 -> 1 .. N + 1]
      /\ \A g \in 1 .. m : c[g + 1] = H[g]
      /\ IF e = 0 THEN c[m + 2] = N + 1 /\ m = n ELSE c[m + 2] = e
      /\ P[m + 2] = IF e = 0 THEN <<>> ELSE << Part(e, N + 1, 0, 0) >>
  BY <1>1, <1>3 DEF AreGroups
<1>9. /\ \A k \in 1 .. n : H[k] < c[m + 2] <=> k <= m
      /\ P[1] = IF m = 0 \/ Solid(t, 1, c[2]) >= MinPreamble
               THEN << Part(1, c[2], 0, 0) >> ELSE <<>>
      /\ \A g \in 1 .. m : P[g + 1] = ArticleSegments(t, H[g], c[g + 2])
  BY <1>1, <1>3 DEF GroupsHold
<1>10. /\ k2 \in 0 .. n /\ Q \in Seq(Seq(Parts)) /\ Len(Q) = k2 + 2
       /\ d \in [1 .. k2 + 3 -> 1 .. L + 1]
       /\ \A g \in 1 .. k2 : d[g + 1] = H[g]
       /\ IF e = 0 THEN d[k2 + 2] = L + 1 /\ k2 = n ELSE d[k2 + 2] = e
       /\ Q[k2 + 2] = IF e = 0 THEN <<>> ELSE << Part(e, L + 1, 0, 0) >>
  BY <1>2 DEF AreGroups
<1>11. /\ \A k \in 1 .. n : H[k] < d[k2 + 2] <=> k <= k2
       /\ Q[1] = IF k2 = 0 \/ Solid(s, 1, d[2]) >= MinPreamble
                THEN << Part(1, d[2], 0, 0) >> ELSE <<>>
       /\ \A g \in 1 .. k2 : Q[g + 1] = ArticleSegments(s, H[g], d[g + 2])
  BY <1>2 DEF GroupsHold
<1>12. /\ H # <<>> => (N + 1 - Last(H) <= MaxChunk) = (L + 1 - Last(H) <= MaxChunk)
  BY DEF KeptShort
<1> HIDE DEF H, e, n, N, L
<1>13. k2 = m /\ m \in Nat
  <2>1. CASE e = 0
    BY <1>7, <1>8, <1>10, <2>1
  <2>2. CASE e # 0
    <3>1. \A k \in 1 .. n : k <= m <=> k <= k2
      BY <1>8, <1>9, <1>10, <1>11, <2>2
    <3>2. m \in 0 .. n /\ k2 \in 0 .. n /\ n \in Nat
      BY <1>7, <1>8, <1>10
    <3>3. m > 0 => m <= k2
      BY <3>1, <3>2
    <3>4. k2 > 0 => k2 <= m
      BY <3>1, <3>2
    <3> QED
      BY <3>2, <3>3, <3>4
  <2> QED
    BY <2>1, <2>2
<1>14. \A k \in 1 .. m + 2 : k = 1 \/ k = m + 2 \/ (k - 1 \in 1 .. m /\ (k - 1) + 1 = k)
  BY <1>13
<1>15. SameEnd(t, s, c[m + 2], d[m + 2])
  <2>1. CASE e = 0
    BY <1>8, <1>10, <1>13, <2>1 DEF SameEnd, N, L
  <2>2. CASE e # 0
    <3>1. e <= L + 1
      BY <1>4, <1>6
    <3>2. c[m + 2] = e /\ d[m + 2] = e
      BY <1>8, <1>10, <1>13, <2>2
    <3> QED
      BY <3>1, <3>2 DEF SameEnd, L
  <2> QED
    BY <2>1, <2>2
<1>16. \A x \in 1 .. L : SameEnd(t, s, x, x)
  BY <1>4 DEF SameEnd, L
<1>17. m <= n /\ \A g \in 1 .. m : g \in 1 .. n
  BY <1>7, <1>8, <1>13
<1>18. SameEnd(t, s, c[2], d[2]) /\ c[2] \in 1 .. N + 1 /\ d[2] \in 1 .. L + 1
  <2>1. 2 \in 1 .. m + 3
    BY <1>13
  <2>2. c[2] \in 1 .. N + 1 /\ d[2] \in 1 .. L + 1
    BY <1>8, <1>10, <1>13, <2>1
  <2>3. CASE m = 0
    BY <1>15, <2>2, <2>3
  <2>4. CASE m # 0
    <3>1. 1 \in 1 .. m /\ 1 + 1 = 2
      BY <1>13, <2>4
    <3>2. c[2] = H[1] /\ d[2] = H[1] /\ H[1] \in 1 .. L
      BY <1>7, <1>8, <1>10, <1>13, <1>17, <3>1
    <3> QED
      BY <1>16, <2>2, <3>2
  <2> QED
    BY <2>3, <2>4
<1>19. AlikeLists(t, s, P[1], Q[1])
  <2>1. 1 \in 1 .. Len(s) + 1 /\ c[2] \in 1 .. Len(t) + 1 /\ d[2] \in Nat /\ c[2] \in Nat
    BY <1>4, <1>18 DEF N, L
  <2>2. Solid(t, 1, c[2]) = Solid(s, 1, d[2])
    <3> DEFINE to == c[2]
               end == d[2]
    <3>1. 1 \in 1 .. Len(s) + 1 /\ to \in 1 .. Len(t) + 1 /\ end \in Nat /\ SameEnd(t, s, to, end)
      BY <1>18, <2>1
    <3> HIDE DEF to, end
    <3>2. {i \in 1 .. to - 1 : t[i] \notin White} = {i \in 1 .. end - 1 : s[i] \notin White}
      BY <3>1, SolidAlike
    <3>3. Solid(t, 1, to) = Solid(s, 1, end)
      BY <3>2 DEF Solid
    <3> QED
      BY <3>3 DEF to, end
  <2>3. AlikeLists(t, s, << Part(1, c[2], 0, 0) >>, << Part(1, d[2], 0, 0) >>)
    <3>1. 0 \in Nat /\ 1 \in Nat
      OBVIOUS
    <3> QED
      BY <1>18, <2>1, <3>1, OneAlike
  <2>4. AlikeLists(t, s, <<>>, <<>>)
    BY NoneAlike
  <2>5. CASE m = 0 \/ Solid(t, 1, c[2]) >= MinPreamble
    BY <1>9, <1>11, <1>13, <2>2, <2>3, <2>5
  <2>6. CASE ~(m = 0 \/ Solid(t, 1, c[2]) >= MinPreamble)
    BY <1>9, <1>11, <1>13, <2>2, <2>4, <2>6
  <2> QED
    BY <2>5, <2>6
<1>20. AlikeLists(t, s, P[m + 2], Q[m + 2])
  <2>1. CASE e = 0
    BY <1>8, <1>10, <1>13, <2>1, NoneAlike
  <2>2. CASE e # 0
    <3>1. 0 \in Nat /\ e \in Nat /\ N + 1 \in Nat /\ L + 1 \in Nat
      BY <1>4, <1>6
    <3>2. SameEnd(t, s, N + 1, L + 1)
      BY DEF SameEnd, N, L
    <3>3. AlikeLists(t, s, << Part(e, N + 1, 0, 0) >>, << Part(e, L + 1, 0, 0) >>)
      BY <3>1, <3>2, OneAlike
    <3> QED
      BY <1>8, <1>10, <1>13, <2>2, <3>3
  <2> QED
    BY <2>1, <2>2
<1>21. ASSUME NEW g \in 1 .. m
       PROVE  AlikeLists(t, s, P[g + 1], Q[g + 1])
  <2> DEFINE h == H[g]
             to == c[g + 2]
             end == d[g + 2]
  <2>1. P[g + 1] = ArticleSegments(t, h, to) /\ Q[g + 1] = ArticleSegments(s, h, end)
    BY <1>9, <1>11, <1>13
  <2>2. h \in 1 .. L /\ s[h] \notin White
    BY <1>5, <1>7, <1>17 DEF n
  <2>3. to \in 1 .. N + 1 /\ end \in 1 .. L + 1
    <3>1. g + 2 \in 1 .. m + 3
      BY <1>13
    <3> QED
      BY <1>8, <1>10, <1>13, <3>1
  <2>4. /\ h < to /\ h < end /\ SameEnd(t, s, to, end)
        /\ (to - h <= MaxChunk) = (end - h <= MaxChunk)
    <3>1. CASE g < m
      <4>1. g + 1 \in 1 .. m /\ (g + 1) + 1 = g + 2 /\ g + 1 \in 1 .. n /\ g \in 1 .. n /\ g < g + 1
        BY <1>13, <1>17, <3>1
      <4>2. to = H[g + 1] /\ end = H[g + 1] /\ H[g + 1] \in 1 .. L
        BY <1>7, <1>8, <1>10, <1>13, <4>1
      <4>3. h < H[g + 1]
        BY <1>7, <4>1
      <4> HIDE DEF h, to, end
      <4> QED
        BY <1>16, <4>2, <4>3
    <3>2. CASE ~(g < m)
      <4>1. g = m /\ m \in 1 .. n
        BY <1>13, <1>17, <3>2
      <4>2. h < to /\ h < end
        BY <1>9, <1>11, <1>13, <4>1
      <4>3. SameEnd(t, s, to, end)
        BY <1>15, <4>1
      <4>4. CASE e = 0
        <5>1. to = N + 1 /\ end = L + 1 /\ m = n
          BY <1>8, <1>10, <1>13, <4>1, <4>4
        <5>2. H # <<>> /\ h = Last(H)
          BY <1>7, <4>1, <5>1
        <5>3. N + 1 - Last(H) <= MaxChunk <=> L + 1 - Last(H) <= MaxChunk
          BY <1>12, <5>2
        <5>4. h \in Nat /\ MaxChunk \in Nat /\ to \in Nat /\ end \in Nat
          BY <1>4, <2>2, <2>3, ChunkingAssumption
        <5> HIDE DEF h, to, end
        <5>5. to - h <= MaxChunk <=> end - h <= MaxChunk
          BY <1>4, <5>1, <5>2, <5>3, <5>4
        <5>6. (to - h <= MaxChunk) = (end - h <= MaxChunk)
          BY <5>4, <5>5
        <5> QED
          BY <4>2, <4>3, <5>6
      <4>5. CASE e # 0
        <5>1. to = end
          BY <1>8, <1>10, <1>13, <4>1, <4>5
        <5> HIDE DEF h, to, end
        <5> QED
          BY <4>2, <4>3, <5>1
      <4> QED
        BY <4>4, <4>5
    <3> QED
      BY <3>1, <3>2
  <2> HIDE DEF h, to, end
  <2>5. to \in h + 1 .. N + 1 /\ end \in h + 1 .. L + 1
    BY <1>4, <2>2, <2>3, <2>4
  <2>6. AlikeLists(t, s, ArticleSegments(t, h, to), ArticleSegments(s, h, end))
    BY <2>2, <2>4, <2>5, SegmentsAlike DEF N, L
  <2> QED
    BY <2>1, <2>6
<1>22. ASSUME NEW k \in 1 .. m + 2 PROVE AlikeLists(t, s, P[k], Q[k])
  <2>1. CASE k = 1
    BY <1>19, <2>1
  <2>2. CASE k = m + 2
    BY <1>20, <2>2
  <2>3. CASE k # 1 /\ k # m + 2
    <3>1. k - 1 \in 1 .. m /\ (k - 1) + 1 = k
      BY <1>14, <2>3
    <3> DEFINE g == k - 1
    <3>2. g \in 1 .. m /\ g + 1 = k
      BY <3>1
    <3> HIDE DEF g
    <3> QED
      BY <1>21, <3>2
  <2> QED
    BY <2>1, <2>2, <2>3
<1>23. Len(P) = Len(Q) /\ Len(P) = m + 2
  BY <1>8, <1>10, <1>13
<1>24. AlikeLists(t, s, Chained(P), Chained(Q))
  BY <1>8, <1>10, <1>22, <1>23, ChainAlike
<1> QED
  BY <1>1, <1>2, <1>24

(* A solid place is on the same page in both texts.                        *)
LEMMA PageAlike ==
  ASSUME NEW t \in Texts, NEW s \in Texts, StartsAs(t, s), NEW b, NEW c,
         PagesAreTold(t, b), PagesAreTold(s, c),
         NEW i \in 1 .. Len(s), s[i] \notin White
  PROVE  PageFor(b, i) = PageFor(c, i)
<1>1. /\ Len(t) \in Nat /\ Len(s) \in Nat /\ Len(s) <= Len(t)
      /\ \A j \in 1 .. Len(s) : t[j] = s[j]
  BY StartIs
<1>2. i \in 1 .. Len(t) /\ t[i] \notin White
  BY <1>1
<1>3. PageFor(b, i) = OnPage(t, i) /\ PageFor(c, i) = OnPage(s, i)
  BY <1>2 DEF PagesAreTold
<1>4. {j \in 1 .. i : t[j] = "^"} = {j \in 1 .. i : s[j] = "^"}
  <2>1. \A j \in 1 .. i : j \in 1 .. Len(s)
    BY <1>1
  <2> QED
    BY <1>1, <2>1
<1>5. OnPage(t, i) = OnPage(s, i)
  BY <1>4 DEF OnPage
<1> QED
  BY <1>3, <1>5

(* Parts that are alike have the same passages.                            *)
LEMMA ChunksAlike ==
  ASSUME NEW t \in Texts, NEW s \in Texts, StartsAs(t, s), NEW b, NEW c,
         PagesAreTold(t, b), PagesAreTold(s, c),
         NEW p \in Parts, NEW q \in Parts, Alike(t, s, p, q),
         1 <= p.from, p.from <= p.to, p.to <= Len(t) + 1,
         1 <= q.from, q.from <= q.to, q.to <= Len(s) + 1
  PROVE  ChunksOf(t, b, p) = ChunksOf(s, c, q)
<1> DEFINE from == q.from
           to == p.to
           e == q.to
           S == SplitSpan(s, from, e)
           n == Len(S)
<1>1. /\ p.from = from /\ p.heading = q.heading /\ p.clause = q.clause
      /\ SameEnd(t, s, to, e)
  BY DEF Alike
<1>2. from \in Nat /\ to \in Nat /\ e \in Nat
  BY DEF Parts
<1>3. Len(t) \in Nat /\ Len(s) \in Nat
  BY StartIs
<1>4. /\ 1 <= from /\ from <= to /\ to <= Len(t) + 1 /\ from <= e /\ e <= Len(s) + 1
  BY <1>1
<1>5. /\ ChunksOf(t, b, p) = [k \in DOMAIN SplitSpan(t, from, to) |->
                                ParsedChunk(b, SplitSpan(t, from, to)[k], p)]
      /\ ChunksOf(s, c, q) = [k \in DOMAIN S |-> ParsedChunk(c, S[k], q)]
  BY <1>1 DEF ChunksOf
<1> HIDE DEF from, to, e
<1>6. from \in 1 .. Len(s) + 1 /\ to \in from .. Len(t) + 1 /\ e \in from .. Len(s) + 1
  BY <1>2, <1>3, <1>4
<1>7. SplitSpan(t, from, to) = S
  BY <1>1, <1>2, <1>6, SpansAlike
<1>8. IsCut(s, S, from, e)
  BY <1>6, SplitSpanIs
<1>9. /\ S \in Seq(Spans)
      /\ \A k \in 1 .. n :
           /\ from <= S[k][1] /\ S[k][2] <= e
           /\ S[k][2] - S[k][1] \in 1 .. MaxChunk
           /\ s[S[k][1]] \notin White /\ s[S[k][2] - 1] \notin White
  BY <1>8 DEF IsCut
<1> HIDE DEF S
<1>10. DOMAIN S = 1 .. n /\ n \in Nat /\ \A k \in 1 .. n : S[k] \in Spans
  BY <1>9
<1>11. MaxChunk \in Nat
  BY ChunkingAssumption
<1>12. ASSUME NEW k \in 1 .. n
       PROVE  ParsedChunk(b, S[k], p) = ParsedChunk(c, S[k], q)
  <2> DEFINE x == S[k][1]
             y == S[k][2]
             last == Max({y - 1, x})
  <2>1. x \in Nat /\ y \in Nat
    BY <1>10 DEF Spans
  <2>2. from <= x /\ y <= e /\ y - x \in 1 .. MaxChunk
    BY <1>9
  <2>3. s[x] \notin White /\ s[y - 1] \notin White
    BY <1>9
  <2>4. /\ ParsedChunk(b, S[k], p) =
             [start |-> x, end |-> y, heading |-> p.heading, clause |-> p.clause,
              first |-> PageFor(b, x), last |-> PageFor(b, last)]
        /\ ParsedChunk(c, S[k], q) =
             [start |-> x, end |-> y, heading |-> q.heading, clause |-> q.clause,
              first |-> PageFor(c, x), last |-> PageFor(c, last)]
    BY DEF ParsedChunk
  <2> HIDE DEF x, y
  <2>5. x \in 1 .. Len(s) /\ y - 1 \in 1 .. Len(s) /\ x <= y - 1 /\ y - 1 \in Int
    BY <1>2, <1>3, <1>6, <1>11, <2>1, <2>2
  <2>6. last \in {y - 1, x}
    <3> DEFINE T == {y - 1, x}
    <3>1. x \in Int /\ T \subseteq x .. y - 1
      BY <2>1, <2>5
    <3>2. IsFiniteSet(x .. y - 1)
      BY <2>5, <3>1, FS_Interval
    <3>3. T \in SUBSET Nat /\ T # {} /\ IsFiniteSet(T)
      <4>1. IsFiniteSet(T)
        BY <3>1, <3>2, FS_Subset
      <4> QED
        BY <2>1, <2>5, <4>1
    <3> HIDE DEF T
    <3>4. Max(T) \in T
      BY <3>3, GreatestOfAll
    <3> QED
      BY <3>4 DEF T
  <2>7. last \in 1 .. Len(s) /\ s[last] \notin White
    <3> HIDE DEF last
    <3> QED
      BY <2>3, <2>5, <2>6
  <2> HIDE DEF last
  <2>8. PageFor(b, x) = PageFor(c, x)
    BY <2>3, <2>5, PageAlike
  <2>9. PageFor(b, last) = PageFor(c, last)
    BY <2>7, PageAlike
  <2> QED
    BY <1>1, <2>4, <2>8, <2>9
<1>13. [k \in 1 .. n |-> ParsedChunk(b, S[k], p)] = [k \in 1 .. n |-> ParsedChunk(c, S[k], q)]
  BY <1>12
<1> QED
  BY <1>5, <1>7, <1>10, <1>13

(* The passages of a text and of one that goes on with white space.        *)
LEMMA PassagesAlike ==
  ASSUME NEW t \in Texts, NEW s \in Texts, StartsAs(t, s), KeptShort(t, s), NEW b, NEW c,
         PagesAreTold(t, b), PagesAreTold(s, c)
  PROVE  PassagesOf(t, b) = PassagesOf(s, c)
<1> DEFINE P == TextParts(t)
           Q == TextParts(s)
           n == Len(P)
<1>1. /\ P \in Seq(Parts) /\ Q \in Seq(Parts) /\ Len(Q) = n
      /\ \A k \in 1 .. n : Alike(t, s, P[k], Q[k])
  BY PartsAlike DEF AlikeLists
<1>2. \A k \in 1 .. n : 1 <= P[k].from /\ P[k].from <= P[k].to /\ P[k].to <= Len(t) + 1
  BY TextPartsAre DEF AreParts
<1>3. \A k \in 1 .. Len(Q) : 1 <= Q[k].from /\ Q[k].from <= Q[k].to /\ Q[k].to <= Len(s) + 1
  BY TextPartsAre DEF AreParts
<1>4. /\ PassagesOf(t, b) = Chained([k \in DOMAIN P |-> ChunksOf(t, b, P[k])])
      /\ PassagesOf(s, c) = Chained([k \in DOMAIN Q |-> ChunksOf(s, c, Q[k])])
  BY DEF PassagesOf
<1> HIDE DEF P, Q
<1>5. DOMAIN P = 1 .. n /\ DOMAIN Q = 1 .. n /\ \A k \in 1 .. n : P[k] \in Parts /\ Q[k] \in Parts
  BY <1>1
<1>6. ASSUME NEW k \in 1 .. n PROVE ChunksOf(t, b, P[k]) = ChunksOf(s, c, Q[k])
  <2>1. P[k] \in Parts /\ Q[k] \in Parts /\ Alike(t, s, P[k], Q[k])
    BY <1>1, <1>5
  <2>2. /\ 1 <= P[k].from /\ P[k].from <= P[k].to /\ P[k].to <= Len(t) + 1
        /\ 1 <= Q[k].from /\ Q[k].from <= Q[k].to /\ Q[k].to <= Len(s) + 1
    BY <1>1, <1>2, <1>3
  <2> DEFINE p == P[k]
             q == Q[k]
  <2> HIDE DEF p, q
  <2>3. /\ p \in Parts /\ q \in Parts /\ Alike(t, s, p, q)
        /\ 1 <= p.from /\ p.from <= p.to /\ p.to <= Len(t) + 1
        /\ 1 <= q.from /\ q.from <= q.to /\ q.to <= Len(s) + 1
    BY <2>1, <2>2 DEF p, q
  <2>4. ChunksOf(t, b, p) = ChunksOf(s, c, q)
    BY <2>3, ChunksAlike
  <2> QED
    BY <2>4 DEF p, q
<1>7. [k \in 1 .. n |-> ChunksOf(t, b, P[k])] = [k \in 1 .. n |-> ChunksOf(s, c, Q[k])]
  BY <1>6
<1> QED
  BY <1>4, <1>5, <1>7

(* What was stored is cut as before.                                       *)
LEMMA RechunkIsSame ==
  PagesInv => RechunkAgrees
<1> SUFFICES ASSUME PagesInv PROVE RechunkAgrees
  OBVIOUS
<1> DEFINE stored == StoredPages(pages)
           t == Joined(pages)
           s == Joined(stored)
           b == Boundaries(pages)
           c == Boundaries(stored)
           tail == Len(t) - Len(s)
           length == Len(s) + 1 - Last(Headings(t))
           kept == Headings(t) = <<>> \/ length > MaxChunk \/ length + tail <= MaxChunk
<1>1. pages \in Seq(PlainTexts) /\ pages # <<>>
  BY DEF PagesInv
<1>2. stored \in Seq(PlainTexts) /\ stored # <<>> /\ StartsAs(t, s)
  BY <1>1, StoredIs
<1>3. t \in Texts /\ PagesAreTold(t, b)
  <2>1. t \in Texts
    BY <1>1, PlainPagesAre
  <2> QED
    BY <1>1, <2>1, OnPageIs DEF PagesAreTold
<1> HIDE DEF stored
<1>4. s \in Texts /\ PagesAreTold(s, c)
  <2>1. s \in Texts
    BY <1>2, PlainPagesAre
  <2> QED
    BY <1>2, <2>1, OnPageIs DEF PagesAreTold
<1>5. ASSUME kept PROVE BuildArticleChunks(stored) = BuildArticleChunks(pages)
  <2>1. Headings(t) = Headings(s)
    BY <1>2, <1>3, <1>4, HeadingsAlike
  <2> DEFINE H == Headings(s)
             h == Last(H)
  <2>2. H # <<>> => h \in Nat /\ h <= Len(s)
    <3>1. Ascending(H, Len(s)) /\ Len(s) \in Nat
      <4>1. Len(s) \in Nat
        BY <1>4 DEF Texts
      <4>2. Ascending(Headings(s), Len(s))
        BY <1>4, HeadingsAre
      <4> QED
        BY <4>1, <4>2
    <3> HIDE DEF H
    <3>2. H # <<>> => Last(H) \in 1 .. Len(s)
      BY <3>1, LastOfPlaces
    <3> QED
      BY <3>1, <3>2
  <2>3. Len(t) \in Nat /\ Len(s) \in Nat /\ Len(s) <= Len(t) /\ MaxChunk \in Nat
    BY <1>2, <1>3, <1>4, StartIs, ChunkingAssumption
  <2>4. H = <<>> \/ Len(s) + 1 - h > MaxChunk \/ (Len(s) + 1 - h) + (Len(t) - Len(s)) <= MaxChunk
    BY <1>5, <2>1
  <2> HIDE DEF h, t, s
  <2>5. H # <<>> => (Len(t) + 1 - h <= MaxChunk <=> Len(s) + 1 - h <= MaxChunk)
    BY <2>2, <2>3, <2>4
  <2>6. H # <<>> => (Len(t) + 1 - h <= MaxChunk) = (Len(s) + 1 - h <= MaxChunk)
    BY <2>5
  <2>7. KeptShort(t, s)
    BY <2>6 DEF KeptShort, h
  <2>8. PassagesOf(t, b) = PassagesOf(s, c)
    BY <1>2, <1>3, <1>4, <2>7, PassagesAlike
  <2> QED
    BY <2>8 DEF BuildArticleChunks, t, s
<1> QED
  BY <1>5 DEF RechunkAgrees, stored

(* The text of a document is all in its passages, but for white space and  *)
(* a short preamble, and chunking what was stored changes nothing.         *)
THEOREM PassagesHoldTheTextAlways == ChunkSpec => []PassagesHoldTheText
<1>1. ChunkInit => PagesInv
  BY PagesAreInductive
<1>2. PagesInv /\ [ChunkNext]_chunkVars => PagesInv'
  BY PagesAreInductive
<1>3. PagesInv => PassagesHoldTheText
  BY PlacesAreInPages, RechunkIsSame DEF PassagesHoldTheText
<1> QED
  BY <1>1, <1>2, <1>3, PTL DEF ChunkSpec
=============================================================================
