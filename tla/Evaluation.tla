----------------------------- MODULE Evaluation -----------------------------
(***************************************************************************)
(* How retrieval is measured: scripts/evaluate_tax_retrieval.py with       *)
(* retrieval/issues.py (one ranking per legal issue, interleaved),         *)
(* evaluation/metrics.py, comparison.py and corpus_manifest.py.            *)
(*                                                                         *)
(* The rankings of one case grow passage by passage; the corpus a frozen   *)
(* manifest describes goes on changing.  A passage has a document, an      *)
(* article and perhaps a clause number; "text" is the clauses it really    *)
(* holds text of, "lines" the numbers that start a line of it.  The two    *)
(* differ: OCR hides numbers, and a wrapped line, a list or an amendment   *)
(* that is quoted has numbers of no clause.                                *)
(***************************************************************************)
EXTENDS Integers, Sequences, FiniteSets, SequencesExt, FiniteSetsExt

CONSTANTS
  Passages,      \* passages of the corpus: the fields of each
  FollowedBy,    \* the numbered clause an inserted clause follows, or itself
  Provisions,    \* the essential provisions of the case: sequences of places
  Cases,         \* the relevant documents of each case
  Queries,       \* how many rankings: the question's and one for each issue
  MaxRanking,    \* bound: passages of a ranking
  MaxRanked,     \* bound: passages of all rankings
  Budgets,       \* the values of K
  Entries,       \* document versions a manifest may list
  MaxChanges     \* bound: changes of the corpus after the freeze

Absent == "none"
Relevant == UNION Cases

ASSUME EvaluationAssumption ==
  /\ {Queries, MaxRanking, MaxRanked, MaxChanges} \subseteq Nat
  /\ IsFiniteSet(Budgets) /\ Budgets # {} /\ Budgets \subseteq Nat \ {0}
  /\ IsFiniteSet(Relevant) /\ Cases # {} /\ {} \notin Cases

(* The chunker: a passage with a clause number, whole or a piece, holds    *)
(* text of that clause.  The gold set: a provision's clause, or the one it *)
(* was inserted behind, is in a passage of its article, if the article is  *)
(* in the corpus.                                                          *)
ASSUME LawAssumption ==
  /\ IsFiniteSet(DOMAIN Passages)
  /\ \A p \in DOMAIN Passages :
       /\ Passages[p].text \cup Passages[p].lines \subseteq DOMAIN FollowedBy
       /\ Passages[p].clause # Absent => Passages[p].clause \in Passages[p].text
  /\ Provisions \in Seq(ToSet(Provisions))
  /\ \A i \in DOMAIN Provisions : \A place \in ToSet(Provisions[i]) :
       LET parts == {p \in DOMAIN Passages : /\ Passages[p].document = place.document
                                             /\ Passages[p].article = place.article}
       IN  /\ place.article # Absent
           /\ place.clause # Absent /\ parts # {} =>
                \E p \in parts : Passages[p].text \cap {place.clause, FollowedBy[place.clause]} # {}

VARIABLES
  rankings,   \* what each search found
  embedded,   \* relevant documents with embedded passages
  corpus      \* the live manifest, the frozen one, and how often it changed

evaluationVars == <<rankings, embedded, corpus>>

(* A turn is a place of a ranking.                                         *)
Turns == UNION {{<<place, i>> : place \in DOMAIN rankings[i]} : i \in 1 .. Queries}

(* A manifest: the edition of the compared fields of each version, 0 for   *)
(* a version that is not there, and the embedding model.                   *)
FirstManifest == [of |-> [e \in Entries |-> IF e = 1 THEN 0 ELSE 1], model |-> 1]

EvaluationInit ==
  /\ rankings = [i \in 1 .. Queries |-> <<>>]
  /\ embedded \in SUBSET Relevant
  /\ corpus = [frozen |-> FirstManifest, live |-> FirstManifest, changes |-> 0]

(* hybrid_search_chunks of issue_guided_search finds one more passage.     *)
Find ==
  /\ Cardinality(Turns) < MaxRanked
  /\ \E i \in 1 .. Queries : \E p \in DOMAIN Passages \ ToSet(rankings[i]) :
       /\ Len(rankings[i]) < MaxRanking
       /\ rankings' = [rankings EXCEPT ![i] = Append(@, p)]
  /\ UNCHANGED <<embedded, corpus>>

(* A version is collected, processed again, or pruned; or the model is     *)
(* another one.                                                            *)
CorpusChanges ==
  /\ corpus.changes < MaxChanges
  /\ \/ \E e \in Entries : \E edition \in 0 .. 2 \ {corpus.live.of[e]} :
          corpus' = [corpus EXCEPT !.changes = @ + 1, !.live.of[e] = edition]
     \/ corpus' = [corpus EXCEPT !.changes = @ + 1, !.live.model = 3 - @]
  /\ UNCHANGED <<rankings, embedded>>

EvaluationNext == Find \/ CorpusChanges
EvaluationSpec == EvaluationInit /\ [][EvaluationNext]_evaluationVars

-----------------------------------------------------------------------------
(* The merged ranking.                                                     *)

(* The turns go position by position, each ranking in turn.                *)
Taken(t) == rankings[t[2]][t[1]]
Earlier(t) == {u \in Turns : u[1] < t[1] \/ (u[1] = t[1] /\ u[2] < t[2])}

(* The turns whose passage is unseen, and the n-th of them.                *)
Fresh == {t \in Turns : \A u \in Earlier(t) : Taken(u) # Taken(t)}
NthFresh(n) == CHOOSE t \in Fresh : Cardinality(Earlier(t) \cap Fresh) = n - 1

(* Mutant: the limit counts passages that were seen before.                *)
Merged_Counted(limit) ==
  LET counted == {t \in Fresh : Cardinality(Earlier(t)) < limit}
  IN  [n \in 1 .. Cardinality(counted) |-> Taken(NthFresh(n))]

(* interleave.                                                             *)
Merged(limit) == [n \in 1 .. Min({limit, Cardinality(Fresh)}) |-> Taken(NthFresh(n))]

Results == Merged(Max(Budgets))

-----------------------------------------------------------------------------
(* Provisions within K passages.                                           *)

PartCounts ==
  [p \in DOMAIN Passages |->
     Cardinality({q \in DOMAIN Passages : /\ Passages[q].document = Passages[p].document
                                          /\ Passages[q].article = Passages[p].article})]

(* Mutant: a passage without a clause number is the whole article.         *)
ClausesHeld_Whole ==
  [p \in DOMAIN Passages |-> IF Passages[p].clause # Absent THEN {Passages[p].clause}
                             ELSE DOMAIN FollowedBy]

(* _passage_locators: the clauses each passage counts for.                 *)
ClausesHeld ==
  [p \in DOMAIN Passages |->
     IF Passages[p].clause # Absent THEN {Passages[p].clause}
     ELSE IF Passages[p].article # Absent /\ PartCounts[p] > 1 THEN Passages[p].lines
     ELSE DOMAIN FollowedBy]

(* _covers.                                                                *)
InArticle(p, place) ==
  Passages[p].document = place.document /\ Passages[p].article = place.article
Among(clauses, place) ==
  place.clause = Absent \/ clauses \cap {place.clause, FollowedBy[place.clause]} # {}
Covers(p, place) == InArticle(p, place) /\ Among(ClausesHeld[p], place)

(* provision_ranks: 0 is no rank.                                          *)
ProvisionRank(results, places) ==
  LET ranks == {r \in DOMAIN results :
                  \E i \in DOMAIN places : Covers(results[r], places[i])}
  IN  IF ranks = {} THEN 0 ELSE Min(ranks)

ProvisionRanks(results) ==
  [i \in DOMAIN Provisions |-> ProvisionRank(results, Provisions[i])]

Found(rank, k) == rank # 0 /\ rank <= k

(* provision_coverage: found, of how many.                                 *)
ProvisionCoverage(ranks, k) ==
  [found |-> Cardinality({i \in DOMAIN ranks : Found(ranks[i], k)}), of |-> Len(ranks)]
FullCoverage(ranks, k) == ProvisionCoverage(ranks, k).found = Len(ranks)

(* _add_provision_metrics: provisions of an embedded document.             *)
InCorpus(i) == \E k \in DOMAIN Provisions[i] : Provisions[i][k].document \in embedded

(* _unique_document_numbers, and evaluate_retrieval over them: the relevant *)
(* documents among the first k different ones.                             *)
DocumentsWithin(results, r) == {Passages[results[q]].document : q \in 1 .. r}
RelevantFound(results, relevant, k) ==
  {d \in relevant : \E r \in DOMAIN results :
     /\ Passages[results[r]].document = d
     /\ Cardinality(DocumentsWithin(results, r)) <= k}

(* compare_runs, on one case: the question's own ranking is the baseline.  *)
FoundProvisions(results, k) ==
  {i \in DOMAIN Provisions : InCorpus(i) /\ Found(ProvisionRank(results, Provisions[i]), k)}
Outcome(baseline, method) ==
  LET gained == method \ baseline
      lost == baseline \ method
  IN  CASE gained # {} /\ lost = {} -> "win"
        [] lost # {} /\ gained = {} -> "loss"
        [] OTHER -> "tie"

-----------------------------------------------------------------------------
(* What of the corpus is there.                                            *)

CoverageStatus(relevant) ==
  IF relevant \subseteq embedded THEN "fully_covered"
  ELSE IF relevant \cap embedded # {} THEN "partially_covered"
  ELSE "not_covered"

EvaluationStatus ==
  IF Relevant \cap embedded = {} THEN "not_evaluable"
  ELSE IF Cardinality(Relevant \cap embedded) < Cardinality(Relevant) THEN "partial_coverage"
  ELSE "ready"

Versions(manifest) == {e \in Entries : manifest.of[e] # 0}

(* manifest_fingerprint: equal for equal contents.                         *)
Fingerprint(manifest) == <<{<<e, manifest.of[e]>> : e \in Versions(manifest)}, manifest.model>>

(* Mutant: only versions that were there before are compared.              *)
CompareManifests_Before(frozen, live) ==
  [unchanged |-> Fingerprint(frozen) = Fingerprint(live),
   modelChanged |-> frozen.model # live.model,
   added |-> {},
   removed |-> Versions(frozen) \ Versions(live),
   changed |-> {e \in Versions(frozen) \cap Versions(live) : frozen.of[e] # live.of[e]}]

CompareManifests(frozen, live) ==
  [unchanged |-> Fingerprint(frozen) = Fingerprint(live),
   modelChanged |-> frozen.model # live.model,
   added |-> Versions(live) \ Versions(frozen),
   removed |-> Versions(frozen) \ Versions(live),
   changed |-> {e \in Versions(frozen) \cap Versions(live) : frozen.of[e] # live.of[e]}]

-----------------------------------------------------------------------------
(* "Any budget K is filled the same way" (issues.py): the merged ranking   *)
(* of a smaller budget is the beginning of that of a larger one, lists no  *)
(* passage twice, is as long as there are passages to list, and has the    *)
(* first p passages of each of n rankings among its first n * p.           *)
InterleaveIsFair ==
  LET results == Results
      found == Cardinality(UNION {ToSet(rankings[i]) : i \in 1 .. Queries})
  IN  \A k \in Budgets :
        LET merged == Merged(k)
        IN  /\ Len(merged) = Min({k, found})
            /\ \A m, n \in DOMAIN merged : merged[m] = merged[n] => m = n
            /\ \A n \in DOMAIN merged : n \in DOMAIN results /\ merged[n] = results[n]
            /\ \A i \in 1 .. Queries : \A place \in DOMAIN rankings[i] :
                 Queries * place <= k =>
                   \E n \in DOMAIN merged : n <= Queries * place /\ merged[n] = rankings[i][place]

(* Numbers of no clause a part of an article without a number counts for.  *)
Misread(p) ==
  IF Passages[p].clause = Absent /\ PartCounts[p] > 1
  THEN Passages[p].lines \ Passages[p].text ELSE {}

(* The clauses a passage names: its own, or those its lines start with.    *)
Claims(p) == IF Passages[p].clause # Absent THEN {Passages[p].clause} ELSE Passages[p].lines

(* A provision counts as found at a passage that holds text of its clause, *)
(* or of the clause it was inserted behind, unless a line of a part of the *)
(* article starts with that number although no clause begins there; and no *)
(* passage before names it.                                                *)
HitsHoldTheText ==
  LET results == Results
  IN  \A i \in DOMAIN Provisions :
        LET places == ToSet(Provisions[i])
            rank == ProvisionRank(results, Provisions[i])
            known(p, clauses) ==
              \E place \in places : InArticle(p, place) /\ Among(clauses, place)
        IN  /\ rank # 0 => \/ known(results[rank], Passages[results[rank]].text)
                           \/ known(results[rank], Misread(results[rank]))
            /\ \A r \in DOMAIN results :
                 rank = 0 \/ r < rank => ~known(results[r], Claims(results[r]))

(* Passages, documents and cases agree: what is found within K passages is *)
(* of a document among the first K, so full coverage finds every document; *)
(* a method that has it never loses; and one wins when the other loses.    *)
MeasuresAgree ==
  LET results == Results
      ranks == ProvisionRanks(results)
      documents(i) == {Provisions[i][n].document : n \in DOMAIN Provisions[i]}
  IN  \A k \in Budgets :
        LET baseline == FoundProvisions(rankings[1], k)
            method == FoundProvisions(results, k)
        IN  /\ FullCoverage(ranks, k) =>
                 /\ \A i \in DOMAIN Provisions : RelevantFound(results, documents(i), k) # {}
                 /\ Outcome(baseline, method) # "loss"
            /\ Outcome(baseline, method) = "win" <=> Outcome(method, baseline) = "loss"

(* The gate says "ready" exactly when every case is fully covered, and     *)
(* "not_evaluable" exactly when no case is covered at all.                 *)
GateAgrees ==
  /\ EvaluationStatus = "ready" <=> \A c \in Cases : CoverageStatus(c) = "fully_covered"
  /\ EvaluationStatus = "not_evaluable" <=> \A c \in Cases : CoverageStatus(c) = "not_covered"

(* A comparison with the frozen manifest calls the corpus unchanged        *)
(* exactly when it has nothing to list, and what it lists says how to get  *)
(* from the one to the other.                                              *)
ComparisonTells ==
  LET frozen == corpus.frozen
      live == corpus.live
      told == CompareManifests(frozen, live)
  IN  /\ told.unchanged <=> /\ told.added \cup told.removed \cup told.changed = {}
                            /\ ~told.modelChanged
      /\ Versions(live) = (Versions(frozen) \cup told.added) \ told.removed
      /\ \A e \in Entries \ (told.added \cup told.removed \cup told.changed) :
           frozen.of[e] = live.of[e]

(* No score, in a report or at the gate, that the ranking did not earn.    *)
ScoresAreEarned == HitsHoldTheText /\ MeasuresAgree /\ GateAgrees
=============================================================================
