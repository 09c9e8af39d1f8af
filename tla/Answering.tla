----------------------------- MODULE Answering ------------------------------
(***************************************************************************)
(* A question from api/routes/questions.py through the graph of            *)
(* intelligence/qa.py: plan, retrieve, assess, generate.                   *)
(*                                                                         *)
(* The two searches of a question are two statements, with the embedding   *)
(* of the question between them, and each sees the corpus as it is then:   *)
(* a status may be corrected or a passage cut again in between.  A version *)
(* whose row was read keeps, for this question, the status it was read     *)
(* with.                                                                   *)
(*                                                                         *)
(* The model's answer is anything: a claim is the text it restates and the *)
(* numbers it cites.  "Supported" is taken for exact: the text restated is *)
(* that of a cited passage.                                                *)
(***************************************************************************)
EXTENDS Retrieval

CONSTANTS
  Limit,       \* retrieval_limit
  Located,     \* passages with an article, clause, heading or page
  FarFrom,     \* distance from which a similarity is below qa_min_semantic_score
  Recut,       \* the row that takes the place of a passage cut again
  Corpora,     \* statuses the versions may have when the question comes
  Reported,    \* statuses that a source may report later
  Questions,   \* queries that may come, of Queries
  Claims,      \* claims a model may make
  Invented     \* what a claim says that no passage says

ASSUME AnsweringAssumption ==
  /\ Limit \in Nat \ {0} /\ FarFrom \in Nat
  /\ Located \subseteq Passages
  /\ \A p \in Passages : PlaceOf[p] # NoPlace => p \in Located
  /\ Recut \in [DOMAIN Recut -> Passages] /\ DOMAIN Recut \subseteq Passages
  /\ Questions \subseteq Queries
  /\ \A c \in Claims : c.says \in Texts \cup {Invented} /\ c.cites \subseteq Nat
  /\ Invented \notin Texts

(* What the evidence gate makes of a legal status.                         *)
Unresolved == {"DISCOVERED", "UNKNOWN"}
Inactive == {"SUPERSEDED", "EXPIRED", "REPEALED", "INACTIVE"}
Current == {"EFFECTIVE", "PARTIALLY_EXPIRED", "NOT_YET_EFFECTIVE"}
Statuses == Unresolved \cup Inactive \cup Current

ASSUME CorporaAssumption ==
  /\ Corpora \subseteq [Versions -> Statuses]
  /\ Reported \subseteq Current \cup Inactive

VARIABLES
  rows,      \* passage rows
  status,    \* legal_status of a version
  query,     \* what the database computes for the question
  request    \* the question being answered

corpus == <<rows, status>>
vars == <<rows, status, query, request>>

NoAnswer == [status |-> "none", facts |-> {}, citations |-> << >>, caveat |-> FALSE]

NewRequest ==
  [pc |-> "new", keyword |-> << >>, semantic |-> << >>, results |-> << >>,
   read |-> [v \in {} |-> "DISCOVERED"], gate |-> "none", evidence |-> << >>,
   citations |-> << >>, answer |-> NoAnswer, atFirst |-> status]

Init ==
  /\ rows = Passages \ {Recut[p] : p \in DOMAIN Recut}
  /\ status \in Corpora
  /\ query \in Questions
  /\ request = NewRequest

(* What a statement adds to the rows this session has read.                *)
Reading(seq) ==
  [v \in DOMAIN request.read \cup {VersionOf[p] : p \in In(seq)} |->
     IF v \in DOMAIN request.read THEN request.read[v] ELSE status[v]]

Done(r, answer) == [r EXCEPT !.pc = "done", !.answer = answer]

-----------------------------------------------------------------------------
(* The corpus changes while a question is answered; after the second       *)
(* statement nothing of it is read any more.                               *)

BetweenStatements == request.pc = "embedding"

(* _refresh_document_metadata gives all versions of a document a status.   *)
(* Bound: one document in this moment.                                     *)
Refresh ==
  /\ BetweenStatements
  /\ status = request.atFirst
  /\ \E d \in Documents, s \in Reported :
       status' = [v \in Versions |-> IF DocumentOf[v] = d THEN s ELSE status[v]]
  /\ UNCHANGED <<rows, query, request>>

(* _replace_chunks: the same text in a new row.                            *)
CutAgain ==
  /\ BetweenStatements
  /\ \E p \in rows \cap DOMAIN Recut : rows' = (rows \ {p}) \cup {Recut[p]}
  /\ UNCHANGED <<status, query, request>>

-----------------------------------------------------------------------------
(* plan_query and retrieve_evidence.                                       *)

SafeAnswer(kind, citations, caveat) ==
  [status |-> kind, facts |-> {}, citations |-> citations, caveat |-> caveat]

Unsupported ==
  /\ request.pc = "new"
  /\ request' = Done(request, SafeAnswer("UNSUPPORTED", << >>, FALSE))
  /\ UNCHANGED <<corpus, query>>

SearchKeywords(provider) ==
  LET found == KeywordSearch(query, rows, Pool)
  IN  /\ request.pc = "new"
      /\ request' = [request EXCEPT
           !.pc = IF provider THEN "embedding" ELSE "assess",
           !.keyword = found,
           !.read = Reading(found),
           !.results = IF provider THEN << >> ELSE Top(Limit, Deduplicate(found))]
      /\ UNCHANGED <<corpus, query>>

SearchVectors ==
  LET near == SemanticSearch(query, rows, Pool)
  IN  /\ request.pc = "embedding"
      /\ request' = [request EXCEPT
           !.pc = "assess",
           !.semantic = near,
           !.read = Reading(near),
           !.results = Top(Limit, Deduplicate(Fuse(request.keyword, near, Pool)))]
      /\ UNCHANGED <<corpus, query>>

-----------------------------------------------------------------------------
(* assess_evidence, on the statuses that were read.                        *)

ReadStatus(p) == request.read[VersionOf[p]]

(* Mutant: only superseded provisions count as ended.                      *)
InForce_Expired(p) == ReadStatus(p) # "SUPERSEDED"

InForce(p) == ReadStatus(p) \notin Inactive

Conflicting(seq) ==
  \E p, r \in In(seq) :
    /\ DocumentOf[VersionOf[p]] = DocumentOf[VersionOf[r]]
    /\ ReadStatus(p) \notin Unresolved /\ ReadStatus(r) \notin Unresolved
    /\ ReadStatus(p) # ReadStatus(r)

Irrelevant ==
  LET scored == {p \in In(request.results) : p \in In(request.semantic)}
  IN  scored # {} /\ \A p \in scored : Distance(query, p) >= FarFrom

LocatedResults == Kept(request.results, Located)
CurrentResults == Kept(LocatedResults, {p \in In(LocatedResults) : InForce(p)})

Gate ==
  IF request.results = << >> THEN "NO_EVIDENCE"
  ELSE IF Irrelevant THEN "LOW_RELEVANCE"
  ELSE IF LocatedResults = << >> THEN "INSUFFICIENT_STRUCTURAL_SUPPORT"
  ELSE IF CurrentResults = << >> THEN "INACTIVE_ONLY"
  ELSE IF Conflicting(CurrentResults) THEN "CONFLICTING_VERSIONS"
  ELSE "SUFFICIENT"

(* Mutant: citations follow the search, not the evidence.                  *)
Cited_Results == request.results

Cited == IF Gate = "SUFFICIENT" THEN CurrentResults ELSE request.results

Assess ==
  /\ request.pc = "assess"
  /\ LET assessed == [request EXCEPT
           !.gate = Gate, !.citations = Cited,
           !.evidence = IF Gate = "SUFFICIENT" THEN CurrentResults ELSE << >>]
     IN  request' =
           IF Gate = "SUFFICIENT" THEN [assessed EXCEPT !.pc = "generate"]
           ELSE Done(assessed, SafeAnswer("INSUFFICIENT_EVIDENCE", Cited, FALSE))
  /\ UNCHANGED <<corpus, query>>

-----------------------------------------------------------------------------
(* generate_answer.                                                        *)

(* The note that a cited document's status has not been verified.          *)
Unverified == \E p \in In(request.evidence) : ReadStatus(p) \in Unresolved

(* _parse_claims: some numbers, and all of citations.                      *)
WellCited(c) == c.cites # {} /\ c.cites \subseteq DOMAIN request.citations

(* _is_supported: the text is found in the passages the numbers refer to.  *)
Supported(c) ==
  \E n \in c.cites \cap DOMAIN request.evidence : TextOf[request.evidence[n]] = c.says

(* _evidence_claims: each passage says what it says.                       *)
EvidenceClaims ==
  {[says |-> TextOf[request.evidence[n]], cites |-> {n}] : n \in DOMAIN request.evidence}

(* Mutant: the fallback forgets the notes.                                 *)
Fallback_NoNotes(kind) ==
  [SafeAnswer(kind, request.citations, FALSE) EXCEPT !.facts = EvidenceClaims]

Fallback(kind) ==
  [SafeAnswer(kind, request.citations, Unverified) EXCEPT !.facts = EvidenceClaims]

Generates(answer) ==
  /\ request.pc = "generate"
  /\ request' = Done(request, answer)
  /\ UNCHANGED <<corpus, query>>

(* ChatProviderError.                                                      *)
ProviderFails ==
  Generates(SafeAnswer("PROVIDER_UNAVAILABLE", request.citations, Unverified))

(* Not the JSON asked for, though its "answer" may still be read.          *)
Malformed ==
  \E kind \in {"ANSWERED", "INVALID_MODEL_OUTPUT"} : Generates(Fallback(kind))

(* answerable: false.                                                      *)
Declines == Generates(SafeAnswer("INSUFFICIENT_EVIDENCE", request.citations, Unverified))

(* Claims are checked one by one: one stands for all.                      *)
Answers ==
  \E claim \in Claims :
    Generates([SafeAnswer("ANSWERED", request.citations, Unverified) EXCEPT
      !.facts = {c \in {claim} : WellCited(c) /\ Supported(c)}])

Next ==
  \/ Unsupported
  \/ \E provider \in BOOLEAN : SearchKeywords(provider)
  \/ SearchVectors \/ Assess
  \/ ProviderFails \/ Malformed \/ Declines \/ Answers
  \/ Refresh \/ CutAgain

Spec == Init /\ [][Next]_vars

-----------------------------------------------------------------------------
(* Properties.                                                             *)

Searched == request.pc \in {"assess", "generate", "done"} /\ request.read # << >>

Gates == {"none", "NO_EVIDENCE", "LOW_RELEVANCE", "INSUFFICIENT_STRUCTURAL_SUPPORT",
          "INACTIVE_ONLY", "CONFLICTING_VERSIONS", "SUFFICIENT"}

Answered == {"ANSWERED", "INVALID_MODEL_OUTPUT", "PROVIDER_UNAVAILABLE"}

(* Rankings are of passages, none twice and as many as asked for at most;  *)
(* evidence is only used with a sufficient gate.                           *)
TypeOK ==
  /\ rows \subseteq Passages
  /\ status \in [Versions -> Statuses]
  /\ request.pc \in {"new", "embedding", "assess", "generate", "done"}
  /\ \A seq \in {request.keyword, request.semantic, request.results, request.evidence} :
       /\ In(seq) \subseteq Passages
       /\ Len(seq) = Cardinality(In(seq))
       /\ Len(seq) <= Pool
  /\ Len(request.results) <= Limit
  /\ request.read \in [DOMAIN request.read -> Statuses]
  /\ request.gate \in Gates
  /\ request.evidence # << >> => request.gate = "SUFFICIENT"

(* Reading only the passages that can still reach the first n, by counts   *)
(* of matched terms from the index, gives the n that reading all of them   *)
(* would give.                                                             *)
KeywordKeepsBest ==
  request.pc = "new" =>
    \A n \in 1..Cardinality(rows) :
      KeywordRows(query, rows, n) = Top(n, ByScore(query, Matched(query, rows)))

Ahead(seq, p, r) ==
  r \in In(seq) => p \in In(seq) /\ Position(seq, p) < Position(seq, r)

TakenBefore(p, r) ==
  \E x \in In(request.results) :
    /\ x = p \/ (SamePlace(x, p) /\ VersionOf[x] # VersionOf[p])
    /\ Position(request.results, x) < Position(request.results, r)

(* Where both searches agree, so does the fused ranking: what each that    *)
(* found r has ahead of r is used before r, or its other version is.       *)
AgreedFirst ==
  Searched =>
    \A r \in In(request.results), p \in In(request.keyword) \cup In(request.semantic) :
      p # r /\ Ahead(request.keyword, p, r) /\ Ahead(request.semantic, p, r)
        => TakenBefore(p, r)

(* A document held twice does not take two of the few places, and nothing  *)
(* but the second version gives way: all parts of a long clause are kept.  *)
OneVersionPerPlace ==
  Searched =>
    LET found == In(request.keyword) \cup In(request.semantic)
    IN  /\ \A p, r \in In(request.results) : SamePlace(p, r) => VersionOf[p] = VersionOf[r]
        /\ Cardinality(found) <= Pool /\ Len(request.results) < Limit =>
             \A p \in found \ In(request.results) :
               \E r \in In(request.results) : SamePlace(p, r) /\ VersionOf[p] # VersionOf[r]

(* What the searches hand to the gate.                                     *)
RankingIsRight == TypeOK /\ KeywordKeepsBest /\ AgreedFirst /\ OneVersionPerPlace

(* Every fact that reaches the user is found in a passage that is listed   *)
(* under a number the fact cites, and that the model was shown.            *)
CitesWhatItRead ==
  \A fact \in request.answer.facts :
    \E n \in fact.cites \cap DOMAIN request.answer.citations :
      /\ request.answer.citations[n] \in In(request.evidence)
      /\ TextOf[request.answer.citations[n]] = fact.says

(* What an answer cites was not ended both when the question came and when *)
(* it was answered, though statuses change between the two searches; nor   *)
(* did two cited versions of a document contradict each other all along.   *)
CurrentLaw ==
  request.answer.status \in Answered =>
    \A p, r \in In(request.answer.citations) :
      LET v == VersionOf[p]
          w == VersionOf[r]
      IN  /\ {request.atFirst[v], status[v]} \cap (Current \cup Unresolved) # {}
          /\ DocumentOf[v] = DocumentOf[w] =>
               \E now \in {request.atFirst, status} :
                 now[v] = now[w] \/ {now[v], now[w]} \cap (Inactive \cup Unresolved) # {}

(* Whichever way an answer comes about, it warns of a cited document whose *)
(* status nobody has verified.                                             *)
CaveatShown ==
  request.answer.status \in Answered =>
    \A p \in In(request.answer.citations) :
      {request.atFirst[VersionOf[p]], status[VersionOf[p]]} \subseteq Unresolved =>
        request.answer.caveat

(* "Pages stay consistent with each other": a reader who turns the pages   *)
(* of GET /search meets no passage twice.                                  *)
PagesAgree ==
  request.pc = "new" =>
    \A k \in 1..Cardinality(rows) : \A j \in 0..k - 1 :
      In(Search(query, rows, j, 1)) \cap In(Search(query, rows, k, 1)) = {}
=============================================================================
