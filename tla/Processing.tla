----------------------------- MODULE Processing -----------------------------
(***************************************************************************)
(* The processing queue: scripts/process_corpus.py over                    *)
(* document_processing/process.py, on PostgreSQL and the blob store.       *)
(*                                                                         *)
(* A worker is one run of the script.  It claims the oldest candidate      *)
(* version nobody holds (FOR UPDATE SKIP LOCKED), extracts its text or     *)
(* takes the stored one, puts the text in the blob store, replaces the     *)
(* version's passages, completes its job and commits, which releases the   *)
(* claim.  Runs may overlap, raise at any point, and be killed.            *)
(*                                                                         *)
(* A text stands for its hash, its blob key and the blob's bytes.  The     *)
(* passages of a text depend on it and on the chunker's edition.           *)
(***************************************************************************)
EXTENDS Naturals, FiniteSets

CONSTANTS
  Versions,     \* document versions: numbers in order of created_at
  Workers,      \* runs of process_corpus.py that may overlap
  Modes,        \* what runs are started for, a subset of AllModes
  Limit,        \* --limit
  Texts,        \* normalized texts
  OcrTexts,     \* those some page of which was read by OCR
  Holed,        \* those with a page OCR failed on
  Misnumbered,  \* those whose header names another document
  Reads,        \* the texts extraction may give for each version
  Passages,     \* texts of passages
  Split,        \* the passages of a text under each chunker edition
  MaxEdition,   \* bound: chunker editions
  MaxMade,      \* bound: generations of passage rows told apart
  NoText        \* a version that has no text

AllModes == {"pending", "retry", "all", "rechunk", "reocr", "listed"}

ASSUME ProcessingAssumption ==
  /\ IsFiniteSet(Versions)
  /\ Versions \subseteq Nat \ {0}
  /\ Modes \subseteq AllModes
  /\ Limit \in Nat \ {0}
  /\ MaxEdition \in Nat \ {0}
  /\ MaxMade \in Nat
  /\ Holed \subseteq OcrTexts /\ OcrTexts \subseteq Texts
  /\ NoText \notin Texts
  /\ Reads \in [Versions -> SUBSET Texts]
  /\ \A t \in Texts : \A e \in 1 .. MaxEdition : Split[t][e] \subseteq Passages

VARIABLES
  chunker,  \* CHUNKER_VERSION of the deployed image
  text,     \* normalized_content_hash and normalized_artifact_key
  job,      \* the version's processing job
  rows,     \* the version's passage rows: of which text, edition, generation
  vectors,  \* the passage rows that have an embedding
  blobs,    \* texts in the blob store
  worker    \* the runs

dbVars == <<text, job, rows, vectors>>
vars == <<chunker, dbVars, blobs, worker>>

NoRows == [of |-> NoText, edition |-> 0, made |-> 0]
NoJob == [status |-> "NONE", stage |-> "NONE", edition |-> 0, error |-> "NONE"]
Downloaded ==
  [status |-> "PENDING", stage |-> "DOWNLOADED", edition |-> 0, error |-> "NONE"]
Off == [pc |-> "off", mode |-> "pending", left |-> 0, tried |-> {},
        seen |-> {}, claim |-> 0, new |-> NoText, reuse |-> {}]

Stages == {"NONE", "DOWNLOADED", "EXTRACTION", "PROCESSING", "CHUNKED", "OCR_CHUNKED"}
Chunked == {"CHUNKED", "OCR_CHUNKED"}
Failures == {"OCR_REQUIRED", "UNREADABLE"}
Errors == Failures \cup {"NONE", "PROCESSING_ERROR", "OCR_PAGES_FAILED", "MISMATCH"}

Init ==
  /\ chunker = 1
  /\ text = [v \in Versions |-> NoText]
  /\ job = [v \in Versions |-> NoJob]
  /\ rows = [v \in Versions |-> NoRows]
  /\ vectors = {}
  /\ blobs = {}
  /\ worker = [w \in Workers |-> Off]

Ingested == {v \in Versions : job[v] # NoJob}
HasFailed(v) == job[v].status = "FAILED"

(* The passage rows of a version.                                          *)
PassagesIn(r, v) ==
  IF r.of = NoText THEN {}
  ELSE {<<v, r.made, p>> : p \in Split[r.of][r.edition]}
RowsOf(v) == PassagesIn(rows[v], v)
VectorsOf(v) == vectors \cap RowsOf(v)

-----------------------------------------------------------------------------
(* The queries that choose versions.                                       *)

(* Their part about the version's own row ...                              *)
RowMatches(mode, v) ==
  CASE mode \in {"pending", "retry"} -> text[v] = NoText
    [] mode = "rechunk" -> text[v] # NoText
    [] OTHER -> TRUE

(* ... and their part about its job.                                       *)
JobMatches(mode, v) ==
  CASE mode \in {"pending", "all"} -> ~HasFailed(v)
    [] mode = "rechunk" -> job[v].edition # chunker
    [] mode = "reocr" -> job[v].stage = "OCR_CHUNKED" \/ job[v].error = "OCR_REQUIRED"
    [] OTHER -> TRUE

Candidates(mode) ==
  {v \in Ingested : RowMatches(mode, v) /\ JobMatches(mode, v)}

Reextract(mode) == mode \in {"reocr", "listed"}
Forced(mode) == Reextract(mode) \/ mode \in {"all", "rechunk"}

-----------------------------------------------------------------------------
(* The run's loop.                                                         *)

Atmost(n) == IF n < Limit THEN n ELSE Limit

StartRun(w, m) ==
  /\ worker[w].pc = "off"
  /\ worker' = [worker EXCEPT ![w] =
       [Off EXCEPT !.pc = "picking", !.mode = m,
                   !.left = Atmost(Cardinality(Candidates(m)))]]
  /\ UNCHANGED <<chunker, dbVars, blobs>>

EndRun(w) ==
  /\ worker[w].pc = "picking"
  /\ worker[w].left = 0
  /\ worker' = [worker EXCEPT ![w] = Off]
  /\ UNCHANGED <<chunker, dbVars, blobs>>

(* The SELECT takes its snapshot ...                                       *)
Query(w) ==
  /\ worker[w].pc = "picking"
  /\ worker[w].left > 0
  /\ worker' = [worker EXCEPT ![w].pc = "locking",
                              ![w].seen = Candidates(worker[w].mode) \ worker[w].tried]
  /\ UNCHANGED <<chunker, dbVars, blobs>>

(* Mutant: a row lock that does not exclude other workers.                 *)
Held_None == {}

Held == {worker[u].claim : u \in {x \in Workers : worker[x].pc \in {"working", "saving"}}}

(* ... and locks the first row of it that is free.  A row changed since is *)
(* checked again, in its own columns only (READ COMMITTED): the job        *)
(* condition keeps the answer of the snapshot.                             *)
Free(w) == {v \in worker[w].seen : v \notin Held /\ RowMatches(worker[w].mode, v)}

Claim(w) ==
  /\ worker[w].pc = "locking"
  /\ \/ /\ Free(w) = {}
        /\ worker' = [worker EXCEPT ![w] = Off]
     \/ \E v \in Free(w) :
          /\ \A u \in Free(w) : v <= u
          /\ worker' = [worker EXCEPT ![w].pc = "working",
                                      ![w].seen = {},
                                      ![w].claim = v,
                                      ![w].tried = @ \cup {v}]
  /\ UNCHANGED <<chunker, dbVars, blobs>>

(* The version is dealt with: on to the next.                              *)
Released(w) == [worker[w] EXCEPT !.pc = "picking", !.left = @ - 1,
                                 !.claim = 0, !.new = NoText, !.reuse = {}]

-----------------------------------------------------------------------------
(* process_document_version.  Its UNCHANGED return is not modelled: it     *)
(* needs a version that has text under a mode without force, which no      *)
(* query hands over.                                                       *)

(* Mutant: the stored text is never looked for.                            *)
FromStored_Never(w) == worker[w].left < 0

(* Forced without re-extraction: the stored text is chunked again.         *)
FromStored(w) ==
  /\ Forced(worker[w].mode)
  /\ ~Reextract(worker[w].mode)
  /\ text[worker[w].claim] \in blobs

Rechunk(w) ==
  /\ worker[w].pc = "working"
  /\ FromStored(w)
  /\ worker' = [worker EXCEPT ![w].pc = "saving",
                              ![w].new = text[worker[w].claim],
                              ![w].reuse = VectorsOf(worker[w].claim)]
  /\ UNCHANGED <<chunker, dbVars, blobs>>

Put(t) == blobs \cup {t}

(* Extraction gives text t, which is in the blob store before the commit.  *)
Extract(w) ==
  /\ worker[w].pc = "working"
  /\ ~FromStored(w)
  /\ \E t \in Reads[worker[w].claim] :
       /\ blobs' = Put(t)
       /\ worker' = [worker EXCEPT ![w].pc = "saving",
                                   ![w].new = t,
                                   ![w].reuse = VectorsOf(worker[w].claim)]
  /\ UNCHANGED <<chunker, dbVars>>

(* Mutant: the failed version keeps its COMPLETED job.                     *)
Failing_Status(v, stage, error) ==
  [job[v] EXCEPT !.stage = stage, !.edition = 0, !.error = error]

Failing(v, stage, error) ==
  [status |-> "FAILED", stage |-> stage, edition |-> 0, error |-> error]

(* _record_failure: the raw file cannot be fetched or read.  The passages  *)
(* and the text the version had are given up.                              *)
ExtractionFails(w) ==
  LET v == worker[w].claim
  IN  /\ worker[w].pc = "working"
      /\ ~FromStored(w)
      /\ \E e \in Failures : job' = [job EXCEPT ![v] = Failing(v, "EXTRACTION", e)]
      /\ text' = [text EXCEPT ![v] = NoText]
      /\ rows' = [rows EXCEPT ![v] = [NoRows EXCEPT !.made = rows[v].made]]
      /\ vectors' = vectors \ RowsOf(v)
      /\ worker' = [worker EXCEPT ![w] = Released(w)]
      /\ UNCHANGED <<chunker, blobs>>

(* _complete_job's stage: extraction names it anew, re-chunking keeps a    *)
(* chunked one.                                                            *)
StageAfter(w) ==
  LET old == job[worker[w].claim].stage
  IN  CASE FromStored(w) -> IF old \in Chunked THEN old ELSE "CHUNKED"
        [] ~FromStored(w) ->
             IF worker[w].new \in OcrTexts THEN "OCR_CHUNKED" ELSE "CHUNKED"

FlagAfter(w) ==
  CASE worker[w].new \in Misnumbered -> "MISMATCH"
    [] worker[w].new \in Holed \ Misnumbered /\ ~FromStored(w) -> "OCR_PAGES_FAILED"
    [] OTHER -> "NONE"

(* Fresh row ids; MaxMade only bounds how many generations are told apart. *)
NewRows(w) ==
  LET made == rows[worker[w].claim].made
  IN  [of |-> worker[w].new, edition |-> chunker,
       made |-> IF made < MaxMade THEN made + 1 ELSE made]

(* Mutant: embeddings are looked up by passage row, not by text.           *)
Kept_ByRow(w) == PassagesIn(NewRows(w), worker[w].claim) \cap worker[w].reuse

(* The new rows whose text had an embedding when the rows were read.       *)
Kept(w) ==
  {q \in PassagesIn(NewRows(w), worker[w].claim) :
     \E r \in worker[w].reuse : r[3] = q[3]}

(* _replace_chunks passes the embedding of a passage with the same text    *)
(* on, _complete_job completes the job, and everything is committed.       *)
Save(w) ==
  LET v == worker[w].claim
  IN  /\ worker[w].pc = "saving"
      /\ text' = [text EXCEPT ![v] = worker[w].new]
      /\ rows' = [rows EXCEPT ![v] = NewRows(w)]
      /\ vectors' = (vectors \ RowsOf(v)) \cup Kept(w)
      /\ job' = [job EXCEPT ![v] =
           [status |-> "COMPLETED", stage |-> StageAfter(w),
            edition |-> chunker, error |-> FlagAfter(w)]]
      /\ worker' = [worker EXCEPT ![w] = Released(w)]
      /\ UNCHANGED <<chunker, blobs>>

(* Anything raises: the transaction is rolled back, its locks are gone ... *)
Raise(w) ==
  /\ worker[w].pc \in {"working", "saving"}
  /\ worker' = [worker EXCEPT ![w].pc = "failing", ![w].new = NoText, ![w].reuse = {}]
  /\ UNCHANGED <<chunker, dbVars, blobs>>

(* ... and mark_processing_failed records it, holding no lock.             *)
MarkFailed(w) ==
  LET v == worker[w].claim
  IN  /\ worker[w].pc = "failing"
      /\ job' = [job EXCEPT ![v] = Failing(v, "PROCESSING", "PROCESSING_ERROR")]
      /\ worker' = [worker EXCEPT ![w] = Released(w)]
      /\ UNCHANGED <<chunker, text, rows, vectors, blobs>>

-----------------------------------------------------------------------------
(* The world around the runs.                                              *)

(* Killed: time limit, memory, restart, or a database out of reach.        *)
Die(w) ==
  /\ worker[w].pc # "off"
  /\ worker' = [worker EXCEPT ![w] = Off]
  /\ UNCHANGED <<chunker, dbVars, blobs>>

(* A release with a newer chunker restarts the API, which ends all runs.   *)
Release ==
  /\ chunker < MaxEdition
  /\ chunker' = chunker + 1
  /\ worker' = [w \in Workers |-> Off]
  /\ UNCHANGED <<dbVars, blobs>>

(* ingest_seed_document commits a new version and its job.                 *)
Ingest(v) ==
  /\ v \notin Ingested
  /\ \A u \in Versions : u < v => u \in Ingested
  /\ job' = [job EXCEPT ![v] = Downloaded]
  /\ UNCHANGED <<chunker, text, rows, vectors, blobs, worker>>

Finish(w) == ExtractionFails(w) \/ Save(w) \/ MarkFailed(w)

Step(w) ==
  \/ \E m \in Modes : StartRun(w, m)
  \/ EndRun(w) \/ Query(w) \/ Claim(w)
  \/ Rechunk(w) \/ Extract(w) \/ Raise(w) \/ Finish(w)

Next ==
  \/ \E w \in Workers : Step(w) \/ Die(w)
  \/ \E v \in Versions : Ingest(v)
  \/ Release

Spec == Init /\ [][Next]_vars

-----------------------------------------------------------------------------
(* Properties.                                                             *)

(* A stored key never dangles: whatever is killed or rolled back between   *)
(* the blob store and the commit, a version's text is in the blob store.   *)
TextIsStored == \A v \in Versions : text[v] # NoText => text[v] \in blobs

(* The passages shown are those of the version's text, and a job that says *)
(* CHUNKED:vN is right about the edition that cut them.                    *)
PassagesAgree ==
  \A v \in Versions :
    /\ rows[v].of = text[v]
    /\ job[v].stage \in Chunked => job[v].edition = rows[v].edition

(* No version drops out of sight: one reported COMPLETED has text to find, *)
(* one still queued has none, so that any other without text is FAILED.    *)
NothingDropsOut ==
  \A v \in Versions :
    /\ job[v].status = "COMPLETED" => text[v] # NoText
    /\ job[v].status = "PENDING" => text[v] = NoText

(* A text once stored is touched only by a run asked to extract again.     *)
TextStands ==
  [][\A v \in Versions :
       text[v] # NoText /\ text'[v] # text[v] =>
         \E w \in Workers : worker[w].claim = v /\ Reextract(worker[w].mode)]_vars

(* What a run read before its commit still holds at the commit: nobody     *)
(* replaced the text it is about to chunk again.                           *)
RechunkIsCurrent ==
  \A w \in Workers :
    worker[w].pc = "saving" /\ FromStored(w) => worker[w].new = text[worker[w].claim]

(* The corpus the runs leave behind, wherever they were cut off: every     *)
(* passage, text and job record is there and says the same.                *)
NothingIsMissing == TextIsStored /\ NothingDropsOut
NothingIsStale == PassagesAgree /\ RechunkIsCurrent

(* docs/retrieval.md: "A page over 240 s is left empty and recorded as     *)
(* OCR_PAGES_FAILED" (unless its number mismatch is recorded instead).     *)
HolesAreRecorded ==
  \A v \in Versions :
    text[v] \in Holed \ Misnumbered /\ job[v].status = "COMPLETED"
      => job[v].error = "OCR_PAGES_FAILED"
=============================================================================
