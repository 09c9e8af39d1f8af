----------------------------- MODULE Embedding ------------------------------
(***************************************************************************)
(* Embedding runs beside the processing queue: embed_pending_chunks of     *)
(* retrieval/embeddings.py on the passages Processing writes.              *)
(*                                                                         *)
(* A run walks the passage rows in the order of their random ids, a page   *)
(* at a time, and embeds those of a page that have no embedding, committing*)
(* each batch.  Meanwhile the processing queue replaces rows.  A row's     *)
(* text never changes, so its embedding is never stale; a batch fails as a *)
(* whole when one of its rows is gone (foreign key) or was embedded by     *)
(* another run (unique constraint).                                        *)
(*                                                                         *)
(* The order of ids is left open: rows that a run found at its start are   *)
(* all still ahead of it, rows made since may fall before or behind it.    *)
(***************************************************************************)
EXTENDS Processing

CONSTANTS
  Embedders,   \* runs of embed_corpus.py that may overlap
  PageSize,    \* SCAN_PAGE_SIZE
  BatchSize,   \* EMBEDDING_BATCH_SIZE
  EmbedLimit   \* --limit of embed_corpus.py

ASSUME EmbeddingAssumption == {PageSize, BatchSize, EmbedLimit} \subseteq Nat \ {0}

VARIABLE embedder
embVars == <<vars, embedder>>

Asleep == [pc |-> "off", owed |-> {}, passed |-> {}, todo |-> {}, room |-> 0,
           remaining |-> FALSE]

AllRows == UNION {RowsOf(v) : v \in Versions}

EmbInit == Init /\ embedder = [e \in Embedders |-> Asleep]

Smaller(m, n) == IF m < n THEN m ELSE n
Take(S, n) == {T \in SUBSET S : Cardinality(T) = Smaller(n, Cardinality(S))}

Leaves == UNCHANGED <<chunker, text, job, rows, blobs, worker>>

-----------------------------------------------------------------------------
BeginEmbedding(e) ==
  /\ embedder[e].pc = "off"
  /\ embedder' = [embedder EXCEPT ![e] =
       [Asleep EXCEPT !.pc = "scanning", !.owed = AllRows, !.room = EmbedLimit]]
  /\ UNCHANGED vars

(* The next pages of rows: all that is left, unless the page is full.      *)
Pages(e) ==
  {page \in SUBSET (AllRows \ embedder[e].passed) :
     /\ page # {}
     /\ Cardinality(page) <= PageSize
     /\ Cardinality(page) < PageSize =>
          embedder[e].owed \cap AllRows \subseteq embedder[e].passed \cup page}

(* Mutant: a page is left for later when there is no room for all of it.   *)
Pending_WholePage(e, page) ==
  Take(page \ vectors, IF Cardinality(page) <= embedder[e].room THEN PageSize ELSE 0)

(* Its rows without an embedding, as many as the run's limit has room for. *)
Pending(e, page) == Take(page \ vectors, embedder[e].room)

FetchPage(e) ==
  /\ embedder[e].pc = "scanning"
  /\ embedder[e].todo = {}
  /\ \E page \in Pages(e) : \E todo \in Pending(e, page) :
       embedder' = [embedder EXCEPT ![e].passed = @ \cup page,
                                    ![e].todo = todo,
                                    ![e].remaining = @ \/ page \ vectors # todo]
  /\ UNCHANGED vars

(* Mutant: the rest of the page is dropped with its first batch.           *)
Rest_Dropped(e, batch) == {}

Rest(e, batch) == embedder[e].todo \ batch

(* Insert and commit one batch ...                                         *)
EmbedBatch(e) ==
  /\ embedder[e].todo # {}
  /\ \E batch \in Take(embedder[e].todo, BatchSize) :
       /\ batch \subseteq AllRows \ vectors
       /\ vectors' = vectors \cup batch
       /\ embedder' = [embedder EXCEPT ![e].todo = Rest(e, batch),
                                       ![e].room = @ - Cardinality(batch)]
  /\ Leaves

(* ... or IntegrityError, which ends the run.                              *)
BatchFails(e) ==
  /\ embedder[e].todo # {}
  /\ \E batch \in Take(embedder[e].todo, BatchSize) :
       ~(batch \subseteq AllRows \ vectors)
  /\ embedder' = [embedder EXCEPT ![e] = Asleep]
  /\ UNCHANGED vars

(* A page comes back empty: the run is complete.                           *)
Scanned(e) ==
  /\ embedder[e].pc = "scanning"
  /\ embedder[e].todo = {}
  /\ embedder[e].owed \cap AllRows \subseteq embedder[e].passed

EndEmbedding(e) ==
  /\ Scanned(e)
  /\ embedder' = [embedder EXCEPT ![e] = Asleep]
  /\ UNCHANGED vars

EmbedderDies(e) ==
  /\ embedder[e].pc # "off"
  /\ embedder' = [embedder EXCEPT ![e] = Asleep]
  /\ UNCHANGED vars

(* Bound: rows are replaced as long as their generations can be told apart.*)
Bounded == \A w \in Workers : Save(w) => rows[worker[w].claim].made < MaxMade

(* The queue; a release ends the embedding runs too.                       *)
QueueMoves ==
  /\ \/ \E w \in Workers : Step(w) \/ Die(w)
     \/ \E v \in Versions : Ingest(v)
  /\ Bounded
  /\ UNCHANGED embedder

ReleaseAll ==
  /\ Release
  /\ embedder' = [e \in Embedders |-> Asleep]

EmbedStep(e) ==
  \/ BeginEmbedding(e) \/ FetchPage(e) \/ EmbedBatch(e) \/ BatchFails(e)
  \/ EndEmbedding(e)

EmbNext ==
  \/ QueueMoves
  \/ ReleaseAll
  \/ \E e \in Embedders : EmbedStep(e) \/ EmbedderDies(e)

EmbSpec == EmbInit /\ [][EmbNext]_embVars

-----------------------------------------------------------------------------
(* Properties.                                                             *)

(* A run that completes with "0 remaining" has left no row without an      *)
(* embedding of those it found at its start, whatever was replaced, made   *)
(* or embedded beside it.                                                  *)
CompleteMeansEmbedded ==
  \A e \in Embedders :
    Scanned(e) /\ ~embedder[e].remaining
      => embedder[e].owed \cap AllRows \subseteq vectors

(* "A passage whose text is unchanged keeps its embedding": those the      *)
(* queue saw when it began to replace rows go over to the new rows.        *)
UnchangedKeepVectors ==
  [][\A w \in Workers : \A q \in worker[w].reuse :
       LET v == q[1]
           now == <<v, rows[v].made, q[3]>>
       IN  rows'[v].of # NoText /\ rows'[v] # rows[v] /\ now' \in RowsOf(v)'
             => now' \in vectors']_embVars
=============================================================================
