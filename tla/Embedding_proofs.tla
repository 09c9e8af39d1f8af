-------------------------- MODULE Embedding_proofs --------------------------
(***************************************************************************)
(* Proofs about Processing and Embedding, for any number of versions,      *)
(* overlapping runs and releases: stored texts never dangle, passages and  *)
(* job agree with the text, no version drops out of sight, finished text   *)
(* stands, and an embedding run that completes has left no passage it      *)
(* found without its embedding.                                            *)
(***************************************************************************)
EXTENDS Embedding, FiniteSetTheorems, TLAPS

Phases == {"off", "picking", "locking", "working", "saving", "failing"}
Locking == {"working", "saving"}
Busy == Locking \cup {"failing"}

RowIds == Versions \X Nat \X Passages
Run == [pc : Phases, mode : AllModes, left : Int, tried : SUBSET Versions,
        seen : SUBSET Versions, claim : Versions \cup {0},
        new : Texts \cup {NoText}, reuse : SUBSET RowIds]

StoredTyped ==
  /\ chunker \in 1 .. MaxEdition
  /\ text \in [Versions -> Texts \cup {NoText}]
  /\ job \in [Versions -> [status : {"NONE", "PENDING", "COMPLETED", "FAILED"},
                           stage : Stages, edition : Nat, error : Errors]]
  /\ rows \in [Versions -> [of : Texts \cup {NoText}, edition : Nat, made : Nat]]
  /\ \A v \in Versions : rows[v].of # NoText => rows[v].edition \in 1 .. MaxEdition
  /\ vectors \subseteq RowIds
  /\ blobs \subseteq Texts

(* What is known of run r when texts are tx and the blobs bl: a busy run   *)
(* has a version, and one that is not forced holds a version without text; *)
(* a saving run has a text that is in the blob store and, if it chunks     *)
(* again, is still current.                                                *)
SoundIn(r, tx, bl) ==
  /\ r.pc \in Busy => r.claim \in Versions
  /\ r.pc \in Locking /\ ~Forced(r.mode) => tx[r.claim] = NoText
  /\ r.pc = "saving" => r.new \in bl
  /\ ( /\ r.pc = "saving"
       /\ Forced(r.mode) /\ ~Reextract(r.mode)
       /\ tx[r.claim] \in bl ) => r.new = tx[r.claim]

Sound(r) == SoundIn(r, text, blobs)

(* Row locks: two runs never hold one version.                             *)
Exclusive ==
  \A u, w \in Workers :
    /\ worker[u].pc \in Locking /\ worker[w].pc \in Locking
    /\ worker[u].claim = worker[w].claim
    => u = w

(* A version without a job has just been added: nobody worked on it.       *)
NewIsEmpty == \A v \in Versions : job[v].status = "NONE" => text[v] = NoText

StoredInv == StoredTyped /\ NewIsEmpty /\ TextIsStored /\ PassagesAgree /\ NothingDropsOut
RunsInv ==
  /\ worker \in [Workers -> Run]
  /\ \A w \in Workers : Sound(worker[w])
  /\ Exclusive

ProcessingInv == StoredInv /\ RunsInv

(* A run that has ended knows nothing; so does one that looks for a        *)
(* version.                                                                *)
LEMMA OffIsRun == Off \in Run /\ Off.pc = "off"
BY DEF Off, Run, Phases, AllModes

LEMMA IdleIsSound ==
  ASSUME NEW r, NEW tx, NEW bl, r.pc \notin Busy
  PROVE  SoundIn(r, tx, bl) /\ r.pc \notin Locking
BY DEF SoundIn, Busy, Locking

(* The invariant holds initially.                                          *)
LEMMA ProcessingInit == Init => ProcessingInv
<1> SUFFICES ASSUME Init
             PROVE  ProcessingInv
  OBVIOUS
<1>1. StoredInv
  BY ProcessingAssumption
     DEF Init, StoredInv, StoredTyped, NewIsEmpty, TextIsStored, PassagesAgree, NothingDropsOut,
         NoRows, NoJob, Stages, Errors, Failures, Chunked
<1>2. RunsInv
  <2>1. Off.pc \notin Busy
    BY OffIsRun DEF Busy, Locking
  <2>. QED
    BY <2>1, OffIsRun, IdleIsSound DEF Init, RunsInv, Exclusive, Sound
<1>. QED
  BY <1>1, <1>2 DEF ProcessingInv

-----------------------------------------------------------------------------
(* A step of run w to record r: r must be sound and, if it locks a         *)
(* version, the only one to; what the others know must still hold.         *)
LEMMA RunMoves ==
  ASSUME RunsInv, NEW w \in Workers, NEW r \in Run,
         worker' = [worker EXCEPT ![w] = r],
         SoundIn(r, text', blobs'),
         \A u \in Workers \ {w} : SoundIn(worker[u], text', blobs'),
         r.pc \in Locking => \A u \in Workers \ {w} :
           worker[u].pc \in Locking => worker[u].claim # r.claim
  PROVE  RunsInv'
<1>1. worker' \in [Workers -> Run]
  BY DEF RunsInv
<1>2. worker'[w] = r /\ \A u \in Workers \ {w} : worker'[u] = worker[u]
  BY DEF RunsInv
<1>3. \A u \in Workers : SoundIn(worker'[u], text', blobs')
  BY <1>2
<1>4. Exclusive'
  BY <1>2 DEF RunsInv, Exclusive
<1>. QED
  BY <1>1, <1>3, <1>4 DEF RunsInv, Sound

(* A run that stops being busy: the others need only know what they knew.  *)
LEMMA RunLetsGo ==
  ASSUME RunsInv, NEW w \in Workers, NEW r \in Run, r.pc \notin Busy,
         worker' = [worker EXCEPT ![w] = r],
         \A u \in Workers \ {w} : SoundIn(worker[u], text', blobs')
  PROVE  RunsInv'
BY RunMoves, IdleIsSound

(* Another run's text is put in the blob store: nobody's text was missing  *)
(* there, so nobody finds one there it did not find before.                *)
LEMMA PutIsSound ==
  ASSUME ProcessingInv, NEW u \in Workers, NEW bl \in SUBSET Texts, blobs \subseteq bl
  PROVE  SoundIn(worker[u], text, bl)
<1>1. SoundIn(worker[u], text, blobs)
  BY DEF ProcessingInv, RunsInv, Sound
<1>2. ASSUME worker[u].pc = "saving", text[worker[u].claim] \in bl
      PROVE  text[worker[u].claim] \in blobs
  <2>1. worker[u].claim \in Versions
    BY <1>1, <1>2 DEF SoundIn, Busy, Locking
  <2>. QED
    BY <1>2, <2>1, ProcessingAssumption DEF ProcessingInv, StoredInv, TextIsStored
<1>. QED
  BY <1>1, <1>2 DEF SoundIn

(* The text of a version w holds changes: no other run is saving it.       *)
LEMMA TextIsSound ==
  ASSUME ProcessingInv, NEW w \in Workers, worker[w].pc \in Locking,
         NEW t, text' = [text EXCEPT ![worker[w].claim] = t],
         NEW u \in Workers \ {w}
  PROVE  SoundIn(worker[u], text', blobs)
<1>1. SoundIn(worker[u], text, blobs)
  BY DEF ProcessingInv, RunsInv, Sound
<1>2. ASSUME worker[u].pc \in Locking
      PROVE  worker[u].claim \in Versions /\ worker[u].claim # worker[w].claim
  BY <1>1, <1>2 DEF SoundIn, Busy, Locking, ProcessingInv, RunsInv, Exclusive
<1>3. worker[u].pc \in Locking => text'[worker[u].claim] = text[worker[u].claim]
  BY <1>2 DEF ProcessingInv, StoredInv, StoredTyped
<1>. QED
  BY <1>1, <1>3 DEF SoundIn, Locking

-----------------------------------------------------------------------------
(* The steps.  Those of a run that leave the database alone keep StoredInv.*)
LEMMA StoredUnchanged ==
  ASSUME StoredInv, UNCHANGED <<chunker, dbVars, blobs>>
  PROVE  StoredInv'
BY DEF dbVars, StoredInv, StoredTyped, TextIsStored, PassagesAgree, NothingDropsOut,
   NewIsEmpty

(* Looking for a version, and ending.                                      *)
LEMMA LookingKeeps ==
  ASSUME ProcessingInv, NEW w \in Workers,
         \/ \E m \in Modes : StartRun(w, m)
         \/ EndRun(w) \/ Query(w) \/ Die(w)
  PROVE  ProcessingInv'
<1>0. /\ UNCHANGED <<chunker, dbVars, blobs>>
      /\ UNCHANGED <<text, blobs>>
  BY DEF StartRun, EndRun, Query, Die, dbVars
<1>1. \A u \in Workers : SoundIn(worker[u], text', blobs')
  BY <1>0 DEF ProcessingInv, RunsInv, Sound
<1>2. worker[w] \in Run
  BY DEF ProcessingInv, RunsInv
<1>3. \E r \in Run : r.pc \notin Busy /\ worker' = [worker EXCEPT ![w] = r]
  <2>1. CASE EndRun(w) \/ Die(w)
    BY <2>1, OffIsRun DEF EndRun, Die, Busy, Locking
  <2>2. CASE Query(w)
    <3>1. Candidates(worker[w].mode) \ worker[w].tried \subseteq Versions
      BY DEF Candidates, Ingested
    <3>. DEFINE r == [worker[w] EXCEPT !.pc = "locking",
                        !.seen = Candidates(worker[w].mode) \ worker[w].tried]
    <3>2. r \in Run /\ r.pc = "locking"
      BY <1>2, <3>1 DEF Run, Phases
    <3>3. worker' = [worker EXCEPT ![w] = r]
      BY <2>2 DEF Query
    <3>. QED
      BY <3>2, <3>3 DEF Busy, Locking
  <2>3. ASSUME NEW m \in Modes, StartRun(w, m)
        PROVE  \E r \in Run : r.pc \notin Busy /\ worker' = [worker EXCEPT ![w] = r]
    <3>1. Cardinality(Candidates(m)) \in Nat
      <4>1. Candidates(m) \subseteq Versions
        BY DEF Candidates, Ingested
      <4>. QED
        BY <4>1, FS_Subset, FS_CardinalityType, ProcessingAssumption
    <3>. DEFINE r == [Off EXCEPT !.pc = "picking", !.mode = m,
                        !.left = Atmost(Cardinality(Candidates(m)))]
    <3>2. Atmost(Cardinality(Candidates(m))) \in Int
      BY <3>1, ProcessingAssumption DEF Atmost
    <3>3. r \in Run /\ r.pc = "picking"
      BY <3>2, OffIsRun, ProcessingAssumption DEF Run, Phases
    <3>4. worker' = [worker EXCEPT ![w] = r]
      BY <2>3 DEF StartRun
    <3>. QED
      BY <3>3, <3>4 DEF Busy, Locking
  <2>. QED
    BY <2>1, <2>2, <2>3
<1>4. RunsInv'
  BY <1>1, <1>3, RunLetsGo DEF ProcessingInv
<1>. QED
  BY <1>0, <1>4, StoredUnchanged DEF ProcessingInv

(* Claiming the oldest free version, if there is one.                      *)
LEMMA ClaimKeeps ==
  ASSUME ProcessingInv, NEW w \in Workers, Claim(w)
  PROVE  ProcessingInv'
<1>0. /\ UNCHANGED <<chunker, dbVars, blobs>>
      /\ UNCHANGED <<text, blobs>>
  BY DEF Claim, dbVars
<1>1. \A u \in Workers : SoundIn(worker[u], text', blobs')
  BY <1>0 DEF ProcessingInv, RunsInv, Sound
<1>2. worker[w] \in Run
  BY DEF ProcessingInv, RunsInv
<1>3. ASSUME worker' = [worker EXCEPT ![w] = Off]
      PROVE  RunsInv'
  <2>1. Off.pc \notin Busy
    BY OffIsRun DEF Busy, Locking
  <2>. QED
    BY <1>1, <1>3, <2>1, OffIsRun, RunLetsGo DEF ProcessingInv
<1>4. ASSUME NEW v \in Free(w),
             worker' = [worker EXCEPT ![w].pc = "working", ![w].seen = {},
                                      ![w].claim = v, ![w].tried = @ \cup {v}]
      PROVE  RunsInv'
  <2>. DEFINE r == [worker[w] EXCEPT !.pc = "working", !.seen = {}, !.claim = v,
                                     !.tried = @ \cup {v}]
  <2>3. v \in Versions /\ v \notin Held
    BY <1>2 DEF Free, Run
  <2>4. r \in Run /\ r.pc = "working" /\ r.claim = v /\ r.mode = worker[w].mode
    BY <1>2, <2>3 DEF Run, Phases
  <2>5. worker' = [worker EXCEPT ![w] = r]
    BY <1>4, <1>2
  <2>6. SoundIn(r, text', blobs')
    <3>1. ~Forced(worker[w].mode) => text[v] = NoText
      BY <1>2 DEF Forced, Reextract, Free, RowMatches, Run, AllModes
    <3>. QED
      BY <1>0, <2>3, <2>4, <3>1 DEF SoundIn
  <2>7. \A u \in Workers \ {w} : worker[u].pc \in Locking => worker[u].claim # v
    BY <2>3 DEF Held, Locking
  <2>. HIDE DEF r
  <2>. QED
    BY <1>1, <2>4, <2>5, <2>6, <2>7, RunMoves DEF ProcessingInv
<1>5. RunsInv'
  BY <1>3, <1>4, Zenon DEF Claim
<1>. QED
  BY <1>0, <1>5, StoredUnchanged DEF ProcessingInv

(* Between the claim and the commit, and when either is lost.              *)
LEMMA WorkKeeps ==
  ASSUME ProcessingInv, NEW w \in Workers, Rechunk(w) \/ Extract(w) \/ Raise(w)
  PROVE  ProcessingInv'
<1>. DEFINE c == worker[w].claim
<1>1. worker[w] \in Run /\ worker[w].pc \in Locking
  BY DEF ProcessingInv, RunsInv, Rechunk, Extract, Raise, Locking
<1>2. c \in Versions
  BY <1>1 DEF ProcessingInv, RunsInv, Sound, SoundIn, Busy
<1>3. \A u \in Workers \ {w} :
        worker[u].pc \in Locking => worker[u].claim # c
  BY <1>1 DEF ProcessingInv, RunsInv, Exclusive
<1>4. VectorsOf(c) \in SUBSET RowIds /\ text[c] \in Texts \cup {NoText}
  BY <1>2 DEF VectorsOf, ProcessingInv, StoredInv, StoredTyped
<1>5. ASSUME NEW t \in Texts, t \in blobs', blobs \subseteq blobs', blobs' \subseteq Texts,
             UNCHANGED <<chunker, dbVars>>,
             worker' = [worker EXCEPT ![w].pc = "saving", ![w].new = t,
                                      ![w].reuse = VectorsOf(c)],
             ( /\ Forced(worker[w].mode) /\ ~Reextract(worker[w].mode)
               /\ text[c] \in blobs' ) => t = text[c]
      PROVE  ProcessingInv'
  <2>. DEFINE r == [worker[w] EXCEPT !.pc = "saving", !.new = t, !.reuse = VectorsOf(c)]
  <2>1. worker' = [worker EXCEPT ![w] = r]
    BY <1>5, <1>1
  <2>2. r \in Run /\ r.pc = "saving" /\ r.claim = c /\ r.new = t
        /\ r.mode = worker[w].mode
    BY <1>1, <1>4 DEF Run, Phases
  <2>3. text' = text
    BY <1>5 DEF dbVars
  <2>4. SoundIn(r, text', blobs')
    <3>1. ~Forced(worker[w].mode) => text[c] = NoText
      BY <1>1 DEF ProcessingInv, RunsInv, Sound, SoundIn
    <3>. QED
      BY <1>2, <1>5, <2>2, <2>3, <3>1 DEF SoundIn
  <2>. HIDE DEF r, c
  <2>5. RunsInv'
    BY <1>3, <1>5, <2>1, <2>2, <2>3, <2>4, PutIsSound, RunMoves DEF ProcessingInv
  <2>6. StoredInv'
    BY <1>5 DEF ProcessingInv, StoredInv, StoredTyped, TextIsStored, PassagesAgree,
                NothingDropsOut, NewIsEmpty, dbVars
  <2>. QED
    BY <2>5, <2>6 DEF ProcessingInv
<1>6. CASE Rechunk(w)
  <2>1. text[c] \in blobs /\ blobs' = blobs /\ UNCHANGED <<chunker, dbVars>>
    BY <1>6 DEF Rechunk, FromStored
  <2>2. text[c] \in Texts /\ blobs \subseteq Texts
    BY <2>1 DEF ProcessingInv, StoredInv, StoredTyped
  <2>3. worker' = [worker EXCEPT ![w].pc = "saving", ![w].new = text[c],
                                 ![w].reuse = VectorsOf(c)]
    BY <1>6 DEF Rechunk
  <2>4. text[c] \in blobs' /\ blobs \subseteq blobs' /\ blobs' \subseteq Texts
    BY <2>1, <2>2
  <2>. HIDE DEF c
  <2>. QED
    BY <1>5, <2>1, <2>2, <2>3, <2>4, Zenon
<1>7. CASE Extract(w)
  <2>1. PICK t \in Reads[c] :
          /\ blobs' = blobs \cup {t}
          /\ worker' = [worker EXCEPT ![w].pc = "saving", ![w].new = t,
                                      ![w].reuse = VectorsOf(c)]
    BY <1>7 DEF Extract, Put
  <2>2. t \in Texts
    BY <1>2, ProcessingAssumption
  <2>3. blobs \subseteq Texts
    BY DEF ProcessingInv, StoredInv, StoredTyped
  <2>4. ~( /\ Forced(worker[w].mode) /\ ~Reextract(worker[w].mode)
           /\ text[c] \in blobs')
    <3>1. ASSUME text[c] \in blobs' PROVE text[c] \in blobs
      BY <1>2, <1>4, <2>1, <2>2, <2>3, <3>1, ProcessingAssumption
         DEF ProcessingInv, StoredInv, TextIsStored
    <3>. QED
      BY <1>7, <3>1 DEF Extract, FromStored
  <2>5. t \in blobs' /\ blobs \subseteq blobs' /\ blobs' \subseteq Texts
    BY <2>1, <2>2, <2>3
  <2>6. UNCHANGED <<chunker, dbVars>>
    BY <1>7 DEF Extract
  <2>7. worker' = [worker EXCEPT ![w].pc = "saving", ![w].new = t,
                                 ![w].reuse = VectorsOf(c)]
    BY <2>1
  <2>. HIDE DEF c
  <2>. QED
    BY <1>5, <2>2, <2>4, <2>5, <2>6, <2>7, Zenon
<1>8. CASE Raise(w)
  <2>. DEFINE r == [worker[w] EXCEPT !.pc = "failing", !.new = NoText, !.reuse = {}]
  <2>1. worker' = [worker EXCEPT ![w] = r]
    BY <1>8, <1>1 DEF Raise
  <2>2. r \in Run /\ r.pc = "failing" /\ r.claim = c
    BY <1>1 DEF Run, Phases
  <2>3. UNCHANGED <<chunker, dbVars, blobs>> /\ UNCHANGED <<text, blobs>>
    BY <1>8 DEF Raise, dbVars
  <2>4. SoundIn(r, text', blobs') /\ r.pc \notin Locking
    BY <1>2, <2>2 DEF SoundIn, Locking
  <2>5. \A u \in Workers : SoundIn(worker[u], text', blobs')
    BY <2>3 DEF ProcessingInv, RunsInv, Sound
  <2>. HIDE DEF r
  <2>6. RunsInv'
    BY <2>1, <2>2, <2>4, <2>5, RunMoves DEF ProcessingInv
  <2>. QED
    BY <2>3, <2>6, StoredUnchanged DEF ProcessingInv
<1>. QED
  BY <1>6, <1>7, <1>8

(* A run done with its version is a run that looks for the next.           *)
LEMMA ReleasedIsRun ==
  ASSUME RunsInv, NEW w \in Workers
  PROVE  Released(w) \in Run /\ Released(w).pc = "picking"
         /\ Released(w).pc \notin Busy
<1>1. worker[w] \in Run
  BY DEF RunsInv
<1>2. worker[w].left - 1 \in Int
  BY <1>1 DEF Run
<1>. DEFINE r == Released(w)
<1>3. r \in Run /\ r.pc = "picking"
  BY <1>1, <1>2 DEF Released, Run, Phases
<1>. QED
  BY <1>3 DEF Busy, Locking

(* The commit.                                                             *)
LEMMA SaveKeeps ==
  ASSUME ProcessingInv, NEW w \in Workers, Save(w)
  PROVE  ProcessingInv'
<1>. DEFINE c == worker[w].claim
            t == worker[w].new
            j == [status |-> "COMPLETED", stage |-> StageAfter(w),
                  edition |-> chunker, error |-> FlagAfter(w)]
<1>0. /\ worker[w].pc = "saving"
      /\ text' = [text EXCEPT ![c] = t]
      /\ rows' = [rows EXCEPT ![c] = NewRows(w)]
      /\ vectors' = (vectors \ RowsOf(c)) \cup Kept(w)
      /\ job' = [job EXCEPT ![c] = j]
      /\ worker' = [worker EXCEPT ![w] = Released(w)]
      /\ UNCHANGED <<chunker, blobs>>
  BY DEF Save
<1>1. c \in Versions /\ t \in blobs /\ worker[w].pc \in Locking /\ worker[w] \in Run
  BY <1>0 DEF ProcessingInv, RunsInv, Sound, SoundIn, Busy, Locking
<1>2. StoredTyped
  BY DEF ProcessingInv, StoredInv
<1>3. t \in Texts /\ t # NoText
  BY <1>1, <1>2, ProcessingAssumption DEF StoredTyped
<1>4. /\ NewRows(w) \in [of : Texts \cup {NoText}, edition : Nat, made : Nat]
      /\ NewRows(w).of = t /\ NewRows(w).edition = chunker
      /\ chunker \in 1 .. MaxEdition /\ chunker \in Nat
  <2>1. rows[c].made \in Nat
    BY <1>1, <1>2 DEF StoredTyped
  <2>2. chunker \in 1 .. MaxEdition /\ chunker \in Nat
    BY <1>2, ProcessingAssumption DEF StoredTyped
  <2>. QED
    BY <1>3, <2>1, <2>2, ProcessingAssumption DEF NewRows
<1>5. Kept(w) \subseteq RowIds
  <2>1. Split[t][chunker] \subseteq Passages
    BY <1>3, <1>4, ProcessingAssumption
  <2>. QED
    BY <1>1, <1>3, <1>4, <2>1 DEF Kept, PassagesIn, RowIds
<1>6. /\ j \in [status : {"NONE", "PENDING", "COMPLETED", "FAILED"},
                stage : Stages, edition : Nat, error : Errors]
      /\ j.status = "COMPLETED" /\ j.edition = chunker
  <2>1. StageAfter(w) \in Stages
    BY DEF StageAfter, Stages, Chunked
  <2>2. FlagAfter(w) \in Errors
    BY DEF FlagAfter, Errors
  <2>. QED
    BY <1>4, <2>1, <2>2
<1>. HIDE DEF j, c, t
<1>7. StoredTyped'
  <2>1. text' \in [Versions -> Texts \cup {NoText}] /\ blobs' \subseteq Texts
        /\ chunker' \in 1 .. MaxEdition
    BY <1>0, <1>2, <1>3 DEF StoredTyped
  <2>2. job' \in [Versions -> [status : {"NONE", "PENDING", "COMPLETED", "FAILED"},
                               stage : Stages, edition : Nat, error : Errors]]
    BY <1>0, <1>2, <1>6 DEF StoredTyped
  <2>3. rows' \in [Versions -> [of : Texts \cup {NoText}, edition : Nat, made : Nat]]
    BY <1>0, <1>2, <1>4 DEF StoredTyped
  <2>4. \A v \in Versions : rows'[v].of # NoText => rows'[v].edition \in 1 .. MaxEdition
    BY <1>0, <1>1, <1>2, <1>4 DEF StoredTyped
  <2>5. vectors' \subseteq RowIds
    BY <1>0, <1>2, <1>5 DEF StoredTyped
  <2>. QED
    BY <2>1, <2>2, <2>3, <2>4, <2>5 DEF StoredTyped
<1>8. TextIsStored' /\ NothingDropsOut' /\ NewIsEmpty'
  BY <1>0, <1>1, <1>2, <1>3, <1>6
     DEF StoredTyped, ProcessingInv, StoredInv, TextIsStored, NothingDropsOut, NewIsEmpty
<1>9. PassagesAgree'
  BY <1>0, <1>1, <1>2, <1>4, <1>6
     DEF StoredTyped, ProcessingInv, StoredInv, PassagesAgree
<1>10. \A u \in Workers \ {w} : SoundIn(worker[u], text', blobs')
  BY <1>0, <1>1, TextIsSound DEF c
<1>11. RunsInv'
  BY <1>0, <1>10, ReleasedIsRun, RunLetsGo DEF ProcessingInv
<1>. QED
  BY <1>7, <1>8, <1>9, <1>11 DEF ProcessingInv, StoredInv

(* A FAILED record of either kind.                                         *)
LEMMA FailingIsJob ==
  ASSUME NEW v, NEW stage \in {"EXTRACTION", "PROCESSING"}, NEW e \in Errors
  PROVE  /\ Failing(v, stage, e) \in
              [status : {"NONE", "PENDING", "COMPLETED", "FAILED"},
               stage : Stages, edition : Nat, error : Errors]
         /\ Failing(v, stage, e).status = "FAILED"
         /\ Failing(v, stage, e).stage \notin Chunked
BY DEF Failing, Stages, Chunked

(* The raw file cannot be read.                                            *)
LEMMA ExtractionFailsKeeps ==
  ASSUME ProcessingInv, NEW w \in Workers, ExtractionFails(w)
  PROVE  ProcessingInv'
<1>. DEFINE c == worker[w].claim
            none == [NoRows EXCEPT !.made = rows[c].made]
<1>0. /\ worker[w].pc = "working"
      /\ text' = [text EXCEPT ![c] = NoText]
      /\ rows' = [rows EXCEPT ![c] = none]
      /\ vectors' \subseteq vectors
      /\ worker' = [worker EXCEPT ![w] = Released(w)]
      /\ UNCHANGED <<chunker, blobs>>
  BY DEF ExtractionFails
<1>1. PICK e \in Errors : job' = [job EXCEPT ![c] = Failing(c, "EXTRACTION", e)]
  BY DEF ExtractionFails, Errors
<1>2. c \in Versions /\ worker[w].pc \in Locking
  BY <1>0 DEF ProcessingInv, RunsInv, Sound, SoundIn, Busy, Locking
<1>3. StoredTyped
  BY DEF ProcessingInv, StoredInv
<1>4. /\ none \in [of : Texts \cup {NoText}, edition : Nat, made : Nat]
      /\ none.of = NoText
  BY <1>2, <1>3 DEF StoredTyped, NoRows
<1>. DEFINE j == Failing(c, "EXTRACTION", e)
<1>5. /\ j \in [status : {"NONE", "PENDING", "COMPLETED", "FAILED"},
                stage : Stages, edition : Nat, error : Errors]
      /\ j.status = "FAILED" /\ j.stage \notin Chunked
  BY FailingIsJob
<1>6. job' = [job EXCEPT ![c] = j]
  BY <1>1
<1>. HIDE DEF c, none, j
<1>7. StoredTyped'
  BY <1>0, <1>2, <1>3, <1>4, <1>5, <1>6 DEF StoredTyped
<1>8. TextIsStored' /\ NothingDropsOut' /\ PassagesAgree' /\ NewIsEmpty'
  BY <1>0, <1>2, <1>3, <1>4, <1>5, <1>6
     DEF StoredTyped, ProcessingInv, StoredInv, TextIsStored, NothingDropsOut,
         PassagesAgree, NewIsEmpty
<1>9. \A u \in Workers \ {w} : SoundIn(worker[u], text', blobs')
  BY <1>0, <1>2, TextIsSound DEF c
<1>10. RunsInv'
  BY <1>0, <1>9, ReleasedIsRun, RunLetsGo DEF ProcessingInv
<1>. QED
  BY <1>7, <1>8, <1>10 DEF ProcessingInv, StoredInv

(* An unexpected error is recorded, without a lock: the text, whoever      *)
(* holds the version now, is left alone.                                   *)
LEMMA MarkFailedKeeps ==
  ASSUME ProcessingInv, NEW w \in Workers, MarkFailed(w)
  PROVE  ProcessingInv'
<1>. DEFINE c == worker[w].claim
            j == Failing(c, "PROCESSING", "PROCESSING_ERROR")
<1>0. /\ worker[w].pc = "failing"
      /\ job' = [job EXCEPT ![c] = j]
      /\ worker' = [worker EXCEPT ![w] = Released(w)]
      /\ UNCHANGED <<chunker, text, rows, vectors, blobs>>
  BY DEF MarkFailed
<1>1. c \in Versions
  BY <1>0 DEF ProcessingInv, RunsInv, Sound, SoundIn, Busy
<1>2. /\ j \in [status : {"NONE", "PENDING", "COMPLETED", "FAILED"},
                stage : Stages, edition : Nat, error : Errors]
      /\ j.status = "FAILED" /\ j.stage \notin Chunked
  BY FailingIsJob DEF Errors
<1>. HIDE DEF c, j
<1>3. StoredInv'
  BY <1>0, <1>1, <1>2
     DEF ProcessingInv, StoredInv, StoredTyped, TextIsStored, NothingDropsOut, PassagesAgree,
         NewIsEmpty
<1>4. \A u \in Workers : SoundIn(worker[u], text', blobs')
  BY <1>0 DEF ProcessingInv, RunsInv, Sound
<1>5. RunsInv'
  BY <1>0, <1>4, ReleasedIsRun, RunLetsGo DEF ProcessingInv
<1>. QED
  BY <1>3, <1>5 DEF ProcessingInv

(* A version arrives; a release ends every run.                            *)
LEMMA WorldKeeps ==
  ASSUME ProcessingInv, (\E v \in Versions : Ingest(v)) \/ Release
  PROVE  ProcessingInv'
<1>1. ASSUME NEW v \in Versions, Ingest(v)
      PROVE  ProcessingInv'
  <2>1. /\ job' = [job EXCEPT ![v] = Downloaded]
        /\ job[v] = NoJob
        /\ UNCHANGED <<chunker, text, rows, vectors, blobs, worker>>
    BY <1>1 DEF Ingest, Ingested
  <2>2. /\ Downloaded \in [status : {"NONE", "PENDING", "COMPLETED", "FAILED"},
                           stage : Stages, edition : Nat, error : Errors]
        /\ Downloaded.status = "PENDING" /\ Downloaded.stage \notin Chunked
        /\ NoJob.status = "NONE"
    BY DEF Downloaded, Stages, Errors, Chunked, NoJob
  <2>3. StoredTyped'
    BY <2>1, <2>2 DEF ProcessingInv, StoredInv, StoredTyped
  <2>4. TextIsStored' /\ PassagesAgree'
    BY <2>1, <2>2 DEF ProcessingInv, StoredInv, StoredTyped, TextIsStored, PassagesAgree
  <2>5. NothingDropsOut' /\ NewIsEmpty'
    BY <2>1, <2>2 DEF ProcessingInv, StoredInv, StoredTyped, NothingDropsOut, NewIsEmpty
  <2>6. RunsInv'
    BY <2>1 DEF ProcessingInv, RunsInv, Exclusive, Sound
  <2>. QED
    BY <2>3, <2>4, <2>5, <2>6 DEF ProcessingInv, StoredInv
<1>2. CASE Release
  <2>1. StoredInv'
    BY <1>2, ProcessingAssumption
       DEF Release, dbVars, ProcessingInv, StoredInv, StoredTyped, TextIsStored,
           PassagesAgree, NothingDropsOut,
   NewIsEmpty
  <2>2. Off.pc \notin Busy
    BY OffIsRun DEF Busy, Locking
  <2>3. worker' = [w \in Workers |-> Off]
    BY <1>2 DEF Release
  <2>4. RunsInv'
    BY <2>2, <2>3, OffIsRun, IdleIsSound DEF RunsInv, Exclusive, Sound
  <2>. QED
    BY <2>1, <2>4 DEF ProcessingInv
<1>. QED
  BY <1>1, <1>2

-----------------------------------------------------------------------------
(* Every step, of a run or of the world, keeps the invariant.              *)
LEMMA ProcessingStep == ProcessingInv /\ [Next]_vars => ProcessingInv'
<1> SUFFICES ASSUME ProcessingInv, [Next]_vars
             PROVE  ProcessingInv'
  OBVIOUS
<1>1. ASSUME NEW w \in Workers, Step(w)
      PROVE  ProcessingInv'
  BY <1>1, LookingKeeps, ClaimKeeps, WorkKeeps, SaveKeeps, ExtractionFailsKeeps,
     MarkFailedKeeps
     DEF Step, Finish
<1>2. ASSUME NEW w \in Workers, Die(w)
      PROVE  ProcessingInv'
  BY <1>2, LookingKeeps
<1>3. CASE (\E v \in Versions : Ingest(v)) \/ Release
  BY <1>3, WorldKeeps
<1>4. CASE UNCHANGED vars
  <2>1. UNCHANGED <<chunker, dbVars, blobs>> /\ worker' = worker
    BY <1>4 DEF vars
  <2>2. RunsInv'
    BY <2>1 DEF dbVars, ProcessingInv, RunsInv, Exclusive, Sound
  <2>. QED
    BY <2>1, <2>2, StoredUnchanged DEF ProcessingInv
<1>. QED
  BY <1>1, <1>2, <1>3, <1>4 DEF Next

(* Stored texts never dangle, passages and job agree with the text, no     *)
(* version drops out of sight, and a run that chunks a text again commits  *)
(* the text its version has.                                               *)
THEOREM ProcessingSafety ==
  Spec => [](TextIsStored /\ PassagesAgree /\ NothingDropsOut /\ RechunkIsCurrent)
<1>1. ProcessingInv => TextIsStored /\ PassagesAgree /\ NothingDropsOut
  BY DEF ProcessingInv, StoredInv
<1>2. ProcessingInv => RechunkIsCurrent
  BY DEF ProcessingInv, RunsInv, Sound, SoundIn, RechunkIsCurrent, FromStored
<1>. QED
  BY <1>1, <1>2, ProcessingInit, ProcessingStep, PTL DEF Spec

(* Wherever runs are killed, raise or are overtaken by a release: each     *)
(* stored text is found in the blob store, COMPLETED versions have one and *)
(* queued ones none.                                                       *)
THEOREM NothingGoesMissing == Spec => []NothingIsMissing
<1>1. TextIsStored /\ NothingDropsOut => NothingIsMissing
  BY DEF NothingIsMissing
<1>. QED
  BY <1>1, ProcessingSafety, PTL

(* Overlapping runs with old snapshots leave no passages of another text   *)
(* or edition than the job says, and chunk no text again that was replaced.*)
THEOREM NothingGoesStale == Spec => []NothingIsStale
<1>1. PassagesAgree /\ RechunkIsCurrent => NothingIsStale
  BY DEF NothingIsStale
<1>. QED
  BY <1>1, ProcessingSafety, PTL

(* A text once stored changes only at the hands of a run asked to extract  *)
(* again: the commit of any other run that holds a version with text has   *)
(* the text that was there.                                                *)
THEOREM FinishedTextStands == Spec => TextStands
<1>. DEFINE Stands ==
       \A v \in Versions :
         text[v] # NoText /\ text'[v] # text[v] =>
           \E w \in Workers : worker[w].claim = v /\ Reextract(worker[w].mode)
<1>1. ASSUME ProcessingInv, NEW w \in Workers, Save(w)
      PROVE  Stands
  <2>. DEFINE c == worker[w].claim
  <2>1. /\ worker[w].pc = "saving" /\ worker[w].pc \in Locking
        /\ text' = [text EXCEPT ![c] = worker[w].new]
    BY <1>1 DEF Save, Locking
  <2>2. SoundIn(worker[w], text, blobs) /\ c \in Versions
    BY <1>1, <2>1 DEF ProcessingInv, RunsInv, Sound, SoundIn, Busy
  <2>3. text \in [Versions -> Texts \cup {NoText}] /\ TextIsStored
    BY <1>1 DEF ProcessingInv, StoredInv, StoredTyped
  <2>4. CASE ~Forced(worker[w].mode)
    <3>1. text[c] = NoText
      BY <2>1, <2>2, <2>4 DEF SoundIn
    <3>. QED
      BY <2>1, <2>2, <2>3, <3>1
  <2>5. CASE Forced(worker[w].mode) /\ ~Reextract(worker[w].mode)
    <3>1. text[c] # NoText => worker[w].new = text[c]
      BY <2>1, <2>2, <2>3, <2>5 DEF SoundIn, TextIsStored
    <3>. QED
      BY <2>1, <2>2, <2>3, <3>1
  <2>6. CASE Reextract(worker[w].mode)
    BY <2>1, <2>2, <2>3, <2>6
  <2>. QED
    BY <2>4, <2>5, <2>6
<1>2. ASSUME ProcessingInv, NEW w \in Workers, ExtractionFails(w)
      PROVE  Stands
  <2>. DEFINE c == worker[w].claim
  <2>1. /\ worker[w].pc \in Locking /\ ~FromStored(w)
        /\ text' = [text EXCEPT ![c] = NoText]
    BY <1>2 DEF ExtractionFails, Locking
  <2>2. SoundIn(worker[w], text, blobs) /\ c \in Versions
    BY <1>2, <2>1 DEF ProcessingInv, RunsInv, Sound, SoundIn, Busy
  <2>3. text \in [Versions -> Texts \cup {NoText}] /\ TextIsStored
    BY <1>2 DEF ProcessingInv, StoredInv, StoredTyped
  <2>4. text[c] = NoText \/ Reextract(worker[w].mode)
    BY <2>1, <2>2, <2>3 DEF SoundIn, FromStored, TextIsStored
  <2>. QED
    BY <2>1, <2>2, <2>3, <2>4
<1>3. ASSUME Next, ~(\E w \in Workers : Save(w) \/ ExtractionFails(w))
      PROVE  text' = text
  BY <1>3 DEF Next, Step, Finish, StartRun, EndRun, Query, Claim, Rechunk, Extract,
              Raise, MarkFailed, Die, Ingest, Release, dbVars
<1>4. ProcessingInv /\ [Next]_vars => [Stands]_vars
  BY <1>1, <1>2, <1>3
<1>. QED
  BY <1>4, ProcessingInit, ProcessingStep, PTL DEF Spec, TextStands

-----------------------------------------------------------------------------
(* Embedding.                                                              *)

IsScan(r) ==
  /\ DOMAIN r = {"pc", "owed", "passed", "todo", "room", "remaining"}
  /\ r.remaining \in BOOLEAN

(* The rows a run found are of a generation that is there or has passed,   *)
(* so that rows made since are none of them ("now" stands for rows).       *)
Aged(r, now) ==
  \A q \in r.owed : q[1] \in Versions /\ q[2] \in Nat /\ q[2] <= now[q[1]].made

(* What it passed over is embedded or will be, unless the run says that    *)
(* something remains ("all" stands for AllRows, "done" for vectors).       *)
Dealt(r, all, done) ==
  ~r.remaining => r.owed \cap all \cap r.passed \subseteq done \cup r.todo

ScanIn(r, now, all, done) == IsScan(r) /\ Aged(r, now) /\ Dealt(r, all, done)

EmbeddingInv ==
  /\ ProcessingInv
  /\ embedder = [e \in Embedders |-> embedder[e]]
  /\ \A e \in Embedders : ScanIn(embedder[e], rows, AllRows, vectors)

-----------------------------------------------------------------------------
(* Rows know their version and generation.                                 *)
LEMMA RowsAreOf ==
  ASSUME ProcessingInv, NEW v \in Versions, NEW q \in RowsOf(v)
  PROVE  /\ q \in RowIds /\ q[1] = v /\ q[2] = rows[v].made /\ q[2] \in Nat
         /\ rows[v].of # NoText
<1>1. /\ rows[v].of # NoText
      /\ \E p \in Split[rows[v].of][rows[v].edition] : q = <<v, rows[v].made, p>>
  BY DEF RowsOf, PassagesIn
<1>2. /\ rows[v].of \in Texts /\ rows[v].edition \in 1 .. MaxEdition
      /\ rows[v].made \in Nat
  BY <1>1 DEF ProcessingInv, StoredInv, StoredTyped
<1>3. Split[rows[v].of][rows[v].edition] \subseteq Passages
  BY <1>2, ProcessingAssumption
<1>. QED  BY <1>1, <1>2, <1>3 DEF RowIds

LEMMA AsleepIsFine ==
  ASSUME NEW now, NEW all, NEW done
  PROVE  ScanIn(Asleep, now, all, done)
BY DEF ScanIn, IsScan, Aged, Dealt, Asleep

LEMMA EmbeddingInit == EmbInit => EmbeddingInv
<1>. QED  BY ProcessingInit, AsleepIsFine DEF EmbInit, EmbeddingInv

-----------------------------------------------------------------------------
(* What the queue does to the rows of version v: they are the same and     *)
(* keep their embeddings, or of a later generation, or gone.               *)
Ages(v) ==
  /\ rows'[v].made >= rows[v].made
  /\ \/ rows'[v] = rows[v] /\ RowsOf(v) \cap vectors \subseteq vectors'
     \/ rows'[v].made > rows[v].made
     \/ rows'[v].of = NoText

(* Replacing the rows of version c with r leaves those of the others.      *)
LEMMA ReplaceAges ==
  ASSUME ProcessingInv, NEW c \in Versions, NEW r, r.made \in Nat, NEW kept,
         rows' = [rows EXCEPT ![c] = r],
         vectors' = (vectors \ RowsOf(c)) \cup kept,
         \/ r.made > rows[c].made
         \/ r.of = NoText /\ r.made = rows[c].made,
         NEW v \in Versions
  PROVE  Ages(v)
<1>1. rows \in [Versions -> [of : Texts \cup {NoText}, edition : Nat, made : Nat]]
  BY DEF ProcessingInv, StoredInv, StoredTyped
<1>2. CASE v = c
  <2>1. rows'[v] = r /\ rows[v].made \in Nat
    BY <1>1, <1>2
  <2>. QED  BY <1>2, <2>1 DEF Ages
<1>3. CASE v # c
  <2>1. rows'[v] = rows[v] /\ rows[v].made \in Nat
    BY <1>1, <1>3
  <2>2. RowsOf(v) \cap RowsOf(c) = {}
    BY <1>3, RowsAreOf
  <2>. QED  BY <2>1, <2>2 DEF Ages
<1>. QED  BY <1>2, <1>3

LEMMA QueueAges ==
  ASSUME ProcessingInv, QueueMoves, NEW v \in Versions
  PROVE  Ages(v)
<1>1. ASSUME NEW u \in Versions PROVE rows[u].made \in Nat
  BY DEF ProcessingInv, StoredInv, StoredTyped
<1>2. ASSUME NEW w \in Workers, worker[w].pc \in Busy PROVE worker[w].claim \in Versions
  BY <1>2 DEF ProcessingInv, RunsInv, Sound, SoundIn
<1>3. ASSUME NEW w \in Workers, Save(w) PROVE Ages(v)
  <2> DEFINE c == worker[w].claim
  <2>1. c \in Versions /\ rows[c].made < MaxMade
    BY <1>2, <1>3 DEF Save, Busy, Locking, QueueMoves, Bounded
  <2>2. NewRows(w).made = rows[c].made + 1
    BY <2>1 DEF NewRows
  <2>3. NewRows(w).made \in Nat /\ NewRows(w).made > rows[c].made
    BY <1>1, <2>1, <2>2
  <2>. QED  BY <1>3, <2>1, <2>3, ReplaceAges DEF Save
<1>4. ASSUME NEW w \in Workers, ExtractionFails(w) PROVE Ages(v)
  <2> DEFINE c == worker[w].claim
             r == [NoRows EXCEPT !.made = rows[c].made]
  <2>1. c \in Versions
    BY <1>2, <1>4 DEF ExtractionFails, Busy, Locking
  <2>2. r.of = NoText /\ r.made = rows[c].made /\ r.made \in Nat
    BY <1>1, <2>1 DEF NoRows
  <2>3. rows' = [rows EXCEPT ![c] = r] /\ vectors' = (vectors \ RowsOf(c)) \cup {}
    BY <1>4 DEF ExtractionFails
  <2>. HIDE DEF r
  <2>. QED  BY <2>1, <2>2, <2>3, ReplaceAges
<1>5. CASE rows' = rows /\ vectors' = vectors
  BY <1>1, <1>5 DEF Ages
<1>6. \/ \E w \in Workers : Save(w) \/ ExtractionFails(w)
      \/ rows' = rows /\ vectors' = vectors
  BY DEF QueueMoves, Step, Die, Ingest, StartRun, EndRun, Query, Claim, Rechunk, Extract,
         Raise, Finish, MarkFailed, dbVars
<1>. QED  BY <1>3, <1>4, <1>5, <1>6

(* What a run knows of its rows survives that.                             *)
LEMMA ScanSurvives ==
  ASSUME ProcessingInv, ProcessingInv', NEW r, ScanIn(r, rows, AllRows, vectors),
         \A v \in Versions : Ages(v)
  PROVE  ScanIn(r, rows', AllRows', vectors')
<1>1. \A v \in Versions : rows[v].made \in Nat /\ rows'[v].made \in Nat
  BY DEF ProcessingInv, StoredInv, StoredTyped
<1>2. Aged(r, rows')
  BY <1>1 DEF Ages, ScanIn, Aged
<1>3. ASSUME NEW q \in r.owed, q \in AllRows'
      PROVE  q \in AllRows /\ (q \in vectors => q \in vectors')
  <2>1. PICK v \in Versions : q \in RowsOf(v)'
    BY <1>3 DEF AllRows
  <2>2. q[1] = v /\ q[2] = rows'[v].made /\ rows'[v].of # NoText
    BY <2>1 DEF RowsOf, PassagesIn
  <2>3. q[2] <= rows[v].made
    BY <2>2 DEF ScanIn, Aged
  <2>4. rows'[v] = rows[v] /\ RowsOf(v) \cap vectors \subseteq vectors'
    BY <1>1, <2>2, <2>3 DEF Ages
  <2>5. q \in RowsOf(v)
    BY <2>1, <2>4 DEF RowsOf
  <2>. QED  BY <2>4, <2>5 DEF AllRows
<1>4. Dealt(r, AllRows', vectors')
  BY <1>3 DEF ScanIn, Dealt
<1>. QED  BY <1>2, <1>4 DEF ScanIn

-----------------------------------------------------------------------------
(* A run's own steps: r is what becomes of it.                             *)
LEMMA ScanMoves ==
  ASSUME EmbeddingInv, NEW e \in Embedders, NEW r,
         embedder' = [embedder EXCEPT ![e] = r],
         ProcessingInv', \A v \in Versions : Ages(v),
         ScanIn(r, rows', AllRows', vectors')
  PROVE  EmbeddingInv'
<1>1. /\ embedder' = [f \in Embedders |-> embedder'[f]]
      /\ embedder'[e] = r /\ \A f \in Embedders \ {e} : embedder'[f] = embedder[f]
  BY DEF EmbeddingInv
<1>2. ASSUME NEW f \in Embedders \ {e}
      PROVE  ScanIn(embedder'[f], rows', AllRows', vectors')
  BY <1>1, ScanSurvives DEF EmbeddingInv
<1>. QED  BY <1>1, <1>2 DEF EmbeddingInv

(* The database stands still.                                              *)
LEMMA StillAges ==
  ASSUME ProcessingInv, UNCHANGED vars
  PROVE  /\ ProcessingInv' /\ AllRows' = AllRows
         /\ \A v \in Versions : Ages(v)
<1>1. ProcessingInv'
  BY ProcessingStep
<1>2. rows' = rows /\ vectors' = vectors
  BY DEF vars, dbVars
<1>3. \A v \in Versions : rows[v].made \in Nat
  BY DEF ProcessingInv, StoredInv, StoredTyped
<1>. QED  BY <1>1, <1>2, <1>3 DEF Ages, AllRows, RowsOf

(* A page passed over: what has no embedding is to do, or the run says     *)
(* that something remains.                                                 *)
LEMMA LookingScans ==
  ASSUME EmbeddingInv, NEW e \in Embedders, BeginEmbedding(e) \/ FetchPage(e)
  PROVE  EmbeddingInv'
<1>1. /\ ProcessingInv' /\ AllRows' = AllRows /\ rows' = rows /\ vectors' = vectors
      /\ \A v \in Versions : Ages(v)
  BY StillAges DEF EmbeddingInv, BeginEmbedding, FetchPage, vars, dbVars
<1>2. CASE BeginEmbedding(e)
  <2> DEFINE r == [Asleep EXCEPT !.pc = "scanning", !.owed = AllRows, !.room = EmbedLimit]
  <2>1. /\ r.owed = AllRows /\ r.passed = {} /\ r.todo = {} /\ r.remaining = FALSE
        /\ DOMAIN r = {"pc", "owed", "passed", "todo", "room", "remaining"}
    BY DEF Asleep
  <2>2. \A q \in AllRows : q[1] \in Versions /\ q[2] \in Nat /\ q[2] <= rows[q[1]].made
    BY RowsAreOf DEF EmbeddingInv, AllRows
  <2>. HIDE DEF r
  <2>3. ScanIn(r, rows, AllRows, vectors)
    BY <2>1, <2>2 DEF ScanIn, IsScan, Aged, Dealt
  <2>4. embedder' = [embedder EXCEPT ![e] = r]
    BY <1>2 DEF BeginEmbedding, r
  <2>. QED  BY <1>1, <2>3, <2>4, ScanMoves
<1>3. CASE FetchPage(e)
  <2>1. PICK page \in Pages(e) : \E todo \in Pending(e, page) :
          embedder' = [embedder EXCEPT ![e].passed = @ \cup page,
                                       ![e].todo = todo,
                                       ![e].remaining = @ \/ page \ vectors # todo]
    BY <1>3 DEF FetchPage
  <2>2. PICK todo \in Pending(e, page) :
          embedder' = [embedder EXCEPT ![e].passed = @ \cup page,
                                       ![e].todo = todo,
                                       ![e].remaining = @ \/ page \ vectors # todo]
    BY <2>1
  <2> DEFINE s == embedder[e]
             left == s.remaining \/ page \ vectors # todo
             r == [s EXCEPT !.passed = @ \cup page, !.todo = todo, !.remaining = left]
  <2>3. ScanIn(s, rows, AllRows, vectors) /\ s.todo = {}
    BY <1>3 DEF EmbeddingInv, FetchPage
  <2>4. embedder' = [embedder EXCEPT ![e] = r]
    BY <2>2 DEF EmbeddingInv
  <2>5. left \in BOOLEAN
    BY <2>3 DEF ScanIn, IsScan
  <2>6. ~left => ~s.remaining /\ page \ vectors = todo
    OBVIOUS
  <2>. HIDE DEF left, s
  <2>7. /\ r.owed = s.owed /\ r.passed = s.passed \cup page /\ r.todo = todo
        /\ r.remaining = left /\ DOMAIN r = DOMAIN s
    BY <2>3 DEF ScanIn, IsScan
  <2>. HIDE DEF r
  <2>8. ScanIn(r, rows, AllRows, vectors)
    BY <2>3, <2>5, <2>6, <2>7 DEF ScanIn, IsScan, Aged, Dealt
  <2>. QED  BY <1>1, <2>4, <2>8, ScanMoves
<1>. QED  BY <1>2, <1>3

(* A batch moves from what is to do to what is done.                       *)
LEMMA BatchScans ==
  ASSUME EmbeddingInv, NEW e \in Embedders, EmbedBatch(e)
  PROVE  EmbeddingInv'
<1>1. PICK batch \in Take(embedder[e].todo, BatchSize) :
        /\ batch \subseteq AllRows \ vectors
        /\ vectors' = vectors \cup batch
        /\ embedder' = [embedder EXCEPT ![e].todo = Rest(e, batch),
                                        ![e].room = @ - Cardinality(batch)]
  BY DEF EmbedBatch
<1>2. /\ chunker' = chunker /\ text' = text /\ job' = job /\ rows' = rows
      /\ blobs' = blobs /\ worker' = worker /\ AllRows' = AllRows
  BY DEF EmbedBatch, Leaves, AllRows, RowsOf
<1>3. ProcessingInv'
  <2>1. vectors' \subseteq RowIds
    BY <1>1, RowsAreOf DEF EmbeddingInv, ProcessingInv, StoredInv, StoredTyped, AllRows
  <2>. QED
    BY <1>2, <2>1
       DEF EmbeddingInv, ProcessingInv, StoredInv, StoredTyped, NewIsEmpty, TextIsStored,
           PassagesAgree, NothingDropsOut, RunsInv, Exclusive, Sound
<1>4. \A v \in Versions : Ages(v)
  BY <1>1, <1>2 DEF EmbeddingInv, ProcessingInv, StoredInv, StoredTyped, Ages
<1> DEFINE s == embedder[e]
           room == s.room - Cardinality(batch)
           r == [s EXCEPT !.todo = Rest(e, batch), !.room = room]
<1>5. ScanIn(s, rows, AllRows, vectors) /\ Rest(e, batch) = s.todo \ batch
  BY DEF EmbeddingInv, Rest
<1>6. embedder' = [embedder EXCEPT ![e] = r]
  BY <1>1 DEF EmbeddingInv
<1>. HIDE DEF s, room
<1>7. /\ r.owed = s.owed /\ r.passed = s.passed /\ r.todo = s.todo \ batch
      /\ r.remaining = s.remaining /\ DOMAIN r = DOMAIN s
  BY <1>5 DEF ScanIn, IsScan
<1>. HIDE DEF r
<1>8. ScanIn(r, rows', AllRows', vectors')
  BY <1>1, <1>2, <1>5, <1>7 DEF ScanIn, IsScan, Aged, Dealt
<1>. QED  BY <1>3, <1>4, <1>6, <1>8, ScanMoves

(* A run that ends forgets what it knew.                                   *)
LEMMA EndScans ==
  ASSUME EmbeddingInv, NEW e \in Embedders,
         BatchFails(e) \/ EndEmbedding(e) \/ EmbedderDies(e)
  PROVE  EmbeddingInv'
<1>1. embedder' = [embedder EXCEPT ![e] = Asleep] /\ UNCHANGED vars
  BY DEF BatchFails, EndEmbedding, EmbedderDies
<1>2. ProcessingInv' /\ \A v \in Versions : Ages(v)
  BY <1>1, StillAges DEF EmbeddingInv
<1>. QED  BY <1>1, <1>2, AsleepIsFine, ScanMoves

LEMMA EmbeddingStep ==
  ASSUME EmbeddingInv, [EmbNext]_embVars
  PROVE  EmbeddingInv'
<1>1. CASE QueueMoves
  <2>1. Next /\ embedder' = embedder
    BY <1>1 DEF QueueMoves, Next
  <2>2. ProcessingInv'
    BY <2>1, ProcessingStep DEF EmbeddingInv
  <2>3. \A v \in Versions : Ages(v)
    BY <1>1, QueueAges DEF EmbeddingInv
  <2>. QED  BY <2>1, <2>2, <2>3, ScanSurvives DEF EmbeddingInv
<1>2. CASE ReleaseAll
  <2>1. ProcessingInv'
    BY <1>2, ProcessingStep DEF EmbeddingInv, ReleaseAll, Next
  <2>. QED  BY <1>2, <2>1, AsleepIsFine DEF EmbeddingInv, ReleaseAll
<1>3. CASE UNCHANGED embVars
  <2>1. /\ embedder' = embedder /\ rows' = rows /\ vectors' = vectors /\ AllRows' = AllRows
        /\ ProcessingInv'
    BY <1>3, StillAges DEF embVars, EmbeddingInv, vars, dbVars
  <2>. QED  BY <2>1 DEF EmbeddingInv
<1>. QED
  BY <1>1, <1>2, <1>3, LookingScans, BatchScans, EndScans DEF EmbNext, EmbedStep

(* CompleteMeansEmbedded: whatever is replaced, made or embedded beside a  *)
(* run, one that ends with "0 remaining" has left no passage it found at   *)
(* its start without an embedding.                                         *)
THEOREM CompleteIsComplete == EmbSpec => []CompleteMeansEmbedded
<1>1. EmbeddingInv => CompleteMeansEmbedded
  BY DEF EmbeddingInv, ScanIn, Dealt, CompleteMeansEmbedded, Scanned
<1>. QED  BY <1>1, EmbeddingInit, EmbeddingStep, PTL DEF EmbSpec

-----------------------------------------------------------------------------
(* Only a run about to save has embeddings to reuse: those of its version. *)
ReuseIn(r) == r.reuse # {} => r.pc = "saving" /\ \A q \in r.reuse : q[1] = r.claim
ReuseInv == ProcessingInv /\ \A w \in Workers : ReuseIn(worker[w])

LEMMA ReuseInit == EmbInit => ReuseInv
BY ProcessingInit DEF EmbInit, Init, ReuseInv, ReuseIn, Off

(* Of the steps of a run only extraction and re-chunking remember any.     *)
LEMMA ReuseMoves ==
  ASSUME ReuseInv, NEW w \in Workers, Step(w) \/ Die(w), NEW u \in Workers
  PROVE  ReuseIn(worker'[u])
<1>1. worker[w] \in Run /\ worker \in [Workers -> Run] /\ ReuseIn(worker[w])
  BY DEF ReuseInv, ProcessingInv, RunsInv
<1>2. CASE \E m \in Modes : StartRun(w, m)
  BY <1>1, <1>2 DEF ReuseInv, ReuseIn, StartRun, Off
<1>3. CASE EndRun(w) \/ Die(w)
  BY <1>1, <1>3 DEF ReuseInv, ReuseIn, EndRun, Die, Off
<1>4. CASE Query(w)
  BY <1>1, <1>4 DEF ReuseInv, ReuseIn, Query, Run
<1>5. CASE Claim(w)
  <2>1. worker[w].reuse = {}
    BY <1>1, <1>5 DEF ReuseIn, Claim
  <2>2. PICK r : worker' = [worker EXCEPT ![w] = r] /\ r.reuse = {}
    <3>1. CASE worker' = [worker EXCEPT ![w] = Off]
      <4>1. Off.reuse = {}
        BY DEF Off
      <4>. QED  BY <3>1, <4>1
    <3>2. CASE \E v \in Free(w) :
            worker' = [worker EXCEPT ![w].pc = "working", ![w].seen = {}, ![w].claim = v,
                                     ![w].tried = @ \cup {v}]
      <4>1. PICK v \in Free(w) :
              worker' = [worker EXCEPT ![w] = [worker[w] EXCEPT !.pc = "working", !.seen = {},
                                                 !.claim = v, !.tried = @ \cup {v}]]
        BY <1>1, <3>2
      <4>2. [worker[w] EXCEPT !.pc = "working", !.seen = {}, !.claim = v,
                              !.tried = @ \cup {v}].reuse = {}
        BY <1>1, <2>1 DEF Run
      <4>. QED  BY <4>1, <4>2
    <3>. QED  BY <1>5, <3>1, <3>2 DEF Claim
  <2>. QED  BY <1>1, <2>2 DEF ReuseInv, ReuseIn
<1>6. CASE Rechunk(w) \/ Extract(w)
  <2> DEFINE c == worker[w].claim
  <2>1. c \in Versions
    BY <1>6 DEF ReuseInv, ProcessingInv, RunsInv, Sound, SoundIn, Busy, Locking, Rechunk, Extract
  <2>2. \A q \in VectorsOf(c) : q[1] = c
    BY <2>1, RowsAreOf DEF ReuseInv, VectorsOf
  <2>3. PICK t : worker' = [worker EXCEPT ![w].pc = "saving", ![w].new = t,
                                          ![w].reuse = VectorsOf(c)]
    BY <1>6 DEF Rechunk, Extract
  <2>. DEFINE r == [worker[w] EXCEPT !.pc = "saving", !.new = t, !.reuse = VectorsOf(c)]
  <2>4. r.pc = "saving" /\ r.claim = c /\ r.reuse = VectorsOf(c)
    BY <1>1 DEF Run
  <2>5. worker' = [worker EXCEPT ![w] = r]
    BY <1>1, <2>3
  <2>. HIDE DEF r
  <2>. QED  BY <1>1, <2>2, <2>4, <2>5 DEF ReuseInv, ReuseIn
<1>7. CASE Raise(w)
  BY <1>1, <1>7 DEF ReuseInv, ReuseIn, Raise, Run
<1>8. CASE Finish(w)
  <2>1. worker' = [worker EXCEPT ![w] = Released(w)]
    BY <1>8 DEF Finish, ExtractionFails, Save, MarkFailed
  <2>2. Released(w).reuse = {}
    BY <1>1 DEF Released, Run
  <2>. QED  BY <1>1, <2>1, <2>2 DEF ReuseInv, ReuseIn
<1>. QED  BY <1>2, <1>3, <1>4, <1>5, <1>6, <1>7, <1>8 DEF Step

LEMMA ReuseStep ==
  ASSUME EmbeddingInv, ReuseInv, [EmbNext]_embVars
  PROVE  ReuseInv'
<1>1. ProcessingInv'
  BY EmbeddingStep DEF EmbeddingInv
<1>2. ASSUME NEW w \in Workers, Step(w) \/ Die(w) PROVE ReuseInv'
  BY <1>1, <1>2, ReuseMoves DEF ReuseInv
<1>3. CASE ReleaseAll
  BY <1>1, <1>3 DEF ReuseInv, ReuseIn, ReleaseAll, Release, Off
<1>4. CASE worker' = worker
  BY <1>1, <1>4 DEF ReuseInv, ReuseIn
<1>5. \/ \E w \in Workers : Step(w) \/ Die(w)
      \/ ReleaseAll
      \/ worker' = worker
  BY DEF EmbNext, QueueMoves, EmbedStep, Ingest, BeginEmbedding, FetchPage, EmbedBatch,
         BatchFails, EndEmbedding, EmbedderDies, Leaves, vars, embVars
<1>. QED  BY <1>2, <1>3, <1>4, <1>5

(* Rows are replaced only by the one run that holds their version, and it  *)
(* takes over what it read.                                                *)
LEMMA SaveTakesOver ==
  ASSUME ReuseInv, NEW u \in Workers, Save(u), NEW w \in Workers,
         NEW q \in worker[w].reuse, NEW v \in Versions, v = q[1],
         rows'[v] # rows[v], NEW p, p \in RowsOf(v)', p[3] = q[3]
  PROVE  p \in vectors'
<1>1. /\ worker[w].pc = "saving" /\ worker[w].claim = v
      /\ worker[u].pc = "saving"
  BY DEF ReuseInv, ReuseIn, Save
<1>2. rows \in [Versions -> [of : Texts \cup {NoText}, edition : Nat, made : Nat]]
  BY DEF ReuseInv, ProcessingInv, StoredInv, StoredTyped
<1>3. worker[u].claim = v /\ rows'[v] = NewRows(u)
  BY <1>2 DEF Save
<1>4. u = w
  BY <1>1, <1>3 DEF ReuseInv, ProcessingInv, RunsInv, Exclusive, Locking
<1>5. p \in Kept(u)
  BY <1>3, <1>4 DEF RowsOf, Kept
<1>. QED  BY <1>5 DEF Save

(* UnchangedKeepVectors: a passage whose text had an embedding when its    *)
(* version was taken up has one after its rows were replaced, whatever is  *)
(* embedded in between.                                                    *)
THEOREM UnchangedTextKeeps == EmbSpec => UnchangedKeepVectors
<1>. DEFINE Keeps ==
       \A w \in Workers : \A q \in worker[w].reuse :
         LET v == q[1]
             now == <<v, rows[v].made, q[3]>>
         IN  rows'[v].of # NoText /\ rows'[v] # rows[v] /\ now' \in RowsOf(v)'
               => now' \in vectors'
<1>1. ASSUME EmbeddingInv, ReuseInv, [EmbNext]_embVars PROVE Keeps
  <2>1. SUFFICES ASSUME NEW w \in Workers, NEW q \in worker[w].reuse,
                        NEW v, v = q[1], NEW p, p = <<v, rows'[v].made, q[3]>>,
                        rows'[v].of # NoText, rows'[v] # rows[v], p \in RowsOf(v)'
                 PROVE  p \in vectors'
    OBVIOUS
  <2>2. v \in Versions
    BY <1>1, <2>1
       DEF ReuseInv, ReuseIn, ProcessingInv, RunsInv, Sound, SoundIn, Busy, Locking
  <2>3. PICK u \in Workers : Save(u)
    <3>1. QueueMoves
      BY <1>1, <2>1
         DEF EmbNext, EmbedStep, ReleaseAll, Release, BeginEmbedding, FetchPage, EmbedBatch,
             BatchFails, EndEmbedding, EmbedderDies, Leaves, vars, dbVars, embVars
    <3>2. ASSUME NEW u \in Workers, ExtractionFails(u) PROVE FALSE
      <4>1. rows \in [Versions -> [of : Texts \cup {NoText}, edition : Nat, made : Nat]]
        BY <1>1 DEF ReuseInv, ProcessingInv, StoredInv, StoredTyped
      <4>2. \/ rows'[v] = rows[v]
            \/ rows'[v] = [NoRows EXCEPT !.made = rows[v].made]
        BY <2>2, <3>2, <4>1 DEF ExtractionFails
      <4>. QED  BY <2>1, <4>2 DEF NoRows
    <3>. QED
      BY <2>1, <3>1, <3>2
         DEF QueueMoves, Step, Die, Ingest, StartRun, EndRun, Query, Claim, Rechunk, Extract,
             Raise, Finish, MarkFailed, dbVars
  <2>. QED  BY <1>1, <2>1, <2>2, <2>3, SaveTakesOver
<1>2. ASSUME EmbeddingInv, ReuseInv, [EmbNext]_embVars PROVE [Keeps]_embVars
  BY <1>1, <1>2
<1>. QED
  BY <1>2, EmbeddingInit, EmbeddingStep, ReuseInit, ReuseStep, PTL
     DEF EmbSpec, UnchangedKeepVectors
=============================================================================
