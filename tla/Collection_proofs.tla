------------------------- MODULE Collection_proofs --------------------------
(***************************************************************************)
(* What the corpus keeps, for any listing, any number of overlapping       *)
(* collection runs, corrections and prunes: every version has its document *)
(* and its raw file, every document a version, and what was collected      *)
(* goes only by a prune that listed it, never from a curated number.  And  *)
(* what the listings hold, for any portals: the ministry's misses nothing  *)
(* that stayed, the government's is whole but for what an answer cannot    *)
(* show, and the walk through a catalog misses no page within its limit.   *)
(***************************************************************************)
EXTENDS Collection, Listing, Catalog, Ranks_proofs, SequenceTheorems, TLAPS

Run == [pc : {"off", "downloading", "storing", "committing"},
        batch : SUBSET Items, doc : DocIds \cup {NoDoc}, renew : BOOLEAN]

(* The values the variables take.                                          *)
Shape ==
  /\ number \in [DocIds -> Numbers \cup {NoNumber}]
  /\ title \in [DocIds -> Titles]
  /\ owner \in [Files -> DocIds \cup {NoDoc}]
  /\ origin \in [Files -> Items \cup {0}]
  /\ storage \subseteq Files
  /\ collector \in [Collectors -> Run]
  /\ pruning \subseteq DocIds

(* A number names one document.                                            *)
NumbersAreUnique == \A d, e \in Documents : number[d] = number[e] => d = e

(* A run that is about to commit has stored the file of its item.          *)
StoredBeforeCommit ==
  \A c \in Collectors :
    /\ collector[c].pc \in {"storing", "committing"} => collector[c].batch # {}
    /\ collector[c].pc = "committing" => File(c) \in storage

(* A version has the source it was collected from.                         *)
VersionsHaveSources == \A f \in Held : origin[f] \in Items

(* What a document may be deleted for.                                     *)
MayGo(d) == number[d] \notin Curated /\ (number[d] \in Protected => IsSample(d))

(* What a prune run has listed it may delete, even after corrections.      *)
ListedMayGo == \A d \in pruning : MayGo(d)

CorpusInv ==
  /\ Shape
  /\ NumbersAreUnique
  /\ EveryDocumentHasAFile
  /\ RawIsStored
  /\ StoredBeforeCommit
  /\ VersionsHaveSources
  /\ ListedMayGo

-----------------------------------------------------------------------------

(* The item a run is busy with is one of its batch.                        *)
LEMMA ItemOfBatch ==
  ASSUME Shape, NEW c \in Collectors, collector[c].batch # {}
  PROVE  Item(c) \in collector[c].batch /\ Item(c) \in Items /\ File(c) \in Files
<1>1. collector[c].batch \in (SUBSET Items) \ {{}}
  BY DEF Shape, Run
<1>2. PICK i \in collector[c].batch : \A j \in collector[c].batch : i <= j
  BY <1>1, CollectionAssumption
<1>3. Item(c) \in collector[c].batch
  BY <1>2 DEF Item
<1> QED
  BY <1>1, <1>3, CollectionAssumption DEF File

(* A fresh id belongs to no document and to no list of a prune run.        *)
LEMMA NewIdIsFresh ==
  ASSUME Fresh # {}
  PROVE  NewId \in DocIds \ (Documents \cup pruning)
BY DEF NewId, Fresh

(* A run's record after each of its steps.                                 *)
LEMMA OnwardIsRun ==
  ASSUME Shape, NEW c \in Collectors
  PROVE  Onward(c) \in Run /\ Onward(c).pc = "downloading" /\ Idle \in Run /\ Idle.pc = "off"
BY DEF Onward, Idle, Shape, Run

(* Steps that leave the corpus and the store alone, and whose run is not   *)
(* about to store anything, preserve the invariant.                        *)
LEMMA CollectorStep ==
  ASSUME CorpusInv, NEW c \in Collectors, NEW r \in Run,
         r.pc \in {"off", "downloading"},
         collector' = [collector EXCEPT ![c] = r],
         UNCHANGED <<number, owner, origin, storage, pruning>>,
         title' \in [DocIds -> Titles]
  PROVE  CorpusInv'
<1> USE DEF CorpusInv
<1>1. Shape' /\ NumbersAreUnique' /\ EveryDocumentHasAFile' /\ RawIsStored'
        /\ VersionsHaveSources' /\ ListedMayGo'
  BY DEF Shape, NumbersAreUnique, EveryDocumentHasAFile, RawIsStored, VersionsHaveSources,
         ListedMayGo, MayGo, IsSample, FilesOf, Documents, Held
<1>2. StoredBeforeCommit'
  <2>1. \A e \in Collectors : e # c => collector'[e] = collector[e]
    BY DEF Shape
  <2>2. collector'[c] = r
    BY DEF Shape
  <2> QED
    BY <2>1, <2>2 DEF StoredBeforeCommit, File, Item
<1> QED
  BY <1>1, <1>2

(* The downloading steps of a run.                                         *)
LEMMA RunSteps ==
  ASSUME CorpusInv, NEW c \in Collectors,
         (\E kind \in Kinds : StartRun(c, kind)) \/ EndRun(c) \/ Fails(c)
           \/ AlreadyHeld(c) \/ Die(c)
  PROVE  CorpusInv'
<1> USE DEF CorpusInv
<1>1. ASSUME NEW kind \in Kinds, StartRun(c, kind)
      PROVE  CorpusInv'
  <2> DEFINE r == [Idle EXCEPT !.pc = "downloading", !.batch = Batch(kind)]
  <2>1. Batch(kind) \subseteq Items
    BY CollectionAssumption DEF Batch, First, Pending, Listed, Kinds, Portal
  <2>2. r \in Run /\ r.pc = "downloading"
    BY <2>1 DEF Run, Idle
  <2>3. collector' = [collector EXCEPT ![c] = r] /\ UNCHANGED <<corpusVars, storage, pruning>>
    BY <1>1 DEF StartRun
  <2> HIDE DEF r
  <2> QED
    BY <2>2, <2>3, CollectorStep DEF corpusVars, Shape
<1>2. CASE EndRun(c) \/ Die(c)
  BY <1>2, OnwardIsRun, CollectorStep DEF EndRun, Die, corpusVars, Shape
<1>3. CASE Fails(c)
  BY <1>3, OnwardIsRun, CollectorStep DEF Fails, corpusVars, Shape
<1>4. CASE AlreadyHeld(c)
  <2>1. File(c) \in Files /\ Item(c) \in Items
    BY <1>4, ItemOfBatch DEF AlreadyHeld
  <2>2. title' \in [DocIds -> Titles]
    BY <1>4, <2>1, CollectionAssumption DEF AlreadyHeld, Shape
  <2> QED
    BY <1>4, <2>2, OnwardIsRun, CollectorStep DEF AlreadyHeld
<1> QED
  BY <1>1, <1>2, <1>3, <1>4

(* A run that has looked remembers a document or none.                     *)
LEMMA LookIsRun ==
  ASSUME Shape, NEW c \in Collectors, Look(c)
  PROVE  \E n \in Run : /\ collector' = [collector EXCEPT ![c] = n]
                        /\ n.pc = "storing" /\ n.batch = collector[c].batch
<1>1. PICK d \in DocIds \cup {NoDoc} :
        collector' = [collector EXCEPT
          ![c].pc = "storing", ![c].doc = d,
          ![c].renew = d # NoDoc /\ Better(Item(c), d)]
  BY DEF Look
<1> DEFINE r == d # NoDoc /\ Better(Item(c), d)
<1>2. r \in BOOLEAN
  BY DEF Better
<1>3. collector' = [collector EXCEPT ![c].pc = "storing", ![c].doc = d, ![c].renew = r]
  BY <1>1
<1> HIDE DEF r
<1> DEFINE n == [collector[c] EXCEPT !.pc = "storing", !.doc = d, !.renew = r]
<1>4. collector[c] \in Run
  BY DEF Shape
<1>5. n \in Run /\ n.pc = "storing" /\ n.batch = collector[c].batch
  BY <1>2, <1>4 DEF Run
<1>6. collector' = [collector EXCEPT ![c] = n]
  BY <1>3
<1> QED
  BY <1>5, <1>6

(* Looking and storing change one run, and add to the store.               *)
LEMMA StoreSteps ==
  ASSUME CorpusInv, NEW c \in Collectors, Look(c) \/ Store(c)
  PROVE  CorpusInv'
<1>0. Shape
  BY DEF CorpusInv
<1> USE DEF CorpusInv
<1>1. collector[c].batch # {}
  BY DEF Look, Store, StoredBeforeCommit
<1>2. File(c) \in Files
  BY <1>1, ItemOfBatch
<1>3. UNCHANGED <<number, title, owner, origin, pruning>> /\ storage \subseteq storage'
  BY DEF Look, Store, Stored, corpusVars
<1>4. storage' \subseteq Files
  BY <1>2 DEF Look, Store, Stored, Shape
<1>5. /\ collector' \in [Collectors -> Run]
      /\ \A e \in Collectors : collector'[e].batch = collector[e].batch
      /\ \A e \in Collectors : e # c => collector'[e] = collector[e]
  <2>1. CASE Store(c)
    BY <2>1 DEF Store, Shape, Run
  <2>2. CASE Look(c)
    <3>1. PICK n \in Run : /\ collector' = [collector EXCEPT ![c] = n]
                           /\ n.batch = collector[c].batch
      BY <2>2, <1>0, LookIsRun
    <3> QED
      BY <3>1, <1>0 DEF Shape
  <2> QED
    BY <2>1, <2>2
<1>6. collector'[c].pc = "storing" \/ (collector'[c].pc = "committing" /\ File(c) \in storage')
  <2>1. CASE Store(c)
    BY <2>1 DEF Store, Stored, Shape, Run
  <2>2. CASE Look(c)
    BY <2>2, LookIsRun DEF Shape
  <2> QED
    BY <2>1, <2>2
<1>7. \A e \in Collectors : File(e)' = File(e)
  BY <1>5 DEF File, Item
<1>8. StoredBeforeCommit'
  <2> SUFFICES ASSUME NEW e \in Collectors
               PROVE  /\ collector'[e].pc \in {"storing", "committing"} => collector'[e].batch # {}
                      /\ collector'[e].pc = "committing" => File(e)' \in storage'
    BY DEF StoredBeforeCommit
  <2>1. CASE e = c
    BY <2>1, <1>1, <1>5, <1>6, <1>7
  <2>2. CASE e # c
    BY <2>2, <1>3, <1>5, <1>7 DEF StoredBeforeCommit
  <2> QED
    BY <2>1, <2>2
<1>9. Shape'
  BY <1>3, <1>4, <1>5 DEF Shape
<1> QED
  BY <1>3, <1>8, <1>9 DEF NumbersAreUnique, EveryDocumentHasAFile, RawIsStored,
    VersionsHaveSources, ListedMayGo, MayGo, IsSample, FilesOf, Documents, Held

(* The commit of a version, under a new document or one still there.       *)
LEMMA CommitStep ==
  ASSUME CorpusInv, NEW c \in Collectors, Commit(c)
  PROVE  CorpusInv'
<1> USE DEF CorpusInv
<1> DEFINE new == collector[c].doc = NoDoc
           d == IF new THEN NewId ELSE collector[c].doc
           i == Item(c)
           f == File(c)
<1>1. collector[c].batch # {}
  BY DEF Commit, StoredBeforeCommit
<1>2. i \in Items /\ f \in Files /\ NumberOf[i] \in Numbers /\ TitleOf[i] \in Titles
  BY <1>1, ItemOfBatch, CollectionAssumption
<1>3. /\ owner' = [owner EXCEPT ![f] = d]
      /\ origin' = [origin EXCEPT ![f] = i]
      /\ number' = [number EXCEPT ![d] = IF new THEN NumberOf[i] ELSE @]
      /\ title' = [title EXCEPT ![d] = IF new \/ collector[c].renew THEN TitleOf[i] ELSE @]
      /\ collector' = [collector EXCEPT ![c] = Onward(c)]
      /\ UNCHANGED <<storage, pruning>>
      /\ f \notin Held /\ f \in storage
  BY DEF Commit, Allowed, StoredBeforeCommit
<1>4. \/ new /\ d \in DocIds \ (Documents \cup pruning) /\ NumberOf[i] \notin Known
      \/ ~new /\ d \in Documents
  BY NewIdIsFresh DEF Commit, Allowed
<1>5. d \in DocIds
  BY <1>4 DEF Documents
<1> HIDE DEF new, d, i, f
<1>6. Shape'
  <2>1. collector' \in [Collectors -> Run]
    BY <1>3, OnwardIsRun DEF Shape
  <2> QED
    BY <1>2, <1>3, <1>5, <2>1 DEF Shape
<1>7. /\ Documents' = Documents \cup {d}
      /\ \A e \in DocIds \ {d} : number'[e] = number[e]
      /\ number'[d] = IF new THEN NumberOf[i] ELSE number[d]
  BY <1>2, <1>3, <1>4, <1>5, CollectionAssumption DEF Documents, Shape
<1>8. NumbersAreUnique'
  BY <1>4, <1>5, <1>7 DEF NumbersAreUnique, Known, Documents
<1>9. Held' = Held \cup {f} /\ \A g \in Held : owner'[g] = owner[g] /\ owner'[f] = d
  BY <1>2, <1>3, <1>5, CollectionAssumption DEF Held, Shape
<1>10. owner'[f] = d
  BY <1>2, <1>3 DEF Shape
<1>11. EveryDocumentHasAFile'
  BY <1>7, <1>9, <1>10 DEF EveryDocumentHasAFile
<1>12. RawIsStored'
  BY <1>3, <1>9 DEF RawIsStored
<1>13. VersionsHaveSources' /\ ListedMayGo'
  <2>1. origin'[f] = i /\ \A g \in Held : origin'[g] = origin[g]
    BY <1>2, <1>3 DEF Shape, Held
  <2>2. VersionsHaveSources'
    BY <1>2, <1>9, <2>1 DEF VersionsHaveSources
  <2>3. ASSUME NEW e \in pruning PROVE MayGo(e)'
    <3>1. number'[e] = number[e]
      BY <1>3, <1>4, <1>5, <1>7, <2>3 DEF Shape
    <3>2. IsSample(e) => IsSample(e)'
      BY <1>9, <2>1 DEF IsSample, FilesOf
    <3> QED
      BY <2>3, <3>1, <3>2 DEF ListedMayGo, MayGo
  <2> QED
    BY <1>3, <2>2, <2>3 DEF ListedMayGo
<1>14. StoredBeforeCommit'
  <2>1. \A e \in Collectors : e # c => collector'[e] = collector[e]
    BY <1>3 DEF Shape
  <2>2. collector'[c].pc = "downloading"
    BY <1>3, OnwardIsRun DEF Shape
  <2> QED
    BY <1>3, <2>1, <2>2 DEF StoredBeforeCommit, File, Item
<1> QED
  BY <1>6, <1>8, <1>11, <1>12, <1>13, <1>14

(* A correction moves files from one document to another.                  *)
LEMMA CorrectStep ==
  ASSUME CorpusInv, NEW b \in Corrections, Correct(b)
  PROVE  /\ CorpusInv'
         /\ \A f \in Held :
              \/ owner'[f] = owner[f]
              \/ owner'[f] \in DocIds /\ f \in Moved(b) /\ number'[owner'[f]] = b.to
<1> USE DEF CorpusInv
<1>1. b.from \in Numbers /\ b.to \in Numbers /\ b.from # b.to
  BY CollectionAssumption
<1>2. PICK old \in DocIds, new \in DocIds :
        /\ old \in Documents /\ number[old] = b.from
        /\ IF b.to \in Known
           THEN new \in Documents /\ number[new] = b.to
           ELSE Fresh # {} /\ new = NewId
        /\ owner' = [f \in Files |-> IF f \in Moved(b) THEN new ELSE owner[f]]
        /\ number' = [d \in DocIds |->
             IF d \in Emptied(b) THEN NoNumber ELSE IF d = new THEN b.to ELSE number[d]]
        /\ title' = [d \in DocIds |->
             IF d \in Emptied(b) THEN "weak"
             ELSE IF d = new /\ b.to \notin Known THEN title[old] ELSE title[d]]
  BY DEF Correct
<1>3. UNCHANGED <<origin, storage, collector, pruning>> /\ Moved(b) # {}
  BY DEF Correct
<1>4. \/ b.to \in Known /\ new \in Documents /\ number[new] = b.to
      \/ b.to \notin Known /\ new \notin Documents /\ new \notin pruning
  BY <1>2, NewIdIsFresh
<1>5. Emptied(b) \subseteq Documents /\ \A d \in Emptied(b) : number[d] = b.from
  BY DEF Emptied, Moved, FilesOf
<1>6. new \notin Emptied(b)
  BY <1>1, <1>4, <1>5
<1>7. /\ Documents' = (Documents \ Emptied(b)) \cup {new}
      /\ \A d \in Documents' : number'[d] = IF d = new THEN b.to ELSE number[d]
  BY <1>1, <1>2, <1>6, CollectionAssumption DEF Documents
<1>8. NumbersAreUnique'
  <2> SUFFICES ASSUME NEW d \in Documents', NEW e \in Documents', number'[d] = number'[e]
               PROVE  d = e
    BY DEF NumbersAreUnique
  <2>1. CASE d # new /\ e # new
    BY <2>1, <1>7 DEF NumbersAreUnique
  <2>2. CASE d = new /\ e # new
    BY <2>2, <1>4, <1>7 DEF NumbersAreUnique, Known
  <2>3. CASE d # new /\ e = new
    BY <2>3, <1>4, <1>7 DEF NumbersAreUnique, Known
  <2> QED
    BY <2>1, <2>2, <2>3
<1>9. Shape'
  BY <1>1, <1>2, <1>3, CollectionAssumption DEF Shape, Titles
<1>10. Held' = Held
  BY <1>2, CollectionAssumption DEF Held, Moved, Shape
<1>11. \A f \in Held : owner'[f] = IF f \in Moved(b) THEN new ELSE owner[f]
  BY <1>2 DEF Held
<1>12. EveryDocumentHasAFile'
  <2>1. \A f \in Held : owner'[f] \in Documents'
    <3> TAKE f \in Held
    <3>1. owner[f] \in Documents
      BY DEF EveryDocumentHasAFile
    <3>2. f \notin Moved(b) => owner[f] \notin Emptied(b)
      BY DEF Emptied, FilesOf
    <3> QED
      BY <3>1, <3>2, <1>7, <1>11
  <2>2. \A d \in Documents' : \E f \in Held : owner'[f] = d
    <3> TAKE d \in Documents'
    <3>1. CASE d = new
      BY <3>1, <1>3, <1>11 DEF Moved
    <3>2. CASE d # new
      <4>1. d \in Documents /\ d \notin Emptied(b)
        BY <3>2, <1>7
      <4>2. PICK f \in Held : owner[f] = d
        BY <4>1 DEF EveryDocumentHasAFile
      <4>3. PICK g \in FilesOf(d) : g \notin Moved(b)
        BY <4>1, <4>2 DEF Emptied, FilesOf
      <4> QED
        BY <4>3, <1>11 DEF FilesOf
    <3> QED
      BY <3>1, <3>2
  <2> QED
    BY <2>1, <2>2, <1>10 DEF EveryDocumentHasAFile
<1>13. RawIsStored' /\ StoredBeforeCommit'
  BY <1>3, <1>10 DEF RawIsStored, StoredBeforeCommit, File, Item
<1>14. VersionsHaveSources' /\ ListedMayGo'
  <2>1. VersionsHaveSources'
    BY <1>3, <1>10 DEF VersionsHaveSources
  <2>2. ASSUME NEW d \in pruning PROVE MayGo(d)'
    <3>1. d \in DocIds /\ MayGo(d)
      BY <2>2 DEF Shape, ListedMayGo
    <3>2. number'[d] = IF d \in Emptied(b) THEN NoNumber
                       ELSE IF d = new THEN b.to ELSE number[d]
      BY <1>2, <3>1
    <3>3. CASE d \in Emptied(b)
      BY <3>2, <3>3, CollectionAssumption DEF MayGo
    <3>4. CASE d \notin Emptied(b)
      <4>1. number'[d] = number[d]
        BY <1>4, <2>2, <3>2, <3>4
      <4>2. ASSUME IsSample(d) PROVE IsSample(d)'
        <5>1. PICK f \in Held : owner[f] = d /\ origin[f] \in Seed
          BY <4>2 DEF IsSample, FilesOf
        <5>2. f \notin Moved(b)
          <6>1. CASE b.items \cap Seed = {}
            BY <5>1, <6>1 DEF Moved
          <6>2. CASE b.items = Items
            <7>1. number[d] = b.from => FilesOf(d) \subseteq Moved(b)
              BY <6>2 DEF FilesOf, Moved, VersionsHaveSources
            <7>2. d \in Documents /\ f \in FilesOf(d)
              BY <5>1 DEF EveryDocumentHasAFile, FilesOf
            <7>3. number[d] # b.from
              BY <3>4, <7>1, <7>2 DEF Emptied
            <7> QED
              BY <5>1, <7>3 DEF Moved
          <6> QED
            BY <6>1, <6>2, CollectionAssumption
        <5> QED
          BY <1>3, <1>10, <1>11, <5>1, <5>2 DEF IsSample, FilesOf
      <4> QED
        BY <3>1, <4>1, <4>2 DEF MayGo
    <3> QED
      BY <3>3, <3>4
  <2> QED
    BY <1>3, <2>1, <2>2 DEF ListedMayGo
<1>15. \A f \in Held : \/ owner'[f] = owner[f]
                       \/ owner'[f] \in DocIds /\ f \in Moved(b) /\ number'[owner'[f]] = b.to
  BY <1>7, <1>11
<1> QED
  BY <1>8, <1>9, <1>12, <1>13, <1>14, <1>15

(* A deletion takes a listed document with all its files.                  *)
LEMMA PruneStep ==
  ASSUME CorpusInv, NEW d \in DocIds, PruneDeletes(d)
  PROVE  /\ CorpusInv'
         /\ \A f \in Held : owner'[f] = owner[f] \/ owner[f] = d
<1> USE DEF CorpusInv
<1>1. /\ owner' = [f \in Files |-> IF f \in FilesOf(d) THEN NoDoc ELSE owner[f]]
      /\ origin' = [f \in Files |-> IF f \in FilesOf(d) THEN 0 ELSE origin[f]]
      /\ number' = [number EXCEPT ![d] = NoNumber]
      /\ title' = [title EXCEPT ![d] = "weak"]
      /\ pruning' = pruning \ {d}
      /\ UNCHANGED <<storage, collector>>
  BY DEF PruneDeletes, Deleted
<1>2. Shape'
  BY <1>1 DEF Shape, Titles
<1>3. /\ Documents' = Documents \ {d}
      /\ \A e \in Documents' : number'[e] = number[e]
  BY <1>1 DEF Documents, Shape
<1>4. /\ Held' = Held \ FilesOf(d)
      /\ \A f \in Held' : owner'[f] = owner[f]
  BY <1>1 DEF Held, FilesOf
<1>5. NumbersAreUnique'
  BY <1>3 DEF NumbersAreUnique
<1>6. EveryDocumentHasAFile'
  BY <1>3, <1>4 DEF EveryDocumentHasAFile, FilesOf
<1>7. RawIsStored' /\ StoredBeforeCommit'
  BY <1>1, <1>4 DEF RawIsStored, StoredBeforeCommit, File, Item
<1>8. VersionsHaveSources' /\ ListedMayGo'
  <2>1. \A f \in Held' : f \in Held /\ origin'[f] = origin[f]
    BY <1>1, <1>4 DEF Held
  <2>2. ASSUME NEW e \in pruning' PROVE MayGo(e)'
    <3>1. e \in pruning /\ e # d /\ number'[e] = number[e]
      BY <1>1, <2>2 DEF Shape
    <3>2. FilesOf(e) \subseteq FilesOf(e)'
      BY <1>4, <3>1 DEF FilesOf
    <3>3. IsSample(e) => IsSample(e)'
      BY <2>1, <3>2 DEF IsSample, FilesOf
    <3> QED
      BY <3>1, <3>3 DEF ListedMayGo, MayGo
  <2> QED
    BY <2>1, <2>2 DEF VersionsHaveSources, ListedMayGo
<1>9. \A f \in Held : owner'[f] = owner[f] \/ owner[f] = d
  BY <1>1 DEF FilesOf, Held
<1> QED
  BY <1>2, <1>5, <1>6, <1>7, <1>8, <1>9

LEMMA InitInv == Init => CorpusInv
<1> SUFFICES ASSUME Init PROVE CorpusInv
  OBVIOUS
<1> USE DEF Init
<1>1. Shape
  BY DEF Shape, Titles, Run, Idle
<1>2. Held = {} /\ Documents = {}
  BY DEF Held, Documents
<1>3. NumbersAreUnique /\ EveryDocumentHasAFile /\ RawIsStored
        /\ VersionsHaveSources /\ ListedMayGo
  BY <1>2 DEF NumbersAreUnique, EveryDocumentHasAFile, RawIsStored,
    VersionsHaveSources, ListedMayGo
<1>4. StoredBeforeCommit
  BY DEF StoredBeforeCommit, Idle
<1> QED
  BY <1>1, <1>3, <1>4 DEF CorpusInv

(* What a step may do to a version: CollectedStays without its box.        *)
KeepsCollected ==
  \A f \in Held :
    /\ owner'[f] = NoDoc =>
         /\ owner[f] \in pruning
         /\ number[owner[f]] \notin Curated
         /\ number[owner[f]] \in Protected => IsSample(owner[f])
    /\ owner'[f] \notin {NoDoc, owner[f]} =>
         \E b \in Corrections : f \in Moved(b) /\ number'[owner'[f]] = b.to

LEMMA NextInv == CorpusInv /\ [Next]_vars => CorpusInv' /\ KeepsCollected
<1> SUFFICES ASSUME CorpusInv, [Next]_vars
             PROVE  CorpusInv' /\ KeepsCollected
  OBVIOUS
<1>1. ASSUME UNCHANGED owner PROVE KeepsCollected
  BY <1>1 DEF KeepsCollected, Held
<1>2. CASE UNCHANGED vars
  BY <1>1, <1>2 DEF vars, corpusVars, CorpusInv, Shape, NumbersAreUnique,
    EveryDocumentHasAFile, RawIsStored, StoredBeforeCommit, VersionsHaveSources,
    ListedMayGo, MayGo, IsSample, FilesOf, Documents, Held, File, Item
<1>3. ASSUME NEW c \in Collectors,
             (\E kind \in Kinds : StartRun(c, kind)) \/ EndRun(c) \/ Fails(c)
               \/ AlreadyHeld(c) \/ Die(c)
      PROVE  CorpusInv' /\ KeepsCollected
  BY <1>1, <1>3, RunSteps DEF StartRun, EndRun, Fails, AlreadyHeld, Die, corpusVars
<1>4. ASSUME NEW c \in Collectors, Look(c) \/ Store(c)
      PROVE  CorpusInv' /\ KeepsCollected
  BY <1>1, <1>4, StoreSteps DEF Look, Store, corpusVars
<1>5. ASSUME NEW c \in Collectors, Commit(c)
      PROVE  CorpusInv' /\ KeepsCollected
  <2>1. owner' = [owner EXCEPT ![File(c)] =
                    IF collector[c].doc = NoDoc THEN NewId ELSE collector[c].doc]
    BY <1>5 DEF Commit
  <2>2. File(c) \notin Held
    BY <1>5 DEF Commit, Allowed
  <2>3. \A f \in Held : owner'[f] = owner[f] /\ owner[f] # NoDoc
    BY <2>1, <2>2 DEF CorpusInv, Shape, Held
  <2> QED
    BY <1>5, <2>3, CommitStep DEF KeepsCollected
<1>6. ASSUME NEW b \in Corrections, Correct(b)
      PROVE  CorpusInv' /\ KeepsCollected
  BY <1>6, CorrectStep, CollectionAssumption DEF KeepsCollected, Held
<1>7. CASE PruneLists
  <2>1. \A d \in pruning' : d \in DocIds /\ MayGo(d)
    BY <1>7 DEF PruneLists, NonTax, MayGo, Documents
  <2> QED
    BY <1>1, <1>7, <2>1 DEF PruneLists, corpusVars, CorpusInv, Shape, NumbersAreUnique,
      EveryDocumentHasAFile, RawIsStored, StoredBeforeCommit, VersionsHaveSources,
      ListedMayGo, MayGo, IsSample, FilesOf, Documents, Held, File, Item
<1>8. CASE PruneDies
  BY <1>1, <1>8 DEF PruneDies, corpusVars, CorpusInv, Shape, NumbersAreUnique,
    EveryDocumentHasAFile, RawIsStored, StoredBeforeCommit, VersionsHaveSources,
    ListedMayGo, MayGo, IsSample, FilesOf, Documents, Held, File, Item
<1>9. ASSUME NEW d \in DocIds, PruneDeletes(d)
      PROVE  CorpusInv' /\ KeepsCollected
  <2>1. d \in pruning /\ MayGo(d)
    BY <1>9 DEF PruneDeletes, CorpusInv, ListedMayGo
  <2> QED
    BY <1>9, <2>1, PruneStep DEF KeepsCollected, MayGo, Held, PruneDeletes
<1> QED
  BY <1>2, <1>3, <1>4, <1>5, <1>6, <1>7, <1>8, <1>9 DEF Next, Progress

-----------------------------------------------------------------------------

(* The invariant the theorems below follow from.                           *)
THEOREM CorpusIsSafe == Spec => []CorpusInv
<1> QED
  BY InitInv, NextInv, PTL DEF Spec

(* Whatever runs overlap and wherever they are cut off: no document is     *)
(* without a version and no version without its document                   *)
(* (ingest_seed_document, correct, _delete_document).                      *)
THEOREM DocumentsHaveFiles == Spec => []EveryDocumentHasAFile
<1>1. CorpusInv => EveryDocumentHasAFile
  BY DEF CorpusInv
<1> QED
  BY <1>1, CorpusIsSafe, PTL

(* A version is never there before its raw file is (put_bytes comes before *)
(* the commit of ingest_seed_document).                                    *)
THEOREM FilesAreStored == Spec => []RawIsStored
<1>1. CorpusInv => RawIsStored
  BY DEF CorpusInv
<1> QED
  BY <1>1, CorpusIsSafe, PTL

(* Although a prune run deletes from a list it made earlier, while others  *)
(* collect and correct, it takes no version of a curated number, and of a  *)
(* finance issuer's only where a sample document is among the versions;    *)
(* and a version changes its document only by a reviewed correction.       *)
THEOREM CollectedIsKept == Spec => CollectedStays
<1>1. CorpusInv /\ [Next]_vars => [KeepsCollected]_vars
  BY NextInv
<1> QED
  BY <1>1, CorpusIsSafe, PTL DEF Spec, CollectedStays, KeepsCollected

-----------------------------------------------------------------------------
(* How the portals are listed.                                             *)

RunRecords ==
  [pc : {"idle", "reading", "done", "unavailable"},
   selection : 1 .. Len(Selections), page : Nat \ {0}, attempt : Nat,
   records : SUBSET Records, there : SUBSET Records, shifted : BOOLEAN]

(* The values the variables take.                                          *)
MinistryShape ==
  /\ seen \in SUBSET Records /\ IsFiniteSet(seen)
  /\ portal \in SUBSET seen
  /\ run \in RunRecords
  /\ cache \in [records : SUBSET Records, age : 0 .. Day,
                there : SUBSET Records, shifted : BOOLEAN]

(* While nothing is withdrawn: the selections already read are listed, and *)
(* of the one being read whatever is not listed yet still lies on a page   *)
(* to come, as publishing only moves it back.                              *)
ReadSoFar ==
  run.pc = "reading" /\ ~run.shifted =>
    /\ run.there \subseteq portal
    /\ \A s \in 1 .. run.selection - 1 : run.there \cap Selections[s] \subseteq run.records
    /\ \A r \in run.there \cap Selections[run.selection] :
         r \in run.records \/ (run.page - 1) * PageSize <= Cardinality(Ahead(r))

(* The listing kept is one that missed nothing.                            *)
CacheIsWhole ==
  ~cache.shifted =>
    cache.there \cap Wanted \cap UNION ToSet(Selections) \subseteq cache.records

MinistryInv == MinistryShape /\ ReadSoFar /\ CacheIsWhole /\ ListingMissesNothing

(* What the assumption on the constants comes to.                          *)
LEMMA Bounds ==
  /\ Len(Selections) \in Nat \ {0} /\ Len(Years) \in Nat \ {0}
  /\ Len(Issuers) \in Nat \ {0}
  /\ PageSize \in Nat \ {0} /\ Retries \in Nat \ {0} /\ Day \in Nat \ {0}
BY ListingAssumption

LEMMA FirstOnes ==
  /\ 1 \in Nat \ {0} /\ 1 \in Nat
  /\ 1 \in 1 .. Len(Selections) /\ 1 \in 1 .. Len(Years)
BY Bounds

PlacesCounted == \A r : IsFiniteSet(Ahead(r)) /\ Cardinality(Ahead(r)) \in Nat

(* The answer is finite, in an order, and newer records only push a record *)
(* back.                                                                   *)
LEMMA AnswerIsSorted ==
  ASSUME MinistryShape
  PROVE  /\ IsFiniteSet(Selected) /\ Cardinality(Selected) \in Nat
         /\ IsOrder(Selected, [r \in Selected |-> Ahead(r)])
         /\ PlacesCounted
<1>1. Selected \in SUBSET seen /\ Selected \subseteq Nat
  BY ListingAssumption DEF Selected, MinistryShape
<1>2. IsFiniteSet(Selected) /\ Cardinality(Selected) \in Nat
  BY <1>1, FS_Subset, FS_CardinalityType DEF MinistryShape
<1>3. \A r : Ahead(r) \in SUBSET Selected
  BY DEF Ahead
<1>4. \A r : IsFiniteSet(Ahead(r)) /\ Cardinality(Ahead(r)) \in Nat
  BY <1>2, <1>3, FS_Subset, FS_CardinalityType
<1> DEFINE ahead == [r \in Selected |-> Ahead(r)]
<1>5. ahead \in [Selected -> SUBSET Selected]
  BY <1>3
<1>6. /\ \A x \in Selected : x \notin ahead[x]
      /\ \A x, y, z \in Selected : z \in ahead[y] /\ y \in ahead[x] => z \in ahead[x]
      /\ \A x, y \in Selected : x # y => x \in ahead[y] \/ y \in ahead[x]
  BY <1>1 DEF Ahead
<1> QED
  BY <1>2, <1>4, <1>5, <1>6 DEF IsOrder, PlacesCounted

LEMMA PlacesAreCounted == MinistryShape => PlacesCounted
BY AnswerIsSorted

(* The stop rule is right: behind a last page nothing is left.  A page     *)
(* that is not full has nobody behind it, since the places 1 to n are all  *)
(* taken.                                                                  *)
LEMMA LastPageIsLast ==
  ASSUME MinistryShape, LastPage,
         NEW r \in Selected, (run.page - 1) * PageSize <= Cardinality(Ahead(r))
  PROVE  r \in Shown
<1> DEFINE ahead == [x \in Selected |-> Ahead(x)]
           low == (run.page - 1) * PageSize
           high == run.page * PageSize
           n == Cardinality(Selected)
<1>1. /\ IsFiniteSet(Selected) /\ n \in Nat
      /\ IsOrder(Selected, ahead)
      /\ \A x : Cardinality(Ahead(x)) \in Nat
  BY AnswerIsSorted DEF PlacesCounted
<1>2. run.page \in Nat \ {0} /\ PageSize \in Nat \ {0}
  BY ListingAssumption DEF MinistryShape, RunRecords
<1>3. low \in Nat /\ high \in Nat /\ high = low + PageSize
  <2>1. ASSUME NEW a \in Nat, NEW b \in Nat
        PROVE  a * b \in Nat /\ (a + 1) * b \in Nat /\ (a + 1) * b = a * b + b
    OBVIOUS
  <2>2. run.page - 1 \in Nat /\ (run.page - 1) + 1 = run.page
    BY <1>2
  <2>3. /\ (run.page - 1) * PageSize \in Nat
        /\ ((run.page - 1) + 1) * PageSize \in Nat
        /\ ((run.page - 1) + 1) * PageSize = (run.page - 1) * PageSize + PageSize
    BY <1>2, <2>1, <2>2
  <2> QED
    BY <2>2, <2>3
<1>4. /\ \A x \in Selected : Rank(ahead, x) \in 1 .. n
      /\ \A i \in 1 .. n : \E x \in Selected : Rank(ahead, x) = i
  BY <1>1, RanksAreRanks
<1>5. \A x \in Selected : Rank(ahead, x) = Cardinality(Ahead(x)) + 1
  BY DEF Rank
<1>6. Shown = {x \in Selected : low <= Cardinality(Ahead(x)) /\ Cardinality(Ahead(x)) < high}
  BY DEF Shown
<1>0. Cardinality(Shown) < PageSize \/ high >= n
  BY DEF LastPage
<1>a. low <= Cardinality(Ahead(r))
  OBVIOUS
<1> HIDE DEF low, high, n
<1>7. SUFFICES ASSUME high <= Cardinality(Ahead(r))
               PROVE  FALSE
  BY <1>1, <1>3, <1>6, <1>a
<1>8. high + 1 <= n
  BY <1>1, <1>3, <1>4, <1>5, <1>7
<1>9. Cardinality(Shown) < PageSize
  BY <1>8, <1>0, <1>1, <1>3
<1> DEFINE places == low + 1 .. high
           at == [i \in places |-> CHOOSE x \in Selected : Rank(ahead, x) = i]
<1>10. ASSUME NEW i \in places
       PROVE  at[i] \in Shown /\ Rank(ahead, at[i]) = i
  <2>1. i \in 1 .. n
    BY <1>1, <1>2, <1>3, <1>8
  <2>2. at[i] \in Selected /\ Rank(ahead, at[i]) = i
    BY <2>1, <1>4
  <2>3. low <= Cardinality(Ahead(at[i])) /\ Cardinality(Ahead(at[i])) < high
    <3>1. Cardinality(Ahead(at[i])) + 1 = i /\ Cardinality(Ahead(at[i])) \in Nat
      BY <2>2, <1>1, <1>5
    <3> QED
      BY <3>1, <1>3
  <2> QED
    BY <2>2, <2>3, <1>6
<1>11. at \in Injection(places, Shown)
  <2>1. at \in [places -> Shown]
    BY <1>10
  <2>2. \A i, j \in places : at[i] = at[j] => i = j
    BY <1>10
  <2> QED
    BY <2>1, <2>2 DEF Injection, IsInjective
<1>12. IsFiniteSet(Shown) /\ Cardinality(Shown) \in Nat
  <2>1. Shown \in SUBSET Selected
    BY <1>6
  <2> QED
    BY <2>1, <1>1, FS_Subset, FS_CardinalityType
<1>13. Cardinality(places) <= Cardinality(Shown)
  BY <1>11, <1>12, FS_Injection
<1>14. Cardinality(places) = PageSize
  <2>1. low + 1 \in Int /\ high \in Int
    BY <1>3
  <2>2. Cardinality(places) = IF low + 1 > high THEN 0 ELSE high - (low + 1) + 1
    BY <2>1, FS_Interval
  <2> QED
    BY <2>2, <1>2, <1>3
<1> QED
  BY <1>2, <1>9, <1>12, <1>13, <1>14

(* A page read: of the selection, what is not listed lies on the next      *)
(* pages, and behind the last one there is nothing.                        *)
LEMMA PageRead ==
  ASSUME MinistryInv, run.pc = "reading", ~run.shifted,
         NEW r \in run.there \cap Selections[run.selection]
  PROVE  /\ LastPage => r \in run.records \cup Shown
         /\ r \in run.records \cup Shown \/ run.page * PageSize <= Cardinality(Ahead(r))
<1>1. r \in Selected
  BY DEF MinistryInv, ReadSoFar, Selected
<1>2. r \in run.records \/ (run.page - 1) * PageSize <= Cardinality(Ahead(r))
  BY DEF MinistryInv, ReadSoFar
<1>3. LastPage => r \in run.records \cup Shown
  BY <1>1, <1>2, LastPageIsLast DEF MinistryInv
<1>4. Cardinality(Ahead(r)) \in Nat
  BY PlacesAreCounted DEF MinistryInv, PlacesCounted
<1>6. run.page * PageSize \in Nat
  BY Bounds DEF MinistryInv, MinistryShape, RunRecords
<1>5. r \in run.records \cup Shown \/ run.page * PageSize <= Cardinality(Ahead(r))
  BY <1>1, <1>2, <1>4, <1>6 DEF Shown
<1> QED
  BY <1>3, <1>5

LEMMA MinistryStart == ListingInit => MinistryInv
<1> SUFFICES ASSUME ListingInit
             PROVE  MinistryInv
  OBVIOUS
<1>1. MinistryShape
  <2>1. IsFiniteSet({})
    BY FS_EmptySet
  <2>2. run \in RunRecords
    BY FirstOnes DEF ListingInit, NotListing, Reading, RunRecords
  <2> QED
    BY <2>1, <2>2, ListingAssumption DEF ListingInit, NoListing, MinistryShape
<1>2. ReadSoFar /\ CacheIsWhole /\ ListingMissesNothing
  BY DEF ListingInit, NotListing, Reading, NoListing, ReadSoFar, CacheIsWhole,
         ListingMissesNothing
<1> QED
  BY <1>1, <1>2 DEF MinistryInv

LEMMA PublishStep ==
  ASSUME MinistryInv, NEW r \in Records, Publish(r)
  PROVE  MinistryInv'
<1>1. MinistryShape'
  <2>1. IsFiniteSet(seen \cup {r})
    BY FS_AddElement DEF MinistryInv, MinistryShape
  <2> QED
    BY <2>1 DEF MinistryInv, MinistryShape, Publish
<1>2. \A x : Ahead(x) \in SUBSET Ahead(x)'
  BY DEF Publish, Ahead, Selected
<1>7. PlacesCounted'
  BY <1>1, PlacesAreCounted, PTL
<1>3. \A x : IsFiniteSet(Ahead(x)') /\ Cardinality(Ahead(x)') \in Nat
  BY <1>7 DEF PlacesCounted
<1>4. \A x : Cardinality(Ahead(x)) <= Cardinality(Ahead(x)')
  BY <1>2, <1>3, FS_Subset
<1>5. ReadSoFar'
  <2> SUFFICES ASSUME (run.pc = "reading" /\ ~run.shifted)'
               PROVE  /\ run.there \subseteq portal'
                      /\ \A s \in 1 .. run.selection - 1 :
                           run.there \cap Selections[s] \subseteq run.records
                      /\ \A x \in run.there \cap Selections[run.selection] :
                           \/ x \in run.records
                           \/ (run.page - 1) * PageSize <= Cardinality(Ahead(x)')
    BY DEF ReadSoFar, Publish
  <2>1. (run.page - 1) * PageSize \in Nat
    <3>1. run.page - 1 \in Nat
      BY DEF MinistryInv, MinistryShape, RunRecords
    <3> QED
      BY <3>1, Bounds
  <2>2. \A x : Cardinality(Ahead(x)) \in Nat
    BY PlacesAreCounted DEF MinistryInv, PlacesCounted
  <2> QED
    BY <1>3, <1>4, <2>1, <2>2 DEF MinistryInv, ReadSoFar, Publish
<1>6. CacheIsWhole' /\ ListingMissesNothing'
  BY DEF Publish, MinistryInv, CacheIsWhole, ListingMissesNothing
<1> QED
  BY <1>1, <1>5, <1>6 DEF MinistryInv

LEMMA WithdrawStep ==
  ASSUME MinistryInv, NEW r \in Records, Withdraw(r)
  PROVE  MinistryInv'
<1>1. /\ portal' = portal \ {r} /\ UNCHANGED <<seen, cache>>
      /\ run' \in RunRecords
      /\ run'.pc = run.pc /\ run'.there = run.there \ {r} /\ run'.records = run.records
      /\ run'.shifted = (run.shifted \/ run.pc = "reading")
  BY DEF MinistryInv, MinistryShape, RunRecords, Withdraw
<1>2. MinistryShape'
  BY <1>1 DEF MinistryInv, MinistryShape
<1>3. ReadSoFar' /\ CacheIsWhole' /\ ListingMissesNothing'
  BY <1>1 DEF MinistryInv, ReadSoFar, CacheIsWhole, ListingMissesNothing
<1> QED
  BY <1>2, <1>3 DEF MinistryInv

LEMMA ReadPageStep ==
  ASSUME MinistryInv, ReadPage
  PROVE  MinistryInv'
<1> DEFINE records == run.records \cup Shown
<1>1. /\ run \in RunRecords /\ Len(Selections) \in Nat \ {0} /\ PageSize \in Nat
      /\ run.pc = "reading" /\ UNCHANGED <<portal, seen>>
  BY Bounds DEF MinistryInv, MinistryShape, ReadPage
<1>6. /\ run.page \in Nat /\ run.page + 1 \in Nat \ {0} /\ run.page + 1 - 1 = run.page
      /\ run.selection \in 1 .. Len(Selections)
  BY <1>1 DEF RunRecords
<1>2. records \in SUBSET Records
  BY <1>1 DEF MinistryInv, MinistryShape, RunRecords, Shown, Selected
<1>3. CASE ~LastPage
  <2>1. /\ run' = [run EXCEPT !.page = @ + 1, !.attempt = 1, !.records = records]
        /\ cache' = cache
    BY <1>3 DEF ReadPage
  <2> DEFINE next == run.page + 1
  <2>5. next \in Nat \ {0} /\ next - 1 = run.page
    BY <1>6
  <2>6. run' = [run EXCEPT !.page = next, !.attempt = 1, !.records = records]
    BY <2>1
  <2> HIDE DEF next, records
  <2>7. /\ run' \in RunRecords /\ run'.pc = "reading"
        /\ run'.selection = run.selection /\ run'.page = next
        /\ run'.there = run.there /\ run'.shifted = run.shifted /\ run'.records = records
    BY <2>5, <2>6, <1>1, <1>2, FirstOnes DEF RunRecords
  <2>2. /\ run' \in RunRecords /\ run'.pc = "reading"
        /\ run'.selection = run.selection /\ run'.page - 1 = run.page
        /\ run'.there = run.there /\ run'.shifted = run.shifted /\ run'.records = records
    BY <2>5, <2>7
  <2> USE DEF records
  <2>3. \A x : Ahead(x)' = Ahead(x)
    BY <2>2, <1>1 DEF Ahead, Selected
  <2>4. ReadSoFar'
    <3> SUFFICES ASSUME ~run.shifted
                 PROVE  /\ run.there \subseteq portal
                        /\ \A s \in 1 .. run.selection - 1 :
                             run.there \cap Selections[s] \subseteq records
                        /\ \A x \in run.there \cap Selections[run.selection] :
                             x \in records \/ run.page * PageSize <= Cardinality(Ahead(x))
      BY <2>2, <2>3, <1>1 DEF ReadSoFar
    <3> QED
      BY PageRead, <1>1 DEF MinistryInv, ReadSoFar
  <2> QED
    BY <2>1, <2>2, <2>4, <1>1
       DEF MinistryInv, MinistryShape, CacheIsWhole, ListingMissesNothing
<1>4. CASE LastPage /\ run.selection < Len(Selections)
  <2>1. /\ run' = [run EXCEPT !.selection = @ + 1, !.page = 1, !.attempt = 1,
                              !.records = records]
        /\ cache' = cache
    BY <1>4 DEF ReadPage
  <2>2. /\ run' \in RunRecords /\ run'.pc = "reading"
        /\ run'.selection = run.selection + 1 /\ run'.page = 1
        /\ run'.there = run.there /\ run'.shifted = run.shifted /\ run'.records = records
    <3>1. run.selection + 1 \in 1 .. Len(Selections)
      BY <1>1, <1>4, <1>6
    <3> QED
      BY <2>1, <3>1, <1>1, <1>2, FirstOnes DEF RunRecords
  <2>3. MinistryShape'
    BY <2>1, <2>2, <1>1 DEF MinistryInv, MinistryShape
  <2>7. PlacesCounted'
    BY <2>3, PlacesAreCounted, PTL
  <2>4. \A x : Cardinality(Ahead(x)') \in Nat
    BY <2>7 DEF PlacesCounted
  <2>5. (run'.page - 1) * PageSize = 0
    BY <2>2, <1>1
  <2>6. ReadSoFar'
    <3> SUFFICES ASSUME ~run.shifted
                 PROVE  /\ run.there \subseteq portal
                        /\ \A s \in 1 .. run.selection :
                             run.there \cap Selections[s] \subseteq records
      BY <2>2, <2>4, <2>5, <1>1 DEF ReadSoFar, RunRecords
    <3>1. run.there \cap Selections[run.selection] \subseteq records
      BY PageRead, <1>1, <1>4
    <3> QED
      BY <3>1, <1>1 DEF MinistryInv, ReadSoFar, RunRecords
  <2> QED
    BY <2>1, <2>2, <2>3, <2>6 DEF MinistryInv, CacheIsWhole, ListingMissesNothing
<1>5. CASE LastPage /\ ~(run.selection < Len(Selections))
  <2> DEFINE kept == records \cap Wanted
  <2>1. /\ run' = [run EXCEPT !.pc = "done", !.records = kept]
        /\ cache' = [records |-> kept, age |-> 0, there |-> run.there,
                     shifted |-> run.shifted]
    BY <1>5 DEF ReadPage
  <2>2. run.selection = Len(Selections)
    BY <1>1, <1>5 DEF RunRecords
  <2>3. /\ run' \in RunRecords /\ run'.pc = "done"
        /\ run'.there = run.there /\ run'.shifted = run.shifted /\ run'.records = kept
    BY <2>1, <1>1, <1>2 DEF RunRecords
  <2>4. MinistryShape'
    BY SMTT(60), <2>1, <2>3, <1>1, <1>2, ListingAssumption DEF MinistryInv, MinistryShape, RunRecords
  <2>5. ~run.shifted => run.there \cap Wanted \cap UNION ToSet(Selections) \subseteq kept
    <3> SUFFICES ASSUME ~run.shifted, NEW s \in 1 .. Len(Selections)
                 PROVE  run.there \cap Selections[s] \subseteq records
      BY ListingAssumption DEF ToSet
    <3>1. CASE s = run.selection
      BY <3>1, PageRead, <1>1, <1>5
    <3>2. CASE s # run.selection
      BY <3>2, <2>2, <1>1 DEF MinistryInv, ReadSoFar
    <3> QED
      BY <3>1, <3>2
  <2> QED
    BY <2>1, <2>3, <2>4, <2>5 DEF MinistryInv, ReadSoFar, CacheIsWhole, ListingMissesNothing
<1> QED
  BY <1>3, <1>4, <1>5

LEMMA OtherMinistrySteps ==
  ASSUME MinistryInv, Reuse \/ Begin \/ RequestFails \/ NextRun \/ Tick
  PROVE  MinistryInv'
<1>1. CASE Reuse
  <2>1. /\ UNCHANGED <<portal, seen, cache>>
        /\ run' \in RunRecords /\ run'.pc = "done" /\ run'.records = cache.records
        /\ run'.there = cache.there /\ run'.shifted = cache.shifted
    BY <1>1 DEF Reuse, MinistryInv, MinistryShape, RunRecords
  <2> QED
    BY <2>1 DEF MinistryInv, MinistryShape, ReadSoFar, CacheIsWhole, ListingMissesNothing
<1>2. CASE Begin
  <2>1. /\ UNCHANGED <<portal, seen, cache>>
        /\ run' \in RunRecords /\ run'.pc = "reading" /\ run'.records = {}
        /\ run'.there = portal /\ run'.selection = 1 /\ run'.page = 1
    BY <1>2, ListingAssumption DEF Begin, Reading, MinistryInv, MinistryShape, RunRecords
  <2>2. MinistryShape'
    BY <2>1 DEF MinistryInv, MinistryShape
  <2>6. PlacesCounted'
    BY <2>2, PlacesAreCounted, PTL
  <2>3. \A x : Cardinality(Ahead(x)') \in Nat
    BY <2>6 DEF PlacesCounted
  <2>4. (run'.page - 1) * PageSize = 0
    BY <2>1, ListingAssumption
  <2>5. ReadSoFar'
    BY <2>1, <2>3, <2>4 DEF ReadSoFar
  <2> QED
    BY <2>1, <2>2, <2>5 DEF MinistryInv, CacheIsWhole, ListingMissesNothing
<1>3. CASE RequestFails /\ run.attempt < Retries
  <2>1. /\ UNCHANGED <<portal, seen, cache>>
        /\ run' = [run EXCEPT !.attempt = @ + 1]
    BY <1>3 DEF RequestFails
  <2>2. /\ run' \in RunRecords /\ run'.pc = run.pc /\ run'.records = run.records
        /\ run'.there = run.there /\ run'.selection = run.selection
        /\ run'.page = run.page /\ run'.shifted = run.shifted
    BY <2>1 DEF MinistryInv, MinistryShape, RunRecords
  <2>3. \A x : Ahead(x)' = Ahead(x)
    BY <2>1, <2>2 DEF Ahead, Selected
  <2>4. ReadSoFar'
    BY <2>1, <2>2, <2>3 DEF MinistryInv, ReadSoFar
  <2> QED
    BY <2>1, <2>2, <2>4 DEF MinistryInv, MinistryShape, CacheIsWhole, ListingMissesNothing
<1>4. CASE (RequestFails /\ ~(run.attempt < Retries)) \/ NextRun
  <2>1. /\ UNCHANGED <<portal, seen, cache>>
        /\ run' \in RunRecords /\ run'.pc \in {"idle", "unavailable"}
    BY <1>4, FirstOnes DEF RequestFails, NextRun, NotListing, Reading, RunRecords
  <2> QED
    BY <2>1 DEF MinistryInv, MinistryShape, ReadSoFar, CacheIsWhole, ListingMissesNothing
<1>5. CASE Tick
  <2>1. UNCHANGED <<portal, seen, run>>
    BY <1>5 DEF Tick
  <2>2. cache' \in [records : SUBSET Records, age : 0 .. Day,
                    there : SUBSET Records, shifted : BOOLEAN]
    BY <1>5, Bounds DEF Tick, NoListing, MinistryInv, MinistryShape
  <2>3. CacheIsWhole'
    <3>1. CASE cache' = NoListing
      BY <3>1 DEF CacheIsWhole, NoListing
    <3>2. CASE cache' = [cache EXCEPT !.age = @ + 1]
      <4>1. cache'.shifted = cache.shifted /\ cache'.there = cache.there
            /\ cache'.records = cache.records
        BY <3>2 DEF MinistryInv, MinistryShape
      <4> QED
        BY <4>1 DEF MinistryInv, CacheIsWhole
    <3> QED
      BY <3>1, <3>2, <1>5 DEF Tick
  <2>4. ReadSoFar'
    BY <2>1 DEF MinistryInv, ReadSoFar, Ahead, Selected
  <2> QED
    BY <2>1, <2>2, <2>3, <2>4 DEF MinistryInv, MinistryShape, ListingMissesNothing
<1> QED
  BY <1>1, <1>2, <1>3, <1>4, <1>5

(* For any number of records and selections and any page size: a listing   *)
(* that ends, or is used again, misses no wanted record that was there     *)
(* while it was made, unless a record was withdrawn in between.            *)
THEOREM MinistryIsListed == ListingSpec => []ListingMissesNothing
<1>1. MinistryInv /\ [ListingNext]_listingVars => MinistryInv'
  <2> SUFFICES ASSUME MinistryInv, [ListingNext]_listingVars
               PROVE  MinistryInv'
    OBVIOUS
  <2>1. CASE UNCHANGED mofVars
    BY <2>1 DEF mofVars, MinistryInv, MinistryShape, ReadSoFar, CacheIsWhole,
                ListingMissesNothing, Ahead, Selected
  <2>2. CASE MinistryNext
    BY <2>2, PublishStep, WithdrawStep, ReadPageStep, OtherMinistrySteps DEF MinistryNext
  <2> QED
    BY <2>1, <2>2 DEF ListingNext, GovernmentNext, Answer, SearchTimesOut, SkipYear,
                      listingVars
<1>2. MinistryInv => ListingMissesNothing
  BY DEF MinistryInv
<1> QED
  BY <1>1, <1>2, MinistryStart, PTL DEF ListingSpec

-----------------------------------------------------------------------------
(* The government portal.                                                  *)

National == ToSet(Issuers)

(* One answer shows all documents of a year, or of d's year and issuer.    *)
FewIn(year) == Cardinality({e \in Holdings : e.year = year}) < Cap
Few(d) == Cardinality({e \in Holdings : e.year = d.year /\ e.issuer = d.issuer}) <= Cap

(* What a year that is listed must hold.                                   *)
Due(d) == d.issuer \notin Local /\ (FewIn(d.year) \/ (d.issuer \in National /\ Few(d)))

Searches ==
  [pc : {"searching", "done", "unreachable"}, year : 1 .. Len(Years),
   issuer : 0 .. Len(Issuers), attempt : Nat, found : SUBSET Holdings,
   documents : SUBSET Holdings, skipped : SUBSET ToSet(Years)]

(* The first n years: skipped and empty, or listed but for what an answer  *)
(* cannot show.                                                            *)
YearsListed(documents, skipped, n) ==
  /\ \A d \in documents :
       d.year \notin skipped /\ d.issuer \notin Local /\ \E y \in 1 .. n : d.year = Years[y]
  /\ skipped \subseteq {Years[y] : y \in 1 .. n}
  /\ \A y \in 1 .. n : \A d \in Holdings :
       d.year = Years[y] /\ d.year \notin skipped /\ Due(d) => d \in documents

(* The first n issuers of a year: what was found of them.                  *)
IssuersListed(found, year, n) ==
  /\ \A d \in found : d.year = Years[year]
  /\ \A i \in 1 .. n : \A d \in Holdings :
       d.year = Years[year] /\ d.issuer = Issuers[i] /\ Few(d) => d \in found

GovernmentInv(s) ==
  /\ s \in Searches
  /\ s.pc = "searching" =>
       /\ YearsListed(s.documents, s.skipped, s.year - 1)
       /\ IssuersListed(s.found, s.year, s.issuer - 1)
       /\ s.issuer # 0 => ~FewIn(Years[s.year])
  /\ s.pc # "searching" => YearsListed(s.documents, s.skipped, Len(Years))
  /\ s.pc = "done" => s.skipped # ToSet(Years)

(* An answer below the cap shows all there is; so does one for an issuer   *)
(* that has few documents.                                                 *)
LEMMA AnswersShow ==
  ASSUME NEW year, NEW issuer \in 0 .. Len(Issuers), NEW shown \in Answers(year, issuer)
  PROVE  /\ shown \subseteq HeldBy(year, issuer)
         /\ ~Capped(shown) => shown = HeldBy(year, issuer)
         /\ issuer = 0 => \A d \in Holdings : d.year = year <=> d \in HeldBy(year, issuer)
         /\ issuer = 0 /\ Capped(shown) => ~FewIn(year)
         /\ issuer # 0 => \A d \in HeldBy(year, issuer) : Few(d) => d \in shown
<1> DEFINE held == HeldBy(year, issuer)
<1>1. held \in SUBSET Holdings
  BY DEF HeldBy
<1>2. IsFiniteSet(held) /\ Cardinality(held) \in Nat
  BY <1>1, FS_Subset, FS_CardinalityType, ListingAssumption
<1>3. shown \in SUBSET held
  BY DEF Answers
<1>4. /\ IsFiniteSet(shown) /\ Cardinality(shown) \in Nat
      /\ Cardinality(shown) = Cardinality(held) => shown = held
  BY <1>2, <1>3, FS_Subset, FS_CardinalityType
<1>5. /\ Cardinality(held) < Cap => Cardinality(shown) = Cardinality(held)
      /\ ~(Cardinality(held) < Cap) => Cardinality(shown) = Cap
  BY DEF Answers
<1>6. Cap \in Nat
  BY ListingAssumption
<1>7. ~Capped(shown) => shown = held
  BY <1>2, <1>4, <1>5, <1>6 DEF Capped
<1>8. ASSUME issuer # 0, NEW d \in held, Few(d)
      PROVE  d \in shown
  <2>1. held = {e \in Holdings : e.year = d.year /\ e.issuer = d.issuer}
    BY <1>8 DEF HeldBy
  <2>2. Cardinality(held) <= Cap
    BY <1>8, <2>1 DEF Few
  <2>3. Cardinality(shown) = Cardinality(held)
    BY <2>2, <1>2, <1>5, <1>6
  <2> QED
    BY <2>3, <1>4
<1>9. ASSUME issuer = 0
      PROVE  /\ \A d \in Holdings : d.year = year <=> d \in held
             /\ Capped(shown) => ~FewIn(year)
  <2>1. held = {e \in Holdings : e.year = year}
    BY <1>9 DEF HeldBy
  <2>2. FewIn(year) => Cardinality(held) < Cap
    BY <2>1 DEF FewIn
  <2>3. Cardinality(held) < Cap => ~Capped(shown)
    BY <1>2, <1>5, <1>6 DEF Capped
  <2> QED
    BY <2>1, <2>2, <2>3
<1> QED
  BY <1>3, <1>7, <1>8, <1>9

(* No year is searched twice.                                              *)
LEMMA YearsDiffer ==
  ASSUME NEW n \in 1 .. Len(Years), NEW y \in 1 .. n - 1
  PROVE  Years[y] # Years[n] /\ y \in 1 .. n
<1>1. DOMAIN Years = 1 .. Len(Years) /\ Len(Years) \in Nat
  BY ListingAssumption
<1>2. y \in 1 .. Len(Years) /\ y # n /\ y \in 1 .. n
  BY <1>1
<1> QED
  BY <1>1, <1>2, ListingAssumption

(* When a year is through, the next one begins or the listing ends.        *)
LEMMA YearEnds ==
  ASSUME search \in Searches, search.pc = "searching",
         NEW documents \in SUBSET Holdings, NEW skipped \in SUBSET ToSet(Years),
         YearsListed(documents, skipped, search.year)
  PROVE  GovernmentInv(NextYear(documents, skipped))
<1> DEFINE next == NextYear(documents, skipped)
<1>1. /\ search.year \in 1 .. Len(Years) /\ Len(Years) \in Nat \ {0}
      /\ 0 \in 0 .. Len(Issuers) /\ 1 \in Nat
  BY Bounds DEF Searches
<1>2. CASE search.year < Len(Years)
  <2> DEFINE later == search.year + 1
  <2>1. later \in 1 .. Len(Years) /\ later - 1 = search.year
    BY <1>1, <1>2
  <2>2. next = [search EXCEPT !.year = later, !.issuer = 0, !.attempt = 1, !.found = {},
                              !.documents = documents, !.skipped = skipped]
    BY <1>2 DEF NextYear
  <2>3. {} \in SUBSET Holdings
    OBVIOUS
  <2> HIDE DEF later, next
  <2>4. /\ next \in Searches /\ next.pc = "searching" /\ next.year = later
        /\ next.issuer = 0 /\ next.found = {} /\ next.documents = documents
        /\ next.skipped = skipped
    BY <1>1, <2>1, <2>2, <2>3 DEF Searches
  <2>5. IssuersListed({}, later, 0 - 1)
    BY DEF IssuersListed
  <2>6. GovernmentInv(next)
    BY <2>1, <2>4, <2>5 DEF GovernmentInv
  <2> QED
    BY <2>6 DEF next
<1>3. CASE ~(search.year < Len(Years))
  <2> DEFINE end == IF skipped = ToSet(Years) THEN "unreachable" ELSE "done"
  <2>1. next = [search EXCEPT !.pc = end, !.found = {}, !.documents = documents,
                              !.skipped = skipped]
    BY <1>3 DEF NextYear
  <2>2. end \in {"done", "unreachable"} /\ (end = "done" => skipped # ToSet(Years))
    OBVIOUS
  <2>3. search.year = Len(Years)
    BY <1>1, <1>3
  <2> HIDE DEF end, next
  <2>4. /\ next \in Searches /\ next.pc = end /\ next.documents = documents
        /\ next.skipped = skipped
    BY <1>1, <2>1, <2>2 DEF Searches
  <2>5. GovernmentInv(next)
    BY <2>2, <2>3, <2>4 DEF GovernmentInv
  <2> QED
    BY <2>5 DEF next
<1> QED
  BY <1>2, <1>3

LEMMA AnswerStep ==
  ASSUME GovernmentInv(search), Answer
  PROVE  GovernmentInv(search')
<1>1. /\ search \in Searches /\ search.pc = "searching"
      /\ YearsListed(search.documents, search.skipped, search.year - 1)
      /\ IssuersListed(search.found, search.year, search.issuer - 1)
      /\ search.issuer # 0 => ~FewIn(Years[search.year])
  BY DEF GovernmentInv, Answer
<1> DEFINE year == Years[search.year]
<1>2. PICK shown \in Answers(year, search.issuer) :
        search' =
          IF IF search.issuer = 0 THEN Capped(shown) ELSE search.issuer < Len(Issuers)
          THEN [search EXCEPT !.issuer = @ + 1, !.attempt = 1,
                              !.found = search.found \cup shown]
          ELSE NextYear(search.documents
                          \cup {d \in search.found \cup shown : d.issuer \notin Local},
                        search.skipped)
  BY DEF Answer
<1> DEFINE found == search.found \cup shown
           kept == {d \in found : d.issuer \notin Local}
           documents == search.documents \cup kept
<1>3. /\ search.year \in 1 .. Len(Years) /\ Len(Years) \in Nat \ {0}
      /\ search.issuer \in 0 .. Len(Issuers) /\ Len(Issuers) \in Nat \ {0}
      /\ search.found \in SUBSET Holdings /\ search.documents \in SUBSET Holdings
      /\ search.skipped \in SUBSET ToSet(Years)
  BY <1>1, Bounds DEF Searches
<1>4. /\ shown \subseteq HeldBy(year, search.issuer)
      /\ ~Capped(shown) => shown = HeldBy(year, search.issuer)
      /\ search.issuer # 0 =>
           \A d \in HeldBy(year, search.issuer) : Few(d) => d \in shown
      /\ search.issuer = 0 =>
           /\ \A d \in Holdings : d.year = year <=> d \in HeldBy(year, search.issuer)
           /\ Capped(shown) => ~FewIn(year)
  BY <1>3, AnswersShow
<1>5. found \in SUBSET Holdings /\ \A d \in found : d.year = year
  BY <1>1, <1>3, <1>4 DEF HeldBy, IssuersListed
<1>6. IssuersListed(found, search.year, search.issuer)
  <2>1. ASSUME NEW i \in 1 .. search.issuer, NEW d \in Holdings,
               d.year = year, d.issuer = Issuers[i], Few(d)
        PROVE  d \in found
    <3>1. CASE i = search.issuer
      BY <2>1, <3>1, <1>3, <1>4 DEF HeldBy
    <3>2. CASE i # search.issuer
      <4>1. i \in 1 .. search.issuer - 1
        BY <3>2, <1>3
      <4> QED
        BY <2>1, <4>1, <1>1 DEF IssuersListed
    <3> QED
      BY <3>1, <3>2
  <2> QED
    BY <2>1, <1>5 DEF IssuersListed
<1>7. CASE IF search.issuer = 0 THEN Capped(shown) ELSE search.issuer < Len(Issuers)
  <2> DEFINE later == search.issuer + 1
  <2>1. later \in 0 .. Len(Issuers) /\ later - 1 = search.issuer /\ 1 \in Nat
    BY <1>3, <1>7
  <2>2. search' = [search EXCEPT !.issuer = later, !.attempt = 1, !.found = found]
    BY <1>2, <1>7
  <2> HIDE DEF later, found
  <2>3. /\ search' \in Searches /\ search'.pc = "searching" /\ search'.issuer = later
        /\ search'.year = search.year /\ search'.found = found
        /\ search'.documents = search.documents /\ search'.skipped = search.skipped
    BY <2>1, <2>2, <1>1, <1>5 DEF Searches
  <2>4. ~FewIn(Years[search.year])
    BY <1>1, <1>4, <1>7
  <2> QED
    BY <2>1, <2>3, <2>4, <1>1, <1>6 DEF GovernmentInv
<1>8. CASE ~(IF search.issuer = 0 THEN Capped(shown) ELSE search.issuer < Len(Issuers))
  <2>1. ASSUME NEW d \in Holdings, d.year = year, Due(d)
        PROVE  d \in found /\ d.issuer \notin Local
    <3>1. CASE search.issuer = 0
      BY <2>1, <3>1, <1>4, <1>8 DEF Due
    <3>2. CASE search.issuer = Len(Issuers)
      <4>0. d.issuer \in National /\ Few(d) /\ d.issuer \notin Local
        <5>1. search.issuer # 0
          BY <3>2, <1>3
        <5>2. ~FewIn(d.year)
          BY <2>1, <5>1, <1>1
        <5> QED
          BY <2>1, <5>2 DEF Due
      <4>1. PICK i \in 1 .. Len(Issuers) : d.issuer = Issuers[i]
        <5>1. PICK i \in DOMAIN Issuers : d.issuer = Issuers[i]
          BY <4>0 DEF National, ToSet
        <5>2. DOMAIN Issuers = 1 .. Len(Issuers)
          BY ListingAssumption
        <5> QED
          BY <5>1, <5>2
      <4> QED
        BY <2>1, <3>2, <4>0, <4>1, <1>6 DEF IssuersListed
    <3> QED
      BY <3>1, <3>2, <1>3, <1>8
  <2>2. YearsListed(documents, search.skipped, search.year)
    <3>1. year \notin search.skipped
      <4>1. \A y \in 1 .. search.year - 1 : Years[y] # year
        BY <1>3, YearsDiffer
      <4> QED
        BY <4>1, <1>1 DEF YearsListed
    <3>2. search.year - 1 \in Nat /\ search.year \in 1 .. search.year
          /\ \A y \in 1 .. search.year - 1 : y \in 1 .. search.year
      BY <1>3
    <3>3. ASSUME NEW d \in documents
          PROVE  /\ d.year \notin search.skipped /\ d.issuer \notin Local
                 /\ \E y \in 1 .. search.year : d.year = Years[y]
      BY <3>1, <3>2, <1>1, <1>5 DEF YearsListed
    <3>4. search.skipped \subseteq {Years[y] : y \in 1 .. search.year}
      BY <3>2, <1>1 DEF YearsListed
    <3>5. ASSUME NEW y \in 1 .. search.year, NEW d \in Holdings,
                 d.year = Years[y], d.year \notin search.skipped, Due(d)
          PROVE  d \in documents
      <4>1. CASE y = search.year
        BY <3>5, <4>1, <2>1
      <4>2. CASE y # search.year
        <5>1. y \in 1 .. search.year - 1
          BY <4>2, <1>3
        <5> QED
          BY <3>5, <5>1, <1>1 DEF YearsListed
      <4> QED
        BY <4>1, <4>2
    <3> QED
      BY <3>3, <3>4, <3>5 DEF YearsListed
  <2>3. documents \in SUBSET Holdings
    BY <1>3, <1>5
  <2>4. search' = NextYear(documents, search.skipped)
    BY <1>2, <1>8
  <2> HIDE DEF documents
  <2> QED
    BY <2>2, <2>3, <2>4, <1>1, <1>3, YearEnds
<1> QED
  BY <1>7, <1>8

LEMMA SkipStep ==
  ASSUME GovernmentInv(search), SkipYear
  PROVE  GovernmentInv(search')
<1> DEFINE skipped == search.skipped \cup {Years[search.year]}
<1>1. /\ search \in Searches /\ search.pc = "searching"
      /\ YearsListed(search.documents, search.skipped, search.year - 1)
      /\ search' = NextYear(search.documents, skipped)
  BY DEF GovernmentInv, SkipYear
<1>2. /\ search.year \in 1 .. Len(Years) /\ Len(Years) \in Nat \ {0}
      /\ search.documents \in SUBSET Holdings /\ search.skipped \in SUBSET ToSet(Years)
  BY <1>1, Bounds DEF Searches
<1>3. skipped \in SUBSET ToSet(Years)
  BY SMTT(40), <1>2, ListingAssumption DEF ToSet
<1>4. \A y \in 1 .. search.year - 1 : Years[y] # Years[search.year] /\ y \in 1 .. search.year
  BY <1>2, YearsDiffer
<1>5. \A y \in 1 .. search.year : y = search.year \/ y \in 1 .. search.year - 1
  BY <1>2
<1>6. YearsListed(search.documents, skipped, search.year)
  <2>1. \A d \in search.documents :
          /\ d.year \notin skipped /\ d.issuer \notin Local
          /\ \E y \in 1 .. search.year : d.year = Years[y]
    BY <1>1, <1>4 DEF YearsListed
  <2>2. skipped \subseteq {Years[y] : y \in 1 .. search.year}
    <3>1. search.year \in 1 .. search.year
      BY <1>2
    <3> QED
      BY <3>1, <1>1, <1>4 DEF YearsListed
  <2>3. \A y \in 1 .. search.year : \A d \in Holdings :
          d.year = Years[y] /\ d.year \notin skipped /\ Due(d) => d \in search.documents
    BY <1>1, <1>5 DEF YearsListed
  <2> QED
    BY <2>1, <2>2, <2>3 DEF YearsListed
<1> HIDE DEF skipped
<1> QED
  BY <1>1, <1>2, <1>3, <1>6, YearEnds

(* For any years, issuers and cap and any holdings: a year below the cap   *)
(* is listed whole but for local issuers, another one for each national    *)
(* issuer whose documents fit into one answer, or it is skipped and leaves *)
(* nothing behind; and the portal is called unreachable only if it         *)
(* answered for no year.                                                   *)
THEOREM YearsAreListed == ListingSpec => []YearsAreWhole
<1>1. ListingInit => GovernmentInv(search)
  <2> SUFFICES ASSUME ListingInit
               PROVE  GovernmentInv(search)
    OBVIOUS
  <2>1. /\ search.pc = "searching" /\ search.year = 1 /\ search.issuer = 0
        /\ search.found = {} /\ search.documents = {} /\ search.skipped = {}
    BY DEF ListingInit
  <2>2. 0 \in 0 .. Len(Issuers)
    BY Bounds
  <2>3. search \in Searches
    BY <2>2, FirstOnes DEF ListingInit, Searches
  <2>4. YearsListed({}, {}, 1 - 1) /\ IssuersListed({}, 1, 0 - 1)
    BY DEF YearsListed, IssuersListed
  <2> QED
    BY <2>1, <2>3, <2>4 DEF GovernmentInv
<1>2. GovernmentInv(search) /\ [ListingNext]_listingVars => GovernmentInv(search)'
  <2> SUFFICES ASSUME GovernmentInv(search), [ListingNext]_listingVars
               PROVE  GovernmentInv(search')
    OBVIOUS
  <2>1. CASE UNCHANGED search
    BY <2>1
  <2>2. CASE SearchTimesOut
    <3>1. /\ search \in Searches /\ search.pc = "searching"
          /\ search' = [search EXCEPT !.attempt = @ + 1]
      BY <2>2 DEF SearchTimesOut, GovernmentInv
    <3>2. /\ search' \in Searches /\ search'.pc = search.pc /\ search'.year = search.year
          /\ search'.issuer = search.issuer /\ search'.found = search.found
          /\ search'.documents = search.documents /\ search'.skipped = search.skipped
      BY <3>1 DEF Searches
    <3> QED
      BY <3>1, <3>2 DEF GovernmentInv
  <2>3. CASE MinistryNext
    BY <2>3, <2>1 DEF MinistryNext, Publish, Withdraw, Reuse, Begin, ReadPage, RequestFails,
                      NextRun, Tick
  <2> QED
    BY <2>1, <2>2, <2>3, AnswerStep, SkipStep
       DEF ListingNext, GovernmentNext, listingVars
<1>3. GovernmentInv(search) => YearsAreWhole
  <2> SUFFICES ASSUME GovernmentInv(search)
               PROVE  YearsAreWhole
    OBVIOUS
  <2>1. \A d \in search.documents : d.year \notin search.skipped /\ d.issuer \notin Local
    BY DEF GovernmentInv, YearsListed
  <2>2. ASSUME search.pc = "done", NEW d \in Holdings,
               d.year \in ToSet(Years) \ search.skipped, Due(d)
        PROVE  d \in search.documents
    <3>1. PICK y \in 1 .. Len(Years) : d.year = Years[y]
      BY <2>2, ListingAssumption DEF ToSet
    <3> QED
      BY <3>1, <2>2 DEF GovernmentInv, YearsListed
  <2>3. search.pc = "done" => search.skipped # ToSet(Years)
    BY DEF GovernmentInv
  <2>4. \A d : {e \in {x \in Holdings : x.year = d.year} : e.issuer = d.issuer}
                = {e \in Holdings : e.year = d.year /\ e.issuer = d.issuer}
    OBVIOUS
  <2> QED
    BY <2>1, <2>2, <2>3, <2>4 DEF YearsAreWhole, Due, National, FewIn, Few
<1> QED
  BY <1>1, <1>2, <1>3, PTL DEF ListingSpec

-----------------------------------------------------------------------------
(* Catalogs: distances.                                                    *)

LEMMA PagesAre ==
  ASSUME links \in Links
  PROVE  /\ links \in [Pages -> Seq(Pages)]
         /\ Cardinality(Pages) \in Nat \ {0}
         /\ \A S \in SUBSET Pages : S \subseteq Followed(S) /\ Followed(S) \in SUBSET Pages
         /\ \A S \in SUBSET Pages : \A p \in S : \A i \in DOMAIN links[p] :
              links[p][i] \in AllowedUrls => links[p][i] \in Followed(S)
         /\ \A S \in SUBSET Pages : \A q \in Followed(S) \ S :
              \E p \in S : \E i \in DOMAIN links[p] : links[p][i] = q /\ q \in AllowedUrls
<1>1. links \in [Pages -> Seq(Pages)] /\ IsFiniteSet(Pages) /\ FirstPage \in Pages
  BY CatalogAssumption
<1>2. Cardinality(Pages) \in Nat \ {0}
  BY <1>1, FS_CardinalityType, FS_EmptySet
<1>3. \A p \in Pages : \A i \in DOMAIN links[p] : links[p][i] \in Pages
  BY <1>1
<1> QED
  BY <1>1, <1>2, <1>3 DEF Followed, ToSet

(* Within is what its definition says.                                     *)
LEMMA WithinIs ==
  ASSUME links \in Links
  PROVE  /\ Within \in [0 .. Cardinality(Pages) -> SUBSET Pages]
         /\ Within[0] = {FirstPage}
         /\ \A n \in 1 .. Cardinality(Pages) : Within[n] = Followed(Within[n - 1])
<1> DEFINE N == Cardinality(Pages)
           fits(f, m) == /\ f \in [0 .. m -> SUBSET Pages]
                         /\ f[0] = {FirstPage}
                         /\ \A n \in 1 .. m : f[n] = Followed(f[n - 1])
           S == {m \in 0 .. N : \E f \in [0 .. m -> SUBSET Pages] : fits(f, m)}
<1>1. /\ N \in Nat \ {0} /\ FirstPage \in Pages
      /\ \A T \in SUBSET Pages : Followed(T) \in SUBSET Pages
  BY PagesAre, CatalogAssumption
<1>2. 0 \in S
  <2> DEFINE f == [n \in 0 .. 0 |-> {FirstPage}]
  <2>1. fits(f, 0)
    BY <1>1
  <2> HIDE DEF f
  <2> QED
    BY <1>1, <2>1
<1>3. ASSUME NEW k \in 0 .. N - 1, k \in S PROVE k + 1 \in S
  <2>1. PICK f \in [0 .. k -> SUBSET Pages] : fits(f, k)
    BY <1>3
  <2> DEFINE g == [n \in 0 .. k + 1 |-> IF n <= k THEN f[n] ELSE Followed(f[k])]
  <2>2. k \in Nat /\ k + 1 \in 0 .. N
    BY <1>1
  <2>3. Followed(f[k]) \in SUBSET Pages
    BY <1>1, <2>2
  <2>4. g \in [0 .. k + 1 -> SUBSET Pages]
    BY <2>1, <2>2, <2>3
  <2>5. g[0] = {FirstPage}
    BY <2>1, <2>2
  <2>6. ASSUME NEW n \in 1 .. k + 1 PROVE g[n] = Followed(g[n - 1])
    <3>1. n - 1 \in 0 .. k /\ g[n - 1] = f[n - 1]
      BY <2>2
    <3>2. CASE n <= k
      BY <2>1, <2>2, <3>1, <3>2
    <3>3. CASE n = k + 1
      BY <2>2, <3>1, <3>3
    <3> QED
      BY <2>2, <3>2, <3>3
  <2> HIDE DEF g
  <2>7. fits(g, k + 1)
    BY <2>4, <2>5, <2>6
  <2> QED
    BY <2>2, <2>4, <2>7
<1>4. N \in S
  <2> HIDE DEF S, N
  <2>1. \A k \in 0 .. N : k \in S
    BY <1>1, <1>2, <1>3, CountingUp
  <2> QED
    BY <1>1, <2>1
<1>5. PICK f \in [0 .. N -> SUBSET Pages] : fits(f, N)
  BY <1>4
<1>6. f = [n \in 0 .. N |-> IF n = 0 THEN {FirstPage} ELSE Followed(f[n - 1])]
  <2>1. \A n \in 0 .. N : f[n] = IF n = 0 THEN {FirstPage} ELSE Followed(f[n - 1])
    BY <1>1, <1>5
  <2> QED
    BY <1>5, <2>1
<1>7. Within = [n \in 0 .. N |-> IF n = 0 THEN {FirstPage} ELSE Followed(Within[n - 1])]
  <2> HIDE DEF N
  <2> QED
    BY <1>6 DEF Within, N
<1>8. Within[0] = {FirstPage} /\ \A n \in 1 .. N : Within[n] = Followed(Within[n - 1])
  <2> HIDE DEF N
  <2>1. \A n \in 0 .. N : Within[n] = IF n = 0 THEN {FirstPage} ELSE Followed(Within[n - 1])
    BY <1>7, Zenon
  <2>2. \A n \in 1 .. N : n \in 0 .. N /\ n # 0
    BY <1>1
  <2>3. 0 \in 0 .. N
    BY <1>1
  <2> QED
    BY <2>1, <2>2, <2>3, Zenon
<1>9. \A n \in 0 .. N : Within[n] \in SUBSET Pages
  <2> DEFINE T == {n \in 0 .. N : Within[n] \in SUBSET Pages}
  <2>1. 0 \in T
    BY <1>1, <1>8
  <2>2. ASSUME NEW n \in 0 .. N - 1, n \in T PROVE n + 1 \in T
    <3>1. n + 1 \in 1 .. N /\ (n + 1) - 1 = n
      BY <1>1
    <3>2. Within[n + 1] = Followed(Within[n])
      BY <1>8, <3>1
    <3> QED
      BY <1>1, <2>2, <3>1, <3>2
  <2> HIDE DEF T, N
  <2>3. \A n \in 0 .. N : n \in T
    BY <1>1, <2>1, <2>2, CountingUp
  <2> QED
    BY <2>3 DEF T
<1> QED
  BY <1>7, <1>8, <1>9

LEMMA WithinGrows ==
  ASSUME links \in Links, NEW n \in 0 .. Cardinality(Pages)
  PROVE  \A m \in 0 .. n : Within[m] \subseteq Within[n]
<1> DEFINE N == Cardinality(Pages)
           T == {k \in 0 .. N : \A m \in 0 .. k : Within[m] \subseteq Within[k]}
<1>1. N \in Nat \ {0} /\ \A S \in SUBSET Pages : S \subseteq Followed(S)
  BY PagesAre
<1>2. 0 \in T
  BY <1>1
<1>3. ASSUME NEW k \in 0 .. N - 1, k \in T PROVE k + 1 \in T
  <2>1. k \in 0 .. N /\ k + 1 \in 1 .. N /\ (k + 1) - 1 = k
    BY <1>1
  <2>2. Within[k + 1] = Followed(Within[k]) /\ Within[k] \in SUBSET Pages
    BY <2>1, WithinIs
  <2>3. Within[k] \subseteq Within[k + 1]
    BY <1>1, <2>2
  <2>4. ASSUME NEW m \in 0 .. k + 1 PROVE Within[m] \subseteq Within[k + 1]
    <3>1. CASE m = k + 1
      BY <3>1
    <3>2. CASE m \in 0 .. k
      BY <1>3, <2>3, <3>2
    <3> QED
      BY <2>1, <3>1, <3>2
  <2> QED
    BY <1>1, <2>1, <2>4
<1> HIDE DEF T
<1>4. \A k \in 0 .. N : k \in T
  BY <1>1, <1>2, <1>3, CountingUp
<1> QED
  BY <1>4 DEF T

(* Within as many links as there are pages no further page is reached: the *)
(* sets cannot grow each time.                                             *)
LEMMA ReachableIsClosed ==
  ASSUME links \in Links
  PROVE  \E n \in 0 .. Cardinality(Pages) - 1 :
           Reachable = Within[n] /\ Followed(Reachable) = Reachable
<1> DEFINE N == Cardinality(Pages)
<1>1. N \in Nat \ {0} /\ IsFiniteSet(Pages)
  BY PagesAre, CatalogAssumption
<1>2. /\ Within \in [0 .. N -> SUBSET Pages] /\ Within[0] = {FirstPage}
      /\ \A n \in 1 .. N : Within[n] = Followed(Within[n - 1])
  BY WithinIs
<1>3. ASSUME NEW n \in 0 .. N
      PROVE  /\ IsFiniteSet(Within[n]) /\ Cardinality(Within[n]) \in Nat
             /\ Cardinality(Within[n]) <= N
  BY <1>1, <1>2, FS_Subset, FS_CardinalityType
<1>4. \E n \in 0 .. N - 1 : Within[n + 1] = Within[n]
  <2> SUFFICES ASSUME \A n \in 0 .. N - 1 : Within[n + 1] # Within[n]
               PROVE  FALSE
    OBVIOUS
  <2> DEFINE T == {n \in 0 .. N : Cardinality(Within[n]) >= n + 1}
  <2>1. 0 \in T
    <3>1. Cardinality(Within[0]) = 1
      BY <1>2, FS_Singleton
    <3> QED
      BY <1>1, <3>1
  <2>2. ASSUME NEW n \in 0 .. N - 1, n \in T PROVE n + 1 \in T
    <3>1. n \in 0 .. N /\ n + 1 \in 0 .. N /\ n \in 0 .. n + 1
      BY <1>1
    <3>2. Within[n] \in SUBSET Within[n + 1] /\ Within[n + 1] # Within[n]
      BY <3>1, WithinGrows
    <3>3. /\ Cardinality(Within[n]) <= Cardinality(Within[n + 1])
          /\ Cardinality(Within[n + 1]) # Cardinality(Within[n])
      BY <1>3, <3>1, <3>2, FS_Subset
    <3>4. /\ Cardinality(Within[n]) \in Nat /\ Cardinality(Within[n + 1]) \in Nat
          /\ Cardinality(Within[n]) >= n + 1
      BY <1>3, <2>2, <3>1
    <3> QED
      BY <1>1, <3>1, <3>3, <3>4
  <2> HIDE DEF T
  <2>3. \A n \in 0 .. N : n \in T
    BY <1>1, <2>1, <2>2, CountingUp
  <2>4. Cardinality(Within[N]) >= N + 1 /\ N \in 0 .. N
    BY <1>1, <2>3 DEF T
  <2> QED
    BY <1>1, <1>3, <2>4
<1>5. PICK n \in 0 .. N - 1 : Within[n + 1] = Within[n]
  BY <1>4
<1>6. n \in Nat /\ n \in 0 .. N /\ n + 1 \in 1 .. N /\ (n + 1) - 1 = n
  BY <1>1
<1>7. Followed(Within[n]) = Within[n]
  BY <1>2, <1>5, <1>6
<1>8. Within[N] = Within[n]
  <2> DEFINE T == {m \in 0 .. N : m > n => Within[m] = Within[n]}
  <2>1. 0 \in T
    BY <1>1, <1>6
  <2>2. ASSUME NEW m \in 0 .. N - 1, m \in T PROVE m + 1 \in T
    <3>1. m \in 0 .. N /\ m + 1 \in 1 .. N /\ (m + 1) - 1 = m /\ m + 1 \in 0 .. N
      BY <1>1
    <3>2. Within[m + 1] = Followed(Within[m])
      BY <1>2, <3>1
    <3>3. ASSUME m + 1 > n PROVE Within[m] = Within[n]
      BY <1>6, <2>2, <3>1, <3>3
    <3> QED
      BY <1>7, <3>1, <3>2, <3>3
  <2> HIDE DEF T
  <2>3. \A m \in 0 .. N : m \in T
    BY <1>1, <2>1, <2>2, CountingUp
  <2>4. N \in T /\ N > n
    BY <1>1, <2>3
  <2> QED
    BY <2>4 DEF T
<1> QED
  BY <1>7, <1>8 DEF Reachable

LEMMA DistanceIs ==
  ASSUME links \in Links, NEW p \in Reachable
  PROVE  /\ Distance(p) \in 0 .. Cardinality(Pages) - 1
         /\ p \in Within[Distance(p)]
         /\ \A n \in 0 .. Cardinality(Pages) : p \in Within[n] => Distance(p) <= n
<1> DEFINE N == Cardinality(Pages)
           near == {n \in 0 .. N : p \in Within[n]}
           later == {n \in 1 .. N : p \in Within[n]}
<1>1. N \in Nat \ {0}
  BY PagesAre
<1>2. PICK m \in 0 .. N - 1 : p \in Within[m]
  BY ReachableIsClosed
<1>3. m \in near
  BY <1>1, <1>2
<1>4. \E n \in near : \A k \in near : n <= k
  <2>1. CASE 0 \in near
    BY <1>1, <2>1
  <2>2. CASE 0 \notin near
    <3>1. near = later
      BY <1>1, <2>2
    <3>2. later \in SUBSET (1 .. N) /\ later # {}
      BY <1>3, <3>1
    <3> HIDE DEF later, near
    <3> QED
      BY <1>1, <3>1, <3>2, Least
  <2> QED
    BY <2>1, <2>2
<1>5. Distance(p) \in near /\ \A k \in near : Distance(p) <= k
  BY <1>4 DEF Distance, Min
<1> QED
  BY <1>1, <1>2, <1>3, <1>5

(* A link leads one further at most, and each page but the first is one    *)
(* further than some page that links to it.                                *)
LEMMA LinksAndDistances ==
  ASSUME links \in Links
  PROVE  /\ FirstPage \in Reachable /\ Distance(FirstPage) = 0
         /\ Reachable \in SUBSET Pages
         /\ \A p \in Reachable : Distance(p) \in Nat
         /\ \A p \in Reachable : \A i \in DOMAIN links[p] :
              links[p][i] \in AllowedUrls =>
                links[p][i] \in Reachable /\ Distance(links[p][i]) <= Distance(p) + 1
         /\ \A q \in Reachable \ {FirstPage} : \E p \in Reachable :
              /\ Distance(q) = Distance(p) + 1 /\ q \in AllowedUrls
              /\ \E i \in DOMAIN links[p] : links[p][i] = q
<1> DEFINE N == Cardinality(Pages)
<1>1. N \in Nat \ {0}
  BY PagesAre
<1>2. /\ Within \in [0 .. N -> SUBSET Pages] /\ Within[0] = {FirstPage}
      /\ \A n \in 1 .. N : Within[n] = Followed(Within[n - 1])
  BY WithinIs
<1>3. Reachable \in SUBSET Pages /\ \A n \in 0 .. N : Within[n] \subseteq Reachable
  <2>1. N \in 0 .. N
    BY <1>1
  <2> QED
    BY <1>2, <2>1, WithinGrows DEF Reachable
<1>4. FirstPage \in Reachable /\ Distance(FirstPage) = 0
  <2>1. FirstPage \in Within[0] /\ 0 \in 0 .. N
    BY <1>1, <1>2
  <2>2. FirstPage \in Reachable
    BY <1>3, <2>1
  <2>3. Distance(FirstPage) <= 0 /\ Distance(FirstPage) \in 0 .. N - 1
    BY <2>1, <2>2, DistanceIs
  <2> QED
    BY <1>1, <2>2, <2>3
<1>5. \A p \in Reachable : Distance(p) \in Nat /\ Distance(p) \in 0 .. N - 1
  BY <1>1, DistanceIs
<1>6. ASSUME NEW p \in Reachable, NEW i \in DOMAIN links[p], links[p][i] \in AllowedUrls
      PROVE  links[p][i] \in Reachable /\ Distance(links[p][i]) <= Distance(p) + 1
  <2> DEFINE q == links[p][i]
             d == Distance(p)
  <2>1. d \in 0 .. N - 1 /\ p \in Within[d]
    BY DistanceIs
  <2>2. d \in 0 .. N /\ d + 1 \in 1 .. N /\ d + 1 \in 0 .. N /\ (d + 1) - 1 = d
    BY <1>1, <2>1
  <2> HIDE DEF d
  <2>3. q \in Followed(Within[d])
    BY <1>2, <1>6, <2>1, <2>2, PagesAre
  <2>4. q \in Within[d + 1]
    BY <1>2, <2>2, <2>3
  <2>5. q \in Reachable
    BY <1>3, <2>2, <2>4
  <2>6. Distance(q) <= d + 1
    BY <2>2, <2>4, <2>5, DistanceIs
  <2> QED
    BY <2>5, <2>6 DEF d
<1>7. ASSUME NEW q \in Reachable \ {FirstPage}
      PROVE  \E p \in Reachable :
               /\ Distance(q) = Distance(p) + 1 /\ q \in AllowedUrls
               /\ \E i \in DOMAIN links[p] : links[p][i] = q
  <2> DEFINE d == Distance(q)
  <2>1. /\ d \in 0 .. N - 1 /\ q \in Within[d]
        /\ \A n \in 0 .. N : q \in Within[n] => d <= n
    BY DistanceIs
  <2> HIDE DEF d
  <2>2. d # 0
    BY <1>2, <2>1
  <2>3. d \in 1 .. N /\ d - 1 \in 0 .. N
    BY <1>1, <2>1, <2>2
  <2>4. q \notin Within[d - 1]
    BY <1>1, <2>1, <2>3
  <2>5. Within[d - 1] \in SUBSET Pages /\ q \in Followed(Within[d - 1])
    BY <1>2, <2>1, <2>3
  <2>6. PICK p \in Within[d - 1] :
          \E i \in DOMAIN links[p] : links[p][i] = q /\ q \in AllowedUrls
    BY <2>4, <2>5, PagesAre
  <2>7. p \in Reachable
    BY <1>3, <2>3
  <2>8. Distance(p) <= d - 1
    BY <2>3, <2>7, DistanceIs
  <2>9. d <= Distance(p) + 1
    BY <1>6, <2>6, <2>7 DEF d
  <2>10. Distance(p) \in Nat /\ d \in Nat
    BY <1>5, <2>7 DEF d
  <2>11. d = Distance(p) + 1
    BY <2>8, <2>9, <2>10
  <2> QED
    BY <2>6, <2>7, <2>11 DEF d
<1> QED
  BY <1>3, <1>4, <1>5, <1>6, <1>7

-----------------------------------------------------------------------------
(* Catalogs: the walk.                                                     *)

(* Pages found, the first m of them visited: each once, the nearer before  *)
(* the farther; what waits is no nearer than a link less than the farthest *)
(* found; and where the visited lead to was found.                         *)
Ordered(way, m) ==
  /\ way \in Seq(Pages) /\ m \in 0 .. Len(way) /\ Len(way) # 0 /\ way[1] = FirstPage
  /\ \A j, k \in 1 .. Len(way) : way[j] = way[k] => j = k
  /\ \A k \in 1 .. Len(way) : way[k] \in Reachable
  /\ \A j, k \in 1 .. Len(way) : j <= k => Distance(way[j]) <= Distance(way[k])
  /\ \A j, k \in 1 .. Len(way) : k > m => Distance(way[j]) <= Distance(way[k]) + 1
  /\ \A k \in 1 .. m : \A i \in DOMAIN links[way[k]] :
       links[way[k]][i] \in AllowedUrls => \E j \in 1 .. Len(way) : way[j] = links[way[k]][i]

Found == crawl.visited \o crawl.pending

(* The walk is between two pages, has ended at the limit or with nothing   *)
(* left, or has failed.                                                    *)
CrawlInv ==
  /\ links \in Links
  /\ crawl \in [pc : {"reading", "done", "failed"}, pending : Seq(Pages), visited : Seq(Pages),
                attempt : Nat, documents : SUBSET (Nat \X Nat)]
  /\ Ordered(Found, Len(crawl.visited))
  /\ Len(crawl.visited) <= MaxVisits
  /\ crawl.pc = "reading" => /\ crawl.pending # <<>> /\ Len(crawl.visited) < MaxVisits
                             /\ crawl.documents = DocumentsOf(crawl.visited)
  /\ crawl.pc = "done" =>
       /\ crawl.pending = <<>> \/ Len(crawl.visited) = MaxVisits
       /\ crawl.documents = Deduplicated(DocumentsOf(crawl.visited), crawl.visited)

(* What is nearer than a page was visited before it.                       *)
LEMMA NearerIsVisited ==
  ASSUME links \in Links, NEW way, NEW m, Ordered(way, m),
         NEW k \in 1 .. Len(way), k <= m + 1,
         NEW q \in Reachable, Distance(q) < Distance(way[k])
  PROVE  \E j \in 1 .. k - 1 : way[j] = q
<1> DEFINE N == Cardinality(Pages)
           T == {n \in 0 .. N : \A p \in Reachable :
                   Distance(p) = n /\ n < Distance(way[k]) => \E j \in 1 .. k - 1 : way[j] = p}
<1>1. /\ N \in Nat \ {0} /\ Len(way) \in Nat /\ m \in 0 .. Len(way) /\ way[1] = FirstPage
      /\ \A p \in Reachable : Distance(p) \in Nat
      /\ way[k] \in Reachable
  BY PagesAre, LinksAndDistances DEF Ordered
<1>2. 0 \in T
  <2> SUFFICES ASSUME NEW p \in Reachable, Distance(p) = 0, 0 < Distance(way[k])
               PROVE  \E j \in 1 .. k - 1 : way[j] = p
    BY <1>1
  <2>1. p = FirstPage
    <3> SUFFICES ASSUME p # FirstPage PROVE FALSE
      OBVIOUS
    <3>1. \E r \in Reachable : Distance(p) = Distance(r) + 1
      BY LinksAndDistances
    <3> QED
      BY <1>1, <3>1
  <2>2. k # 1
    BY <1>1, <2>1
  <2> QED
    BY <1>1, <2>1, <2>2
<1>3. ASSUME NEW n \in 0 .. N - 1, n \in T PROVE n + 1 \in T
  <2> SUFFICES ASSUME NEW p \in Reachable, Distance(p) = n + 1, n + 1 < Distance(way[k])
               PROVE  \E j \in 1 .. k - 1 : way[j] = p
    BY <1>1
  <2>1. p # FirstPage
    BY <1>1, LinksAndDistances
  <2>2. PICK r \in Reachable : /\ Distance(p) = Distance(r) + 1 /\ p \in AllowedUrls
                               /\ \E i \in DOMAIN links[r] : links[r][i] = p
    BY <2>1, LinksAndDistances
  <2>3. Distance(r) = n /\ n < Distance(way[k])
    BY <1>1, <2>2
  <2>4. PICK j \in 1 .. k - 1 : way[j] = r
    BY <1>3, <2>3
  <2>5. j \in 1 .. m
    BY <1>1, <2>4
  <2>6. PICK x \in 1 .. Len(way) : way[x] = p
    <3>1. \A i \in DOMAIN links[way[j]] :
            links[way[j]][i] \in AllowedUrls => \E x \in 1 .. Len(way) : way[x] = links[way[j]][i]
      BY <2>5 DEF Ordered
    <3>2. \A i \in DOMAIN links[r] :
            links[r][i] \in AllowedUrls => \E x \in 1 .. Len(way) : way[x] = links[r][i]
      BY <2>4, <3>1
    <3> QED
      BY <2>2, <3>2, Zenon
  <2>7. ~(k <= x)
    <3>1. k <= x => Distance(way[k]) <= Distance(way[x])
      BY <2>6 DEF Ordered
    <3> QED
      BY <1>1, <2>6, <3>1
  <2> QED
    BY <1>1, <2>6, <2>7
<1> HIDE DEF T
<1>4. \A n \in 0 .. N : n \in T
  BY <1>1, <1>2, <1>3, CountingUp
<1>5. Distance(q) \in 0 .. N
  BY <1>1, DistanceIs
<1> QED
  BY <1>4, <1>5 DEF T

(* The next page is visited and what it leads to is put at the end.        *)
LEMMA OrderIsKept ==
  ASSUME links \in Links, NEW way, NEW m, Ordered(way, m), m < Len(way),
         NEW new \in Seq(Pages),
         \A j, k \in 1 .. Len(new) : new[j] = new[k] => j = k,
         \A k \in 1 .. Len(new) :
           /\ \A j \in 1 .. Len(way) : way[j] # new[k]
           /\ new[k] \in AllowedUrls
           /\ \E i \in DOMAIN links[way[m + 1]] : links[way[m + 1]][i] = new[k],
         \A i \in DOMAIN links[way[m + 1]] :
           links[way[m + 1]][i] \in AllowedUrls =>
             \/ \E j \in 1 .. Len(way) : way[j] = links[way[m + 1]][i]
             \/ \E j \in 1 .. Len(new) : new[j] = links[way[m + 1]][i]
  PROVE  Ordered(way \o new, m + 1)
<1> DEFINE h == way[m + 1]
           far == way \o new
           n == Len(way)
<1>1. /\ way \in Seq(Pages) /\ n \in Nat /\ Len(new) \in Nat /\ m \in Nat /\ m + 1 \in 1 .. n
      /\ h \in Reachable
  BY DEF Ordered
<1>2. /\ far \in Seq(Pages) /\ Len(far) = n + Len(new)
      /\ \A k \in 1 .. n : k \in 1 .. Len(far) /\ far[k] = way[k]
      /\ \A k \in 1 .. Len(new) : n + k \in 1 .. Len(far) /\ far[n + k] = new[k]
      /\ \A k \in 1 .. Len(far) :
           k \in 1 .. n \/ (k - n \in 1 .. Len(new) /\ far[k] = new[k - n])
  BY <1>1
<1>3. /\ \A p \in Reachable : Distance(p) \in Nat
      /\ \A j, k \in 1 .. n : j <= k => Distance(way[j]) <= Distance(way[k])
  BY LinksAndDistances DEF Ordered
<1>4. ASSUME NEW k \in 1 .. Len(new)
      PROVE  new[k] \in Reachable /\ Distance(new[k]) = Distance(h) + 1
  <2>1. new[k] \in Reachable /\ Distance(new[k]) <= Distance(h) + 1
    BY <1>1, LinksAndDistances
  <2>2. new[k] # FirstPage
    BY <1>1 DEF Ordered
  <2>3. PICK r \in Reachable : /\ Distance(new[k]) = Distance(r) + 1
                               /\ \E i \in DOMAIN links[r] : links[r][i] = new[k]
    BY <2>1, <2>2, LinksAndDistances
  <2>4. ~(Distance(r) < Distance(h))
    <3> SUFFICES ASSUME Distance(r) < Distance(h) PROVE FALSE
      OBVIOUS
    <3>1. PICK j \in 1 .. m : way[j] = r
      <4>1. m + 1 <= m + 1 /\ (m + 1) - 1 = m
        BY <1>1
      <4>2. \E j \in 1 .. (m + 1) - 1 : way[j] = r
        BY <1>1, <4>1, NearerIsVisited
      <4> QED
        BY <4>1, <4>2
    <3>2. PICK i \in DOMAIN links[way[j]] : links[way[j]][i] = new[k]
      BY <2>3, <3>1
    <3>3. links[way[j]][i] \in AllowedUrls
      BY <3>2
    <3>4. \E x \in 1 .. Len(way) : way[x] = links[way[j]][i]
      BY <3>3 DEF Ordered
    <3> QED
      BY <3>2, <3>4
  <2> QED
    BY <1>1, <1>3, <2>1, <2>3, <2>4
<1> HIDE DEF far, n, h
<1>5. ASSUME NEW j \in 1 .. Len(far), NEW k \in 1 .. Len(far), far[j] = far[k]
      PROVE  j = k
  <2>1. CASE j \in 1 .. n /\ k \in 1 .. n
    <3>1. way[j] = way[k]
      BY <1>2, <1>5, <2>1
    <3> QED
      BY <2>1, <3>1 DEF Ordered, n
  <2>2. CASE j \in 1 .. n /\ k \notin 1 .. n
    <3>1. way[j] = new[k - n] /\ k - n \in 1 .. Len(new)
      BY <1>2, <1>5, <2>2
    <3> QED
      BY <2>2, <3>1 DEF n
  <2>3. CASE j \notin 1 .. n /\ k \in 1 .. n
    <3>1. way[k] = new[j - n] /\ j - n \in 1 .. Len(new)
      BY <1>2, <1>5, <2>3
    <3> QED
      BY <2>3, <3>1 DEF n
  <2>4. CASE j \notin 1 .. n /\ k \notin 1 .. n
    <3>1. new[j - n] = new[k - n] /\ j - n \in 1 .. Len(new) /\ k - n \in 1 .. Len(new)
      BY <1>2, <1>5, <2>4
    <3>2. j - n = k - n
      BY <3>1
    <3> QED
      BY <1>1, <1>2, <3>2
  <2> QED
    BY <2>1, <2>2, <2>3, <2>4
<1>6. \A k \in 1 .. Len(far) : far[k] \in Reachable
  BY <1>2, <1>4 DEF Ordered, n
<1>7. \A k \in 1 .. n : Distance(way[k]) <= Distance(h) + 1
  BY <1>1 DEF Ordered, n, h
<1>8. ASSUME NEW k \in 1 .. Len(far), k \notin 1 .. n
      PROVE  Distance(far[k]) = Distance(h) + 1
  <2>1. k - n \in 1 .. Len(new) /\ far[k] = new[k - n]
    BY <1>8, <1>2
  <2>2. Distance(new[k - n]) = Distance(h) + 1
    BY <1>4, <2>1
  <2> QED
    BY <2>1, <2>2
<1>9. ASSUME NEW j \in 1 .. Len(far), NEW k \in 1 .. Len(far), j <= k
      PROVE  Distance(far[j]) <= Distance(far[k])
  <2>1. CASE k \in 1 .. n
    <3>1. j \in 1 .. n
      BY <1>1, <1>2, <1>9, <2>1
    <3>2. far[j] = way[j] /\ far[k] = way[k]
      BY <1>2, <2>1, <3>1
    <3>3. Distance(way[j]) <= Distance(way[k])
      BY <1>3, <1>9, <2>1, <3>1
    <3> QED
      BY <3>2, <3>3
  <2>2. CASE k \notin 1 .. n
    <3>1. Distance(far[k]) = Distance(h) + 1
      BY <1>8, <2>2
    <3>2. Distance(far[j]) <= Distance(h) + 1
      <4>1. CASE j \in 1 .. n
        BY <1>2, <1>7, <4>1
      <4>2. CASE j \notin 1 .. n
        <5>1. Distance(far[j]) = Distance(h) + 1
          BY <1>8, <4>2
        <5> QED
          BY <1>1, <1>3, <5>1
      <4> QED
        BY <4>1, <4>2
    <3> QED
      BY <3>1, <3>2
  <2> QED
    BY <2>1, <2>2
<1>10. ASSUME NEW j \in 1 .. Len(far), NEW k \in 1 .. Len(far), k > m + 1
      PROVE  Distance(far[j]) <= Distance(far[k]) + 1
  <2>1. Distance(h) <= Distance(far[k])
    <3>1. m + 1 \in 1 .. Len(far) /\ far[m + 1] = h /\ m + 1 <= k
      BY <1>1, <1>2, <1>10 DEF h
    <3> QED
      BY <1>9, <3>1
  <2>2. Distance(far[j]) <= Distance(h) + 1
    <3>1. CASE j \in 1 .. n
      BY <1>2, <1>7, <3>1
    <3>2. CASE j \notin 1 .. n
      <4>1. Distance(far[j]) = Distance(h) + 1
        BY <1>8, <3>2
      <4> QED
        BY <1>1, <1>3, <4>1
    <3> QED
      BY <3>1, <3>2
  <2>3. Distance(h) \in Nat /\ Distance(far[j]) \in Nat /\ Distance(far[k]) \in Nat
    BY <1>1, <1>3, <1>6
  <2> QED
    BY <2>1, <2>2, <2>3
<1>11. ASSUME NEW k \in 1 .. m + 1, NEW i \in DOMAIN links[far[k]],
              links[far[k]][i] \in AllowedUrls
       PROVE  \E j \in 1 .. Len(far) : far[j] = links[far[k]][i]
  <2>1. k \in 1 .. n /\ far[k] = way[k]
    BY <1>1, <1>2
  <2>2. CASE k \in 1 .. m
    <3>1. \E j \in 1 .. Len(way) : way[j] = links[way[k]][i]
      BY <1>11, <2>1, <2>2 DEF Ordered
    <3> QED
      BY <1>2, <2>1, <3>1 DEF n
  <2>3. CASE k = m + 1
    <3>1. \/ \E j \in 1 .. Len(way) : way[j] = links[far[k]][i]
          \/ \E j \in 1 .. Len(new) : new[j] = links[far[k]][i]
      BY <1>11, <2>1, <2>3
    <3>2. ASSUME NEW j \in 1 .. Len(new), new[j] = links[far[k]][i]
          PROVE  \E x \in 1 .. Len(far) : far[x] = links[far[k]][i]
      BY <1>2, <3>2
    <3>3. ASSUME NEW j \in 1 .. Len(way), way[j] = links[far[k]][i]
          PROVE  \E x \in 1 .. Len(far) : far[x] = links[far[k]][i]
      BY <1>2, <3>3 DEF n
    <3> QED
      BY <3>1, <3>2, <3>3
  <2> QED
    BY <1>1, <2>2, <2>3
<1>12. m + 1 \in 0 .. Len(far) /\ Len(far) # 0 /\ far[1] = FirstPage
  <2>1. 1 \in 1 .. n
    BY <1>1
  <2> QED
    BY <1>1, <1>2, <2>1 DEF Ordered
<1>13. Ordered(far, m + 1)
  BY <1>2, <1>5, <1>6, <1>9, <1>10, <1>11, <1>12 DEF Ordered
<1> QED
  BY <1>13 DEF far

LEMMA HeadAndTail ==
  ASSUME NEW S, NEW w \in Seq(S), w # <<>>
  PROVE  w = <<Head(w)>> \o Tail(w)
<1> DEFINE h == Head(w)
           t == Tail(w)
           u == <<h>> \o t
<1>1. h \in S /\ t \in Seq(S) /\ <<h>> \in Seq(S) /\ Len(<<h>>) = 1
  BY HeadTailProperties
<1>2. /\ Len(w) \in Nat \ {0} /\ h = w[1] /\ Len(t) = Len(w) - 1 /\ 1 + Len(t) = Len(w)
      /\ \A k \in 1 .. Len(w) - 1 : t[k] = w[k + 1]
  <2>1. Len(t) = Len(w) - 1 /\ \A k \in 1 .. Len(t) : t[k] = w[k + 1]
    BY HeadTailProperties
  <2> QED
    BY <2>1
<1> HIDE DEF h, t
<1>3. /\ u \in Seq(S) /\ Len(u) = Len(w)
      /\ \A k \in 1 .. Len(w) : u[k] = IF k <= 1 THEN <<h>>[k] ELSE t[k - 1]
  BY <1>1, <1>2, ConcatProperties
<1> HIDE DEF u
<1>4. ASSUME NEW k \in 1 .. Len(w) PROVE u[k] = w[k]
  <2>1. CASE k = 1
    BY <1>2, <1>3, <2>1
  <2>2. CASE k # 1
    <3>1. k - 1 \in 1 .. Len(w) - 1 /\ ~(k <= 1) /\ (k - 1) + 1 = k
      BY <1>2, <2>2
    <3> QED
      BY <1>2, <1>3, <3>1
  <2> QED
    BY <2>1, <2>2
<1>5. w = u
  BY <1>3, <1>4
<1> QED
  BY <1>5 DEF u, h, t

(* What is found on a page: the linked pages that were not known.          *)
LEMMA FoundIs ==
  ASSUME links \in Links, NEW page \in Pages, NEW known
  PROVE  /\ FoundOn(page, known) \in Seq(Pages)
         /\ \A j, k \in 1 .. Len(FoundOn(page, known)) :
              FoundOn(page, known)[j] = FoundOn(page, known)[k] => j = k
         /\ \A k \in 1 .. Len(FoundOn(page, known)) :
              /\ FoundOn(page, known)[k] \in AllowedUrls \ known
              /\ \E i \in DOMAIN links[page] : links[page][i] = FoundOn(page, known)[k]
         /\ \A i \in DOMAIN links[page] : links[page][i] \in AllowedUrls \ known =>
              \E k \in 1 .. Len(FoundOn(page, known)) : FoundOn(page, known)[k] = links[page][i]
<1> DEFINE to == links[page]
           first(i) == \A j \in 1 .. i - 1 : to[j] # to[i]
           new == {i \in DOMAIN to : to[i] \in AllowedUrls \ known /\ first(i)}
           ahead == [i \in new |-> {j \in new : j < i}]
           nth(n) == CHOOSE i \in new : Cardinality({j \in new : j < i}) = n - 1
           c == Cardinality(new)
<1>1. to \in Seq(Pages) /\ Len(to) \in Nat /\ DOMAIN to = 1 .. Len(to)
  BY PagesAre
<1>2. FoundOn(page, known) = [n \in 1 .. c |-> to[nth(n)]]
  BY DEF FoundOn
<1>3. /\ new \in SUBSET (1 .. Len(to))
      /\ \A i \in new : to[i] \in Pages /\ to[i] \in AllowedUrls \ known
  BY <1>1
<1>4. \A i, j \in new : to[i] = to[j] => i = j
  BY <1>1
<1>5. \A i \in new : ahead[i] = {j \in new : j < i}
  OBVIOUS
<1>6. ASSUME NEW i \in DOMAIN to, to[i] \in AllowedUrls \ known
      PROVE  \E j \in new : to[j] = to[i]
  <2> DEFINE same == {j \in 1 .. Len(to) : to[j] = to[i]}
  <2>1. PICK j \in same : \A k \in same : j <= k
    <3>1. same \in SUBSET (1 .. Len(to)) /\ i \in same
      BY <1>1
    <3> HIDE DEF same
    <3> QED
      BY <1>1, <3>1, Least
  <2>2. first(j)
    BY <1>1, <2>1
  <2> QED
    BY <1>1, <1>6, <2>1, <2>2
<1> HIDE DEF to, new
<1>7. IsOrder(new, ahead)
  BY <1>1, <1>3, AscendingOrder
<1> HIDE DEF ahead
<1>8. /\ c \in Nat
      /\ \A n \in 1 .. c : \E i \in new : Cardinality(ahead[i]) = n - 1
      /\ \A i \in new : Cardinality(ahead[i]) + 1 \in 1 .. c
      /\ \A i, j \in new : Cardinality(ahead[i]) = Cardinality(ahead[j]) => i = j
  BY <1>7, OneOfEachRank
<1>9. ASSUME NEW n \in 1 .. c
      PROVE  nth(n) \in new /\ Cardinality(ahead[nth(n)]) = n - 1
  <2>1. \E i \in new : Cardinality({j \in new : j < i}) = n - 1
    BY <1>5, <1>8
  <2>2. nth(n) \in new /\ Cardinality({j \in new : j < nth(n)}) = n - 1
    BY <2>1
  <2> QED
    BY <1>5, <2>2
<1>10. ASSUME NEW i \in new PROVE \E n \in 1 .. c : nth(n) = i
  <2> DEFINE n == Cardinality(ahead[i]) + 1
  <2>1. n \in 1 .. c /\ Cardinality(ahead[i]) = n - 1
    <3>1. n \in 1 .. c
      BY <1>8
    <3>2. IsFiniteSet(ahead[i])
      BY <1>7, FS_Subset DEF IsOrder
    <3>3. Cardinality(ahead[i]) \in Nat
      BY <3>2, FS_CardinalityType
    <3> QED
      BY <3>1, <3>3
  <2> HIDE DEF n
  <2>2. nth(n) \in new /\ Cardinality(ahead[nth(n)]) = n - 1
    BY <1>9, <2>1
  <2>3. nth(n) = i
    BY <1>8, <2>1, <2>2
  <2> QED
    BY <2>1, <2>3
<1> HIDE DEF nth, c
<1> DEFINE found == FoundOn(page, known)
<1>11. found \in Seq(Pages) /\ Len(found) = c /\ \A n \in 1 .. c : found[n] = to[nth(n)]
  <2>1. \A n \in 1 .. c : to[nth(n)] \in Pages
    BY <1>3, <1>9
  <2>2. found = [n \in 1 .. c |-> to[nth(n)]]
    BY <1>2
  <2> HIDE DEF found
  <2> QED
    BY <1>8, <2>1, <2>2
<1> HIDE DEF found
<1>12. ASSUME NEW j \in 1 .. c, NEW k \in 1 .. c, found[j] = found[k] PROVE j = k
  <2>1. nth(j) = nth(k)
    BY <1>4, <1>9, <1>11, <1>12
  <2>2. j - 1 = k - 1
    BY <1>9, <2>1
  <2> QED
    BY <1>8, <2>2
<1>13. ASSUME NEW k \in 1 .. c
       PROVE  found[k] \in AllowedUrls \ known /\ \E i \in DOMAIN to : to[i] = found[k]
  BY <1>1, <1>3, <1>9, <1>11
<1>14. ASSUME NEW i \in DOMAIN to, to[i] \in AllowedUrls \ known
       PROVE  \E k \in 1 .. c : found[k] = to[i]
  <2>1. PICK j \in new : to[j] = to[i]
    BY <1>6, <1>14
  <2>2. PICK n \in 1 .. c : nth(n) = j
    BY <1>10
  <2> QED
    BY <1>11, <2>1, <2>2
<1> QED
  BY <1>11, <1>12, <1>13, <1>14 DEF to, found

(* The distances change only with the links.                               *)
LEMMA SameLinks ==
  ASSUME links' = links
  PROVE  /\ Reachable' = Reachable
         /\ \A p : Distance(p)' = Distance(p)
<1>1. Within' = Within
  BY DEF Within, Followed
<1> QED
  BY <1>1 DEF Reachable, Distance

LEMMA SameOrder ==
  ASSUME links' = links, NEW way, NEW m, Ordered(way, m),
         Found' = way, Len(crawl'.visited) = m
  PROVE  Ordered(Found, Len(crawl.visited))'
<1>1. Reachable' = Reachable /\ \A p : Distance(p)' = Distance(p)
  BY SameLinks
<1>2. Ordered(way, m)'
  BY <1>1 DEF Ordered
<1> QED
  BY <1>2 DEF Ordered

(* What a page adds to the documents.                                      *)
LEMMA DocumentsAre ==
  ASSUME NEW v \in Seq(Pages)
  PROVE  /\ DocumentsOf(v) \in SUBSET (Nat \X Nat)
         /\ \A k, i : <<k, i>> \in DocumentsOf(v) <=> k \in 1 .. Len(v) /\ i \in DocumentsOn(v[k])
         /\ \A k \in 1 .. Len(v) : DocumentsOn(v[k]) \in SUBSET (1 .. Len(RowsOf[v[k]]))
         /\ \A k \in 1 .. Len(v) : Len(RowsOf[v[k]]) \in Nat
<1>1. /\ DOMAIN v = 1 .. Len(v) /\ Len(v) \in Nat
      /\ \A k \in 1 .. Len(v) : v[k] \in Pages
  OBVIOUS
<1>2. ASSUME NEW k \in 1 .. Len(v)
      PROVE  /\ DocumentsOn(v[k]) \in SUBSET (1 .. Len(RowsOf[v[k]]))
             /\ Len(RowsOf[v[k]]) \in Nat
  <2>1. RowsOf[v[k]] \in Seq(ToSet(RowsOf[v[k]]))
    BY <1>1, CatalogAssumption
  <2>2. DOMAIN RowsOf[v[k]] = 1 .. Len(RowsOf[v[k]]) /\ Len(RowsOf[v[k]]) \in Nat
    BY <2>1
  <2> QED
    BY <2>2 DEF DocumentsOn, InRows, InLinks
<1>3. \A k, i : <<k, i>> \in DocumentsOf(v) <=> k \in 1 .. Len(v) /\ i \in DocumentsOn(v[k])
  BY <1>1 DEF DocumentsOf
<1>4. ASSUME NEW d \in DocumentsOf(v) PROVE d \in Nat \X Nat
  <2>1. PICK k \in 1 .. Len(v) : \E i \in DocumentsOn(v[k]) : d = <<k, i>>
    BY <1>1 DEF DocumentsOf
  <2> QED
    BY <1>1, <1>2, <2>1
<1> QED
  BY <1>2, <1>3, <1>4

LEMMA DocumentsGrow ==
  ASSUME NEW v \in Seq(Pages), NEW p \in Pages
  PROVE  DocumentsOf(Append(v, p)) =
           DocumentsOf(v) \cup {<<Len(v) + 1, i>> : i \in DocumentsOn(p)}
<1> DEFINE a == Append(v, p)
           added == {<<Len(v) + 1, i>> : i \in DocumentsOn(p)}
<1>1. /\ a \in Seq(Pages) /\ Len(v) \in Nat /\ Len(a) = Len(v) + 1 /\ a[Len(v) + 1] = p
      /\ \A k \in 1 .. Len(v) : a[k] = v[k]
  BY AppendProperties
<1> HIDE DEF a
<1>2. DocumentsOf(a) \in SUBSET (Nat \X Nat) /\ DocumentsOf(v) \in SUBSET (Nat \X Nat)
  BY <1>1, DocumentsAre
<1>3. \A k, i : <<k, i>> \in DocumentsOf(a) <=> k \in 1 .. Len(v) + 1 /\ i \in DocumentsOn(a[k])
  BY <1>1, DocumentsAre
<1>4. \A k, i : <<k, i>> \in DocumentsOf(v) <=> k \in 1 .. Len(v) /\ i \in DocumentsOn(v[k])
  BY DocumentsAre
<1>5. \A k, i : <<k, i>> \in added <=> k = Len(v) + 1 /\ i \in DocumentsOn(p)
  OBVIOUS
<1>6. \A d \in added : \E k, i : d = <<k, i>>
  OBVIOUS
<1> HIDE DEF added
<1>7. \A k, i : <<k, i>> \in DocumentsOf(a) <=> <<k, i>> \in DocumentsOf(v) \cup added
  <2>1. /\ \A k : k \in 1 .. Len(v) + 1 <=> k \in 1 .. Len(v) \/ k = Len(v) + 1
        /\ Len(v) + 1 \notin 1 .. Len(v)
    BY <1>1
  <2>2. ASSUME NEW k, NEW i
        PROVE  <<k, i>> \in DocumentsOf(a) <=> <<k, i>> \in DocumentsOf(v) \/ <<k, i>> \in added
    <3>1. CASE k \in 1 .. Len(v)
      BY <1>1, <1>3, <1>4, <1>5, <2>1, <3>1
    <3>2. CASE k \notin 1 .. Len(v)
      BY <1>1, <1>3, <1>4, <1>5, <2>1, <3>2
    <3> QED
      BY <3>1, <3>2
  <2> QED
    BY <2>2
<1>8. \A d : d \in DocumentsOf(a) \cup DocumentsOf(v) \cup added => \E k, i : d = <<k, i>>
  BY <1>2, <1>6
<1>9. \A d : d \in DocumentsOf(a) <=> d \in DocumentsOf(v) \cup added
  BY <1>7, <1>8
<1> QED
  BY <1>9 DEF a, added

(* Of the documents that have a file one is the first.                     *)
LEMMA FirstOfEachFile ==
  ASSUME NEW v \in Seq(Pages), NEW d \in DocumentsOf(v)
  PROVE  \E e \in Deduplicated(DocumentsOf(v), v) :
           /\ BestFile(v, e) = BestFile(v, d) /\ ~Sooner(d, e)
           /\ \A x \in Deduplicated(DocumentsOf(v), v) :
                BestFile(v, x) = BestFile(v, d) => x = e
<1> DEFINE D == DocumentsOf(v)
           same(e) == BestFile(v, e) = BestFile(v, d)
           K == {k \in 1 .. Len(v) : \E i \in Nat : <<k, i>> \in D /\ same(<<k, i>>)}
<1> HIDE DEF D, same
<1>1. /\ D \in SUBSET (Nat \X Nat) /\ Len(v) \in Nat
      /\ \A k, i : <<k, i>> \in D => /\ k \in 1 .. Len(v) /\ Len(RowsOf[v[k]]) \in Nat
                                    /\ i \in 1 .. Len(RowsOf[v[k]])
  BY DocumentsAre DEF D
<1>2. d \in D /\ same(d)
  BY DEF D, same
<1>3. PICK k \in K : \A j \in K : k <= j
  <2>1. d = <<d[1], d[2]>> /\ d[2] \in Nat
    BY <1>1, <1>2
  <2>2. d[1] \in K
    BY <1>1, <1>2, <2>1
  <2>3. K \in SUBSET (1 .. Len(v)) /\ K # {}
    BY <2>2
  <2> HIDE DEF K
  <2> QED
    BY <1>1, <2>3, Least
<1> DEFINE R == Len(RowsOf[v[k]])
           I == {i \in 1 .. R : <<k, i>> \in D /\ same(<<k, i>>)}
<1>4. k \in 1 .. Len(v) /\ R \in Nat
  BY DocumentsAre
<1> HIDE DEF R
<1>5. PICK i \in I : \A j \in I : i <= j
  <2>1. I \in SUBSET (1 .. R) /\ I # {}
    BY <1>1, <1>3 DEF R
  <2> HIDE DEF I
  <2> QED
    BY <1>4, <2>1, Least
<1> DEFINE e == <<k, i>>
<1>6. e \in D /\ same(e) /\ e[1] = k /\ e[2] = i /\ k \in Nat /\ i \in Nat
  BY <1>4, <1>5
<1>7. ASSUME NEW x \in D, same(x)
      PROVE  /\ ~Sooner(x, e) /\ (x # e => Sooner(e, x))
  <2>1. x = <<x[1], x[2]>> /\ x[1] \in Nat /\ x[2] \in Nat
    BY <1>1
  <2>2. x[1] \in 1 .. Len(v) /\ x[2] \in 1 .. Len(RowsOf[v[x[1]]])
    BY <1>1, <2>1
  <2>3. x[1] \in K
    BY <1>7, <2>1, <2>2
  <2>4. k <= x[1]
    BY <1>3, <2>3
  <2>5. x[1] = k => i <= x[2]
    <3> SUFFICES ASSUME x[1] = k PROVE i <= x[2]
      OBVIOUS
    <3>1. x[2] \in I
      BY <1>7, <2>1, <2>2 DEF R
    <3> QED
      BY <1>5, <3>1
  <2>6. x # e => x[1] # k \/ x[2] # i
    BY <2>1
  <2> HIDE DEF e
  <2> QED
    BY <1>6, <2>1, <2>4, <2>5, <2>6 DEF Sooner
<1> HIDE DEF e
<1>8. \A x \in D : BestFile(v, x) = BestFile(v, e) => same(x)
  BY <1>6 DEF same
<1>9. e \in Deduplicated(D, v)
  BY <1>6, <1>7, <1>8 DEF Deduplicated
<1>10. ASSUME NEW x \in Deduplicated(D, v), same(x) PROVE x = e
  <2>1. x \in D /\ ~(Sooner(e, x) /\ BestFile(v, e) = BestFile(v, x))
    BY <1>6 DEF Deduplicated
  <2>2. BestFile(v, e) = BestFile(v, x)
    BY <1>6, <1>10 DEF same
  <2> QED
    BY <1>7, <1>10, <2>1, <2>2
<1> QED
  BY <1>2, <1>6, <1>7, <1>9, <1>10 DEF D, same

-----------------------------------------------------------------------------
LEMMA CrawlStart == CatalogInit => CrawlInv
<1> SUFFICES ASSUME CatalogInit PROVE CrawlInv
  OBVIOUS
<1> DEFINE way == <<FirstPage>>
<1>1. links \in Links /\ FirstPage \in Pages /\ MaxVisits \in Nat \ {0}
  BY CatalogAssumption DEF CatalogInit
<1>2. /\ crawl.pc = "reading" /\ crawl.pending = way /\ crawl.visited = <<>>
      /\ crawl.documents = {}
      /\ crawl \in [pc : {"reading", "done", "failed"}, pending : Seq(Pages), visited : Seq(Pages),
                    attempt : Nat, documents : SUBSET (Nat \X Nat)]
  BY <1>1 DEF CatalogInit
<1>3. Found = way /\ Len(crawl.visited) = 0
  <2>1. way \in Seq(Pages)
    BY <1>1
  <2> QED
    BY <1>2, <2>1, ConcatEmptySeq DEF Found
<1>4. FirstPage \in Reachable /\ Distance(FirstPage) = 0
  BY <1>1, LinksAndDistances
<1>5. Ordered(way, 0)
  BY <1>1, <1>4 DEF Ordered
<1>6. DocumentsOf(<<>>) = {}
  BY DEF DocumentsOf
<1> QED
  BY <1>1, <1>2, <1>3, <1>5, <1>6 DEF CrawlInv

LEMMA PageFailsStep == CrawlInv /\ PageFails => CrawlInv'
<1> SUFFICES ASSUME CrawlInv, PageFails PROVE CrawlInv'
  OBVIOUS
<1>1. /\ links' = links /\ links' \in Links
      /\ crawl'.visited = crawl.visited /\ crawl'.pending = crawl.pending
      /\ crawl' \in [pc : {"reading", "done", "failed"}, pending : Seq(Pages), visited : Seq(Pages),
                     attempt : Nat, documents : SUBSET (Nat \X Nat)]
      /\ \/ crawl'.pc = "reading" /\ crawl'.documents = crawl.documents
         \/ crawl'.pc = "failed"
      /\ crawl.pc = "reading"
  <2>1. /\ links' = links /\ links \in Links /\ crawl.pc = "reading"
        /\ crawl \in [pc : {"reading", "done", "failed"}, pending : Seq(Pages),
                     visited : Seq(Pages), attempt : Nat, documents : SUBSET (Nat \X Nat)]
        /\ \/ crawl' = [crawl EXCEPT !.attempt = crawl.attempt + 1]
           \/ crawl' = [crawl EXCEPT !.pc = "failed", !.documents = {}]
    BY DEF CrawlInv, PageFails
  <2>2. CASE crawl' = [crawl EXCEPT !.attempt = crawl.attempt + 1]
    BY <2>1, <2>2
  <2>3. CASE crawl' = [crawl EXCEPT !.pc = "failed", !.documents = {}]
    BY <2>1, <2>3
  <2> QED
    BY <2>1, <2>2, <2>3
<1>2. Ordered(Found, Len(crawl.visited))'
  <2>1. Found' = Found /\ Len(crawl'.visited) = Len(crawl.visited)
    BY <1>1 DEF Found
  <2> QED
    BY <1>1, <2>1, SameOrder DEF CrawlInv
<1> QED
  BY <1>1, <1>2 DEF CrawlInv

LEMMA VisitStep == CrawlInv /\ Visit => CrawlInv'
<1> SUFFICES ASSUME CrawlInv, Visit PROVE CrawlInv'
  OBVIOUS
<1> DEFINE v == crawl.visited
           w == crawl.pending
           page == Head(w)
           left == Tail(w)
           visited == Append(v, page)
           known == ToSet(visited) \cup ToSet(left)
           found == FoundOn(page, known)
           pending == left \o found
           documents == crawl.documents \cup {<<Len(visited), i>> : i \in DocumentsOn(page)}
<1>1. /\ links \in Links /\ v \in Seq(Pages) /\ w \in Seq(Pages) /\ w # <<>>
      /\ Ordered(v \o w, Len(v)) /\ Len(v) < MaxVisits /\ Len(v) \in Nat
      /\ crawl.documents = DocumentsOf(v) /\ crawl.attempt \in Nat
  BY DEF CrawlInv, Visit, Found
<1>2. MaxVisits \in Nat \ {0}
  BY CatalogAssumption
<1>3. page \in Pages
  BY <1>1, HeadTailProperties
<1>4. /\ crawl' = IF pending = <<>> \/ Len(visited) >= MaxVisits
                  THEN [crawl EXCEPT !.pc = "done", !.pending = pending, !.visited = visited,
                                     !.documents = Deduplicated(documents, visited)]
                  ELSE [crawl EXCEPT !.pending = pending, !.visited = visited,
                                     !.attempt = 1, !.documents = documents]
      /\ links' = links /\ crawl.pc = "reading"
  BY DEF Visit, Queue
<1> HIDE DEF v, w, page, left, visited, known, found, pending, documents
<1>5. /\ found \in Seq(Pages)
      /\ \A j, k \in 1 .. Len(found) : found[j] = found[k] => j = k
      /\ \A k \in 1 .. Len(found) :
           /\ found[k] \in AllowedUrls \ known
           /\ \E i \in DOMAIN links[page] : links[page][i] = found[k]
      /\ \A i \in DOMAIN links[page] : links[page][i] \in AllowedUrls \ known =>
           \E k \in 1 .. Len(found) : found[k] = links[page][i]
  BY <1>1, <1>3, FoundIs DEF found
<1>6. /\ left \in Seq(Pages) /\ pending \in Seq(Pages)
      /\ visited \in Seq(Pages) /\ Len(visited) = Len(v) + 1
      /\ visited \o pending = (v \o w) \o found
      /\ Len(v) < Len(v \o w) /\ (v \o w)[Len(v) + 1] = page
      /\ \A p : p \in known <=> \E k \in 1 .. Len(v \o w) : (v \o w)[k] = p
  <2>1. page \in Pages /\ left \in Seq(Pages) /\ left \o found \in Seq(Pages)
    BY <1>1, <1>3, <1>5, HeadTailProperties, ConcatProperties DEF left
  <2>2. /\ visited \in Seq(Pages) /\ Len(visited) = Len(v) + 1
        /\ visited = v \o <<page>> /\ <<page>> \in Seq(Pages)
    <3>1. visited \in Seq(Pages) /\ Len(visited) = Len(v) + 1 /\ visited = v \o <<page>>
      BY <1>1, <2>1, AppendProperties, AppendIsConcat DEF visited
    <3> QED
      BY <2>1, <3>1
  <2>3. /\ Len(v) \in Nat /\ Len(w) \in Nat \ {0} /\ page = w[1] /\ Len(left) = Len(w) - 1
        /\ \A k \in 1 .. Len(w) - 1 : left[k] = w[k + 1]
    <3>1. Len(left) = Len(w) - 1 /\ \A k \in 1 .. Len(left) : left[k] = w[k + 1]
      BY <1>1, HeadTailProperties DEF left
    <3>2. Len(v) \in Nat /\ Len(w) \in Nat \ {0} /\ page = w[1]
      BY <1>1 DEF page
    <3> QED
      BY <3>1, <3>2
  <2>4. w = <<page>> \o left
    BY <1>1, HeadAndTail DEF page, left
  <2>5. visited \o (left \o found) = (v \o w) \o found
    <3>1. visited \o (left \o found) = v \o (<<page>> \o (left \o found))
      <4>1. v \in Seq(Pages) /\ <<page>> \in Seq(Pages) /\ left \o found \in Seq(Pages)
        BY <1>1, <2>1, <2>2
      <4> DEFINE rest == left \o found
      <4>2. rest \in Seq(Pages)
        BY <4>1
      <4> HIDE DEF rest
      <4>3. (v \o <<page>>) \o rest = v \o (<<page>> \o rest)
        BY <4>1, <4>2, ConcatAssociative
      <4> QED
        BY <2>2, <4>3 DEF rest
    <3>2. <<page>> \o (left \o found) = w \o found
      <4>1. <<page>> \in Seq(Pages) /\ left \in Seq(Pages) /\ found \in Seq(Pages)
        BY <1>5, <2>1, <2>2
      <4>2. (<<page>> \o left) \o found = <<page>> \o (left \o found)
        BY <4>1, ConcatAssociative
      <4> QED
        BY <2>4, <4>2
    <3>3. v \o (w \o found) = (v \o w) \o found
      <4>1. v \in Seq(Pages) /\ w \in Seq(Pages) /\ found \in Seq(Pages)
        BY <1>1, <1>5
      <4> QED
        BY SMTT(40), <4>1, ConcatAssociative
    <3> QED
      BY <3>1, <3>2, <3>3
  <2>6. v \o w = visited \o left
    <3>1. v \in Seq(Pages) /\ <<page>> \in Seq(Pages) /\ left \in Seq(Pages)
      BY <1>1, <2>1, <2>2
    <3>2. (v \o <<page>>) \o left = v \o (<<page>> \o left)
      BY <3>1, ConcatAssociative
    <3> QED
      BY <2>2, <2>4, <3>2
  <2>7. /\ v \o w \in Seq(Pages) /\ Len(v \o w) = Len(v) + Len(w)
        /\ \A k \in 1 .. Len(v) + Len(w) :
             (v \o w)[k] = IF k <= Len(visited) THEN visited[k] ELSE left[k - Len(visited)]
    <3>1. Len(visited) + Len(left) = Len(v) + Len(w)
      BY <2>2, <2>3
    <3> QED
      BY <2>1, <2>2, <2>6, <3>1, ConcatProperties
  <2>8. ASSUME NEW p
        PROVE  p \in ToSet(visited) \cup ToSet(left)
                 <=> \E k \in 1 .. Len(v \o w) : (v \o w)[k] = p
    <3>1. DOMAIN visited = 1 .. Len(v) + 1 /\ DOMAIN left = 1 .. Len(w) - 1
      BY <2>1, <2>2, <2>3
    <3>2. ASSUME NEW k \in DOMAIN visited, visited[k] = p
          PROVE  \E j \in 1 .. Len(v \o w) : (v \o w)[j] = p
      BY <2>2, <2>3, <2>7, <3>1, <3>2
    <3>3. ASSUME NEW k \in DOMAIN left, left[k] = p
          PROVE  \E j \in 1 .. Len(v \o w) : (v \o w)[j] = p
      <4>1. /\ Len(visited) + k \in 1 .. Len(v) + Len(w) /\ ~(Len(visited) + k <= Len(visited))
            /\ (Len(visited) + k) - Len(visited) = k
        BY <2>2, <2>3, <3>1
      <4>2. (v \o w)[Len(visited) + k] = left[k]
        BY <2>7, <4>1
      <4> QED
        BY <2>7, <3>3, <4>1, <4>2
    <3>4. ASSUME NEW k \in 1 .. Len(v \o w), (v \o w)[k] = p
          PROVE  p \in ToSet(visited) \cup ToSet(left)
      <4>1. CASE k <= Len(visited)
        <5>1. k \in DOMAIN visited /\ visited[k] = p
          BY <2>2, <2>3, <2>7, <3>1, <3>4, <4>1
        <5> QED
          BY <5>1 DEF ToSet
      <4>2. CASE ~(k <= Len(visited))
        <5>1. k - Len(visited) \in DOMAIN left /\ left[k - Len(visited)] = p
          BY <2>2, <2>3, <2>7, <3>1, <3>4, <4>2
        <5> QED
          BY <5>1 DEF ToSet
      <4> QED
        BY <4>1, <4>2
    <3> QED
      BY <3>2, <3>3, <3>4 DEF ToSet
  <2>9. Len(v) < Len(v \o w) /\ (v \o w)[Len(v) + 1] = page
    <3>1. visited[Len(v) + 1] = page
      BY <1>1, <2>1, AppendProperties DEF visited
    <3>2. Len(v) + 1 \in 1 .. Len(v) + Len(w) /\ Len(v) + 1 <= Len(visited)
      BY <2>2, <2>3
    <3> QED
      BY <2>3, <2>7, <3>1, <3>2
  <2> QED
    BY <2>1, <2>2, <2>5, <2>8, <2>9 DEF known, pending
<1>7. documents = DocumentsOf(visited) /\ documents \in SUBSET (Nat \X Nat)
  <2>1. documents = DocumentsOf(v) \cup {<<Len(v) + 1, i>> : i \in DocumentsOn(page)}
    BY <1>1, <1>6 DEF documents
  <2>2. DocumentsOf(visited) = DocumentsOf(v) \cup {<<Len(v) + 1, i>> : i \in DocumentsOn(page)}
    BY <1>1, <1>3, DocumentsGrow DEF visited
  <2>3. DocumentsOf(visited) \in SUBSET (Nat \X Nat)
    BY <1>6, DocumentsAre
  <2> QED
    BY <2>1, <2>2, <2>3
<1> DEFINE way == v \o w
           m == Len(v)
<1> HIDE DEF way, m
<1>8. Ordered(way \o found, m + 1)
  <2>1. \A k \in 1 .. Len(found) :
          /\ \A j \in 1 .. Len(way) : way[j] # found[k]
          /\ found[k] \in AllowedUrls
          /\ \E i \in DOMAIN links[way[m + 1]] : links[way[m + 1]][i] = found[k]
    BY <1>5, <1>6 DEF way, m
  <2>2. \A i \in DOMAIN links[way[m + 1]] :
          links[way[m + 1]][i] \in AllowedUrls =>
            \/ \E j \in 1 .. Len(way) : way[j] = links[way[m + 1]][i]
            \/ \E j \in 1 .. Len(found) : found[j] = links[way[m + 1]][i]
    BY <1>5, <1>6 DEF way, m
  <2>3. Ordered(way, m) /\ m < Len(way)
    BY <1>1, <1>6 DEF way, m
  <2> QED
    BY <1>1, <1>5, <2>1, <2>2, <2>3, OrderIsKept
<1>9. /\ crawl'.visited = visited /\ crawl'.pending = pending /\ crawl'.attempt \in Nat
      /\ \/ /\ crawl'.pc = "done" /\ (pending = <<>> \/ Len(visited) >= MaxVisits)
            /\ crawl'.documents = Deduplicated(documents, visited)
         \/ /\ crawl'.pc = "reading" /\ pending # <<>> /\ ~(Len(visited) >= MaxVisits)
            /\ crawl'.documents = documents
  BY <1>1, <1>4 DEF CrawlInv
<1>10. Deduplicated(documents, visited) \in SUBSET (Nat \X Nat)
  BY <1>7 DEF Deduplicated
<1>11. crawl' \in [pc : {"reading", "done", "failed"}, pending : Seq(Pages), visited : Seq(Pages),
                   attempt : Nat, documents : SUBSET (Nat \X Nat)]
  BY <1>4, <1>6, <1>7, <1>9, <1>10 DEF CrawlInv
<1>12. Ordered(Found, Len(crawl.visited))'
  <2>1. Found' = way \o found /\ Len(crawl'.visited) = m + 1
    BY <1>6, <1>9 DEF way, m, Found
  <2> QED
    BY <1>4, <1>8, <2>1, SameOrder
<1>13. /\ Len(crawl'.visited) <= MaxVisits
       /\ Len(visited) >= MaxVisits => Len(visited) = MaxVisits
       /\ ~(Len(visited) >= MaxVisits) => Len(visited) < MaxVisits
  BY <1>1, <1>2, <1>6, <1>9
<1> QED
  BY <1>1, <1>4, <1>7, <1>9, <1>11, <1>12, <1>13 DEF CrawlInv

(* The invariant is the property: with nothing pending, what the visited   *)
(* lead to was visited.                                                    *)
LEMMA CrawlIsRight == CrawlInv => CrawlIsWhole
<1> SUFFICES ASSUME CrawlInv PROVE CrawlIsWhole
  OBVIOUS
<1> DEFINE v == crawl.visited
           w == crawl.pending
           way == v \o w
           reached == ToSet(v)
           distance == [p \in Reachable |-> Distance(p)]
           file(d) == BestFile(v, d)
<1>1. /\ links \in Links /\ v \in Seq(Pages) /\ w \in Seq(Pages) /\ Len(v) \in Nat
      /\ Ordered(way, Len(v)) /\ DOMAIN v = 1 .. Len(v) /\ Len(v) <= MaxVisits
  BY DEF CrawlInv, Found
<1>2. /\ Len(way) \in Nat /\ Len(v) <= Len(way)
      /\ \A k \in 1 .. Len(v) : k \in 1 .. Len(way) /\ way[k] = v[k]
      /\ w = <<>> => way = v
  <2> HIDE DEF v, w
  <2>1. /\ Len(way) = Len(v) + Len(w) /\ Len(w) \in Nat
        /\ \A k \in 1 .. Len(v) + Len(w) : way[k] = IF k <= Len(v) THEN v[k] ELSE w[k - Len(v)]
    BY <1>1, ConcatProperties DEF way
  <2>2. \A k \in 1 .. Len(v) : k \in 1 .. Len(v) + Len(w) /\ k <= Len(v)
    BY <1>1, <2>1
  <2>3. w = <<>> => way = v
    BY <1>1, ConcatEmptySeq DEF way
  <2> HIDE DEF way
  <2> QED
    BY <1>1, <2>1, <2>2, <2>3
<1> HIDE DEF way
<1>3. \A j, k \in DOMAIN v : v[j] = v[k] => j = k
  BY <1>1, <1>2 DEF Ordered
<1>4. reached \subseteq Reachable
  BY <1>1, <1>2 DEF Ordered, ToSet
<1>5. ASSUME NEW p \in reached, NEW q \in Reachable, distance[q] < distance[p]
      PROVE  q \in reached
  <2>1. PICK k \in 1 .. Len(v) : v[k] = p
    BY <1>1 DEF ToSet
  <2>2. way[k] = p /\ k \in 1 .. Len(way) /\ k <= Len(v) + 1
    BY <1>1, <1>2, <2>1
  <2>3. Distance(q) < Distance(way[k])
    BY <1>4, <1>5, <2>2
  <2>4. PICK j \in 1 .. k - 1 : way[j] = q
    BY <1>1, <2>2, <2>3, NearerIsVisited
  <2>5. j \in 1 .. Len(v)
    BY <1>1, <2>1, <2>4
  <2> QED
    BY <1>1, <1>2, <2>4, <2>5 DEF ToSet
<1>6. ASSUME w = <<>>, NEW q \in Reachable PROVE q \in reached
  <2> DEFINE N == Cardinality(Pages)
             T == {n \in 0 .. N : \A p \in Reachable : Distance(p) = n => p \in reached}
  <2>1. /\ N \in Nat \ {0} /\ \A p \in Reachable : Distance(p) \in Nat
    BY <1>1, PagesAre, LinksAndDistances
  <2>2. FirstPage \in reached
    BY <1>1, <1>2, <1>6 DEF Ordered, ToSet
  <2>3. 0 \in T
    <3>1. ASSUME NEW p \in Reachable, Distance(p) = 0, p # FirstPage PROVE FALSE
      <4>1. \E r \in Reachable : Distance(p) = Distance(r) + 1
        BY <1>1, <3>1, LinksAndDistances
      <4> QED
        BY <2>1, <3>1, <4>1
    <3> QED
      BY <2>1, <2>2, <3>1
  <2>4. ASSUME NEW n \in 0 .. N - 1, n \in T PROVE n + 1 \in T
    <3> SUFFICES ASSUME NEW p \in Reachable, Distance(p) = n + 1 PROVE p \in reached
      BY <2>1
    <3>1. p # FirstPage
      BY <1>1, <2>1, LinksAndDistances
    <3>2. PICK r \in Reachable : /\ Distance(p) = Distance(r) + 1 /\ p \in AllowedUrls
                                 /\ \E i \in DOMAIN links[r] : links[r][i] = p
      BY <1>1, <3>1, LinksAndDistances
    <3>3. Distance(r) = n
      BY <2>1, <3>2
    <3>4. r \in reached
      BY <2>4, <3>3
    <3>5. PICK k \in 1 .. Len(v) : v[k] = r
      BY <1>1, <3>4 DEF ToSet
    <3>6. way = v /\ way[k] = r
      BY <1>2, <1>6, <3>5
    <3>7. PICK i \in DOMAIN links[way[k]] : links[way[k]][i] = p
      BY <3>2, <3>6
    <3>8. \E j \in 1 .. Len(way) : way[j] = links[way[k]][i]
      BY <1>1, <3>2, <3>7 DEF Ordered
    <3> QED
      BY <1>1, <3>6, <3>7, <3>8 DEF ToSet
  <2> HIDE DEF T
  <2>5. \A n \in 0 .. N : n \in T
    BY <2>1, <2>3, <2>4, CountingUp
  <2>6. Distance(q) \in 0 .. N
    BY <1>1, <2>1, DistanceIs
  <2> QED
    BY <2>5, <2>6 DEF T
<1>7. Cardinality(reached) = Len(v)
  <2>1. IsFiniteSet(DOMAIN v) /\ Cardinality(DOMAIN v) = Len(v)
    <3>1. IsFiniteSet(1 .. Len(v)) /\ Cardinality(1 .. Len(v)) = Len(v)
      BY <1>1, FS_Interval
    <3> QED
      BY <1>1, <3>1
  <2>2. reached = {v[k] : k \in DOMAIN v}
    BY DEF ToSet
  <2> QED
    BY <1>3, <2>1, <2>2, ValuesAreFew
<1>8. ASSUME crawl.pc = "done"
      PROVE  /\ reached = Reachable \/ Cardinality(reached) = MaxVisits
             /\ crawl.documents \subseteq DocumentsOf(v)
             /\ \A d \in DocumentsOf(v) : \E e \in crawl.documents :
                  /\ file(e) = file(d) /\ ~Sooner(d, e)
                  /\ \A x \in crawl.documents : file(x) = file(d) => x = e
  <2>1. /\ w = <<>> \/ Len(v) = MaxVisits
        /\ crawl.documents = Deduplicated(DocumentsOf(v), v)
    BY <1>8 DEF CrawlInv
  <2>2. reached = Reachable \/ Cardinality(reached) = MaxVisits
    BY <1>4, <1>6, <1>7, <2>1
  <2>3. crawl.documents \subseteq DocumentsOf(v)
    BY <2>1 DEF Deduplicated
  <2> QED
    BY <1>1, <2>1, <2>2, <2>3, FirstOfEachFile
<1> QED
  BY <1>3, <1>4, <1>5, <1>8 DEF CrawlIsWhole

(* For any pages, links, rows and limits: the walk through a catalog goes  *)
(* to each page once and to the nearer before the farther, leaves out a    *)
(* page only when max_pages is used up, and lists the file of each usable  *)
(* row it saw once, for the first row that has it.                         *)
THEOREM CatalogIsWalked == CatalogSpec => []CrawlIsWhole
<1>1. CrawlInv /\ [CatalogNext]_catalogVars => CrawlInv'
  <2> SUFFICES ASSUME CrawlInv, [CatalogNext]_catalogVars PROVE CrawlInv'
    OBVIOUS
  <2>1. CASE Visit
    BY <2>1, VisitStep
  <2>2. CASE PageFails
    BY <2>2, PageFailsStep
  <2>3. CASE UNCHANGED catalogVars
    <3>1. links' = links /\ crawl' = crawl
      BY <2>3 DEF catalogVars
    <3>2. Ordered(Found, Len(crawl.visited))'
      <4>1. Found' = Found /\ Len(crawl'.visited) = Len(crawl.visited)
        BY <3>1 DEF Found
      <4> QED
        BY <3>1, <4>1, SameOrder DEF CrawlInv
    <3> QED
      BY <3>1, <3>2 DEF CrawlInv
  <2> QED
    BY <2>1, <2>2, <2>3 DEF CatalogNext
<1> QED
  BY <1>1, CrawlStart, CrawlIsRight, PTL DEF CatalogSpec
=============================================================================
