----------------------------- MODULE Collection -----------------------------
(***************************************************************************)
(* The corpus and the scripts that add to it, correct it and prune it:     *)
(* scripts/collect_sources.py and seed.py over ingestion/seed.py,          *)
(* scripts/correct_document_numbers.py, scripts/prune_non_tax_documents.py.*)
(*                                                                         *)
(* A collection run lists documents, leaves out those it need not download *)
(* and downloads the first few of the rest, one transaction per document.  *)
(* The run of seed.py takes the sample documents, which are no real ones.  *)
(* The transactions of overlapping runs meet in the constraints of the     *)
(* database: numbers and file hashes are unique, a version's document      *)
(* exists.                                                                 *)
(*                                                                         *)
(* A version is a file, named by its hash.  Metadata other than the number *)
(* is left out but for what prune asks of a title: does it name a tax      *)
(* topic, another one, or ("weak") nothing but the number.                 *)
(***************************************************************************)
EXTENDS Naturals, FiniteSets

CONSTANTS
  Items,        \* what sources list: numbers in listing order
  Ministry,     \* those of the Ministry of Finance
  Seed,         \* sample documents (source "seed-corpus"); the rest are the
                \* government portal's
  NumberOf,     \* the document number an item is listed under
  FileOf,       \* the file an item's link gives
  TitleOf,      \* the title an item is listed under
  Broken,       \* items whose download may fail every time
  Numbers, Files,
  Curated,      \* numbers of the curated manifest
  Protected,    \* numbers of a finance issuer
  Corrections,  \* reviewed corrections: records from, to, items
  Limit,        \* --limit
  Collectors,   \* runs of collect_sources.py that may overlap
  KindsOf,      \* what each of them is started for
  Steady,       \* fairness: those started every day
  DocIds,       \* uuid4 values, used again when nothing remembers them
  NoDoc, NoNumber

Titles == {"tax", "other", "weak"}
Kinds == {"government", "mof", "all", "seed"}
Portal == Items \ (Ministry \cup Seed)

ASSUME CollectionAssumption ==
  /\ Items \subseteq Nat \ {0}
  /\ \A S \in (SUBSET Items) \ {{}} : \E i \in S : \A j \in S : i <= j
  /\ Ministry \subseteq Items /\ Broken \subseteq Items
  /\ Seed \subseteq Items \ Ministry
  /\ NumberOf \in [Items -> Numbers]
  /\ FileOf \in [Items -> Files]
  /\ TitleOf \in [Items -> Titles]
  /\ Curated \subseteq Numbers /\ Protected \subseteq Numbers
  /\ Corrections \subseteq [from : Numbers, to : Numbers, items : SUBSET Items]
  /\ \A b, c \in Corrections : b.from # c.to /\ (b.from = c.from => b = c)
  /\ \A b \in Corrections : b.items = Items \/ b.items \cap Seed = {}
  /\ Limit \in Nat \ {0}
  /\ KindsOf \in [Collectors -> SUBSET Kinds]
  /\ Steady \subseteq {c \in Collectors : "government" \in KindsOf[c]}
  /\ NoDoc \notin DocIds /\ NoNumber \notin Numbers

VARIABLES
  number,     \* document_number of a document; NoNumber: no such document
  title,      \* its title
  owner,      \* document_id of a file's version; NoDoc: no such version
  origin,     \* the item of its source record
  storage,    \* raw files in the object store
  collector,  \* the collection runs
  pruning     \* documents the prune run has listed and not yet deleted

corpusVars == <<number, title, owner, origin>>
vars == <<corpusVars, storage, collector, pruning>>

Idle == [pc |-> "off", batch |-> {}, doc |-> NoDoc, renew |-> FALSE]

Init ==
  /\ number = [d \in DocIds |-> NoNumber]
  /\ title = [d \in DocIds |-> "weak"]
  /\ owner = [f \in Files |-> NoDoc]
  /\ origin = [f \in Files |-> 0]
  /\ storage = {}
  /\ collector = [c \in Collectors |-> Idle]
  /\ pruning = {}

Held == {f \in Files : owner[f] # NoDoc}
Documents == {d \in DocIds : number[d] # NoNumber}
Known == {number[d] : d \in Documents}
FilesOf(d) == {f \in Held : owner[f] = d}

(* Ids for a new document: those of no document, which no run remembers.   *)
(* Which of them it gets is immaterial.                                    *)
Fresh == (DocIds \ Documents) \ (pruning \cup {collector[c].doc : c \in Collectors})
NewId == CHOOSE d \in Fresh : TRUE

-----------------------------------------------------------------------------
(* Which items a run downloads.                                            *)

(* With "all" the ministry's come first.                                   *)
Listed(kind) ==
  CASE kind = "government" -> Portal
    [] kind = "mof" -> Ministry
    [] kind = "all" -> Portal \cup Ministry
    [] kind = "seed" -> Seed

Recorded == {origin[f] : f \in Held}

(* Not collected, and no portal copy of a number already held.             *)
Eligible(i) == i \notin Recorded /\ (i \in Ministry \/ NumberOf[i] \notin Known)

(* ... nor of one this run is about to collect.                            *)
Pending(kind) ==
  {i \in Listed(kind) :
     /\ Eligible(i)
     /\ i \in Ministry \/ ~\E j \in Listed(kind) :
          j < i /\ Eligible(j) /\ NumberOf[j] = NumberOf[i]}

(* Mutant: one fewer than the limit.                                       *)
First_Fewer(n, S) == {i \in S : Cardinality({j \in S : j < i}) < n - 1}

First(n, S) == {i \in S : Cardinality({j \in S : j < i}) < n}

(* seed.py takes all samples each time.                                    *)
Batch(kind) == IF kind = "seed" THEN Seed ELSE First(Limit, Pending(kind))

StartRun(c, kind) ==
  /\ collector[c].pc = "off"
  /\ kind \in KindsOf[c]
  /\ Batch(kind) # {}
  /\ collector' = [collector EXCEPT ![c] =
       [Idle EXCEPT !.pc = "downloading", !.batch = Batch(kind)]]
  /\ UNCHANGED <<corpusVars, storage, pruning>>

EndRun(c) ==
  /\ collector[c].pc = "downloading"
  /\ collector[c].batch = {}
  /\ collector' = [collector EXCEPT ![c] = Idle]
  /\ UNCHANGED <<corpusVars, storage, pruning>>

-----------------------------------------------------------------------------
(* One item of a run: _download and ingest_seed_document.                  *)

Item(c) == CHOOSE i \in collector[c].batch : \A j \in collector[c].batch : i <= j
File(c) == FileOf[Item(c)]

(* On to the next item.                                                    *)
Onward(c) == [Idle EXCEPT !.pc = "downloading", !.batch = collector[c].batch \ {Item(c)}]

(* ConnectorError, OSError, DBAPIError: rolled back; the run goes on (that *)
(* of seed.py ends).                                                       *)
Fails(c) ==
  /\ collector[c].pc # "off"
  /\ collector[c].batch # {} /\ Item(c) \notin Seed
  /\ collector' = [collector EXCEPT ![c] = Onward(c)]
  /\ UNCHANGED <<corpusVars, storage, pruning>>

(* _refresh_document_metadata: a better title replaces a weak one.         *)
Better(i, d) == title[d] = "weak" /\ TitleOf[i] # "weak"

(* The file is held already: UNCHANGED.                                    *)
AlreadyHeld(c) ==
  LET d == owner[File(c)]
  IN  /\ collector[c].pc = "downloading"
      /\ collector[c].batch # {}
      /\ File(c) \in Held
      /\ title' = IF Better(Item(c), d) THEN [title EXCEPT ![d] = TitleOf[Item(c)]] ELSE title
      /\ collector' = [collector EXCEPT ![c] = Onward(c)]
      /\ UNCHANGED <<number, owner, origin, storage, pruning>>

(* A new file: remember its document, if there is one.                     *)
Look(c) ==
  /\ collector[c].pc = "downloading"
  /\ collector[c].batch # {}
  /\ File(c) \notin Held
  /\ \E d \in DocIds \cup {NoDoc} :
       /\ IF NumberOf[Item(c)] \in Known
          THEN d \in Documents /\ number[d] = NumberOf[Item(c)]
          ELSE d = NoDoc
       /\ collector' = [collector EXCEPT
            ![c].pc = "storing", ![c].doc = d,
            ![c].renew = d # NoDoc /\ Better(Item(c), d)]
  /\ UNCHANGED <<corpusVars, storage, pruning>>

(* Mutant: the file is stored after the commit.                            *)
Stored_Later(f) == storage

Stored(f) == storage \cup {f}

Store(c) ==
  /\ collector[c].pc = "storing"
  /\ storage' = Stored(File(c))
  /\ collector' = [collector EXCEPT ![c].pc = "committing"]
  /\ UNCHANGED <<corpusVars, pruning>>

(* What the database accepts: a new hash, and a document that is still     *)
(* there or a number that is still free.                                   *)
Allowed(c) ==
  /\ File(c) \notin Held
  /\ IF collector[c].doc = NoDoc
     THEN NumberOf[Item(c)] \notin Known
     ELSE collector[c].doc \in Documents

Commit(c) ==
  LET new == collector[c].doc = NoDoc
      d == IF new THEN NewId ELSE collector[c].doc
  IN  /\ collector[c].pc = "committing"
      /\ Allowed(c)
      /\ new => Fresh # {}
      /\ owner' = [owner EXCEPT ![File(c)] = d]
      /\ origin' = [origin EXCEPT ![File(c)] = Item(c)]
      /\ number' = [number EXCEPT ![d] = IF new THEN NumberOf[Item(c)] ELSE @]
      /\ title' = [title EXCEPT ![d] =
           IF new \/ collector[c].renew THEN TitleOf[Item(c)] ELSE @]
      /\ collector' = [collector EXCEPT ![c] = Onward(c)]
      /\ UNCHANGED <<storage, pruning>>

-----------------------------------------------------------------------------
(* correct_document_numbers.py --apply: one transaction.                   *)

(* The files a correction moves.                                           *)
Moved(b) == {f \in Held : number[owner[f]] = b.from /\ origin[f] \in b.items}

(* Mutant: the old document goes although another source has a file of it. *)
Emptied_Always(b) == {d \in Documents : number[d] = b.from}

Emptied(b) == {d \in Documents : FilesOf(d) # {} /\ FilesOf(d) \subseteq Moved(b)}

(* One correction; a run makes them all, and they are independent.         *)
Correct(b) ==
  /\ Moved(b) # {}
  /\ \E old, new \in DocIds :
       /\ old \in Documents /\ number[old] = b.from
       /\ IF b.to \in Known
          THEN new \in Documents /\ number[new] = b.to
          ELSE Fresh # {} /\ new = NewId
       /\ owner' = [f \in Files |-> IF f \in Moved(b) THEN new ELSE owner[f]]
       /\ number' = [d \in DocIds |->
            IF d \in Emptied(b) THEN NoNumber ELSE IF d = new THEN b.to ELSE number[d]]
       /\ title' = [d \in DocIds |->
            IF d \in Emptied(b) THEN "weak"
            ELSE IF d = new /\ b.to \notin Known THEN title[old] ELSE title[d]]
  /\ UNCHANGED <<origin, storage, collector, pruning>>

-----------------------------------------------------------------------------
(* prune_non_tax_documents.py --apply: a list, then one commit a document. *)

IsSample(d) == \E f \in FilesOf(d) : origin[f] \in Seed

(* Mutant: the curated list is not consulted.                              *)
NonTax_Curated(d) == IsSample(d) \/ (number[d] \notin Protected /\ title[d] # "tax")

(* _documents_to_remove: a document with a sample among its versions goes  *)
(* whatever its issuer, others if neither issuer nor title speaks of tax.  *)
NonTax(d) ==
  /\ number[d] \notin Curated
  /\ IsSample(d) \/ (number[d] \notin Protected /\ title[d] # "tax")

PruneLists ==
  /\ pruning = {}
  /\ pruning' = {d \in Documents : NonTax(d)}
  /\ pruning' # {}
  /\ UNCHANGED <<corpusVars, storage, collector>>

Deleted(d) == FilesOf(d)

PruneDeletes(d) ==
  /\ d \in pruning
  /\ owner' = [f \in Files |-> IF f \in Deleted(d) THEN NoDoc ELSE owner[f]]
  /\ origin' = [f \in Files |-> IF f \in Deleted(d) THEN 0 ELSE origin[f]]
  /\ number' = [number EXCEPT ![d] = NoNumber]
  /\ title' = [title EXCEPT ![d] = "weak"]
  /\ pruning' = pruning \ {d}
  /\ UNCHANGED <<storage, collector>>

(* Killed, or a version came in under a listed document just then and the  *)
(* foreign key made the deletion raise.                                    *)
PruneDies ==
  /\ pruning # {}
  /\ pruning' = {}
  /\ UNCHANGED <<corpusVars, storage, collector>>

Die(c) ==
  /\ collector[c].pc # "off"
  /\ collector' = [collector EXCEPT ![c] = Idle]
  /\ UNCHANGED <<corpusVars, storage, pruning>>

Progress(c) == AlreadyHeld(c) \/ Look(c) \/ Store(c) \/ Commit(c)

Next ==
  \/ \E c \in Collectors :
       \/ \E kind \in Kinds : StartRun(c, kind)
       \/ Progress(c) \/ Fails(c) \/ EndRun(c) \/ Die(c)
  \/ \E b \in Corrections : Correct(b)
  \/ PruneLists \/ PruneDies
  \/ \E d \in DocIds : PruneDeletes(d)

Spec == Init /\ [][Next]_vars

(***************************************************************************)
(* Fairness.  The daily DAG starts a run over the portal again and again,  *)
(* which goes on while it lives.  Other runs (the ministry's are started   *)
(* by hand), corrections and prunes need not happen.                       *)
(***************************************************************************)
FairSpec ==
  /\ Spec
  /\ \A c \in Steady :
       /\ SF_vars(StartRun(c, "government"))
       /\ WF_vars(Progress(c) \/ Fails(c) \/ EndRun(c))

(* A step in which steady runs are not killed and fail only where they     *)
(* must, at a dead link or a collision, and nobody begins to prune.        *)
Calm ==
  /\ ~PruneLists
  /\ \A c \in Steady :
       /\ Die(c) => EndRun(c)
       /\ Fails(c) /\ ~AlreadyHeld(c) =>
            \/ Item(c) \in Broken
            \/ collector[c].pc = "committing" /\ ~Allowed(c)

-----------------------------------------------------------------------------
(* Properties.                                                             *)

(* Collecting, correcting and pruning meet on the same document, yet no    *)
(* version loses its document and no document is left without a version.   *)
EveryDocumentHasAFile == {owner[f] : f \in Held} = Documents

(* A version's raw file is in the store, whenever the run was cut off.     *)
RawIsStored == Held \subseteq storage

(* What was collected stays: a version goes only in a prune run that had   *)
(* listed its document, never from a curated number, and from a finance    *)
(* issuer's only with a sample document among its versions, whatever was   *)
(* collected or corrected since the list was made; it changes its document *)
(* only by a reviewed correction.                                          *)
CollectedStays ==
  [][\A f \in Held :
       /\ owner'[f] = NoDoc =>
            /\ owner[f] \in pruning
            /\ number[owner[f]] \notin Curated
            /\ number[owner[f]] \in Protected => IsSample(owner[f])
       /\ owner'[f] \notin {NoDoc, owner[f]} =>
            \E b \in Corrections : f \in Moved(b) /\ number'[owner'[f]] = b.to]_vars

(* Each daily run takes the first Limit of what it lacks, and tries again  *)
(* each time those with a dead link and those whose file is held already,  *)
(* under another number: behind as many of them nothing gets in.           *)
Blocked(i) ==
  Cardinality({j \in Portal : /\ j < i /\ Eligible(j)
                              /\ j \in Broken \/ FileOf[j] \in Held}) >= Limit

(* Once outages are over, each number the portal lists with a link that    *)
(* works comes into the corpus, unless its file is there under another     *)
(* number or it is blocked, though runs take few documents each, wrongly   *)
(* numbered files stand in the way and runs collide.                       *)
EveryNumberIsCollected ==
  <>[][Calm]_vars =>
    \A i \in Portal \ Broken :
      <>[](NumberOf[i] \in Known \/ FileOf[i] \in Held \/ Blocked(i))
=============================================================================
