------------------------------- MODULE Library ------------------------------
(***************************************************************************)
(* The library pages of api/routes/documents.py: the list with its         *)
(* filters and pages, the overview whose counts become the filters, a      *)
(* document's versions and the spreadsheet.                                *)
(*                                                                         *)
(* The corpus arrives version by version, and the invariants compare what  *)
(* different requests say of the same corpus.  A document is its place in  *)
(* the order of document numbers; a date is a number, 0 when unknown.      *)
(***************************************************************************)
EXTENDS Integers, Sequences, SequencesExt, FiniteSetsExt

CONSTANTS
  Documents,   \* documents, numbered in the order of their document numbers
  TypeOf,      \* their document_type
  KindOf,      \* document_kind of each type; several types may be of one kind
  Filings,     \* versions a corpus may hold: document, source, status, issue
               \* date, statuses of its jobs oldest first, passages
  MaxVersions, \* bound: versions of a corpus
  PageLimits,  \* how many documents the pages asked for hold
  Unset        \* a filter that is not given

Sources == {f.source : f \in Filings}
Statuses == {f.status : f \in Filings}
Kinds == {KindOf[t] : t \in DOMAIN KindOf}

ASSUME LibraryAssumption ==
  /\ Documents \subseteq Nat
  /\ TypeOf \in [Documents -> DOMAIN KindOf]
  /\ \A f \in Filings : f.document \in Documents /\ {f.issue, f.passages} \subseteq Nat
  /\ PageLimits \subseteq Nat \ {0}
  /\ Unset \notin Sources \cup Statuses \cup Kinds \cup DOMAIN KindOf

VARIABLE versions   \* document_versions, in the order of created_at
libraryVars == <<versions>>

LibraryInit == versions = <<>>

LibraryNext ==
  /\ Len(versions) < MaxVersions
  /\ \E f \in Filings : versions' = Append(versions, f)

LibrarySpec == LibraryInit /\ [][LibraryNext]_libraryVars

VersionIds == 1 .. Len(versions)
Stored == {versions[i].document : i \in VersionIds}
Of(d) == {i \in VersionIds : versions[i].document = d}

-----------------------------------------------------------------------------
(* Orders and sums.                                                        *)

(* ORDER BY: the elements of S, each behind those in ahead of it.          *)
InOrder(S, ahead) ==
  [k \in 1 .. Cardinality(S) |-> CHOOSE x \in S : Cardinality(ahead[x]) = k - 1]

(* The sum of f over S, as the number of rows it counts.                   *)
SumOf(S, f) == Cardinality(UNION {{x} \X (1 .. f[x]) : x \in S})

-----------------------------------------------------------------------------
(* The list.                                                               *)

(* The types asked for.  A kind nothing is stored of does not narrow a     *)
(* document_type that is given too.                                        *)
TypesWanted(kind, type) ==
  LET stored == {TypeOf[d] : d \in Stored}
      ofKind == {t \in stored : KindOf[t] = kind}
  IN  IF type = Unset THEN IF kind = Unset THEN DOMAIN KindOf ELSE ofKind
      ELSE (IF kind = Unset \/ ofKind = {} THEN {type} ELSE ofKind) \cap {type}

(* _matching_document_ids: the rows of the join.  Source and status are    *)
(* those of one version; text is what q and issuing_agency leave.          *)
MatchingRows(r) ==
  {i \in VersionIds :
     /\ versions[i].document \in r.text
     /\ TypeOf[versions[i].document] \in TypesWanted(r.kind, r.type)
     /\ r.source \in {Unset, versions[i].source}
     /\ r.status \in {Unset, versions[i].status}}

Matching(r) == {versions[i].document : i \in MatchingRows(r)}

Total(r) == Cardinality(Matching(r))

LatestIssue(d) == Max({versions[i].issue : i \in Of(d)})

(* Newest issue first, undated ones last.                                  *)
ListOrder(r) ==
  InOrder(Matching(r), [d \in Matching(r) |->
    {e \in Matching(r) : \/ LatestIssue(e) > LatestIssue(d)
                         \/ LatestIssue(e) = LatestIssue(d) /\ e < d}])

Page(r, offset, limit) ==
  LET order == ListOrder(r)
  IN  SubSeq(order, offset + 1, Min({offset + limit, Len(order)}))

(* Mutant: undated versions come first, as in get_document.                *)
LatestVersion_Undated(d) ==
  CHOOSE i \in Of(d) : \A j \in Of(d) :
    \/ versions[i].issue = 0 /\ versions[j].issue # 0
    \/ (versions[i].issue = 0) = (versions[j].issue = 0)
       /\ \/ versions[i].issue > versions[j].issue
          \/ versions[i].issue = versions[j].issue /\ i >= j

(* _latest_versions_by_document: of the latest issue, the one created last.*)
LatestVersion(d) ==
  CHOOSE i \in Of(d) : \A j \in Of(d) :
    \/ versions[i].issue > versions[j].issue
    \/ versions[i].issue = versions[j].issue /\ i >= j

(* The item of a document in the list.                                     *)
Item(d) ==
  [document |-> d, kind |-> KindOf[TypeOf[d]],
   source |-> versions[Max(Of(d))].source,
   status |-> versions[LatestVersion(d)].status,
   issue |-> versions[LatestVersion(d)].issue]

-----------------------------------------------------------------------------
(* One document, the overview and the spreadsheet.                         *)

LastJob(i) == IF versions[i].jobs = <<>> THEN "none" ELSE Last(versions[i].jobs)

(* What both say of the versions, in the order they are shown.             *)
Summaries(order) ==
  [k \in DOMAIN order |->
     [version |-> order[k], status |-> LastJob(order[k]), chunks |-> versions[order[k]].passages]]

(* get_document: in PostgreSQL's descending order the undated come first.  *)
Detail(d) ==
  Summaries(InOrder(Of(d), [i \in Of(d) |->
    {j \in Of(d) :
       \/ versions[j].issue = 0 /\ versions[i].issue # 0
       \/ /\ (versions[j].issue = 0) = (versions[i].issue = 0)
          /\ \/ versions[j].issue > versions[i].issue
             \/ versions[j].issue = versions[i].issue /\ j > i}]))

(* export_document_list: a row per version, by document and creation.      *)
Export ==
  Summaries(InOrder(VersionIds, [i \in VersionIds |->
    {j \in VersionIds :
       \/ versions[j].document < versions[i].document
       \/ versions[j].document = versions[i].document /\ j < i}]))

(* documents_per: the documents of a group of versions, each counted once. *)
DocumentsPer(group) == Cardinality({versions[i].document : i \in group})
BySource(source) == DocumentsPer({i \in VersionIds : versions[i].source = source})
ByStatus(status) == DocumentsPer({i \in VersionIds : versions[i].status = status})

(* _counts of the types, merged into kinds.                                *)
ByKind(kind) ==
  SumOf({t \in {TypeOf[d] : d \in Stored} : KindOf[t] = kind},
        [t \in DOMAIN KindOf |-> Cardinality({d \in Stored : TypeOf[d] = t})])

Overview ==
  [documents |-> Cardinality(Stored),
   searchable |-> DocumentsPer({i \in VersionIds : versions[i].passages > 0}),
   passages |-> SumOf(VersionIds, [i \in VersionIds |-> versions[i].passages]),
   failed |-> Cardinality({i \in VersionIds : LastJob(i) = "FAILED"})]

-----------------------------------------------------------------------------
(* Properties.                                                             *)

Requests ==
  [text : {Documents, {Min(Documents)}}, kind : Kinds \cup {Unset},
   type : DOMAIN KindOf \cup {Unset}, source : Sources \cup {Unset},
   status : Statuses \cup {Unset}]

NoFilter == [text |-> Documents, kind |-> Unset, type |-> Unset, source |-> Unset, status |-> Unset]

(* What pages 1 to n show, one after the other.                            *)
Turning(r, limit, n) ==
  LET shown[k \in 0 .. n] ==
        IF k = 0 THEN <<>> ELSE shown[k - 1] \o Page(r, (k - 1) * limit, limit)
  IN  shown[n]

(* Turning the pages shows each document that matches once, as many as the *)
(* total says, with the issue dates shown going down and the undated last. *)
PagesAreWhole ==
  \A r \in Requests : \A limit \in PageLimits :
    LET shown == Turning(r, limit, (Total(r) + limit - 1) \div limit)
    IN  /\ Len(shown) = Total(r) /\ ToSet(shown) = Matching(r)
        /\ \A k \in 1 .. Len(shown) - 1 : Item(shown[k]).issue >= Item(shown[k + 1]).issue

FailedIn(rows) == Cardinality({k \in DOMAIN rows : rows[k].status = "FAILED"})
PassagesIn(rows) == SumOf(DOMAIN rows, [k \in DOMAIN rows |-> rows[k].chunks])

(* The number beside a filter is the number of documents the list shows    *)
(* under it.                                                               *)
FiltersAgree ==
  /\ \A s \in Sources : Total([NoFilter EXCEPT !.source = s]) = BySource(s)
  /\ \A s \in Statuses : Total([NoFilter EXCEPT !.status = s]) = ByStatus(s)
  /\ \A k \in Kinds : Total([NoFilter EXCEPT !.kind = k]) = ByKind(k)
  /\ Overview.documents = Total(NoFilter)

(* Kind and type asked for together are both obeyed, if there is anything  *)
(* of the kind.                                                            *)
TypesAgree ==
  \A r \in Requests : \A d \in Matching(r) :
    /\ r.type \in {Unset, TypeOf[d]}
    /\ r.kind = Unset \/ Item(d).kind = r.kind \/ ByKind(r.kind) = 0

(* The overview adds up to what the documents' own pages and the           *)
(* spreadsheet say of their versions.                                      *)
VersionsAgree ==
  /\ Overview.failed = SumOf(Stored, [d \in Stored |-> FailedIn(Detail(d))])
  /\ Overview.failed = FailedIn(Export)
  /\ Overview.passages = SumOf(Stored, [d \in Stored |-> PassagesIn(Detail(d))])
  /\ Overview.passages = PassagesIn(Export)

(* Browsing a corpus that holds anything: the lists, their pages and the   *)
(* numbers beside them.                                                    *)
ListsAgree == versions # <<>> => PagesAreWhole /\ FiltersAgree /\ TypesAgree /\ VersionsAgree
=============================================================================
