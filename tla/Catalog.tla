------------------------------- MODULE Catalog ------------------------------
(***************************************************************************)
(* The walk of ingest_sources.py through a portal's catalog pages:         *)
(* OfficialPortalConnector in ingestion/connectors.py follows the links to *)
(* further pages, breadth first and no further than max_pages, and reads   *)
(* the rows of each page.                                                  *)
(*                                                                         *)
(* A row is a document: its number ("" when none is recognised), the date  *)
(* of issue (0 when unknown) and the links to its files, in order.  On a   *)
(* page that does not mark its numbers each link that stays on the portal  *)
(* is such a row of one file, and may call itself an attachment.           *)
(***************************************************************************)
EXTENDS Integers, Sequences, FiniteSets, SequencesExt, FiniteSetsExt

CONSTANTS
  Pages,        \* addresses of catalog pages
  FirstPage,    \* catalog_url
  Links,        \* what pages may link to: sequences of pages for each
  AllowedUrls,  \* addresses, of pages and of files, on the allowed hosts
  RowsOf,       \* the rows of each page
  Plain,        \* pages without rows that mark a document's number
  FormatOf,     \* files: 1 .docx, 2 .doc, 3 .rtf, 4 .pdf; other links have none
  Since,        \* older documents are left out, unless Since is 0
  MaxVisits,    \* max_pages
  Tries         \* requests made for a page

ASSUME CatalogAssumption ==
  /\ IsFiniteSet(Pages) /\ FirstPage \in Pages \cap AllowedUrls
  /\ Links \subseteq [Pages -> Seq(Pages)]
  /\ \A p \in Pages : RowsOf[p] \in Seq(ToSet(RowsOf[p]))
  /\ Plain \subseteq Pages
  /\ {MaxVisits, Tries} \subseteq Nat \ {0}

VARIABLES
  links,   \* the pages each page links to, in the order of the links
  crawl    \* list_documents

catalogVars == <<links, crawl>>

CatalogInit ==
  /\ links \in Links
  /\ crawl = [pc |-> "reading", pending |-> <<FirstPage>>, visited |-> <<>>,
              attempt |-> 1, documents |-> {}]

(* _preferred_file: the first link of the format that comes first.         *)
PreferredFile(files) ==
  LET kept == {i \in DOMAIN files : files[i] \in AllowedUrls \cap DOMAIN FormatOf}
      best == {i \in kept : \A j \in kept : FormatOf[files[i]] <= FormatOf[files[j]]}
  IN  IF best = {} THEN "" ELSE files[Min(best)]

Recent(row) == Since = 0 \/ row.issued = 0 \/ row.issued >= Since

(* _parse_result_rows: the rows of a page that give a document.            *)
InRows(page) ==
  {i \in DOMAIN RowsOf[page] :
     LET row == RowsOf[page][i]
     IN  row.number # "" /\ PreferredFile(row.files) # "" /\ Recent(row)}

(* _parse_catalog_page, in the order of the links: a PDF is a document if  *)
(* its link has a number, or is an attachment of the last link that had.   *)
InLinks(page) ==
  {i \in DOMAIN RowsOf[page] :
     LET row == RowsOf[page][i]
         named == {j \in 1 .. i : RowsOf[page][j].number # ""}
     IN  /\ row.number # "" \/ row.attached
         /\ PreferredFile(row.files) # "" /\ FormatOf[PreferredFile(row.files)] = 4
         /\ named # {} /\ Recent(RowsOf[page][Max(named)])}

DocumentsOn(page) == IF page \in Plain THEN InLinks(page) ELSE InRows(page)

(* A document <<k, i>> is row i of the k-th page; so they are in order.    *)
BestFile(visited, d) == PreferredFile(RowsOf[visited[d[1]]][d[2]].files)
Sooner(d, e) == d[1] < e[1] \/ (d[1] = e[1] /\ d[2] < e[2])
DocumentsOf(visited) ==
  UNION {{<<k, i>> : i \in DocumentsOn(visited[k])} : k \in DOMAIN visited}

(* _deduplicate_documents: the first one of each file.                     *)
Deduplicated(documents, visited) ==
  {d \in documents :
     ~\E e \in documents : Sooner(e, d) /\ BestFile(visited, e) = BestFile(visited, d)}

(* The pages that are linked and not known yet, each once, in the order of *)
(* the links.                                                              *)
FoundOn(page, known) ==
  LET to == links[page]
      new == {i \in DOMAIN to : /\ to[i] \in AllowedUrls \ known
                                /\ \A j \in 1 .. i - 1 : to[j] # to[i]}
      nth(n) == CHOOSE i \in new : Cardinality({j \in new : j < i}) = n - 1
  IN  [n \in 1 .. Cardinality(new) |-> to[nth(n)]]

(* Mutant: the last link found is followed first.                          *)
Queue_Stack(pending, found) == found \o pending

Queue(pending, found) == pending \o found

(* One page, unless the walk is over.                                      *)
Visit ==
  /\ crawl.pc = "reading"
  /\ LET page == Head(crawl.pending)
         left == Tail(crawl.pending)
         visited == Append(crawl.visited, page)
         pending == Queue(left, FoundOn(page, ToSet(visited) \cup ToSet(left)))
         documents == crawl.documents \cup {<<Len(visited), i>> : i \in DocumentsOn(page)}
     IN  crawl' = IF pending = <<>> \/ Len(visited) >= MaxVisits
                  THEN [crawl EXCEPT !.pc = "done", !.pending = pending, !.visited = visited,
                                     !.documents = Deduplicated(documents, visited)]
                  ELSE [crawl EXCEPT !.pending = pending, !.visited = visited,
                                     !.attempt = 1, !.documents = documents]
  /\ UNCHANGED links

(* _request: one page that cannot be had ends the walk with nothing.       *)
PageFails ==
  /\ crawl.pc = "reading"
  /\ crawl' = IF crawl.attempt < Tries THEN [crawl EXCEPT !.attempt = @ + 1]
              ELSE [crawl EXCEPT !.pc = "failed", !.documents = {}]
  /\ UNCHANGED links

CatalogNext == Visit \/ PageFails
CatalogSpec == CatalogInit /\ [][CatalogNext]_catalogVars

-----------------------------------------------------------------------------
(* The pages within n links of the first, by allowed links.                *)
Followed(S) == S \cup UNION {ToSet(links[p]) \cap AllowedUrls : p \in S}
Within[n \in 0 .. Cardinality(Pages)] == IF n = 0 THEN {FirstPage} ELSE Followed(Within[n - 1])

Reachable == Within[Cardinality(Pages)]
Distance(p) == Min({n \in 0 .. Cardinality(Pages) : p \in Within[n]})

(* The walk visits no page twice and none before one that is nearer; it    *)
(* leaves a page out only when max_pages is used up; and it lists the file *)
(* of every usable row it saw, once, and for the first row that has it.    *)
CrawlIsWhole ==
  LET seen == ToSet(crawl.visited)
      found == DocumentsOf(crawl.visited)
      file(d) == BestFile(crawl.visited, d)
      distance == [p \in Reachable |-> Distance(p)]
  IN  /\ \A j, k \in DOMAIN crawl.visited : crawl.visited[j] = crawl.visited[k] => j = k
      /\ seen \subseteq Reachable
      /\ \A p \in seen : \A q \in Reachable : distance[q] < distance[p] => q \in seen
      /\ crawl.pc = "done" =>
           /\ seen = Reachable \/ Cardinality(seen) = MaxVisits
           /\ crawl.documents \subseteq found
           /\ \A d \in found : \E e \in crawl.documents :
                /\ file(e) = file(d) /\ ~Sooner(d, e)
                /\ \A x \in crawl.documents : file(x) = file(d) => x = e
=============================================================================
