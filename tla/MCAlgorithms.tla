---------------------------- MODULE MCAlgorithms ----------------------------
(* The algorithms on texts, titles, listings and rankings, each over every *)
(* input of a small instance of its own: "family" says which one moves.    *)
EXTENDS Previews, Library, Listing, Catalog, Repeals, WordText, PageText, Evaluation

VARIABLE family

textVars == <<chunkVars, libraryVars, wordTextVars, pageTextVars>>
listVars == <<listingVars, catalogVars, repealVars>>
algorithmVars == <<family, textVars, listVars, evaluationVars>>

Families == {"chunks", "library", "ministry", "government", "catalog", "repeals",
             "rtf", "word", "pages", "rankings", "manifests"}

(* A family that does not move has a plain start.                          *)
NoLinks == [p \in Pages |-> IF p = "p4" THEN <<"p1", "p5", "p5">> ELSE IF p = "p5" THEN <<"p4">> ELSE <<>>]

Init ==
  /\ family \in Families
  /\ ChunkInit /\ LibraryInit /\ WordTextInit /\ PageTextInit
  /\ ListingInit /\ RepealsInit /\ EvaluationInit
  /\ CatalogInit
  /\ family # "catalog" => links = NoLinks
  /\ family # "rankings" => embedded = Relevant

TextsNext ==
  \/ family = "chunks" /\ ChunkNext /\ UNCHANGED <<libraryVars, wordTextVars, pageTextVars>>
  \/ family = "library" /\ LibraryNext /\ UNCHANGED <<chunkVars, wordTextVars, pageTextVars>>
  \/ family = "rtf" /\ WordTextNext /\ UNCHANGED <<word, chunkVars, libraryVars, pageTextVars>>
  \/ family = "word" /\ WordTextNext /\ UNCHANGED <<rtf, chunkVars, libraryVars, pageTextVars>>
  \/ family = "pages" /\ PageTextNext /\ UNCHANGED <<chunkVars, libraryVars, wordTextVars>>

ListsNext ==
  \/ family = "ministry" /\ MinistryNext /\ UNCHANGED <<catalogVars, repealVars>>
  \/ family = "government" /\ GovernmentNext /\ UNCHANGED <<catalogVars, repealVars>>
  \/ family = "catalog" /\ CatalogNext /\ UNCHANGED <<listingVars, repealVars>>
  \/ family = "repeals" /\ RepealsNext /\ UNCHANGED <<listingVars, catalogVars>>

EvaluatesNext ==
  \/ family = "rankings" /\ EvaluationNext /\ UNCHANGED corpus
  \/ family = "manifests" /\ EvaluationNext /\ UNCHANGED rankings

Next ==
  \/ TextsNext /\ UNCHANGED <<family, listVars, evaluationVars>>
  \/ ListsNext /\ UNCHANGED <<family, textVars, evaluationVars>>
  \/ EvaluatesNext /\ UNCHANGED <<family, textVars, listVars>>

Spec == Init /\ [][Next]_algorithmVars

-----------------------------------------------------------------------------
(* Chunking: two styles of document, the later one with Roman sections;    *)
(* Q1 is an article of another text.                                       *)
ArticleLine(number, comma, title, cited) ==
  [number |-> number, comma |-> comma, title |-> title, cited |-> cited]
ArticleLines ==
  [A1 |-> ArticleLine(1, FALSE, "proper", FALSE), A2 |-> ArticleLine(2, FALSE, "proper", FALSE),
   T3 |-> ArticleLine(3, FALSE, "none", FALSE), R3 |-> ArticleLine(3, TRUE, "lower", TRUE),
   Q1 |-> ArticleLine(1, FALSE, "proper", TRUE)]
SectionLines == [PH |-> 0, I |-> 1, II |-> 2]
ClauseNumbers == [c1 |-> 1, c2 |-> 2]
TextLines ==
  {<<"A1">>, <<"A2">>, <<"T3">>, <<"R3", "x">>, <<"Q1">>, <<"c1", "x", "x">>, <<"c2", ".">>,
   <<"S">>, <<"P">>, <<"x", "x", "x", " ", "x", "x">>, <<"I">>, <<"II">>, <<"PH">>}
TextStyles ==
  {{"A1", "A2", "T3", "c1", "c2", "S", "P", "x", ".", " ", "/"},
   {"I", "II", "PH", "A1", "R3", "Q1", "x", " ", "/"}}

(* The library: three documents, of a number, a title and a law.           *)
TypesOfDocuments == <<"TT-BTC", "Thong tu", "QH14">>
KindOfTypes ==
  [t \in {"TT-BTC", "Thong tu", "QH14"} |-> IF t = "QH14" THEN "law" ELSE "circular"]
Filing(document, origin, issue, jobs, passages) ==
  [document |-> document, source |-> origin[1], status |-> origin[2], issue |-> issue,
   jobs |-> jobs, passages |-> passages]
Portal == <<"VBPL", "EFFECTIVE">>
Lapsed == <<"VBPL", "EXPIRED">>
Ministry == <<"MOF", "EFFECTIVE">>
Retried == <<"FAILED", "COMPLETE">>
SomeFilings ==
  {Filing(1, Portal, issue, Retried, 2) : issue \in 0 .. 2}
    \cup {Filing(1, Ministry, issue, Retried, 2) : issue \in {0, 2}}
    \cup {Filing(1, Lapsed, 1, Retried, 2), Filing(3, Ministry, 2, Retried, 2)}
    \cup {Filing(2, Portal, issue, Retried, 2) : issue \in {0, 2}}
    \cup {Filing(1, Portal, 1, <<>>, 0), Filing(2, Ministry, 1, <<"COMPLETE", "FAILED">>, 1)}

(* The ministry: four records in two selections, two on a page.            *)
TaxSelections == << {1, 2, 3}, {2, 4} >>

(* The government's search: three years, a cap of two results, and an      *)
(* issuer ("bnn") that is neither local nor asked for by itself.           *)
YearList == <<3, 2, 1>>
Held1 ==
  [year : {3}, issuer : {"bnn"}, id : {1}]
    \cup [year : {2}, issuer : {"gov", "btc", "bnn", "ubnd"}, id : {1}]
    \cup [year : {1}, issuer : {"btc"}, id : 1 .. 3]
    \cup [year : {1}, issuer : {"gov"}, id : {1}]
IssuerList == <<"gov", "btc">>

(* A catalog of five pages, one on another host, with any links between    *)
(* three of them; the fourth does not mark its numbers.                    *)
CatalogRow(number, issued, files) ==
  [number |-> number, issued |-> issued, files |-> files, attached |-> FALSE]
CatalogLink(number, issued, file, attached) ==
  [CatalogRow(number, issued, <<file>>) EXCEPT !.attached = attached]
CatalogRows ==
  [p \in Pages |->
     CASE p = "p1" -> <<CatalogRow("1/TT", 2, <<"a.pdf", "a.doc">>), CatalogRow("", 2, <<"b.pdf">>)>>
       [] p = "p2" -> <<CatalogRow("1/TT", 2, <<"a.doc">>), CatalogRow("2/TT", 1, <<"c.pdf">>)>>
       [] p = "p3" -> <<CatalogRow("3/TT", 0, <<"page", "d.pdf", "x.doc">>), CatalogRow("4/TT", 2, <<>>)>>
       [] p = "p4" -> <<CatalogLink("", 0, "e.pdf", TRUE), CatalogLink("5/TT", 2, "page", FALSE),
                        CatalogLink("", 0, "c.pdf", TRUE), CatalogLink("", 0, "b.pdf", FALSE),
                        CatalogLink("6/TT", 1, "d.pdf", FALSE), CatalogLink("", 2, "e.pdf", TRUE)>>
       [] OTHER -> <<>>]
Formats ==
  [f \in {"a.pdf", "b.pdf", "c.pdf", "d.pdf", "e.pdf", "a.doc", "x.doc"} |->
     IF f \in {"a.doc", "x.doc"} THEN 2 ELSE 4]
To(S) == SetToSortSeq(S, LAMBDA p, q : p = "p1" \/ (p = "p2" /\ q # "p1") \/ (p = "p3" /\ q \in {"p4", "p5"}) \/ (p = "p4" /\ q = "p5"))
SomeLinks ==
  {[p \in Pages |-> CASE p = "p1" -> To(f) [] p = "p2" -> To(g) [] p = "p3" -> To(h)
                      [] p = "p4" -> <<"p1", "p5", "p5">> [] OTHER -> <<"p4">>] :
     f \in SUBSET {"p2", "p3", "p4", "p5"}, g \in SUBSET {"p1", "p3", "p4", "p5"},
     h \in SUBSET {"p1", "p2", "p4"}}

(* Repeals: two tax laws, guidance on the first, guidance on that, an      *)
(* amendment of both.                                                      *)
TitleRecord(rule, cited, law, names) == [rule |-> rule, cited |-> cited, law |-> law, names |-> names]
SomeTitles ==
  <<TitleRecord("none", <<>>, "tax law", {}), TitleRecord("none", <<>>, "tax law", {}),
    TitleRecord("guidance", <<>>, "", {"tax law"}), TitleRecord("guidance", <<3, 6>>, "", {}),
    TitleRecord("amendment", <<4, 3>>, "", {"tax law"})>>
YearOfNumber == <<1, 3, 2, 2, 2, 1>>
YearOfDay == <<1, 2, 2>>
SomeStatements == [target : {1, 3, 6}, by : {2, 5}, on : 1 .. 3]

(* Word files.                                                             *)
SomeTokens ==
  [kind : {"open", "close", "skip", "unicode", "byte"}, n : {0}]
    \cup {[kind |-> "font", n |-> 1], [kind |-> "uc", n |-> 2], [kind |-> "text", n |-> 2]}

(* PDF pages: scanned, foreign, doubtful, and every four lines.            *)
Layer(usable, doubtful, share, lines) ==
  [usable |-> usable, doubtful |-> doubtful, share |-> share, lines |-> lines]
SomeLayers ==
  {Layer(FALSE, FALSE, 0, <<>>), Layer(TRUE, FALSE, 2, <<"unicode", "mute">>),
   Layer(TRUE, TRUE, 1, <<"legacy", "mute">>)}
    \cup {Layer(TRUE, FALSE, 1, lines) : lines \in [1 .. 4 -> Verdicts]}

(* Evaluation: an article in parts, one with a list whose items count "1"  *)
(* and "2" and one numbered "1" that goes on with its clause behind a line *)
(* "2"; and an article in one part.                                        *)
Passage(document, article, clause, text, lines) ==
  [document |-> document, article |-> article, clause |-> clause, text |-> text, lines |-> lines]
SomePassages ==
  <<Passage("d1", "5", "none", {}, {"1", "2"}), Passage("d1", "5", "1", {"1", "1b"}, {"2"}),
    Passage("d1", "5", "none", {"2"}, {"2"}), Passage("d2", "1", "none", {"1", "2"}, {"1"})>>
Follows == [c \in {"1", "1b", "2"} |-> IF c = "2" THEN "2" ELSE "1"]
Asked(document, article, clause) == [document |-> document, article |-> article, clause |-> clause]
SomeProvisions ==
  << <<Asked("d1", "5", "1b")>>, <<Asked("d1", "5", "2"), Asked("d2", "1", "2")>>,
     <<Asked("d2", "1", "none")>> >>
SomeCases == {{"d1", "d2"}, {"d2"}}
=============================================================================
