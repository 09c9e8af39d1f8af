------------------------------- MODULE Repeals ------------------------------
(***************************************************************************)
(* Which documents stopped applying: infer_repeals in retrieval/repeals.py *)
(* starts from what documents say of each other and goes on to those whose *)
(* titles guide or amend a document that ended, until nothing changes.     *)
(*                                                                         *)
(* The statements and the titles arrive one at a time.  What a text or a   *)
(* title says is given: TitleOf tells the rule a title falls under, the    *)
(* numbers it cites, the law it is and the laws it names.                  *)
(***************************************************************************)
EXTENDS Integers, Sequences, FiniteSets, SequencesExt, FiniteSetsExt

CONSTANTS
  Numbers,       \* document numbers, of the corpus and outside it
  TitleOf,       \* rule, cited numbers in order, law and laws named
  YearOf,        \* the year in a document's number, 0 for none
  Statements,    \* "target ends on this date", said by another document
  YearOn,        \* the year of each date
  MaxTitles,     \* bound: documents of the corpus
  MaxStatements  \* bound: statements

ASSUME RepealsAssumption ==
  /\ Numbers \subseteq Nat /\ YearOf \in [Numbers -> Nat] /\ DOMAIN TitleOf \subseteq Numbers
  /\ \A n \in DOMAIN TitleOf :
       TitleOf[n].rule \in {"none", "guidance", "amendment"} /\ TitleOf[n].cited \in Seq(Numbers)
  /\ \A s \in Statements : s.target \in Numbers /\ s.by \in Numbers /\ s.on \in DOMAIN YearOn
  /\ DOMAIN YearOn \subseteq Nat

VARIABLES
  titles,    \* the numbers of the corpus, in the order of "titles"
  explicit   \* the statements, in order

repealVars == <<titles, explicit>>

RepealsInit == titles = <<>> /\ explicit = <<>>

AddTitle ==
  /\ Len(titles) < MaxTitles
  /\ \E n \in DOMAIN TitleOf \ ToSet(titles) : titles' = Append(titles, n)
  /\ UNCHANGED explicit

(* explicit_targets in a stored passage.                                   *)
AddStatement ==
  /\ Len(explicit) < MaxStatements
  /\ \E s \in Statements : s.by \in ToSet(titles) /\ explicit' = Append(explicit, s)
  /\ UNCHANGED titles

RepealsNext == AddTitle \/ AddStatement

RepealsSpec == RepealsInit /\ [][RepealsNext]_repealVars

-----------------------------------------------------------------------------
(* A repeal: the document, when, by which rule and through which document. *)

RepealOf(repeals, n) == CHOOSE r \in repeals : r.number = n
Ended(repeals, n) == \E r \in repeals : r.number = n

(* Mutant: the statement read last wins.                                   *)
KeepEarliest_Last(repeals, r) == {x \in repeals : x.number # r.number} \cup {r}

(* _keep_earliest: of two on the same day the first.                       *)
KeepEarliest(repeals, r) ==
  IF \E x \in repeals : x.number = r.number /\ x.on <= r.on THEN repeals
  ELSE {x \in repeals : x.number # r.number} \cup {r}

(* One statement; the target need not be in the corpus, nothing ends       *)
(* itself.                                                                 *)
Stated(repeals, s) ==
  IF s.target = s.by THEN repeals
  ELSE KeepEarliest(repeals, [number |-> s.target, on |-> s.on, rule |-> "explicit", by |-> s.by])

Explicit ==
  LET found[k \in 0 .. Len(explicit)] ==
        IF k = 0 THEN {} ELSE Stated(found[k - 1], explicit[k])
  IN  found[Len(explicit)]

(* _law_names: the documents under a name, in the order of their first.    *)
FirstOfLaw ==
  {i \in DOMAIN titles :
     /\ TitleOf[titles[i]].law # ""
     /\ \A j \in 1 .. i - 1 : TitleOf[titles[j]].law # TitleOf[titles[i]].law}

(* _named_parents: of the laws of that name the last one that is not later *)
(* than the document itself.                                               *)
NotLater(name, n) == {m \in ToSet(titles) : TitleOf[m].law = name /\ YearOf[m] <= YearOf[n]}
InForceFor(name, n) ==
  CHOOSE m \in NotLater(name, n) :
    \A k \in NotLater(name, n) : YearOf[k] < YearOf[m] \/ (YearOf[k] = YearOf[m] /\ k <= m)

Named(n) ==
  {i \in FirstOfLaw : /\ TitleOf[titles[i]].law \in TitleOf[n].names
                      /\ NotLater(TitleOf[titles[i]].law, n) # {}}

(* The parents of a document, each at its place: the cited ones, then for  *)
(* guidance the named ones.                                                *)
Parents(n) ==
  LET cited == TitleOf[n].cited
      named == IF TitleOf[n].rule = "guidance" THEN Named(n) ELSE {}
  IN  [i \in DOMAIN cited \cup {Len(cited) + k : k \in named} |->
         IF i \in DOMAIN cited THEN cited[i]
         ELSE InForceFor(TitleOf[titles[i - Len(cited)]].law, n)]

(* A parent that ended takes the document along, unless the document is    *)
(* what ended it, or is younger than that end.                             *)
TakesAlong(repeals, p, n) ==
  /\ Ended(repeals, p)
  /\ RepealOf(repeals, p).by # n
  /\ YearOf[n] <= YearOn[RepealOf(repeals, p).on]

(* One document of one round: the first parent that ended decides.         *)
Infer(repeals, n) ==
  LET parents == Parents(n)
      ended == {i \in DOMAIN parents : TakesAlong(repeals, parents[i], n)}
  IN  IF Ended(repeals, n) \/ TitleOf[n].rule = "none" \/ ended = {} THEN repeals
      ELSE LET p == parents[Min(ended)]
           IN  repeals \cup {[number |-> n, on |-> RepealOf(repeals, p).on,
                              rule |-> TitleOf[n].rule, by |-> p]}

(* A round over the titles.                                                *)
Round(repeals) ==
  LET inferred[k \in 0 .. Len(titles)] ==
        IF k = 0 THEN repeals ELSE Infer(inferred[k - 1], titles[k])
  IN  inferred[Len(titles)]

(* Rounds until nothing changes: each but the last ends a document.        *)
InferRepeals(found) ==
  LET after[i \in 0 .. Len(titles)] == IF i = 0 THEN found ELSE Round(after[i - 1])
  IN  after[Len(titles)]

(* ended_documents.                                                        *)
EndedDocuments(repeals, on, rules) ==
  {r.number : r \in {x \in repeals : x.rule \in rules /\ x.on <= on}}

-----------------------------------------------------------------------------
(* Properties.                                                             *)

(* Nothing ends without a chain of parents up to a statement, on whose day *)
(* all of the chain ends; nothing that a rule reaches is left; and what is *)
(* nowhere said to end stays searchable if the inferences are left out.    *)
RepealsAreJustified ==
  LET repeals == InferRepeals(Explicit)
      said(n) == {s \in ToSet(explicit) : s.target = n /\ s.by # n}
  IN  /\ \A r \in repeals :
           /\ \A x \in repeals : x.number = r.number => x = r
           /\ r.rule = "explicit" => /\ \E s \in said(r.number) : s.on = r.on /\ s.by = r.by
                                     /\ \A s \in said(r.number) : r.on <= s.on
           /\ r.rule # "explicit" =>
                /\ said(r.number) = {}
                /\ r.by \in ToSet(Parents(r.number)) /\ TakesAlong(repeals, r.by, r.number)
                /\ r.on = RepealOf(repeals, r.by).on
      /\ \A n \in ToSet(titles) : ~Ended(repeals, n) =>
           /\ said(n) = {}
           /\ TitleOf[n].rule = "none"
              \/ \A i \in DOMAIN Parents(n) : ~TakesAlong(repeals, Parents(n)[i], n)
      /\ \A on \in DOMAIN YearOn : \A n \in EndedDocuments(repeals, on, {"explicit"}) :
           \E s \in ToSet(explicit) : s.target = n /\ s.on <= on
=============================================================================
