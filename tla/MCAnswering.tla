---------------------------- MODULE MCAnswering -----------------------------
(* A small corpus for Answering: a document held in two versions, one      *)
(* place of which is in two parts, and a second document with a passage    *)
(* without a place.  Row 5 takes the place of row 2 when it is cut again.  *)
EXTENDS Answering, TLC

CONSTANTS law, decree, scan, word, other, t1, t2, t3, t4, place

Rows == 1..5
TheTexts == {t1, t2, t3, t4}
TheTextOf == << t1, t2, t3, t4, t2 >>
TheVersions == {scan, word, other}
TheVersionOf == << scan, word, scan, other, word >>
TheDocumentOf == (scan :> law) @@ (word :> law) @@ (other :> decree)
ThePlaceOf == << place, place, place, NoPlace, place >>
TheRecut == 2 :> 5

Law(a, b, c) == (scan :> a) @@ (word :> b) @@ (other :> c)

(* Statuses of the two versions of the law, and of the decree.             *)
TheCorpora ==
  {Law("DISCOVERED", "EFFECTIVE", "EFFECTIVE"), Law("EFFECTIVE", "EXPIRED", "DISCOVERED"),
   Law("PARTIALLY_EXPIRED", "EFFECTIVE", "EXPIRED"), Law("EXPIRED", "EXPIRED", "UNKNOWN")}

(* A form that is near is asked for or not.                                *)
TheQuestions ==
  {[match |-> m, tail |-> (t1 :> 0) @@ (t2 :> 1) @@ (t3 :> 0) @@ (t4 :> 1),
    distance |-> d, asksForm |-> f] :
     m \in [TheTexts -> {0, 2, 3}],
     d \in {d \in [TheTexts -> 0..2] : d[t2] # 2 /\ d[t4] # 1},
     f \in BOOLEAN}

TheClaims ==
  {[says |-> t1, cites |-> {1}], [says |-> t4, cites |-> {1, 2}],
   [says |-> Invented, cites |-> {1}], [says |-> t2, cites |-> {0, 2}]}
=============================================================================
