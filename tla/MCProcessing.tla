---------------------------- MODULE MCProcessing ----------------------------
(* Small instances of Processing: two versions, the first a scan with a    *)
(* page OCR may fail on, the second digital.                               *)
EXTENDS Processing, TLC

CONSTANTS w1, w2, digital, scan, holed, p, q, r

OneVersion == {1}
TwoVersions == {1, 2}
Runs == {w1, w2}
OneRun == {w1}
AnyText == {digital, scan, holed}

(* The second chunker edition cuts one passage of each text differently.   *)
Cuts ==
  (digital :> << {p, q}, {p, r} >>) @@ (scan :> << {p}, {q} >>) @@ (holed :> << {p}, {p} >>)

ReadMixed == [v \in Versions |-> IF v = 1 THEN {scan, holed} ELSE {digital}]

Daily == {"pending", "rechunk"}
AllButReocr == AllModes \ {"reocr"}

RunSymmetry == Permutations(Runs)
=============================================================================
