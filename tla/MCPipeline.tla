----------------------------- MODULE MCPipeline -----------------------------
(* A small instance of Pipeline: two versions of one passage each, which   *)
(* the second chunker cuts differently.                                    *)
EXTENDS Pipeline, TLC

CONSTANTS w1, e1, digital, p, q

TwoVersions == {1, 2}
Daily == {"pending", "rechunk"}
Cuts == digital :> << {p}, {q} >>
ReadAll == [v \in Versions |-> {digital}]
OneAtATime == "process" :> w1 @@ "rechunk" :> w1
=============================================================================
