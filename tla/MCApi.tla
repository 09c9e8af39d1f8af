------------------------------- MODULE MCApi --------------------------------
(* The API's accounts, its limiters, its start and the output of its jobs, *)
(* each on a small instance of its own: "part" says which of them moves.   *)
(* Two-byte characters and a tail of two characters: a poller falls behind *)
(* after five bytes.                                                       *)
EXTENDS Accounts, Limits, StartUp, JobOutput, TLC

CONSTANTS a1, a2, a3, n1, n2, r1, r2, k1, k2, k3, t1, t2, old, new

VARIABLE part

Two == (a1 :> n1) @@ (a2 :> n2)
Heads == (old :> 1) @@ (new :> 2)
ApiSymmetry ==
  Permutations({r1, r2}) \cup Permutations({k1, k2, k3}) \cup Permutations({t1, t2})
    \cup {(a1 :> a2) @@ (a2 :> a1) @@ (n1 :> n2) @@ (n2 :> n1)}

(* Bound: a request that changes nothing here (passwords are not told      *)
(* apart), or is too old to be accepted, is under way alone.               *)
Apart ==
  \A r, q \in Requests :
    r # q /\ request[r] # Idle /\ (request[r].kind = "reset" \/ request[r].age > MaxAge)
      => request[q] = Idle

apiVars == <<part, accountVars, limitVars, startVars, outputVars>>

Init ==
  /\ part \in {"accounts", "limits", "start", "output"}
  /\ AccountsInit /\ LimitsInit /\ StartInit /\ OutputInit

Next ==
  \/ part = "accounts" /\ AccountsNext /\ UNCHANGED <<part, limitVars, startVars, outputVars>>
  \/ part = "limits" /\ LimitsNext /\ UNCHANGED <<part, accountVars, startVars, outputVars>>
  \/ part = "start" /\ StartNext /\ UNCHANGED <<part, accountVars, limitVars, outputVars>>
  \/ part = "output" /\ OutputNext /\ UNCHANGED <<part, accountVars, limitVars, startVars>>

Spec == Init /\ [][Next]_apiVars
=============================================================================
