----------------------------- MODULE JobService -----------------------------
(***************************************************************************)
(* What the job endpoints promise, without saying how: of the identical    *)
(* jobs (one script, one list of arguments) at most one runs at any time,  *)
(* a job runs once, and a job reported over is over and keeps its verdict. *)
(* JobRunner implements this module.                                       *)
(***************************************************************************)
CONSTANTS Keys, JobIds

VARIABLES
  flight,   \* for each key, the set of its jobs that are running
  verdict   \* "none", "open" once started, then what was reported, for good

serviceVars == <<flight, verdict>>

Verdicts == {"completed", "failed"}

ServiceInit ==
  /\ flight = [k \in Keys |-> {}]
  /\ verdict = [j \in JobIds |-> "none"]

(* Verdicts on jobs of J are passed once, and only on jobs that have ended.*)
Judged(J) ==
  /\ verdict' \in [JobIds -> {"none", "open"} \cup Verdicts]
  /\ \A j \in J :
       \/ verdict'[j] = verdict[j]
       \/ /\ verdict[j] = "open"
          /\ verdict'[j] \in Verdicts
          /\ \A k \in Keys : j \notin flight'[k]

(* A new job takes off alone: what ran under its key has ended by then.    *)
TakeOff(k, j) ==
  /\ verdict[j] = "none"
  /\ flight' = [flight EXCEPT ![k] = {j}]
  /\ Judged(JobIds \ {j})
  /\ verdict'[j] = "open"

(* Jobs end, by themselves, killed, or with the whole API.                 *)
Land ==
  /\ flight' \in [Keys -> SUBSET JobIds]
  /\ \A k \in Keys : flight'[k] \subseteq flight[k]
  /\ Judged(JobIds)

ServiceNext ==
  \/ \E k \in Keys, j \in JobIds : TakeOff(k, j)
  \/ Land

ServiceSpec == ServiceInit /\ [][ServiceNext]_serviceVars
=============================================================================
