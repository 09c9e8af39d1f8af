--------------------------- MODULE MCAirflowJobs ---------------------------
(* Instances of AirflowJobs for TLC: tasks of the two DAGs. *)
EXTENDS AirflowJobs, TLC
CONSTANTS process, embed, daily, manual

(* Both DAGs run the same job. *)
SameJob == (daily :> process) @@ (manual :> process)

(* A single task. *)
OneTask == daily :> embed

IdSymmetry == Permutations(JobIds)
=============================================================================
