---------------------------- MODULE AirflowJobs ----------------------------
(***************************************************************************)
(* Airflow tasks running API jobs: run_api_job of                          *)
(* airflow/dags/taxlens_jobs.py composed with the API's JobRunner.         *)
(*                                                                         *)
(* Each task posts its job, polls it until it ends, and fails or succeeds; *)
(* Airflow runs a failed task again a few times.  A request can be         *)
(* answered, go unanswered (502, 503, 504, a time-out, a broken            *)
(* connection), or reach the API only after its sender stopped waiting.    *)
(* Tasks of the two DAGs may ask for the same (script, arguments) key.     *)
(***************************************************************************)
EXTENDS JobRunner

CONSTANTS
  Tasks,     \* Airflow task instances
  TaskKey,   \* the job each task runs
  Retries,   \* how often Airflow runs a failed task again
  WarmUp,    \* WARM_UP_SECONDS, in ticks
  Deadline,  \* MAX_JOB_MINUTES, in ticks
  MaxLate,   \* bound: abandoned POSTs of one task still on their way
  Prompt,    \* TRUE: the Airflow worker is never suspended
  NoJob      \* a task that knows no job id

ASSUME AirflowAssumption ==
  /\ TaskKey \in [Tasks -> Keys]
  /\ {Retries, WarmUp, Deadline, MaxLate} \subseteq Nat
  /\ Prompt \in BOOLEAN
  /\ NoJob \notin JobIds

VARIABLES
  pc,        \* where the task is in run_api_job
  job,       \* job["job_id"] of the last answer
  attempt,   \* how often Airflow has run the task again
  waited,    \* time since the current _request_json began
  life,      \* time since run_api_job began
  late       \* abandoned POSTs that may still reach the API

clientVars == <<pc, job, attempt, waited, life, late>>
vars == <<runnerVars, clientVars>>

Asking == {"posting", "getting"}
Done == {"succeeded", "failed"}

Init ==
  /\ RunnerInit
  /\ pc = [t \in Tasks |-> "posting"]
  /\ job = [t \in Tasks |-> NoJob]
  /\ attempt = [t \in Tasks |-> 0]
  /\ waited = [t \in Tasks |-> 0]
  /\ life = [t \in Tasks |-> 0]
  /\ late = [t \in Tasks |-> 0]

RunAgain(t) == attempt[t] < Retries

(* The attempt raises: Airflow runs the task again from the top, or the    *)
(* task has failed.                                                        *)
AttemptFails(t) ==
  LET again == RunAgain(t)
  IN  /\ pc' = [pc EXCEPT ![t] = IF again THEN "posting" ELSE "failed"]
      /\ attempt' = [attempt EXCEPT ![t] = IF again THEN @ + 1 ELSE @]
      /\ job' = [job EXCEPT ![t] = NoJob]
      /\ waited' = [waited EXCEPT ![t] = 0]
      /\ life' = [life EXCEPT ![t] = 0]

(* An answer about job j arrives: loop while it says "running", return     *)
(* when it says "completed", raise RuntimeError otherwise.                 *)
Answered(t, j) ==
  \/ /\ Status(j)' = "running"
     /\ pc' = [pc EXCEPT ![t] = "checking"]
     /\ job' = [job EXCEPT ![t] = j]
     /\ waited' = [waited EXCEPT ![t] = 0]
     /\ UNCHANGED <<attempt, life>>
  \/ /\ Status(j)' = "completed"
     /\ pc' = [pc EXCEPT ![t] = "succeeded"]
     /\ job' = [job EXCEPT ![t] = j]
     /\ waited' = [waited EXCEPT ![t] = 0]
     /\ UNCHANGED <<attempt, life>>
  \/ /\ Status(j)' = "failed"
     /\ AttemptFails(t)

(* The POST is answered with the job it reattached to or started.          *)
PostReattached(t) ==
  /\ pc[t] = "posting"
  /\ \E j \in JobIds : Reattach(TaskKey[t], j) /\ Answered(t, j)
  /\ UNCHANGED late

PostLaunched(t) ==
  /\ pc[t] = "posting"
  /\ \E j \in JobIds : Launch(TaskKey[t], j) /\ Answered(t, j)
  /\ UNCHANGED late

(* HTTP 500: raise_for_status raises at once, without retrying.            *)
PostRefused(t) ==
  /\ pc[t] = "posting"
  /\ LaunchFails(TaskKey[t])
  /\ AttemptFails(t)
  /\ UNCHANGED late

(* The sender stops waiting for its POST and will send another; the        *)
(* abandoned one may still arrive, so its answer is lost, not its effect.  *)
PostUnanswered(t) ==
  /\ pc[t] = "posting"
  /\ late[t] < MaxLate
  /\ late' = [late EXCEPT ![t] = @ + 1]
  /\ UNCHANGED <<runnerVars, pc, job, attempt, waited, life>>

LateArrives(t) ==
  /\ late[t] > 0
  /\ late' = [late EXCEPT ![t] = @ - 1]
  /\ Post(TaskKey[t])
  /\ UNCHANGED <<pc, job, attempt, waited, life>>

-----------------------------------------------------------------------------
(* The polling loop.                                                       *)

(* TimeoutError: the task's own deadline passed while the job ran.         *)
DeadlinePassed(t) ==
  /\ pc[t] = "checking"
  /\ life[t] > Deadline
  /\ AttemptFails(t)
  /\ UNCHANGED <<runnerVars, late>>

PollBegins(t) ==
  /\ pc[t] = "checking"
  /\ life[t] <= Deadline
  /\ pc' = [pc EXCEPT ![t] = "getting"]
  /\ UNCHANGED <<runnerVars, job, attempt, waited, life, late>>

PollAnswered(t) ==
  /\ pc[t] = "getting"
  /\ \E j \in {job[t]} : Observe(j) /\ Answered(t, j)
  /\ UNCHANGED late

(* 404: the API restarted and lost the job, or has forgotten it.           *)
PollUnknown(t) ==
  /\ pc[t] = "getting"
  /\ job[t] \notin known
  /\ AttemptFails(t)
  /\ UNCHANGED <<runnerVars, late>>

(* The GET was served but its answer is lost; the task asks again.         *)
PollUnanswered(t) ==
  /\ pc[t] = "getting"
  /\ Observe(job[t])
  /\ UNCHANGED clientVars

(* Mutant: a poll is repeated for ever; only the POST is given up.         *)
GivesUp_OnlyPost(t) == pc[t] = "posting" /\ waited[t] > WarmUp

GivesUp(t) == pc[t] \in Asking /\ waited[t] > WarmUp

(* _request_json has retried for WARM_UP_SECONDS and gives up.             *)
Unavailable(t) ==
  /\ GivesUp(t)
  /\ AttemptFails(t)
  /\ UNCHANGED <<runnerVars, late>>

(* The Airflow worker is killed; its job, if any, runs on.                 *)
WorkerDies(t) ==
  /\ pc[t] \notin Done
  /\ AttemptFails(t)
  /\ UNCHANGED <<runnerVars, late>>

-----------------------------------------------------------------------------
(* Time passes for jobs and tasks alike.  A prompt worker neither sleeps   *)
(* through a give-up time nor between an answer and its deadline check.    *)
Punctual ==
  \A t \in Tasks :
    /\ pc[t] # "checking"
    /\ pc[t] \in Asking => waited[t] <= WarmUp

Later(clock, limit) == IF clock <= limit THEN clock + 1 ELSE clock

TimePasses ==
  /\ Prompt => Punctual
  /\ Older
  /\ waited' = [t \in Tasks |->
       IF pc[t] \in Asking THEN Later(waited[t], WarmUp) ELSE waited[t]]
  /\ life' = [t \in Tasks |->
       IF pc[t] \notin Done THEN Later(life[t], Deadline) ELSE life[t]]
  /\ <<age, waited, life>>' # <<age, waited, life>>
  /\ UNCHANGED <<known, key, proc, finished, timedOut, pc, job, attempt, late>>

(* What the API and the world do without being asked by a task.            *)
Background ==
  /\ \/ \E j \in JobIds : Exit(j)
     \/ Restart
  /\ UNCHANGED clientVars

Next ==
  \/ \E t \in Tasks :
       \/ PostReattached(t) \/ PostLaunched(t) \/ PostRefused(t)
       \/ PostUnanswered(t) \/ LateArrives(t)
       \/ DeadlinePassed(t) \/ PollBegins(t) \/ PollAnswered(t)
       \/ PollUnknown(t) \/ PollUnanswered(t)
       \/ Unavailable(t) \/ WorkerDies(t)
  \/ Background
  \/ TimePasses

Spec == Init /\ [][Next]_vars

(***************************************************************************)
(* Fairness.  A task in its loop takes its next step: Airflow's worker     *)
(* runs it.  Time passes: each poll sleeps, so the clock is not stopped by *)
(* a task that polls for ever (strong, as a prompt worker never lets time  *)
(* pass between an answer and the deadline check).  Nothing obliges a      *)
(* script to exit, the API to answer, or a request to arrive.              *)
(***************************************************************************)
Fairness ==
  /\ \A t \in Tasks :
       /\ WF_vars(PollBegins(t))
       /\ WF_vars(DeadlinePassed(t))
       /\ WF_vars(Unavailable(t))
  /\ SF_vars(TimePasses)

FairSpec == Spec /\ Fairness

-----------------------------------------------------------------------------
(* Properties.                                                             *)

(* A green task means its script ran to exit code 0 inside the limit, for  *)
(* this task's arguments, whatever was lost, retried or restarted.         *)
GreenMeansDone ==
  \A t \in Tasks :
    pc[t] = "succeeded" =>
      /\ key[job[t]] = TaskKey[t]
      /\ proc[job[t]] = "ok"
      /\ job[t] \notin timedOut

(* "slightly above the API's own 6-hour job limit": while workers are      *)
(* prompt the task's own deadline never fires, so no task walks away from  *)
(* a job that still runs because of it.                                    *)
DeadlineIsSpare ==
  \A t \in Tasks : pc[t] = "checking" => life[t] <= Deadline

(* Retention outlives every poller: a job some task still polls leaves the *)
(* registry only in a restart, never by being forgotten.                   *)
PolledIsKept ==
  [][\A t \in Tasks :
       pc[t] \in {"checking", "getting"} /\ job[t] \in known
         => job[t] \in known' \/ Restart]_vars

(* Every Airflow task ends, though scripts may hang and the API may never  *)
(* answer.                                                                 *)
TasksEnd == \A t \in Tasks : <>(pc[t] \in Done)

(* docs/architecture.md: "Jobs run under nice 10 and are killed after six  *)
(* hours."  Not so for a job nobody asks about any more.                   *)
KilledAfterTheLimit ==
  \A j \in JobIds : (Alive(j) /\ age[j] > MaxJob) ~> ~Alive(j)
=============================================================================
