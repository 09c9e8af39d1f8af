----------------------------- MODULE JobRunner -----------------------------
(***************************************************************************)
(* The API's background jobs (src/taxlens/api/routes/internal_jobs.py).    *)
(*                                                                         *)
(* A POST starts a script in a subprocess, or reattaches to the identical  *)
(* job that is still running; a GET reports a job.  Both run under         *)
(* _jobs_lock, so each is one action here.  The subprocess, the clock and  *)
(* a restart of the API process interleave with them freely.               *)
(*                                                                         *)
(* A job's identity for reattaching is its script and arguments: a "key".  *)
(* Only two comparisons of the clock matter, so a job's clock is an age    *)
(* that saturates just above the limit it is compared with.                *)
(***************************************************************************)
EXTENDS Naturals, FiniteSets

CONSTANTS
  Keys,       \* (script, arguments) pairs the routes can ask for
  JobIds,     \* uuid4 values; each is used once. Bounds the starts of a run
  MaxJob,     \* MAX_JOB_SECONDS, in ticks
  Retention,  \* FINISHED_JOB_RETENTION_SECONDS, in ticks
  NoKey       \* the key of a job id that was never used

ASSUME JobRunnerAssumption ==
  /\ MaxJob \in Nat
  /\ Retention \in Nat
  /\ NoKey \notin Keys

VARIABLES
  known,     \* the ids in the dictionary _jobs
  key,       \* job.script and job.arguments
  proc,      \* what the subprocess is doing, or how it ended
  finished,  \* jobs whose finished_at is set: their end has been observed
  timedOut,  \* jobs whose timed_out is set
  age        \* time since started_at or, once finished, since finished_at

runnerVars == <<known, key, proc, finished, timedOut, age>>

(* "ok" is returncode 0; "error" is another one or a signal.               *)
Ended == {"ok", "error"}
Alive(j) == proc[j] = "alive"

AgeLimit(j) == IF j \in finished THEN Retention ELSE MaxJob

RunnerInit ==
  /\ known = {}
  /\ key = [j \in JobIds |-> NoKey]
  /\ proc = [j \in JobIds |-> "unborn"]
  /\ finished = {}
  /\ timedOut = {}
  /\ age = [j \in JobIds |-> 0]

-----------------------------------------------------------------------------
(* _is_running, split into what it answers and what it records.            *)

(* Mutant: the limit is not checked.                                       *)
StillRunning_NoLimit(j) == j \notin finished /\ Alive(j)

StillRunning(j) == j \notin finished /\ Alive(j) /\ age[j] <= MaxJob

(* Mutant: the limit is noticed, but the process is left running.          *)
Overdue_Spared(S) == {}

(* Of jobs that are not still running, those to kill: the overdue ones.    *)
Overdue(S) == {j \in S : Alive(j)}

FinishedWith(S) == finished \cup S

(* Record the end of the unfinished jobs in S, none of which is still      *)
(* running, and start the processes of the jobs in born.  An overdue       *)
(* process may exit by itself between poll() and kill(), and then wait()   *)
(* returns its own exit code, but it is timed out all the same.            *)
Settle(S, born) ==
  \E fate \in Ended :
    /\ finished' = FinishedWith(S)
    /\ timedOut' = timedOut \cup Overdue(S)
    /\ proc' = [j \in JobIds |-> IF j \in born THEN "alive"
                                ELSE IF j \in Overdue(S) THEN fate
                                ELSE proc[j]]
    /\ age' = [j \in JobIds |-> IF j \in S \cup born THEN 0 ELSE age[j]]

(* Mutant: timed_out is left out of the status.                            *)
Status_ExitCode(j) ==
  IF j \notin finished THEN "running"
  ELSE IF proc[j] = "ok" THEN "completed"
  ELSE "failed"

(* The "status" of _job_status.                                            *)
Status(j) ==
  IF j \notin finished THEN "running"
  ELSE IF proc[j] = "ok" /\ j \notin timedOut THEN "completed"
  ELSE "failed"

-----------------------------------------------------------------------------
(* GET /jobs/{job_id} of a known job. (An unknown one is a 404 and changes *)
(* nothing.)                                                               *)
Observe(j) ==
  /\ j \in known
  /\ Settle(IF j \in finished \/ StillRunning(j) THEN {} ELSE {j}, {})
  /\ UNCHANGED <<known, key>>

(* Mutant: the retention time is ignored.                                  *)
Expired_AtOnce == {j \in known : j \in finished}

(* _forget_old_jobs, the first thing _start_job does under the lock.       *)
Expired == {j \in known : j \in finished /\ age[j] > Retention}

(* Mutant: jobs past the limit are passed over instead of settled.         *)
Matching_Recent(k) ==
  {j \in known \ Expired : key[j] = k /\ j \notin finished /\ age[j] <= MaxJob}

(* The jobs the loop of _start_job asks _is_running about.                 *)
Matching(k) == {j \in known \ Expired : key[j] = k /\ j \notin finished}

(* POST: the identical job is still running and is returned.               *)
Reattach(k, j) ==
  /\ j \in Matching(k)
  /\ StillRunning(j)
  /\ known' = known \ Expired
  /\ UNCHANGED <<key, proc, finished, timedOut, age>>

(* POST: the loop finds no running job, and settles every one it asked     *)
(* about; a new subprocess is started and registered.                      *)
Launch(k, j) ==
  /\ proc[j] = "unborn"
  /\ \A i \in Matching(k) : ~StillRunning(i)
  /\ Settle(Matching(k), {j})
  /\ known' = (known \ Expired) \cup {j}
  /\ key' = [key EXCEPT ![j] = k]

(* POST: mkstemp or Popen raises (HTTP 500), so nothing is registered, but *)
(* what the loop observed stays recorded.                                  *)
LaunchFails(k) ==
  /\ \A i \in Matching(k) : ~StillRunning(i)
  /\ Settle(Matching(k), {})
  /\ known' = known \ Expired
  /\ UNCHANGED key

-----------------------------------------------------------------------------
(* The environment of the routes.                                          *)

(* The script ends by itself. Nobody is told: _is_running finds out later. *)
Exit(j) ==
  /\ Alive(j)
  /\ \E code \in Ended : proc' = [proc EXCEPT ![j] = code]
  /\ UNCHANGED <<known, key, finished, timedOut, age>>

(* The API process stops (deploy, crash, scale to zero) and starts again   *)
(* with an empty dictionary; its container takes the subprocesses with it. *)
Restart ==
  /\ known # {}
  /\ known' = {}
  /\ proc' = [j \in JobIds |-> IF Alive(j) THEN "error" ELSE proc[j]]
  /\ age' = [j \in JobIds |-> 0]
  /\ UNCHANGED <<key, finished, timedOut>>

(* The clock of the registered jobs.                                       *)
Older ==
  age' = [j \in JobIds |->
            IF j \in known /\ age[j] <= AgeLimit(j) THEN age[j] + 1 ELSE age[j]]

Tick ==
  /\ Older
  /\ age' # age
  /\ UNCHANGED <<known, key, proc, finished, timedOut>>

Post(k) ==
  \/ \E j \in JobIds : Reattach(k, j)
  \/ \E j \in JobIds : Launch(k, j)
  \/ LaunchFails(k)

RunnerNext ==
  \/ \E k \in Keys : Post(k)
  \/ \E j \in JobIds : Observe(j)
  \/ \E j \in JobIds : Exit(j)
  \/ Restart
  \/ Tick

RunnerSpec == RunnerInit /\ [][RunnerNext]_runnerVars
-----------------------------------------------------------------------------
(* Properties.                                                             *)

(* The shape of the registry: a job id is used once, and a job is timed    *)
(* out only after its end was recorded.                                    *)
RunnerTypeOK ==
  /\ known \subseteq JobIds
  /\ key \in [JobIds -> Keys \cup {NoKey}]
  /\ proc \in [JobIds -> {"unborn", "alive"} \cup Ended]
  /\ finished \subseteq JobIds
  /\ timedOut \subseteq finished
  /\ age \in [JobIds -> Nat]
  /\ \A j \in JobIds :
       /\ key[j] = NoKey <=> proc[j] = "unborn"
       /\ j \in known \cup finished => proc[j] # "unborn"

(* No subprocess runs that the API cannot report, reattach to or kill: it  *)
(* is registered, its end has not been recorded, and forgetting old jobs   *)
(* never drops it.                                                         *)
AliveIsTracked ==
  \A j \in JobIds : Alive(j) => j \in known /\ j \notin finished

(* _start_job never runs the same script with the same arguments twice at  *)
(* once, however POSTs, exits, polls and restarts interleave.              *)
SingleFlight ==
  \A i, j \in JobIds : Alive(i) /\ Alive(j) /\ key[i] = key[j] => i = j

(* At most one registered job of a key is still to be settled, so the loop *)
(* of _start_job cannot stop at a running job before one it should settle. *)
OneUnsettled ==
  \A i, j \in known \ finished : key[i] = key[j] => i = j

(* What a poll once reported of an ended job, every later poll reports, as *)
(* long as the job is registered: it disappears only in a restart or when  *)
(* it has been over for longer than the retention time.                    *)
VerdictStands ==
  [][\A j \in known \cap finished :
       /\ j \in finished' /\ Status(j)' = Status(j)
       /\ j \notin known' => age[j] > Retention \/ Restart]_runnerVars

(* The abstract service: a job is in flight while its process lives.       *)
Service ==
  INSTANCE JobService WITH
    flight <- [k \in Keys |-> {j \in JobIds : Alive(j) /\ key[j] = k}],
    verdict <- [j \in JobIds |-> IF proc[j] = "unborn" THEN "none"
                                ELSE IF j \notin finished THEN "open"
                                ELSE Status(j)]

(* JobRunner does what JobService promises.                                *)
ImplementsService == Service!ServiceSpec
=============================================================================
