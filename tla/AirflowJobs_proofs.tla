------------------------- MODULE AirflowJobs_proofs -------------------------
(***************************************************************************)
(* Proofs about JobRunner and AirflowJobs, for any sets of keys, jobs and  *)
(* tasks and any limits: the registry's inductive invariant, the stability *)
(* of verdicts, and that it implements JobService; that whatever the tasks *)
(* do the API keeps to this; that a task that succeeded has had its job    *)
(* done; and that neither a task's deadline nor the API's forgetting ever  *)
(* comes between a prompt task and its job.                                *)
(***************************************************************************)
EXTENDS AirflowJobs, TLAPS

(* The inductive invariant. SingleFlight alone is not inductive: a launch  *)
(* must know that every live process is registered and unfinished, hence   *)
(* among the jobs it asks about.                                           *)
RunnerInv == RunnerTypeOK /\ AliveIsTracked /\ SingleFlight /\ OneUnsettled

-----------------------------------------------------------------------------
(* What Settle does, spelled out once for the three routes that use it.    *)
LEMMA SettleEffect ==
  ASSUME NEW S, NEW born, Settle(S, born)
  PROVE  /\ finished' = finished \cup S
         /\ timedOut' = timedOut \cup {j \in S : Alive(j)}
         /\ age' = [j \in JobIds |-> IF j \in S \cup born THEN 0 ELSE age[j]]
         /\ \E fate \in Ended :
              proc' = [j \in JobIds |-> IF j \in born THEN "alive"
                                        ELSE IF j \in S /\ Alive(j) THEN fate
                                        ELSE proc[j]]
BY Zenon DEF Settle, FinishedWith, Overdue

LEMMA InitInv == RunnerInit => RunnerInv
BY JobRunnerAssumption
   DEF RunnerInit, RunnerInv, RunnerTypeOK, AliveIsTracked, SingleFlight,
       OneUnsettled, Alive, Ended

(* A poll settles at most the job it asks about, and never a running one.  *)
LEMMA ObserveInv ==
  ASSUME RunnerInv, NEW j \in JobIds, Observe(j)
  PROVE  RunnerInv'
<1> DEFINE S == IF j \in finished \/ StillRunning(j) THEN {} ELSE {j}
<1>1. j \in known /\ Settle(S, {}) /\ UNCHANGED <<known, key>>
  BY DEF Observe
<1>2. PICK fate \in Ended :
        proc' = [i \in JobIds |-> IF i \in {} THEN "alive"
                                  ELSE IF i \in S /\ Alive(i) THEN fate
                                  ELSE proc[i]]
  BY <1>1, SettleEffect
<1>3. /\ finished' = finished \cup S
      /\ timedOut' = timedOut \cup {i \in S : Alive(i)}
      /\ age' = [i \in JobIds |-> IF i \in S \cup {} THEN 0 ELSE age[i]]
  BY <1>1, SettleEffect
<1>4. S \subseteq {j} /\ S \subseteq known
  BY <1>1
<1> HIDE DEF S
<1>. QED
  BY <1>1, <1>2, <1>3, <1>4
     DEF RunnerInv, RunnerTypeOK, AliveIsTracked, SingleFlight, OneUnsettled,
         Alive, Ended

(* A reattached POST only forgets jobs that are over.                      *)
LEMMA ReattachInv ==
  ASSUME RunnerInv, NEW k \in Keys, NEW j \in JobIds, Reattach(k, j)
  PROVE  RunnerInv'
BY DEF Reattach, Expired, RunnerInv, RunnerTypeOK, AliveIsTracked, SingleFlight,
       OneUnsettled, Alive

(* No live process of the key escapes the loop: it would be unfinished and *)
(* registered, so the loop asks about it.                                  *)
LEMMA LiveIsMatched ==
  ASSUME RunnerInv, NEW k \in Keys, NEW i \in JobIds, Alive(i), key[i] = k
  PROVE  i \in Matching(k)
BY DEF RunnerInv, AliveIsTracked, Matching, Expired

LEMMA LaunchInv ==
  ASSUME RunnerInv, NEW k \in Keys, NEW j \in JobIds, Launch(k, j)
  PROVE  RunnerInv'
<1>1. /\ proc[j] = "unborn"
      /\ Settle(Matching(k), {j})
      /\ known' = (known \ Expired) \cup {j}
      /\ key' = [key EXCEPT ![j] = k]
  BY DEF Launch
<1>2. PICK fate \in Ended :
        proc' = [i \in JobIds |-> IF i \in {j} THEN "alive"
                                  ELSE IF i \in Matching(k) /\ Alive(i) THEN fate
                                  ELSE proc[i]]
  BY <1>1, SettleEffect
<1>3. /\ finished' = finished \cup Matching(k)
      /\ timedOut' = timedOut \cup {i \in Matching(k) : Alive(i)}
      /\ age' = [i \in JobIds |-> IF i \in Matching(k) \cup {j} THEN 0 ELSE age[i]]
  BY <1>1, SettleEffect
<1>4. /\ Matching(k) \subseteq known
      /\ \A i \in known : i \notin finished /\ key[i] = k => i \in Matching(k)
      /\ Expired \subseteq finished
  BY DEF Matching, Expired
<1>5. j \notin known /\ j \notin finished /\ j \notin Matching(k)
  BY <1>1, <1>4 DEF RunnerInv, RunnerTypeOK
<1>6. RunnerTypeOK'
  BY <1>1, <1>2, <1>3, <1>4, <1>5, JobRunnerAssumption
     DEF RunnerInv, RunnerTypeOK, Ended, Alive
<1>7. AliveIsTracked'
  BY <1>1, <1>2, <1>3, <1>4, <1>5
     DEF RunnerInv, RunnerTypeOK, AliveIsTracked, Alive, Ended
<1>8. OneUnsettled'
  BY <1>1, <1>3, <1>4, <1>5 DEF RunnerInv, RunnerTypeOK, OneUnsettled
<1>9. SingleFlight'
  BY <1>7, <1>8 DEF AliveIsTracked, SingleFlight, OneUnsettled, Alive
<1>. QED
  BY <1>6, <1>7, <1>8, <1>9 DEF RunnerInv

LEMMA LaunchFailsInv ==
  ASSUME RunnerInv, NEW k \in Keys, LaunchFails(k)
  PROVE  RunnerInv'
<1>1. /\ Settle(Matching(k), {})
      /\ known' = known \ Expired
      /\ UNCHANGED key
  BY DEF LaunchFails
<1>2. PICK fate \in Ended :
        proc' = [i \in JobIds |-> IF i \in {} THEN "alive"
                                  ELSE IF i \in Matching(k) /\ Alive(i) THEN fate
                                  ELSE proc[i]]
  BY <1>1, SettleEffect
<1>3. /\ finished' = finished \cup Matching(k)
      /\ timedOut' = timedOut \cup {i \in Matching(k) : Alive(i)}
      /\ age' = [i \in JobIds |-> IF i \in Matching(k) \cup {} THEN 0 ELSE age[i]]
  BY <1>1, SettleEffect
<1>4. Matching(k) \subseteq known /\ Expired \subseteq finished
  BY DEF Matching, Expired
<1>. QED
  BY <1>1, <1>2, <1>3, <1>4
     DEF RunnerInv, RunnerTypeOK, AliveIsTracked, SingleFlight, OneUnsettled,
         Alive, Ended

LEMMA ExitInv ==
  ASSUME RunnerInv, NEW j \in JobIds, Exit(j)
  PROVE  RunnerInv'
BY DEF Exit, RunnerInv, RunnerTypeOK, AliveIsTracked, SingleFlight, OneUnsettled,
       Alive, Ended

LEMMA RestartInv ==
  ASSUME RunnerInv, Restart
  PROVE  RunnerInv'
BY DEF Restart, RunnerInv, RunnerTypeOK, AliveIsTracked, SingleFlight,
       OneUnsettled, Alive, Ended

LEMMA TickInv ==
  ASSUME RunnerInv, Tick
  PROVE  RunnerInv'
BY DEF Tick, Older, RunnerInv, RunnerTypeOK, AliveIsTracked, SingleFlight,
       OneUnsettled, Alive

LEMMA NextInv == RunnerInv /\ [RunnerNext]_runnerVars => RunnerInv'
<1> SUFFICES ASSUME RunnerInv, [RunnerNext]_runnerVars
             PROVE  RunnerInv'
  OBVIOUS
<1>1. ASSUME NEW k \in Keys, Post(k)
      PROVE  RunnerInv'
  BY <1>1, ReattachInv, LaunchInv, LaunchFailsInv DEF Post
<1>2. ASSUME NEW j \in JobIds, Observe(j) \/ Exit(j)
      PROVE  RunnerInv'
  BY <1>2, ObserveInv, ExitInv
<1>3. CASE Restart \/ Tick
  BY <1>3, RestartInv, TickInv
<1>4. CASE UNCHANGED runnerVars
  BY <1>4 DEF runnerVars, RunnerInv, RunnerTypeOK, AliveIsTracked,
              SingleFlight, OneUnsettled, Alive
<1>. QED
  BY <1>1, <1>2, <1>3, <1>4 DEF RunnerNext

(* In every reachable state the registry is well formed, every live        *)
(* process is tracked, and identical jobs never run side by side.          *)
THEOREM RunnerSafety ==
  RunnerSpec => [](RunnerTypeOK /\ AliveIsTracked /\ SingleFlight /\ OneUnsettled)
<1>1. RunnerSpec => []RunnerInv
  BY InitInv, NextInv, PTL DEF RunnerSpec
<1>. QED
  BY <1>1, PTL DEF RunnerInv

-----------------------------------------------------------------------------
(* Verdicts.                                                               *)

(* A step leaves finished jobs finished, with their exit code and flag.    *)
FinalStep ==
  \A j \in finished :
    /\ j \in finished'
    /\ proc'[j] = proc[j]
    /\ j \in timedOut' <=> j \in timedOut

LEMMA SettleFinal ==
  ASSUME RunnerInv, NEW S \in SUBSET JobIds, NEW born \in SUBSET JobIds,
         Settle(S, born), born \cap finished = {}
  PROVE  FinalStep
<1>1. PICK fate \in Ended :
        proc' = [j \in JobIds |-> IF j \in born THEN "alive"
                                  ELSE IF j \in S /\ Alive(j) THEN fate
                                  ELSE proc[j]]
  BY SettleEffect
<1>2. /\ finished' = finished \cup S
      /\ timedOut' = timedOut \cup {j \in S : Alive(j)}
  BY SettleEffect
<1>3. \A j \in finished : ~Alive(j)
  BY DEF RunnerInv, RunnerTypeOK, AliveIsTracked
<1>. QED
  BY <1>1, <1>2, <1>3 DEF FinalStep, RunnerInv, RunnerTypeOK

LEMMA StepIsFinal ==
  ASSUME RunnerInv, RunnerNext
  PROVE  FinalStep
<1>1. ASSUME NEW k \in Keys, NEW j \in JobIds, Reattach(k, j)
      PROVE  FinalStep
  BY <1>1 DEF Reattach, FinalStep
<1>2. ASSUME NEW k \in Keys, NEW j \in JobIds, Launch(k, j)
      PROVE  FinalStep
  <2>1. j \notin finished /\ Matching(k) \subseteq JobIds
    BY <1>2 DEF Launch, Matching, RunnerInv, RunnerTypeOK
  <2>2. Settle(Matching(k), {j})
    BY <1>2 DEF Launch
  <2>. QED
    BY <2>1, <2>2, SettleFinal
<1>3. ASSUME NEW k \in Keys, LaunchFails(k)
      PROVE  FinalStep
  <2>1. Matching(k) \subseteq JobIds
    BY DEF Matching, RunnerInv, RunnerTypeOK
  <2>2. Settle(Matching(k), {})
    BY <1>3 DEF LaunchFails
  <2>. QED
    BY <2>1, <2>2, SettleFinal
<1>4. ASSUME NEW j \in JobIds, Observe(j)
      PROVE  FinalStep
  BY <1>4, SettleFinal DEF Observe
<1>5. ASSUME NEW j \in JobIds, Exit(j)
      PROVE  FinalStep
  BY <1>5 DEF Exit, FinalStep, RunnerInv, RunnerTypeOK, AliveIsTracked, Alive
<1>6. CASE Restart
  BY <1>6 DEF Restart, FinalStep, RunnerInv, RunnerTypeOK, AliveIsTracked, Alive
<1>7. CASE Tick
  BY <1>7 DEF Tick, FinalStep
<1>. QED
  BY <1>1, <1>2, <1>3, <1>4, <1>5, <1>6, <1>7 DEF RunnerNext, Post

(* A job leaves the registry by a restart or by having expired.            *)
LEMMA LeavesExpired ==
  ASSUME RunnerInv, RunnerNext, NEW j \in known, j \notin known'
  PROVE  age[j] > Retention \/ Restart
BY DEF RunnerNext, Post, Reattach, Launch, LaunchFails, Observe, Exit, Tick,
       Expired

(* What was once reported of an ended job is reported ever after.          *)
THEOREM RunnerVerdicts == RunnerSpec => VerdictStands
<1>1. ASSUME RunnerInv, RunnerNext, NEW j \in known \cap finished
      PROVE  /\ j \in finished' /\ Status(j)' = Status(j)
             /\ j \notin known' => age[j] > Retention \/ Restart
  BY <1>1, StepIsFinal, LeavesExpired DEF FinalStep, Status
<1>2. RunnerInv /\ [RunnerNext]_runnerVars =>
        [\A j \in known \cap finished :
           /\ j \in finished' /\ Status(j)' = Status(j)
           /\ j \notin known' => age[j] > Retention \/ Restart]_runnerVars
  BY <1>1
<1>3. RunnerSpec => []RunnerInv
  BY InitInv, NextInv, PTL DEF RunnerSpec
<1>. QED
  BY <1>2, <1>3, PTL DEF RunnerSpec, VerdictStands

-----------------------------------------------------------------------------
(* JobRunner implements JobService.                                        *)

Flight == [k \in Keys |-> {j \in JobIds : Alive(j) /\ key[j] = k}]
Verdict == [j \in JobIds |-> IF proc[j] = "unborn" THEN "none"
                             ELSE IF j \notin finished THEN "open"
                             ELSE Status(j)]

(* Verdicts change only when an unfinished job, now ended, is recorded.    *)
LEMMA StepJudges ==
  ASSUME RunnerInv, RunnerInv', FinalStep, NEW J \in SUBSET JobIds,
         \A j \in J : proc'[j] = "unborn" <=> proc[j] = "unborn"
  PROVE  Service!Judged(J)
<1>1. Verdict' \in [JobIds -> {"none", "open", "completed", "failed"}]
  BY DEF Verdict, Status
<1>2. ASSUME NEW j \in J, Verdict'[j] # Verdict[j]
      PROVE  /\ Verdict[j] = "open"
             /\ Verdict'[j] \in {"completed", "failed"}
             /\ \A k \in Keys : j \notin Flight'[k]
  <2>1. j \notin finished /\ proc[j] # "unborn" /\ j \in finished'
    BY <1>2 DEF Verdict, FinalStep, Status, RunnerInv, RunnerTypeOK
  <2>2. ~Alive(j)'
    BY <2>1 DEF RunnerInv, AliveIsTracked
  <2>. QED
    BY <2>1, <2>2, <1>2 DEF Verdict, Flight, Status
<1>3. \A j \in J : \/ Verdict'[j] = Verdict[j]
                   \/ /\ Verdict[j] = "open"
                      /\ Verdict'[j] \in {"completed", "failed"}
                      /\ \A k \in Keys : j \notin Flight'[k]
  BY <1>2
<1>. QED
  BY <1>1, <1>3 DEF Service!Judged, Service!Verdicts, Verdict, Flight

(* Steps that start nothing land some jobs, or none.                       *)
LEMMA StepLands ==
  ASSUME RunnerInv, RunnerInv', FinalStep,
         key' = key,
         \A j \in JobIds : /\ Alive(j)' => Alive(j)
                           /\ proc'[j] = "unborn" <=> proc[j] = "unborn"
  PROVE  Service!Land
<1>1. Service!Judged(JobIds)
  BY StepJudges
<1>2. /\ Flight' \in [Keys -> SUBSET JobIds]
      /\ \A k \in Keys : Flight'[k] \subseteq Flight[k]
  BY DEF Flight
<1>. QED
  BY <1>1, <1>2 DEF Service!Land, Flight

(* A launch takes off alone under its key.                                 *)
LEMMA LaunchTakesOff ==
  ASSUME RunnerInv, RunnerInv', FinalStep,
         NEW k \in Keys, NEW j \in JobIds, Launch(k, j)
  PROVE  Service!TakeOff(k, j)
<1>1. /\ proc[j] = "unborn" /\ key' = [key EXCEPT ![j] = k]
      /\ j \notin finished'
  BY DEF Launch, Settle, FinishedWith, Matching, RunnerInv, RunnerTypeOK
<1>2. PICK fate \in Ended :
        proc' = [i \in JobIds |-> IF i \in {j} THEN "alive"
                                  ELSE IF i \in Matching(k) /\ Alive(i) THEN fate
                                  ELSE proc[i]]
  BY SettleEffect DEF Launch
<1>3. key'[j] = k /\ \A i \in JobIds \ {j} : key'[i] = key[i]
  BY <1>1 DEF RunnerInv, RunnerTypeOK
<1>4. Flight' = [Flight EXCEPT ![k] = {j}]
  <2>1. Flight'[k] = {j}
    BY <1>2, <1>3 DEF Flight, RunnerInv, SingleFlight, Alive
  <2>2. ASSUME NEW m \in Keys \ {k}
        PROVE  Flight'[m] = Flight[m]
    <3>1. \A i \in JobIds : key[i] = m => i \notin Matching(k)
      BY DEF Matching
    <3>2. ASSUME NEW i \in JobIds
          PROVE  Alive(i)' /\ key'[i] = m <=> Alive(i) /\ key[i] = m
      BY <1>1, <1>2, <1>3, <3>1 DEF Alive
    <3>. QED
      BY <3>2 DEF Flight
  <2>. QED
    BY <2>1, <2>2 DEF Flight
<1>5. Service!Judged(JobIds \ {j})
  BY <1>2, StepJudges DEF Ended, Alive
<1>6. Verdict[j] = "none" /\ Verdict'[j] = "open"
  BY <1>1, <1>2 DEF Verdict
<1>. QED
  BY <1>4, <1>5, <1>6 DEF Service!TakeOff, Verdict, Flight

LEMMA StepImplements ==
  ASSUME RunnerInv, RunnerInv', [RunnerNext]_runnerVars
  PROVE  [Service!ServiceNext]_(Service!serviceVars)
<1>1. ASSUME NEW k \in Keys, NEW j \in JobIds, Reattach(k, j)
      PROVE  Service!Land
  <2>1. FinalStep
    BY <1>1 DEF Reattach, FinalStep
  <2>. QED
    BY <1>1, <2>1, StepLands DEF Reattach, Alive
<1>2. ASSUME NEW k \in Keys, NEW j \in JobIds, Launch(k, j)
      PROVE  Service!TakeOff(k, j)
  <2>1. FinalStep
    BY <1>2, StepIsFinal DEF RunnerNext, Post
  <2>. QED
    BY <1>2, <2>1, LaunchTakesOff
<1>3. ASSUME NEW k \in Keys, LaunchFails(k)
      PROVE  Service!Land
  <2>1. FinalStep
    BY <1>3, StepIsFinal DEF RunnerNext, Post
  <2>2. Settle(Matching(k), {}) /\ UNCHANGED key
    BY <1>3 DEF LaunchFails
  <2>3. \E fate \in Ended : proc' = [i \in JobIds |->
          IF i \in {} THEN "alive"
          ELSE IF i \in Matching(k) /\ Alive(i) THEN fate ELSE proc[i]]
    BY <2>2, SettleEffect
  <2>. QED
    BY <2>1, <2>2, <2>3, StepLands DEF Ended, Alive
<1>4. ASSUME NEW j \in JobIds, Observe(j)
      PROVE  Service!Land
  <2> DEFINE S == IF j \in finished \/ StillRunning(j) THEN {} ELSE {j}
  <2>1. FinalStep
    BY <1>4, StepIsFinal DEF RunnerNext
  <2>2. Settle(S, {}) /\ UNCHANGED key
    BY <1>4 DEF Observe
  <2>3. \E fate \in Ended : proc' = [i \in JobIds |->
          IF i \in {} THEN "alive"
          ELSE IF i \in S /\ Alive(i) THEN fate ELSE proc[i]]
    BY <2>2, SettleEffect
  <2>. QED
    BY <2>1, <2>2, <2>3, StepLands DEF Ended, Alive
<1>5. ASSUME NEW j \in JobIds, Exit(j)
      PROVE  Service!Land
  <2>1. FinalStep
    BY <1>5, StepIsFinal DEF RunnerNext
  <2>. QED
    BY <1>5, <2>1, StepLands
       DEF Exit, Ended, Alive, RunnerInv, RunnerTypeOK
<1>6. CASE Restart
  <2>1. FinalStep
    BY <1>6, StepIsFinal DEF RunnerNext
  <2>2. Service!Land
    BY <1>6, <2>1, StepLands DEF Restart, Alive
  <2>. QED
    BY <2>2 DEF Service!ServiceNext
<1>7. CASE Tick
  <2>1. FinalStep
    BY <1>7 DEF Tick, FinalStep
  <2>2. Service!Land
    BY <1>7, <2>1, StepLands DEF Tick, Alive
  <2>. QED
    BY <2>2 DEF Service!ServiceNext
<1>8. CASE UNCHANGED runnerVars
  BY <1>8 DEF runnerVars, Service!serviceVars, Alive, Status
<1>. QED
  BY <1>1, <1>2, <1>3, <1>4, <1>5, <1>6, <1>7, <1>8
     DEF RunnerNext, Post, Service!ServiceNext

LEMMA InitImplements == RunnerInit => Service!ServiceInit
BY DEF RunnerInit, Service!ServiceInit, Alive

(* The routes keep the promises of JobService, whatever the requests, the  *)
(* exits, the clock and the restarts do.                                   *)
THEOREM RunnerImplements == RunnerSpec => ImplementsService
<1>1. RunnerSpec => []RunnerInv
  BY InitInv, NextInv, PTL DEF RunnerSpec
<1>2. RunnerInv /\ RunnerInv' /\ [RunnerNext]_runnerVars =>
        [Service!ServiceNext]_(Service!serviceVars)
  BY StepImplements
<1>. QED
  BY <1>1, <1>2, InitImplements, PTL
     DEF RunnerSpec, ImplementsService, Service!ServiceSpec

-----------------------------------------------------------------------------
(* The registry with its tasks.                                            *)

(* Every step of the whole is a step of the API, or leaves it alone.       *)
LEMMA NextIsRunnerNext ==
  ASSUME RunnerInv, [Next]_vars
  PROVE  [RunnerNext]_runnerVars
<1>1. ASSUME NEW t \in Tasks, PostReattached(t) \/ PostLaunched(t) \/ PostRefused(t)
                              \/ LateArrives(t)
      PROVE  RunnerNext
  BY <1>1, AirflowAssumption
     DEF PostReattached, PostLaunched, PostRefused, LateArrives, RunnerNext, Post
<1>2. ASSUME NEW t \in Tasks, PollAnswered(t) \/ PollUnanswered(t)
      PROVE  RunnerNext
  BY <1>2 DEF PollAnswered, PollUnanswered, Observe, RunnerNext, RunnerInv,
              RunnerTypeOK
<1>3. ASSUME NEW t \in Tasks,
             \/ PostUnanswered(t) \/ DeadlinePassed(t) \/ PollBegins(t)
             \/ PollUnknown(t) \/ Unavailable(t) \/ WorkerDies(t)
      PROVE  UNCHANGED runnerVars
  BY <1>3 DEF PostUnanswered, DeadlinePassed, PollBegins, PollUnknown,
              Unavailable, WorkerDies
<1>4. CASE Background
  BY <1>4 DEF Background, RunnerNext
<1>5. CASE TimePasses
  BY <1>5 DEF TimePasses, RunnerNext, Tick, runnerVars
<1>6. CASE UNCHANGED vars
  BY <1>6 DEF vars
<1>. QED
  BY <1>1, <1>2, <1>3, <1>4, <1>5, <1>6 DEF Next

(* The API's invariant holds in the whole.                                 *)
LEMMA SpecInv == Spec => []RunnerInv
<1>1. Init => RunnerInv
  BY InitInv DEF Init
<1>2. RunnerInv /\ [Next]_vars => RunnerInv'
  BY NextIsRunnerNext, NextInv
<1>. QED
  BY <1>1, <1>2, PTL DEF Spec

(* The tasks add nothing the API alone could not do, so all that is proved *)
(* of RunnerSpec holds here: one live process per key, verdicts that       *)
(* stand, and the promises of JobService.                                  *)
THEOREM TasksKeepTheRunner == Spec => RunnerSpec
<1>1. Init => RunnerInit
  BY DEF Init
<1>2. RunnerInv /\ [Next]_vars => [RunnerNext]_runnerVars
  BY NextIsRunnerNext
<1>. QED
  BY <1>1, <1>2, SpecInv, PTL DEF Spec, RunnerSpec

-----------------------------------------------------------------------------
(* A task's job is a job of its key, and a succeeded task's job has been   *)
(* recorded with exit code 0 and without a time-out, for good.             *)
Attached == {"checking", "getting", "succeeded"}

Green(p, j, t) ==
  /\ p \in Attached => j \in JobIds /\ key[j] = TaskKey[t]
  /\ p = "succeeded" => j \in finished /\ Status(j) = "completed"

GreenInv ==
  /\ pc \in [Tasks -> {"posting", "failed"} \cup Attached]
  /\ job \in [Tasks -> JobIds \cup {NoJob}]
  /\ \A t \in Tasks : Green(pc[t], job[t], t)

(* A job that has a key keeps it.                                          *)
LEMMA KeysKept ==
  ASSUME RunnerInv, [RunnerNext]_runnerVars, NEW j \in JobIds, key[j] # NoKey
  PROVE  key'[j] = key[j]
BY DEF RunnerNext, runnerVars, Post, Reattach, Launch, LaunchFails, Observe,
       Exit, Restart, Tick, RunnerInv, RunnerTypeOK

(* What a task knows survives every step of the API.                       *)
LEMMA KnowledgeKept ==
  ASSUME RunnerInv, [RunnerNext]_runnerVars, NEW t \in Tasks, NEW p, NEW j,
         Green(p, j, t)
  PROVE  /\ p \in Attached => j \in JobIds /\ key'[j] = TaskKey[t]
         /\ p = "succeeded" => j \in finished' /\ Status(j)' = "completed"
<1>1. TaskKey[t] # NoKey
  BY AirflowAssumption, JobRunnerAssumption
<1>2. p \in Attached => j \in JobIds /\ key'[j] = TaskKey[t]
  BY <1>1, KeysKept DEF Green
<1>3. FinalStep
  BY StepIsFinal DEF FinalStep, runnerVars
<1>. QED
  BY <1>2, <1>3 DEF Green, FinalStep, Status

(* It is enough to look at the task that moves.                            *)
LEMMA OneTaskMoves ==
  ASSUME RunnerInv, [RunnerNext]_runnerVars, GreenInv, NEW t \in Tasks,
         NEW p \in {"posting", "failed"} \cup Attached,
         NEW j \in JobIds \cup {NoJob},
         pc' = [pc EXCEPT ![t] = p], job' = [job EXCEPT ![t] = j],
         p \in Attached => j \in JobIds /\ key'[j] = TaskKey[t],
         p = "succeeded" => j \in finished' /\ Status(j)' = "completed"
  PROVE  GreenInv'
<1>1. \A u \in Tasks \ {t} : pc'[u] = pc[u] /\ job'[u] = job[u]
  BY DEF GreenInv
<1>2. pc'[t] = p /\ job'[t] = j
  BY DEF GreenInv
<1>3. ASSUME NEW u \in Tasks
      PROVE  /\ pc'[u] \in Attached => job'[u] \in JobIds /\ key'[job'[u]] = TaskKey[u]
             /\ pc'[u] = "succeeded" =>
                  job'[u] \in finished' /\ Status(job[u])' = "completed"
  <2>1. CASE u = t
    BY <1>2, <2>1 DEF Status
  <2>2. CASE u # t
    <3>1. Green(pc[u], job[u], u)
      BY DEF GreenInv
    <3>2. /\ pc[u] \in Attached => job[u] \in JobIds /\ key'[job[u]] = TaskKey[u]
          /\ pc[u] = "succeeded" =>
               /\ job[u] \in finished'
               /\ \A i \in {job[u]} : Status(i)' = "completed"
      BY <3>1, KnowledgeKept
    <3>. QED
      BY <1>1, <2>2, <3>2 DEF Status
  <2>. QED
    BY <2>1, <2>2
<1>. QED
  BY <1>3 DEF GreenInv, Green, Status

(* The API moves, no task does.                                            *)
LEMMA NoTaskMoves ==
  ASSUME RunnerInv, [RunnerNext]_runnerVars, GreenInv, UNCHANGED <<pc, job>>
  PROVE  GreenInv'
<1>1. ASSUME NEW u \in Tasks
      PROVE  /\ pc[u] \in Attached => job[u] \in JobIds /\ key'[job[u]] = TaskKey[u]
             /\ pc[u] = "succeeded" =>
                  /\ job[u] \in finished'
                  /\ \A i \in {job[u]} : Status(i)' = "completed"
  BY KnowledgeKept DEF GreenInv
<1>. QED
  BY <1>1 DEF GreenInv, Green, Status

(* A failed attempt forgets its job, so nothing is claimed of it.          *)
LEMMA AttemptFailsGreen ==
  ASSUME RunnerInv, [RunnerNext]_runnerVars, GreenInv, NEW t \in Tasks,
         AttemptFails(t)
  PROVE  GreenInv'
<1>1. PICK p \in {"posting", "failed"} :
        pc' = [pc EXCEPT ![t] = p] /\ job' = [job EXCEPT ![t] = NoJob]
  BY DEF AttemptFails
<1>2. p \notin Attached /\ p # "succeeded"
  BY DEF Attached
<1>. QED
  BY <1>1, <1>2, OneTaskMoves

(* An answer about a job of the task's key keeps the claim.                *)
LEMMA AnsweredGreen ==
  ASSUME RunnerInv, [RunnerNext]_runnerVars, GreenInv, NEW t \in Tasks,
         NEW j \in JobIds, key'[j] = TaskKey[t], Answered(t, j)
  PROVE  GreenInv'
<1>1. CASE Status(j)' = "running"
  BY <1>1, OneTaskMoves DEF Answered, Attached
<1>2. CASE Status(j)' = "completed"
  BY <1>2, OneTaskMoves DEF Answered, Attached, Status
<1>3. CASE Status(j)' = "failed"
  BY <1>3, AttemptFailsGreen DEF Answered
<1>. QED
  BY <1>1, <1>2, <1>3 DEF Status

(* GreenInv is inductive, given the API's invariant.                       *)
LEMMA GreenNext == RunnerInv /\ GreenInv /\ [Next]_vars => GreenInv'
<1> SUFFICES ASSUME RunnerInv, GreenInv, [Next]_vars
             PROVE  GreenInv'
  OBVIOUS
<1>0. [RunnerNext]_runnerVars
  BY NextIsRunnerNext
<1>1. ASSUME NEW t \in Tasks, PostReattached(t)
      PROVE  GreenInv'
  BY <1>0, <1>1, AnsweredGreen DEF PostReattached, Reattach, Matching
<1>2. ASSUME NEW t \in Tasks, PostLaunched(t)
      PROVE  GreenInv'
  <2>1. PICK j \in JobIds : Launch(TaskKey[t], j) /\ Answered(t, j)
    BY <1>2 DEF PostLaunched
  <2>2. key'[j] = TaskKey[t]
    BY <2>1 DEF Launch, RunnerInv, RunnerTypeOK
  <2>. QED
    BY <1>0, <2>1, <2>2, AnsweredGreen
<1>3. ASSUME NEW t \in Tasks, PollAnswered(t)
      PROVE  GreenInv'
  <2>1. Observe(job[t]) /\ Answered(t, job[t]) /\ pc[t] = "getting"
    BY <1>3 DEF PollAnswered
  <2>2. job[t] \in JobIds /\ \A i \in {job[t]} : key'[i] = TaskKey[t]
    BY <2>1 DEF GreenInv, Green, Attached, Observe
  <2>. QED
    BY <1>0, <2>1, <2>2, AnsweredGreen
<1>4. ASSUME NEW t \in Tasks,
             \/ PostRefused(t) \/ DeadlinePassed(t) \/ PollUnknown(t)
             \/ Unavailable(t) \/ WorkerDies(t)
      PROVE  GreenInv'
  BY <1>0, <1>4, AttemptFailsGreen
     DEF PostRefused, DeadlinePassed, PollUnknown, Unavailable, WorkerDies
<1>5. ASSUME NEW t \in Tasks, PollBegins(t)
      PROVE  GreenInv'
  <2>1. /\ pc[t] = "checking" /\ pc' = [pc EXCEPT ![t] = "getting"]
        /\ UNCHANGED <<job, key>>
    BY <1>5 DEF PollBegins, runnerVars
  <2>2. job[t] \in JobIds /\ key[job[t]] = TaskKey[t]
    BY <2>1 DEF GreenInv, Green, Attached
  <2>3. job' = [job EXCEPT ![t] = job[t]]
    BY <2>1 DEF GreenInv
  <2>4. "getting" \in Attached /\ "getting" # "succeeded"
    BY DEF Attached
  <2>5. key'[job[t]] = TaskKey[t]
    BY <2>1, <2>2
  <2>. QED
    BY <1>0, <2>1, <2>2, <2>3, <2>4, <2>5, OneTaskMoves
<1>6. ASSUME NEW t \in Tasks,
             PostUnanswered(t) \/ LateArrives(t) \/ PollUnanswered(t)
      PROVE  GreenInv'
  BY <1>0, <1>6, NoTaskMoves
     DEF PostUnanswered, LateArrives, PollUnanswered, clientVars
<1>7. CASE Background \/ TimePasses \/ UNCHANGED vars
  BY <1>0, <1>7, NoTaskMoves DEF Background, TimePasses, vars, clientVars
<1>. QED
  BY <1>1, <1>2, <1>3, <1>4, <1>5, <1>6, <1>7 DEF Next

(* A green task has had its script run to exit code 0, for its arguments   *)
(* and inside the limit.                                                   *)
THEOREM GreenTasks == Spec => []GreenMeansDone
<1>1. Init => GreenInv
  BY DEF Init, GreenInv, Green, Attached
<1>2. Spec => []GreenInv
  BY <1>1, GreenNext, SpecInv, PTL DEF Spec
<1>3. GreenInv => GreenMeansDone
  BY DEF GreenInv, Green, GreenMeansDone, Attached, Status
<1>. QED
  BY <1>2, <1>3, PTL

-----------------------------------------------------------------------------
(* The clocks of a task and of its job.                                    *)

(* A task that polls.                                                      *)
Polling == {"checking", "getting"}

(* What the clocks of a task (w since its last answer, l since it began)   *)
(* say of those of its job (ages a): it began at most the time of a warm-  *)
(* up before its job did; after an answer the job was still inside its     *)
(* limit; a job that is over was not over for longer than the task has     *)
(* waited.                                                                 *)
Timely(p, j, w, l, k, f, a) ==
  /\ p = "posting" => l <= w
  /\ p \in Asking \cup Polling => w <= WarmUp + 1
  /\ p = "checking" => l <= MaxJob + WarmUp + 1
  /\ p \in Polling /\ j \in k \ f /\ a[j] <= MaxJob => l <= a[j] + WarmUp + 1
  /\ p \in Polling /\ j \in k \cap f => a[j] <= w

(* And so for all tasks.                                                   *)
TimelyInv ==
  /\ waited \in [Tasks -> Nat] /\ life \in [Tasks -> Nat]
  /\ \A t \in Tasks : Timely(pc[t], job[t], waited[t], life[t], known, finished, age)

(* Steps of the API in which no time passes.                               *)
Quiet ==
  \/ \E k \in Keys : Post(k)
  \/ \E i \in JobIds : Observe(i) \/ Exit(i)
  \/ Restart
  \/ UNCHANGED runnerVars

(* In these, a job that stays registered was registered, and the clock of  *)
(* its age is started again only when its end is recorded.                 *)
LEMMA QuietStep ==
  ASSUME RunnerInv, Quiet, NEW j \in JobIds, key[j] # NoKey, j \in known'
  PROVE  /\ j \in known
         /\ j \in finished => j \in finished'
         /\ IF j \in finished' \ finished THEN age'[j] = 0 ELSE age'[j] = age[j]
<1> DEFINE Kept == /\ j \in known
                   /\ j \in finished => j \in finished'
                   /\ IF j \in finished' \ finished THEN age'[j] = 0 ELSE age'[j] = age[j]
<1>0. proc[j] # "unborn"
  BY DEF RunnerInv, RunnerTypeOK
<1>1. ASSUME NEW S, NEW born, Settle(S, born), j \notin born, S \cap finished = {},
             j \in known
      PROVE  Kept
  <2>1. /\ finished' = finished \cup S
        /\ age' = [i \in JobIds |-> IF i \in S \cup born THEN 0 ELSE age[i]]
    BY <1>1, SettleEffect
  <2>2. CASE j \in S
    BY <1>1, <2>1, <2>2
  <2>3. CASE j \notin S
    BY <1>1, <2>1, <2>3
  <2> QED
    BY <2>2, <2>3
<1>2. \A k \in Keys : Matching(k) \cap finished = {}
  BY DEF Matching
<1>3. ASSUME NEW k \in Keys, NEW i \in JobIds, Reattach(k, i) PROVE Kept
  BY <1>3 DEF Reattach
<1>4. ASSUME NEW k \in Keys, NEW i \in JobIds, Launch(k, i) PROVE Kept
  <2>1. /\ i # j /\ Settle(Matching(k), {i}) /\ known' \subseteq known \cup {i}
    BY <1>0, <1>4 DEF Launch
  <2> QED
    BY <1>1, <1>2, <2>1
<1>5. ASSUME NEW k \in Keys, LaunchFails(k) PROVE Kept
  <2>1. Settle(Matching(k), {}) /\ known' \subseteq known
    BY <1>5 DEF LaunchFails
  <2> QED
    BY <1>1, <1>2, <2>1
<1>6. ASSUME NEW i \in JobIds, Observe(i) PROVE Kept
  <2> DEFINE S == IF i \in finished \/ StillRunning(i) THEN {} ELSE {i}
  <2>1. Settle(S, {}) /\ known' = known /\ S \cap finished = {}
    BY <1>6 DEF Observe
  <2> HIDE DEF S
  <2> QED
    BY <1>1, <2>1
<1>7. ASSUME NEW i \in JobIds, Exit(i) PROVE Kept
  BY <1>7 DEF Exit
<1>8. CASE Restart
  BY <1>8 DEF Restart
<1>9. CASE UNCHANGED runnerVars
  BY <1>9 DEF runnerVars
<1> QED
  BY <1>3, <1>4, <1>5, <1>6, <1>7, <1>8, <1>9 DEF Quiet, Post

(* What a task's clocks say of its job survives every such step.           *)
LEMMA ClocksKept ==
  ASSUME RunnerInv, Quiet, NEW t \in Tasks, NEW p, NEW j, NEW w \in Nat, NEW l \in Nat,
         Green(p, j, t), Timely(p, j, w, l, known, finished, age)
  PROVE  Timely(p, j, w, l, known', finished', age')
<1>1. CASE p \in Polling /\ j \in known'
  <2>1. j \in JobIds /\ key[j] # NoKey
    BY <1>1, AirflowAssumption, JobRunnerAssumption DEF Green, Polling, Attached
  <2>2. /\ j \in known
        /\ j \in finished => j \in finished'
        /\ IF j \in finished' \ finished THEN age'[j] = 0 ELSE age'[j] = age[j]
    BY <1>1, <2>1, QuietStep
  <2> QED
    BY <1>1, <2>2 DEF Timely
<1>2. CASE ~(p \in Polling /\ j \in known')
  BY <1>2 DEF Timely
<1> QED
  BY <1>1, <1>2

(* It is enough to look at the task that moves.                            *)
LEMMA OnlyOneMoves ==
  ASSUME RunnerInv, Quiet, GreenInv, TimelyInv, NEW t \in Tasks,
         NEW p, NEW j, NEW w \in Nat, NEW l \in Nat,
         pc' = [pc EXCEPT ![t] = p], job' = [job EXCEPT ![t] = j],
         waited' = [waited EXCEPT ![t] = w], life' = [life EXCEPT ![t] = l],
         Timely(p, j, w, l, known', finished', age')
  PROVE  TimelyInv'
<1>1. /\ pc \in [Tasks -> {"posting", "failed"} \cup Attached]
      /\ job \in [Tasks -> JobIds \cup {NoJob}]
      /\ waited \in [Tasks -> Nat] /\ life \in [Tasks -> Nat]
  BY DEF GreenInv, TimelyInv
<1>2. ASSUME NEW u \in Tasks
      PROVE  Timely(pc'[u], job'[u], waited'[u], life'[u], known', finished', age')
  <2>1. CASE u = t
    BY <1>1, <2>1
  <2>2. CASE u # t
    <3>1. /\ pc'[u] = pc[u] /\ job'[u] = job[u] /\ waited'[u] = waited[u]
          /\ life'[u] = life[u]
      BY <1>1, <2>2
    <3>2. /\ Timely(pc[u], job[u], waited[u], life[u], known, finished, age)
          /\ Green(pc[u], job[u], u) /\ waited[u] \in Nat /\ life[u] \in Nat
      BY DEF GreenInv, TimelyInv
    <3>3. Timely(pc[u], job[u], waited[u], life[u], known', finished', age')
      BY <3>2, ClocksKept
    <3> QED
      BY <3>1, <3>3
  <2> QED
    BY <2>1, <2>2
<1> QED
  BY <1>1, <1>2 DEF TimelyInv

(* The API moves, no task does.                                            *)
LEMMA NobodyMoves ==
  ASSUME RunnerInv, Quiet, GreenInv, TimelyInv, UNCHANGED <<pc, job, waited, life>>
  PROVE  TimelyInv'
<1>1. ASSUME NEW u \in Tasks
      PROVE  Timely(pc[u], job[u], waited[u], life[u], known', finished', age')
  <2>1. /\ Timely(pc[u], job[u], waited[u], life[u], known, finished, age)
        /\ Green(pc[u], job[u], u) /\ waited[u] \in Nat /\ life[u] \in Nat
    BY DEF GreenInv, TimelyInv
  <2> QED
    BY <2>1, ClocksKept
<1> QED
  BY <1>1 DEF TimelyInv

(* A failed attempt starts its clocks again.                               *)
LEMMA AttemptFailsTimely ==
  ASSUME RunnerInv, Quiet, GreenInv, TimelyInv, NEW t \in Tasks, AttemptFails(t)
  PROVE  TimelyInv'
<1>1. PICK p \in {"posting", "failed"} :
        pc' = [pc EXCEPT ![t] = p] /\ job' = [job EXCEPT ![t] = NoJob]
        /\ waited' = [waited EXCEPT ![t] = 0] /\ life' = [life EXCEPT ![t] = 0]
  BY DEF AttemptFails
<1>2. Timely(p, NoJob, 0, 0, known', finished', age')
  BY AirflowAssumption DEF Timely, Polling
<1> QED
  BY <1>1, <1>2, OnlyOneMoves

(* After an answer that its job runs, a task has been at it for no longer  *)
(* than the job's limit and one warm-up.                                   *)
LEMMA AnsweredTimely ==
  ASSUME RunnerInv, RunnerInv', Quiet, GreenInv, TimelyInv,
         NEW t \in Tasks, NEW j \in JobIds, Answered(t, j),
         j \notin finished' => life[t] <= MaxJob + WarmUp + 1
                               /\ (age'[j] <= MaxJob => life[t] <= age'[j] + WarmUp + 1)
  PROVE  TimelyInv'
<1>1. life[t] \in Nat /\ WarmUp \in Nat
  BY AirflowAssumption DEF TimelyInv
<1>2. life' = [life EXCEPT ![t] = life[t]] \/ AttemptFails(t)
  BY DEF Answered, TimelyInv
<1>3. CASE Status(j)' = "running"
  <2>1. /\ pc' = [pc EXCEPT ![t] = "checking"] /\ job' = [job EXCEPT ![t] = j]
        /\ waited' = [waited EXCEPT ![t] = 0] /\ life' = [life EXCEPT ![t] = life[t]]
    BY <1>3 DEF Answered, TimelyInv
  <2>2. j \notin finished'
    BY <1>3 DEF Status
  <2>3. Timely("checking", j, 0, life[t], known', finished', age')
    BY <1>1, <2>2 DEF Timely, Polling
  <2> QED
    BY <1>1, <2>1, <2>3, OnlyOneMoves
<1>4. CASE Status(j)' = "completed"
  <2>1. /\ pc' = [pc EXCEPT ![t] = "succeeded"] /\ job' = [job EXCEPT ![t] = j]
        /\ waited' = [waited EXCEPT ![t] = 0] /\ life' = [life EXCEPT ![t] = life[t]]
    BY <1>4 DEF Answered, TimelyInv
  <2>2. Timely("succeeded", j, 0, life[t], known', finished', age')
    BY DEF Timely, Polling, Asking
  <2> QED
    BY <1>1, <2>1, <2>2, OnlyOneMoves
<1>5. CASE Status(j)' = "failed"
  BY <1>5, AttemptFailsTimely DEF Answered
<1> QED
  BY <1>3, <1>4, <1>5 DEF Status

(* A prompt worker's clocks go no faster than its job's, and time never    *)
(* passes between an answer and the check of the deadline.                 *)
LEMMA TimePassesTimely ==
  ASSUME RunnerInv, GreenInv, TimelyInv, Prompt, TimePasses
  PROVE  TimelyInv'
<1>1. /\ UNCHANGED <<pc, job, known, finished>> /\ Older /\ Punctual
      /\ waited' = [t \in Tasks |->
           IF pc[t] \in Asking THEN Later(waited[t], WarmUp) ELSE waited[t]]
      /\ life' = [t \in Tasks |->
           IF pc[t] \notin Done THEN Later(life[t], Deadline) ELSE life[t]]
  BY DEF TimePasses
<1>2. waited' \in [Tasks -> Nat] /\ life' \in [Tasks -> Nat]
  BY <1>1 DEF TimelyInv, Later
<1>3. WarmUp \in Nat /\ MaxJob \in Nat
  BY AirflowAssumption, JobRunnerAssumption
<1>4. ASSUME NEW t \in Tasks
      PROVE  Timely(pc[t], job[t], waited'[t], life'[t], known, finished, age')
  <2>1. /\ Timely(pc[t], job[t], waited[t], life[t], known, finished, age)
        /\ Green(pc[t], job[t], t) /\ waited[t] \in Nat /\ life[t] \in Nat
    BY DEF GreenInv, TimelyInv
  <2>2. /\ pc[t] # "checking"
        /\ pc[t] \in Asking => waited[t] <= WarmUp
        /\ life'[t] <= life[t] + 1
        /\ pc[t] \in Asking => waited'[t] = waited[t] + 1
    BY <1>1, <1>3, <2>1 DEF Punctual, Later
  <2>3. CASE pc[t] = "getting"
    <3>1. job[t] \in JobIds
      BY <2>1, <2>3 DEF Green, Attached
    <3>2. age[job[t]] \in Nat
      BY <3>1 DEF RunnerInv, RunnerTypeOK
    <3>3. /\ age'[job[t]] <= age[job[t]] + 1
          /\ job[t] \in known \ finished /\ age[job[t]] <= MaxJob =>
               age'[job[t]] = age[job[t]] + 1
          /\ age'[job[t]] >= age[job[t]] /\ age'[job[t]] \in Nat
      BY <1>1, <3>1, <3>2 DEF Older, AgeLimit
    <3> QED
      BY <1>2, <1>3, <2>1, <2>2, <2>3, <3>2, <3>3 DEF Timely, Polling, Asking
  <2>4. CASE pc[t] = "posting"
    BY <1>2, <1>3, <2>1, <2>2, <2>4 DEF Timely, Polling, Asking
  <2>5. CASE pc[t] \notin {"getting", "posting"}
    BY <2>2, <2>5 DEF Timely, Polling, Asking
  <2> QED
    BY <2>3, <2>4, <2>5
<1> QED
  BY <1>1, <1>2, <1>4 DEF TimelyInv

(* All clocks start together.                                              *)
LEMMA TimelyInit == Init => TimelyInv
BY AirflowAssumption DEF Init, TimelyInv, Timely, Polling, Asking

(* The clocks stay tied, given that workers are prompt.                    *)
LEMMA TimelyNext ==
  ASSUME Prompt, RunnerInv, RunnerInv', GreenInv, TimelyInv, [Next]_vars
  PROVE  TimelyInv'
<1>0. WarmUp \in Nat /\ MaxJob \in Nat
  BY AirflowAssumption, JobRunnerAssumption
<1>1. ASSUME NEW t \in Tasks, pc[t] = "posting"
      PROVE  life[t] \in Nat /\ life[t] <= WarmUp + 1
  BY <1>0, <1>1 DEF TimelyInv, Timely, Asking
<1>2. ASSUME NEW t \in Tasks, PostReattached(t)
      PROVE  TimelyInv'
  <2>1. PICK j \in JobIds : Reattach(TaskKey[t], j) /\ Answered(t, j)
    BY <1>2 DEF PostReattached
  <2>2. age[j] \in Nat /\ age' = age /\ pc[t] = "posting"
    BY <1>2, <2>1 DEF PostReattached, Reattach, RunnerInv, RunnerTypeOK
  <2>3. Quiet
    BY <2>1, AirflowAssumption DEF Quiet, Post
  <2> QED
    BY <1>0, <1>1, <2>1, <2>2, <2>3, AnsweredTimely
<1>3. ASSUME NEW t \in Tasks, PostLaunched(t)
      PROVE  TimelyInv'
  <2>1. PICK j \in JobIds : Launch(TaskKey[t], j) /\ Answered(t, j)
    BY <1>3 DEF PostLaunched
  <2>2. age'[j] \in Nat /\ pc[t] = "posting"
    BY <1>3 DEF PostLaunched, RunnerInv, RunnerTypeOK
  <2>3. Quiet
    BY <2>1, AirflowAssumption DEF Quiet, Post
  <2> QED
    BY <1>0, <1>1, <2>1, <2>2, <2>3, AnsweredTimely
<1>4. ASSUME NEW t \in Tasks, PollAnswered(t)
      PROVE  TimelyInv'
  <2> DEFINE j == job[t]
             S == IF j \in finished \/ StillRunning(j) THEN {} ELSE {j}
  <2>1. Observe(j) /\ Answered(t, j) /\ pc[t] = "getting"
    BY <1>4 DEF PollAnswered
  <2>2. j \in JobIds
    BY <2>1 DEF GreenInv, Green, Attached
  <2>3. Quiet
    BY <2>1, <2>2 DEF Quiet
  <2>4. j \in known /\ Settle(S, {})
    BY <2>1 DEF Observe
  <2>5. finished' = finished \cup S
        /\ age' = [i \in JobIds |-> IF i \in S \cup {} THEN 0 ELSE age[i]]
    BY <2>4, SettleEffect
  <2>6. j \notin finished' => j \notin finished /\ age[j] <= MaxJob /\ age'[j] = age[j]
    BY <2>2, <2>5 DEF StillRunning
  <2>7. j \notin finished' => life[t] <= age[j] + WarmUp + 1
    BY <2>1, <2>4, <2>6 DEF TimelyInv, Timely, Polling
  <2>8. age[j] \in Nat /\ life[t] \in Nat
    BY <2>2 DEF TimelyInv, RunnerInv, RunnerTypeOK
  <2> QED
    BY <1>0, <2>1, <2>2, <2>3, <2>6, <2>7, <2>8, AnsweredTimely
<1>5. ASSUME NEW t \in Tasks, PostRefused(t)
      PROVE  TimelyInv'
  <2>1. Quiet
    BY <1>5, AirflowAssumption DEF PostRefused, Quiet, Post
  <2> QED
    BY <1>5, <2>1, AttemptFailsTimely DEF PostRefused
<1>6. ASSUME NEW t \in Tasks,
             DeadlinePassed(t) \/ PollUnknown(t) \/ Unavailable(t) \/ WorkerDies(t)
      PROVE  TimelyInv'
  <2>1. AttemptFails(t) /\ UNCHANGED runnerVars
    BY <1>6 DEF DeadlinePassed, PollUnknown, Unavailable, WorkerDies
  <2> QED
    BY <2>1, AttemptFailsTimely DEF Quiet
<1>7. ASSUME NEW t \in Tasks, PollBegins(t)
      PROVE  TimelyInv'
  <2>1. /\ pc[t] = "checking" /\ pc' = [pc EXCEPT ![t] = "getting"]
        /\ UNCHANGED <<runnerVars, job, waited, life>>
    BY <1>7 DEF PollBegins
  <2>2. Timely(pc[t], job[t], waited[t], life[t], known, finished, age)
        /\ waited[t] \in Nat /\ life[t] \in Nat
    BY DEF TimelyInv
  <2>3. Timely("getting", job[t], waited[t], life[t], known', finished', age')
    BY <2>1, <2>2 DEF Timely, Polling, Asking, runnerVars
  <2>4. /\ job' = [job EXCEPT ![t] = job[t]]
        /\ waited' = [waited EXCEPT ![t] = waited[t]]
        /\ life' = [life EXCEPT ![t] = life[t]]
    BY <2>1 DEF GreenInv, TimelyInv
  <2>5. Quiet
    BY <2>1 DEF Quiet
  <2>6. pc' = [pc EXCEPT ![t] = "getting"] /\ waited[t] \in Nat /\ life[t] \in Nat
    BY <2>1, <2>2
  <2> QED
    BY <2>3, <2>4, <2>5, <2>6, OnlyOneMoves
<1>8. ASSUME NEW t \in Tasks,
             PostUnanswered(t) \/ LateArrives(t) \/ PollUnanswered(t)
      PROVE  TimelyInv'
  <2>1. Quiet
    BY <1>8, AirflowAssumption
       DEF PostUnanswered, LateArrives, PollUnanswered, Quiet, Observe, RunnerInv,
           RunnerTypeOK
  <2>2. UNCHANGED <<pc, job, waited, life>>
    BY <1>8 DEF PostUnanswered, LateArrives, PollUnanswered, clientVars
  <2> QED
    BY <2>1, <2>2, NobodyMoves
<1>9. CASE Background \/ UNCHANGED vars
  <2>1. Quiet /\ UNCHANGED <<pc, job, waited, life>>
    BY <1>9 DEF Background, Quiet, vars, clientVars
  <2> QED
    BY <2>1, NobodyMoves
<1>10. CASE TimePasses
  BY <1>10, TimePassesTimely
<1> QED
  BY <1>2, <1>3, <1>4, <1>5, <1>6, <1>7, <1>8, <1>9, <1>10 DEF Next

(* Tasks know their jobs.                                                  *)
LEMMA GreenSpec == Spec => []GreenInv
<1>1. Init => GreenInv
  BY DEF Init, GreenInv, Green, Attached
<1> QED
  BY <1>1, GreenNext, SpecInv, PTL DEF Spec

(* The clocks are tied in every behaviour of prompt workers.               *)
LEMMA TimelySpec ==
  ASSUME Prompt
  PROVE  Spec => []TimelyInv
<1>1. RunnerInv /\ RunnerInv' /\ GreenInv /\ TimelyInv /\ [Next]_vars => TimelyInv'
  BY TimelyNext
<1> QED
  BY <1>1, TimelyInit, GreenSpec, SpecInv, PTL DEF Spec

(* A task's own deadline never passes while its worker is prompt and the   *)
(* deadline is a warm-up longer than the API's limit: 370 minutes are,     *)
(* over 6 hours and the 5 minutes (with 20 seconds of sleep and a time-    *)
(* out) of one request.                                                    *)
THEOREM DeadlineNeverFires ==
  ASSUME Prompt, Deadline >= MaxJob + WarmUp + 1
  PROVE  Spec => []DeadlineIsSpare
<1>1. TimelyInv => DeadlineIsSpare
  BY AirflowAssumption, JobRunnerAssumption DEF TimelyInv, Timely, DeadlineIsSpare
<1> QED
  BY <1>1, TimelySpec, PTL

(* A job is forgotten in a restart, or long after its end was recorded.    *)
LEMMA ForgottenIsOld ==
  ASSUME RunnerInv, RunnerNext, NEW j \in known, j \notin known'
  PROVE  (j \in finished /\ age[j] > Retention) \/ Restart
BY DEF RunnerNext, Post, Reattach, Launch, LaunchFails, Observe, Exit, Tick,
       Expired

(* A job some prompt task still polls is not forgotten, as long as the API *)
(* keeps ended jobs for longer than a request is retried: a day is.        *)
THEOREM PolledJobsStay ==
  ASSUME Prompt, Retention > WarmUp
  PROVE  Spec => PolledIsKept
<1>1. TimelyInv /\ RunnerInv /\ [Next]_vars =>
        [\A t \in Tasks :
           pc[t] \in {"checking", "getting"} /\ job[t] \in known
             => job[t] \in known' \/ Restart]_vars
  <2> SUFFICES ASSUME TimelyInv, RunnerInv, Next, NEW t \in Tasks, pc[t] \in Polling,
                      job[t] \in known, job[t] \notin known'
               PROVE  Restart
    BY DEF Polling
  <2>1. RunnerNext
    BY NextIsRunnerNext DEF runnerVars
  <2>2. CASE job[t] \in finished /\ age[job[t]] > Retention
    <3>1. age[job[t]] <= WarmUp + 1
      BY <2>2, AirflowAssumption DEF TimelyInv, Timely, RunnerInv, RunnerTypeOK
    <3>2. age[job[t]] \in Nat
      BY DEF RunnerInv, RunnerTypeOK
    <3> QED
      BY <2>2, <3>1, <3>2, AirflowAssumption, JobRunnerAssumption
  <2> QED
    BY <2>1, <2>2, ForgottenIsOld
<1> QED
  BY <1>1, TimelySpec, SpecInv, PTL DEF Spec, PolledIsKept
=============================================================================
