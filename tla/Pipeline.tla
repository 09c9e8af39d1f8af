------------------------------ MODULE Pipeline ------------------------------
(***************************************************************************)
(* The daily DAG, airflow/dags/tax_regulation_discovery_daily.py, over the *)
(* processing queue and the embedding runs: collect, process, rechunk,     *)
(* embed, evaluate, one task after another, each asking the API for a job  *)
(* and waiting for it.                                                     *)
(*                                                                         *)
(* A task that finds its job running waits for that one.  It is red when   *)
(* the job was killed or it lost sight of it, and then tried again, twice. *)
(* Whatever became of it, process, rechunk and embed follow (all_done):    *)
(* the job a red task left behind may still be running then.               *)
(***************************************************************************)
EXTENDS Embedding

CONSTANTS
  RunOf,     \* the run of process_corpus.py each processing task asks for
  EmbedRun,  \* the embedding run
  Attempts   \* one and the retries of a task

ASSUME PipelineAssumption ==
  /\ RunOf \in [{"process", "rechunk"} -> Workers]
  /\ EmbedRun \in Embedders
  /\ Attempts \in Nat \ {0}

VARIABLE dag   \* the DAG run: its task, attempts left, asked for, job failed
pipelineVars == <<embVars, dag>>

Task(t) == [task |-> t, left |-> Attempts, asked |-> FALSE, killed |-> FALSE]

PipelineInit == EmbInit /\ dag = Task("none")

(* Mutant: a red task takes the rest of the run with it (all_success).     *)
After_Green(t, green) ==
  CASE t = "none" -> "collect"
    [] t = "collect" /\ green -> "process"
    [] t = "process" /\ green -> "rechunk"
    [] t = "rechunk" /\ green -> "embed"
    [] t = "embed" /\ green -> "evaluate"
    [] OTHER -> "none"

(* The order of the tasks and their trigger rules.                         *)
After(t, green) ==
  CASE t = "none" -> "collect"
    [] t = "collect" -> "process"
    [] t = "process" -> "rechunk"
    [] t = "rechunk" -> "embed"
    [] t = "embed" /\ green -> "evaluate"
    [] OTHER -> "none"

(* The attempt is over.                                                    *)
Ended(green) ==
  IF green \/ dag.left = 1 THEN Task(After(dag.task, green))
  ELSE [dag EXCEPT !.left = @ - 1, !.asked = FALSE, !.killed = FALSE]

(* The schedule, and the tasks whose jobs are not modelled here (with all  *)
(* of their attempts).                                                     *)
DagGoesOn ==
  /\ dag.task \in {"none", "collect", "evaluate"}
  /\ \E green \in BOOLEAN : dag' = Task(After(dag.task, green))
  /\ UNCHANGED embVars

(* The collection job.                                                     *)
Collect(v) ==
  /\ dag.task = "collect"
  /\ Ingest(v)
  /\ UNCHANGED <<embedder, dag>>

ModeOf(t) == IF t = "process" THEN "pending" ELSE "rechunk"

Processes(t) == dag.task = t /\ t \in DOMAIN RunOf
Running ==
  IF dag.task = "embed" THEN embedder[EmbedRun].pc # "off"
  ELSE /\ worker[RunOf[dag.task]].pc # "off"
       /\ worker[RunOf[dag.task]].mode = ModeOf(dag.task)

(* run_api_job asks for the job ...                                        *)
Ask ==
  /\ dag.task \in {"process", "rechunk", "embed"}
  /\ ~dag.asked
  /\ dag' = [dag EXCEPT !.asked = TRUE]
  /\ \/ Running /\ UNCHANGED embVars
     \/ /\ dag.task = "embed" /\ BeginEmbedding(EmbedRun)
     \/ /\ dag.task \in DOMAIN RunOf
        /\ StartRun(RunOf[dag.task], ModeOf(dag.task))
        /\ UNCHANGED embedder

(* ... and waits until it is over, or loses sight of it.                   *)
Answered ==
  /\ dag.asked
  /\ ~Running
  /\ dag' = Ended(~dag.killed)
  /\ UNCHANGED embVars

LoseSight ==
  /\ dag.asked
  /\ Running
  /\ dag' = Ended(FALSE)
  /\ UNCHANGED embVars

(* The runs, once started.                                                 *)
Works(w) ==
  /\ EndRun(w) \/ Query(w) \/ Claim(w) \/ Rechunk(w) \/ Extract(w) \/ Raise(w) \/ Finish(w)
  /\ Bounded
  /\ UNCHANGED <<embedder, dag>>

Embeds(e) ==
  /\ FetchPage(e) \/ EmbedBatch(e) \/ EndEmbedding(e)
  /\ UNCHANGED dag

(* The task waits for this very run.                                       *)
Awaits(w) == dag.asked /\ Processes(dag.task) /\ RunOf[dag.task] = w
AwaitsEmbedding(e) == dag.asked /\ dag.task = "embed" /\ EmbedRun = e

Killed(w) ==
  /\ Die(w)
  /\ dag' = [dag EXCEPT !.killed = @ \/ Awaits(w)]
  /\ UNCHANGED embedder

(* The script ends with an exception: its exit code is not 0.              *)
EmbeddingFails(e) ==
  /\ BatchFails(e)
  /\ dag' = [dag EXCEPT !.killed = @ \/ AwaitsEmbedding(e)]

EmbeddingKilled(e) ==
  /\ EmbedderDies(e)
  /\ dag' = [dag EXCEPT !.killed = @ \/ AwaitsEmbedding(e)]

ReleaseEnds ==
  /\ ReleaseAll
  /\ dag' = [dag EXCEPT !.killed = dag.asked]

PipelineNext ==
  \/ DagGoesOn \/ Ask \/ Answered \/ LoseSight
  \/ \E v \in Versions : Collect(v)
  \/ \E w \in Workers : Works(w) \/ Killed(w)
  \/ \E e \in Embedders : Embeds(e) \/ EmbeddingFails(e) \/ EmbeddingKilled(e)
  \/ ReleaseEnds

(***************************************************************************)
(* Fairness.  Airflow goes on with the DAG and starts it every day, a task *)
(* gets through to the API now and then, a version is collected on some    *)
(* day, and a job that lives goes on.  What must be assumed of kills is    *)
(* said in the properties.                                                 *)
(***************************************************************************)
PipelineFairness ==
  /\ WF_pipelineVars(DagGoesOn) /\ WF_pipelineVars(Answered)
  /\ WF_pipelineVars(Ask)
  /\ SF_pipelineVars(\E v \in Versions : Collect(v))
  /\ \A w \in Workers : WF_pipelineVars(Works(w))
  /\ \A e \in Embedders : WF_pipelineVars(Embeds(e) \/ EmbeddingFails(e))

PipelineSpec == PipelineInit /\ [][PipelineNext]_pipelineVars /\ PipelineFairness

-----------------------------------------------------------------------------
(* Not every run is killed before it has looked for its first, second ...  *)
(* version and claimed it.  Nothing is said of what the version then does. *)
WorksAs(w, m) == worker[w].mode = m /\ Works(w)
AtTurn(w, n) == worker[w].left = n

RunsGetToWork ==
  \A w \in Workers : \A m \in Modes : \A n \in 1 .. Limit :
    /\ SF_pipelineVars(AtTurn(w, n) /\ WorksAs(w, m) /\ Query(w))
    /\ SF_pipelineVars(AtTurn(w, n) /\ WorksAs(w, m) /\ Claim(w))

(* The version does not kill every run that takes it up: some run gets to  *)
(* its commit, or to the record that it failed.                            *)
WorksOn(w, v) == worker[w].claim = v /\ Works(w)
LetsRunsLive(v) ==
  \A w \in Workers :
    /\ SF_pipelineVars(WorksOn(w, v) /\ Rechunk(w))
    /\ SF_pipelineVars(WorksOn(w, v) /\ Finish(w))

(* Not every embedding run is killed before it has fetched a page that     *)
(* holds work for it and stored a batch.                                   *)
FetchWork(e) == FetchPage(e) /\ embedder'[e].todo # {}
BatchesGetDone ==
  \A e \in Embedders :
    /\ SF_pipelineVars(FetchWork(e) /\ UNCHANGED dag)
    /\ SF_pipelineVars(EmbedBatch(e) /\ UNCHANGED dag)

(* Re-chunking takes the oldest first and does not pass over those that    *)
(* failed before: behind as many of them as its limit no version is cut.   *)
Blocked(v) ==
  Cardinality({u \in Candidates("rechunk") : u < v /\ HasFailed(u)}) >= Limit

CaughtUp(v) ==
  \/ HasFailed(v)
  \/ text[v] # NoText /\ (rows[v].edition = chunker \/ Blocked(v))

(* Every version gets its text or its FAILED record, and with the text the *)
(* passages of the latest chunker, though runs take few versions and are   *)
(* killed or overtaken by a release, and tasks are red.  The exceptions    *)
(* are those of the code: a version that kills each run, or Limit versions *)
(* that fail each re-chunking, keep the newer ones from their turn.        *)
CatchesUp ==
  RunsGetToWork =>
    \A v \in Versions :
      (\A u \in {x \in Versions : x <= v} : LetsRunsLive(u))
        => <>[](v \in Ingested /\ CaughtUp(v))

(* Once the corpus stops changing every passage gets its embedding, though *)
(* runs are killed and limited, and rows replaced under them.              *)
AllEmbedded == BatchesGetDone => <>[](AllRows \subseteq vectors)
=============================================================================
