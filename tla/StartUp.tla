------------------------------- MODULE StartUp ------------------------------
(***************************************************************************)
(* How API containers start (api/main.py, api/migrations.py): a thread     *)
(* runs "alembic upgrade head" while the server answers /health, and       *)
(* /ready says 503 until it is through.                                    *)
(*                                                                         *)
(* A release starts the new container before the old one ends, so two may  *)
(* upgrade at once, and an old one may start again on the new schema.  No  *)
(* lock is taken: an upgrade is one transaction (migrations/env.py), which *)
(* fails if the revision it began from is not the database's any more.     *)
(***************************************************************************)
EXTENDS Naturals

CONSTANTS
  Containers,
  Newest,    \* the newest revision each container's image knows
  Migrates,  \* containers with run_migrations_on_startup
  First,     \* the database's revision at first
  NoBase     \* no upgrade has begun

ASSUME StartUpAssumption ==
  /\ First \in Nat /\ Newest \in [Containers -> Nat]
  /\ Migrates \subseteq Containers
  /\ NoBase \notin Nat

VARIABLES
  schema,    \* alembic_version
  database,  \* whether it can be reached
  state,     \* _state of each container, "off" without a process
  base,      \* the revision the container's upgrade read
  scripts    \* <<from, container>> of the upgrades committed, a history

startVars == <<schema, database, state, base, scripts>>

StartInit ==
  /\ schema = First
  /\ database = TRUE
  /\ state = [c \in Containers |-> "off"]
  /\ base = [c \in Containers |-> NoBase]
  /\ scripts = {}

-----------------------------------------------------------------------------
(* lifespan.                                                               *)
Start(c) ==
  /\ state[c] = "off"
  /\ state' = [state EXCEPT ![c] = IF c \in Migrates THEN "running" ELSE "completed"]
  /\ base' = [base EXCEPT ![c] = NoBase]
  /\ UNCHANGED <<schema, database, scripts>>

(* The upgrade reads the revision: an unknown one is an error, the newest  *)
(* leaves nothing to do, an older one begins a transaction.                *)
Begin(c) ==
  /\ state[c] = "running" /\ base[c] = NoBase /\ database
  /\ \/ schema > Newest[c]
        /\ state' = [state EXCEPT ![c] = "failed"] /\ UNCHANGED base
     \/ schema = Newest[c]
        /\ state' = [state EXCEPT ![c] = "completed"] /\ UNCHANGED base
     \/ schema < Newest[c]
        /\ base' = [base EXCEPT ![c] = schema] /\ UNCHANGED state
  /\ UNCHANGED <<schema, database, scripts>>

(* Mutant: an upgrade that failed counts as done.                          *)
Outcome_Done(done) == "completed"

Outcome(done) == IF done THEN "completed" ELSE "failed"

Fits(c) == base[c] = schema

Upgrade(c) ==
  /\ state[c] = "running" /\ base[c] # NoBase /\ database
  /\ Fits(c)
  /\ schema' = Newest[c]
  /\ scripts' = scripts \cup {<<base[c], c>>}
  /\ state' = [state EXCEPT ![c] = Outcome(TRUE)]
  /\ UNCHANGED <<database, base>>

(* Any exception: another container was first, a script is wrong, the      *)
(* connection is lost. The transaction is rolled back.                     *)
UpgradeFails(c) ==
  /\ state[c] = "running"
  /\ state' = [state EXCEPT ![c] = Outcome(FALSE)]
  /\ UNCHANGED <<schema, database, base, scripts>>

(* The container is stopped or dies; its transaction with it.              *)
Stop(c) ==
  /\ state[c] # "off"
  /\ state' = [state EXCEPT ![c] = "off"]
  /\ UNCHANGED <<schema, database, base, scripts>>

DatabaseTurns ==
  /\ database' = ~database
  /\ UNCHANGED <<schema, state, base, scripts>>

(* GET /ready.                                                             *)
Ready(c) == state[c] = "completed" /\ database

StartNext ==
  \/ \E c \in Containers : Start(c) \/ Begin(c) \/ Upgrade(c) \/ UpgradeFails(c) \/ Stop(c)
  \/ DatabaseTurns

StartSpec == StartInit /\ [][StartNext]_startVars

-----------------------------------------------------------------------------
(* Properties.                                                             *)

(* A container that migrates takes traffic only on a schema that has its   *)
(* newest revision, and no two containers ran the scripts from the same    *)
(* revision, though nothing keeps them from trying at the same time.       *)
ReadyMeansMigrated ==
  /\ \A c \in Migrates : Ready(c) => schema >= Newest[c]
  /\ \A p, q \in scripts : p[1] = q[1] => p = q
=============================================================================
