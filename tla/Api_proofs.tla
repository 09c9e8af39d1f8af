----------------------------- MODULE Api_proofs -----------------------------
(***************************************************************************)
(* Proofs about the API's accounts, its limiters, its start and the output *)
(* of its jobs, for any number of accounts, sessions, requests, keys,      *)
(* containers, releases and pollers: the last administrator stays, revoked *)
(* sessions change nothing, windows hold no more than their limit, running *)
(* counts stay, no lock is needed for migrations, and what a task shows of *)
(* the output is right.                                                    *)
(***************************************************************************)
EXTENDS Accounts, StartUp, Limits, JobOutput, Ranks_proofs, SequenceTheorems, TLAPS

-----------------------------------------------------------------------------
(* Accounts.                                                               *)

Rows == [name : Names \cup {NoName}, role : Roles, active : BOOLEAN]

AnyForm ==
  [pc : {"forwarded", "admitted", "loaded"}, by : Ids, kind : Kinds,
   target : Ids \cup {NoId}, name : Names \cup {NoName}, role : Roles, age : Nat,
   seen : BOOLEAN, revoked : BOOLEAN]

Forms == {f \in AnyForm : f.kind # "create" => f.target \in Ids}

AccountsTypeOK ==
  /\ account \in [Ids -> Rows]
  /\ session \in [Ids -> [name : Names \cup {NoName}, role : Roles]]
  /\ request \in [Requests -> {Idle} \cup Forms]

(* What a request that passed require_admin is: not against its sender,    *)
(* and of a sender who was an administrator since it was forwarded.  Until *)
(* then a sender marked as revoked is no administrator.                    *)
Sound(q) ==
  request[q].pc \in {"forwarded", "admitted", "loaded"} =>
    /\ request[q].pc = "forwarded" /\ request[q].revoked => ~Admin(request[q].by)
    /\ request[q].pc # "forwarded" => ~request[q].revoked /\ ~Refused(q)

AccountsInv ==
  /\ AccountsTypeOK
  /\ \A a \in Ids : Exists(a) => a \in Used
  /\ \A q \in Requests : Sound(q)

-----------------------------------------------------------------------------
(* The initial states satisfy the invariant.                               *)
LEMMA AccountsInitInv == AccountsInit => AccountsInv
<1>1. ASSUME AccountsInit PROVE AccountsTypeOK
  BY <1>1, AccountsAssumption DEF AccountsInit, AccountsTypeOK, Rows, Roles, NoAccount, NoSession
<1>2. ASSUME AccountsInit, NEW q \in Requests PROVE Sound(q)
  BY <1>2 DEF AccountsInit, Sound, Idle
<1>3. ASSUME AccountsInit, NEW a \in Ids, Exists(a) PROVE a \in Used
  BY <1>3, AccountsAssumption DEF AccountsInit, Exists, Used, NoAccount, NoSession
<1>. QED  BY <1>1, <1>2, <1>3 DEF AccountsInv

(* A request that is not idle is a form.                                   *)
LEMMA FormOf ==
  ASSUME AccountsTypeOK, NEW r \in Requests, request[r].pc # "idle"
  PROVE  request[r] \in Forms
BY DEF AccountsTypeOK, Idle

(* Changing the stage of one request keeps the other requests sound.       *)
LEMMA OneRequestMoves ==
  ASSUME AccountsInv, NEW r \in Requests, NEW form \in {Idle} \cup Forms,
         request' = [request EXCEPT ![r] = form], UNCHANGED <<account, session>>, Sound(r)'
  PROVE  AccountsInv'
<1>1. AccountsTypeOK'  BY DEF AccountsInv, AccountsTypeOK
<1>2. ASSUME NEW q \in Requests, q # r PROVE Sound(q)'
  <2>1. request'[q] = request[q]  BY <1>2 DEF AccountsInv, AccountsTypeOK
  <2>. QED  BY <2>1 DEF AccountsInv, Sound, Admin, Refused
<1>3. \A a \in Ids : Exists(a)' => a \in Used'
  BY DEF AccountsInv, Exists, Used
<1>. QED  BY <1>1, <1>2, <1>3 DEF AccountsInv

-----------------------------------------------------------------------------
(* Steps that change no account.                                           *)
LEMMA ForwardInv ==
  ASSUME AccountsInv, NEW r \in Requests, NEW a \in Ids, NEW kind \in Kinds,
         NEW target \in Ids \cup {NoId}, NEW name \in Names \cup {NoName},
         NEW role \in Roles, kind # "create" => target \in Ids,
         Forward(r, a, kind, target, name, role)
  PROVE  AccountsInv'
<1> DEFINE form == [pc |-> "forwarded", by |-> a, kind |-> kind, target |-> target,
                    name |-> name, role |-> role, age |-> 0, seen |-> FALSE,
                    revoked |-> ~Admin(a)]
<1>1. form \in Forms
  BY DEF Forms, AnyForm, Admin, AdminRow
<1>2. request' = [request EXCEPT ![r] = form] /\ UNCHANGED <<account, session>>
  BY DEF Forward
<1>3. /\ request'[r].pc = "forwarded" /\ request'[r].by = a
      /\ request'[r].revoked <=> ~Admin(a)
  BY <1>2 DEF AccountsInv, AccountsTypeOK
<1>4. Sound(r)'
  BY <1>2, <1>3 DEF Sound, Admin
<1>. QED  BY <1>1, <1>2, <1>4, OneRequestMoves

(* A request waits, is answered without a change, or is lost.              *)
LEMMA QuietInv ==
  ASSUME AccountsInv, NEW r \in Requests,
         Wait(r) \/ Reject(r) \/ NotFound(r) \/ Lost(r)
  PROVE  AccountsInv'
<1>1. CASE Wait(r)
  <2> DEFINE form == [request[r] EXCEPT !.age = @ + 1]
  <2>1. request[r] \in Forms
    BY <1>1, FormOf DEF AccountsInv, Wait
  <2>2. form \in Forms /\ form.pc = request[r].pc /\ form.by = request[r].by
        /\ form.revoked = request[r].revoked
    BY <2>1 DEF Forms, AnyForm, AnyForm
  <2>3. request' = [request EXCEPT ![r] = form] /\ UNCHANGED <<account, session>>
    BY <1>1 DEF Wait
  <2>4. request'[r] = form /\ request[r].pc = "forwarded" /\ Sound(r)
    BY <1>1, <2>3 DEF AccountsInv, AccountsTypeOK, Wait
  <2>5. Sound(r)'
    BY <2>2, <2>3, <2>4 DEF Sound, Admin
  <2>. QED  BY <2>2, <2>3, <2>5, OneRequestMoves
<1>2. CASE Reject(r) \/ NotFound(r) \/ Lost(r)
  <2>1. request' = [request EXCEPT ![r] = Idle] /\ UNCHANGED <<account, session>>
    BY <1>2 DEF Reject, NotFound, Lost
  <2>2. request'[r] = Idle
    BY <2>1 DEF AccountsInv, AccountsTypeOK
  <2>3. Sound(r)'
    BY <2>2 DEF Sound, Idle
  <2>. QED  BY <2>1, <2>3, OneRequestMoves
<1>. QED  BY <1>1, <1>2

(* Who is admitted is an administrator now, so was not revoked.            *)
LEMMA AuthenticateInv ==
  ASSUME AccountsInv, NEW r \in Requests, Authenticate(r)
  PROVE  AccountsInv'
<1> DEFINE form == [request[r] EXCEPT !.pc = "admitted"]
<1>1. request[r] \in Forms
  BY FormOf DEF AccountsInv, Authenticate
<1>2. form \in Forms /\ form.pc = "admitted" /\ form.by = request[r].by
      /\ form.revoked = request[r].revoked /\ form.kind = request[r].kind
      /\ form.target = request[r].target
  BY <1>1 DEF Forms, AnyForm, AnyForm
<1>3. request' = [request EXCEPT ![r] = form] /\ UNCHANGED <<account, session>>
  BY DEF Authenticate
<1>4. request'[r] = form
  BY <1>3 DEF AccountsInv, AccountsTypeOK
<1>5. Admin(request[r].by) /\ ~Refused(r)
  BY DEF Authenticate, MayAct, Accepted, Admin, AdminRow, Exists
<1>6. ~request[r].revoked
  BY <1>5 DEF AccountsInv, Sound, Authenticate
<1>7. Sound(r)'
  BY <1>2, <1>4, <1>5, <1>6 DEF Sound, Refused
<1>. QED  BY <1>2, <1>3, <1>7, OneRequestMoves

LEMMA LoadInv ==
  ASSUME AccountsInv, NEW r \in Requests, Load(r)
  PROVE  AccountsInv'
<1> DEFINE seen == request[r].kind # "create" /\ account[request[r].target].active
           form == [request[r] EXCEPT !.pc = "loaded", !.seen = seen]
<1>1. request[r] \in Forms
  BY FormOf DEF AccountsInv, Load
<1>2. seen \in BOOLEAN
  <2>1. CASE request[r].kind = "create"  BY <2>1
  <2>2. CASE request[r].kind # "create"
    <3>1. request[r].target \in Ids
      BY <1>1, <2>2 DEF Load, Missing, Exists, AccountsInv, AccountsTypeOK, Forms, AnyForm
    <3>. QED  BY <3>1 DEF AccountsInv, AccountsTypeOK, Rows
  <2>. QED  BY <2>1, <2>2
<1>3. form \in Forms /\ form.pc = "loaded" /\ form.by = request[r].by
      /\ form.revoked = request[r].revoked /\ form.kind = request[r].kind
      /\ form.target = request[r].target
  BY <1>1, <1>2 DEF Forms, AnyForm, AnyForm
<1>4. request' = [request EXCEPT ![r] = form] /\ UNCHANGED <<account, session>>
  BY DEF Load
<1>5. request'[r] = form
  BY <1>4 DEF AccountsInv, AccountsTypeOK
<1>6. request[r].pc = "admitted" /\ Sound(r)
  BY DEF AccountsInv, Load
<1>7. Sound(r)'
  BY <1>3, <1>5, <1>6 DEF Sound, Refused
<1>. QED  BY <1>3, <1>4, <1>7, OneRequestMoves

-----------------------------------------------------------------------------
(* A commit leaves rows of accounts.                                       *)
LEMMA CommitRows ==
  ASSUME AccountsInv, NEW r \in Requests, Commit(r)
  PROVE  account' \in [Ids -> Rows]
<1>1. request[r] \in Forms
  BY FormOf DEF AccountsInv, Commit, CommitUpdate, CommitDelete, CommitCreate
<1>2. account \in [Ids -> Rows]
  BY DEF AccountsInv, AccountsTypeOK
<1>3. CASE CommitUpdate(r)
  <2>1. ASSUME NEW a \in Ids PROVE /\ [account[a] EXCEPT !.active = FALSE] \in Rows
                                  /\ [account[a] EXCEPT !.active = TRUE] \in Rows
    BY <1>2 DEF Rows
  <2>2. request[r].target \in Ids
    BY <1>1, <1>3 DEF CommitUpdate, Forms
  <2>3. Updated(r) \in Rows
    BY <1>2, <2>1, <2>2 DEF Updated
  <2>. QED  BY <1>2, <1>3, <2>3 DEF CommitUpdate
<1>4. CASE CommitDelete(r)
  <2>1. NoAccount \in Rows
    BY DEF NoAccount, Rows, Roles
  <2>. QED  BY <1>2, <1>4, <2>1 DEF CommitDelete
<1>5. CASE CommitCreate(r)
  <2>1. [name |-> request[r].name, role |-> request[r].role, active |-> TRUE] \in Rows
    BY <1>1 DEF Forms, AnyForm, Rows
  <2>. QED  BY <1>2, <1>5, <2>1 DEF CommitCreate
<1>. QED  BY <1>3, <1>4, <1>5 DEF Commit

(* An account comes with its session, and ids are used once.               *)
LEMMA CommitSessions ==
  ASSUME AccountsInv, NEW r \in Requests, Commit(r)
  PROVE  /\ session' \in [Ids -> [name : Names \cup {NoName}, role : Roles]]
         /\ \A a \in Ids : Exists(a)' => a \in Used'
<1>1. request[r] \in Forms
  BY FormOf DEF AccountsInv, Commit, CommitUpdate, CommitDelete, CommitCreate
<1>2. /\ account \in [Ids -> Rows]
      /\ session \in [Ids -> [name : Names \cup {NoName}, role : Roles]]
      /\ \A a \in Ids : Exists(a) => a \in Used
  BY DEF AccountsInv, AccountsTypeOK
<1>3. CASE CommitUpdate(r)
  <2>1. ASSUME NEW a \in Ids, Exists(a)' PROVE Exists(a)
    <3>1. CASE account'[a] = account[a]
      BY <2>1, <3>1 DEF Exists
    <3>2. CASE account'[a] # account[a]
      BY <1>2, <1>3, <3>2 DEF CommitUpdate
    <3>. QED  BY <3>1, <3>2
  <2>. QED  BY <1>2, <1>3, <2>1 DEF CommitUpdate, Used
<1>4. CASE CommitDelete(r)
  <2>1. ASSUME NEW a \in Ids, Exists(a)' PROVE Exists(a)
    BY <1>2, <1>4, <2>1 DEF CommitDelete, Exists, NoAccount
  <2>. QED  BY <1>2, <1>4, <2>1 DEF CommitDelete, Used
<1>5. CASE CommitCreate(r)
  <2>1. CASE UNCHANGED <<account, session>>
    BY <1>2, <2>1 DEF Exists, Used
  <2>2. CASE \E a \in Ids \ Used :
            /\ account' = [account EXCEPT ![a] =
                 [name |-> request[r].name, role |-> request[r].role, active |-> TRUE]]
            /\ session' = [session EXCEPT ![a] =
                 [name |-> request[r].name, role |-> request[r].role]]
    <3>1. PICK a \in Ids \ Used :
            /\ account' = [account EXCEPT ![a] =
                 [name |-> request[r].name, role |-> request[r].role, active |-> TRUE]]
            /\ session' = [session EXCEPT ![a] =
                 [name |-> request[r].name, role |-> request[r].role]]
      BY <2>2
    <3>2. [name |-> request[r].name, role |-> request[r].role]
            \in [name : Names \cup {NoName}, role : Roles]
      BY <1>1 DEF Forms, AnyForm
    <3>3. ASSUME NEW b \in Ids, Exists(b)' PROVE b \in Used'
      <4>1. CASE b = a
        BY <1>2, <3>1, <3>3, <4>1 DEF Exists, Used, NoSession
      <4>2. CASE b # a
        BY <1>2, <3>1, <3>3, <4>2 DEF Exists, Used
      <4>. QED  BY <4>1, <4>2
    <3>. QED  BY <1>2, <3>1, <3>2, <3>3
  <2>. QED  BY <1>5, <2>1, <2>2 DEF CommitCreate
<1>. QED  BY <1>3, <1>4, <1>5 DEF Commit

(* A form whose sender is marked or not is a form.                         *)
LEMMA OtherMark ==
  ASSUME NEW f \in Forms, NEW mark \in BOOLEAN
  PROVE  LET g == [f EXCEPT !.revoked = mark]
         IN  /\ g \in Forms /\ g.pc = f.pc /\ g.by = f.by /\ g.kind = f.kind
             /\ g.target = f.target /\ g.revoked = mark
BY DEF Forms, AnyForm

(* The commit of one request settles it, and marks the others' senders.    *)
LEMMA CommitInv ==
  ASSUME AccountsInv, NEW r \in Requests, Commit(r)
  PROVE  AccountsInv'
<1>1. request' = Answered(r)
  BY DEF Commit, CommitUpdate, CommitDelete, CommitCreate
<1> DEFINE stays(q) == request[q].revoked /\ ~AdminRow(account'[request[q].by])
<1>2. ASSUME NEW q \in Requests, request'[q] # Idle
      PROVE  /\ request[q] \in Forms
             /\ request'[q] = [request[q] EXCEPT !.revoked = stays(q)]
             /\ stays(q) \in BOOLEAN
  BY <1>1, <1>2 DEF Answered, AccountsInv, AccountsTypeOK
<1>3. ASSUME NEW q \in Requests, request'[q] # Idle
      PROVE  /\ request'[q] \in Forms /\ request'[q].pc = request[q].pc
             /\ request'[q].by = request[q].by /\ request'[q].kind = request[q].kind
             /\ request'[q].target = request[q].target
             /\ request'[q].revoked = stays(q)
  <2>. HIDE DEF stays
  <2>1. request[q] \in Forms /\ stays(q) \in BOOLEAN
        /\ request'[q] = [request[q] EXCEPT !.revoked = stays(q)]
    BY <1>2, <1>3
  <2>. QED  BY <2>1, OtherMark
<1>4. AccountsTypeOK'
  <2>1. request' \in [Requests -> {Idle} \cup Forms]
    BY <1>1, <1>3 DEF Answered
  <2>. QED  BY <2>1, CommitRows, CommitSessions DEF AccountsTypeOK
<1>5. ASSUME NEW q \in Requests PROVE Sound(q)'
  <2>1. CASE request'[q] = Idle
    BY <2>1 DEF Sound, Idle
  <2>2. CASE request'[q] # Idle
    <3>1. request[q].pc \in {"forwarded", "admitted", "loaded"} /\ Sound(q)
      BY <1>2, <2>2 DEF Forms, AnyForm, AccountsInv
    <3>2. request'[q].revoked => ~Admin(request[q].by)' /\ request'[q].by = request[q].by
      BY <1>3, <2>2 DEF Admin
    <3>3. request'[q].pc # "forwarded" => ~request'[q].revoked /\ ~Refused(q)'
      BY <1>3, <2>2, <3>1 DEF Sound, Refused
    <3>. QED  BY <3>2, <3>3 DEF Sound, Admin
  <2>. QED  BY <2>1, <2>2
<1>. QED  BY <1>4, <1>5, CommitSessions DEF AccountsInv

LEMMA AccountsStepInv ==
  ASSUME AccountsInv, [AccountsNext]_accountVars
  PROVE  AccountsInv'
<1>1. ASSUME NEW r \in Requests, NEW a \in Used, Send(r, a) PROVE AccountsInv'
  <2>1. a \in Ids /\ Used \subseteq Ids
    BY DEF Used
  <2>2. CASE \E kind \in Kinds \ {"create"} : \E target \in Used :
               Forward(r, a, kind, target, NoName, "user")
    BY <2>1, <2>2, ForwardInv DEF Roles
  <2>3. CASE \E name \in Names, role \in Roles : Forward(r, a, "create", NoId, name, role)
    BY <2>1, <2>3, ForwardInv DEF Kinds
  <2>. QED  BY <1>1, <2>2, <2>3 DEF Send
<1>2. CASE UNCHANGED accountVars
  BY <1>2 DEF accountVars, AccountsInv, AccountsTypeOK, Sound, Admin, Refused, Exists, Used
<1>. QED
  BY <1>1, <1>2, QuietInv, AuthenticateInv, LoadInv, CommitInv DEF AccountsNext

LEMMA AccountsHold == AccountsSpec => []AccountsInv
<1>. QED  BY AccountsInitInv, AccountsStepInv, PTL DEF AccountsSpec

-----------------------------------------------------------------------------
(* Only a commit changes accounts.                                         *)
LEMMA OnlyCommits ==
  ASSUME AccountsInv, [AccountsNext]_accountVars, account' # account
  PROVE  \E r \in Requests : Commit(r)
BY DEF AccountsNext, accountVars, Send, Forward, Wait, Authenticate, Reject, NotFound,
       Load, Lost

(* An administrator who goes with a commit is not the one who sent it.     *)
LEMMA OneAdminGoes ==
  ASSUME AccountsInv, NEW r \in Requests, Commit(r), NEW a \in Admins, a \notin Admins'
  PROVE  a # request[r].by
<1>1. a \in Ids /\ Admin(a) /\ ~Admin(a)'
  BY DEF Admins
<1>2. account \in [Ids -> Rows]
  BY DEF AccountsInv, AccountsTypeOK
<1>3. CASE CommitUpdate(r)
  <2>1. a = request[r].target
    BY <1>1, <1>2, <1>3 DEF CommitUpdate, Admin
  <2>2. request[r].kind = "disable"
    <3>1. account'[a] = Updated(r)
      BY <1>1, <1>2, <1>3, <2>1 DEF CommitUpdate, Admin
    <3>2. account[a] \in Rows
      BY <1>1, <1>2
    <3>3. [account[a] EXCEPT !.active = TRUE] = account[a]
      BY <1>1, <3>2 DEF Rows, Admin, AdminRow
    <3>. QED  BY <1>1, <2>1, <3>1, <3>3 DEF Updated, Admin
  <2>3. ~Refused(r)
    BY <1>3 DEF AccountsInv, Sound, CommitUpdate
  <2>. QED  BY <2>1, <2>2, <2>3 DEF Refused
<1>4. CASE CommitDelete(r)
  <2>1. a = request[r].target
    BY <1>1, <1>2, <1>4 DEF CommitDelete, Admin
  <2>2. ~Refused(r)
    BY <1>4 DEF AccountsInv, Sound, CommitDelete
  <2>. QED  BY <1>4, <2>1, <2>2 DEF Refused, CommitDelete
<1>5. CASE CommitCreate(r)
  <2>1. a \in Used
    BY <1>1 DEF AccountsInv, Admin, AdminRow, Exists
  <2>2. account'[a] = account[a]
    BY <1>1, <1>2, <1>5, <2>1 DEF CommitCreate
  <2>. QED  BY <1>1, <2>2 DEF Admin
<1>. QED  BY <1>3, <1>4, <1>5 DEF Commit

(* LastAdminStands, for any number of accounts, requests and sessions: the *)
(* last administrator goes only by the request of one who has gone.        *)
THEOREM SomeAdminStays == AccountsSpec => LastAdminStands
<1>1. ASSUME AccountsInv, [AccountsNext]_accountVars, Admins # {}, Admins' = {}
      PROVE  \E r \in Requests : Commit(r) /\ request[r].by \notin Admins
  <2>1. account' # account
    BY <1>1 DEF Admins, Admin
  <2>2. PICK r \in Requests : Commit(r)
    BY <1>1, <2>1, OnlyCommits
  <2>3. request[r].by \notin Admins
    BY <1>1, <2>2, OneAdminGoes
  <2>. QED  BY <2>2, <2>3
<1>2. ASSUME AccountsInv, [AccountsNext]_accountVars
      PROVE  [Admins # {} /\ Admins' = {} =>
                \E r \in Requests : Commit(r) /\ request[r].by \notin Admins]_accountVars
  BY <1>1, <1>2
<1>. QED  BY <1>2, AccountsHold, PTL DEF AccountsSpec, LastAdminStands

(* RevokedChangesNothing: a session whose account was no administrator all *)
(* the while since its request was forwarded changes no account.           *)
THEOREM RevokedIsPowerless == AccountsSpec => RevokedChangesNothing
<1>1. ASSUME AccountsInv, NEW r \in Requests, Commit(r) PROVE ~request[r].revoked
  BY <1>1 DEF AccountsInv, Sound, Commit, CommitUpdate, CommitDelete, CommitCreate
<1>2. ASSUME AccountsInv, [AccountsNext]_accountVars
      PROVE  [\A r \in Requests : Commit(r) /\ account' # account
                => ~request[r].revoked]_accountVars
  BY <1>1, <1>2
<1>. QED  BY <1>2, AccountsHold, PTL DEF AccountsSpec, RevokedChangesNothing

-----------------------------------------------------------------------------
(* Start-up and migrations.                                                *)

States == {"off", "running", "completed", "failed"}

StartTypeOK ==
  /\ schema \in Nat
  /\ state \in [Containers -> States]
  /\ base \in [Containers -> Nat \cup {NoBase}]
  /\ scripts \subseteq Nat \X Containers

(* An upgrade leads to a newer revision than it began from, ...            *)
Newer == \A c \in Containers : base[c] # NoBase => base[c] < Newest[c]

(* ... so that a revision somebody upgraded from is never current again.   *)
LeftBehind == \A p \in scripts : p[1] < schema

Served == \A c \in Migrates : state[c] = "completed" => schema >= Newest[c]
RunOnce == \A p, q \in scripts : p[1] = q[1] => p = q

StartInv == StartTypeOK /\ Newer /\ LeftBehind /\ Served /\ RunOnce

-----------------------------------------------------------------------------
LEMMA StartInitInv == StartInit => StartInv
BY StartUpAssumption
   DEF StartInit, StartInv, StartTypeOK, States, Newer, LeftBehind, Served, RunOnce

(* Everything but an upgrade leaves the schema and the scripts.            *)
LEMMA QuietStart ==
  ASSUME StartInv, NEW c \in Containers,
         Start(c) \/ Begin(c) \/ UpgradeFails(c) \/ Stop(c)
  PROVE  StartInv'
<1>1. schema' = schema /\ scripts' = scripts
  BY DEF Start, Begin, UpgradeFails, Stop
<1>2. StartTypeOK'
  BY DEF StartInv, StartTypeOK, States, Start, Begin, UpgradeFails, Stop, Outcome
<1>3. Newer'
  BY StartUpAssumption
     DEF StartInv, StartTypeOK, Newer, Start, Begin, UpgradeFails, Stop
<1>4. Served'
  BY StartUpAssumption
     DEF StartInv, StartTypeOK, Served, Start, Begin, UpgradeFails, Stop, Outcome
<1>. QED  BY <1>1, <1>2, <1>3, <1>4 DEF StartInv, LeftBehind, RunOnce

LEMMA UpgradeInv ==
  ASSUME StartInv, NEW c \in Containers, Upgrade(c)
  PROVE  StartInv'
<1>1. /\ schema \in Nat /\ base[c] = schema /\ schema < Newest[c]
      /\ Newest[c] \in Nat /\ schema' = Newest[c]
      /\ scripts' = scripts \cup {<<schema, c>>}
      /\ state' = [state EXCEPT ![c] = "completed"] /\ base' = base
  BY StartUpAssumption
     DEF StartInv, StartTypeOK, Newer, Upgrade, Fits, Outcome
<1>2. StartTypeOK' /\ Newer'
  BY <1>1 DEF StartInv, StartTypeOK, States, Newer
<1>3. ASSUME NEW p \in scripts' PROVE p[1] < schema'
  <2>1. CASE p \in scripts
    <3>1. p[1] \in Nat /\ p[1] < schema
      BY <2>1 DEF StartInv, StartTypeOK, LeftBehind
    <3>. QED  BY <1>1, <3>1
  <2>2. CASE p = <<schema, c>>
    BY <1>1, <2>2
  <2>. QED  BY <1>1, <2>1, <2>2
<1>4. Served'
  <2>1. ASSUME NEW d \in Migrates, state'[d] = "completed" PROVE schema' >= Newest[d]
    <3>1. CASE d = c
      BY <1>1, <3>1
    <3>2. CASE d # c
      <4>1. d \in Containers /\ state[d] = "completed"
        BY <1>1, <2>1, <3>2, StartUpAssumption DEF StartInv, StartTypeOK
      <4>2. schema >= Newest[d] /\ Newest[d] \in Nat
        BY <4>1, StartUpAssumption DEF StartInv, Served
      <4>. QED  BY <1>1, <4>2
    <3>. QED  BY <3>1, <3>2
  <2>. QED  BY <2>1 DEF Served
<1>5. RunOnce'
  <2>1. \A p \in scripts : p[1] # schema
    BY <1>1 DEF StartInv, StartTypeOK, LeftBehind
  <2>. QED  BY <1>1, <2>1 DEF StartInv, RunOnce
<1>. QED  BY <1>2, <1>3, <1>4, <1>5 DEF StartInv, LeftBehind

LEMMA StartStepInv ==
  ASSUME StartInv, [StartNext]_startVars
  PROVE  StartInv'
<1>1. CASE UNCHANGED startVars \/ DatabaseTurns
  BY <1>1 DEF startVars, DatabaseTurns, StartInv, StartTypeOK, Newer, LeftBehind,
              Served, RunOnce
<1>. QED  BY <1>1, QuietStart, UpgradeInv DEF StartNext

(* ReadyMeansMigrated: whatever containers start, stop, fail and upgrade   *)
(* at the same time, one that takes traffic has its schema, and each       *)
(* revision was left by one container only.                                *)
THEOREM SchemaIsThere == StartSpec => []ReadyMeansMigrated
<1>1. StartInv => ReadyMeansMigrated
  BY DEF StartInv, Served, RunOnce, ReadyMeansMigrated, Ready
<1>. QED  BY <1>1, StartInitInv, StartStepInv, PTL DEF StartSpec

-----------------------------------------------------------------------------
(* The limiters.                                                           *)

(* Ages inside the window, newest first.                                   *)
Ages ==
  {e \in Seq(0 .. Window - 1) : \A i, j \in DOMAIN e : i <= j => e[i] <= e[j]}

(* The keys of a dictionary have the places 1, 2, ...                      *)
Numbered(places) ==
  /\ places \in [Keys -> Nat]
  /\ IsFiniteSet(KeysOf(places))
  /\ \A k \in KeysOf(places) : places[k] \in 1 .. Cardinality(KeysOf(places))
  /\ \A j, k \in KeysOf(places) : places[j] = places[k] => j = k

(* Attempts that tried a wrong password for k and did not count it yet,    *)
(* and those that may still come to that.                                  *)
Wrong(at, k) == {t \in Attempts : at[t].pc = "wrong" /\ at[t].key = k}
Pending(at, k) == {t \in Attempts : at[t].pc \in {"verifying", "wrong"} /\ at[t].key = k}

(* The events account for the history but for its w newest: an event       *)
(* leaves the window no sooner than what it stands for.                    *)
Covers(evts, w, history) ==
  \A i \in DOMAIN history :
    i > w => i - w \in DOMAIN evts /\ evts[i - w] <= history[i]

LimitsTypeOK ==
  /\ use \in {"questions", "sign-ins"}
  /\ Numbered(place)
  /\ events \in [Keys -> Ages] /\ spent \in [Keys -> Ages]
  /\ attempt \in [Attempts -> [pc : {"off", "verifying", "wrong", "right"},
                               key : Keys \cup {NoKey}]]
  /\ \A t \in Attempts : attempt[t].pc # "off" => attempt[t].key \in Keys

LimitsInv ==
  /\ LimitsTypeOK
  /\ Cardinality(KeysOf(place)) <= MaxKeys
  /\ \A k \in Keys : place[k] = 0 => events[k] = <<>>
  /\ use = "questions" => \A t \in Attempts : attempt[t] = Waiting
  /\ \A k \in Keys : Covers(events[k], Cardinality(Wrong(attempt, k)), spent[k])
  /\ \A k \in Keys :
       IF use = "questions" THEN Len(events[k]) <= Limit
       ELSE Len(events[k]) + Cardinality(Pending(attempt, k))
              <= Limit - 1 + Cardinality(Attempts)

LEMMA LimitsBounds ==
  /\ Limit \in Nat \ {0} /\ Window \in Nat \ {0} /\ MaxKeys \in Nat \ {0}
  /\ NoKey \notin Keys /\ IsFiniteSet(Attempts) /\ Cardinality(Attempts) \in Nat
  /\ <<>> \in Ages
BY LimitsAssumption, FS_CardinalityType DEF Ages

-----------------------------------------------------------------------------
(* Ages.                                                                   *)

LEMMA AgesAre ==
  ASSUME NEW e \in Ages
  PROVE  /\ e \in Seq(0 .. Window - 1) /\ Len(e) \in Nat /\ DOMAIN e = 1 .. Len(e)
         /\ \A i \in DOMAIN e : e[i] \in 0 .. Window - 1
         /\ \A i, j \in DOMAIN e : i <= j => e[i] <= e[j]
<1> DEFINE S == 0 .. Window - 1
<1>1. e \in Seq(S) /\ \A i, j \in DOMAIN e : i <= j => e[i] <= e[j]
  BY DEF Ages
<1>2. e \in Seq(S) => /\ Len(e) \in Nat /\ DOMAIN e = 1 .. Len(e)
                       /\ \A i \in DOMAIN e : e[i] \in S
  <2> HIDE DEF S
  <2> QED
    OBVIOUS
<1> QED
  BY <1>1, <1>2

(* A new event comes first.                                                *)
LEMMA NewEvent ==
  ASSUME NEW e \in Ages
  PROVE  /\ <<0>> \o e \in Ages /\ <<0>> \o e # <<>>
         /\ Len(<<0>> \o e) = Len(e) + 1
         /\ (<<0>> \o e)[1] = 0
         /\ \A i \in DOMAIN e : i + 1 \in DOMAIN (<<0>> \o e) /\ (<<0>> \o e)[i + 1] = e[i]
         /\ \A i \in DOMAIN (<<0>> \o e) : i # 1 => i - 1 \in DOMAIN e /\ (<<0>> \o e)[i] = e[i - 1]
<1> DEFINE f == <<0>> \o e
<1>1. /\ e \in Seq(0 .. Window - 1) /\ Len(e) \in Nat /\ DOMAIN e = 1 .. Len(e)
      /\ \A i, j \in DOMAIN e : i <= j => e[i] <= e[j]
      /\ \A i \in DOMAIN e : e[i] \in 0 .. Window - 1
  BY AgesAre
<1>2. 0 \in 0 .. Window - 1
  BY LimitsBounds
<1>3. /\ f \in Seq(0 .. Window - 1) /\ Len(f) = Len(e) + 1 /\ f[1] = 0
      /\ DOMAIN f = 1 .. Len(e) + 1
      /\ \A i \in 2 .. Len(e) + 1 : f[i] = e[i - 1]
  BY <1>1, <1>2
<1>4. f # <<>>
  BY <1>1, <1>3
<1> HIDE DEF f
<1>5. \A i \in DOMAIN e : i + 1 \in DOMAIN f /\ f[i + 1] = e[i]
  BY <1>1, <1>3
<1>6. \A i \in DOMAIN f : i # 1 => i - 1 \in DOMAIN e /\ f[i] = e[i - 1]
  BY <1>1, <1>3
<1>7. ASSUME NEW i \in DOMAIN f, NEW j \in DOMAIN f, i <= j
      PROVE  f[i] <= f[j]
  <2>1. CASE i = 1
    <3>1. f[j] \in Nat
      BY <1>1, <1>3, <1>6
    <3> QED
      BY <2>1, <3>1, <1>3
  <2>2. CASE i # 1
    <3>1. j # 1 /\ i - 1 <= j - 1
      BY <1>1, <1>3, <1>7, <2>2
    <3> QED
      BY <2>2, <3>1, <1>1, <1>6
  <2> QED
    BY <2>1, <2>2
<1>8. f \in Ages
  BY <1>3, <1>7 DEF Ages
<1> QED
  BY <1>3, <1>4, <1>5, <1>6, <1>8 DEF f

(* What leaves the window is the end of the sequence.                      *)
LEMMA OlderAges ==
  ASSUME NEW e \in Ages
  PROVE  /\ Older(e) \in Ages /\ Len(Older(e)) <= Len(e)
         /\ \A i \in DOMAIN e : i \in DOMAIN Older(e) <=> e[i] + 1 < Window
         /\ \A i \in DOMAIN Older(e) : i \in DOMAIN e /\ Older(e)[i] = e[i] + 1
<1> DEFINE n == Len(e)
           kept == {i \in DOMAIN e : e[i] + 1 < Window}
           left == {i \in 1 .. n + 1 : i \notin kept}
<1>1. /\ n \in Nat /\ DOMAIN e = 1 .. n
      /\ \A i, j \in DOMAIN e : i <= j => e[i] <= e[j]
      /\ \A i \in DOMAIN e : e[i] \in 0 .. Window - 1
  BY AgesAre
<1>2. left \in SUBSET (1 .. n + 1) /\ n + 1 \in left /\ n + 1 \in Nat
  BY <1>1
<1>3. PICK m \in left : \A j \in left : m <= j
  <2> HIDE DEF left
  <2> QED
    BY <1>2, Least
<1>4. m \in 1 .. n + 1 /\ m \notin kept
  OBVIOUS
<1>5. kept = 1 .. m - 1
  <2>1. ASSUME NEW i \in kept
        PROVE  i \in 1 .. m - 1
    <3>1. i \in 1 .. n
      BY <1>1
    <3>2. ~(m <= i)
      <4>1. SUFFICES ASSUME m <= i
                     PROVE  FALSE
        OBVIOUS
      <4>2. m \in DOMAIN e /\ e[m] <= e[i]
        BY <3>1, <4>1, <1>1, <1>4
      <4> QED
        BY <3>1, <4>2, <1>1, <1>4, LimitsBounds
    <3> QED
      BY <3>1, <3>2, <1>4
  <2>2. ASSUME NEW i \in 1 .. m - 1
        PROVE  i \in kept
    <3>1. i \in 1 .. n + 1 /\ ~(m <= i)
      BY <1>1, <1>4
    <3>2. i \notin left
      BY <3>1, <1>3
    <3> QED
      BY <3>1, <3>2
  <2> QED
    BY <2>1, <2>2
<1>6. Older(e) = [i \in 1 .. m - 1 |-> e[i] + 1]
  BY <1>5 DEF Older
<1>7. m - 1 \in 0 .. n
  BY <1>1, <1>4
<1>8. \A i \in 1 .. m - 1 : i \in 1 .. n /\ e[i] + 1 \in 0 .. Window - 1
  BY SMTT(60), <1>1, <1>5, <1>7, LimitsBounds
<1>9. Older(e) \in Seq(0 .. Window - 1) /\ Len(Older(e)) = m - 1
  BY <1>1, <1>6, <1>7, <1>8
<1> HIDE DEF kept, left
<1>10. ASSUME NEW i \in DOMAIN Older(e), NEW j \in DOMAIN Older(e), i <= j
       PROVE  Older(e)[i] <= Older(e)[j]
  BY <1>1, <1>6, <1>8, <1>10
<1>11. Older(e) \in Ages
  BY <1>9, <1>10 DEF Ages
<1>12. \A i \in DOMAIN e : i \in DOMAIN Older(e) <=> e[i] + 1 < Window
  BY <1>5, <1>6 DEF kept
<1> QED
  BY <1>1, <1>6, <1>7, <1>8, <1>9, <1>11, <1>12

(* A wrong password, its event, a question, a tick.                        *)
LEMMA CoversOnward ==
  ASSUME NEW e \in Ages, NEW s \in Ages, NEW w \in Nat, Covers(e, w, s)
  PROVE  /\ Covers(e, w + 1, <<0>> \o s)
         /\ w # 0 => Covers(<<0>> \o e, w - 1, s)
         /\ Covers(<<0>> \o e, w, <<0>> \o s)
         /\ Covers(Older(e), w, Older(s))
         /\ Len(s) <= Len(e) + w
<1>1. /\ Len(e) \in Nat /\ DOMAIN e = 1 .. Len(e) /\ Len(s) \in Nat /\ DOMAIN s = 1 .. Len(s)
      /\ \A i \in DOMAIN e : e[i] \in 0 .. Window - 1
      /\ \A i \in DOMAIN s : s[i] \in 0 .. Window - 1
      /\ \A i, j \in DOMAIN e : i <= j => e[i] <= e[j]
  BY AgesAre
<1> DEFINE f == <<0>> \o e
           r == <<0>> \o s
<1>2. /\ Len(f) = Len(e) + 1 /\ f[1] = 0 /\ DOMAIN f = 1 .. Len(e) + 1
      /\ \A i \in DOMAIN e : f[i + 1] = e[i]
  BY NewEvent, <1>1 DEF Ages
<1>3. /\ Len(r) = Len(s) + 1 /\ r[1] = 0 /\ DOMAIN r = 1 .. Len(s) + 1
      /\ \A i \in DOMAIN r : i # 1 => i - 1 \in DOMAIN s /\ r[i] = s[i - 1]
  BY NewEvent, <1>1 DEF Ages
<1> HIDE DEF f, r
<1>4. Covers(e, w + 1, r)
  <2> SUFFICES ASSUME NEW i \in DOMAIN r, i > w + 1
               PROVE  i - (w + 1) \in DOMAIN e /\ e[i - (w + 1)] <= r[i]
    BY DEF Covers
  <2>1. i - 1 \in DOMAIN s /\ r[i] = s[i - 1] /\ i - 1 > w /\ (i - 1) - w = i - (w + 1)
    BY <1>1, <1>3
  <2> QED
    BY <2>1 DEF Covers
<1>5. ASSUME w # 0
      PROVE  Covers(f, w - 1, s)
  <2> SUFFICES ASSUME NEW i \in DOMAIN s, i > w - 1
               PROVE  i - (w - 1) \in DOMAIN f /\ f[i - (w - 1)] <= s[i]
    BY DEF Covers
  <2>1. CASE i = w
    BY <2>1, <1>1, <1>2
  <2>2. CASE i # w
    <3>1. i > w /\ i - (w - 1) = (i - w) + 1
      BY <2>2, <1>1
    <3>2. i - w \in DOMAIN e /\ e[i - w] <= s[i]
      BY <3>1 DEF Covers
    <3> QED
      BY <3>1, <3>2, <1>1, <1>2
  <2> QED
    BY <2>1, <2>2
<1>6. Covers(f, w, r)
  <2> SUFFICES ASSUME NEW i \in DOMAIN r, i > w
               PROVE  i - w \in DOMAIN f /\ f[i - w] <= r[i]
    BY DEF Covers
  <2>1. CASE i = w + 1
    <3>1. i - w = 1
      BY <2>1
    <3>2. r[i] \in Nat
      BY <1>1, <1>3
    <3> QED
      BY <3>1, <3>2, <1>1, <1>2
  <2>2. CASE i # w + 1
    <3>1. /\ i - 1 \in DOMAIN s /\ r[i] = s[i - 1]
          /\ i - 1 > w /\ (i - w) = ((i - 1) - w) + 1
      BY <2>2, <1>1, <1>3
    <3>2. (i - 1) - w \in DOMAIN e /\ e[(i - 1) - w] <= s[i - 1]
      BY <3>1 DEF Covers
    <3> QED
      BY <3>1, <3>2, <1>1, <1>2
  <2> QED
    BY <2>1, <2>2
<1>7. Covers(Older(e), w, Older(s))
  <2> SUFFICES ASSUME NEW i \in DOMAIN Older(s), i > w
               PROVE  i - w \in DOMAIN Older(e) /\ Older(e)[i - w] <= Older(s)[i]
    BY DEF Covers
  <2>1. i \in DOMAIN s /\ Older(s)[i] = s[i] + 1 /\ s[i] + 1 < Window
    BY OlderAges
  <2>2. i - w \in DOMAIN e /\ e[i - w] <= s[i]
    BY <2>1 DEF Covers
  <2>3. e[i - w] + 1 < Window
    BY <2>1, <2>2, <1>1, LimitsBounds
  <2>4. i - w \in DOMAIN Older(e) /\ Older(e)[i - w] = e[i - w] + 1
    BY <2>2, <2>3, OlderAges
  <2> QED
    BY <2>1, <2>2, <2>4, <1>1
<1>8. Len(s) <= Len(e) + w
  <2> SUFFICES ASSUME Len(s) > w
               PROVE  Len(s) <= Len(e) + w
    BY <1>1
  <2>1. Len(s) \in DOMAIN s
    BY <1>1
  <2>2. Len(s) - w \in DOMAIN e
    BY <2>1 DEF Covers
  <2> QED
    BY <2>2, <1>1
<1> QED
  BY <1>4, <1>5, <1>6, <1>7, <1>8 DEF f, r

-----------------------------------------------------------------------------
(* The dictionary.                                                         *)

(* k was put in last.                                                      *)
IsLast(places, k) ==
  k \in KeysOf(places) /\ \A j \in KeysOf(places) : places[j] <= places[k]

(* A new key comes last.                                                   *)
LEMMA EnteredIs ==
  ASSUME Numbered(place), NEW k \in Keys
  PROVE  /\ Numbered(Entered(k))
         /\ KeysOf(Entered(k)) = KeysOf(place) \cup {k}
         /\ place[k] # 0 => Entered(k) = place
         /\ place[k] = 0 => IsLast(Entered(k), k)
<1>1. CASE place[k] # 0
  BY <1>1 DEF Entered, KeysOf
<1>2. CASE place[k] = 0
  <2> DEFINE T == KeysOf(place)
             n == Cardinality(T)
  <2>1. /\ place \in [Keys -> Nat] /\ IsFiniteSet(T) /\ k \notin T
        /\ \A j \in T : place[j] \in 1 .. n
        /\ \A i, j \in T : place[i] = place[j] => i = j
    BY <1>2 DEF Numbered, KeysOf
  <2>2. n \in Nat
    BY <2>1, FS_CardinalityType
  <2>3. IsFiniteSet(T \cup {k}) /\ Cardinality(T \cup {k}) = n + 1
    BY <2>1, FS_AddElement
  <2>4. Entered(k) = [place EXCEPT ![k] = n + 1]
    BY <1>2 DEF Entered
  <2> HIDE DEF n
  <2>5. /\ Entered(k) \in [Keys -> Nat] /\ Entered(k)[k] = n + 1
        /\ \A j \in Keys : j # k => Entered(k)[j] = place[j]
    BY <2>1, <2>2, <2>4
  <2>6. KeysOf(Entered(k)) = T \cup {k}
    BY <2>2, <2>5 DEF KeysOf
  <2>7. T \subseteq Keys
    BY DEF KeysOf
  <2>8. \A j \in T \cup {k} : Entered(k)[j] \in 1 .. n + 1 /\ Entered(k)[j] <= n + 1
    BY <2>1, <2>2, <2>5, <2>7
  <2>9. \A i, j \in T \cup {k} : Entered(k)[i] = Entered(k)[j] => i = j
    BY <2>1, <2>2, <2>5, <2>7
  <2>10. Numbered(Entered(k))
    BY <2>3, <2>5, <2>6, <2>8, <2>9 DEF Numbered
  <2>11. IsLast(Entered(k), k)
    BY <2>5, <2>6, <2>8 DEF IsLast
  <2> QED
    BY <1>2, <2>6, <2>10, <2>11
<1> QED
  BY <1>1, <1>2

(* What is left keeps its order and is numbered again.                     *)
LEMMA WithoutIs ==
  ASSUME NEW places, Numbered(places), NEW gone
  PROVE  /\ Numbered(Without(places, gone))
         /\ KeysOf(Without(places, gone)) = KeysOf(places) \ gone
         /\ \A k \in Keys \ gone : IsLast(places, k) => IsLast(Without(places, gone), k)
<1> DEFINE T == KeysOf(places)
           L == T \ gone
           ahead == [k \in L |-> {j \in L : places[j] < places[k]}]
           next == Without(places, gone)
<1>1. /\ places \in [Keys -> Nat] /\ IsFiniteSet(T) /\ T \subseteq Keys
      /\ \A i, j \in T : places[i] = places[j] => i = j
      /\ \A k \in Keys : k \in T <=> places[k] # 0
  BY DEF Numbered, KeysOf
<1>2. IsFiniteSet(L) /\ L \subseteq Keys
  <2>1. L \in SUBSET T
    OBVIOUS
  <2> QED
    BY <2>1, <1>1, FS_Subset
<1>3. IsOrder(L, ahead)
  <2>1. ahead \in [L -> SUBSET L]
    OBVIOUS
  <2>2. \A i, j \in L : j \in ahead[i] <=> places[j] < places[i]
    OBVIOUS
  <2>3. \A i \in L : places[i] \in Nat
    BY <1>1
  <2>4. \A i, j \in L : places[i] = places[j] => i = j
    BY <1>1
  <2> HIDE DEF L, ahead
  <2> QED
    BY <2>1, <2>2, <2>3, <2>4, <1>2 DEF IsOrder
<1>4. ASSUME NEW k \in L
      PROVE  next[k] = Rank(ahead, k)
  <2>1. next[k] = Cardinality({j \in L : places[j] <= places[k]})
    BY <1>1 DEF Without
  <2>2. {j \in L : places[j] <= places[k]} = ahead[k] \cup {k}
    BY <1>1
  <2>3. k \notin ahead[k] /\ ahead[k] \in SUBSET L
    BY <1>1
  <2>4. IsFiniteSet(ahead[k])
    BY <2>3, <1>2, FS_Subset
  <2>5. Cardinality(ahead[k] \cup {k}) = Cardinality(ahead[k]) + 1
    BY <2>3, <2>4, FS_AddElement
  <2> QED
    BY <2>1, <2>2, <2>5 DEF Rank
<1>5. \A k \in Keys : k \notin L => next[k] = 0
  BY <1>1 DEF Without
<1>6. /\ Cardinality(L) \in Nat
      /\ \A k \in L : Rank(ahead, k) \in 1 .. Cardinality(L)
      /\ \A i \in L : \A j \in ahead[i] : Rank(ahead, j) < Rank(ahead, i)
  BY <1>3, RanksAreRanks
<1>7. \A k \in L : next[k] \in 1 .. Cardinality(L)
  BY <1>4, <1>6
<1>8. next = [k \in Keys |-> next[k]]
  BY DEF Without
<1>9. next \in [Keys -> Nat]
  <2> HIDE DEF next, L
  <2>1. \A k \in Keys : next[k] \in Nat
    BY <1>5, <1>6, <1>7
  <2> QED
    BY <1>8, <2>1
<1>10. KeysOf(next) = L
  <2> HIDE DEF next, L
  <2>1. \A k \in L : next[k] # 0
    BY <1>6, <1>7
  <2> QED
    BY <1>2, <1>5, <2>1 DEF KeysOf
<1>11. ASSUME NEW i \in L, NEW j \in L
       PROVE  /\ places[i] < places[j] => next[i] < next[j]
              /\ next[i] = next[j] => i = j
  <2>1. places[i] < places[j] => next[i] < next[j]
    BY <1>4, <1>6
  <2>2. places[j] < places[i] => next[j] < next[i]
    BY <1>4, <1>6
  <2>3. next[i] \in Nat /\ next[j] \in Nat /\ places[i] \in Nat /\ places[j] \in Nat
    BY <1>1, <1>2, <1>9
  <2> HIDE DEF next
  <2> QED
    BY <2>1, <2>2, <2>3, <1>1
<1> HIDE DEF next, L, ahead
<1>12. Numbered(next)
  BY <1>2, <1>7, <1>9, <1>10, <1>11 DEF Numbered
<1>13. ASSUME NEW k \in Keys \ gone, IsLast(places, k)
       PROVE  IsLast(next, k)
  <2>1. k \in L
    BY <1>13 DEF IsLast, L
  <2>2. ASSUME NEW j \in L
        PROVE  next[j] <= next[k]
    <3>1. places[j] <= places[k] /\ places[j] \in Nat /\ places[k] \in Nat
      BY <1>1, <1>2, <1>13, <2>1 DEF IsLast, L
    <3>2. next[j] \in Nat /\ next[k] \in Nat
      BY <1>2, <1>9, <2>1
    <3>3. CASE places[j] < places[k]
      BY <3>2, <3>3, <1>11, <2>1
    <3>4. CASE places[j] = places[k]
      <4>1. j = k
        BY <3>4, <2>1, <1>1 DEF L
      <4> QED
        BY <4>1, <3>2
    <3> QED
      BY <3>1, <3>3, <3>4
  <2> QED
    BY <2>1, <2>2, <1>10 DEF IsLast
<1> QED
  BY <1>10, <1>12, <1>13 DEF next, L

(* Cutting at max_keys leaves no more than that, and the last one always.  *)
LEMMA ShortenedIs ==
  ASSUME NEW places, Numbered(places)
  PROVE  /\ Numbered(Shortened(places))
         /\ KeysOf(Shortened(places)) \subseteq KeysOf(places)
         /\ Cardinality(KeysOf(Shortened(places))) <= MaxKeys
         /\ \A k \in Keys : IsLast(places, k) => k \in KeysOf(Shortened(places))
<1> DEFINE T == KeysOf(places)
           n == Cardinality(T)
           gone == {k \in Keys : places[k] <= n - MaxKeys}
           L == T \ gone
<1>1. /\ places \in [Keys -> Nat] /\ IsFiniteSet(T) /\ T \subseteq Keys
      /\ \A i, j \in T : places[i] = places[j] => i = j
      /\ \A k \in T : places[k] \in 1 .. n
  BY DEF Numbered, KeysOf
<1>2. n \in Nat /\ MaxKeys \in Nat \ {0}
  BY <1>1, FS_CardinalityType, LimitsBounds
<1>3. Numbered(Shortened(places)) /\ KeysOf(Shortened(places)) = L
  BY WithoutIs DEF Shortened
<1>4. ASSUME n <= MaxKeys
      PROVE  Cardinality(L) <= MaxKeys
  <2>1. L \in SUBSET T
    OBVIOUS
  <2>2. IsFiniteSet(L) /\ Cardinality(L) <= n
    BY <2>1, <1>1, FS_Subset
  <2>3. Cardinality(L) \in Nat
    BY <2>2, FS_CardinalityType
  <2> HIDE DEF L, n
  <2> QED
    BY <2>2, <2>3, <1>2, <1>4
<1>5. ASSUME n > MaxKeys
      PROVE  Cardinality(L) <= MaxKeys
  <2> DEFINE low == n - MaxKeys + 1
             f == [k \in L |-> places[k]]
  <2>1. low \in Nat /\ low <= n
    BY <1>2, <1>5
  <2>2. \A k \in L : places[k] \in low .. n
    <3> HIDE DEF n
    <3> QED
      BY <1>1, <1>2
  <2>3. f \in Injection(L, low .. n)
    <3>1. f \in [L -> low .. n]
      BY <2>2
    <3>2. \A i, j \in L : f[i] = f[j] => i = j
      BY <1>1
    <3> HIDE DEF f, L, low
    <3> QED
      BY <3>1, <3>2 DEF Injection, IsInjective
  <2> HIDE DEF f, L, n
  <2>4. low \in Int /\ n \in Int
    BY <2>1, <1>2
  <2>5. IsFiniteSet(low .. n) /\ Cardinality(low .. n) = IF low > n THEN 0 ELSE n - low + 1
    <3> HIDE DEF low
    <3> QED
      BY <2>4, FS_Interval
  <2>6. Cardinality(L) <= Cardinality(low .. n)
    BY <2>3, <2>5, FS_Injection
  <2>7. Cardinality(low .. n) = MaxKeys
    BY <2>1, <2>5, <1>2
  <2> QED
    BY <2>6, <2>7
<1>6. Cardinality(L) <= MaxKeys
  BY <1>2, <1>4, <1>5
<1>7. ASSUME NEW k \in Keys, IsLast(places, k)
      PROVE  k \in L
  <2>1. k \in T /\ places[k] \in 1 .. n /\ \A j \in T : places[j] <= places[k]
    BY <1>1, <1>7 DEF IsLast
  <2>2. SUFFICES ASSUME places[k] <= n - MaxKeys
                 PROVE  FALSE
    BY <2>1
  <2> DEFINE f == [j \in T |-> places[j]]
             m == places[k]
  <2>3. f \in Injection(T, 1 .. m)
    <3>1. \A j \in T : places[j] \in 1 .. m
      BY <2>1, <1>1
    <3>2. \A i, j \in T : f[i] = f[j] => i = j
      BY <1>1
    <3>3. f \in [T -> 1 .. m]
      BY <3>1
    <3> HIDE DEF f, T, m
    <3> QED
      BY <3>2, <3>3 DEF Injection, IsInjective
  <2>4. m \in Nat
    BY <2>1
  <2> HIDE DEF f, m
  <2>5. IsFiniteSet(1 .. m) /\ Cardinality(1 .. m) = m
    BY <2>4, FS_Interval
  <2>6. n <= m
    BY <2>3, <2>5, FS_Injection
  <2> QED
    BY <2>2, <2>4, <2>6, <1>2 DEF m
<1> QED
  BY <1>3, <1>6, <1>7

(* _record: the table stays in its bounds, the key counted is there, of    *)
(* the others each has the count it had or none, and one that runs is      *)
(* thrown away only if every key left has one running.                     *)
LEMMA RecordIs ==
  ASSUME LimitsInv, NEW k \in Keys, Record(k)
  PROVE  /\ Numbered(place') /\ Cardinality(KeysOf(place')) <= MaxKeys
         /\ events' \in [Keys -> Ages]
         /\ \A j \in Keys : place'[j] = 0 => events'[j] = <<>>
         /\ place'[k] # 0 /\ events'[k] = <<0>> \o events[k]
         /\ \A j \in Keys \ {k} : events'[j] \in {events[j], <<>>}
         /\ (\E j \in Keys : events[j] # <<>> /\ place'[j] = 0)
              => \A j \in KeysOf(place') : events'[j] # <<>>
<1> DEFINE evts == [events EXCEPT ![k] = <<0>> \o @]
           fresh == Without(Entered(k), {j \in Keys : evts[j] = <<>>})
           full == Cardinality(KeysOf(Entered(k))) > MaxKeys
           new == <<0>> \o events[k]
<1>1. /\ Numbered(place) /\ events \in [Keys -> Ages]
      /\ Cardinality(KeysOf(place)) <= MaxKeys
      /\ \A j \in Keys : place[j] = 0 => events[j] = <<>>
  BY DEF LimitsInv, LimitsTypeOK
<1>2. /\ place' = IF full THEN Shortened(fresh) ELSE Entered(k)
      /\ events' = [j \in Keys |-> IF place'[j] # 0 THEN evts[j] ELSE <<>>]
  BY DEF Record, Trimmed
<1>3. new \in Ages /\ new # <<>> /\ <<>> \in Ages
  BY <1>1, NewEvent, LimitsBounds
<1>4. /\ evts \in [Keys -> Ages] /\ evts[k] = new
      /\ \A j \in Keys \ {k} : evts[j] = events[j]
  <2> HIDE DEF new
  <2>1. evts = [events EXCEPT ![k] = new]
    BY DEF new
  <2> HIDE DEF evts
  <2> QED
    BY <1>1, <1>3, <2>1
<1>5. /\ Numbered(Entered(k)) /\ KeysOf(Entered(k)) = KeysOf(place) \cup {k}
      /\ place[k] # 0 => Entered(k) = place
      /\ place[k] = 0 => IsLast(Entered(k), k)
  BY <1>1, EnteredIs
<1> HIDE DEF evts, new
<1>6. /\ Numbered(fresh)
      /\ KeysOf(fresh) = KeysOf(Entered(k)) \ {j \in Keys : evts[j] = <<>>}
      /\ k \notin {j \in Keys : evts[j] = <<>>}
      /\ \A j \in Keys \ {i \in Keys : evts[i] = <<>>} :
           IsLast(Entered(k), j) => IsLast(fresh, j)
  BY <1>3, <1>4, <1>5, WithoutIs
<1>7. CASE full
  <2>1. place[k] = 0
    <3>1. SUFFICES ASSUME place[k] # 0
                   PROVE  FALSE
      OBVIOUS
    <3>2. Cardinality(KeysOf(place)) > MaxKeys
      BY <3>1, <1>5, <1>7
    <3>3. IsFiniteSet(KeysOf(place)) /\ Cardinality(KeysOf(place)) \in Nat
      BY <1>1, FS_CardinalityType DEF Numbered
    <3> QED
      BY <3>2, <3>3, <1>1, LimitsBounds
  <2>2. IsLast(fresh, k)
    BY <2>1, <1>5, <1>6
  <2> HIDE DEF fresh
  <2>3. place' = Shortened(fresh)
    BY <1>2, <1>7
  <2>4. /\ Numbered(place') /\ Cardinality(KeysOf(place')) <= MaxKeys
        /\ KeysOf(place') \subseteq KeysOf(fresh) /\ k \in KeysOf(place')
    BY <2>2, <2>3, <1>6, ShortenedIs
  <2>5. \A j \in KeysOf(place') : j \in Keys /\ place'[j] # 0 /\ evts[j] # <<>>
    BY <2>4, <1>6 DEF KeysOf
  <2>6. \A j \in KeysOf(place') : events'[j] # <<>>
    BY <2>5, <1>2
  <2>7. events' \in [Keys -> Ages]
    BY <1>2, <1>3, <1>4
  <2>8. place'[k] # 0 /\ events'[k] = new
    BY <2>4, <1>2, <1>4 DEF KeysOf
  <2>9. \A j \in Keys \ {k} : events'[j] \in {events[j], <<>>}
    BY <1>2, <1>4
  <2>10. \A j \in Keys : place'[j] = 0 => events'[j] = <<>>
    BY <1>2
  <2> QED
    BY <2>4, <2>6, <2>7, <2>8, <2>9, <2>10 DEF new
<1>8. CASE ~full
  <2>1. place' = Entered(k)
    BY <1>2, <1>8
  <2>2. Numbered(place') /\ Cardinality(KeysOf(place')) <= MaxKeys
    <3>1. IsFiniteSet(KeysOf(Entered(k)))
      BY <1>5 DEF Numbered
    <3>2. Cardinality(KeysOf(Entered(k))) \in Nat
      BY <3>1, FS_CardinalityType
    <3> QED
      BY <3>2, <2>1, <1>5, <1>8, LimitsBounds
  <2>3. \A j \in Keys : place'[j] = 0 => place[j] = 0 /\ j # k
    BY <2>1, <1>5 DEF KeysOf
  <2>4. place'[k] # 0 /\ events'[k] = new
    BY <2>3, <1>2, <1>4
  <2>5. events' \in [Keys -> Ages]
    BY <1>2, <1>3, <1>4
  <2>6. \A j \in Keys \ {k} : events'[j] \in {events[j], <<>>}
    BY <1>2, <1>4
  <2>7. \A j \in Keys : place'[j] = 0 => events'[j] = <<>>
    BY <1>2
  <2>8. ~ \E j \in Keys : events[j] # <<>> /\ place'[j] = 0
    BY <2>3, <1>1
  <2> QED
    BY <2>2, <2>4, <2>5, <2>6, <2>7, <2>8 DEF new
<1> QED
  BY <1>7, <1>8

-----------------------------------------------------------------------------
(* The attempts, and the steps.                                            *)

LEMMA AttemptsCount ==
  ASSUME NEW at, NEW k
  PROVE  /\ IsFiniteSet(Wrong(at, k)) /\ Cardinality(Wrong(at, k)) \in Nat
         /\ IsFiniteSet(Pending(at, k)) /\ Cardinality(Pending(at, k)) \in Nat
         /\ Cardinality(Wrong(at, k)) <= Cardinality(Pending(at, k))
         /\ Cardinality(Pending(at, k)) <= Cardinality(Attempts)
<1>1. Pending(at, k) \in SUBSET Attempts /\ Wrong(at, k) \in SUBSET Pending(at, k)
  BY DEF Wrong, Pending
<1>2. /\ IsFiniteSet(Pending(at, k))
      /\ Cardinality(Pending(at, k)) <= Cardinality(Attempts)
  BY <1>1, LimitsBounds, FS_Subset
<1>3. /\ IsFiniteSet(Wrong(at, k))
      /\ Cardinality(Wrong(at, k)) <= Cardinality(Pending(at, k))
  BY <1>1, <1>2, FS_Subset
<1> QED
  BY <1>2, <1>3, FS_CardinalityType

(* What is thrown away or recorded is still covered.                       *)
LEMMA RecordCovers ==
  ASSUME LimitsInv, NEW k \in Keys, Record(k),
         NEW history \in [Keys -> Ages], NEW w \in [Keys -> Nat],
         Covers(<< 0 >> \o events[k], w[k], history[k]),
         \A j \in Keys \ {k} : Covers(events[j], w[j], history[j])
  PROVE  /\ StillCounted(history) \in [Keys -> Ages]
         /\ \A j \in Keys : Covers(events'[j], w[j], StillCounted(history)[j])
<1> DEFINE still == StillCounted(history)
<1>1. \A j \in Keys :
        still[j] = IF events[j] # <<>> /\ events'[j] = <<>> THEN <<>> ELSE history[j]
  BY DEF StillCounted
<1>2. still = [j \in Keys |-> still[j]]
  BY DEF StillCounted
<1> HIDE DEF still
<1>3. still \in [Keys -> Ages]
  BY <1>1, <1>2, LimitsBounds
<1>4. Covers(events'[k], w[k], still[k])
  <2>1. events'[k] = <<0>> \o events[k] /\ events[k] \in Ages
    BY RecordIs DEF LimitsInv, LimitsTypeOK
  <2>2. events'[k] # <<>>
    BY <2>1, NewEvent
  <2> QED
    BY <2>1, <2>2, <1>1
<1>5. ASSUME NEW j \in Keys \ {k}
      PROVE  Covers(events'[j], w[j], still[j])
  <2>1. events'[j] \in {events[j], <<>>}
    BY RecordIs
  <2>2. CASE events[j] # <<>> /\ events'[j] = <<>>
    <3>1. still[j] = <<>>
      BY <2>2, <1>1
    <3> QED
      BY <3>1 DEF Covers
  <2>3. CASE ~(events[j] # <<>> /\ events'[j] = <<>>)
    <3>1. still[j] = history[j] /\ events'[j] = events[j]
      BY <2>1, <2>3, <1>1
    <3> QED
      BY <3>1
  <2> QED
    BY <2>2, <2>3
<1> QED
  BY <1>3, <1>4, <1>5 DEF still

LEMMA LimitsStart == LimitsInit => LimitsInv
<1> SUFFICES ASSUME LimitsInit
             PROVE  LimitsInv
  OBVIOUS
<1>1. KeysOf(place) = {} /\ IsFiniteSet({}) /\ Cardinality({}) = 0
  BY FS_EmptySet DEF LimitsInit, KeysOf
<1>2. LimitsTypeOK
  BY <1>1, LimitsBounds DEF LimitsInit, LimitsTypeOK, Numbered, Waiting
<1>3. \A k \in Keys : Covers(events[k], Cardinality(Wrong(attempt, k)), spent[k])
  BY DEF LimitsInit, Covers
<1>4. \A k \in Keys : Pending(attempt, k) = {} /\ Len(events[k]) = 0
  BY LimitsBounds DEF LimitsInit, Pending, Waiting
<1>5. \A k \in Keys : Cardinality(Pending(attempt, k)) = 0
  BY <1>1, <1>4
<1>6. /\ \A k \in Keys : events[k] = <<>>
      /\ \A t \in Attempts : attempt[t] = Waiting
  BY DEF LimitsInit
<1> QED
  BY <1>1, <1>2, <1>3, <1>4, <1>5, <1>6, LimitsBounds DEF LimitsInv

LEMMA AskInv ==
  ASSUME LimitsInv, NEW k \in Keys, Ask(k)
  PROVE  LimitsInv'
<1> DEFINE history == [spent EXCEPT ![k] = <<0>> \o @]
           w == [j \in Keys |-> 0]
<1>1. /\ LimitsTypeOK /\ use = "questions" /\ UNCHANGED <<use, attempt>>
      /\ Record(k) /\ spent' = StillCounted(history) /\ Len(events[k]) < Limit
      /\ \A t \in Attempts : attempt[t] = Waiting
      /\ \A j \in Keys : Len(events[j]) <= Limit
      /\ \A j \in Keys : Covers(events[j], Cardinality(Wrong(attempt, j)), spent[j])
  BY DEF LimitsInv, Ask, Allowed
<1>2. events \in [Keys -> Ages] /\ spent \in [Keys -> Ages]
  BY <1>1 DEF LimitsTypeOK
<1>3. \A j \in Keys : Cardinality(Wrong(attempt, j)) = 0
  <2>1. \A j \in Keys : Wrong(attempt, j) = {}
    BY <1>1 DEF Wrong, Waiting
  <2> QED
    BY <2>1, FS_EmptySet
<1>4. \A j \in Keys : Covers(events[j], 0, spent[j])
  BY <1>1, <1>3
<1>5. /\ <<0>> \o spent[k] \in Ages /\ <<0>> \o events[k] \in Ages
      /\ Len(<<0>> \o events[k]) = Len(events[k]) + 1
      /\ Covers(<<0>> \o events[k], 0, <<0>> \o spent[k])
  BY <1>2, <1>4, NewEvent, CoversOnward
<1>6. /\ history \in [Keys -> Ages] /\ history[k] = <<0>> \o spent[k]
      /\ \A j \in Keys \ {k} : history[j] = spent[j]
  <2> DEFINE new == <<0>> \o spent[k]
  <2>1. history = [spent EXCEPT ![k] = new] /\ new \in Ages
    BY <1>5
  <2> HIDE DEF new, history
  <2>2. history \in [Keys -> Ages] /\ history[k] = new
        /\ \A j \in Keys \ {k} : history[j] = spent[j]
    BY <2>1, <1>2
  <2> QED
    BY <2>2 DEF new
<1> HIDE DEF history
<1>7. w \in [Keys -> Nat] /\ \A j \in Keys : w[j] = 0
  OBVIOUS
<1> HIDE DEF w
<1>8. /\ StillCounted(history) \in [Keys -> Ages]
      /\ \A j \in Keys : Covers(events'[j], w[j], StillCounted(history)[j])
  <2>1. Covers(<<0>> \o events[k], w[k], history[k])
    BY <1>5, <1>6, <1>7
  <2>2. \A j \in Keys \ {k} : Covers(events[j], w[j], history[j])
    BY <1>4, <1>6, <1>7
  <2> QED
    BY <2>1, <2>2, <1>1, <1>6, <1>7, RecordCovers
<1>9. /\ Numbered(place') /\ Cardinality(KeysOf(place')) <= MaxKeys
      /\ events' \in [Keys -> Ages]
      /\ \A j \in Keys : place'[j] = 0 => events'[j] = <<>>
      /\ events'[k] = <<0>> \o events[k]
      /\ \A j \in Keys \ {k} : events'[j] \in {events[j], <<>>}
  BY <1>1, RecordIs
<1>10. \A j \in Keys : Len(events'[j]) <= Limit
  <2>1. Len(events'[k]) <= Limit
    BY <1>1, <1>2, <1>5, <1>9, LimitsBounds, AgesAre
  <2>2. ASSUME NEW j \in Keys \ {k}
        PROVE  Len(events'[j]) <= Limit
    <3>1. CASE events'[j] = events[j]
      BY <3>1, <1>1
    <3>2. CASE events'[j] = <<>>
      BY <3>2, LimitsBounds
    <3> QED
      BY <3>1, <3>2, <1>9
  <2> QED
    BY <2>1, <2>2
<1>11. LimitsTypeOK'
  BY <1>1, <1>8, <1>9 DEF LimitsTypeOK
<1>12. \A j \in Keys : Covers(events'[j], Cardinality(Wrong(attempt', j)), spent'[j])
  BY <1>1, <1>3, <1>7, <1>8
<1> QED
  BY <1>1, <1>9, <1>10, <1>11, <1>12 DEF LimitsInv

(* A step that changes an attempt and the history, but no event.           *)
LEMMA AttemptMoves ==
  ASSUME LimitsInv, NEW t \in Attempts, use = "sign-ins", UNCHANGED <<use, place, events>>,
         NEW a \in [pc : {"off", "verifying", "wrong", "right"}, key : Keys \cup {NoKey}],
         a.pc # "off" => a.key \in Keys,
         attempt' = [attempt EXCEPT ![t] = a], spent' \in [Keys -> Ages],
         \A k \in Keys : Covers(events[k], Cardinality(Wrong(attempt', k)), spent'[k]),
         \A k \in Keys : Len(events[k]) + Cardinality(Pending(attempt', k))
                           <= Limit - 1 + Cardinality(Attempts)
  PROVE  LimitsInv'
<1>1. LimitsTypeOK'
  <2>1. /\ attempt' \in [Attempts -> [pc : {"off", "verifying", "wrong", "right"},
                                      key : Keys \cup {NoKey}]]
        /\ \A u \in Attempts : attempt'[u].pc # "off" => attempt'[u].key \in Keys
    BY DEF LimitsInv, LimitsTypeOK
  <2> QED
    BY <2>1 DEF LimitsInv, LimitsTypeOK
<1>2. \A k \in Keys : Covers(events'[k], Cardinality(Wrong(attempt', k)), spent'[k])
  OBVIOUS
<1> QED
  BY <1>1, <1>2 DEF LimitsInv

LEMMA SignInInv ==
  ASSUME LimitsInv, NEW t \in Attempts, NEW k \in Keys, SignIn(t, k)
  PROVE  LimitsInv'
<1> DEFINE a == [pc |-> "verifying", key |-> k]
<1>1. /\ LimitsTypeOK /\ use = "sign-ins" /\ UNCHANGED <<use, place, events, spent>>
      /\ attempt[t] = Waiting /\ attempt' = [attempt EXCEPT ![t] = a]
      /\ Len(events[k]) < Limit
  BY DEF LimitsInv, SignIn, Allowed
<1>2. /\ \A j \in Keys : Wrong(attempt', j) = Wrong(attempt, j)
      /\ \A j \in Keys \ {k} : Pending(attempt', j) = Pending(attempt, j)
  BY <1>1 DEF Wrong, Pending, Waiting, LimitsTypeOK
<1>3. ASSUME NEW j \in Keys
      PROVE  Len(events[j]) + Cardinality(Pending(attempt', j))
               <= Limit - 1 + Cardinality(Attempts)
  <2>1. CASE j = k
    <3>1. /\ Cardinality(Pending(attempt', k)) <= Cardinality(Attempts)
          /\ Cardinality(Pending(attempt', k)) \in Nat
      BY AttemptsCount
    <3>2. Len(events[k]) \in Nat
      BY <1>1, AgesAre DEF LimitsTypeOK
    <3> QED
      BY <2>1, <3>1, <3>2, <1>1, LimitsBounds
  <2>2. CASE j # k
    BY <2>2, <1>1, <1>2 DEF LimitsInv
  <2> QED
    BY <2>1, <2>2
<1>4. \A j \in Keys : Covers(events[j], Cardinality(Wrong(attempt', j)), spent'[j])
  BY <1>1, <1>2 DEF LimitsInv
<1>5. spent' \in [Keys -> Ages]
  BY <1>1 DEF LimitsTypeOK
<1>6. /\ a \in [pc : {"off", "verifying", "wrong", "right"}, key : Keys \cup {NoKey}]
      /\ a.key \in Keys
  OBVIOUS
<1> HIDE DEF a
<1> QED
  BY <1>1, <1>3, <1>4, <1>5, <1>6, AttemptMoves

LEMMA VerifiedInv ==
  ASSUME LimitsInv, NEW t \in Attempts, WrongPassword(t) \/ RightPassword(t)
  PROVE  LimitsInv'
<1> DEFINE k == attempt[t].key
<1>1. /\ LimitsTypeOK /\ use = "sign-ins" /\ UNCHANGED <<use, place, events>>
      /\ attempt[t].pc = "verifying" /\ k \in Keys
      /\ events \in [Keys -> Ages] /\ spent \in [Keys -> Ages]
  BY DEF LimitsInv, LimitsTypeOK, WrongPassword, RightPassword, Waiting
<1>2. \A j \in Keys :
        /\ Covers(events[j], Cardinality(Wrong(attempt, j)), spent[j])
        /\ Len(events[j]) + Cardinality(Pending(attempt, j)) <= Limit - 1 + Cardinality(Attempts)
  BY <1>1 DEF LimitsInv
<1>3. CASE WrongPassword(t)
  <2> DEFINE a == [attempt[t] EXCEPT !.pc = "wrong"]
             new == <<0>> \o spent[k]
  <2>1. /\ attempt' = [attempt EXCEPT ![t] = a] /\ spent' = [spent EXCEPT ![k] = new]
    BY <1>3 DEF WrongPassword
  <2>2. /\ a \in [pc : {"off", "verifying", "wrong", "right"}, key : Keys \cup {NoKey}]
        /\ a.key = k /\ a.pc = "wrong"
    BY <1>1 DEF LimitsTypeOK
  <2>3. new \in Ages
    BY <1>1, NewEvent
  <2> HIDE DEF a, new
  <2>4. /\ spent' \in [Keys -> Ages] /\ spent'[k] = new
        /\ \A j \in Keys \ {k} : spent'[j] = spent[j]
    BY <2>1, <2>3, <1>1
  <2>5. /\ \A j \in Keys : Pending(attempt', j) = Pending(attempt, j)
        /\ \A j \in Keys \ {k} : Wrong(attempt', j) = Wrong(attempt, j)
        /\ Wrong(attempt', k) = Wrong(attempt, k) \cup {t} /\ t \notin Wrong(attempt, k)
    BY <2>1, <2>2, <1>1 DEF Wrong, Pending, LimitsTypeOK
  <2>6. Cardinality(Wrong(attempt', k)) = Cardinality(Wrong(attempt, k)) + 1
    <3>1. IsFiniteSet(Wrong(attempt, k))
      BY AttemptsCount
    <3> QED
      BY <2>5, <3>1, FS_AddElement
  <2>7. Covers(events[k], Cardinality(Wrong(attempt, k)) + 1, new)
    <3>1. Cardinality(Wrong(attempt, k)) \in Nat
      BY AttemptsCount
    <3> QED
      BY <3>1, <1>1, <1>2, CoversOnward DEF new
  <2>8. \A j \in Keys : Covers(events[j], Cardinality(Wrong(attempt', j)), spent'[j])
    BY <2>4, <2>5, <2>6, <2>7, <1>2
  <2>9. \A j \in Keys : Len(events[j]) + Cardinality(Pending(attempt', j))
                          <= Limit - 1 + Cardinality(Attempts)
    BY <2>5, <1>2
  <2> QED
    BY <2>1, <2>2, <2>4, <2>8, <2>9, <1>1, AttemptMoves
<1>4. CASE RightPassword(t)
  <2> DEFINE a == [attempt[t] EXCEPT !.pc = "right"]
  <2>1. attempt' = [attempt EXCEPT ![t] = a] /\ spent' = spent
    BY <1>4 DEF RightPassword
  <2>2. /\ a \in [pc : {"off", "verifying", "wrong", "right"}, key : Keys \cup {NoKey}]
        /\ a.key = k /\ a.pc = "right"
    BY <1>1 DEF LimitsTypeOK
  <2> HIDE DEF a
  <2>3. /\ \A j \in Keys : Wrong(attempt', j) = Wrong(attempt, j)
        /\ \A j \in Keys : Pending(attempt', j) \in SUBSET Pending(attempt, j)
    BY <2>1, <2>2, <1>1 DEF Wrong, Pending, LimitsTypeOK
  <2>4. \A j \in Keys : Covers(events[j], Cardinality(Wrong(attempt', j)), spent'[j])
    BY <2>1, <2>3, <1>2
  <2>5. ASSUME NEW j \in Keys
        PROVE  Len(events[j]) + Cardinality(Pending(attempt', j))
                 <= Limit - 1 + Cardinality(Attempts)
    <3>1. /\ Cardinality(Pending(attempt', j)) <= Cardinality(Pending(attempt, j))
      BY <2>3, AttemptsCount, FS_Subset
    <3>2. /\ Cardinality(Pending(attempt', j)) \in Nat /\ Cardinality(Pending(attempt, j)) \in Nat
          /\ Len(events[j]) \in Nat
      BY <1>1, AttemptsCount, AgesAre
    <3> QED
      BY <3>1, <3>2, <1>2, LimitsBounds
  <2> QED
    BY <2>1, <2>2, <2>4, <2>5, <1>1, AttemptMoves
<1> QED
  BY <1>3, <1>4

LEMMA RecordFailureInv ==
  ASSUME LimitsInv, NEW t \in Attempts, RecordFailure(t)
  PROVE  LimitsInv'
<1> DEFINE k == attempt[t].key
           w == [j \in Keys |-> Cardinality(Wrong(attempt', j))]
<1>1. /\ LimitsTypeOK /\ use = "sign-ins" /\ use' = use
      /\ attempt[t].pc = "wrong" /\ k \in Keys
      /\ Record(k) /\ spent' = StillCounted(spent)
      /\ attempt' = [attempt EXCEPT ![t] = Waiting]
      /\ events \in [Keys -> Ages] /\ spent \in [Keys -> Ages]
  BY DEF LimitsInv, LimitsTypeOK, RecordFailure, Waiting
<1>2. \A j \in Keys :
        /\ Covers(events[j], Cardinality(Wrong(attempt, j)), spent[j])
        /\ Len(events[j]) + Cardinality(Pending(attempt, j)) <= Limit - 1 + Cardinality(Attempts)
  BY <1>1 DEF LimitsInv
<1>3. /\ \A j \in Keys \ {k} : /\ Wrong(attempt', j) = Wrong(attempt, j)
                               /\ Pending(attempt', j) = Pending(attempt, j)
      /\ Wrong(attempt', k) = Wrong(attempt, k) \ {t} /\ t \in Wrong(attempt, k)
      /\ Pending(attempt', k) = Pending(attempt, k) \ {t} /\ t \in Pending(attempt, k)
  BY <1>1 DEF Wrong, Pending, Waiting, LimitsTypeOK
<1>4. /\ Cardinality(Wrong(attempt', k)) = Cardinality(Wrong(attempt, k)) - 1
      /\ Cardinality(Pending(attempt', k)) = Cardinality(Pending(attempt, k)) - 1
  <2>1. /\ IsFiniteSet(Wrong(attempt, k)) /\ Cardinality(Wrong(attempt, k)) \in Nat
        /\ IsFiniteSet(Pending(attempt, k)) /\ Cardinality(Pending(attempt, k)) \in Nat
    BY AttemptsCount
  <2>2. /\ Cardinality(Wrong(attempt, k) \ {t}) = Cardinality(Wrong(attempt, k)) - 1
        /\ Cardinality(Pending(attempt, k) \ {t}) = Cardinality(Pending(attempt, k)) - 1
    BY <2>1, <1>3, FS_RemoveElement
  <2> QED
    BY <2>2, <1>3
<1>5. \A j \in Keys : /\ Cardinality(Wrong(attempt', j)) \in Nat
                      /\ Cardinality(Wrong(attempt, j)) \in Nat
                      /\ Cardinality(Pending(attempt', j)) \in Nat
                      /\ Cardinality(Pending(attempt, j)) \in Nat
                      /\ Len(events[j]) \in Nat
  BY <1>1, AttemptsCount, AgesAre
<1>6. w \in [Keys -> Nat] /\ \A j \in Keys : w[j] = Cardinality(Wrong(attempt', j))
  BY <1>5
<1> HIDE DEF w, k
<1>7. Covers(<<0>> \o events[k], w[k], spent[k])
  <2>1. /\ Cardinality(Wrong(attempt, k)) \in Nat
        /\ Cardinality(Wrong(attempt', k)) \in Nat
    BY <1>1, <1>5
  <2>2. Cardinality(Wrong(attempt, k)) # 0
    BY <2>1, <1>4
  <2>3. /\ events[k] \in Ages /\ spent[k] \in Ages
        /\ Covers(events[k], Cardinality(Wrong(attempt, k)), spent[k])
        /\ w[k] = Cardinality(Wrong(attempt, k)) - 1
    BY <1>1, <1>2, <1>4, <1>6
  <2> QED
    BY <2>1, <2>2, <2>3, CoversOnward
<1>8. /\ StillCounted(spent) \in [Keys -> Ages]
      /\ \A j \in Keys : Covers(events'[j], w[j], StillCounted(spent)[j])
  <2>1. \A j \in Keys \ {k} : Covers(events[j], w[j], spent[j])
    BY <1>2, <1>3, <1>6
  <2> QED
    BY <2>1, <1>1, <1>6, <1>7, RecordCovers
<1>9. /\ Numbered(place') /\ Cardinality(KeysOf(place')) <= MaxKeys
      /\ events' \in [Keys -> Ages]
      /\ \A j \in Keys : place'[j] = 0 => events'[j] = <<>>
      /\ events'[k] = <<0>> \o events[k]
      /\ \A j \in Keys \ {k} : events'[j] \in {events[j], <<>>}
  BY <1>1, RecordIs
<1>10. ASSUME NEW j \in Keys
       PROVE  Len(events'[j]) + Cardinality(Pending(attempt', j))
                <= Limit - 1 + Cardinality(Attempts)
  <2>1. CASE j = k
    <3>1. Len(events'[k]) = Len(events[k]) + 1
      BY <1>1, <1>9, NewEvent
    <3>2. Len(events[k]) + Cardinality(Pending(attempt, k)) <= Limit - 1 + Cardinality(Attempts)
      BY <1>1, <1>2
    <3>3. /\ Len(events[k]) \in Nat /\ Cardinality(Pending(attempt, k)) \in Nat
          /\ Cardinality(Pending(attempt', k)) \in Nat
      BY <1>1, <1>5
    <3> QED
      BY <2>1, <3>1, <3>2, <3>3, <1>4, LimitsBounds
  <2>2. CASE j # k
    <3>1. Len(events'[j]) \in Nat /\ Len(events'[j]) <= Len(events[j])
      <4>1. Len(<<>>) = 0
        OBVIOUS
      <4> QED
        BY SMTT(40), <2>2, <4>1, <1>5, <1>9
    <3> QED
      BY <2>2, <3>1, <1>2, <1>3, <1>5, LimitsBounds
  <2> QED
    BY <2>1, <2>2
<1>11. LimitsTypeOK'
  <2>1. /\ attempt' \in [Attempts -> [pc : {"off", "verifying", "wrong", "right"},
                                      key : Keys \cup {NoKey}]]
        /\ \A u \in Attempts : attempt'[u].pc # "off" => attempt'[u].key \in Keys
    BY <1>1 DEF LimitsTypeOK, Waiting
  <2> QED
    BY <2>1, <1>1, <1>8, <1>9 DEF LimitsTypeOK
<1>12. \A j \in Keys : Covers(events'[j], Cardinality(Wrong(attempt', j)), spent'[j])
  BY <1>1, <1>6, <1>8
<1> QED
  BY <1>1, <1>9, <1>10, <1>11, <1>12 DEF LimitsInv

LEMMA ResetInv ==
  ASSUME LimitsInv, NEW t \in Attempts, Reset(t)
  PROVE  LimitsInv'
<1> DEFINE k == attempt[t].key
<1>1. /\ LimitsTypeOK /\ use = "sign-ins" /\ use' = use
      /\ attempt[t].pc = "right" /\ k \in Keys
      /\ place' = Without(place, {k})
      /\ events' = [events EXCEPT ![k] = <<>>] /\ spent' = [spent EXCEPT ![k] = <<>>]
      /\ attempt' = [attempt EXCEPT ![t] = Waiting]
      /\ events \in [Keys -> Ages] /\ spent \in [Keys -> Ages] /\ Numbered(place)
  BY DEF LimitsInv, LimitsTypeOK, Reset, Waiting
<1>2. /\ \A j \in Keys : /\ Wrong(attempt', j) = Wrong(attempt, j)
                         /\ Pending(attempt', j) = Pending(attempt, j)
  BY <1>1 DEF Wrong, Pending, Waiting, LimitsTypeOK
<1>3. /\ events' \in [Keys -> Ages] /\ spent' \in [Keys -> Ages]
      /\ events'[k] = <<>> /\ spent'[k] = <<>>
      /\ \A j \in Keys \ {k} : events'[j] = events[j] /\ spent'[j] = spent[j]
  BY <1>1, LimitsBounds
<1>4. Numbered(place') /\ KeysOf(place') = KeysOf(place) \ {k}
  BY <1>1, WithoutIs
<1>5. Cardinality(KeysOf(place')) <= MaxKeys
  <2>1. /\ IsFiniteSet(KeysOf(place)) /\ KeysOf(place') \in SUBSET KeysOf(place)
        /\ Cardinality(KeysOf(place)) <= MaxKeys
    BY <1>4 DEF LimitsInv, LimitsTypeOK, Numbered
  <2>2. /\ Cardinality(KeysOf(place')) <= Cardinality(KeysOf(place))
        /\ IsFiniteSet(KeysOf(place'))
    BY <2>1, FS_Subset
  <2>3. Cardinality(KeysOf(place')) \in Nat /\ Cardinality(KeysOf(place)) \in Nat
    BY <2>1, <2>2, FS_CardinalityType
  <2> QED
    BY <2>1, <2>2, <2>3, LimitsBounds
<1>6. \A j \in Keys : place'[j] = 0 => events'[j] = <<>>
  BY <1>3, <1>4 DEF LimitsInv, KeysOf
<1>7. \A j \in Keys : Covers(events'[j], Cardinality(Wrong(attempt', j)), spent'[j])
  <2>1. Covers(events'[k], Cardinality(Wrong(attempt', k)), spent'[k])
    BY <1>3 DEF Covers
  <2> QED
    BY <2>1, <1>2, <1>3 DEF LimitsInv
<1>8. ASSUME NEW j \in Keys
      PROVE  Len(events'[j]) + Cardinality(Pending(attempt', j))
               <= Limit - 1 + Cardinality(Attempts)
  <2>1. Len(events[j]) + Cardinality(Pending(attempt, j)) <= Limit - 1 + Cardinality(Attempts)
    BY <1>1 DEF LimitsInv
  <2>2. Len(events'[j]) \in Nat /\ Len(events'[j]) <= Len(events[j])
    <3>1. Len(<<>>) = 0 /\ Len(events[j]) \in Nat
      BY <1>1, AgesAre
    <3> QED
      BY <3>1, <1>3
  <2>3. /\ Len(events[j]) \in Nat /\ Cardinality(Pending(attempt, j)) \in Nat
    BY <1>1, AgesAre, AttemptsCount
  <2> QED
    BY <2>1, <2>2, <2>3, <1>2, LimitsBounds
<1>9. LimitsTypeOK'
  <2>1. /\ attempt' \in [Attempts -> [pc : {"off", "verifying", "wrong", "right"},
                                      key : Keys \cup {NoKey}]]
        /\ \A u \in Attempts : attempt'[u].pc # "off" => attempt'[u].key \in Keys
    BY <1>1 DEF LimitsTypeOK, Waiting
  <2> QED
    BY <2>1, <1>1, <1>3, <1>4 DEF LimitsTypeOK
<1> QED
  BY <1>1, <1>5, <1>6, <1>7, <1>8, <1>9 DEF LimitsInv

LEMMA RestartInv ==
  ASSUME LimitsInv, Restart
  PROVE  LimitsInv'
<1>1. KeysOf(place') = {} /\ IsFiniteSet({}) /\ Cardinality({}) = 0
  BY FS_EmptySet DEF Restart, KeysOf
<1>2. LimitsTypeOK'
  <2>1. Numbered(place')
    BY <1>1 DEF Restart, Numbered
  <2> QED
    BY <2>1, LimitsBounds DEF LimitsInv, Restart, LimitsTypeOK, Waiting
<1>3. \A k \in Keys : Covers(events'[k], Cardinality(Wrong(attempt', k)), spent'[k])
  BY DEF Restart, Covers
<1>4. \A k \in Keys : Pending(attempt', k) = {} /\ Len(events'[k]) = 0
  BY LimitsBounds DEF Restart, Pending, Waiting
<1>5. \A k \in Keys : Cardinality(Pending(attempt', k)) = 0
  BY <1>1, <1>4
<1>6. /\ \A k \in Keys : events'[k] = <<>>
      /\ \A t \in Attempts : attempt'[t] = Waiting
  BY DEF Restart
<1> QED
  BY <1>1, <1>2, <1>3, <1>4, <1>5, <1>6, LimitsBounds DEF LimitsInv

LEMMA LimitsTickInv ==
  ASSUME LimitsInv, Tick
  PROVE  LimitsInv'
<1>1. /\ events \in [Keys -> Ages] /\ spent \in [Keys -> Ages]
      /\ UNCHANGED <<use, place, attempt>>
      /\ events' = [k \in Keys |-> Older(events[k])]
      /\ spent' = [k \in Keys |-> Older(spent[k])]
  BY DEF LimitsInv, LimitsTypeOK, Tick
<1>2. events' \in [Keys -> Ages] /\ spent' \in [Keys -> Ages]
  BY <1>1, OlderAges
<1>3. \A k \in Keys : /\ Len(events'[k]) <= Len(events[k])
                      /\ Len(events'[k]) \in Nat /\ Len(events[k]) \in Nat
  BY <1>1, <1>2, OlderAges, AgesAre
<1>4. ASSUME NEW k \in Keys, place'[k] = 0
      PROVE  events'[k] = <<>>
  <2>1. events[k] = <<>>
    BY <1>1, <1>4 DEF LimitsInv
  <2>2. events'[k] \in Seq(0 .. Window - 1) /\ Len(events'[k]) = 0
    BY <2>1, <1>2, <1>3, AgesAre
  <2> QED
    BY <2>2
<1>5. \A k \in Keys : Covers(events'[k], Cardinality(Wrong(attempt', k)), spent'[k])
  BY <1>1, CoversOnward, AttemptsCount DEF LimitsInv
<1>6. LimitsTypeOK'
  BY <1>1, <1>2 DEF LimitsInv, LimitsTypeOK
<1>7. ASSUME NEW k \in Keys
      PROVE  IF use = "questions" THEN Len(events'[k]) <= Limit
             ELSE Len(events'[k]) + Cardinality(Pending(attempt, k))
                    <= Limit - 1 + Cardinality(Attempts)
  <2>1. Cardinality(Pending(attempt, k)) \in Nat
    BY AttemptsCount
  <2> QED
    BY <2>1, <1>3, LimitsBounds DEF LimitsInv
<1> QED
  BY <1>1, <1>4, <1>5, <1>6, <1>7 DEF LimitsInv

LEMMA LimitsStepInv ==
  ASSUME LimitsInv, [LimitsNext]_limitVars
  PROVE  LimitsInv'
<1>1. CASE UNCHANGED limitVars
  BY <1>1 DEF limitVars, LimitsInv, LimitsTypeOK
<1> QED
  BY <1>1, AskInv, SignInInv, VerifiedInv, RecordFailureInv, ResetInv, RestartInv,
     LimitsTickInv DEF LimitsNext

LEMMA LimitsHold == LimitsSpec => []LimitsInv
<1>1. LimitsInv /\ [LimitsNext]_limitVars => LimitsInv'
  BY LimitsStepInv
<1> QED
  BY <1>1, LimitsStart, PTL DEF LimitsSpec

(* For any keys, limit, window and table size and any number of sign-ins   *)
(* at once: no window holds more questions than the limit, nor more wrong  *)
(* passwords than one less and the attempts that may be under way.         *)
THEOREM LimitsAreKept == LimitsSpec => []WindowsHold
<1>1. LimitsInv => WindowsHold
  <2> SUFFICES ASSUME LimitsInv, NEW k \in Keys
               PROVE  Len(spent[k]) <=
                        IF use = "questions" THEN Limit ELSE Limit - 1 + Cardinality(Attempts)
    BY DEF WindowsHold
  <2> DEFINE w == Cardinality(Wrong(attempt, k))
  <2>1. events[k] \in Ages /\ spent[k] \in Ages /\ Covers(events[k], w, spent[k])
    BY DEF LimitsInv, LimitsTypeOK
  <2>2. /\ w \in Nat /\ w <= Cardinality(Pending(attempt, k))
        /\ Cardinality(Pending(attempt, k)) \in Nat
    BY AttemptsCount
  <2>3. /\ Len(spent[k]) <= Len(events[k]) + w
        /\ Len(spent[k]) \in Nat /\ Len(events[k]) \in Nat
    <3> HIDE DEF w
    <3> QED
      BY <2>1, <2>2, CoversOnward, AgesAre
  <2>4. CASE use = "questions"
    <3>1. Wrong(attempt, k) = {}
      BY <2>4 DEF LimitsInv, Wrong, Waiting
    <3>2. w = 0
      BY <3>1, FS_EmptySet
    <3> QED
      BY <2>3, <2>4, <3>2, LimitsBounds DEF LimitsInv
  <2>5. CASE use # "questions"
    <3>1. Len(events[k]) + Cardinality(Pending(attempt, k)) <= Limit - 1 + Cardinality(Attempts)
      BY <2>5 DEF LimitsInv
    <3> HIDE DEF w
    <3> QED
      BY <2>2, <2>3, <2>5, <3>1, LimitsBounds
  <2> QED
    BY <2>4, <2>5
<1> QED
  BY <1>1, LimitsHold, PTL

(* The table keeps within its bound, and but for a success or a restart a  *)
(* count that runs is thrown away only when every key left has one.        *)
THEOREM CountsAreKept == LimitsSpec => LiveCountsStay
<1> DEFINE Live == \A j \in KeysOf(place') : events'[j] # <<>>
           Thrown == \E k \in Keys : events[k] # <<>> /\ place'[k] = 0
           Step == /\ Cardinality(KeysOf(place')) <= MaxKeys
                   /\ Thrown => Restart \/ (\E t \in Attempts : Reset(t)) \/ Live
<1>1. ASSUME LimitsInv, [LimitsNext]_limitVars
      PROVE  [Step]_limitVars
  <2>1. Cardinality(KeysOf(place')) <= MaxKeys
    BY <1>1, LimitsStepInv DEF LimitsInv
  <2>2. \A k \in Keys : place[k] = 0 => events[k] = <<>>
    BY <1>1 DEF LimitsInv
  <2>3. ASSUME NEW k \in Keys, Record(k)
        PROVE  Thrown => Live
    BY <1>1, <2>3, RecordIs
  <2>4. place' = place => ~Thrown
    BY <2>2
  <2>5. CASE \E k \in Keys : Ask(k)
    BY <2>1, <2>3, <2>5 DEF Ask
  <2>6. ASSUME NEW t \in Attempts, RecordFailure(t)
        PROVE  Thrown => Live
    <3>1. attempt[t].key \in Keys
      BY <1>1, <2>6 DEF RecordFailure, LimitsInv, LimitsTypeOK
    <3> QED
      BY <3>1, <2>3, <2>6 DEF RecordFailure
  <2>7. CASE Tick \/ \E t \in Attempts :
               (\E k \in Keys : SignIn(t, k)) \/ WrongPassword(t) \/ RightPassword(t)
    <3>1. place' = place
      BY <2>7 DEF Tick, SignIn, WrongPassword, RightPassword
    <3> QED
      BY <3>1, <2>1, <2>4
  <2>8. CASE \E t \in Attempts : RecordFailure(t)
    BY <2>1, <2>6, <2>8
  <2> HIDE DEF Live, Thrown
  <2> QED
    BY <1>1, <2>1, <2>5, <2>7, <2>8 DEF LimitsNext
<1>2. LimitsInv /\ [LimitsNext]_limitVars => [Step]_limitVars
  BY <1>1
<1> QED
  BY <1>2, LimitsHold, PTL DEF LimitsSpec, LiveCountsStay

-----------------------------------------------------------------------------
(* Job output.                                                             *)

(* A text as a poller holds it: what came out of the bytes, in the order   *)
(* of their places.                                                        *)
Marks == [at : Nat, whole : BOOLEAN]

IsText(s) ==
  s \in Seq(Marks) /\ \A m, n \in DOMAIN s : m < n => s[m].at < s[n].at

MarksOf(s) == {s[n] : n \in DOMAIN s}

(* text[-4000:], element by element.                                       *)
LEMMA LastOfIs ==
  ASSUME NEW s \in Seq(Marks)
  PROVE  /\ LastOf(s) \in Seq(Marks)
         /\ Len(LastOf(s)) \in Nat /\ Len(LastOf(s)) <= Len(s)
         /\ Len(LastOf(s)) <= TailChars
         /\ Len(LastOf(s)) \in {Len(s), TailChars}
         /\ \A n \in 1 .. Len(LastOf(s)) : LastOf(s)[n] = s[Len(s) - Len(LastOf(s)) + n]
<1> DEFINE first == 1 + IF Len(s) > TailChars THEN Len(s) - TailChars ELSE 0
<1>1. Len(s) \in Nat /\ TailChars \in Nat \ {0} /\ \A i \in 1 .. Len(s) : s[i] \in Marks
  BY JobOutputAssumption
<1>2. /\ first \in Nat \ {0} /\ first <= Len(s) + 1
      /\ Len(s) - first + 1 = IF Len(s) > TailChars THEN TailChars ELSE Len(s)
  BY <1>1
<1>3. LastOf(s) = SubSeq(s, first, Len(s))
  BY DEF LastOf
<1> HIDE DEF first
<1>4. \A i \in first .. Len(s) : s[i] \in Marks
  BY <1>1, <1>2
<1>5. /\ LastOf(s) \in Seq(Marks)
      /\ Len(LastOf(s)) = IF first <= Len(s) THEN Len(s) - first + 1 ELSE 0
      /\ \A i \in 1 .. Len(s) - first + 1 : LastOf(s)[i] = s[first + i - 1]
  BY <1>1, <1>2, <1>3, <1>4, SubSeqProperties
<1>6. Len(LastOf(s)) = Len(s) - first + 1
  BY <1>1, <1>2, <1>5
<1>7. ASSUME NEW n \in 1 .. Len(LastOf(s))
      PROVE  LastOf(s)[n] = s[Len(s) - Len(LastOf(s)) + n]
  <2>1. first + n - 1 = Len(s) - Len(LastOf(s)) + n
    BY <1>1, <1>2, <1>6
  <2> QED
    BY <1>5, <1>6, <2>1
<1>8. /\ Len(LastOf(s)) \in Nat /\ Len(LastOf(s)) <= Len(s)
      /\ Len(LastOf(s)) <= TailChars
      /\ Len(LastOf(s)) \in {Len(s), TailChars}
  BY <1>1, <1>2, <1>6
<1> QED
  BY <1>5, <1>7, <1>8

(* The end of a text is that of what it ends with, and needs no more of it *)
(* than its own length.                                                    *)
LEMMA LastOfJoined ==
  ASSUME NEW s \in Seq(Marks), NEW t \in Seq(Marks)
  PROVE  /\ LastOf(s \o LastOf(t)) = LastOf(s \o t)
         /\ LastOf(LastOf(s) \o t) = LastOf(s \o t)
         /\ Len(t) >= TailChars => LastOf(s \o t) = LastOf(t)
<1> DEFINE u == s \o t
           v == s \o LastOf(t)
           w == LastOf(s) \o t
<1>1. Len(s) \in Nat /\ Len(t) \in Nat /\ TailChars \in Nat \ {0}
  BY JobOutputAssumption
<1>2. /\ u \in Seq(Marks) /\ Len(u) = Len(s) + Len(t)
      /\ \A i \in 1 .. Len(u) :
           u[i] = IF i <= Len(s) THEN s[i] ELSE t[i - Len(s)]
  BY ConcatProperties
<1>3. /\ LastOf(s) \in Seq(Marks) /\ Len(LastOf(s)) \in Nat
      /\ Len(LastOf(s)) <= Len(s) /\ Len(LastOf(s)) <= TailChars
      /\ Len(LastOf(s)) \in {Len(s), TailChars}
      /\ \A n \in 1 .. Len(LastOf(s)) : LastOf(s)[n] = s[Len(s) - Len(LastOf(s)) + n]
  BY LastOfIs
<1>4. /\ LastOf(t) \in Seq(Marks) /\ Len(LastOf(t)) \in Nat
      /\ Len(LastOf(t)) <= Len(t) /\ Len(LastOf(t)) <= TailChars
      /\ Len(LastOf(t)) \in {Len(t), TailChars}
      /\ \A n \in 1 .. Len(LastOf(t)) : LastOf(t)[n] = t[Len(t) - Len(LastOf(t)) + n]
  BY LastOfIs
<1>5. /\ v \in Seq(Marks) /\ Len(v) = Len(s) + Len(LastOf(t))
      /\ \A i \in 1 .. Len(v) :
           v[i] = IF i <= Len(s) THEN s[i] ELSE LastOf(t)[i - Len(s)]
  BY <1>4, ConcatProperties
<1>6. /\ w \in Seq(Marks) /\ Len(w) = Len(LastOf(s)) + Len(t)
      /\ \A i \in 1 .. Len(w) :
           w[i] = IF i <= Len(LastOf(s)) THEN LastOf(s)[i] ELSE t[i - Len(LastOf(s))]
  BY <1>3, ConcatProperties
<1> HIDE DEF u, v, w
<1>7. /\ LastOf(u) \in Seq(Marks) /\ Len(LastOf(u)) \in Nat
      /\ Len(LastOf(u)) <= Len(u) /\ Len(LastOf(u)) <= TailChars
      /\ Len(LastOf(u)) \in {Len(u), TailChars}
      /\ \A n \in 1 .. Len(LastOf(u)) : LastOf(u)[n] = u[Len(u) - Len(LastOf(u)) + n]
  BY <1>2, LastOfIs
<1>8. LastOf(v) = LastOf(u)
  <2>1. /\ LastOf(v) \in Seq(Marks) /\ Len(LastOf(v)) \in Nat
        /\ Len(LastOf(v)) <= Len(v) /\ Len(LastOf(v)) <= TailChars
        /\ Len(LastOf(v)) \in {Len(v), TailChars}
        /\ \A n \in 1 .. Len(LastOf(v)) : LastOf(v)[n] = v[Len(v) - Len(LastOf(v)) + n]
    BY <1>5, LastOfIs
  <2>2. Len(LastOf(v)) = Len(LastOf(u))
    BY <2>1, <1>1, <1>2, <1>5, <1>4, <1>7
  <2>3. ASSUME NEW n \in 1 .. Len(LastOf(v))
        PROVE  LastOf(v)[n] = LastOf(u)[n]
    <3> DEFINE i == Len(v) - Len(LastOf(v)) + n
               j == Len(u) - Len(LastOf(u)) + n
               cut == Len(t) - Len(LastOf(t))
    <3>1. LastOf(v)[n] = v[i] /\ LastOf(u)[n] = u[j]
      BY <2>1, <2>2, <1>7
    <3>2. /\ i \in 1 .. Len(v) /\ j \in 1 .. Len(u) /\ j = i + cut /\ cut \in Nat
          /\ (i > Len(s) \/ cut = 0)
      BY <2>1, <2>2, <1>1, <1>2, <1>5, <1>4, <1>7
    <3> HIDE DEF i, j
    <3>3. CASE i <= Len(s)
      <4>1. i = j
        BY <1>1, <3>2, <3>3
      <4>2. v[i] = s[i] /\ u[j] = s[i]
        BY <1>1, <1>2, <1>5, <3>2, <3>3, <4>1
      <4> QED
        BY <3>1, <4>2
    <3>4. CASE i > Len(s)
      <4>1. /\ i - Len(s) \in 1 .. Len(LastOf(t)) /\ ~(j <= Len(s)) /\ ~(i <= Len(s))
            /\ cut + (i - Len(s)) = j - Len(s)
        BY SMTT(60), <1>1, <1>5, <1>4, <3>2, <3>4
      <4>2. v[i] = LastOf(t)[i - Len(s)] /\ u[j] = t[j - Len(s)]
        BY <1>2, <1>5, <3>2, <4>1
      <4>3. LastOf(t)[i - Len(s)] = t[cut + (i - Len(s))]
        BY <1>4, <4>1
      <4> QED
        BY <3>1, <4>1, <4>2, <4>3
    <3> QED
      BY <1>1, <1>5, <3>2, <3>3, <3>4
  <2> QED
    BY <1>7, <2>1, <2>2, <2>3, SeqEqual
<1>9. LastOf(w) = LastOf(u)
  <2>1. /\ LastOf(w) \in Seq(Marks) /\ Len(LastOf(w)) \in Nat
        /\ Len(LastOf(w)) <= Len(w) /\ Len(LastOf(w)) <= TailChars
        /\ Len(LastOf(w)) \in {Len(w), TailChars}
        /\ \A n \in 1 .. Len(LastOf(w)) : LastOf(w)[n] = w[Len(w) - Len(LastOf(w)) + n]
    BY <1>6, LastOfIs
  <2>2. Len(LastOf(w)) = Len(LastOf(u))
    BY <2>1, <1>1, <1>2, <1>6, <1>3, <1>7
  <2>3. ASSUME NEW n \in 1 .. Len(LastOf(w))
        PROVE  LastOf(w)[n] = LastOf(u)[n]
    <3> DEFINE i == Len(w) - Len(LastOf(w)) + n
               j == Len(u) - Len(LastOf(u)) + n
               cut == Len(s) - Len(LastOf(s))
    <3>1. LastOf(w)[n] = w[i] /\ LastOf(u)[n] = u[j]
      BY <2>1, <2>2, <1>7
    <3>2. i \in 1 .. Len(w) /\ j \in 1 .. Len(u) /\ j = i + cut /\ cut \in Nat
      BY <2>1, <2>2, <1>1, <1>2, <1>6, <1>3, <1>7
    <3> HIDE DEF i, j
    <3>3. CASE i <= Len(LastOf(s))
      <4>1. i \in 1 .. Len(LastOf(s)) /\ j <= Len(s) /\ j = cut + i
        BY <1>1, <1>3, <3>2, <3>3
      <4>2. w[i] = LastOf(s)[i] /\ u[j] = s[j]
        BY <1>2, <1>6, <3>2, <3>3, <4>1
      <4>3. LastOf(s)[i] = s[cut + i]
        BY <1>3, <4>1
      <4> QED
        BY <3>1, <4>1, <4>2, <4>3
    <3>4. CASE i > Len(LastOf(s))
      <4>1. /\ ~(j <= Len(s)) /\ ~(i <= Len(LastOf(s)))
            /\ j - Len(s) = i - Len(LastOf(s))
        BY <1>1, <1>3, <3>2, <3>4
      <4>2. w[i] = t[i - Len(LastOf(s))] /\ u[j] = t[j - Len(s)]
        BY <1>2, <1>6, <3>2, <4>1
      <4> QED
        BY <3>1, <4>1, <4>2
    <3> QED
      BY <1>6, <1>3, <3>2, <3>3, <3>4
  <2> QED
    BY <1>7, <2>1, <2>2, <2>3, SeqEqual
<1>10. ASSUME Len(t) >= TailChars PROVE LastOf(u) = LastOf(t)
  <2>1. Len(LastOf(u)) = TailChars /\ Len(LastOf(t)) = TailChars
    BY <1>1, <1>2, <1>4, <1>7, <1>10
  <2>2. ASSUME NEW n \in 1 .. TailChars
        PROVE  LastOf(u)[n] = LastOf(t)[n]
    <3> DEFINE j == Len(u) - TailChars + n
    <3>1. LastOf(u)[n] = u[j] /\ LastOf(t)[n] = t[Len(t) - TailChars + n]
      BY <1>4, <1>7, <2>1
    <3>2. /\ j \in 1 .. Len(u) /\ ~(j <= Len(s))
          /\ j - Len(s) = Len(t) - TailChars + n
      BY <1>1, <1>2, <1>10
    <3>3. u[j] = t[j - Len(s)]
      BY <1>2, <3>2
    <3> QED
      BY <3>1, <3>2, <3>3
  <2> QED
    BY <1>4, <1>7, <2>1, <2>2, SeqEqual
<1> QED
  BY <1>8, <1>9, <1>10 DEF u, v, w

(* As many marks stand before the n-th as there should.                    *)
LEMMA MarksAreCounted ==
  ASSUME NEW s, IsText(s)
  PROVE  /\ Cardinality(MarksOf(s)) = Len(s)
         /\ \A n \in DOMAIN s : Cardinality({x \in MarksOf(s) : x.at < s[n].at}) = n - 1
<1>1. /\ s \in Seq(Marks) /\ Len(s) \in Nat /\ DOMAIN s = 1 .. Len(s)
      /\ \A n \in 1 .. Len(s) : s[n] \in Marks /\ s[n].at \in Nat
  <2>1. s \in Seq(Marks) /\ \A r \in Marks : r.at \in Nat
    BY DEF IsText, Marks
  <2> QED
    BY <2>1
<1>2. \A m, n \in 1 .. Len(s) : m < n => s[m].at < s[n].at
  BY <1>1 DEF IsText
<1>3. ASSUME NEW n \in 0 .. Len(s)
      PROVE  Cardinality({s[k] : k \in 1 .. n}) = n
  <2> DEFINE f == [k \in 1 .. n |-> s[k]]
             S == {s[k] : k \in 1 .. n}
  <2>1. \A k, m \in 1 .. n : s[k] = s[m] => k = m
    <3> SUFFICES ASSUME NEW k \in 1 .. n, NEW m \in 1 .. n, s[k] = s[m], k # m
                 PROVE  FALSE
      OBVIOUS
    <3>1. k \in 1 .. Len(s) /\ m \in 1 .. Len(s) /\ (k < m \/ m < k)
      BY <1>1
    <3> QED
      BY <1>1, <1>2, <3>1
  <2>2. f \in Bijection(1 .. n, S)
    BY <2>1 DEF Bijection, Injection, Surjection, IsInjective
  <2>3. IsFiniteSet(1 .. n) /\ Cardinality(1 .. n) = n
    <3>1. n \in Nat /\ 0 \in Int /\ 1 \in Int
      BY <1>1
    <3>2. n \in Int /\ (1 > n => n = 0) /\ n - 1 + 1 = n
      BY <3>1
    <3> QED
      BY <3>1, <3>2, FS_Interval
  <2> QED
    BY <2>2, <2>3, FS_Bijection DEF ExistsBijection
<1>4. Cardinality(MarksOf(s)) = Len(s)
  <2>1. Len(s) \in 0 .. Len(s)
    BY <1>1
  <2> QED
    BY <1>1, <1>3, <2>1 DEF MarksOf
<1>5. ASSUME NEW n \in 1 .. Len(s)
      PROVE  Cardinality({x \in MarksOf(s) : x.at < s[n].at}) = n - 1
  <2>1. \A k \in 1 .. Len(s) : s[k].at < s[n].at <=> k < n
    <3> SUFFICES ASSUME NEW k \in 1 .. Len(s), ~(k < n) PROVE ~(s[k].at < s[n].at)
      BY <1>2
    <3>1. k = n \/ n < k
      BY <1>1
    <3> QED
      BY <1>1, <1>2, <3>1
  <2>2. {x \in MarksOf(s) : x.at < s[n].at} = {s[k] : k \in 1 .. n - 1}
    <3>1. \A k \in 1 .. n - 1 : k \in 1 .. Len(s) /\ k < n
      BY <1>1
    <3>2. \A k \in 1 .. Len(s) : k < n => k \in 1 .. n - 1
      BY <1>1
    <3> QED
      BY <1>1, <2>1, <3>1, <3>2 DEF MarksOf
  <2>3. n - 1 \in 0 .. Len(s)
    BY <1>1
  <2> QED
    BY <1>3, <2>2, <2>3
<1> QED
  BY <1>1, <1>4, <1>5

(* Hence a text is known from its marks.                                   *)
LEMMA SameText ==
  ASSUME NEW s, NEW t, IsText(s), IsText(t), MarksOf(s) = MarksOf(t)
  PROVE  s = t
<1>1. /\ s \in Seq(Marks) /\ t \in Seq(Marks)
      /\ DOMAIN s = 1 .. Len(s) /\ DOMAIN t = 1 .. Len(t)
      /\ Len(s) \in Nat /\ Len(t) \in Nat
  BY DEF IsText
<1>2. Len(s) = Len(t)
  BY MarksAreCounted
<1>3. ASSUME NEW n \in 1 .. Len(s)
      PROVE  s[n] = t[n]
  <2>1. PICK m \in DOMAIN t : t[m] = s[n]
    BY <1>1 DEF MarksOf
  <2>2. Cardinality({x \in MarksOf(s) : x.at < s[n].at}) = n - 1
    BY <1>1, MarksAreCounted
  <2>3. Cardinality({x \in MarksOf(s) : x.at < t[m].at}) = m - 1
    BY MarksAreCounted
  <2>4. n - 1 = m - 1
    BY <2>1, <2>2, <2>3
  <2>5. m = n
    BY <1>1, <2>1, <2>4
  <2> QED
    BY <2>1, <2>5
<1> QED
  BY <1>1, <1>2, <1>3, SeqEqual

(* A text and a later one are a text.                                      *)
LEMMA JoinedText ==
  ASSUME NEW s, NEW t, IsText(s), IsText(t),
         \A x \in MarksOf(s), y \in MarksOf(t) : x.at < y.at
  PROVE  IsText(s \o t) /\ MarksOf(s \o t) = MarksOf(s) \cup MarksOf(t)
<1> DEFINE u == s \o t
<1>1. /\ s \in Seq(Marks) /\ t \in Seq(Marks)
      /\ DOMAIN s = 1 .. Len(s) /\ DOMAIN t = 1 .. Len(t)
      /\ Len(s) \in Nat /\ Len(t) \in Nat
  BY DEF IsText
<1>2. /\ u \in Seq(Marks) /\ Len(u) = Len(s) + Len(t)
      /\ \A i \in 1 .. Len(u) :
           u[i] = IF i <= Len(s) THEN s[i] ELSE t[i - Len(s)]
  BY <1>1, ConcatProperties
<1> HIDE DEF u
<1>3. DOMAIN u = 1 .. Len(u)
  BY <1>2
<1>4. ASSUME NEW m \in 1 .. Len(u), NEW n \in 1 .. Len(u), m < n
      PROVE  u[m].at < u[n].at
  <2>1. CASE n <= Len(s)
    <3>1. m \in 1 .. Len(s) /\ n \in 1 .. Len(s) /\ u[m] = s[m] /\ u[n] = s[n]
      BY <1>1, <1>2, <1>4, <2>1
    <3> QED
      BY <1>1, <1>4, <3>1 DEF IsText
  <2>2. CASE m > Len(s)
    <3>1. /\ m - Len(s) \in 1 .. Len(t) /\ n - Len(s) \in 1 .. Len(t)
          /\ m - Len(s) < n - Len(s) /\ u[m] = t[m - Len(s)] /\ u[n] = t[n - Len(s)]
      BY <1>1, <1>2, <1>4, <2>2
    <3> QED
      BY <1>1, <3>1 DEF IsText
  <2>3. CASE m <= Len(s) /\ n > Len(s)
    <3>1. /\ m \in 1 .. Len(s) /\ n - Len(s) \in 1 .. Len(t)
          /\ u[m] = s[m] /\ u[n] = t[n - Len(s)]
      BY <1>1, <1>2, <1>4, <2>3
    <3> QED
      BY <1>1, <3>1 DEF MarksOf
  <2> QED
    BY <1>1, <1>2, <1>4, <2>1, <2>2, <2>3
<1>5. MarksOf(u) \subseteq MarksOf(s) \cup MarksOf(t)
  <2> SUFFICES ASSUME NEW i \in 1 .. Len(u)
               PROVE  u[i] \in MarksOf(s) \cup MarksOf(t)
    BY <1>3 DEF MarksOf
  <2>1. i <= Len(s) => i \in DOMAIN s /\ u[i] = s[i]
    BY <1>1, <1>2
  <2>2. i > Len(s) => i - Len(s) \in DOMAIN t /\ u[i] = t[i - Len(s)]
    BY <1>1, <1>2
  <2>3. i <= Len(s) \/ i > Len(s)
    BY <1>1, <1>2
  <2> QED
    BY <2>1, <2>2, <2>3 DEF MarksOf
<1>6. MarksOf(s) \subseteq MarksOf(u)
  <2> SUFFICES ASSUME NEW i \in 1 .. Len(s) PROVE s[i] \in MarksOf(u)
    BY <1>1 DEF MarksOf
  <2>1. i \in 1 .. Len(u) /\ u[i] = s[i]
    BY <1>1, <1>2
  <2> QED
    BY <1>3, <2>1 DEF MarksOf
<1>7. MarksOf(t) \subseteq MarksOf(u)
  <2> SUFFICES ASSUME NEW i \in 1 .. Len(t) PROVE t[i] \in MarksOf(u)
    BY <1>1 DEF MarksOf
  <2>1. /\ i + Len(s) \in 1 .. Len(u) /\ ~(i + Len(s) <= Len(s))
        /\ i + Len(s) - Len(s) = i
    BY <1>1, <1>2
  <2>2. u[i + Len(s)] = t[i]
    BY <1>2, <2>1
  <2> QED
    BY <1>3, <2>1, <2>2 DEF MarksOf
<1> QED
  BY <1>2, <1>3, <1>4, <1>5, <1>6, <1>7 DEF IsText, u

(* The end of a text is a text.                                            *)
LEMMA LastOfText ==
  ASSUME NEW s, IsText(s)
  PROVE  IsText(LastOf(s)) /\ MarksOf(LastOf(s)) \subseteq MarksOf(s)
<1>1. s \in Seq(Marks) /\ DOMAIN s = 1 .. Len(s) /\ Len(s) \in Nat
  BY DEF IsText
<1>2. /\ LastOf(s) \in Seq(Marks) /\ Len(LastOf(s)) \in Nat
      /\ Len(LastOf(s)) <= Len(s)
      /\ \A n \in 1 .. Len(LastOf(s)) : LastOf(s)[n] = s[Len(s) - Len(LastOf(s)) + n]
  BY <1>1, LastOfIs
<1>3. DOMAIN LastOf(s) = 1 .. Len(LastOf(s))
  BY <1>2
<1>4. \A n \in 1 .. Len(LastOf(s)) : Len(s) - Len(LastOf(s)) + n \in 1 .. Len(s)
  BY <1>1, <1>2
<1>5. ASSUME NEW m \in 1 .. Len(LastOf(s)), NEW n \in 1 .. Len(LastOf(s)), m < n
      PROVE  LastOf(s)[m].at < LastOf(s)[n].at
  <2>1. Len(s) - Len(LastOf(s)) + m < Len(s) - Len(LastOf(s)) + n
    BY <1>1, <1>2, <1>5
  <2> QED
    BY <1>1, <1>2, <1>4, <2>1 DEF IsText
<1>6. MarksOf(LastOf(s)) \subseteq MarksOf(s)
  BY <1>1, <1>2, <1>3, <1>4 DEF MarksOf
<1> QED
  BY <1>2, <1>3, <1>5, <1>6 DEF IsText

(* The places of a set in their order.                                     *)
LEMMA NthIs ==
  ASSUME NEW m \in Nat, NEW N \in SUBSET (1 .. m)
  PROVE  /\ Cardinality(N) \in Nat
         /\ \A n \in 1 .. Cardinality(N) : Nth(N, n) \in N
         /\ \A i \in N : \E n \in 1 .. Cardinality(N) : Nth(N, n) = i
         /\ \A k, n \in 1 .. Cardinality(N) : k < n => Nth(N, k) < Nth(N, n)
<1> DEFINE before(i) == Cardinality({j \in N : j < i})
<1>1. /\ Cardinality(N) \in Nat
      /\ \A n \in 1 .. Cardinality(N) : \E i \in N : before(i) = n - 1
      /\ \A i \in N : before(i) + 1 \in 1 .. Cardinality(N) /\ before(i) \in Nat
      /\ \A i, j \in N : before(i) = before(j) => i = j
      /\ \A i, j \in N : j < i => before(j) < before(i)
  <2> DEFINE ahead == [i \in N |-> {j \in N : j < i}]
  <2>1. IsOrder(N, ahead)
    BY AscendingOrder
  <2>2. /\ Cardinality(N) \in Nat
        /\ \A n \in 1 .. Cardinality(N) : \E x \in N : Cardinality(ahead[x]) = n - 1
        /\ \A x \in N : Cardinality(ahead[x]) + 1 \in 1 .. Cardinality(N)
        /\ \A x, y \in N : Cardinality(ahead[x]) = Cardinality(ahead[y]) => x = y
        /\ \A x \in N : \A y \in ahead[x] : Cardinality(ahead[y]) < Cardinality(ahead[x])
    <3> HIDE DEF ahead
    <3> QED
      BY <2>1, OneOfEachRank
  <2>3. \A i \in N : ahead[i] = {j \in N : j < i}
    OBVIOUS
  <2>4. \A i \in N : Cardinality(ahead[i]) \in Nat
    <3> HIDE DEF ahead
    <3> QED
      BY <2>1, FS_Subset, FS_CardinalityType DEF IsOrder
  <2>5. \A i \in N : before(i) = Cardinality(ahead[i])
    BY <2>3
  <2>6. \A i, j \in N : j < i => j \in ahead[i]
    BY <2>3
  <2> HIDE DEF ahead, before
  <2> QED
    BY <2>2, <2>4, <2>5, <2>6
<1>2. ASSUME NEW n \in 1 .. Cardinality(N)
      PROVE  Nth(N, n) \in N /\ before(Nth(N, n)) = n - 1
  BY <1>1 DEF Nth
<1>3. \A i \in N : i \in Nat
  OBVIOUS
<1> HIDE DEF before
<1>4. ASSUME NEW i \in N
      PROVE  \E n \in 1 .. Cardinality(N) : Nth(N, n) = i
  <2>1. before(Nth(N, before(i) + 1)) = before(i) + 1 - 1 /\ Nth(N, before(i) + 1) \in N
    BY <1>1, <1>2
  <2>2. before(i) + 1 - 1 = before(i)
    BY <1>1
  <2> QED
    BY <1>1, <2>1, <2>2
<1>5. ASSUME NEW k \in 1 .. Cardinality(N), NEW n \in 1 .. Cardinality(N), k < n
      PROVE  Nth(N, k) < Nth(N, n)
  <2>1. /\ Nth(N, k) \in N /\ before(Nth(N, k)) = k - 1
        /\ Nth(N, n) \in N /\ before(Nth(N, n)) = n - 1
    BY <1>2
  <2>2. ~(before(Nth(N, n)) < before(Nth(N, k))) /\ before(Nth(N, k)) # before(Nth(N, n))
    BY <1>5, <2>1
  <2>3. ~(Nth(N, n) < Nth(N, k)) /\ Nth(N, k) # Nth(N, n)
    BY <1>1, <2>1, <2>2
  <2>4. Nth(N, k) \in Nat /\ Nth(N, n) \in Nat
    BY <1>3, <2>1
  <2> QED
    BY <2>3, <2>4
<1> QED
  BY <1>1, <1>2, <1>4, <1>5

(* What a read makes of some bytes.                                        *)
CharsOf(first, last) == {Character(i, last) : i \in Starts(first, last)}

LEMMA DecodeIs ==
  ASSUME NEW first \in Nat \ {0}, NEW last \in Nat
  PROVE  /\ IsText(Decode(first, last))
         /\ MarksOf(Decode(first, last)) = CharsOf(first, last)
         /\ Len(Decode(first, last)) = Cardinality(Starts(first, last))
         /\ \A x \in MarksOf(Decode(first, last)) : x.at \in first .. last
<1> DEFINE N == Starts(first, last)
           d == Decode(first, last)
<1>1. N \in SUBSET (1 .. last) /\ N \in SUBSET (first .. last)
  BY DEF Starts
<1>2. /\ Cardinality(N) \in Nat
      /\ \A n \in 1 .. Cardinality(N) : Nth(N, n) \in N
      /\ \A i \in N : \E n \in 1 .. Cardinality(N) : Nth(N, n) = i
      /\ \A k, n \in 1 .. Cardinality(N) : k < n => Nth(N, k) < Nth(N, n)
  BY <1>1, NthIs
<1>3. d = [n \in 1 .. Cardinality(N) |-> Character(Nth(N, n), last)]
  BY DEF Decode
<1>4. \A i \in N : Character(i, last) \in Marks /\ Character(i, last).at = i
  BY <1>1 DEF Character, Marks
<1> HIDE DEF N, d
<1>5. /\ d \in Seq(Marks) /\ Len(d) = Cardinality(N)
      /\ DOMAIN d = 1 .. Cardinality(N)
      /\ \A n \in 1 .. Cardinality(N) : d[n] = Character(Nth(N, n), last)
  BY <1>2, <1>3, <1>4
<1>6. \A n \in 1 .. Cardinality(N) : d[n].at = Nth(N, n)
  BY <1>2, <1>4, <1>5
<1>7. IsText(d)
  BY <1>2, <1>5, <1>6 DEF IsText
<1>8. MarksOf(d) = {Character(i, last) : i \in N}
  BY <1>2, <1>5 DEF MarksOf
<1>9. \A x \in MarksOf(d) : x.at \in first .. last
  BY <1>1, <1>4, <1>8
<1> QED
  BY <1>5, <1>7, <1>8, <1>9 DEF N, d, CharsOf

-----------------------------------------------------------------------------
(* The file.                                                               *)

(* Valid UTF-8, but for a character that is cut short at the end: each     *)
(* continuation byte has its lead byte, and each lead byte what follows.   *)
FileIsText ==
  /\ file \in Seq(Bytes)
  /\ \A i \in 1 .. Len(file) :
       file[i] = "t" =>
         \E l \in 1 .. i - 1 :
           file[l] = "h" /\ i < l + Width /\ \A k \in l + 1 .. i : file[k] = "t"
  /\ \A l \in 1 .. Len(file) :
       file[l] = "h" =>
         \A k \in l + 1 .. Len(file) : k < l + Width => file[k] = "t"

(* No character goes on behind o.                                          *)
Boundary(o) == o < Len(file) => file[o + 1] # "t"

(* Nothing follows a newline that began before it.                         *)
LEMMA NewlineIsBoundary ==
  ASSUME FileIsText, NEW o \in 1 .. Len(file), file[o] = "n"
  PROVE  Boundary(o)
<1> SUFFICES ASSUME o < Len(file), file[o + 1] = "t"
             PROVE  FALSE
  BY DEF Boundary
<1>1. Len(file) \in Nat /\ o + 1 \in 1 .. Len(file)
  BY DEF FileIsText
<1>2. PICK l \in 1 .. o : file[l] = "h" /\ \A k \in l + 1 .. o + 1 : file[k] = "t"
  BY <1>1 DEF FileIsText
<1>3. l # o
  BY <1>2
<1>4. o \in l + 1 .. o + 1
  BY <1>3
<1> QED
  BY <1>2, <1>4

(* What is decoded up to a boundary, and from there, is what is decoded at *)
(* once.                                                                   *)
LEMMA DecodeInParts ==
  ASSUME FileIsText, NEW a \in Nat, NEW o \in Nat, NEW e \in Nat,
         a <= o, o <= e, e <= Len(file), o = a \/ Boundary(o)
  PROVE  Decode(a + 1, o) \o Decode(o + 1, e) = Decode(a + 1, e)
<1>1. /\ IsText(Decode(a + 1, o)) /\ MarksOf(Decode(a + 1, o)) = CharsOf(a + 1, o)
      /\ \A x \in MarksOf(Decode(a + 1, o)) : x.at \in a + 1 .. o
  <2>1. a + 1 \in Nat \ {0}
    OBVIOUS
  <2> QED
    BY <2>1, DecodeIs
<1>2. /\ IsText(Decode(o + 1, e)) /\ MarksOf(Decode(o + 1, e)) = CharsOf(o + 1, e)
      /\ \A x \in MarksOf(Decode(o + 1, e)) : x.at \in o + 1 .. e
  <2>1. o + 1 \in Nat \ {0}
    OBVIOUS
  <2> QED
    BY <2>1, DecodeIs
<1>3. IsText(Decode(a + 1, e)) /\ MarksOf(Decode(a + 1, e)) = CharsOf(a + 1, e)
  <2>1. a + 1 \in Nat \ {0}
    OBVIOUS
  <2> QED
    BY <2>1, DecodeIs
<1>4. /\ IsText(Decode(a + 1, o) \o Decode(o + 1, e))
      /\ MarksOf(Decode(a + 1, o) \o Decode(o + 1, e)) =
           CharsOf(a + 1, o) \cup CharsOf(o + 1, e)
  <2>1. \A x \in MarksOf(Decode(a + 1, o)), y \in MarksOf(Decode(o + 1, e)) : x.at < y.at
    BY <1>1, <1>2
  <2> QED
    BY <1>1, <1>2, <2>1, JoinedText
<1>5. CharsOf(a + 1, o) \cup CharsOf(o + 1, e) = CharsOf(a + 1, e)
  <2>0. Len(file) \in Nat /\ Width \in Nat
    BY JobOutputAssumption DEF FileIsText
  <2>1. CASE o = a
    <3>1. Starts(a + 1, o) = {}
      BY <2>1 DEF Starts
    <3> QED
      BY <2>1, <3>1 DEF CharsOf
  <2>2. CASE o = e
    <3>1. Starts(o + 1, e) = {}
      BY <2>2 DEF Starts
    <3> QED
      BY <2>2, <3>1 DEF CharsOf
  <2>3. CASE o # a /\ o < e
    <3>1. file[o + 1] # "t"
      BY <2>0, <2>3 DEF Boundary
    <3>2. ASSUME NEW i \in a + 1 .. o
          PROVE  i \in Starts(a + 1, o) <=> i \in Starts(a + 1, e)
      <4>1. \A l \in a + 1 .. e : Belongs(i, l) => l \in a + 1 .. o
        BY DEF Belongs
      <4> QED
        BY <4>1 DEF Starts
    <3>3. ASSUME NEW i \in o + 1 .. e
          PROVE  i \in Starts(o + 1, e) <=> i \in Starts(a + 1, e)
      <4>1. CASE file[i] # "t"
        BY <4>1 DEF Starts
      <4>2. CASE file[i] = "t"
        <5>1. PICK l \in 1 .. i - 1 :
                file[l] = "h" /\ i < l + Width /\ \A k \in l + 1 .. i : file[k] = "t"
          <6>1. i \in 1 .. Len(file)
            BY <2>0
          <6> QED
            BY <4>2, <6>1 DEF FileIsText
        <5>2. o + 1 \notin l + 1 .. i
          BY <3>1, <5>1
        <5>3. l \in o + 1 .. e /\ l \in a + 1 .. e
          BY <5>2
        <5> QED
          BY <4>2, <5>1, <5>3 DEF Starts, Belongs
      <4> QED
        BY <4>1, <4>2
    <3>4. ASSUME NEW i \in a + 1 .. o
          PROVE  Character(i, o) = Character(i, e)
      <4>1. CASE i + Width - 1 <= o
        <5>1. i + Width - 1 <= e
          BY <2>0, <2>3, <4>1
        <5> QED
          BY <4>1, <5>1 DEF Character
      <4>2. CASE ~(i + Width - 1 <= o)
        <5>1. o + 1 \in i + 1 .. i + Width - 1
          BY <2>0, <4>2
        <5>2. ~(\A l \in i + 1 .. i + Width - 1 : file[l] = "t")
          BY <3>1, <5>1
        <5> QED
          BY <4>2, <5>2 DEF Character
      <4> QED
        BY <4>1, <4>2
    <3>5. Starts(a + 1, o) \subseteq a + 1 .. o /\ Starts(o + 1, e) \subseteq o + 1 .. e
      BY DEF Starts
    <3>6. \A i \in Starts(a + 1, e) : i \in a + 1 .. o \/ i \in o + 1 .. e
      BY DEF Starts
    <3> QED
      BY <3>2, <3>3, <3>4, <3>5, <3>6 DEF CharsOf
  <2> QED
    BY <2>1, <2>2, <2>3
<1> QED
  BY <1>3, <1>4, <1>5, SameText

(* So many bytes hold at least as many characters as are kept: each byte   *)
(* is the first, second, ... one of some character.                        *)
LEMMA EnoughChars ==
  ASSUME FileIsText, NEW b \in Nat, NEW n \in Nat, b < Len(file), file[b + 1] # "t",
         Len(file) - b > Width * (n - 1)
  PROVE  Cardinality(Starts(b + 1, Len(file))) >= n
<1> DEFINE L == Len(file)
           S == Starts(b + 1, L)
           Lead(i) == CHOOSE l \in S : l <= i /\ i < l + Width
           f == [i \in b + 1 .. L |-> <<Lead(i), i - Lead(i)>>]
<1>1. L \in Nat /\ Width \in Nat \ {0} /\ S \in SUBSET (b + 1 .. L)
  BY JobOutputAssumption DEF FileIsText, Starts
<1>2. ASSUME NEW i \in b + 1 .. L
      PROVE  \E l \in S : l <= i /\ i < l + Width
  <2>1. CASE file[i] # "t"
    <3>1. i \in S
      BY <2>1 DEF Starts
    <3> QED
      BY <1>1, <3>1
  <2>2. CASE file[i] = "t"
    <3>1. i \in 1 .. Len(file)
      BY <1>1
    <3>2. PICK l \in 1 .. i - 1 :
            file[l] = "h" /\ i < l + Width /\ \A k \in l + 1 .. i : file[k] = "t"
      BY <2>2, <3>1 DEF FileIsText
    <3>3. b + 1 \notin l + 1 .. i
      BY <3>2
    <3>4. l \in b + 1 .. L
      BY <3>3
    <3>5. l \in S
      BY <3>2, <3>4 DEF Starts
    <3> QED
      BY <3>2, <3>5
  <2> QED
    BY <2>1, <2>2
<1>3. \A i \in b + 1 .. L : Lead(i) \in S /\ Lead(i) <= i /\ i < Lead(i) + Width
  BY <1>2
<1> HIDE DEF L, S, Lead
<1>4. ASSUME NEW i \in b + 1 .. L
      PROVE  i - Lead(i) \in 0 .. Width - 1 /\ Lead(i) \in Nat
  <2>1. Lead(i) \in b + 1 .. L /\ Lead(i) <= i /\ i < Lead(i) + Width
    BY <1>1, <1>3
  <2> QED
    BY <1>1, <2>1
<1>5. f \in [b + 1 .. L -> S \X (0 .. Width - 1)]
  BY <1>3, <1>4
<1>6. \A i, j \in b + 1 .. L : f[i] = f[j] => i = j
  <2> SUFFICES ASSUME NEW i \in b + 1 .. L, NEW j \in b + 1 .. L, f[i] = f[j]
               PROVE  i = j
    OBVIOUS
  <2>1. Lead(i) = Lead(j) /\ i - Lead(i) = j - Lead(j)
    OBVIOUS
  <2> QED
    BY <1>4, <2>1
<1>7. f \in Injection(b + 1 .. L, S \X (0 .. Width - 1))
  BY <1>5, <1>6 DEF Injection, IsInjective
<1>8. IsFiniteSet(b + 1 .. L) /\ Cardinality(b + 1 .. L) = L - b
  <2>1. b + 1 \in Int /\ L \in Int /\ L - (b + 1) + 1 = L - b /\ ~(b + 1 > L)
    BY <1>1 DEF L
  <2> QED
    BY <2>1, FS_Interval
<1>9. IsFiniteSet(0 .. Width - 1) /\ Cardinality(0 .. Width - 1) = Width
  <2>1. 0 \in Int /\ Width - 1 \in Int /\ Width - 1 - 0 + 1 = Width /\ ~(0 > Width - 1)
    BY <1>1
  <2> QED
    BY <2>1, FS_Interval
<1>10. IsFiniteSet(S) /\ Cardinality(S) \in Nat
  BY <1>1, <1>8, FS_Subset, FS_CardinalityType
<1>11. /\ IsFiniteSet(S \X (0 .. Width - 1))
       /\ Cardinality(S \X (0 .. Width - 1)) = Cardinality(S) * Width
  BY <1>9, <1>10, FS_Product
<1> HIDE DEF f
<1>12. L - b <= Cardinality(S) * Width
  BY <1>7, <1>8, <1>11, FS_Injection
<1>13. Cardinality(S) >= n
  <2> SUFFICES ASSUME Cardinality(S) <= n - 1 PROVE FALSE
    BY <1>10
  <2>1. Cardinality(S) * Width <= Width * (n - 1)
    <3>1. n - 1 - Cardinality(S) \in Nat
      BY <1>10
    <3>2. (n - 1 - Cardinality(S)) * Width >= 0
      BY <1>1, <3>1
    <3> QED
      BY <1>1, <1>10, <3>2
  <2> QED
    BY <1>1, <1>10, <1>12, <2>1 DEF L
<1> QED
  BY <1>13 DEF L, S

(* The lead byte of a continuation byte.                                   *)
LEMMA LeadOf ==
  ASSUME FileIsText, NEW i \in 1 .. Len(file), file[i] = "t"
  PROVE  \E l \in 1 .. i - 1 : file[l] = "h" /\ i < l + Width
BY DEF FileIsText

(* The last 4 * 4000 bytes hold the last 4000 characters, whatever came    *)
(* before and even if they begin in the middle of one.                     *)
LEMMA TailIsEnough ==
  ASSUME FileIsText, NEW a \in Nat, Len(file) >= a + Width * TailChars,
         NEW x \in Seq(Marks)
  PROVE  LastOf(x \o Decode(a + 1, Len(file))) = LastOf(Decode(1, Len(file)))
<1> DEFINE L == Len(file)
<1>1. L \in Nat /\ Width \in Nat \ {0} /\ TailChars \in Nat \ {0}
  BY JobOutputAssumption DEF FileIsText
<1>2. Width * TailChars = Width * (TailChars - 1) + Width /\ Width * (TailChars - 1) \in Nat
  BY <1>1
<1>3. PICK b \in Nat : a <= b /\ b < a + Width /\ file[b + 1] # "t"
  <2> SUFFICES ASSUME \A b \in a .. a + Width - 1 : file[b + 1] = "t"
               PROVE  FALSE
    BY <1>1
  <2>1. file[a + Width] = "t" /\ a + Width \in 1 .. L
    <3>1. a + Width - 1 \in a .. a + Width - 1 /\ a + Width - 1 + 1 = a + Width
      BY <1>1
    <3> QED
      BY <1>1, <1>2, <3>1
  <2>2. PICK l \in 1 .. a + Width - 1 : file[l] = "h" /\ a + Width < l + Width
    <3>1. PICK i \in 1 .. Len(file) : i = a + Width /\ file[i] = "t"
      BY <2>1
    <3>2. PICK l \in 1 .. i - 1 : file[l] = "h" /\ i < l + Width
      BY <3>1, LeadOf
    <3>3. l \in 1 .. a + Width - 1 /\ a + Width < l + Width
      BY <1>1, <3>1, <3>2
    <3> QED
      BY <3>2, <3>3
  <2>3. l - 1 \in a .. a + Width - 1 /\ l - 1 + 1 = l
    BY <1>1, <2>2
  <2> QED
    BY <2>2, <2>3
<1>4. b < L /\ L - b > Width * (TailChars - 1)
  BY <1>1, <1>2, <1>3
<1>5. Boundary(b) /\ b <= L /\ L <= Len(file) /\ 0 \in Nat /\ 0 <= b
  BY <1>1, <1>3, <1>4 DEF Boundary
<1>6. /\ Decode(a + 1, b) \o Decode(b + 1, L) = Decode(a + 1, L)
      /\ Decode(1, b) \o Decode(b + 1, L) = Decode(1, L)
  <2>1. Decode(a + 1, b) \o Decode(b + 1, L) = Decode(a + 1, L)
    BY <1>1, <1>3, <1>4, <1>5, DecodeInParts
  <2>2. Decode(0 + 1, b) \o Decode(b + 1, L) = Decode(0 + 1, L)
    BY <1>1, <1>3, <1>4, <1>5, DecodeInParts
  <2> QED
    BY <2>1, <2>2
<1>7. /\ Decode(b + 1, L) \in Seq(Marks)
      /\ Len(Decode(b + 1, L)) >= TailChars
  <2>1. b + 1 \in Nat \ {0}
    BY <1>3
  <2>2. /\ IsText(Decode(b + 1, L))
        /\ Len(Decode(b + 1, L)) = Cardinality(Starts(b + 1, L))
    BY <1>1, <2>1, DecodeIs
  <2>3. Cardinality(Starts(b + 1, L)) >= TailChars
    BY <1>1, <1>3, <1>4, EnoughChars
  <2> QED
    BY <2>2, <2>3 DEF IsText
<1>8. Decode(a + 1, b) \in Seq(Marks) /\ Decode(1, b) \in Seq(Marks)
  <2>1. a + 1 \in Nat \ {0} /\ 1 \in Nat \ {0}
    OBVIOUS
  <2> QED
    BY <2>1, DecodeIs DEF IsText
<1> DEFINE t == Decode(b + 1, L)
           p == Decode(a + 1, b)
<1>9. LastOf(Decode(1, b) \o t) = LastOf(t)
  BY <1>7, <1>8, LastOfJoined
<1>10. p \in Seq(Marks) /\ t \in Seq(Marks) /\ Len(t) >= TailChars
  BY <1>7, <1>8
<1>11. LastOf(x \o (p \o t)) = LastOf(t)
  <2> HIDE DEF p, t
  <2>1. x \o p \in Seq(Marks)
    BY <1>10, ConcatProperties
  <2>2. (x \o p) \o t = x \o (p \o t)
    BY <1>10, ConcatAssociative
  <2>3. LastOf((x \o p) \o t) = LastOf(t)
    BY <1>10, <2>1, LastOfJoined
  <2> QED
    BY <2>2, <2>3
<1> QED
  BY <1>6, <1>9, <1>11

-----------------------------------------------------------------------------
(* The pollers.                                                            *)

(* What p has shown: what it had before it last skipped ahead, to a, and   *)
(* all that was decoded from there on.  A poller that never skipped began  *)
(* with nothing at 0; after a skip there were enough bytes behind a.       *)
Follows(p) ==
  \E a \in Nat, x \in Seq(Marks) :
    /\ IsText(x) /\ \A r \in MarksOf(x) : r.at <= a
    /\ a <= offset[p]
    /\ shown[p] = LastOf(x \o Decode(a + 1, offset[p]))
    /\ offset[p] = a \/ file[offset[p]] = "n"
    /\ \/ a = 0 /\ x = <<>>
       \/ behind[p] /\ Len(file) >= a + Width * TailChars

OutputTypeOK ==
  /\ FileIsText
  /\ alive \in BOOLEAN
  /\ pc \in [Pollers -> {"waiting", "reading", "done"}]
  /\ running \in [Pollers -> BOOLEAN]
  /\ offset \in [Pollers -> Nat]
  /\ shown \in [Pollers -> Seq(Marks)]
  /\ behind \in [Pollers -> BOOLEAN]
  /\ \A p \in Pollers : offset[p] <= Len(file)

(* A poller that was told that the script has ended was told the truth.    *)
OutputInv ==
  /\ OutputTypeOK
  /\ \A p \in Pollers :
       /\ pc[p] # "waiting" /\ ~running[p] => ~alive
       /\ pc[p] # "done" => Follows(p)
       /\ pc[p] = "done" => ~running[p] /\ shown[p] = LastOf(Decode(1, Len(file)))

LEMMA OutputFacts == TailChars \in Nat \ {0} /\ Width \in Nat \ {0, 1} /\ Width * TailChars \in Nat
BY JobOutputAssumption

(* The script's writes keep the file's form and what was decoded.          *)
LEMMA WriteKeepsFile ==
  ASSUME FileIsText, Write
  PROVE  /\ FileIsText'
         /\ Len(file') = Len(file) + 1
         /\ \A i \in 1 .. Len(file) : file'[i] = file[i]
<1> DEFINE L == Len(file)
<1>1. L \in Nat /\ Width \in Nat \ {0, 1} /\ file \in Seq(Bytes)
  BY OutputFacts DEF FileIsText
<1>2. PICK b \in Bytes : (b = "t" <=> OpenChar(file)) /\ file' = Append(file, b)
  BY DEF Write
<1>3. /\ file' \in Seq(Bytes) /\ Len(file') = L + 1
      /\ \A i \in 1 .. L : file'[i] = file[i]
      /\ file'[L + 1] = b
  BY <1>1, <1>2
<1>4. ASSUME NEW i \in 1 .. L + 1, file'[i] = "t"
      PROVE  \E l \in 1 .. i - 1 :
               file'[l] = "h" /\ i < l + Width /\ \A k \in l + 1 .. i : file'[k] = "t"
  <2>1. CASE i \in 1 .. L
    <3>1. PICK l \in 1 .. i - 1 :
            file[l] = "h" /\ i < l + Width /\ \A k \in l + 1 .. i : file[k] = "t"
      BY <1>3, <1>4, <2>1 DEF FileIsText
    <3>2. l \in 1 .. L /\ \A k \in l + 1 .. i : k \in 1 .. L
      BY <1>1, <2>1
    <3> QED
      BY <1>3, <3>1, <3>2
  <2>2. CASE i = L + 1
    <3>1. OpenChar(file)
      BY <1>2, <1>3, <1>4, <2>2
    <3>2. PICK w \in 1 .. Width - 1 :
            /\ L >= w /\ file[L - w + 1] = "h"
            /\ \A k \in L - w + 2 .. L : file[k] = "t"
      BY <3>1 DEF OpenChar
    <3> DEFINE l == L - w + 1
    <3>3. l \in 1 .. i - 1 /\ i < l + Width /\ l \in 1 .. L
      BY <1>1, <2>2, <3>2
    <3>4. \A k \in l + 1 .. i : (k \in L - w + 2 .. L /\ k \in 1 .. L) \/ k = L + 1
      BY <1>1, <2>2, <3>2
    <3>5. file'[l] = "h"
      BY <1>3, <3>2, <3>3
    <3>6. \A k \in l + 1 .. i : file'[k] = "t"
      BY <1>3, <1>4, <2>2, <3>2, <3>4
    <3> HIDE DEF l
    <3> QED
      BY <3>3, <3>5, <3>6
  <2> QED
    BY <1>1, <2>1, <2>2
<1>5. ASSUME NEW l \in 1 .. L + 1, file'[l] = "h", NEW k \in l + 1 .. L + 1, k < l + Width
      PROVE  file'[k] = "t"
  <2>1. l \in 1 .. L /\ file[l] = "h"
    BY <1>1, <1>3, <1>5
  <2>2. CASE k <= L
    BY <1>1, <1>3, <1>5, <2>1, <2>2 DEF FileIsText
  <2>3. CASE k = L + 1
    <3> DEFINE w == L - l + 1
    <3>1. w \in 1 .. Width - 1 /\ L >= w /\ L - w + 1 = l /\ L - w + 2 = l + 1
      BY <1>1, <1>5, <2>1, <2>3
    <3>2. \A j \in l + 1 .. L : j < l + Width
      BY <1>1, <1>5, <2>1, <2>3
    <3>3. \A j \in l + 1 .. L : file[j] = "t"
      BY <2>1, <3>2 DEF FileIsText
    <3> HIDE DEF w
    <3>4. OpenChar(file)
      BY <2>1, <3>1, <3>3 DEF OpenChar
    <3> QED
      BY <1>2, <1>3, <2>3, <3>4
  <2> QED
    BY <1>1, <1>5, <2>2, <2>3
<1>6. FileIsText'
  BY <1>3, <1>4, <1>5 DEF FileIsText
<1> QED
  BY <1>3, <1>6

LEMMA WriteKeepsDecoded ==
  ASSUME FileIsText, Write, NEW first \in Nat \ {0}, NEW last \in Nat, last <= Len(file)
  PROVE  Decode(first, last)' = Decode(first, last)
<1> DEFINE S(f) == {i \in first .. last :
                      f[i] = "t" => \A l \in first .. last :
                                      ~(l < i /\ i < l + Width /\ f[l] = "h")}
           C(f, i) == [at |-> i,
                       whole |-> \/ f[i] \in {"c", "n"}
                                 \/ f[i] = "h" /\ i + Width - 1 <= last
                                    /\ \A l \in i + 1 .. i + Width - 1 : f[l] = "t"]
           D(f) == [n \in 1 .. Cardinality(S(f)) |-> C(f, Nth(S(f), n))]
<1>1. Decode(first, last) = D(file)
  BY DEF Decode, Starts, Belongs, Character
<1>2. Decode(first, last)' = D(file')
  BY DEF Decode, Starts, Belongs, Character
<1>3. \A i \in first .. last : file'[i] = file[i]
  BY WriteKeepsFile
<1>4. S(file') = S(file) /\ S(file) \in SUBSET (1 .. last) /\ S(file) \in SUBSET (first .. last)
  BY <1>3
<1>5. ASSUME NEW i \in first .. last
      PROVE  C(file', i) = C(file, i)
  <2>1. i + Width - 1 <= last => \A l \in i + 1 .. i + Width - 1 : l \in first .. last
    BY OutputFacts
  <2> QED
    BY <1>3, <2>1
<1> HIDE DEF S, C
<1>6. \A n \in 1 .. Cardinality(S(file)) : Nth(S(file), n) \in first .. last
  BY <1>4, NthIs
<1> QED
  BY <1>1, <1>2, <1>4, <1>5, <1>6

(* Where a read starts and ends.                                           *)
LEMMA ReadBounds ==
  ASSUME FileIsText, NEW o \in Nat, o <= Len(file), NEW lines \in BOOLEAN
  PROVE  LET start == StartOf(o)
             end == EndOf(start, lines)
         IN  /\ start \in Nat /\ o <= start /\ start <= Len(file)
             /\ start > o => Len(file) >= start + Width * TailChars
             /\ end \in Nat /\ start <= end /\ end <= Len(file)
             /\ lines => end = start \/ file[end] = "n"
             /\ ~lines => end = Len(file)
<1> DEFINE start == StartOf(o)
           end == EndOf(start, lines)
           ends == {i \in start + 1 .. Len(file) : file[i] = "n"}
<1>1. Len(file) \in Nat /\ Width * TailChars \in Nat
  BY OutputFacts DEF FileIsText
<1>2. /\ start \in Nat /\ o <= start /\ start <= Len(file)
      /\ start > o => Len(file) >= start + Width * TailChars
  <2> DEFINE WT == Width * TailChars
  <2>1. start = LargerOf(o, IF Len(file) > WT THEN Len(file) - WT ELSE 0)
    BY DEF StartOf
  <2> HIDE DEF WT, start
  <2>2. WT \in Nat
    BY <1>1 DEF WT
  <2>3. /\ start \in Nat /\ o <= start /\ start <= Len(file)
        /\ start > o => Len(file) >= start + WT
    BY <1>1, <2>1, <2>2 DEF LargerOf
  <2> QED
    BY <2>3 DEF WT
<1> HIDE DEF start
<1>3. CASE ~lines
  BY <1>1, <1>2, <1>3 DEF EndOf, start
<1>4. CASE lines /\ ends = {}
  BY <1>1, <1>2, <1>4 DEF EndOf, start
<1>5. CASE lines /\ ends # {}
  <2>1. \E i \in ends : \A l \in ends : l <= i
    <3>1. ends \in SUBSET (1 .. Len(file))
      BY <1>1, <1>2
    <3> HIDE DEF ends
    <3> QED
      BY <1>1, <1>5, <3>1, Greatest
  <2>2. end = CHOOSE i \in ends : \A l \in ends : l <= i
    BY <1>5 DEF EndOf
  <2>3. end \in ends
    <3> HIDE DEF ends
    <3> QED
      BY <2>1, <2>2
  <2>4. end \in start + 1 .. Len(file) /\ file[end] = "n"
    BY <2>3
  <2> HIDE DEF end, ends
  <2>5. end \in Nat /\ start <= end /\ end <= Len(file)
    BY <1>1, <1>2, <2>4
  <2> QED
    BY <1>2, <1>5, <2>4, <2>5 DEF start, end
<1> QED
  BY <1>3, <1>4, <1>5

(* What a read adds to what was shown.                                     *)
LEMMA ReadAdds ==
  ASSUME FileIsText, NEW a \in Nat, NEW x \in Seq(Marks), NEW o \in Nat, NEW e \in Nat,
         a <= o, o <= e, e <= Len(file), o = a \/ Boundary(o)
  PROVE  LastOf(LastOf(x \o Decode(a + 1, o)) \o LastOf(Decode(o + 1, e))) =
           LastOf(x \o Decode(a + 1, e))
<1> DEFINE s == Decode(a + 1, o)
           t == Decode(o + 1, e)
<1>1. s \in Seq(Marks) /\ t \in Seq(Marks)
  <2>1. a + 1 \in Nat \ {0} /\ o + 1 \in Nat \ {0}
    OBVIOUS
  <2> QED
    BY <2>1, DecodeIs DEF IsText
<1>2. s \o t = Decode(a + 1, e)
  BY DecodeInParts
<1> HIDE DEF s, t
<1>3. x \o s \in Seq(Marks) /\ LastOf(x \o s) \in Seq(Marks)
  <2>1. x \o s \in Seq(Marks)
    BY <1>1, ConcatProperties
  <2> QED
    BY <2>1, LastOfIs
<1>4. LastOf(LastOf(x \o s) \o LastOf(t)) = LastOf(LastOf(x \o s) \o t)
  BY <1>1, <1>3, LastOfJoined
<1>5. LastOf(LastOf(x \o s) \o t) = LastOf((x \o s) \o t)
  BY <1>1, <1>3, LastOfJoined
<1>6. (x \o s) \o t = x \o (s \o t)
  BY SMTT(60), <1>1, ConcatAssociative
<1> QED
  BY <1>2, <1>4, <1>5, <1>6 DEF s, t

(* What was shown is a text, of places read.                               *)
LEMMA ShownIsText ==
  ASSUME NEW a \in Nat, NEW x, IsText(x), \A r \in MarksOf(x) : r.at <= a,
         NEW o \in Nat, a <= o
  PROVE  /\ IsText(LastOf(x \o Decode(a + 1, o)))
         /\ \A r \in MarksOf(LastOf(x \o Decode(a + 1, o))) : r.at <= o
<1> DEFINE s == Decode(a + 1, o)
<1>1. IsText(s) /\ \A r \in MarksOf(s) : r.at \in a + 1 .. o
  <2>1. a + 1 \in Nat \ {0}
    OBVIOUS
  <2> QED
    BY <2>1, DecodeIs
<1>2. \A r \in MarksOf(x) : r.at \in Nat
  <2>1. \A r \in MarksOf(x) : r \in Marks
    BY DEF IsText, MarksOf
  <2> QED
    BY <2>1 DEF Marks
<1> HIDE DEF s
<1>3. IsText(x \o s) /\ MarksOf(x \o s) = MarksOf(x) \cup MarksOf(s)
  <2>1. \A r \in MarksOf(x), q \in MarksOf(s) : r.at < q.at
    BY <1>1, <1>2
  <2> QED
    BY <1>1, <2>1, JoinedText
<1>4. \A r \in MarksOf(x \o s) : r.at <= o
  BY <1>1, <1>2, <1>3
<1> QED
  BY <1>3, <1>4, LastOfText DEF s

-----------------------------------------------------------------------------
(* The steps.                                                              *)

LEMMA OutputStart == OutputInit => OutputInv
<1> SUFFICES ASSUME OutputInit PROVE OutputInv
  OBVIOUS
<1>1. file = <<>> /\ Len(file) = 0
  BY DEF OutputInit
<1>2. OutputTypeOK
  BY <1>1 DEF OutputInit, OutputTypeOK, FileIsText
<1>3. ASSUME NEW p \in Pollers PROVE Follows(p)
  <2>1. offset[p] = 0 /\ shown[p] = <<>>
    BY DEF OutputInit
  <2>2. <<>> \in Seq(Marks) /\ IsText(<<>>) /\ \A r \in MarksOf(<<>>) : r.at <= 0
    BY DEF IsText, MarksOf
  <2>3. IsText(Decode(1, 0)) /\ \A r \in MarksOf(Decode(1, 0)) : r.at \in 1 .. 0
    <3>1. 1 \in Nat \ {0} /\ 0 \in Nat
      OBVIOUS
    <3> QED
      BY <3>1, DecodeIs
  <2>4. Decode(1, 0) = <<>>
    <3>1. MarksOf(Decode(1, 0)) = MarksOf(<<>>)
      BY <2>3 DEF MarksOf
    <3> QED
      BY <2>2, <2>3, <3>1, SameText
  <2>5. <<>> \o Decode(0 + 1, 0) = <<>> /\ LastOf(<<>>) = <<>>
    <3>1. Len(LastOf(<<>>)) <= 0 /\ Len(LastOf(<<>>)) \in Nat /\ LastOf(<<>>) \in Seq(Marks)
      BY <2>2, LastOfIs
    <3> QED
      BY <2>4, <3>1
  <2>6. /\ 0 \in Nat /\ 0 <= offset[p] /\ offset[p] = 0
        /\ shown[p] = LastOf(<<>> \o Decode(0 + 1, offset[p]))
    BY <2>1, <2>5
  <2> QED
    BY <2>2, <2>6 DEF Follows
<1> QED
  BY <1>2, <1>3 DEF OutputInv, OutputInit

(* What a poller has shown stands while the script writes.                 *)
LEMMA WriteStep ==
  ASSUME OutputInv, Write
  PROVE  OutputInv'
<1>1. /\ FileIsText' /\ Len(file') = Len(file) + 1 /\ Len(file) \in Nat
      /\ \A i \in 1 .. Len(file) : file'[i] = file[i]
  BY WriteKeepsFile DEF OutputInv, OutputTypeOK, FileIsText
<1>2. alive /\ UNCHANGED <<alive, pc, running, offset, shown, behind>>
  BY DEF Write
<1>3. OutputTypeOK'
  BY <1>1, <1>2 DEF OutputInv, OutputTypeOK
<1>4. ASSUME NEW p \in Pollers, Follows(p)
      PROVE  Follows(p)'
  <2>1. PICK a \in Nat, x \in Seq(Marks) :
          /\ IsText(x) /\ \A r \in MarksOf(x) : r.at <= a
          /\ a <= offset[p]
          /\ shown[p] = LastOf(x \o Decode(a + 1, offset[p]))
          /\ offset[p] = a \/ file[offset[p]] = "n"
          /\ \/ a = 0 /\ x = <<>>
             \/ behind[p] /\ Len(file) >= a + Width * TailChars
    BY <1>4 DEF Follows
  <2>2. PICK o \in Nat : o = offset[p] /\ o <= Len(file)
    BY DEF OutputInv, OutputTypeOK
  <2>3. Decode(a + 1, o)' = Decode(a + 1, o)
    <3>1. a + 1 \in Nat \ {0}
      OBVIOUS
    <3> QED
      BY <2>2, <3>1, WriteKeepsDecoded DEF OutputInv, OutputTypeOK
  <2>4. Decode(a + 1, offset[p])' = Decode(a + 1, o)'
    BY <1>2, <2>2 DEF Decode, Starts, Belongs, Character
  <2>5. offset[p]' = o /\ shown[p]' = shown[p] /\ behind[p]' = behind[p]
    BY <1>2, <2>2
  <2>6. o = a \/ file'[o] = "n"
    BY <1>1, <2>1, <2>2
  <2>7. Len(file') >= a + Width * TailChars \/ ~(Len(file) >= a + Width * TailChars)
    BY <1>1, OutputFacts
  <2>8. (shown[p] = LastOf(x \o Decode(a + 1, offset[p])))'
    BY <2>1, <2>2, <2>3, <2>4, <2>5
  <2> QED
    BY <2>1, <2>2, <2>5, <2>6, <2>7, <2>8 DEF Follows
<1>5. ASSUME NEW p \in Pollers
      PROVE  /\ (pc[p] # "waiting" /\ ~running[p] => ~alive)'
             /\ (pc[p] # "done" => Follows(p))'
             /\ (pc[p] = "done" => ~running[p] /\ shown[p] = LastOf(Decode(1, Len(file))))'
  BY <1>2, <1>4 DEF OutputInv
<1> QED
  BY <1>3, <1>5 DEF OutputInv

(* The other steps leave the file alone.                                   *)
LEMMA SameDecoded ==
  ASSUME file' = file, NEW first, NEW last
  PROVE  Decode(first, last)' = Decode(first, last)
BY DEF Decode, Starts, Belongs, Character

LEMMA SameFollows ==
  ASSUME NEW p \in Pollers, Follows(p), file' = file,
         offset'[p] = offset[p], shown'[p] = shown[p], behind'[p] = behind[p]
  PROVE  Follows(p)'
<1>1. PICK a \in Nat, x \in Seq(Marks) :
        /\ IsText(x) /\ \A r \in MarksOf(x) : r.at <= a
        /\ a <= offset[p]
        /\ shown[p] = LastOf(x \o Decode(a + 1, offset[p]))
        /\ offset[p] = a \/ file[offset[p]] = "n"
        /\ \/ a = 0 /\ x = <<>>
           \/ behind[p] /\ Len(file) >= a + Width * TailChars
  BY DEF Follows
<1>2. PICK o : o = offset[p]
  OBVIOUS
<1>3. Decode(a + 1, o)' = Decode(a + 1, o)
  BY SameDecoded
<1>4. Decode(a + 1, offset[p])' = Decode(a + 1, o)'
  BY <1>2 DEF Decode, Starts, Belongs, Character
<1>5. (shown[p] = LastOf(x \o Decode(a + 1, offset[p])))'
  BY <1>1, <1>2, <1>3, <1>4
<1> QED
  BY <1>1, <1>5 DEF Follows

LEMMA ReadStep ==
  ASSUME OutputInv, NEW p \in Pollers, ReadOutput(p)
  PROVE  OutputInv'
<1> DEFINE o == offset[p]
           start == StartOf(o)
           end == EndOf(start, running[p])
<1>1. /\ FileIsText /\ Len(file) \in Nat /\ o \in Nat /\ o <= Len(file)
      /\ running[p] \in BOOLEAN /\ shown[p] \in Seq(Marks) /\ behind[p] \in BOOLEAN
  BY DEF OutputInv, OutputTypeOK, FileIsText
<1>2. /\ start \in Nat /\ o <= start /\ start <= Len(file)
      /\ start > o => Len(file) >= start + Width * TailChars
      /\ end \in Nat /\ start <= end /\ end <= Len(file)
      /\ running[p] => end = start \/ file[end] = "n"
      /\ ~running[p] => end = Len(file)
  BY <1>1, ReadBounds
<1>3. /\ pc[p] = "reading"
      /\ shown' = [shown EXCEPT ![p] =
                     LastOf(shown[p] \o LastOf(Decode(start + 1, end)))]
      /\ offset' = [offset EXCEPT ![p] = end]
      /\ behind' = [behind EXCEPT ![p] = behind[p] \/ start > o]
      /\ pc' = [pc EXCEPT ![p] = IF running[p] THEN "waiting" ELSE "done"]
      /\ UNCHANGED <<file, alive, running>>
  BY DEF ReadOutput, OffsetAfter
<1> HIDE DEF start, end
<1>4. LastOf(shown[p] \o LastOf(Decode(start + 1, end))) \in Seq(Marks)
  <2>1. start + 1 \in Nat \ {0}
    BY <1>2
  <2>2. Decode(start + 1, end) \in Seq(Marks)
    BY <1>2, <2>1, DecodeIs DEF IsText
  <2>3. LastOf(Decode(start + 1, end)) \in Seq(Marks)
    BY <2>2, LastOfIs
  <2>4. shown[p] \o LastOf(Decode(start + 1, end)) \in Seq(Marks)
    BY <1>1, <2>3, ConcatProperties
  <2> QED
    BY <2>4, LastOfIs
<1>5. OutputTypeOK'
  <2>1. FileIsText'
    BY <1>1, <1>3 DEF FileIsText
  <2>2. \A q \in Pollers : offset'[q] <= Len(file)
    BY <1>2, <1>3 DEF OutputInv, OutputTypeOK
  <2> QED
    BY <1>1, <1>2, <1>3, <1>4, <2>1, <2>2 DEF OutputInv, OutputTypeOK
<1>6. /\ offset'[p] = end /\ shown'[p] = LastOf(shown[p] \o LastOf(Decode(start + 1, end)))
      /\ behind'[p] = (behind[p] \/ start > o)
      /\ pc'[p] = IF running[p] THEN "waiting" ELSE "done"
  BY <1>3 DEF OutputInv, OutputTypeOK
<1>7. PICK a \in Nat, x \in Seq(Marks) :
        /\ IsText(x) /\ \A r \in MarksOf(x) : r.at <= a
        /\ a <= end
        /\ shown'[p] = LastOf(x \o Decode(a + 1, end))
        /\ running[p] => end = a \/ file[end] = "n"
        /\ \/ a = 0 /\ x = <<>>
           \/ behind'[p] /\ Len(file) >= a + Width * TailChars
  <2>1. PICK b \in Nat, y \in Seq(Marks) :
          /\ IsText(y) /\ \A r \in MarksOf(y) : r.at <= b
          /\ b <= o
          /\ shown[p] = LastOf(y \o Decode(b + 1, o))
          /\ o = b \/ file[o] = "n"
          /\ \/ b = 0 /\ y = <<>>
             \/ behind[p] /\ Len(file) >= b + Width * TailChars
    BY <1>3 DEF OutputInv, Follows
  <2>2. CASE start = o
    <3>1. o = b \/ Boundary(o)
      <4>1. o # b => o \in 1 .. Len(file)
        BY <1>1, <2>1
      <4> QED
        BY <1>1, <2>1, <4>1, NewlineIsBoundary
    <3>2. o <= end /\ b <= end
      BY <1>1, <1>2, <2>1, <2>2
    <3>3. shown'[p] = LastOf(y \o Decode(b + 1, end))
      <4> HIDE DEF o
      <4> QED
        BY <1>1, <1>2, <1>6, <2>1, <2>2, <3>1, <3>2, ReadAdds
    <3>4. running[p] => end = b \/ file[end] = "n"
      BY <1>2, <2>1, <2>2
    <3>5. \/ b = 0 /\ y = <<>>
          \/ behind'[p] /\ Len(file) >= b + Width * TailChars
      BY <1>6, <2>1
    <3> QED
      BY <2>1, <3>2, <3>3, <3>4, <3>5
  <2>3. CASE start > o
    <3>1. IsText(shown[p]) /\ \A r \in MarksOf(shown[p]) : r.at <= o
      <4> HIDE DEF o
      <4> QED
        BY <1>1, <2>1, ShownIsText
    <3>2. \A r \in MarksOf(shown[p]) : r.at <= start
      <4>1. \A r \in MarksOf(shown[p]) : r \in Marks
        BY <1>1 DEF MarksOf
      <4>2. \A r \in MarksOf(shown[p]) : r.at \in Nat
        BY <4>1 DEF Marks
      <4> QED
        BY <1>1, <1>2, <3>1, <4>2
    <3>3. shown'[p] = LastOf(shown[p] \o Decode(start + 1, end))
      <4>1. start + 1 \in Nat \ {0}
        BY <1>2
      <4>2. Decode(start + 1, end) \in Seq(Marks)
        BY <1>2, <4>1, DecodeIs DEF IsText
      <4> QED
        BY <1>1, <1>6, <4>2, LastOfJoined
    <3>4. behind'[p] /\ Len(file) >= start + Width * TailChars
      BY <1>2, <1>6, <2>3
    <3> QED
      BY <1>1, <1>2, <3>1, <3>2, <3>3, <3>4
  <2> QED
    BY <1>1, <1>2, <2>2, <2>3
<1>8. CASE running[p]
  <2>1. Follows(p)'
    <3>1. PICK e \in Nat : e = end
      BY <1>2
    <3>2. Decode(a + 1, e)' = Decode(a + 1, e)
      BY <1>3, SameDecoded
    <3>3. Decode(a + 1, offset[p])' = Decode(a + 1, e)'
      BY <1>6, <3>1 DEF Decode, Starts, Belongs, Character
    <3>4. (shown[p] = LastOf(x \o Decode(a + 1, offset[p])))'
      BY <1>6, <1>7, <3>1, <3>2, <3>3
    <3>5. a <= offset'[p] /\ (offset'[p] = a \/ file'[offset'[p]] = "n")
      BY <1>3, <1>6, <1>7, <1>8
    <3>6. Len(file') = Len(file)
      BY <1>3
    <3> QED
      BY <1>7, <3>4, <3>5, <3>6 DEF Follows
  <2>2. pc'[p] = "waiting"
    BY <1>6, <1>8
  <2>3. ASSUME NEW q \in Pollers \ {p}
        PROVE  /\ (pc[q] # "waiting" /\ ~running[q] => ~alive)'
               /\ (pc[q] # "done" => Follows(q))'
               /\ (pc[q] = "done" => ~running[q] /\ shown[q] = LastOf(Decode(1, Len(file))))'
    <3>1. /\ pc'[q] = pc[q] /\ offset'[q] = offset[q] /\ shown'[q] = shown[q]
          /\ behind'[q] = behind[q]
      BY <1>3 DEF OutputInv, OutputTypeOK
    <3>2. Follows(q) => Follows(q)'
      BY <1>3, <3>1, SameFollows
    <3>3. Decode(1, Len(file))' = Decode(1, Len(file))
      BY <1>3 DEF Decode, Starts, Belongs, Character
    <3> QED
      BY <1>3, <3>1, <3>2, <3>3 DEF OutputInv
  <2> QED
    BY <1>5, <2>1, <2>2, <2>3 DEF OutputInv
<1>9. CASE ~running[p]
  <2>1. pc'[p] = "done" /\ end = Len(file) /\ running' = running /\ ~running'[p]
    BY <1>2, <1>3, <1>6, <1>9
  <2>2. shown'[p] = LastOf(Decode(1, Len(file)))
    <3>1. CASE a = 0 /\ x = <<>>
      <4>1. Decode(1, Len(file)) \in Seq(Marks)
        <5>1. 1 \in Nat \ {0}
          OBVIOUS
        <5> QED
          BY <1>1, <5>1, DecodeIs DEF IsText
      <4>2. <<>> \o Decode(1, Len(file)) = Decode(1, Len(file))
        BY <4>1
      <4>3. a + 1 = 1
        BY <3>1
      <4> QED
        BY <1>7, <2>1, <3>1, <4>2, <4>3
    <3>2. CASE Len(file) >= a + Width * TailChars
      BY <1>1, <1>7, <2>1, <3>2, TailIsEnough
    <3> QED
      BY <1>7, <3>1, <3>2
  <2>3. ~alive
    BY <1>3, <1>9 DEF OutputInv
  <2>4. Decode(1, Len(file))' = Decode(1, Len(file))
    BY <1>3 DEF Decode, Starts, Belongs, Character
  <2>5. (shown[p] = LastOf(Decode(1, Len(file))))'
    BY <2>2, <2>4
  <2>6. ASSUME NEW q \in Pollers \ {p}
        PROVE  /\ (pc[q] # "waiting" /\ ~running[q] => ~alive)'
               /\ (pc[q] # "done" => Follows(q))'
               /\ (pc[q] = "done" => ~running[q] /\ shown[q] = LastOf(Decode(1, Len(file))))'
    <3>1. /\ pc'[q] = pc[q] /\ offset'[q] = offset[q] /\ shown'[q] = shown[q]
          /\ behind'[q] = behind[q]
      BY <1>3 DEF OutputInv, OutputTypeOK
    <3>2. Follows(q) => Follows(q)'
      BY <1>3, <3>1, SameFollows
    <3> QED
      BY <1>3, <2>4, <3>1, <3>2 DEF OutputInv
  <2> QED
    BY <1>3, <1>5, <2>1, <2>3, <2>5, <2>6 DEF OutputInv
<1> QED
  BY <1>8, <1>9

(* Asking, a lost answer and the script's end.                             *)
LEMMA OtherOutputStep ==
  ASSUME OutputInv,
         \/ Exit
         \/ \E p \in Pollers : AskRunning(p) \/ AnswerLost(p)
         \/ UNCHANGED outputVars
  PROVE  OutputInv'
<1>1. UNCHANGED <<file, offset, shown, behind>>
  BY DEF Exit, AskRunning, AnswerLost, outputVars
<1>2. OutputTypeOK'
  <2>1. FileIsText'
    BY <1>1 DEF OutputInv, OutputTypeOK, FileIsText
  <2>2. /\ alive' \in BOOLEAN
        /\ pc' \in [Pollers -> {"waiting", "reading", "done"}]
        /\ running' \in [Pollers -> BOOLEAN]
    BY DEF Exit, AskRunning, AnswerLost, outputVars, OutputInv, OutputTypeOK
  <2> QED
    BY <1>1, <2>1, <2>2 DEF OutputInv, OutputTypeOK
<1>3. Decode(1, Len(file))' = Decode(1, Len(file))
  BY <1>1 DEF Decode, Starts, Belongs, Character
<1>4. ASSUME NEW q \in Pollers
      PROVE  /\ (pc[q] # "waiting" /\ ~running[q] => ~alive)'
             /\ pc'[q] = "done" => pc[q] = "done" /\ running'[q] = running[q]
             /\ pc[q] = "done" => pc'[q] = "done"
  BY DEF Exit, AskRunning, AnswerLost, outputVars, OutputInv, OutputTypeOK
<1>5. ASSUME NEW q \in Pollers
      PROVE  /\ (pc[q] # "done" => Follows(q))'
             /\ (pc[q] = "done" => ~running[q] /\ shown[q] = LastOf(Decode(1, Len(file))))'
  <2>1. Follows(q) => Follows(q)'
    BY <1>1, SameFollows
  <2> QED
    BY <1>1, <1>3, <1>4, <2>1 DEF OutputInv
<1> QED
  BY <1>2, <1>4, <1>5 DEF OutputInv

LEMMA OutputHolds == OutputSpec => []OutputInv
<1>1. OutputInv /\ [OutputNext]_outputVars => OutputInv'
  BY WriteStep, ReadStep, OtherOutputStep DEF OutputNext
<1> QED
  BY <1>1, OutputStart, PTL DEF OutputSpec

(* Up to a newline every character is whole.                               *)
LEMMA LinesAreWhole ==
  ASSUME FileIsText, NEW o \in Nat, o <= Len(file), o = 0 \/ file[o] = "n",
         NEW r \in MarksOf(Decode(1, o))
  PROVE  r.whole
<1>1. /\ MarksOf(Decode(1, o)) = CharsOf(1, o)
      /\ \A x \in MarksOf(Decode(1, o)) : x.at \in 1 .. o
  <2>1. 1 \in Nat \ {0}
    OBVIOUS
  <2> QED
    BY <2>1, DecodeIs
<1>2. PICK i \in Starts(1, o) : r = Character(i, o)
  BY <1>1 DEF CharsOf
<1>3. i \in 1 .. o /\ i \in 1 .. Len(file) /\ Len(file) \in Nat /\ o # 0 /\ Width \in Nat \ {0, 1}
  BY <1>2, OutputFacts DEF FileIsText, Starts
<1>4. file[i] # "t"
  <2> SUFFICES ASSUME file[i] = "t" PROVE FALSE
    OBVIOUS
  <2>1. PICK l \in 1 .. i - 1 : file[l] = "h" /\ i < l + Width
    BY <1>3, LeadOf
  <2>2. l \in 1 .. o
    BY <1>3
  <2> QED
    BY <1>2, <2>1, <2>2 DEF Starts, Belongs
<1>5. file[i] \in Bytes
  BY <1>3 DEF FileIsText
<1>6. CASE file[i] = "h"
  <2>1. \A k \in i + 1 .. Len(file) : k < i + Width => file[k] = "t"
    BY <1>3, <1>6 DEF FileIsText
  <2>2. i # o
    BY <1>3, <1>6
  <2>3. i + Width - 1 <= o
    <3> SUFFICES ASSUME ~(i + Width - 1 <= o) PROVE FALSE
      OBVIOUS
    <3>1. o \in i + 1 .. Len(file) /\ o < i + Width
      BY <1>3, <2>2
    <3> QED
      BY <1>3, <2>1, <3>1
  <2>4. \A k \in i + 1 .. i + Width - 1 : file[k] = "t"
    BY <1>3, <2>1, <2>3
  <2> QED
    BY <1>2, <1>6, <2>3, <2>4 DEF Character
<1>7. CASE file[i] \in {"c", "n"}
  BY <1>2, <1>7 DEF Character
<1> QED
  BY <1>4, <1>5, <1>6, <1>7 DEF Bytes

(* For any output, pollers and lost answers, and for characters of any     *)
(* width: what a task shows is the end of the text, each character whole   *)
(* and once, while it keeps up; and when it learns that the job is over it *)
(* holds the exact end, though it fell behind.                             *)
THEOREM OutputIsShown == OutputSpec => []OutputIsRight
<1>1. OutputInv => OutputIsRight
  <2> SUFFICES ASSUME OutputInv PROVE OutputIsRight
    OBVIOUS
  <2>1. FileIsText /\ \A p \in Pollers : offset[p] \in Nat /\ offset[p] <= Len(file)
    BY DEF OutputInv, OutputTypeOK
  <2>2. ASSUME NEW p \in Pollers, pc[p] # "done"
        PROVE  /\ IsText(shown[p])
               /\ ~behind[p] => /\ shown[p] = LastOf(Decode(1, offset[p]))
                                /\ \A n \in DOMAIN shown[p] : shown[p][n].whole
    <3>1. PICK a \in Nat, x \in Seq(Marks) :
            /\ IsText(x) /\ \A r \in MarksOf(x) : r.at <= a
            /\ a <= offset[p]
            /\ shown[p] = LastOf(x \o Decode(a + 1, offset[p]))
            /\ offset[p] = a \/ file[offset[p]] = "n"
            /\ \/ a = 0 /\ x = <<>>
               \/ behind[p] /\ Len(file) >= a + Width * TailChars
      BY <2>2 DEF OutputInv, Follows
    <3>2. PICK o \in Nat : o = offset[p] /\ o <= Len(file)
      BY <2>1
    <3>3. IsText(LastOf(x \o Decode(a + 1, o)))
      BY <3>1, <3>2, ShownIsText
    <3>4. ASSUME ~behind[p]
          PROVE  /\ shown[p] = LastOf(Decode(1, offset[p]))
                 /\ \A n \in DOMAIN shown[p] : shown[p][n].whole
      <4>1. IsText(Decode(1, o)) /\ Decode(1, o) \in Seq(Marks)
        <5>1. 1 \in Nat \ {0}
          OBVIOUS
        <5> QED
          BY <5>1, DecodeIs DEF IsText
      <4>2. a = 0 /\ x = <<>> /\ a + 1 = 1
        BY <3>1, <3>4
      <4>3. shown[p] = LastOf(Decode(1, o))
        BY <3>1, <3>2, <4>1, <4>2
      <4>4. \A r \in MarksOf(shown[p]) : r.whole
        <5>1. MarksOf(shown[p]) \subseteq MarksOf(Decode(1, o))
          BY <4>1, <4>3, LastOfText
        <5>2. o = 0 \/ file[o] = "n"
          BY <3>1, <3>2, <4>2
        <5> QED
          BY <2>1, <3>2, <5>1, <5>2, LinesAreWhole
      <4> QED
        BY <3>2, <4>3, <4>4 DEF MarksOf
    <3> QED
      BY <3>1, <3>2, <3>3, <3>4
  <2>3. ASSUME NEW p \in Pollers, pc[p] = "done"
        PROVE  IsText(shown[p])
    <3>1. shown[p] = LastOf(Decode(1, Len(file)))
      BY <2>3 DEF OutputInv
    <3>2. 1 \in Nat \ {0} /\ Len(file) \in Nat
      BY <2>1 DEF FileIsText
    <3> QED
      BY <3>1, <3>2, DecodeIs, LastOfText
  <2>4. ShownIsPrefix
    BY <2>2 DEF ShownIsPrefix
  <2>5. ShownOnce
    BY <2>2, <2>3 DEF ShownOnce, IsText
  <2>6. FinalTailExact
    BY DEF FinalTailExact, OutputInv
  <2> QED
    BY <2>4, <2>5, <2>6 DEF OutputIsRight
<1> QED
  BY <1>1, OutputHolds, PTL
=============================================================================
