------------------------------ MODULE Accounts ------------------------------
(***************************************************************************)
(* Accounts and the requests of administrators on them:                    *)
(* api/routes/auth.py and require_authenticated_user of api/auth.py.       *)
(*                                                                         *)
(* A browser session carries the id, name and role its login returned, for *)
(* hours, whatever becomes of the account: a session may be used at any    *)
(* time after its account was made.  The web proxy signs the session's     *)
(* identity anew with every request it forwards.                           *)
(* The API authenticates the request against the account row, loads the    *)
(* row to be changed, and commits: three statements between which other    *)
(* requests commit.  A row that did not look changed is not written.       *)
(***************************************************************************)
EXTENDS Naturals, FiniteSets

CONSTANTS
  Ids,       \* uuid4 values of accounts; each is used once
  Names,     \* user names
  Requests,  \* requests that may be under way at once
  MaxAge,    \* IDENTITY_MAX_AGE_SECONDS, in ticks
  Founders,  \* accounts that exist at first: id -> name; all are admins
  NoName,    \* the name of an id not in use
  NoId       \* no target

ASSUME AccountsAssumption ==
  /\ MaxAge \in Nat
  /\ NoName \notin Names
  /\ NoId \notin Ids
  /\ DOMAIN Founders \subseteq Ids
  /\ \A a \in DOMAIN Founders : Founders[a] \in Names

Roles == {"admin", "user"}
Kinds == {"create", "reset", "disable", "enable", "delete"}

VARIABLES
  account,   \* user_account: name, role, is_active of each id
  session,   \* what a login to each id returned: its name and role
  request    \* the requests under way

accountVars == <<account, session, request>>

NoAccount == [name |-> NoName, role |-> "user", active |-> FALSE]
NoSession == [name |-> NoName, role |-> "user"]
Idle == [pc |-> "idle"]

Exists(a) == account[a].name # NoName
AdminRow(row) == row.name # NoName /\ row.active /\ row.role = "admin"
Admin(a) == AdminRow(account[a])
Admins == {a \in Ids : Admin(a)}

AccountsInit ==
  /\ account = [a \in Ids |->
       IF a \in DOMAIN Founders
       THEN [name |-> Founders[a], role |-> "admin", active |-> TRUE]
       ELSE NoAccount]
  /\ session = [a \in Ids |->
       IF a \in DOMAIN Founders
       THEN [name |-> Founders[a], role |-> "admin"] ELSE NoSession]
  /\ request = [r \in Requests |-> Idle]

-----------------------------------------------------------------------------
(* The browser and the proxy.                                              *)

Used == {a \in Ids : session[a] # NoSession}

(* The proxy signs the session's identity as of now.  "revoked" remembers  *)
(* that its account was no active administrator at any time since.         *)
Forward(r, a, kind, target, name, role) ==
  /\ request[r] = Idle
  /\ request' = [request EXCEPT ![r] =
       [pc |-> "forwarded", by |-> a, kind |-> kind, target |-> target,
        name |-> name, role |-> role, age |-> 0, seen |-> FALSE,
        revoked |-> ~Admin(a)]]
  /\ UNCHANGED <<account, session>>

(* A request waits for an API that was scaled to zero.                     *)
Wait(r) ==
  /\ request[r].pc = "forwarded"
  /\ request[r].age <= MaxAge
  /\ request' = [request EXCEPT ![r].age = @ + 1]
  /\ UNCHANGED <<account, session>>

-----------------------------------------------------------------------------
(* The API.                                                                *)

(* Mutant: the account is looked up by the name in the identity.           *)
Accepted_ByName(a) ==
  \E b \in Ids : /\ Exists(b) /\ account[b].active
                 /\ account[b].name = session[a].name

(* The account row of the identity: active, and still as at the login.     *)
Accepted(a) ==
  /\ Exists(a) /\ account[a].active
  /\ account[a].name = session[a].name /\ account[a].role = session[a].role

(* Mutant: everybody may disable or delete.                                *)
Refused_Never(r) == FALSE

(* "Cannot disable yourself", "Cannot delete yourself".                    *)
Refused(r) ==
  request[r].kind \in {"disable", "delete"} /\ request[r].target = request[r].by

MayAct(r) ==
  /\ request[r].age <= MaxAge
  /\ Accepted(request[r].by)
  /\ session[request[r].by].role = "admin"
  /\ ~Refused(r)

(* require_admin and the first check of the route.                         *)
Authenticate(r) ==
  /\ request[r].pc = "forwarded"
  /\ MayAct(r)
  /\ request' = [request EXCEPT ![r].pc = "admitted"]
  /\ UNCHANGED <<account, session>>

(* 400, 401, 403.                                                          *)
Reject(r) ==
  /\ request[r].pc = "forwarded"
  /\ ~MayAct(r)
  /\ request' = [request EXCEPT ![r] = Idle]
  /\ UNCHANGED <<account, session>>

Taken(name) == \E a \in Ids : account[a].name = name

(* create_user asks for the name, the others load the row: 409, 404 ...    *)
Missing(r) ==
  IF request[r].kind = "create" THEN Taken(request[r].name)
  ELSE ~Exists(request[r].target)

NotFound(r) ==
  /\ request[r].pc = "admitted"
  /\ Missing(r)
  /\ request' = [request EXCEPT ![r] = Idle]
  /\ UNCHANGED <<account, session>>

(* ... or what the row says now.                                           *)
Load(r) ==
  /\ request[r].pc = "admitted"
  /\ ~Missing(r)
  /\ request' = [request EXCEPT ![r].pc = "loaded",
       ![r].seen = request[r].kind # "create" /\ account[request[r].target].active]
  /\ UNCHANGED <<account, session>>

(* The row as UPDATE leaves it; an unchanged attribute is not written.     *)
Updated(r) ==
  LET row == account[request[r].target]
  IN  CASE request[r].kind = "disable" /\ request[r].seen  -> [row EXCEPT !.active = FALSE]
        [] request[r].kind = "enable" /\ ~request[r].seen -> [row EXCEPT !.active = TRUE]
        [] OTHER -> row

(* The request is answered; the others learn what became of their sender.  *)
Answered(r) ==
  [q \in Requests |->
     IF q = r \/ request[q] = Idle THEN Idle
     ELSE [request[q] EXCEPT !.revoked = @ /\ ~AdminRow(account'[request[q].by])]]

(* The UPDATE of reset-password, disable and enable; a row deleted since   *)
(* is a StaleDataError (500). Passwords are not told apart.                *)
CommitUpdate(r) ==
  /\ request[r].pc = "loaded"
  /\ request[r].kind \in {"reset", "disable", "enable"}
  /\ account' = IF Exists(request[r].target)
                THEN [account EXCEPT ![request[r].target] = Updated(r)]
                ELSE account
  /\ request' = Answered(r)
  /\ UNCHANGED session

CommitDelete(r) ==
  /\ request[r].pc = "loaded"
  /\ request[r].kind = "delete"
  /\ account' = [account EXCEPT ![request[r].target] = NoAccount]
  /\ request' = Answered(r)
  /\ UNCHANGED session

(* The INSERT, or the unique constraint on user names (500).               *)
CommitCreate(r) ==
  /\ request[r].pc = "loaded"
  /\ request[r].kind = "create"
  /\ IF Taken(request[r].name)
     THEN UNCHANGED <<account, session>>
     ELSE \E a \in Ids \ Used :
            /\ account' = [account EXCEPT ![a] =
                 [name |-> request[r].name, role |-> request[r].role, active |-> TRUE]]
            /\ session' = [session EXCEPT ![a] =
                 [name |-> request[r].name, role |-> request[r].role]]
  /\ request' = Answered(r)

Commit(r) == CommitUpdate(r) \/ CommitDelete(r) \/ CommitCreate(r)

(* A request ends anywhere: the API restarts, the database is lost.        *)
Lost(r) ==
  /\ request[r] # Idle
  /\ request' = [request EXCEPT ![r] = Idle]
  /\ UNCHANGED <<account, session>>

Send(r, a) ==
  \/ \E kind \in Kinds \ {"create"} : \E target \in Used :
       Forward(r, a, kind, target, NoName, "user")
  \/ \E name \in Names, role \in Roles : Forward(r, a, "create", NoId, name, role)

AccountsNext ==
  \E r \in Requests :
    \/ \E a \in Used : Send(r, a)
    \/ Wait(r) \/ Authenticate(r) \/ Reject(r) \/ NotFound(r) \/ Load(r)
    \/ Commit(r) \/ Lost(r)

AccountsSpec == AccountsInit /\ [][AccountsNext]_accountVars

-----------------------------------------------------------------------------
(* Properties.                                                             *)

(* The last administrator goes only by the hand of somebody who is no      *)
(* administrator any more: two who disable each other at the same time can *)
(* do it, one alone, or one after the other, cannot.                       *)
LastAdminStands ==
  [][Admins # {} /\ Admins' = {} =>
       \E r \in Requests : Commit(r) /\ request[r].by \notin Admins]_accountVars

(* What a request does to an account, it does for an account that was an   *)
(* active administrator at some time since the proxy forwarded it: neither *)
(* an old session of a disabled or deleted account nor that of an earlier  *)
(* owner of the name changes anything.                                     *)
RevokedChangesNothing ==
  [][\A r \in Requests : Commit(r) /\ account' # account => ~request[r].revoked]_accountVars
=============================================================================
