-------------------------------- MODULE Accounts --------------------------------
(***************************************************************************)
(* Accounts and login sessions: AuthService and AccountService over the    *)
(* accounts table in PostgreSQL, the sessions and the login counters in    *)
(* Redis, shared by the requests the API serves at once.                   *)
(*                                                                         *)
(* A request's transaction is READ COMMITTED: what it reads is committed,  *)
(* what it writes is its own, under a row lock, until the audit record     *)
(* commits.  Redis commands take effect at once.                           *)
(***************************************************************************)
EXTENDS Integers, FiniteSets

CONSTANTS
    Account,
    Request,      \* requests the API serves at the same time
    NoRequest,
    Token,        \* session tokens; one nobody holds is a new one
    Attempts,     \* KNOWAGENT_LOGIN_ATTEMPTS
    SameAccount,  \* requests may change one account at the same time
    MaxVersion    \* bound on the changes of an account

ASSUME AccountAssumption == IsFiniteSet(Account)
ASSUME RequestAssumption == IsFiniteSet(Request) /\ NoRequest \notin Request
ASSUME AttemptsAssumption == Attempts \in Nat \ {0}
ASSUME SameAccountAssumption == SameAccount \in BOOLEAN
ASSUME BoundAssumption == MaxVersion \in Nat \ {0}

VARIABLES
    account,   \* the committed rows of accounts
    locked,    \* the request that holds the row's lock
    request,   \* what each request under way remembers
    session,   \* Redis: the session of a token
    failures   \* Redis: failed logins of an account within the window

vars == <<account, locked, request, session, failures>>

-----------------------------------------------------------------------------
(* SYSTEM_OWNER takes the branches of USER in all that follows.            *)
AccountRole == {"USER", "ADMIN"}

AccountStatus == {"ACTIVE", "DISABLED"}

(* "version" is the optimistic lock: every UPDATE counts it up.            *)
Row == [role    : AccountRole,
        status  : AccountStatus \cup {"ABSENT"},
        session : Nat,                           \* session_version
        version : Nat]

NewRow(role) == [role |-> role, status |-> "ACTIVE", session |-> 1, version |-> 1]

Absent == [NewRow("USER") EXCEPT !.status = "ABSENT"]

(* "indexed": the token is in the account's set of sessions.  "version" is *)
(* that of the row the session was made from.                              *)
Session == [account : Account, session : Nat, version : Nat, indexed : BOOLEAN]

NoSession == [indexed |-> FALSE]

(* A change of an account: set_status, set_role, change_password.          *)
Change == [field : {"status"}, to : AccountStatus]
              \cup [field : {"role"}, to : AccountRole]
              \cup [field : {"password"}, to : {"new"}]

(* "read" is the Account the service holds, a copy of the row.             *)
Frame == [pc : {"idle"}]
    \cup [pc : {"verify"}, account : Account]
    \cup [pc : {"login"}, account : Account, read : Row]
    \cup [pc : {"lock", "save", "revoke"}, account : Account, read : Row,
          change : Change]
    \cup [pc : {"delete"}, account : Account, read : Row, change : Change,
          keys : SUBSET Token]
    \cup [pc : {"session", "commit"}, account : Account, read : Row,
          change : Change]

Idle == [pc |-> "idle"]

At(r, pc) == request[r].pc = pc

ActiveAdmin(row) == row.role = "ADMIN" /\ row.status = "ACTIVE"

ActiveAdmins == {a \in Account : ActiveAdmin(account[a])}

(* authenticate_session: it reads the account again.                       *)
Accepted(s) ==
    /\ account[s.account].status = "ACTIVE"
    /\ account[s.account].session = s.session

SetRequest(r, frame) == request' = [request EXCEPT ![r] = frame]

Continue(r, pc) ==
    SetRequest(r, [pc |-> pc, account |-> request[r].account,
                   read |-> request[r].read, change |-> request[r].change])

(* The end of the transaction.                                             *)
Release(r) == locked' = [a \in Account |-> IF locked[a] = r THEN NoRequest
                                                          ELSE locked[a]]

Init ==
    /\ account \in [Account -> {Absent, NewRow("USER"), NewRow("ADMIN")}]
    /\ ActiveAdmins # {}
    /\ locked = [a \in Account |-> NoRequest]
    /\ request = [r \in Request |-> Idle]
    /\ session = [t \in Token |-> NoSession]
    /\ failures = [a \in Account |-> 0]

-----------------------------------------------------------------------------
(* Login and logout.                                                       *)

(* Mutant of Allowed: one failure too many.                                *)
AllowedOnceMore(a) == failures[a] <= Attempts

(* The limiter compares now and counts later.                              *)
Allowed(a) == failures[a] < Attempts

StartLogin(r, a) ==
    /\ At(r, "idle")
    /\ Allowed(a)
    /\ SetRequest(r, [pc |-> "verify", account |-> a])
    /\ UNCHANGED <<account, locked, session, failures>>

LoginFails(r) ==
    /\ At(r, "verify")
    /\ failures' = [failures EXCEPT ![request[r].account] = @ + 1]
    /\ SetRequest(r, Idle)
    /\ UNCHANGED <<account, locked, session>>

(* The password is right and the entry admits the account.                 *)
LoginSucceeds(r) ==
    LET a == request[r].account
    IN  /\ At(r, "verify")
        /\ account[a].status = "ACTIVE"
        /\ failures' = [failures EXCEPT ![a] = 0]
        /\ SetRequest(r, [pc |-> "login", account |-> a, read |-> account[a]])
        /\ UNCHANGED <<account, locked, session>>

WindowEnds(a) ==
    /\ failures' = [failures EXCEPT ![a] = 0]
    /\ UNCHANGED <<account, locked, request, session>>

CreateSession(made) ==
    \E t \in {u \in Token : session[u] = NoSession} :
        session' = [session EXCEPT ![t] = made]

OpenSession(r) ==
    LET read == request[r].read
    IN  /\ At(r, "login")
        /\ CreateSession([account |-> request[r].account,
                          session |-> read.session, version |-> read.version,
                          indexed |-> TRUE])
        /\ SetRequest(r, Idle)
        /\ UNCHANGED <<account, locked, failures>>

(* A logout, the end of the lifetime, or a session not accepted.           *)
SessionEnds(t) ==
    /\ session' = [session EXCEPT ![t] = NoSession]
    /\ UNCHANGED <<account, locked, request, failures>>

-----------------------------------------------------------------------------
(* Changes of an account.                                                  *)

CreateAccount(a, role) ==
    /\ account[a].status = "ABSENT"
    /\ account' = [account EXCEPT ![a] = NewRow(role)]
    /\ UNCHANGED <<locked, request, session, failures>>

(* Mutant of ProtectsAdmin: changes of role are not looked at.             *)
ProtectsAdminStatus(read, change) ==
    change.field = "status" /\ read.role = "ADMIN" /\ change.to = "DISABLED"

(* Whether a change may take the last active administrator away.           *)
ProtectsAdmin(read, change) ==
    \/ /\ change.field = "status" /\ change.to = "DISABLED"
       /\ read.role = "ADMIN"
    \/ /\ change.field = "role" /\ change.to # "ADMIN"
       /\ ActiveAdmin(read)

Changing(a) ==
    \E r \in Request : request[r].pc \notin {"idle", "verify", "login"}
                           /\ request[r].account = a

(* get_by_id, and the checks that follow it.                               *)
StartChange(r, a, change) ==
    /\ At(r, "idle")
    /\ SameAccount \/ ~Changing(a)
    /\ account[a].status # "ABSENT"
    /\ change.field = "role" => account[a].role # change.to
    /\ SetRequest(r, [pc |-> IF ProtectsAdmin(account[a], change)
                               THEN "lock" ELSE "save",
                      account |-> a, read |-> account[a], change |-> change])
    /\ UNCHANGED <<account, locked, session, failures>>

(* lock_active_admins waits for the rows other transactions hold.          *)
LockAdmins(r) ==
    /\ At(r, "lock")
    /\ \A a \in ActiveAdmins : locked[a] \in {NoRequest, r}
    /\ IF Cardinality(ActiveAdmins) <= 1
         THEN SetRequest(r, Idle) /\ Release(r)
         ELSE /\ Continue(r, "save")
              /\ locked' = [a \in Account |->
                     IF a \in ActiveAdmins THEN r ELSE locked[a]]
    /\ UNCHANGED <<account, session, failures>>

(* Mutant of Changed: a change of status leaves session_version.           *)
ChangedQuietly(r) ==
    LET read   == request[r].read
        change == request[r].change
    IN  CASE change.field = "status" ->
                 [read EXCEPT !.status = change.to, !.version = @ + 1]
          [] change.field = "role" ->
                 [read EXCEPT !.role = change.to, !.session = @ + 1,
                              !.version = @ + 1]
          [] OTHER -> [read EXCEPT !.session = @ + 1, !.version = @ + 1]

(* What replace() makes of the copy: every column of it is written.        *)
Changed(r) ==
    LET read   == request[r].read
        change == request[r].change
        row    == [read EXCEPT !.session = @ + 1,
                               !.version = account[request[r].account].version + 1]
    IN  CASE change.field = "status" -> [row EXCEPT !.status = change.to]
          [] change.field = "role"   -> [row EXCEPT !.role = change.to]
          [] OTHER                   -> row

(* save reads the row again, for the session's identity map has let go of  *)
(* the record the copy was made from.  So version_id_col compares with the *)
(* version of now, and the UPDATE goes through once it has the row's lock; *)
(* a change between this read and the UPDATE is an Abort.                  *)
Save(r) ==
    LET a == request[r].account
    IN  /\ At(r, "save")
        /\ locked[a] \in {NoRequest, r}
        /\ account[a].version < MaxVersion
        /\ locked' = [locked EXCEPT ![a] = r]
        /\ Continue(r, "revoke")
        /\ UNCHANGED <<account, session, failures>>

(* Mutant of SessionsOf: those of no use now are passed over.              *)
AcceptedSessionsOf(a) ==
    {t \in Token : session[t].indexed /\ session[t].account = a
                                      /\ Accepted(session[t])}

SessionsOf(a) ==
    {t \in Token : session[t].indexed /\ session[t].account = a}

(* revoke_account: the set is read, then it and its sessions are deleted.  *)
RevokeRead(r) ==
    LET a == request[r].account
    IN  /\ At(r, "revoke")
        /\ SetRequest(r, [pc |-> "delete", account |-> a,
                          read |-> request[r].read,
                          change |-> request[r].change, keys |-> SessionsOf(a)])
        /\ UNCHANGED <<account, locked, session, failures>>

RevokeDelete(r) ==
    LET a == request[r].account
    IN  /\ At(r, "delete")
        /\ session' = [t \in Token |->
               IF t \in request[r].keys \/ session[t] = NoSession THEN NoSession
               ELSE [session[t] EXCEPT !.indexed = @ /\ session[t].account # a]]
        /\ Continue(r, IF request[r].change.field = "password"
                         THEN "session" ELSE "commit")
        /\ UNCHANGED <<account, locked, failures>>

(* The new session of a changed password, before the commit.               *)
ReopenSession(r) ==
    LET row == Changed(r)
    IN  /\ At(r, "session")
        /\ CreateSession([account |-> request[r].account,
                          session |-> row.session, version |-> row.version,
                          indexed |-> TRUE])
        /\ Continue(r, "commit")
        /\ UNCHANGED <<account, locked, failures>>

(* The audit sink commits.                                                 *)
Commit(r) ==
    /\ At(r, "commit")
    /\ account' = [account EXCEPT ![request[r].account] = Changed(r)]
    /\ SetRequest(r, Idle)
    /\ Release(r)
    /\ UNCHANGED <<session, failures>>

(* StaleDataError, an error of Redis or the database, a crash: rollback.   *)
Abort(r) ==
    /\ ~At(r, "idle")
    /\ SetRequest(r, Idle)
    /\ Release(r)
    /\ UNCHANGED <<account, session, failures>>

RequestStep(r) ==
    \/ LoginFails(r) \/ LoginSucceeds(r) \/ OpenSession(r)
    \/ LockAdmins(r) \/ Save(r) \/ RevokeRead(r) \/ RevokeDelete(r)
    \/ ReopenSession(r) \/ Commit(r) \/ Abort(r)

Next ==
    \/ \E r \in Request, a \in Account :
          \/ StartLogin(r, a)
          \/ \E change \in Change : StartChange(r, a, change)
    \/ \E r \in Request : RequestStep(r)
    \/ \E a \in Account : \/ WindowEnds(a)
                          \/ \E role \in AccountRole : CreateAccount(a, role)
    \/ \E t \in Token : SessionEnds(t)

Spec == Init /\ [][Next]_vars

-----------------------------------------------------------------------------
(* Every variable holds a value of its type.                               *)
TypeOK ==
    /\ account \in [Account -> Row]
    /\ locked \in [Account -> Request \cup {NoRequest}]
    /\ request \in [Request -> Frame]
    /\ session \in [Token -> Session \cup {NoSession}]
    /\ failures \in [Account -> Nat]

(* There is always an administrator who can log in, whatever changes of    *)
(* status, role and password run at the same time.                         *)
AnActiveAdmin == ActiveAdmins # {}

(* A session made from an older state of the account is not accepted any   *)
(* more: not one a login opened after the revocation, nor one of a time    *)
(* before the account was disabled and enabled again.                      *)
OldSessionsRejected ==
    \A t \in Token :
        /\ session[t] # NoSession
        /\ Accepted(session[t])
        => session[t].version = account[session[t].account].version

(* A session that is not accepted never will be, but for the one that a    *)
(* change of the password has opened before its own commit: the session of *)
(* a change that was undone is not let in by a later one that reaches the  *)
(* version it names (AuthService.change_password).                         *)
Admitted(t) ==
    /\ session[t] # NoSession /\ ~Accepted(session[t])
    /\ session'[t] # NoSession /\ Accepted(session[t])'

OnlyItsCommitAdmits ==
    [][\A t \in Token : Admitted(t) =>
          /\ \E r \in Request :
                /\ At(r, "commit") /\ request'[r] = Idle
                /\ request[r].change.field = "password"
                /\ request[r].account = session[t].account
          /\ \A u \in Token : Admitted(u) => u = t]_vars

(* Requests that pass the limiter together fail together: the count goes   *)
(* beyond the limit, but by no more than the others under way.  The        *)
(* variables keep their types.                                             *)
FailuresBounded ==
    /\ TypeOK
    /\ \A a \in Account : failures[a] < Attempts + Cardinality(Request)
=============================================================================
