--------------------------------- MODULE Access ---------------------------------
(***************************************************************************)
(* Business systems, their owners, and who may work on a system: the       *)
(* administrators' requests of SystemService, each a transaction, and the  *)
(* sessions they revoke.  `status` and `owners` are what is committed;     *)
(* what a transaction has written is in its frame until it commits.        *)
(*                                                                         *)
(* Roles do not change here, and active accounts stay active: that is      *)
(* Accounts.                                                               *)
(***************************************************************************)
CONSTANTS
    Request,         \* requests the API handles at the same time
    System,          \* business systems, by their code
    Account,
    Owner,           \* the accounts with the role SYSTEM_OWNER, and
    Administrator    \* ADMIN; the others are USERs

VARIABLES
    status,          \* business_systems
    owners,          \* account_system_roles: the owners of a system
    session,         \* Redis: the accounts with a session
    edit             \* the administrators' requests under way

vars == <<status, owners, session, edit>>

BusinessSystemStatus == {"ACTIVE", "DISABLED"}

(* previous: the owners read at first.  rows: those the DELETE has found;  *)
(* for a request that adds, the owners it has read.  deleted, inserted:    *)
(* what the transaction has written.  revoke: whose sessions it will end.  *)
Edit == [at : {"idle"}]
    \cup [at : {"add", "added", "save", "saved"}, system : System,
          status : BusinessSystemStatus]
    \cup [at : {"check", "find", "delete", "insert", "read", "revoke"},
          system : System, accounts : SUBSET Account, replace : BOOLEAN,
          previous : SUBSET Account, rows : SUBSET Account,
          deleted : SUBSET Account, inserted : SUBSET Account,
          revoke : SUBSET Account]

NoEdit == [at |-> "idle"]

Exists(s) == status[s] # "absent"

Continue(r, frame) == edit' = [edit EXCEPT ![r] = frame]

GoOn(r, at) == Continue(r, [edit[r] EXCEPT !.at = at])

Others(r, ats) ==
    {q \in Request \ {r} : edit[q].at \in ats /\ edit[q].system = edit[r].system}

Init ==
    /\ status \in [System -> BusinessSystemStatus \cup {"absent"}]
    /\ owners = [s \in System |-> {}]
    /\ session = Account
    /\ edit = [r \in Request |-> NoEdit]

-----------------------------------------------------------------------------
(* Who may ask about a system.  allow_user: questions, not management.     *)
require_system_access(s, a, allow_user) ==
    /\ Exists(s)
    /\ \/ a \in Administrator
       \/ a \in Owner /\ a \in owners[s]
       \/ a \notin Administrator \cup Owner /\ allow_user
              /\ status[s] = "ACTIVE"

log_in(a) ==
    /\ a \notin session
    /\ session' = session \cup {a}
    /\ UNCHANGED <<status, owners, edit>>

-----------------------------------------------------------------------------
create_system(r, s, to) ==
    /\ edit[r].at = "idle" /\ ~Exists(s)
    /\ Continue(r, [at |-> "add", system |-> s, status |-> to])
    /\ UNCHANGED <<status, owners, session>>

(* The unique code: the INSERT waits for another that is not committed.    *)
add(r) ==
    /\ edit[r].at = "add"
    /\ Others(r, {"added"}) = {}
    /\ IF Exists(edit[r].system) THEN Continue(r, NoEdit) ELSE GoOn(r, "added")
    /\ UNCHANGED <<status, owners, session>>

(* A request names the new status, or another column and the status that   *)
(* it reads is written back.                                               *)
update_system(r, s) ==
    /\ edit[r].at = "idle" /\ Exists(s)
    /\ \E to \in BusinessSystemStatus :
          Continue(r, [at |-> "save", system |-> s, status |-> to])
    /\ UNCHANGED <<status, owners, session>>

(* save reads the row again, so the version its UPDATE compares is that of *)
(* now; an UPDATE that has waited for the row's lock finds it changed, and *)
(* is undone (RollBack).                                                   *)
save(r) ==
    /\ edit[r].at = "save"
    /\ Others(r, {"saved"}) = {}
    /\ GoOn(r, "saved")
    /\ UNCHANGED <<status, owners, session>>

-----------------------------------------------------------------------------
(* The owners of a system: replaced by a list, or a list added to them.    *)
assign_system_owners(r, s) ==
    /\ edit[r].at = "idle" /\ Exists(s)
    /\ \E accounts \in SUBSET Account, replace \in BOOLEAN :
          Continue(r, [at |-> "check", system |-> s, accounts |-> accounts,
                       replace |-> replace, previous |-> owners[s],
                       rows |-> {}, deleted |-> {}, inserted |-> {},
                       revoke |-> {}])
    /\ UNCHANGED <<status, owners, session>>

Eligible(accounts) == accounts \subseteq Owner

CheckOwners(r) ==
    /\ edit[r].at = "check"
    /\ IF Eligible(edit[r].accounts) THEN GoOn(r, "find")
                                     ELSE Continue(r, NoEdit)
    /\ UNCHANGED <<status, owners, session>>

(* The DELETE, or the SELECT of the owners there are: what is committed.   *)
FindOwners(r) ==
    /\ edit[r].at = "find"
    /\ Continue(r, [edit[r] EXCEPT !.rows = owners[edit[r].system],
                                   !.at = IF edit[r].replace THEN "delete"
                                                             ELSE "insert"])
    /\ UNCHANGED <<status, owners, session>>

Writers(r) == Others(r, {"insert", "read", "revoke"})

(* The DELETE waits for the rows another transaction has deleted.  Those   *)
(* it commits are gone (Commit); what it inserts is not found.             *)
DeleteOwners(r) ==
    /\ edit[r].at = "delete"
    /\ \A q \in Writers(r) : edit[r].rows \cap edit[q].deleted = {}
    /\ Continue(r, [edit[r] EXCEPT !.at = "insert", !.rows = {},
                                   !.deleted = edit[r].rows])
    /\ UNCHANGED <<status, owners, session>>

NewOwners(r) == edit[r].accounts \ edit[r].rows

(* The owners this transaction sees.                                       *)
OwnersNow(r) ==
    (owners[edit[r].system] \ edit[r].deleted) \cup edit[r].inserted

(* One row per account, system and role: the INSERT waits for uncommitted  *)
(* changes of the same accounts, and fails on a row that is there.         *)
InsertOwners(r) ==
    /\ edit[r].at = "insert"
    /\ \A q \in Writers(r) :
          NewOwners(r) \cap (edit[q].deleted \cup edit[q].inserted) = {}
    /\ IF NewOwners(r) \cap OwnersNow(r) = {}
       THEN Continue(r, [edit[r] EXCEPT !.at = "read", !.inserted = NewOwners(r)])
       ELSE Continue(r, NoEdit)
    /\ UNCHANGED <<status, owners, session>>

ReadOwners(r) ==
    /\ edit[r].at = "read"
    /\ LET previous == edit[r].previous
       IN  Continue(r, [edit[r] EXCEPT
               !.at = "revoke",
               !.revoke = (previous \ OwnersNow(r)) \cup (OwnersNow(r) \ previous)])
    /\ UNCHANGED <<status, owners, session>>

Revoke(r) ==
    /\ edit[r].at = "revoke"
    /\ \E a \in edit[r].revoke :
          /\ session' = session \ {a}
          /\ Continue(r, [edit[r] EXCEPT !.revoke = @ \ {a}])
    /\ UNCHANGED <<status, owners>>

-----------------------------------------------------------------------------
CommitSystem(r) ==
    /\ edit[r].at \in {"added", "saved"}
    /\ status' = [status EXCEPT ![edit[r].system] = edit[r].status]
    /\ Continue(r, NoEdit)
    /\ UNCHANGED <<owners, session>>

(* The rows it has deleted are no longer there for a DELETE that waits.    *)
CommitOwners(r) ==
    /\ edit[r].at = "revoke" /\ edit[r].revoke = {}
    /\ owners' = [owners EXCEPT ![edit[r].system] = OwnersNow(r)]
    /\ edit' = [q \in Request |->
                   IF q = r THEN NoEdit
                   ELSE IF q \in Others(r, {"delete"})
                   THEN [edit[q] EXCEPT !.rows = @ \ edit[r].deleted]
                   ELSE edit[q]]
    /\ UNCHANGED <<status, session>>

(* An error of the database, or of Redis when the sessions are revoked.    *)
RollBack(r) ==
    /\ edit[r].at # "idle"
    /\ Continue(r, NoEdit)
    /\ UNCHANGED <<status, owners, session>>

Start(r) ==
    \E s \in System :
       \/ \E to \in BusinessSystemStatus : create_system(r, s, to)
       \/ update_system(r, s)
       \/ assign_system_owners(r, s)

Proceed(r) ==
    \/ add(r) \/ save(r) \/ CommitSystem(r)
    \/ CheckOwners(r) \/ FindOwners(r) \/ DeleteOwners(r) \/ InsertOwners(r)
    \/ ReadOwners(r) \/ Revoke(r) \/ CommitOwners(r)
    \/ RollBack(r)

LogIn == \E a \in Account : log_in(a)

Next == LogIn \/ \E r \in Request : Start(r) \/ Proceed(r)

Spec == Init /\ [][Next]_vars

-----------------------------------------------------------------------------
TypeOK ==
    /\ status \in [System -> BusinessSystemStatus \cup {"absent"}]
    /\ owners \in [System -> SUBSET Owner]
    /\ session \subseteq Account
    /\ edit \in [Request -> Edit]
=============================================================================
