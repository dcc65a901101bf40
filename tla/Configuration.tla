----------------------------- MODULE Configuration -----------------------------
(***************************************************************************)
(* The versioned prompts and retrieval profiles: administrators save new   *)
(* versions and activate one of a name, in transactions that run at the    *)
(* same time.  `row` is what is committed; what a transaction has written  *)
(* is in its frame until it commits.                                       *)
(***************************************************************************)
CONSTANTS
    Request,     \* requests the API handles at the same time
    Scenario,    \* of prompts: grounded_answer, query_rewrite
    Profile,     \* names of retrieval profiles
    Version,
    Seed,        \* the version the migration stores as active
    Seeded       \* the names it stores it for

VARIABLES
    row,         \* prompt_definitions and retrieval_profiles, committed
    change       \* the administrators' requests under way

vars == <<row, change>>

Name == Scenario \cup Profile

Row == {"absent", "disabled", "enabled"}

(* seen: the rows the statement found; locked: those it has locked so far. *)
Change == [at : {"idle"}]
    \cup [at : {"insert", "inserted"}, name : Name, version : Version]
    \cup [at : {"lock", "activated"}, name : Name, version : Version,
          seen : SUBSET Version, locked : SUBSET Version]

NoChange == [at |-> "idle"]

Present(n) == {v \in Version : row[n][v] # "absent"}

get_active(n) == {v \in Version : row[n][v] = "enabled"}

Continue(r, frame) == change' = [change EXCEPT ![r] = frame]

Others(r, at, n) ==
    {q \in Request \ {r} : change[q].at = at /\ change[q].name = n}

Init ==
    /\ row = [n \in Name |-> [v \in Version |->
                 IF n \in Seeded /\ v = Seed THEN "enabled" ELSE "absent"]]
    /\ change = [r \in Request |-> NoChange]

-----------------------------------------------------------------------------
(* A new version: never active, and one row per name and version.          *)
Save(r, n) ==
    /\ change[r].at = "idle"
    /\ \E v \in Version \ Present(n) :
          Continue(r, [at |-> "insert", name |-> n, version |-> v])
    /\ UNCHANGED row

save_prompt_definition(r) == \E scenario \in Scenario : Save(r, scenario)

save_retrieval_profile(r) == \E name \in Profile : Save(r, name)

(* The unique constraint: the INSERT waits for one of the same version     *)
(* that is not committed yet, and fails if it is.                          *)
save(r) ==
    /\ change[r].at = "insert"
    /\ \A q \in Others(r, "inserted", change[r].name) :
          change[q].version # change[r].version
    /\ \/ /\ change[r].version \notin Present(change[r].name)
          /\ Continue(r, [change[r] EXCEPT !.at = "inserted"])
       \/ /\ change[r].version \in Present(change[r].name)
          /\ Continue(r, NoChange)
    /\ UNCHANGED row

-----------------------------------------------------------------------------
(* The activation: SELECT ... FOR UPDATE of the name's rows, which finds   *)
(* what is committed when it starts and locks a row after the other.       *)
SelectForUpdate(r, n) ==
    /\ change[r].at = "idle"
    /\ \E v \in Version :
          Continue(r, [at |-> "lock", name |-> n, version |-> v,
                       seen |-> Present(n), locked |-> {}])
    /\ UNCHANGED row

activate_prompt_definition(r) ==
    \E scenario \in Scenario : SelectForUpdate(r, scenario)

activate_retrieval_profile(r) == \E name \in Profile : SelectForUpdate(r, name)

LockRow(r) ==
    /\ change[r].at = "lock"
    /\ \E v \in change[r].seen \ change[r].locked :
          /\ \A q \in Others(r, "lock", change[r].name)
                         \cup Others(r, "activated", change[r].name) :
                v \notin change[q].locked
          /\ Continue(r, [change[r] EXCEPT !.locked = @ \cup {v}])
    /\ UNCHANGED row

(* Mutants of NotFound and IndexRefuses: the others are disabled though    *)
(* the version is not there; there is no partial unique index.             *)
NeverNotFound(r) == FALSE
NoIndex(r) == FALSE

NotFound(r) == change[r].version \notin change[r].seen

(* The partial unique index on the active rows of a name: a row that was   *)
(* not among those found is active by now.                                 *)
IndexRefuses(r) ==
    get_active(change[r].name) \ change[r].seen # {}

(* The others are disabled, then the version is enabled.  The index makes  *)
(* the second wait for an activation that has not committed yet.           *)
activate(r) ==
    /\ change[r].at = "lock"
    /\ change[r].locked = change[r].seen
    /\ Others(r, "activated", change[r].name) = {}
    /\ \/ /\ ~NotFound(r) /\ ~IndexRefuses(r)
          /\ Continue(r, [change[r] EXCEPT !.at = "activated"])
       \/ /\ NotFound(r) \/ IndexRefuses(r)
          /\ Continue(r, NoChange)
    /\ UNCHANGED row

-----------------------------------------------------------------------------
Saved(r) == [row EXCEPT ![change[r].name][change[r].version] = "disabled"]

Activated(r) ==
    [row EXCEPT ![change[r].name] =
        [v \in Version |-> IF v \notin change[r].seen THEN @[v]
                           ELSE IF v = change[r].version THEN "enabled"
                           ELSE "disabled"]]

(* The audit record is part of the transaction.                            *)
Commit(r) ==
    /\ \/ change[r].at = "inserted" /\ row' = Saved(r)
       \/ change[r].at = "activated" /\ row' = Activated(r)
    /\ Continue(r, NoChange)

(* An error of the database: deadlocked activations are one.               *)
RollBack(r) ==
    /\ change[r].at # "idle"
    /\ Continue(r, NoChange)
    /\ UNCHANGED row

Start(r) ==
    \/ save_prompt_definition(r) \/ save_retrieval_profile(r)
    \/ activate_prompt_definition(r) \/ activate_retrieval_profile(r)

Proceed(r) ==
    save(r) \/ LockRow(r) \/ activate(r) \/ Commit(r) \/ RollBack(r)

Next == \E r \in Request : Start(r) \/ Proceed(r)

Spec == Init /\ [][Next]_vars

-----------------------------------------------------------------------------
TypeOK ==
    /\ row \in [Name -> [Version -> Row]]
    /\ change \in [Request -> Change]

(* Of a scenario or a profile at most one version is active, though an     *)
(* activation does not see the versions saved since it began, and another  *)
(* may have activated one of them (prompt_repository.py activate).         *)
OneActiveVersion ==
    \A n \in Name : \A v, w \in get_active(n) : v = w

(* A name that has an active version keeps one, whichever activations and  *)
(* failures follow: questions do not fall back to the packaged prompt.     *)
ActiveStays ==
    [][\A n \in Name : get_active(n) # {} => get_active(n)' # {}]_vars
=============================================================================
