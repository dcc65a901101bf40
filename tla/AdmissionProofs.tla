---------------------------- MODULE AdmissionProofs ----------------------------
(***************************************************************************)
(* Proofs about Configuration and about the admission of questions, for    *)
(* every set of requests, names, versions, accounts and grants.  What is   *)
(* proved about Configuration holds of the composition: a step of Admission*)
(* is one of Configuration, or leaves it alone.  A grant starts one run at *)
(* most, and the prompts of a run are of one set, whatever administrators  *)
(* change meanwhile.                                                       *)
(***************************************************************************)
EXTENDS Admission, FiniteSetTheorems, SequenceTheorems, TLAPS

(* The rows of a name that a transaction has locked.                       *)
Holding == {"lock", "activated"}

(* An activation about to commit has found the version it enables and      *)
(* every active row of the name: the index has refused it otherwise.       *)
ActivationReady ==
    \A r \in Request :
        change[r].at = "activated" =>
            /\ change[r].version \in change[r].seen
            /\ Configured!get_active(change[r].name) \subseteq change[r].seen

(* At most one activation of a name waits for its commit.                  *)
OneActivation ==
    \A q, r \in Request :
        /\ change[q].at = "activated" /\ change[r].at = "activated"
        /\ change[q].name = change[r].name
        => q = r

(* What an activation has found is there, and what an INSERT that is not   *)
(* committed adds is not, and is added by nobody else.                     *)
SeenPresent ==
    \A r \in Request :
        change[r].at \in Holding =>
            change[r].seen \subseteq Configured!Present(change[r].name)

InsertedAbsent ==
    \A q, r \in Request :
        change[r].at = "inserted" =>
            /\ change[r].version \notin Configured!Present(change[r].name)
            /\ change[q].at = "inserted" /\ change[q].name = change[r].name
                   /\ change[q].version = change[r].version => q = r

RowsInv ==
    /\ Configured!TypeOK
    /\ ActivationReady /\ OneActivation
    /\ SeenPresent /\ InsertedAbsent
    /\ Configured!OneActiveVersion

-----------------------------------------------------------------------------
(* Initially a seeded name has the seed as its only active version.        *)
LEMMA RowsInvInit == Configured!Init => RowsInv
  <1> SUFFICES ASSUME Configured!Init PROVE RowsInv
    OBVIOUS
  <1>1. /\ row = [n \in Configured!Name |-> [v \in Version |->
                    IF n \in Seeded /\ v = Seed THEN "enabled" ELSE "absent"]]
        /\ \A r \in Request : change[r].at = "idle"
        /\ change = [r \in Request |-> [at |-> "idle"]]
    BY DEF Configured!Init, Configured!NoChange
  <1>2. Configured!TypeOK
    <2>1. row \in [Configured!Name -> [Version -> Configured!Row]]
      BY <1>1 DEF Configured!Row
    <2>2. change \in [Request -> Configured!Change]
      BY <1>1 DEF Configured!Change
    <2> QED
      BY <2>1, <2>2 DEF Configured!TypeOK
  <1>3. Configured!OneActiveVersion
    BY <1>1 DEF Configured!OneActiveVersion, Configured!get_active
  <1> QED
    BY <1>1, <1>2, <1>3 DEF RowsInv, ActivationReady, OneActivation, SeenPresent,
       InsertedAbsent, Holding

-----------------------------------------------------------------------------
(* A step of a transaction that commits nothing preserves the invariant    *)
(* when the frame it continues with is sound by itself and agrees with the *)
(* others.                                                                 *)
LEMMA ChangeContinues ==
  ASSUME RowsInv, NEW r \in Request, NEW f \in Configured!Change,
         Configured!Continue(r, f), row' = row,
         f.at = "activated" =>
            /\ f.version \in f.seen
            /\ Configured!get_active(f.name) \subseteq f.seen
            /\ Configured!Others(r, "activated", f.name) = {},
         f.at \in Holding => f.seen \subseteq Configured!Present(f.name),
         f.at = "inserted" =>
            /\ f.version \notin Configured!Present(f.name)
            /\ \A q \in Configured!Others(r, "inserted", f.name) :
                  change[q].version # f.version
  PROVE  RowsInv'
  <1> USE DEF RowsInv, Configured!Continue
  <1>1. /\ change \in [Request -> Configured!Change]
        /\ change' = [change EXCEPT ![r] = f]
        /\ change'[r] = f
        /\ \A q \in Request \ {r} : change'[q] = change[q]
    BY DEF Configured!TypeOK
  <1>2. Configured!TypeOK'
    BY <1>1 DEF Configured!TypeOK
  <1>3. \A n : /\ Configured!get_active(n)' = Configured!get_active(n)
               /\ Configured!Present(n)' = Configured!Present(n)
    BY DEF Configured!get_active, Configured!Present
  <1>4. Configured!OneActiveVersion'
    BY <1>3 DEF Configured!OneActiveVersion
  <1>5. ActivationReady'
    BY <1>1, <1>3 DEF ActivationReady
  <1>6. OneActivation'
    BY <1>1 DEF OneActivation, Configured!Others
  <1>7. SeenPresent'
    BY <1>1, <1>3 DEF SeenPresent
  <1>8. InsertedAbsent'
    BY <1>1, <1>3 DEF InsertedAbsent, Configured!Others
  <1> QED
    BY <1>2, <1>4, <1>5, <1>6, <1>7, <1>8

LEMMA IdleChange ==
  Configured!NoChange \in Configured!Change /\ Configured!NoChange.at = "idle"
  BY DEF Configured!NoChange, Configured!Change

(* The same for the requests that begin, wait, fail or give up.            *)
LEMMA ChangeStarts ==
  ASSUME RowsInv, NEW r \in Request, Configured!Start(r) PROVE RowsInv'
  <1>1. CASE \E n \in Configured!Name : Configured!Save(r, n)
    <2>1. PICK n \in Configured!Name, v \in Version :
             /\ Configured!Continue(r,
                    [at |-> "insert", name |-> n, version |-> v])
             /\ row' = row
      BY <1>1 DEF Configured!Save
    <2>2. [at |-> "insert", name |-> n, version |-> v] \in Configured!Change
      BY DEF Configured!Change
    <2> QED
      BY <2>1, <2>2, ChangeContinues DEF Holding
  <1>2. CASE \E n \in Configured!Name : Configured!SelectForUpdate(r, n)
    <2>1. PICK n \in Configured!Name, v \in Version :
             /\ Configured!Continue(r, [at |-> "lock", name |-> n, version |-> v,
                             seen |-> Configured!Present(n), locked |-> {}])
             /\ row' = row
      BY <1>2 DEF Configured!SelectForUpdate
    <2> DEFINE f == [at |-> "lock", name |-> n, version |-> v,
                     seen |-> Configured!Present(n), locked |-> {}]
    <2>2. f \in Configured!Change
      BY DEF Configured!Change, Configured!Present
    <2> QED
      BY <2>1, <2>2, ChangeContinues
  <1> QED
    BY <1>1, <1>2 DEF Configured!Start, Configured!Name,
       Configured!save_prompt_definition, Configured!save_retrieval_profile,
       Configured!activate_prompt_definition,
       Configured!activate_retrieval_profile

LEMMA ChangeProceeds ==
  ASSUME RowsInv, NEW r \in Request,
         \/ Configured!save(r) \/ Configured!LockRow(r)
         \/ Configured!activate(r) \/ Configured!RollBack(r)
  PROVE  RowsInv'
  <1>1. change[r] \in Configured!Change
    BY DEF RowsInv, Configured!TypeOK
  <1>2. ASSUME Configured!Continue(r, Configured!NoChange), row' = row
        PROVE  RowsInv'
    BY <1>2, IdleChange, ChangeContinues DEF Holding
  <1>3. CASE Configured!save(r)
    <2>1. CASE Configured!Continue(r, Configured!NoChange)
      BY <1>2, <1>3, <2>1 DEF Configured!save
    <2>2. CASE /\ change[r].version \notin Configured!Present(change[r].name)
               /\ Configured!Continue(r, [change[r] EXCEPT !.at = "inserted"])
      <3> DEFINE f == [change[r] EXCEPT !.at = "inserted"]
      <3>1. /\ f \in Configured!Change /\ f.at = "inserted"
            /\ f.name = change[r].name
            /\ f.version = change[r].version
        BY <1>1, <1>3 DEF Configured!save, Configured!Change
      <3> QED
        BY <1>3, <2>2, <3>1, ChangeContinues DEF Configured!save, Holding
    <2> QED
      BY <1>3, <2>1, <2>2 DEF Configured!save
  <1>4. CASE Configured!LockRow(r)
    <2>1. PICK v \in change[r].seen :
             Configured!Continue(r, [change[r] EXCEPT !.locked = @ \cup {v}])
      BY <1>4 DEF Configured!LockRow
    <2> DEFINE f == [change[r] EXCEPT !.locked = @ \cup {v}]
    <2>2. /\ f \in Configured!Change /\ f.at = "lock" /\ f.name = change[r].name
          /\ f.seen = change[r].seen
      BY <1>1, <1>4 DEF Configured!LockRow, Configured!Change
    <2>3. f.seen \subseteq Configured!Present(f.name)
      BY <1>4, <2>2 DEF Configured!LockRow, RowsInv, SeenPresent, Holding
    <2> QED
      BY <1>4, <2>1, <2>2, <2>3, ChangeContinues DEF Configured!LockRow
  <1>5. CASE Configured!activate(r)
    <2>1. CASE Configured!Continue(r, Configured!NoChange)
      BY <1>2, <1>5, <2>1 DEF Configured!activate
    <2>2. CASE /\ ~Configured!NotFound(r) /\ ~Configured!IndexRefuses(r)
               /\ Configured!Continue(r, [change[r] EXCEPT !.at = "activated"])
      <3> DEFINE f == [change[r] EXCEPT !.at = "activated"]
      <3>1. /\ f \in Configured!Change /\ f.at = "activated"
            /\ f.name = change[r].name
            /\ f.seen = change[r].seen /\ f.version = change[r].version
        BY <1>1, <1>5 DEF Configured!activate, Configured!Change
      <3>2. f.seen \subseteq Configured!Present(f.name)
        BY <1>5, <3>1 DEF Configured!activate, RowsInv, SeenPresent, Holding
      <3>3. f.version \in f.seen /\ Configured!get_active(f.name) \subseteq f.seen
        BY <2>2, <3>1 DEF Configured!NotFound, Configured!IndexRefuses
      <3> QED
        BY <1>5, <2>2, <3>1, <3>2, <3>3, ChangeContinues DEF Configured!activate
    <2> QED
      BY <1>5, <2>1, <2>2 DEF Configured!activate
  <1>6. CASE Configured!RollBack(r)
    BY <1>2, <1>6 DEF Configured!RollBack
  <1> QED
    BY <1>3, <1>4, <1>5, <1>6

-----------------------------------------------------------------------------
(* A new version is committed: it was not there, and is not active.        *)
LEMMA SavedKeeps ==
  ASSUME RowsInv, NEW r \in Request, change[r].at = "inserted",
         row' = Configured!Saved(r),
         Configured!Continue(r, Configured!NoChange)
  PROVE  /\ RowsInv'
         /\ \A m \in Configured!Name :
            Configured!get_active(m)' = Configured!get_active(m)
  <1> DEFINE n == change[r].name
             v == change[r].version
  <1>1. /\ n \in Configured!Name /\ v \in Version
        /\ row \in [Configured!Name -> [Version -> Configured!Row]]
        /\ change \in [Request -> Configured!Change]
        /\ v \notin Configured!Present(n)
    <2>1. /\ change \in [Request -> Configured!Change]
          /\ row \in [Configured!Name -> [Version -> Configured!Row]]
      BY DEF RowsInv, Configured!TypeOK
    <2>2. change[r] \in Configured!Change
      BY <2>1
    <2> QED
      BY <2>1, <2>2 DEF Configured!Change, RowsInv, InsertedAbsent
  <1>2. row' = [row EXCEPT ![n][v] = "disabled"]
    BY DEF Configured!Saved
  <1>3. row' \in [Configured!Name -> [Version -> Configured!Row]]
    BY <1>1, <1>2 DEF Configured!Row
  <1>4. /\ change' \in [Request -> Configured!Change]
        /\ change'[r].at = "idle"
        /\ \A q \in Request \ {r} : change'[q] = change[q]
    BY <1>1, IdleChange DEF Configured!Continue
  <1>5. row[n][v] = "absent"
    BY <1>1 DEF Configured!Present
  <1>6. \A m \in Configured!Name :
            Configured!get_active(m)' = Configured!get_active(m)
    BY <1>1, <1>2, <1>5 DEF Configured!get_active
  <1>7. \A m \in Configured!Name : Configured!Present(m)' =
            IF m = n THEN Configured!Present(m) \cup {v}
                     ELSE Configured!Present(m)
    BY <1>1, <1>2, <1>5 DEF Configured!Present
  <1>8. \A q \in Request :
            change[q].at # "idle" => change[q].name \in Configured!Name
    BY <1>1 DEF Configured!Change
  <1>9. ActivationReady' /\ OneActivation' /\ Configured!OneActiveVersion'
    <2>1. ActivationReady'
      BY <1>4, <1>6, <1>8 DEF RowsInv, ActivationReady
    <2>2. OneActivation'
      BY <1>4 DEF RowsInv, OneActivation
    <2>3. Configured!OneActiveVersion'
      BY <1>6 DEF RowsInv, Configured!OneActiveVersion
    <2> QED
      BY <2>1, <2>2, <2>3
  <1>10. SeenPresent'
    BY <1>4, <1>7, <1>8 DEF RowsInv, SeenPresent, Holding
  <1>11. InsertedAbsent'
    BY <1>4, <1>7, <1>8 DEF RowsInv, InsertedAbsent
  <1> QED
    BY <1>3, <1>4, <1>6, <1>9, <1>10, <1>11 DEF RowsInv, Configured!TypeOK

(* An activation is committed: every active row was among those it has     *)
(* found, so the version it enables is the only active one.                *)
LEMMA ActivatedKeeps ==
  ASSUME RowsInv, NEW r \in Request, change[r].at = "activated",
         row' = Configured!Activated(r),
         Configured!Continue(r, Configured!NoChange)
  PROVE  /\ RowsInv'
         /\ \A m \in Configured!Name : Configured!get_active(m)' =
                IF m = change[r].name THEN {change[r].version}
                                      ELSE Configured!get_active(m)
  <1> DEFINE n == change[r].name
             v == change[r].version
             s == change[r].seen
  <1>1. /\ n \in Configured!Name /\ v \in Version /\ s \subseteq Version
        /\ row \in [Configured!Name -> [Version -> Configured!Row]]
        /\ change \in [Request -> Configured!Change]
        /\ v \in s /\ Configured!get_active(n) \subseteq s
        /\ s \subseteq Configured!Present(n)
    <2>1. /\ change \in [Request -> Configured!Change]
          /\ row \in [Configured!Name -> [Version -> Configured!Row]]
      BY DEF RowsInv, Configured!TypeOK
    <2>2. change[r] \in Configured!Change
      BY <2>1
    <2> QED
      BY <2>1, <2>2 DEF Configured!Change, RowsInv, ActivationReady,
         SeenPresent, Holding
  <1>2. row' = [row EXCEPT ![n] = [w \in Version |->
                   IF w \notin s THEN row[n][w]
                   ELSE IF w = v THEN "enabled" ELSE "disabled"]]
    BY <1>1 DEF Configured!Activated
  <1>3. row' \in [Configured!Name -> [Version -> Configured!Row]]
    BY <1>1, <1>2 DEF Configured!Row
  <1>4. /\ change' \in [Request -> Configured!Change]
        /\ change'[r].at = "idle"
        /\ \A q \in Request \ {r} : change'[q] = change[q]
    BY <1>1, IdleChange DEF Configured!Continue
  <1>5. \A m \in Configured!Name : Configured!get_active(m)' =
            IF m = n THEN {v} ELSE Configured!get_active(m)
    BY <1>1, <1>2 DEF Configured!get_active
  <1>6. \A m \in Configured!Name : Configured!Present(m)' = Configured!Present(m)
    BY <1>1, <1>2 DEF Configured!Present
  <1>7. \A q \in Request :
            change[q].at # "idle" => change[q].name \in Configured!Name
    BY <1>1 DEF Configured!Change
  <1>8. ActivationReady'
    <2>1. ASSUME NEW q \in Request, change'[q].at = "activated"
          PROVE  (/\ change[q].version \in change[q].seen
                  /\ Configured!get_active(change[q].name) \subseteq change[q].seen)'
      <3>1. q # r /\ change'[q] = change[q]
        BY <1>4, <2>1
      <3>2. PICK m \in Configured!Name : m = change[q].name /\ m = change'[q].name
        BY <1>7, <2>1, <3>1
      <3>3. /\ m # n
            /\ change[q].version \in change[q].seen
            /\ Configured!get_active(m) \subseteq change[q].seen
        BY <2>1, <3>1, <3>2 DEF RowsInv, OneActivation, ActivationReady
      <3>4. Configured!get_active(m)' = Configured!get_active(m)
        BY <1>5, <3>3
      <3> QED
        BY <3>1, <3>2, <3>3, <3>4 DEF Configured!get_active
    <2> QED
      BY <2>1 DEF ActivationReady
  <1>9. OneActivation'
    BY <1>4 DEF RowsInv, OneActivation
  <1>10. Configured!OneActiveVersion'
    BY <1>5 DEF RowsInv, Configured!OneActiveVersion
  <1>11. SeenPresent'
    BY <1>4, <1>6, <1>7 DEF RowsInv, SeenPresent, Holding
  <1>12. InsertedAbsent'
    BY <1>4, <1>6, <1>7 DEF RowsInv, InsertedAbsent
  <1> QED
    BY <1>3, <1>4, <1>5, <1>8, <1>9, <1>10, <1>11, <1>12
       DEF RowsInv, Configured!TypeOK

(* A name that had an active version has one after the step.               *)
StillActive ==
    \A n \in Configured!Name :
        Configured!get_active(n) # {} => Configured!get_active(n)' # {}

-----------------------------------------------------------------------------
(* Every step preserves the invariant, and no step leaves a name that had  *)
(* an active version without one.                                          *)
LEMMA RowsKept ==
  RowsInv /\ [Configured!Next]_configurationVars => RowsInv' /\ StillActive
  <1> SUFFICES ASSUME RowsInv, [Configured!Next]_configurationVars
               PROVE  RowsInv' /\ StillActive
    OBVIOUS
  <1>1. ASSUME row' = row
        PROVE  StillActive
    BY <1>1 DEF StillActive, Configured!get_active
  <1>2. CASE UNCHANGED configurationVars
    BY <1>1, <1>2 DEF configurationVars, RowsInv, Configured!TypeOK,
       ActivationReady, OneActivation, SeenPresent, InsertedAbsent,
       Configured!OneActiveVersion, Configured!get_active, Configured!Present
  <1>3. ASSUME NEW r \in Request, Configured!Start(r)
        PROVE  RowsInv' /\ row' = row
    BY <1>3, ChangeStarts DEF Configured!Start, Configured!save_prompt_definition,
       Configured!save_retrieval_profile, Configured!activate_prompt_definition,
       Configured!activate_retrieval_profile, Configured!Save,
       Configured!SelectForUpdate
  <1>4. ASSUME NEW r \in Request,
               \/ Configured!save(r) \/ Configured!LockRow(r)
               \/ Configured!activate(r) \/ Configured!RollBack(r)
        PROVE  RowsInv' /\ row' = row
    BY <1>4, ChangeProceeds DEF Configured!save, Configured!LockRow,
       Configured!activate, Configured!RollBack
  <1>5. ASSUME NEW r \in Request, Configured!Commit(r)
        PROVE  RowsInv' /\ StillActive
    BY <1>5, SavedKeeps, ActivatedKeeps DEF Configured!Commit, StillActive
  <1> QED
    BY <1>1, <1>2, <1>3, <1>4, <1>5 DEF Configured!Next, Configured!Proceed

(* The invariant holds.                                                    *)
LEMMA RowsInvariance == Configured!Spec => []RowsInv
  <1>1. RowsInv /\ [Configured!Next]_configurationVars => RowsInv'
    BY RowsKept
  <1> QED
    BY RowsInvInit, <1>1, PTL
       DEF Configured!Spec, Configured!vars, configurationVars

(* Of a scenario or a profile at most one version is active (activate).    *)
THEOREM ActiveIsUnique == Configured!Spec => []Configured!OneActiveVersion
  <1>1. RowsInv => Configured!OneActiveVersion
    BY DEF RowsInv
  <1> QED
    BY RowsInvariance, <1>1, PTL

(* A name that has an active version keeps one (activate).                 *)
THEOREM ActiveIsKept == Configured!Spec => Configured!ActiveStays
  <1>1. RowsInv /\ [Configured!Next]_configurationVars =>
            [StillActive]_configurationVars
    BY RowsKept
  <1> QED
    BY RowsInvariance, <1>1, PTL
       DEF Configured!Spec, Configured!ActiveStays, StillActive, Configured!vars,
           configurationVars

-----------------------------------------------------------------------------
(* Admission implements its configuration component.                       *)
THEOREM ImplementsConfiguration == Spec => Configured!Spec
  <1>1. Init => Configured!Init
    BY DEF Init
  <1>2. [Next]_vars => [Configured!Next]_configurationVars
    <2> SUFFICES ASSUME [Next]_vars
                 PROVE  Configured!Next \/ UNCHANGED configurationVars
      OBVIOUS
    <2>1. ASSUME NEW r \in Request, ConfigurationStep(r) PROVE Configured!Next
      BY <2>1 DEF ConfigurationStep, Configured!Next
    <2> QED
      BY <2>1 DEF Next, vars, configurationVars, AccessStep
  <1> QED
    BY <1>1, <1>2, PTL DEF Spec, Configured!Spec, Configured!vars,
       configurationVars

(* Of a scenario or a profile at most one version is active (activate).    *)
THEOREM OneIsActive == Spec => []OneActiveVersion
  BY ImplementsConfiguration, ActiveIsUnique DEF OneActiveVersion

(* A name that has an active version keeps one (activate).                 *)
THEOREM ActiveRemains == Spec => ActiveStays
  <1>1. [StillActive]_configurationVars => [StillActive]_vars
    BY DEF StillActive, Configured!get_active, configurationVars
  <1> QED
    BY ImplementsConfiguration, ActiveIsKept, <1>1, PTL
       DEF Configured!ActiveStays, Configured!vars, configurationVars,
           ActiveStays, StillActive

-----------------------------------------------------------------------------
(* Access: the owners that a transaction has written are eligible, as it   *)
(* has come past the check.                                                *)
Owning == {"check", "find", "delete", "insert", "read", "revoke"}

Assigning ==
    [at : Owning, system : System, accounts : SUBSET Account,
     replace : BOOLEAN, previous : SUBSET Account, rows : SUBSET Account,
     deleted : SUBSET Account, inserted : SUBSET Account, revoke : SUBSET Account]

Keeping == [at : {"add", "added", "save", "saved"}, system : System,
            status : Permitted!BusinessSystemStatus]

(* What a transaction may have written.                                    *)
EligibleEdit(f) ==
    f.at \in Owning =>
        /\ f.inserted \subseteq Owner
        /\ f.at # "check" => f.accounts \subseteq Owner

AccessInv == Permitted!TypeOK /\ \A r \in Request : EligibleEdit(edit[r])

LEMMA EditKinds ==
    ASSUME NEW f
    PROVE  /\ f \in Permitted!Edit <=> f = Permitted!NoEdit \/ f \in Keeping
                                                  \/ f \in Assigning
           /\ f \in Permitted!Edit /\ f.at \in Owning => f \in Assigning
           /\ f \in Permitted!Edit /\ f.at \in {"add", "added", "save", "saved"}
                  => f \in Keeping
           /\ EligibleEdit(Permitted!NoEdit)
           /\ f \in Keeping => EligibleEdit(f)
  <1>1. f \in Permitted!Edit <=> f \in [at : {"idle"}] \/ f \in Keeping \/ f \in Assigning
    BY DEF Permitted!Edit, Keeping, Assigning, Owning
  <1>2. f \in [at : {"idle"}] <=> f = [at |-> "idle"]
    OBVIOUS
  <1>3. /\ f \in Assigning => f.at \in Owning
        /\ f \in Keeping => f.at \in {"add", "added", "save", "saved"}
    BY DEF Keeping, Assigning
  <1> QED
    BY <1>1, <1>2, <1>3 DEF Permitted!NoEdit, EligibleEdit, Owning

(* A step that goes on with a frame that is right.                         *)
LEMMA EditContinues ==
    ASSUME AccessInv, NEW r \in Request, NEW f \in Permitted!Edit,
           EligibleEdit(f), edit' = [edit EXCEPT ![r] = f],
           status' \in [System -> Permitted!BusinessSystemStatus \cup {"absent"}],
           owners' \in [System -> SUBSET Owner], session' \subseteq Account
    PROVE  AccessInv'
  <1>1. /\ edit \in [Request -> Permitted!Edit]
    BY DEF AccessInv, Permitted!TypeOK
  <1>2. /\ edit' \in [Request -> Permitted!Edit]
        /\ \A q \in Request : edit'[q] = IF q = r THEN f ELSE edit[q]
    BY <1>1
  <1>3. \A q \in Request : EligibleEdit(edit'[q])
    BY <1>2 DEF AccessInv
  <1> QED
    BY <1>2, <1>3 DEF AccessInv, Permitted!TypeOK

(* What becomes of the frame of an assignment.                             *)
LEMMA AssigningMoves ==
    ASSUME NEW f \in Assigning, NEW at \in Owning, NEW S \in SUBSET Account
    PROVE  /\ [f EXCEPT !.at = at] \in Assigning
           /\ [f EXCEPT !.rows = S, !.at = at] \in Assigning
           /\ [f EXCEPT !.at = at, !.rows = {}, !.deleted = S] \in Assigning
           /\ [f EXCEPT !.at = at, !.inserted = S] \in Assigning
           /\ [f EXCEPT !.at = at, !.revoke = S] \in Assigning
           /\ [f EXCEPT !.revoke = S] \in Assigning
           /\ [f EXCEPT !.rows = S] \in Assigning
           /\ EligibleEdit(f) => EligibleEdit([f EXCEPT !.revoke = S])
           /\ EligibleEdit(f) => EligibleEdit([f EXCEPT !.rows = S])
           /\ EligibleEdit(f) /\ (f.at # "check" \/ f.accounts \subseteq Owner) =>
                  /\ EligibleEdit([f EXCEPT !.at = at])
                  /\ EligibleEdit([f EXCEPT !.rows = S, !.at = at])
                  /\ EligibleEdit([f EXCEPT !.at = at, !.rows = {}, !.deleted = S])
                  /\ EligibleEdit([f EXCEPT !.at = at, !.revoke = S])
                  /\ S \subseteq Owner =>
                         EligibleEdit([f EXCEPT !.at = at, !.inserted = S])
  <1>1. /\ [f EXCEPT !.at = at] \in Assigning
        /\ [f EXCEPT !.rows = S, !.at = at] \in Assigning
        /\ [f EXCEPT !.at = at, !.rows = {}, !.deleted = S] \in Assigning
    BY DEF Assigning
  <1>2. /\ [f EXCEPT !.at = at, !.inserted = S] \in Assigning
        /\ [f EXCEPT !.at = at, !.revoke = S] \in Assigning
        /\ [f EXCEPT !.revoke = S] \in Assigning
        /\ [f EXCEPT !.rows = S] \in Assigning
    BY DEF Assigning
  <1>3. ASSUME EligibleEdit(f)
        PROVE  /\ EligibleEdit([f EXCEPT !.revoke = S])
               /\ EligibleEdit([f EXCEPT !.rows = S])
    BY <1>3 DEF Assigning, EligibleEdit
  <1>4. ASSUME EligibleEdit(f), f.at # "check" \/ f.accounts \subseteq Owner
        PROVE  /\ EligibleEdit([f EXCEPT !.at = at])
               /\ EligibleEdit([f EXCEPT !.rows = S, !.at = at])
    BY <1>4 DEF Assigning, EligibleEdit
  <1>5. ASSUME EligibleEdit(f), f.at # "check" \/ f.accounts \subseteq Owner
        PROVE  /\ EligibleEdit([f EXCEPT !.at = at, !.rows = {}, !.deleted = S])
               /\ EligibleEdit([f EXCEPT !.at = at, !.revoke = S])
               /\ S \subseteq Owner =>
                      EligibleEdit([f EXCEPT !.at = at, !.inserted = S])
    BY <1>5 DEF Assigning, EligibleEdit
  <1> QED
    BY <1>1, <1>2, <1>3, <1>4, <1>5

LEMMA EditStarts ==
    ASSUME AccessInv, NEW r \in Request, Permitted!Start(r)
    PROVE  AccessInv'
  <1> USE DEF Permitted!Continue
  <1>1. /\ UNCHANGED <<status, owners, session>>
        /\ status \in [System -> Permitted!BusinessSystemStatus \cup {"absent"}]
        /\ owners \in [System -> SUBSET Owner] /\ session \subseteq Account
    BY DEF AccessInv, Permitted!TypeOK, Permitted!Start, Permitted!create_system,
       Permitted!update_system, Permitted!assign_system_owners
  <1>2. PICK s \in System :
            \/ \E to \in Permitted!BusinessSystemStatus :
                   \/ Permitted!create_system(r, s, to)
                   \/ Permitted!Continue(r, [at |-> "save", system |-> s, status |-> to])
            \/ Permitted!assign_system_owners(r, s)
    BY DEF Permitted!Start, Permitted!update_system
  <1>3. ASSUME NEW at \in {"add", "save"}, NEW to \in Permitted!BusinessSystemStatus,
               edit' = [edit EXCEPT ![r] = [at |-> at, system |-> s, status |-> to]]
        PROVE  AccessInv'
    <2>1. [at |-> at, system |-> s, status |-> to] \in Keeping
      BY DEF Keeping
    <2> QED
      BY <1>1, <1>3, <2>1, EditKinds, EditContinues
  <1>4. CASE Permitted!assign_system_owners(r, s)
    <2>1. PICK accounts \in SUBSET Account, replace \in BOOLEAN :
              edit' = [edit EXCEPT ![r] =
                        [at |-> "check", system |-> s, accounts |-> accounts,
                         replace |-> replace, previous |-> owners[s],
                         rows |-> {}, deleted |-> {}, inserted |-> {},
                         revoke |-> {}]]
      BY <1>4 DEF Permitted!assign_system_owners
    <2> DEFINE f == [at |-> "check", system |-> s, accounts |-> accounts,
                     replace |-> replace, previous |-> owners[s],
                     rows |-> {}, deleted |-> {}, inserted |-> {}, revoke |-> {}]
    <2>2. owners[s] \subseteq Account
      BY <1>1, AccountAssumption
    <2>3. f \in Assigning /\ EligibleEdit(f)
      BY <2>2 DEF Assigning, Owning, EligibleEdit
    <2>4. f \in Permitted!Edit
      BY <2>3, EditKinds
    <2> HIDE DEF f
    <2>5. edit' = [edit EXCEPT ![r] = f]
      BY <2>1 DEF f
    <2> QED
      BY <1>1, <2>3, <2>4, <2>5, EditContinues
  <1> QED
    BY <1>2, <1>3, <1>4 DEF Permitted!create_system

(* A frame that an assignment or a change of a system goes on with.        *)
LEMMA EditGoesOn ==
    ASSUME AccessInv, NEW r \in Request, UNCHANGED <<status, owners>>,
           session' \subseteq Account,
           \/ edit' = [edit EXCEPT ![r] = Permitted!NoEdit]
           \/ \E f \in Keeping : edit' = [edit EXCEPT ![r] = f]
           \/ \E f \in Assigning : /\ EligibleEdit(f)
                                   /\ edit' = [edit EXCEPT ![r] = f]
    PROVE  AccessInv'
  <1>1. /\ status \in [System -> Permitted!BusinessSystemStatus \cup {"absent"}]
        /\ owners \in [System -> SUBSET Owner] /\ session' \subseteq Account
    BY DEF AccessInv, Permitted!TypeOK
  <1>2. PICK f : /\ f = Permitted!NoEdit \/ f \in Keeping \/ f \in Assigning
                 /\ EligibleEdit(f) /\ edit' = [edit EXCEPT ![r] = f]
    BY EditKinds
  <1>3. f \in Permitted!Edit
    BY <1>2, EditKinds
  <1> QED
    BY <1>1, <1>2, <1>3, EditContinues

LEMMA EditProceeds ==
    ASSUME AccessInv, NEW r \in Request, Permitted!Proceed(r)
    PROVE  AccessInv'
  <1> USE DEF Permitted!Continue, Permitted!GoOn
  <1> DEFINE f == edit[r]
  <1>1. /\ status \in [System -> Permitted!BusinessSystemStatus \cup {"absent"}]
        /\ owners \in [System -> SUBSET Owner] /\ session \subseteq Account
        /\ edit \in [Request -> Permitted!Edit] /\ EligibleEdit(f)
        /\ f.at \in Owning => f \in Assigning
        /\ f.at \in {"add", "added", "save", "saved"} => f \in Keeping
    <2>1. /\ edit \in [Request -> Permitted!Edit] /\ EligibleEdit(f)
      BY DEF AccessInv, Permitted!TypeOK
    <2>2. f \in Permitted!Edit
      BY <2>1
    <2> QED
      BY <2>1, <2>2, EditKinds DEF AccessInv, Permitted!TypeOK
  <1>2. ASSUME f \in Keeping
        PROVE  /\ [f EXCEPT !.at = "added"] \in Keeping
               /\ [f EXCEPT !.at = "saved"] \in Keeping
    BY <1>2 DEF Keeping
  <1>3. CASE Permitted!add(r)
    <2>1. f \in Keeping /\ UNCHANGED <<status, owners, session>>
      BY <1>1, <1>3 DEF Permitted!add
    <2> QED
      BY <1>1, <1>2, <1>3, <2>1, EditGoesOn DEF Permitted!add
  <1>4. CASE Permitted!save(r)
    <2>1. f \in Keeping /\ UNCHANGED <<status, owners, session>>
      BY <1>1, <1>4 DEF Permitted!save
    <2> QED
      BY <1>1, <1>2, <1>4, <2>1, EditGoesOn DEF Permitted!save
  <1>5. CASE Permitted!CheckOwners(r)
    <2>1. f \in Assigning /\ UNCHANGED <<status, owners, session>> /\ f.at = "check"
      BY <1>1, <1>5 DEF Permitted!CheckOwners, Owning
    <2>2. CASE f.accounts \subseteq Owner
      <3>1. /\ [f EXCEPT !.at = "find"] \in Assigning
            /\ EligibleEdit([f EXCEPT !.at = "find"])
        BY <1>1, <2>1, <2>2, AssigningMoves DEF Owning
      <3>2. edit' = [edit EXCEPT ![r] = [f EXCEPT !.at = "find"]]
        BY <1>5, <2>2 DEF Permitted!CheckOwners, Permitted!Eligible
      <3> QED
        BY <1>1, <2>1, <3>1, <3>2, EditGoesOn
    <2>3. CASE ~(f.accounts \subseteq Owner)
      BY <1>1, <1>5, <2>1, <2>3, EditGoesOn
         DEF Permitted!CheckOwners, Permitted!Eligible
    <2> QED
      BY <2>2, <2>3
  <1>6. CASE Permitted!FindOwners(r)
    <2>1. /\ f \in Assigning /\ UNCHANGED <<status, owners, session>> /\ f.at = "find"
          /\ owners[f.system] \in SUBSET Account
      BY <1>1, <1>6, AccountAssumption DEF Permitted!FindOwners, Owning, Assigning
    <2>2. PICK at \in Owning, S \in SUBSET Account :
              edit' = [edit EXCEPT ![r] = [f EXCEPT !.rows = S, !.at = at]]
      BY <1>6, <2>1 DEF Permitted!FindOwners, Owning
    <2>3. /\ [f EXCEPT !.rows = S, !.at = at] \in Assigning
          /\ EligibleEdit([f EXCEPT !.rows = S, !.at = at])
      BY <1>1, <2>1, AssigningMoves
    <2> QED
      BY <1>1, <2>1, <2>2, <2>3, EditGoesOn
  <1>7. CASE Permitted!DeleteOwners(r)
    <2>1. /\ f \in Assigning /\ UNCHANGED <<status, owners, session>> /\ f.at = "delete"
          /\ f.rows \in SUBSET Account
      BY <1>1, <1>7 DEF Permitted!DeleteOwners, Owning, Assigning
    <2>2. edit' = [edit EXCEPT ![r] = [f EXCEPT !.at = "insert", !.rows = {},
                                                !.deleted = f.rows]]
      BY <1>7 DEF Permitted!DeleteOwners
    <2>3. /\ [f EXCEPT !.at = "insert", !.rows = {}, !.deleted = f.rows] \in Assigning
          /\ EligibleEdit([f EXCEPT !.at = "insert", !.rows = {}, !.deleted = f.rows])
      BY <1>1, <2>1, AssigningMoves DEF Owning
    <2> QED
      BY <1>1, <2>1, <2>2, <2>3, EditGoesOn
  <1>8. CASE Permitted!InsertOwners(r)
    <2>1. /\ f \in Assigning /\ UNCHANGED <<status, owners, session>> /\ f.at = "insert"
      BY <1>1, <1>8 DEF Permitted!InsertOwners, Owning
    <2>2. f.accounts \subseteq Owner /\ f.accounts \subseteq Account
      BY <1>1, <2>1 DEF EligibleEdit, Owning, Assigning
    <2> DEFINE S == Permitted!NewOwners(r)
    <2>3. S \in SUBSET Account /\ S \subseteq Owner
      BY <2>2 DEF Permitted!NewOwners
    <2>4. \/ edit' = [edit EXCEPT ![r] = [f EXCEPT !.at = "read", !.inserted = S]]
          \/ edit' = [edit EXCEPT ![r] = Permitted!NoEdit]
      BY <1>8 DEF Permitted!InsertOwners
    <2> HIDE DEF S
    <2>5. /\ [f EXCEPT !.at = "read", !.inserted = S] \in Assigning
          /\ EligibleEdit([f EXCEPT !.at = "read", !.inserted = S])
      BY <1>1, <2>1, <2>3, AssigningMoves DEF Owning
    <2> QED
      BY <1>1, <2>1, <2>4, <2>5, EditGoesOn
  <1>9. CASE Permitted!ReadOwners(r)
    <2>1. /\ f \in Assigning /\ UNCHANGED <<status, owners, session>> /\ f.at = "read"
      BY <1>1, <1>9 DEF Permitted!ReadOwners, Owning
    <2> DEFINE S == (f.previous \ Permitted!OwnersNow(r))
                        \cup (Permitted!OwnersNow(r) \ f.previous)
    <2>2. S \in SUBSET Account
      BY <1>1, <2>1, AccountAssumption DEF Permitted!OwnersNow, Assigning
    <2>3. edit' = [edit EXCEPT ![r] = [f EXCEPT !.at = "revoke", !.revoke = S]]
      BY <1>9 DEF Permitted!ReadOwners
    <2> HIDE DEF S
    <2>4. /\ [f EXCEPT !.at = "revoke", !.revoke = S] \in Assigning
          /\ EligibleEdit([f EXCEPT !.at = "revoke", !.revoke = S])
      BY <1>1, <2>1, <2>2, AssigningMoves DEF Owning
    <2> QED
      BY <1>1, <2>1, <2>3, <2>4, EditGoesOn
  <1>10. CASE Permitted!Revoke(r)
    <2>1. /\ f \in Assigning /\ UNCHANGED <<status, owners>> /\ f.at = "revoke"
          /\ f.revoke \in SUBSET Account /\ session' \subseteq Account
      BY <1>1, <1>10 DEF Permitted!Revoke, Owning, Assigning
    <2>2. PICK S \in SUBSET Account :
              edit' = [edit EXCEPT ![r] = [f EXCEPT !.revoke = S]]
      BY <1>10, <2>1 DEF Permitted!Revoke
    <2>3. /\ [f EXCEPT !.revoke = S] \in Assigning
          /\ EligibleEdit([f EXCEPT !.revoke = S])
      BY <1>1, <2>1, AssigningMoves DEF Owning
    <2> QED
      BY <1>1, <2>1, <2>2, <2>3, EditGoesOn
  <1>11. CASE Permitted!RollBack(r)
    BY <1>1, <1>11, EditGoesOn DEF Permitted!RollBack
  <1>12. CASE Permitted!CommitSystem(r)
    <2>1. /\ f \in Keeping /\ UNCHANGED <<owners, session>>
          /\ status' = [status EXCEPT ![f.system] = f.status]
          /\ edit' = [edit EXCEPT ![r] = Permitted!NoEdit]
      BY <1>1, <1>12 DEF Permitted!CommitSystem
    <2>2. status' \in [System -> Permitted!BusinessSystemStatus \cup {"absent"}]
      BY <1>1, <2>1 DEF Keeping
    <2> QED
      BY <1>1, <2>1, <2>2, EditKinds, EditContinues
  <1>13. CASE Permitted!CommitOwners(r)
    <2>1. /\ f \in Assigning /\ UNCHANGED <<status, session>> /\ f.at = "revoke"
          /\ owners' = [owners EXCEPT ![f.system] = Permitted!OwnersNow(r)]
          /\ edit' = [q \in Request |->
                        IF q = r THEN Permitted!NoEdit
                        ELSE IF q \in Permitted!Others(r, {"delete"})
                        THEN [edit[q] EXCEPT !.rows = edit[q].rows \ f.deleted]
                        ELSE edit[q]]
      BY <1>1, <1>13 DEF Permitted!CommitOwners, Owning
    <2>2. /\ f.system \in System /\ f.inserted \subseteq Owner
          /\ owners[f.system] \subseteq Owner
      BY <1>1, <2>1 DEF Assigning, EligibleEdit, Owning
    <2>3. Permitted!OwnersNow(r) \subseteq Owner
      BY <2>2 DEF Permitted!OwnersNow
    <2>4. owners' \in [System -> SUBSET Owner]
      BY <1>1, <2>1, <2>3
    <2>5. ASSUME NEW q \in Request
          PROVE  edit'[q] \in Permitted!Edit /\ EligibleEdit(edit'[q])
      <3>1. edit[q] \in Permitted!Edit /\ EligibleEdit(edit[q])
        BY <1>1 DEF AccessInv
      <3>2. CASE q \in Permitted!Others(r, {"delete"}) /\ q # r
        <4>1. edit[q].at = "delete"
          BY <3>2 DEF Permitted!Others
        <4>2. edit[q] \in Assigning
          BY <3>1, <4>1, EditKinds DEF Owning
        <4>3. edit[q].rows \ f.deleted \in SUBSET Account
          BY <4>2 DEF Assigning
        <4>4. PICK S \in SUBSET Account : edit'[q] = [edit[q] EXCEPT !.rows = S]
          BY <2>1, <3>2, <4>3
        <4>5. "delete" \in Owning
          BY DEF Owning
        <4> QED
          BY <3>1, <4>2, <4>4, <4>5, AssigningMoves, EditKinds
      <3>3. CASE q = r
        BY <2>1, <3>3, EditKinds
      <3>4. CASE q # r /\ q \notin Permitted!Others(r, {"delete"})
        BY <2>1, <3>1, <3>4
      <3> QED
        BY <3>2, <3>3, <3>4
    <2>6. edit' \in [Request -> Permitted!Edit]
      BY <2>1, <2>5
    <2> QED
      BY <1>1, <2>1, <2>4, <2>5, <2>6 DEF AccessInv, Permitted!TypeOK
  <1> QED
    BY <1>3, <1>4, <1>5, <1>6, <1>7, <1>8, <1>9, <1>10, <1>11, <1>12, <1>13
       DEF Permitted!Proceed

LEMMA AccessKept == AccessInv /\ [Next]_vars => AccessInv'
  <1> SUFFICES ASSUME AccessInv, [Next]_vars PROVE AccessInv'
    OBVIOUS
  <1>1. ASSUME UNCHANGED accessVars PROVE AccessInv'
    BY <1>1 DEF accessVars, AccessInv, Permitted!TypeOK
  <1>2. CASE Permitted!LogIn
    BY <1>2 DEF Permitted!LogIn, Permitted!log_in, AccessInv, Permitted!TypeOK
  <1>3. ASSUME NEW r \in Request, AccessStep(r) PROVE AccessInv'
    BY <1>3, EditStarts, EditProceeds DEF AccessStep
  <1>4. CASE UNCHANGED vars
    BY <1>1, <1>4 DEF vars, accessVars
  <1> QED
    BY <1>1, <1>2, <1>3, <1>4 DEF Next

LEMMA AccessInvInit == Init => AccessInv
  <1> SUFFICES ASSUME Init PROVE AccessInv
    OBVIOUS
  <1>1. /\ status \in [System -> Permitted!BusinessSystemStatus \cup {"absent"}]
        /\ owners \in [System -> SUBSET Owner] /\ session \subseteq Account
        /\ edit \in [Request -> Permitted!Edit]
        /\ \A r \in Request : EligibleEdit(edit[r])
    BY EditKinds DEF Init, Permitted!Init
  <1> QED
    BY <1>1 DEF AccessInv, Permitted!TypeOK

-----------------------------------------------------------------------------
(* Questions: the frame of a run that is set up.                           *)
Preparing ==
    [at : {"prepare"}, profile : SUBSET Profile, run : SUBSET Token,
     todo : Seq({"rewrite", "build", "profile"}),
     cache : Seq(SUBSET Version), rewriter : Seq(SUBSET Version),
     answerer : Seq(SUBSET Version)]

(* A copy of the client has no prompts, or those that are cached, and then *)
(* all of them have been read.                                             *)
SamePrompts(f) ==
    f.at = "prepare" =>
        /\ f.rewriter \in {<<>>, f.cache} /\ f.answerer \in {<<>>, f.cache}
        /\ f.rewriter # <<>> \/ f.answerer # <<>> => Len(f.cache) = Len(Scenarios)

(* The run of the grant is to start from this frame.                       *)
Uses(f, t) ==
    \/ f.at = "recheck" /\ f.run = t
    \/ f.at = "prepare" /\ t \in f.run

(* A grant that is kept has not been used; one that has been redeemed is   *)
(* in the hands of one request at most, and of none when its run began.    *)
UsedOnce(t) ==
    /\ runs[t] \in {0, 1}
    /\ token[t] # Gone => runs[t] = 0 /\ \A r \in Request : ~Uses(question[r], t)
    /\ runs[t] = 1 => \A r \in Request : ~Uses(question[r], t)
    /\ \A q, r \in Request : Uses(question[q], t) /\ Uses(question[r], t) => q = r

(* A grant is presented only once it has been given.                       *)
Granted(f) == f.at = "redeem" => token[f.run] # NoGrant

QuestionInv ==
    /\ token \in [Token -> {NoGrant, Gone} \cup {Stored(asked) : asked \in Asked}]
    /\ runs \in [Token -> Nat]
    /\ question \in [Request -> Question]
    /\ begun \in 0 .. MaxRequests
    /\ \A t \in Token : UsedOnce(t)
    /\ \A r \in Request : SamePrompts(question[r]) /\ Granted(question[r])

LEMMA QuestionKinds ==
    ASSUME NEW f \in Question
    PROVE  /\ f.at = "prepare" => f \in Preparing
           /\ f.at \in {"ask", "mint", "recheck"} => f.asked \in Asked
           /\ f.at \in {"recheck", "redeem"} => f.run \in Token
  BY DEF Question, Preparing

LEMMA QuestionFrames ==
    /\ NoQuestion \in Question
    /\ \A at \in {"ask", "mint"}, asked \in Asked :
           [at |-> at, asked |-> asked] \in Question
    /\ \A a \in Account, t \in Token :
           [at |-> "redeem", account |-> a, run |-> t] \in Question
    /\ \A asked \in Asked, t \in Token :
           [at |-> "recheck", asked |-> asked, run |-> t] \in Question
    /\ Preparing \subseteq Question
  BY DEF Question, Preparing, NoQuestion

(* A run that is set up has nothing read yet.                              *)
LEMMA PreparingBegins ==
    ASSUME NEW asked \in Asked, NEW run \in SUBSET Token,
           NEW todo \in {Rewriting(asked) \o <<"build", "profile">>,
                         <<"build", "profile">> \o Rewriting(asked)}
    PROVE  LET f == Prepare(asked, run, todo)
           IN  /\ f \in Preparing /\ f.at = "prepare" /\ f.run = run
               /\ SamePrompts(f)
  <1>1. /\ Rewriting(asked) \in Seq({"rewrite", "build", "profile"})
        /\ <<"build", "profile">> \in Seq({"rewrite", "build", "profile"})
    <2> DEFINE Steps == {"rewrite", "build", "profile"}
    <2>1. <<>> \in Seq(Steps) /\ <<"rewrite">> \in Seq(Steps)
      OBVIOUS
    <2>2. <<"build", "profile">> \in Seq(Steps)
      OBVIOUS
    <2> QED
      BY <2>1, <2>2 DEF Rewriting
  <1>2. todo \in Seq({"rewrite", "build", "profile"})
    BY <1>1, ConcatProperties
  <1>3. asked.profile \in SUBSET Profile
    BY DEF Asked
  <1> QED
    BY <1>2, <1>3 DEF Prepare, Preparing, SamePrompts

(* What becomes of the frame of a run that is set up.                      *)
LEMMA PreparingMoves ==
    ASSUME NEW f \in Preparing, SamePrompts(f), NEW set \in SUBSET Version
    PROVE  /\ Len(f.cache) # Len(Scenarios) =>
                  LET g == [f EXCEPT !.cache = Append(@, set)]
                  IN  g \in Preparing /\ SamePrompts(g) /\ g.run = f.run
           /\ f.todo # <<>> =>
                  LET g == [f EXCEPT !.todo = Tail(@)]
                  IN  g \in Preparing /\ SamePrompts(g) /\ g.run = f.run
           /\ f.todo # <<>> /\ Len(f.cache) = Len(Scenarios) =>
                  LET g == [[f EXCEPT !.todo = Tail(@)] EXCEPT
                               !.rewriter = f.cache, !.cache = f.cache]
                      h == [[f EXCEPT !.todo = Tail(@)] EXCEPT
                               !.answerer = f.cache, !.cache = f.cache]
                  IN  /\ g \in Preparing /\ SamePrompts(g) /\ g.run = f.run
                      /\ h \in Preparing /\ SamePrompts(h) /\ h.run = f.run
  <1>1. /\ f.at = "prepare"
        /\ f.cache \in Seq(SUBSET Version)
        /\ f.todo \in Seq({"rewrite", "build", "profile"})
        /\ f.todo # <<>> => Tail(f.todo) \in Seq({"rewrite", "build", "profile"})
        /\ Append(f.cache, set) \in Seq(SUBSET Version)
    BY DEF Preparing
  <1>2. ASSUME Len(f.cache) # Len(Scenarios)
        PROVE  LET g == [f EXCEPT !.cache = Append(@, set)]
               IN  g \in Preparing /\ SamePrompts(g) /\ g.run = f.run
    <2>1. f.rewriter = <<>> /\ f.answerer = <<>>
      BY <1>1, <1>2 DEF SamePrompts
    <2> DEFINE g == [f EXCEPT !.cache = Append(@, set)]
    <2>2. g \in Preparing
      BY <1>1 DEF Preparing
    <2>3. g.rewriter = <<>> /\ g.answerer = <<>> /\ g.run = f.run
      BY <2>1 DEF Preparing
    <2> HIDE DEF g
    <2>4. SamePrompts(g)
      BY <2>3 DEF SamePrompts
    <2> QED
      BY <2>2, <2>3, <2>4 DEF g
  <1>3. ASSUME f.todo # <<>>
        PROVE  LET g == [f EXCEPT !.todo = Tail(@)]
               IN  g \in Preparing /\ SamePrompts(g) /\ g.run = f.run
    BY <1>1, <1>3 DEF Preparing, SamePrompts
  <1>4. ASSUME f.todo # <<>>, Len(f.cache) = Len(Scenarios)
        PROVE  LET g == [[f EXCEPT !.todo = Tail(@)] EXCEPT
                            !.rewriter = f.cache, !.cache = f.cache]
                   h == [[f EXCEPT !.todo = Tail(@)] EXCEPT
                            !.answerer = f.cache, !.cache = f.cache]
               IN  /\ g \in Preparing /\ SamePrompts(g) /\ g.run = f.run
                   /\ h \in Preparing /\ SamePrompts(h) /\ h.run = f.run
    BY <1>1, <1>4 DEF Preparing, SamePrompts
  <1> QED
    BY <1>2, <1>3, <1>4

(* A step that goes on with a frame which is right, and in which no grant  *)
(* is used that was not: the grants and the runs stay as they are.         *)
LEMMA QuestionContinues ==
    ASSUME QuestionInv, NEW r \in Request, NEW f \in Question,
           question' = [question EXCEPT ![r] = f], UNCHANGED <<token, runs>>,
           SamePrompts(f), Granted(f), begun' \in 0 .. MaxRequests,
           \A t \in Token : Uses(f, t) => Uses(question[r], t)
    PROVE  QuestionInv'
  <1>1. /\ question' \in [Request -> Question]
        /\ \A q \in Request : question'[q] = IF q = r THEN f ELSE question[q]
    BY DEF QuestionInv
  <1>2. \A q \in Request : SamePrompts(question'[q]) /\ Granted(question'[q])
    BY <1>1 DEF QuestionInv
  <1>3. \A q \in Request, t \in Token : Uses(question'[q], t) => Uses(question[q], t)
    BY <1>1
  <1>4. ASSUME NEW t \in Token PROVE UsedOnce(t)'
    BY <1>3 DEF QuestionInv, UsedOnce
  <1>5. \A q \in Request : (SamePrompts(question[q]) /\ Granted(question[q]))'
    BY <1>2 DEF Granted
  <1> QED
    BY <1>1, <1>4, <1>5 DEF QuestionInv

(* A request that ends.                                                    *)
LEMMA QuestionEnds ==
    /\ SamePrompts(NoQuestion) /\ Granted(NoQuestion)
    /\ \A t \in Token : ~Uses(NoQuestion, t)
  BY DEF SamePrompts, Granted, Uses, NoQuestion

LEMMA QuestionBegins ==
    ASSUME QuestionInv, NEW r \in Request, Ask(r), begun' \in 0 .. MaxRequests
    PROVE  QuestionInv'
  <1> USE DEF Continue
  <1>1. ASSUME NEW at \in {"ask", "mint"}, Begin(r, at) PROVE QuestionInv'
    <2>1. PICK asked \in Asked :
              question' = [question EXCEPT ![r] = [at |-> at, asked |-> asked]]
      BY <1>1 DEF Begin
    <2> DEFINE f == [at |-> at, asked |-> asked]
    <2>2. f \in Question /\ SamePrompts(f) /\ Granted(f)
          /\ \A t \in Token : ~Uses(f, t)
      BY QuestionFrames DEF SamePrompts, Granted, Uses
    <2>3. question' = [question EXCEPT ![r] = f] /\ UNCHANGED <<token, runs>>
      BY <1>1, <2>1 DEF Begin
    <2> HIDE DEF f
    <2> QED
      BY <2>2, <2>3, QuestionContinues
  <1>2. ASSUME NEW a \in Account, NEW t \in Token, question_stream_events(r, a, t)
        PROVE  QuestionInv'
    <2> DEFINE f == [at |-> "redeem", account |-> a, run |-> t]
    <2>1. f \in Question /\ SamePrompts(f) /\ Granted(f)
          /\ \A u \in Token : ~Uses(f, u)
      BY <1>2, QuestionFrames DEF SamePrompts, Granted, Uses, question_stream_events
    <2>2. question' = [question EXCEPT ![r] = f] /\ UNCHANGED <<token, runs>>
      BY <1>2 DEF question_stream_events
    <2> HIDE DEF f
    <2> QED
      BY <2>1, <2>2, QuestionContinues
  <1> QED
    BY <1>1, <1>2 DEF Ask, ask_question, start_question_stream

(* The step of a run that is set up.                                       *)
LEMMA PreparingContinues ==
    ASSUME QuestionInv, NEW r \in Request, NEW f \in Preparing, SamePrompts(f),
           question[r].at = "prepare", f.run = question[r].run,
           question' = [question EXCEPT ![r] = f], UNCHANGED <<token, runs>>,
           begun' \in 0 .. MaxRequests
    PROVE  QuestionInv'
  <1>1. f \in Question /\ f.at = "prepare"
    BY QuestionFrames DEF Preparing
  <1>2. Granted(f)
    BY <1>1 DEF Granted
  <1>3. \A t \in Token : Uses(f, t) => Uses(question[r], t)
    BY <1>1 DEF Uses
  <1> QED
    BY <1>1, <1>2, <1>3, QuestionContinues

LEMMA QuestionPrepares ==
    ASSUME QuestionInv, NEW r \in Request, begun' \in 0 .. MaxRequests,
           \/ _resolve_active_prompts(r) \/ _maybe_rewrite_query(r)
           \/ _build_request_llm(r) \/ _build_question_service(r)
    PROVE  QuestionInv'
  <1> USE DEF Continue
  <1> DEFINE f == question[r]
  <1>1. /\ f.at = "prepare" /\ f \in Question
        /\ SamePrompts(f) /\ UNCHANGED <<token, runs>>
    BY DEF QuestionInv, _resolve_active_prompts, _maybe_rewrite_query,
       _build_request_llm, _build_question_service, Doing
  <1>2. f \in Preparing
    BY <1>1, QuestionKinds
  <1>3. CASE _resolve_active_prompts(r)
    <2> DEFINE S == Configured!get_active(Scenarios[Len(f.cache) + 1])
               g == [f EXCEPT !.cache = Append(@, S)]
    <2>1. S \in SUBSET Version
      BY DEF Configured!get_active
    <2>2. Len(f.cache) # Len(Scenarios) /\ question' = [question EXCEPT ![r] = g]
      BY <1>3 DEF _resolve_active_prompts, Resolved
    <2> HIDE DEF S
    <2>3. g \in Preparing /\ SamePrompts(g) /\ g.run = f.run
      BY <1>1, <1>2, <2>1, <2>2, PreparingMoves
    <2> HIDE DEF g
    <2> QED
      BY <1>1, <2>2, <2>3, PreparingContinues
  <1>4. CASE _maybe_rewrite_query(r)
    <2> DEFINE g == [[f EXCEPT !.todo = Tail(@)] EXCEPT
                        !.rewriter = f.cache, !.cache = f.cache]
    <2>1. /\ f.todo # <<>> /\ Len(f.cache) = Len(Scenarios)
          /\ question' = [question EXCEPT ![r] = g]
      BY <1>2, <1>4 DEF _maybe_rewrite_query, Doing, Resolved, Done, Cached, Preparing
    <2>2. g \in Preparing /\ SamePrompts(g) /\ g.run = f.run
      BY <1>1, <1>2, <2>1, PreparingMoves
    <2> HIDE DEF g
    <2> QED
      BY <1>1, <2>1, <2>2, PreparingContinues
  <1>5. CASE _build_request_llm(r)
    <2> DEFINE g == [[f EXCEPT !.todo = Tail(@)] EXCEPT
                        !.answerer = f.cache, !.cache = f.cache]
    <2>1. /\ f.todo # <<>> /\ Len(f.cache) = Len(Scenarios)
          /\ question' = [question EXCEPT ![r] = g]
      BY <1>2, <1>5 DEF _build_request_llm, Doing, Resolved, Done, Cached, Preparing
    <2>2. g \in Preparing /\ SamePrompts(g) /\ g.run = f.run
      BY <1>1, <1>2, <2>1, PreparingMoves
    <2> HIDE DEF g
    <2> QED
      BY <1>1, <2>1, <2>2, PreparingContinues
  <1>6. CASE _build_question_service(r)
    <2> DEFINE g == [f EXCEPT !.todo = Tail(@)]
    <2>1. /\ f.todo # <<>>
          /\ \/ question' = [question EXCEPT ![r] = g]
             \/ question' = [question EXCEPT ![r] = NoQuestion]
      BY <1>6 DEF _build_question_service, Doing, Done, End
    <2>2. g \in Preparing /\ SamePrompts(g) /\ g.run = f.run
      BY <1>1, <1>2, <2>1, PreparingMoves
    <2> HIDE DEF g
    <2>3. CASE question' = [question EXCEPT ![r] = g]
      BY <1>1, <2>2, <2>3, PreparingContinues
    <2>4. CASE question' = [question EXCEPT ![r] = NoQuestion]
      BY <1>1, <2>4, QuestionEnds, QuestionFrames, QuestionContinues
    <2> QED
      BY <2>1, <2>3, <2>4
  <1> QED
    BY <1>3, <1>4, <1>5, <1>6

(* A step that changes the grants or the runs.                             *)
LEMMA QuestionRedeems ==
    ASSUME QuestionInv, NEW r \in Request, NEW f \in Question,
           question' = [question EXCEPT ![r] = f],
           token' \in [Token -> {NoGrant, Gone} \cup {Stored(asked) : asked \in Asked}],
           runs' \in [Token -> Nat],
           SamePrompts(f), f.at # "redeem", begun' \in 0 .. MaxRequests,
           \A t \in Token : token[t] # NoGrant => token'[t] # NoGrant,
           \A t \in Token :
               /\ runs'[t] \in {0, 1}
               /\ runs'[t] # runs[t] =>
                      /\ runs'[t] = 1 /\ Uses(question[r], t)
                      /\ token'[t] = Gone /\ ~Uses(f, t)
               /\ token[t] = Gone => token'[t] = Gone
               /\ Uses(f, t) /\ ~Uses(question[r], t) =>
                      token[t] # Gone /\ token'[t] = Gone
    PROVE  QuestionInv'
  <1>1. /\ question' \in [Request -> Question]
        /\ \A q \in Request : question'[q] = IF q = r THEN f ELSE question[q]
    BY DEF QuestionInv
  <1>2. \A q \in Request : SamePrompts(question'[q])
    BY <1>1 DEF QuestionInv
  <1>3. ASSUME NEW q \in Request PROVE Granted(question[q])'
    <2>1. CASE q = r
      BY <1>1, <2>1 DEF Granted
    <2>2. CASE q # r
      <3>1. question'[q] = question[q] /\ question[q] \in Question
        BY <1>1, <2>2 DEF QuestionInv
      <3>2. question[q].at = "redeem" => question[q].run \in Token
        BY <3>1, QuestionKinds
      <3> QED
        BY <3>1, <3>2 DEF QuestionInv, Granted
    <2> QED
      BY <2>1, <2>2
  <1>4. ASSUME NEW t \in Token PROVE UsedOnce(t)'
    <2>1. UsedOnce(t)
      BY DEF QuestionInv
    <2>2. \A q \in Request : q # r => (Uses(question'[q], t) <=> Uses(question[q], t))
      BY <1>1
    <2>3. question'[r] = f
      BY <1>1
    <2> QED
      BY <2>1, <2>2, <2>3 DEF UsedOnce
  <1> QED
    BY <1>1, <1>2, <1>3, <1>4 DEF QuestionInv

LEMMA QuestionGoesOn ==
    ASSUME QuestionInv, NEW r \in Request, GoOn(r), begun' \in 0 .. MaxRequests
    PROVE  QuestionInv'
  <1> USE DEF Continue
  <1> DEFINE f == question[r]
  <1>0. /\ f \in Question /\ question \in [Request -> Question]
        /\ token \in [Token -> {NoGrant, Gone} \cup {Stored(asked) : asked \in Asked}]
        /\ runs \in [Token -> Nat]
        /\ \A t \in Token : runs[t] \in {0, 1}
        /\ SamePrompts(NoQuestion) /\ Granted(NoQuestion)
        /\ NoQuestion \in Question /\ NoQuestion.at # "redeem"
        /\ \A t \in Token : ~Uses(NoQuestion, t)
    BY QuestionEnds, QuestionFrames DEF QuestionInv, UsedOnce, NoQuestion
  <1>1. CASE Authorize(r)
    <2>1. f.asked \in Asked /\ UNCHANGED <<token, runs>>
      BY <1>0, <1>1, QuestionKinds DEF Authorize
    <2> DEFINE g == Prepare(f.asked, {}, Rewriting(f.asked) \o <<"build", "profile">>)
    <2>2. \/ question' = [question EXCEPT ![r] = g]
          \/ question' = [question EXCEPT ![r] = NoQuestion]
      BY <1>1 DEF Authorize, End
    <2>3. g \in Preparing /\ g.at = "prepare" /\ g.run = {} /\ SamePrompts(g)
      BY <2>1, PreparingBegins
    <2> HIDE DEF g
    <2>4. g \in Question /\ Granted(g) /\ \A t \in Token : ~Uses(g, t)
      BY <2>3, QuestionFrames DEF Granted, Uses
    <2> QED
      BY <1>0, <2>1, <2>2, <2>3, <2>4, QuestionContinues
  <1>2. CASE Mint(r)
    <2>1. /\ question' = [question EXCEPT ![r] = NoQuestion] /\ UNCHANGED runs
          /\ f.asked \in Asked
      BY <1>0, <1>2, QuestionKinds DEF Mint, End
    <2>2. CASE UNCHANGED token
      BY <1>0, <2>1, <2>2, QuestionContinues
    <2>3. ASSUME NEW t \in Token, token[t] = NoGrant,
                 token' = [token EXCEPT ![t] = Stored(f.asked)]
          PROVE  QuestionInv'
      <3>1. Stored(f.asked) # NoGrant /\ NoGrant # Gone
        BY DEF Stored, NoGrant, Gone
      <3>2. /\ token' \in [Token -> {NoGrant, Gone} \cup {Stored(asked) : asked \in Asked}]
            /\ \A u \in Token : token'[u] = IF u = t THEN Stored(f.asked) ELSE token[u]
        BY <1>0, <2>1, <2>3
      <3>3. \A u \in Token : /\ token[u] # NoGrant => token'[u] # NoGrant
                             /\ token[u] = Gone => token'[u] = Gone
        BY <2>3, <3>1, <3>2
      <3>4. \A u \in Token :
               /\ runs'[u] \in {0, 1} /\ runs'[u] = runs[u]
               /\ ~Uses(NoQuestion, u)
        BY <1>0, <2>1
      <3>5. runs' \in [Token -> Nat]
        BY <1>0, <2>1
      <3>6. \A u \in Token :
               /\ runs'[u] \in {0, 1}
               /\ runs'[u] # runs[u] =>
                      /\ runs'[u] = 1 /\ Uses(question[r], u)
                      /\ token'[u] = Gone /\ ~Uses(NoQuestion, u)
               /\ token[u] = Gone => token'[u] = Gone
               /\ Uses(NoQuestion, u) /\ ~Uses(question[r], u) =>
                      token[u] # Gone /\ token'[u] = Gone
        BY <3>3, <3>4
      <3> HIDE DEF f
      <3> QED
        BY <1>0, <2>1, <3>2, <3>3, <3>5, <3>6, QuestionRedeems
    <2> QED
      BY <1>2, <2>2, <2>3 DEF Mint
  <1>3. CASE _consume_sse_token(r)
    <2> DEFINE t == f.run
    <2>1. t \in Token /\ UNCHANGED runs /\ f.at = "redeem" /\ token[t] # NoGrant
      BY <1>0, <1>3, QuestionKinds DEF _consume_sse_token, QuestionInv, Granted
    <2>2. CASE token[t] # Gone /\ token[t].asked.account = f.account
      <3>1. PICK asked \in Asked : token[t] = Stored(asked)
        BY <1>0, <2>1, <2>2
      <3> DEFINE g == [at |-> "recheck", asked |-> asked, run |-> t]
      <3>2. token' = [token EXCEPT ![t] = Gone] /\ question' = [question EXCEPT ![r] = g]
        <4>1. token[t].asked = asked
          BY <3>1 DEF Stored
        <4> QED
          BY <1>3, <2>2, <4>1 DEF _consume_sse_token, AfterRead
      <3>3. /\ g \in Question /\ SamePrompts(g) /\ g.at # "redeem"
            /\ \A u \in Token : Uses(g, u) <=> u = t
        BY <2>1, QuestionFrames DEF SamePrompts, Uses
      <3> HIDE DEF g
      <3>4. /\ token' \in [Token -> {NoGrant, Gone} \cup {Stored(a) : a \in Asked}]
            /\ \A u \in Token : token'[u] = IF u = t THEN Gone ELSE token[u]
        BY <1>0, <2>1, <3>2
      <3>5. \A u \in Token : /\ token[u] # NoGrant => token'[u] # NoGrant
                             /\ token[u] = Gone => token'[u] = Gone
                             /\ Uses(g, u) => token[u] # Gone /\ token'[u] = Gone
        BY <2>2, <3>3, <3>4 DEF NoGrant, Gone
      <3> QED
        BY <1>0, <2>1, <3>2, <3>3, <3>4, <3>5, QuestionRedeems
    <2>3. CASE ~(token[t] # Gone /\ token[t].asked.account = f.account)
      <3>1. UNCHANGED token /\ question' = [question EXCEPT ![r] = NoQuestion]
        BY <1>3, <2>3 DEF _consume_sse_token, End
      <3> QED
        BY <1>0, <2>1, <3>1, QuestionContinues
    <2> QED
      BY <2>2, <2>3
  <1>4. CASE Recheck(r)
    <2>1. /\ f.asked \in Asked /\ f.run \in Token /\ f.at = "recheck"
          /\ UNCHANGED <<token, runs>>
      BY <1>0, <1>4, QuestionKinds DEF Recheck
    <2> DEFINE g == Prepare(f.asked, {f.run},
                            <<"build", "profile">> \o Rewriting(f.asked))
    <2>2. \/ question' = [question EXCEPT ![r] = g]
          \/ question' = [question EXCEPT ![r] = NoQuestion]
      BY <1>4 DEF Recheck, End
    <2>3. g \in Preparing /\ g.at = "prepare" /\ g.run = {f.run} /\ SamePrompts(g)
      BY <2>1, PreparingBegins
    <2> HIDE DEF g
    <2>4. g \in Question /\ Granted(g) /\ \A t \in Token : Uses(g, t) => Uses(f, t)
      BY <2>1, <2>3, QuestionFrames DEF Granted, Uses
    <2> QED
      BY <1>0, <2>1, <2>2, <2>3, <2>4, QuestionContinues
  <1>5. CASE Run(r)
    <2>1. /\ f.at = "prepare" /\ UNCHANGED token
          /\ question' = [question EXCEPT ![r] = NoQuestion]
          /\ runs' = [t \in Token |-> runs[t] + IF t \in f.run THEN 1 ELSE 0]
      BY <1>5 DEF Run, End
    <2>2. ASSUME NEW t \in Token
          PROVE  /\ runs'[t] \in {0, 1}
                 /\ runs'[t] # runs[t] =>
                        runs'[t] = 1 /\ Uses(f, t) /\ token[t] = Gone
      <3>1. UsedOnce(t)
        BY DEF QuestionInv
      <3>2. CASE t \in f.run
        BY <2>1, <3>1, <3>2 DEF UsedOnce, Uses
      <3>3. CASE t \notin f.run
        BY <1>0, <2>1, <3>3
      <3> QED
        BY <3>2, <3>3
    <2>3. runs' \in [Token -> Nat]
      BY <2>1, <2>2
    <2> HIDE DEF f
    <2>4. /\ \A t \in Token : /\ token[t] # NoGrant => token'[t] # NoGrant
                              /\ token[t] = Gone => token'[t] = Gone
          /\ token' \in [Token -> {NoGrant, Gone} \cup {Stored(asked) : asked \in Asked}]
      BY <1>0, <2>1
    <2>5. \A t \in Token :
               /\ runs'[t] \in {0, 1}
               /\ runs'[t] # runs[t] =>
                      /\ runs'[t] = 1 /\ Uses(question[r], t)
                      /\ token'[t] = Gone /\ ~Uses(NoQuestion, t)
               /\ token[t] = Gone => token'[t] = Gone
               /\ Uses(NoQuestion, t) /\ ~Uses(question[r], t) =>
                      token[t] # Gone /\ token'[t] = Gone
      BY <1>0, <2>1, <2>2 DEF f
    <2> QED
      BY <1>0, <2>1, <2>3, <2>4, <2>5, QuestionRedeems
  <1> QED
    BY <1>1, <1>2, <1>3, <1>4, <1>5, QuestionPrepares DEF GoOn

LEMMA QuestionInvInit == Init => QuestionInv
  <1> SUFFICES ASSUME Init PROVE QuestionInv
    OBVIOUS
  <1>1. /\ token \in [Token -> {NoGrant, Gone} \cup {Stored(asked) : asked \in Asked}]
        /\ runs \in [Token -> Nat] /\ question \in [Request -> Question]
        /\ begun \in 0 .. MaxRequests
    BY QuestionFrames, BoundAssumption DEF Init
  <1>2. \A r \in Request : question[r] = NoQuestion
    BY DEF Init
  <1>3. \A t \in Token : runs[t] = 0
    BY DEF Init
  <1>4. \A r \in Request : /\ SamePrompts(question[r]) /\ Granted(question[r])
                           /\ \A t \in Token : ~Uses(question[r], t)
    BY <1>2, QuestionEnds DEF Granted
  <1> QED
    BY <1>1, <1>3, <1>4 DEF QuestionInv, UsedOnce

LEMMA QuestionKept == QuestionInv /\ [Next]_vars => QuestionInv'
  <1> SUFFICES ASSUME QuestionInv, [Next]_vars PROVE QuestionInv'
    OBVIOUS
  <1>1. ASSUME UNCHANGED questionVars, begun' \in 0 .. MaxRequests PROVE QuestionInv'
    BY <1>1 DEF questionVars, QuestionInv, UsedOnce, Granted
  <1>2. begun \in 0 .. MaxRequests /\ MaxRequests \in Nat
    BY BoundAssumption DEF QuestionInv
  <1>3. ASSUME NEW r \in Request, QuestionStep(r) PROVE QuestionInv'
    BY <1>2, <1>3, QuestionBegins, QuestionGoesOn DEF QuestionStep, Begun
  <1>4. ASSUME NEW t \in Token, TokenExpires(t), UNCHANGED begun PROVE QuestionInv'
    <2>1. /\ UNCHANGED <<runs, question>>
          /\ token' \in [Token -> {NoGrant, Gone} \cup {Stored(asked) : asked \in Asked}]
          /\ \A u \in Token : token'[u] = IF u = t THEN Gone ELSE token[u]
      BY <1>4 DEF TokenExpires, QuestionInv
    <2>2. \A u \in Token : UsedOnce(u)'
      BY <2>1 DEF QuestionInv, UsedOnce
    <2>3. ASSUME NEW r \in Request PROVE Granted(question[r])'
      <3>1. /\ question'[r] = question[r] /\ question[r] \in Question
            /\ question[r].at = "redeem" => question[r].run \in Token
        BY <2>1, QuestionKinds DEF QuestionInv
      <3> QED
        BY <2>1, <3>1 DEF QuestionInv, Granted, NoGrant, Gone
    <2> QED
      BY <1>4, <2>1, <2>2, <2>3 DEF QuestionInv
  <1>5. ASSUME NEW r \in Request, ConfigurationStep(r) \/ AccessStep(r)
        PROVE  begun' \in 0 .. MaxRequests
    BY <1>2, <1>5 DEF ConfigurationStep, AccessStep, Begun
  <1>6. CASE UNCHANGED vars
    BY <1>1, <1>2, <1>6 DEF vars, questionVars
  <1> QED
    BY <1>1, <1>2, <1>3, <1>4, <1>5, <1>6 DEF Next

LEMMA AdmissionInvariance == Spec => [](AccessInv /\ QuestionInv)
  BY AccessInvInit, AccessKept, QuestionInvInit, QuestionKept, PTL DEF Spec

-----------------------------------------------------------------------------
(* Of the requests a grant's run is to start from there is at most one,    *)
(* and none when it has started.                                           *)
LEMMA AtMostOneStart ==
    ASSUME QuestionInv, NEW t \in Token
    PROVE  runs[t] + Cardinality(Starting(t)) <= 1
  <1>1. /\ UsedOnce(t) /\ \A r \in Request : r \in Starting(t) <=> Uses(question[r], t)
        /\ Starting(t) \subseteq Request
    BY DEF QuestionInv, Starting, Uses
  <1>2. CASE Starting(t) = {}
    BY <1>1, <1>2, FS_EmptySet DEF UsedOnce
  <1>3. CASE Starting(t) # {}
    <2>1. PICK r \in Request : r \in Starting(t)
      BY <1>1, <1>3
    <2>2. Starting(t) = {r} /\ runs[t] = 0
      BY <1>1, <2>1 DEF UsedOnce
    <2> QED
      BY <2>2, FS_Singleton
  <1> QED
    BY <1>2, <1>3

(* However often a grant is presented and by however many requests, its    *)
(* run starts at most once (_consume_sse_token).                           *)
THEOREM GrantsStartOnce == Spec => []RunsStartOnce
  <1>1. RowsInv => Configured!TypeOK
    BY DEF RowsInv
  <1>2. Configured!TypeOK /\ AccessInv /\ QuestionInv => RunsStartOnce
    BY AtMostOneStart DEF RunsStartOnce, TypeOK, AccessInv, QuestionInv
  <1> QED
    BY ImplementsConfiguration, RowsInvariance, AdmissionInvariance,
       <1>1, <1>2, PTL

(* A question is rewritten and answered under the same prompts, whichever  *)
(* an administrator activates meanwhile (_resolve_active_prompts).         *)
THEOREM PromptsAgree == Spec => []OnePromptSet
  <1>1. QuestionInv => OnePromptSet
    BY DEF QuestionInv, SamePrompts, OnePromptSet
  <1> QED
    BY AdmissionInvariance, <1>1, PTL
================================================================================
