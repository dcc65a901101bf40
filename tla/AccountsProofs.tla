---------------------------- MODULE AccountsProofs ----------------------------
(***************************************************************************)
(* Proofs about Accounts, for every set of accounts and requests.  As long *)
(* as no two requests change one account at the same time, what a request  *)
(* has read is what it overwrites: an administrator who can log in remains,*)
(* since a request that takes one away holds the lock of another; and the  *)
(* two columns a session is compared with are counted up together.  The    *)
(* session of a change that was undone names a version to come, and stays  *)
(* where the next revocation finds it.  With or without that, failures are *)
(* bounded by the limit and the requests.                                  *)
(***************************************************************************)
EXTENDS Accounts, FiniteSetTheorems, TLAPS

USE RequestAssumption, AccountAssumption

-----------------------------------------------------------------------------
(* The parts of the inductive invariant.                                   *)
Rows ==
    /\ account \in [Account -> Row]
    /\ locked \in [Account -> Request \cup {NoRequest}]
    /\ request \in [Request -> Frame]

Saving == {"save", "revoke", "delete", "session", "commit"}

Saved == Saving \ {"save"}

Changes == Saving \cup {"lock"}

(* What a request has read is the row of now, and nobody else changes it.  *)
ReadsCurrent ==
    \A r \in Request : request[r].pc \in Changes =>
        /\ request[r].read = account[request[r].account]
        /\ account[request[r].account].status # "ABSENT"

Apart ==
    \A q, r \in Request :
        /\ q # r /\ request[q].pc \in Changes /\ request[r].pc \in Changes
        => request[q].account # request[r].account

HoldsItsRow ==
    \A r \in Request :
        request[r].pc \in Saved => locked[request[r].account] = r

(* Beside the administrator it takes away, a request holds another.        *)
Spares(r, b) ==
    b # request[r].account /\ ActiveAdmin(account[b]) /\ locked[b] = r

HoldsAnother ==
    \A r \in Request :
        /\ request[r].pc \in Saving
        /\ ProtectsAdmin(request[r].read, request[r].change)
        => \E b \in Account : Spares(r, b)

AdminInv ==
    /\ Rows /\ ReadsCurrent /\ Apart /\ HoldsItsRow /\ HoldsAnother
    /\ AnActiveAdmin

-----------------------------------------------------------------------------
(* A request's frame while it changes an account.                          *)
LEMMA ChangeFrame ==
    ASSUME Rows, NEW r \in Request, request[r].pc \in Changes
    PROVE  /\ request[r].account \in Account /\ request[r].read \in Row
           /\ request[r].change \in Change
  <1>1. request[r] \in Frame
    BY DEF Rows
  <1> QED
    BY <1>1 DEF Frame, Changes, Saving

(* What a change makes of a row is a row; and of an administrator, unless  *)
(* the change is one that is checked, an administrator.                    *)
LEMMA ChangedRow ==
    ASSUME Rows, NEW r \in Request, request[r].pc \in Changes
    PROVE  /\ Changed(r) \in Row
           /\ request[r].read.status # "ABSENT" => Changed(r).status # "ABSENT"
           /\ ActiveAdmin(request[r].read)
                  /\ ~ProtectsAdmin(request[r].read, request[r].change)
              => ActiveAdmin(Changed(r))
  <1> DEFINE read == request[r].read
             change == request[r].change
             v == account[request[r].account].version + 1
             row == [read EXCEPT !.session = @ + 1, !.version = v]
  <1>1. request[r].account \in Account /\ read \in Row /\ change \in Change
    BY ChangeFrame
  <1>2. v \in Nat
    BY <1>1 DEF Rows, Row
  <1>3. /\ row \in Row /\ row.role = read.role /\ row.status = read.status
    <2> HIDE DEF read, v
    <2>1. read.session + 1 \in Nat
      BY <1>1 DEF Row
    <2> QED
      BY <1>1, <1>2, <2>1 DEF Row
  <1>4. Changed(r) = CASE change.field = "status" -> [row EXCEPT !.status = change.to]
                       [] change.field = "role" -> [row EXCEPT !.role = change.to]
                       [] OTHER -> row
    BY DEF Changed
  <1> HIDE DEF row, read, change
  <1>5. CASE change.field = "status"
    <2>1. /\ change.to \in AccountStatus
          /\ Changed(r) = [row EXCEPT !.status = change.to]
      BY <1>1, <1>4, <1>5 DEF Change
    <2> QED
      BY <1>3, <1>5, <2>1 DEF Row, AccountStatus, ActiveAdmin, ProtectsAdmin,
         read, change
  <1>6. CASE change.field = "role"
    <2>1. /\ change.to \in AccountRole
          /\ Changed(r) = [row EXCEPT !.role = change.to]
      BY <1>1, <1>4, <1>6 DEF Change
    <2> QED
      BY <1>3, <1>6, <2>1 DEF Row, AccountRole, ActiveAdmin, ProtectsAdmin,
         read, change
  <1>7. CASE change.field \notin {"status", "role"}
    BY <1>3, <1>4, <1>7 DEF ActiveAdmin, read, change
  <1> QED
    BY <1>5, <1>6, <1>7

(* Of two administrators one is not the account that is changed.           *)
LEMMA AnotherAdmin ==
    ASSUME NEW a \in Account, ~(Cardinality(ActiveAdmins) <= 1)
    PROVE  \E b \in ActiveAdmins : b # a
  <1>1. SUFFICES ASSUME ActiveAdmins \subseteq {a} PROVE FALSE
    OBVIOUS
  <1>2. IsFiniteSet({a}) /\ Cardinality({a}) = 1
    BY FS_Singleton
  <1>3. Cardinality(ActiveAdmins) <= Cardinality({a})
    BY <1>1, <1>2, FS_Subset
  <1> QED
    BY <1>2, <1>3

-----------------------------------------------------------------------------
(* Steps that touch neither the rows nor their locks: the request leaves   *)
(* no change behind, or goes on with the one it has saved.                 *)
LEMMA GoesOn ==
    ASSUME AdminInv, NEW r \in Request, NEW f \in Frame,
           SetRequest(r, f), UNCHANGED <<account, locked>>,
           f.pc \in Changes =>
               /\ f.pc \in Saved /\ request[r].pc \in Saved
               /\ f.account = request[r].account
               /\ f.read = request[r].read /\ f.change = request[r].change
    PROVE  AdminInv'
  <1>1. request' = [request EXCEPT ![r] = f] /\ request \in [Request -> Frame]
    BY DEF SetRequest, AdminInv, Rows
  <1>2. Rows'
    BY <1>1 DEF AdminInv, Rows
  <1>3. ReadsCurrent'
    BY <1>1 DEF AdminInv, ReadsCurrent, Changes, Saved
  <1>4. Apart'
    BY <1>1 DEF AdminInv, Apart, Changes, Saved
  <1>5. HoldsItsRow'
    BY <1>1 DEF AdminInv, HoldsItsRow, Changes, Saved
  <1>6. HoldsAnother'
    <2> SUFFICES ASSUME NEW q \in Request, request'[q].pc \in Saving,
                        ProtectsAdmin(request'[q].read, request'[q].change)
                 PROVE  \E b \in Account : Spares(q, b)'
      BY DEF HoldsAnother, ProtectsAdmin
    <2>1. /\ request[q].pc \in Saving
          /\ request'[q].account = request[q].account
          /\ request'[q].read = request[q].read
          /\ request'[q].change = request[q].change
      BY <1>1 DEF Changes, Saved
    <2>2. PICK b \in Account : Spares(q, b)
      BY <2>1 DEF AdminInv, HoldsAnother
    <2> QED
      BY <2>1, <2>2 DEF Spares, ActiveAdmin
  <1>7. AnActiveAdmin'
    BY DEF AdminInv, AnActiveAdmin, ActiveAdmins, ActiveAdmin
  <1> QED
    BY <1>2, <1>3, <1>4, <1>5, <1>6, <1>7 DEF AdminInv

(* A transaction ends without a write.                                     *)
LEMMA EndsUnwritten ==
    ASSUME AdminInv, NEW r \in Request,
           SetRequest(r, Idle), Release(r), UNCHANGED account
    PROVE  AdminInv'
  <1>1. /\ request' = [request EXCEPT ![r] = Idle]
        /\ request \in [Request -> Frame] /\ Idle \in Frame
        /\ Idle.pc \notin Changes
    BY DEF SetRequest, AdminInv, Rows, Idle, Frame, Changes, Saving
  <1>2. \A a \in Account : locked'[a] = IF locked[a] = r THEN NoRequest ELSE locked[a]
    BY DEF Release
  <1>3. Rows'
    BY <1>1 DEF AdminInv, Rows, Release
  <1>4. ReadsCurrent'
    BY <1>1 DEF AdminInv, ReadsCurrent
  <1>5. Apart'
    BY <1>1 DEF AdminInv, Apart
  <1>6. HoldsItsRow'
    <2> SUFFICES ASSUME NEW q \in Request, request'[q].pc \in Saved
                 PROVE  locked'[request'[q].account] = q
      BY DEF HoldsItsRow
    <2>1. q # r /\ request'[q] = request[q]
      BY <1>1 DEF Changes, Saved
    <2>2. request[q].account \in Account
      BY <2>1, ChangeFrame DEF AdminInv, Changes, Saved
    <2> QED
      BY <1>2, <2>1, <2>2 DEF AdminInv, HoldsItsRow
  <1>7. HoldsAnother'
    <2> SUFFICES ASSUME NEW q \in Request, request'[q].pc \in Saving,
                        ProtectsAdmin(request'[q].read, request'[q].change)
                 PROVE  \E b \in Account : Spares(q, b)'
      BY DEF HoldsAnother, ProtectsAdmin
    <2>1. q # r /\ request'[q] = request[q]
      BY <1>1 DEF Changes
    <2>2. PICK b \in Account : Spares(q, b)
      BY <2>1 DEF AdminInv, HoldsAnother
    <2> QED
      BY <1>2, <2>1, <2>2 DEF Spares, ActiveAdmin
  <1>8. AnActiveAdmin'
    BY DEF AdminInv, AnActiveAdmin, ActiveAdmins, ActiveAdmin
  <1> QED
    BY <1>3, <1>4, <1>5, <1>6, <1>7, <1>8 DEF AdminInv

-----------------------------------------------------------------------------
(* The steps that read, lock and save.                                     *)
LEMMA StartsAChange ==
    ASSUME AdminInv, ~SameAccount, NEW r \in Request, NEW a \in Account,
           NEW change \in Change, StartChange(r, a, change)
    PROVE  AdminInv'
  <1> DEFINE f == [pc |-> IF ProtectsAdmin(account[a], change)
                             THEN "lock" ELSE "save",
                   account |-> a, read |-> account[a], change |-> change]
  <1>1. /\ request' = [request EXCEPT ![r] = f] /\ request \in [Request -> Frame]
        /\ ~Changing(a) /\ account[a].status # "ABSENT"
        /\ UNCHANGED <<account, locked>>
    BY DEF StartChange, SetRequest, AdminInv, Rows
  <1>2. /\ f \in Frame /\ f.pc \in Changes \ Saved /\ f.account = a
        /\ f.read = account[a] /\ f.change = change
        /\ f.pc = "save" => ~ProtectsAdmin(account[a], change)
    BY DEF AdminInv, Rows, Frame, Changes, Saved, Saving
  <1>3. \A q \in Request : request[q].pc \in Changes => request[q].account # a
    BY <1>1 DEF Changing, Changes, Saving
  <1> HIDE DEF f
  <1>4. Rows'
    BY <1>1, <1>2 DEF AdminInv, Rows
  <1>5. ReadsCurrent'
    BY <1>1, <1>2 DEF AdminInv, ReadsCurrent
  <1>6. Apart'
    BY <1>1, <1>2, <1>3 DEF AdminInv, Apart
  <1>7. HoldsItsRow'
    BY <1>1, <1>2 DEF AdminInv, HoldsItsRow
  <1>8. HoldsAnother'
    <2> SUFFICES ASSUME NEW q \in Request, request'[q].pc \in Saving,
                        ProtectsAdmin(request'[q].read, request'[q].change)
                 PROVE  \E b \in Account : Spares(q, b)'
      BY DEF HoldsAnother, ProtectsAdmin
    <2>1. q # r
      BY <1>1, <1>2 DEF Saved
    <2>2. request'[q] = request[q]
      BY <1>1, <2>1
    <2>3. PICK b \in Account : Spares(q, b)
      BY <2>2 DEF AdminInv, HoldsAnother
    <2> QED
      BY <1>1, <2>2, <2>3 DEF Spares, ActiveAdmin
  <1>9. AnActiveAdmin'
    BY <1>1 DEF AdminInv, AnActiveAdmin, ActiveAdmins, ActiveAdmin
  <1> QED
    BY <1>4, <1>5, <1>6, <1>7, <1>8, <1>9 DEF AdminInv

(* The lock is had on every active administrator, or on none: what another *)
(* request spares it has locked, and this one waits for it.                *)
LEMMA LocksAdmins ==
    ASSUME AdminInv, NEW r \in Request, LockAdmins(r),
           ~(Cardinality(ActiveAdmins) <= 1)
    PROVE  AdminInv'
  <1> DEFINE f == [pc |-> "save", account |-> request[r].account,
                   read |-> request[r].read, change |-> request[r].change]
             held == [a \in Account |-> IF a \in ActiveAdmins THEN r ELSE locked[a]]
  <1>1. /\ request' = [request EXCEPT ![r] = f] /\ request \in [Request -> Frame]
        /\ locked' = held /\ account' = account
        /\ request[r].pc = "lock"
        /\ \A a \in ActiveAdmins : locked[a] \in {NoRequest, r}
    BY DEF LockAdmins, Continue, SetRequest, At, AdminInv, Rows
  <1>2. /\ request[r].pc \in Changes \ Saving /\ request[r].account \in Account
        /\ request[r].read \in Row /\ request[r].change \in Change
    BY <1>1, ChangeFrame DEF AdminInv, Changes, Saving
  <1>3. f \in Frame /\ f.pc \in Changes \ Saved
    BY <1>2 DEF Frame, Changes, Saved, Saving
  <1>4. Rows'
    BY <1>1, <1>3 DEF AdminInv, Rows
  <1>5. ReadsCurrent'
    BY <1>1, <1>2 DEF AdminInv, ReadsCurrent
  <1>6. Apart'
    BY <1>1, <1>2 DEF AdminInv, Apart
  <1>7. \A q \in Request, b \in Account :
            q # r /\ locked[b] = q => locked'[b] = q
    BY <1>1
  <1>8. HoldsItsRow'
    <2> SUFFICES ASSUME NEW q \in Request, request'[q].pc \in Saved
                 PROVE  locked'[request'[q].account] = q
      BY DEF HoldsItsRow
    <2>1. q # r
      BY <1>1, <1>3
    <2>2. request'[q] = request[q]
      BY <1>1, <2>1
    <2>3. request[q].account \in Account
      BY <2>2, ChangeFrame DEF AdminInv, Changes, Saved
    <2> QED
      BY <1>7, <2>1, <2>2, <2>3 DEF AdminInv, HoldsItsRow
  <1>9. HoldsAnother'
    <2> SUFFICES ASSUME NEW q \in Request, request'[q].pc \in Saving,
                        ProtectsAdmin(request'[q].read, request'[q].change)
                 PROVE  \E b \in Account : Spares(q, b)'
      BY DEF HoldsAnother, ProtectsAdmin
    <2>1. CASE q = r
      <3>1. PICK b \in ActiveAdmins : b # request[r].account
        BY <1>2, AnotherAdmin
      <3>2. b \in Account /\ ActiveAdmin(account[b])
        BY <3>1 DEF ActiveAdmins
      <3> QED
        BY <1>1, <2>1, <3>1, <3>2 DEF Spares, ActiveAdmin
    <2>2. CASE q # r
      <3>1. request'[q] = request[q]
        BY <1>1, <2>2
      <3>2. PICK b \in Account : Spares(q, b)
        BY <3>1 DEF AdminInv, HoldsAnother
      <3> QED
        BY <1>1, <1>7, <2>2, <3>1, <3>2 DEF Spares, ActiveAdmin
    <2> QED
      BY <2>1, <2>2
  <1>10. AnActiveAdmin'
    BY <1>1 DEF AdminInv, AnActiveAdmin, ActiveAdmins, ActiveAdmin
  <1> QED
    BY <1>4, <1>5, <1>6, <1>8, <1>9, <1>10 DEF AdminInv

(* The UPDATE takes the row's lock from nobody.                            *)
LEMMA Saves ==
    ASSUME AdminInv, NEW r \in Request, Save(r)
    PROVE  AdminInv'
  <1> DEFINE a == request[r].account
             f == [pc |-> "revoke", account |-> a,
                   read |-> request[r].read, change |-> request[r].change]
  <1>1. /\ request' = [request EXCEPT ![r] = f] /\ request \in [Request -> Frame]
        /\ locked' = [locked EXCEPT ![a] = r] /\ account' = account
        /\ locked \in [Account -> Request \cup {NoRequest}]
        /\ request[r].pc = "save" /\ locked[a] \in {NoRequest, r}
    BY DEF Save, Continue, SetRequest, At, AdminInv, Rows
  <1>2. /\ request[r].pc \in Changes /\ request[r].pc \in Saving /\ a \in Account
        /\ request[r].read \in Row /\ request[r].change \in Change
    BY <1>1, ChangeFrame DEF AdminInv, Changes, Saving
  <1>3. f \in Frame
    BY <1>2 DEF Frame
  <1>4. Rows'
    BY <1>1, <1>2, <1>3 DEF AdminInv, Rows
  <1>5. ReadsCurrent'
    BY <1>1, <1>2 DEF AdminInv, ReadsCurrent
  <1>6. Apart'
    BY <1>1, <1>2 DEF AdminInv, Apart
  <1>7. \A q \in Request, b \in Account : locked[b] = q => locked'[b] = q
    BY <1>1, <1>2
  <1>8. HoldsItsRow'
    <2> SUFFICES ASSUME NEW q \in Request, request'[q].pc \in Saved
                 PROVE  locked'[request'[q].account] = q
      BY DEF HoldsItsRow
    <2>1. CASE q = r
      BY <1>1, <1>2, <2>1
    <2>2. CASE q # r
      <3>1. request'[q] = request[q]
        BY <1>1, <2>2
      <3>2. request[q].account \in Account
        BY <3>1, ChangeFrame DEF AdminInv, Changes, Saved
      <3> QED
        BY <1>7, <3>1, <3>2 DEF AdminInv, HoldsItsRow
    <2> QED
      BY <2>1, <2>2
  <1>9. HoldsAnother'
    <2> SUFFICES ASSUME NEW q \in Request, request'[q].pc \in Saving,
                        ProtectsAdmin(request'[q].read, request'[q].change)
                 PROVE  \E b \in Account : Spares(q, b)'
      BY DEF HoldsAnother, ProtectsAdmin
    <2>1. /\ request[q].pc \in Saving
          /\ request'[q].account = request[q].account
          /\ request'[q].read = request[q].read
          /\ request'[q].change = request[q].change
      BY <1>1, <1>2
    <2>2. PICK b \in Account : Spares(q, b)
      BY <2>1 DEF AdminInv, HoldsAnother
    <2> QED
      BY <1>1, <1>7, <2>1, <2>2 DEF Spares, ActiveAdmin
  <1>10. AnActiveAdmin'
    BY <1>1 DEF AdminInv, AnActiveAdmin, ActiveAdmins, ActiveAdmin
  <1> QED
    BY <1>4, <1>5, <1>6, <1>8, <1>9, <1>10 DEF AdminInv

-----------------------------------------------------------------------------
(* The steps that write a row.                                             *)
LEMMA CreatesAccount ==
    ASSUME AdminInv, NEW a \in Account, NEW role \in AccountRole,
           CreateAccount(a, role)
    PROVE  AdminInv'
  <1>1. /\ account' = [account EXCEPT ![a] = NewRow(role)]
        /\ account \in [Account -> Row] /\ account[a].status = "ABSENT"
        /\ UNCHANGED <<locked, request>>
    BY DEF CreateAccount, AdminInv, Rows
  <1>2. NewRow(role) \in Row
    BY DEF NewRow, Row, AccountStatus
  <1>3. \A b \in Account : account[b].status # "ABSENT" => account'[b] = account[b]
    BY <1>1
  <1>4. Rows'
    BY <1>1, <1>2 DEF AdminInv, Rows
  <1>5. ReadsCurrent'
    <2> SUFFICES ASSUME NEW q \in Request, request[q].pc \in Changes
                 PROVE  /\ request[q].read = account'[request[q].account]
                        /\ account'[request[q].account].status # "ABSENT"
      BY <1>1 DEF ReadsCurrent
    <2>1. /\ request[q].account \in Account
          /\ request[q].read = account[request[q].account]
          /\ account[request[q].account].status # "ABSENT"
      BY ChangeFrame DEF AdminInv, ReadsCurrent
    <2> QED
      BY <1>3, <2>1
  <1>6. Apart' /\ HoldsItsRow'
    BY <1>1 DEF AdminInv, Apart, HoldsItsRow
  <1>7. \A b \in Account : ActiveAdmin(account[b]) => account'[b] = account[b]
    BY <1>3 DEF ActiveAdmin
  <1>8. HoldsAnother'
    <2> SUFFICES ASSUME NEW q \in Request, request[q].pc \in Saving,
                        ProtectsAdmin(request[q].read, request[q].change)
                 PROVE  \E b \in Account : Spares(q, b)'
      BY <1>1 DEF HoldsAnother, ProtectsAdmin
    <2>1. PICK b \in Account : Spares(q, b)
      BY DEF AdminInv, HoldsAnother
    <2> QED
      BY <1>1, <1>7, <2>1 DEF Spares, ActiveAdmin
  <1>9. AnActiveAdmin'
    BY <1>7 DEF AdminInv, AnActiveAdmin, ActiveAdmins, ActiveAdmin
  <1> QED
    BY <1>4, <1>5, <1>6, <1>8, <1>9 DEF AdminInv

(* What a commit overwrites is what the request has read; if it takes an   *)
(* administrator away, the one it has locked is left.                      *)
LEMMA Commits ==
    ASSUME AdminInv, NEW r \in Request, Commit(r)
    PROVE  AdminInv'
  <1> DEFINE a == request[r].account
  <1>1. /\ account' = [account EXCEPT ![a] = Changed(r)]
        /\ account \in [Account -> Row]
        /\ request' = [request EXCEPT ![r] = Idle] /\ request \in [Request -> Frame]
        /\ request[r].pc = "commit"
        /\ locked \in [Account -> Request \cup {NoRequest}]
        /\ \A b \in Account : locked'[b] = IF locked[b] = r THEN NoRequest ELSE locked[b]
    BY DEF Commit, SetRequest, Release, At, AdminInv, Rows
  <1>2. /\ request[r].pc \in Changes /\ request[r].pc \in Saved
        /\ request[r].pc \in Saving /\ a \in Account
        /\ Idle \in Frame /\ Idle.pc \notin Changes
    BY <1>1, ChangeFrame DEF AdminInv, Changes, Saving, Saved, Idle, Frame
  <1>3. /\ request[r].read = account[a] /\ locked[a] = r
        /\ Changed(r) \in Row
    BY <1>2, ChangedRow DEF AdminInv, ReadsCurrent, HoldsItsRow
  <1>4. \A b \in Account : b # a => account'[b] = account[b]
    BY <1>1
  <1>5. \A q \in Request : request'[q].pc \in Changes =>
            /\ q # r /\ request'[q] = request[q] /\ request[q].account \in Account
            /\ request[q].account # a
    <2> SUFFICES ASSUME NEW q \in Request, request'[q].pc \in Changes
                 PROVE  /\ q # r /\ request'[q] = request[q]
                        /\ request[q].account \in Account
                        /\ request[q].account # a
      OBVIOUS
    <2>1. q # r
      BY <1>1, <1>2
    <2>2. request'[q] = request[q]
      BY <1>1, <2>1
    <2> QED
      BY <1>2, <2>1, <2>2, ChangeFrame DEF AdminInv, Apart
  <1> HIDE DEF a
  <1>6. Rows'
    <2>1. locked' \in [Account -> Request \cup {NoRequest}]
      BY <1>1 DEF Commit, Release
    <2> QED
      BY <1>1, <1>2, <1>3, <2>1 DEF Rows
  <1>7. ReadsCurrent'
    BY <1>4, <1>5 DEF AdminInv, ReadsCurrent
  <1>8. Apart'
    BY <1>5 DEF AdminInv, Apart
  <1>9. HoldsItsRow'
    BY <1>1, <1>5 DEF AdminInv, HoldsItsRow, Changes, Saved
  <1>10. HoldsAnother'
    <2> SUFFICES ASSUME NEW q \in Request, request'[q].pc \in Saving,
                        ProtectsAdmin(request'[q].read, request'[q].change)
                 PROVE  \E b \in Account : Spares(q, b)'
      BY DEF HoldsAnother, ProtectsAdmin
    <2>1. q # r /\ request'[q] = request[q]
      BY <1>5 DEF Changes
    <2>2. PICK b \in Account : Spares(q, b)
      BY <2>1 DEF AdminInv, HoldsAnother
    <2>3. b # a
      BY <1>3, <2>1, <2>2 DEF Spares
    <2> QED
      BY <1>1, <1>4, <2>1, <2>2, <2>3 DEF Spares, ActiveAdmin
  <1>11. AnActiveAdmin'
    <2> SUFFICES \E b \in Account : ActiveAdmin(account'[b])
      BY DEF AnActiveAdmin, ActiveAdmins, ActiveAdmin
    <2>1. CASE \E b \in Account : b # a /\ ActiveAdmin(account[b])
      BY <1>4, <2>1 DEF ActiveAdmin
    <2>2. CASE \A b \in Account : b # a => ~ActiveAdmin(account[b])
      <3>1. ActiveAdmin(account[a])
        BY <2>2 DEF AdminInv, AnActiveAdmin, ActiveAdmins
      <3>2. ~ProtectsAdmin(request[r].read, request[r].change)
        BY <1>2, <2>2 DEF AdminInv, HoldsAnother, Spares, a
      <3>3. ActiveAdmin(Changed(r))
        BY <1>2, <1>3, <3>1, <3>2, ChangedRow DEF AdminInv
      <3>4. account'[a] = Changed(r)
        BY <1>1, <1>2
      <3> QED
        BY <1>2, <3>3, <3>4
    <2> QED
      BY <2>1, <2>2
  <1> QED
    BY <1>6, <1>7, <1>8, <1>9, <1>10, <1>11 DEF AdminInv

-----------------------------------------------------------------------------
LEMMA AdminInvInit == Init => AdminInv
  <1> SUFFICES ASSUME Init PROVE AdminInv
    OBVIOUS
  <1>1. \A role \in AccountRole : NewRow(role) \in Row
    BY DEF NewRow, Row, AccountStatus
  <1>2. Absent \in Row
    BY DEF Absent, NewRow, Row, AccountRole, AccountStatus
  <1>3. account \in [Account -> Row]
    BY <1>1, <1>2 DEF Init, AccountRole
  <1>4. \A r \in Request : request[r].pc \notin Changes
    BY DEF Init, Idle, Changes, Saving
  <1>5. Rows
    BY <1>3 DEF Init, Rows, Idle, Frame
  <1>6. ReadsCurrent /\ Apart /\ HoldsItsRow /\ HoldsAnother
    BY <1>4 DEF ReadsCurrent, Apart, HoldsItsRow, HoldsAnother, Changes, Saved
  <1> QED
    BY <1>5, <1>6 DEF Init, AdminInv, AnActiveAdmin

(* One step per action of a request.                                       *)
LEMMA RequestKeepsAdminInv ==
    ASSUME AdminInv, NEW r \in Request, RequestStep(r)
    PROVE  AdminInv'
  <1>1. request[r].pc \in Changes =>
            /\ request[r].account \in Account /\ request[r].read \in Row
            /\ request[r].change \in Change
    BY ChangeFrame DEF AdminInv
  <1>2. CASE LoginFails(r)
    BY <1>2, GoesOn DEF LoginFails, Idle, Frame, Changes, Saving
  <1>3. CASE LoginSucceeds(r)
    <2> DEFINE b == request[r].account
               f == [pc |-> "login", account |-> b, read |-> account[b]]
    <2>1. b \in Account
      BY <1>3 DEF LoginSucceeds, At, AdminInv, Rows, Frame
    <2>2. f \in Frame /\ f.pc \notin Changes
      BY <2>1 DEF AdminInv, Rows, Frame, Changes, Saving
    <2>3. SetRequest(r, f) /\ UNCHANGED <<account, locked>>
      BY <1>3 DEF LoginSucceeds
    <2> QED
      BY <2>2, <2>3, GoesOn
  <1>4. CASE OpenSession(r)
    BY <1>4, GoesOn DEF OpenSession, Idle, Frame, Changes, Saving
  <1>5. CASE LockAdmins(r)
    <2>1. CASE Cardinality(ActiveAdmins) <= 1
      BY <1>5, <2>1, EndsUnwritten DEF LockAdmins
    <2> QED
      BY <1>5, <2>1, LocksAdmins
  <1>6. CASE Save(r)
    BY <1>6, Saves
  <1>7. CASE RevokeRead(r)
    <2> DEFINE keys == SessionsOf(request[r].account)
               f == [pc |-> "delete", account |-> request[r].account,
                     read |-> request[r].read, change |-> request[r].change,
                     keys |-> keys]
    <2>1. /\ request[r].pc \in Saved /\ request[r].pc \in Changes
          /\ SetRequest(r, f) /\ UNCHANGED <<account, locked>>
      BY <1>7 DEF RevokeRead, At, Saved, Saving, Changes
    <2>2. keys \in SUBSET Token
      BY DEF SessionsOf
    <2> HIDE DEF keys
    <2>3. /\ f \in Frame /\ f.pc \in Saved /\ f.account = request[r].account
          /\ f.read = request[r].read /\ f.change = request[r].change
      BY <1>1, <2>1, <2>2 DEF Frame, Saved, Saving
    <2> HIDE DEF f
    <2> QED
      BY <2>1, <2>3, GoesOn
  <1>8. ASSUME NEW pc \in {"session", "commit"}, request[r].pc \in Saved,
               Continue(r, pc), UNCHANGED <<account, locked>>
        PROVE  AdminInv'
    <2> DEFINE f == [pc |-> pc, account |-> request[r].account,
                     read |-> request[r].read, change |-> request[r].change]
    <2>1. SetRequest(r, f) /\ request[r].pc \in Changes
      BY <1>8 DEF Continue, Changes, Saved
    <2>2. /\ f \in Frame /\ f.pc \in Saved /\ f.account = request[r].account
          /\ f.read = request[r].read /\ f.change = request[r].change
      BY <1>1, <2>1 DEF Frame, Saved, Saving
    <2> HIDE DEF f
    <2> QED
      BY <1>8, <2>1, <2>2, GoesOn
  <1>9. CASE RevokeDelete(r)
    <2> DEFINE pc == IF request[r].change.field = "password"
                       THEN "session" ELSE "commit"
    <2>1. Continue(r, pc) /\ UNCHANGED <<account, locked>> /\ request[r].pc \in Saved
      BY <1>9 DEF RevokeDelete, At, Saved, Saving
    <2>2. pc \in {"session", "commit"}
      OBVIOUS
    <2> HIDE DEF pc
    <2> QED
      BY <1>8, <2>1, <2>2
  <1>10. CASE ReopenSession(r)
    BY <1>8, <1>10 DEF ReopenSession, At, Saved, Saving
  <1>11. CASE Commit(r)
    BY <1>11, Commits
  <1>12. CASE Abort(r)
    BY <1>12, EndsUnwritten DEF Abort
  <1> QED
    BY <1>2, <1>3, <1>4, <1>5, <1>6, <1>7, <1>9, <1>10, <1>11, <1>12
    DEF RequestStep

LEMMA AdminInvStep ==
    ASSUME AdminInv, ~SameAccount, [Next]_vars
    PROVE  AdminInv'
  <1>1. ASSUME NEW r \in Request, NEW a \in Account, StartLogin(r, a)
        PROVE  AdminInv'
    BY <1>1, GoesOn DEF StartLogin, Frame, Changes, Saving
  <1>2. ASSUME NEW r \in Request, NEW a \in Account, NEW change \in Change,
               StartChange(r, a, change)
        PROVE  AdminInv'
    BY <1>2, StartsAChange
  <1>3. ASSUME NEW a \in Account, NEW role \in AccountRole, CreateAccount(a, role)
        PROVE  AdminInv'
    BY <1>3, CreatesAccount
  <1>4. ASSUME UNCHANGED <<account, locked, request>> PROVE AdminInv'
    BY <1>4 DEF AdminInv, Rows, ReadsCurrent, Apart, HoldsItsRow, HoldsAnother,
       Spares, ProtectsAdmin, ActiveAdmin, AnActiveAdmin, ActiveAdmins
  <1>5. ASSUME NEW a \in Account, WindowEnds(a) PROVE AdminInv'
    BY <1>4, <1>5 DEF WindowEnds
  <1>6. ASSUME NEW t \in Token, SessionEnds(t) PROVE AdminInv'
    BY <1>4, <1>6 DEF SessionEnds
  <1>7. CASE UNCHANGED vars
    BY <1>4, <1>7 DEF vars
  <1> QED
    BY <1>1, <1>2, <1>3, <1>5, <1>6, <1>7, RequestKeepsAdminInv DEF Next

(* Whatever requests change statuses, roles and passwords at the same      *)
(* time, an administrator who can log in remains, as long as no two of     *)
(* them change one account.                                                *)
THEOREM AnAdminRemains == ~SameAccount /\ Spec => []AnActiveAdmin
  <1> SUFFICES ASSUME ~SameAccount PROVE Spec => []AnActiveAdmin
    OBVIOUS
  <1>1. Init => AdminInv
    BY AdminInvInit
  <1>2. AdminInv /\ [Next]_vars => AdminInv'
    BY AdminInvStep
  <1>3. AdminInv => AnActiveAdmin
    BY DEF AdminInv
  <1> QED
    BY <1>1, <1>2, <1>3, PTL DEF Spec

-----------------------------------------------------------------------------
(* Types, and the count of failed logins.                                  *)

LEMMA FrameKinds ==
    ASSUME Rows, NEW r \in Request
    PROVE  /\ request[r].pc \in {"verify", "login"} => request[r].account \in Account
           /\ request[r].pc = "login" => request[r].read \in Row
           /\ request[r].pc = "delete" => request[r].keys \in SUBSET Token
  BY DEF Rows, Frame

(* Where a step may leave a request.                                       *)
LEMMA Frames ==
    /\ Idle \in Frame
    /\ \A a \in Account : [pc |-> "verify", account |-> a] \in Frame
    /\ \A a \in Account, read \in Row :
           [pc |-> "login", account |-> a, read |-> read] \in Frame
    /\ \A pc \in Changes \ {"delete"}, a \in Account, read \in Row, change \in Change :
           [pc |-> pc, account |-> a, read |-> read, change |-> change] \in Frame
    /\ \A a \in Account, read \in Row, change \in Change, keys \in SUBSET Token :
           [pc |-> "delete", account |-> a, read |-> read, change |-> change,
            keys |-> keys] \in Frame
  <1>1. /\ Idle \in Frame
        /\ \A a \in Account : [pc |-> "verify", account |-> a] \in Frame
        /\ \A a \in Account, read \in Row :
               [pc |-> "login", account |-> a, read |-> read] \in Frame
    BY DEF Frame, Idle
  <1>2. \A pc \in Changes \ {"delete"}, a \in Account, read \in Row, change \in Change :
           [pc |-> pc, account |-> a, read |-> read, change |-> change] \in Frame
    BY DEF Frame, Changes, Saving
  <1>3. \A a \in Account, read \in Row, change \in Change, keys \in SUBSET Token :
           [pc |-> "delete", account |-> a, read |-> read, change |-> change,
            keys |-> keys] \in Frame
    BY DEF Frame
  <1> QED
    BY <1>1, <1>2, <1>3

(* What a step may do to a request: it goes on with a frame.               *)
RequestMoves == \E r \in Request, f \in Frame : SetRequest(r, f)

LEMMA RequestsMove ==
    ASSUME Rows, [Next]_vars
    PROVE  UNCHANGED request \/ RequestMoves
  <1>1. ASSUME NEW r \in Request, NEW a \in Account, StartLogin(r, a)
        PROVE  RequestMoves
    BY <1>1, Frames DEF StartLogin, RequestMoves
  <1>2. ASSUME NEW r \in Request, NEW a \in Account, NEW change \in Change,
               StartChange(r, a, change)
        PROVE  RequestMoves
    <2>1. account[a] \in Row
      BY DEF Rows
    <2>2. PICK pc \in Changes \ {"delete"} :
              SetRequest(r, [pc |-> pc, account |-> a, read |-> account[a],
                             change |-> change])
      BY <1>2 DEF StartChange, Changes, Saving
    <2> QED
      BY <2>1, <2>2, Frames DEF RequestMoves
  <1>3. ASSUME NEW r \in Request, RequestStep(r) PROVE RequestMoves
    <2>1. request[r].pc \in Changes =>
              /\ request[r].account \in Account /\ request[r].read \in Row
              /\ request[r].change \in Change
      BY ChangeFrame
    <2>2. ASSUME NEW pc \in Changes \ {"delete"}, request[r].pc \in Changes,
                 Continue(r, pc)
          PROVE  RequestMoves
      BY <2>1, <2>2, Frames DEF Continue, RequestMoves
    <2>3. CASE \/ LoginFails(r) \/ OpenSession(r) \/ Commit(r) \/ Abort(r)
      BY <2>3, Frames DEF LoginFails, OpenSession, Commit, Abort, RequestMoves
    <2>4. CASE LoginSucceeds(r)
      <3>1. request[r].account \in Account /\ account[request[r].account] \in Row
        BY <2>4, FrameKinds DEF LoginSucceeds, At, Rows
      <3> QED
        BY <2>4, <3>1, Frames DEF LoginSucceeds, RequestMoves
    <2>5. CASE LockAdmins(r)
      BY <2>2, <2>5, Frames DEF LockAdmins, At, RequestMoves, Changes, Saving
    <2>6. CASE Save(r)
      BY <2>2, <2>6 DEF Save, At, Changes, Saving
    <2>7. CASE RevokeRead(r)
      <3> DEFINE keys == SessionsOf(request[r].account)
      <3>1. request[r].pc \in Changes /\ keys \in SUBSET Token
        BY <2>7 DEF RevokeRead, At, Changes, Saving, SessionsOf
      <3>2. SetRequest(r, [pc |-> "delete", account |-> request[r].account,
                           read |-> request[r].read,
                           change |-> request[r].change, keys |-> keys])
        BY <2>7 DEF RevokeRead
      <3> HIDE DEF keys
      <3> QED
        BY <2>1, <3>1, <3>2, Frames DEF RequestMoves
    <2>8. CASE RevokeDelete(r)
      <3>1. Continue(r, "session") \/ Continue(r, "commit")
        BY <2>8 DEF RevokeDelete
      <3> QED
        BY <2>2, <2>8, <3>1 DEF RevokeDelete, At, Changes, Saving
    <2>9. CASE ReopenSession(r)
      BY <2>2, <2>9 DEF ReopenSession, At, Changes, Saving
    <2> QED
      BY <1>3, <2>3, <2>4, <2>5, <2>6, <2>7, <2>8, <2>9 DEF RequestStep
  <1>4. ASSUME NEW a \in Account, WindowEnds(a) PROVE UNCHANGED request
    BY <1>4 DEF WindowEnds
  <1>5. ASSUME NEW a \in Account, NEW role \in AccountRole, CreateAccount(a, role)
        PROVE  UNCHANGED request
    BY <1>5 DEF CreateAccount
  <1>6. ASSUME NEW t \in Token, SessionEnds(t) PROVE UNCHANGED request
    BY <1>6 DEF SessionEnds
  <1> QED
    BY <1>1, <1>2, <1>3, <1>4, <1>5, <1>6 DEF Next, vars

(* What a step may do to the rows: a new account, or a change commits.     *)
LEMMA RowsMove ==
    ASSUME [Next]_vars
    PROVE  \/ UNCHANGED account
           \/ \E a \in Account, role \in AccountRole :
                  account' = [account EXCEPT ![a] = NewRow(role)]
           \/ \E r \in Request : Commit(r)
  BY DEF Next, vars, RequestStep, StartLogin, StartChange, LoginFails,
     LoginSucceeds, OpenSession, LockAdmins, Save, RevokeRead, RevokeDelete,
     ReopenSession, Abort, WindowEnds, CreateAccount, SessionEnds

(* What a step may do to the locks: a request takes some or lets them go.  *)
LEMMA LocksMove ==
    ASSUME Rows, [Next]_vars
    PROVE  locked' \in [Account -> Request \cup {NoRequest}]
  <1>1. locked \in [Account -> Request \cup {NoRequest}]
    BY DEF Rows
  <1>2. ASSUME NEW r \in Request, Release(r)
        PROVE  locked' \in [Account -> Request \cup {NoRequest}]
    BY <1>1, <1>2 DEF Release
  <1>3. ASSUME NEW r \in Request, LockAdmins(r)
        PROVE  locked' \in [Account -> Request \cup {NoRequest}]
    BY <1>1, <1>2, <1>3 DEF LockAdmins
  <1>4. ASSUME NEW r \in Request, Save(r)
        PROVE  locked' \in [Account -> Request \cup {NoRequest}]
    BY <1>1, <1>4 DEF Save
  <1> QED
    BY <1>1, <1>2, <1>3, <1>4 DEF Next, vars, RequestStep, StartLogin, StartChange,
       LoginFails, LoginSucceeds, OpenSession, RevokeRead, RevokeDelete,
       ReopenSession, Commit, Abort, WindowEnds, CreateAccount, SessionEnds

-----------------------------------------------------------------------------
(* The sessions that a request makes: of the row a login has read, or of   *)
(* the one that a change of the password will commit.                      *)
Makes(r, row, made) ==
    /\ \/ At(r, "login") /\ row = request[r].read
       \/ At(r, "session") /\ row = Changed(r)
    /\ made = [account |-> request[r].account, session |-> row.session,
               version |-> row.version, indexed |-> TRUE]

(* What a step may do to the sessions.                                     *)
SessionsForgotten ==
    \E S \in SUBSET Token : \E a \in Account :
        session' = [t \in Token |->
            IF t \in S \/ session[t] = NoSession THEN NoSession
            ELSE [session[t] EXCEPT !.indexed = @ /\ session[t].account # a]]

SessionMade ==
    \E r \in Request : \E row, made :
        Makes(r, row, made) /\ \E t \in Token : session' = [session EXCEPT ![t] = made]

SessionTypes == session \in [Token -> Session \cup {NoSession}]

LEMMA SessionsMove ==
    ASSUME Rows, SessionTypes, [Next]_vars
    PROVE  \/ UNCHANGED session
           \/ \E t \in Token : session' = [session EXCEPT ![t] = NoSession]
           \/ SessionsForgotten \/ SessionMade
  <1>1. ASSUME NEW r \in Request, RevokeDelete(r) PROVE SessionsForgotten
    <2>1. request[r].account \in Account /\ request[r].keys \in SUBSET Token
      BY <1>1, ChangeFrame, FrameKinds DEF RevokeDelete, At, Changes, Saving
    <2> QED
      BY <1>1, <2>1 DEF RevokeDelete, SessionsForgotten
  <1>2. ASSUME NEW r \in Request, OpenSession(r) PROVE SessionMade
    BY <1>2 DEF OpenSession, CreateSession, SessionMade, Makes
  <1>3. ASSUME NEW r \in Request, ReopenSession(r) PROVE SessionMade
    BY <1>3 DEF ReopenSession, CreateSession, SessionMade, Makes
  <1> QED
    BY <1>1, <1>2, <1>3 DEF Next, vars, RequestStep, StartLogin, StartChange,
       LoginFails, LoginSucceeds, LockAdmins, Save, RevokeRead, Commit, Abort,
       WindowEnds, CreateAccount, SessionEnds

LEMMA SessionKinds ==
    ASSUME NEW s \in Session, NEW b \in BOOLEAN
    PROVE  LET u == [s EXCEPT !.indexed = b]
           IN  /\ u \in Session /\ u.account = s.account
               /\ u.session = s.session /\ u.version = s.version
  BY DEF Session

(* A session that is there is one that was, or has been made.              *)
LEMMA SessionsKeepTypes ==
    ASSUME Rows, SessionTypes, [Next]_vars
    PROVE  /\ SessionTypes'
           /\ \A t \in Token : session'[t] # NoSession =>
                  \/ /\ session[t] # NoSession
                     /\ session'[t].account = session[t].account
                     /\ session'[t].session = session[t].session
                     /\ session'[t].version = session[t].version
                  \/ \E r \in Request : \E row : Makes(r, row, session'[t])
  <1>1. CASE \/ UNCHANGED session
             \/ \E t \in Token : session' = [session EXCEPT ![t] = NoSession]
    BY <1>1 DEF SessionTypes
  <1>2. CASE SessionsForgotten
    <2>1. PICK S \in SUBSET Token, a \in Account :
              session' = [t \in Token |->
                  IF t \in S \/ session[t] = NoSession THEN NoSession
                  ELSE [session[t] EXCEPT !.indexed = @ /\ session[t].account # a]]
      BY <1>2 DEF SessionsForgotten
    <2>2. ASSUME NEW t \in Token
          PROVE  \/ session'[t] = NoSession
                 \/ /\ session[t] # NoSession
                    /\ session'[t] \in Session
                    /\ session'[t].account = session[t].account
                    /\ session'[t].session = session[t].session
                    /\ session'[t].version = session[t].version
      <3>1. CASE t \in S \/ session[t] = NoSession
        BY <2>1, <3>1
      <3>2. CASE ~(t \in S \/ session[t] = NoSession)
        <4> DEFINE s == session[t]
                   b == s.indexed /\ s.account # a
        <4>1. s \in Session /\ s # NoSession
          BY <3>2 DEF SessionTypes
        <4>2. session'[t] = [s EXCEPT !.indexed = b]
          BY <2>1, <3>2
        <4>3. b \in BOOLEAN
          BY <4>1 DEF Session
        <4> HIDE DEF s, b
        <4>4. /\ session'[t] \in Session /\ session'[t].account = s.account
              /\ session'[t].session = s.session /\ session'[t].version = s.version
          BY <4>1, <4>2, <4>3, SessionKinds
        <4> QED
          BY <4>1, <4>4 DEF s
      <3> QED
        BY <3>1, <3>2
    <2>3. session' \in [Token -> Session \cup {NoSession}]
      <3>1. DOMAIN session' = Token /\ session' = [t \in Token |-> session'[t]]
        BY <2>1
      <3> QED
        BY <2>2, <3>1
    <2> QED
      BY <2>2, <2>3 DEF SessionTypes
  <1>3. CASE SessionMade
    <2>1. PICK r \in Request : \E row, made :
              /\ Makes(r, row, made)
              /\ \E t \in Token : session' = [session EXCEPT ![t] = made]
      BY <1>3 DEF SessionMade
    <2>2. PICK row, made : /\ Makes(r, row, made)
                           /\ \E t \in Token : session' = [session EXCEPT ![t] = made]
      BY <2>1
    <2>3. request[r].account \in Account /\ row \in Row
      <3>1. CASE At(r, "login")
        BY <2>2, <3>1, FrameKinds DEF Makes, At
      <3>2. CASE At(r, "session")
        BY <2>2, <3>2, ChangeFrame, ChangedRow DEF Makes, At, Changes, Saving
      <3> QED
        BY <2>2, <3>1, <3>2 DEF Makes
    <2>4. made \in Session
      BY <2>2, <2>3 DEF Makes, Session, Row
    <2> QED
      BY <2>2, <2>4 DEF SessionTypes
  <1> QED
    BY <1>1, <1>2, <1>3, SessionsMove

(* What a step may do to the counts of failed logins.                      *)
LEMMA FailuresMove ==
    ASSUME Rows, failures \in [Account -> Nat], [Next]_vars
    PROVE  /\ failures' \in [Account -> Nat]
           /\ \/ \A a \in Account : failures'[a] \in {failures[a], 0}
              \/ \E r \in Request : LoginFails(r)
  <1>1. ASSUME NEW a \in Account, failures' = [failures EXCEPT ![a] = 0]
        PROVE  /\ failures' \in [Account -> Nat]
               /\ \A b \in Account : failures'[b] \in {failures[b], 0}
    BY <1>1
  <1>2. ASSUME NEW r \in Request, LoginFails(r)
        PROVE  failures' \in [Account -> Nat]
    BY <1>2, FrameKinds DEF LoginFails, At
  <1>3. ASSUME NEW r \in Request, LoginSucceeds(r)
        PROVE  /\ failures' \in [Account -> Nat]
               /\ \A b \in Account : failures'[b] \in {failures[b], 0}
    BY <1>1, <1>3, FrameKinds DEF LoginSucceeds, At
  <1>4. ASSUME NEW a \in Account, WindowEnds(a)
        PROVE  /\ failures' \in [Account -> Nat]
               /\ \A b \in Account : failures'[b] \in {failures[b], 0}
    BY <1>1, <1>4 DEF WindowEnds
  <1>5. CASE UNCHANGED failures
    BY <1>5
  <1> QED
    BY <1>2, <1>3, <1>4, <1>5 DEF Next, vars, RequestStep, StartLogin, StartChange,
       OpenSession, LockAdmins, Save, RevokeRead, RevokeDelete,
       ReopenSession, Commit, Abort, CreateAccount, SessionEnds

LEMMA TypesKept == TypeOK /\ [Next]_vars => TypeOK'
  <1> SUFFICES ASSUME TypeOK, [Next]_vars PROVE TypeOK'
    OBVIOUS
  <1>1. Rows /\ SessionTypes /\ failures \in [Account -> Nat]
    BY DEF TypeOK, Rows, SessionTypes
  <1>2. request' \in [Request -> Frame]
    BY <1>1, RequestsMove DEF RequestMoves, SetRequest, Rows
  <1>3. account' \in [Account -> Row]
    <2>1. \A role \in AccountRole : NewRow(role) \in Row
      BY DEF NewRow, Row, AccountStatus
    <2>2. ASSUME NEW r \in Request, Commit(r) PROVE account' \in [Account -> Row]
      <3>1. Changed(r) \in Row
        BY <1>1, <2>2, ChangedRow DEF Commit, At, Changes, Saving
      <3> QED
        BY <1>1, <2>2, <3>1 DEF Commit, Rows
    <2> QED
      BY <1>1, <2>1, <2>2, RowsMove DEF Rows
  <1> QED
    BY <1>1, <1>2, <1>3, LocksMove, SessionsKeepTypes, FailuresMove
       DEF TypeOK, SessionTypes

LEMMA TypesInit == Init => TypeOK
  <1> SUFFICES ASSUME Init PROVE TypeOK
    OBVIOUS
  <1>1. Rows
    BY AdminInvInit DEF AdminInv
  <1> QED
    BY <1>1 DEF TypeOK, Init, Rows

-----------------------------------------------------------------------------
(* The requests that have passed the limiter and not compared the password *)
(* yet, each of which may count one failure more.                          *)
Verifying(a) ==
    {r \in Request : request[r].pc = "verify" /\ request[r].account = a}

CountInv ==
    /\ TypeOK
    /\ \A a \in Account :
           failures[a] + Cardinality(Verifying(a)) < Attempts + Cardinality(Request)

LEMMA VerifyingIsFinite ==
    \A a \in Account :
        /\ IsFiniteSet(Verifying(a)) /\ Cardinality(Verifying(a)) \in Nat
        /\ Cardinality(Verifying(a)) <= Cardinality(Request)
        /\ Cardinality(Request) \in Nat
  <1>1. \A a \in Account : Verifying(a) \in SUBSET Request
    BY DEF Verifying
  <1> QED
    BY <1>1, FS_Subset, FS_CardinalityType

(* A step that lets nobody past the limiter.                               *)
LEMMA VerifyingShrinks ==
    ASSUME TypeOK, [Next]_vars, NEW a \in Account,
           \A r \in Request, b \in Account : ~StartLogin(r, b)
    PROVE  Verifying(a)' \subseteq Verifying(a)
  <1>1. request \in [Request -> Frame]
    BY DEF TypeOK
  <1>2. ASSUME NEW r \in Request, NEW f, SetRequest(r, f), f.pc # "verify"
        PROVE  Verifying(a)' \subseteq Verifying(a)
    BY <1>1, <1>2 DEF SetRequest, Verifying
  <1>3. CASE UNCHANGED request
    BY <1>3 DEF Verifying
  <1>4. ASSUME NEW r \in Request, NEW b \in Account, NEW change \in Change,
               StartChange(r, b, change)
        PROVE  Verifying(a)' \subseteq Verifying(a)
    BY <1>2, <1>4 DEF StartChange
  <1>5. ASSUME NEW r \in Request, RequestStep(r)
        PROVE  Verifying(a)' \subseteq Verifying(a)
    <2>1. ASSUME NEW pc \in {"save", "revoke", "session", "commit"}, Continue(r, pc)
          PROVE  Verifying(a)' \subseteq Verifying(a)
      BY <1>2, <2>1 DEF Continue
    <2>2. Idle.pc # "verify"
      BY DEF Idle
    <2>3. CASE \/ LoginFails(r) \/ OpenSession(r) \/ Commit(r) \/ Abort(r)
      BY <1>2, <2>2, <2>3 DEF LoginFails, OpenSession, Commit, Abort
    <2>4. CASE LoginSucceeds(r) \/ RevokeRead(r)
      BY <1>2, <2>4 DEF LoginSucceeds, RevokeRead
    <2>5. CASE LockAdmins(r) \/ Save(r) \/ ReopenSession(r)
      BY <1>2, <2>1, <2>2, <2>5 DEF LockAdmins, Save, ReopenSession
    <2>6. CASE RevokeDelete(r)
      BY <2>1, <2>6 DEF RevokeDelete
    <2> QED
      BY <1>5, <2>3, <2>4, <2>5, <2>6 DEF RequestStep
  <1> QED
    BY <1>3, <1>4, <1>5 DEF Next, vars, WindowEnds, CreateAccount, SessionEnds

LEMMA CountKept == CountInv /\ [Next]_vars => CountInv'
  <1> SUFFICES ASSUME CountInv, [Next]_vars PROVE CountInv'
    OBVIOUS
  <1>1. TypeOK /\ TypeOK'
    BY TypesKept DEF CountInv
  <1>2. /\ Rows /\ request \in [Request -> Frame]
        /\ failures \in [Account -> Nat] /\ failures' \in [Account -> Nat]
        /\ Attempts \in Nat
    BY <1>1, AttemptsAssumption DEF TypeOK, Rows
  <1>3. \A a \in Account :
            /\ IsFiniteSet(Verifying(a)) /\ Cardinality(Verifying(a)) \in Nat
            /\ Cardinality(Verifying(a))' \in Nat
            /\ Cardinality(Verifying(a))' <= Cardinality(Request)
            /\ Cardinality(Request) \in Nat
    <2>1. \A a \in Account :
              IsFiniteSet(Verifying(a)') /\ Cardinality(Verifying(a)') \in Nat
                  /\ Cardinality(Verifying(a)') <= Cardinality(Request)
      <3>1. \A a \in Account : Verifying(a)' \in SUBSET Request
        BY DEF Verifying
      <3> QED
        BY <3>1, FS_Subset, FS_CardinalityType
    <2> QED
      BY <2>1, VerifyingIsFinite
  <1>4. SUFFICES ASSUME NEW a \in Account
                 PROVE  failures'[a] + Cardinality(Verifying(a)')
                            < Attempts + Cardinality(Request)
    BY <1>1 DEF CountInv
  <1>5. failures[a] + Cardinality(Verifying(a)) < Attempts + Cardinality(Request)
    BY DEF CountInv
  <1>6. ASSUME Verifying(a)' \subseteq Verifying(a), failures'[a] \in {failures[a], 0}
        PROVE  failures'[a] + Cardinality(Verifying(a)')
                   < Attempts + Cardinality(Request)
    <2>1. Cardinality(Verifying(a)') <= Cardinality(Verifying(a))
      BY <1>3, <1>6, FS_Subset
    <2> QED
      BY <1>2, <1>3, <1>5, <1>6, <2>1
  <1>7. ASSUME NEW r \in Request, NEW b \in Account, StartLogin(r, b)
        PROVE  failures'[a] + Cardinality(Verifying(a)')
                   < Attempts + Cardinality(Request)
    <2>1. failures' = failures /\ failures[b] < Attempts
      BY <1>7 DEF StartLogin, Allowed
    <2>2. CASE a = b
      BY <1>2, <1>3, <2>1, <2>2
    <2>3. CASE a # b
      <3>1. Verifying(a)' \subseteq Verifying(a)
        BY <1>2, <1>7, <2>3 DEF StartLogin, SetRequest, Verifying
      <3> QED
        BY <1>6, <2>1, <3>1
    <2> QED
      BY <2>2, <2>3
  <1>8. ASSUME NEW r \in Request, LoginFails(r)
        PROVE  failures'[a] + Cardinality(Verifying(a)')
                   < Attempts + Cardinality(Request)
    <2>1. /\ request[r].pc = "verify" /\ request[r].account \in Account
          /\ request' = [request EXCEPT ![r] = Idle]
          /\ failures' = [failures EXCEPT ![request[r].account] =
                             failures[request[r].account] + 1]
      BY <1>2, <1>8, FrameKinds DEF LoginFails, At, SetRequest
    <2>2. Idle.pc # "verify"
      BY DEF Idle
    <2>3. CASE a = request[r].account
      <3>1. Verifying(a)' = Verifying(a) \ {r} /\ r \in Verifying(a)
        BY <1>2, <2>1, <2>2, <2>3 DEF Verifying
      <3>2. Cardinality(Verifying(a)') = Cardinality(Verifying(a)) - 1
        BY <1>3, <3>1, FS_RemoveElement
      <3> QED
        BY <1>2, <1>3, <1>5, <2>1, <2>3, <3>2
    <2>4. CASE a # request[r].account
      <3>1. Verifying(a)' \subseteq Verifying(a)
        BY <1>2, <2>1, <2>2 DEF Verifying
      <3>2. failures'[a] = failures[a]
        BY <1>2, <2>1, <2>4
      <3> QED
        BY <1>6, <3>1, <3>2
    <2> QED
      BY <2>3, <2>4
  <1>9. CASE /\ \A r \in Request, b \in Account : ~StartLogin(r, b)
             /\ \A r \in Request : ~LoginFails(r)
    BY <1>1, <1>2, <1>6, <1>9, VerifyingShrinks, FailuresMove
  <1> QED
    BY <1>7, <1>8, <1>9

(* Requests that pass the limiter together fail together: the count goes   *)
(* beyond the limit, but by less than there are requests at once           *)
(* (LoginRateLimiter).                                                     *)
THEOREM FailuresStayBounded == Spec => []FailuresBounded
  <1>1. Init => CountInv
    <2> SUFFICES ASSUME Init PROVE CountInv
      OBVIOUS
    <2>1. \A a \in Account : Verifying(a) = {} /\ failures[a] = 0
      BY DEF Init, Verifying, Idle
    <2>2. Cardinality(Request) \in Nat /\ Cardinality({}) = 0
      BY FS_EmptySet, FS_CardinalityType
    <2>3. \A a \in Account :
              failures[a] + Cardinality(Verifying(a)) < Attempts + Cardinality(Request)
      BY <2>1, <2>2, AttemptsAssumption
    <2> QED
      BY <2>3, TypesInit DEF CountInv
  <1>2. CountInv => FailuresBounded
    <2> SUFFICES ASSUME CountInv, NEW a \in Account
                 PROVE  failures[a] < Attempts + Cardinality(Request)
      BY DEF CountInv, FailuresBounded
    <2>1. /\ failures[a] \in Nat /\ Attempts \in Nat
          /\ failures[a] + Cardinality(Verifying(a)) < Attempts + Cardinality(Request)
      BY AttemptsAssumption DEF CountInv, TypeOK
    <2> QED
      BY <2>1, VerifyingIsFinite
  <1> QED
    BY <1>1, <1>2, CountKept, PTL DEF Spec

-----------------------------------------------------------------------------
(* Every change counts both columns up, so they are equal: in the rows, in *)
(* what a login has read, and in the sessions.                             *)
Together ==
    /\ \A a \in Account : account[a].session = account[a].version
    /\ \A r \in Request :
           request[r].pc = "login" => request[r].read.session = request[r].read.version
    /\ \A t \in Token :
           session[t] # NoSession => session[t].session = session[t].version

SessionInv == AdminInv /\ TypeOK /\ Together

(* A change starts from the row of now.                                    *)
LEMMA ChangedTogether ==
    ASSUME SessionInv, NEW r \in Request, request[r].pc \in Changes
    PROVE  Changed(r).session = Changed(r).version
  <1> DEFINE read == request[r].read
             change == request[r].change
             v == account[request[r].account].version + 1
             row == [read EXCEPT !.session = @ + 1, !.version = v]
  <1>1. /\ request[r].account \in Account /\ read \in Row
        /\ read = account[request[r].account]
    BY ChangeFrame DEF SessionInv, AdminInv, ReadsCurrent
  <1>2. read.session + 1 = v
    BY <1>1 DEF SessionInv, Together
  <1>3. Changed(r) = CASE change.field = "status" -> [row EXCEPT !.status = change.to]
                       [] change.field = "role" -> [row EXCEPT !.role = change.to]
                       [] OTHER -> row
    BY DEF Changed
  <1> HIDE DEF read, v, change
  <1>4. row.session = row.version
    BY <1>1, <1>2 DEF Row
  <1>5. \A to : /\ [row EXCEPT !.status = to].session = row.session
                /\ [row EXCEPT !.status = to].version = row.version
                /\ [row EXCEPT !.role = to].session = row.session
                /\ [row EXCEPT !.role = to].version = row.version
    BY <1>1 DEF Row
  <1> HIDE DEF row
  <1> QED
    BY <1>3, <1>4, <1>5

LEMMA SessionInvKept == SessionInv /\ ~SameAccount /\ [Next]_vars => SessionInv'
  <1> SUFFICES ASSUME SessionInv, ~SameAccount, [Next]_vars PROVE SessionInv'
    OBVIOUS
  <1>1. AdminInv' /\ TypeOK'
    BY AdminInvStep, TypesKept DEF SessionInv
  <1>2. Rows /\ SessionTypes /\ Together
    BY DEF SessionInv, TypeOK, Rows, SessionTypes
  <1>3. ASSUME NEW a \in Account PROVE account'[a].session = account'[a].version
    <2>1. ASSUME NEW r \in Request, Commit(r)
          PROVE  account'[a].session = account'[a].version
      <3>1. Changed(r).session = Changed(r).version
        BY <2>1, ChangedTogether DEF Commit, At, Changes, Saving
      <3> QED
        BY <1>2, <2>1, <3>1 DEF Commit, Rows, Together
    <2>2. \A role \in AccountRole : NewRow(role).session = NewRow(role).version
      BY DEF NewRow
    <2> QED
      BY <1>2, <2>1, <2>2, RowsMove DEF Rows, Together
  <1>4. ASSUME NEW r \in Request, request'[r].pc = "login"
        PROVE  request'[r].read.session = request'[r].read.version
    <2>1. CASE request'[r] = request[r]
      BY <1>2, <1>4, <2>1 DEF Together
    <2>2. CASE request'[r] # request[r]
      <3>1. ASSUME NEW q \in Request, NEW f, SetRequest(q, f), f.pc # "login"
            PROVE  FALSE
        BY <1>2, <1>4, <2>2, <3>1 DEF SetRequest, Rows
      <3>2. ASSUME NEW q \in Request, NEW pc \in Changes, Continue(q, pc) PROVE FALSE
        BY <3>1, <3>2 DEF Continue, Changes, Saving
      <3>3. Idle.pc # "login"
        BY DEF Idle
      <3>4. ASSUME NEW q \in Request, LoginSucceeds(q)
            PROVE  request'[r].read.session = request'[r].read.version
        <4>1. /\ request[q].account \in Account
              /\ request'[r] = [pc |-> "login", account |-> request[q].account,
                                read |-> account[request[q].account]]
          BY <1>2, <2>2, <3>4, FrameKinds
             DEF LoginSucceeds, At, SetRequest, Rows
        <4> QED
          BY <1>2, <4>1 DEF Together
      <3>5. ASSUME NEW q \in Request, RequestStep(q)
            PROVE  LoginSucceeds(q)
        <4>1. ~(LoginFails(q) \/ OpenSession(q) \/ Commit(q) \/ Abort(q) \/ RevokeRead(q))
          BY <3>1, <3>3 DEF LoginFails, OpenSession, Commit, Abort, RevokeRead
        <4>2. ~(LockAdmins(q) \/ Save(q) \/ ReopenSession(q))
          BY <3>1, <3>2, <3>3 DEF LockAdmins, Save, ReopenSession, Changes, Saving
        <4>3. ~RevokeDelete(q)
          BY <3>2 DEF RevokeDelete, Changes, Saving
        <4> QED
          BY <3>5, <4>1, <4>2, <4>3 DEF RequestStep
      <3>6. ASSUME NEW q \in Request, NEW b \in Account,
                   StartLogin(q, b) \/ \E change \in Change : StartChange(q, b, change)
            PROVE  FALSE
        BY <3>1, <3>6 DEF StartLogin, StartChange
      <3> QED
        BY <2>2, <3>4, <3>5, <3>6 DEF Next, vars, WindowEnds, CreateAccount, SessionEnds
    <2> QED
      BY <2>1, <2>2
  <1>5. ASSUME NEW t \in Token, session'[t] # NoSession
        PROVE  session'[t].session = session'[t].version
    <2>1. CASE /\ session[t] # NoSession
               /\ session'[t].session = session[t].session
               /\ session'[t].version = session[t].version
      BY <1>2, <2>1 DEF Together
    <2>2. ASSUME NEW r \in Request, NEW row, Makes(r, row, session'[t])
          PROVE  session'[t].session = session'[t].version
      <3>1. row.session = row.version
        <4>1. CASE At(r, "login")
          BY <1>2, <2>2, <4>1 DEF Makes, At, Together
        <4>2. CASE At(r, "session")
          BY <2>2, <4>2, ChangedTogether DEF Makes, At, Changes, Saving
        <4> QED
          BY <2>2, <4>1, <4>2 DEF Makes
      <3> QED
        BY <2>2, <3>1 DEF Makes
    <2> QED
      BY <1>2, <1>5, <2>1, <2>2, SessionsKeepTypes
  <1>6. Together'
    BY <1>3, <1>4, <1>5 DEF Together
  <1> QED
    BY <1>1, <1>6 DEF SessionInv

(* A session made from an older state of the account is not accepted any   *)
(* more, as long as no two requests change one account at the same time    *)
(* (authenticate_session, Account.set_status).                             *)
THEOREM OldSessionsAreRejected == ~SameAccount /\ Spec => []OldSessionsRejected
  <1> SUFFICES ASSUME ~SameAccount PROVE Spec => []OldSessionsRejected
    OBVIOUS
  <1>1. Init => SessionInv
    <2> SUFFICES ASSUME Init PROVE SessionInv
      OBVIOUS
    <2>1. \A a \in Account : account[a].session = account[a].version
      <3>1. \A a \in Account : account[a] \in {Absent, NewRow("USER"), NewRow("ADMIN")}
        BY DEF Init
      <3>2. /\ Absent.session = Absent.version
            /\ \A role : NewRow(role).session = NewRow(role).version
        BY DEF Absent, NewRow
      <3> QED
        BY <3>1, <3>2
    <2>2. Together
      BY <2>1 DEF Together, Init, Idle
    <2> QED
      BY <2>2, AdminInvInit, TypesInit DEF SessionInv
  <1>2. SessionInv /\ [Next]_vars => SessionInv'
    BY SessionInvKept
  <1>3. SessionInv => OldSessionsRejected
    <2> SUFFICES ASSUME SessionInv, NEW t \in Token, session[t] # NoSession,
                        Accepted(session[t])
                 PROVE  session[t].version = account[session[t].account].version
      BY DEF OldSessionsRejected
    <2>1. session[t].account \in Account
      BY DEF SessionInv, TypeOK, Session
    <2> QED
      BY <2>1 DEF SessionInv, Together, Accepted
  <1> QED
    BY <1>1, <1>2, <1>3, PTL DEF Spec

-----------------------------------------------------------------------------
(* A session that names a version its account does not have yet: of a      *)
(* change of the password that is to commit, or of one that was undone.    *)
Ahead(t) ==
    /\ session[t] # NoSession
    /\ session[t].session > account[session[t].account].session

(* The next revocation finds it: it stays in the account's set.            *)
Findable(t) ==
    session[t] # NoSession =>
        /\ account[session[t].account].status # "ABSENT"
        /\ Ahead(t) => session[t].indexed

(* So once a change has revoked, only its own new session is ahead.        *)
OnlyItsOwn(r) ==
    /\ request[r].pc = "login" =>
           /\ account[request[r].account].status # "ABSENT"
           /\ request[r].read.session <= account[request[r].account].session
    /\ request[r].pc = "session" => request[r].change.field = "password"
    /\ request[r].pc \in {"delete", "session", "commit"} =>
           \A t \in Token : Ahead(t) /\ session[t].account = request[r].account =>
               /\ request[r].pc = "delete" => t \in request[r].keys
               /\ request[r].pc # "session"
               /\ request[r].pc = "commit" =>
                      /\ request[r].change.field = "password"
                      /\ \A u \in Token :
                             Ahead(u) /\ session[u].account = session[t].account
                                 => u = t

AheadInv ==
    /\ AdminInv /\ TypeOK
    /\ \A t \in Token : Findable(t)
    /\ \A r \in Request : OnlyItsOwn(r)

(* Steps that end sessions at most, and leave the request before the point *)
(* where it has found the sessions to delete.                              *)
LEMMA BeforeRevocation ==
    ASSUME AheadInv, UNCHANGED account,
           \A t \in Token : session'[t] \in {session[t], NoSession},
           \A q \in Request :
               \/ request'[q] = request[q]
               \/ request'[q].pc \notin {"login", "delete", "session", "commit"}
    PROVE  (\A t \in Token : Findable(t)') /\ (\A q \in Request : OnlyItsOwn(q)')
  <1>1. \A t \in Token : /\ Ahead(t)' => Ahead(t) /\ session'[t] = session[t]
                         /\ Findable(t)'
    BY DEF AheadInv, Findable, Ahead
  <1>2. ASSUME NEW q \in Request PROVE OnlyItsOwn(q)'
    BY <1>1 DEF AheadInv, OnlyItsOwn
  <1> QED
    BY <1>1, <1>2

(* A login opens a session of a version the account has had.               *)
LEMMA LoginSession ==
    ASSUME AheadInv, NEW r \in Request, OpenSession(r)
    PROVE  (\A t \in Token : Findable(t)') /\ (\A q \in Request : OnlyItsOwn(q)')
  <1> DEFINE a == request[r].account
             made == [account |-> a, session |-> request[r].read.session,
                      version |-> request[r].read.version, indexed |-> TRUE]
  <1>1. PICK t \in Token : session[t] = NoSession /\ session' = [session EXCEPT ![t] = made]
    BY DEF OpenSession, CreateSession
  <1>2. /\ session \in [Token -> Session \cup {NoSession}]
        /\ request \in [Request -> Frame] /\ account \in [Account -> Row]
        /\ request[r].pc = "login" /\ account' = account
        /\ request' = [request EXCEPT ![r] = Idle]
    BY DEF AheadInv, TypeOK, OpenSession, SetRequest, At
  <1>3. /\ a \in Account /\ request[r].read \in Row
        /\ account[a].status # "ABSENT"
        /\ request[r].read.session <= account[a].session
    BY <1>2, FrameKinds DEF AheadInv, AdminInv, OnlyItsOwn
  <1>4. /\ session'[t] = made /\ made.account = a
        /\ made.session = request[r].read.session
        /\ \A u \in Token : u # t => session'[u] = session[u]
    BY <1>1, <1>2
  <1>5. request[r].read.session \in Nat /\ account[a].session \in Nat
    BY <1>2, <1>3 DEF Row
  <1> HIDE DEF made, a
  <1>6. ~Ahead(t)' /\ Findable(t)'
    BY <1>2, <1>3, <1>4, <1>5 DEF Ahead, Findable
  <1>7. \A u \in Token : u # t => (Ahead(u)' <=> Ahead(u)) /\ Findable(u)'
    BY <1>2, <1>4 DEF AheadInv, Ahead, Findable
  <1>8. ASSUME NEW q \in Request PROVE OnlyItsOwn(q)'
    <2>1. CASE q = r
      BY <1>2, <2>1 DEF OnlyItsOwn, Idle
    <2>2. CASE q # r
      <3>1. request'[q] = request[q] /\ OnlyItsOwn(q)
        BY <1>2, <2>2 DEF AheadInv
      <3>2. \A u \in Token : Ahead(u)' => Ahead(u) /\ session'[u] = session[u]
        BY <1>4, <1>6, <1>7
      <3> QED
        BY <1>2, <3>1, <3>2 DEF OnlyItsOwn
    <2> QED
      BY <2>1, <2>2
  <1> QED
    BY <1>6, <1>7, <1>8

(* The revocation finds every session that is ahead, and deletes it.       *)
LEMMA RevocationFinds ==
    ASSUME AheadInv, NEW r \in Request, RevokeRead(r)
    PROVE  (\A t \in Token : Findable(t)') /\ (\A q \in Request : OnlyItsOwn(q)')
  <1> DEFINE a == request[r].account
             f == [pc |-> "delete", account |-> a, read |-> request[r].read,
                   change |-> request[r].change, keys |-> SessionsOf(a)]
  <1>1. /\ request' = [request EXCEPT ![r] = f] /\ request \in [Request -> Frame]
        /\ account' = account /\ session' = session
    BY DEF AheadInv, TypeOK, RevokeRead, SetRequest
  <1>2. \A t \in Token : (Ahead(t)' <=> Ahead(t)) /\ Findable(t)'
    BY <1>1 DEF AheadInv, Ahead, Findable
  <1>3. \A t \in Token : Ahead(t) /\ session[t].account = a => t \in SessionsOf(a)
    BY DEF AheadInv, Ahead, Findable, SessionsOf
  <1>4. /\ f.pc = "delete" /\ f.account = a /\ f.keys = SessionsOf(a)
    OBVIOUS
  <1>5. request'[r] = f
    BY <1>1
  <1> HIDE DEF f
  <1>6. ASSUME NEW q \in Request PROVE OnlyItsOwn(q)'
    <2>1. CASE q = r
      BY <1>1, <1>2, <1>3, <1>4, <1>5, <2>1 DEF OnlyItsOwn
    <2>2. CASE q # r
      <3>1. request'[q] = request[q] /\ OnlyItsOwn(q)
        BY <1>1, <2>2 DEF AheadInv
      <3> QED
        BY <1>1, <1>2, <3>1 DEF OnlyItsOwn
    <2> QED
      BY <2>1, <2>2
  <1> QED
    BY <1>2, <1>6

LEMMA RevocationDeletes ==
    ASSUME AheadInv, NEW r \in Request, RevokeDelete(r)
    PROVE  (\A t \in Token : Findable(t)') /\ (\A q \in Request : OnlyItsOwn(q)')
  <1> DEFINE a == request[r].account
             pc == IF request[r].change.field = "password" THEN "session" ELSE "commit"
             f == [pc |-> pc, account |-> a, read |-> request[r].read,
                   change |-> request[r].change]
  <1>1. /\ request' = [request EXCEPT ![r] = f] /\ request \in [Request -> Frame]
        /\ account' = account /\ request[r].pc = "delete"
        /\ session \in [Token -> Session \cup {NoSession}]
    BY DEF AheadInv, TypeOK, RevokeDelete, SetRequest, Continue, At
  <1>2. ASSUME NEW t \in Token
        PROVE  \/ session'[t] = NoSession
               \/ /\ t \notin request[r].keys /\ session[t] # NoSession
                  /\ session'[t].account = session[t].account
                  /\ session'[t].session = session[t].session
                  /\ session[t].account # a /\ session[t].indexed => session'[t].indexed
    <2>1. CASE t \in request[r].keys \/ session[t] = NoSession
      BY <2>1 DEF RevokeDelete
    <2>2. CASE t \notin request[r].keys /\ session[t] # NoSession
      <3> DEFINE s == session[t]
                 b == s.indexed /\ s.account # a
      <3>1. s \in Session /\ session'[t] = [s EXCEPT !.indexed = b]
        BY <1>1, <2>2 DEF RevokeDelete
      <3>2. /\ session'[t].account = s.account /\ session'[t].session = s.session
            /\ session'[t].indexed = b
        BY <3>1 DEF Session
      <3> QED
        BY <2>2, <3>2
    <2> QED
      BY <2>1, <2>2
  <1>3. ASSUME NEW t \in Token, session'[t] # NoSession
        PROVE  /\ session[t] # NoSession /\ session'[t].account = session[t].account
               /\ Ahead(t)' <=> Ahead(t)
               /\ Ahead(t) => session[t].account # a /\ session'[t].indexed
    <2>1. Ahead(t)' <=> Ahead(t)
      BY <1>1, <1>2, <1>3 DEF Ahead
    <2>2. Ahead(t) /\ session[t].account = a => t \in request[r].keys
      BY <1>1 DEF AheadInv, OnlyItsOwn
    <2>3. Ahead(t) => session[t].indexed
      BY DEF AheadInv, Ahead, Findable
    <2> QED
      BY <1>2, <1>3, <2>1, <2>2, <2>3
  <1>4. /\ f.pc \in {"session", "commit"} /\ f.account = a
        /\ f.pc = "session" => f.change.field = "password"
    OBVIOUS
  <1>5. request'[r] = f
    BY <1>1
  <1> HIDE DEF f, a, pc
  <1>6. ASSUME NEW t \in Token PROVE Findable(t)'
    BY <1>1, <1>3 DEF AheadInv, Findable
  <1>7. \A t \in Token : Ahead(t)' => /\ session'[t] # NoSession /\ Ahead(t)
                                      /\ session'[t].account = session[t].account
                                      /\ session[t].account # a
    BY <1>3 DEF Ahead
  <1>8. ASSUME NEW q \in Request PROVE OnlyItsOwn(q)'
    <2>1. CASE q = r
      BY <1>1, <1>4, <1>5, <1>7, <2>1 DEF OnlyItsOwn
    <2>2. CASE q # r
      <3>1. request'[q] = request[q] /\ OnlyItsOwn(q)
        BY <1>1, <2>2 DEF AheadInv
      <3> QED
        BY <1>1, <1>7, <3>1 DEF OnlyItsOwn
    <2> QED
      BY <2>1, <2>2
  <1> QED
    BY <1>6, <1>8

(* The session opened before the commit is the only one that is ahead.     *)
LEMMA ChangeSession ==
    ASSUME AheadInv, NEW r \in Request, ReopenSession(r)
    PROVE  (\A t \in Token : Findable(t)') /\ (\A q \in Request : OnlyItsOwn(q)')
  <1> DEFINE a == request[r].account
             made == [account |-> a, session |-> Changed(r).session,
                      version |-> Changed(r).version, indexed |-> TRUE]
             f == [pc |-> "commit", account |-> a, read |-> request[r].read,
                   change |-> request[r].change]
  <1>1. PICK t \in Token : session[t] = NoSession /\ session' = [session EXCEPT ![t] = made]
    BY DEF ReopenSession, CreateSession
  <1>2. /\ session \in [Token -> Session \cup {NoSession}]
        /\ request \in [Request -> Frame] /\ account' = account
        /\ request[r].pc = "session" /\ request' = [request EXCEPT ![r] = f]
    BY DEF AheadInv, TypeOK, ReopenSession, SetRequest, Continue, At
  <1>3. /\ a \in Account /\ account[a].status # "ABSENT"
        /\ request[r].change.field = "password"
        /\ \A u \in Token : Ahead(u) => session[u].account # a
    BY <1>2, ChangeFrame
       DEF AheadInv, AdminInv, ReadsCurrent, OnlyItsOwn, Changes, Saving
  <1>4. /\ session'[t] = made /\ made.account = a /\ made.indexed
        /\ \A u \in Token : u # t => session'[u] = session[u]
    BY <1>1, <1>2
  <1>5. /\ f.pc = "commit" /\ f.account = a /\ f.change.field = "password"
        /\ request'[r] = f
    BY <1>2, <1>3
  <1>6. ASSUME NEW q \in Request, q # r,
               request[q].pc \in {"delete", "session", "commit"}
        PROVE  request[q].account # a
    BY <1>2, <1>6 DEF AheadInv, AdminInv, Apart, Changes, Saving
  <1> HIDE DEF made, a, f
  <1>7. \A u \in Token : u # t => (Ahead(u)' <=> Ahead(u)) /\ Findable(u)'
    BY <1>2, <1>4 DEF AheadInv, Ahead, Findable
  <1>8. Findable(t)'
    BY <1>2, <1>3, <1>4 DEF Findable
  <1>9. \A u \in Token : Ahead(u)' /\ session'[u].account = a => u = t
    BY <1>3, <1>4, <1>7
  <1>10. ASSUME NEW q \in Request PROVE OnlyItsOwn(q)'
    <2>1. CASE q = r
      BY <1>5, <1>9, <2>1 DEF OnlyItsOwn
    <2>2. CASE q # r
      <3>1. request'[q] = request[q] /\ OnlyItsOwn(q)
        BY <1>2, <2>2 DEF AheadInv
      <3>2. \A u \in Token :
               /\ Ahead(u)' /\ session'[u].account = request[q].account
               /\ request[q].pc \in {"delete", "session", "commit"}
               => Ahead(u) /\ session'[u] = session[u]
        BY <1>4, <1>6, <1>7, <2>2
      <3> QED
        BY <1>2, <3>1, <3>2 DEF OnlyItsOwn
    <2> QED
      BY <2>1, <2>2
  <1> QED
    BY <1>7, <1>8, <1>10

(* A commit counts the version of its account up.                          *)
LEMMA CommitCounts ==
    ASSUME AheadInv, NEW r \in Request, Commit(r)
    PROVE  LET a == request[r].account
           IN  /\ a \in Account /\ request[r].pc = "commit"
               /\ account[a] \in Row /\ account'[a] = Changed(r)
               /\ account'[a].session = account[a].session + 1
               /\ account'[a].status # "ABSENT"
               /\ \A b \in Account : b # a => account'[b] = account[b]
  <1> DEFINE a == request[r].account
             read == request[r].read
             change == request[r].change
             row == [read EXCEPT !.session = @ + 1,
                                 !.version = account[a].version + 1]
  <1>1. /\ Rows /\ request[r].pc \in Changes /\ request[r].pc = "commit"
        /\ account' = [account EXCEPT ![a] = Changed(r)]
        /\ account \in [Account -> Row]
    BY DEF AheadInv, AdminInv, Rows, Commit, At, Changes, Saving
  <1>2. /\ a \in Account /\ read = account[a] /\ read \in Row
        /\ read.status # "ABSENT" /\ Changed(r).status # "ABSENT"
    BY <1>1, ChangeFrame, ChangedRow DEF AheadInv, AdminInv, ReadsCurrent
  <1>3. Changed(r) = CASE change.field = "status" -> [row EXCEPT !.status = change.to]
                       [] change.field = "role" -> [row EXCEPT !.role = change.to]
                       [] OTHER -> row
    BY DEF Changed
  <1>4. row.session = read.session + 1
    BY <1>2 DEF Row
  <1>5. \A to : /\ [row EXCEPT !.status = to].session = row.session
                /\ [row EXCEPT !.role = to].session = row.session
    BY <1>2 DEF Row
  <1> HIDE DEF row
  <1>6. Changed(r).session = read.session + 1
    BY <1>3, <1>4, <1>5
  <1> QED
    BY <1>1, <1>2, <1>6

LEMMA ChangeCommits ==
    ASSUME AheadInv, NEW r \in Request, Commit(r)
    PROVE  (\A t \in Token : Findable(t)') /\ (\A q \in Request : OnlyItsOwn(q)')
  <1> DEFINE a == request[r].account
  <1>1. /\ session' = session /\ session \in [Token -> Session \cup {NoSession}]
        /\ request' = [request EXCEPT ![r] = Idle]
        /\ request \in [Request -> Frame] /\ account \in [Account -> Row]
    BY DEF AheadInv, TypeOK, Commit, SetRequest
  <1>2. /\ a \in Account /\ account'[a].session = account[a].session + 1
        /\ account[a].session \in Nat /\ account'[a].status # "ABSENT"
        /\ \A b \in Account : b # a => account'[b] = account[b]
    BY CommitCounts DEF Row
  <1> HIDE DEF a
  <1>3. \A b \in Account : /\ account[b].session \in Nat
                           /\ account[b].session <= account'[b].session
                           /\ account'[b].session \in Nat
                           /\ account[b].status # "ABSENT" => account'[b].status # "ABSENT"
    <2>1. \A b \in Account : account[b].session \in Nat
      BY <1>1 DEF Row
    <2> QED
      BY <1>2, <2>1
  <1>4. ASSUME NEW t \in Token, session[t] # NoSession
        PROVE  /\ session[t].account \in Account /\ session[t].session \in Nat
               /\ Ahead(t)' => Ahead(t)
    <2>1. session[t] \in Session
      BY <1>1, <1>4
    <2>2. session[t].account \in Account /\ session[t].session \in Nat
      BY <2>1 DEF Session
    <2> QED
      BY <1>1, <1>3, <2>2 DEF Ahead
  <1>5. ASSUME NEW t \in Token PROVE Findable(t)'
    BY <1>1, <1>3, <1>4 DEF AheadInv, Findable
  <1>6. \A t \in Token : Ahead(t)' => Ahead(t)
    BY <1>1, <1>4 DEF Ahead
  <1>7. ASSUME NEW q \in Request PROVE OnlyItsOwn(q)'
    <2>1. CASE q = r
      BY <1>1, <2>1 DEF OnlyItsOwn, Idle
    <2>2. CASE q # r
      <3>1. request'[q] = request[q] /\ OnlyItsOwn(q)
        BY <1>1, <2>2 DEF AheadInv
      <3>2. request[q].pc = "login" =>
                /\ account'[request[q].account].status # "ABSENT"
                /\ request[q].read.session <= account'[request[q].account].session
        <4> SUFFICES ASSUME request[q].pc = "login"
                     PROVE  /\ account'[request[q].account].status # "ABSENT"
                            /\ request[q].read.session
                                   <= account'[request[q].account].session
          OBVIOUS
        <4>1. request[q].account \in Account /\ request[q].read.session \in Nat
          BY FrameKinds DEF AheadInv, AdminInv, Row
        <4> QED
          BY <1>3, <3>1, <4>1 DEF OnlyItsOwn
      <3> QED
        BY <1>1, <1>6, <3>1, <3>2 DEF OnlyItsOwn
    <2> QED
      BY <2>1, <2>2
  <1> QED
    BY <1>5, <1>7

(* An account that is created has neither sessions nor logins.             *)
LEMMA AccountComes ==
    ASSUME AheadInv, NEW a \in Account, NEW role \in AccountRole, CreateAccount(a, role)
    PROVE  (\A t \in Token : Findable(t)') /\ (\A q \in Request : OnlyItsOwn(q)')
  <1>1. /\ \A b \in Account : account[b].status # "ABSENT" => account'[b] = account[b]
        /\ session' = session /\ request' = request
        /\ session \in [Token -> Session \cup {NoSession}]
    BY DEF CreateAccount, AheadInv, TypeOK
  <1>2. ASSUME NEW t \in Token, session[t] # NoSession
        PROVE  account'[session[t].account] = account[session[t].account]
    <2>1. session[t].account \in Account
      BY <1>1, <1>2 DEF Session
    <2> QED
      BY <1>1, <1>2, <2>1 DEF AheadInv, Findable
  <1>3. \A t \in Token : (Ahead(t)' => Ahead(t)) /\ Findable(t)'
    BY <1>1, <1>2 DEF AheadInv, Ahead, Findable
  <1>4. ASSUME NEW q \in Request PROVE OnlyItsOwn(q)'
    <2>1. request[q].pc = "login" =>
              account'[request[q].account] = account[request[q].account]
      BY <1>1, FrameKinds DEF AheadInv, AdminInv, OnlyItsOwn
    <2> QED
      BY <1>1, <1>3, <2>1 DEF AheadInv, OnlyItsOwn
  <1> QED
    BY <1>3, <1>4

(* A login reads the row of now.                                           *)
LEMMA LoginReads ==
    ASSUME AheadInv, NEW r \in Request, LoginSucceeds(r)
    PROVE  (\A t \in Token : Findable(t)') /\ (\A q \in Request : OnlyItsOwn(q)')
  <1> DEFINE a == request[r].account
             f == [pc |-> "login", account |-> a, read |-> account[a]]
  <1>1. /\ request' = [request EXCEPT ![r] = f] /\ request \in [Request -> Frame]
        /\ account' = account /\ session' = session /\ a \in Account
        /\ account[a].status # "ABSENT" /\ account[a] \in Row
    BY FrameKinds DEF AheadInv, AdminInv, TypeOK, LoginSucceeds, SetRequest, At
  <1>2. /\ request'[r] = f /\ f.pc = "login" /\ f.account = a /\ f.read = account[a]
        /\ account[a].session <= account[a].session
    BY <1>1 DEF Row
  <1> HIDE DEF f, a
  <1>3. \A t \in Token : (Ahead(t)' <=> Ahead(t)) /\ Findable(t)'
    BY <1>1 DEF AheadInv, Ahead, Findable
  <1>4. ASSUME NEW q \in Request PROVE OnlyItsOwn(q)'
    <2>1. CASE q = r
      BY <1>1, <1>2, <2>1 DEF OnlyItsOwn
    <2>2. CASE q # r
      BY <1>1, <1>3, <2>2 DEF AheadInv, OnlyItsOwn
    <2> QED
      BY <2>1, <2>2
  <1> QED
    BY <1>3, <1>4

LEMMA AheadInvStep ==
    ASSUME AheadInv, ~SameAccount, [Next]_vars
    PROVE  AheadInv'
  <1>1. AdminInv' /\ TypeOK'
    BY AdminInvStep, TypesKept DEF AheadInv
  <1>2. request \in [Request -> Frame] /\ Idle.pc = "idle"
    BY DEF AheadInv, TypeOK, Idle
  <1> DEFINE Kept == (\A t \in Token : Findable(t)') /\ (\A q \in Request : OnlyItsOwn(q)')
             Early == {"idle", "verify", "lock", "save", "revoke"}
  <1>3. ASSUME UNCHANGED <<account, session>>, NEW r \in Request, NEW f,
               SetRequest(r, f), f.pc \in Early
        PROVE  Kept
    <2>1. \A q \in Request :
             \/ request'[q] = request[q]
             \/ request'[q].pc \notin {"login", "delete", "session", "commit"}
      BY <1>2, <1>3 DEF SetRequest
    <2> QED
      BY <1>3, <2>1, BeforeRevocation
  <1>4. ASSUME NEW r \in Request, NEW a \in Account, StartLogin(r, a) PROVE Kept
    BY <1>3, <1>4 DEF StartLogin
  <1>5. ASSUME NEW r \in Request, NEW a \in Account, NEW change \in Change,
               StartChange(r, a, change)
        PROVE  Kept
    BY <1>3, <1>5 DEF StartChange
  <1>6. ASSUME NEW r \in Request, RequestStep(r) PROVE Kept
    <2>1. CASE LoginFails(r) \/ Abort(r)
      BY <1>2, <1>3, <2>1 DEF LoginFails, Abort
    <2>2. CASE LockAdmins(r) \/ Save(r)
      BY <1>2, <1>3, <2>2 DEF LockAdmins, Save, Continue
    <2> QED
      BY <1>6, <2>1, <2>2, LoginReads, LoginSession, RevocationFinds,
         RevocationDeletes, ChangeSession, ChangeCommits DEF RequestStep
  <1>7. ASSUME NEW a \in Account, NEW role \in AccountRole, CreateAccount(a, role)
        PROVE  Kept
    BY <1>7, AccountComes
  <1>8. ASSUME UNCHANGED <<account, request>>,
               \A t \in Token : session'[t] \in {session[t], NoSession}
        PROVE  Kept
    BY <1>8, BeforeRevocation
  <1>9. ASSUME NEW a \in Account, WindowEnds(a) PROVE Kept
    BY <1>8, <1>9 DEF WindowEnds
  <1>10. ASSUME NEW t \in Token, SessionEnds(t) PROVE Kept
    BY <1>8, <1>10 DEF SessionEnds, AheadInv, TypeOK
  <1>11. ASSUME UNCHANGED vars PROVE Kept
    BY <1>8, <1>11 DEF vars
  <1>12. Kept
    BY <1>4, <1>5, <1>6, <1>7, <1>9, <1>10, <1>11 DEF Next
  <1> QED
    BY <1>1, <1>12 DEF AheadInv

LEMMA AheadInvInit == Init => AheadInv
  <1> SUFFICES ASSUME Init PROVE AheadInv
    OBVIOUS
  <1>1. \A t \in Token : Findable(t)
    BY DEF Init, Findable
  <1>2. \A r \in Request : OnlyItsOwn(r)
    BY DEF Init, OnlyItsOwn, Idle
  <1> QED
    BY <1>1, <1>2, AdminInvInit, TypesInit DEF AheadInv

(* A session that is there before and after a step is of the same account  *)
(* and the same version: a new one has a token nobody holds.               *)
LEMMA SessionsStay ==
    ASSUME AheadInv, [Next]_vars, NEW t \in Token,
           session[t] # NoSession, session'[t] # NoSession
    PROVE  /\ session'[t].account = session[t].account
           /\ session'[t].session = session[t].session
  <1>1. session \in [Token -> Session \cup {NoSession}]
    BY DEF AheadInv, TypeOK
  <1>2. ASSUME NEW made, CreateSession(made) PROVE session'[t] = session[t]
    BY <1>1, <1>2 DEF CreateSession
  <1>3. ASSUME NEW r \in Request, OpenSession(r) \/ ReopenSession(r)
        PROVE  session'[t] = session[t]
    BY <1>2, <1>3 DEF OpenSession, ReopenSession
  <1>4. ASSUME NEW r \in Request, RevokeDelete(r)
        PROVE  /\ session'[t].account = session[t].account
               /\ session'[t].session = session[t].session
    <2> DEFINE s == session[t]
               b == s.indexed /\ s.account # request[r].account
    <2>1. s \in Session /\ session'[t] = [s EXCEPT !.indexed = b]
      BY <1>1, <1>4 DEF RevokeDelete
    <2> QED
      BY <2>1 DEF Session
  <1>5. ASSUME NEW u \in Token, SessionEnds(u) PROVE session'[t] = session[t]
    BY <1>1, <1>5 DEF SessionEnds
  <1> QED
    BY <1>3, <1>4, <1>5 DEF Next, vars, RequestStep, StartLogin, StartChange,
       LoginFails, LoginSucceeds, LockAdmins, Save, RevokeRead, Commit, Abort,
       WindowEnds, CreateAccount

(* Only a commit on its account admits a session, and it was ahead.        *)
LEMMA CommitAdmits ==
    ASSUME AheadInv, [Next]_vars, NEW t \in Token, Admitted(t)
    PROVE  \E r \in Request :
              /\ Commit(r) /\ request[r].account = session[t].account /\ Ahead(t)
  <1> DEFINE b == session[t].account
  <1>1. /\ session[t] \in Session /\ session[t] # NoSession
        /\ session'[t].account = b /\ session'[t].session = session[t].session
    BY SessionsStay DEF AheadInv, TypeOK, Admitted
  <1>2. b \in Account /\ account[b].status # "ABSENT"
    BY <1>1 DEF AheadInv, Findable, Session
  <1>3. /\ ~(account[b].status = "ACTIVE" /\ account[b].session = session[t].session)
        /\ account'[b].status = "ACTIVE" /\ account'[b].session = session[t].session
    BY <1>1 DEF Admitted, Accepted
  <1>4. account'[b] # account[b]
    BY <1>3
  <1>5. ASSUME NEW a \in Account, NEW role \in AccountRole, CreateAccount(a, role)
        PROVE  FALSE
    BY <1>2, <1>4, <1>5 DEF CreateAccount, AheadInv, TypeOK
  <1>6. PICK r \in Request : Commit(r)
    BY <1>4, <1>5 DEF Next, vars, RequestStep, StartLogin, StartChange, LoginFails,
       LoginSucceeds, OpenSession, LockAdmins, Save, RevokeRead, RevokeDelete,
       ReopenSession, Abort, WindowEnds, SessionEnds
  <1>7. request[r].account = b
    BY <1>2, <1>4, <1>6, CommitCounts
  <1>8. account'[b].session = account[b].session + 1 /\ account[b].session \in Nat
    BY <1>6, <1>7, CommitCounts DEF Row
  <1>9. Ahead(t)
    BY <1>1, <1>3, <1>8 DEF Ahead
  <1> QED
    BY <1>6, <1>7, <1>9

(* A session that is not accepted never will be, but for the one a change  *)
(* of the password has opened before its own commit, as long as no two     *)
(* requests change one account at the same time: the session of a change   *)
(* that was undone is deleted before another change reaches its version    *)
(* (AuthService.change_password, revoke_account).                          *)
THEOREM UndoneSessionsStayOut == ~SameAccount /\ Spec => OnlyItsCommitAdmits
  <1> SUFFICES ASSUME ~SameAccount PROVE Spec => OnlyItsCommitAdmits
    OBVIOUS
  <1> DEFINE Own(t) ==
          /\ \E r \in Request :
                /\ At(r, "commit") /\ request'[r] = Idle
                /\ request[r].change.field = "password"
                /\ request[r].account = session[t].account
          /\ \A u \in Token : Admitted(u) => u = t
  <1>1. ASSUME AheadInv, [Next]_vars, NEW t \in Token, Admitted(t) PROVE Own(t)
    <2>1. PICK r \in Request :
              Commit(r) /\ request[r].account = session[t].account /\ Ahead(t)
      BY <1>1, CommitAdmits
    <2>2. request[r].pc = "commit" /\ At(r, "commit") /\ request'[r] = Idle
      BY <1>1, <2>1 DEF Commit, At, SetRequest, AheadInv, TypeOK
    <2>3. /\ request[r].change.field = "password"
          /\ \A u \in Token : Ahead(u) /\ session[u].account = session[t].account => u = t
      BY <1>1, <2>1, <2>2 DEF AheadInv, OnlyItsOwn
    <2>4. ASSUME NEW u \in Token, Admitted(u) PROVE u = t
      <3>1. PICK q \in Request :
                Commit(q) /\ request[q].account = session[u].account /\ Ahead(u)
        BY <1>1, <2>4, CommitAdmits
      <3>2. q = r
        BY <1>1, <2>1, <2>2, <3>1
           DEF Commit, At, AheadInv, TypeOK, SetRequest, Idle
      <3> QED
        BY <2>1, <2>3, <3>1, <3>2
    <2> QED
      BY <2>1, <2>2, <2>3, <2>4
  <1>2. AheadInv /\ [Next]_vars => [\A t \in Token : Admitted(t) => Own(t)]_vars
    BY <1>1
  <1>3. AheadInv /\ [Next]_vars => AheadInv'
    BY AheadInvStep
  <1> QED
    BY AheadInvInit, <1>2, <1>3, PTL DEF Spec, OnlyItsCommitAdmits
=============================================================================
