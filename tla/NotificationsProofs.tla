-------------------------- MODULE NotificationsProofs --------------------------
(***************************************************************************)
(* Proofs about Notifications, for any number of events, accounts, workers *)
(* and attempts: the attempts of a cycle stay within the budget, what the  *)
(* provider accepts is on record but for the faults, a late result changes *)
(* nothing and what is settled stays so.                                   *)
(*                                                                         *)
(* The argument about the provider: a worker whose attempt is still the    *)
(* delivery's will put on record what it sends.  One whose attempt was     *)
(* given up, or is about to be as the delivery has gone stale under it,    *)
(* will not; but when the delivery went stale under it, a fault was        *)
(* counted, and each fault pays for one worker.                            *)
(***************************************************************************)
EXTENDS Notifications, FiniteSetTheorems, TLAPS

USE RecipientsAssumption, AttemptAssumption, BudgetAssumption, BoundsAssumption

-----------------------------------------------------------------------------
(* The parts of the inductive invariant.                                   *)

(* Only a retry waits; the attempts of the cycle are within the budget, and*)
(* leave room for one more while the delivery is not settled.              *)
RowSound(row) ==
    /\ row.later => row.status = "RETRY_SCHEDULED"
    /\ \E max \in Budget : row.cycle <= max
    /\ row.status \notin Settled => \E max \in Budget : row.cycle < max
    /\ row.cycle <= row.count

(* An event has no deliveries before it is prepared.                       *)
NotPreparedYet ==
    \A d \in DeliveryId : outbox[d[1]] # "PROCESSED" => delivery[d] = NoDelivery

(* No two workers hold the same attempt.                                   *)
OneAttemptEach ==
    \A v, w \in Worker :
        /\ task[v].pc # "idle" /\ task[w].pc # "idle"
        /\ task[v].attempt = task[w].attempt
        => v = w

Recording(d) == {w \in Worker : task[w].pc = "record" /\ task[w].delivery = d}

(* The attempt is the delivery's, and nobody will give it up as it is.     *)
Current(row, attempt) == AttemptIsActive(row, attempt) /\ ~row.stale

GivenUp(d) ==
    {w \in Worker : /\ task[w].pc # "idle" /\ task[w].delivery = d
                    /\ ~Current(delivery[d], task[w].attempt)}

CountedAt(d) ==
    accepted[d] + Cardinality(GivenUp(d))
        <= delivery[d].count + faults + Cardinality(Recording(d))

DeliveriesInv ==
    /\ TypeOK
    /\ \A d \in DeliveryId : RowSound(delivery[d])
    /\ NotPreparedYet

AttemptsInv ==
    /\ OneAttemptEach
    /\ \A d \in DeliveryId : CountedAt(d)

-----------------------------------------------------------------------------
(* The transactions on a row, column by column.                            *)
LEMMA BudgetIsPositive ==
    /\ \A max \in Budget : max \in Nat /\ 0 < max
    /\ \E max \in Budget : 0 < max
  <1>1. \A max \in Budget : max \in 1 .. 10
    OBVIOUS
  <1>2. \A max \in Budget : max \in Nat /\ 0 < max
    BY <1>1
  <1>3. \E max : max \in Budget
    OBVIOUS
  <1> QED
    BY <1>2, <1>3

LEMMA NewRows ==
    ASSUME NEW status \in Status
    PROVE  LET row == [NewDelivery EXCEPT !.status = status]
           IN  /\ row \in Delivery /\ row.status = status /\ row.count = 0
               /\ row.cycle = 0 /\ row.active = NoAttempt
               /\ row.later = FALSE /\ row.stale = FALSE
  BY DEF NewDelivery, Delivery

LEMMA ResetRows ==
    ASSUME NEW row \in Delivery
    PROVE  /\ LET new == Queue(row)
              IN  /\ new \in Delivery /\ new.status = "QUEUED"
                  /\ new.count = row.count /\ new.cycle = row.cycle
                  /\ new.later = row.later
           /\ LET new == Skip(row)
              IN  /\ new \in Delivery /\ new.status = "SKIPPED"
                  /\ new.count = row.count /\ new.cycle = row.cycle
                  /\ new.later = row.later
           /\ LET new == ManualRetry(row)
              IN  /\ new \in Delivery /\ new.status = "PENDING"
                  /\ new.count = row.count /\ new.cycle = 0 /\ new.later = FALSE
           /\ \A attempt \in AttemptId :
                  LET new == Claim(row, attempt)
                  IN  /\ new \in Delivery /\ new.status = "DELIVERING"
                      /\ new.count = row.count /\ new.cycle = row.cycle
                      /\ new.active = attempt /\ new.later = FALSE
                      /\ new.stale = FALSE
  <1>1. LET new == Queue(row)
        IN  /\ new \in Delivery /\ new.status = "QUEUED"
            /\ new.count = row.count /\ new.cycle = row.cycle
            /\ new.later = row.later
    BY DEF Queue, Delivery, Status
  <1>2. LET new == Skip(row)
        IN  /\ new \in Delivery /\ new.status = "SKIPPED"
            /\ new.count = row.count /\ new.cycle = row.cycle
            /\ new.later = row.later
    BY DEF Skip, Delivery, Status, Settled
  <1>3. LET new == ManualRetry(row)
        IN  /\ new \in Delivery /\ new.status = "PENDING"
            /\ new.count = row.count /\ new.cycle = 0 /\ new.later = FALSE
    BY DEF ManualRetry, Delivery, Status
  <1>4. \A attempt \in AttemptId :
            LET new == Claim(row, attempt)
            IN  /\ new \in Delivery /\ new.status = "DELIVERING"
                /\ new.count = row.count /\ new.cycle = row.cycle
                /\ new.active = attempt /\ new.later = FALSE
                /\ new.stale = FALSE
    BY DEF Claim, Delivery, Status
  <1> QED
    BY <1>1, <1>2, <1>3, <1>4

LEMMA ResultRows ==
    ASSUME NEW row \in Delivery, NEW result \in Result, NEW max \in Budget
    PROVE  /\ LET new == Succeed(row)
              IN  /\ new \in Delivery /\ new.status = "DELIVERED"
                  /\ new.count = row.count + 1 /\ new.cycle = row.cycle + 1
                  /\ new.later = row.later
           /\ LET new == Fail(row, result, max)
              IN  /\ new \in Delivery
                  /\ new.status = IF RetryLater(row, result, max)
                                  THEN "RETRY_SCHEDULED" ELSE "PERMANENT_FAILURE"
                  /\ new.count = row.count + 1 /\ new.cycle = row.cycle + 1
                  /\ new.later <=> RetryLater(row, result, max)
  <1>1. row.count + 1 \in Nat /\ row.cycle + 1 \in Nat
    BY DEF Delivery
  <1>2. LET new == Succeed(row)
        IN  /\ new \in Delivery /\ new.status = "DELIVERED"
            /\ new.count = row.count + 1 /\ new.cycle = row.cycle + 1
            /\ new.later = row.later
    BY <1>1 DEF Succeed, Delivery, Status, Settled
  <1>3. PICK again \in BOOLEAN : again <=> RetryLater(row, result, max)
    OBVIOUS
  <1>4. Fail(row, result, max) =
            [row EXCEPT !.status = IF again THEN "RETRY_SCHEDULED"
                                            ELSE "PERMANENT_FAILURE",
                        !.count = row.count + 1, !.cycle = row.cycle + 1,
                        !.later = again, !.stale = FALSE]
    <2>1. RetryLater(row, result, max) \in BOOLEAN
      BY DEF RetryLater
    <2>2. again = RetryLater(row, result, max)
      BY <1>3, <2>1
    <2> QED
      BY <2>2 DEF Fail
  <1>5. LET new == Fail(row, result, max)
        IN  /\ new \in Delivery
            /\ new.status = IF again THEN "RETRY_SCHEDULED" ELSE "PERMANENT_FAILURE"
            /\ new.count = row.count + 1 /\ new.cycle = row.cycle + 1
            /\ new.later = again
    <2> DEFINE s == IF again THEN "RETRY_SCHEDULED" ELSE "PERMANENT_FAILURE"
               new == [row EXCEPT !.status = s,
                        !.count = row.count + 1, !.cycle = row.cycle + 1,
                        !.later = again, !.stale = FALSE]
    <2>1. s \in Status
      BY DEF Status, Settled
    <2> HIDE DEF s
    <2>2. /\ new \in Delivery /\ new.status = s
          /\ new.count = row.count + 1 /\ new.cycle = row.cycle + 1
          /\ new.later = again
      BY <1>1, <2>1 DEF Delivery
    <2> QED
      BY <1>4, <2>2 DEF s
  <1> QED
    BY <1>2, <1>3, <1>5

LEMMA ResultCounts ==
    \A row \in Delivery : \A result \in Result, max \in Budget :
        Fail(row, result, max).count = row.count + 1
  BY ResultRows

(* Time passes for a row.                                                  *)
LEMMA TimePasses ==
    ASSUME NEW row \in Delivery
    PROVE  /\ LET new == [row EXCEPT !.later = FALSE]
              IN  /\ new \in Delivery /\ new.status = row.status
                  /\ new.count = row.count /\ new.cycle = row.cycle
                  /\ new.active = row.active /\ new.later = FALSE
                  /\ new.stale = row.stale
           /\ LET new == [row EXCEPT !.stale = TRUE]
              IN  /\ new \in Delivery /\ new.status = row.status
                  /\ new.count = row.count /\ new.cycle = row.cycle
                  /\ new.active = row.active /\ new.later = row.later
  BY DEF Delivery

-----------------------------------------------------------------------------
(* The tasks.                                                              *)
LEMMA TaskKinds ==
    ASSUME NEW f \in Task
    PROVE  /\ f.pc \in {"idle", "send", "record"}
           /\ f.pc # "idle" => /\ f.delivery \in DeliveryId
                               /\ f.attempt \in AttemptId /\ f.max \in Budget
           /\ f.pc = "record" => f.result \in Result
  BY DEF Task

LEMMA Tasks ==
    /\ Idle \in Task /\ Idle.pc = "idle"
    /\ \A d \in DeliveryId, attempt \in AttemptId, max \in Budget :
          /\ [pc |-> "send", delivery |-> d, attempt |-> attempt, max |-> max] \in Task
          /\ \A result \in Result :
                [pc |-> "record", delivery |-> d, attempt |-> attempt, max |-> max,
                 result |-> result] \in Task
  BY DEF Task, Idle

(* The id of a claim is one nobody holds.                                  *)
LEMMA NewAttemptIsNew ==
    AttemptId \ InUse # {} => NewAttempt \in AttemptId /\ NewAttempt \notin InUse
  BY DEF NewAttempt

-----------------------------------------------------------------------------
(* What a transaction on one delivery, or the passage of time, may do.     *)
RowStep(old, new) ==
    \/ new = old
    \/ CanClaim(old) /\ new = Skip(old)
    \/ CanClaim(old) /\ \E attempt \in AttemptId : new = Claim(old, attempt)
    \/ /\ old.status = "DELIVERING"
       /\ \/ new = Succeed(old)
          \/ \E result \in Result, max \in Budget : new = Fail(old, result, max)
    \/ old.status = "PERMANENT_FAILURE" /\ new = ManualRetry(old)
    \/ old.later /\ new = [old EXCEPT !.later = FALSE]
    \/ old.status \in {"QUEUED", "DELIVERING"} /\ new = [old EXCEPT !.stale = TRUE]

Final(old, new) ==
    old.status \in Settled /\ new # old =>
        /\ old.status = "PERMANENT_FAILURE"
        /\ new.status = "PENDING" /\ new.cycle = 0 /\ new.count = old.count

LEMMA RowStepSound ==
    ASSUME NEW old \in Delivery, RowSound(old), NEW new, RowStep(old, new)
    PROVE  /\ new \in Delivery /\ RowSound(new) /\ Final(old, new)
           /\ old.status = "ABSENT" => new = old
  <1> DEFINE Goal == /\ new \in Delivery /\ RowSound(new) /\ Final(old, new)
                     /\ old.status = "ABSENT" => new = old
  <1>0. /\ \A max \in Budget : max \in Nat
        /\ old.count \in Nat /\ old.cycle \in Nat
        /\ old.later => old.status = "RETRY_SCHEDULED"
        /\ old.cycle <= old.count
    BY BudgetIsPositive DEF Delivery, RowSound
  <1>1. CASE new = old
    BY <1>1 DEF Final
  <1>2. CASE CanClaim(old) /\ (new = Skip(old)
                   \/ \E attempt \in AttemptId : new = Claim(old, attempt))
    <2>1. /\ old.status \in {"PENDING", "QUEUED", "RETRY_SCHEDULED"} /\ ~old.later
          /\ old.status \notin Settled
      BY <1>2 DEF CanClaim, Settled
    <2>2. /\ new \in Delivery /\ new.count = old.count /\ new.cycle = old.cycle
          /\ new.later = FALSE
      <3>1. old.later = FALSE
        BY <2>1 DEF Delivery
      <3>2. CASE new = Skip(old)
        BY <3>1, <3>2, ResetRows
      <3>3. ASSUME NEW attempt \in AttemptId, new = Claim(old, attempt)
            PROVE  /\ new \in Delivery /\ new.count = old.count
                   /\ new.cycle = old.cycle /\ new.later = FALSE
        BY <3>3, ResetRows
      <3> QED
        BY <1>2, <3>2, <3>3
    <2>3. RowSound(new)
      BY <2>1, <2>2 DEF RowSound
    <2> QED
      BY <2>1, <2>2, <2>3 DEF Final
  <1>3. CASE old.status = "DELIVERING" /\ new = Succeed(old)
    <2>1. /\ new \in Delivery /\ new.status = "DELIVERED" /\ ~new.later
          /\ new.count = old.count + 1 /\ new.cycle = old.cycle + 1
      <3>1. "receipt" \in Result /\ \E max : max \in Budget
        BY DEF Result
      <3> QED
        BY <1>0, <1>3, <3>1, ResultRows
    <2>2. old.status \notin Settled
      BY <1>3 DEF Settled
    <2>3. \E max \in Budget : new.cycle <= max
      BY <1>0, <2>1, <2>2 DEF RowSound
    <2> QED
      BY <1>0, <1>3, <2>1, <2>2, <2>3 DEF RowSound, Final, Settled
  <1>4. ASSUME old.status = "DELIVERING", NEW result \in Result, NEW max \in Budget,
               new = Fail(old, result, max)
        PROVE  Goal
    <2>1. /\ new \in Delivery
          /\ new.status = IF RetryLater(old, result, max)
                          THEN "RETRY_SCHEDULED" ELSE "PERMANENT_FAILURE"
          /\ new.count = old.count + 1 /\ new.cycle = old.cycle + 1
          /\ new.later <=> RetryLater(old, result, max)
      BY <1>4, ResultRows
    <2>2. old.status \notin Settled
      BY <1>4 DEF Settled
    <2>3. PICK most \in Budget : old.cycle < most
      BY <2>2 DEF RowSound
    <2>4. RetryLater(old, result, max) => new.cycle < max
      BY <1>0, <2>1 DEF RetryLater
    <2>5. new.cycle <= most
      BY <1>0, <2>1, <2>3
    <2>6. new.cycle <= new.count
      BY <1>0, <2>1
    <2>7. new.status \notin Settled => RetryLater(old, result, max)
      BY <2>1 DEF Settled
    <2>8. RowSound(new)
      BY <2>1, <2>4, <2>5, <2>6, <2>7 DEF RowSound
    <2> QED
      BY <1>4, <2>1, <2>2, <2>8 DEF Final
  <1>5. CASE old.status = "PERMANENT_FAILURE" /\ new = ManualRetry(old)
    <2>1. /\ new \in Delivery /\ new.status = "PENDING" /\ new.count = old.count
          /\ new.cycle = 0 /\ new.later = FALSE
      BY <1>5, ResetRows
    <2>2. RowSound(new)
      BY <1>0, <2>1, BudgetIsPositive DEF RowSound
    <2> QED
      BY <1>5, <2>1, <2>2 DEF Final
  <1>6. CASE old.later /\ new = [old EXCEPT !.later = FALSE]
    <2>1. /\ new \in Delivery /\ new.status = old.status /\ new.count = old.count
          /\ new.cycle = old.cycle /\ new.later = FALSE
      BY <1>6, TimePasses
    <2> QED
      BY <1>0, <1>6, <2>1 DEF RowSound, Final, Settled
  <1>7. CASE old.status \in {"QUEUED", "DELIVERING"} /\ new = [old EXCEPT !.stale = TRUE]
    <2>1. /\ new \in Delivery /\ new.status = old.status /\ new.count = old.count
          /\ new.cycle = old.cycle /\ new.later = old.later
      BY <1>7, TimePasses
    <2> QED
      BY <1>0, <1>7, <2>1 DEF RowSound, Final, Settled
  <1> QED
    BY <1>1, <1>2, <1>3, <1>4, <1>5, <1>6, <1>7 DEF RowStep

(* A delivery that is prepared or queued by a recovery.                    *)
RecoverStep(old, new, pending) ==
    \/ new = old
    \/ Due(old) /\ new = Queue(old)
    \/ pending /\ \E status \in {"PERMANENT_FAILURE", "SKIPPED", "PENDING"} :
           LET row == [NewDelivery EXCEPT !.status = status]
           IN  new = row \/ (Due(row) /\ new = Queue(row))

LEMMA QueueSound ==
    ASSUME NEW row \in Delivery, RowSound(row), Due(row)
    PROVE  Queue(row) \in Delivery /\ RowSound(Queue(row)) /\ row.status \notin Settled
  <1>1. row.status \notin Settled /\ ~row.later
    BY DEF Due, Settled, RowSound
  <1> DEFINE new == Queue(row)
  <1>2. /\ new \in Delivery /\ new.status = "QUEUED" /\ new.count = row.count
        /\ new.cycle = row.cycle /\ ~new.later
    BY <1>1, ResetRows
  <1> HIDE DEF new
  <1>3. RowSound(new)
    BY <1>1, <1>2 DEF RowSound
  <1> QED
    BY <1>1, <1>2, <1>3 DEF new

LEMMA RecoverStepSound ==
    ASSUME NEW old \in Delivery, RowSound(old), NEW new, NEW pending \in BOOLEAN,
           RecoverStep(old, new, pending), pending => old = NoDelivery
    PROVE  /\ new \in Delivery /\ RowSound(new)
           /\ old.status \in Settled => new = old
           /\ old.status = "ABSENT" /\ ~pending => new = old
  <1>1. /\ pending => old.status = "ABSENT"
        /\ "ABSENT" \notin Settled
    BY DEF NoDelivery, NewDelivery, Settled
  <1>2. CASE new = old
    BY <1>2
  <1>3. CASE Due(old) /\ new = Queue(old)
    BY <1>3, QueueSound DEF Due
  <1>4. ASSUME pending, NEW status \in {"PERMANENT_FAILURE", "SKIPPED", "PENDING"},
               LET row == [NewDelivery EXCEPT !.status = status]
               IN  new = row \/ (Due(row) /\ new = Queue(row))
        PROVE  new \in Delivery /\ RowSound(new)
    <2> DEFINE row == [NewDelivery EXCEPT !.status = status]
    <2>1. status \in Status
      BY DEF Status, Settled
    <2>2. row \in Delivery /\ row.count = 0 /\ row.cycle = 0 /\ row.later = FALSE
      BY <2>1, NewRows
    <2>3. new = row \/ (Due(row) /\ new = Queue(row))
      BY <1>4
    <2> HIDE DEF row
    <2>4. RowSound(row)
      BY <2>2, BudgetIsPositive DEF RowSound
    <2> QED
      BY <2>2, <2>3, <2>4, QueueSound
  <1> QED
    BY <1>1, <1>2, <1>3, <1>4 DEF RecoverStep

-----------------------------------------------------------------------------
(* What a step may do to the deliveries: one of them takes a step, or a    *)
(* recovery prepares events and queues deliveries.                         *)
OneRowSteps(d, row) ==
    /\ delivery' = [delivery EXCEPT ![d] = row] /\ RowStep(delivery[d], row)
    /\ UNCHANGED outbox

Publishes ==
    \E e \in Event : /\ outbox[e] = "ABSENT" /\ UNCHANGED delivery
                     /\ outbox' = [outbox EXCEPT ![e] = "PENDING"]

RowsRecover ==
    \E events \in SUBSET Event :
        /\ \A e \in events : outbox[e] = "PENDING"
        /\ outbox' = [e \in Event |-> IF e \in events THEN "PROCESSED" ELSE outbox[e]]
        /\ delivery' = [d \in DeliveryId |-> delivery'[d]]
        /\ \A d \in DeliveryId :
              RecoverStep(delivery[d], delivery'[d], d[1] \in events)

LEMMA DeliveryParts == \A d \in DeliveryId : d[1] \in Event /\ d[2] \in Recipient
  BY DEF DeliveryId

LEMMA RecoversRows ==
    ASSUME NEW events \in SUBSET Event, NEW accounts \in [events -> SUBSET Account],
           NEW picked \in SUBSET DeliveryId, Recover(events, accounts, picked)
    PROVE  RowsRecover
  <1>1. /\ \A e \in events : outbox[e] = "PENDING"
        /\ outbox' = [e \in Event |-> IF e \in events THEN "PROCESSED" ELSE outbox[e]]
        /\ delivery' = [d \in DeliveryId |->
                IF d \in picked THEN Queue(Prepared(events, accounts)[d])
                                ELSE Prepared(events, accounts)[d]]
        /\ \A d \in picked : Due(Prepared(events, accounts)[d])
    BY DEF Recover, Pending
  <1>2. ASSUME NEW d \in DeliveryId
        PROVE  RecoverStep(delivery[d], delivery'[d], d[1] \in events)
    <2> DEFINE prepared == Prepared(events, accounts)[d]
    <2>1. \/ d \notin picked /\ delivery'[d] = prepared
          \/ Due(prepared) /\ delivery'[d] = Queue(prepared)
      BY <1>1
    <2>2. \/ prepared = delivery[d]
          \/ /\ d[1] \in events
             /\ prepared = [NewDelivery EXCEPT !.status = PreparedStatus(accounts[d[1]])]
      BY DEF Prepared
    <2>3. PreparedStatus(accounts[d[1]]) \in {"PERMANENT_FAILURE", "SKIPPED", "PENDING"}
      BY DEF PreparedStatus
    <2> HIDE DEF prepared
    <2> QED
      BY <2>1, <2>2, <2>3 DEF RecoverStep
  <1> QED
    BY <1>1, <1>2 DEF RowsRecover

LEMMA ReceivesRow ==
    ASSUME TypeOK, NEW w \in Worker, NEW d \in DeliveryId, Receive(w, d)
    PROVE  \E row : OneRowSteps(d, row)
  <1>1. delivery \in [DeliveryId -> Delivery] /\ UNCHANGED outbox
    BY DEF TypeOK, Receive, ClaimDelivery, ClaimDisabled, ClaimRejected, Deliver
  <1>2. CASE ClaimDelivery(w, d)
    <2>1. /\ delivery' = [delivery EXCEPT ![d] = Claim(delivery[d], NewAttempt)]
          /\ CanClaim(delivery[d]) /\ NewAttempt \in AttemptId
      BY <1>2, NewAttemptIsNew DEF ClaimDelivery, SetDelivery
    <2> QED
      BY <1>1, <2>1 DEF OneRowSteps, RowStep
  <1>3. CASE ClaimDisabled(w, d)
    BY <1>1, <1>3 DEF ClaimDisabled, SetDelivery, OneRowSteps, RowStep
  <1>4. CASE ClaimRejected(w, d)
    <2>1. delivery' = [delivery EXCEPT ![d] = delivery[d]]
      BY <1>1, <1>4 DEF ClaimRejected
    <2> QED
      BY <1>1, <2>1 DEF OneRowSteps, RowStep
  <1> QED
    BY <1>2, <1>3, <1>4 DEF Receive

LEMMA RecordsRow ==
    ASSUME TypeOK, NEW w \in Worker, RecordSuccess(w) \/ RecordFailure(w)
    PROVE  \E d \in DeliveryId : \E row : OneRowSteps(d, row)
  <1> DEFINE f == task[w]
  <1>1. /\ f \in Task /\ f.pc = "record" /\ UNCHANGED outbox
        /\ delivery \in [DeliveryId -> Delivery]
    BY DEF TypeOK, RecordSuccess, RecordFailure
  <1>2. f.delivery \in DeliveryId /\ f.max \in Budget /\ f.result \in Result
    BY <1>1, TaskKinds
  <1>3. PICK row : /\ delivery' = [delivery EXCEPT ![f.delivery] = row]
                   /\ \/ row = delivery[f.delivery]
                      \/ /\ AttemptIsActive(delivery[f.delivery], f.attempt)
                         /\ \/ row = Succeed(delivery[f.delivery])
                            \/ row = Fail(delivery[f.delivery], f.result, f.max)
    BY DEF RecordSuccess, RecordFailure, SetDelivery
  <1>4. RowStep(delivery[f.delivery], row)
    BY <1>2, <1>3 DEF RowStep, AttemptIsActive
  <1> HIDE DEF f
  <1> QED
    BY <1>1, <1>2, <1>3, <1>4 DEF OneRowSteps

LEMMA DeliveriesMove ==
    ASSUME TypeOK, [Next]_vars
    PROVE  \/ UNCHANGED <<outbox, delivery>> \/ Publishes \/ RowsRecover
           \/ \E d \in DeliveryId : \E row : OneRowSteps(d, row)
  <1>1. ASSUME NEW e \in Event, Publish(e) PROVE Publishes
    BY <1>1 DEF Publish, Publishes
  <1>2. ASSUME RecoverSome PROVE RowsRecover
    <2>1. PICK events \in SUBSET Event : \E accounts \in [events -> SUBSET Account] :
              \E picked \in SUBSET DeliveryId : Recover(events, accounts, picked)
      BY <1>2 DEF RecoverSome
    <2> QED
      BY <2>1, RecoversRows
  <1>3. ASSUME NEW d \in DeliveryId, RetryDelivery(d) \/ RetryFallsDue(d) \/ GoesStale(d)
        PROVE  \E row : OneRowSteps(d, row)
    BY <1>3 DEF RetryDelivery, RetryFallsDue, GoesStale, SetDelivery, OneRowSteps, RowStep
  <1>4. ASSUME NEW d \in DeliveryId, Enqueue(d) \/ EnqueueFails(d) \/ LoseMessage(d)
        PROVE  UNCHANGED <<outbox, delivery>>
    BY <1>4 DEF Enqueue, EnqueueFails, LoseMessage
  <1>5. ASSUME NEW w \in Worker, Send(w) \/ Crash(w)
        PROVE  UNCHANGED <<outbox, delivery>>
    BY <1>5 DEF Send, Crash
  <1>6. CASE \E saved \in Configuration : SaveConfiguration(saved)
    BY <1>6 DEF SaveConfiguration
  <1>7. CASE UNCHANGED vars
    BY <1>7 DEF vars
  <1> QED
    BY <1>1, <1>2, <1>3, <1>4, <1>5, <1>6, <1>7, ReceivesRow, RecordsRow
       DEF Next, DeliveryStep

(* The rows stay sound; what is settled changes only into a new cycle; and *)
(* what was never prepared stays absent.                                   *)
LEMMA DeliveriesStay ==
    ASSUME DeliveriesInv, [Next]_vars
    PROVE  /\ outbox' \in [Event -> {"ABSENT", "PENDING", "PROCESSED"}]
           /\ delivery' \in [DeliveryId -> Delivery]
           /\ NotPreparedYet'
           /\ \A d \in DeliveryId :
                 RowSound(delivery'[d]) /\ Final(delivery[d], delivery'[d])
  <1>1. /\ TypeOK /\ outbox \in [Event -> {"ABSENT", "PENDING", "PROCESSED"}]
        /\ delivery \in [DeliveryId -> Delivery]
        /\ \A d \in DeliveryId : RowSound(delivery[d]) /\ d[1] \in Event
        /\ NotPreparedYet /\ NoDelivery.status = "ABSENT"
    BY DeliveryParts DEF DeliveriesInv, TypeOK, NoDelivery, NewDelivery
  <1>2. CASE UNCHANGED <<outbox, delivery>>
    BY <1>1, <1>2 DEF NotPreparedYet, Final
  <1>3. CASE Publishes
    <2>1. PICK e \in Event : /\ outbox[e] = "ABSENT" /\ UNCHANGED delivery
                             /\ outbox' = [outbox EXCEPT ![e] = "PENDING"]
      BY <1>3 DEF Publishes
    <2> QED
      BY <1>1, <2>1 DEF NotPreparedYet, Final
  <1>4. CASE RowsRecover
    <2>1. PICK events \in SUBSET Event :
            /\ \A e \in events : outbox[e] = "PENDING"
            /\ outbox' = [e \in Event |-> IF e \in events THEN "PROCESSED"
                                                          ELSE outbox[e]]
            /\ delivery' = [d \in DeliveryId |-> delivery'[d]]
            /\ \A d \in DeliveryId :
                  RecoverStep(delivery[d], delivery'[d], d[1] \in events)
      BY <1>4 DEF RowsRecover
    <2>2. ASSUME NEW d \in DeliveryId
          PROVE  /\ delivery'[d] \in Delivery /\ RowSound(delivery'[d])
                 /\ Final(delivery[d], delivery'[d])
                 /\ outbox'[d[1]] # "PROCESSED" => delivery'[d] = NoDelivery
      <3> DEFINE pending == d[1] \in events
      <3>1. pending => delivery[d] = NoDelivery
        BY <1>1, <2>1 DEF NotPreparedYet
      <3>2. delivery[d] \in Delivery /\ RowSound(delivery[d]) /\ pending \in BOOLEAN
        BY <1>1
      <3>3. RecoverStep(delivery[d], delivery'[d], pending)
        BY <2>1
      <3>4. /\ delivery'[d] \in Delivery /\ RowSound(delivery'[d])
            /\ delivery[d].status \in Settled => delivery'[d] = delivery[d]
            /\ delivery[d].status = "ABSENT" /\ ~pending => delivery'[d] = delivery[d]
        <4> HIDE DEF pending
        <4> QED
          BY <3>1, <3>2, <3>3, RecoverStepSound
      <3>5. outbox'[d[1]] # "PROCESSED" => ~pending /\ outbox[d[1]] # "PROCESSED"
        BY <1>1, <2>1
      <3> QED
        BY <1>1, <3>4, <3>5 DEF Final, NotPreparedYet
    <2> QED
      BY <1>1, <2>1, <2>2 DEF NotPreparedYet
  <1>5. ASSUME NEW c \in DeliveryId, NEW row, OneRowSteps(c, row)
        PROVE  /\ outbox' \in [Event -> {"ABSENT", "PENDING", "PROCESSED"}]
               /\ delivery' \in [DeliveryId -> Delivery]
               /\ NotPreparedYet'
               /\ \A d \in DeliveryId :
                     RowSound(delivery'[d]) /\ Final(delivery[d], delivery'[d])
    <2>1. /\ row \in Delivery /\ RowSound(row) /\ Final(delivery[c], row)
          /\ delivery[c].status = "ABSENT" => row = delivery[c]
      BY <1>1, <1>5, RowStepSound DEF OneRowSteps
    <2>2. /\ UNCHANGED outbox /\ delivery' \in [DeliveryId -> Delivery]
          /\ \A d \in DeliveryId : delivery'[d] = IF d = c THEN row ELSE delivery[d]
      BY <1>1, <1>5, <2>1 DEF OneRowSteps
    <2>3. \A d \in DeliveryId : d # c => Final(delivery[d], delivery'[d])
      BY <2>2 DEF Final
    <2> QED
      BY <1>1, <2>1, <2>2, <2>3 DEF NotPreparedYet
  <1> QED
    BY <1>1, <1>2, <1>3, <1>4, <1>5, DeliveriesMove

LEMMA SecondOfPair == \A a, b : <<a, b>>[2] = b
  OBVIOUS

(* What a step may do to the workers: one of them goes on with a frame.    *)
TaskMoves == \E w \in Worker, f \in Task : SetTask(w, f)

LEMMA TasksMove ==
    ASSUME TypeOK, [Next]_vars
    PROVE  UNCHANGED task \/ TaskMoves
  <1>1. ASSUME NEW w \in Worker, NEW d \in DeliveryId, Receive(w, d)
        PROVE  UNCHANGED task \/ TaskMoves
    <2>1. configuration.max \in Budget
      BY DEF TypeOK, Configuration
    <2> QED
      BY <1>1, <2>1, Tasks, NewAttemptIsNew
         DEF Receive, ClaimDelivery, ClaimDisabled, ClaimRejected, TaskMoves
  <1>2. ASSUME NEW w \in Worker, DeliveryStep(w) \/ Crash(w) PROVE TaskMoves
    <2>1. task[w] \in Task
      BY DEF TypeOK
    <2>2. CASE Send(w)
      <3>1. /\ task[w].delivery \in DeliveryId /\ task[w].attempt \in AttemptId
            /\ task[w].max \in Budget
        BY <2>1, <2>2, TaskKinds DEF Send
      <3>2. \A answer \in Answers : answer[2] \in Result
        BY SecondOfPair DEF Answers, Result
      <3>3. PICK result \in Result :
                SetTask(w, [pc |-> "record", delivery |-> task[w].delivery,
                            attempt |-> task[w].attempt, max |-> task[w].max,
                            result |-> result])
        BY <2>2, <3>2 DEF Send
      <3> QED
        BY <3>1, <3>3, Tasks DEF TaskMoves
    <2>3. CASE RecordSuccess(w) \/ RecordFailure(w) \/ Crash(w)
      BY <2>3, Tasks DEF RecordSuccess, RecordFailure, Crash, TaskMoves
    <2> QED
      BY <1>2, <2>2, <2>3 DEF DeliveryStep
  <1>3. ASSUME NEW d \in DeliveryId,
               \/ RetryDelivery(d) \/ Enqueue(d) \/ EnqueueFails(d)
               \/ LoseMessage(d) \/ RetryFallsDue(d) \/ GoesStale(d)
        PROVE  UNCHANGED task
    BY <1>3 DEF RetryDelivery, Enqueue, EnqueueFails, LoseMessage, RetryFallsDue,
       GoesStale
  <1>4. CASE RecoverSome
    BY <1>4 DEF RecoverSome, Recover
  <1>5. CASE \/ \E e \in Event : Publish(e)
             \/ \E saved \in Configuration : SaveConfiguration(saved)
    BY <1>5 DEF Publish, SaveConfiguration
  <1>6. CASE UNCHANGED vars
    BY <1>6 DEF vars
  <1> QED
    BY <1>1, <1>2, <1>3, <1>4, <1>5, <1>6 DEF Next

(* The other variables keep their types, and faults are not forgotten.     *)
LEMMA OthersKeepTypes ==
    ASSUME TypeOK, [Next]_vars
    PROVE  /\ configuration' \in Configuration
           /\ enqueueing' \subseteq DeliveryId /\ messages' \subseteq DeliveryId
           /\ accepted' \in [DeliveryId -> Nat]
           /\ retries' \in 0 .. MaxRetries /\ faults' \in 0 .. MaxFaults
           /\ faults <= faults'
  <1>1. /\ configuration \in Configuration
        /\ enqueueing \subseteq DeliveryId /\ messages \subseteq DeliveryId
        /\ accepted \in [DeliveryId -> Nat] /\ task \in [Worker -> Task]
        /\ retries \in 0 .. MaxRetries /\ faults \in 0 .. MaxFaults
    BY DEF TypeOK
  <1>2. ASSUME NEW w \in Worker, NEW d \in DeliveryId, Receive(w, d)
        PROVE  /\ messages' \subseteq DeliveryId
               /\ UNCHANGED <<configuration, enqueueing, accepted, retries, faults>>
    BY <1>1, <1>2 DEF Receive, ClaimDelivery, ClaimDisabled, ClaimRejected, Deliver
  <1>3. ASSUME NEW w \in Worker, Send(w)
        PROVE  /\ accepted' \in [DeliveryId -> Nat]
               /\ UNCHANGED <<configuration, enqueueing, messages, retries, faults>>
    BY <1>1, <1>3, TaskKinds DEF Send
  <1>4. ASSUME NEW w \in Worker, RecordSuccess(w) \/ RecordFailure(w)
        PROVE  UNCHANGED <<configuration, enqueueing, messages, accepted, retries,
                           faults>>
    BY <1>4 DEF RecordSuccess, RecordFailure
  <1>5. ASSUME NEW w \in Worker, Crash(w)
        PROVE  /\ faults' \in 0 .. MaxFaults /\ faults <= faults'
               /\ UNCHANGED <<configuration, enqueueing, messages, accepted, retries>>
    BY <1>1, <1>5 DEF Crash
  <1>6. ASSUME NEW d \in DeliveryId, RetryDelivery(d)
        PROVE  /\ retries' \in 0 .. MaxRetries
               /\ UNCHANGED <<configuration, enqueueing, messages, accepted, faults>>
    BY <1>1, <1>6 DEF RetryDelivery
  <1>7. ASSUME NEW d \in DeliveryId, Enqueue(d)
        PROVE  /\ enqueueing' \subseteq DeliveryId /\ messages' \subseteq DeliveryId
               /\ UNCHANGED <<configuration, accepted, retries, faults>>
    BY <1>1, <1>7 DEF Enqueue
  <1>8. ASSUME NEW d \in DeliveryId, EnqueueFails(d) \/ LoseMessage(d)
        PROVE  /\ enqueueing' \subseteq DeliveryId /\ messages' \subseteq DeliveryId
               /\ faults' \in 0 .. MaxFaults /\ faults <= faults'
               /\ UNCHANGED <<configuration, accepted, retries>>
    BY <1>1, <1>8 DEF EnqueueFails, LoseMessage
  <1>9. ASSUME NEW d \in DeliveryId, RetryFallsDue(d)
        PROVE  UNCHANGED <<configuration, enqueueing, messages, accepted, retries,
                           faults>>
    BY <1>9 DEF RetryFallsDue
  <1>10. ASSUME NEW d \in DeliveryId, GoesStale(d)
         PROVE  /\ faults' \in 0 .. MaxFaults /\ faults <= faults'
                /\ UNCHANGED <<configuration, enqueueing, messages, accepted, retries>>
    BY <1>1, <1>10 DEF GoesStale
  <1>11. ASSUME RecoverSome
         PROVE  /\ enqueueing' \subseteq DeliveryId
                /\ UNCHANGED <<configuration, messages, accepted, retries, faults>>
    BY <1>1, <1>11 DEF RecoverSome, Recover
  <1>12. ASSUME \/ \E e \in Event : Publish(e)
                \/ \E saved \in Configuration : SaveConfiguration(saved)
         PROVE  /\ configuration' \in Configuration
                /\ UNCHANGED <<enqueueing, messages, accepted, retries, faults>>
    BY <1>1, <1>12 DEF Publish, SaveConfiguration
  <1>13. CASE UNCHANGED vars
    BY <1>1, <1>13 DEF vars
  <1> QED
    BY <1>1, <1>2, <1>3, <1>4, <1>5, <1>6, <1>7, <1>8, <1>9, <1>10, <1>11, <1>12,
       <1>13 DEF Next, DeliveryStep

LEMMA DeliveriesKept == DeliveriesInv /\ [Next]_vars => DeliveriesInv'
  <1> SUFFICES ASSUME DeliveriesInv, [Next]_vars PROVE DeliveriesInv'
    OBVIOUS
  <1>1. TypeOK
    BY DEF DeliveriesInv
  <1>2. task' \in [Worker -> Task]
    BY <1>1, TasksMove DEF TypeOK, TaskMoves, SetTask
  <1>3. TypeOK'
    BY <1>1, <1>2, DeliveriesStay, OthersKeepTypes DEF TypeOK
  <1> QED
    BY <1>3, DeliveriesStay DEF DeliveriesInv

LEMMA DeliveriesInit == Init => DeliveriesInv
  <1> SUFFICES ASSUME Init PROVE DeliveriesInv
    OBVIOUS
  <1>1. /\ NoDelivery \in Delivery /\ NoDelivery.count = 0 /\ NoDelivery.cycle = 0
        /\ NoDelivery.later = FALSE
    BY NewRows DEF NoDelivery, Status
  <1>2. \A d \in DeliveryId : delivery[d] = NoDelivery
    BY DEF Init
  <1>3. TypeOK
    BY <1>1, Tasks DEF Init, TypeOK
  <1>4. \A d \in DeliveryId : RowSound(delivery[d])
    BY <1>1, <1>2, BudgetIsPositive DEF RowSound
  <1> QED
    BY <1>2, <1>3, <1>4 DEF DeliveriesInv, NotPreparedYet

LEMMA DeliveriesInvariance == Spec => []DeliveriesInv
  BY DeliveriesInit, DeliveriesKept, PTL DEF Spec

(* The attempts of a cycle stay within the largest number configured, and  *)
(* leave room for one more while the delivery is not settled               *)
(* (NotificationDelivery.record_failure).                                  *)
THEOREM AttemptsStayWithinBudget == Spec => []CycleWithinBudget
  <1>1. DeliveriesInv => CycleWithinBudget
    BY DEF DeliveriesInv, RowSound, CycleWithinBudget
  <1> QED
    BY DeliveriesInvariance, <1>1, PTL

(* A delivery that was made or skipped stays so, and one that failed for   *)
(* good leaves that state only for a new cycle (retry_delivery).           *)
THEOREM SettledStays == Spec => SettledIsFinal
  <1>1. DeliveriesInv /\ [Next]_vars =>
            [\A d \in DeliveryId :
                delivery[d].status \in Settled /\ delivery'[d] # delivery[d] =>
                    /\ delivery[d].status = "PERMANENT_FAILURE"
                    /\ delivery'[d].status = "PENDING" /\ delivery'[d].cycle = 0
                    /\ delivery'[d].count = delivery[d].count]_vars
    BY DeliveriesStay DEF Final
  <1> QED
    BY DeliveriesInvariance, <1>1, PTL DEF Spec, SettledIsFinal

(* The late result of an attempt that was given up changes no delivery     *)
(* (record_success, record_failure).                                       *)
THEOREM LateResultsAreHarmless == Spec => StaleAttemptHarmless
  <1> DEFINE Harmless(w) ==
          /\ task[w].pc = "record" /\ task'[w] # task[w]
          /\ delivery[task[w].delivery].active # task[w].attempt
          => delivery' = delivery
  <1>1. ASSUME TypeOK, [Next]_vars, NEW w \in Worker PROVE Harmless(w)
    <2>1. /\ task \in [Worker -> Task] /\ delivery \in [DeliveryId -> Delivery]
      BY <1>1 DEF TypeOK
    <2> SUFFICES ASSUME task[w].pc = "record", task'[w] # task[w],
                        delivery[task[w].delivery].active # task[w].attempt
                 PROVE  delivery' = delivery
      OBVIOUS
    <2>2. task[w].delivery \in DeliveryId
      BY <2>1, TaskKinds
    <2>3. ASSUME NEW v \in Worker, RecordSuccess(v) \/ RecordFailure(v)
          PROVE  delivery' = delivery
      <3>1. v = w
        BY <2>1, <2>3 DEF RecordSuccess, RecordFailure, SetTask
      <3>2. delivery' = [delivery EXCEPT ![task[w].delivery] = delivery[task[w].delivery]]
        BY <2>3, <3>1 DEF RecordSuccess, RecordFailure, SetDelivery, AttemptIsActive
      <3> QED
        BY <2>1, <2>2, <3>2
    <2>4. ASSUME NEW v \in Worker, NEW d \in DeliveryId, Receive(v, d)
          PROVE  FALSE
      <3>1. task[v].pc = "idle"
        BY <2>4 DEF Receive, ClaimDelivery, ClaimDisabled, ClaimRejected, Deliver
      <3>2. task'[w] = task[w]
        BY <2>1, <2>4, <3>1 DEF Receive, ClaimDelivery, ClaimDisabled, ClaimRejected,
           SetTask
      <3> QED
        BY <3>2
    <2>5. ASSUME NEW v \in Worker, Send(v) \/ Crash(v)
          PROVE  delivery' = delivery
      BY <2>5 DEF Send, Crash
    <2>6. ASSUME NEW d \in DeliveryId,
                 \/ RetryDelivery(d) \/ Enqueue(d) \/ EnqueueFails(d)
                 \/ LoseMessage(d) \/ RetryFallsDue(d) \/ GoesStale(d)
          PROVE  FALSE
      BY <2>6 DEF RetryDelivery, Enqueue, EnqueueFails, LoseMessage, RetryFallsDue,
         GoesStale
    <2>7. ~RecoverSome
      BY DEF RecoverSome, Recover
    <2>8. CASE \/ \E e \in Event : Publish(e)
               \/ \E saved \in Configuration : SaveConfiguration(saved)
      BY <2>8 DEF Publish, SaveConfiguration
    <2> QED
      BY <1>1, <2>3, <2>4, <2>5, <2>6, <2>7, <2>8 DEF Next, DeliveryStep, vars
  <1>2. DeliveriesInv /\ [Next]_vars => [\A w \in Worker : Harmless(w)]_vars
    BY <1>1 DEF DeliveriesInv
  <1> QED
    BY DeliveriesInvariance, <1>2, PTL DEF Spec, StaleAttemptHarmless

-----------------------------------------------------------------------------
(* What the provider accepts.                                              *)

LEMMA WorkersAreFinite ==
    ASSUME NEW S \in SUBSET Worker
    PROVE  IsFiniteSet(S) /\ Cardinality(S) \in Nat
  BY WorkerAssumption, FS_Subset, FS_CardinalityType

LEMMA WorkersOf ==
    \A d : /\ Recording(d) \in SUBSET Worker /\ GivenUp(d) \in SUBSET Worker
           /\ Recording(d)' \in SUBSET Worker /\ GivenUp(d)' \in SUBSET Worker
  BY DEF Recording, GivenUp

(* A step under which no attempt is given up that was not, and no result   *)
(* is put on record.                                                       *)
LEMMA QuietCount ==
    ASSUME TypeOK, TypeOK', NEW d \in DeliveryId, CountedAt(d),
           accepted'[d] = accepted[d], faults <= faults',
           delivery[d].count <= delivery'[d].count,
           GivenUp(d)' \subseteq GivenUp(d), Recording(d) \subseteq Recording(d)'
    PROVE  CountedAt(d)'
  <1>1. /\ accepted[d] \in Nat /\ faults \in Nat /\ faults' \in Nat
        /\ delivery[d].count \in Nat /\ delivery'[d].count \in Nat
    BY DEF TypeOK, Delivery
  <1>2. /\ Cardinality(GivenUp(d)') <= Cardinality(GivenUp(d))
        /\ Cardinality(Recording(d)) <= Cardinality(Recording(d)')
        /\ Cardinality(GivenUp(d)) \in Nat /\ Cardinality(GivenUp(d)') \in Nat
        /\ Cardinality(Recording(d)) \in Nat /\ Cardinality(Recording(d)') \in Nat
    BY WorkersOf, WorkersAreFinite, FS_Subset
  <1>3. accepted'[d] + Cardinality(GivenUp(d)')
            <= delivery'[d].count + faults' + Cardinality(Recording(d)')
    BY <1>1, <1>2 DEF CountedAt
  <1> QED
    BY <1>3 DEF CountedAt

(* A row after which the attempts that were current still are.             *)
KeepsCurrent(old, new) ==
    /\ old.count <= new.count
    /\ \A attempt \in AttemptId : Current(old, attempt) => Current(new, attempt)

LEMMA KeepsCurrentRows ==
    ASSUME NEW old \in Delivery, RowSound(old), NEW new
    PROVE  /\ new = old => KeepsCurrent(old, new)
           /\ CanClaim(old) /\ new = Skip(old) => KeepsCurrent(old, new)
           /\ old.status = "PERMANENT_FAILURE" /\ new = ManualRetry(old)
                  => KeepsCurrent(old, new)
           /\ old.later /\ new = [old EXCEPT !.later = FALSE] => KeepsCurrent(old, new)
           /\ Due(old) /\ new = Queue(old) => KeepsCurrent(old, new)
           /\ new = [old EXCEPT !.stale = TRUE]
                  /\ (\A attempt \in AttemptId : ~Current(old, attempt))
                  => KeepsCurrent(old, new)
           /\ \A attempt \in AttemptId :
                  CanClaim(old) /\ new = Claim(old, attempt) => KeepsCurrent(old, new)
  <1>1. old.count \in Nat /\ (old.later => old.status = "RETRY_SCHEDULED")
    BY DEF Delivery, RowSound
  <1>0. /\ Skip(old).count = old.count /\ ManualRetry(old).count = old.count
        /\ Queue(old).count = old.count
        /\ \A attempt \in AttemptId : Claim(old, attempt).count = old.count
    BY ResetRows
  <1>2. CASE new = old
    BY <1>1, <1>2 DEF KeepsCurrent
  <1>3. ASSUME old.status # "DELIVERING" \/ old.stale, new.count = old.count
        PROVE  KeepsCurrent(old, new)
    BY <1>1, <1>3 DEF KeepsCurrent, Current, AttemptIsActive
  <1>4. CanClaim(old) => old.status # "DELIVERING"
    BY DEF CanClaim
  <1>5. Due(old) => old.status # "DELIVERING" \/ old.stale
    BY DEF Due
  <1>6. CanClaim(old) /\ new = Skip(old) => KeepsCurrent(old, new)
    BY <1>0, <1>3, <1>4
  <1>7. old.status = "PERMANENT_FAILURE" /\ new = ManualRetry(old)
            => KeepsCurrent(old, new)
    BY <1>0, <1>3
  <1>8. old.later /\ new = [old EXCEPT !.later = FALSE] => KeepsCurrent(old, new)
    BY <1>1, <1>3, TimePasses
  <1>9. Due(old) /\ new = Queue(old) => KeepsCurrent(old, new)
    BY <1>0, <1>3, <1>5
  <1>10. /\ new = [old EXCEPT !.stale = TRUE]
         /\ \A attempt \in AttemptId : ~Current(old, attempt)
         => KeepsCurrent(old, new)
    <2> SUFFICES ASSUME new = [old EXCEPT !.stale = TRUE],
                        \A attempt \in AttemptId : ~Current(old, attempt)
                 PROVE  KeepsCurrent(old, new)
      OBVIOUS
    <2>1. new.count = old.count
      BY TimePasses
    <2> QED
      BY <1>1, <2>1 DEF KeepsCurrent
  <1>11. \A attempt \in AttemptId :
             CanClaim(old) /\ new = Claim(old, attempt) => KeepsCurrent(old, new)
    BY <1>0, <1>3, <1>4
  <1> QED
    BY <1>2, <1>6, <1>7, <1>8, <1>9, <1>10, <1>11

LEMMA KeepsCurrentRecovered ==
    ASSUME NEW old \in Delivery, RowSound(old), NEW new \in Delivery,
           NEW pending \in BOOLEAN,
           RecoverStep(old, new, pending), pending => old = NoDelivery
    PROVE  KeepsCurrent(old, new)
  <1>1. CASE ~pending
    BY <1>1, KeepsCurrentRows DEF RecoverStep
  <1>2. CASE pending
    <2>1. old.count = 0 /\ old.status = "ABSENT"
      BY <1>2, NewRows DEF NoDelivery, Status
    <2>2. new.count \in Nat
      BY DEF Delivery
    <2> QED
      BY <2>1, <2>2 DEF KeepsCurrent, Current, AttemptIsActive
  <1> QED
    BY <1>1, <1>2

(* No worker moves, and every row keeps what is current.                   *)
LEMMA QuietRows ==
    ASSUME TypeOK, TypeOK', AttemptsInv, UNCHANGED <<task, accepted>>,
           faults <= faults',
           \A d \in DeliveryId : KeepsCurrent(delivery[d], delivery'[d])
    PROVE  AttemptsInv'
  <1>1. ASSUME NEW d \in DeliveryId PROVE CountedAt(d)'
    <2>1. Recording(d)' = Recording(d)
      BY DEF Recording
    <2>2. \A w \in Worker : task[w].pc # "idle" => task[w].attempt \in AttemptId
      BY TaskKinds DEF TypeOK
    <2>3. GivenUp(d)' \subseteq GivenUp(d)
      BY <2>2 DEF GivenUp, KeepsCurrent, Current, AttemptIsActive
    <2>4. delivery[d].count <= delivery'[d].count
      BY DEF KeepsCurrent
    <2> QED
      BY <2>1, <2>3, <2>4, QuietCount DEF AttemptsInv
  <1>2. OneAttemptEach'
    BY DEF AttemptsInv, OneAttemptEach
  <1> QED
    BY <1>1, <1>2 DEF AttemptsInv

(* No worker moves, and one row takes a step that keeps what is current.   *)
LEMMA QuietRow ==
    ASSUME DeliveriesInv, TypeOK', AttemptsInv, UNCHANGED <<task, accepted>>,
           faults <= faults', NEW c \in DeliveryId, NEW row,
           delivery' = [delivery EXCEPT ![c] = row], KeepsCurrent(delivery[c], row)
    PROVE  AttemptsInv'
  <1>1. TypeOK /\ \A d \in DeliveryId : delivery[d] \in Delivery /\ RowSound(delivery[d])
    BY DEF DeliveriesInv, TypeOK
  <1>2. ASSUME NEW d \in DeliveryId PROVE KeepsCurrent(delivery[d], delivery'[d])
    <2>1. delivery'[d] = IF d = c THEN row ELSE delivery[d]
      BY <1>1 DEF TypeOK
    <2> QED
      BY <1>1, <2>1, KeepsCurrentRows
  <1> QED
    BY <1>1, <1>2, QuietRows

-----------------------------------------------------------------------------
(* One worker goes on with a frame: what it holds, nobody else does.       *)
LEMMA OneAttemptStays ==
    ASSUME TypeOK, OneAttemptEach, NEW w \in Worker, NEW f, SetTask(w, f),
           \/ f.pc = "idle"
           \/ task[w].pc # "idle" /\ f.attempt = task[w].attempt
           \/ f.attempt \notin InUse
    PROVE  OneAttemptEach'
  <1>1. \A v \in Worker : task'[v] = IF v = w THEN f ELSE task[v]
    BY DEF TypeOK, SetTask
  <1>2. \A v \in Worker : task[v].pc # "idle" => task[v].attempt \in InUse
    BY DEF InUse
  <1> QED
    BY <1>1, <1>2 DEF OneAttemptEach

(* The deliveries that the worker is not at.                               *)
LEMMA Elsewhere ==
    ASSUME TypeOK, TypeOK', NEW d \in DeliveryId, CountedAt(d),
           NEW w \in Worker, NEW f, SetTask(w, f),
           task[w].pc # "idle" => task[w].delivery # d,
           f.pc # "idle" => f.delivery # d,
           accepted'[d] = accepted[d], faults <= faults', delivery'[d] = delivery[d]
    PROVE  CountedAt(d)'
  <1>1. \A v \in Worker : task'[v] = IF v = w THEN f ELSE task[v]
    BY DEF TypeOK, SetTask
  <1>2. GivenUp(d)' \subseteq GivenUp(d)
    BY <1>1 DEF GivenUp, Current, AttemptIsActive
  <1>3. Recording(d) \subseteq Recording(d)'
    BY <1>1 DEF Recording
  <1>4. delivery[d].count <= delivery'[d].count
    BY DEF TypeOK, Delivery
  <1> QED
    BY <1>2, <1>3, <1>4, QuietCount

(* The row goes stale: under a worker, a fault pays for its attempt.       *)
LEMMA CountsStale ==
    ASSUME DeliveriesInv, TypeOK', AttemptsInv, NEW c \in DeliveryId, GoesStale(c)
    PROVE  AttemptsInv'
  <1>1. /\ TypeOK /\ delivery[c] \in Delivery /\ RowSound(delivery[c])
        /\ faults \in Nat /\ task \in [Worker -> Task]
        /\ delivery \in [DeliveryId -> Delivery]
    BY DEF DeliveriesInv, TypeOK
  <1> DEFINE row == [delivery[c] EXCEPT !.stale = TRUE]
  <1>2. UNCHANGED <<task, accepted>> /\ delivery' = [delivery EXCEPT ![c] = row]
    BY DEF GoesStale, SetDelivery
  <1>3. CASE ~UnderWay(c)
    <2>1. \A w \in Worker : task[w].pc # "idle" =>
              ~Current(delivery[c], task[w].attempt)
      BY <1>3 DEF UnderWay, Current, AttemptIsActive
    <2>2. row.count = delivery[c].count
      BY <1>1, TimePasses
    <2>3. \A d \in DeliveryId : delivery'[d] = IF d = c THEN row ELSE delivery[d]
      BY <1>1, <1>2
    <2>4. ASSUME NEW d \in DeliveryId PROVE CountedAt(d)'
      <3>1. GivenUp(d)' \subseteq GivenUp(d) /\ Recording(d)' = Recording(d)
        BY <1>2, <2>1, <2>3 DEF GivenUp, Recording
      <3>2. /\ delivery[d].count = delivery'[d].count /\ faults' = faults
            /\ delivery[d].count \in Nat
        BY <1>1, <1>3, <2>2, <2>3 DEF GoesStale, Delivery
      <3>3. CountedAt(d)
        BY DEF AttemptsInv
      <3> QED
        BY <1>1, <1>2, <3>1, <3>2, <3>3, QuietCount
    <2> QED
      BY <1>2, <2>4 DEF AttemptsInv, OneAttemptEach
  <1>4. CASE UnderWay(c)
    <2>1. PICK w \in Worker : task[w].pc # "idle"
                                  /\ task[w].attempt = delivery[c].active
      BY <1>4 DEF UnderWay
    <2>2. faults' = faults + 1
      BY <1>4 DEF GoesStale
    <2>3. /\ row.count = delivery[c].count
          /\ \A d \in DeliveryId : delivery'[d] = IF d = c THEN row ELSE delivery[d]
      BY <1>1, <1>2, TimePasses
    <2>4. \A v \in Worker : task[v].pc # "idle" =>
              (Current(delivery[c], task[v].attempt) => v = w)
      BY <2>1 DEF AttemptsInv, OneAttemptEach, Current, AttemptIsActive
    <2>5. ASSUME NEW d \in DeliveryId PROVE CountedAt(d)'
      <3>1. GivenUp(d)' \subseteq GivenUp(d) \cup {w} /\ Recording(d)' = Recording(d)
        BY <1>2, <2>3, <2>4 DEF GivenUp, Recording
      <3>2. /\ delivery'[d].count = delivery[d].count /\ delivery[d].count \in Nat
            /\ accepted'[d] = accepted[d] /\ accepted[d] \in Nat
        BY <1>1, <1>2, <2>3 DEF TypeOK, Delivery
      <3>3. /\ Cardinality(GivenUp(d)') <= Cardinality(GivenUp(d)) + 1
            /\ Cardinality(GivenUp(d)) \in Nat /\ Cardinality(GivenUp(d)') \in Nat
            /\ Cardinality(Recording(d)) \in Nat
        <4>1. /\ IsFiniteSet(GivenUp(d)) /\ Cardinality(GivenUp(d)) \in Nat
              /\ Cardinality(GivenUp(d)') \in Nat /\ Cardinality(Recording(d)) \in Nat
          BY WorkersOf, WorkersAreFinite
        <4>2. /\ IsFiniteSet(GivenUp(d) \cup {w})
              /\ Cardinality(GivenUp(d) \cup {w}) <= Cardinality(GivenUp(d)) + 1
          <5>1. /\ IsFiniteSet(GivenUp(d) \cup {w})
                /\ Cardinality(GivenUp(d) \cup {w}) =
                       IF w \in GivenUp(d) THEN Cardinality(GivenUp(d))
                                          ELSE Cardinality(GivenUp(d)) + 1
            BY <4>1, FS_AddElement
          <5> QED
            BY <4>1, <5>1
        <4>3. Cardinality(GivenUp(d) \cup {w}) \in Nat
          BY <4>2, FS_CardinalityType
        <4>4. Cardinality(GivenUp(d)') <= Cardinality(GivenUp(d) \cup {w})
          BY <3>1, <4>2, FS_Subset
        <4> QED
          BY <4>1, <4>2, <4>3, <4>4
      <3>4. CountedAt(d)
        BY DEF AttemptsInv
      <3>5. accepted'[d] + Cardinality(GivenUp(d)')
                <= delivery'[d].count + faults' + Cardinality(Recording(d)')
        BY <1>1, <2>2, <3>1, <3>2, <3>3, <3>4 DEF CountedAt
      <3> QED
        BY <3>5 DEF CountedAt
    <2> QED
      BY <1>2, <2>5 DEF AttemptsInv, OneAttemptEach
  <1> QED
    BY <1>3, <1>4

(* The attempt of a claim is a new one, and current.                       *)
LEMMA CountsClaim ==
    ASSUME DeliveriesInv, TypeOK', AttemptsInv, NEW w \in Worker,
           NEW c \in DeliveryId, ClaimDelivery(w, c)
    PROVE  AttemptsInv'
  <1> DEFINE attempt == NewAttempt
             f == [pc |-> "send", delivery |-> c, attempt |-> attempt,
                   max |-> configuration.max]
             row == Claim(delivery[c], attempt)
  <1>1. /\ TypeOK /\ delivery[c] \in Delivery /\ RowSound(delivery[c])
        /\ faults \in Nat /\ task \in [Worker -> Task]
        /\ delivery \in [DeliveryId -> Delivery]
    BY DEF DeliveriesInv, TypeOK
  <1>2. /\ task[w].pc = "idle" /\ UNCHANGED <<accepted, faults>>
        /\ delivery' = [delivery EXCEPT ![c] = row] /\ SetTask(w, f)
        /\ CanClaim(delivery[c]) /\ attempt \in AttemptId /\ attempt \notin InUse
    BY NewAttemptIsNew DEF ClaimDelivery, Deliver, SetDelivery
  <1>3. /\ row.count = delivery[c].count /\ Current(row, attempt)
        /\ KeepsCurrent(delivery[c], row)
    <2>1. /\ row.count = delivery[c].count /\ row.status = "DELIVERING"
          /\ row.active = attempt /\ row.stale = FALSE
      BY <1>1, <1>2, ResetRows
    <2>2. KeepsCurrent(delivery[c], row)
      BY <1>1, <1>2, KeepsCurrentRows
    <2> QED
      BY <2>1, <2>2 DEF Current, AttemptIsActive
  <1>4. f.pc = "send" /\ f.attempt = attempt /\ f.delivery = c
    OBVIOUS
  <1> HIDE DEF attempt, f, row
  <1>5. /\ \A v \in Worker : task'[v] = IF v = w THEN f ELSE task[v]
        /\ \A d \in DeliveryId : delivery'[d] = IF d = c THEN row ELSE delivery[d]
        /\ \A v \in Worker : task[v].pc # "idle" => task[v].attempt \in AttemptId
    BY <1>1, <1>2, TaskKinds DEF SetTask
  <1>6. ASSUME NEW d \in DeliveryId PROVE CountedAt(d)'
    <2>1. Recording(d)' = Recording(d)
      BY <1>2, <1>4, <1>5 DEF Recording
    <2>2. GivenUp(d)' \subseteq GivenUp(d)
      BY <1>3, <1>4, <1>5 DEF GivenUp, KeepsCurrent
    <2>3. /\ delivery[d].count = delivery'[d].count /\ delivery[d].count \in Nat
          /\ accepted'[d] = accepted[d] /\ CountedAt(d)
      BY <1>1, <1>2, <1>3, <1>5 DEF AttemptsInv, Delivery
    <2> QED
      BY <1>1, <1>2, <2>1, <2>2, <2>3, QuietCount
  <1>7. OneAttemptEach'
    BY <1>1, <1>2, <1>4, OneAttemptStays DEF AttemptsInv
  <1> QED
    BY <1>6, <1>7 DEF AttemptsInv

(* What is accepted is to be put on record.                                *)
LEMMA CountsSend ==
    ASSUME DeliveriesInv, TypeOK', AttemptsInv, NEW w \in Worker, Send(w)
    PROVE  AttemptsInv'
  <1>0. PICK c \in DeliveryId : c = task[w].delivery
    BY TaskKinds DEF DeliveriesInv, TypeOK, Send
  <1>1. /\ TypeOK /\ task \in [Worker -> Task] /\ task[w].pc = "send"
        /\ UNCHANGED <<delivery, faults>>
        /\ accepted \in [DeliveryId -> Nat] /\ faults \in Nat
    BY DEF DeliveriesInv, TypeOK, Send
  <1>2. PICK result : SetTask(w, [pc |-> "record", delivery |-> c,
                                  attempt |-> task[w].attempt, max |-> task[w].max,
                                  result |-> result])
    BY <1>0 DEF Send
  <1>3. /\ \A d \in DeliveryId : d # c => accepted'[d] = accepted[d]
        /\ accepted'[c] \in Nat /\ accepted'[c] <= accepted[c] + 1
    BY <1>0, <1>1 DEF Send
  <1> DEFINE f == [pc |-> "record", delivery |-> c, attempt |-> task[w].attempt,
                   max |-> task[w].max, result |-> result]
  <1>4. f.pc = "record" /\ f.attempt = task[w].attempt /\ f.delivery = c
    OBVIOUS
  <1>5. SetTask(w, f) /\ \A v \in Worker : task'[v] = IF v = w THEN f ELSE task[v]
    BY <1>1, <1>2 DEF SetTask
  <1> HIDE DEF f
  <1>6. CountedAt(c)'
    <2>1. GivenUp(c)' = GivenUp(c)
      BY <1>0, <1>1, <1>4, <1>5 DEF GivenUp
    <2>2. Recording(c)' = Recording(c) \cup {w} /\ w \notin Recording(c)
      BY <1>1, <1>4, <1>5 DEF Recording
    <2>3. /\ IsFiniteSet(Recording(c)) /\ Cardinality(Recording(c)) \in Nat
          /\ Cardinality(GivenUp(c)) \in Nat
      BY WorkersOf, WorkersAreFinite
    <2>4. Cardinality(Recording(c)') = Cardinality(Recording(c)) + 1
      BY <2>2, <2>3, FS_AddElement
    <2>5. delivery[c].count \in Nat /\ accepted[c] \in Nat /\ CountedAt(c)
      BY <1>1 DEF TypeOK, Delivery, AttemptsInv
    <2>6. accepted'[c] + Cardinality(GivenUp(c)')
              <= delivery'[c].count + faults' + Cardinality(Recording(c)')
      BY <1>1, <1>3, <2>1, <2>3, <2>4, <2>5 DEF CountedAt
    <2> QED
      BY <1>1, <2>6 DEF CountedAt
  <1>7. ASSUME NEW d \in DeliveryId, d # c PROVE CountedAt(d)'
    BY <1>0, <1>1, <1>3, <1>4, <1>5, <1>7, Elsewhere DEF AttemptsInv
  <1>8. OneAttemptEach'
    BY <1>1, <1>4, <1>5, OneAttemptStays DEF AttemptsInv
  <1> QED
    BY <1>6, <1>7, <1>8 DEF AttemptsInv

(* A result is put on record, unless its attempt was given up.             *)
LEMMA CountsRecord ==
    ASSUME DeliveriesInv, TypeOK', AttemptsInv, NEW w \in Worker,
           RecordSuccess(w) \/ RecordFailure(w)
    PROVE  AttemptsInv'
  <1>0. PICK c \in DeliveryId : c = task[w].delivery
    BY TaskKinds DEF DeliveriesInv, TypeOK, RecordSuccess, RecordFailure
  <1>1. /\ TypeOK /\ task \in [Worker -> Task] /\ task[w].pc = "record"
        /\ delivery \in [DeliveryId -> Delivery] /\ task[w] \in Task
        /\ accepted \in [DeliveryId -> Nat] /\ faults \in Nat
        /\ UNCHANGED <<accepted, faults>> /\ SetTask(w, Idle)
        /\ Idle.pc = "idle"
    BY DEF DeliveriesInv, TypeOK, RecordSuccess, RecordFailure, Idle
  <1>2. task[w].max \in Budget /\ task[w].result \in Result
    BY <1>1, TaskKinds
  <1>3. \A v \in Worker : task'[v] = IF v = w THEN Idle ELSE task[v]
    BY <1>1 DEF SetTask
  <1>4. PICK row : /\ delivery' = [delivery EXCEPT ![c] = row]
                   /\ IF AttemptIsActive(delivery[c], task[w].attempt)
                      THEN \/ row = Succeed(delivery[c])
                           \/ row = Fail(delivery[c], task[w].result, task[w].max)
                      ELSE row = delivery[c]
    BY <1>0 DEF RecordSuccess, RecordFailure, SetDelivery
  <1>5. \A d \in DeliveryId : delivery'[d] = IF d = c THEN row ELSE delivery[d]
    BY <1>1, <1>4
  <1>6. /\ Recording(c)' = Recording(c) \ {w} /\ w \in Recording(c)
    BY <1>0, <1>1, <1>3 DEF Recording
  <1>7. /\ IsFiniteSet(Recording(c)) /\ Cardinality(Recording(c)) \in Nat
        /\ IsFiniteSet(GivenUp(c)) /\ Cardinality(GivenUp(c)) \in Nat
        /\ Cardinality(GivenUp(c)') \in Nat
        /\ Cardinality(Recording(c)') = Cardinality(Recording(c)) - 1
    BY <1>6, WorkersOf, WorkersAreFinite, FS_RemoveElement
  <1>8. delivery[c].count \in Nat /\ accepted[c] \in Nat /\ CountedAt(c)
    BY <1>1 DEF Delivery, AttemptsInv
  <1>9. CountedAt(c)'
    <2>1. CASE AttemptIsActive(delivery[c], task[w].attempt)
      <3>1. row.count = delivery[c].count + 1
        <4>1. delivery[c] \in Delivery
          BY <1>1
        <4>2. CASE row = Succeed(delivery[c])
          BY <1>2, <4>1, <4>2, ResultRows
        <4>3. CASE row = Fail(delivery[c], task[w].result, task[w].max)
          BY <1>2, <4>1, <4>3, ResultCounts
        <4> QED
          BY <1>4, <2>1, <4>2, <4>3
      <3>2. \A v \in Worker : task[v].pc # "idle" =>
                (Current(delivery[c], task[v].attempt) => v = w)
        BY <1>1, <2>1 DEF AttemptsInv, OneAttemptEach, Current, AttemptIsActive
      <3>3. GivenUp(c)' \subseteq GivenUp(c)
        BY <1>1, <1>3, <3>2 DEF GivenUp
      <3>4. Cardinality(GivenUp(c)') <= Cardinality(GivenUp(c))
        BY <1>7, <3>3, FS_Subset
      <3>5. accepted'[c] + Cardinality(GivenUp(c)')
                <= delivery'[c].count + faults' + Cardinality(Recording(c)')
        BY <1>1, <1>5, <1>7, <1>8, <3>1, <3>4 DEF CountedAt
      <3> QED
        BY <3>5 DEF CountedAt
    <2>2. CASE ~AttemptIsActive(delivery[c], task[w].attempt)
      <3>1. \A d \in DeliveryId : delivery'[d] = delivery[d]
        BY <1>4, <1>5, <2>2
      <3>2. GivenUp(c)' = GivenUp(c) \ {w} /\ w \in GivenUp(c)
        BY <1>0, <1>1, <1>3, <2>2, <3>1 DEF GivenUp, Current, AttemptIsActive
      <3>3. Cardinality(GivenUp(c)') = Cardinality(GivenUp(c)) - 1
        BY <1>7, <3>2, FS_RemoveElement
      <3>4. accepted'[c] + Cardinality(GivenUp(c)')
                <= delivery'[c].count + faults' + Cardinality(Recording(c)')
        BY <1>1, <1>7, <1>8, <3>1, <3>3 DEF CountedAt
      <3> QED
        BY <3>4 DEF CountedAt
    <2> QED
      BY <2>1, <2>2
  <1>10. ASSUME NEW d \in DeliveryId, d # c PROVE CountedAt(d)'
    BY <1>0, <1>1, <1>5, <1>10, Elsewhere DEF AttemptsInv
  <1>11. OneAttemptEach'
    BY <1>1, OneAttemptStays DEF AttemptsInv
  <1> QED
    BY <1>9, <1>10, <1>11 DEF AttemptsInv

(* The fault of the crash pays for what the worker had sent.               *)
LEMMA CountsCrash ==
    ASSUME DeliveriesInv, TypeOK', AttemptsInv, NEW w \in Worker, Crash(w)
    PROVE  AttemptsInv'
  <1>1. /\ TypeOK /\ task \in [Worker -> Task] /\ faults \in Nat
        /\ delivery \in [DeliveryId -> Delivery] /\ accepted \in [DeliveryId -> Nat]
        /\ UNCHANGED <<accepted, delivery>> /\ SetTask(w, Idle)
        /\ faults' = faults + 1 /\ Idle.pc = "idle"
    BY DEF DeliveriesInv, TypeOK, Crash, Idle
  <1>2. \A v \in Worker : task'[v] = IF v = w THEN Idle ELSE task[v]
    BY <1>1 DEF SetTask
  <1>3. ASSUME NEW d \in DeliveryId PROVE CountedAt(d)'
    <2>1. GivenUp(d)' \subseteq GivenUp(d)
      BY <1>1, <1>2 DEF GivenUp
    <2>2. Recording(d)' = Recording(d) \ {w}
      BY <1>1, <1>2 DEF Recording
    <2>3. /\ IsFiniteSet(Recording(d)) /\ Cardinality(Recording(d)) \in Nat
          /\ IsFiniteSet(GivenUp(d)) /\ Cardinality(GivenUp(d)) \in Nat
          /\ Cardinality(GivenUp(d)') \in Nat /\ Cardinality(Recording(d)') \in Nat
      BY WorkersOf, WorkersAreFinite
    <2>4. Cardinality(GivenUp(d)') <= Cardinality(GivenUp(d))
      BY <2>1, <2>3, FS_Subset
    <2>5. Cardinality(Recording(d)) <= Cardinality(Recording(d)') + 1
      <3>1. Cardinality(Recording(d) \ {w}) =
                IF w \in Recording(d) THEN Cardinality(Recording(d)) - 1
                                      ELSE Cardinality(Recording(d))
        BY <2>3, FS_RemoveElement
      <3> QED
        BY <2>2, <2>3, <3>1
    <2>6. delivery[d].count \in Nat /\ accepted[d] \in Nat /\ CountedAt(d)
      BY <1>1 DEF Delivery, AttemptsInv
    <2>7. accepted'[d] + Cardinality(GivenUp(d)')
              <= delivery'[d].count + faults' + Cardinality(Recording(d)')
      BY <1>1, <2>3, <2>4, <2>5, <2>6 DEF CountedAt
    <2> QED
      BY <2>7 DEF CountedAt
  <1>4. OneAttemptEach'
    BY <1>1, OneAttemptStays DEF AttemptsInv
  <1> QED
    BY <1>3, <1>4 DEF AttemptsInv

LEMMA AttemptsKept == DeliveriesInv /\ AttemptsInv /\ [Next]_vars => AttemptsInv'
  <1> SUFFICES ASSUME DeliveriesInv, AttemptsInv, [Next]_vars PROVE AttemptsInv'
    OBVIOUS
  <1>1. /\ TypeOK /\ TypeOK' /\ faults <= faults' /\ DeliveriesInv'
        /\ \A d \in DeliveryId : /\ delivery[d] \in Delivery /\ RowSound(delivery[d])
                                 /\ delivery'[d] \in Delivery /\ d[1] \in Event
    BY DeliveriesKept, OthersKeepTypes, DeliveryParts DEF DeliveriesInv, TypeOK
  <1>2. ASSUME UNCHANGED <<delivery, task, accepted>> PROVE AttemptsInv'
    BY <1>1, <1>2, QuietRows, KeepsCurrentRows
  <1>3. ASSUME RecoverSome PROVE AttemptsInv'
    <2>1. PICK events \in SUBSET Event : \E accounts \in [events -> SUBSET Account] :
              \E picked \in SUBSET DeliveryId : Recover(events, accounts, picked)
      BY <1>3 DEF RecoverSome
    <2>2. UNCHANGED <<task, accepted>> /\ RowsRecover
      BY <2>1, RecoversRows DEF Recover
    <2>3. PICK taken \in SUBSET Event :
            /\ \A e \in taken : outbox[e] = "PENDING"
            /\ \A d \in DeliveryId :
                  RecoverStep(delivery[d], delivery'[d], d[1] \in taken)
      BY <2>2 DEF RowsRecover
    <2>4. ASSUME NEW d \in DeliveryId PROVE KeepsCurrent(delivery[d], delivery'[d])
      <3> DEFINE pending == d[1] \in taken
      <3>1. pending => delivery[d] = NoDelivery
        BY <2>3 DEF DeliveriesInv, NotPreparedYet
      <3>2. RecoverStep(delivery[d], delivery'[d], pending) /\ pending \in BOOLEAN
        BY <2>3
      <3> HIDE DEF pending
      <3> QED
        BY <1>1, <3>1, <3>2, KeepsCurrentRecovered
    <2> QED
      BY <1>1, <2>2, <2>4, QuietRows
  <1>4. ASSUME NEW d \in DeliveryId, RetryDelivery(d) \/ RetryFallsDue(d)
        PROVE  AttemptsInv'
    <2>1. PICK row : /\ UNCHANGED <<task, accepted>>
                     /\ delivery' = [delivery EXCEPT ![d] = row]
                     /\ \/ /\ delivery[d].status = "PERMANENT_FAILURE"
                           /\ row = ManualRetry(delivery[d])
                        \/ /\ delivery[d].later
                           /\ row = [delivery[d] EXCEPT !.later = FALSE]
      BY <1>4 DEF RetryDelivery, RetryFallsDue, SetDelivery
    <2>2. KeepsCurrent(delivery[d], row)
      BY <1>1, <2>1, KeepsCurrentRows
    <2> QED
      BY <1>1, <2>1, <2>2, QuietRow
  <1>5. ASSUME NEW w \in Worker, NEW d \in DeliveryId, ClaimDisabled(w, d)
        PROVE  AttemptsInv'
    <2>1. /\ UNCHANGED <<task, accepted>> /\ CanClaim(delivery[d])
          /\ delivery' = [delivery EXCEPT ![d] = Skip(delivery[d])]
      BY <1>5 DEF ClaimDisabled, Deliver, SetDelivery
    <2>2. KeepsCurrent(delivery[d], Skip(delivery[d]))
      BY <1>1, <2>1, KeepsCurrentRows
    <2> QED
      BY <1>1, <2>1, <2>2, QuietRow
  <1>6. ASSUME NEW w \in Worker, NEW d \in DeliveryId, ClaimRejected(w, d)
        PROVE  AttemptsInv'
    BY <1>2, <1>6 DEF ClaimRejected, Deliver
  <1>7. ASSUME NEW d \in DeliveryId, Enqueue(d) \/ EnqueueFails(d) \/ LoseMessage(d)
        PROVE  AttemptsInv'
    BY <1>2, <1>7 DEF Enqueue, EnqueueFails, LoseMessage
  <1>8. CASE \/ \E e \in Event : Publish(e)
             \/ \E saved \in Configuration : SaveConfiguration(saved)
    BY <1>2, <1>8 DEF Publish, SaveConfiguration
  <1>9. CASE UNCHANGED vars
    BY <1>2, <1>9 DEF vars
  <1>10. ASSUME NEW d \in DeliveryId, GoesStale(d) PROVE AttemptsInv'
    BY <1>1, <1>10, CountsStale
  <1>11. ASSUME NEW w \in Worker, NEW d \in DeliveryId, ClaimDelivery(w, d)
         PROVE  AttemptsInv'
    BY <1>1, <1>11, CountsClaim
  <1>12. ASSUME NEW w \in Worker, DeliveryStep(w) \/ Crash(w) PROVE AttemptsInv'
    BY <1>1, <1>12, CountsSend, CountsRecord, CountsCrash DEF DeliveryStep
  <1> QED
    BY <1>3, <1>4, <1>5, <1>6, <1>7, <1>8, <1>9, <1>10, <1>11, <1>12
       DEF Next, Receive

(* The provider accepts a delivery no more often than attempts are on      *)
(* record, but for the results under way, the crashes and the calls that   *)
(* outlast the stale threshold (claim_delivery, list_due_delivery_ids).    *)
THEOREM SendsAreOnRecord == Spec => []SendsOnRecord
  <1>1. Init => AttemptsInv
    <2> SUFFICES ASSUME Init PROVE AttemptsInv
      OBVIOUS
    <2>1. \A w \in Worker : task[w].pc = "idle"
      BY DEF Init, Idle
    <2>2. ASSUME NEW d \in DeliveryId PROVE CountedAt(d)
      <3>1. GivenUp(d) = {} /\ Recording(d) = {}
        BY <2>1 DEF GivenUp, Recording
      <3>2. delivery[d].count = 0 /\ accepted[d] = 0 /\ faults = 0
        BY NewRows DEF Init, NoDelivery, Status
      <3> QED
        BY <3>1, <3>2, FS_EmptySet DEF CountedAt
    <2> QED
      BY <2>1, <2>2 DEF AttemptsInv, OneAttemptEach
  <1>2. DeliveriesInv /\ AttemptsInv => SendsOnRecord
    <2> SUFFICES ASSUME DeliveriesInv, AttemptsInv, NEW d \in DeliveryId
                 PROVE  accepted[d] <= delivery[d].count + faults
                                           + Cardinality(Recording(d))
      BY DEF SendsOnRecord, Recording
    <2>1. /\ accepted[d] \in Nat /\ delivery[d].count \in Nat /\ faults \in Nat
          /\ CountedAt(d)
      BY DEF DeliveriesInv, TypeOK, Delivery, AttemptsInv
    <2>2. Cardinality(GivenUp(d)) \in Nat /\ Cardinality(Recording(d)) \in Nat
      BY WorkersOf, WorkersAreFinite
    <2> QED
      BY <2>1, <2>2 DEF CountedAt
  <1> QED
    BY <1>1, <1>2, AttemptsKept, DeliveriesInvariance, PTL DEF Spec
=============================================================================
