----------------------------- MODULE Notifications -----------------------------
(***************************************************************************)
(* Notifications: the transactional outbox the ticket service writes, the  *)
(* recovery task that turns its events into deliveries and queues them,    *)
(* the delivery tasks of the Celery workers, and the administrator.        *)
(*                                                                         *)
(* An action on `outbox` or `delivery` is one database transaction of      *)
(* SqlAlchemyNotificationRepository with its rows locked FOR UPDATE.  The  *)
(* provider is called between two transactions; what the delivery task     *)
(* remembers meanwhile is its `task`.                                      *)
(***************************************************************************)
EXTENDS Integers, FiniteSets

CONSTANTS
    Event,        \* outbox events; each has an idempotency key
    Account,      \* accounts an event may be addressed to
    Unresolved,   \* the recipient "unresolved" of an event without any
    Worker,
    AttemptId,    \* values of uuid4(): an id nobody holds is a new one
    NoAttempt,    \* active_attempt_id is NULL
    Budget,       \* values of NotificationConfiguration.max_attempts
    MaxRetries,   \* bound on the administrator's retries
    MaxFaults     \* bound on crashes, lost messages and overlong calls

ASSUME WorkerAssumption == IsFiniteSet(Worker)
ASSUME RecipientsAssumption == Unresolved \notin Account
ASSUME AttemptAssumption == NoAttempt \notin AttemptId
ASSUME BudgetAssumption == Budget \subseteq 1..10 /\ Budget # {}
ASSUME BoundsAssumption == MaxRetries \in Nat /\ MaxFaults \in Nat

VARIABLES
    outbox,         \* outbox_events.status, "ABSENT" before the insert
    delivery,       \* notification_deliveries
    configuration,  \* the default row of notification_configurations
    enqueueing,     \* deliveries recovery tasks queued and have yet to enqueue
    messages,       \* the broker's notification queue
    task,           \* the delivery each worker is at
    accepted,       \* how often the provider accepted a delivery
    retries,        \* manual retries so far
    faults          \* crashes, lost messages and overlong calls so far

vars == <<outbox, delivery, configuration, enqueueing, messages, task,
          accepted, retries, faults>>

-----------------------------------------------------------------------------
Recipient == Account \cup {Unresolved}

(* The unique idempotency key: the event's key and the recipient.          *)
DeliveryId == Event \X Recipient

Settled == {"DELIVERED", "PERMANENT_FAILURE", "SKIPPED"}

Status == {"ABSENT", "PENDING", "QUEUED", "DELIVERING", "RETRY_SCHEDULED"}
              \cup Settled

Delivery == [status : Status,
             count  : Nat,                   \* attempt_count
             cycle  : Nat,                   \* cycle_attempt
             active : AttemptId \cup {NoAttempt},
             later  : BOOLEAN,               \* next_attempt_at is in the future
             stale  : BOOLEAN]               \* updated_at <= stale_before

Configuration == [enabled : BOOLEAN, max : Budget]

(* The provider's answer as DeliveryReceipt, or the class of the error.    *)
Result == {"receipt", "transient", "permanent"}

(* A worker is idle, has claimed a delivery and called the provider, or    *)
(* has the provider's answer to record.  "max" is read at the claim.       *)
Task ==
    [pc : {"idle"}]
    \cup [pc : {"send"}, delivery : DeliveryId, attempt : AttemptId,
          max : Budget]
    \cup [pc : {"record"}, delivery : DeliveryId, attempt : AttemptId,
          max : Budget, result : Result]

Idle == [pc |-> "idle"]

NewDelivery == [status |-> "PENDING", count |-> 0, cycle |-> 0,
                active |-> NoAttempt, later |-> FALSE, stale |-> FALSE]

NoDelivery == [NewDelivery EXCEPT !.status = "ABSENT"]

-----------------------------------------------------------------------------
(* Mutants of Due: a delivery whose worker died is never looked at again;  *)
(* one under way is not left alone.                                        *)
DueUnclaimed(row) ==
    \/ row.status = "PENDING"
    \/ row.status = "RETRY_SCHEDULED" /\ ~row.later
    \/ row.status = "QUEUED" /\ row.stale
DueEarly(row) ==
    row.status \in {"PENDING", "QUEUED", "DELIVERING", "RETRY_SCHEDULED"}
        /\ ~row.later

Due(row) ==
    \/ row.status = "PENDING"
    \/ row.status = "RETRY_SCHEDULED" /\ ~row.later
    \/ row.status \in {"QUEUED", "DELIVERING"} /\ row.stale

Queue(row) ==
    [row EXCEPT !.status = "QUEUED", !.active = NoAttempt, !.stale = FALSE]

(* Mutant of CanClaim: a settled delivery is claimed.                      *)
CanClaimSettled(row) == row.status \notin {"ABSENT", "DELIVERING"} /\ ~row.later

CanClaim(row) ==
    /\ row.status \in {"PENDING", "QUEUED", "RETRY_SCHEDULED"}
    /\ ~row.later

Claim(row, attempt) ==
    [row EXCEPT !.status = "DELIVERING", !.active = attempt,
                !.later = FALSE, !.stale = FALSE]

Skip(row) == [row EXCEPT !.status = "SKIPPED", !.stale = FALSE]

(* Mutant of AttemptIsActive: any result of a delivery under way counts.   *)
AnyAttemptIsActive(row, attempt) == row.status = "DELIVERING"

AttemptIsActive(row, attempt) ==
    row.status = "DELIVERING" /\ row.active = attempt

Succeed(row) ==
    [row EXCEPT !.status = "DELIVERED", !.active = NoAttempt,
                !.count = @ + 1, !.cycle = @ + 1, !.stale = FALSE]

(* Mutant of RetryLater: one attempt too many.                             *)
RetryOnceMore(row, result, max) == result = "transient" /\ row.cycle <= max

RetryLater(row, result, max) == result = "transient" /\ row.cycle + 1 < max

(* The attempt id stays in the row.                                        *)
Fail(row, result, max) ==
    LET again == RetryLater(row, result, max)
    IN  [row EXCEPT !.status = IF again THEN "RETRY_SCHEDULED"
                                        ELSE "PERMANENT_FAILURE",
                    !.count = @ + 1, !.cycle = @ + 1,
                    !.later = again, !.stale = FALSE]

ManualRetry(row) ==
    [row EXCEPT !.status = "PENDING", !.active = NoAttempt, !.cycle = 0,
                !.later = FALSE, !.stale = FALSE]

(* What resolve_recipients and the configuration make of an event.         *)
AddressedTo(accounts) == IF accounts = {} THEN {Unresolved} ELSE accounts

PreparedStatus(accounts) ==
    CASE accounts = {}            -> "PERMANENT_FAILURE"
      [] ~configuration.enabled   -> "SKIPPED"
      [] OTHER                    -> "PENDING"

(* Ids a task or a row holds.                                              *)
InUse == {task[w].attempt : w \in {v \in Worker : task[v].pc # "idle"}}
             \cup {delivery[d].active : d \in DeliveryId}

(* uuid4: only whether two ids are the same matters, so any unused will do. *)
NewAttempt == CHOOSE attempt \in AttemptId : attempt \notin InUse

SetDelivery(d, row) == delivery' = [delivery EXCEPT ![d] = row]
SetTask(w, frame) == task' = [task EXCEPT ![w] = frame]

Init ==
    /\ outbox = [e \in Event |-> "ABSENT"]
    /\ delivery = [d \in DeliveryId |-> NoDelivery]
    /\ configuration \in Configuration
    /\ enqueueing = {}
    /\ messages = {}
    /\ task = [w \in Worker |-> Idle]
    /\ accepted = [d \in DeliveryId |-> 0]
    /\ retries = 0
    /\ faults = 0

-----------------------------------------------------------------------------
(* The ticket service and the administrator.                               *)

(* SqlAlchemyOutboxWriter: in the transaction of the ticket or the reply.  *)
Publish(e) ==
    /\ outbox[e] = "ABSENT"
    /\ outbox' = [outbox EXCEPT ![e] = "PENDING"]
    /\ UNCHANGED <<delivery, configuration, enqueueing, messages, task,
                   accepted, retries, faults>>

SaveConfiguration(saved) ==
    /\ configuration' = saved
    /\ UNCHANGED <<outbox, delivery, enqueueing, messages, task, accepted,
                   retries, faults>>

(* The endpoint enqueues nothing: the recovery task does.                  *)
RetryDelivery(d) ==
    /\ delivery[d].status = "PERMANENT_FAILURE"
    /\ retries < MaxRetries
    /\ retries' = retries + 1
    /\ SetDelivery(d, ManualRetry(delivery[d]))
    /\ UNCHANGED <<outbox, configuration, enqueueing, messages, task, accepted,
                   faults>>

-----------------------------------------------------------------------------
(* knowagent.notification.recover                                          *)

(* prepare_pending and list_due_delivery_ids in one transaction: the       *)
(* events taken up (rows another recovery has locked, or beyond the limit, *)
(* are not), whom they are addressed to, and the due deliveries queued,    *)
(* new ones included.                                                      *)
Prepared(events, accounts) ==
    [d \in DeliveryId |->
        IF d[1] \in events /\ d[2] \in AddressedTo(accounts[d[1]])
          THEN [NewDelivery EXCEPT !.status = PreparedStatus(accounts[d[1]])]
          ELSE delivery[d]]

Pending(e) == outbox[e] = "PENDING"

Recover(events, accounts, picked) ==
    LET prepared == Prepared(events, accounts)
    IN  /\ \A e \in events : Pending(e)
        /\ \A d \in picked : Due(prepared[d])
        /\ outbox' = [e \in Event |-> IF e \in events THEN "PROCESSED"
                                                      ELSE outbox[e]]
        /\ delivery' = [d \in DeliveryId |-> IF d \in picked
                                               THEN Queue(prepared[d])
                                               ELSE prepared[d]]
        /\ enqueueing' = enqueueing \cup picked
        /\ UNCHANGED <<configuration, messages, task, accepted, retries,
                       faults>>

RecoverSome ==
    \E events \in SUBSET Event : \E accounts \in [events -> SUBSET Account] :
        \E picked \in SUBSET {d \in DeliveryId : Due(Prepared(events, accounts)[d])} :
            Recover(events, accounts, picked)

(* After the commit, one by one.                                           *)
Enqueue(d) ==
    /\ d \in enqueueing
    /\ enqueueing' = enqueueing \ {d}
    /\ messages' = messages \cup {d}
    /\ UNCHANGED <<outbox, delivery, configuration, task, accepted, retries,
                   faults>>

(* The broker refuses the call or the process stops: the rest of the loop  *)
(* is not run.                                                             *)
EnqueueFails(d) ==
    /\ d \in enqueueing
    /\ faults < MaxFaults
    /\ faults' = faults + 1
    /\ enqueueing' \in {rest \in SUBSET enqueueing : d \notin rest}
    /\ UNCHANGED <<outbox, delivery, configuration, messages, task, accepted,
                   retries>>

-----------------------------------------------------------------------------
(* knowagent.notification.deliver                                          *)

(* acks_late: a message delivered may be delivered again.                  *)
Deliver(w, d) ==
    /\ d \in messages
    /\ task[w].pc = "idle"
    /\ messages' \in {messages, messages \ {d}}
    /\ UNCHANGED <<outbox, configuration, enqueueing, accepted, retries, faults>>

ClaimDelivery(w, d) ==
    /\ Deliver(w, d)
    /\ CanClaim(delivery[d])
    /\ configuration.enabled
    /\ AttemptId \ InUse # {}
    /\ LET attempt == NewAttempt
       IN  /\ SetDelivery(d, Claim(delivery[d], attempt))
           /\ SetTask(w, [pc |-> "send", delivery |-> d, attempt |-> attempt,
                          max |-> configuration.max])

ClaimDisabled(w, d) ==
    /\ Deliver(w, d)
    /\ CanClaim(delivery[d])
    /\ ~configuration.enabled
    /\ SetDelivery(d, Skip(delivery[d]))
    /\ UNCHANGED task

ClaimRejected(w, d) ==
    /\ Deliver(w, d)
    /\ ~CanClaim(delivery[d])
    /\ UNCHANGED <<delivery, task>>

(* What a call can come to: the provider took the request or not, and what *)
(* the caller sees of it.  Only a success status code makes a receipt; a   *)
(* timeout or a broken connection leaves open whether it was taken.        *)
Answers == {<<TRUE, "receipt">>, <<TRUE, "transient">>,
            <<FALSE, "transient">>, <<FALSE, "permanent">>}

Send(w) ==
    /\ task[w].pc = "send"
    /\ \E answer \in Answers :
          /\ accepted' = IF answer[1]
                           THEN [accepted EXCEPT ![task[w].delivery] = @ + 1]
                           ELSE accepted
          /\ SetTask(w, [pc |-> "record", delivery |-> task[w].delivery,
                         attempt |-> task[w].attempt, max |-> task[w].max,
                         result |-> answer[2]])
    /\ UNCHANGED <<outbox, delivery, configuration, enqueueing, messages,
                   retries, faults>>

RecordSuccess(w) ==
    LET d == task[w].delivery
    IN  /\ task[w].pc = "record"
        /\ task[w].result = "receipt"
        /\ SetDelivery(d, IF AttemptIsActive(delivery[d], task[w].attempt)
                            THEN Succeed(delivery[d]) ELSE delivery[d])
        /\ SetTask(w, Idle)
        /\ UNCHANGED <<outbox, configuration, enqueueing, messages, accepted,
                       retries, faults>>

RecordFailure(w) ==
    LET d == task[w].delivery
    IN  /\ task[w].pc = "record"
        /\ task[w].result # "receipt"
        /\ SetDelivery(d, IF AttemptIsActive(delivery[d], task[w].attempt)
                            THEN Fail(delivery[d], task[w].result, task[w].max)
                            ELSE delivery[d])
        /\ SetTask(w, Idle)
        /\ UNCHANGED <<outbox, configuration, enqueueing, messages, accepted,
                       retries, faults>>

(* The process is killed, or the transaction of a result fails.            *)
Crash(w) ==
    /\ task[w].pc # "idle"
    /\ faults < MaxFaults
    /\ faults' = faults + 1
    /\ SetTask(w, Idle)
    /\ UNCHANGED <<outbox, delivery, configuration, enqueueing, messages,
                   accepted, retries>>

LoseMessage(d) ==
    /\ d \in messages
    /\ faults < MaxFaults
    /\ faults' = faults + 1
    /\ messages' = messages \ {d}
    /\ UNCHANGED <<outbox, delivery, configuration, enqueueing, task, accepted,
                   retries>>

-----------------------------------------------------------------------------
(* The passage of time.                                                    *)

RetryFallsDue(d) ==
    /\ delivery[d].later
    /\ SetDelivery(d, [delivery[d] EXCEPT !.later = FALSE])
    /\ UNCHANGED <<outbox, configuration, enqueueing, messages, task, accepted,
                   retries, faults>>

(* Settings demand a threshold above the longest provider timeout, but     *)
(* httpx applies a timeout to each phase of a call, not to the whole: a    *)
(* call that outlasts the threshold counts as a fault.                     *)
UnderWay(d) == \E w \in Worker :
    task[w].pc # "idle" /\ task[w].attempt = delivery[d].active

GoesStale(d) ==
    /\ delivery[d].status \in {"QUEUED", "DELIVERING"}
    /\ ~delivery[d].stale
    /\ IF UnderWay(d)
         THEN faults < MaxFaults /\ faults' = faults + 1
         ELSE UNCHANGED faults
    /\ SetDelivery(d, [delivery[d] EXCEPT !.stale = TRUE])
    /\ UNCHANGED <<outbox, configuration, enqueueing, messages, task, accepted,
                   retries>>

DeliveryStep(w) == Send(w) \/ RecordSuccess(w) \/ RecordFailure(w)

Receive(w, d) == ClaimDelivery(w, d) \/ ClaimDisabled(w, d) \/ ClaimRejected(w, d)

Next ==
    \/ \E e \in Event : Publish(e)
    \/ \E saved \in Configuration : SaveConfiguration(saved)
    \/ RecoverSome
    \/ \E d \in DeliveryId :
          \/ RetryDelivery(d) \/ Enqueue(d) \/ EnqueueFails(d)
          \/ LoseMessage(d) \/ RetryFallsDue(d) \/ GoesStale(d)
          \/ \E w \in Worker : Receive(w, d)
    \/ \E w \in Worker : DeliveryStep(w) \/ Crash(w)

Spec == Init /\ [][Next]_vars

(* Beat runs the recovery task every 15 seconds; the workers run their     *)
(* tasks, the broker delivers, provider calls time out, time passes.       *)
RecoverAll ==
    LET pending == {e \in Event : Pending(e)}
    IN  \E accounts \in [pending -> SUBSET Account] :
            Recover(pending, accounts,
                    {d \in DeliveryId : Due(Prepared(pending, accounts)[d])})

Fairness ==
    /\ WF_vars(RecoverAll)
    /\ \A w \in Worker : WF_vars(DeliveryStep(w))
    /\ \A d \in DeliveryId :
          /\ WF_vars(Enqueue(d))
          /\ SF_vars(\E w \in Worker : Receive(w, d))
          /\ WF_vars(RetryFallsDue(d))
          /\ WF_vars(GoesStale(d))

FairSpec == Spec /\ Fairness

-----------------------------------------------------------------------------
(* Every variable holds a value of its type.                               *)
TypeOK ==
    /\ outbox \in [Event -> {"ABSENT", "PENDING", "PROCESSED"}]
    /\ delivery \in [DeliveryId -> Delivery]
    /\ configuration \in Configuration
    /\ enqueueing \subseteq DeliveryId
    /\ messages \subseteq DeliveryId
    /\ task \in [Worker -> Task]
    /\ accepted \in [DeliveryId -> Nat]
    /\ retries \in 0..MaxRetries
    /\ faults \in 0..MaxFaults

(* The automatic retries of a cycle stay within the largest number of      *)
(* attempts configured while they ran; the variables keep their types.     *)
CycleWithinBudget ==
    /\ TypeOK
    /\ \A d \in DeliveryId :
          /\ \E max \in Budget : delivery[d].cycle <= max
          /\ delivery[d].status \notin Settled =>
                 \E max \in Budget : delivery[d].cycle < max
          /\ delivery[d].cycle <= delivery[d].count

(* The late result of an attempt that was given up changes nothing.        *)
StaleAttemptHarmless ==
    [][\A w \in Worker :
          /\ task[w].pc = "record" /\ task'[w] # task[w]
          /\ delivery[task[w].delivery].active # task[w].attempt
          => delivery' = delivery]_vars

(* A delivery that was made or skipped stays so; one that failed for good  *)
(* leaves that state only for a new cycle.                                 *)
SettledIsFinal ==
    [][\A d \in DeliveryId :
          delivery[d].status \in Settled /\ delivery'[d] # delivery[d] =>
              /\ delivery[d].status = "PERMANENT_FAILURE"
              /\ delivery'[d].status = "PENDING" /\ delivery'[d].cycle = 0
              /\ delivery'[d].count = delivery[d].count]_vars

(* The provider accepts a delivery no more often than attempts are on      *)
(* record, but for results under way, crashes and overlong calls.          *)
SendsOnRecord ==
    \A d \in DeliveryId :
        accepted[d] <= delivery[d].count + faults
            + Cardinality({w \in Worker : /\ task[w].pc = "record"
                                          /\ task[w].delivery = d})

(* Every event published is prepared, and every delivery made of it comes  *)
(* to an end, whatever is lost or crashes on the way.                      *)
Unfinished(e) ==
    \/ outbox[e] = "PENDING"
    \/ \E r \in Recipient :
          delivery[<<e, r>>].status \notin Settled \cup {"ABSENT"}

EventuallySettled == \A e \in Event : Unfinished(e) ~> ~Unfinished(e)
=============================================================================
