----------------------------- MODULE IngestionJob -----------------------------
(***************************************************************************)
(* The ingestion job as a value: the row of `ingestion_jobs` and the       *)
(* transitions of documents/domain/ingestion.py, each an operator from the *)
(* row before to the row after.  A transition's guard is a predicate of    *)
(* its own; the code raises ValueError where the guard is false.           *)
(*                                                                         *)
(* Clock values are abstracted to what the code compares them with:        *)
(*   lease       lease_expires_at is unset, in the future, or past         *)
(*   due         next_retry_at is set and past                             *)
(*   dispatched  last_dispatched_at is set and not yet                     *)
(*               dispatch_stale_seconds ago                                *)
(***************************************************************************)
EXTENDS Integers

CONSTANTS
    Worker,        \* worker processes; lease_owner is "<hostname>:<pid>"
    NoWorker,      \* lease_owner is NULL
    MaxAttempts    \* IngestionJob.max_attempts

ASSUME MaxAttemptsPositive == MaxAttempts \in Nat \ {0}
ASSUME NoWorkerIsNone == NoWorker \notin Worker

(* "ABSENT" stands for a row that does not exist: the upload's transaction *)
(* has not committed.                                                      *)
IngestionStatus ==
    {"ABSENT", "QUEUED", "RUNNING", "RETRY_SCHEDULED", "SUCCEEDED", "FAILED"}

IngestionStage == {"STORED", "PARSING", "CHUNKING", "COMPLETED"}

StageOrder ==
    [s \in IngestionStage |-> CASE s = "STORED"   -> 0
                                [] s = "PARSING"  -> 1
                                [] s = "CHUNKING" -> 2
                                [] OTHER          -> 3]

Job == [status     : IngestionStatus,
        stage      : IngestionStage,
        progress   : 0..100,
        attempt    : Nat,
        owner      : Worker \cup {NoWorker},
        lease      : {"none", "live", "expired"},
        due        : BOOLEAN,
        dispatched : BOOLEAN]

NewJob == [status |-> "QUEUED", stage |-> "STORED", progress |-> 0,
           attempt |-> 0, owner |-> NoWorker, lease |-> "none",
           due |-> FALSE, dispatched |-> FALSE]

-----------------------------------------------------------------------------
DueRetry(j) == j.status = "RETRY_SCHEDULED" /\ j.due

(* Mutants of CanClaim: a terminal job, or one another task runs, claimed. *)
CanClaimTerminal(j) == j.status # "RUNNING"
CanClaimRunning(j) == j.status \in {"QUEUED", "RUNNING"} \/ DueRetry(j)

CanClaim(j) == j.status = "QUEUED" \/ DueRetry(j)

(* Only a retry that starts over from STORED resets the progress; the      *)
(* stage itself is kept whatever it is.                                    *)
Claim(j, w) ==
    [j EXCEPT !.status   = "RUNNING",
              !.progress = IF j.status = "RETRY_SCHEDULED" /\ j.stage = "STORED"
                             THEN 0 ELSE @,
              !.attempt  = @ + 1,
              !.owner    = w,
              !.lease    = "live",
              !.due      = FALSE]

CanClaimContinuation(j) == CanClaim(j) /\ j.stage = "CHUNKING"

ClaimContinuation(j, w) ==
    [j EXCEPT !.status     = "RUNNING",
              !.attempt    = IF DueRetry(j) THEN @ + 1 ELSE @,
              !.owner      = w,
              !.lease      = "live",
              !.due        = FALSE,
              !.dispatched = FALSE]

ReleaseForContinuation(j) ==
    [j EXCEPT !.status = "QUEUED", !.owner = NoWorker, !.lease = "none",
              !.due = FALSE, !.dispatched = FALSE]

CanAdvance(j, stage, progress) ==
    /\ j.status = "RUNNING"
    /\ j.progress <= progress /\ progress <= 99
    /\ StageOrder[stage] >= StageOrder[j.stage]

Advance(j, stage, progress) ==
    [j EXCEPT !.stage = stage, !.progress = progress]

Complete(j) ==
    [j EXCEPT !.status = "SUCCEEDED", !.stage = "COMPLETED", !.progress = 100,
              !.owner = NoWorker, !.lease = "none", !.due = FALSE]

(* Mutant of CanRetry: one attempt too many.                               *)
CanRetryOnceMore(j, retryable) == retryable /\ j.attempt <= MaxAttempts

CanRetry(j, retryable) == retryable /\ j.attempt < MaxAttempts

Fail(j, retryable) ==
    [j EXCEPT !.status     = IF CanRetry(j, retryable)
                               THEN "RETRY_SCHEDULED" ELSE "FAILED",
              !.owner      = NoWorker,
              !.lease      = "none",
              !.due        = FALSE,
              !.dispatched = IF CanRetry(j, retryable) THEN FALSE ELSE @]

CanRecover(j) == j.status = "RUNNING" /\ j.lease = "expired"

Exhausted(j) == j.attempt >= MaxAttempts

RecoverExpired(j) ==
    LET startOver == ~Exhausted(j) /\ j.stage # "CHUNKING"
    IN  [j EXCEPT !.status     = IF Exhausted(j) THEN "FAILED" ELSE "QUEUED",
                  !.stage      = IF startOver THEN "STORED" ELSE @,
                  !.progress   = IF startOver THEN 0 ELSE @,
                  !.owner      = NoWorker,
                  !.lease      = "none",
                  !.due        = FALSE,
                  !.dispatched = IF Exhausted(j) THEN @ ELSE FALSE]

CanRetryManually(j) == j.status = "FAILED"

ManualRetry(j) == NewJob

MarkDispatched(j) == [j EXCEPT !.dispatched = TRUE]

(* Mutant of Dispatchable: scheduled retries are forgotten.                *)
DispatchableQueued(j) == j.status = "QUEUED" /\ ~j.dispatched

(* The rows the recovery scan hands to the broker again.                   *)
Dispatchable(j) == CanClaim(j) /\ ~j.dispatched
=============================================================================
