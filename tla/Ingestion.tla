------------------------------- MODULE Ingestion -------------------------------
(***************************************************************************)
(* The document ingestion pipeline: the upload endpoint and its background *)
(* dispatch, the broker, the Celery worker processes running               *)
(* `knowagent.ingestion.process` and `knowagent.ingestion.batch`, and the  *)
(* beat task that recovers expired leases and dispatches again.            *)
(*                                                                         *)
(* Every action on `job` and `version` is one database transaction of      *)
(* SqlAlchemyIngestionCoordinator (the job row is locked FOR UPDATE).  A   *)
(* worker's `task` is what its Python frame remembers between two          *)
(* transactions; `pc` names the call the task makes next.                  *)
(***************************************************************************)
EXTENDS IngestionJob, FiniteSets

CONSTANTS
    JobId,              \* uploads; a version, a job and a source per upload
    NoJob,
    NumChunks,          \* chunks the chunker cuts each document into
    BatchSize,          \* KNOWAGENT_EMBEDDING_BATCH_SIZE
    Model,              \* embedding model versions the provider may serve
    NoModel,            \* embedding IS NULL
    LeaseOutlivesTask,  \* a lease runs out only once its task is gone
    MaxFaults           \* bound on crashes and lost messages

ASSUME ChunksAssumption ==
    NumChunks \in Nat \ {0} /\ BatchSize \in Nat \ {0}
ASSUME NoModelIsNone == NoModel \notin Model
ASSUME NoJobIsNone == NoJob \notin JobId
ASSUME LeaseAssumption == LeaseOutlivesTask \in BOOLEAN
ASSUME FaultsAssumption == MaxFaults \in Nat

VARIABLES
    job,         \* ingestion_jobs
    version,     \* document_versions
    source,      \* knowledge_sources: the version's source and chunks exist
    embedding,   \* knowledge_chunks.embedding, by chunk
    messages,    \* the broker's ingestion queue
    dispatching, \* API background tasks and recovery loops under way
    task,        \* the task each worker process runs
    served,      \* the model the embedding provider serves
    faults       \* crashes and lost messages so far

rows == <<job, version>>
knowledge == <<source, embedding>>
outside == <<served, faults>>
vars == <<job, version, source, embedding, messages, dispatching, task,
          served, faults>>

-----------------------------------------------------------------------------
DocumentVersionStatus ==
    {"UPLOADED", "PARSING", "CHUNKING", "CHUNKED", "READY_DRAFT",
     "OCR_REQUIRED", "FAILED"}

Chunk == 1..NumChunks

(* chunk_manifest_key is set; chunk_count.                                 *)
Version == [status   : DocumentVersionStatus,
            manifest : BOOLEAN,
            count    : 0..NumChunks]

Message == [kind : {"process", "batch"}, job : JobId]

Dispatch == [job : JobId, step : {"enqueue", "mark"}]

(* A task between its claim and the transaction that gives the lease up.   *)
Holding == {"parse", "chunk", "prepare", "record", "release",
            "read", "write", "advance", "complete"}

PC == Holding \cup {"idle", "claim", "dispatch", "mark"}

Task == [pc       : PC,
         kind     : {"process", "batch"},
         job      : JobId \cup {NoJob},
         attempt  : Nat,              \* with the owner, the fencing token
         manifest : BOOLEAN,          \* claimed.version.chunk_manifest_key
         count    : 0..NumChunks,     \* claimed.version.chunk_count
         seen     : SUBSET Chunk,     \* chunks read as already embedded
         todo     : SUBSET Chunk,     \* the batch being embedded
         model    : Model \cup {NoModel}]

Idle == [pc |-> "idle", kind |-> "process", job |-> NoJob, attempt |-> 0,
         manifest |-> FALSE, count |-> 0, seen |-> {}, todo |-> {},
         model |-> NoModel]

-----------------------------------------------------------------------------
Embedded(j) == {c \in Chunk : embedding[j][c] # NoModel}

(* The first BatchSize chunks without a vector, in ordinal order.          *)
NextBatch(j) ==
    LET missing == Chunk \ Embedded(j)
    IN  {c \in missing :
            Cardinality({d \in missing : d < c}) < BatchSize}

(* Mutant of Contract: any model will do.                                  *)
NoContract(j) == NoModel

(* The model of the first chunk that has a vector: the contract the next   *)
(* batch is validated against.                                             *)
Contract(j) ==
    IF Embedded(j) = {} THEN NoModel
    ELSE embedding[j][CHOOSE c \in Embedded(j) :
                          \A d \in Embedded(j) : c <= d]

(* Mutants of Owned: half of the fencing token.                            *)
OwnedByAttempt(w) == job[task[w].job].attempt = task[w].attempt
OwnedByAnyone(w) ==
    /\ OwnedByAttempt(w)
    /\ job[task[w].job].status = "RUNNING"
    /\ job[task[w].job].lease = "live"

(* _locked_owned_bundle: owner, attempt and an unexpired lease.            *)
Owned(w) ==
    LET j == job[task[w].job]
    IN  /\ j.status = "RUNNING"
        /\ j.owner = w
        /\ j.attempt = task[w].attempt
        /\ j.lease = "live"

At(w, pc) == task[w].pc = pc

(* 70 + min(25, max(1, completed * 25 // total))                           *)
BatchProgress(completed) ==
    LET share == (completed * 25) \div NumChunks
    IN  70 + (IF share < 1 THEN 1 ELSE IF share > 25 THEN 25 ELSE share)

SetJob(j, row) == job' = [job EXCEPT ![j] = row]
SetVersion(j, row) == version' = [version EXCEPT ![j] = row]
SetVersionStatus(j, status) ==
    version' = [version EXCEPT ![j].status = status]
SetTask(w, frame) == task' = [task EXCEPT ![w] = frame]
Goto(w, pc) == SetTask(w, [task[w] EXCEPT !.pc = pc])
Finish(w) == SetTask(w, Idle)

(* To the dispatch of the next batch, or to another call that needs no     *)
(* more of the frame than the job.                                         *)
GotoFresh(w, pc) == SetTask(w,
    [Idle EXCEPT !.pc = pc, !.kind = task[w].kind, !.job = task[w].job,
                 !.attempt = IF pc \in Holding THEN task[w].attempt ELSE 0])

Init ==
    /\ job = [j \in JobId |-> [NewJob EXCEPT !.status = "ABSENT"]]
    /\ version = [j \in JobId |-> [status |-> "UPLOADED", manifest |-> FALSE,
                                   count |-> 0]]
    /\ source = [j \in JobId |-> FALSE]
    /\ embedding = [j \in JobId |-> [c \in Chunk |-> NoModel]]
    /\ messages = {}
    /\ dispatching = {}
    /\ task = [w \in Worker |-> Idle]
    /\ served \in Model
    /\ faults = 0

-----------------------------------------------------------------------------
(* The upload endpoint and the retry endpoint.                             *)

(* The audit record commits the upload's rows inside create_upload, before *)
(* the background task that dispatches the job is added.                   *)
CommitUpload(j) ==
    /\ job[j].status = "ABSENT"
    /\ SetJob(j, NewJob)
    /\ dispatching' = dispatching \cup {[job |-> j, step |-> "enqueue"]}
    /\ UNCHANGED <<version, knowledge, messages, task, outside>>

RetryJob(j) ==
    /\ CanRetryManually(job[j])
    /\ SetJob(j, ManualRetry(job[j]))
    /\ SetVersionStatus(j, "UPLOADED")
    /\ dispatching' = dispatching \cup {[job |-> j, step |-> "enqueue"]}
    /\ UNCHANGED <<knowledge, messages, task, outside>>

(* _dispatch_job, and one round of the loop of IngestionRecoveryService:   *)
(* enqueue, then mark_dispatched in a transaction of its own that checks   *)
(* neither status nor owner.                                               *)
DispatchEnqueue(d) ==
    /\ d.step = "enqueue"
    /\ messages' = messages \cup {[kind |-> "process", job |-> d.job]}
    /\ dispatching' = (dispatching \ {d}) \cup {[d EXCEPT !.step = "mark"]}
    /\ UNCHANGED <<rows, knowledge, task, outside>>

DispatchMark(d) ==
    /\ d.step = "mark"
    /\ SetJob(d.job, MarkDispatched(job[d.job]))
    /\ dispatching' = dispatching \ {d}
    /\ UNCHANGED <<version, knowledge, messages, task, outside>>

(* The broker or the database refuses the call, or the process stops.      *)
DispatchFails(d) ==
    /\ dispatching' = dispatching \ {d}
    /\ UNCHANGED <<rows, knowledge, messages, task, outside>>

(* Mutants of RecoveredVersion: the version is left as it is, or takes the *)
(* name of the job's status.                                               *)
VersionLeft(j) == version[j]
VersionTakesJobStatus(j) ==
    [version[j] EXCEPT !.status = RecoverExpired(job[j]).status]

RecoveredVersion(j) ==
    [version[j] EXCEPT !.status =
        IF Exhausted(job[j]) THEN "FAILED" ELSE "UPLOADED"]

(* recover_and_find_dispatchable: one transaction; rows another            *)
(* transaction has locked are skipped.                                     *)
Recover(recovered) ==
    /\ \A j \in recovered : CanRecover(job[j])
    /\ job' = [j \in JobId |-> IF j \in recovered THEN RecoverExpired(job[j])
                                                  ELSE job[j]]
    /\ version' = [j \in JobId |->
           IF j \in recovered THEN RecoveredVersion(j) ELSE version[j]]
    /\ dispatching' = dispatching \cup
           [job : {j \in JobId : Dispatchable(job'[j])}, step : {"enqueue"}]
    /\ UNCHANGED <<knowledge, messages, task, outside>>

-----------------------------------------------------------------------------
(* The broker: acks_late and reject_on_worker_lost, so a delivered message *)
(* may stay queued and be delivered again; messages may be lost.           *)

Deliver(w, m) ==
    /\ At(w, "idle")
    /\ messages' \in {messages, messages \ {m}}

LoseMessage(m) ==
    /\ faults < MaxFaults
    /\ faults' = faults + 1
    /\ messages' = messages \ {m}
    /\ UNCHANGED <<rows, knowledge, dispatching, task, served>>

-----------------------------------------------------------------------------
(* knowagent.ingestion.process                                             *)

(* An unlocked read decides between forwarding the job to the batch task   *)
(* and claiming it; the claim comes later and does not look at the stage.  *)
PeekJob(w, m) ==
    /\ Deliver(w, m)
    /\ m.kind = "process"
    /\ SetTask(w, [Idle EXCEPT
           !.job = m.job,
           !.pc = IF CanClaimContinuation(job[m.job]) THEN "dispatch"
                                                      ELSE "claim"])
    /\ UNCHANGED <<rows, knowledge, dispatching, outside>>

ClaimJob(w) ==
    LET j == task[w].job
    IN  /\ At(w, "claim")
        /\ CanClaim(job[j])
        /\ SetJob(j, Claim(job[j], w))
        /\ SetTask(w, [task[w] EXCEPT !.pc = "parse",
                                      !.attempt = Claim(job[j], w).attempt])
        /\ UNCHANGED <<version, knowledge, messages, dispatching, outside>>

(* claim returned None: the task ends, IGNORED.                            *)
ClaimRejected(w) ==
    /\ At(w, "claim")
    /\ ~CanClaim(job[task[w].job])
    /\ Finish(w)
    /\ UNCHANGED <<rows, knowledge, messages, dispatching, outside>>

AdvanceTo(w, stage, progress, next) ==
    LET j == task[w].job
    IN  /\ Owned(w)
        /\ CanAdvance(job[j], stage, progress)
        /\ SetJob(j, Advance(job[j], stage, progress))
        /\ SetVersionStatus(j, stage)
        /\ IF next = "complete" THEN Goto(w, next) ELSE GotoFresh(w, next)
        /\ UNCHANGED <<knowledge, messages, dispatching, outside>>

AdvanceParsing(w) == At(w, "parse") /\ AdvanceTo(w, "PARSING", 20, "chunk")

(* The object was read and parsed.                                         *)
AdvanceChunking(w) == At(w, "chunk") /\ AdvanceTo(w, "CHUNKING", 70, "prepare")

(* Mutant of CreatesChunks: chunks of an earlier attempt are replaced.     *)
CreatesChunksAgain(j) == version[j].status \in {"CHUNKING", "CHUNKED"}

CreatesChunks(j) ==
    version[j].status \in {"CHUNKING", "CHUNKED"} /\ ~source[j]

(* The manifest was written; prepare_chunks locks the version, not the     *)
(* job, and keeps the chunks of an earlier attempt.                        *)
PrepareChunks(w) ==
    LET j == task[w].job
    IN  /\ At(w, "prepare")
        /\ source' = [source EXCEPT ![j] = @ \/ CreatesChunks(j)]
        /\ embedding' = IF CreatesChunks(j)
                          THEN [embedding EXCEPT ![j] =
                                    [c \in Chunk |-> NoModel]]
                          ELSE embedding
        /\ SetTask(w, [task[w] EXCEPT !.pc = "record",
               !.count = IF source'[j] THEN NumChunks ELSE 0])
        /\ UNCHANGED <<rows, messages, dispatching, outside>>

RecordChunkManifest(w) ==
    LET j == task[w].job
    IN  /\ At(w, "record")
        /\ Owned(w)
        /\ job[j].stage = "CHUNKING"
        /\ SetVersion(j, [status |-> "CHUNKED", manifest |-> TRUE,
                          count |-> task[w].count])
        /\ GotoFresh(w, "release")
        /\ UNCHANGED <<job, knowledge, messages, dispatching, outside>>

-----------------------------------------------------------------------------
(* The end of a checkpoint, in both tasks.                                 *)

ReleaseJob(w) ==
    LET j == task[w].job
    IN  /\ At(w, "release")
        /\ Owned(w)
        /\ SetJob(j, ReleaseForContinuation(job[j]))
        /\ SetVersionStatus(j, "CHUNKED")
        /\ GotoFresh(w, "dispatch")
        /\ UNCHANGED <<knowledge, messages, dispatching, outside>>

EnqueueBatch(w) ==
    /\ At(w, "dispatch")
    /\ messages' = messages \cup {[kind |-> "batch", job |-> task[w].job]}
    /\ Goto(w, "mark")
    /\ UNCHANGED <<rows, knowledge, dispatching, outside>>

MarkBatchDispatched(w) ==
    /\ At(w, "mark")
    /\ SetJob(task[w].job, MarkDispatched(job[task[w].job]))
    /\ Finish(w)
    /\ UNCHANGED <<version, knowledge, messages, dispatching, outside>>

-----------------------------------------------------------------------------
(* knowagent.ingestion.batch                                               *)

ContinueJob(w, m) ==
    LET j == m.job
    IN  /\ Deliver(w, m)
        /\ m.kind = "batch"
        /\ CanClaimContinuation(job[j])
        /\ SetJob(j, ClaimContinuation(job[j], w))
        /\ SetTask(w, [Idle EXCEPT
               !.pc = "read", !.kind = "batch", !.job = j,
               !.attempt = ClaimContinuation(job[j], w).attempt,
               !.manifest = version[j].manifest,
               !.count = version[j].count])
        /\ UNCHANGED <<version, knowledge, dispatching, outside>>

(* claim_continuation returned None: the task ends, IGNORED.               *)
ContinueRejected(w, m) ==
    /\ Deliver(w, m)
    /\ m.kind = "batch"
    /\ ~CanClaimContinuation(job[m.job])
    /\ UNCHANGED <<rows, knowledge, dispatching, task, outside>>

(* The chunks are read without a lock and the next ones sent to the        *)
(* provider; a batch from another model than the contract is refused.      *)
ReadBatch(w) ==
    LET j == task[w].job
        todo == NextBatch(j)
    IN  /\ At(w, "read")
        /\ source[j]
        /\ todo = {} \/ Contract(j) \in {NoModel, served}
        /\ SetTask(w, [task[w] EXCEPT
               !.pc = IF todo = {} THEN "advance" ELSE "write",
               !.seen = Embedded(j),
               !.todo = todo,
               !.model = IF todo = {} THEN NoModel ELSE served])
        /\ UNCHANGED <<rows, knowledge, messages, dispatching, outside>>

(* set_chunk_embeddings: by chunk id, without a look at the job.           *)
WriteBatch(w) ==
    LET j == task[w].job
    IN  /\ At(w, "write")
        /\ embedding' = [embedding EXCEPT ![j] = [c \in Chunk |->
               IF c \in task[w].todo THEN task[w].model ELSE @[c]]]
        /\ SetTask(w, [task[w] EXCEPT !.pc = "advance", !.model = NoModel])
        /\ UNCHANGED <<rows, source, messages, dispatching, outside>>

(* The counts come from the read of ReadBatch.                             *)
AdvanceBatch(w) ==
    LET done == task[w].seen \cup task[w].todo
    IN  /\ At(w, "advance")
        /\ AdvanceTo(w, "CHUNKING", BatchProgress(Cardinality(done)),
                     IF done = Chunk THEN "complete" ELSE "release")

CompleteJob(w) ==
    LET j == task[w].job
    IN  /\ At(w, "complete")
        /\ Owned(w)
        /\ SetJob(j, Complete(job[j]))
        /\ SetVersion(j, [status |-> "READY_DRAFT",
                          manifest |-> task[w].manifest,
                          count |-> task[w].count])
        /\ Finish(w)
        /\ UNCHANGED <<knowledge, messages, dispatching, outside>>

-----------------------------------------------------------------------------
(* Errors, lost leases and crashes.                                        *)

(* What a step of a task may raise: whether it may be retried, and the     *)
(* version's status if it may not.  Any call may fail retryably; parsing   *)
(* and the object store also fail for good.                                *)
MayFail(w, retryable, status) ==
    \/ task[w].kind = "batch" /\ retryable /\ status = "CHUNKED"
    \/ task[w].kind = "process" /\ retryable /\ status = "FAILED"
    \/ At(w, "chunk") /\ ~retryable /\ status \in {"FAILED", "OCR_REQUIRED"}
    \/ At(w, "prepare") /\ ~retryable /\ status = "FAILED"

(* The process task looks at the row it failed: if the stage is CHUNKING   *)
(* it dispatches a batch, whatever the status.                             *)
FailJob(w) ==
    LET j == task[w].job
    IN  /\ task[w].pc \in Holding
        /\ Owned(w)
        /\ \E retryable \in BOOLEAN, status \in DocumentVersionStatus :
              /\ MayFail(w, retryable, status)
              /\ SetJob(j, Fail(job[j], retryable))
              /\ SetVersionStatus(j, IF CanRetry(job[j], retryable)
                                       THEN "UPLOADED" ELSE status)
        /\ IF task[w].kind = "process" /\ job[j].stage = "CHUNKING"
             THEN GotoFresh(w, "dispatch") ELSE Finish(w)
        /\ UNCHANGED <<knowledge, messages, dispatching, outside>>

(* IngestionLeaseLostError, from the step itself or from recording its     *)
(* failure: the task ends without a write.                                 *)
LeaseLost(w) ==
    /\ task[w].pc \in Holding
    /\ ~Owned(w)
    /\ Finish(w)
    /\ UNCHANGED <<rows, knowledge, messages, dispatching, outside>>

(* The process is killed (the hard time limit too), or a call outside any  *)
(* handler fails; Deliver covers the redelivery.                           *)
Crash(w) ==
    /\ ~At(w, "idle")
    /\ faults < MaxFaults
    /\ faults' = faults + 1
    /\ Finish(w)
    /\ UNCHANGED <<rows, knowledge, messages, dispatching, served>>

-----------------------------------------------------------------------------
(* The passage of time, and the provider.                                  *)

(* Settings require lease_seconds to exceed the hard time limits; clocks   *)
(* that disagree, or a stopped virtual machine, void that argument.        *)
LeaseExpires(j) ==
    /\ job[j].status = "RUNNING" /\ job[j].lease = "live"
    /\ LeaseOutlivesTask => \A w \in Worker :
           task[w].job = j => task[w].pc \notin Holding \/ ~Owned(w)
    /\ job' = [job EXCEPT ![j].lease = "expired"]
    /\ UNCHANGED <<version, knowledge, messages, dispatching, task, outside>>

RetryFallsDue(j) ==
    /\ job[j].status = "RETRY_SCHEDULED" /\ ~job[j].due
    /\ job' = [job EXCEPT ![j].due = TRUE]
    /\ UNCHANGED <<version, knowledge, messages, dispatching, task, outside>>

DispatchGoesStale(j) ==
    /\ job[j].dispatched
    /\ job' = [job EXCEPT ![j].dispatched = FALSE]
    /\ UNCHANGED <<version, knowledge, messages, dispatching, task, outside>>

ServeModel(m) ==
    /\ served' = m
    /\ UNCHANGED <<rows, knowledge, messages, dispatching, task, faults>>

Receive(w, m) ==
    PeekJob(w, m) \/ ContinueJob(w, m) \/ ContinueRejected(w, m)

WorkerStep(w) ==
    \/ ClaimJob(w) \/ ClaimRejected(w)
    \/ AdvanceParsing(w) \/ AdvanceChunking(w) \/ PrepareChunks(w)
    \/ RecordChunkManifest(w) \/ ReleaseJob(w)
    \/ EnqueueBatch(w) \/ MarkBatchDispatched(w)
    \/ ReadBatch(w) \/ WriteBatch(w)
    \/ AdvanceBatch(w) \/ CompleteJob(w)
    \/ FailJob(w) \/ LeaseLost(w)

Next ==
    \/ \E j \in JobId : CommitUpload(j) \/ RetryJob(j)
    \/ \E d \in dispatching :
           DispatchEnqueue(d) \/ DispatchMark(d) \/ DispatchFails(d)
    \/ \E recovered \in SUBSET JobId : Recover(recovered)
    \/ \E m \in messages : LoseMessage(m) \/ \E w \in Worker : Receive(w, m)
    \/ \E w \in Worker : WorkerStep(w) \/ Crash(w)
    \/ \E j \in JobId :
           LeaseExpires(j) \/ RetryFallsDue(j) \/ DispatchGoesStale(j)
    \/ \E m \in Model : ServeModel(m)

Spec == Init /\ [][Next]_vars


(* The worker pool keeps running its tasks and the broker delivering; beat *)
(* keeps running the recovery scan; time passes; an enqueue that is tried  *)
(* again and again succeeds in the end.                                    *)
RecoverAll == Recover({j \in JobId : CanRecover(job[j])})

Fairness ==
    /\ \A w \in Worker : WF_vars(WorkerStep(w))
    /\ \A m \in Message : SF_vars(m \in messages /\ \E w \in Worker : Receive(w, m))
    /\ \A d \in Dispatch : SF_vars(d \in dispatching /\ DispatchEnqueue(d))
    /\ WF_vars(RecoverAll)
    /\ \A j \in JobId : /\ WF_vars(LeaseExpires(j))
                        /\ WF_vars(RetryFallsDue(j))
                        /\ WF_vars(DispatchGoesStale(j))

FairSpec == Spec /\ Fairness

-----------------------------------------------------------------------------
(* Every variable holds a value of its type.                               *)
TypeOK ==
    /\ job \in [JobId -> Job]
    /\ version \in [JobId -> Version]
    /\ source \in [JobId -> BOOLEAN]
    /\ embedding \in [JobId -> [Chunk -> Model \cup {NoModel}]]
    /\ messages \subseteq Message
    /\ dispatching \subseteq Dispatch
    /\ task \in [Worker -> Task]
    /\ \A w \in Worker : task[w].pc # "idle" => task[w].job \in JobId
    /\ served \in Model
    /\ faults \in 0..MaxFaults

(* A version can be published (READY_DRAFT) exactly when its job has       *)
(* succeeded: no late or recovered task moves one without the other.       *)
ReadyDraftIffSucceeded ==
    \A j \in JobId :
        version[j].status = "READY_DRAFT" <=> job[j].status = "SUCCEEDED"

(* A job succeeds only when its chunks exist and every one of them has a   *)
(* vector, although the batch that completes it counted them before its    *)
(* last write and other tasks may have run in between.                     *)
SucceededFullyIndexed ==
    \A j \in JobId :
        job[j].status = "SUCCEEDED" => source[j] /\ Embedded(j) = Chunk

(* A version shows PARSING or CHUNKING only while its job is RUNNING:      *)
(* failure, recovery and release all put it back.                          *)
WorkingVersionIsRunning ==
    \A j \in JobId :
        version[j].status \in {"PARSING", "CHUNKING"}
            => job[j].status = "RUNNING"

(* No retry is scheduled once the attempts are used up, and a claim can    *)
(* exceed the budget by one at most.                                       *)
AttemptsBounded ==
    \A j \in JobId :
        /\ job[j].attempt <= MaxAttempts + 1
        /\ job[j].status = "RETRY_SCHEDULED" => job[j].attempt < MaxAttempts
        /\ job[j].attempt > MaxAttempts =>
               job[j].status \in {"RUNNING", "FAILED"}

(* A task whose lease was taken over or given up writes neither the job    *)
(* nor the version.                                                        *)
StaleWorkerHarmless ==
    [][\A w \in Worker :
          LET j == task[w].job
          IN  /\ task[w].pc \in Holding
              /\ task'[w] # task[w]
              /\ job[j].status # "RUNNING" \/ job[j].owner # w
              => job'[j] = job[j] /\ version'[j] = version[j]]_vars

(* Work done stays done: chunks are never dropped nor vectors erased, by   *)
(* no retry, recovery or manual retry.                                     *)
IndexOnlyGrows ==
    [][\A j \in JobId : /\ source[j] => source'[j]
                        /\ Embedded(j) \subseteq Embedded(j)']_vars

-----------------------------------------------------------------------------
(* When leases outlive their tasks, as the settings demand.                *)

(* At most one task works on a job between claim and release, and a        *)
(* finished batch is never embedded again: the vectors a task writes are   *)
(* of chunks that have none.                                               *)
OneTaskPerJob ==
    /\ \A v, w \in Worker :
          /\ v # w
          /\ task[v].pc \in Holding /\ task[w].pc \in Holding
          => task[v].job # task[w].job
    /\ \A w \in Worker : At(w, "write") =>
          task[w].todo \cap Embedded(task[w].job) = {}

(* The vectors of a document come from one model, although the provider    *)
(* may change models between a batch's read and its write.                 *)
OneModelPerSource ==
    \A j \in JobId : \A c, d \in Embedded(j) : embedding[j][c] = embedding[j][d]

-----------------------------------------------------------------------------
(* The inductive invariants behind these properties.                       *)

(* What a batch task may rely on from its read on.                         *)
BatchSound(w) ==
    LET t == task[w]
        indexed == Embedded(t.job)
    IN  /\ t.pc \in {"write", "advance", "complete"} =>
               source[t.job] /\ t.seen \subseteq indexed
        /\ t.pc = "write" => t.model # NoModel
        /\ t.pc \in {"advance", "complete"} => t.todo \subseteq indexed
        /\ t.pc = "complete" => indexed = Chunk

IndexInv ==
    /\ TypeOK
    /\ ReadyDraftIffSucceeded
    /\ SucceededFullyIndexed
    /\ \A j \in JobId : source[j] \/ Embedded(j) = {}
    /\ \A w \in Worker : BatchSound(w)

(* A job whose last attempt is under way or spent has reached CHUNKING, so *)
(* a claim beyond the budget gets no further than its first advance.       *)
BudgetInv ==
    /\ TypeOK
    /\ AttemptsBounded
    /\ \A j \in JobId :
           \/ job[j].status = "QUEUED" /\ job[j].attempt >= MaxAttempts
           \/ job[j].status = "RUNNING" /\ job[j].attempt > MaxAttempts
           => job[j].stage = "CHUNKING"
    /\ \A w \in Worker :
           /\ task[w].pc \in Holding /\ task[w].attempt > MaxAttempts
                  => task[w].pc = "parse"
           /\ task[w].pc \in Holding \ {"parse", "chunk"} /\ Owned(w)
                  => job[task[w].job].stage = "CHUNKING"

(* A lease that outlives its task is owned as long as the task goes on.    *)
LeaseInv ==
    /\ TypeOK
    /\ LeaseOutlivesTask =>
           \A w \in Worker : task[w].pc \in Holding => Owned(w)

(* Then a batch is of chunks that are still without a vector when it is    *)
(* written, and of the model that the others are from.                     *)
BatchInv ==
    LeaseOutlivesTask =>
        /\ OneModelPerSource
        /\ \A w \in Worker : At(w, "write") =>
              /\ task[w].todo \cap Embedded(task[w].job) = {}
              /\ \A c \in Embedded(task[w].job) :
                    embedding[task[w].job][c] = task[w].model
=============================================================================
