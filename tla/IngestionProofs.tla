---------------------------- MODULE IngestionProofs ----------------------------
(***************************************************************************)
(* Proofs about Ingestion, for every set of workers and uploads, every     *)
(* retry budget, chunk count and batch size: its types and index, the      *)
(* abstract module it implements, and what the lease protects.             *)
(***************************************************************************)
EXTENDS IngestionRefinement, FiniteSetTheorems, WellFoundedInduction, TLAPS

USE MaxAttemptsPositive, NoWorkerIsNone, ChunksAssumption, NoModelIsNone,
    NoJobIsNone, LeaseAssumption, FaultsAssumption

-----------------------------------------------------------------------------
(* Updating a field of a job row or of a task's frame with a value of its  *)
(* type keeps the record's type.                                           *)
LEMMA JobFields ==
    ASSUME NEW j \in Job
    PROVE  /\ \A x \in IngestionStatus : [j EXCEPT !.status = x] \in Job
           /\ \A x \in IngestionStage : [j EXCEPT !.stage = x] \in Job
           /\ \A x \in 0..100 : [j EXCEPT !.progress = x] \in Job
           /\ \A x \in Nat : [j EXCEPT !.attempt = x] \in Job
           /\ \A x \in Worker \cup {NoWorker} : [j EXCEPT !.owner = x] \in Job
           /\ \A x \in {"none", "live", "expired"} :
                 [j EXCEPT !.lease = x] \in Job
           /\ \A x \in BOOLEAN : [j EXCEPT !.due = x] \in Job
           /\ \A x \in BOOLEAN : [j EXCEPT !.dispatched = x] \in Job
  BY DEF Job

(* The same for the frame of a worker's task.                              *)
LEMMA TaskFields ==
    ASSUME NEW t \in Task
    PROVE  /\ \A x \in PC : [t EXCEPT !.pc = x] \in Task
           /\ \A x \in {"process", "batch"} : [t EXCEPT !.kind = x] \in Task
           /\ \A x \in JobId \cup {NoJob} : [t EXCEPT !.job = x] \in Task
           /\ \A x \in Nat : [t EXCEPT !.attempt = x] \in Task
           /\ \A x \in BOOLEAN : [t EXCEPT !.manifest = x] \in Task
           /\ \A x \in 0..NumChunks : [t EXCEPT !.count = x] \in Task
           /\ \A x \in SUBSET Chunk : [t EXCEPT !.seen = x] \in Task
           /\ \A x \in SUBSET Chunk : [t EXCEPT !.todo = x] \in Task
           /\ \A x \in Model \cup {NoModel} : [t EXCEPT !.model = x] \in Task
  BY DEF Task

(* Updating the status of a version row keeps its type.                    *)
LEMMA VersionFields ==
    ASSUME NEW v \in Version
    PROVE  \A x \in DocumentVersionStatus : [v EXCEPT !.status = x] \in Version
  BY DEF Version

(* Every transition of the job row yields a job row.                       *)
LEMMA TransitionTypes ==
    ASSUME NEW j \in Job
    PROVE  /\ NewJob \in Job
           /\ \A w \in Worker : Claim(j, w) \in Job
           /\ \A w \in Worker : ClaimContinuation(j, w) \in Job
           /\ ReleaseForContinuation(j) \in Job
           /\ Complete(j) \in Job
           /\ \A r \in BOOLEAN : Fail(j, r) \in Job
           /\ RecoverExpired(j) \in Job
           /\ ManualRetry(j) \in Job
           /\ MarkDispatched(j) \in Job
  <1>1. /\ {"QUEUED", "RUNNING", "RETRY_SCHEDULED", "SUCCEEDED", "FAILED"}
               \subseteq IngestionStatus
        /\ "STORED" \in IngestionStage /\ "COMPLETED" \in IngestionStage
        /\ NoWorker \in Worker \cup {NoWorker}
        /\ 0 \in 0..100 /\ 100 \in 0..100
        /\ {"none", "live", "expired"} = {"none", "live", "expired"}
        /\ j.stage \in IngestionStage /\ j.progress \in 0..100
        /\ j.attempt \in Nat /\ j.attempt + 1 \in Nat
        /\ j.dispatched \in BOOLEAN
    BY DEF IngestionStatus, IngestionStage, Job
  <1>2. NewJob \in Job /\ ManualRetry(j) \in Job
    BY DEF Job, NewJob, ManualRetry, IngestionStatus, IngestionStage
  <1>3. ASSUME NEW w \in Worker PROVE Claim(j, w) \in Job
    BY <1>1, JobFields, Zenon DEF Claim
  <1>4. ASSUME NEW w \in Worker PROVE ClaimContinuation(j, w) \in Job
    BY <1>1, JobFields, Zenon DEF ClaimContinuation
  <1>5. ReleaseForContinuation(j) \in Job
    BY <1>1, JobFields, Zenon DEF ReleaseForContinuation
  <1>6. Complete(j) \in Job
    <2>1. /\ "SUCCEEDED" \in IngestionStatus /\ "COMPLETED" \in IngestionStage
          /\ 100 \in 0..100 /\ NoWorker \in Worker \cup {NoWorker}
          /\ "none" \in {"none", "live", "expired"} /\ FALSE \in BOOLEAN
      BY <1>1
    <2> QED
      BY <2>1, JobFields, ZenonT(30) DEF Complete
  <1>7. ASSUME NEW r \in BOOLEAN PROVE Fail(j, r) \in Job
    BY <1>1, JobFields, Zenon DEF Fail
  <1>8. RecoverExpired(j) \in Job
    <2> DEFINE startOver == ~Exhausted(j) /\ j.stage # "CHUNKING"
    <2>1. /\ (IF Exhausted(j) THEN "FAILED" ELSE "QUEUED") \in IngestionStatus
          /\ (IF startOver THEN "STORED" ELSE j.stage) \in IngestionStage
          /\ (IF startOver THEN 0 ELSE j.progress) \in 0..100
          /\ (IF Exhausted(j) THEN j.dispatched ELSE FALSE) \in BOOLEAN
      BY <1>1
    <2> QED
      BY <1>1, <2>1, JobFields, Zenon DEF RecoverExpired
  <1>9. MarkDispatched(j) \in Job
    BY DEF Job, MarkDispatched
  <1> QED
    BY <1>2, <1>3, <1>4, <1>5, <1>6, <1>7, <1>8, <1>9

(* A job row that may advance to a stage and a progress stays a job row:   *)
(* the guard bounds the progress.                                          *)
LEMMA AdvanceType ==
    ASSUME NEW j \in Job, NEW stage \in IngestionStage, NEW p \in Int,
           CanAdvance(j, stage, p)
    PROVE  Advance(j, stage, p) \in Job
  <1>1. p \in 0..100
    BY DEF CanAdvance, Job
  <1> QED
    BY <1>1, JobFields, Zenon DEF Advance

(* The progress of a batch is a number, whatever the chunk count.          *)
LEMMA BatchProgressInt ==
    ASSUME NEW done \in SUBSET Chunk
    PROVE  BatchProgress(Cardinality(done)) \in Int
  <1>1. IsFiniteSet(Chunk)
    BY FS_Interval DEF Chunk
  <1>2. Cardinality(done) \in Nat
    BY <1>1, FS_Subset, FS_CardinalityType
  <1>3. ((Cardinality(done) * 25) \div NumChunks) \in Int
    BY <1>2
  <1> QED
    BY <1>3 DEF BatchProgress

(* The frames the actions build.                                           *)
LEMMA FrameTypes ==
    ASSUME TypeOK, NEW w \in Worker
    PROVE  /\ Idle \in Task
           /\ \A pc \in PC : [task[w] EXCEPT !.pc = pc] \in Task
           /\ \A pc \in PC, k \in {"process", "batch"},
                 j \in JobId \cup {NoJob}, a \in Nat :
                 [Idle EXCEPT !.pc = pc, !.kind = k, !.job = j,
                              !.attempt = a] \in Task
  <1>1. Idle \in Task
    BY DEF Idle, Task, PC, Holding
  <1>2. task[w] \in Task
    BY DEF TypeOK
  <1>3. \A pc \in PC : [task[w] EXCEPT !.pc = pc] \in Task
    BY <1>2, TaskFields
  <1>4. ASSUME NEW pc \in PC, NEW k \in {"process", "batch"},
               NEW j \in JobId \cup {NoJob}, NEW a \in Nat
        PROVE  [Idle EXCEPT !.pc = pc, !.kind = k, !.job = j,
                            !.attempt = a] \in Task
    BY <1>1, TaskFields, Zenon
  <1> QED
    BY <1>1, <1>3, <1>4

(* Replacing one worker's frame keeps the type of all frames.              *)
LEMMA SetTaskType ==
    ASSUME TypeOK, NEW w \in Worker, NEW t \in Task,
           t.pc = "idle" \/ t.job \in JobId,
           SetTask(w, t)
    PROVE  /\ task' \in [Worker -> Task]
           /\ \A v \in Worker : task'[v].pc # "idle" => task'[v].job \in JobId
  BY DEF SetTask, TypeOK

(* Writing one job row keeps the type of the table.                        *)
LEMMA SetJobType ==
    ASSUME TypeOK, NEW j \in JobId, NEW row \in Job, SetJob(j, row)
    PROVE  job' \in [JobId -> Job]
  BY DEF SetJob, TypeOK

(* Writing the status of one version keeps the type of the table.          *)
LEMMA SetVersionType ==
    ASSUME TypeOK, NEW j \in JobId, NEW s \in DocumentVersionStatus,
           SetVersionStatus(j, s)
    PROVE  version' \in [JobId -> Version]
  BY VersionFields DEF SetVersionStatus, TypeOK

(* A task that ends leaves well-typed frames.                              *)
LEMMA FinishType ==
    ASSUME TypeOK, NEW w \in Worker, Finish(w)
    PROVE  /\ task' \in [Worker -> Task]
           /\ \A v \in Worker : task'[v].pc # "idle" => task'[v].job \in JobId
  <1>1. Idle \in Task /\ Idle.pc = "idle"
    BY FrameTypes DEF Idle
  <1> QED
    BY <1>1, SetTaskType DEF Finish

(* A task that goes on to its next call leaves well-typed frames.          *)
LEMMA GotoType ==
    ASSUME TypeOK, NEW w \in Worker, task[w].job \in JobId, NEW pc \in PC,
           Goto(w, pc) \/ GotoFresh(w, pc)
    PROVE  /\ task' \in [Worker -> Task]
           /\ \A v \in Worker : task'[v].pc # "idle" => task'[v].job \in JobId
  <1>1. CASE Goto(w, pc)
    <2>1. [task[w] EXCEPT !.pc = pc] \in Task
      BY FrameTypes
    <2>2. [task[w] EXCEPT !.pc = pc].job \in JobId
      BY DEF TypeOK, Task
    <2> QED
      BY <1>1, <2>1, <2>2, SetTaskType DEF Goto
  <1>2. CASE GotoFresh(w, pc)
    <2> DEFINE a == IF pc \in Holding THEN task[w].attempt ELSE 0
    <2> DEFINE t == [Idle EXCEPT !.pc = pc, !.kind = task[w].kind,
                                 !.job = task[w].job, !.attempt = a]
    <2>1. /\ task[w].kind \in {"process", "batch"} /\ a \in Nat
          /\ task[w].job \in JobId \cup {NoJob}
      BY DEF TypeOK, Task
    <2>2. t \in Task
      BY <2>1, FrameTypes, Zenon
    <2>3. t.job \in JobId
      BY DEF Idle
    <2>4. SetTask(w, t)
      BY <1>2 DEF GotoFresh
    <2> HIDE DEF t
    <2> QED
      BY <2>2, <2>3, <2>4, SetTaskType
  <1> QED
    BY <1>1, <1>2
(* Every step of a task keeps the types.                                   *)
LEMMA WorkerStepType ==
    ASSUME TypeOK, NEW w \in Worker, WorkerStep(w)
    PROVE  TypeOK'
  <1> DEFINE j == task[w].job
  <1> USE DEF TypeOK, rows, knowledge, outside
  <1>1. task[w].pc # "idle" /\ j \in JobId
    <2>1. \/ task[w].pc \in Holding
          \/ task[w].pc \in {"claim", "dispatch", "mark"}
      BY DEF WorkerStep, At, Holding, ClaimJob, ClaimRejected, AdvanceParsing,
             AdvanceChunking, PrepareChunks, RecordChunkManifest, ReleaseJob,
             EnqueueBatch, MarkBatchDispatched, ReadBatch, WriteBatch,
             AdvanceBatch, CompleteJob, FailJob, LeaseLost
    <2> QED
      BY <2>1 DEF Holding
  <1> HIDE DEF j
  <1>2. CASE ClaimJob(w)
    <2> DEFINE a == Claim(job[j], w).attempt
               t == [task[w] EXCEPT !.pc = "parse", !.attempt = a]
    <2>1. Claim(job[j], w) \in Job /\ a \in Nat
      BY <1>1, TransitionTypes DEF Job
    <2>2. t \in Task
      <3>1. "parse" \in PC /\ task[w] \in Task
        BY DEF PC, Holding
      <3> QED
        BY <2>1, <3>1, TaskFields, Zenon
    <2>3. t.job \in JobId
      BY <1>1 DEF Task, j
    <2>4. SetTask(w, t) /\ SetJob(j, Claim(job[j], w))
      BY <1>2 DEF ClaimJob, j
    <2>5. job' \in [JobId -> Job]
      BY <1>1, <2>1, <2>4, SetJobType
    <2>6. /\ task' \in [Worker -> Task]
          /\ \A v \in Worker : task'[v].pc # "idle" => task'[v].job \in JobId
      <3> HIDE DEF t
      <3> QED
        BY <2>2, <2>3, <2>4, SetTaskType
    <2> QED
      BY <1>2, <2>5, <2>6 DEF ClaimJob
  <1>3. CASE ClaimRejected(w)
    BY <1>3, FinishType DEF ClaimRejected
  <1>4. ASSUME NEW stage \in {"PARSING", "CHUNKING"}, NEW p \in Int,
               NEW next \in PC, AdvanceTo(w, stage, p, next)
        PROVE  TypeOK'
    <2>1. stage \in IngestionStage /\ stage \in DocumentVersionStatus
      BY DEF IngestionStage, DocumentVersionStatus
    <2>2. CanAdvance(job[j], stage, p) /\ SetJob(j, Advance(job[j], stage, p))
      BY <1>4 DEF AdvanceTo, j
    <2>3. Advance(job[j], stage, p) \in Job
      BY <1>1, <2>1, <2>2, AdvanceType
    <2>4. job' \in [JobId -> Job]
      BY <1>1, <2>2, <2>3, SetJobType
    <2>5. version' \in [JobId -> Version]
      BY <1>1, <1>4, <2>1, SetVersionType DEF AdvanceTo, j
    <2>6. /\ task' \in [Worker -> Task]
          /\ \A v \in Worker : task'[v].pc # "idle" => task'[v].job \in JobId
      BY <1>1, <1>4, GotoType DEF AdvanceTo, j
    <2> QED
      BY <1>4, <2>4, <2>5, <2>6 DEF AdvanceTo
  <1>5. CASE AdvanceParsing(w)
    BY <1>4, <1>5 DEF AdvanceParsing, PC, Holding
  <1>6. CASE AdvanceChunking(w)
    BY <1>4, <1>6 DEF AdvanceChunking, PC, Holding
  <1>7. CASE AdvanceBatch(w)
    <2> DEFINE done == task[w].seen \cup task[w].todo
               next == IF done = Chunk THEN "complete" ELSE "release"
    <2>1. done \in SUBSET Chunk
      BY DEF Task
    <2>2. BatchProgress(Cardinality(done)) \in Int
      BY <2>1, BatchProgressInt
    <2>3. next \in PC
      BY DEF PC, Holding
    <2>4. AdvanceTo(w, "CHUNKING", BatchProgress(Cardinality(done)), next)
      BY <1>7 DEF AdvanceBatch
    <2> QED
      BY <1>4, <2>2, <2>3, <2>4
  <1>8. CASE PrepareChunks(w)
    <2> DEFINE n == IF source'[j] THEN NumChunks ELSE 0
               t == [task[w] EXCEPT !.pc = "record", !.count = n]
    <2>1. t \in Task
      <3>1. "record" \in PC /\ n \in 0..NumChunks /\ task[w] \in Task
        BY DEF PC, Holding
      <3> QED
        BY <3>1, TaskFields, Zenon
    <2>2. t.job \in JobId
      BY <1>1 DEF Task, j
    <2>3. SetTask(w, t)
      BY <1>8 DEF PrepareChunks, j
    <2>4. /\ task' \in [Worker -> Task]
          /\ \A v \in Worker : task'[v].pc # "idle" => task'[v].job \in JobId
      <3> HIDE DEF t
      <3> QED
        BY <2>1, <2>2, <2>3, SetTaskType
    <2>5. source' \in [JobId -> BOOLEAN]
      BY <1>8, <1>1 DEF PrepareChunks, CreatesChunks, j
    <2>6. embedding' \in [JobId -> [Chunk -> Model \cup {NoModel}]]
      BY <1>8, <1>1 DEF PrepareChunks, j
    <2> QED
      BY <1>8, <2>4, <2>5, <2>6 DEF PrepareChunks
  <1>9. CASE RecordChunkManifest(w)
    <2>1. [status |-> "CHUNKED", manifest |-> TRUE, count |-> task[w].count]
              \in Version
      BY DEF Version, DocumentVersionStatus, Task
    <2>2. version' \in [JobId -> Version]
      BY <1>9, <1>1, <2>1 DEF RecordChunkManifest, SetVersion, j
    <2>3. "release" \in PC
      BY DEF PC, Holding
    <2> QED
      BY <1>9, <1>1, <2>2, <2>3, GotoType DEF RecordChunkManifest, j
  <1>10. CASE ReleaseJob(w)
    <2>1. job' \in [JobId -> Job]
      BY <1>10, <1>1, TransitionTypes, SetJobType DEF ReleaseJob, j
    <2>2. version' \in [JobId -> Version]
      BY <1>10, <1>1, SetVersionType DEF ReleaseJob, j, DocumentVersionStatus
    <2>3. "dispatch" \in PC
      BY DEF PC
    <2> QED
      BY <1>10, <1>1, <2>1, <2>2, <2>3, GotoType DEF ReleaseJob, j
  <1>11. CASE EnqueueBatch(w)
    <2>1. "mark" \in PC
      BY DEF PC
    <2> QED
      BY <1>11, <1>1, <2>1, GotoType DEF EnqueueBatch, j, Message
  <1>12. CASE MarkBatchDispatched(w)
    BY <1>12, <1>1, TransitionTypes, SetJobType, FinishType
    DEF MarkBatchDispatched, j
  <1>13. CASE ReadBatch(w)
    <2> DEFINE todo == NextBatch(j)
               pc == IF todo = {} THEN "advance" ELSE "write"
               m == IF todo = {} THEN NoModel ELSE served
               t == [task[w] EXCEPT !.pc = pc, !.seen = Embedded(j),
                                    !.todo = todo, !.model = m]
    <2>1. t \in Task
      <3>1. /\ pc \in PC /\ Embedded(j) \in SUBSET Chunk
            /\ todo \in SUBSET Chunk /\ m \in Model \cup {NoModel}
            /\ task[w] \in Task
        BY DEF PC, Holding, Embedded, NextBatch
      <3> HIDE DEF pc, todo, m
      <3> QED
        BY <3>1, TaskFields, Zenon
    <2>2. t.job \in JobId
      BY <1>1 DEF Task, j
    <2>3. SetTask(w, t)
      BY <1>13 DEF ReadBatch, j
    <2>4. /\ task' \in [Worker -> Task]
          /\ \A v \in Worker : task'[v].pc # "idle" => task'[v].job \in JobId
      <3> HIDE DEF t
      <3> QED
        BY <2>1, <2>2, <2>3, SetTaskType
    <2> QED
      BY <1>13, <2>4 DEF ReadBatch
  <1>14. CASE WriteBatch(w)
    <2> DEFINE t == [task[w] EXCEPT !.pc = "advance", !.model = NoModel]
    <2>1. t \in Task
      <3>1. /\ "advance" \in PC /\ NoModel \in Model \cup {NoModel}
            /\ task[w] \in Task
        BY DEF PC, Holding
      <3> QED
        BY <3>1, TaskFields, Zenon
    <2>2. t.job \in JobId
      BY <1>1 DEF Task, j
    <2>3. SetTask(w, t)
      BY <1>14 DEF WriteBatch, j
    <2>4. /\ task' \in [Worker -> Task]
          /\ \A v \in Worker : task'[v].pc # "idle" => task'[v].job \in JobId
      <3> HIDE DEF t
      <3> QED
        BY <2>1, <2>2, <2>3, SetTaskType
    <2>5. embedding' \in [JobId -> [Chunk -> Model \cup {NoModel}]]
      BY <1>14, <1>1 DEF WriteBatch, j, Task
    <2> QED
      BY <1>14, <2>4, <2>5 DEF WriteBatch
  <1>15. CASE CompleteJob(w)
    <2>1. [status |-> "READY_DRAFT", manifest |-> task[w].manifest,
           count |-> task[w].count] \in Version
      BY DEF Version, DocumentVersionStatus, Task
    <2>2. version' \in [JobId -> Version]
      BY <1>15, <1>1, <2>1 DEF CompleteJob, SetVersion, j
    <2>3. job' \in [JobId -> Job]
      BY <1>15, <1>1, TransitionTypes, SetJobType DEF CompleteJob, j
    <2> QED
      BY <1>15, <2>2, <2>3, FinishType DEF CompleteJob
  <1>16. CASE FailJob(w)
    <2>1. PICK retryable \in BOOLEAN, status \in DocumentVersionStatus :
             /\ SetJob(j, Fail(job[j], retryable))
             /\ SetVersionStatus(j, IF CanRetry(job[j], retryable)
                                      THEN "UPLOADED" ELSE status)
      BY <1>16 DEF FailJob, j
    <2>3. job' \in [JobId -> Job]
      BY <1>1, <2>1, TransitionTypes, SetJobType
    <2>4. version' \in [JobId -> Version]
      <3>1. "UPLOADED" \in DocumentVersionStatus
        BY DEF DocumentVersionStatus
      <3> QED
        BY <1>1, <2>1, <3>1, SetVersionType
    <2>5. /\ task' \in [Worker -> Task]
          /\ \A v \in Worker : task'[v].pc # "idle" => task'[v].job \in JobId
      <3>1. "dispatch" \in PC
        BY DEF PC
      <3> QED
        BY <1>16, <1>1, <3>1, GotoType, FinishType DEF FailJob, j
    <2> QED
      BY <1>16, <2>3, <2>4, <2>5 DEF FailJob
  <1>17. CASE LeaseLost(w)
    BY <1>17, FinishType DEF LeaseLost
  <1> QED
    BY <1>2, <1>3, <1>5, <1>6, <1>7, <1>8, <1>9, <1>10, <1>11, <1>12, <1>13,
       <1>14, <1>15, <1>16, <1>17 DEF WorkerStep

(* The rows, queues and frames of a fresh deployment are well typed.       *)
LEMMA InitTypes == Init => TypeOK
  <1> SUFFICES ASSUME Init PROVE TypeOK
    OBVIOUS
  <1>1. [NewJob EXCEPT !.status = "ABSENT"] \in Job
    <2>1. NewJob \in Job /\ "ABSENT" \in IngestionStatus
      BY DEF NewJob, Job, IngestionStatus, IngestionStage
    <2> QED
      BY <2>1, JobFields
  <1>2. Idle \in Task /\ Idle.pc = "idle"
    BY DEF Idle, Task, PC, Holding
  <1> QED
    BY <1>1, <1>2 DEF Init, TypeOK, Version, DocumentVersionStatus, Dispatch

(* TypeOK is an invariant, for every value of the constants.               *)
THEOREM TypeCorrect == Spec => []TypeOK
  <1>1. Init => TypeOK
    BY InitTypes
  <1>2. TypeOK /\ [Next]_vars => TypeOK'
    <2> SUFFICES ASSUME TypeOK, [Next]_vars PROVE TypeOK'
      OBVIOUS
    <2> USE DEF TypeOK, rows, knowledge, outside
    <2>1. ASSUME NEW j \in JobId, CommitUpload(j) PROVE TypeOK'
      <3>1. NewJob \in Job
        <4>1. job[j] \in Job
          OBVIOUS
        <4> QED
          BY <4>1, TransitionTypes
      <3>2. job' \in [JobId -> Job]
        BY <2>1, <3>1, SetJobType DEF CommitUpload
      <3> QED
        BY <2>1, <3>2 DEF CommitUpload, Dispatch
    <2>2. ASSUME NEW j \in JobId, RetryJob(j) PROVE TypeOK'
      <3>1. job' \in [JobId -> Job]
        BY <2>2, TransitionTypes, SetJobType DEF RetryJob
      <3>2. version' \in [JobId -> Version]
        BY <2>2, SetVersionType DEF RetryJob, DocumentVersionStatus
      <3> QED
        BY <2>2, <3>1, <3>2 DEF RetryJob, Dispatch
    <2>3. ASSUME NEW d \in dispatching, DispatchEnqueue(d) PROVE TypeOK'
      BY <2>3 DEF DispatchEnqueue, Dispatch, Message
    <2>4. ASSUME NEW d \in dispatching, DispatchMark(d) PROVE TypeOK'
      <3>1. d.job \in JobId
        BY DEF Dispatch
      <3>2. job' \in [JobId -> Job]
        BY <2>4, <3>1, TransitionTypes, SetJobType DEF DispatchMark
      <3> QED
        BY <2>4, <3>2 DEF DispatchMark
    <2>5. ASSUME NEW d \in dispatching, DispatchFails(d) PROVE TypeOK'
      BY <2>5 DEF DispatchFails
    <2>6. ASSUME NEW recovered \in SUBSET JobId, Recover(recovered)
          PROVE  TypeOK'
      <3>1. job' \in [JobId -> Job]
        BY <2>6, TransitionTypes DEF Recover
      <3>2. version' \in [JobId -> Version]
        BY <2>6, VersionFields
        DEF Recover, RecoveredVersion, DocumentVersionStatus
      <3> QED
        BY <2>6, <3>1, <3>2 DEF Recover, Dispatch
    <2>7. ASSUME NEW m \in messages, LoseMessage(m) PROVE TypeOK'
      BY <2>7 DEF LoseMessage
    <2>8. ASSUME NEW m \in messages, NEW w \in Worker, Receive(w, m)
          PROVE  TypeOK'
      <3> DEFINE p == IF CanClaimContinuation(job[m.job]) THEN "dispatch"
                                                          ELSE "claim"
      <3>1. m.job \in JobId
        BY DEF Message
      <3>2. CASE PeekJob(w, m)
        <4>1. p \in PC /\ m.job \in JobId \cup {NoJob}
          BY <3>1 DEF PC
        <4>2. [Idle EXCEPT !.job = m.job, !.pc = p] \in Task
          BY <4>1, FrameTypes, TaskFields, Zenon
        <4>3. [Idle EXCEPT !.job = m.job, !.pc = p].job \in JobId
          BY <3>1 DEF Idle
        <4>4. /\ task' \in [Worker -> Task]
              /\ \A v \in Worker :
                    task'[v].pc # "idle" => task'[v].job \in JobId
          BY <3>2, <4>2, <4>3, SetTaskType DEF PeekJob
        <4> QED
          BY <3>2, <4>4 DEF PeekJob, Deliver
      <3>3. CASE ContinueJob(w, m)
        <4> DEFINE a == ClaimContinuation(job[m.job], w).attempt
                   t == [Idle EXCEPT !.pc = "read", !.kind = "batch",
                             !.job = m.job, !.attempt = a,
                             !.manifest = version[m.job].manifest,
                             !.count = version[m.job].count]
        <4>1. ClaimContinuation(job[m.job], w) \in Job /\ a \in Nat
          BY <3>1, TransitionTypes DEF Job
        <4>2. /\ "read" \in PC /\ "batch" \in {"process", "batch"}
              /\ m.job \in JobId \cup {NoJob}
              /\ version[m.job].manifest \in BOOLEAN
              /\ version[m.job].count \in 0..NumChunks
          BY <3>1 DEF PC, Holding, Version
        <4>3. t \in Task
          BY <4>1, <4>2, FrameTypes, TaskFields, Zenon
        <4>4. t.job \in JobId
          BY <3>1 DEF Idle
        <4>5. SetTask(w, t)
          BY <3>3 DEF ContinueJob
        <4>6. /\ task' \in [Worker -> Task]
              /\ \A v \in Worker :
                    task'[v].pc # "idle" => task'[v].job \in JobId
          <5> HIDE DEF t
          <5> QED
            BY <4>3, <4>4, <4>5, SetTaskType
        <4>7. job' \in [JobId -> Job]
          BY <3>3, <3>1, <4>1, SetJobType DEF ContinueJob
        <4> QED
          BY <3>3, <4>6, <4>7 DEF ContinueJob, Deliver
      <3>4. CASE ContinueRejected(w, m)
        BY <3>4 DEF ContinueRejected, Deliver
      <3> QED
        BY <2>8, <3>2, <3>3, <3>4 DEF Receive
    <2>9. ASSUME NEW w \in Worker, WorkerStep(w) PROVE TypeOK'
      BY <2>9, WorkerStepType
    <2>10. ASSUME NEW w \in Worker, Crash(w) PROVE TypeOK'
      BY <2>10, FinishType DEF Crash
    <2>11. ASSUME NEW j \in JobId,
                  LeaseExpires(j) \/ RetryFallsDue(j) \/ DispatchGoesStale(j)
           PROVE  TypeOK'
      <3>1. /\ [job[j] EXCEPT !.lease = "expired"] \in Job
            /\ [job[j] EXCEPT !.due = TRUE] \in Job
            /\ [job[j] EXCEPT !.dispatched = FALSE] \in Job
        BY JobFields
      <3>2. job' \in [JobId -> Job]
        BY <2>11, <3>1, Zenon
        DEF LeaseExpires, RetryFallsDue, DispatchGoesStale
      <3> QED
        BY <2>11, <3>2 DEF LeaseExpires, RetryFallsDue, DispatchGoesStale
    <2>12. ASSUME NEW m \in Model, ServeModel(m) PROVE TypeOK'
      BY <2>12 DEF ServeModel
    <2>13. CASE UNCHANGED vars
      BY <2>13 DEF vars
    <2> QED
      BY <2>1, <2>2, <2>3, <2>4, <2>5, <2>6, <2>7, <2>8, <2>9, <2>10, <2>11,
         <2>12, <2>13 DEF Next
  <1> QED
    BY <1>1, <1>2, PTL DEF Spec
-----------------------------------------------------------------------------
(* The rows a worker's step leaves alone.                                  *)
LEMMA AdvanceToEffect ==
    ASSUME TypeOK, NEW w \in Worker, task[w].job \in JobId,
           NEW stage, NEW p, NEW next, AdvanceTo(w, stage, p, next)
    PROVE  /\ Owned(w)
           /\ CanAdvance(job[task[w].job], stage, p)
           /\ \A j \in JobId : job'[j].status = job[j].status
           /\ \A j \in JobId :
                 version'[j].status = IF j = task[w].job THEN stage
                                      ELSE version[j].status
           /\ UNCHANGED knowledge
           /\ \A v \in Worker \ {w} : task'[v] = task[v]
           /\ task'[w].pc = next
           /\ task'[w].job = task[w].job
           /\ next = "complete" => /\ task'[w].seen = task[w].seen
                                   /\ task'[w].todo = task[w].todo
  <1> USE DEF AdvanceTo, TypeOK
  <1>1. /\ Owned(w) /\ CanAdvance(job[task[w].job], stage, p)
        /\ UNCHANGED knowledge
    OBVIOUS
  <1>2. \A j \in JobId : job'[j].status = job[j].status
    BY DEF SetJob, Advance, Job
  <1>3. \A j \in JobId :
           version'[j].status = IF j = task[w].job THEN stage
                                ELSE version[j].status
    BY DEF SetVersionStatus, Version
  <1>4. \A v \in Worker \ {w} : task'[v] = task[v]
    BY DEF Goto, GotoFresh, SetTask
  <1>5. /\ task'[w].pc = next /\ task'[w].job = task[w].job
        /\ next = "complete" => /\ task'[w].seen = task[w].seen
                                /\ task'[w].todo = task[w].todo
    <2>1. CASE next = "complete"
      BY <2>1 DEF Goto, SetTask, Task
    <2>2. CASE next # "complete"
      <3>1. task' = [task EXCEPT ![w] =
                [Idle EXCEPT !.pc = next, !.kind = task[w].kind,
                             !.job = task[w].job,
                             !.attempt = IF next \in Holding
                                           THEN task[w].attempt ELSE 0]]
        BY <2>2 DEF GotoFresh, SetTask
      <3>2. task'[w] = [Idle EXCEPT !.pc = next, !.kind = task[w].kind,
                             !.job = task[w].job,
                             !.attempt = IF next \in Holding
                                           THEN task[w].attempt ELSE 0]
        BY <3>1
      <3> QED
        BY <2>2, <3>2 DEF Idle
    <2> QED
      BY <2>1, <2>2
  <1> QED
    BY <1>1, <1>2, <1>3, <1>4, <1>5

(* Only chunk preparation and the write of a batch touch the chunks.       *)
LEMMA KnowledgeMoves ==
    ASSUME Next
    PROVE  \/ UNCHANGED knowledge
           \/ \E w \in Worker : PrepareChunks(w) \/ WriteBatch(w)
  <1>1. ASSUME NEW w \in Worker, WorkerStep(w)
        PROVE  UNCHANGED knowledge \/ PrepareChunks(w) \/ WriteBatch(w)
    BY <1>1
    DEF WorkerStep, ClaimJob, ClaimRejected, AdvanceParsing, AdvanceChunking,
        AdvanceTo, RecordChunkManifest, ReleaseJob, EnqueueBatch,
        MarkBatchDispatched, ReadBatch, AdvanceBatch, CompleteJob, FailJob,
        LeaseLost
  <1> QED
    BY <1>1
    DEF Next, CommitUpload, RetryJob, DispatchEnqueue, DispatchMark,
        DispatchFails, Recover, LoseMessage, Receive, PeekJob, ContinueJob,
        ContinueRejected, Crash, LeaseExpires, RetryFallsDue,
        DispatchGoesStale, ServeModel

(* Both only add to them.                                                  *)
LEMMA Growth ==
    ASSUME IndexInv, [Next]_vars
    PROVE  \A j \in JobId : /\ source[j] => source'[j]
                            /\ Embedded(j) \subseteq Embedded(j)'
                            /\ source'[j] \/ Embedded(j)' = {}
  <1> USE DEF IndexInv
  <1>1. CASE UNCHANGED knowledge
    BY <1>1 DEF knowledge, Embedded
  <1>2. ASSUME NEW w \in Worker, PrepareChunks(w)
        PROVE  \A j \in JobId : /\ source[j] => source'[j]
                                /\ Embedded(j) \subseteq Embedded(j)'
                                /\ source'[j] \/ Embedded(j)' = {}
    <2>1. /\ source' = [source EXCEPT ![task[w].job] =
                           @ \/ CreatesChunks(task[w].job)]
          /\ embedding' = IF CreatesChunks(task[w].job)
                            THEN [embedding EXCEPT ![task[w].job] =
                                      [c \in Chunk |-> NoModel]]
                            ELSE embedding
      BY <1>2 DEF PrepareChunks
    <2>2. CreatesChunks(task[w].job) => ~source[task[w].job]
      BY DEF CreatesChunks
    <2> QED
      BY <2>1, <2>2 DEF Embedded, TypeOK
  <1>3. ASSUME NEW w \in Worker, WriteBatch(w)
        PROVE  \A j \in JobId : /\ source[j] => source'[j]
                                /\ Embedded(j) \subseteq Embedded(j)'
                                /\ source'[j] \/ Embedded(j)' = {}
    <2>1. /\ source' = source /\ task[w].model # NoModel
          /\ source[task[w].job]
          /\ embedding' = [embedding EXCEPT ![task[w].job] = [c \in Chunk |->
                 IF c \in task[w].todo THEN task[w].model ELSE @[c]]]
      BY <1>3 DEF WriteBatch, BatchSound, At
    <2> QED
      BY <2>1 DEF Embedded, TypeOK
  <1> QED
    BY <1>1, <1>2, <1>3, KnowledgeMoves DEF vars, knowledge

(* A frame that a step leaves alone stays sound, and so does a frame not   *)
(* yet in the middle of a batch.                                           *)
LEMMA SoundKept ==
    ASSUME IndexInv, [Next]_vars, NEW w \in Worker,
           \/ task'[w] = task[w]
           \/ task'[w].pc \notin {"write", "advance", "complete"}
    PROVE  BatchSound(w)'
  <1>1. CASE task'[w].pc \notin {"write", "advance", "complete"}
    BY <1>1 DEF BatchSound
  <1>2. CASE /\ task'[w] = task[w]
             /\ task[w].pc \in {"write", "advance", "complete"}
    <2>1. PICK k \in JobId : k = task[w].job
      BY <1>2 DEF IndexInv, TypeOK
    <2>2. /\ source[k] => source'[k]
          /\ Embedded(k) \subseteq Embedded(k)'
      BY Growth
    <2>3. Embedded(k)' \subseteq Chunk
      BY DEF Embedded
    <2>4. Embedded(task[w].job) = Embedded(k)
      BY <2>1
    <2>5. Embedded(task[w].job)' = Embedded(k)'
      BY <1>2, <2>1 DEF Embedded
    <2>6. BatchSound(w)
      BY DEF IndexInv
    <2> QED
      BY <1>2, <2>1, <2>2, <2>3, <2>4, <2>5, <2>6 DEF BatchSound
  <1> QED
    BY <1>1, <1>2
(* The frame of a worker after any step: untouched, out of the batch, or   *)
(* moved by one of the three batch steps.                                  *)
LEMMA FrameMoves ==
    ASSUME TypeOK, [Next]_vars, NEW w \in Worker
    PROVE  \/ task'[w] = task[w]
           \/ task'[w].pc \notin {"write", "advance", "complete"}
           \/ ReadBatch(w) \/ WriteBatch(w) \/ AdvanceBatch(w)
  <1> DEFINE Fine == \/ task'[w] = task[w]
                     \/ task'[w].pc \notin {"write", "advance", "complete"}
                     \/ ReadBatch(w) \/ WriteBatch(w) \/ AdvanceBatch(w)
  <1>1. ASSUME NEW v \in Worker, NEW t, SetTask(v, t),
               t.pc \notin {"write", "advance", "complete"}
        PROVE  Fine
    BY <1>1 DEF SetTask, TypeOK
  <1>2. ASSUME NEW v \in Worker, Finish(v) PROVE Fine
    BY <1>1, <1>2 DEF Finish, Idle
  <1>3. ASSUME NEW v \in Worker,
               NEW pc \in PC \ {"write", "advance", "complete"},
               Goto(v, pc) \/ GotoFresh(v, pc)
        PROVE  Fine
    <2>1. [task[v] EXCEPT !.pc = pc].pc = pc
      BY DEF TypeOK, Task
    <2>2. [Idle EXCEPT !.pc = pc, !.kind = task[v].kind, !.job = task[v].job,
               !.attempt = IF pc \in Holding THEN task[v].attempt ELSE 0].pc
              = pc
      BY DEF Idle
    <2> QED
      BY <1>1, <1>3, <2>1, <2>2 DEF Goto, GotoFresh
  <1>4. ASSUME NEW v \in Worker, NEW m \in messages, Receive(v, m) PROVE Fine
    <2>1. CASE PeekJob(v, m)
      BY <1>1, <2>1 DEF PeekJob, Idle
    <2>2. CASE ContinueJob(v, m)
      BY <1>1, <2>2 DEF ContinueJob, Idle
    <2>3. CASE ContinueRejected(v, m)
      BY <2>3 DEF ContinueRejected
    <2> QED
      BY <1>4, <2>1, <2>2, <2>3 DEF Receive
  <1>5. ASSUME NEW v \in Worker, WorkerStep(v) PROVE Fine
    <2> USE DEF PC, Holding
    <2>1. CASE ClaimJob(v)
      <3> DEFINE t == [task[v] EXCEPT !.pc = "parse",
                           !.attempt = Claim(job[task[v].job], v).attempt]
      <3>1. SetTask(v, t)
        BY <2>1 DEF ClaimJob
      <3>2. t.pc = "parse"
        BY DEF TypeOK, Task
      <3> HIDE DEF t
      <3> QED
        BY <1>1, <3>1, <3>2
    <2>2. CASE ClaimRejected(v) \/ CompleteJob(v) \/ LeaseLost(v)
               \/ MarkBatchDispatched(v)
      BY <1>2, <2>2
      DEF ClaimRejected, CompleteJob, LeaseLost, MarkBatchDispatched
    <2>3. CASE AdvanceParsing(v)
      BY <1>3, <2>3 DEF AdvanceParsing, AdvanceTo
    <2>4. CASE AdvanceChunking(v)
      BY <1>3, <2>4 DEF AdvanceChunking, AdvanceTo
    <2>5. CASE PrepareChunks(v)
      BY <1>1, <2>5 DEF PrepareChunks, TypeOK, Task
    <2>6. CASE RecordChunkManifest(v)
      BY <1>3, <2>6 DEF RecordChunkManifest
    <2>7. CASE ReleaseJob(v)
      BY <1>3, <2>7 DEF ReleaseJob
    <2>8. CASE EnqueueBatch(v)
      BY <1>3, <2>8 DEF EnqueueBatch
    <2>9. CASE FailJob(v)
      BY <1>2, <1>3, <2>9 DEF FailJob
    <2>10. CASE ReadBatch(v) \/ WriteBatch(v) \/ AdvanceBatch(v)
      BY <2>10
      DEF ReadBatch, WriteBatch, AdvanceBatch, AdvanceTo, SetTask, Goto,
          GotoFresh, TypeOK
    <2> QED
      BY <1>5, <2>1, <2>2, <2>3, <2>4, <2>5, <2>6, <2>7, <2>8, <2>9, <2>10
      DEF WorkerStep
  <1>6. ASSUME UNCHANGED task PROVE Fine
    BY <1>6
  <1>7. ASSUME NEW v \in Worker, Crash(v) PROVE Fine
    BY <1>2, <1>7 DEF Crash
  <1> HIDE DEF Fine
  <1>8. ASSUME Next PROVE Fine
    <2>1. \/ UNCHANGED task
          \/ \E m \in messages, v \in Worker : Receive(v, m)
          \/ \E v \in Worker : WorkerStep(v) \/ Crash(v)
      BY <1>8
      DEF Next, CommitUpload, RetryJob, DispatchEnqueue, DispatchMark,
          DispatchFails, Recover, LoseMessage, LeaseExpires, RetryFallsDue,
          DispatchGoesStale, ServeModel
    <2> QED
      BY <1>4, <1>5, <1>6, <1>7, <2>1
  <1> QED
    BY <1>6, <1>8 DEF vars, Fine

(* What a batch task relies on from its read on stays true until the task  *)
(* ends, whatever the other workers, the recovery scan and the API do.     *)
LEMMA BatchSoundKept ==
    ASSUME IndexInv, [Next]_vars, NEW w \in Worker
    PROVE  BatchSound(w)'
  <1> USE DEF IndexInv, TypeOK
  <1>1. CASE \/ task'[w] = task[w]
             \/ task'[w].pc \notin {"write", "advance", "complete"}
    BY <1>1, SoundKept
  <1>2. CASE ReadBatch(w)
    <2>1. PICK k \in JobId : k = task[w].job
      BY <1>2 DEF ReadBatch, At
    <2>2. /\ source[k] /\ source' = source /\ embedding' = embedding
          /\ task'[w] = [task[w] EXCEPT
                 !.pc = IF NextBatch(k) = {} THEN "advance" ELSE "write",
                 !.seen = Embedded(k), !.todo = NextBatch(k),
                 !.model = IF NextBatch(k) = {} THEN NoModel ELSE served]
      BY <1>2, <2>1 DEF ReadBatch, SetTask, knowledge
    <2>3. /\ task'[w].pc = IF NextBatch(k) = {} THEN "advance" ELSE "write"
          /\ task'[w].job = k
          /\ task'[w].seen = Embedded(k) /\ task'[w].todo = NextBatch(k)
          /\ task'[w].model = IF NextBatch(k) = {} THEN NoModel ELSE served
      BY <2>1, <2>2 DEF Task
    <2>4. Embedded(task[w].job)' = Embedded(k)
      BY <2>2, <2>3 DEF Embedded
    <2> QED
      BY <2>2, <2>3, <2>4 DEF BatchSound
  <1>3. CASE WriteBatch(w)
    <2>1. PICK k \in JobId : k = task[w].job
      BY <1>3 DEF WriteBatch, At
    <2>2. /\ task[w].pc = "write" /\ source' = source
          /\ embedding' = [embedding EXCEPT ![k] = [c \in Chunk |->
                 IF c \in task[w].todo THEN task[w].model ELSE @[c]]]
          /\ task'[w] = [task[w] EXCEPT !.pc = "advance", !.model = NoModel]
      BY <1>3, <2>1 DEF WriteBatch, SetTask, At
    <2>3. /\ task'[w].pc = "advance" /\ task'[w].job = k
          /\ task'[w].seen = task[w].seen /\ task'[w].todo = task[w].todo
      BY <2>1, <2>2 DEF Task
    <2>4. /\ source[k] /\ task[w].seen \subseteq Embedded(k)
          /\ task[w].model # NoModel
      BY <2>1, <2>2 DEF BatchSound
    <2>5. Embedded(task[w].job)' = {c \in Chunk : embedding'[k][c] # NoModel}
      BY <2>3 DEF Embedded
    <2>6. /\ task[w].todo \subseteq Embedded(task[w].job)'
          /\ Embedded(k) \subseteq Embedded(task[w].job)'
      BY <2>2, <2>4, <2>5 DEF Embedded, Task
    <2> QED
      BY <2>2, <2>3, <2>4, <2>6 DEF BatchSound
  <1>4. CASE AdvanceBatch(w)
    <2> DEFINE done == task[w].seen \cup task[w].todo
               next == IF done = Chunk THEN "complete" ELSE "release"
    <2>1. PICK k \in JobId : k = task[w].job
      BY <1>4 DEF AdvanceBatch, At
    <2>2. /\ task[w].pc = "advance"
          /\ AdvanceTo(w, "CHUNKING", BatchProgress(Cardinality(done)), next)
      BY <1>4 DEF AdvanceBatch, At
    <2>3. /\ UNCHANGED knowledge /\ task'[w].pc = next /\ task'[w].job = k
          /\ next = "complete" => /\ task'[w].seen = task[w].seen
                                  /\ task'[w].todo = task[w].todo
      BY <2>1, <2>2, AdvanceToEffect
    <2>4. /\ source[k] /\ task[w].seen \subseteq Embedded(k)
          /\ task[w].todo \subseteq Embedded(k)
      BY <2>1, <2>2 DEF BatchSound
    <2>5. Embedded(task[w].job)' = Embedded(k) /\ Embedded(k) \subseteq Chunk
      BY <2>3 DEF Embedded, knowledge
    <2> QED
      BY <2>3, <2>4, <2>5 DEF BatchSound, knowledge
  <1> QED
    BY <1>1, <1>2, <1>3, <1>4, FrameMoves
(* A job succeeds and its version becomes READY_DRAFT in one step, of a    *)
(* task that found every chunk indexed; no step undoes either.             *)
LEMMA StatusesMove ==
    ASSUME IndexInv, [Next]_vars, NEW j \in JobId
    PROVE  \/ /\ job'[j].status = "SUCCEEDED"
              /\ version'[j].status = "READY_DRAFT"
              /\ source[j] /\ Embedded(j) = Chunk
           \/ /\ job'[j].status # "SUCCEEDED"
              /\ version'[j].status # "READY_DRAFT"
  <1> DEFINE Moved == \/ /\ job'[j].status = "SUCCEEDED"
                         /\ version'[j].status = "READY_DRAFT"
                         /\ source[j] /\ Embedded(j) = Chunk
                      \/ /\ job'[j].status # "SUCCEEDED"
                         /\ version'[j].status # "READY_DRAFT"
  <1> USE DEF IndexInv, TypeOK, SetJob, SetVersion, SetVersionStatus
  <1>1. ASSUME /\ job'[j].status = job[j].status
               /\ version'[j].status = version[j].status
        PROVE  Moved
    BY <1>1 DEF ReadyDraftIffSucceeded, SucceededFullyIndexed
  <1>2. ASSUME job' = job, version' = version PROVE Moved
    BY <1>1, <1>2
  <1>3. ASSUME NEW i \in JobId, CommitUpload(i) PROVE Moved
    <2>1. CASE i = j
      BY <1>3, <2>1
      DEF CommitUpload, NewJob, ReadyDraftIffSucceeded
    <2>2. CASE i # j
      BY <1>1, <1>3, <2>2 DEF CommitUpload
    <2> QED
      BY <2>1, <2>2
  <1>4. ASSUME NEW i \in JobId, RetryJob(i) PROVE Moved
    <2>1. CASE i = j
      BY <1>4, <2>1 DEF RetryJob, ManualRetry, NewJob, Version
    <2>2. CASE i # j
      BY <1>1, <1>4, <2>2 DEF RetryJob
    <2> QED
      BY <2>1, <2>2
  <1>5. ASSUME NEW d \in dispatching, DispatchMark(d) PROVE Moved
    BY <1>1, <1>5 DEF DispatchMark, MarkDispatched, Dispatch, Job
  <1>6. ASSUME NEW recovered \in SUBSET JobId, Recover(recovered) PROVE Moved
    <2>1. CASE j \in recovered
      <3>1. job'[j] = RecoverExpired(job[j]) /\ version'[j] = RecoveredVersion(j)
        BY <1>6, <2>1 DEF Recover
      <3>2. RecoverExpired(job[j]).status \in {"FAILED", "QUEUED"}
        BY DEF RecoverExpired, Job
      <3>3. RecoveredVersion(j).status \in {"FAILED", "UPLOADED"}
        BY DEF RecoveredVersion, Version
      <3> QED
        BY <3>1, <3>2, <3>3
    <2>2. CASE j \notin recovered
      BY <1>1, <1>6, <2>2 DEF Recover
    <2> QED
      BY <2>1, <2>2
  <1>7. ASSUME NEW w \in Worker, NEW m \in messages, Receive(w, m) PROVE Moved
    <2>1. CASE ContinueJob(w, m)
      <3>1. m.job \in JobId /\ CanClaimContinuation(job[m.job])
            /\ SetJob(m.job, ClaimContinuation(job[m.job], w))
            /\ version' = version
        BY <2>1 DEF ContinueJob, Message
      <3>2. CASE m.job = j
        <4>1. job'[j].status = "RUNNING"
          BY <3>1, <3>2 DEF ClaimContinuation, Job
        <4>2. job[j].status # "SUCCEEDED"
          BY <3>1, <3>2 DEF CanClaimContinuation, CanClaim, DueRetry
        <4> QED
          BY <3>1, <4>1, <4>2 DEF ReadyDraftIffSucceeded
      <3>3. CASE m.job # j
        BY <1>1, <3>1, <3>3
      <3> QED
        BY <3>2, <3>3
    <2>2. CASE PeekJob(w, m) \/ ContinueRejected(w, m)
      BY <1>2, <2>2 DEF PeekJob, ContinueRejected, rows
    <2> QED
      BY <1>7, <2>1, <2>2 DEF Receive
  <1>8. ASSUME NEW i \in JobId,
               LeaseExpires(i) \/ RetryFallsDue(i) \/ DispatchGoesStale(i)
        PROVE  Moved
    <2>1. job'[j].status = job[j].status
      <3>1. job'[j] \in {job[j], [job[j] EXCEPT !.lease = "expired"],
                         [job[j] EXCEPT !.due = TRUE],
                         [job[j] EXCEPT !.dispatched = FALSE]}
        BY <1>8, Zenon DEF LeaseExpires, RetryFallsDue, DispatchGoesStale
      <3> QED
        BY <3>1 DEF Job
    <2>2. version' = version
      BY <1>8 DEF LeaseExpires, RetryFallsDue, DispatchGoesStale
    <2> QED
      BY <1>1, <2>1, <2>2
  <1>9. ASSUME NEW w \in Worker, WorkerStep(w) PROVE Moved
    <2> DEFINE k == task[w].job
    <2>1. ASSUME NEW stage \in {"PARSING", "CHUNKING"}, NEW p, NEW next,
                 AdvanceTo(w, stage, p, next), k \in JobId
          PROVE  Moved
      <3>1. /\ job'[j].status = job[j].status
            /\ version'[j].status = IF j = k THEN stage ELSE version[j].status
            /\ Owned(w)
        BY <2>1, AdvanceToEffect
      <3>2. j = k => job[j].status = "RUNNING"
        BY <3>1 DEF Owned
      <3> QED
        BY <1>1, <3>1, <3>2
    <2>2. ASSUME ~At(w, "idle") PROVE k \in JobId
      BY <2>2 DEF At
    <2>3. CASE ClaimJob(w)
      <3>1. /\ k \in JobId /\ CanClaim(job[k]) /\ version' = version
            /\ SetJob(k, Claim(job[k], w))
        BY <2>2, <2>3 DEF ClaimJob, At
      <3>2. CASE k = j
        <4>1. job'[j].status = "RUNNING"
          BY <3>1, <3>2 DEF Claim, Job
        <4>2. job[j].status # "SUCCEEDED"
          BY <3>1, <3>2 DEF CanClaim, DueRetry
        <4> QED
          BY <3>1, <4>1, <4>2 DEF ReadyDraftIffSucceeded
      <3>3. CASE k # j
        BY <1>1, <3>1, <3>3
      <3> QED
        BY <3>2, <3>3
    <2>4. CASE \/ ClaimRejected(w) \/ PrepareChunks(w) \/ EnqueueBatch(w)
               \/ ReadBatch(w) \/ WriteBatch(w) \/ LeaseLost(w)
      BY <1>2, <2>4
      DEF ClaimRejected, PrepareChunks, EnqueueBatch, ReadBatch, WriteBatch,
          LeaseLost, rows
    <2>5. CASE AdvanceParsing(w) \/ AdvanceChunking(w) \/ AdvanceBatch(w)
      BY <2>1, <2>2, <2>5
      DEF AdvanceParsing, AdvanceChunking, AdvanceBatch, At
    <2>6. CASE RecordChunkManifest(w)
      <3>1. /\ k \in JobId /\ job[k].status = "RUNNING" /\ job' = job
            /\ version' = [version EXCEPT ![k] = [status |-> "CHUNKED",
                   manifest |-> TRUE, count |-> task[w].count]]
        BY <2>2, <2>6 DEF RecordChunkManifest, At, Owned
      <3> QED
        BY <1>1, <3>1
    <2>7. CASE ReleaseJob(w)
      <3>1. /\ k \in JobId /\ SetJob(k, ReleaseForContinuation(job[k]))
            /\ SetVersionStatus(k, "CHUNKED")
        BY <2>2, <2>7 DEF ReleaseJob, At
      <3>2. ReleaseForContinuation(job[k]).status = "QUEUED"
        BY <3>1 DEF ReleaseForContinuation, Job
      <3> QED
        BY <1>1, <3>1, <3>2 DEF Version
    <2>8. CASE MarkBatchDispatched(w)
      BY <1>1, <2>2, <2>8 DEF MarkBatchDispatched, MarkDispatched, At, Job
    <2>9. CASE CompleteJob(w)
      <3>1. /\ k \in JobId /\ SetJob(k, Complete(job[k]))
            /\ version' = [version EXCEPT ![k] = [status |-> "READY_DRAFT",
                   manifest |-> task[w].manifest, count |-> task[w].count]]
            /\ task[w].pc = "complete"
        BY <2>2, <2>9 DEF CompleteJob, At
      <3>2. Complete(job[k]).status = "SUCCEEDED"
        BY <3>1 DEF Complete, Job
      <3>3. source[k] /\ Embedded(k) = Chunk
        BY <3>1 DEF BatchSound
      <3> QED
        BY <1>1, <3>1, <3>2, <3>3
    <2>10. CASE FailJob(w)
      <3>1. PICK retryable \in BOOLEAN, status \in DocumentVersionStatus :
               /\ MayFail(w, retryable, status)
               /\ SetJob(k, Fail(job[k], retryable))
               /\ SetVersionStatus(k, IF CanRetry(job[k], retryable)
                                        THEN "UPLOADED" ELSE status)
        BY <2>10 DEF FailJob
      <3>2. k \in JobId
        BY <2>2, <2>10 DEF FailJob, At, Holding
      <3>3. Fail(job[k], retryable).status \in {"RETRY_SCHEDULED", "FAILED"}
        BY <3>2 DEF Fail, Job
      <3>4. status # "READY_DRAFT"
        BY <3>1 DEF MayFail
      <3> QED
        BY <1>1, <3>1, <3>2, <3>3, <3>4 DEF Version
    <2> QED
      BY <1>9, <2>3, <2>4, <2>5, <2>6, <2>7, <2>8, <2>9, <2>10 DEF WorkerStep
  <1> HIDE DEF Moved
  <1>10. ASSUME Next PROVE Moved
    <2>1. \/ job' = job /\ version' = version
          \/ \E i \in JobId : CommitUpload(i) \/ RetryJob(i)
          \/ \E d \in dispatching : DispatchMark(d)
          \/ \E recovered \in SUBSET JobId : Recover(recovered)
          \/ \E m \in messages, w \in Worker : Receive(w, m)
          \/ \E w \in Worker : WorkerStep(w)
          \/ \E i \in JobId :
                LeaseExpires(i) \/ RetryFallsDue(i) \/ DispatchGoesStale(i)
      BY <1>10
      DEF Next, DispatchEnqueue, DispatchFails, LoseMessage, Crash, ServeModel,
          rows
    <2> QED
      BY <1>2, <1>3, <1>4, <1>5, <1>6, <1>7, <1>8, <1>9, <2>1
  <1> QED
    BY <1>2, <1>10 DEF vars, Moved

(* IndexInv is inductive.                                                  *)
LEMMA IndexInvInductive == IndexInv /\ TypeOK' /\ [Next]_vars => IndexInv'
  <1> SUFFICES ASSUME IndexInv, TypeOK', [Next]_vars PROVE IndexInv'
    OBVIOUS
  <1>1. ReadyDraftIffSucceeded'
    BY StatusesMove, Zenon DEF ReadyDraftIffSucceeded
  <1>2. SucceededFullyIndexed'
    <2> SUFFICES ASSUME NEW j \in JobId, job'[j].status = "SUCCEEDED"
                 PROVE  source'[j] /\ Embedded(j)' = Chunk
      BY DEF SucceededFullyIndexed
    <2>1. source[j] /\ Embedded(j) = Chunk
      BY StatusesMove
    <2>2. Embedded(j)' \subseteq Chunk
      BY DEF Embedded
    <2> QED
      BY <2>1, <2>2, Growth
  <1>3. \A j \in JobId : source'[j] \/ Embedded(j)' = {}
    BY Growth
  <1>4. \A w \in Worker : BatchSound(w)'
    BY BatchSoundKept
  <1> QED
    BY <1>1, <1>2, <1>3, <1>4 DEF IndexInv

(* IndexInv holds in every reachable state: the statuses of job and version*)
(* agree, and what batch tasks rely on is there.                           *)
THEOREM IndexInvariant == Spec => []IndexInv
  <1>1. Init => IndexInv
    <2> SUFFICES ASSUME Init PROVE IndexInv
      OBVIOUS
    <2>1. TypeOK
      BY InitTypes
    <2>2. \A j \in JobId : /\ job[j].status = "ABSENT"
                           /\ version[j].status = "UPLOADED"
                           /\ Embedded(j) = {}
      BY DEF Init, NewJob, Embedded
    <2>3. \A w \in Worker : task[w].pc = "idle"
      BY DEF Init, Idle
    <2> QED
      BY <2>1, <2>2, <2>3
      DEF IndexInv, ReadyDraftIffSucceeded, SucceededFullyIndexed, BatchSound
  <1> QED
    BY <1>1, TypeCorrect, IndexInvInductive, PTL DEF Spec

(* A document can be published only when it is wholly indexed: READY_DRAFT *)
(* and SUCCEEDED come together, and only over a full index.                *)
THEOREM PublishableIsIndexed ==
    Spec => [](ReadyDraftIffSucceeded /\ SucceededFullyIndexed)
  <1>1. IndexInv => ReadyDraftIffSucceeded /\ SucceededFullyIndexed
    BY DEF IndexInv
  <1> QED
    BY <1>1, IndexInvariant, PTL

(* A version is READY_DRAFT exactly when its job has succeeded (fenced     *)
(* completion, restoration of a failed upload).                            *)
THEOREM StatusesAgree == Spec => []ReadyDraftIffSucceeded
  BY PublishableIsIndexed, PTL

(* No retry, recovery or manual retry drops a chunk or erases a vector.    *)
THEOREM IndexGrows == Spec => IndexOnlyGrows
  <1>1. IndexInv /\ [Next]_vars =>
            [\A j \in JobId : /\ source[j] => source'[j]
                              /\ Embedded(j) \subseteq Embedded(j)']_vars
    BY Growth
  <1> QED
    BY <1>1, IndexInvariant, PTL DEF Spec, IndexOnlyGrows

-----------------------------------------------------------------------------
(* The refinement: the pipeline implements UploadLifecycle.  The           *)
(* simulation rests on IndexInv (a ready version has a succeeded job and a *)
(* full index) and on the rows of an upload that has not committed being   *)
(* untouched.                                                              *)

(* An upload that has not committed has no chunks and an untouched version.*)
AbsentInv ==
    \A j \in JobId : job[j].status = "ABSENT" =>
        version[j].status = "UPLOADED" /\ ~source[j]

(* A phase as a function of the job's status.                              *)
StatusPhase(s) ==
    IF s = "ABSENT" THEN "none"
    ELSE IF s = "FAILED" THEN "failed"
    ELSE IF s = "SUCCEEDED" THEN "ready" ELSE "working"

SamePhase(j) == StatusPhase(job'[j].status) = StatusPhase(job[j].status)

(* Where the two rows agree, the phase is read off the job alone.          *)
LEMMA PhaseByStatus ==
    ASSUME ReadyDraftIffSucceeded, NEW j \in JobId
    PROVE  PhaseOf(j) = StatusPhase(job[j].status)
  BY DEF ReadyDraftIffSucceeded, PhaseOf, StatusPhase

(* The same of the state after a step.                                     *)
LEMMA NextPhaseByStatus ==
    ASSUME ReadyDraftIffSucceeded', NEW j \in JobId
    PROVE  PhaseOf(j)' = StatusPhase(job'[j].status)
  BY DEF ReadyDraftIffSucceeded, PhaseOf, StatusPhase

(* The steps of a task change no phase, but for the completion and a       *)
(* failure for good.                                                       *)
LEMMA WorkerPhases ==
    ASSUME IndexInv, NEW w \in Worker, WorkerStep(w)
    PROVE  \/ \A j \in JobId : SamePhase(j)
           \/ /\ UNCHANGED knowledge
              /\ \E i \in JobId :
                    /\ \A j \in JobId \ {i} : SamePhase(j)
                    /\ job[i].status = "RUNNING"
                    /\ \/ /\ job'[i].status = "SUCCEEDED"
                          /\ source[i] /\ Embedded(i) = Chunk
                       \/ job'[i].status = "FAILED"
  <1> DEFINE k == task[w].job
  <1> USE DEF IndexInv, TypeOK, SetJob, StatusPhase, SamePhase
  <1>1. ASSUME job' = job PROVE \A j \in JobId : SamePhase(j)
    BY <1>1
  <1>2. ASSUME ~At(w, "idle") PROVE k \in JobId
    BY <1>2 DEF At
  <1>3. CASE ClaimJob(w)
    <2>1. /\ k \in JobId /\ CanClaim(job[k]) /\ SetJob(k, Claim(job[k], w))
      BY <1>2, <1>3 DEF ClaimJob, At
    <2>2. Claim(job[k], w).status = "RUNNING"
      BY <2>1 DEF Claim, Job
    <2>3. job[k].status \in {"QUEUED", "RETRY_SCHEDULED"}
      BY <2>1 DEF CanClaim, DueRetry
    <2> QED
      BY <2>1, <2>2, <2>3
  <1>4. CASE \/ ClaimRejected(w) \/ PrepareChunks(w) \/ RecordChunkManifest(w)
             \/ EnqueueBatch(w) \/ ReadBatch(w) \/ WriteBatch(w) \/ LeaseLost(w)
    BY <1>1, <1>4
    DEF ClaimRejected, PrepareChunks, RecordChunkManifest, EnqueueBatch,
        ReadBatch, WriteBatch, LeaseLost, rows
  <1>5. CASE AdvanceParsing(w) \/ AdvanceChunking(w) \/ AdvanceBatch(w)
    <2>1. k \in JobId
      BY <1>2, <1>5 DEF AdvanceParsing, AdvanceChunking, AdvanceBatch, At
    <2>2. PICK stage, p, next : AdvanceTo(w, stage, p, next)
      BY <1>5 DEF AdvanceParsing, AdvanceChunking, AdvanceBatch
    <2>3. \A j \in JobId : job'[j].status = job[j].status
      BY <2>1, <2>2, AdvanceToEffect
    <2> QED
      BY <2>3
  <1>6. CASE ReleaseJob(w)
    <2>1. /\ k \in JobId /\ job[k].status = "RUNNING"
          /\ SetJob(k, ReleaseForContinuation(job[k]))
      BY <1>2, <1>6 DEF ReleaseJob, At, Owned
    <2>2. ReleaseForContinuation(job[k]).status = "QUEUED"
      BY <2>1 DEF ReleaseForContinuation, Job
    <2> QED
      BY <2>1, <2>2
  <1>7. CASE MarkBatchDispatched(w)
    BY <1>2, <1>7 DEF MarkBatchDispatched, MarkDispatched, At, Job
  <1>8. CASE CompleteJob(w)
    <2>1. /\ k \in JobId /\ job[k].status = "RUNNING"
          /\ SetJob(k, Complete(job[k]))
          /\ task[w].pc = "complete" /\ UNCHANGED knowledge
      BY <1>2, <1>8 DEF CompleteJob, At, Owned
    <2>2. Complete(job[k]).status = "SUCCEEDED"
      BY <2>1 DEF Complete, Job
    <2>3. source[k] /\ Embedded(k) = Chunk
      BY <2>1 DEF BatchSound
    <2> QED
      BY <2>1, <2>2, <2>3
  <1>9. CASE FailJob(w)
    <2>1. /\ k \in JobId /\ job[k].status = "RUNNING" /\ UNCHANGED knowledge
      BY <1>2, <1>9 DEF FailJob, At, Holding, Owned
    <2>2. PICK retryable \in BOOLEAN : SetJob(k, Fail(job[k], retryable))
      BY <1>9 DEF FailJob
    <2>3. Fail(job[k], retryable).status \in {"RETRY_SCHEDULED", "FAILED"}
      BY <2>1 DEF Fail, Job
    <2> QED
      BY <2>1, <2>2, <2>3
  <1> QED
    BY <1>3, <1>4, <1>5, <1>6, <1>7, <1>8, <1>9 DEF WorkerStep

(* The phases after any step: all kept, or moved as the lifecycle allows,  *)
(* the chunks left alone.                                                  *)
LEMMA PhasesMove ==
    ASSUME IndexInv, Next
    PROVE  \/ \A j \in JobId : SamePhase(j)
           \/ /\ UNCHANGED knowledge
              /\ \E i \in JobId :
                    /\ \A j \in JobId \ {i} : SamePhase(j)
                    /\ \/ /\ job[i].status = "ABSENT"
                          /\ job'[i].status = "QUEUED"
                       \/ /\ job[i].status = "FAILED"
                          /\ job'[i].status = "QUEUED"
                       \/ /\ job[i].status = "RUNNING"
                          /\ job'[i].status = "SUCCEEDED"
                          /\ source[i] /\ Embedded(i) = Chunk
                       \/ /\ job[i].status = "RUNNING"
                          /\ job'[i].status = "FAILED"
           \/ /\ UNCHANGED knowledge
              /\ \A j \in JobId :
                    SamePhase(j) \/ /\ job[j].status = "RUNNING"
                                    /\ job'[j].status = "FAILED"
  <1> USE DEF IndexInv, TypeOK, SetJob, SamePhase, StatusPhase
  <1>1. ASSUME NEW i \in JobId, CommitUpload(i)
        PROVE  /\ UNCHANGED knowledge /\ job[i].status = "ABSENT"
               /\ job'[i].status = "QUEUED"
               /\ \A j \in JobId \ {i} : SamePhase(j)
    BY <1>1 DEF CommitUpload, NewJob
  <1>2. ASSUME NEW i \in JobId, RetryJob(i)
        PROVE  /\ UNCHANGED knowledge /\ job[i].status = "FAILED"
               /\ job'[i].status = "QUEUED"
               /\ \A j \in JobId \ {i} : SamePhase(j)
    BY <1>2 DEF RetryJob, CanRetryManually, ManualRetry, NewJob
  <1>3. ASSUME NEW d \in dispatching, DispatchMark(d)
        PROVE  \A j \in JobId : SamePhase(j)
    BY <1>3 DEF DispatchMark, MarkDispatched, Dispatch, Job
  <1>4. ASSUME NEW recovered \in SUBSET JobId, Recover(recovered)
        PROVE  /\ UNCHANGED knowledge
               /\ \A j \in JobId :
                     SamePhase(j) \/ /\ job[j].status = "RUNNING"
                                     /\ job'[j].status = "FAILED"
    <2>1. UNCHANGED knowledge
      BY <1>4 DEF Recover
    <2>2. ASSUME NEW j \in recovered
          PROVE  SamePhase(j) \/ /\ job[j].status = "RUNNING"
                                 /\ job'[j].status = "FAILED"
      <3>1. job'[j] = RecoverExpired(job[j]) /\ job[j].status = "RUNNING"
        BY <1>4 DEF Recover, CanRecover
      <3>2. RecoverExpired(job[j]).status \in {"FAILED", "QUEUED"}
        BY DEF RecoverExpired, Job
      <3> QED
        BY <3>1, <3>2
    <2>3. ASSUME NEW j \in JobId \ recovered PROVE SamePhase(j)
      BY <1>4 DEF Recover
    <2> QED
      BY <2>1, <2>2, <2>3
  <1>5. ASSUME NEW w \in Worker, NEW m \in messages, Receive(w, m)
        PROVE  \A j \in JobId : SamePhase(j)
    <2>1. CASE ContinueJob(w, m)
      <3>1. /\ m.job \in JobId /\ CanClaimContinuation(job[m.job])
            /\ SetJob(m.job, ClaimContinuation(job[m.job], w))
        BY <2>1 DEF ContinueJob, Message
      <3>2. ClaimContinuation(job[m.job], w).status = "RUNNING"
        BY <3>1 DEF ClaimContinuation, Job
      <3>3. job[m.job].status \in {"QUEUED", "RETRY_SCHEDULED"}
        BY <3>1 DEF CanClaimContinuation, CanClaim, DueRetry
      <3> QED
        BY <3>1, <3>2, <3>3
    <2>2. CASE PeekJob(w, m) \/ ContinueRejected(w, m)
      BY <2>2 DEF PeekJob, ContinueRejected, rows
    <2> QED
      BY <1>5, <2>1, <2>2 DEF Receive
  <1>6. ASSUME NEW i \in JobId,
               LeaseExpires(i) \/ RetryFallsDue(i) \/ DispatchGoesStale(i)
        PROVE  \A j \in JobId : SamePhase(j)
    <2> SUFFICES ASSUME NEW j \in JobId PROVE SamePhase(j)
      OBVIOUS
    <2>1. job'[j] \in {job[j], [job[j] EXCEPT !.lease = "expired"],
                       [job[j] EXCEPT !.due = TRUE],
                       [job[j] EXCEPT !.dispatched = FALSE]}
      BY <1>6, Zenon DEF LeaseExpires, RetryFallsDue, DispatchGoesStale
    <2> QED
      BY <2>1 DEF Job
  <1>7. ASSUME job' = job PROVE \A j \in JobId : SamePhase(j)
    BY <1>7
  <1>8. \/ job' = job
        \/ \E i \in JobId : CommitUpload(i) \/ RetryJob(i)
        \/ \E d \in dispatching : DispatchMark(d)
        \/ \E recovered \in SUBSET JobId : Recover(recovered)
        \/ \E m \in messages, w \in Worker : Receive(w, m)
        \/ \E w \in Worker : WorkerStep(w)
        \/ \E i \in JobId :
              LeaseExpires(i) \/ RetryFallsDue(i) \/ DispatchGoesStale(i)
    BY DEF Next, DispatchEnqueue, DispatchFails, LoseMessage, Crash,
           ServeModel, rows
  <1> HIDE DEF SamePhase, StatusPhase, TypeOK, IndexInv, SetJob
  <1> QED
    BY <1>1, <1>2, <1>3, <1>4, <1>5, <1>6, <1>7, <1>8, WorkerPhases

(* AbsentInv is inductive: every write to a version or its chunks is of a  *)
(* job that has committed.                                                 *)
LEMMA AbsentInductive ==
    ASSUME IndexInv, AbsentInv, [Next]_vars
    PROVE  AbsentInv'
  <1> USE DEF TypeOK, IndexInv
  <1> SUFFICES ASSUME NEW j \in JobId, job'[j].status = "ABSENT"
               PROVE  version'[j].status = "UPLOADED" /\ ~source'[j]
    BY DEF AbsentInv
  <1>1. job[j].status = "ABSENT"
    <2>1. CASE Next
      BY <2>1, PhasesMove DEF SamePhase, StatusPhase
    <2>2. CASE UNCHANGED vars
      BY <2>2 DEF vars
    <2> QED
      BY <2>1, <2>2
  <1>2. version[j].status = "UPLOADED" /\ ~source[j]
    BY <1>1 DEF AbsentInv
  <1>3. ~source'[j]
    <2>1. ASSUME NEW w \in Worker, PrepareChunks(w) PROVE ~source'[j]
      BY <1>2, <2>1 DEF PrepareChunks, CreatesChunks
    <2>2. ASSUME NEW w \in Worker, WriteBatch(w) PROVE ~source'[j]
      BY <1>2, <2>2 DEF WriteBatch
    <2> QED
      BY <1>2, <2>1, <2>2, KnowledgeMoves DEF vars, knowledge
  <1>4. version'[j].status = version[j].status
    <2> USE DEF SetVersion, SetVersionStatus
    <2>1. ASSUME version' = version PROVE version'[j].status = version[j].status
      BY <2>1
    <2>2. ASSUME NEW i \in JobId, RetryJob(i)
          PROVE  version'[j].status = version[j].status
      BY <1>1, <2>2 DEF RetryJob, CanRetryManually
    <2>3. ASSUME NEW recovered \in SUBSET JobId, Recover(recovered)
          PROVE  version'[j].status = version[j].status
      BY <1>1, <2>3 DEF Recover, CanRecover
    <2>4. ASSUME NEW w \in Worker, WorkerStep(w)
          PROVE  version'[j].status = version[j].status
      <3>1. ASSUME NEW stage, NEW p, NEW next, AdvanceTo(w, stage, p, next)
            PROVE  version'[j].status = version[j].status
        BY <1>1, <3>1 DEF AdvanceTo, Owned
      <3>2. CASE \/ ClaimJob(w) \/ ClaimRejected(w) \/ PrepareChunks(w)
                 \/ EnqueueBatch(w) \/ MarkBatchDispatched(w) \/ ReadBatch(w)
                 \/ WriteBatch(w) \/ LeaseLost(w)
        BY <3>2
        DEF ClaimJob, ClaimRejected, PrepareChunks, EnqueueBatch,
            MarkBatchDispatched, ReadBatch, WriteBatch, LeaseLost, rows
      <3>3. CASE AdvanceParsing(w) \/ AdvanceChunking(w) \/ AdvanceBatch(w)
        BY <3>1, <3>3 DEF AdvanceParsing, AdvanceChunking, AdvanceBatch
      <3>4. CASE \/ RecordChunkManifest(w) \/ ReleaseJob(w) \/ CompleteJob(w)
                 \/ FailJob(w)
        <4>1. task[w].job # j
          BY <1>1, <3>4
          DEF RecordChunkManifest, ReleaseJob, CompleteJob, FailJob, Owned
        <4> QED
          BY <3>4, <4>1
          DEF RecordChunkManifest, ReleaseJob, CompleteJob, FailJob
      <3> QED
        BY <2>4, <3>2, <3>3, <3>4 DEF WorkerStep
    <2>5. \/ version' = version
          \/ \E i \in JobId : RetryJob(i)
          \/ \E recovered \in SUBSET JobId : Recover(recovered)
          \/ \E w \in Worker : WorkerStep(w)
      BY DEF Next, vars, rows, CommitUpload, DispatchEnqueue, DispatchMark,
             DispatchFails, LoseMessage, Receive, PeekJob, ContinueJob,
             ContinueRejected, Crash, LeaseExpires, RetryFallsDue,
             DispatchGoesStale, ServeModel
    <2> QED
      BY <2>1, <2>2, <2>3, <2>4, <2>5
  <1> QED
    BY <1>2, <1>3, <1>4

-----------------------------------------------------------------------------
(* The refinement mapping, as the lifecycle's two variables.               *)
phases == [j \in JobId |-> PhaseOf(j)]
indexes == [j \in JobId |-> IndexOf(j)]

(* Steps that leave the chunks alone move the phases as the lifecycle does.*)
LEMMA PhaseSimulation ==
    ASSUME IndexInv, IndexInv', Next, UNCHANGED knowledge
    PROVE  Lifecycle!Next \/ UNCHANGED Lifecycle!vars
  <1>1. UNCHANGED indexes
    BY DEF indexes, IndexOf, Embedded, knowledge
  <1>2. \A j \in JobId : /\ phases[j] = StatusPhase(job[j].status)
                         /\ phases'[j] = StatusPhase(job'[j].status)
    BY PhaseByStatus, NextPhaseByStatus DEF IndexInv, phases
  <1>3. phases' = [j \in JobId |-> phases'[j]]
    BY DEF phases
  <1>4. CASE \A j \in JobId : SamePhase(j)
    <2>1. UNCHANGED phases
      BY <1>2, <1>4 DEF SamePhase, phases
    <2> QED
      BY <1>1, <2>1 DEF Lifecycle!vars, phases, indexes
  <1>5. ASSUME NEW i \in JobId, \A j \in JobId \ {i} : SamePhase(j)
        PROVE  phases' = [phases EXCEPT ![i] = StatusPhase(job'[i].status)]
    BY <1>2, <1>5 DEF SamePhase, phases
  <1>6. ASSUME NEW i \in JobId, \A j \in JobId \ {i} : SamePhase(j),
               job[i].status = "ABSENT", job'[i].status = "QUEUED"
        PROVE  Lifecycle!Accept(i)
    BY <1>1, <1>2, <1>5, <1>6 DEF Lifecycle!Accept, StatusPhase, phases, indexes
  <1>7. ASSUME NEW i \in JobId, \A j \in JobId \ {i} : SamePhase(j),
               job[i].status = "FAILED", job'[i].status = "QUEUED"
        PROVE  Lifecycle!Retry(i)
    BY <1>1, <1>2, <1>5, <1>7 DEF Lifecycle!Retry, StatusPhase, phases, indexes
  <1>8. ASSUME NEW i \in JobId, \A j \in JobId \ {i} : SamePhase(j),
               job[i].status = "RUNNING", job'[i].status = "SUCCEEDED",
               source[i], Embedded(i) = Chunk
        PROVE  Lifecycle!Succeed(i)
    <2>1. indexes[i] = "full"
      BY <1>8 DEF indexes, IndexOf
    <2> QED
      BY <1>1, <1>2, <1>5, <1>8, <2>1
      DEF Lifecycle!Succeed, StatusPhase, phases, indexes
  <1>9. ASSUME \A j \in JobId : SamePhase(j) \/ /\ job[j].status = "RUNNING"
                                                /\ job'[j].status = "FAILED"
        PROVE  \E failing \in SUBSET JobId : Lifecycle!Fail(failing)
    <2> DEFINE failing == {j \in JobId : /\ job[j].status = "RUNNING"
                                         /\ job'[j].status = "FAILED"}
    <2>1. \A j \in failing : phases[j] = "working"
      BY <1>2 DEF StatusPhase
    <2>2. phases' = [j \in JobId |-> IF j \in failing THEN "failed"
                                     ELSE phases[j]]
      BY <1>2, <1>3, <1>9 DEF SamePhase, StatusPhase
    <2>3. Lifecycle!Fail(failing)
      BY <1>1, <2>1, <2>2 DEF Lifecycle!Fail, phases, indexes
    <2> QED
      BY <2>3
  <1> QED
    BY <1>4, <1>6, <1>7, <1>8, <1>9, PhasesMove DEF Lifecycle!Next, SamePhase

(* Chunks that are created or get their vectors are growth of the index.   *)
LEMMA IndexSimulation ==
    ASSUME IndexInv, IndexInv', AbsentInv, Next,
           NEW w \in Worker, PrepareChunks(w) \/ WriteBatch(w),
           NEW k \in JobId, k = task[w].job
    PROVE  Lifecycle!Next \/ UNCHANGED Lifecycle!vars
  <1> USE DEF IndexInv, TypeOK
  <1>2. UNCHANGED <<job, version>>
    BY DEF PrepareChunks, WriteBatch, rows
  <1>3. UNCHANGED phases
    BY <1>2 DEF phases, PhaseOf
  <1>4. \A j \in JobId \ {k} : /\ source'[j] = source[j]
                               /\ embedding'[j] = embedding[j]
    BY DEF PrepareChunks, WriteBatch
  <1>5. indexes' = [indexes EXCEPT ![k] = IndexOf(k)']
    <2>1. ASSUME NEW j \in JobId \ {k} PROVE IndexOf(j)' = IndexOf(j)
      BY <1>4, <2>1 DEF IndexOf, Embedded
    <2>2. indexes' = [j \in JobId |-> IndexOf(j)']
      BY DEF indexes
    <2> HIDE DEF IndexInv
    <2> QED
      BY <2>1, <2>2 DEF indexes
  <1>6. \/ IndexOf(k)' = IndexOf(k)
        \/ IndexOf(k) = "none" /\ IndexOf(k)' = "partial"
        \/ IndexOf(k) = "partial" /\ IndexOf(k)' = "full"
    <2>1. CASE PrepareChunks(w)
      <3>1. CASE CreatesChunks(k)
        <4>1. ~source[k] /\ source'[k]
          BY <2>1, <3>1 DEF PrepareChunks, CreatesChunks
        <4>2. embedding'[k] = [c \in Chunk |-> NoModel]
          BY <2>1, <3>1 DEF PrepareChunks
        <4>3. Embedded(k)' = {}
          BY <4>2 DEF Embedded
        <4>4. Chunk # {}
          <5>1. 1 \in Chunk
            BY ChunksAssumption DEF Chunk
          <5> QED
            BY <5>1
        <4> QED
          BY <4>1, <4>3, <4>4 DEF IndexOf
      <3>2. CASE ~CreatesChunks(k)
        <4>1. source'[k] = source[k] /\ embedding' = embedding
          BY <2>1, <3>2 DEF PrepareChunks
        <4> QED
          BY <4>1 DEF IndexOf, Embedded
      <3> QED
        BY <3>1, <3>2
    <2>2. CASE WriteBatch(w)
      <3>1. source[k] /\ source'[k]
        BY <2>2 DEF WriteBatch, BatchSound, At
      <3>2. Embedded(k) \subseteq Embedded(k)' /\ Embedded(k)' \subseteq Chunk
        BY Growth DEF Embedded
      <3>3. /\ IndexOf(k) = IF Embedded(k) = Chunk THEN "full" ELSE "partial"
            /\ IndexOf(k)' = IF Embedded(k)' = Chunk THEN "full" ELSE "partial"
        BY <3>1 DEF IndexOf
      <3>4. Embedded(k) = Chunk => Embedded(k)' = Chunk
        BY <3>2
      <3> QED
        BY <3>3, <3>4
    <2> QED
      BY <2>1, <2>2
  <1>7. CASE IndexOf(k)' = IndexOf(k)
    <2>1. UNCHANGED indexes
      BY <1>5, <1>7 DEF indexes
    <2> QED
      BY <1>3, <2>1 DEF Lifecycle!vars, phases, indexes
  <1>8. CASE IndexOf(k)' # IndexOf(k)
    <2>1. source'[k]
      BY <1>6, <1>8 DEF IndexOf
    <2>2. job'[k].status # "ABSENT"
      <3>1. AbsentInv'
        BY AbsentInductive
      <3> QED
        BY <2>1, <3>1 DEF AbsentInv
    <2>3. phases[k] # "none"
      BY <1>2, <2>2, PhaseByStatus DEF phases, StatusPhase
    <2>4. Lifecycle!Grow(k)
      BY <1>3, <1>5, <1>6, <1>8, <2>3
      DEF Lifecycle!Grow, phases, indexes
    <2> QED
      BY <2>4 DEF Lifecycle!Next
  <1> QED
    BY <1>7, <1>8

(* The pipeline implements the lifecycle other components rely on.         *)
THEOREM Implementation == Spec => ImplementsLifecycle
  <1>1. Init => AbsentInv /\ Lifecycle!Init
    <2> SUFFICES ASSUME Init PROVE AbsentInv /\ Lifecycle!Init
      OBVIOUS
    <2>1. \A j \in JobId : /\ job[j].status = "ABSENT" /\ ~source[j]
                           /\ version[j].status = "UPLOADED"
      BY DEF Init, NewJob
    <2> QED
      BY <2>1 DEF AbsentInv, Lifecycle!Init, PhaseOf, IndexOf
  <1>2. IndexInv /\ AbsentInv /\ [Next]_vars => AbsentInv'
    BY AbsentInductive
  <1>3. IndexInv /\ IndexInv' /\ AbsentInv /\ [Next]_vars
            => [Lifecycle!Next]_(Lifecycle!vars)
    <2> SUFFICES ASSUME IndexInv, IndexInv', AbsentInv, [Next]_vars
                 PROVE  Lifecycle!Next \/ UNCHANGED Lifecycle!vars
      OBVIOUS
    <2>1. CASE UNCHANGED vars
      BY <2>1 DEF vars, Lifecycle!vars, PhaseOf, IndexOf, Embedded
    <2>2. CASE Next
      <3>1. ASSUME NEW w \in Worker, PrepareChunks(w) \/ WriteBatch(w)
            PROVE  task[w].job \in JobId
        BY <3>1 DEF PrepareChunks, WriteBatch, At, IndexInv, TypeOK
      <3> QED
        BY <2>2, <3>1, KnowledgeMoves, PhaseSimulation, IndexSimulation
    <2> QED
      BY <2>1, <2>2
  <1> QED
    BY <1>1, <1>2, <1>3, IndexInvariant, PTL
    DEF Spec, ImplementsLifecycle, Lifecycle!Spec

-----------------------------------------------------------------------------
(***************************************************************************)
(* The job's lease and its fencing token: what a late task can do, what    *)
(* holds when leases outlive their tasks, and the budget of attempts.      *)
(***************************************************************************)
(* How a step can touch the rows of an upload.                             *)
RowKept(j) ==
    /\ version'[j].status \in {version[j].status, "CHUNKED"}
    /\ job'[j].status = job[j].status /\ job'[j].stage = job[j].stage
    /\ job'[j].attempt = job[j].attempt /\ job'[j].owner = job[j].owner
    /\ job'[j].lease = job[j].lease

Restarted(j) ==
    /\ job[j].status \in {"ABSENT", "FAILED"} /\ job'[j] = NewJob
    /\ version'[j].status \in {version[j].status, "UPLOADED"}

Recovered(j) ==
    /\ CanRecover(job[j]) /\ job'[j] = RecoverExpired(job[j])
    /\ version'[j] = RecoveredVersion(j)

TakenBy(w, j) ==
    \/ ClaimJob(w) /\ task[w].job = j
    \/ \E m \in messages : ContinueJob(w, m) /\ m.job = j

Advancing(w) == AdvanceParsing(w) \/ AdvanceChunking(w) \/ AdvanceBatch(w)

Leaving(w) == ReleaseJob(w) \/ CompleteJob(w) \/ FailJob(w)

MovedBy(w, j) == task[w].job = j /\ (Advancing(w) \/ Leaving(w))

RowMoves(j) ==
    \/ RowKept(j) \/ LeaseExpires(j) \/ Restarted(j) \/ Recovered(j)
    \/ \E w \in Worker : TakenBy(w, j) \/ MovedBy(w, j)

(* Every step keeps a job's row or moves it in one of these ways.          *)
LEMMA EveryRowMoves ==
    ASSUME TypeOK, [Next]_vars, NEW j \in JobId
    PROVE  RowMoves(j)
  <1> USE DEF TypeOK, SetJob, SetVersion, SetVersionStatus
  <1>1. ASSUME job'[j] = job[j],
               version'[j].status \in {version[j].status, "CHUNKED"}
        PROVE  RowKept(j)
    BY <1>1 DEF RowKept
  <1>2. ASSUME NEW i \in JobId, CommitUpload(i) \/ RetryJob(i)
        PROVE  RowKept(j) \/ Restarted(j)
    <2>1. /\ job[i].status \in {"ABSENT", "FAILED"} /\ SetJob(i, NewJob)
          /\ version' = version \/ SetVersionStatus(i, "UPLOADED")
      BY <1>2 DEF CommitUpload, RetryJob, CanRetryManually, ManualRetry
    <2> QED
      BY <1>1, <2>1 DEF Restarted, Version
  <1>3. ASSUME NEW i \in JobId, SetJob(i, MarkDispatched(job[i])),
               version' = version
        PROVE  RowKept(j)
    BY <1>3 DEF RowKept, MarkDispatched, Job
  <1>4. ASSUME NEW recovered \in SUBSET JobId, Recover(recovered)
        PROVE  RowKept(j) \/ Recovered(j)
    BY <1>1, <1>4 DEF Recover, Recovered
  <1>5. ASSUME NEW w \in Worker, NEW m \in messages, Receive(w, m)
        PROVE  RowKept(j) \/ TakenBy(w, j)
    <2>1. CASE ContinueJob(w, m)
      BY <1>1, <2>1 DEF ContinueJob, Message, TakenBy
    <2>2. CASE PeekJob(w, m) \/ ContinueRejected(w, m)
      BY <1>1, <2>2 DEF PeekJob, ContinueRejected, rows
    <2> QED
      BY <1>5, <2>1, <2>2 DEF Receive
  <1>6. ASSUME NEW i \in JobId, RetryFallsDue(i) \/ DispatchGoesStale(i)
        PROVE  RowKept(j)
    <2>1. job'[j] \in {job[j], [job[j] EXCEPT !.due = TRUE],
                       [job[j] EXCEPT !.dispatched = FALSE]}
      BY <1>6, Zenon DEF RetryFallsDue, DispatchGoesStale
    <2>2. version' = version
      BY <1>6 DEF RetryFallsDue, DispatchGoesStale
    <2> QED
      BY <2>1, <2>2 DEF RowKept, Job
  <1>7. ASSUME NEW i \in JobId, LeaseExpires(i)
        PROVE  RowKept(j) \/ LeaseExpires(j)
    BY <1>1, <1>7 DEF LeaseExpires
  <1>8. ASSUME NEW w \in Worker, WorkerStep(w)
        PROVE  RowKept(j) \/ TakenBy(w, j) \/ MovedBy(w, j)
    <2>1. CASE \/ ClaimRejected(w) \/ PrepareChunks(w) \/ EnqueueBatch(w)
               \/ ReadBatch(w) \/ WriteBatch(w) \/ LeaseLost(w)
      BY <1>1, <2>1
      DEF ClaimRejected, PrepareChunks, EnqueueBatch, ReadBatch, WriteBatch,
          LeaseLost, rows
    <2>5. CASE RecordChunkManifest(w)
      BY <1>1, <2>5 DEF RecordChunkManifest
    <2>2. CASE ClaimJob(w)
      BY <1>1, <2>2 DEF ClaimJob, TakenBy
    <2>3. CASE Advancing(w) \/ Leaving(w)
      <3>1. \/ task[w].job = j
            \/ job'[j] = job[j] /\ version'[j] = version[j]
        BY <2>3 DEF Advancing, Leaving, AdvanceParsing, AdvanceChunking,
           AdvanceBatch, AdvanceTo, ReleaseJob, CompleteJob, FailJob
      <3> QED
        BY <1>1, <2>3, <3>1 DEF MovedBy
    <2>4. CASE MarkBatchDispatched(w)
      BY <1>3, <2>4 DEF MarkBatchDispatched, At
    <2> QED
      BY <1>8, <2>1, <2>2, <2>3, <2>4, <2>5
      DEF WorkerStep, Advancing, Leaving
  <1>9. ASSUME NEW d \in dispatching, DispatchMark(d) PROVE RowKept(j)
    BY <1>3, <1>9 DEF DispatchMark, Dispatch
  <1>10. \/ job' = job /\ version' = version
         \/ \E i \in JobId : CommitUpload(i) \/ RetryJob(i)
         \/ \E d \in dispatching : DispatchMark(d)
         \/ \E recovered \in SUBSET JobId : Recover(recovered)
         \/ \E m \in messages, w \in Worker : Receive(w, m)
         \/ \E w \in Worker : WorkerStep(w)
         \/ \E i \in JobId :
               LeaseExpires(i) \/ RetryFallsDue(i) \/ DispatchGoesStale(i)
    BY DEF Next, DispatchEnqueue, DispatchFails, LoseMessage, Crash,
           ServeModel, rows, vars
  <1> HIDE DEF SetJob, SetVersion, SetVersionStatus
  <1> QED
    BY <1>1, <1>2, <1>4, <1>5, <1>6, <1>7, <1>8, <1>9, <1>10 DEF RowMoves

(* A task's frame moves by a step of its own worker.                       *)
LEMMA EveryFrameMoves ==
    ASSUME TypeOK, [Next]_vars, NEW w \in Worker
    PROVE  \/ task'[w] = task[w]
           \/ \E m \in messages : Receive(w, m)
           \/ WorkerStep(w) \/ Crash(w)
  <1> USE DEF TypeOK, Finish, Goto, GotoFresh, SetTask
  <1>1. ASSUME NEW v \in Worker, NEW m \in messages, Receive(v, m), v # w
        PROVE  task'[w] = task[w]
    BY <1>1 DEF Receive, PeekJob, ContinueJob, ContinueRejected
  <1>2. ASSUME NEW v \in Worker, Crash(v), v # w PROVE task'[w] = task[w]
    BY <1>2 DEF Crash
  <1>3. ASSUME NEW v \in Worker, WorkerStep(v), v # w PROVE task'[w] = task[w]
    <2>1. CASE \/ ClaimJob(v) \/ ClaimRejected(v) \/ PrepareChunks(v)
               \/ RecordChunkManifest(v) \/ ReleaseJob(v) \/ EnqueueBatch(v)
               \/ MarkBatchDispatched(v)
      BY <1>3, <2>1
      DEF ClaimJob, ClaimRejected, PrepareChunks, RecordChunkManifest,
          ReleaseJob, EnqueueBatch, MarkBatchDispatched
    <2>2. CASE \/ ReadBatch(v) \/ WriteBatch(v) \/ CompleteJob(v)
               \/ FailJob(v) \/ LeaseLost(v)
      BY <1>3, <2>2
      DEF ReadBatch, WriteBatch, CompleteJob, FailJob, LeaseLost
    <2>3. CASE Advancing(v)
      BY <1>3, <2>3
      DEF Advancing, AdvanceParsing, AdvanceChunking, AdvanceBatch, AdvanceTo
    <2> QED
      BY <1>3, <2>1, <2>2, <2>3 DEF WorkerStep, Advancing
  <1>4. \/ task' = task
        \/ \E m \in messages, v \in Worker : Receive(v, m)
        \/ \E v \in Worker : WorkerStep(v) \/ Crash(v)
    BY DEF Next, CommitUpload, RetryJob, DispatchEnqueue, DispatchMark,
           DispatchFails, Recover, LoseMessage, LeaseExpires, RetryFallsDue,
           DispatchGoesStale, ServeModel, vars
  <1> QED
    BY <1>1, <1>2, <1>3, <1>4

(* The steps within a checkpoint that leave the rows of jobs alone.        *)
Staying(w) ==
    PrepareChunks(w) \/ RecordChunkManifest(w) \/ ReadBatch(w) \/ WriteBatch(w)

HeldOn(w) ==
    /\ task[w].pc \in Holding
    /\ task'[w].job = task[w].job /\ task'[w].attempt = task[w].attempt
    /\ task'[w] = task[w] \/ Staying(w) \/ Advancing(w)

(* A task that holds a job has taken it just now, or held it before and    *)
(* goes on with the same fencing token.                                    *)
LEMMA HoldingMoves ==
    ASSUME TypeOK, [Next]_vars, NEW w \in Worker, task'[w].pc \in Holding
    PROVE  HeldOn(w) \/ \E j \in JobId : TakenBy(w, j)
  <1> USE DEF TypeOK, SetTask
  <1>1. CASE task'[w] = task[w]
    BY <1>1 DEF HeldOn
  <1>2. ASSUME NEW t, SetTask(w, t) PROVE task'[w] = t
    BY <1>2
  <1>3. ASSUME NEW m \in messages, Receive(w, m)
        PROVE  HeldOn(w) \/ \E j \in JobId : TakenBy(w, j)
    <2>1. CASE PeekJob(w, m)
      <3>1. task'[w].pc \in {"dispatch", "claim"}
        BY <2>1 DEF PeekJob, Idle
      <3> QED
        BY <3>1 DEF Holding
    <2>2. CASE ContinueJob(w, m)
      BY <2>2 DEF TakenBy, Message
    <2>3. CASE ContinueRejected(w, m)
      BY <1>1, <2>3 DEF ContinueRejected
    <2> QED
      BY <1>3, <2>1, <2>2, <2>3 DEF Receive
  <1>4. ASSUME Finish(w) PROVE FALSE
    BY <1>4 DEF Finish, Idle, Holding
  <1>5. ASSUME NEW pc \in {"dispatch", "mark"}, Goto(w, pc) \/ GotoFresh(w, pc)
        PROVE  FALSE
    <2>1. [task[w] EXCEPT !.pc = pc].pc = pc
      BY DEF Task
    <2>2. [Idle EXCEPT !.pc = pc, !.kind = task[w].kind, !.job = task[w].job,
               !.attempt = IF pc \in Holding THEN task[w].attempt ELSE 0].pc
              = pc
      BY DEF Idle
    <2>3. task'[w].pc = pc
      BY <1>2, <1>5, <2>1, <2>2, Zenon DEF Goto, GotoFresh
    <2> QED
      BY <2>3 DEF Holding
  <1>6. ASSUME NEW pc \in Holding, Goto(w, pc) \/ GotoFresh(w, pc)
        PROVE  task'[w].job = task[w].job /\ task'[w].attempt = task[w].attempt
    <2>1. CASE Goto(w, pc)
      BY <1>6, <2>1, SMT DEF Goto, Task
    <2>2. CASE GotoFresh(w, pc)
      BY <1>6, <2>2, SMT DEF GotoFresh, Idle, Task
    <2> QED
      BY <1>6, <2>1, <2>2
  <1>7. ASSUME WorkerStep(w)
        PROVE  HeldOn(w) \/ \E j \in JobId : TakenBy(w, j)
    <2>1. CASE ClaimJob(w)
      <3>1. task[w].job \in JobId
        BY <2>1 DEF ClaimJob, At
      <3> QED
        BY <2>1, <3>1 DEF TakenBy
    <2>2. CASE \/ ClaimRejected(w) \/ MarkBatchDispatched(w) \/ CompleteJob(w)
               \/ LeaseLost(w) \/ FailJob(w) \/ ReleaseJob(w) \/ EnqueueBatch(w)
      BY <1>4, <1>5, <2>2
      DEF ClaimRejected, MarkBatchDispatched, CompleteJob, LeaseLost, FailJob,
          ReleaseJob, EnqueueBatch
    <2>3. CASE Advancing(w)
      <3>1. /\ task[w].pc \in Holding
            /\ \E pc \in Holding : Goto(w, pc) \/ GotoFresh(w, pc)
        BY <2>3 DEF Advancing, AdvanceParsing, AdvanceChunking, AdvanceBatch,
           AdvanceTo, Holding, At
      <3> QED
        BY <1>6, <2>3, <3>1 DEF HeldOn
    <2>4. CASE RecordChunkManifest(w)
      BY <1>6, <2>4 DEF RecordChunkManifest, HeldOn, Staying, Holding, At
    <2>5. CASE PrepareChunks(w) \/ ReadBatch(w) \/ WriteBatch(w)
      <3>1. /\ task'[w].job = task[w].job /\ task'[w].attempt = task[w].attempt
        <4>1. CASE PrepareChunks(w)
          BY <4>1 DEF PrepareChunks, Task
        <4>2. CASE ReadBatch(w)
          BY <4>2 DEF ReadBatch, Task
        <4>3. CASE WriteBatch(w)
          BY <4>3 DEF WriteBatch, Task
        <4> QED
          BY <2>5, <4>1, <4>2, <4>3
      <3>2. task[w].pc \in Holding
        BY <2>5 DEF PrepareChunks, ReadBatch, WriteBatch, Holding, At
      <3> QED
        BY <2>5, <3>1, <3>2 DEF HeldOn, Staying
    <2> QED
      BY <1>7, <2>1, <2>2, <2>3, <2>4, <2>5 DEF WorkerStep, Advancing
  <1>8. ASSUME Crash(w) PROVE FALSE
    BY <1>4, <1>8 DEF Crash
  <1> QED
    BY <1>1, <1>3, <1>7, <1>8, EveryFrameMoves

-----------------------------------------------------------------------------
(* The rows of jobs and versions are out of reach of a task that no longer *)
(* owns its job.                                                           *)
LEMMA StaleStep ==
    ASSUME TypeOK, [Next]_vars, NEW w \in Worker, task[w].pc \in Holding,
           task'[w] # task[w], ~Owned(w)
    PROVE  UNCHANGED rows
  <1>1. ~At(w, "idle") /\ ~At(w, "claim") /\ ~At(w, "dispatch") /\ ~At(w, "mark")
    BY DEF At, Holding
  <1>2. ASSUME NEW m \in messages, Receive(w, m) PROVE FALSE
    BY <1>1, <1>2 DEF Receive, PeekJob, ContinueJob, ContinueRejected, Deliver
  <1>3. CASE Crash(w)
    BY <1>3 DEF Crash
  <1>4. CASE WorkerStep(w)
    <2>1. CASE PrepareChunks(w) \/ ReadBatch(w) \/ WriteBatch(w) \/ LeaseLost(w)
      BY <2>1 DEF PrepareChunks, ReadBatch, WriteBatch, LeaseLost, rows
    <2>2. CASE \/ ClaimJob(w) \/ ClaimRejected(w) \/ EnqueueBatch(w)
               \/ MarkBatchDispatched(w)
      BY <1>1, <2>2
      DEF ClaimJob, ClaimRejected, EnqueueBatch, MarkBatchDispatched
    <2>3. CASE \/ AdvanceParsing(w) \/ AdvanceChunking(w) \/ AdvanceBatch(w)
               \/ RecordChunkManifest(w) \/ ReleaseJob(w) \/ CompleteJob(w)
               \/ FailJob(w)
      BY <2>3 DEF AdvanceParsing, AdvanceChunking, AdvanceBatch, AdvanceTo,
         RecordChunkManifest, ReleaseJob, CompleteJob, FailJob
    <2> QED
      BY <1>4, <2>1, <2>2, <2>3 DEF WorkerStep
  <1> QED
    BY <1>2, <1>3, <1>4, EveryFrameMoves

(* A task whose lease was taken over or given up writes neither the job    *)
(* nor the version, whatever step it takes next (_locked_owned_bundle).    *)
THEOREM StaleTasksAreHarmless == Spec => StaleWorkerHarmless
  <1> DEFINE Harmless ==
        \A w \in Worker :
          LET j == task[w].job
          IN  /\ task[w].pc \in Holding
              /\ task'[w] # task[w]
              /\ job[j].status # "RUNNING" \/ job[j].owner # w
              => job'[j] = job[j] /\ version'[j] = version[j]
  <1>1. TypeOK /\ [Next]_vars => [Harmless]_vars
    <2> SUFFICES ASSUME TypeOK, [Next]_vars PROVE Harmless
      OBVIOUS
    <2>1. ASSUME NEW w \in Worker, task[w].pc \in Holding, task'[w] # task[w],
                 \/ job[task[w].job].status # "RUNNING"
                 \/ job[task[w].job].owner # w
          PROVE  UNCHANGED rows
      BY <2>1, StaleStep DEF Owned
    <2> QED
      BY <2>1 DEF rows
  <1> QED
    BY <1>1, TypeCorrect, PTL DEF Spec, StaleWorkerHarmless

-----------------------------------------------------------------------------
(* Taking a job gives the task the fencing token and a live lease.         *)
LEMMA TakenIsOwned ==
    ASSUME TypeOK, NEW w \in Worker, NEW j \in JobId, TakenBy(w, j)
    PROVE  /\ Owned(w)' /\ task'[w].job = j
           /\ CanClaim(job[j]) /\ job'[j].status = "RUNNING"
           /\ job'[j].stage = job[j].stage
           /\ task'[w].attempt = job'[j].attempt
           /\ \/ /\ task'[w].pc = "parse"
                 /\ job'[j].attempt = job[j].attempt + 1
              \/ /\ task'[w].pc = "read"
                 /\ job[j].stage = "CHUNKING"
                 /\ job'[j].attempt = IF DueRetry(job[j])
                                        THEN job[j].attempt + 1
                                        ELSE job[j].attempt
  <1> USE DEF TypeOK, SetJob, SetTask
  <1>1. CASE ClaimJob(w) /\ task[w].job = j
    <2>1. /\ job'[j] = Claim(job[j], w) /\ CanClaim(job[j])
          /\ task'[w] = [task[w] EXCEPT !.pc = "parse",
                            !.attempt = Claim(job[j], w).attempt]
      BY <1>1 DEF ClaimJob
    <2>2. /\ task'[w].pc = "parse" /\ task'[w].job = j
          /\ task'[w].attempt = job'[j].attempt
      BY <1>1, <2>1 DEF Task
    <2>3. /\ job'[j].status = "RUNNING" /\ job'[j].owner = w
          /\ job'[j].lease = "live" /\ job'[j].stage = job[j].stage
          /\ job'[j].attempt = job[j].attempt + 1
      BY <2>1 DEF Claim, Job
    <2> QED
      BY <2>1, <2>2, <2>3 DEF Owned
  <1>2. ASSUME NEW m \in messages, ContinueJob(w, m), m.job = j
        PROVE  /\ Owned(w)' /\ task'[w].job = j
               /\ CanClaim(job[j]) /\ job'[j].status = "RUNNING"
               /\ job'[j].stage = job[j].stage
               /\ task'[w].attempt = job'[j].attempt
               /\ task'[w].pc = "read"
               /\ job[j].stage = "CHUNKING"
               /\ job'[j].attempt = IF DueRetry(job[j])
                                      THEN job[j].attempt + 1
                                      ELSE job[j].attempt
    <2>1. /\ job'[j] = ClaimContinuation(job[j], w)
          /\ CanClaimContinuation(job[j])
          /\ task'[w] = [Idle EXCEPT
                 !.pc = "read", !.kind = "batch", !.job = j,
                 !.attempt = ClaimContinuation(job[j], w).attempt,
                 !.manifest = version[j].manifest,
                 !.count = version[j].count]
      BY <1>2 DEF ContinueJob
    <2>2. /\ task'[w].pc = "read" /\ task'[w].job = j
          /\ task'[w].attempt = job'[j].attempt
      BY <2>1 DEF Idle
    <2>3. /\ job'[j].status = "RUNNING" /\ job'[j].owner = w
          /\ job'[j].lease = "live" /\ job'[j].stage = job[j].stage
          /\ job'[j].attempt = IF DueRetry(job[j]) THEN job[j].attempt + 1
                               ELSE job[j].attempt
      BY <2>1 DEF ClaimContinuation, Job
    <2> QED
      BY <2>1, <2>2, <2>3 DEF Owned, CanClaimContinuation
  <1> QED
    BY <1>1, <1>2 DEF TakenBy

(* An advance keeps the fencing token and the lease.                       *)
LEMMA AdvancingKeeps ==
    ASSUME TypeOK, NEW w \in Worker, Advancing(w)
    PROVE  /\ task[w].job \in JobId /\ Owned(w)
           /\ \A j \in JobId :
                 /\ job'[j].status = job[j].status
                 /\ job'[j].owner = job[j].owner
                 /\ job'[j].attempt = job[j].attempt
                 /\ job'[j].lease = job[j].lease
           /\ \/ /\ task[w].pc = "parse" /\ task'[w].pc = "chunk"
                 /\ job[task[w].job].stage # "CHUNKING"
              \/ /\ task[w].pc \in {"chunk", "advance"}
                 /\ job'[task[w].job].stage = "CHUNKING"
  <1> USE DEF TypeOK, At
  <1>1. PICK stage, p, next :
             /\ AdvanceTo(w, stage, p, next)
             /\ \/ task[w].pc = "parse" /\ stage = "PARSING" /\ next = "chunk"
                \/ task[w].pc \in {"chunk", "advance"} /\ stage = "CHUNKING"
    BY DEF Advancing, AdvanceParsing, AdvanceChunking, AdvanceBatch
  <1>2. task[w].job \in JobId
    BY <1>1
  <1>3. PICK k \in JobId : k = task[w].job
    BY <1>2
  <1>4. /\ Owned(w) /\ task'[w].pc = next
        /\ CanAdvance(job[k], stage, p)
    BY <1>1, <1>3, AdvanceToEffect
  <1>5. job' = [job EXCEPT ![k] = Advance(job[k], stage, p)]
    BY <1>1, <1>3 DEF AdvanceTo, SetJob
  <1>6. job'[k] = [job[k] EXCEPT !.stage = stage, !.progress = p]
    BY <1>3, <1>5 DEF Advance
  <1>7. \A j \in JobId \ {k} : job'[j] = job[j]
    BY <1>5
  <1>8. /\ job'[k].status = job[k].status /\ job'[k].owner = job[k].owner
        /\ job'[k].attempt = job[k].attempt /\ job'[k].lease = job[k].lease
        /\ job'[k].stage = stage
    BY <1>6 DEF Job
  <1>9. stage = "PARSING" => job[k].stage # "CHUNKING"
    BY <1>4 DEF CanAdvance, StageOrder, IngestionStage
  <1> QED
    BY <1>1, <1>3, <1>4, <1>7, <1>8, <1>9

(* A task that ends or gives up its job holds nothing any longer.          *)
LEMMA LeavingEnds ==
    ASSUME TypeOK, NEW w \in Worker, Leaving(w)
    PROVE  Owned(w) /\ task'[w].pc \notin Holding
  <1> USE DEF TypeOK, SetTask
  <1>1. Owned(w)
    BY DEF Leaving, ReleaseJob, CompleteJob, FailJob
  <1>2. Finish(w) \/ GotoFresh(w, "dispatch")
    BY DEF Leaving, ReleaseJob, CompleteJob, FailJob
  <1>3. ASSUME NEW t, SetTask(w, t) PROVE task'[w] = t
    BY <1>3
  <1>4. task'[w].pc \in {"idle", "dispatch"}
    <2> DEFINE t == [Idle EXCEPT !.pc = "dispatch", !.kind = task[w].kind,
                        !.job = task[w].job,
                        !.attempt = IF "dispatch" \in Holding
                                      THEN task[w].attempt ELSE 0]
    <2>1. t.pc = "dispatch" /\ Idle.pc = "idle"
      BY DEF Idle
    <2>2. task'[w] = Idle \/ task'[w] = t
      BY <1>2, <1>3 DEF Finish, GotoFresh
    <2> QED
      BY <2>1, <2>2
  <1> QED
    BY <1>1, <1>4 DEF Holding

(* While a task owns its job, only the clock or the task itself ends that. *)
LEMMA OwnershipMoves ==
    ASSUME TypeOK, [Next]_vars, NEW w \in Worker, Owned(w),
           task[w].job \in JobId, HeldOn(w), task'[w].pc \in Holding
    PROVE  Owned(w)' \/ LeaseExpires(task[w].job)
  <1> DEFINE j == task[w].job
  <1> USE DEF TypeOK
  <1>1. /\ job[j].status = "RUNNING" /\ job[j].owner = w
        /\ job[j].lease = "live" /\ job[j].attempt = task[w].attempt
        /\ task'[w].job = j /\ task'[w].attempt = task[w].attempt
    BY DEF Owned, HeldOn
  <1>2. ASSUME /\ job'[j].status = job[j].status
               /\ job'[j].owner = job[j].owner
               /\ job'[j].attempt = job[j].attempt
               /\ job'[j].lease = job[j].lease
        PROVE  Owned(w)'
    BY <1>1, <1>2 DEF Owned
  <1>3. RowMoves(j)
    BY EveryRowMoves
  <1>4. ~Restarted(j) /\ ~Recovered(j)
    BY <1>1 DEF Restarted, Recovered, CanRecover
  <1>5. ASSUME NEW v \in Worker, TakenBy(v, j) PROVE FALSE
    BY <1>1, <1>5, TakenIsOwned DEF CanClaim, DueRetry
  <1>6. ASSUME NEW v \in Worker, MovedBy(v, j) PROVE Owned(w)'
    <2>1. CASE Advancing(v)
      BY <1>2, <2>1, AdvancingKeeps
    <2>2. CASE Leaving(v)
      <3>1. v = w
        BY <1>1, <1>6, <2>2, LeavingEnds DEF MovedBy, Owned
      <3> QED
        BY <2>2, <3>1, LeavingEnds
    <2> QED
      BY <1>6, <2>1, <2>2 DEF MovedBy
  <1>7. RowKept(j) => Owned(w)'
    BY <1>2 DEF RowKept
  <1> HIDE DEF j
  <1> QED
    BY <1>3, <1>4, <1>5, <1>6, <1>7 DEF RowMoves, j

(* LeaseInv is inductive.                                                  *)
LEMMA LeaseInvInductive == LeaseInv /\ TypeOK' /\ [Next]_vars => LeaseInv'
  <1> SUFFICES ASSUME LeaseInv, TypeOK', [Next]_vars, LeaseOutlivesTask,
                      NEW w \in Worker, task'[w].pc \in Holding
               PROVE  Owned(w)'
    BY DEF LeaseInv
  <1> USE DEF LeaseInv
  <1>1. CASE \E j \in JobId : TakenBy(w, j)
    BY <1>1, TakenIsOwned
  <1>2. CASE HeldOn(w)
    <2>1. Owned(w) /\ task[w].pc \in Holding /\ task[w].job \in JobId
      BY <1>2 DEF HeldOn, TypeOK, Holding
    <2>2. ~LeaseExpires(task[w].job)
      BY <2>1 DEF LeaseExpires
    <2> QED
      BY <1>2, <2>1, <2>2, OwnershipMoves
  <1> QED
    BY <1>1, <1>2, HoldingMoves

(* If leases outlive their tasks, a task that goes on owns its job.        *)
THEOREM LeaseInvariant == Spec => []LeaseInv
  <1>1. Init => LeaseInv
    BY InitTypes DEF Init, LeaseInv, Idle, Holding
  <1> QED
    BY <1>1, TypeCorrect, LeaseInvInductive, PTL DEF Spec

-----------------------------------------------------------------------------
(* How the rows look after a task has given up its job.                    *)
LEMMA LeavingRows ==
    ASSUME TypeOK, NEW w \in Worker, Leaving(w), NEW j, j = task[w].job
    PROVE  /\ j \in JobId
           /\ job'[j].stage = job[j].stage \/ job'[j].status = "SUCCEEDED"
           /\ job'[j].attempt = job[j].attempt
           /\ version'[j].status \notin {"PARSING", "CHUNKING"}
           /\ \/ task[w].pc = "release" /\ job'[j].status = "QUEUED"
              \/ task[w].pc = "complete" /\ job'[j].status = "SUCCEEDED"
              \/ job'[j].status = "FAILED"
              \/ /\ job'[j].status = "RETRY_SCHEDULED"
                 /\ job[j].attempt < MaxAttempts
  <1> USE DEF TypeOK, SetJob
  <1>1. j \in JobId
    BY DEF Leaving, ReleaseJob, CompleteJob, FailJob, At, Holding
  <1>2. CASE ReleaseJob(w)
    <2>1. /\ job'[j] = ReleaseForContinuation(job[j]) /\ task[w].pc = "release"
          /\ version'[j].status = "CHUNKED"
      BY <1>1, <1>2 DEF ReleaseJob, SetVersionStatus, Version, At
    <2> QED
      BY <1>1, <2>1 DEF ReleaseForContinuation, Job
  <1>3. CASE CompleteJob(w)
    <2>1. /\ job'[j] = Complete(job[j]) /\ task[w].pc = "complete"
          /\ version'[j].status = "READY_DRAFT"
      BY <1>1, <1>3 DEF CompleteJob, SetVersion, At
    <2> QED
      BY <1>1, <2>1 DEF Complete, Job
  <1>4. CASE FailJob(w)
    <2>1. PICK retryable \in BOOLEAN, status \in DocumentVersionStatus :
             /\ MayFail(w, retryable, status)
             /\ SetJob(j, Fail(job[j], retryable))
             /\ SetVersionStatus(j, IF CanRetry(job[j], retryable)
                                      THEN "UPLOADED" ELSE status)
      BY <1>4 DEF FailJob
    <2>2. job'[j] = Fail(job[j], retryable)
      BY <1>1, <2>1
    <2>3. version'[j].status \notin {"PARSING", "CHUNKING"}
      BY <1>1, <2>1 DEF MayFail, SetVersionStatus, Version
    <2>4. /\ job'[j].stage = job[j].stage /\ job'[j].attempt = job[j].attempt
          /\ job'[j].status = IF CanRetry(job[j], retryable)
                                THEN "RETRY_SCHEDULED" ELSE "FAILED"
      BY <1>1, <2>2 DEF Fail, Job
    <2> QED
      BY <1>1, <2>3, <2>4 DEF CanRetry
  <1> QED
    BY <1>2, <1>3, <1>4 DEF Leaving

(* Failure, release, completion and recovery all put the version back, so  *)
(* that PARSING and CHUNKING are seen of RUNNING jobs only (fail, release, *)
(* recover_and_find_dispatchable).                                         *)
THEOREM WorkIsRunning == Spec => []WorkingVersionIsRunning
  <1>1. Init => WorkingVersionIsRunning
    BY DEF Init, WorkingVersionIsRunning
  <1>2. TypeOK /\ WorkingVersionIsRunning /\ [Next]_vars =>
            WorkingVersionIsRunning'
    <2> SUFFICES ASSUME TypeOK, WorkingVersionIsRunning, [Next]_vars,
                        NEW j \in JobId,
                        version'[j].status \in {"PARSING", "CHUNKING"}
                 PROVE  job'[j].status = "RUNNING"
      BY DEF WorkingVersionIsRunning
    <2> USE DEF TypeOK, WorkingVersionIsRunning
    <2>1. RowMoves(j)
      BY EveryRowMoves
    <2>2. CASE RowKept(j)
      BY <2>2 DEF RowKept
    <2>3. CASE LeaseExpires(j)
      BY <2>3 DEF LeaseExpires, Job
    <2>4. CASE Restarted(j)
      BY <2>4 DEF Restarted
    <2>5. CASE Recovered(j)
      BY <2>5 DEF Recovered, RecoveredVersion, Version
    <2>6. ASSUME NEW w \in Worker, TakenBy(w, j)
          PROVE  job'[j].status = "RUNNING"
      BY <2>6, TakenIsOwned
    <2>7. ASSUME NEW w \in Worker, MovedBy(w, j)
          PROVE  job'[j].status = "RUNNING"
      <3>1. CASE Advancing(w)
        BY <2>7, <3>1, AdvancingKeeps DEF MovedBy, Owned
      <3>2. ~Leaving(w)
        BY <2>7, LeavingRows DEF MovedBy
      <3> QED
        BY <2>7, <3>1, <3>2 DEF MovedBy
    <2> QED
      BY <2>1, <2>2, <2>3, <2>4, <2>5, <2>6, <2>7 DEF RowMoves
  <1> QED
    BY <1>1, <1>2, TypeCorrect, PTL DEF Spec

-----------------------------------------------------------------------------
(* The budget of attempts.  The two halves of BudgetInv beyond the types.  *)
RowBudget(j) ==
    /\ job[j].attempt <= MaxAttempts + 1
    /\ job[j].status = "RETRY_SCHEDULED" => job[j].attempt < MaxAttempts
    /\ job[j].attempt > MaxAttempts => job[j].status \in {"RUNNING", "FAILED"}
    /\ \/ job[j].status = "QUEUED" /\ job[j].attempt >= MaxAttempts
       \/ job[j].status = "RUNNING" /\ job[j].attempt > MaxAttempts
       => job[j].stage = "CHUNKING"

TaskBudget(w) ==
    /\ task[w].pc \in Holding /\ task[w].attempt > MaxAttempts
           => task[w].pc = "parse"
    /\ task[w].pc \in Holding \ {"parse", "chunk"} /\ Owned(w)
           => job[task[w].job].stage = "CHUNKING"

LEMMA BudgetParts ==
    BudgetInv <=> /\ TypeOK
                  /\ \A j \in JobId : RowBudget(j)
                  /\ \A w \in Worker : TaskBudget(w)
  BY DEF BudgetInv, AttemptsBounded, RowBudget, TaskBudget

(* A row stays within the budget: a claim beyond it is of a job at         *)
(* CHUNKING, whose only further step is to fail.                           *)
LEMMA RowBudgetKept ==
    ASSUME BudgetInv, TypeOK', [Next]_vars, NEW j \in JobId
    PROVE  RowBudget(j)'
  <1> DEFINE Within(row) ==
        /\ row.attempt <= MaxAttempts + 1
        /\ row.status = "RETRY_SCHEDULED" => row.attempt < MaxAttempts
        /\ row.attempt > MaxAttempts => row.status \in {"RUNNING", "FAILED"}
        /\ \/ row.status = "QUEUED" /\ row.attempt >= MaxAttempts
           \/ row.status = "RUNNING" /\ row.attempt > MaxAttempts
           => row.stage = "CHUNKING"
  <1> SUFFICES Within(job'[j])
    BY DEF RowBudget
  <1>1. /\ TypeOK /\ Within(job[j]) /\ \A w \in Worker : TaskBudget(w)
    BY BudgetParts DEF RowBudget
  <1>2. /\ job[j] \in Job /\ job[j].attempt \in Nat /\ MaxAttempts \in Nat
        /\ MaxAttempts > 0
    BY <1>1 DEF TypeOK, Job
  <1>3. RowMoves(j)
    BY <1>1, EveryRowMoves
  <1>4. CASE RowKept(j)
    BY <1>1, <1>4 DEF RowKept
  <1>5. CASE LeaseExpires(j)
    <2>1. job'[j] = [job[j] EXCEPT !.lease = "expired"]
      BY <1>1, <1>5 DEF LeaseExpires, TypeOK
    <2>2. /\ job'[j].status = job[j].status /\ job'[j].stage = job[j].stage
          /\ job'[j].attempt = job[j].attempt
      BY <1>2, <2>1 DEF Job
    <2> QED
      BY <1>1, <2>2
  <1>6. CASE Restarted(j)
    BY <1>2, <1>6 DEF Restarted, NewJob
  <1>7. CASE Recovered(j)
    <2>1. /\ job'[j].status = IF Exhausted(job[j]) THEN "FAILED" ELSE "QUEUED"
          /\ job'[j].attempt = job[j].attempt
      BY <1>2, <1>7 DEF Recovered, RecoverExpired, Job
    <2> QED
      BY <1>1, <1>2, <2>1 DEF Exhausted
  <1>8. ASSUME NEW w \in Worker, TakenBy(w, j) PROVE Within(job'[j])
    <2>1. /\ CanClaim(job[j]) /\ job'[j].status = "RUNNING"
          /\ job'[j].stage = job[j].stage
          /\ \/ job'[j].attempt = job[j].attempt + 1
             \/ /\ job[j].stage = "CHUNKING"
                /\ job'[j].attempt = IF DueRetry(job[j])
                                       THEN job[j].attempt + 1
                                       ELSE job[j].attempt
      BY <1>1, <1>8, TakenIsOwned
    <2> QED
      BY <1>1, <1>2, <2>1 DEF CanClaim, DueRetry
  <1>9. ASSUME NEW w \in Worker, MovedBy(w, j) PROVE Within(job'[j])
    <2>1. CASE Advancing(w)
      <3>1. /\ job'[j].status = job[j].status
            /\ job'[j].attempt = job[j].attempt
            /\ \/ job[j].stage # "CHUNKING"
               \/ job'[j].stage = "CHUNKING"
            /\ job[j].status = "RUNNING"
        BY <1>1, <1>9, <2>1, AdvancingKeeps DEF MovedBy, Owned
      <3> QED
        BY <1>1, <1>2, <3>1
    <2>2. CASE Leaving(w)
      <3>1. Owned(w) /\ task[w].job = j
        BY <1>1, <1>9, <2>2, LeavingEnds DEF MovedBy
      <3>2. /\ job'[j].attempt = job[j].attempt
            /\ job'[j].stage = job[j].stage \/ job'[j].status = "SUCCEEDED"
            /\ \/ task[w].pc = "release" /\ job'[j].status = "QUEUED"
               \/ task[w].pc = "complete" /\ job'[j].status = "SUCCEEDED"
               \/ job'[j].status = "FAILED"
               \/ /\ job'[j].status = "RETRY_SCHEDULED"
                  /\ job[j].attempt < MaxAttempts
        BY <1>1, <2>2, <3>1, LeavingRows
      <3>3. task[w].pc \in {"release", "complete"} =>
                job[j].attempt <= MaxAttempts /\ job[j].stage = "CHUNKING"
        BY <1>1, <1>2, <3>1 DEF TaskBudget, Owned, Holding
      <3> QED
        BY <1>1, <1>2, <3>2, <3>3
    <2> QED
      BY <1>9, <2>1, <2>2 DEF MovedBy
  <1> HIDE DEF Within
  <1> QED
    BY <1>3, <1>4, <1>5, <1>6, <1>7, <1>8, <1>9 DEF RowMoves

(* And so does a task: after a claim beyond the budget it does not even    *)
(* reach parsing.                                                          *)
LEMMA TaskBudgetKept ==
    ASSUME BudgetInv, TypeOK', [Next]_vars, NEW w \in Worker
    PROVE  TaskBudget(w)'
  <1> SUFFICES ASSUME task'[w].pc \in Holding
               PROVE  /\ task'[w].attempt > MaxAttempts => task'[w].pc = "parse"
                      /\ task'[w].pc \notin {"parse", "chunk"} /\ Owned(w)' =>
                             job'[task'[w].job].stage = "CHUNKING"
    BY DEF TaskBudget
  <1>1. /\ TypeOK /\ TaskBudget(w) /\ \A j \in JobId : RowBudget(j)
    BY BudgetParts
  <1>2. CASE \E j \in JobId : TakenBy(w, j)
    <2>1. PICK j \in JobId : TakenBy(w, j)
      BY <1>2
    <2>2. job[j].attempt \in Nat /\ MaxAttempts \in Nat
      BY <1>1 DEF TypeOK, Job
    <2>3. /\ task'[w].job = j /\ CanClaim(job[j])
          /\ job'[j].stage = job[j].stage
          /\ task'[w].attempt = job'[j].attempt
          /\ \/ task'[w].pc = "parse"
             \/ /\ task'[w].pc = "read"
                /\ job[j].stage = "CHUNKING"
                /\ job'[j].attempt = IF DueRetry(job[j])
                                       THEN job[j].attempt + 1
                                       ELSE job[j].attempt
      BY <1>1, <2>1, TakenIsOwned
    <2> QED
      BY <1>1, <2>2, <2>3 DEF RowBudget, CanClaim, DueRetry
  <1>3. CASE HeldOn(w)
    <2> DEFINE j == task[w].job
    <2>1. /\ task[w].pc \in Holding /\ j \in JobId /\ task'[w].job = j
          /\ task'[w].attempt = task[w].attempt
          /\ task'[w] = task[w] \/ Staying(w) \/ Advancing(w)
      BY <1>1, <1>3 DEF HeldOn, TypeOK, Holding
    <2>2. Staying(w) => task[w].pc \notin {"parse", "chunk"}
      BY DEF Staying, PrepareChunks, RecordChunkManifest, ReadBatch,
         WriteBatch, At
    <2>3. Advancing(w) => /\ Owned(w)
                          /\ \/ /\ task'[w].pc = "chunk"
                                /\ job[j].stage # "CHUNKING"
                             \/ /\ task[w].pc # "parse"
                                /\ job'[j].stage = "CHUNKING"
      BY <1>1, <2>1, AdvancingKeeps
    <2>4. task'[w].attempt > MaxAttempts => task'[w].pc = "parse"
      BY <1>1, <2>1, <2>2, <2>3 DEF TaskBudget, RowBudget, Owned
    <2>5. ASSUME Owned(w)', task'[w].pc \notin {"parse", "chunk"}
          PROVE  job'[j].stage = "CHUNKING"
      <3>1. /\ job'[j].status = "RUNNING" /\ job'[j].owner = w
            /\ job'[j].lease = "live" /\ job'[j].attempt = task[w].attempt
        BY <2>1, <2>5 DEF Owned
      <3>2. RowMoves(j)
        BY <1>1, <2>1, EveryRowMoves
      <3>3. CASE RowKept(j)
        <4>1. Owned(w) /\ job'[j].stage = job[j].stage
          BY <3>1, <3>3 DEF RowKept, Owned
        <4> QED
          BY <1>1, <2>1, <2>2, <2>3, <2>5, <4>1 DEF TaskBudget
      <3>4. ~LeaseExpires(j)
        BY <1>1, <2>1, <3>1 DEF LeaseExpires, TypeOK, Job
      <3>5. ~Restarted(j)
        BY <3>1 DEF Restarted, NewJob
      <3>6. ~Recovered(j)
        BY <1>1, <2>1, <3>1 DEF Recovered, RecoverExpired, TypeOK, Job
      <3>7. ASSUME NEW v \in Worker, TakenBy(v, j)
            PROVE  job'[j].stage = "CHUNKING"
        <4>1. /\ Owned(v)' /\ task'[v].job = j
              /\ job'[j].stage = job[j].stage
              /\ \/ task'[v].pc = "parse"
                 \/ job[j].stage = "CHUNKING"
          BY <1>1, <2>1, <3>7, TakenIsOwned
        <4>2. v = w
          BY <3>1, <4>1 DEF Owned
        <4> QED
          BY <2>5, <4>1, <4>2
      <3>8. ASSUME NEW v \in Worker, MovedBy(v, j)
            PROVE  job'[j].stage = "CHUNKING"
        <4>1. ~Leaving(v)
          BY <1>1, <3>1, <3>8, LeavingRows DEF MovedBy
        <4>2. /\ Advancing(v) /\ Owned(v) /\ task[v].job = j
              /\ job'[j].owner = job[j].owner
              /\ \/ task'[v].pc = "chunk"
                 \/ job'[j].stage = "CHUNKING"
          BY <1>1, <2>1, <3>8, <4>1, AdvancingKeeps DEF MovedBy
        <4>3. v = w
          BY <3>1, <4>2 DEF Owned
        <4> QED
          BY <2>5, <4>2, <4>3
      <3> HIDE DEF j
      <3> QED
        BY <3>2, <3>3, <3>4, <3>5, <3>6, <3>7, <3>8 DEF RowMoves
    <2> QED
      BY <2>1, <2>4, <2>5
  <1> QED
    BY <1>1, <1>2, <1>3, HoldingMoves

(* No retry is scheduled once the attempts are used up, and a claim can    *)
(* exceed the budget by one at most (claim, fail, recover_expired).        *)
THEOREM AttemptsAreBounded == Spec => []AttemptsBounded
  <1>1. Init => BudgetInv
    <2> SUFFICES ASSUME Init PROVE BudgetInv
      OBVIOUS
    <2>1. \A j \in JobId : job[j].status = "ABSENT" /\ job[j].attempt = 0
      BY DEF Init, NewJob
    <2>2. \A w \in Worker : task[w].pc = "idle"
      BY DEF Init, Idle
    <2>3. AttemptsBounded
      BY <2>1 DEF AttemptsBounded
    <2> QED
      BY <2>1, <2>2, <2>3, InitTypes DEF BudgetInv, Holding
  <1>2. BudgetInv /\ TypeOK' /\ [Next]_vars => BudgetInv'
    <2> SUFFICES ASSUME BudgetInv, TypeOK', [Next]_vars PROVE BudgetInv'
      OBVIOUS
    <2>1. (\A j \in JobId : RowBudget(j))'
      BY RowBudgetKept
    <2>2. (\A w \in Worker : TaskBudget(w))'
      BY TaskBudgetKept
    <2> QED
      BY <2>1, <2>2 DEF BudgetInv, AttemptsBounded, RowBudget, TaskBudget
  <1>3. BudgetInv => AttemptsBounded
    BY DEF BudgetInv
  <1> QED
    BY <1>1, <1>2, <1>3, TypeCorrect, PTL DEF Spec

-----------------------------------------------------------------------------
(* When leases outlive their tasks.                                        *)

(* Two tasks that hold a job at the same time hold different ones.         *)
LEMMA OneHolder ==
    ASSUME LeaseInv, LeaseOutlivesTask, NEW v \in Worker, NEW w \in Worker,
           task[v].pc \in Holding, task[w].pc \in Holding,
           task[v].job = task[w].job
    PROVE  v = w
  BY DEF LeaseInv, Owned

(* Of a job's vectors, only the write of a batch of the job touches one.   *)
LEMMA VectorsMove ==
    ASSUME IndexInv, [Next]_vars, NEW j \in JobId
    PROVE  \/ embedding'[j] = embedding[j]
           \/ \E v \in Worker : WriteBatch(v) /\ task[v].job = j
  <1> USE DEF IndexInv, TypeOK
  <1>1. ASSUME NEW v \in Worker, PrepareChunks(v)
        PROVE  embedding'[j] = embedding[j]
    <2> DEFINE k == task[v].job
    <2>1. CASE k = j /\ CreatesChunks(k)
      <3>1. embedding'[j] = [c \in Chunk |-> NoModel] /\ ~source[j]
        BY <1>1, <2>1 DEF PrepareChunks, CreatesChunks
      <3>2. \A c \in Chunk : embedding[j][c] = NoModel
        BY <3>1 DEF Embedded
      <3> QED
        BY <3>1, <3>2
    <2>2. CASE ~(k = j /\ CreatesChunks(k))
      BY <1>1, <2>2 DEF PrepareChunks
    <2> QED
      BY <2>1, <2>2
  <1>2. ASSUME NEW v \in Worker, WriteBatch(v), task[v].job # j
        PROVE  embedding'[j] = embedding[j]
    BY <1>2 DEF WriteBatch
  <1> QED
    BY <1>1, <1>2, KnowledgeMoves DEF vars, knowledge

(* Chunks without a vector are cut into batches; the contract is the model *)
(* of some chunk that has one.                                             *)
LEMMA ContractIsAModel ==
    ASSUME NEW j \in JobId, Embedded(j) # {}
    PROVE  \E c \in Embedded(j) : Contract(j) = embedding[j][c]
  <1>1. Embedded(j) \in SUBSET Nat
    BY DEF Embedded, Chunk
  <1>2. \E c \in Embedded(j) : \A d \in Embedded(j) : c <= d
    <2>1. IsWellFoundedOn(OpToRel(<, Nat), Nat)
      BY NatLessThanWellFounded
    <2>2. PICK c \in Embedded(j) :
             \A d \in Embedded(j) : <<d, c>> \notin OpToRel(<, Nat)
      BY <1>1, <2>1, WFMin
    <2>3. ASSUME NEW d \in Embedded(j), ~(c <= d)
          PROVE  <<d, c>> \in OpToRel(<, Nat)
      BY <1>1, <2>3 DEF OpToRel
    <2> QED
      BY <2>2, <2>3
  <1> QED
    BY <1>2 DEF Contract

(* The read of a batch chooses chunks without a vector, and a model that   *)
(* agrees with the vectors there are.                                      *)
LEMMA ReadIsClean ==
    ASSUME TypeOK, OneModelPerSource, NEW w \in Worker, ReadBatch(w),
           task'[w].pc = "write"
    PROVE  /\ task'[w].todo \cap Embedded(task[w].job)' = {}
           /\ \A c \in Embedded(task[w].job)' :
                 embedding'[task'[w].job][c] = task'[w].model
  <1> USE DEF TypeOK
  <1>1. PICK j \in JobId : j = task[w].job
    BY DEF ReadBatch, At
  <1>2. /\ embedding' = embedding
        /\ NextBatch(j) = {} \/ Contract(j) \in {NoModel, served}
        /\ task'[w] = [task[w] EXCEPT
               !.pc = IF NextBatch(j) = {} THEN "advance" ELSE "write",
               !.seen = Embedded(j), !.todo = NextBatch(j),
               !.model = IF NextBatch(j) = {} THEN NoModel ELSE served]
    BY <1>1 DEF ReadBatch, SetTask, knowledge
  <1>3. /\ NextBatch(j) # {} /\ task'[w].job = j
        /\ task'[w].todo = NextBatch(j) /\ task'[w].model = served
    <2>1. /\ task'[w].pc = IF NextBatch(j) = {} THEN "advance" ELSE "write"
          /\ task'[w].job = j /\ task'[w].todo = NextBatch(j)
          /\ task'[w].model = IF NextBatch(j) = {} THEN NoModel ELSE served
      BY <1>1, <1>2 DEF Task
    <2> QED
      BY <2>1
  <1>4. Embedded(task[w].job)' = Embedded(j)
    BY <1>2, <1>3 DEF Embedded
  <1>5. NextBatch(j) \cap Embedded(j) = {}
    BY DEF NextBatch
  <1>6. ASSUME NEW c \in Embedded(j) PROVE embedding[j][c] = served
    <2>1. PICK d \in Embedded(j) : Contract(j) = embedding[j][d]
      BY <1>6, ContractIsAModel
    <2>2. embedding[j][d] # NoModel
      BY DEF Embedded
    <2>3. embedding[j][d] = served
      BY <1>2, <1>3, <2>1, <2>2
    <2> QED
      BY <2>3 DEF OneModelPerSource
  <1> QED
    BY <1>2, <1>3, <1>4, <1>5, <1>6

(* BatchInv is inductive, given the lease and the index.                   *)
LEMMA BatchInvInductive ==
    BatchInv /\ LeaseInv /\ IndexInv /\ [Next]_vars => BatchInv'
  <1> SUFFICES ASSUME BatchInv, LeaseInv, IndexInv, [Next]_vars,
                      LeaseOutlivesTask
               PROVE  /\ OneModelPerSource'
                      /\ \A w \in Worker : task'[w].pc = "write" =>
                            /\ task'[w].todo \cap Embedded(task[w].job)' = {}
                            /\ \A c \in Embedded(task[w].job)' :
                                  embedding'[task'[w].job][c] = task'[w].model
    BY DEF BatchInv, At
  <1>1. /\ TypeOK /\ OneModelPerSource
        /\ \A w \in Worker : task[w].pc = "write" =>
              /\ task[w].todo \cap Embedded(task[w].job) = {}
              /\ \A c \in Embedded(task[w].job) :
                    embedding[task[w].job][c] = task[w].model
    BY DEF BatchInv, LeaseInv, At
  <1>2. ASSUME NEW j \in JobId, embedding'[j] = embedding[j]
        PROVE  Embedded(j)' = Embedded(j)
    BY <1>2 DEF Embedded
  <1>3. ASSUME NEW j \in JobId
        PROVE  \A c, d \in Embedded(j)' : embedding'[j][c] = embedding'[j][d]
    <2>1. CASE embedding'[j] = embedding[j]
      BY <1>1, <1>2, <2>1 DEF OneModelPerSource
    <2>2. ASSUME NEW v \in Worker, WriteBatch(v), task[v].job = j
          PROVE  \A c \in Embedded(j)' : embedding'[j][c] = task[v].model
      <3>1. /\ embedding'[j] = [c \in Chunk |->
                   IF c \in task[v].todo THEN task[v].model
                   ELSE embedding[j][c]]
            /\ task[v].pc = "write"
        BY <1>1, <2>2 DEF WriteBatch, At, TypeOK
      <3>2. \A c \in Embedded(j) : embedding[j][c] = task[v].model
        BY <1>1, <2>2, <3>1
      <3> QED
        BY <3>1, <3>2 DEF Embedded
    <2> QED
      BY <2>1, <2>2, VectorsMove
  <1>4. ASSUME NEW w \in Worker, task'[w].pc = "write"
        PROVE  /\ task'[w].todo \cap Embedded(task[w].job)' = {}
               /\ \A c \in Embedded(task[w].job)' :
                     embedding'[task'[w].job][c] = task'[w].model
    <2>1. CASE task'[w] = task[w]
      <3>1. PICK j \in JobId : j = task[w].job
        BY <1>1, <1>4, <2>1 DEF TypeOK
      <3>2. embedding'[j] = embedding[j]
        <4>1. ASSUME NEW v \in Worker, WriteBatch(v), task[v].job = j
              PROVE  FALSE
          <5>1. task[v].pc = "write" /\ task'[v].pc = "advance"
            BY <1>1, <4>1 DEF WriteBatch, At, SetTask, TypeOK, Task
          <5>2. v = w
            BY <1>4, <2>1, <3>1, <4>1, <5>1, OneHolder DEF Holding
          <5> QED
            BY <1>4, <5>1, <5>2
        <4> QED
          BY <4>1, VectorsMove
      <3>3. Embedded(task[w].job)' = Embedded(j)
        BY <2>1, <3>1, <3>2 DEF Embedded
      <3> QED
        BY <1>1, <1>4, <2>1, <3>1, <3>2, <3>3
    <2>2. CASE ReadBatch(w)
      BY <1>1, <1>4, <2>2, ReadIsClean
    <2>3. CASE WriteBatch(w)
      <3>1. task'[w].pc = "advance"
        BY <1>1, <2>3 DEF WriteBatch, SetTask, TypeOK, Task
      <3> QED
        BY <1>4, <3>1
    <2>4. CASE AdvanceBatch(w)
      <3>1. PICK next, p : /\ next \in {"complete", "release"}
                           /\ AdvanceTo(w, "CHUNKING", p, next)
        BY <2>4 DEF AdvanceBatch
      <3>2. task[w].job \in JobId
        BY <1>1, <2>4 DEF AdvanceBatch, At, TypeOK
      <3> QED
        BY <1>1, <1>4, <3>1, <3>2, AdvanceToEffect
    <2> QED
      BY <1>1, <1>4, <2>1, <2>2, <2>3, <2>4, FrameMoves
  <1> QED
    BY <1>3, <1>4 DEF OneModelPerSource

(* BatchInv holds in every reachable state.                                *)
LEMMA BatchInvariant == Spec => []BatchInv
  <1>1. Init => BatchInv
    BY DEF Init, BatchInv, OneModelPerSource, Embedded, At, Idle
  <1> QED
    BY <1>1, LeaseInvariant, IndexInvariant, BatchInvInductive, PTL DEF Spec

(* If leases outlive their tasks, at most one task works on a job between  *)
(* claim and release, and no chunk is embedded twice (claim,               *)
(* _locked_owned_bundle, Settings.validate_timeouts).                      *)
THEOREM TasksAreAlone == Spec => [](LeaseOutlivesTask => OneTaskPerJob)
  <1>1. LeaseInv /\ BatchInv => (LeaseOutlivesTask => OneTaskPerJob)
    BY OneHolder DEF BatchInv, OneTaskPerJob
  <1> QED
    BY <1>1, LeaseInvariant, BatchInvariant, PTL

(* And the vectors of a document come from one model, although the         *)
(* provider may change models at any time (the contract of the batch).     *)
THEOREM ModelsDoNotMix == Spec => [](LeaseOutlivesTask => OneModelPerSource)
  <1>1. BatchInv => (LeaseOutlivesTask => OneModelPerSource)
    BY DEF BatchInv
  <1> QED
    BY <1>1, BatchInvariant, PTL
=============================================================================
