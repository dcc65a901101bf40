# knowAgent: formal models

knowAgent answers questions from documents that an organisation uploads.  A
document is parsed, cut into chunks and embedded in the background, and
published; a question is answered from the published chunks, or refused and
made a ticket that a person answers; an answer that a reviewer approves becomes
knowledge in turn.  The backend (`src/backend/src/knowagent`) is a FastAPI
application on one event loop, Celery workers with a beat scheduler,
PostgreSQL, Redis and an object store.

The modules here are translations of that code into TLA+.  TLC checks them on
small instances (`tlc -config MCX.cfg MCX`), and the `*Proofs` modules prove
theorems about most of them for every value of the constants
(`tlapm XProofs.tla`).  `PROJECT.json` names the lines every definition stands
for.

- [1 The system](#1-the-system)
- [2 The modules](#2-the-modules)
- [3 The runs](#3-the-runs)
- [4 Fairness](#4-fairness)
- [5 What the code does not keep](#5-what-the-code-does-not-keep)
- [6 What is proved](#6-what-is-proved)
- [7 What the models leave out](#7-what-the-models-leave-out)
- [8 Plan](#8-plan)

## 1 The system

| Component | State | Operations | What is hard | What makes it correct |
|---|---|---|---|---|
| **Ingestion** (`documents/`, `worker/tasks.py`) | `ingestion_jobs` (status, stage, attempt, owner, lease), `document_versions`, `knowledge_sources`, `knowledge_chunks`, broker queue, manifest in the object store | commit an upload, dispatch, process, batch, complete, fail, recover, manual retry | workers that die or stall, leases that run out under them, messages lost or repeated; unlocked reads before a provider call | only the owner of an unexpired lease moves a job; `READY_DRAFT` exactly with `SUCCEEDED`, and then with every chunk embedded; attempts are bounded; every job settles |
| **Publication and deletion** (`knowledge/application/publication.py`, `documents/api/lifecycle_router.py`, `documents/application/ingestion_service.py`) | `documents`, `document_versions` with idempotency keys, publication status in three tables, objects | upload a document or a version, publish, retire, delete a version or a document | an object stored before its row; an unlocked look at the jobs before a deletion; row locks in several tables | the current version is the one that is searched and shown as published; no stored object is lost; locks are taken in one order |
| **Retrieval** (`retrieval/`, `agent/application/evidence_decision.py`, `answer_generation.py`) | cooldown of the reranker | search by keyword and by vector, fuse, rerank, degrade, choose evidence, decide, check the answer | two statements of different snapshots with an await between them; partial failure of providers; thresholds on sums of reciprocal ranks | evidence was published while the question was searched for; fused ranks are ordered; refusals have a reason in the hits |
| **Admission** (`agent/api/router.py`) | stream grants in Redis, prompts cached with the request | ask, grant and redeem a stream, check access, set a run up | a grant presented twice; access and configuration that change between two steps of one request | a grant starts one run; access is that of now; one set of prompts per run |
| **Configuration** (`agent/infrastructure/prompt_repository.py`, `retrieval_profile_repository.py`) | `prompt_definitions`, `retrieval_profiles` | save a version, activate one | an activation locks only what it finds | one active version of a name, and never none again |
| **Systems, owners, access** (`systems/`, `identity/api/access.py`) | `business_systems`, `account_system_roles`, sessions | create, change, add or replace owners, check access | replacements that cross; sessions revoked before the commit | access is decided from committed rows at each request |
| **Questions** (`agent/application/`) | `conversations`, `conversation_messages`, decisions, answer snapshots | answer or stream a question, delete a conversation | synchronous database calls on the event loop, locks held across awaits, the commit after the response, rollbacks inside a degraded call | turns are numbered and stay together; what was asked is kept; the client is told what is stored |
| **Tickets** (`tickets/`) | `tickets`, occurrences, transitions, `knowledge_candidates`, `evidence_decisions` | refuse (deduplicated), assign, start, resolve, close, reopen, reply, submit, approve, reject | the approval awaits a provider between its check and its lock; equal questions at once | one ticket per question and window; each run counted once; work has an assignee; one answer under review, one publication per approval |
| **Notifications** (`notifications/`) | `outbox_events`, `notification_deliveries`, configuration, broker queue | publish, prepare and queue (one scan), claim, send, record, manual retry, configure | the provider is called between two transactions; crashes, lost messages, stale scans that overlap a slow call | a stale attempt changes nothing; automatic attempts are bounded; what is settled stays so; every delivery settles |
| **Identity** (`identity/`) | `accounts` with an optimistic lock, sessions and counters in Redis | login, logout, create, change status, role or password | two stores without a common transaction; copies of rows saved back; counters read before the check and written after it | an active administrator always exists; a session opened before a change is never accepted after it; failed logins are bounded |
| **Parsers, chunker** (`documents/`) | none | bytes to blocks to chunks | boundaries | - |
| **Analytics, audit queries** | read only | queries | none | - |
| **Settings, assembly, migrations, scripts** | configuration | start-up | relations between settings | lease and stale thresholds exceed the time limits |
| **Frontend, model service** (`frontend/`, `model-service/`) | user interface; a stateless inference server | - | none that the backend relies on | - |

How they interact.  The upload endpoint writes a version and a job, commits,
and leaves the dispatch to a background task of the request; API, beat and
workers meet only in the rows of a job and in the broker's queue.  A version
whose job has succeeded can be published, and the two searches of a question
find the chunks of what is published when each of them runs.  A question is let
in by the access of its account, set up with the active prompts and a profile,
runs on the event loop, and writes its turn, and a refusal through the ticket
service, in the transaction of the request.  The ticket service writes to the
outbox in the transaction that changes the ticket; beat takes it from there.
An approved answer is written to the same sources and chunks as a document.
Every endpoint authenticates against a session of identity.

## 2 The modules

Three modules are **abstract**: they say what one component promises to the
next, and the next is built on the promise alone.

```
  IngestionJob                              Configuration   Access
       |                                          \          /
   Ingestion  --implements-->  UploadLifecycle      Admission
                                     |
                                Publication  --implements-->  KnowledgeBase
                                                                   |
                                                                Search
```

| Module | Models | Correspondence |
|---|---|---|
| `IngestionJob` | `documents/domain/ingestion.py` | A job is a record; every method that changes one is an operator from row to row, with a `Can...` operator for its checks. Times are what the code compares them with: `lease` is none, live or expired, `due` says that the retry time has come, `dispatched` that the dispatch is younger than the stale threshold. |
| `Ingestion` | the coordinator's transactions, `worker/tasks.py`, the processor and the indexer, the upload's commit and the retry endpoint, the recovery service | One action per transaction. `task[w]` is the Python frame of worker `w`: `pc` is the call it makes next, the other fields are what it read earlier (attempt, manifest key, chunk count, chunks seen, batch to write). `messages` is the broker's queue: a set, as a delivered message may stay. `dispatching` holds the loops that enqueue and then mark in a transaction of their own. |
| `UploadLifecycle` | *abstract*: what an import promises | An upload is none, working, ready or failed, and its index none, partial or full. |
| `IngestionRefinement` | the mapping of `Ingestion` to `UploadLifecycle` | `ImplementsLifecycle`, and with fairness `SettlesEveryUpload`. |
| `Publication` | `ingestion_service.py`, `publication.py`, `lifecycle_router.py` and their repositories | `request[r]` is a handler between two statements; an action ends where it waits for a row lock, commits, or has changed the object store. Versions are imported by the steps of `UploadLifecycle` (`Import!Grow`, ...), so every behaviour of `Ingestion` is covered. |
| `KnowledgeBase` | *abstract*: what publication promises to a search | Which versions are complete, searchable, withdrawn. |
| `PublicationRefinement` | the mapping of `Publication` to `KnowledgeBase` | `ImplementsKnowledgeBase`. |
| `Search` | the retrieval service, both searches, the rerank provider, the evidence policy and organizer, the grounding check | One question over a `KnowledgeBase` that goes on meanwhile. `Rankings` lets a channel rank the chunks it finds in any order; the arithmetic of fusion, thresholds and budgets is the code's, in units of `1/Unit`. |
| `Configuration` | the prompt and the profile repository | `row` is committed, `change[r]` the transaction of a request with what its statement has found and locked so far. |
| `Access` | the system service and its repository, `require_system_access` | `edit[r]` is the transaction of an administrator's request, statement by statement. |
| `Admission` | `ask_question`, `start_question_stream`, `question_stream_events`, the set-up of a run | Composes `Configuration` and `Access` (`INSTANCE`, their variables are shared): a request is a question, a change of the configuration or a change of a system. |
| `Questions` | the run of a question, the stream generator, the conversation service, deletion | `loop` is the request that runs on the event loop; an action that blocks there is not enabled and leaves `loop` where it is. `tx` is what a request has flushed, `held` the locks its transaction has, and the commit is a step of a thread after the response. |
| `Tickets` | refusals, workflow, replies, submission and review | A request takes locks (`held`) on rows and advisory keys, and its last action is its commit: what it wrote becomes visible and the locks are free. |
| `Notifications` | outbox, preparation, recovery, delivery, configuration | One action per transaction, and one for the provider call between two of them (`Send`). `accepted` counts what the provider took; it is a record of the outside and no state of the code. |
| `Accounts` | `AuthService`, `AccountService`, the account repository, the Redis sessions and the limiter | A request is a frame with the copy of the row it read; saves and locks are visible at `Commit`, Redis commands at once. `locked` is the row lock. |
| `IngestionProofs`, `NotificationsProofs`, `AccountsProofs`, `TicketsProofs`, `QuestionsProofs`, `PublicationProofs`, `SearchProofs`, `AdmissionProofs` | theorems | section 6 |
| `MC*` | instances | Symmetry sets; the constants are in the `.cfg` files. |

The others meet at their borders only: what one component sees of another is a
step that may fail or an input.  The events that `Tickets` writes are `Event`
in `Notifications`; the decision a question records is made in `Questions` and
counted in `Tickets`; the roles that are fixed in `Access` change in `Accounts`;
what a run is let in with in `Admission` it has in `Questions`.

Operators marked "Mutant" in the modules are plausible errors; each property
is broken by at least one of them when it takes the place of the definition it
belongs to, so each property depends on what the code does.

A module's type invariant is a conjunct of one of its invariants
(`FailuresBounded`, `OccurrencesCounted`, `TurnsInOrder`,
`CurrentIsSearchable`, `EvidenceWasPublished`, `RunsStartOnce`,
`CycleWithinBudget`) rather than a property of its own, except in `Ingestion`,
where it is the first of the theorems.

## 3 The runs

None of the systems has to go on for ever: all jobs may have settled and all
bounds be reached.  `CHECK_DEADLOCK FALSE` is set for that reason; that work in
progress does not get stuck is what the properties with fairness check.

| Run | Shows | Bounds |
|---|---|---|
| `ingestion` | Leases may run out under a running task, so that up to two workers believe in the same job. The fencing keeps job and version together, indexes every succeeded job, keeps stale workers away, bounds the attempts; no step loses chunks or vectors, and every step is one of `UploadLifecycle`. | 2 workers, 1 job, 2 chunks in batches of 1, 2 attempts. 1.08 M states |
| `ingestion_timely` | When a lease outlives its task, tasks exclude each other, no batch is embedded twice, and a document is embedded by one model, though the provider changes models. | + 2 models, 1 crash or lost message. 0.74 M states |
| `ingestion_live` | `UploadLifecycle` with its fairness: no upload is worked on for ever. | 1 worker, 2 crashes or lost messages |
| `publication` | What is searched, what is shown as published and what is stored agree; a deletion never takes away an import that was retried; locks are taken in order; every step is one of `KnowledgeBase`. | 2 requests, 3 versions, 2 documents, 2 keys. 0.45 M states |
| `search` | Where the evidence comes from, that fused ranks favour agreement, and when a score refuses. | 2 documents, 3 versions of 1 chunk, lists of 2, candidates 3, evidence of 2 items or 2 characters. 1.56 M states |
| `admission` | One active version, none lost; a grant starts one run; one set of prompts per run. | 2 requests at once and 4 in all (`MaxRequests`), 2 versions of 3 names, 1 system, an owner and a user, 1 grant. 0.88 M states |
| `questions` | Turns are numbered without gaps, an answer follows its question, questions are kept, the client is told what is stored. | 2 requests, 1 conversation or none, 2 questions, every failure |
| `questions_stall` | *finding 2* | 2 requests, no failure, fair |
| `tickets` | Locks keep one ticket per question and window, one count per run, an unbroken record of transitions, an assignee for work, one answer under review, one publication. | 2 requests, 2 runs of 1 question, 2 tickets, 2 answers, 3 transitions. 0.52 M states |
| `notifications` | Budgets hold, sends are on record, stale results and settled deliveries are left alone, and under fairness every event published is prepared and every delivery settles. | 1 event, 1 account and the unresolved recipient, 2 workers, 1 fault, budgets 1 and 2, 1 manual retry, 3 attempt ids. 0.22 M states |
| `accounts` | An active administrator remains, old sessions are rejected, the session of an undone change is not let in by a later one, failures are bounded by the attempts allowed and the requests at once. | 2 accounts, 2 requests on different accounts, versions up to 3, 2 tokens. 2.43 M states |
| `accounts_overlap` | *finding 1* | the same with 1 token, on the same account |

**Bounds.**  `MaxFaults` bounds crashes, lost messages and (in
`Notifications`) calls that outlast the stale threshold; `MaxRetries` the
administrator's retries; `MaxMoves` the transitions of all tickets;
`MaxVersion` the changes of an account; `MaxRequests` the requests that begin
in `Admission`.  `Ticket`, `Candidate`, `Token`, `Version` and `AttemptId` are
ids; an id nobody holds is a new one, and their numbers bound how many exist.
`MaxAttempts`, `Attempts`, `BatchSize` and the constants of `Search` are
settings of the program.

They are enough for what can go wrong here.  Every race in the code is between
two parties over one row: the worker that lost a job and the one that took it
over, two requests for the same account, ticket, key, name or conversation.
Jobs do not interact but through the workers, and deliveries not at all.  Two
chunks in batches of one make a first batch (no contract yet), a second one
(bound by the contract of the first) and a completion.  Two attempts allow a
retry after a failure and an exhaustion.  In `ingestion` crashes are covered
although `MaxFaults` is 0: a task whose lease runs out and that never moves
again is a crashed one, and `messages` may redeliver.  Three versions let one
of a document be replaced while another document is published or deleted, and
a key be taken while an upload of it is stored.  Four requests in `admission`
are a grant, its redemption, and two changes between them (or three changes
around one question).  In `search` the settings stand in the
proportion of the defaults, `1/(RrfK+1) > DegradedMinimum > 1/(RrfK+TopK) >
MinimumScore`, so that a comparison that can come out either way with the
defaults can do so here; one source is beyond the evidence budget.

## 4 Fairness

*Ingestion.*  Weak fairness of each worker's steps: the pool runs its tasks.
Strong fairness of receiving each message: a worker is free again and again,
and the broker delivers what it has.  Strong fairness of each enqueue: the
scan repeats it until the broker takes it, an attempt may fail
(`DispatchFails`).  Weak fairness of the recovery scan: beat starts it
periodically.  Weak fairness of `LeaseExpires`, `RetryFallsDue`,
`DispatchGoesStale`: time passes.  There is none for uploads, manual retries,
failures, crashes, losses or changes of the model.  A job may be crashed for
ever by a batch that kills its worker, for the continuation of a recovered
batch does not count as an attempt (`ingestion.py:258`); the crashes are bounded
for that reason, and nothing is claimed without that bound.

*Notifications.*  The same pattern: the scan, the steps of a delivery task,
enqueue, reception (strong), the passage of time.

*Questions.*  Weak fairness of `Progress(r)`: providers answer or run into
their timeout, and the loop and the thread pool run what is ready.  An action
that waits for a lock is not enabled, so fairness cannot push it through.

## 5 What the code does not keep

Each of these is a run in which TLC finds the property violated.

1. **`accounts_overlap` / `AnActiveAdmin`**
   (`identity/infrastructure/sqlalchemy_repository.py:29`).  `save` reads the
   row again and copies an older copy over it, so the optimistic lock compares
   with the version of now.  A password change that read a `USER` undoes a
   promotion committed meanwhile; if the other administrator was demoted in
   between, none is left.  The run `accounts` excludes requests on the same
   account at once (`SameAccount = FALSE`); there the property holds, and is
   proved.
2. **`questions_stall` / `TurnsTakeTurns`** (`agent/api/router.py:257`).  A
   stream takes its conversation's row lock, then awaits the providers, and
   commits when it ends.  A second stream of the conversation asks for the
   lock in a synchronous call on the event loop.  The loop blocks, so the
   first stream never goes on, so the lock is never released: the process
   stands still.  `append_message` says that the lock serializes the turns
   (`conversation_service.py:139`).

Observations made while modelling, which no run states as a property.  The first
four contradict what the repository says, and are behaviours of the modules:

- *Questions.*  A stream flushes the user's turn before its first event, so that
  it survives a client that goes away and a provider that fails
  (`agent/api/router.py:254`).  A vector search that fails in the database rolls
  back the session it shares with the stream
  (`retrieval/infrastructure/sqlalchemy_search.py:83`): `Start`, `Rewritten`,
  `PersistUserTurn`, `VectorSearchFails`, and the turn and the conversation's lock
  are gone; `Decide`, `Generated`, `PersistTerminalTurn`, `EndRequest`, `Commit`,
  and the conversation holds an answer without its question.  `QuestionKept` is
  stated for the requests this does not happen to (`dropped`).
- *Search.*  `docs/engineering/02-development-principles.md:29` asks that an old
  and a new version be never both in the results.  They are when the new one is
  published while the question awaits its embedding, between the lexical and the
  vector statement (`retrieval/application/retrieval_service.py:83`).
  `EvidenceWasPublished` says what holds instead: a publication between the two
  is the only way to it.
- *Owners.*  The sessions of an account that becomes or ceases to be an owner
  have to end (`AI_DEVELOPMENT_RULES.md:353`, `03-feature-changelog.md:770`).  The
  owners before the assignment are read without a lock
  (`systems/application/system_service.py:138`).  A replacement by an empty list
  that has read no owner, and whose DELETE then finds one another request has
  added since, removes that owner and ends no session.  The session is left, but
  no access, which is read from the rows of now.
- Nothing locks the system (`systems/infrastructure/sqlalchemy_repository.py:121`),
  so two replacements at once do not find each other's rows, and leave the union
  of their lists, though a replacement is to replace (`03-feature-changelog.md:754`).

The others:

- *Ingestion.*  `prepare_chunks` commits the chunks before
  `record_chunk_manifest` writes the manifest key and the chunk count
  (`worker/tasks.py:185`).  After a crash between the two the job succeeds with
  no manifest and a count of 0, against the changelog
  (`03-feature-changelog.md:848`, `:348`).
- A process message delivered again may find a job at `CHUNKING` queued for its
  next batch after `PeekJob` decided to claim; the claim then counts an attempt
  that a continuation would not.  `AttemptsBounded` allows for it.
- A batch that kills its worker is recovered and continued without counting an
  attempt (`documents/domain/ingestion.py:258`), for ever if it does so for ever.
- *Questions.*  The terminal event of a stream precedes the commit.  If the commit fails, the
  client has been told of an answer that is not stored (`ToldWhatIsStored`
  speaks of requests whose commit succeeded).
- A stream whose conversation is gone when it starts, or that fails before its
  first event, closes without a terminal event (`router.py:246-266` is outside
  the `try` of `:316`).
- The wait of finding 2 exists for the deduplication lock too
  (`tickets/application/refusal.py:95`), in the short time between the refusal
  and the hand-off of its commit to a thread; and for the connection pool
  (`platform/database.py:9`), of which every stream keeps a connection.
- *Search.*  With the default settings one rank alone scores at least 1/80 = 0.0125, above
  the minimum of 0.012: the threshold never refuses an undegraded search.
  `ScoreRefusesOnlyReordered` says when it does refuse.
- *Access and administration.*  `SystemService.update` writes back the status it
  read, so a concurrent change of it is lost.  A request checks the role of the copy it
  authenticated with, so a demotion in between counts from the next request on.
  Sessions are revoked before the commit; that is harmless here, as access is
  read from the rows of now.
- *Tickets.*  Assignment takes any account that exists as the assignee.

## 6 What is proved

For every value of the constants, from the named `ASSUME`s of the modules and
nothing else.

| Theorem | States |
|---|---|
| `IngestionProofs!TypeCorrect` | `Spec => []TypeOK` |
| `IngestionProofs!IndexInvariant` | `Spec => []IndexInv` |
| `IngestionProofs!StatusesAgree` | `Spec => []ReadyDraftIffSucceeded` |
| `IngestionProofs!PublishableIsIndexed` | `Spec => [](ReadyDraftIffSucceeded /\ SucceededFullyIndexed)` |
| `IngestionProofs!IndexGrows` | `Spec => IndexOnlyGrows` |
| `IngestionProofs!Implementation` | `Spec => ImplementsLifecycle`: the pipeline implements `UploadLifecycle` |
| `IngestionProofs!StaleTasksAreHarmless` | `Spec => StaleWorkerHarmless` |
| `IngestionProofs!WorkIsRunning` | `Spec => []WorkingVersionIsRunning` |
| `IngestionProofs!AttemptsAreBounded` | `Spec => []AttemptsBounded` |
| `IngestionProofs!TasksAreAlone` | `Spec => [](LeaseOutlivesTask => OneTaskPerJob)` |
| `IngestionProofs!ModelsDoNotMix` | `Spec => [](LeaseOutlivesTask => OneModelPerSource)` |
| `NotificationsProofs!AttemptsStayWithinBudget` | `Spec => []CycleWithinBudget` |
| `NotificationsProofs!SettledStays` | `Spec => SettledIsFinal` |
| `NotificationsProofs!LateResultsAreHarmless` | `Spec => StaleAttemptHarmless` |
| `NotificationsProofs!SendsAreOnRecord` | `Spec => []SendsOnRecord` |
| `AccountsProofs!AnAdminRemains` | `~SameAccount /\ Spec => []AnActiveAdmin` |
| `AccountsProofs!OldSessionsAreRejected` | `~SameAccount /\ Spec => []OldSessionsRejected` |
| `AccountsProofs!UndoneSessionsStayOut` | `~SameAccount /\ Spec => OnlyItsCommitAdmits` |
| `AccountsProofs!FailuresStayBounded` | `Spec => []FailuresBounded` |
| `TicketsProofs!TicketInvariant` | `Spec => []TicketInv` |
| `TicketsProofs!OccurrencesAreCounted` | `Spec => []OccurrencesCounted` |
| `TicketsProofs!StatusStaysOnRecord` | `Spec => []StatusIsOnRecord` |
| `TicketsProofs!WorkIsAssigned` | `Spec => []WorkHasAnAssignee` |
| `TicketsProofs!AnswersAreReviewedOnce` | `Spec => []AnswersReviewedOnce` |
| `TicketsProofs!OneTicketForAWindow` | `Spec => OneTicketPerWindow` |
| `QuestionsProofs!QuestionsInvariant` | `Spec => []QuestionsInv` |
| `QuestionsProofs!TurnsStayInOrder` | `Spec => []TurnsInOrder` |
| `QuestionsProofs!QuestionsAreKept` | `Spec => []QuestionKept` |
| `QuestionsProofs!StoredIsTold` | `Spec => []ToldWhatIsStored` |
| `PublicationProofs!CurrentVersions` | `Spec => []CurrentIsSearchable` |
| `PublicationProofs!FilesAreKept` | `Spec => []ObjectsKept` |
| `PublicationProofs!LocksAreOrdered` | `Spec => []LockOrder` |
| `PublicationProofs!RetriesAreKept` | `Spec => RetryKept` |
| `PublicationProofs!KnowledgeIsKept` | `Spec => ImplementsKnowledgeBase` |
| `SearchProofs!EvidenceIsPublished` | `Spec => []EvidenceWasPublished` |
| `SearchProofs!AgreementComesFirst` | `Spec => []AgreementWins`, if `AgreementOutweighs` |
| `SearchProofs!ScoreRefusesOnlyThen` | `Spec => []ScoreRefusesOnlyReordered`, if `RanksReachThresholds` |
| `AdmissionProofs!ActiveIsUnique`, `ActiveIsKept` | `Spec => []OneActiveVersion`, `Spec => ActiveStays`, of `Configuration` |
| `AdmissionProofs!ImplementsConfiguration` | `Spec => Configured!Spec`: the composition implements its component |
| `AdmissionProofs!OneIsActive`, `ActiveRemains` | the same two properties, of `Admission` |
| `AdmissionProofs!GrantsStartOnce` | `Spec => []RunsStartOnce` |
| `AdmissionProofs!PromptsAgree` | `Spec => []OnePromptSet` |

**Ingestion, the index.**  `SucceededFullyIndexed` is not inductive:
`CompleteJob` looks at no chunk, it believes what its frame says.  `IndexInv`
therefore adds `BatchSound(w)`: from its read on, the source of the task's job
exists and what the task saw embedded still is; from its write on, so is its
batch; at `complete`, these two are all the chunks.  It also adds that a job
without a source has no vectors, because `PrepareChunks` writes vectors away in
just that case.  `BatchSound` of one worker must survive the steps of all the
others, including workers whose lease has run out, and that follows from
`Growth`: no step drops a source or a vector.  So the proof has three layers:
types (`TypeCorrect`, one step per action), growth (`Growth`, also the theorem
`IndexGrows`), and the frames (`SoundKept` for workers that do not move,
`FrameMoves` for the one that does, together `BatchSoundKept`).
`StatusesMove` then follows each status of job and version through the actions
for `ReadyDraftIffSucceeded`; there the fencing is needed: a task at `complete`
moves both rows or none.

**Ingestion, the lease.**  `EveryRowMoves` and `EveryFrameMoves` say once how a
step can touch the rows of a job and the frame of a task; the other lemmas work
from these.  `LeaseInv`: if leases outlive their tasks, a
task that holds a job owns it; as a job has one owner, tasks exclude each other
(`TasksAreAlone`).  `BatchInv` adds what a task knows of its batch when it
writes it: its chunks are still without a vector, and the vectors there are from
its model.  That gives `ModelsDoNotMix`.  `BudgetInv` for `AttemptsAreBounded`
needs no assumption on leases: the attempt passes the maximum only when a job
that was on its way through its batches is claimed anew, and the task that did
so ends at `parse`, before it changes anything.

**Ingestion, the refinement.**  A phase is a function of the job's and the
version's status, the index one of source and vectors.  `PhaseSimulation` and
`IndexSimulation` show that a step changes one of them at most, and as the
abstract module allows; `AbsentInv` keeps a job that has not been committed
from being worked on.

**Publication.**  `PubInv` has three kinds of parts.  What rows say of each
other: the three statuses agree, a document's current version is its published
one, a version that is there has its document, its import and its file.  What a
handler remembers: `Sound(h)`, for instance that a handler about to delete rows
has all versions of its document and that none is being imported, although it
looked at the jobs without a lock.  How handlers keep apart: `Apart(h, k)`, they
lock different documents, the version of an upload is in no other handler.
`StaysSound` shows once what a step must leave alone for `Sound` of the others.
Deletion and manual retry meet in the locks: a retry that holds the job makes
the deletion wait, and one that comes later finds the version locked.  With the
invariant, what a search finds is what is published (`FoundIsSearchable`), and
the refinement has one lemma for each of the five actions that change it.

**Search.**  `KnowledgeInv` says what the knowledge base leaves of the first
search: while the second one is awaited, what can be found was available, and
two versions of a document were available only if one of them was released
meanwhile, because `OneAndComplete` held at the first search.  `QuestionInv`
follows the chunks: the hits are among what the searches found, by score until a
reranker has answered (`ByScore`), and a score below the threshold is the first
hit's.  `FusedAre` shows that fusing keeps every chunk once and is no longer
than the two lists together; it needs cardinalities, as `SetToSeqs` enumerates a
set.  `RankingKinds`, `CutRanks` and `RankScoreFalls` are the facts about
rankings and quotients that all of this uses.  The order and the thresholds
depend on the settings, so two theorems have a hypothesis: two last ranks
outweigh a first one (`AgreementOutweighs`), and every rank reaches the
threshold, a first one that of a degraded search (`RanksReachThresholds`).  The
defaults satisfy both (20 and 20 hits, `rrf_k` 60, weights 1, minimum 0.012,
multiplier 1.25: 2/80 > 1/61, 1/80 > 0.012, 1/61 > 0.015), and so does the
instance that is checked (`Proportion` in `MCSearch`); the code does not
enforce either.  `ScoreRefusesOnlyReordered` is not inductive without
`KeywordsOnly`: after a failed vector search no hit comes from it.

**Configuration.**  An activation about to commit has found every active row of
its name (`ActivationReady`), because the partial unique index refuses it
otherwise.  The proof uses the index alone: the row locks are not needed for
either property.  `Admission` shares the variables of its component, so each of
its steps is one of `Configuration` or a stutter, and the theorems carry over.

**Accounts.**  If no two requests change one account at once, what a request has
read is what it overwrites (`ReadsCurrent`, `Apart`).  A request that takes an
administrator away has counted two and holds the lock of another
(`HoldsAnother`), which no other request can then take away before the commit.
The cardinalities need `IsFiniteSet(Account)`.  Without the first condition the
theorem is false: finding 1.

The sessions need the same condition: `Together` says that the session and the
version column of an account are counted up together, in the row, in what a
login has read and in every session, so a session whose session number is the
row's was made from the row's version.

A change of the password opens its session before it commits, and the session
names the version the account is about to have.  If the commit fails, a later
change reaches that version; `OnlyItsCommitAdmits` says that the session is not
let in by it.  `AheadInv` is the reason: a session ahead of its account's row is
in the account's set (`Findable`), where the revocation of the next change finds
it, and once that change has revoked, no session but its own is ahead
(`OnlyItsOwn`).  A login that read the row before cannot bring one back, as it
names what it has read, which is never ahead.  So the commit lets in one session
at most, that of its own change.

For the limiter a count of its own is
inductive (`CountInv`): the failures of an account and the requests that are
verifying a password for it stay below the limit plus the number of requests,
because only a request that found the count below the limit begins to verify.
This needs `IsFiniteSet(Request)`.

**Admission.**  `QuestionInv` follows a grant: while the store has it, no run of
it has begun and no request is on the way to one (`UsedOnce`); redeeming takes
it from the store and makes one request its holder.  The prompts of a question
come from the copy it cached (`SamePrompts`), so that rewriter and answerer
cannot differ.  `AccessInv` gives the types of the component's rows on the way;
its `EligibleEdit` says that the owners a half-finished assignment has put in
are eligible accounts.

**Tickets.**  `TicketInv` says of every transaction which locks it holds
(`HoldsLocks`) and what it has read that is still so: the status of its ticket
(`ReadsTicket`), that it found the ticket of its key (`FoundTicket`) or that
there is none within the window (`FoundNone`), that no answer is pending
(`NothingPending`), that the one it publishes is (`StillUnderReview`).  Each
step writes only rows whose lock it holds, and locks exclude each other, so
these survive the steps of the others (`KeysStay`, `HeldTicketStays`,
`HeldKeyStays`).  `FoundNone` is a statement about tickets that nobody has
locked, as they do not exist yet; the advisory lock of the key protects it.
The counts are cardinalities of sets of runs; `Counts` carries along that the
set of refused runs is finite, so `Run` may be infinite.

**Questions.**  The number of a turn is computed from what the transaction sees,
and is committed much later; that nobody commits to the conversation in between
is what the proof is about.  `OwnTurns` says that who has written a turn holds
the lock of the conversation, and that what it sees is numbered without gaps.
`WrittenSoFar` says what a request has written at each point: a stream that has
not lost writes has exactly its user turn, numbered after the committed ones, so
that the answer gets the next number.  `OnlyCommitted` keeps turns of unfinished
requests out of the conversations.  An error of the database gives up the lock
with the turn; then `dropped` is set, and nothing is claimed of the pair, but
numbering still is.  `Tells` ties what the client is told to what the
transaction will store.  All steps of a request but the commit are `Local`: what
they have to preserve is their own part of the invariant, and `LocalKeeps` says
so once for all of them.

**Notifications.**  `SendsOnRecord` is not inductive: nothing in it stops a
worker whose attempt was given up from being accepted later.  `CountedAt`
therefore counts, for each delivery, what was accepted together with the workers
that will not put their attempt on record (`GivenUp`): theirs is not the
delivery's any more, or is stale and about to be given up.  These are together
bounded by the attempts on record, the faults and the workers that are
recording.  A delivery goes stale under a worker by a fault only, which pays for
it; `OneAttemptEach` keeps a step of one worker from making a second one such.
The cardinalities need `IsFiniteSet(Worker)`.  `RowSound` is the invariant
behind `AttemptsStayWithinBudget`: a delivery that is not settled has room for
one more attempt in some configuration's budget.

*Only model-checked.*  Liveness under fairness is out of reach of the prover,
as is `ENABLED`; recursion over data is not used in the modules above.
In `Search` nothing is proved of the sum of characters (`Characters`), which is
a fold, and so not that there is exactly one set of evidence for a budget.

## 7 What the models leave out

*Everywhere.*  Database calls see committed rows (READ COMMITTED), row and
advisory locks last until the commit.  One uvicorn process with one event loop
serves the API (`scripts/local-env.sh`).  Wording, logging, metrics, audit
records and request validation are left out.

*Ingestion.*  Parsing, chunking, the object store and the provider are steps
that may fail, and every document has `NumChunks` chunks.  The clock is what
its comparisons say.  `LeaseOutlivesTask` is what the settings demand (the
lease exceeds the hard time limits); the run `ingestion` does without it, as
clocks may disagree and machines be suspended.

*Publication.*  A version, its job, its source and its object share one name.
The checks of a request that change nothing (type, size, access) come before
the models' first step.  Deletion of objects is best effort, so any part of it
may be left undone.

*Search.*  One question: questions share no state but the cooldown, which the
others may start and end at any time (`OtherQuestions`).  What a channel ranks first is any
order of what it finds.  The evidence is
a set, as nothing depends on its order.

*Configuration, access, admission.*  The contents of prompts and profiles are
their version.  In `Access` roles and statuses of accounts are fixed; they
change in `Accounts`.  That access is checked again when a grant is redeemed is
a guard of `Recheck`; it is not stated as a property, which could only repeat
it.

*Notifications.*  What the provider is sent is left out; an answer is accepted,
transient or permanent, whatever the provider did with the message.
`CycleWithinBudget` bounds a cycle by the largest budget that is configured: a
retry decided by a configuration that has been replaced since the claim stays
within the bound of one of the two, and which one is not told apart.

*Accounts.*  `SYSTEM_OWNER` takes the branches of `USER` and is not told apart;
the limiter's per-address counter works as the per-account one.

*Tickets.*  The deduplication window is a pair of flags (`fresh`: the last
occurrence is within it, `touched`: a later transition is), and clock skew is
ignored.  A candidate never has status `APPROVED`: no code sets it.  The
comment of a reopening is not modelled; the API passes none.  `UniqueRun` is the
constraint of `evidence_decisions` on the run; no caller hands a run in twice, as
every request makes a new one.

*Questions.*  Every request creates a new run, so that the replay of a stored
run is not reached.  The tokens of a stream are one step.  A dependency's exit
runs after the response, and a client that goes away ends the stream with a
commit.  The connection pool is not modelled.

*Not modelled*: parsers and chunker (pure functions, seen as a step that may
fail); analytics and audit queries (reads); settings, assembly, migrations,
scripts, frontend and model service (wiring, user interface, a stateless
server).

## 8 Plan

Done: the modules of section 2, in the order ingestion, notifications,
accounts, tickets, questions, publication, retrieval, configuration and access;
their refinements; the theorems of section 6.

Left, in the order of what it would add:

1. An abstract delivery, sent at least once and settled, implemented by
   `Notifications`, for `Tickets` to be built on.
2. The connection pool, as a counter shared by the requests of `Questions`.
3. The composition of `Admission` with `Accounts`, whose roles would then change
   during a request.
