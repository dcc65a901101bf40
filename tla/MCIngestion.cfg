\* Leases may run out at any time: the fencing alone protects the rows.
SPECIFICATION Spec
CONSTANTS
    Worker = {w1, w2}
    NoWorker = NoWorker
    MaxAttempts = 2
    JobId = {j1}
    NoJob = NoJob
    NumChunks = 2
    BatchSize = 1
    Model = {m1}
    NoModel = NoModel
    LeaseOutlivesTask = FALSE
    MaxFaults = 0
SYMMETRY WorkerSymmetry
INVARIANTS
    TypeOK
    ReadyDraftIffSucceeded
    SucceededFullyIndexed
    WorkingVersionIsRunning
    AttemptsBounded
PROPERTIES
    StaleWorkerHarmless
    ImplementsLifecycle
    IndexOnlyGrows
CHECK_DEADLOCK FALSE
