\* Leases outlive their tasks, as the settings demand; the provider changes models.
SPECIFICATION Spec
CONSTANTS
    Worker = {w1, w2}
    NoWorker = NoWorker
    MaxAttempts = 2
    JobId = {j1}
    NoJob = NoJob
    NumChunks = 2
    BatchSize = 1
    Model = {m1, m2}
    NoModel = NoModel
    LeaseOutlivesTask = TRUE
    MaxFaults = 1
SYMMETRY WorkerSymmetry
INVARIANTS
    OneTaskPerJob
    OneModelPerSource
CHECK_DEADLOCK FALSE
