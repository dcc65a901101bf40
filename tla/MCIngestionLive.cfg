\* One worker process that crashes, a broker that loses messages, fair scheduling.
SPECIFICATION FairSpec
CONSTANTS
    Worker = {w1}
    NoWorker = NoWorker
    MaxAttempts = 2
    JobId = {j1}
    NoJob = NoJob
    NumChunks = 2
    BatchSize = 1
    Model = {m1}
    NoModel = NoModel
    LeaseOutlivesTask = TRUE
    MaxFaults = 2
PROPERTIES
    SettlesEveryUpload
CHECK_DEADLOCK FALSE
