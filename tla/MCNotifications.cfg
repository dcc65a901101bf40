\* Crashes, lost messages and provider calls that outlast the stale threshold,
\* under fair scheduling.
SPECIFICATION FairSpec
CONSTANTS
    Event = {e1}
    Account = {a1}
    Unresolved = Unresolved
    Worker = {w1, w2}
    AttemptId = {t1, t2, t3}
    NoAttempt = NoAttempt
    Budget = {1, 2}
    MaxRetries = 1
    MaxFaults = 1
INVARIANTS
    CycleWithinBudget
    SendsOnRecord
PROPERTIES
    StaleAttemptHarmless
    SettledIsFinal
    EventuallySettled
CHECK_DEADLOCK FALSE
