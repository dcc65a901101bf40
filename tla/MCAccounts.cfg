\* Two requests at once, which do not change the same account.
SPECIFICATION Spec
CONSTANTS
    Account = {a1, a2}
    Request = {r1, r2}
    NoRequest = NoRequest
    Token = {t1, t2}
    Attempts = 1
    SameAccount = FALSE
    MaxVersion = 3
SYMMETRY Symmetry
INVARIANTS
    AnActiveAdmin
    OldSessionsRejected
    FailuresBounded
PROPERTY OnlyItsCommitAdmits
CHECK_DEADLOCK FALSE
