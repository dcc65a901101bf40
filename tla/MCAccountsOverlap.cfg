\* Two requests may change one account at the same time.
SPECIFICATION Spec
CONSTANTS
    Account = {a1, a2}
    Request = {r1, r2}
    NoRequest = NoRequest
    Token = {t1}
    Attempts = 1
    SameAccount = TRUE
    MaxVersion = 3
INVARIANT AnActiveAdmin
CHECK_DEADLOCK FALSE
