\* Two requests at once, one stream granted; an owner and a user of a system.
SPECIFICATION Spec
CONSTANTS
    Request = {r1, r2}
    Scenario = {GROUNDED_ANSWER, QUERY_REWRITE}
    Profile = {p1}
    Version = {v1, v2}
    Seed = v1
    Seeded = {GROUNDED_ANSWER, QUERY_REWRITE}
    System = {s1}
    Account = {owner, user}
    Owner = {owner}
    Administrator = {}
    GROUNDED_ANSWER = GROUNDED_ANSWER
    QUERY_REWRITE = QUERY_REWRITE
    Token = {t1}
    MaxRequests = 4
SYMMETRY Symmetry
INVARIANTS
    OneActiveVersion
    RunsStartOnce
    OnePromptSet
PROPERTIES
    ActiveStays
CHECK_DEADLOCK FALSE
