\* Two requests at once, three versions of one document or of two.
SPECIFICATION Spec
CONSTANTS
    Document = {d1, d2}
    NoDocument = NoDocument
    Version = {v1, v2, v3}
    NoVersion = NoVersion
    Key = {k1, k2}
    NoKey = NoKey
    Request = {r1, r2}
SYMMETRY Symmetry
INVARIANTS
    CurrentIsSearchable
    ObjectsKept
    LockOrder
PROPERTIES
    RetryKept
    ImplementsKnowledgeBase
CHECK_DEADLOCK FALSE
