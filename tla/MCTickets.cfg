\* Two requests at once; two runs of one question.
SPECIFICATION Spec
CONSTANTS
    Request = {r1, r2}
    Run = {n1, n2}
    Key = {k1}
    Ticket = {t1, t2}
    NoTicket = NoTicket
    Candidate = {c1, c2}
    MaxMoves = 3
SYMMETRY Symmetry
INVARIANTS
    OccurrencesCounted
    StatusIsOnRecord
    WorkHasAnAssignee
    AnswersReviewedOnce
PROPERTIES
    OneTicketPerWindow
CHECK_DEADLOCK FALSE
