\* Requests of one conversation or of none, with every failure.
SPECIFICATION Spec
CONSTANTS
    Request = {r1, r2}
    NoRequest = NoRequest
    Conversation = {c1}
    NoConversation = NoConversation
    Question = {q1, q2}
    Failure = {"provider", "vector_search", "database", "client"}
SYMMETRY Symmetry
INVARIANTS
    TurnsInOrder
    QuestionKept
    ToldWhatIsStored
CHECK_DEADLOCK FALSE
