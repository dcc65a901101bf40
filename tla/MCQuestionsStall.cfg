\* Two turns of one conversation on one event loop, and nothing fails.
SPECIFICATION FairSpec
CONSTANTS
    Request = {r1, r2}
    NoRequest = NoRequest
    Conversation = {c1}
    NoConversation = NoConversation
    Question = {q1}
    Failure = {}
PROPERTY TurnsTakeTurns
CHECK_DEADLOCK FALSE
