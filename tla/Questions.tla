------------------------------- MODULE Questions -------------------------------
(***************************************************************************)
(* Question answering: the requests that ask and stream, on the one event  *)
(* loop of the API process, and the conversations their turns go to.       *)
(*                                                                         *)
(* Between two awaits a request has the loop to itself, and what it asks   *)
(* of the database there blocks the loop.  Its transaction is that of the  *)
(* request: it ends in a thread of its own when the response is complete,  *)
(* and only then are its writes seen and its locks given up.               *)
(***************************************************************************)
EXTENDS Naturals, FiniteSets

CONSTANTS
    Request,         \* requests; the run of a request is named after it
    NoRequest,
    Conversation,
    NoConversation,
    Question,        \* what refusals are deduplicated by
    Failure          \* what goes wrong: a subset of AllFailures

AllFailures == {"provider", "vector_search", "database", "client"}

ASSUME NamesAssumption == /\ NoRequest \notin Request
                          /\ NoConversation \notin Conversation
ASSUME FailureAssumption == Failure \subseteq AllFailures

VARIABLES
    exists,    \* the conversations there are
    messages,  \* conversation_messages
    outcome,   \* evidence_decisions, with the snapshot or ticket, by run
    request,   \* the state of each request
    tx,        \* what its transaction has written
    held,      \* the locks its transaction holds
    loop       \* the request that has the event loop

vars == <<exists, messages, outcome, request, tx, held, loop>>

stored == <<exists, messages, outcome>>

-----------------------------------------------------------------------------
Role == {"USER", "ASSISTANT"}

Message == [number : Nat, run : Request, role : Role]

Outcome == {"none", "answered", "refused"}

(* The last event, or the response, that the client has been given.        *)
Told == {"nothing", "answered", "refused", "error"}

(* Waiting: for the provider, the client or the thread pool.               *)
Waiting == {"rewriting", "embedding", "ranking", "generating", "closing"}

Running == {"user_turn", "refusing", "persisting"}

RequestState ==
    [pc           : {"idle", "committing", "done", "failed"}
                        \cup Waiting \cup Running,
     stream       : BOOLEAN,     \* question_stream_events, or ask_question
     conversation : Conversation \cup {NoConversation},
     question     : Question,
     told         : Told,
     turn         : BOOLEAN,     \* the user turn has been written
     dropped      : BOOLEAN]     \* the database has undone writes

NoWrites == [messages |-> {}, outcome |-> "none"]

Lockable == Conversation \cup Question

Free(r, x) == \A s \in Request \ {r} : x \notin held[s]

At(r, pc) == request[r].pc = pc

InConversation(r) == request[r].conversation # NoConversation

Gone(r) == request[r].conversation \notin exists

Idle(q) == [pc |-> "idle", stream |-> FALSE, conversation |-> NoConversation,
            question |-> q, told |-> "nothing", turn |-> FALSE,
            dropped |-> FALSE]

Init ==
    /\ exists = Conversation
    /\ messages = [c \in Conversation |-> {}]
    /\ outcome = [r \in Request |-> "none"]
    /\ request \in [Request -> {Idle(q) : q \in Question}]
    /\ tx = [r \in Request |-> NoWrites]
    /\ held = [r \in Request |-> {}]
    /\ loop = NoRequest

-----------------------------------------------------------------------------
(* A request goes on at pc; it keeps the loop if it does not wait there.   *)
Goto(r, pc) ==
    /\ request' = [request EXCEPT ![r].pc = pc]
    /\ loop' = IF pc \in Running THEN r ELSE NoRequest

(* The response, or the stream, ends.                                      *)
Close(r, told) ==
    /\ request' = [request EXCEPT ![r].pc = "closing", ![r].told = told]
    /\ loop' = NoRequest

(* A step of r on the loop, from an await or in the section it runs.       *)
OnLoop(r, pc) == At(r, pc) /\ loop = IF pc \in Running THEN r ELSE NoRequest

(* append_message: the next number, as the transaction sees them.          *)
Visible(r) == messages[request[r].conversation] \cup tx[r].messages

Appended(r, role) ==
    tx[r].messages \cup
        {[number |-> Cardinality(Visible(r)) + 1, run |-> r, role |-> role]}

(* Mutant: numbers are allocated without the row lock.                     *)
AppendLockLeftOut(r) == r \in Request

AppendLock(r) == Free(r, request[r].conversation)

Locked(r, x) == held' = [held EXCEPT ![r] = @ \cup {x}]

-----------------------------------------------------------------------------
(* ask_question, or the redemption of a stream's token, up to the first    *)
(* provider call.  A conversation that is not there is an error to the one *)
(* and ends the other without an event.                                    *)
Start(r, stream, c) ==
    LET asked == [request[r] EXCEPT !.stream = stream, !.conversation = c]
    IN  /\ OnLoop(r, "idle")
        /\ request' = [request EXCEPT ![r] =
               IF c = NoConversation THEN [asked EXCEPT !.pc = "embedding"]
               ELSE IF c \in exists THEN [asked EXCEPT !.pc = "rewriting"]
               ELSE [asked EXCEPT !.pc = "closing",
                                  !.told = IF stream THEN "nothing" ELSE "error"]]
        /\ UNCHANGED <<stored, tx, held, loop>>

Rewritten(r) ==
    /\ OnLoop(r, "rewriting")
    /\ Goto(r, IF request[r].stream THEN "user_turn" ELSE "embedding")
    /\ UNCHANGED <<stored, tx, held>>

(* _persist_stream_user_turn.                                              *)
PersistUserTurn(r) ==
    /\ OnLoop(r, "user_turn")
    /\ AppendLock(r)
    /\ IF Gone(r)
       THEN Close(r, "nothing") /\ UNCHANGED <<tx, held>>
       ELSE /\ tx' = [tx EXCEPT ![r].messages = Appended(r, "USER")]
            /\ Locked(r, request[r].conversation)
            /\ request' = [request EXCEPT ![r].pc = "embedding",
                                          ![r].turn = TRUE]
            /\ loop' = NoRequest
    /\ UNCHANGED stored

(* retrieve, with the vector of the question or without.                   *)
Embedded(r) ==
    /\ OnLoop(r, "embedding")
    /\ Goto(r, "ranking")
    /\ UNCHANGED <<stored, tx, held>>

(* search_vectors: an error of the database rolls the session back, and    *)
(* the keyword hits have to do.                                            *)
VectorSearchFails(r) ==
    /\ "vector_search" \in Failure
    /\ OnLoop(r, "embedding")
    /\ request' = [request EXCEPT ![r].pc = "ranking",
                                  ![r].dropped = tx[r] # NoWrites]
    /\ tx' = [tx EXCEPT ![r] = NoWrites]
    /\ held' = [held EXCEPT ![r] = {}]
    /\ UNCHANGED <<stored, loop>>

(* The evidence is sufficient, or not, or there is none.                   *)
Decide(r) ==
    /\ OnLoop(r, "ranking")
    /\ \E pc \in {"generating", "refusing"} : Goto(r, pc)
    /\ UNCHANGED <<stored, tx, held>>

(* record_sufficient and the snapshot; or the answer is not grounded.      *)
Generated(r) ==
    /\ OnLoop(r, "generating")
    /\ \/ /\ tx' = [tx EXCEPT ![r].outcome = "answered"]
          /\ IF InConversation(r) THEN Goto(r, "persisting")
                                  ELSE Close(r, "answered")
       \/ Goto(r, "refusing") /\ UNCHANGED tx
    /\ UNCHANGED <<stored, held>>

(* create_from_refusal, under the lock of its deduplication key.           *)
RecordRefusal(r) ==
    /\ OnLoop(r, "refusing")
    /\ Free(r, request[r].question)
    /\ Locked(r, request[r].question)
    /\ tx' = [tx EXCEPT ![r].outcome = "refused"]
    /\ IF InConversation(r) THEN Goto(r, "persisting") ELSE Close(r, "refused")
    /\ UNCHANGED stored

-----------------------------------------------------------------------------
(* _persist_stream_terminal_turn, before the terminal event.               *)
PersistTerminalTurn(r) ==
    /\ request[r].stream
    /\ OnLoop(r, "persisting")
    /\ IF Gone(r)
       THEN Close(r, "error") /\ UNCHANGED <<tx, held>>
       ELSE /\ Close(r, tx[r].outcome)
            /\ IF tx[r].outcome = "answered"
               THEN /\ AppendLock(r)
                    /\ Locked(r, request[r].conversation)
                    /\ tx' = [tx EXCEPT ![r].messages = Appended(r, "ASSISTANT")]
               ELSE UNCHANGED <<tx, held>>
    /\ UNCHANGED stored

(* What the end of the transaction commits after an error: what a stream   *)
(* has written, as it reports the error in an event; nothing of a question *)
(* asked, whose error is a response.  Mutants: the one as the other.       *)
RollsBackStream(r) == NoWrites
CommitsQuestion(r) == tx[r]

AfterError(r) == IF request[r].stream THEN tx[r] ELSE NoWrites

(* _persist_conversation_turn: the question and, if there is one, the      *)
(* answer.                                                                 *)
PersistConversationTurn(r) ==
    LET asked == Appended(r, "USER")
        n == Cardinality(Visible(r)) + 2
        answered == [number |-> n, run |-> r, role |-> "ASSISTANT"]
    IN  /\ ~request[r].stream
        /\ OnLoop(r, "persisting")
        /\ AppendLock(r)
        /\ IF Gone(r)
           THEN /\ Close(r, "error")
                /\ tx' = [tx EXCEPT ![r] = AfterError(r)]
                /\ UNCHANGED held
           ELSE /\ request' = [request EXCEPT ![r].pc = "closing",
                                              ![r].told = tx[r].outcome,
                                              ![r].turn = TRUE]
                /\ loop' = NoRequest
                /\ tx' = [tx EXCEPT ![r].messages =
                       IF tx[r].outcome = "answered" THEN asked \cup {answered}
                                                     ELSE asked]
                /\ Locked(r, request[r].conversation)
        /\ UNCHANGED stored

(* The dependency's exit is handed to a thread, which commits.             *)
EndRequest(r) ==
    /\ OnLoop(r, "closing")
    /\ Goto(r, "committing")
    /\ UNCHANGED <<stored, tx, held>>

Commit(r) ==
    /\ At(r, "committing")
    /\ request' = [request EXCEPT ![r].pc = "done"]
    /\ outcome' = [outcome EXCEPT ![r] = tx[r].outcome]
    /\ messages' = [c \in Conversation |->
           IF c = request[r].conversation THEN Visible(r) ELSE messages[c]]
    /\ tx' = [tx EXCEPT ![r] = NoWrites]
    /\ held' = [held EXCEPT ![r] = {}]
    /\ UNCHANGED <<exists, loop>>

-----------------------------------------------------------------------------
(* The language model is unavailable; the other providers are done without.*)
ProviderFails(r) ==
    /\ "provider" \in Failure
    /\ OnLoop(r, "generating")
    /\ Close(r, "error")
    /\ tx' = [tx EXCEPT ![r] = AfterError(r)]
    /\ UNCHANGED <<stored, held>>

(* The connection to the database is lost, and with it the transaction; a  *)
(* stream has no event for it before its first one.                        *)
ConnectionLost(r) ==
    /\ "database" \in Failure
    /\ \E pc \in Running \cup {"rewriting", "embedding", "generating"} :
           /\ OnLoop(r, pc)
           /\ request' = [request EXCEPT ![r].pc = "closing",
                  ![r].dropped = @ \/ tx[r] # NoWrites,
                  ![r].told = IF request[r].stream /\ pc \in {"rewriting", "user_turn"}
                              THEN "nothing" ELSE "error"]
    /\ loop' = NoRequest
    /\ tx' = [tx EXCEPT ![r] = NoWrites]
    /\ held' = [held EXCEPT ![r] = {}]
    /\ UNCHANGED stored

(* The client of a stream goes away: what it has written is committed.     *)
Disconnect(r) ==
    /\ "client" \in Failure
    /\ request[r].stream
    /\ \E pc \in Waiting \ {"closing"} : OnLoop(r, pc)
    /\ Close(r, "nothing")
    /\ UNCHANGED <<stored, tx, held>>

CommitFails(r) ==
    /\ "database" \in Failure
    /\ At(r, "committing")
    /\ request' = [request EXCEPT ![r].pc = "failed"]
    /\ tx' = [tx EXCEPT ![r] = NoWrites]
    /\ held' = [held EXCEPT ![r] = {}]
    /\ UNCHANGED <<stored, loop>>

(* delete_conversation, in a thread of its own, the messages with it.      *)
DeleteConversation(c) ==
    /\ c \in exists
    /\ \A r \in Request : c \notin held[r]
    /\ exists' = exists \ {c}
    /\ messages' = [messages EXCEPT ![c] = {}]
    /\ UNCHANGED <<outcome, request, tx, held, loop>>

Progress(r) ==
    \/ Rewritten(r) \/ PersistUserTurn(r) \/ Embedded(r) \/ Decide(r)
    \/ Generated(r) \/ RecordRefusal(r)
    \/ PersistTerminalTurn(r) \/ PersistConversationTurn(r)
    \/ EndRequest(r) \/ Commit(r)

Fails(r) ==
    \/ VectorSearchFails(r) \/ ProviderFails(r) \/ ConnectionLost(r)
    \/ Disconnect(r) \/ CommitFails(r)

Next ==
    \/ \E r \in Request :
           \/ \E stream \in BOOLEAN, c \in Conversation \cup {NoConversation} :
                  Start(r, stream, c)
           \/ Progress(r)
           \/ Fails(r)
    \/ \E c \in Conversation : DeleteConversation(c)

Spec == Init /\ [][Next]_vars

(* The providers answer or time out, the loop and the threads go on.       *)
FairSpec == Spec /\ \A r \in Request : WF_vars(Progress(r))

-----------------------------------------------------------------------------
(* Every variable holds a value of its type, and no two transactions hold  *)
(* the same lock.                                                          *)
TypeOK ==
    /\ exists \subseteq Conversation
    /\ messages \in [Conversation -> SUBSET Message]
    /\ outcome \in [Request -> Outcome]
    /\ request \in [Request -> RequestState]
    /\ tx \in [Request -> [messages : SUBSET Message, outcome : Outcome]]
    /\ held \in [Request -> SUBSET Lockable]
    /\ loop \in Request \cup {NoRequest}
    /\ \A r, s \in Request : r = s \/ held[r] \cap held[s] = {}

Said(r, role) ==
    {m \in messages[request[r].conversation] : m.run = r /\ m.role = role}

(* However turns interleave and end, the messages of a conversation are    *)
(* numbered without gaps or duplicates, and an answer comes right after    *)
(* its question, no other turn between them, unless an error of the        *)
(* database took the question away.  The variables keep their types.       *)
TurnsInOrder ==
    /\ TypeOK
    /\ \A c \in Conversation :
          {m.number : m \in messages[c]} = 1..Cardinality(messages[c])
    /\ \A r \in Request : InConversation(r) /\ ~request[r].dropped =>
          \A a \in Said(r, "ASSISTANT") :
              \E q \in Said(r, "USER") : a.number = q.number + 1

(* A question whose turn was written is in its conversation at the end,    *)
(* with or without an answer, also when the provider fails or the client   *)
(* of the stream goes away; a question asked without a stream, if it was   *)
(* answered or refused.                                                    *)
QuestionKept ==
    \A r \in Request :
        At(r, "done") /\ request[r].turn /\ ~request[r].dropped /\ ~Gone(r)
            => Said(r, "USER") # {}

(* The client is told the outcome that is stored.  It is told an error     *)
(* though an outcome is stored only by a stream whose conversation was     *)
(* deleted under way.                                                      *)
ToldWhatIsStored ==
    \A r \in Request : At(r, "done") =>
        /\ request[r].told \in {"answered", "refused"}
               => outcome[r] = request[r].told
        /\ request[r].told = "error" /\ outcome[r] # "none"
               => request[r].stream /\ Gone(r)

(* append_message: "Serialize sequence allocation for concurrent turns in  *)
(* one conversation": the turn of a stream that has to wait for another    *)
(* gets its own.                                                           *)
TurnsTakeTurns ==
    \A r \in Request : loop = r /\ At(r, "user_turn") ~> loop # r
=============================================================================
