---------------------------- MODULE QuestionsProofs ----------------------------
(***************************************************************************)
(* Proofs about the conversations, for every set of requests,              *)
(* conversations and questions and whatever fails: turns are numbered      *)
(* without gaps and answers follow their questions, a question that was    *)
(* written is kept, and the client is told the outcome that is stored.     *)
(*                                                                         *)
(* The argument: who has written a turn holds the lock of the conversation *)
(* until its transaction ends, unless an error of the database has undone  *)
(* what it wrote; so the number it gave is still the next when it commits. *)
(***************************************************************************)
EXTENDS Questions, FiniteSetTheorems, TLAPS

USE NamesAssumption

-----------------------------------------------------------------------------
(* The parts of the inductive invariant.                                   *)
Early == {"idle", "rewriting", "user_turn"}

Middle == {"embedding", "ranking", "generating", "refusing", "persisting"}

Ending == {"closing", "committing"}

Over == {"done", "failed"}

Numbered(turns) ==
    IsFiniteSet(turns) /\ {m.number : m \in turns} = 1..Cardinality(turns)

UserTurn(r) ==
    [number |-> Cardinality(messages[request[r].conversation]) + 1,
     run |-> r, role |-> "USER"]

(* What the transaction of a request has written: turns of its own, under  *)
(* the lock of the conversation, and answers after their questions.        *)
OwnTurns(r) ==
    /\ \A m \in tx[r].messages : m.run = r
    /\ tx[r].messages # {} =>
           /\ request[r].conversation \in held[r] \cap Conversation
           /\ Numbered(Visible(r))

(* How much it has written, by the point it is at.                         *)
WrittenSoFar(r) ==
    /\ request[r].pc \in Early \cup Over => tx[r] = NoWrites
    /\ request[r].pc \in Middle =>
           tx[r].messages =
               IF request[r].stream /\ InConversation(r) /\ ~request[r].dropped
               THEN {UserTurn(r)} ELSE {}

AnswersFollow(r) ==
    ~request[r].dropped =>
        \A a \in tx[r].messages : a.role = "ASSISTANT" =>
            \E q \in tx[r].messages : q.role = "USER" /\ a.number = q.number + 1

Writes(r) == OwnTurns(r) /\ WrittenSoFar(r) /\ AnswersFollow(r)

(* What its client has been, or will be, told.                             *)
Tells(r) ==
    /\ request[r].pc \in Early \cup {"embedding"} => ~request[r].dropped
    /\ request[r].pc \in Early => ~request[r].turn
    /\ request[r].pc = "user_turn" => request[r].stream
    /\ request[r].pc \in Middle /\ ~request[r].stream => ~request[r].turn
    /\ request[r].pc \notin Over /\ request[r].turn /\ ~request[r].dropped =>
           \E q \in tx[r].messages : q.role = "USER"
    /\ request[r].pc \in (Early \cup Middle) \ {"persisting"} =>
           tx[r].outcome = "none"
    /\ request[r].pc = "persisting" => tx[r].outcome # "none"
    /\ request[r].pc \in Ending =>
           /\ request[r].told \in {"answered", "refused"}
                  => tx[r].outcome = request[r].told
           /\ request[r].told = "error" /\ tx[r].outcome # "none"
                  => request[r].stream /\ Gone(r)

AllNumbered == \A c \in Conversation : Numbered(messages[c])

(* Only who has committed has messages in a conversation.                  *)
OnlyCommitted ==
    \A c \in Conversation : \A m \in messages[c] : request[m.run].pc = "done"

QuestionsInv ==
    /\ TypeOK /\ AllNumbered /\ OnlyCommitted
    /\ \A r \in Request : Writes(r) /\ Tells(r)
    /\ TurnsInOrder /\ QuestionKept /\ ToldWhatIsStored

-----------------------------------------------------------------------------
(* The next number is one more than there are messages.                    *)
LEMMA NextNumber ==
    ASSUME NEW turns, Numbered(turns), NEW m, m.number = Cardinality(turns) + 1
    PROVE  /\ Cardinality(turns) \in Nat
           /\ Numbered(turns \cup {m})
           /\ Cardinality(turns \cup {m}) = Cardinality(turns) + 1
  <1> DEFINE n == Cardinality(turns)
             all == turns \cup {m}
  <1>1. n \in Nat /\ IsFiniteSet(turns) /\ {k.number : k \in turns} = 1..n
    BY FS_CardinalityType DEF Numbered
  <1>2. m \notin turns
    <2>1. ASSUME m \in turns PROVE m.number \in 1..n
      BY <2>1, <1>1
    <2> QED
      BY <2>1, <1>1
  <1>3. IsFiniteSet(all) /\ Cardinality(all) = n + 1
    BY <1>1, <1>2, FS_AddElement
  <1>4. {k.number : k \in all} = {k.number : k \in turns} \cup {n + 1}
    OBVIOUS
  <1>5. {k.number : k \in all} = 1..(n + 1)
    BY <1>1, <1>4
  <1> QED
    BY <1>1, <1>3, <1>5 DEF Numbered

LEMMA NoneAreNumbered == Numbered({})
  <1>1. IsFiniteSet({}) /\ Cardinality({}) = 0
    BY FS_EmptySet
  <1>2. {m.number : m \in {}} = {} /\ 1..0 = {}
    OBVIOUS
  <1> QED
    BY <1>1, <1>2 DEF Numbered

(* What a transaction sees is numbered, whether it has written or not.     *)
LEMMA VisibleNumbered ==
    ASSUME QuestionsInv, NEW r \in Request, request[r].conversation \in Conversation
    PROVE  Numbered(Visible(r)) /\ Cardinality(Visible(r)) \in Nat
  <1>1. Numbered(Visible(r))
    <2>1. CASE tx[r].messages # {}
      BY <2>1 DEF QuestionsInv, Writes, OwnTurns
    <2>2. CASE tx[r].messages = {}
      BY <2>2 DEF QuestionsInv, AllNumbered, Visible
    <2> QED
      BY <2>1, <2>2
  <1> QED
    BY <1>1, FS_CardinalityType DEF Numbered

(* The messages a turn may add.                                            *)
LEMMA TurnTypes ==
    ASSUME QuestionsInv, NEW r \in Request, request[r].conversation \in Conversation,
           NEW role \in Role
    PROVE  /\ Appended(r, role) \subseteq Message
           /\ tx[r].messages \subseteq Message
           /\ [number |-> Cardinality(Visible(r)) + 2, run |-> r, role |-> role]
                  \in Message
  <1>1. Cardinality(Visible(r)) \in Nat
    BY VisibleNumbered
  <1>2. tx[r].messages \subseteq Message
    BY DEF QuestionsInv, TypeOK
  <1> QED
    BY <1>1, <1>2 DEF Appended, Message

-----------------------------------------------------------------------------
(* The states of a request, field by field.                                *)
Place == {"idle", "committing", "done", "failed"} \cup Waiting \cup Running

LEMMA StateFields ==
    ASSUME NEW f \in RequestState
    PROVE  /\ f.pc \in Place /\ f.stream \in BOOLEAN /\ f.question \in Question
           /\ f.conversation \in Conversation \cup {NoConversation}
           /\ f.told \in Told /\ f.turn \in BOOLEAN /\ f.dropped \in BOOLEAN
  BY DEF RequestState, Place

(* The record has these fields; what is asked does not change.             *)
Is(g, p, s, c, t, u, d) ==
    /\ g \in RequestState
    /\ g.pc = p /\ g.stream = s /\ g.conversation = c
    /\ g.told = t /\ g.turn = u /\ g.dropped = d

LEMMA StateChanges ==
    ASSUME NEW f \in RequestState, NEW p \in Place, NEW s \in BOOLEAN,
           NEW c \in Conversation \cup {NoConversation},
           NEW t \in Told, NEW u \in BOOLEAN, NEW d \in BOOLEAN
    PROVE  /\ Is([f EXCEPT !.pc = p],
                  p, f.stream, f.conversation, f.told, f.turn, f.dropped)
           /\ Is([f EXCEPT !.pc = p, !.told = t],
                  p, f.stream, f.conversation, t, f.turn, f.dropped)
           /\ Is([f EXCEPT !.pc = p, !.turn = u],
                  p, f.stream, f.conversation, f.told, u, f.dropped)
           /\ Is([f EXCEPT !.pc = p, !.dropped = d],
                  p, f.stream, f.conversation, f.told, f.turn, d)
           /\ Is([f EXCEPT !.pc = p, !.told = t, !.turn = u],
                  p, f.stream, f.conversation, t, u, f.dropped)
           /\ Is([f EXCEPT !.pc = p, !.dropped = d, !.told = t],
                  p, f.stream, f.conversation, t, f.turn, d)
           /\ Is([[f EXCEPT !.stream = s, !.conversation = c] EXCEPT !.pc = p],
                  p, s, c, f.told, f.turn, f.dropped)
           /\ Is([[f EXCEPT !.stream = s, !.conversation = c] EXCEPT !.pc = p, !.told = t],
                  p, s, c, t, f.turn, f.dropped)
  <1>0. [f EXCEPT !.stream = s, !.conversation = c] \in RequestState
    BY DEF RequestState, Place
  <1> QED
    BY <1>0 DEF RequestState, Place, Is

LEMMA MovesTo ==
    ASSUME NEW f \in RequestState, NEW p \in Place
    PROVE  Is([f EXCEPT !.pc = p],
              p, f.stream, f.conversation, f.told, f.turn, f.dropped)
  BY StateFields, StateChanges

LEMMA ClosesTelling ==
    ASSUME NEW f \in RequestState, NEW t \in Told
    PROVE  Is([f EXCEPT !.pc = "closing", !.told = t],
              "closing", f.stream, f.conversation, t, f.turn, f.dropped)
  <1>1. "closing" \in Place
    BY DEF Place, Waiting
  <1> QED
    BY <1>1, StateFields, StateChanges

LEMMA LosesWrites ==
    ASSUME NEW f \in RequestState, NEW t \in Told, NEW d \in BOOLEAN
    PROVE  Is([f EXCEPT !.pc = "closing", !.dropped = d, !.told = t],
              "closing", f.stream, f.conversation, t, f.turn, d)
  <1>1. "closing" \in Place
    BY DEF Place, Waiting
  <1> QED
    BY <1>1 DEF RequestState, Place, Is

-----------------------------------------------------------------------------
Transaction == [messages : SUBSET Message, outcome : Outcome]

Alone(r) ==
    \A s \in Request \ {r} :
        request'[s] = request[s] /\ tx'[s] = tx[s] /\ held'[s] = held[s]

(* A step of one request that commits nothing: the locks it takes are free,*)
(* and its own part of the invariant is kept.                              *)
Local(r) ==
    /\ Alone(r) /\ UNCHANGED stored
    /\ request' \in [Request -> RequestState]
    /\ tx' \in [Request -> Transaction]
    /\ held' \in [Request -> SUBSET Lockable]
    /\ loop' \in Request \cup {NoRequest}
    /\ \A x \in held'[r] \ held[r] : Free(r, x)
    /\ ~At(r, "done") /\ ~At(r, "done")'
    /\ Writes(r)' /\ Tells(r)'

LEMMA LocalKeeps ==
    ASSUME QuestionsInv, NEW r \in Request, Local(r)
    PROVE  QuestionsInv'
  <1>1. TypeOK'
    <2>1. ASSUME NEW p \in Request, NEW q \in Request, p # q
          PROVE  held'[p] \cap held'[q] = {}
      <3>1. held[p] \cap held[q] = {}
        BY <2>1 DEF QuestionsInv, TypeOK
      <3>2. CASE p # r /\ q # r
        BY <3>1, <3>2 DEF Local, Alone
      <3>3. CASE p = r
        <4>1. held'[q] = held[q]
          BY <2>1, <3>3 DEF Local, Alone
        <4>2. \A x \in held'[p] : x \in held[p] \/ x \notin held[q]
          BY <2>1, <3>3 DEF Local, Free
        <4> QED
          BY <3>1, <4>1, <4>2
      <3>4. CASE q = r
        <4>1. held'[p] = held[p]
          BY <2>1, <3>4 DEF Local, Alone
        <4>2. \A x \in held'[q] : x \in held[q] \/ x \notin held[p]
          BY <2>1, <3>4 DEF Local, Free
        <4> QED
          BY <3>1, <4>1, <4>2
      <3> QED
        BY <3>2, <3>3, <3>4
    <2> QED
      BY <2>1 DEF QuestionsInv, TypeOK, Local, stored, Transaction
  <1>2. AllNumbered'
    BY DEF QuestionsInv, Local, stored, AllNumbered, Numbered
  <1>3. \A c \in Conversation : \A m \in messages[c] : m.run \in Request \ {r}
    <2> SUFFICES ASSUME NEW c \in Conversation, NEW m \in messages[c]
                 PROVE  m.run \in Request \ {r}
      OBVIOUS
    <2>1. m \in Message
      BY DEF QuestionsInv, TypeOK
    <2> QED
      BY <2>1 DEF QuestionsInv, OnlyCommitted, Local, At, Message
  <1>4. OnlyCommitted'
    BY <1>3 DEF QuestionsInv, OnlyCommitted, Local, Alone, stored
  <1>5. ASSUME NEW s \in Request PROVE Writes(s)' /\ Tells(s)'
    <2>1. CASE s = r
      BY <2>1 DEF Local
    <2>2. CASE s # r
      <3>1. request'[s] = request[s] /\ tx'[s] = tx[s] /\ held'[s] = held[s]
        BY <2>2 DEF Local, Alone
      <3>2. messages' = messages /\ exists' = exists
        BY DEF Local, stored
      <3>3. Visible(s)' = Visible(s) /\ UserTurn(s)' = UserTurn(s)
        BY <3>1, <3>2 DEF Visible, UserTurn
      <3>4. Writes(s) /\ Tells(s)
        BY DEF QuestionsInv
      <3>5. Writes(s)'
        BY <3>1, <3>3, <3>4 DEF Writes, OwnTurns, WrittenSoFar, AnswersFollow,
           InConversation
      <3>6. Tells(s)'
        BY <3>1, <3>2, <3>4 DEF Tells, Gone
      <3> QED
        BY <3>5, <3>6
    <2> QED
      BY <2>1, <2>2
  <1>6. TurnsInOrder'
    <2>1. ASSUME NEW s \in Request, InConversation(s)', ~request'[s].dropped,
                 NEW a \in Said(s, "ASSISTANT")'
          PROVE  \E q \in Said(s, "USER")' : a.number = q.number + 1
      <3>1. a \in messages[request'[s].conversation] /\ a.run = s
        BY DEF Said, Local, stored
      <3>2. request'[s].conversation \in Conversation
        BY <2>1, <1>1, StateFields DEF TypeOK, InConversation
      <3>3. s # r
        BY <3>1, <3>2, <1>3
      <3>4. request'[s] = request[s] /\ messages' = messages
        BY <3>3 DEF Local, Alone, stored
      <3>5. Said(s, "ASSISTANT")' = Said(s, "ASSISTANT") /\ Said(s, "USER")' = Said(s, "USER")
        BY <3>4 DEF Said
      <3>6. InConversation(s) /\ ~request[s].dropped
        BY <2>1, <3>4 DEF InConversation
      <3> QED
        BY <2>1, <3>5, <3>6 DEF QuestionsInv, TurnsInOrder
    <2>2. \A c \in Conversation :
              {m.number : m \in messages'[c]} = 1..Cardinality(messages'[c])
      BY DEF QuestionsInv, TurnsInOrder, Local, stored
    <2> QED
      BY <1>1, <2>1, <2>2 DEF TurnsInOrder
  <1>7. QuestionKept' /\ ToldWhatIsStored'
    <2> SUFFICES ASSUME NEW s \in Request, At(s, "done")'
                 PROVE  /\ request'[s].turn /\ ~request'[s].dropped /\ ~Gone(s)'
                               => Said(s, "USER")' # {}
                        /\ request'[s].told \in {"answered", "refused"}
                               => outcome'[s] = request'[s].told
                        /\ request'[s].told = "error" /\ outcome'[s] # "none"
                               => request'[s].stream /\ Gone(s)'
      BY DEF QuestionKept, ToldWhatIsStored
    <2>1. s # r
      BY DEF Local
    <2>2. request'[s] = request[s] /\ messages' = messages /\ exists' = exists
          /\ outcome' = outcome
      BY <2>1 DEF Local, Alone, stored
    <2>3. At(s, "done") /\ Said(s, "USER")' = Said(s, "USER") /\ (Gone(s)' <=> Gone(s))
      BY <2>2 DEF At, Said, Gone
    <2> QED
      BY <2>2, <2>3 DEF QuestionsInv, QuestionKept, ToldWhatIsStored
  <1> QED
    BY <1>1, <1>2, <1>4, <1>5, <1>6, <1>7 DEF QuestionsInv

-----------------------------------------------------------------------------
(* The steps that write nothing.                                           *)
LEMMA RequestFacts ==
    ASSUME QuestionsInv, NEW r \in Request
    PROVE  /\ request[r] \in RequestState /\ tx[r] \in Transaction
           /\ held[r] \in SUBSET Lockable
           /\ Writes(r) /\ Tells(r)
           /\ NoWrites \in Transaction
           /\ NoWrites.messages = {} /\ NoWrites.outcome = "none"
  BY DEF QuestionsInv, TypeOK, Transaction, NoWrites, Outcome

(* A step that moves the request alone.                                    *)
LEMMA Quiet ==
    ASSUME QuestionsInv, NEW r \in Request, NEW g \in RequestState,
           request' = [request EXCEPT ![r] = g], UNCHANGED <<stored, tx, held>>,
           loop' \in Request \cup {NoRequest},
           request[r].pc # "done", g.pc # "done",
           Writes(r)', Tells(r)'
    PROVE  Local(r)
  BY DEF Local, Alone, QuestionsInv, TypeOK, Transaction, At

LEMMA GotoQuietly ==
    ASSUME QuestionsInv, NEW r \in Request, NEW p \in Place,
           Goto(r, p), UNCHANGED <<stored, tx, held>>
    PROVE  /\ request'[r] = [request[r] EXCEPT !.pc = p]
           /\ request' = [request EXCEPT ![r] = [request[r] EXCEPT !.pc = p]]
           /\ Is(request'[r], p, request[r].stream, request[r].conversation,
                 request[r].told, request[r].turn, request[r].dropped)
           /\ loop' \in Request \cup {NoRequest}
           /\ messages' = messages /\ exists' = exists /\ tx' = tx /\ held' = held
           /\ Visible(r)' = Visible(r) /\ UserTurn(r)' = UserTurn(r)
  <1>1. request \in [Request -> RequestState] /\ request[r] \in RequestState
    BY DEF QuestionsInv, TypeOK
  <1>2. Is([request[r] EXCEPT !.pc = p], p, request[r].stream, request[r].conversation,
           request[r].told, request[r].turn, request[r].dropped)
    BY <1>1, StateChanges, StateFields
  <1>3. request'[r] = [request[r] EXCEPT !.pc = p]
    BY <1>1 DEF Goto
  <1>4. request'[r].conversation = request[r].conversation
    BY <1>2, <1>3 DEF Is
  <1> QED
    BY <1>1, <1>2, <1>3, <1>4 DEF Goto, stored, Visible, UserTurn

LEMMA GoingOn ==
    ASSUME QuestionsInv, NEW r \in Request,
           Rewritten(r) \/ Embedded(r) \/ Decide(r) \/ EndRequest(r)
    PROVE  Local(r)
  <1>1. /\ request[r] \in RequestState
        /\ Writes(r) /\ Tells(r)
    BY RequestFacts
  <1>2. PICK p \in Place :
          /\ Goto(r, p) /\ UNCHANGED <<stored, tx, held>>
          /\ \/ /\ request[r].pc = "rewriting"
                /\ p = IF request[r].stream THEN "user_turn" ELSE "embedding"
             \/ request[r].pc = "embedding" /\ p = "ranking"
             \/ request[r].pc = "ranking" /\ p \in {"generating", "refusing"}
             \/ request[r].pc = "closing" /\ p = "committing"
    BY DEF Rewritten, Embedded, Decide, EndRequest, OnLoop, At, Place, Waiting, Running
  <1>3. /\ Is(request'[r], p, request[r].stream, request[r].conversation,
              request[r].told, request[r].turn, request[r].dropped)
        /\ request' = [request EXCEPT ![r] = request'[r]]
        /\ loop' \in Request \cup {NoRequest}
        /\ messages' = messages /\ exists' = exists /\ tx' = tx /\ held' = held
        /\ Visible(r)' = Visible(r) /\ UserTurn(r)' = UserTurn(r)
    BY <1>2, GotoQuietly
  <1>4. NoWrites.messages = {} /\ NoWrites.outcome = "none"
    BY DEF NoWrites
  <1>5. Writes(r)'
    <2>1. OwnTurns(r)'
      BY <1>1, <1>3 DEF Writes, OwnTurns, Is
    <2>2. WrittenSoFar(r)'
      BY <1>1, <1>2, <1>3, <1>4
         DEF Writes, WrittenSoFar, Is, Early, Middle, Over, InConversation
    <2>3. AnswersFollow(r)'
      BY <1>1, <1>3 DEF Writes, AnswersFollow, Is
    <2> QED
      BY <2>1, <2>2, <2>3 DEF Writes
  <1>6. Tells(r)'
    BY <1>1, <1>2, <1>3, <1>4 DEF Tells, Writes, WrittenSoFar, Is, Early, Middle, Ending, Over, Gone
  <1>7. request'[r] \in RequestState /\ request[r].pc # "done" /\ request'[r].pc # "done"
    BY <1>2, <1>3 DEF Is
  <1> QED
    BY <1>2, <1>3, <1>5, <1>6, <1>7, Quiet

(* What a request is after its start.                                      *)
LEMMA StartFields ==
    ASSUME NEW f \in RequestState, NEW s \in BOOLEAN,
           NEW c \in Conversation \cup {NoConversation}, NEW t \in Told
    PROVE  LET asked == [f EXCEPT !.stream = s, !.conversation = c]
           IN  /\ Is([asked EXCEPT !.pc = "embedding"],
                     "embedding", s, c, f.told, f.turn, f.dropped)
               /\ Is([asked EXCEPT !.pc = "rewriting"],
                     "rewriting", s, c, f.told, f.turn, f.dropped)
               /\ Is([asked EXCEPT !.pc = "closing", !.told = t],
                     "closing", s, c, t, f.turn, f.dropped)
  <1>1. "embedding" \in Place /\ "rewriting" \in Place /\ "closing" \in Place
    BY DEF Place, Waiting
  <1> QED
    BY <1>1, StateFields, StateChanges

LEMMA Starting ==
    ASSUME QuestionsInv, NEW r \in Request, NEW stream \in BOOLEAN,
           NEW c \in Conversation \cup {NoConversation}, Start(r, stream, c)
    PROVE  Local(r)
  <1> DEFINE asked == [request[r] EXCEPT !.stream = stream, !.conversation = c]
             told == IF stream THEN "nothing" ELSE "error"
             g == IF c = NoConversation THEN [asked EXCEPT !.pc = "embedding"]
                  ELSE IF c \in exists THEN [asked EXCEPT !.pc = "rewriting"]
                  ELSE [asked EXCEPT !.pc = "closing", !.told = told]
  <1>1. /\ request[r] \in RequestState
        /\ Writes(r) /\ Tells(r)
        /\ NoWrites.messages = {} /\ NoWrites.outcome = "none"
    BY RequestFacts
  <1>2. /\ request[r].pc = "idle" /\ loop = NoRequest
        /\ request' = [request EXCEPT ![r] = g] /\ UNCHANGED <<stored, tx, held, loop>>
    BY DEF Start, OnLoop, At, Running
  <1>3. \E p \in {"embedding", "rewriting", "closing"}, t \in Told :
            /\ p = "closing" => t \in {"nothing", "error"}
            /\ p = "embedding" => c = NoConversation
            /\ Is(g, p, stream, c, t, request[r].turn, request[r].dropped)
    <2>1. told \in Told /\ told \in {"nothing", "error"}
      BY DEF Told
    <2>2. request[r].told \in Told
      BY <1>1, StateFields
    <2> HIDE DEF told
    <2>3. /\ Is([asked EXCEPT !.pc = "embedding"], "embedding", stream, c,
                request[r].told, request[r].turn, request[r].dropped)
          /\ Is([asked EXCEPT !.pc = "rewriting"], "rewriting", stream, c,
                request[r].told, request[r].turn, request[r].dropped)
          /\ Is([asked EXCEPT !.pc = "closing", !.told = told], "closing", stream, c,
                told, request[r].turn, request[r].dropped)
      BY <1>1, <2>1, StartFields
    <2> HIDE DEF asked
    <2> QED
      BY <2>1, <2>2, <2>3
  <1>4. /\ request'[r] = g /\ g \in RequestState /\ g.pc # "done"
        /\ messages' = messages /\ exists' = exists /\ tx' = tx /\ held' = held
    BY <1>2, <1>3 DEF Is, QuestionsInv, TypeOK, stored
  <1> HIDE DEF g
  <1>5. tx[r] = NoWrites /\ ~request[r].dropped /\ ~request[r].turn
    BY <1>1, <1>2 DEF Writes, WrittenSoFar, Tells, Early
  <1>6. Writes(r)'
    <2>1. OwnTurns(r)' /\ AnswersFollow(r)'
      BY <1>1, <1>4, <1>5 DEF OwnTurns, AnswersFollow
    <2>2. WrittenSoFar(r)'
      BY <1>1, <1>3, <1>4, <1>5 DEF WrittenSoFar, Is, Middle, Early, Over, InConversation
    <2> QED
      BY <2>1, <2>2 DEF Writes
  <1>7. Tells(r)'
    BY <1>1, <1>3, <1>4, <1>5 DEF Tells, Is, Early, Middle, Over, Ending
  <1>8. loop' \in Request \cup {NoRequest}
    BY <1>2
  <1> QED
    BY <1>2, <1>4, <1>6, <1>7, <1>8, Quiet

(* A request that closes without writing.                                  *)
LEMMA ClosedQuietly ==
    ASSUME QuestionsInv, NEW r \in Request, NEW told \in Told, Close(r, told),
           UNCHANGED <<stored, tx, held>>, request[r].pc \notin Over,
           told \in {"answered", "refused"} => tx[r].outcome = told,
           told = "error" /\ tx[r].outcome # "none" => request[r].stream /\ Gone(r)
    PROVE  Local(r)
  <1> DEFINE g == [request[r] EXCEPT !.pc = "closing", !.told = told]
  <1>1. /\ request[r] \in RequestState
        /\ Writes(r) /\ Tells(r)
    BY RequestFacts
  <1>2. request' = [request EXCEPT ![r] = g] /\ loop' = NoRequest
    BY DEF Close
  <1>3. Is(g, "closing", request[r].stream, request[r].conversation, told,
           request[r].turn, request[r].dropped)
    BY <1>1, StateFields, StateChanges DEF Place, Waiting
  <1>4. /\ request'[r] = g /\ g \in RequestState /\ g.pc # "done"
        /\ request[r].pc # "done"
        /\ messages' = messages /\ exists' = exists /\ tx' = tx /\ held' = held
    BY <1>2, <1>3 DEF Is, QuestionsInv, TypeOK, stored, Over
  <1> HIDE DEF g
  <1>5. request'[r].conversation = request[r].conversation
    BY <1>3, <1>4 DEF Is
  <1>6. Visible(r)' = Visible(r)
    BY <1>4, <1>5 DEF Visible
  <1>7. Writes(r)'
    <2>1. OwnTurns(r)'
      BY <1>1, <1>4, <1>5, <1>6 DEF Writes, OwnTurns
    <2>2. WrittenSoFar(r)'
      BY <1>3, <1>4 DEF WrittenSoFar, Is, Middle, Early, Over
    <2>3. AnswersFollow(r)'
      BY <1>1, <1>3, <1>4 DEF Writes, AnswersFollow, Is
    <2> QED
      BY <2>1, <2>2, <2>3 DEF Writes
  <1>8. Tells(r)'
    BY <1>1, <1>3, <1>4, <1>5 DEF Tells, Is, Early, Middle, Over, Ending, Gone
  <1> QED
    BY <1>2, <1>4, <1>7, <1>8, Quiet

LEMMA Disconnecting ==
    ASSUME QuestionsInv, NEW r \in Request, Disconnect(r)
    PROVE  Local(r)
  <1>1. Close(r, "nothing") /\ UNCHANGED <<stored, tx, held>> /\ request[r].pc \notin Over
    BY DEF Disconnect, OnLoop, At, Waiting, Over
  <1> QED
    BY <1>1, ClosedQuietly DEF Told

-----------------------------------------------------------------------------
(* The steps that write, or undo what was written.                         *)
LEMMA Writing ==
    ASSUME QuestionsInv, NEW r \in Request, NEW g \in RequestState,
           NEW t \in Transaction, NEW h \in SUBSET Lockable,
           request' = [request EXCEPT ![r] = g],
           tx' = [tx EXCEPT ![r] = t], held' = [held EXCEPT ![r] = h],
           \A x \in h \ held[r] : Free(r, x), UNCHANGED stored,
           loop' \in Request \cup {NoRequest},
           request[r].pc # "done", g.pc # "done",
           Writes(r)', Tells(r)'
    PROVE  Local(r)
  <1>1. request \in [Request -> RequestState] /\ tx \in [Request -> Transaction]
        /\ held \in [Request -> SUBSET Lockable]
    BY DEF QuestionsInv, TypeOK, Transaction
  <1>2. request'[r] = g /\ tx'[r] = t /\ held'[r] = h
    BY <1>1
  <1>3. Alone(r)
    BY <1>1 DEF Alone
  <1>4. /\ request' \in [Request -> RequestState] /\ tx' \in [Request -> Transaction]
        /\ held' \in [Request -> SUBSET Lockable]
    BY <1>1
  <1> QED
    BY <1>2, <1>3, <1>4 DEF Local, At

(* What was written is undone, and the request goes on without it.         *)
LEMMA Undoing ==
    ASSUME QuestionsInv, NEW r \in Request, NEW g \in RequestState,
           NEW h \in SUBSET held[r],
           request' = [request EXCEPT ![r] = g],
           tx' = [tx EXCEPT ![r] = NoWrites], held' = [held EXCEPT ![r] = h],
           UNCHANGED stored, loop' \in Request \cup {NoRequest},
           request[r].pc # "done", g.pc \in {"ranking", "closing", "failed"},
           g.pc = "ranking" /\ ~g.dropped => ~g.stream \/ g.conversation = NoConversation,
           g.turn => g.dropped \/ g.pc = "failed",
           g.pc = "ranking" /\ ~g.stream => ~g.turn,
           g.pc = "closing" => g.told \notin {"answered", "refused"}
    PROVE  Local(r)
  <1>1. /\ tx[r] \in Transaction /\ h \in SUBSET Lockable
        /\ NoWrites \in Transaction
        /\ NoWrites.messages = {} /\ NoWrites.outcome = "none"
    BY RequestFacts
  <1>2. request'[r] = g /\ tx'[r] = NoWrites
    BY DEF QuestionsInv, TypeOK
  <1>3. Writes(r)'
    <2>1. OwnTurns(r)' /\ AnswersFollow(r)'
      BY <1>1, <1>2 DEF OwnTurns, AnswersFollow
    <2>2. WrittenSoFar(r)'
      BY <1>1, <1>2 DEF WrittenSoFar, Middle, Early, Over, InConversation
    <2> QED
      BY <2>1, <2>2 DEF Writes
  <1>4. Tells(r)'
    BY <1>1, <1>2 DEF Tells, Early, Middle, Over, Ending
  <1> QED
    BY <1>1, <1>3, <1>4, Writing

LEMMA VectorSearchFailing ==
    ASSUME QuestionsInv, NEW r \in Request, VectorSearchFails(r)
    PROVE  Local(r)
  <1> DEFINE g == [request[r] EXCEPT !.pc = "ranking", !.dropped = tx[r] # NoWrites]
  <1>1. /\ request[r] \in RequestState /\ Writes(r) /\ Tells(r)
        /\ NoWrites.messages = {}
    BY RequestFacts
  <1>2. /\ request[r].pc = "embedding"
        /\ request' = [request EXCEPT ![r] = g]
        /\ tx' = [tx EXCEPT ![r] = NoWrites] /\ held' = [held EXCEPT ![r] = {}]
        /\ UNCHANGED stored /\ UNCHANGED loop
    BY DEF VectorSearchFails, OnLoop, At
  <1>3. Is(g, "ranking", request[r].stream, request[r].conversation, request[r].told,
           request[r].turn, tx[r] # NoWrites)
    <2>1. "ranking" \in Place /\ (tx[r] # NoWrites) \in BOOLEAN
      BY DEF Place, Waiting
    <2> QED
      BY <1>1, <2>1, StateFields, StateChanges
  <1> HIDE DEF g
  <1>4. ~request[r].dropped
    BY <1>1, <1>2 DEF Tells
  <1>5. request[r].stream /\ InConversation(r) => tx[r] # NoWrites
    BY <1>1, <1>2, <1>4 DEF Writes, WrittenSoFar, Middle
  <1>6. request[r].turn => request[r].stream /\ tx[r] # NoWrites
    BY <1>1, <1>2, <1>4 DEF Tells, Middle, Over
  <1>7. loop' \in Request \cup {NoRequest}
    BY <1>2 DEF QuestionsInv, TypeOK
  <1>8. /\ g \in RequestState /\ g.pc = "ranking" /\ (g.dropped <=> tx[r] # NoWrites)
        /\ g.stream = request[r].stream /\ g.turn = request[r].turn
        /\ g.conversation = request[r].conversation
    BY <1>3 DEF Is
  <1> QED
    BY <1>2, <1>5, <1>6, <1>7, <1>8, Undoing DEF InConversation

LEMMA ConnectionLosing ==
    ASSUME QuestionsInv, NEW r \in Request, ConnectionLost(r)
    PROVE  Local(r)
  <1>1. /\ request[r] \in RequestState /\ Writes(r) /\ Tells(r)
        /\ NoWrites.messages = {}
    BY RequestFacts
  <1>2. PICK pc \in Running \cup {"rewriting", "embedding", "generating"} :
          /\ request[r].pc = pc
          /\ request' = [request EXCEPT ![r].pc = "closing",
                  ![r].dropped = @ \/ tx[r] # NoWrites,
                  ![r].told = IF request[r].stream /\ pc \in {"rewriting", "user_turn"}
                              THEN "nothing" ELSE "error"]
    BY DEF ConnectionLost, OnLoop, At
  <1> DEFINE told == IF request[r].stream /\ pc \in {"rewriting", "user_turn"}
                     THEN "nothing" ELSE "error"
             dropped == request[r].dropped \/ tx[r] # NoWrites
             g == [request[r] EXCEPT !.pc = "closing", !.dropped = dropped,
                                     !.told = told]
  <1>3. /\ request' = [request EXCEPT ![r] = g]
        /\ tx' = [tx EXCEPT ![r] = NoWrites] /\ held' = [held EXCEPT ![r] = {}]
        /\ UNCHANGED stored /\ loop' = NoRequest
    BY <1>2 DEF ConnectionLost
  <1>4. told \in Told /\ told \notin {"answered", "refused"} /\ dropped \in BOOLEAN
    BY DEF Told
  <1>5. request[r].turn => dropped
    <2>1. request[r].pc \notin Over
      BY <1>2 DEF Running, Over
    <2> QED
      BY <1>1, <2>1 DEF Tells
  <1> HIDE DEF told, dropped
  <1>6. Is(g, "closing", request[r].stream, request[r].conversation, told,
           request[r].turn, dropped)
    BY <1>1, <1>4, LosesWrites
  <1> HIDE DEF g
  <1>7. /\ g \in RequestState /\ g.pc = "closing" /\ g.told = told
        /\ g.dropped = dropped /\ g.turn = request[r].turn
    BY <1>6 DEF Is
  <1>8. request[r].pc # "done"
    BY <1>2 DEF Running
  <1> QED
    BY <1>3, <1>4, <1>5, <1>7, <1>8, Undoing

LEMMA CommitFailing ==
    ASSUME QuestionsInv, NEW r \in Request, CommitFails(r)
    PROVE  Local(r)
  <1> DEFINE g == [request[r] EXCEPT !.pc = "failed"]
  <1>1. request[r] \in RequestState
    BY RequestFacts
  <1>2. /\ request[r].pc = "committing"
        /\ request' = [request EXCEPT ![r] = g]
        /\ tx' = [tx EXCEPT ![r] = NoWrites] /\ held' = [held EXCEPT ![r] = {}]
        /\ UNCHANGED stored /\ UNCHANGED loop
    BY DEF CommitFails, At
  <1>3. g \in RequestState /\ g.pc = "failed"
    BY <1>1, MovesTo DEF Place, Is
  <1> HIDE DEF g
  <1>4. loop' \in Request \cup {NoRequest}
    BY <1>2 DEF QuestionsInv, TypeOK
  <1> QED
    BY <1>2, <1>3, <1>4, Undoing

LEMMA TurnsWritten ==
    ASSUME NEW t \in Transaction, NEW turns \in SUBSET Message
    PROVE  /\ [t EXCEPT !.messages = turns] \in Transaction
           /\ [t EXCEPT !.messages = turns].messages = turns
           /\ [t EXCEPT !.messages = turns].outcome = t.outcome
  BY DEF Transaction

LEMMA OutcomeWritten ==
    ASSUME NEW t \in Transaction, NEW o \in Outcome
    PROVE  /\ [t EXCEPT !.outcome = o] \in Transaction
           /\ [t EXCEPT !.outcome = o].messages = t.messages
           /\ [t EXCEPT !.outcome = o].outcome = o
  BY DEF Transaction

(* A turn added to what the transaction sees.                              *)
LEMMA AppendedNumber ==
    ASSUME QuestionsInv, NEW r \in Request, request[r].conversation \in Conversation,
           NEW role \in Role
    PROVE  LET m == [number |-> Cardinality(Visible(r)) + 1, run |-> r, role |-> role]
           IN  /\ Appended(r, role) = tx[r].messages \cup {m}
               /\ m \in Message
               /\ Numbered(Visible(r) \cup {m})
               /\ Cardinality(Visible(r)) \in Nat
               /\ Cardinality(Visible(r) \cup {m}) = Cardinality(Visible(r)) + 1
  <1> DEFINE m == [number |-> Cardinality(Visible(r)) + 1, run |-> r, role |-> role]
  <1>1. Numbered(Visible(r)) /\ Cardinality(Visible(r)) \in Nat
    BY VisibleNumbered
  <1>2. m.number = Cardinality(Visible(r)) + 1
    OBVIOUS
  <1>3. m \in Message
    BY <1>1 DEF Message
  <1>4. Appended(r, role) = tx[r].messages \cup {m}
    BY DEF Appended
  <1> HIDE DEF m
  <1>5. /\ Numbered(Visible(r) \cup {m})
        /\ Cardinality(Visible(r) \cup {m}) = Cardinality(Visible(r)) + 1
    BY <1>1, <1>2, NextNumber
  <1> QED
    BY <1>1, <1>3, <1>4, <1>5 DEF m

LEMMA UserTurnPersisting ==
    ASSUME QuestionsInv, NEW r \in Request, PersistUserTurn(r)
    PROVE  Local(r)
  <1>1. /\ request[r] \in RequestState /\ tx[r] \in Transaction
        /\ held[r] \in SUBSET Lockable /\ Writes(r) /\ Tells(r)
        /\ NoWrites.messages = {} /\ NoWrites.outcome = "none"
    BY RequestFacts
  <1>2. request[r].pc = "user_turn"
    BY DEF PersistUserTurn, OnLoop, At
  <1>3. /\ tx[r] = NoWrites /\ ~request[r].dropped /\ ~request[r].turn
        /\ request[r].stream
    BY <1>1, <1>2 DEF Writes, WrittenSoFar, Tells, Early
  <1>4. CASE Gone(r)
    <2>1. Close(r, "nothing") /\ UNCHANGED <<stored, tx, held>>
      BY <1>4 DEF PersistUserTurn
    <2> QED
      BY <1>2, <2>1, ClosedQuietly DEF Told, Over
  <1>5. CASE ~Gone(r)
    <2> DEFINE c == request[r].conversation
               g == [request[r] EXCEPT !.pc = "embedding", !.turn = TRUE]
               turn == [number |-> Cardinality(Visible(r)) + 1, run |-> r, role |-> "USER"]
               t == [tx[r] EXCEPT !.messages = {turn}]
               h == held[r] \cup {c}
    <2>1. c \in Conversation /\ c # NoConversation
      BY <1>5 DEF Gone, QuestionsInv, TypeOK
    <2>2. Visible(r) = messages[c]
      BY <1>1, <1>3 DEF Visible
    <2>3. /\ Appended(r, "USER") = {turn} /\ turn \in Message
          /\ Numbered(Visible(r) \cup {turn})
      BY <1>1, <1>3, <2>1, AppendedNumber DEF Role
    <2>4. /\ request' = [request EXCEPT ![r] = g]
          /\ tx' = [tx EXCEPT ![r] = t]
          /\ held' = [held EXCEPT ![r] = h]
          /\ UNCHANGED stored /\ loop' = NoRequest
      BY <1>5, <2>3 DEF PersistUserTurn, Locked
    <2>5. turn = UserTurn(r) /\ turn.run = r /\ turn.role = "USER"
      BY <2>2 DEF UserTurn
    <2> HIDE DEF turn
    <2>6. t \in Transaction /\ t.messages = {turn} /\ t.outcome = "none"
      <3>1. {turn} \in SUBSET Message
        BY <2>3
      <3> QED
        BY <1>1, <1>3, <3>1, TurnsWritten
    <2>7. Is(g, "embedding", request[r].stream, c, request[r].told, TRUE,
             request[r].dropped)
      <3>1. "embedding" \in Place
        BY DEF Place, Waiting
      <3> QED
        BY <1>1, <3>1, StateFields, StateChanges
    <2>8. h \in SUBSET Lockable /\ \A x \in h \ held[r] : Free(r, x)
      BY <1>1, <2>1 DEF PersistUserTurn, AppendLock, Lockable
    <2> HIDE DEF g, t
    <2>9. /\ request'[r] = g /\ tx'[r] = t /\ held'[r] = h /\ messages' = messages
      BY <2>4 DEF QuestionsInv, TypeOK, stored
    <2>10. request'[r].conversation = c /\ request'[r].stream /\ ~request'[r].dropped
      BY <1>3, <2>7, <2>9 DEF Is
    <2>11. Visible(r)' = Visible(r) \cup {turn} /\ UserTurn(r)' = turn
      BY <2>2, <2>5, <2>6, <2>9, <2>10 DEF Visible, UserTurn
    <2>12. Writes(r)'
      <3>1. OwnTurns(r)'
        BY <2>1, <2>3, <2>5, <2>6, <2>9, <2>10, <2>11 DEF OwnTurns
      <3>2. WrittenSoFar(r)'
        BY <2>1, <2>6, <2>7, <2>9, <2>10, <2>11
           DEF WrittenSoFar, Is, Early, Middle, Over, InConversation
      <3>3. AnswersFollow(r)'
        BY <2>5, <2>6, <2>9 DEF AnswersFollow
      <3> QED
        BY <3>1, <3>2, <3>3 DEF Writes
    <2>13. Tells(r)'
      BY <2>5, <2>6, <2>7, <2>9, <2>10 DEF Tells, Is, Early, Middle, Over, Ending
    <2>14. g \in RequestState /\ g.pc # "done" /\ request[r].pc # "done"
      BY <1>2, <2>7 DEF Is
    <2> QED
      BY <2>4, <2>6, <2>8, <2>12, <2>13, <2>14, Writing
  <1> QED
    BY <1>4, <1>5

(* The decision is written, and the turns are left as they are.            *)
LEMMA OutcomeWriting ==
    ASSUME QuestionsInv, NEW r \in Request, NEW o \in Outcome \ {"none"},
           NEW h \in SUBSET Lockable, held[r] \subseteq h,
           request[r].pc \in {"generating", "refusing"},
           IF InConversation(r) THEN Goto(r, "persisting") ELSE Close(r, o),
           tx' = [tx EXCEPT ![r].outcome = o],
           held' = [held EXCEPT ![r] = h], \A x \in h \ held[r] : Free(r, x),
           UNCHANGED stored
    PROVE  Local(r)
  <1>1. /\ request[r] \in RequestState /\ tx[r] \in Transaction
        /\ Writes(r) /\ Tells(r)
    BY RequestFacts
  <1> DEFINE t == [tx[r] EXCEPT !.outcome = o]
             p == IF InConversation(r) THEN "persisting" ELSE "closing"
             told == IF InConversation(r) THEN request[r].told ELSE o
  <1>2. t \in Transaction /\ t.messages = tx[r].messages /\ t.outcome = o
    BY <1>1, OutcomeWritten
  <1>3. PICK g :
          /\ request' = [request EXCEPT ![r] = g]
          /\ Is(g, p, request[r].stream, request[r].conversation, told,
                request[r].turn, request[r].dropped)
    <2>1. CASE InConversation(r)
      <3>1. "persisting" \in Place
        BY DEF Place, Running
      <3>2. Is([request[r] EXCEPT !.pc = "persisting"], "persisting", request[r].stream,
               request[r].conversation, request[r].told, request[r].turn,
               request[r].dropped)
        BY <1>1, <3>1, MovesTo
      <3>3. request' = [request EXCEPT ![r] = [request[r] EXCEPT !.pc = "persisting"]]
        BY <2>1 DEF Goto
      <3> QED
        BY <2>1, <3>2, <3>3
    <2>2. CASE ~InConversation(r)
      <3>1. o \in Told
        BY DEF Outcome, Told
      <3>2. Is([request[r] EXCEPT !.pc = "closing", !.told = o], "closing",
               request[r].stream, request[r].conversation, o, request[r].turn,
               request[r].dropped)
        BY <1>1, <3>1, ClosesTelling
      <3>3. request' = [request EXCEPT
                            ![r] = [request[r] EXCEPT !.pc = "closing", !.told = o]]
        BY <2>2 DEF Close
      <3> QED
        BY <2>2, <3>2, <3>3
    <2> QED
      BY <2>1, <2>2
  <1>4. loop' \in Request \cup {NoRequest}
    BY DEF Goto, Close
  <1>5. tx' = [tx EXCEPT ![r] = t]
    OBVIOUS
  <1> HIDE DEF t
  <1>6. /\ request'[r] = g /\ tx'[r] = t /\ held'[r] = h
        /\ messages' = messages /\ exists' = exists
    BY <1>3, <1>5 DEF QuestionsInv, TypeOK, stored
  <1>7. /\ g \in RequestState /\ g.pc = p /\ g.told = told
        /\ g.conversation = request[r].conversation /\ g.stream = request[r].stream
        /\ g.dropped = request[r].dropped /\ g.turn = request[r].turn
    BY <1>3 DEF Is
  <1>8. Visible(r)' = Visible(r) /\ UserTurn(r)' = UserTurn(r)
    BY <1>2, <1>6, <1>7 DEF Visible, UserTurn
  <1>9. Writes(r)'
    <2>1. OwnTurns(r)'
      BY <1>1, <1>2, <1>6, <1>7, <1>8 DEF Writes, OwnTurns
    <2>2. WrittenSoFar(r)'
      BY <1>1, <1>2, <1>6, <1>7, <1>8
         DEF Writes, WrittenSoFar, Early, Middle, Over, InConversation
    <2>3. AnswersFollow(r)'
      BY <1>1, <1>2, <1>6, <1>7 DEF Writes, AnswersFollow
    <2> QED
      BY <2>1, <2>2, <2>3 DEF Writes
  <1>10. Tells(r)'
    BY <1>1, <1>2, <1>6, <1>7 DEF Tells, Early, Middle, Over, Ending, Outcome
  <1>11. g.pc # "done" /\ request[r].pc # "done"
    BY <1>7
  <1> QED
    BY <1>2, <1>3, <1>4, <1>5, <1>7, <1>9, <1>10, <1>11, Writing

LEMMA Refusing ==
    ASSUME QuestionsInv, NEW r \in Request, RecordRefusal(r)
    PROVE  Local(r)
  <1> DEFINE h == held[r] \cup {request[r].question}
  <1>1. request[r] \in RequestState /\ held[r] \in SUBSET Lockable
    BY RequestFacts
  <1>2. h \in SUBSET Lockable
    BY <1>1, StateFields DEF Lockable
  <1>3. /\ held' = [held EXCEPT ![r] = h]
        /\ \A x \in h \ held[r] : Free(r, x)
        /\ request[r].pc = "refusing"
    BY DEF RecordRefusal, Locked, OnLoop, At
  <1>4. "refused" \in Outcome \ {"none"}
    BY DEF Outcome
  <1> HIDE DEF h
  <1>5. /\ IF InConversation(r) THEN Goto(r, "persisting") ELSE Close(r, "refused")
        /\ tx' = [tx EXCEPT ![r].outcome = "refused"] /\ UNCHANGED stored
    BY DEF RecordRefusal
  <1>6. held[r] \subseteq h
    BY DEF h
  <1> QED
    BY <1>2, <1>3, <1>4, <1>5, <1>6, OutcomeWriting

LEMMA Generating ==
    ASSUME QuestionsInv, NEW r \in Request, Generated(r)
    PROVE  Local(r)
  <1>1. request[r].pc = "generating" /\ UNCHANGED <<stored, held>>
    BY DEF Generated, OnLoop, At
  <1>2. /\ request[r] \in RequestState /\ Writes(r) /\ Tells(r)
        /\ held[r] \in SUBSET Lockable
    BY RequestFacts
  <1>3. CASE /\ tx' = [tx EXCEPT ![r].outcome = "answered"]
             /\ IF InConversation(r) THEN Goto(r, "persisting")
                                     ELSE Close(r, "answered")
    <2>1. "answered" \in Outcome \ {"none"}
      BY DEF Outcome
    <2>2. held' = [held EXCEPT ![r] = held[r]]
      BY <1>1 DEF QuestionsInv, TypeOK
    <2> QED
      BY <1>1, <1>2, <1>3, <2>1, <2>2, OutcomeWriting
  <1>4. CASE Goto(r, "refusing") /\ UNCHANGED tx
    <2>1. "refusing" \in Place
      BY DEF Place, Running
    <2>2. /\ Is(request'[r], "refusing", request[r].stream, request[r].conversation,
                request[r].told, request[r].turn, request[r].dropped)
          /\ request' = [request EXCEPT ![r] = request'[r]]
          /\ loop' \in Request \cup {NoRequest}
          /\ messages' = messages /\ exists' = exists /\ tx' = tx /\ held' = held
          /\ Visible(r)' = Visible(r) /\ UserTurn(r)' = UserTurn(r)
      BY <1>1, <1>4, <2>1, GotoQuietly
    <2>3. Writes(r)'
      <3>1. OwnTurns(r)'
        BY <1>2, <2>2 DEF Writes, OwnTurns, Is
      <3>2. WrittenSoFar(r)'
        BY <1>1, <1>2, <2>2
           DEF Writes, WrittenSoFar, Is, Early, Middle, Over, InConversation
      <3>3. AnswersFollow(r)'
        BY <1>2, <2>2 DEF Writes, AnswersFollow, Is
      <3> QED
        BY <3>1, <3>2, <3>3 DEF Writes
    <2>4. Tells(r)'
      BY <1>1, <1>2, <2>2 DEF Tells, Is, Early, Middle, Ending, Over
    <2>5. request'[r] \in RequestState /\ request[r].pc # "done" /\ request'[r].pc # "done"
      BY <1>1, <2>2 DEF Is
    <2> QED
      BY <1>1, <1>4, <2>2, <2>3, <2>4, <2>5, Quiet
  <1> QED
    BY <1>3, <1>4 DEF Generated

(* An error is reported, and what is committed is by AfterError.           *)
LEMMA Failing ==
    ASSUME QuestionsInv, NEW r \in Request, Close(r, "error"),
           tx' = [tx EXCEPT ![r] = AfterError(r)], UNCHANGED <<stored, held>>,
           request[r].pc \in Middle,
           request[r].stream => Gone(r) \/ tx[r].outcome = "none"
    PROVE  Local(r)
  <1>1. /\ request[r] \in RequestState /\ Writes(r) /\ Tells(r)
        /\ tx \in [Request -> Transaction] /\ held \in [Request -> SUBSET Lockable]
    BY RequestFacts DEF QuestionsInv, TypeOK, Transaction
  <1>2. CASE request[r].stream
    <2>1. tx' = tx
      BY <1>1, <1>2 DEF AfterError
    <2> QED
      BY <1>2, <2>1, ClosedQuietly DEF Told, Middle, Over
  <1>3. CASE ~request[r].stream
    <2> DEFINE g == [request[r] EXCEPT !.pc = "closing", !.told = "error"]
    <2>1. Is(g, "closing", request[r].stream, request[r].conversation, "error",
             request[r].turn, request[r].dropped)
      BY <1>1, ClosesTelling DEF Told
    <2>2. ~request[r].turn
      BY <1>1, <1>3 DEF Tells
    <2>3. /\ request' = [request EXCEPT ![r] = g] /\ loop' \in Request \cup {NoRequest}
          /\ tx' = [tx EXCEPT ![r] = NoWrites] /\ held' = [held EXCEPT ![r] = held[r]]
      BY <1>1, <1>3 DEF AfterError, Close
    <2> HIDE DEF g
    <2>4. /\ g \in RequestState /\ g.pc = "closing" /\ g.told = "error" /\ ~g.turn
      BY <2>1, <2>2 DEF Is
    <2>5. request[r].pc # "done"
      BY DEF Middle
    <2> QED
      BY <2>3, <2>4, <2>5, Undoing
  <1> QED
    BY <1>2, <1>3

LEMMA ProviderFailing ==
    ASSUME QuestionsInv, NEW r \in Request, ProviderFails(r)
    PROVE  Local(r)
  <1>1. request[r].pc = "generating" /\ Tells(r)
    BY RequestFacts DEF ProviderFails, OnLoop, At
  <1>2. tx[r].outcome = "none" /\ request[r].pc \in Middle
    BY <1>1 DEF Tells, Early, Middle
  <1> QED
    BY <1>2, Failing DEF ProviderFails

(* The transaction writes turns at the end of what it sees, under the lock *)
(* of the conversation, and the request closes with the stored outcome.    *)
LEMMA ClosingTurns ==
    ASSUME QuestionsInv, NEW r \in Request, NEW g \in RequestState,
           NEW added \in SUBSET Message,
           request[r].pc = "persisting", ~Gone(r), Free(r, request[r].conversation),
           request' = [request EXCEPT ![r] = g], loop' = NoRequest,
           tx' = [tx EXCEPT ![r].messages = tx[r].messages \cup added],
           Locked(r, request[r].conversation), UNCHANGED stored,
           g.pc = "closing", g.conversation = request[r].conversation,
           g.stream = request[r].stream, g.dropped = request[r].dropped,
           g.told = tx[r].outcome,
           g.turn => request[r].turn \/ \E q \in added : q.role = "USER",
           Numbered(Visible(r) \cup added),
           \A m \in added : m.run = r,
           ~g.dropped => \A a \in added : a.role = "ASSISTANT" =>
               \E q \in tx[r].messages \cup added :
                   q.role = "USER" /\ a.number = q.number + 1
    PROVE  Local(r)
  <1> DEFINE c == request[r].conversation
             t == [tx[r] EXCEPT !.messages = tx[r].messages \cup added]
             h == held[r] \cup {c}
  <1>1. /\ request[r] \in RequestState /\ tx[r] \in Transaction
        /\ held[r] \in SUBSET Lockable /\ Writes(r) /\ Tells(r)
    BY RequestFacts
  <1>2. c \in Conversation
    BY DEF Gone, QuestionsInv, TypeOK
  <1>3. /\ t \in Transaction /\ t.messages = tx[r].messages \cup added
        /\ t.outcome = tx[r].outcome
    <2>1. tx[r].messages \cup added \in SUBSET Message
      BY <1>1 DEF Transaction
    <2> QED
      BY <1>1, <2>1, TurnsWritten
  <1>4. /\ tx' = [tx EXCEPT ![r] = t] /\ held' = [held EXCEPT ![r] = h]
        /\ h \in SUBSET Lockable /\ \A x \in h \ held[r] : Free(r, x)
    BY <1>1, <1>2 DEF Locked, Lockable
  <1> HIDE DEF t
  <1>5. /\ request'[r] = g /\ tx'[r] = t /\ held'[r] = h
        /\ messages' = messages /\ exists' = exists
    BY <1>4 DEF QuestionsInv, TypeOK, stored
  <1>6. Visible(r)' = Visible(r) \cup added
    BY <1>3, <1>5 DEF Visible
  <1>7. Writes(r)'
    <2>1. OwnTurns(r)'
      BY <1>1, <1>2, <1>3, <1>5, <1>6 DEF Writes, OwnTurns
    <2>2. WrittenSoFar(r)'
      BY <1>5 DEF WrittenSoFar, Early, Middle, Over
    <2>3. AnswersFollow(r)'
      <3> SUFFICES ASSUME ~g.dropped, NEW a \in tx[r].messages \cup added,
                          a.role = "ASSISTANT"
                   PROVE  \E q \in tx[r].messages \cup added :
                              q.role = "USER" /\ a.number = q.number + 1
        BY <1>3, <1>5 DEF AnswersFollow
      <3>1. CASE a \in added
        BY <3>1
      <3>2. CASE a \in tx[r].messages
        BY <1>1, <3>2 DEF Writes, AnswersFollow
      <3> QED
        BY <3>1, <3>2
    <2> QED
      BY <2>1, <2>2, <2>3 DEF Writes
  <1>8. Tells(r)'
    <2>1. g.turn /\ ~g.dropped => \E q \in t.messages : q.role = "USER"
      BY <1>1, <1>3 DEF Tells, Over
    <2>2. tx[r].outcome \in Outcome
      BY <1>1 DEF Transaction
    <2> QED
      BY <1>3, <1>5, <2>1, <2>2 DEF Tells, Early, Middle, Over, Ending, Outcome
  <1> QED
    BY <1>3, <1>4, <1>7, <1>8, Writing

LEMMA TerminalTurnPersisting ==
    ASSUME QuestionsInv, NEW r \in Request, PersistTerminalTurn(r)
    PROVE  Local(r)
  <1> DEFINE c == request[r].conversation
             o == tx[r].outcome
  <1>1. /\ request[r] \in RequestState /\ tx[r] \in Transaction
        /\ Writes(r) /\ Tells(r)
    BY RequestFacts
  <1>2. request[r].pc = "persisting" /\ request[r].stream /\ UNCHANGED stored
    BY DEF PersistTerminalTurn, OnLoop, At
  <1>3. o \in {"answered", "refused"} /\ o \in Told /\ request[r].pc \notin Over
    BY <1>1, <1>2 DEF Tells, Transaction, Outcome, Told, Over
  <1>4. CASE Gone(r)
    <2>1. Close(r, "error") /\ UNCHANGED <<stored, tx, held>>
      BY <1>4 DEF PersistTerminalTurn
    <2> QED
      BY <1>2, <1>3, <1>4, <2>1, ClosedQuietly DEF Told
  <1>5. CASE ~Gone(r) /\ o # "answered"
    <2>1. Close(r, o) /\ UNCHANGED <<stored, tx, held>>
      BY <1>5 DEF PersistTerminalTurn
    <2> QED
      BY <1>2, <1>3, <2>1, ClosedQuietly
  <1>6. CASE ~Gone(r) /\ o = "answered"
    <2> DEFINE m == [number |-> Cardinality(Visible(r)) + 1, run |-> r,
                     role |-> "ASSISTANT"]
               g == [request[r] EXCEPT !.pc = "closing", !.told = o]
    <2>1. c \in Conversation /\ c # NoConversation
      BY <1>6 DEF Gone, QuestionsInv, TypeOK
    <2>2. /\ Appended(r, "ASSISTANT") = tx[r].messages \cup {m} /\ m \in Message
          /\ Numbered(Visible(r) \cup {m}) /\ m.run = r
      BY <2>1, AppendedNumber DEF Role
    <2>3. /\ Free(r, c) /\ Locked(r, c)
          /\ tx' = [tx EXCEPT ![r].messages = tx[r].messages \cup {m}]
          /\ request' = [request EXCEPT ![r] = g] /\ loop' = NoRequest
      BY <1>6, <2>2 DEF PersistTerminalTurn, AppendLock, Close
    <2>4. Is(g, "closing", request[r].stream, c, o, request[r].turn, request[r].dropped)
      BY <1>1, <1>3, ClosesTelling
    <2> HIDE DEF g
    <2>5. ASSUME ~request[r].dropped
          PROVE  \E q \in tx[r].messages : q.role = "USER" /\ m.number = q.number + 1
      <3>1. tx[r].messages = {UserTurn(r)}
        BY <1>1, <1>2, <2>1, <2>5 DEF Writes, WrittenSoFar, Middle, InConversation
      <3>2. Numbered(messages[c])
        BY <2>1 DEF QuestionsInv, AllNumbered
      <3>3. Cardinality(messages[c] \cup {UserTurn(r)}) = Cardinality(messages[c]) + 1
        BY <3>2, NextNumber DEF UserTurn
      <3>4. Cardinality(Visible(r)) = Cardinality(messages[c]) + 1
        BY <3>1, <3>3 DEF Visible
      <3> QED
        BY <3>1, <3>4 DEF UserTurn
    <2>6. /\ g \in RequestState /\ g.pc = "closing" /\ g.conversation = c
          /\ g.stream = request[r].stream /\ g.dropped = request[r].dropped
          /\ g.told = o /\ g.turn = request[r].turn
      BY <2>4 DEF Is
    <2> HIDE DEF m
    <2>7. {m} \in SUBSET Message /\ \A a \in {m} : a.run = r
      BY <2>2
    <2>8. ~g.dropped => \A a \in {m} : a.role = "ASSISTANT" =>
              \E q \in tx[r].messages \cup {m} :
                  q.role = "USER" /\ a.number = q.number + 1
      BY <2>5, <2>6
    <2> QED
      BY <1>2, <1>6, <2>2, <2>3, <2>6, <2>7, <2>8, ClosingTurns
  <1> QED
    BY <1>4, <1>5, <1>6

LEMMA ClosesAsTurn ==
    ASSUME NEW f \in RequestState, NEW t \in Told
    PROVE  Is([f EXCEPT !.pc = "closing", !.told = t, !.turn = TRUE],
              "closing", f.stream, f.conversation, t, TRUE, f.dropped)
  <1>1. "closing" \in Place
    BY DEF Place, Waiting
  <1> QED
    BY <1>1 DEF RequestState, Place, Is

LEMMA ConversationTurnPersisting ==
    ASSUME QuestionsInv, NEW r \in Request, PersistConversationTurn(r)
    PROVE  Local(r)
  <1> DEFINE c == request[r].conversation
             o == tx[r].outcome
  <1>1. /\ request[r] \in RequestState /\ tx[r] \in Transaction
        /\ Writes(r) /\ Tells(r)
    BY RequestFacts
  <1>2. /\ request[r].pc = "persisting" /\ ~request[r].stream /\ UNCHANGED stored
        /\ Free(r, c)
    BY DEF PersistConversationTurn, OnLoop, At, AppendLock
  <1>3. CASE Gone(r)
    <2>1. /\ Close(r, "error") /\ tx' = [tx EXCEPT ![r] = AfterError(r)]
          /\ UNCHANGED <<stored, held>>
      BY <1>2, <1>3 DEF PersistConversationTurn
    <2> QED
      BY <1>2, <2>1, Failing DEF Middle
  <1>4. CASE ~Gone(r)
    <2> DEFINE n == Cardinality(Visible(r))
               m1 == [number |-> n + 1, run |-> r, role |-> "USER"]
               m2 == [number |-> n + 2, run |-> r, role |-> "ASSISTANT"]
               added == IF o = "answered" THEN {m1, m2} ELSE {m1}
               g == [request[r] EXCEPT !.pc = "closing", !.told = o, !.turn = TRUE]
    <2>1. c \in Conversation /\ c # NoConversation
      BY <1>4 DEF Gone, QuestionsInv, TypeOK
    <2>2. /\ Appended(r, "USER") = tx[r].messages \cup {m1} /\ m1 \in Message
          /\ Numbered(Visible(r) \cup {m1})
          /\ n \in Nat /\ Cardinality(Visible(r) \cup {m1}) = n + 1
      BY <2>1, AppendedNumber DEF Role
    <2>3. m2 \in Message
      BY <2>1, TurnTypes DEF Role
    <2>4. Numbered((Visible(r) \cup {m1}) \cup {m2})
      <3>1. m2.number = Cardinality(Visible(r) \cup {m1}) + 1
        BY <2>2
      <3> HIDE DEF m1, m2
      <3> QED
        BY <2>2, <3>1, NextNumber
    <2>5. /\ m1.run = r /\ m2.run = r /\ m1.role = "USER"
          /\ m2.number = m1.number + 1
      BY <2>2
    <2>6. tx' = [tx EXCEPT ![r].messages =
                     IF o = "answered" THEN Appended(r, "USER") \cup {m2}
                                       ELSE Appended(r, "USER")]
      BY <1>4 DEF PersistConversationTurn
    <2>7. request' = [request EXCEPT ![r] = g] /\ loop' = NoRequest /\ Locked(r, c)
      BY <1>4 DEF PersistConversationTurn
    <2>8. o \in Told
      BY <1>1, <1>2 DEF Transaction, Outcome, Tells, Told
    <2>9. Is(g, "closing", request[r].stream, c, o, TRUE, request[r].dropped)
      BY <1>1, <2>8, ClosesAsTurn
    <2> HIDE DEF g, m1, m2, n
    <2>10. /\ g \in RequestState /\ g.pc = "closing" /\ g.conversation = c
           /\ g.stream = request[r].stream /\ g.dropped = request[r].dropped
           /\ g.told = o
      BY <2>9 DEF Is
    <2>11. tx' = [tx EXCEPT ![r].messages = tx[r].messages \cup added]
      <3>1. (IF o = "answered" THEN Appended(r, "USER") \cup {m2}
                               ELSE Appended(r, "USER")) = tx[r].messages \cup added
        BY <2>2
      <3> QED
        BY <2>6, <3>1
    <2>12. Numbered(Visible(r) \cup added)
      <3>1. Visible(r) \cup added = IF o = "answered" THEN (Visible(r) \cup {m1}) \cup {m2}
                                                      ELSE Visible(r) \cup {m1}
        OBVIOUS
      <3>2. CASE o = "answered"
        BY <2>4, <3>1, <3>2
      <3>3. CASE o # "answered"
        BY <2>2, <3>1, <3>3
      <3> QED
        BY <3>2, <3>3
    <2>13. added \in SUBSET Message /\ (\A m \in added : m.run = r) /\ m1 \in added
      BY <2>2, <2>3, <2>5
    <2>14. \A a \in added : a.role = "ASSISTANT" =>
               \E q \in tx[r].messages \cup added :
                   q.role = "USER" /\ a.number = q.number + 1
      BY <2>5, <2>13
    <2> HIDE DEF added
    <2>15. \E q \in added : q.role = "USER"
      BY <2>5, <2>13
    <2> QED
      BY <1>2, <1>4, <2>7, <2>10, <2>11, <2>12, <2>13, <2>14, <2>15, ClosingTurns
  <1> QED
    BY <1>3, <1>4

LEMMA LocalSteps ==
    ASSUME QuestionsInv, NEW r \in Request,
           \/ \E stream \in BOOLEAN, c \in Conversation \cup {NoConversation} :
                  Start(r, stream, c)
           \/ Progress(r) /\ ~Commit(r)
           \/ Fails(r)
    PROVE  Local(r)
  <1>1. ASSUME NEW stream \in BOOLEAN, NEW c \in Conversation \cup {NoConversation},
               Start(r, stream, c)
        PROVE  Local(r)
    BY <1>1, Starting
  <1>2. ASSUME Progress(r), ~Commit(r) PROVE Local(r)
    BY <1>2, GoingOn, UserTurnPersisting, Generating, Refusing,
       TerminalTurnPersisting, ConversationTurnPersisting DEF Progress
  <1>3. ASSUME Fails(r) PROVE Local(r)
    BY <1>3, VectorSearchFailing, ProviderFailing, ConnectionLosing,
       Disconnecting, CommitFailing DEF Fails
  <1> QED
    BY <1>1, <1>2, <1>3

-----------------------------------------------------------------------------
(* The steps that change the conversations: commits and deletions.         *)
LEMMA OthersKept ==
    ASSUME QuestionsInv, NEW s \in Request,
           request'[s] = request[s], tx'[s] = tx[s], held'[s] = held[s],
           exists' \subseteq exists,
           tx[s].messages # {} =>
               messages'[request[s].conversation] = messages[request[s].conversation]
    PROVE  Writes(s)' /\ Tells(s)'
  <1>1. Writes(s) /\ Tells(s)
    BY RequestFacts
  <1>2. tx[s].messages # {} => Visible(s)' = Visible(s) /\ UserTurn(s)' = UserTurn(s)
    BY DEF Visible, UserTurn
  <1>3. OwnTurns(s)'
    BY <1>1, <1>2 DEF Writes, OwnTurns
  <1>4. WrittenSoFar(s)'
    <2>1. CASE tx[s].messages = {}
      BY <1>1, <2>1 DEF Writes, WrittenSoFar, InConversation
    <2>2. CASE tx[s].messages # {}
      BY <1>1, <1>2, <2>2 DEF Writes, WrittenSoFar, InConversation
    <2> QED
      BY <2>1, <2>2
  <1>5. AnswersFollow(s)'
    BY <1>1 DEF Writes, AnswersFollow
  <1>6. Tells(s)'
    BY <1>1 DEF Tells, Gone
  <1> QED
    BY <1>3, <1>4, <1>5, <1>6 DEF Writes

LEMMA Committing ==
    ASSUME QuestionsInv, NEW r \in Request, Commit(r)
    PROVE  QuestionsInv'
  <1> DEFINE c == request[r].conversation
             g == [request[r] EXCEPT !.pc = "done"]
  <1>1. /\ request[r] \in RequestState /\ tx[r] \in Transaction
        /\ Writes(r) /\ Tells(r) /\ NoWrites \in Transaction
        /\ NoWrites.messages = {} /\ NoWrites.outcome = "none"
    BY RequestFacts
  <1>2. /\ request[r].pc = "committing"
        /\ request' = [request EXCEPT ![r] = g]
        /\ outcome' = [outcome EXCEPT ![r] = tx[r].outcome]
        /\ tx' = [tx EXCEPT ![r] = NoWrites] /\ held' = [held EXCEPT ![r] = {}]
        /\ UNCHANGED <<exists, loop>>
    BY DEF Commit, At
  <1>3. Is(g, "done", request[r].stream, c, request[r].told, request[r].turn,
           request[r].dropped)
    BY <1>1, MovesTo DEF Place
  <1> HIDE DEF g
  <1>4. /\ g \in RequestState /\ g.pc = "done" /\ g.stream = request[r].stream
        /\ g.conversation = c /\ g.told = request[r].told
        /\ g.turn = request[r].turn /\ g.dropped = request[r].dropped
    BY <1>3 DEF Is
  <1>5. /\ request'[r] = g /\ tx'[r] = NoWrites /\ held'[r] = {}
        /\ outcome'[r] = tx[r].outcome
        /\ \A s \in Request \ {r} :
               /\ request'[s] = request[s] /\ tx'[s] = tx[s] /\ held'[s] = held[s]
               /\ outcome'[s] = outcome[s]
    BY <1>2 DEF QuestionsInv, TypeOK
  <1>6. messages' = [k \in Conversation |->
            IF k = c THEN messages[c] \cup tx[r].messages ELSE messages[k]]
    BY DEF Commit, Visible
  <1>7. /\ tx[r].messages # {} => c \in held[r] \cap Conversation
        /\ \A m \in tx[r].messages : m.run = r /\ m \in Message
    BY <1>1 DEF Writes, OwnTurns, Transaction
  <1>8. TypeOK'
    <2>1. messages' \in [Conversation -> SUBSET Message]
      BY <1>6, <1>7 DEF QuestionsInv, TypeOK
    <2>2. outcome' \in [Request -> Outcome]
      BY <1>1, <1>2 DEF QuestionsInv, TypeOK, Transaction
    <2>3. request' \in [Request -> RequestState] /\ tx' \in [Request -> Transaction]
          /\ held' \in [Request -> SUBSET Lockable]
      BY <1>1, <1>2, <1>4 DEF QuestionsInv, TypeOK, Transaction
    <2>4. \A p, q \in Request : p = q \/ held'[p] \cap held'[q] = {}
      BY <1>5 DEF QuestionsInv, TypeOK
    <2>5. exists' \subseteq Conversation /\ loop' \in Request \cup {NoRequest}
      BY <1>2 DEF QuestionsInv, TypeOK
    <2> QED
      BY <2>1, <2>2, <2>3, <2>4, <2>5 DEF TypeOK, Transaction
  <1>9. AllNumbered'
    <2> SUFFICES ASSUME NEW k \in Conversation PROVE Numbered(messages'[k])
      BY DEF AllNumbered
    <2>1. CASE k = c
      <3>1. messages'[k] = Visible(r)
        BY <1>6, <2>1 DEF Visible
      <3> QED
        BY <2>1, <3>1, VisibleNumbered
    <2>2. CASE k # c
      BY <1>6, <2>2 DEF QuestionsInv, AllNumbered
    <2> QED
      BY <2>1, <2>2
  <1>10. \A k \in Conversation : \A m \in messages[k] :
             m.run \in Request /\ m.run # r /\ request[m.run].pc = "done"
    BY <1>2 DEF QuestionsInv, OnlyCommitted, TypeOK, Message
  <1>11. \A k \in Conversation : \A m \in messages'[k] :
             m \in messages[k] \/ (k = c /\ m \in tx[r].messages)
    BY <1>6
  <1>12. OnlyCommitted'
    <2> SUFFICES ASSUME NEW k \in Conversation, NEW m \in messages'[k]
                 PROVE  request'[m.run].pc = "done"
      BY DEF OnlyCommitted
    <2>1. CASE m \in messages[k]
      BY <1>5, <1>10, <2>1
    <2>2. CASE m \in tx[r].messages
      BY <1>4, <1>5, <1>7, <2>2
    <2> QED
      BY <1>11, <2>1, <2>2
  <1>13. ASSUME NEW s \in Request PROVE Writes(s)' /\ Tells(s)'
    <2>1. CASE s = r
      <3>1. OwnTurns(r)' /\ AnswersFollow(r)'
        BY <1>1, <1>5 DEF OwnTurns, AnswersFollow
      <3>2. WrittenSoFar(r)'
        BY <1>4, <1>5 DEF WrittenSoFar, Middle
      <3>3. Tells(r)'
        BY <1>4, <1>5 DEF Tells, Early, Middle, Over, Ending
      <3> QED
        BY <2>1, <3>1, <3>2, <3>3 DEF Writes
    <2>2. CASE s # r
      <3> DEFINE k == request[s].conversation
      <3>1. tx[s].messages # {} => messages'[k] = messages[k]
        <4> SUFFICES ASSUME tx[s].messages # {} PROVE messages'[k] = messages[k]
          OBVIOUS
        <4>1. k \in held[s] /\ k \in Conversation
          BY RequestFacts DEF Writes, OwnTurns
        <4>2. k = c => tx[r].messages = {}
          BY <1>7, <2>2, <4>1 DEF QuestionsInv, TypeOK
        <4> QED
          BY <1>6, <4>1, <4>2
      <3>2. exists' \subseteq exists
        BY <1>2
      <3> QED
        BY <1>5, <2>2, <3>1, <3>2, OthersKept
    <2> QED
      BY <2>1, <2>2
  <1>14. \A k \in Conversation : messages[k] \subseteq messages'[k]
    BY <1>6
  <1>15. TurnsInOrder'
    <2>1. ASSUME NEW s \in Request, InConversation(s)', ~request'[s].dropped,
                 NEW a \in Said(s, "ASSISTANT")'
          PROVE  \E q \in Said(s, "USER")' : a.number = q.number + 1
      <3> DEFINE k == request'[s].conversation
      <3>1. a \in messages'[k] /\ a.run = s /\ a.role = "ASSISTANT"
        BY <2>1 DEF Said
      <3>2. k \in Conversation
        BY <2>1, <1>8, StateFields DEF TypeOK, InConversation
      <3>3. CASE s = r
        <4>1. k = c /\ ~request[r].dropped
          BY <1>4, <1>5, <2>1, <3>3
        <4>2. a \in tx[r].messages
          BY <1>10, <1>11, <3>1, <3>2, <3>3
        <4>3. PICK q \in tx[r].messages : q.role = "USER" /\ a.number = q.number + 1
          BY <1>1, <3>1, <4>1, <4>2 DEF Writes, AnswersFollow
        <4>4. q \in messages'[k] /\ q.run = r
          BY <1>6, <1>7, <3>2, <4>1, <4>3
        <4>5. q \in Said(s, "USER")'
          BY <3>3, <4>3, <4>4 DEF Said
        <4> QED
          BY <4>3, <4>5
      <3>4. CASE s # r
        <4>1. request'[s] = request[s]
          BY <1>5, <3>4
        <4>2. a \in messages[k]
          BY <1>7, <1>11, <3>1, <3>2, <3>4
        <4>3. a \in Said(s, "ASSISTANT") /\ InConversation(s) /\ ~request[s].dropped
          BY <2>1, <3>1, <4>1, <4>2 DEF Said, InConversation
        <4>4. PICK q \in Said(s, "USER") : a.number = q.number + 1
          BY <4>3 DEF QuestionsInv, TurnsInOrder
        <4>5. q \in Said(s, "USER")'
          BY <1>14, <3>2, <4>1, <4>4 DEF Said
        <4> QED
          BY <4>4, <4>5
      <3> QED
        BY <3>3, <3>4
    <2>2. \A k \in Conversation :
              {m.number : m \in messages'[k]} = 1..Cardinality(messages'[k])
      BY <1>9 DEF AllNumbered, Numbered
    <2> QED
      BY <1>8, <2>1, <2>2 DEF TurnsInOrder
  <1>16. QuestionKept'
    <2> SUFFICES ASSUME NEW s \in Request, At(s, "done")', request'[s].turn,
                        ~request'[s].dropped, ~Gone(s)'
                 PROVE  Said(s, "USER")' # {}
      BY DEF QuestionKept
    <2> DEFINE k == request'[s].conversation
    <2>1. k \in Conversation
      BY <1>2 DEF Gone, QuestionsInv, TypeOK
    <2>2. CASE s = r
      <3>1. PICK q \in tx[r].messages : q.role = "USER"
        BY <1>1, <1>2, <1>4, <1>5, <2>2 DEF Tells, Over
      <3>2. q \in messages'[k] /\ q.run = r
        BY <1>4, <1>5, <1>6, <1>7, <2>1, <2>2, <3>1
      <3> QED
        BY <2>2, <3>1, <3>2 DEF Said
    <2>3. CASE s # r
      <3>1. request'[s] = request[s] /\ exists' = exists
        BY <1>2, <1>5, <2>3
      <3>2. Said(s, "USER") # {}
        BY <3>1 DEF QuestionsInv, QuestionKept, At, Gone
      <3>3. Said(s, "USER") \subseteq Said(s, "USER")'
        BY <1>14, <2>1, <3>1 DEF Said
      <3> QED
        BY <3>2, <3>3
    <2> QED
      BY <2>2, <2>3
  <1>17. ToldWhatIsStored'
    <2> SUFFICES ASSUME NEW s \in Request, At(s, "done")'
                 PROVE  /\ request'[s].told \in {"answered", "refused"}
                               => outcome'[s] = request'[s].told
                        /\ request'[s].told = "error" /\ outcome'[s] # "none"
                               => request'[s].stream /\ Gone(s)'
      BY DEF ToldWhatIsStored
    <2>1. CASE s = r
      BY <1>1, <1>2, <1>4, <1>5, <2>1 DEF Tells, Ending, Gone
    <2>2. CASE s # r
      BY <1>2, <1>5, <2>2 DEF QuestionsInv, ToldWhatIsStored, At, Gone
    <2> QED
      BY <2>1, <2>2
  <1> QED
    BY <1>8, <1>9, <1>12, <1>13, <1>15, <1>16, <1>17 DEF QuestionsInv

LEMMA Deleting ==
    ASSUME QuestionsInv, NEW c \in Conversation, DeleteConversation(c)
    PROVE  QuestionsInv'
  <1>1. /\ exists' = exists \ {c} /\ \A r \in Request : c \notin held[r]
        /\ outcome' = outcome /\ request' = request /\ tx' = tx /\ held' = held
        /\ loop' = loop
    BY DEF DeleteConversation
  <1>2. \A k \in Conversation : messages'[k] = IF k = c THEN {} ELSE messages[k]
    BY DEF DeleteConversation, QuestionsInv, TypeOK
  <1>3. messages' \in [Conversation -> SUBSET Message]
    BY DEF DeleteConversation, QuestionsInv, TypeOK
  <1>4. TypeOK'
    BY <1>1, <1>3 DEF QuestionsInv, TypeOK
  <1>5. AllNumbered'
    BY <1>2, NoneAreNumbered DEF QuestionsInv, AllNumbered
  <1>6. OnlyCommitted'
    BY <1>1, <1>2 DEF QuestionsInv, OnlyCommitted
  <1>7. ASSUME NEW s \in Request PROVE Writes(s)' /\ Tells(s)'
    <2>1. tx[s].messages # {} =>
              messages'[request[s].conversation] = messages[request[s].conversation]
      BY <1>1, <1>2, RequestFacts DEF Writes, OwnTurns
    <2> QED
      BY <1>1, <2>1, OthersKept
  <1>8. TurnsInOrder'
    <2>1. ASSUME NEW s \in Request, InConversation(s)', ~request'[s].dropped,
                 NEW a \in Said(s, "ASSISTANT")'
          PROVE  \E q \in Said(s, "USER")' : a.number = q.number + 1
      <3> DEFINE k == request[s].conversation
      <3>1. a \in messages'[k] /\ k \in Conversation
        BY <1>1, <1>4, <2>1, StateFields DEF Said, TypeOK, InConversation
      <3>2. k # c /\ messages'[k] = messages[k]
        BY <1>2, <3>1
      <3>3. /\ Said(s, "ASSISTANT")' = Said(s, "ASSISTANT")
            /\ Said(s, "USER")' = Said(s, "USER")
        BY <1>1, <3>2 DEF Said
      <3>4. InConversation(s) /\ ~request[s].dropped
        BY <1>1, <2>1 DEF InConversation
      <3> QED
        BY <2>1, <3>3, <3>4 DEF QuestionsInv, TurnsInOrder
    <2>2. \A k \in Conversation :
              {m.number : m \in messages'[k]} = 1..Cardinality(messages'[k])
      BY <1>5 DEF AllNumbered, Numbered
    <2> QED
      BY <1>4, <2>1, <2>2 DEF TurnsInOrder
  <1>9. QuestionKept'
    <2> SUFFICES ASSUME NEW s \in Request, At(s, "done")', request'[s].turn,
                        ~request'[s].dropped, ~Gone(s)'
                 PROVE  Said(s, "USER")' # {}
      BY DEF QuestionKept
    <2>1. request[s].conversation \in exists \ {c}
      BY <1>1 DEF Gone
    <2>2. Said(s, "USER")' = Said(s, "USER")
      BY <1>1, <1>2, <2>1 DEF Said, QuestionsInv, TypeOK
    <2> QED
      BY <1>1, <2>1, <2>2 DEF QuestionsInv, QuestionKept, At, Gone
  <1>10. ToldWhatIsStored'
    BY <1>1 DEF QuestionsInv, ToldWhatIsStored, At, Gone
  <1> QED
    BY <1>4, <1>5, <1>6, <1>7, <1>8, <1>9, <1>10 DEF QuestionsInv

LEMMA InitialQuestions == Init => QuestionsInv
  <1> SUFFICES ASSUME Init PROVE QuestionsInv
    OBVIOUS
  <1>1. \A r \in Request : \E q \in Question : request[r] = Idle(q)
    BY DEF Init
  <1>2. \A r \in Request :
            /\ request[r] \in RequestState /\ request[r].pc = "idle"
            /\ ~request[r].dropped /\ ~request[r].turn
            /\ request[r].conversation = NoConversation
    <2> SUFFICES ASSUME NEW r \in Request
                 PROVE  /\ request[r] \in RequestState /\ request[r].pc = "idle"
                        /\ ~request[r].dropped /\ ~request[r].turn
                        /\ request[r].conversation = NoConversation
      OBVIOUS
    <2>1. PICK q \in Question : request[r] = Idle(q)
      BY <1>1
    <2> QED
      BY <2>1 DEF Idle, RequestState, Told
  <1>3. request \in [Request -> RequestState]
    BY <1>2 DEF Init
  <1>4. /\ tx \in [Request -> Transaction] /\ NoWrites.messages = {}
        /\ NoWrites.outcome = "none" /\ \A r \in Request : tx[r] = NoWrites
    BY DEF Init, Transaction, NoWrites, Outcome
  <1>5. TypeOK
    BY <1>3, <1>4 DEF Init, TypeOK, Transaction, Outcome
  <1>6. AllNumbered /\ OnlyCommitted
    BY NoneAreNumbered DEF Init, AllNumbered, OnlyCommitted
  <1>7. \A r \in Request : Writes(r)
    BY <1>2, <1>4 DEF Writes, OwnTurns, WrittenSoFar, AnswersFollow, Middle
  <1>8. \A r \in Request : Tells(r)
    BY <1>2, <1>4 DEF Tells, Middle, Over, Ending
  <1>9. TurnsInOrder
    BY <1>2, <1>5, <1>6 DEF TurnsInOrder, AllNumbered, Numbered, InConversation
  <1>10. QuestionKept /\ ToldWhatIsStored
    BY <1>2 DEF QuestionKept, ToldWhatIsStored, At
  <1> QED
    BY <1>5, <1>6, <1>7, <1>8, <1>9, <1>10 DEF QuestionsInv

LEMMA QuestionsMove ==
    ASSUME QuestionsInv, [Next]_vars
    PROVE  QuestionsInv'
  <1>1. ASSUME NEW r \in Request, Commit(r) PROVE QuestionsInv'
    BY <1>1, Committing
  <1>2. ASSUME NEW r \in Request,
               \/ \E stream \in BOOLEAN, c \in Conversation \cup {NoConversation} :
                      Start(r, stream, c)
               \/ Progress(r) /\ ~Commit(r)
               \/ Fails(r)
        PROVE  QuestionsInv'
    <2>1. Local(r)
      BY <1>2, LocalSteps
    <2> QED
      BY <2>1, LocalKeeps
  <1>3. ASSUME NEW c \in Conversation, DeleteConversation(c) PROVE QuestionsInv'
    BY <1>3, Deleting
  <1>4. ASSUME UNCHANGED vars PROVE QuestionsInv'
    <2>1. /\ exists' = exists /\ messages' = messages /\ outcome' = outcome
          /\ request' = request /\ tx' = tx /\ held' = held /\ loop' = loop
      BY <1>4 DEF vars
    <2>2. TypeOK' /\ AllNumbered' /\ OnlyCommitted'
      BY <2>1 DEF QuestionsInv, TypeOK, AllNumbered, OnlyCommitted
    <2>3. ASSUME NEW r \in Request PROVE Writes(r)' /\ Tells(r)'
      BY <2>1, OthersKept
    <2>4. ASSUME NEW r \in Request, NEW role
          PROVE  /\ Said(r, role)' = Said(r, role) /\ (Gone(r)' <=> Gone(r))
                 /\ (InConversation(r)' <=> InConversation(r))
                 /\ (At(r, "done")' <=> At(r, "done"))
      BY <2>1 DEF Said, Gone, InConversation, At
    <2>5. TurnsInOrder'
      BY <2>1, <2>2, <2>4 DEF QuestionsInv, TurnsInOrder
    <2>6. QuestionKept' /\ ToldWhatIsStored'
      BY <2>1, <2>4 DEF QuestionsInv, QuestionKept, ToldWhatIsStored
    <2> QED
      BY <2>2, <2>3, <2>5, <2>6 DEF QuestionsInv
  <1> QED
    BY <1>1, <1>2, <1>3, <1>4 DEF Next, Progress

-----------------------------------------------------------------------------
(* The inductive invariant holds: turns are written under the lock of their*)
(* conversation, at the end of what it has, and committed as they are.     *)
THEOREM QuestionsInvariant == Spec => []QuestionsInv
  BY InitialQuestions, QuestionsMove, PTL DEF Spec

(* However the turns of streams and requests interleave, fail and are      *)
(* deleted, messages are numbered without gaps and an answer comes right   *)
(* after its question.                                                     *)
THEOREM TurnsStayInOrder == Spec => []TurnsInOrder
  <1>1. QuestionsInv => TurnsInOrder
    BY DEF QuestionsInv
  <1> QED
    BY <1>1, QuestionsInvariant, PTL

(* A question whose turn was written is in its conversation at the end.    *)
THEOREM QuestionsAreKept == Spec => []QuestionKept
  <1>1. QuestionsInv => QuestionKept
    BY DEF QuestionsInv
  <1> QED
    BY <1>1, QuestionsInvariant, PTL

(* The client is told the outcome that is stored.                          *)
THEOREM StoredIsTold == Spec => []ToldWhatIsStored
  <1>1. QuestionsInv => ToldWhatIsStored
    BY DEF QuestionsInv
  <1> QED
    BY <1>1, QuestionsInvariant, PTL

=============================================================================
