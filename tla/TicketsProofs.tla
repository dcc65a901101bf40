----------------------------- MODULE TicketsProofs -----------------------------
(***************************************************************************)
(* Proofs about the tickets, for every set of requests, runs, keys,        *)
(* tickets and answers: however the refusals, the workflow and the review  *)
(* interleave, what a transaction has read under its locks is still so     *)
(* when it writes.                                                         *)
(***************************************************************************)
EXTENDS Tickets, FiniteSetTheorems, TLAPS

USE NoTicketIsNone, MovesAssumption

-----------------------------------------------------------------------------
(* The parts of the inductive invariant.                                   *)

OnTicket == Operation \cup {"submit"}

(* The locks a transaction has come to hold.                               *)
HoldsLocks(r) ==
    LET frame == request[r]
    IN  /\ frame.pc \in {"deduplicate", "lookup", "record"} => frame.run \in held[r]
        /\ frame.pc \in {"lookup", "record"} => frame.key \in held[r]
        /\ frame.pc = "record" => frame.ticket \in held[r] \cup {NoTicket}
        /\ frame.pc \in OnTicket => frame.ticket \in held[r]
        /\ frame.pc = "publish" => frame.candidate \in held[r]

(* What it has read is still so.                                           *)
ReadsTicket(r) ==
    LET frame == request[r]
    IN  frame.pc \in OnTicket =>
            /\ Exists(frame.ticket)
            /\ ticket[frame.ticket].status = frame.status

MayMove(r) ==
    request[r].pc \in Operation =>
        target[request[r].pc] \in allowed_transitions[request[r].status]

FoundTicket(r) ==
    LET frame == request[r]
    IN  frame.pc = "record" /\ frame.ticket # NoTicket =>
            Exists(frame.ticket) /\ ticket[frame.ticket].key = frame.key

FoundNone(r) ==
    LET frame == request[r]
    IN  frame.pc = "record" /\ frame.ticket = NoTicket =>
            \A u \in Ticket :
                Exists(u) /\ ticket[u].key = frame.key => ~ticket[u].fresh

NothingPending(r) ==
    request[r].pc = "submit" =>
        \A c \in Candidate :
            ~(Pending(c) /\ candidate[c].ticket = request[r].ticket)

StillUnderReview(r) == request[r].pc = "publish" => Pending(request[r].candidate)

Refused == {n \in Run : occurrence[n] # NoTicket}

RunsOf(t) == {n \in Run : occurrence[n] = t}

(* A ticket counts its runs, of which there are finitely many.             *)
Counts ==
    /\ IsFiniteSet(Refused)
    /\ \A n \in Run : occurrence[n] # NoTicket => Exists(occurrence[n])
    /\ \A t \in Ticket : Exists(t) => ticket[t].count = Cardinality(RunsOf(t))
    /\ \A n \in Run : decision[n] = "refusal" <=> occurrence[n] # NoTicket
    /\ \A t \in Ticket : Exists(t) <=> Created(t) \in outbox

Recorded == \A t \in Ticket : Exists(t) \/ moves[t] = <<>>

(* Of the answers to a ticket one at most is pending.                      *)
OnePending ==
    \A c, d \in Candidate :
        Pending(c) /\ Pending(d) /\ candidate[c].ticket = candidate[d].ticket
            => c = d

PublishedOnce ==
    \A c \in Candidate :
        published[c] = IF candidate[c].status = "PUBLISHED" THEN 1 ELSE 0

TransactionInv ==
    \A r \in Request :
        /\ HoldsLocks(r) /\ ReadsTicket(r) /\ MayMove(r) /\ FoundTicket(r)
        /\ FoundNone(r) /\ NothingPending(r) /\ StillUnderReview(r)

TicketInv ==
    /\ TypeOK /\ TransactionInv /\ Counts /\ Recorded /\ StatusIsOnRecord
    /\ WorkHasAnAssignee /\ OnePending /\ PublishedOnce

-----------------------------------------------------------------------------
(* The types of what a transaction remembers, by the point it is at.       *)
LEMMA FrameTypes ==
    ASSUME TypeOK, NEW r \in Request
    PROVE  /\ request[r].pc \in {"idle", "deduplicate", "lookup", "record",
                                 "embed", "publish"} \cup OnTicket
           /\ request[r].pc \in {"deduplicate", "lookup"} =>
                  request[r] \in [pc : {"deduplicate", "lookup"}, run : Run, key : Key]
           /\ request[r].pc \in {"deduplicate", "lookup", "record"} =>
                  request[r].run \in Run /\ request[r].key \in Key
           /\ request[r].pc = "record" => request[r].ticket \in Ticket \cup {NoTicket}
           /\ request[r].pc \in OnTicket =>
                  request[r].ticket \in Ticket /\ request[r].status \in TicketStatus
           /\ request[r].pc \in {"embed", "publish"} =>
                  /\ request[r] \in [pc : {"embed", "publish"}, candidate : Candidate]
                  /\ request[r].candidate \in Candidate
  <1>1. request[r] \in Frame
    BY DEF TypeOK
  <1> QED
    BY <1>1 DEF Frame, OnTicket, Operation

(* A ticket is absent or a row, and rows are told from the absent one.     *)
LEMMA TicketRows ==
    ASSUME TypeOK, NEW t \in Ticket
    PROVE  /\ Exists(t) => ticket[t] \in TicketRow
           /\ ticket[t].status = "ABSENT" <=> ~Exists(t)
  BY DEF TypeOK, Exists, Absent, TicketRow, TicketStatus

LEMMA CandidateRows ==
    ASSUME TypeOK, NEW c \in Candidate
    PROVE  /\ candidate[c] # Absent => candidate[c] \in CandidateRow
           /\ candidate[c].status = "ABSENT" <=> candidate[c] = Absent
  BY DEF TypeOK, Absent, CandidateRow, CandidateStatus

(* What the writes make of a row.                                          *)
LEMMA JoinedRow ==
    ASSUME NEW row \in TicketRow
    PROVE  /\ increment_ticket_occurrence(row) \in TicketRow
           /\ increment_ticket_occurrence(row).status = row.status
           /\ increment_ticket_occurrence(row).key = row.key
           /\ increment_ticket_occurrence(row).assigned = row.assigned
           /\ increment_ticket_occurrence(row).count = row.count + 1
  <1>1. row.count + 1 \in Nat
    BY DEF TicketRow
  <1>2. increment_ticket_occurrence(row) \in TicketRow
    BY <1>1 DEF TicketRow, increment_ticket_occurrence
  <1> QED
    BY <1>2 DEF TicketRow, increment_ticket_occurrence

LEMMA MovedRow ==
    ASSUME NEW row \in TicketRow, NEW s \in TicketStatus, NEW assigns \in BOOLEAN
    PROVE  LET moved == update_ticket_status(row, s, assigns)
           IN  /\ moved \in TicketRow
               /\ moved.status = s /\ moved.key = row.key
               /\ moved.count = row.count /\ moved.fresh = row.fresh
               /\ moved.assigned <=> row.assigned \/ assigns
  <1>1. (row.assigned \/ assigns) \in BOOLEAN
    BY DEF TicketRow
  <1>2. update_ticket_status(row, s, assigns) \in TicketRow
    BY <1>1 DEF TicketRow, update_ticket_status
  <1> QED
    BY <1>2 DEF TicketRow, update_ticket_status

LEMMA NewTicketRow ==
    ASSUME NEW k \in Key
    PROVE  /\ NewTicket(k) \in TicketRow /\ NewTicket(k) # Absent
           /\ NewTicket(k).status = "OPEN" /\ NewTicket(k).key = k
           /\ NewTicket(k).count = 1 /\ NewTicket(k).assigned = FALSE
  BY DEF NewTicket, TicketRow, TicketStatus, Absent

LEMMA Targets ==
    \A op \in Operation : target[op] \in TicketStatus
  BY DEF Operation, target, TicketStatus

-----------------------------------------------------------------------------
(* Locks.                                                                  *)

LEMMA LockKeeps ==
    ASSUME TypeOK, NEW r \in Request, NEW locks \in SUBSET Lockable,
           \A x \in locks : Free(x), Lock(r, locks)
    PROVE  /\ held' \in [Request -> SUBSET Lockable]
           /\ \A p, q \in Request : p = q \/ held'[p] \cap held'[q] = {}
           /\ held'[r] = held[r] \cup locks
           /\ \A q \in Request : q # r => held'[q] = held[q]
  <1>1. /\ held \in [Request -> SUBSET Lockable]
        /\ held' = [held EXCEPT ![r] = held[r] \cup locks]
    BY DEF TypeOK, Lock
  <1>2. held' \in [Request -> SUBSET Lockable]
    BY <1>1
  <1>3. /\ held'[r] = held[r] \cup locks
        /\ \A q \in Request : q # r => held'[q] = held[q]
    BY <1>1
  <1>4. ASSUME NEW p \in Request, NEW q \in Request, p # q,
               NEW x \in held'[p], x \in held'[q]
        PROVE  FALSE
    BY <1>3, <1>4 DEF TypeOK, Free
  <1> QED
    BY <1>2, <1>3, <1>4

LEMMA EndKeeps ==
    ASSUME TypeOK, NEW r \in Request, End(r)
    PROVE  /\ held' \in [Request -> SUBSET Lockable]
           /\ \A p, q \in Request : p = q \/ held'[p] \cap held'[q] = {}
           /\ \A q \in Request : q # r => held'[q] = held[q]
           /\ request' \in [Request -> Frame] /\ request'[r] = Idle
           /\ \A q \in Request : q # r => request'[q] = request[q]
  <1>1. Idle \in Frame
    BY DEF Idle, Frame
  <1>2. /\ held \in [Request -> SUBSET Lockable]
        /\ held' = [held EXCEPT ![r] = {}]
        /\ request \in [Request -> Frame]
        /\ request' = [request EXCEPT ![r] = Idle]
    BY DEF TypeOK, End, Goto
  <1>3. /\ held' \in [Request -> SUBSET Lockable] /\ held'[r] = {}
        /\ \A q \in Request : q # r => held'[q] = held[q]
    BY <1>2
  <1>4. \A p, q \in Request : p = q \/ held'[p] \cap held'[q] = {}
    BY <1>3 DEF TypeOK
  <1> QED
    BY <1>1, <1>2, <1>3, <1>4

(* Two transactions never hold the same lock.                              *)
LEMMA OneHolder ==
    ASSUME TypeOK, NEW q \in Request, NEW r \in Request, NEW x \in held[q],
           x \in held[r]
    PROVE  q = r
  BY DEF TypeOK

-----------------------------------------------------------------------------
(* What a step may do to a ticket: it is left alone, the window passes,    *)
(* a refusal opens or joins it, or a transition moves it.                  *)
SameTicket(t) == ticket'[t] = ticket[t] /\ moves'[t] = moves[t]

Aged(t) ==
    /\ Exists(t) /\ Exists(t)' /\ moves'[t] = moves[t]
    /\ ticket'[t].status = ticket[t].status /\ ticket'[t].key = ticket[t].key
    /\ ticket'[t].count = ticket[t].count
    /\ ticket'[t].assigned = ticket[t].assigned
    /\ ticket'[t].fresh => ticket[t].fresh

Opened(r, t) ==
    /\ RecordRefusal(r) /\ request'[r] = Idle
    /\ occurrence'[request[r].run] = t /\ request[r].ticket = NoTicket
    /\ ~Exists(t) /\ Exists(t)' /\ moves'[t] = moves[t]
    /\ ticket'[t] = NewTicket(request[r].key)

Joined(r, t) ==
    /\ RecordRefusal(r) /\ request'[r] = Idle
    /\ occurrence'[request[r].run] = t /\ request[r].ticket = t
    /\ Exists(t) /\ Exists(t)' /\ moves'[t] = moves[t]
    /\ ticket'[t].status = ticket[t].status /\ ticket'[t].key = ticket[t].key
    /\ ticket'[t].count = ticket[t].count + 1
    /\ ticket'[t].assigned = ticket[t].assigned

Moved(r, t) ==
    /\ request[r].pc \in Operation /\ request[r].ticket = t
    /\ request'[r] = Idle /\ Exists(t) /\ Exists(t)'
    /\ moves'[t] = Append(moves[t], [from |-> request[r].status,
                                     to |-> target[request[r].pc]])
    /\ ticket'[t].status = target[request[r].pc]
    /\ ticket'[t].key = ticket[t].key /\ ticket'[t].count = ticket[t].count
    /\ ticket'[t].fresh = ticket[t].fresh
    /\ ticket'[t].assigned <=> ticket[t].assigned \/ request[r].pc = "assign"

TicketMoves(t) ==
    \/ SameTicket(t) \/ Aged(t)
    \/ \E r \in Request : Opened(r, t) \/ Joined(r, t) \/ Moved(r, t)

TicketTypes ==
    /\ ticket \in [Ticket -> TicketRow \cup {Absent}]
    /\ moves \in [Ticket -> Seq(Transition)]

TicketsMove == TicketTypes' /\ \A t \in Ticket : TicketMoves(t)

LEMMA RefusalMoves ==
    ASSUME TypeOK, TransactionInv, NEW r \in Request, RecordRefusal(r)
    PROVE  /\ TicketsMove
           /\ \E t \in Ticket :
                  /\ occurrence' = [occurrence EXCEPT ![request[r].run] = t]
                  /\ \/ Opened(r, t) /\ outbox' = outbox \cup {Created(t)}
                     \/ Joined(r, t) /\ outbox' = outbox
                  /\ \A u \in Ticket : u # t => SameTicket(u)
  <1> DEFINE n == request[r].run
  <1>1. /\ request[r].pc = "record"
        /\ n \in Run /\ request[r].key \in Key
        /\ request[r].ticket \in Ticket \cup {NoTicket}
        /\ moves' = moves /\ request'[r] = Idle
    BY FrameTypes, EndKeeps DEF RecordRefusal, At
  <1>2. PICK t \in Ticket :
               /\ \/ request[r].ticket = NoTicket /\ add_ticket(t, request[r].key)
                  \/ /\ request[r].ticket = t
                     /\ ticket' = [ticket EXCEPT
                                       ![t] = increment_ticket_occurrence(@)]
                     /\ UNCHANGED outbox
               /\ occurrence' = [occurrence EXCEPT ![n] = t]
    BY DEF RecordRefusal
  <1>3. /\ occurrence'[n] = t /\ ticket \in [Ticket -> TicketRow \cup {Absent}]
        /\ moves \in [Ticket -> Seq(Transition)]
    BY <1>1, <1>2 DEF TypeOK
  <1>4. CASE request[r].ticket = NoTicket
    <2>1. /\ ~Exists(t) /\ ticket' = [ticket EXCEPT ![t] = NewTicket(request[r].key)]
      BY <1>2, <1>4 DEF add_ticket
    <2>2. NewTicket(request[r].key) \in TicketRow /\ NewTicket(request[r].key) # Absent
      BY <1>1, NewTicketRow
    <2>3. Opened(r, t)
      BY <1>1, <1>3, <1>4, <2>1, <2>2 DEF Opened, Exists
    <2>4. \A u \in Ticket : u # t => SameTicket(u)
      BY <1>1, <1>3, <2>1 DEF SameTicket
    <2> QED
      <3>1. outbox' = outbox \cup {Created(t)}
        BY <1>2, <1>4 DEF add_ticket
      <3>2. TicketTypes'
        BY <1>1, <1>3, <2>1, <2>2 DEF TicketTypes
      <3> QED
        BY <1>2, <2>3, <2>4, <3>1, <3>2 DEF TicketsMove, TicketMoves
  <1>5. CASE request[r].ticket # NoTicket
    <2>1. /\ request[r].ticket = t
          /\ ticket' = [ticket EXCEPT ![t] = increment_ticket_occurrence(ticket[t])]
      BY <1>2, <1>5
    <2>2. Exists(t) /\ ticket[t] \in TicketRow
      BY <1>1, <1>5, <2>1, TicketRows DEF TransactionInv, FoundTicket
    <2>3. increment_ticket_occurrence(ticket[t]) \in TicketRow
      BY <2>2, JoinedRow
    <2>4. Joined(r, t)
      <3>1. ticket'[t] = increment_ticket_occurrence(ticket[t])
        BY <1>3, <2>1
      <3>2. ticket'[t] # Absent
        BY <2>3, <3>1 DEF TicketRow, TicketStatus, Absent
      <3> QED
        BY <1>1, <1>3, <2>1, <2>2, <3>1, <3>2, JoinedRow
           DEF Joined, Exists
    <2>5. \A u \in Ticket : u # t => SameTicket(u)
      BY <1>1, <1>3, <2>1 DEF SameTicket
    <2> QED
      <3>1. outbox' = outbox
        BY <1>2, <1>5
      <3>2. TicketTypes'
        BY <1>1, <1>3, <2>1, <2>3 DEF TicketTypes
      <3> QED
        BY <1>2, <2>4, <2>5, <3>1, <3>2 DEF TicketsMove, TicketMoves
  <1> QED
    BY <1>4, <1>5

LEMMA TransitionMoves ==
    ASSUME TypeOK, TransactionInv, NEW r \in Request, NEW op \in Operation,
           Move(r, op), NEW t, t = request[r].ticket
    PROVE  TicketsMove
  <1> DEFINE step == [from |-> request[r].status, to |-> target[op]]
             row == update_ticket_status(ticket[t], target[op], op = "assign")
  <1>1. /\ request[r].pc = op /\ t \in Ticket /\ request[r].status \in TicketStatus
        /\ target[op] \in TicketStatus
        /\ Exists(t) /\ ticket[t] \in TicketRow /\ request'[r] = Idle
    BY FrameTypes, Targets, TicketRows, EndKeeps
       DEF Move, At, TransactionInv, ReadsTicket, OnTicket
  <1>2. /\ moves' = [moves EXCEPT ![t] = Append(moves[t], step)]
        /\ ticket' = [ticket EXCEPT ![t] = row]
    BY DEF Move, _record_transition
  <1>3. row \in TicketRow /\ row # Absent
    <2>1. row \in TicketRow
      BY <1>1, MovedRow
    <2> QED
      BY <2>1 DEF TicketRow, TicketStatus, Absent
  <1>4. step \in Transition
    BY <1>1 DEF Transition
  <1>5. /\ ticket \in [Ticket -> TicketRow \cup {Absent}]
        /\ moves \in [Ticket -> Seq(Transition)]
    BY DEF TypeOK
  <1>6. Append(moves[t], step) \in Seq(Transition)
    BY <1>1, <1>4, <1>5
  <1>7. TicketTypes'
    <2> HIDE DEF row, step
    <2> QED
      BY <1>1, <1>2, <1>3, <1>5, <1>6 DEF TicketTypes
  <1>8. Moved(r, t)
    <2>1. /\ ticket'[t] = row /\ moves'[t] = Append(moves[t], step)
      BY <1>1, <1>2, <1>5
    <2>2. /\ row.status = target[op] /\ row.key = ticket[t].key
          /\ row.count = ticket[t].count /\ row.fresh = ticket[t].fresh
          /\ (row.assigned <=> ticket[t].assigned \/ op = "assign")
      <3>1. (op = "assign") \in BOOLEAN
        OBVIOUS
      <3> QED
        BY <1>1, <3>1, MovedRow
    <2>3. Exists(t)'
      BY <1>3, <2>1 DEF Exists
    <2> QED
      BY <1>1, <2>1, <2>2, <2>3 DEF Moved
  <1>9. \A u \in Ticket : u # t => SameTicket(u)
    BY <1>1, <1>2, <1>5 DEF SameTicket
  <1> QED
    BY <1>7, <1>8, <1>9 DEF TicketsMove, TicketMoves

LEMMA WindowMoves ==
    ASSUME TypeOK, NEW t \in Ticket, WindowPasses(t)
    PROVE  TicketsMove
  <1>1. /\ ticket \in [Ticket -> TicketRow \cup {Absent}] /\ moves' = moves
        /\ moves \in [Ticket -> Seq(Transition)]
        /\ Exists(t) /\ ticket[t] \in TicketRow
    BY TicketRows DEF TypeOK, WindowPasses
  <1>2. PICK row \in {[ticket[t] EXCEPT !.fresh = FALSE],
                      [ticket[t] EXCEPT !.touched = FALSE]} :
            ticket' = [ticket EXCEPT ![t] = row]
    BY DEF WindowPasses
  <1>3. /\ row \in TicketRow
        /\ row.status = ticket[t].status /\ row.key = ticket[t].key
        /\ row.count = ticket[t].count /\ row.assigned = ticket[t].assigned
        /\ row.fresh => ticket[t].fresh
    BY <1>1 DEF TicketRow
  <1>4. row # Absent
    BY <1>3 DEF TicketRow, TicketStatus, Absent
  <1>5. ticket'[t] = row
    BY <1>1, <1>2
  <1>6. Aged(t)
    BY <1>1, <1>3, <1>4, <1>5 DEF Aged, Exists
  <1>7. \A u \in Ticket : u # t => SameTicket(u)
    BY <1>1, <1>2 DEF SameTicket
  <1>8. TicketTypes'
    BY <1>1, <1>2, <1>3 DEF TicketTypes
  <1> QED
    BY <1>6, <1>7, <1>8 DEF TicketsMove, TicketMoves

(* The rest of the steps leave the tickets alone.                          *)
LEMMA EveryTicketMoves ==
    ASSUME TypeOK, TransactionInv, [Next]_vars
    PROVE  TicketsMove
  <1>1. ASSUME UNCHANGED <<ticket, moves>> PROVE TicketsMove
    BY <1>1 DEF TypeOK, TicketsMove, TicketMoves, TicketTypes, SameTicket
  <1>2. ASSUME NEW r \in Request, RefusalStep(r) PROVE TicketsMove
    BY <1>1, <1>2, RefusalMoves DEF RefusalStep, Refuse, Deduplicate, Lookup
  <1>3. ASSUME NEW r \in Request, WorkflowStep(r) PROVE TicketsMove
    <2>1. ASSUME NEW op \in Operation, Move(r, op) PROVE TicketsMove
      BY <2>1, TransitionMoves
    <2> QED
      BY <1>1, <1>3, <2>1 DEF WorkflowStep, assign_ticket, start_ticket,
         resolve_ticket, close_ticket, reopen_ticket, LockToMove, LockTicket,
         assign, start, resolve, close, reopen, Operation
  <1>4. ASSUME NEW r \in Request, ReviewStep(r) PROVE TicketsMove
    BY <1>1, <1>4 DEF ReviewStep, submit_ticket_answer, LockTicket, submit_answer,
       approve_candidate, approve, publish_candidate
  <1>5. ASSUME NEW r \in Request, RollBack(r) PROVE TicketsMove
    BY <1>1, <1>5 DEF RollBack
  <1>6. ASSUME NEW n \in Run, RecordSufficient(n) PROVE TicketsMove
    BY <1>1, <1>6 DEF RecordSufficient
  <1>7. ASSUME NEW t \in Ticket, reply_ticket(t) PROVE TicketsMove
    BY <1>1, <1>7 DEF reply_ticket
  <1>8. ASSUME NEW t \in Ticket, WindowPasses(t) PROVE TicketsMove
    BY <1>8, WindowMoves
  <1>9. ASSUME NEW c \in Candidate, reject_candidate(c) PROVE TicketsMove
    BY <1>1, <1>9 DEF reject_candidate
  <1>10. CASE UNCHANGED vars
    BY <1>1, <1>10 DEF vars
  <1> QED
    BY <1>2, <1>3, <1>4, <1>5, <1>6, <1>7, <1>8, <1>9, <1>10 DEF Next

-----------------------------------------------------------------------------
(* What a step may do to an answer: submit, approve or reject it.          *)
SameAnswer(c) == candidate'[c] = candidate[c] /\ published'[c] = published[c]

Submitted(r, c) ==
    /\ request[r].pc = "submit" /\ request'[r] = Idle /\ candidate[c] = Absent
    /\ candidate'[c] = [status |-> "PENDING", ticket |-> request[r].ticket]
    /\ published'[c] = published[c]

Approved(r, c) ==
    /\ request[r].pc = "publish" /\ request'[r] = Idle
    /\ request[r].candidate = c /\ Pending(c)
    /\ candidate'[c].status = "PUBLISHED"
    /\ candidate'[c].ticket = candidate[c].ticket
    /\ published'[c] = published[c] + 1

Rejected(c) ==
    /\ Pending(c) /\ Free(c)
    /\ candidate'[c].status = "REJECTED"
    /\ candidate'[c].ticket = candidate[c].ticket
    /\ published'[c] = published[c]

AnswerMoves(c) ==
    \/ SameAnswer(c) \/ Rejected(c)
    \/ \E r \in Request : Submitted(r, c) \/ Approved(r, c)

AnswerTypes ==
    /\ candidate \in [Candidate -> CandidateRow \cup {Absent}]
    /\ published \in [Candidate -> Nat]

(* One answer at a time.                                                   *)
AnswersMove ==
    /\ AnswerTypes' /\ \A c \in Candidate : AnswerMoves(c)
    /\ \A c, d \in Candidate : c = d \/ SameAnswer(c) \/ SameAnswer(d)

LEMMA SubmitMoves ==
    ASSUME TypeOK, NEW r \in Request, submit_answer(r)
    PROVE  AnswersMove
  <1>1. /\ request[r].pc = "submit" /\ request[r].ticket \in Ticket
        /\ request'[r] = Idle
    BY FrameTypes, EndKeeps DEF submit_answer, At, OnTicket
  <1>2. PICK c \in Candidate :
            /\ candidate[c] = Absent
            /\ candidate' = [candidate EXCEPT
                                 ![c] = [status |-> "PENDING",
                                         ticket |-> request[r].ticket]]
    BY DEF submit_answer, add_candidate
  <1>3. [status |-> "PENDING", ticket |-> request[r].ticket] \in CandidateRow
    BY <1>1 DEF CandidateRow, CandidateStatus
  <1>4. /\ candidate \in [Candidate -> CandidateRow \cup {Absent}]
        /\ published \in [Candidate -> Nat] /\ published' = published
    BY DEF TypeOK, submit_answer
  <1>5. AnswerTypes' /\ Submitted(r, c)
    BY <1>1, <1>2, <1>3, <1>4 DEF AnswerTypes, Submitted
  <1>6. \A d \in Candidate : d # c => SameAnswer(d)
    BY <1>2, <1>4 DEF SameAnswer
  <1> QED
    BY <1>5, <1>6 DEF AnswersMove, AnswerMoves

LEMMA ReviewedRow ==
    ASSUME TypeOK, NEW c \in Candidate, Pending(c), NEW s \in CandidateStatus,
           candidate' = [candidate EXCEPT ![c].status = s]
    PROVE  /\ candidate' \in [Candidate -> CandidateRow \cup {Absent}]
           /\ candidate'[c].status = s
           /\ candidate'[c].ticket = candidate[c].ticket
           /\ \A d \in Candidate : d # c => candidate'[d] = candidate[d]
  <1>1. /\ candidate \in [Candidate -> CandidateRow \cup {Absent}]
        /\ candidate[c] \in CandidateRow
    BY CandidateRows DEF TypeOK, Pending, Absent
  <1>2. [candidate[c] EXCEPT !.status = s] \in CandidateRow
    BY <1>1 DEF CandidateRow
  <1>3. candidate' = [candidate EXCEPT ![c] = [candidate[c] EXCEPT !.status = s]]
    OBVIOUS
  <1>4. candidate'[c] = [candidate[c] EXCEPT !.status = s]
    BY <1>1, <1>3
  <1> QED
    BY <1>1, <1>2, <1>3, <1>4 DEF CandidateRow

LEMMA PublishMoves ==
    ASSUME TypeOK, TransactionInv, NEW r \in Request, publish_candidate(r)
    PROVE  AnswersMove
  <1>1. PICK c \in Candidate : /\ request[r].pc = "publish"
                               /\ request[r].candidate = c
                               /\ request'[r] = Idle
    BY FrameTypes, EndKeeps DEF publish_candidate, At
  <1>2. /\ published' = [published EXCEPT ![c] = published[c] + 1]
        /\ candidate' = [candidate EXCEPT ![c].status = "PUBLISHED"]
    BY <1>1 DEF publish_candidate, create_ticket_knowledge_source
  <1>3. Pending(c) /\ "PUBLISHED" \in CandidateStatus
    BY <1>1 DEF TransactionInv, StillUnderReview, CandidateStatus
  <1>4. /\ candidate' \in [Candidate -> CandidateRow \cup {Absent}]
        /\ candidate'[c].status = "PUBLISHED"
        /\ candidate'[c].ticket = candidate[c].ticket
        /\ \A d \in Candidate : d # c => candidate'[d] = candidate[d]
    BY <1>2, <1>3, ReviewedRow
  <1>5. /\ published' \in [Candidate -> Nat] /\ published'[c] = published[c] + 1
        /\ \A d \in Candidate : d # c => published'[d] = published[d]
    BY <1>2 DEF TypeOK
  <1>6. AnswerTypes' /\ Approved(r, c)
    BY <1>1, <1>3, <1>4, <1>5 DEF AnswerTypes, Approved
  <1> QED
    BY <1>4, <1>5, <1>6 DEF AnswersMove, AnswerMoves, SameAnswer

LEMMA RejectMoves ==
    ASSUME TypeOK, NEW c \in Candidate, reject_candidate(c)
    PROVE  AnswersMove
  <1>1. /\ candidate' = [candidate EXCEPT ![c].status = "REJECTED"]
        /\ Pending(c) /\ Free(c) /\ "REJECTED" \in CandidateStatus
        /\ published' = published /\ published \in [Candidate -> Nat]
    BY DEF reject_candidate, reject, CandidateStatus, TypeOK
  <1>2. /\ candidate' \in [Candidate -> CandidateRow \cup {Absent}]
        /\ candidate'[c].status = "REJECTED"
        /\ candidate'[c].ticket = candidate[c].ticket
        /\ \A d \in Candidate : d # c => candidate'[d] = candidate[d]
    BY <1>1, ReviewedRow
  <1> QED
    BY <1>1, <1>2 DEF AnswersMove, AnswerMoves, AnswerTypes, SameAnswer, Rejected

LEMMA EveryAnswerMoves ==
    ASSUME TypeOK, TransactionInv, [Next]_vars
    PROVE  AnswersMove
  <1>1. ASSUME UNCHANGED <<candidate, published>> PROVE AnswersMove
    BY <1>1 DEF TypeOK, AnswersMove, AnswerMoves, AnswerTypes, SameAnswer
  <1>2. ASSUME NEW r \in Request, RefusalStep(r) PROVE AnswersMove
    BY <1>1, <1>2 DEF RefusalStep, Refuse, Deduplicate, Lookup, RecordRefusal, answers
  <1>3. ASSUME NEW r \in Request, WorkflowStep(r) PROVE AnswersMove
    BY <1>1, <1>3 DEF WorkflowStep, assign_ticket, start_ticket, resolve_ticket,
       close_ticket, reopen_ticket, LockToMove, LockTicket, assign, start,
       resolve, close, reopen, Move, answers
  <1>4. ASSUME NEW r \in Request, ReviewStep(r) PROVE AnswersMove
    BY <1>1, <1>4, SubmitMoves, PublishMoves DEF ReviewStep,
       submit_ticket_answer, LockTicket, approve_candidate, approve, answers
  <1>5. ASSUME NEW r \in Request, RollBack(r) PROVE AnswersMove
    BY <1>1, <1>5 DEF RollBack, answers
  <1>6. ASSUME NEW n \in Run, RecordSufficient(n) PROVE AnswersMove
    BY <1>1, <1>6 DEF RecordSufficient, answers
  <1>7. ASSUME NEW t \in Ticket, reply_ticket(t) \/ WindowPasses(t)
        PROVE  AnswersMove
    BY <1>1, <1>7 DEF reply_ticket, WindowPasses, answers
  <1>8. ASSUME NEW c \in Candidate, reject_candidate(c) PROVE AnswersMove
    BY <1>8, RejectMoves
  <1>9. CASE UNCHANGED vars
    BY <1>1, <1>9 DEF vars
  <1> QED
    BY <1>2, <1>3, <1>4, <1>5, <1>6, <1>7, <1>8, <1>9 DEF Next

-----------------------------------------------------------------------------
(* What a step may do to a request: nothing, end its transaction, or take  *)
(* it a step further.                                                      *)
Quiet(q) == request'[q] = request[q] /\ held'[q] = held[q]

Ended(q) == request'[q] = Idle

Begun(q) ==
    \/ \E n \in Run, k \in Key : Refuse(q, n, k)
    \/ Deduplicate(q) \/ Lookup(q)
    \/ \E t \in Ticket, op \in Operation : LockToMove(q, t, op)
    \/ \E t \in Ticket : submit_ticket_answer(q, t)
    \/ \E c \in Candidate : approve_candidate(q, c)
    \/ approve(q)

RequestTypes ==
    /\ request \in [Request -> Frame]
    /\ held \in [Request -> SUBSET Lockable]
    /\ \A p, q \in Request : p = q \/ held[p] \cap held[q] = {}

RequestsMove ==
    RequestTypes' /\ \A q \in Request : Quiet(q) \/ Ended(q) \/ Begun(q)

LEMMA EndMoves ==
    ASSUME TypeOK, NEW r \in Request, End(r)
    PROVE  RequestsMove
  BY EndKeeps DEF RequestsMove, RequestTypes, Quiet, Ended

LEMMA GotoKeeps ==
    ASSUME TypeOK, NEW r \in Request, NEW frame \in Frame, Goto(r, frame)
    PROVE  /\ request' \in [Request -> Frame] /\ request'[r] = frame
           /\ \A q \in Request : q # r => request'[q] = request[q]
  BY DEF TypeOK, Goto

LEMMA BegunMoves ==
    ASSUME TypeOK, NEW r \in Request, Begun(r), NEW frame \in Frame,
           Goto(r, frame), NEW locks \in SUBSET Lockable,
           \A x \in locks : Free(x), Lock(r, locks)
    PROVE  RequestsMove
  <1>1. /\ request' \in [Request -> Frame]
        /\ \A q \in Request : q # r => request'[q] = request[q]
    BY GotoKeeps
  <1>2. /\ held' \in [Request -> SUBSET Lockable]
        /\ \A p, q \in Request : p = q \/ held'[p] \cap held'[q] = {}
        /\ \A q \in Request : q # r => held'[q] = held[q]
    BY LockKeeps
  <1> QED
    BY <1>1, <1>2 DEF RequestsMove, RequestTypes, Quiet

(* The frames the steps go on with.                                        *)
LEMMA NextFrames ==
    ASSUME TypeOK, NEW r \in Request
    PROVE  /\ \A n \in Run, k \in Key :
                  [pc |-> "deduplicate", run |-> n, key |-> k] \in Frame
           /\ At(r, "deduplicate") =>
                  /\ [request[r] EXCEPT !.pc = "lookup"] \in Frame
                  /\ [request[r] EXCEPT !.pc = "lookup"].run = request[r].run
                  /\ [request[r] EXCEPT !.pc = "lookup"].key = request[r].key
                  /\ [request[r] EXCEPT !.pc = "lookup"].pc = "lookup"
           /\ At(r, "embed") =>
                  /\ [request[r] EXCEPT !.pc = "publish"] \in Frame
                  /\ [request[r] EXCEPT !.pc = "publish"].pc = "publish"
                  /\ [request[r] EXCEPT !.pc = "publish"].candidate
                         = request[r].candidate
           /\ \A c \in Candidate : [pc |-> "embed", candidate |-> c] \in Frame
           /\ \A t \in Ticket, op \in OnTicket, s \in TicketStatus :
                  [pc |-> op, ticket |-> t, status |-> s] \in Frame
           /\ \A n \in Run, k \in Key, t \in Ticket \cup {NoTicket} :
                  [pc |-> "record", run |-> n, key |-> k, ticket |-> t] \in Frame
  <1>1. ASSUME At(r, "deduplicate")
        PROVE  request[r] \in [pc : {"deduplicate", "lookup"}, run : Run, key : Key]
    BY <1>1, FrameTypes DEF At
  <1>2. ASSUME At(r, "embed")
        PROVE  request[r] \in [pc : {"embed", "publish"}, candidate : Candidate]
    BY <1>2, FrameTypes DEF At
  <1>3. \A f \in [pc : {"deduplicate", "lookup"}, run : Run, key : Key] :
            LET g == [f EXCEPT !.pc = "lookup"]
            IN  g \in Frame /\ g.run = f.run /\ g.key = f.key /\ g.pc = "lookup"
    BY DEF Frame
  <1>4. \A f \in [pc : {"embed", "publish"}, candidate : Candidate] :
            LET g == [f EXCEPT !.pc = "publish"]
            IN  g \in Frame /\ g.candidate = f.candidate /\ g.pc = "publish"
    BY DEF Frame
  <1>5. /\ \A n \in Run, k \in Key :
               [pc |-> "deduplicate", run |-> n, key |-> k] \in Frame
        /\ \A c \in Candidate : [pc |-> "embed", candidate |-> c] \in Frame
    BY DEF Frame
  <1>6. /\ \A t \in Ticket, op \in OnTicket, s \in TicketStatus :
               [pc |-> op, ticket |-> t, status |-> s] \in Frame
        /\ \A n \in Run, k \in Key, t \in Ticket \cup {NoTicket} :
               [pc |-> "record", run |-> n, key |-> k, ticket |-> t] \in Frame
    BY DEF Frame, OnTicket
  <1> QED
    BY <1>1, <1>2, <1>3, <1>4, <1>5, <1>6

(* What a transaction goes on with, and the locks it then holds.           *)
LEMMA RefuseGoes ==
    ASSUME TypeOK, NEW r \in Request, NEW n \in Run, NEW k \in Key,
           Refuse(r, n, k)
    PROVE  /\ RequestsMove /\ n \in held'[r]
           /\ request'[r] = [pc |-> "deduplicate", run |-> n, key |-> k]
  <1> DEFINE frame == [pc |-> "deduplicate", run |-> n, key |-> k]
  <1>1. frame \in Frame /\ {n} \in SUBSET Lockable
    BY NextFrames DEF Lockable
  <1>2. Goto(r, frame) /\ Lock(r, {n}) /\ \A x \in {n} : Free(x)
    BY DEF Refuse
  <1>3. Begun(r)
    BY DEF Begun
  <1> HIDE DEF frame
  <1>4. RequestsMove
    BY <1>1, <1>2, <1>3, BegunMoves
  <1>5. request'[r] = frame /\ held'[r] = held[r] \cup {n}
    BY <1>1, <1>2, GotoKeeps, LockKeeps
  <1> QED
    BY <1>4, <1>5 DEF frame

LEMMA DeduplicateGoes ==
    ASSUME TypeOK, NEW r \in Request, Deduplicate(r)
    PROVE  /\ RequestsMove /\ request[r].key \in held'[r]
           /\ held[r] \subseteq held'[r] /\ request'[r].pc = "lookup"
           /\ request'[r].run = request[r].run /\ request'[r].key = request[r].key
           /\ request[r].pc = "deduplicate"
  <1> DEFINE frame == [request[r] EXCEPT !.pc = "lookup"]
             locks == {request[r].key}
  <1>1. /\ frame \in Frame /\ frame.pc = "lookup"
        /\ frame.run = request[r].run /\ frame.key = request[r].key
        /\ locks \in SUBSET Lockable
    BY NextFrames, FrameTypes DEF Lockable, Deduplicate, At
  <1>2. Goto(r, frame) /\ Lock(r, locks) /\ \A x \in locks : Free(x)
    BY DEF Deduplicate, DeduplicationLock
  <1>3. Begun(r) /\ request[r].pc = "deduplicate"
    BY DEF Begun, Deduplicate, At
  <1> HIDE DEF frame, locks
  <1>4. RequestsMove
    BY <1>1, <1>2, <1>3, BegunMoves
  <1>5. request'[r] = frame /\ held'[r] = held[r] \cup locks
    BY <1>1, <1>2, GotoKeeps, LockKeeps
  <1> QED
    BY <1>1, <1>3, <1>4, <1>5 DEF locks

(* The ticket found is one of the key, held; none is found only if no      *)
(* ticket of the key has an occurrence within the window.                  *)
LEMMA LookupGoes ==
    ASSUME TypeOK, NEW r \in Request, Lookup(r)
    PROVE  /\ RequestsMove /\ held[r] \subseteq held'[r]
           /\ request[r].pc = "lookup" /\ request'[r].pc = "record"
           /\ request'[r].run = request[r].run /\ request'[r].key = request[r].key
           /\ request'[r].ticket \in held'[r] \cup {NoTicket}
           /\ request'[r].ticket # NoTicket =>
                  /\ Exists(request'[r].ticket)
                  /\ ticket[request'[r].ticket].key = request[r].key
                  /\ request'[r].ticket \in Ticket
           /\ request'[r].ticket = NoTicket =>
                  \A u \in Ticket : Exists(u) /\ ticket[u].key = request[r].key
                      => ~ticket[u].fresh
           /\ ticket' = ticket
  <1> DEFINE k == request[r].key
             found == {t \in Ticket : /\ Exists(t)
                                      /\ ticket[t].key = k
                                      /\ Recent(ticket[t])}
  <1>1. PICK t \in IF found = {} THEN {NoTicket} ELSE found :
            Goto(r, [pc |-> "record", run |-> request[r].run, key |-> k,
                     ticket |-> t])
    BY DEF Lookup
  <1> DEFINE frame == [pc |-> "record", run |-> request[r].run, key |-> k,
                       ticket |-> t]
  <1>2. /\ t \in Ticket \cup {NoTicket} /\ t \in found \cup {NoTicket}
        /\ t = NoTicket => found = {}
    BY <1>1
  <1>3. /\ request[r].pc = "lookup" /\ request[r].run \in Run
        /\ request[r].key \in Key /\ ticket' = ticket
    BY FrameTypes DEF Lookup, At
  <1>4. frame \in Frame /\ found \in SUBSET Lockable
    BY <1>2, <1>3, NextFrames DEF Lockable
  <1>5. Goto(r, frame) /\ Lock(r, found) /\ \A x \in found : Free(x)
    BY <1>1 DEF Lookup, TicketLock
  <1>6. Begun(r)
    BY DEF Begun
  <1>7. /\ frame.pc = "record" /\ frame.run = request[r].run /\ frame.key = k
        /\ frame.ticket = t
    OBVIOUS
  <1>8. /\ t # NoTicket => Exists(t) /\ ticket[t].key = k /\ t \in Ticket
        /\ t = NoTicket => \A u \in Ticket : Exists(u) /\ ticket[u].key = k
                               => ~ticket[u].fresh
    BY <1>2 DEF Recent
  <1> HIDE DEF frame, found
  <1>9. RequestsMove
    BY <1>4, <1>5, <1>6, BegunMoves
  <1>10. request'[r] = frame /\ held'[r] = held[r] \cup found
    BY <1>4, <1>5, GotoKeeps, LockKeeps
  <1> QED
    BY <1>2, <1>3, <1>7, <1>8, <1>9, <1>10

LEMMA LockTicketGoes ==
    ASSUME TypeOK, NEW r \in Request, NEW t \in Ticket, NEW op \in OnTicket,
           LockTicket(r, t, op), Begun(r)
    PROVE  /\ RequestsMove /\ Exists(t) /\ t \in held'[r]
           /\ request'[r] = [pc |-> op, ticket |-> t, status |-> ticket[t].status]
           /\ ticket' = ticket
  <1> DEFINE frame == [pc |-> op, ticket |-> t, status |-> ticket[t].status]
  <1>1. Exists(t) /\ ticket[t].status \in TicketStatus /\ ticket' = ticket
    BY TicketRows DEF LockTicket, TicketRow
  <1>2. frame \in Frame /\ {t} \in SUBSET Lockable
    BY <1>1, NextFrames DEF Lockable
  <1>3. Goto(r, frame) /\ Lock(r, {t}) /\ \A x \in {t} : Free(x)
    BY DEF LockTicket, TicketLock
  <1> HIDE DEF frame
  <1>4. RequestsMove
    BY <1>2, <1>3, BegunMoves
  <1>5. request'[r] = frame /\ held'[r] = held[r] \cup {t}
    BY <1>2, <1>3, GotoKeeps, LockKeeps
  <1> QED
    BY <1>1, <1>4, <1>5 DEF frame

LEMMA ApproveCandidateGoes ==
    ASSUME TypeOK, NEW r \in Request, NEW c \in Candidate, approve_candidate(r, c)
    PROVE  RequestsMove /\ request'[r].pc = "embed"
  <1> DEFINE frame == [pc |-> "embed", candidate |-> c]
  <1>1. frame \in Frame /\ Goto(r, frame) /\ held' = held
    BY NextFrames DEF approve_candidate
  <1>2. Begun(r) /\ frame.pc = "embed"
    BY DEF Begun
  <1> HIDE DEF frame
  <1>3. /\ request' \in [Request -> Frame] /\ request'[r] = frame
        /\ \A q \in Request : q # r => request'[q] = request[q]
    BY <1>1, GotoKeeps
  <1> QED
    BY <1>1, <1>2, <1>3 DEF RequestsMove, RequestTypes, TypeOK, Quiet

LEMMA ApproveGoes ==
    ASSUME TypeOK, NEW r \in Request, approve(r)
    PROVE  /\ RequestsMove /\ request'[r].candidate \in held'[r]
           /\ request'[r].pc = "publish" /\ Pending(request'[r].candidate)
           /\ candidate' = candidate /\ request'[r].candidate \in Candidate
  <1> DEFINE frame == [request[r] EXCEPT !.pc = "publish"]
             locks == {request[r].candidate}
  <1>1. /\ frame \in Frame /\ frame.candidate = request[r].candidate
        /\ frame.pc = "publish" /\ request[r].candidate \in Candidate
        /\ locks \in SUBSET Lockable
    BY NextFrames, FrameTypes DEF Lockable, approve, At
  <1>2. /\ Goto(r, frame) /\ Lock(r, locks) /\ \A x \in locks : Free(x)
        /\ Pending(request[r].candidate) /\ candidate' = candidate
    BY DEF approve, StillPending, answers
  <1>3. Begun(r)
    BY DEF Begun
  <1> HIDE DEF frame, locks
  <1>4. RequestsMove
    BY <1>1, <1>2, <1>3, BegunMoves
  <1>5. request'[r] = frame /\ held'[r] = held[r] \cup locks
    BY <1>1, <1>2, GotoKeeps, LockKeeps
  <1>6. /\ request'[r].candidate = request[r].candidate
        /\ request'[r].pc = "publish" /\ request[r].candidate \in held'[r]
    BY <1>1, <1>5 DEF locks
  <1> QED
    BY <1>1, <1>2, <1>4, <1>6

LEMMA EveryRequestMoves ==
    ASSUME TypeOK, [Next]_vars
    PROVE  RequestsMove
  <1>1. ASSUME UNCHANGED <<request, held>> PROVE RequestsMove
    BY <1>1 DEF TypeOK, RequestsMove, RequestTypes, Quiet
  <1>2. ASSUME NEW r \in Request, RefusalStep(r) PROVE RequestsMove
    BY <1>2, RefuseGoes, DeduplicateGoes, LookupGoes, EndMoves
       DEF RefusalStep, RecordRefusal
  <1>3. ASSUME NEW r \in Request, WorkflowStep(r) PROVE RequestsMove
    <2>1. ASSUME NEW t \in Ticket, NEW op \in Operation, LockToMove(r, t, op)
          PROVE  RequestsMove
      <3>1. Begun(r) /\ LockTicket(r, t, op) /\ op \in OnTicket
        BY <2>1 DEF Begun, LockToMove, OnTicket
      <3> QED
        BY <3>1, LockTicketGoes
    <2>2. ASSUME NEW op \in Operation, Move(r, op) PROVE RequestsMove
      BY <2>2, EndMoves DEF Move
    <2> QED
      BY <1>3, <2>1, <2>2 DEF WorkflowStep, assign_ticket, start_ticket,
         resolve_ticket, close_ticket, reopen_ticket, assign, start, resolve,
         close, reopen, Operation
  <1>4. ASSUME NEW r \in Request, ReviewStep(r) PROVE RequestsMove
    <2>1. ASSUME NEW t \in Ticket, submit_ticket_answer(r, t) PROVE RequestsMove
      <3>1. Begun(r) /\ LockTicket(r, t, "submit") /\ "submit" \in OnTicket
        BY <2>1 DEF Begun, submit_ticket_answer, OnTicket
      <3> QED
        BY <3>1, LockTicketGoes
    <2> QED
      BY <1>4, <2>1, ApproveCandidateGoes, ApproveGoes, EndMoves
         DEF ReviewStep, submit_answer, publish_candidate
  <1>5. ASSUME NEW r \in Request, RollBack(r) PROVE RequestsMove
    BY <1>5, EndMoves DEF RollBack
  <1>6. ASSUME NEW n \in Run, RecordSufficient(n) PROVE RequestsMove
    BY <1>1, <1>6 DEF RecordSufficient
  <1>7. ASSUME NEW t \in Ticket, reply_ticket(t) \/ WindowPasses(t)
        PROVE  RequestsMove
    BY <1>1, <1>7 DEF reply_ticket, WindowPasses
  <1>8. ASSUME NEW c \in Candidate, reject_candidate(c) PROVE RequestsMove
    BY <1>1, <1>8 DEF reject_candidate
  <1>9. CASE UNCHANGED vars
    BY <1>1, <1>9 DEF vars
  <1> QED
    BY <1>2, <1>3, <1>4, <1>5, <1>6, <1>7, <1>8, <1>9 DEF Next

-----------------------------------------------------------------------------
(* A request that does nothing still knows what it has read: whoever would *)
(* change it needs a lock it holds.                                        *)
TransactionSound(q) ==
    /\ HoldsLocks(q) /\ ReadsTicket(q) /\ MayMove(q) /\ FoundTicket(q)
    /\ FoundNone(q) /\ NothingPending(q) /\ StillUnderReview(q)

LEMMA KeysStay ==
    ASSUME TypeOK, TicketsMove, NEW t \in Ticket, Exists(t)
    PROVE  Exists(t)' /\ ticket'[t].key = ticket[t].key
  BY DEF TicketsMove, TicketMoves, SameTicket, Aged, Opened, Joined, Moved, Exists

LEMMA HeldTicketStays ==
    ASSUME TypeOK, TransactionInv, TicketsMove, NEW q \in Request, Quiet(q),
           request[q].pc \in OnTicket, NEW t, t = request[q].ticket
    PROVE  /\ t \in Ticket /\ t \in held[q] /\ Exists(t) /\ Exists(t)'
           /\ ticket'[t].status = request[q].status
  <1>1. /\ t \in Ticket /\ t \in held[q] /\ Exists(t)
        /\ ticket[t].status = request[q].status
    BY FrameTypes DEF TransactionInv, HoldsLocks, ReadsTicket
  <1>2. ASSUME NEW r \in Request, Moved(r, t) PROVE FALSE
    <2>1. t \in held[r] /\ request'[r] = Idle
      BY <1>2 DEF Moved, TransactionInv, HoldsLocks, OnTicket
    <2>2. r = q
      BY <1>1, <2>1, OneHolder
    <2> QED
      BY <2>1, <2>2 DEF Quiet, Idle, OnTicket, Operation
  <1> QED
    BY <1>1, <1>2 DEF TicketsMove, TicketMoves, SameTicket, Aged, Opened, Joined,
       Exists

(* A ticket of the key whose lock is held gets no new occurrence.          *)
LEMMA HeldKeyStays ==
    ASSUME TypeOK, TransactionInv, TicketsMove, NEW q \in Request, Quiet(q),
           request[q].pc = "record", NEW t \in Ticket, Exists(t)',
           ticket'[t].key = request[q].key, ticket'[t].fresh
    PROVE  Exists(t) /\ ticket[t].key = request[q].key /\ ticket[t].fresh
  <1>1. ASSUME NEW r \in Request, RecordRefusal(r), request'[r] = Idle,
               request[r].key = request[q].key
        PROVE  FALSE
    <2>1. request[r].key \in held[r] /\ request[q].key \in held[q]
      BY <1>1 DEF RecordRefusal, At, TransactionInv, HoldsLocks
    <2>2. r = q
      BY <1>1, <2>1, OneHolder
    <2> QED
      BY <1>1, <2>2 DEF Quiet, Idle
  <1>2. ASSUME NEW r \in Request, Opened(r, t) PROVE FALSE
    <2>1. ticket'[t].key = request[r].key
      BY <1>2 DEF Opened, NewTicket
    <2> QED
      BY <1>1, <1>2, <2>1 DEF Opened
  <1>3. ASSUME NEW r \in Request, Joined(r, t) PROVE FALSE
    <2>1. ticket[t].key = request[r].key
      BY <1>3 DEF Joined, RecordRefusal, At, TransactionInv, FoundTicket
    <2> QED
      BY <1>1, <1>3, <2>1 DEF Joined
  <1> QED
    BY <1>2, <1>3 DEF TicketsMove, TicketMoves, SameTicket, Aged, Moved, Exists

(* A ticket gets no answer while another transaction holds it.             *)
LEMMA HeldTicketGetsNoAnswer ==
    ASSUME TypeOK, TransactionInv, AnswersMove, NEW q \in Request, Quiet(q),
           request[q].pc = "submit", NEW c \in Candidate, Pending(c)',
           candidate'[c].ticket = request[q].ticket
    PROVE  Pending(c) /\ candidate[c].ticket = request[q].ticket
  <1>1. ASSUME NEW r \in Request, Submitted(r, c) PROVE FALSE
    <2>1. /\ request[q].ticket \in held[q] /\ request[r].ticket \in held[r]
          /\ request[q].ticket = request[r].ticket
      BY <1>1 DEF Submitted, TransactionInv, HoldsLocks, OnTicket
    <2>2. r = q
      BY <2>1, OneHolder
    <2> QED
      BY <1>1, <2>2 DEF Submitted, Quiet, Idle
  <1> QED
    BY <1>1 DEF AnswersMove, AnswerMoves, SameAnswer, Approved, Rejected, Pending

(* An answer whose row is held is reviewed by nobody else.                 *)
LEMMA HeldAnswerStays ==
    ASSUME TypeOK, TransactionInv, AnswersMove, NEW q \in Request, Quiet(q),
           request[q].pc = "publish", NEW c, c = request[q].candidate
    PROVE  Pending(c)'
  <1>1. c \in Candidate /\ c \in held[q] /\ Pending(c)
    BY FrameTypes DEF TransactionInv, HoldsLocks, StillUnderReview
  <1>2. ASSUME NEW r \in Request, Approved(r, c) PROVE FALSE
    <2>1. c \in held[r]
      BY <1>2 DEF Approved, TransactionInv, HoldsLocks
    <2>2. r = q
      BY <1>1, <2>1, OneHolder
    <2> QED
      BY <1>2, <2>2 DEF Approved, Quiet, Idle
  <1>3. ~Rejected(c)
    BY <1>1 DEF Rejected, Free
  <1>4. \A r \in Request : ~Submitted(r, c)
    BY <1>1 DEF Submitted, Pending, Absent
  <1> QED
    BY <1>1, <1>2, <1>3, <1>4 DEF AnswersMove, AnswerMoves, SameAnswer, Pending

LEMMA QuietStaysSound ==
    ASSUME TypeOK, TransactionInv, TicketsMove, AnswersMove,
           NEW q \in Request, Quiet(q)
    PROVE  TransactionSound(q)'
  <1>1. request'[q] = request[q] /\ held'[q] = held[q] /\ TransactionSound(q)
    BY DEF Quiet, TransactionInv, TransactionSound
  <1>2. HoldsLocks(q)'
    BY <1>1 DEF TransactionSound, HoldsLocks
  <1>3. ReadsTicket(q)'
    BY <1>1, HeldTicketStays DEF ReadsTicket
  <1>4. MayMove(q)'
    BY <1>1 DEF TransactionSound, MayMove
  <1>5. FoundTicket(q)'
    BY <1>1, KeysStay, FrameTypes DEF TransactionSound, FoundTicket
  <1>6. FoundNone(q)'
    BY <1>1, HeldKeyStays DEF TransactionSound, FoundNone
  <1>7. NothingPending(q)'
    BY <1>1, HeldTicketGetsNoAnswer DEF TransactionSound, NothingPending
  <1>8. StillUnderReview(q)'
    BY <1>1, HeldAnswerStays DEF StillUnderReview
  <1> QED
    BY <1>2, <1>3, <1>4, <1>5, <1>6, <1>7, <1>8 DEF TransactionSound

LEMMA EndedIsSound ==
    ASSUME NEW q \in Request, Ended(q)
    PROVE  TransactionSound(q)'
  <1>1. request'[q].pc = "idle"
    BY DEF Ended, Idle
  <1> QED
    BY <1>1 DEF TransactionSound, HoldsLocks, ReadsTicket, MayMove, FoundTicket,
       FoundNone, NothingPending, StillUnderReview, OnTicket, Operation

LEMMA BegunIsSound ==
    ASSUME TypeOK, TransactionInv, TicketsMove, NEW q \in Request, Begun(q)
    PROVE  TransactionSound(q)'
  <1> USE DEF TransactionSound, HoldsLocks, ReadsTicket, MayMove, FoundTicket,
              FoundNone, NothingPending, StillUnderReview, OnTicket, Operation
  <1>1. ASSUME NEW n \in Run, NEW k \in Key, Refuse(q, n, k)
        PROVE  TransactionSound(q)'
    <2>1. /\ n \in held'[q]
          /\ request'[q] = [pc |-> "deduplicate", run |-> n, key |-> k]
      BY <1>1, RefuseGoes
    <2>2. request'[q].pc = "deduplicate" /\ request'[q].run = n
      BY <2>1
    <2> QED
      BY <2>1, <2>2
  <1>2. CASE Deduplicate(q)
    <2>1. /\ request[q].run \in held[q]
      BY <1>2, DeduplicateGoes DEF TransactionInv
    <2> QED
      BY <1>2, <2>1, DeduplicateGoes
  <1>3. CASE Lookup(q)
    <2>1. /\ request[q].run \in held[q] /\ request[q].key \in held[q]
      BY <1>3, LookupGoes DEF TransactionInv
    <2>2. /\ held[q] \subseteq held'[q] /\ request'[q].pc = "record"
          /\ request'[q].run = request[q].run /\ request'[q].key = request[q].key
          /\ request'[q].ticket \in held'[q] \cup {NoTicket}
          /\ ticket' = ticket
      BY <1>3, LookupGoes
    <2>3. HoldsLocks(q)'
      BY <2>1, <2>2
    <2>4. FoundTicket(q)'
      BY <1>3, <2>2, LookupGoes DEF Exists
    <2>5. FoundNone(q)'
      BY <1>3, <2>2, LookupGoes DEF Exists
    <2> QED
      BY <2>2, <2>3, <2>4, <2>5
  <1>4. ASSUME NEW t \in Ticket, NEW op \in Operation, LockToMove(q, t, op)
        PROVE  TransactionSound(q)'
    <2>1. /\ LockTicket(q, t, op) /\ target[op] \in allowed_transitions[ticket[t].status]
      BY <1>4 DEF LockToMove, _assert_transition
    <2>2. /\ Exists(t) /\ t \in held'[q] /\ ticket' = ticket
          /\ request'[q] = [pc |-> op, ticket |-> t, status |-> ticket[t].status]
      BY <2>1, LockTicketGoes
    <2>3. /\ request'[q].pc = op /\ request'[q].ticket = t
          /\ request'[q].status = ticket[t].status
      BY <2>2
    <2> QED
      BY <2>1, <2>2, <2>3 DEF Exists
  <1>5. ASSUME NEW t \in Ticket, submit_ticket_answer(q, t)
        PROVE  TransactionSound(q)'
    <2>1. /\ LockTicket(q, t, "submit") /\ candidate' = candidate
          /\ \A c \in Candidate : ~(Pending(c) /\ candidate[c].ticket = t)
      BY <1>5 DEF submit_ticket_answer, LockTicket, answers,
         get_pending_candidate_by_ticket
    <2>2. /\ Exists(t) /\ t \in held'[q] /\ ticket' = ticket
          /\ request'[q] = [pc |-> "submit", ticket |-> t,
                            status |-> ticket[t].status]
      BY <2>1, LockTicketGoes
    <2>3. /\ request'[q].pc = "submit" /\ request'[q].ticket = t
          /\ request'[q].status = ticket[t].status
      BY <2>2
    <2> QED
      BY <2>1, <2>2, <2>3 DEF Exists, Pending
  <1>6. ASSUME NEW c \in Candidate, approve_candidate(q, c)
        PROVE  TransactionSound(q)'
    BY <1>6, ApproveCandidateGoes
  <1>7. CASE approve(q)
    <2>1. /\ request'[q].candidate \in held'[q] /\ request'[q].pc = "publish"
          /\ Pending(request'[q].candidate) /\ candidate' = candidate
      BY <1>7, ApproveGoes
    <2> QED
      BY <2>1 DEF Pending
  <1> QED
    BY <1>1, <1>2, <1>3, <1>4, <1>5, <1>6, <1>7 DEF Begun

LEMMA TransactionsKept ==
    ASSUME TypeOK, TransactionInv, TicketsMove, AnswersMove, RequestsMove
    PROVE  TransactionInv'
  <1>1. \A q \in Request : TransactionSound(q)'
    BY QuietStaysSound, EndedIsSound, BegunIsSound DEF RequestsMove
  <1> QED
    BY <1>1 DEF TransactionInv, TransactionSound

-----------------------------------------------------------------------------
(* What a step may do to the decisions, the occurrences and the events:    *)
(* only the recording of a refusal gives a run or a new ticket away.       *)
RecordsMove ==
    /\ decision' \in [Run -> {"none", "sufficient", "refusal"}]
    /\ occurrence' \in [Run -> Ticket \cup {NoTicket}]
    /\ outbox' \subseteq Event
    /\ (\A r \in Request : ~RecordRefusal(r)) =>
           /\ occurrence' = occurrence
           /\ \A n \in Run : decision'[n] = decision[n] \/
                  (decision[n] = "none" /\ decision'[n] = "sufficient")
           /\ \A t \in Ticket : Created(t) \in outbox' <=> Created(t) \in outbox

LEMMA EveryRecordMoves ==
    ASSUME TypeOK, [Next]_vars
    PROVE  RecordsMove
  <1>1. ASSUME UNCHANGED <<decision, occurrence, outbox>> PROVE RecordsMove
    BY <1>1 DEF TypeOK, RecordsMove
  <1>2. ASSUME UNCHANGED <<decision, occurrence>>, NEW t \in Ticket, add_reply(t)
        PROVE  RecordsMove
    <2>1. outbox' \in {outbox, outbox \cup {Replied(t)}}
      <3>1. PICK tells \in {_reply_notifies_requester(role, account, owns) :
                              role \in _infer_role(t), account \in AccountRole,
                              owns \in BOOLEAN} :
                outbox' = outbox \cup IF tells THEN {Replied(t)} ELSE {}
        BY <1>2 DEF add_reply
      <3> QED
        BY <3>1
    <2>2. Replied(t) \in Event /\ \A u \in Ticket : Created(u) # Replied(t)
      BY DEF Event, Created, Replied
    <2> QED
      BY <1>2, <2>1, <2>2 DEF TypeOK, RecordsMove
  <1>3. ASSUME NEW r \in Request, RecordRefusal(r) PROVE RecordsMove
    <2>1. request[r].run \in Run
      BY <1>3, FrameTypes DEF RecordRefusal, At
    <2>2. decision' = [decision EXCEPT ![request[r].run] = "refusal"]
      BY <1>3 DEF RecordRefusal
    <2>3. PICK t \in Ticket :
              /\ occurrence' = [occurrence EXCEPT ![request[r].run] = t]
              /\ outbox' \in {outbox, outbox \cup {Created(t)}}
      BY <1>3 DEF RecordRefusal, add_ticket
    <2>4. Created(t) \in Event
      BY DEF Event, Created
    <2> QED
      BY <1>3, <2>1, <2>2, <2>3, <2>4 DEF TypeOK, RecordsMove
  <1>4. ASSUME NEW n \in Run, RecordSufficient(n) PROVE RecordsMove
    BY <1>4 DEF RecordSufficient, UniqueRun, TypeOK, RecordsMove
  <1>5. ASSUME NEW r \in Request, RefusalStep(r) PROVE RecordsMove
    BY <1>1, <1>3, <1>5 DEF RefusalStep, Refuse, Deduplicate, Lookup, refusals
  <1>6. ASSUME NEW r \in Request, WorkflowStep(r) PROVE RecordsMove
    <2>1. ASSUME close(r) PROVE RecordsMove
      <3>1. request[r].ticket \in Ticket /\ UNCHANGED <<decision, occurrence>>
        BY <2>1, FrameTypes DEF close, Move, At, refusals, OnTicket, Operation
      <3> QED
        BY <1>1, <1>2, <2>1, <3>1 DEF close
    <2> QED
      BY <1>1, <1>6, <2>1 DEF WorkflowStep, assign_ticket, start_ticket,
         resolve_ticket, close_ticket, reopen_ticket, LockToMove, LockTicket,
         assign, start, resolve, reopen, Move, refusals
  <1>7. ASSUME NEW r \in Request, ReviewStep(r) \/ RollBack(r) PROVE RecordsMove
    BY <1>1, <1>7 DEF ReviewStep, submit_ticket_answer, LockTicket,
       submit_answer, approve_candidate, approve, publish_candidate, RollBack,
       refusals
  <1>8. ASSUME NEW t \in Ticket, reply_ticket(t) \/ WindowPasses(t) PROVE RecordsMove
    BY <1>1, <1>2, <1>8 DEF reply_ticket, reply, WindowPasses, refusals
  <1>9. ASSUME NEW c \in Candidate, reject_candidate(c) PROVE RecordsMove
    BY <1>1, <1>9 DEF reject_candidate, refusals
  <1>10. CASE UNCHANGED vars
    BY <1>1, <1>10 DEF vars
  <1> QED
    BY <1>4, <1>5, <1>6, <1>7, <1>8, <1>9, <1>10 DEF Next

-----------------------------------------------------------------------------
(* The counts.                                                             *)
LEMMA RefusalCounts ==
    ASSUME TypeOK, TransactionInv, Counts, NEW r \in Request, RecordRefusal(r)
    PROVE  Counts'
  <1> DEFINE n == request[r].run
  <1>1. n \in Run /\ decision[n] = "none" /\ occurrence[n] = NoTicket
    BY FrameTypes DEF RecordRefusal, At, UniqueRun, Counts
  <1>2. PICK t \in Ticket :
               /\ occurrence' = [occurrence EXCEPT ![request[r].run] = t]
               /\ \/ Opened(r, t) /\ outbox' = outbox \cup {Created(t)}
                  \/ Joined(r, t) /\ outbox' = outbox
               /\ \A u \in Ticket : u # t => SameTicket(u)
    BY RefusalMoves
  <1>3. PICK m : m = n
    OBVIOUS
  <1>4. /\ m \in Run /\ decision[m] = "none" /\ occurrence[m] = NoTicket
        /\ occurrence' = [occurrence EXCEPT ![m] = t]
        /\ decision' = [decision EXCEPT ![m] = "refusal"]
        /\ request[r].run = m
    BY <1>1, <1>2, <1>3 DEF RecordRefusal
  <1>5. /\ occurrence \in [Run -> Ticket \cup {NoTicket}]
        /\ decision \in [Run -> {"none", "sufficient", "refusal"}]
    BY DEF TypeOK
  <1>6. /\ Refused' = Refused \cup {m} /\ RunsOf(t)' = RunsOf(t) \cup {m}
        /\ m \notin RunsOf(t)
        /\ \A u \in Ticket : u # t => RunsOf(u)' = RunsOf(u)
    BY <1>4, <1>5 DEF Refused, RunsOf
  <1>7. IsFiniteSet(RunsOf(t)) /\ IsFiniteSet(Refused')
    <2>1. IsFiniteSet(Refused) /\ RunsOf(t) \in SUBSET Refused
      BY DEF Counts, Refused, RunsOf
    <2> QED
      BY <1>6, <2>1, FS_Subset, FS_AddElement
  <1>8. Cardinality(RunsOf(t)') = Cardinality(RunsOf(t)) + 1
    BY <1>6, <1>7, FS_AddElement
  <1>9. /\ \A u \in Ticket : u # t => ticket'[u] = ticket[u]
        /\ Exists(t)'
    BY <1>2 DEF SameTicket, Opened, Joined
  <1>10. ticket'[t].count = Cardinality(RunsOf(t)')
    <2>1. CASE Opened(r, t)
      <3>1. RunsOf(t) = {}
        BY <2>1 DEF Opened, Counts, RunsOf
      <3>2. ticket'[t].count = 1
        BY <2>1 DEF Opened, NewTicket
      <3> QED
        BY <1>8, <3>1, <3>2, FS_EmptySet
    <2>2. CASE Joined(r, t)
      BY <1>8, <2>2 DEF Joined, Counts
    <2> QED
      BY <1>2, <2>1, <2>2
  <1>11. \A u \in Ticket : Exists(u)' <=> Created(u) \in outbox'
    <2>1. \A u \in Ticket : u # t => Created(u) # Created(t)
      BY DEF Created
    <2>2. \A u \in Ticket : Exists(u) <=> Created(u) \in outbox
      BY DEF Counts
    <2> QED
      BY <1>2, <1>9, <2>1, <2>2 DEF Opened, Joined, Exists
  <1>12. \A u \in Ticket : Exists(u)' => ticket'[u].count = Cardinality(RunsOf(u)')
    BY <1>6, <1>9, <1>10 DEF Counts, Exists
  <1>13. \A o \in Run : /\ decision'[o] = "refusal" <=> occurrence'[o] # NoTicket
                        /\ occurrence'[o] # NoTicket => ticket'[occurrence'[o]] # Absent
    BY <1>4, <1>5, <1>9 DEF Counts, Exists
  <1> QED
    BY <1>7, <1>11, <1>12, <1>13 DEF Counts, Exists

LEMMA CountsKept ==
    ASSUME TypeOK, TransactionInv, Counts, TicketsMove, RecordsMove
    PROVE  Counts'
  <1>1. ASSUME NEW r \in Request, RecordRefusal(r) PROVE Counts'
    BY <1>1, RefusalCounts
  <1>2. CASE \A r \in Request : ~RecordRefusal(r)
    <2>1. /\ occurrence' = occurrence
          /\ \A n \in Run : decision'[n] = decision[n] \/
                 (decision[n] = "none" /\ decision'[n] = "sufficient")
          /\ \A t \in Ticket : Created(t) \in outbox' <=> Created(t) \in outbox
      BY <1>2 DEF RecordsMove
    <2>2. \A t \in Ticket : /\ Exists(t)' <=> Exists(t)
                            /\ ticket'[t].count = ticket[t].count
      BY <1>2 DEF TicketsMove, TicketMoves, SameTicket, Aged, Opened, Joined,
         Moved, Exists
    <2>3. Refused' = Refused /\ \A t \in Ticket : RunsOf(t)' = RunsOf(t)
      BY <2>1 DEF Refused, RunsOf
    <2>4. \A n \in Run : occurrence'[n] # NoTicket => Exists(occurrence[n])'
      BY <2>1, <2>2 DEF Counts, TypeOK, Exists
    <2>5. IsFiniteSet(Refused)'
      BY <2>3 DEF Counts
    <2>6. \A t \in Ticket : Exists(t)' => ticket'[t].count = Cardinality(RunsOf(t)')
      BY <2>2, <2>3 DEF Counts
    <2>7. \A n \in Run : decision'[n] = "refusal" <=> occurrence'[n] # NoTicket
      BY <2>1 DEF Counts
    <2>8. \A t \in Ticket : Exists(t)' <=> Created(t) \in outbox'
      BY <2>1, <2>2 DEF Counts
    <2> QED
      BY <2>1, <2>4, <2>5, <2>6, <2>7, <2>8 DEF Counts
  <1> QED
    BY <1>1, <1>2

-----------------------------------------------------------------------------
(* The transitions on record.                                              *)

(* The status a record has reached after i transitions.                    *)
Reached(log, i) == IF i = 0 THEN "OPEN" ELSE log[i].to

Leads(log, status) ==
    /\ \A i \in 1..Len(log) : log[i].from = Reached(log, i - 1)
    /\ status = Reached(log, Len(log))

LEMMA RecordLeads ==
    ASSUME TypeOK
    PROVE  StatusIsOnRecord <=>
               \A t \in Ticket : Exists(t) => Leads(moves[t], ticket[t].status)
  <1>1. ASSUME NEW log \in Seq(Transition)
        PROVE  LET reached == [i \in 0..Len(log) |->
                                  IF i = 0 THEN "OPEN" ELSE log[i].to]
               IN  /\ \A i \in 1..Len(log) : reached[i - 1] = Reached(log, i - 1)
                   /\ reached[Len(log)] = Reached(log, Len(log))
    BY <1>1 DEF Reached
  <1>2. \A t \in Ticket : moves[t] \in Seq(Transition)
    BY DEF TypeOK
  <1> QED
    BY <1>1, <1>2 DEF StatusIsOnRecord, Leads

LEMMA NextRecordLeads ==
    ASSUME TypeOK'
    PROVE  StatusIsOnRecord' <=>
               \A t \in Ticket : Exists(t)' => Leads(moves'[t], ticket'[t].status)
  <1>1. ASSUME NEW log \in Seq(Transition)
        PROVE  LET reached == [i \in 0..Len(log) |->
                                  IF i = 0 THEN "OPEN" ELSE log[i].to]
               IN  /\ \A i \in 1..Len(log) : reached[i - 1] = Reached(log, i - 1)
                   /\ reached[Len(log)] = Reached(log, Len(log))
    BY <1>1 DEF Reached
  <1>2. \A t \in Ticket : moves'[t] \in Seq(Transition)
    BY DEF TypeOK
  <1> QED
    BY <1>1, <1>2 DEF StatusIsOnRecord, Leads

(* A transition from the status reached leads on.                          *)
LEMMA AppendLeads ==
    ASSUME NEW log \in Seq(Transition), NEW from \in TicketStatus,
           NEW to \in TicketStatus, Leads(log, from)
    PROVE  Leads(Append(log, [from |-> from, to |-> to]), to)
  <1> DEFINE longer == Append(log, [from |-> from, to |-> to])
  <1>1. /\ Len(log) \in Nat /\ Len(longer) = Len(log) + 1
        /\ \A i \in 1..Len(log) : longer[i] = log[i]
        /\ longer[Len(log) + 1] = [from |-> from, to |-> to]
    OBVIOUS
  <1> HIDE DEF longer
  <1>2. \A i \in 0..Len(log) : Reached(longer, i) = Reached(log, i)
    BY <1>1 DEF Reached
  <1>3. \A i \in 1..Len(longer) : longer[i].from = Reached(longer, i - 1)
    <2> SUFFICES ASSUME NEW i \in 1..Len(longer)
                 PROVE  longer[i].from = Reached(longer, i - 1)
      OBVIOUS
    <2>1. CASE i \in 1..Len(log)
      BY <1>1, <1>2, <2>1 DEF Leads
    <2>2. CASE i = Len(log) + 1
      BY <1>1, <1>2, <2>2 DEF Leads
    <2> QED
      BY <1>1, <2>1, <2>2
  <1>4. Reached(longer, Len(longer)) = to
    BY <1>1 DEF Reached
  <1> QED
    BY <1>3, <1>4 DEF Leads, longer

LEMMA RecordKept ==
    ASSUME TypeOK, TypeOK', TransactionInv, Recorded, StatusIsOnRecord,
           TicketsMove
    PROVE  Recorded' /\ StatusIsOnRecord'
  <1>1. Recorded'
    BY DEF Recorded, TicketsMove, TicketMoves, SameTicket, Aged, Opened, Joined,
       Moved, Exists
  <1>2. ASSUME NEW t \in Ticket, Exists(t)'
        PROVE  Leads(moves'[t], ticket'[t].status)
    <2>1. Exists(t) => Leads(moves[t], ticket[t].status)
      BY RecordLeads
    <2>2. CASE SameTicket(t) \/ Aged(t) \/ \E r \in Request : Joined(r, t)
      BY <1>2, <2>1, <2>2 DEF SameTicket, Aged, Joined, Exists
    <2>3. ASSUME NEW r \in Request, Opened(r, t)
          PROVE  Leads(moves'[t], ticket'[t].status)
      <3>1. moves'[t] = <<>> /\ ticket'[t].status = "OPEN"
        BY <2>3 DEF Opened, Recorded, NewTicket
      <3> QED
        BY <3>1 DEF Leads, Reached
    <2>4. ASSUME NEW r \in Request, Moved(r, t)
          PROVE  Leads(moves'[t], ticket'[t].status)
      <3>1. /\ request[r].status \in TicketStatus
            /\ target[request[r].pc] \in TicketStatus
            /\ moves[t] \in Seq(Transition)
            /\ ticket[t].status = request[r].status
        BY <2>4, FrameTypes, Targets
           DEF Moved, OnTicket, TypeOK, TransactionInv, ReadsTicket
      <3>2. /\ Leads(moves[t], request[r].status)
            /\ moves'[t] = Append(moves[t], [from |-> request[r].status,
                                             to |-> target[request[r].pc]])
            /\ ticket'[t].status = target[request[r].pc]
        BY <2>1, <2>4, <3>1 DEF Moved
      <3>3. Leads(Append(moves[t], [from |-> request[r].status,
                                    to |-> target[request[r].pc]]),
                  target[request[r].pc])
        BY <3>1, <3>2, AppendLeads
      <3> QED
        BY <3>2, <3>3
    <2> QED
      BY <2>2, <2>3, <2>4 DEF TicketsMove, TicketMoves
  <1> QED
    BY <1>1, <1>2, NextRecordLeads

(* Who works on a ticket has been assigned to it: a transition goes to     *)
(* IN_PROGRESS or RESOLVED only from a status that has an assignee.        *)
LEMMA AssigneeKept ==
    ASSUME TypeOK, TransactionInv, WorkHasAnAssignee, TicketsMove
    PROVE  WorkHasAnAssignee'
  <1> SUFFICES ASSUME NEW t \in Ticket, Exists(t)',
                      ticket'[t].status \in {"ASSIGNED", "IN_PROGRESS", "RESOLVED"}
               PROVE  ticket'[t].assigned
    BY DEF WorkHasAnAssignee
  <1>1. CASE SameTicket(t) \/ Aged(t) \/ \E r \in Request : Joined(r, t)
    BY <1>1 DEF SameTicket, Aged, Joined, Exists, WorkHasAnAssignee
  <1>2. \A r \in Request : ~Opened(r, t)
    BY DEF Opened, NewTicket
  <1>3. ASSUME NEW r \in Request, Moved(r, t) PROVE ticket'[t].assigned
    <2>1. /\ request[r].pc \in Operation
          /\ target[request[r].pc] \in allowed_transitions[request[r].status]
          /\ ticket[t].status = request[r].status /\ Exists(t)
          /\ ticket'[t].status = target[request[r].pc]
          /\ request[r].status \in TicketStatus
      BY <1>3, FrameTypes DEF Moved, TransactionInv, MayMove, ReadsTicket, OnTicket
    <2>2. CASE request[r].pc = "assign"
      BY <1>3, <2>2 DEF Moved
    <2>3. CASE request[r].pc # "assign"
      <3>1. ticket[t].status \in {"ASSIGNED", "IN_PROGRESS", "RESOLVED"}
        BY <2>1, <2>3 DEF Operation, target, allowed_transitions, TicketStatus
      <3>2. ticket[t].assigned
        BY <2>1, <3>1 DEF WorkHasAnAssignee
      <3> QED
        BY <1>3, <3>2 DEF Moved
    <2> QED
      BY <2>2, <2>3
  <1> QED
    BY <1>1, <1>2, <1>3 DEF TicketsMove, TicketMoves

-----------------------------------------------------------------------------
(* The answers.                                                            *)
LEMMA OnePendingKept ==
    ASSUME TypeOK, TransactionInv, OnePending, AnswersMove
    PROVE  OnePending'
  <1>1. ASSUME NEW c \in Candidate, NEW d \in Candidate, Pending(c)', Pending(d)',
               candidate'[c].ticket = candidate'[d].ticket, SameAnswer(d), c # d
        PROVE  FALSE
    <2>1. Pending(d) /\ candidate[d].ticket = candidate'[d].ticket
      BY <1>1 DEF SameAnswer, Pending
    <2>2. ASSUME NEW r \in Request, Submitted(r, c) PROVE FALSE
      <3>1. candidate'[c].ticket = request[r].ticket /\ request[r].pc = "submit"
        BY <2>2 DEF Submitted
      <3> QED
        BY <1>1, <2>1, <3>1 DEF TransactionInv, NothingPending
    <2>3. Pending(c) /\ candidate[c].ticket = candidate'[c].ticket
      BY <1>1, <2>2 DEF AnswersMove, AnswerMoves, SameAnswer, Approved, Rejected,
         Pending
    <2> QED
      BY <1>1, <2>1, <2>3 DEF OnePending
  <1>2. \A c, d \in Candidate : c = d \/ SameAnswer(c) \/ SameAnswer(d)
    BY DEF AnswersMove
  <1> QED
    BY <1>1, <1>2 DEF OnePending

LEMMA PublishedKept ==
    ASSUME TypeOK, PublishedOnce, AnswersMove
    PROVE  PublishedOnce'
  <1> SUFFICES ASSUME NEW c \in Candidate
               PROVE  published'[c] = IF candidate'[c].status = "PUBLISHED"
                                        THEN 1 ELSE 0
    BY DEF PublishedOnce
  <1>1. published[c] = IF candidate[c].status = "PUBLISHED" THEN 1 ELSE 0
    BY DEF PublishedOnce
  <1>2. CASE SameAnswer(c)
    BY <1>1, <1>2 DEF SameAnswer
  <1>3. CASE Rejected(c)
    BY <1>1, <1>3 DEF Rejected, Pending
  <1>4. ASSUME NEW r \in Request, Submitted(r, c) \/ Approved(r, c)
        PROVE  published'[c] = IF candidate'[c].status = "PUBLISHED" THEN 1 ELSE 0
    BY <1>1, <1>4 DEF Submitted, Approved, Pending, Absent
  <1> QED
    BY <1>2, <1>3, <1>4 DEF AnswersMove, AnswerMoves

-----------------------------------------------------------------------------
LEMMA TicketInit == Init => TicketInv
  <1> SUFFICES ASSUME Init PROVE TicketInv
    OBVIOUS
  <1>1. Absent \in {Absent} /\ Idle \in Frame /\ <<>> \in Seq(Transition)
    BY DEF Idle, Frame
  <1>2. TypeOK
    <2>1. /\ ticket \in [Ticket -> TicketRow \cup {Absent}]
          /\ candidate \in [Candidate -> CandidateRow \cup {Absent}]
          /\ request \in [Request -> Frame] /\ moves \in [Ticket -> Seq(Transition)]
      BY <1>1 DEF Init
    <2> QED
      BY <2>1 DEF Init, TypeOK
  <1>3. TransactionInv
    <2>1. \A r \in Request : request[r].pc = "idle"
      BY DEF Init, Idle
    <2> QED
      BY <2>1 DEF TransactionInv, HoldsLocks, ReadsTicket, MayMove, FoundTicket,
         FoundNone, NothingPending, StillUnderReview, OnTicket, Operation
  <1>4. Counts
    <2>1. Refused = {} /\ IsFiniteSet({})
      BY FS_EmptySet DEF Init, Refused
    <2> QED
      BY <2>1 DEF Init, Counts, Exists
  <1>5. Recorded /\ StatusIsOnRecord /\ WorkHasAnAssignee
    BY DEF Init, Recorded, StatusIsOnRecord, WorkHasAnAssignee, Exists
  <1>6. OnePending /\ PublishedOnce
    BY DEF Init, OnePending, PublishedOnce, Pending, Absent
  <1> QED
    BY <1>2, <1>3, <1>4, <1>5, <1>6 DEF TicketInv

LEMMA TicketInvInductive == TicketInv /\ [Next]_vars => TicketInv'
  <1> SUFFICES ASSUME TicketInv, [Next]_vars PROVE TicketInv'
    OBVIOUS
  <1>1. /\ TypeOK /\ TransactionInv /\ Counts /\ Recorded /\ StatusIsOnRecord
        /\ WorkHasAnAssignee /\ OnePending /\ PublishedOnce
    BY DEF TicketInv
  <1>2. TicketsMove /\ AnswersMove /\ RequestsMove /\ RecordsMove
    BY <1>1, EveryTicketMoves, EveryAnswerMoves, EveryRequestMoves,
       EveryRecordMoves
  <1>3. TypeOK'
    BY <1>2 DEF TypeOK, TicketsMove, TicketTypes, AnswersMove, AnswerTypes,
       RequestsMove, RequestTypes, RecordsMove
  <1>4. TransactionInv'
    BY <1>1, <1>2, TransactionsKept
  <1>5. Counts'
    BY <1>1, <1>2, CountsKept
  <1>6. Recorded' /\ StatusIsOnRecord'
    BY <1>1, <1>2, <1>3, RecordKept
  <1>7. WorkHasAnAssignee' /\ OnePending' /\ PublishedOnce'
    BY <1>1, <1>2, AssigneeKept, OnePendingKept, PublishedKept
  <1> QED
    BY <1>3, <1>4, <1>5, <1>6, <1>7 DEF TicketInv

(* However requests interleave, every transaction holds the locks its      *)
(* next write relies on, and what it has read under them is still so.      *)
THEOREM TicketInvariant == Spec => []TicketInv
  BY TicketInit, TicketInvInductive, PTL DEF Spec

(* A ticket counts the runs it stands for, each once (create_from_refusal);*)
(* a run has a ticket exactly when it was refused; and a ticket exists     *)
(* exactly if its event is in the outbox.                                  *)
THEOREM OccurrencesAreCounted == Spec => []OccurrencesCounted
  <1>1. TicketInv => OccurrencesCounted
    BY DEF TicketInv, Counts, OccurrencesCounted, RunsOf
  <1> QED
    BY <1>1, TicketInvariant, PTL

(* The recorded transitions lead, one from where the other ended, from     *)
(* OPEN to the status the ticket has (_record_transition).                 *)
THEOREM StatusStaysOnRecord == Spec => []StatusIsOnRecord
  <1>1. TicketInv => StatusIsOnRecord
    BY DEF TicketInv
  <1> QED
    BY <1>1, TicketInvariant, PTL

(* A ticket at work or resolved has an assignee, however it was reopened   *)
(* and reassigned before (allowed_transitions).                            *)
THEOREM WorkIsAssigned == Spec => []WorkHasAnAssignee
  <1>1. TicketInv => WorkHasAnAssignee
    BY DEF TicketInv
  <1> QED
    BY <1>1, TicketInvariant, PTL

(* One answer of a ticket at most awaits its review, and one is in the     *)
(* knowledge base if and only if it was approved, and then once.           *)
THEOREM AnswersAreReviewedOnce == Spec => []AnswersReviewedOnce
  <1>1. ASSUME OnePending, NEW t \in Ticket
        PROVE  Cardinality(get_pending_candidate_by_ticket(t)) <= 1
    <2> DEFINE S == get_pending_candidate_by_ticket(t)
    <2>1. \A c, d \in S : c = d
      BY <1>1 DEF get_pending_candidate_by_ticket, OnePending
    <2> HIDE DEF S
    <2>2. CASE S = {}
      BY <2>2, FS_EmptySet DEF S
    <2>3. ASSUME NEW c \in S PROVE Cardinality(S) <= 1
      <3>1. S = {c}
        BY <2>1, <2>3
      <3>2. Cardinality({c}) = 1
        BY FS_Singleton
      <3> QED
        BY <3>1, <3>2
    <2> QED
      BY <2>2, <2>3 DEF S
  <1>2. TicketInv => AnswersReviewedOnce
    BY <1>1 DEF TicketInv, AnswersReviewedOnce, PublishedOnce
  <1> QED
    BY <1>2, TicketInvariant, PTL

(* No ticket is opened for a question while another of its key has an      *)
(* occurrence within the window: the advisory lock of the key makes the    *)
(* second refusal see what the first committed.                            *)
THEOREM OneTicketForAWindow == Spec => OneTicketPerWindow
  <1>1. TicketInv /\ [Next]_vars =>
            \A t, u \in Ticket :
                /\ t # u /\ Exists(u) /\ ticket[u].fresh
                /\ ~Exists(t) /\ Exists(t)'
                => ticket'[t].key # ticket[u].key
    <2> SUFFICES ASSUME TicketInv, [Next]_vars, NEW t \in Ticket,
                        NEW u \in Ticket, Exists(u), ticket[u].fresh,
                        ~Exists(t), Exists(t)'
                 PROVE  ticket'[t].key # ticket[u].key
      OBVIOUS
    <2>1. TicketsMove
      BY EveryTicketMoves DEF TicketInv
    <2>2. PICK r \in Request : Opened(r, t)
      BY <2>1 DEF TicketsMove, TicketMoves, SameTicket, Aged, Joined, Moved, Exists
    <2>3. /\ request[r].pc = "record" /\ request[r].ticket = NoTicket
          /\ ticket'[t].key = request[r].key
      BY <2>2 DEF Opened, RecordRefusal, At, NewTicket
    <2>4. FoundNone(r)
      BY DEF TicketInv, TransactionInv
    <2> QED
      BY <2>3, <2>4 DEF FoundNone
  <1> QED
    BY <1>1, TicketInvariant, PTL DEF OneTicketPerWindow, Spec
=============================================================================
