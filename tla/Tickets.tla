-------------------------------- MODULE Tickets --------------------------------
(***************************************************************************)
(* Tickets: those that RefusalTicketService opens or joins for refused     *)
(* questions, the workflow that moves them, and the answers submitted to   *)
(* them, which a reviewer approves into the knowledge base or rejects.     *)
(*                                                                         *)
(* The API serves several requests at once, each in a READ COMMITTED       *)
(* transaction.  Its writes are seen at its commit, which is its last      *)
(* action here; the locks it takes on the way (rows FOR UPDATE, advisory   *)
(* locks) it holds until then.                                             *)
(***************************************************************************)
EXTENDS Naturals, FiniteSets, Sequences

CONSTANTS
    Request,    \* requests the API serves at the same time
    Run,        \* question runs; a run is handed in again when it is retried
    Key,        \* deduplication keys: a system and a normalized question
    Ticket,     \* bound on the tickets; the ids not yet taken are new
    NoTicket,
    Candidate,  \* bound on the answers submitted
    MaxMoves    \* bound on the transitions of all tickets

ASSUME NoTicketIsNone == NoTicket \notin Ticket
ASSUME MovesAssumption == MaxMoves \in Nat

VARIABLES
    ticket,      \* tickets
    decision,    \* evidence_decisions.outcome, by run
    occurrence,  \* ticket_occurrences: the ticket of a run
    moves,       \* ticket_transitions, by ticket
    candidate,   \* knowledge_candidates
    published,   \* the knowledge sources, each with its chunk, of a candidate
    outbox,      \* outbox_events, which Notifications prepares and sends
    request,     \* what each request under way remembers
    held         \* the locks its transaction holds

answers == <<candidate, published>>
refusals == <<decision, occurrence>>
vars == <<ticket, decision, occurrence, moves, candidate, published, outbox,
          request, held>>

-----------------------------------------------------------------------------
TicketStatus == {"OPEN", "ASSIGNED", "IN_PROGRESS", "RESOLVED", "CLOSED"}

(* Who owns the system and may work on its tickets is checked on the way   *)
(* in; the assignee is whoever the request names.                          *)
(* updated_at is within the deduplication window if the last occurrence    *)
(* is (`fresh`) or a later transition is (`touched`).                      *)
TicketRow == [status   : TicketStatus,
              key      : Key,
              assigned : BOOLEAN,   \* assignee_id is set
              count    : Nat,       \* occurrence_count
              fresh    : BOOLEAN,
              touched  : BOOLEAN]

Absent == [status |-> "ABSENT"]

NewTicket(k) == [status |-> "OPEN", key |-> k, assigned |-> FALSE,
                 count |-> 1, fresh |-> TRUE, touched |-> FALSE]

Exists(t) == ticket[t] # Absent

Recent(row) == row.fresh \/ row.touched

allowed_transitions ==
    [OPEN        |-> {"ASSIGNED", "CLOSED"},
     ASSIGNED    |-> {"IN_PROGRESS", "OPEN", "CLOSED"},
     IN_PROGRESS |-> {"RESOLVED", "ASSIGNED", "OPEN"},
     RESOLVED    |-> {"CLOSED", "IN_PROGRESS"},
     CLOSED      |-> {"OPEN"}]

(* The operations of the workflow and the status each moves a ticket to.   *)
Operation == {"assign", "start", "resolve", "close", "reopen"}

target == [assign  |-> "ASSIGNED",
           start   |-> "IN_PROGRESS",
           resolve |-> "RESOLVED",
           close   |-> "CLOSED",
           reopen  |-> "OPEN"]

Transition == [from : TicketStatus, to : TicketStatus]

(* APPROVED is never set.                                                  *)
CandidateStatus == {"PENDING", "PUBLISHED", "REJECTED"}

CandidateRow == [status : CandidateStatus, ticket : Ticket]

Event == [type : {"ticket_created", "ticket_replied"}, ticket : Ticket]

Created(t) == [type |-> "ticket_created", ticket |-> t]

Replied(t) == [type |-> "ticket_replied", ticket |-> t]

ReplyAuthorRole == {"REQUESTER", "ASSIGNEE", "REVIEWER"}

AccountRole == {"USER", "SYSTEM_OWNER", "ADMIN"}

(* What the names lock are the rows of Ticket and Candidate, and the       *)
(* advisory locks of Run and Key.                                          *)
Lockable == Run \cup Key \cup Ticket \cup Candidate

Frame == [pc : {"idle"}]
    \cup [pc : {"deduplicate", "lookup"}, run : Run, key : Key]
    \cup [pc : {"record"}, run : Run, key : Key, ticket : Ticket \cup {NoTicket}]
    \cup [pc : Operation \cup {"submit"}, ticket : Ticket, status : TicketStatus]
    \cup [pc : {"embed", "publish"}, candidate : Candidate]

Idle == [pc |-> "idle"]

At(r, pc) == request[r].pc = pc

Goto(r, frame) == request' = [request EXCEPT ![r] = frame]

-----------------------------------------------------------------------------
(* Locks.  Each is free unless a transaction holds it; the end of the      *)
(* transaction, commit or rollback, gives up all it holds.                 *)
Free(x) == \A r \in Request : x \notin held[r]

Lock(r, locks) == held' = [held EXCEPT ![r] = @ \cup locks]

End(r) == Goto(r, Idle) /\ held' = [held EXCEPT ![r] = {}]

(* Mutants: a lock that is not waited for.                                 *)
DeduplicationLockLeftOut(k) == k \in Key
TicketLockLeftOut(t) == t \in Ticket

DeduplicationLock(k) == Free(k)

TicketLock(t) == Free(t)

Init ==
    /\ ticket = [t \in Ticket |-> Absent]
    /\ decision = [n \in Run |-> "none"]
    /\ occurrence = [n \in Run |-> NoTicket]
    /\ moves = [t \in Ticket |-> <<>>]
    /\ candidate = [c \in Candidate |-> Absent]
    /\ published = [c \in Candidate |-> 0]
    /\ outbox = {}
    /\ request = [r \in Request |-> Idle]
    /\ held = [r \in Request |-> {}]

-----------------------------------------------------------------------------
(* create_from_refusal                                                     *)

Handled(n) == occurrence[n] # NoTicket \/ decision[n] # "none"

(* A run that has its ticket is answered with it, or with a conflict if    *)
(* the requester is another; a run decided otherwise is a conflict.        *)
Refuse(r, n, k) ==
    /\ At(r, "idle")
    /\ Free(n)
    /\ ~Handled(n)
    /\ Goto(r, [pc |-> "deduplicate", run |-> n, key |-> k])
    /\ Lock(r, {n})
    /\ UNCHANGED <<ticket, refusals, moves, answers, outbox>>

Deduplicate(r) ==
    /\ At(r, "deduplicate")
    /\ DeduplicationLock(request[r].key)
    /\ Goto(r, [request[r] EXCEPT !.pc = "lookup"])
    /\ Lock(r, {request[r].key})
    /\ UNCHANGED <<ticket, refusals, moves, answers, outbox>>

(* All tickets that match are locked; the query has no order, and the      *)
(* first is taken, whatever its status.                                    *)
Lookup(r) ==
    LET k == request[r].key
        found == {t \in Ticket : /\ Exists(t)
                                 /\ ticket[t].key = k
                                 /\ Recent(ticket[t])}
    IN  /\ At(r, "lookup")
        /\ \A t \in found : TicketLock(t)
        /\ \E t \in IF found = {} THEN {NoTicket} ELSE found :
               Goto(r, [pc |-> "record", run |-> request[r].run, key |-> k,
                        ticket |-> t])
        /\ Lock(r, found)
        /\ UNCHANGED <<ticket, refusals, moves, answers, outbox>>

add_ticket(t, k) ==
    /\ ~Exists(t)
    /\ ticket' = [ticket EXCEPT ![t] = NewTicket(k)]
    /\ outbox' = outbox \cup {Created(t)}

(* Mutant of UniqueRun: a run may be decided twice.                        *)
AnyRun(n) == n \in Run

increment_ticket_occurrence(row) ==
    [row EXCEPT !.count = @ + 1, !.fresh = TRUE, !.touched = FALSE]

(* evidence_decisions.run_id is unique.                                    *)
UniqueRun(n) == decision[n] = "none"

RecordRefusal(r) ==
    LET n == request[r].run
    IN  /\ At(r, "record")
        /\ UniqueRun(n)
        /\ \E t \in Ticket :
               /\ \/ request[r].ticket = NoTicket /\ add_ticket(t, request[r].key)
                  \/ /\ request[r].ticket = t
                     /\ ticket' = [ticket EXCEPT
                                       ![t] = increment_ticket_occurrence(@)]
                     /\ UNCHANGED outbox
               /\ occurrence' = [occurrence EXCEPT ![n] = t]
        /\ decision' = [decision EXCEPT ![n] = "refusal"]
        /\ End(r)
        /\ UNCHANGED <<moves, answers>>

(* record_sufficient, which takes no lock.                                 *)
RecordSufficient(n) ==
    /\ UniqueRun(n)
    /\ decision' = [decision EXCEPT ![n] = "sufficient"]
    /\ UNCHANGED <<ticket, occurrence, moves, answers, outbox, request, held>>

-----------------------------------------------------------------------------
(* TicketWorkflowService.  Every operation locks the ticket, looks at its  *)
(* status and writes the new one, with the transition, before it commits.  *)

(* Mutant: only a transition to the same status is refused.                *)
ChangesStatus(from, to) == from # to

_assert_transition(from, to) == to \in allowed_transitions[from]

LockTicket(r, t, op) ==
    /\ At(r, "idle")
    /\ Exists(t)
    /\ TicketLock(t)
    /\ Goto(r, [pc |-> op, ticket |-> t, status |-> ticket[t].status])
    /\ Lock(r, {t})
    /\ UNCHANGED <<ticket, refusals, moves, answers, outbox>>

LockToMove(r, t, op) ==
    /\ LockTicket(r, t, op)
    /\ _assert_transition(ticket[t].status, target[op])

assign_ticket(r, t) == LockToMove(r, t, "assign")
start_ticket(r, t) == LockToMove(r, t, "start")
resolve_ticket(r, t) == LockToMove(r, t, "resolve")
close_ticket(r, t) == LockToMove(r, t, "close")
reopen_ticket(r, t) == LockToMove(r, t, "reopen")

(* Only an assignment names an assignee; no operation takes it away.       *)
update_ticket_status(row, status, assigns) ==
    [row EXCEPT !.status = status, !.touched = TRUE, !.assigned = @ \/ assigns]

_record_transition(t, from, to) ==
    /\ Cardinality({m \in Ticket \X (1..MaxMoves) : m[2] <= Len(moves[m[1]])})
           < MaxMoves
    /\ moves' = [moves EXCEPT ![t] = Append(@, [from |-> from, to |-> to])]

Move(r, op) ==
    LET t == request[r].ticket
    IN  /\ At(r, op)
        /\ _record_transition(t, request[r].status, target[op])
        /\ ticket' = [ticket EXCEPT
                         ![t] = update_ticket_status(@, target[op], op = "assign")]
        /\ End(r)
        /\ UNCHANGED <<refusals, answers>>

assign(r) == Move(r, "assign") /\ UNCHANGED outbox
start(r) == Move(r, "start") /\ UNCHANGED outbox
resolve(r) == Move(r, "resolve") /\ UNCHANGED outbox
reopen(r) == Move(r, "reopen") /\ UNCHANGED outbox

(* The requester may be the assignee: the first comes first.               *)
_infer_role(t) == {role \in ReplyAuthorRole :
                      role = "ASSIGNEE" => ticket[t].assigned}

(* owns: the account has the owner's assignment to the ticket's system.    *)
_reply_notifies_requester(role, account, owns) ==
    \/ role = "ASSIGNEE"
    \/ /\ role = "REVIEWER"
       /\ account = "ADMIN" \/ (account = "SYSTEM_OWNER" /\ owns)

(* Replies are only added; what they leave here is their event.            *)
add_reply(t) ==
    \E tells \in {_reply_notifies_requester(role, account, owns) :
                   role \in _infer_role(t), account \in AccountRole,
                   owns \in BOOLEAN} :
        outbox' = outbox \cup IF tells THEN {Replied(t)} ELSE {}

(* The request has the ticket's lock from the reading of the roles to the  *)
(* commit, and no part of it can be told from the outside.                 *)
reply(t) == Exists(t) /\ TicketLock(t) /\ add_reply(t)

reply_ticket(t) ==
    /\ reply(t)
    /\ UNCHANGED <<ticket, refusals, moves, answers, request, held>>

(* With a body, the closing is also a reply.                               *)
close(r) ==
    /\ Move(r, "close")
    /\ UNCHANGED outbox \/ add_reply(request[r].ticket)

-----------------------------------------------------------------------------
(* KnowledgeReviewService                                                  *)

Pending(c) == candidate[c].status = "PENDING"

get_pending_candidate_by_ticket(t) ==
    {c \in Candidate : Pending(c) /\ candidate[c].ticket = t}

(* The ticket's lock stands for that of its answers.                       *)
submit_ticket_answer(r, t) ==
    /\ LockTicket(r, t, "submit")
    /\ get_pending_candidate_by_ticket(t) = {}

add_candidate(t) ==
    \E c \in Candidate :
        /\ candidate[c] = Absent
        /\ candidate' = [candidate EXCEPT
                             ![c] = [status |-> "PENDING", ticket |-> t]]

submit_answer(r) ==
    /\ At(r, "submit")
    /\ add_candidate(request[r].ticket)
    /\ End(r)
    /\ UNCHANGED <<ticket, refusals, moves, published, outbox>>

(* approve: no lock is held while the provider embeds the answer.          *)
approve_candidate(r, c) ==
    /\ At(r, "idle")
    /\ Pending(c)
    /\ Goto(r, [pc |-> "embed", candidate |-> c])
    /\ UNCHANGED <<ticket, refusals, moves, answers, outbox, held>>

(* Mutant of StillPending: the check before the embedding is relied on.    *)
WasPending(c) == candidate[c] # Absent

StillPending(c) == Pending(c)

approve(r) ==
    LET c == request[r].candidate
    IN  /\ At(r, "embed")
        /\ Free(c)
        /\ StillPending(c)
        /\ Goto(r, [request[r] EXCEPT !.pc = "publish"])
        /\ Lock(r, {c})
        /\ UNCHANGED <<ticket, refusals, moves, answers, outbox>>

(* The new source refers to the ticket, whose row it must not be locked    *)
(* for update; its one chunk is searched for from the commit on.           *)
create_ticket_knowledge_source(c) ==
    /\ Free(candidate[c].ticket)
    /\ published' = [published EXCEPT ![c] = @ + 1]

publish_candidate(r) ==
    LET c == request[r].candidate
    IN  /\ At(r, "publish")
        /\ create_ticket_knowledge_source(c)
        /\ candidate' = [candidate EXCEPT ![c].status = "PUBLISHED"]
        /\ End(r)
        /\ UNCHANGED <<ticket, refusals, moves, outbox>>

(* From the lock to the commit, as in reply_ticket.                        *)
reject(c) ==
    /\ Free(c)
    /\ Pending(c)
    /\ candidate' = [candidate EXCEPT ![c].status = "REJECTED"]

reject_candidate(c) ==
    /\ reject(c)
    /\ UNCHANGED <<ticket, refusals, moves, published, outbox, request, held>>

-----------------------------------------------------------------------------
(* An error on the way - a conflict, the provider, the database - or a     *)
(* crash: the transaction is rolled back.                                  *)
RollBack(r) ==
    /\ ~At(r, "idle")
    /\ End(r)
    /\ UNCHANGED <<ticket, refusals, moves, answers, outbox>>

(* The deduplication window passes the last occurrence, and the last       *)
(* transition after it.                                                    *)
WindowPasses(t) ==
    /\ Exists(t)
    /\ \/ ticket[t].fresh /\ ticket' = [ticket EXCEPT ![t].fresh = FALSE]
       \/ /\ ticket[t].touched /\ ~ticket[t].fresh
          /\ ticket' = [ticket EXCEPT ![t].touched = FALSE]
    /\ UNCHANGED <<refusals, moves, answers, outbox, request, held>>

RefusalStep(r) ==
    \/ \E n \in Run, k \in Key : Refuse(r, n, k)
    \/ Deduplicate(r) \/ Lookup(r) \/ RecordRefusal(r)

WorkflowStep(r) ==
    \/ \E t \in Ticket :
           \/ assign_ticket(r, t) \/ start_ticket(r, t) \/ resolve_ticket(r, t)
           \/ close_ticket(r, t) \/ reopen_ticket(r, t)
    \/ assign(r) \/ start(r) \/ resolve(r) \/ close(r) \/ reopen(r)

ReviewStep(r) ==
    \/ \E t \in Ticket : submit_ticket_answer(r, t)
    \/ submit_answer(r)
    \/ \E c \in Candidate : approve_candidate(r, c)
    \/ approve(r) \/ publish_candidate(r)

Next ==
    \/ \E r \in Request :
           RefusalStep(r) \/ WorkflowStep(r) \/ ReviewStep(r) \/ RollBack(r)
    \/ \E n \in Run : RecordSufficient(n)
    \/ \E t \in Ticket : reply_ticket(t) \/ WindowPasses(t)
    \/ \E c \in Candidate : reject_candidate(c)

Spec == Init /\ [][Next]_vars

-----------------------------------------------------------------------------
(* Every variable holds a value of its type, and no two transactions hold  *)
(* the same lock.                                                          *)
TypeOK ==
    /\ ticket \in [Ticket -> TicketRow \cup {Absent}]
    /\ decision \in [Run -> {"none", "sufficient", "refusal"}]
    /\ occurrence \in [Run -> Ticket \cup {NoTicket}]
    /\ moves \in [Ticket -> Seq(Transition)]
    /\ candidate \in [Candidate -> CandidateRow \cup {Absent}]
    /\ published \in [Candidate -> Nat]
    /\ outbox \subseteq Event
    /\ request \in [Request -> Frame]
    /\ held \in [Request -> SUBSET Lockable]
    /\ \A r, s \in Request : r = s \/ held[r] \cap held[s] = {}

(* The same question asked again within the window joins its ticket: none  *)
(* is opened while another of the key has an occurrence within the window, *)
(* however the refusals and the workflow interleave.                       *)
OneTicketPerWindow ==
    [][\A t, u \in Ticket :
          /\ t # u /\ Exists(u) /\ ticket[u].fresh
          /\ ~Exists(t) /\ Exists(t)'
          => ticket'[t].key # ticket[u].key]_vars

(* A ticket counts the runs it stands for, each once, retried or not; a    *)
(* run has a ticket exactly when it was refused; and the event of a new    *)
(* ticket is in the outbox exactly if the ticket was committed.  The       *)
(* variables keep their types, and locks exclude each other.               *)
OccurrencesCounted ==
    /\ TypeOK
    /\ \A t \in Ticket : Exists(t) =>
           ticket[t].count = Cardinality({n \in Run : occurrence[n] = t})
    /\ \A n \in Run : decision[n] = "refusal" <=> occurrence[n] # NoTicket
    /\ \A t \in Ticket : Exists(t) <=> Created(t) \in outbox

(* The transitions on record lead, one from where the other ended, from    *)
(* OPEN to the status the ticket has.                                      *)
StatusIsOnRecord ==
    \A t \in Ticket : Exists(t) =>
        LET log == moves[t]
            reached == [i \in 0..Len(log) |-> IF i = 0 THEN "OPEN" ELSE log[i].to]
        IN  /\ \A i \in 1..Len(log) : log[i].from = reached[i - 1]
            /\ ticket[t].status = reached[Len(log)]

(* Work on a ticket always is somebody's: however it was reopened, closed  *)
(* and reassigned before, a ticket at work or resolved has an assignee.    *)
WorkHasAnAssignee ==
    \A t \in Ticket : Exists(t) =>
        (ticket[t].status \in {"ASSIGNED", "IN_PROGRESS", "RESOLVED"}
            => ticket[t].assigned)

(* A ticket waits for the review of one answer at most; and an answer is   *)
(* in the knowledge base if and only if it was approved, and then once:    *)
(* never because an approval and another review of it crossed while the    *)
(* provider embedded it.                                                   *)
AnswersReviewedOnce ==
    /\ \A t \in Ticket : Cardinality(get_pending_candidate_by_ticket(t)) <= 1
    /\ \A c \in Candidate :
           published[c] = IF candidate[c].status = "PUBLISHED" THEN 1 ELSE 0
=============================================================================
