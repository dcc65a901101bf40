------------------------------- MODULE MCTickets -------------------------------
(* Tickets on a small instance. *)
EXTENDS Tickets, TLC

Symmetry ==
    Permutations(Request) \cup Permutations(Run) \cup Permutations(Ticket)
        \cup Permutations(Candidate)
=============================================================================
