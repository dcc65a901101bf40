---------------------------- MODULE UploadLifecycle ----------------------------
(***************************************************************************)
(* What the ingestion pipeline promises the rest of the system about an    *)
(* uploaded document version: it is worked on, and ends ready with a full  *)
(* index or failed; a failed one may be tried again, a ready one is final, *)
(* and an index never shrinks.  Workers, leases, batches, messages and     *)
(* attempts are not part of the promise.                                   *)
(*                                                                         *)
(* Ingestion implements this module; Publication is built on it.           *)
(***************************************************************************)

CONSTANT Upload    \* a document version and its ingestion job

VARIABLES
    phase,    \* what the job's status means to others
    index     \* the chunks of the version and their vectors

vars == <<phase, index>>

Phase == {"none", "working", "ready", "failed"}

Index == {"none", "partial", "full"}

Init ==
    /\ phase = [u \in Upload |-> "none"]
    /\ index = [u \in Upload |-> "none"]

-----------------------------------------------------------------------------
Accept(u) ==
    /\ phase[u] = "none"
    /\ phase' = [phase EXCEPT ![u] = "working"]
    /\ UNCHANGED index

(* Chunks are created, or the last vectors are written.  A task that has   *)
(* lost its job may still do so.                                           *)
Grow(u) ==
    /\ phase[u] # "none"
    /\ \/ index[u] = "none" /\ index' = [index EXCEPT ![u] = "partial"]
       \/ index[u] = "partial" /\ index' = [index EXCEPT ![u] = "full"]
    /\ UNCHANGED phase

Succeed(u) ==
    /\ phase[u] = "working"
    /\ index[u] = "full"
    /\ phase' = [phase EXCEPT ![u] = "ready"]
    /\ UNCHANGED index

(* The recovery scan gives several uploads up in one transaction.          *)
Fail(failing) ==
    /\ \A u \in failing : phase[u] = "working"
    /\ phase' = [u \in Upload |-> IF u \in failing THEN "failed" ELSE phase[u]]
    /\ UNCHANGED index

Retry(u) ==
    /\ phase[u] = "failed"
    /\ phase' = [phase EXCEPT ![u] = "working"]
    /\ UNCHANGED index

Settle(u) ==
    Succeed(u) \/ \E failing \in SUBSET Upload : u \in failing /\ Fail(failing)

Next ==
    \/ \E u \in Upload : Accept(u) \/ Grow(u) \/ Succeed(u) \/ Retry(u)
    \/ \E failing \in SUBSET Upload : Fail(failing)

Spec == Init /\ [][Next]_vars

FairSpec == Spec /\ \A u \in Upload : WF_vars(Settle(u))
=============================================================================
