----------------------------- MODULE KnowledgeBase -----------------------------
(***************************************************************************)
(* What publishing promises to questions about the versions of documents:  *)
(* a search finds at most one version of a document, one whose index is    *)
(* complete, and never finds a version again that was withdrawn.  Rows,    *)
(* locks and requests are not part of the promise.                         *)
(*                                                                         *)
(* Publication implements this module; Search is built on it.              *)
(***************************************************************************)
CONSTANTS Document, Version, NoDocument

VARIABLES
    home,        \* the document of a version, NoDocument before its upload
    complete,    \* versions whose chunks all have vectors
    searchable,  \* versions a search may find
    withdrawn    \* versions no search may find any more

vars == <<home, complete, searchable, withdrawn>>

Init ==
    /\ home = [v \in Version |-> NoDocument]
    /\ complete = {}
    /\ searchable = {}
    /\ withdrawn = {}

-----------------------------------------------------------------------------
Add(v, d) ==
    /\ home[v] = NoDocument
    /\ home' = [home EXCEPT ![v] = d]
    /\ UNCHANGED <<complete, searchable, withdrawn>>

Complete(v) ==
    /\ home[v] # NoDocument
    /\ complete' = complete \cup {v}
    /\ UNCHANGED <<home, searchable, withdrawn>>

(* The version takes the place of the one of its document found so far.    *)
Replaced(v) == {u \in searchable : home[u] = home[v]}

Release(v) ==
    /\ v \in complete \ (searchable \cup withdrawn)
    /\ searchable' = (searchable \ Replaced(v)) \cup {v}
    /\ withdrawn' = withdrawn \cup Replaced(v)
    /\ UNCHANGED <<home, complete>>

(* One version, or all versions of a document at once; a deleted one takes *)
(* its chunks along.                                                       *)
Withdraw(d, gone) ==
    /\ gone # {}
    /\ \A v \in gone : home[v] = d
    /\ searchable' = searchable \ gone
    /\ withdrawn' = withdrawn \cup gone
    /\ complete' \in {complete, complete \ gone}
    /\ UNCHANGED home

Next ==
    \/ \E v \in Version : Complete(v) \/ Release(v)
    \/ \E v \in Version, d \in Document : Add(v, d)
    \/ \E d \in Document, gone \in SUBSET Version : Withdraw(d, gone)

Spec == Init /\ [][Next]_vars

-----------------------------------------------------------------------------
TypeOK ==
    /\ home \in [Version -> Document \cup {NoDocument}]
    /\ complete \subseteq Version
    /\ searchable \subseteq Version
    /\ withdrawn \subseteq Version

(* A search finds one version of a document at most, and all of it.        *)
OneAndComplete ==
    /\ \A u, v \in searchable : home[u] = home[v] => u = v
    /\ searchable \subseteq complete
    /\ searchable \cap withdrawn = {}
=============================================================================
