--------------------------- MODULE PublicationProofs ---------------------------
(***************************************************************************)
(* Proofs about Publication, for any number of documents, versions, keys   *)
(* and requests: its properties, and that it implements KnowledgeBase.     *)
(***************************************************************************)
EXTENDS PublicationRefinement, TLAPS

USE NonesAreNone

-----------------------------------------------------------------------------
(* The parts of the inductive invariant: what the rows say of each other,  *)
(* what a handler remembers of them, and how two handlers keep apart.      *)
VersionRow(v) ==
    /\ Present(v) => /\ phase[v] # "none" /\ v \in objects
                     /\ document[version[v].document].row = "present"
    /\ ~Present(v) => phase[v] = "none" /\ index[v] = "none"
    /\ version[v].row = "absent" <=> version[v].document = NoDocument
    /\ phase[v] = "ready" => index[v] = "full"

(* The three statuses of a version agree.                                  *)
VersionStatus(v) ==
    \E status \in PublicationStatus :
        /\ published[v] = Everywhere(status)
        /\ status # "DRAFT" => index[v] # "none"

CurrentIsPublished(d, v) ==
    document[d].current = v <=>
        published[v].version = "PUBLISHED" /\ version[v].document = d

(* Where an operation can be.                                              *)
OnItsWay(h) ==
    \/ h.op = "upload" /\ h.at \in {"lock_document", "insert"}
          /\ (h.first => h.at = "insert")
    \/ h.op \in {"publish", "retire"} /\ h.at \in {"lock_document", "lock_version"}
    \/ h.op \in {"delete_version", "delete_document"}
          /\ h.at \in {"lock_document", "lock_version", "check_jobs",
                       "delete_rows", "delete_objects"}
    \/ h.op = "retry" /\ h.at = "update_version"

Deleting == {"check_jobs", "delete_rows"}

Sound(h) ==
    /\ OnItsWay(h)
    /\ h.op # "delete_document" => \E v \in Version : h.versions = {v}
    /\ \A v \in h.versions :
          /\ h.op = "upload" => version[v].row = "absent"
          /\ h.op # "upload" => /\ version[v].row # "absent"
                                /\ version[v].document = h.document
          /\ h.at \in Deleting => Present(v)
          /\ h.at = "delete_rows" => phase[v] \in {"ready", "failed"}
          /\ h.at = "delete_objects" => ~Present(v)
    /\ h.op = "delete_document" /\ h.at \in Deleting =>
          VersionsOf(h.document) \subseteq h.versions
    /\ h.op = "upload" /\ h.at = "insert" /\ h.first =>
          document[h.document].row = "absent"

(* The object of an upload is there before its row is.                     *)
ObjectStored(h) == h.op = "upload" => h.versions \subseteq objects

(* The document h has locked.                                              *)
Locking(h) ==
    \/ h.at = "insert" /\ ~h.first
    \/ h.at \in {"lock_version", "check_jobs", "delete_rows"}

Creating(h) == h.op = "upload" /\ h.at = "insert" /\ h.first

Apart(h, k) ==
    /\ h.op = "upload" => h.versions \cap k.versions = {}
    /\ Creating(h) => h.document # k.document
    /\ Locking(h) /\ Locking(k) => h.document # k.document

PubInv ==
    /\ TypeOK
    /\ \A v \in Version : VersionRow(v) /\ VersionStatus(v)
    /\ \A d \in Document, v \in Version : CurrentIsPublished(d, v)
    /\ \A r \in Busy : Sound(request[r]) /\ ObjectStored(request[r])
    /\ \A r, s \in Busy : r # s => Apart(request[r], request[s])

-----------------------------------------------------------------------------
(* What follows from the invariant.                                        *)
LEMMA IdleIsNoHandler == Idle \notin Handler
  BY DEF Idle, Handler

LEMMA HandlerFields ==
    ASSUME PubInv, NEW r \in Busy
    PROVE  /\ request[r] \in Handler
           /\ request[r].document \in Document
           /\ request[r].versions \subseteq Version
  BY DEF PubInv, TypeOK, Busy, Handler

(* A handler that goes on is a handler.                                    *)
LEMMA HandlerMoves ==
    ASSUME NEW h \in Handler,
           NEW at \in {"insert", "lock_version", "check_jobs", "delete_rows",
                       "delete_objects"}
    PROVE  /\ [h EXCEPT !.at = at] \in Handler
           /\ \A no \in Nat : [h EXCEPT !.at = at, !.no = no] \in Handler
           /\ \A versions \in SUBSET Version :
                 [h EXCEPT !.at = at, !.versions = versions] \in Handler
  BY DEF Handler

LEMMA SearchableIsPublished ==
    ASSUME PubInv, NEW v \in Version
    PROVE  /\ Searchable(v) <=> published[v].version = "PUBLISHED"
           /\ published[v].version # "DRAFT" => Present(v) /\ index[v] # "none"
  BY DEF PubInv, VersionRow, VersionStatus, Searchable, Everywhere,
     PublicationStatus

(* Another request does not hold what this one has locked.                 *)
LEMMA LocksAreDocuments ==
    ASSUME PubInv, NEW r \in Busy, NEW d \in Document
    PROVE  LocksDocument(r, d) <=> Locking(request[r]) /\ request[r].document = d
  BY DEF LocksDocument, Locking

-----------------------------------------------------------------------------
(* Steps of a handler that touch no row.                                   *)
LEMMA RowsKept ==
    ASSUME PubInv, NEW r \in Request, NEW f \in Handler \cup {Idle},
           request' = [request EXCEPT ![r] = f],
           UNCHANGED <<document, version, published, phase, index>>,
           objects' \subseteq Version,
           \A v \in objects \ objects' :
               /\ r \in Busy /\ v \in request[r].versions
               /\ request[r].op = "upload" \/ request[r].at = "delete_objects",
           f # Idle => /\ Sound(f)
                       /\ f.op = "upload" => f.versions \subseteq objects'
                       /\ \A s \in Busy \ {r} :
                             Apart(f, request[s]) /\ Apart(request[s], f)
    PROVE  PubInv'
  <1>1. TypeOK'
    BY DEF PubInv, TypeOK
  <1>2. \A s \in Request : request'[s] = IF s = r THEN f ELSE request[s]
    BY DEF PubInv, TypeOK
  <1>3. ASSUME NEW v \in Version PROVE (VersionRow(v) /\ VersionStatus(v))'
    <2>1. ASSUME Present(v) PROVE v \in objects'
      <3>1. v \in objects
        BY <2>1 DEF PubInv, VersionRow
      <3>2. ~(r \in Busy /\ v \in request[r].versions
                /\ (request[r].op = "upload" \/ request[r].at = "delete_objects"))
        BY <2>1 DEF PubInv, Sound, Present
      <3> QED
        BY <3>1, <3>2
    <2> QED
      BY <2>1 DEF PubInv, VersionRow, VersionStatus, Present
  <1>4. \A d \in Document, v \in Version : CurrentIsPublished(d, v)'
    BY DEF PubInv, CurrentIsPublished
  <1>5. ASSUME NEW s \in Busy' PROVE (Sound(request[s]) /\ ObjectStored(request[s]))'
    <2>1. ASSUME s = r PROVE (Sound(request[s]) /\ ObjectStored(request[s]))'
      BY <1>2, <1>5, <2>1 DEF Busy, Sound, ObjectStored, Present, VersionsOf, OnItsWay
    <2>2. ASSUME s # r PROVE (Sound(request[s]) /\ ObjectStored(request[s]))'
      <3>1. s \in Busy /\ request'[s] = request[s]
        BY <1>2, <1>5, <2>2 DEF Busy
      <3>2. ObjectStored(request[s])'
        BY <3>1, <2>2 DEF PubInv, ObjectStored, Apart, Sound, Present
      <3> QED
        BY <3>1, <3>2 DEF PubInv, Sound, Present, VersionsOf, OnItsWay
    <2> QED
      BY <2>1, <2>2
  <1>6. ASSUME NEW q \in Busy', NEW s \in Busy', q # s
        PROVE  Apart(request[q], request[s])'
    BY <1>2, <1>6 DEF PubInv, Busy, Apart, Creating, Locking
  <1> QED
    BY <1>1, <1>3, <1>4, <1>5, <1>6 DEF PubInv

(* A request ends, or is aborted, without a write.                         *)
LEMMA Ends ==
    ASSUME PubInv, NEW r \in Busy, End(r),
           UNCHANGED <<document, version, published, phase, index>>,
           \/ objects' = objects
           \/ /\ request[r].op = "upload" \/ request[r].at = "delete_objects"
              /\ DeleteObjects(request[r].versions)
    PROVE  PubInv'
  <1>1. objects' \subseteq Version
    BY DEF PubInv, TypeOK, DeleteObjects
  <1>2. \A v \in objects \ objects' :
            /\ v \in request[r].versions
            /\ request[r].op = "upload" \/ request[r].at = "delete_objects"
    BY DEF DeleteObjects
  <1>3. request' = [request EXCEPT ![r] = Idle] /\ r \in Request
    BY DEF End, GoOn, Busy
  <1> QED
    BY <1>1, <1>2, <1>3, RowsKept

LEMMA StoreObjectKeeps ==
    ASSUME PubInv, NEW r \in Request, NEW d \in Document, NEW k \in Key,
           UploadVersion(r, d, k) \/ UploadDocument(r, d, k)
    PROVE  PubInv'
  <1>1. PICK v \in Version, at \in {"lock_document", "insert"}, first \in BOOLEAN :
           /\ first <=> at = "insert"
           /\ Fresh(v) /\ objects' = objects \cup {v}
           /\ GoOn(r, [op |-> "upload", at |-> at, document |-> d,
                       versions |-> {v}, no |-> 1, key |-> k, first |-> first])
           /\ UNCHANGED <<document, version, published, phase, index>>
           /\ request[r] = Idle
           /\ first => /\ document[d].row = "absent"
                       /\ \A s \in Busy : request[s].document # d
           /\ ~first => document[d].row = "present"
    BY DEF UploadVersion, UploadDocument, StoreObject
  <1> DEFINE f == [op |-> "upload", at |-> at, document |-> d, versions |-> {v},
                   no |-> 1, key |-> k, first |-> first]
  <1>2. request' = [request EXCEPT ![r] = f]
    BY <1>1 DEF GoOn
  <1>3. f \in Handler
    BY DEF Handler, Operation
  <1>4. Sound(f)
    BY <1>1 DEF Sound, OnItsWay, Deleting, Fresh
  <1>5. ASSUME NEW s \in Busy \ {r} PROVE Apart(f, request[s]) /\ Apart(request[s], f)
    <2>1. v \notin request[s].versions /\ Sound(request[s])
      BY <1>1 DEF Fresh, PubInv
    <2> QED
      BY <1>1, <2>1 DEF Apart, Creating, Locking, Sound
  <1>6. objects' \subseteq Version /\ objects \subseteq objects' /\ f.versions \subseteq objects'
    BY <1>1 DEF PubInv, TypeOK
  <1> HIDE DEF f
  <1> QED
    BY <1>1, <1>2, <1>3, <1>4, <1>5, <1>6, RowsKept

(* A request goes on with f, and the object store is left alone.           *)
LEMMA GoesOn ==
    ASSUME PubInv, NEW r \in Request, NEW f \in Handler,
           GoOn(r, f), UNCHANGED <<document, version, published, phase, index, objects>>,
           Sound(f), ObjectStored(f),
           \A s \in Busy \ {r} : Apart(f, request[s]) /\ Apart(request[s], f)
    PROVE  PubInv'
  <1>1. objects' \subseteq Version /\ \A v \in objects \ objects' : FALSE
    BY DEF PubInv, TypeOK
  <1>2. f.op = "upload" => f.versions \subseteq objects'
    BY DEF ObjectStored
  <1> QED
    BY <1>1, <1>2, RowsKept DEF GoOn

LEMMA NextVersionNoKeeps ==
    ASSUME PubInv, NEW r \in Request, NextVersionNo(r)
    PROVE  PubInv'
  <1> DEFINE h == request[r]
  <1>1. PICK latest \in LatestNo(h.document) :
           GoOn(r, [h EXCEPT !.at = "insert", !.no = latest + 1])
    BY DEF NextVersionNo
  <1> DEFINE f == [h EXCEPT !.at = "insert", !.no = latest + 1]
  <1>2. /\ h.at = "lock_document" /\ h.op = "upload" /\ r \in Busy
        /\ document[h.document].row = "present" /\ DocumentFree(r, h.document)
        /\ UNCHANGED <<document, version, published, phase, index, objects>>
    BY DEF NextVersionNo, Busy, Idle
  <1>3. h \in Handler /\ Sound(h) /\ ObjectStored(h)
    BY <1>2, HandlerFields DEF PubInv
  <1>4. latest \in Nat /\ latest + 1 \in Nat
    BY <1>3 DEF LatestNo, PubInv, TypeOK, VersionRecord, VersionsOf
  <1>5. f \in Handler
    <2> HIDE DEF h
    <2> QED
      BY <1>3, <1>4, HandlerMoves
  <1>6. /\ f.op = h.op /\ f.at = "insert" /\ f.document = h.document
        /\ f.versions = h.versions /\ f.first = h.first
    BY <1>3 DEF Handler
  <1>7. Sound(f) /\ ObjectStored(f)
    <2> HIDE DEF f
    <2>1. f.op = "upload" /\ f.at = "insert"
      BY <1>2, <1>6
    <2>2. OnItsWay(f)
      BY <2>1 DEF OnItsWay
    <2>3. ~f.first
      BY <1>2, <1>3, <1>6 DEF Sound, OnItsWay
    <2>4. ObjectStored(f)
      BY <1>2, <1>3, <1>6 DEF ObjectStored
    <2>5. Sound(f)
      BY <1>2, <1>3, <1>6, <2>1, <2>2, <2>3 DEF Sound, Deleting
    <2> QED
      BY <2>4, <2>5
  <1>8. ASSUME NEW s \in Busy \ {r} PROVE Apart(f, request[s]) /\ Apart(request[s], f)
    <2>1. Apart(h, request[s]) /\ Apart(request[s], h)
      BY <1>2, <1>8 DEF PubInv
    <2>2. ~(Locking(request[s]) /\ request[s].document = h.document)
      BY <1>2, <1>8, HandlerFields, LocksAreDocuments DEF DocumentFree
    <2>3. ~Creating(request[s]) \/ request[s].document # h.document
      BY <1>2 DEF PubInv, Sound, Creating
    <2>4. Creating(f) => document[h.document].row = "absent"
      BY <1>6, <1>7 DEF Creating, Sound
    <2> QED
      BY <1>2, <1>6, <2>1, <2>2, <2>3, <2>4 DEF Apart
  <1> HIDE DEF f
  <1> QED
    BY <1>1, <1>2, <1>5, <1>7, <1>8, GoesOn DEF f

(* A request starts on versions that are there.                            *)
LEMMA Starts ==
    ASSUME PubInv, NEW r \in Request, NEW d \in Document,
           NEW versions \in SUBSET Version,
           NEW op \in Operation \ {"upload"}, NEW at \in {"lock_document", "update_version"},
           op = "retry" <=> at = "update_version",
           op # "delete_document" => \E v \in Version : versions = {v},
           \A v \in versions : Present(v) /\ version[v].document = d,
           document[d].row = "present", request[r] = Idle,
           GoOn(r, Handle(op, at, d, versions)),
           UNCHANGED <<document, version, published, phase, index, objects>>
    PROVE  PubInv'
  <1> DEFINE f == Handle(op, at, d, versions)
  <1>1. f \in Handler
    BY DEF Handler, Handle
  <1>2. /\ f.op = op /\ f.at = at /\ f.document = d /\ f.versions = versions
    BY DEF Handle
  <1> HIDE DEF f
  <1>3. OnItsWay(f)
    BY <1>2 DEF OnItsWay, Operation
  <1>4. Sound(f) /\ ObjectStored(f)
    BY <1>2, <1>3 DEF Sound, Deleting, ObjectStored, Present
  <1>5. ASSUME NEW s \in Busy \ {r} PROVE Apart(f, request[s]) /\ Apart(request[s], f)
    <2>1. Sound(request[s])
      BY DEF PubInv
    <2>2. request[s].op = "upload" => versions \cap request[s].versions = {}
      BY <2>1 DEF Sound, Present
    <2>3. Creating(request[s]) => request[s].document # d
      BY <2>1 DEF Sound, Creating
    <2> QED
      BY <1>2, <2>2, <2>3 DEF Apart, Creating, Locking
  <1> QED
    BY <1>1, <1>4, <1>5, GoesOn DEF f

LEMMA VersionHasDocument ==
    ASSUME PubInv, NEW v \in Version, Present(v)
    PROVE  /\ version[v].document \in Document
           /\ document[version[v].document].row = "present"
           /\ phase[v] # "none"
  <1>1. VersionRow(v)
    BY DEF PubInv
  <1>2. version[v] \in VersionRecord
    BY DEF PubInv, TypeOK
  <1> QED
    BY <1>1, <1>2 DEF VersionRow, VersionRecord, Present

LEMMA RequestForKeeps ==
    ASSUME PubInv, NEW r \in Request, NEW v \in Version,
           NEW op \in {"publish", "retire", "delete_version"}, RequestFor(r, op, v)
    PROVE  PubInv'
  <1>1. /\ op \in Operation \ {"upload"} /\ op # "retry"
        /\ "lock_document" \in {"lock_document", "update_version"}
        /\ {v} \in SUBSET Version /\ \E u \in Version : {v} = {u}
    BY DEF Operation
  <1>2. Present(v) /\ request[r] = Idle
    BY DEF RequestFor
  <1>3. \A u \in {v} : Present(u) /\ version[u].document = version[v].document
    BY <1>2
  <1> QED
    BY <1>1, <1>2, <1>3, VersionHasDocument, Starts DEF RequestFor

LEMMA RequestDeletionKeeps ==
    ASSUME PubInv, NEW r \in Request, NEW d \in Document, RequestDeletion(r, d)
    PROVE  PubInv'
  <1>1. /\ "delete_document" \in Operation \ {"upload"}
        /\ "lock_document" \in {"lock_document", "update_version"}
        /\ {} \in SUBSET Version
    BY DEF Operation
  <1> QED
    BY <1>1, Starts DEF RequestDeletion

LEMMA RetryLocksJobKeeps ==
    ASSUME PubInv, NEW r \in Request, NEW v \in Version, RetryLocksJob(r, v)
    PROVE  PubInv'
  <1>1. /\ "retry" \in Operation \ {"upload"} /\ "retry" # "delete_document"
        /\ "update_version" \in {"lock_document", "update_version"}
        /\ {v} \in SUBSET Version /\ \E u \in Version : {v} = {u}
    BY DEF Operation
  <1>2. Present(v) /\ request[r] = Idle
    BY DEF RetryLocksJob
  <1>3. \A u \in {v} : Present(u) /\ version[u].document = version[v].document
    BY <1>2
  <1> QED
    BY <1>1, <1>2, <1>3, VersionHasDocument, Starts DEF RetryLocksJob

-----------------------------------------------------------------------------
(* Steps that only lock.                                                   *)
LEMMA LockDocumentKeeps ==
    ASSUME PubInv, NEW r \in Request, LockDocument(r)
    PROVE  PubInv'
  <1> DEFINE h == request[r]
             f == [h EXCEPT !.at = "lock_version"]
  <1>1. /\ h.at = "lock_document" /\ h.op # "upload" /\ r \in Busy
        /\ DocumentFree(r, h.document)
        /\ UNCHANGED <<document, version, published, phase, index, objects>>
    BY DEF LockDocument, Busy, Idle
  <1>2. h \in Handler /\ Sound(h)
    BY <1>1, HandlerFields DEF PubInv
  <1>3. CASE document[h.document].row # "present"
    BY <1>1, <1>3, Ends DEF LockDocument
  <1>4. CASE document[h.document].row = "present"
    <2>1. GoOn(r, f)
      BY <1>4 DEF LockDocument
    <2>2. f \in Handler
      <3> HIDE DEF h
      <3> QED
        BY <1>2, HandlerMoves
    <2>3. /\ f.op = h.op /\ f.at = "lock_version" /\ f.document = h.document
          /\ f.versions = h.versions
      BY <1>2 DEF Handler
    <2> HIDE DEF f
    <2>4. Sound(f) /\ ObjectStored(f)
      BY <1>1, <1>2, <2>3 DEF Sound, OnItsWay, Deleting, ObjectStored
    <2>5. ASSUME NEW s \in Busy \ {r} PROVE Apart(f, request[s]) /\ Apart(request[s], f)
      <3>1. Apart(h, request[s]) /\ Apart(request[s], h)
        BY <1>1, <2>5 DEF PubInv
      <3>2. ~(Locking(request[s]) /\ request[s].document = h.document)
        BY <1>1, <2>5, HandlerFields, LocksAreDocuments DEF DocumentFree
      <3> QED
        BY <1>1, <2>3, <3>1, <3>2 DEF Apart, Creating
    <2> QED
      BY <1>1, <2>1, <2>2, <2>4, <2>5, GoesOn
  <1> QED
    BY <1>3, <1>4

LEMMA LockVersionsKeeps ==
    ASSUME PubInv, NEW r \in Request, LockVersions(r)
    PROVE  PubInv'
  <1> DEFINE h == request[r]
             f == [h EXCEPT !.at = "check_jobs", !.versions = Doomed(h)]
  <1>1. /\ h.at = "lock_version" /\ h.op \in {"delete_version", "delete_document"}
        /\ r \in Busy
        /\ UNCHANGED <<document, version, published, phase, index, objects>>
    BY DEF LockVersions, Busy, Idle
  <1>2. h \in Handler /\ Sound(h) /\ h.document \in Document
    BY <1>1, HandlerFields DEF PubInv
  <1>3. CASE h.op = "delete_version" /\ Doomed(h) = {}
    BY <1>1, <1>3, Ends DEF LockVersions
  <1>4. CASE ~(h.op = "delete_version" /\ Doomed(h) = {})
    <2>1. GoOn(r, f)
      BY <1>4 DEF LockVersions
    <2>2. Doomed(h) \in SUBSET Version
      BY <1>1, HandlerFields DEF Doomed, VersionsOf
    <2>3. f \in Handler
      <3> HIDE DEF h
      <3> QED
        BY <1>2, <2>2, HandlerMoves
    <2>4. /\ f.op = h.op /\ f.at = "check_jobs" /\ f.document = h.document
          /\ f.versions = Doomed(h)
      BY <1>2 DEF Handler
    <2>5. \A v \in Doomed(h) : Present(v) /\ version[v].document = h.document
      BY <1>1, <1>2 DEF Doomed, VersionsOf, Sound
    <2>6. h.op = "delete_version" => \E v \in Version : Doomed(h) = {v}
      BY <1>2, <1>4 DEF Doomed, Sound
    <2> HIDE DEF f
    <2>7. Sound(f) /\ ObjectStored(f)
      <3>1. h.op = "delete_document" => VersionsOf(h.document) \subseteq Doomed(h)
        BY DEF Doomed
      <3> QED
        BY <1>1, <2>4, <2>5, <2>6, <3>1
           DEF Sound, OnItsWay, Deleting, ObjectStored, Present
    <2>8. ASSUME NEW s \in Busy \ {r} PROVE Apart(f, request[s]) /\ Apart(request[s], f)
      <3>1. Apart(h, request[s]) /\ Apart(request[s], h) /\ Sound(request[s])
        BY <1>1, <2>8 DEF PubInv
      <3>2. request[s].op = "upload" => Doomed(h) \cap request[s].versions = {}
        BY <2>5, <3>1 DEF Sound, Present
      <3> QED
        BY <1>1, <2>4, <3>1, <3>2 DEF Apart, Creating, Locking
    <2> QED
      BY <1>1, <2>1, <2>3, <2>7, <2>8, GoesOn
  <1> QED
    BY <1>3, <1>4

LEMMA RaiseIfIngestingKeeps ==
    ASSUME PubInv, NEW r \in Request, RaiseIfIngesting(r)
    PROVE  PubInv'
  <1> DEFINE h == request[r]
             f == [h EXCEPT !.at = "delete_rows"]
  <1>1. /\ h.at = "check_jobs" /\ r \in Busy
        /\ UNCHANGED <<document, version, published, phase, index, objects>>
    BY DEF RaiseIfIngesting, Busy, Idle
  <1>2. h \in Handler /\ Sound(h) /\ h.versions \subseteq Version
    BY <1>1, HandlerFields DEF PubInv
  <1>3. CASE Ingesting(h.versions)
    BY <1>1, <1>3, Ends DEF RaiseIfIngesting
  <1>4. CASE ~Ingesting(h.versions)
    <2>1. GoOn(r, f)
      BY <1>4 DEF RaiseIfIngesting
    <2>2. f \in Handler
      <3> HIDE DEF h
      <3> QED
        BY <1>2, HandlerMoves
    <2>3. /\ f.op = h.op /\ f.at = "delete_rows" /\ f.document = h.document
          /\ f.versions = h.versions
      BY <1>2 DEF Handler
    <2>4. \A v \in h.versions : phase[v] \in {"ready", "failed"}
      <3>1. ASSUME NEW v \in h.versions PROVE phase[v] \in {"ready", "failed"}
        <4>1. v \in Version /\ Present(v) /\ phase[v] # "working"
          BY <1>1, <1>2, <1>4 DEF Sound, Deleting, Ingesting
        <4>2. phase[v] # "none" /\ phase[v] \in Import!Phase
          BY <4>1, VersionHasDocument DEF PubInv, TypeOK
        <4> QED
          BY <4>1, <4>2 DEF Import!Phase
      <3> QED
        BY <3>1
    <2> HIDE DEF f
    <2>5. Sound(f) /\ ObjectStored(f)
      BY <1>1, <1>2, <2>3, <2>4 DEF Sound, OnItsWay, Deleting, ObjectStored
    <2>6. ASSUME NEW s \in Busy \ {r} PROVE Apart(f, request[s]) /\ Apart(request[s], f)
      <3>1. Apart(h, request[s]) /\ Apart(request[s], h)
        BY <1>1, <2>6 DEF PubInv
      <3> QED
        BY <1>1, <2>3, <3>1 DEF Apart, Creating, Locking
    <2> QED
      BY <1>1, <2>1, <2>2, <2>5, <2>6, GoesOn
  <1> QED
    BY <1>3, <1>4

-----------------------------------------------------------------------------
(* Steps that change rows.  What the other handlers remember stays true.   *)
LEMMA StaysSound ==
    ASSUME PubInv, NEW s \in Busy, request'[s] = request[s],
           \A v \in request[s].versions :
               \/ /\ version'[v] = version[v]
                  /\ request[s].at = "delete_rows" => phase'[v] = phase[v]
               \/ /\ Present(v) /\ request[s].at \notin Deleting
                  /\ version'[v].row = "deleted"
                  /\ version'[v].document = version[v].document,
           request[s].op = "delete_document" /\ request[s].at \in Deleting =>
               \A v \in Version :
                   Present(v)' /\ version'[v].document = request[s].document
                     => v \in VersionsOf(request[s].document),
           Creating(request[s]) =>
               document'[request[s].document].row = document[request[s].document].row
    PROVE  Sound(request[s])'
  <1> DEFINE k == request[s]
  <1>1. Sound(k) /\ OnItsWay(k)'
    BY DEF PubInv, Sound, OnItsWay
  <1>2. ASSUME NEW v \in k.versions
        PROVE  /\ k.op = "upload" => version'[v].row = "absent"
               /\ k.op # "upload" => /\ version'[v].row # "absent"
                                     /\ version'[v].document = k.document
               /\ k.at \in Deleting => Present(v)'
               /\ k.at = "delete_rows" => phase'[v] \in {"ready", "failed"}
               /\ k.at = "delete_objects" => ~Present(v)'
    BY <1>1, <1>2 DEF Sound, Present, Deleting
  <1>3. k.op = "delete_document" /\ k.at \in Deleting =>
            \A v \in Version : Present(v)' /\ version'[v].document = k.document
                                 => v \in k.versions
    BY <1>1 DEF Sound
  <1>4. k.op = "upload" /\ k.at = "insert" /\ k.first =>
            document'[k.document].row = "absent"
    BY <1>1 DEF Sound, Creating
  <1> QED
    BY <1>1, <1>2, <1>3, <1>4 DEF Sound, VersionsOf, Deleting

(* The request ends with its commit, or goes on deleting objects.          *)
LEMMA RowsChange ==
    ASSUME PubInv, NEW r \in Request, NEW f \in Handler \cup {Idle},
           request' = [request EXCEPT ![r] = f], objects' = objects,
           TypeOK',
           \A v \in Version : (VersionRow(v) /\ VersionStatus(v))',
           \A d \in Document, v \in Version : CurrentIsPublished(d, v)',
           \A s \in Busy \ {r} : Sound(request[s])',
           f # Idle => /\ Sound(f)' /\ f.op # "upload" /\ ~Locking(f)
                       /\ \A s \in Busy \ {r} : Apart(request[s], f)
    PROVE  PubInv'
  <1>1. \A s \in Request : request'[s] = IF s = r THEN f ELSE request[s]
    BY DEF PubInv, TypeOK
  <1>2. ASSUME NEW s \in Busy' PROVE (Sound(request[s]) /\ ObjectStored(request[s]))'
    <2>1. CASE s = r
      <3>1. request'[s] = f /\ f # Idle
        BY <1>1, <1>2, <2>1 DEF Busy
      <3> QED
        BY <3>1 DEF ObjectStored, Sound, OnItsWay, Present, VersionsOf
    <2>2. CASE s # r
      <3>1. s \in Busy \ {r} /\ request'[s] = request[s]
        BY <1>1, <1>2, <2>2 DEF Busy
      <3> QED
        BY <3>1 DEF PubInv, ObjectStored
    <2> QED
      BY <2>1, <2>2
  <1>3. ASSUME NEW q \in Busy', NEW s \in Busy', q # s
        PROVE  Apart(request[q], request[s])'
    BY <1>1, <1>3 DEF PubInv, Busy, Apart, Creating, Locking
  <1> QED
    BY <1>2, <1>3 DEF PubInv

LEMMA InsertUploadKeeps ==
    ASSUME PubInv, NEW r \in Request, InsertUpload(r)
    PROVE  PubInv'
  <1> DEFINE h == request[r]
  <1>1. /\ h.at = "insert" /\ r \in Busy
        /\ document' = [document EXCEPT ![h.document].row = "present"]
        /\ request' = [request EXCEPT ![r] = Idle]
        /\ UNCHANGED <<published, objects, index>>
    BY DEF InsertUpload, Busy, Idle, End, GoOn, Import!Accept
  <1>2. /\ h \in Handler /\ Sound(h) /\ ObjectStored(h) /\ h.op = "upload"
        /\ h.document \in Document /\ h.no \in Nat /\ h.key \in Key \cup {NoKey}
    BY <1>1, HandlerFields DEF PubInv, Sound, OnItsWay, Handler
  <1>3. PICK v \in Version :
          /\ h.versions = {v}
          /\ version' = [version EXCEPT ![v] =
                [row |-> "present", document |-> h.document, no |-> h.no,
                 key |-> h.key]]
          /\ phase[v] = "none" /\ phase' = [phase EXCEPT ![v] = "working"]
    <2>1. PICK v \in h.versions :
            /\ version' = [version EXCEPT ![v] =
                  [row |-> "present", document |-> h.document, no |-> h.no,
                   key |-> h.key]]
            /\ Import!Accept(v)
      BY DEF InsertUpload
    <2>2. v \in Version /\ h.versions = {v}
      BY <1>2, <2>1 DEF Sound
    <2> QED
      BY <2>1, <2>2 DEF Import!Accept
  <1>4. /\ version[v].row = "absent" /\ v \in objects
        /\ Locking(h) \/ Creating(h)
    BY <1>1, <1>2, <1>3 DEF Sound, ObjectStored, Locking, Creating
  <1>5. /\ index[v] = "none" /\ published[v] = Everywhere("DRAFT")
        /\ version[v].document = NoDocument
    BY <1>4 DEF PubInv, VersionRow, VersionStatus, Present
  <1>6. TypeOK'
    <2>1. version' \in [Version -> VersionRecord]
      BY <1>2, <1>3 DEF PubInv, TypeOK, VersionRecord, Row
    <2>2. document' \in [Document -> DocumentRecord]
      BY <1>1, <1>2 DEF PubInv, TypeOK, DocumentRecord, Row
    <2> QED
      BY <1>1, <1>3, <2>1, <2>2 DEF PubInv, TypeOK, Import!Phase
  <1>7. /\ \A u \in Version \ {v} : version'[u] = version[u] /\ phase'[u] = phase[u]
        /\ version'[v].row = "present" /\ version'[v].document = h.document
        /\ phase'[v] = "working"
    BY <1>3 DEF PubInv, TypeOK
  <1>8. \A d \in Document :
          /\ document'[d].current = document[d].current
          /\ document'[d].row = IF d = h.document THEN "present" ELSE document[d].row
    BY <1>1, <1>2 DEF PubInv, TypeOK, DocumentRecord
  <1>9. ASSUME NEW u \in Version PROVE (VersionRow(u) /\ VersionStatus(u))'
    <2>1. CASE u = v
      BY <1>1, <1>2, <1>4, <1>5, <1>7, <1>8, <2>1, NonesAreNone
         DEF VersionRow, VersionStatus, Present, PublicationStatus
    <2>2. CASE u # v
      <3>1. Present(u) => document'[version[u].document].row = "present"
        BY <1>8, VersionHasDocument
      <3> QED
        BY <1>1, <1>7, <2>2, <3>1 DEF PubInv, VersionRow, VersionStatus, Present
    <2> QED
      BY <2>1, <2>2
  <1>10. ASSUME NEW d \in Document, NEW u \in Version PROVE CurrentIsPublished(d, u)'
    BY <1>1, <1>5, <1>7, <1>8 DEF PubInv, CurrentIsPublished, Everywhere
  <1>11. ASSUME NEW s \in Busy \ {r} PROVE Sound(request[s])'
    <2>1. /\ Apart(h, request[s]) /\ Apart(request[s], h) /\ Sound(request[s])
          /\ request'[s] = request[s]
          /\ request[s].versions \subseteq Version
          /\ request[s].document \in Document
      BY <1>1, HandlerFields DEF PubInv, TypeOK, Busy
    <2>2. v \notin request[s].versions
      BY <1>2, <1>3, <2>1 DEF Apart
    <2>3. request[s].at \in Deleting => request[s].document # h.document
      BY <1>4, <2>1 DEF Apart, Locking, Deleting
    <2>4. Creating(request[s]) => request[s].document # h.document
      BY <2>1 DEF Apart
    <2>5. \A u \in request[s].versions :
            version'[u] = version[u] /\ phase'[u] = phase[u]
      BY <1>7, <2>1, <2>2
    <2>6. request[s].at \in Deleting =>
            \A u \in Version :
                Present(u)' /\ version'[u].document = request[s].document
                  => u \in VersionsOf(request[s].document)
      BY <1>7, <2>3 DEF VersionsOf, Present
    <2>7. Creating(request[s]) =>
            document'[request[s].document].row = document[request[s].document].row
      BY <1>8, <2>1, <2>4
    <2> QED
      BY <2>1, <2>5, <2>6, <2>7, StaysSound
  <1> QED
    BY <1>1, <1>6, <1>9, <1>10, <1>11, RowsChange

LEMMA RetryCommitsKeeps ==
    ASSUME PubInv, NEW r \in Request, RetryCommits(r)
    PROVE  PubInv'
  <1> DEFINE h == request[r]
  <1>1. /\ h.at = "update_version" /\ r \in Busy
        /\ request' = [request EXCEPT ![r] = Idle]
        /\ UNCHANGED <<document, version, published, objects, index>>
    BY DEF RetryCommits, Busy, Idle, End, GoOn, Import!Retry
  <1>2. h.versions \subseteq Version
    BY <1>1, HandlerFields
  <1>3. PICK v \in h.versions :
          /\ VersionFree(r, v)
          /\ phase[v] = "failed" /\ phase' = [phase EXCEPT ![v] = "working"]
    BY DEF RetryCommits, Import!Retry
  <1>4. \A u \in Version : phase'[u] = IF u = v THEN "working" ELSE phase[u]
    BY <1>2, <1>3 DEF PubInv, TypeOK
  <1>5. TypeOK'
    BY <1>1, <1>3 DEF PubInv, TypeOK, Import!Phase
  <1>6. ASSUME NEW u \in Version PROVE (VersionRow(u) /\ VersionStatus(u))'
    BY <1>1, <1>3, <1>4 DEF PubInv, VersionRow, VersionStatus, Present
  <1>7. ASSUME NEW d \in Document, NEW u \in Version PROVE CurrentIsPublished(d, u)'
    BY <1>1 DEF PubInv, CurrentIsPublished
  <1>8. ASSUME NEW s \in Busy \ {r} PROVE Sound(request[s])'
    <2>1. request'[s] = request[s] /\ request[s].versions \subseteq Version
      BY <1>1, HandlerFields DEF PubInv, TypeOK, Busy
    <2>2. request[s].at = "delete_rows" => v \notin request[s].versions
      BY <1>3 DEF VersionFree, LocksVersion
    <2> QED
      BY <1>1, <1>4, <2>1, <2>2, StaysSound DEF VersionsOf, Present
  <1> QED
    BY <1>1, <1>5, <1>6, <1>7, <1>8, RowsChange

LEMMA StatusesOfVersions ==
    ASSUME NEW statuses,
           statuses = [u \in Version |-> statuses[u]], NEW v, NEW status
    PROVE  LET after == SetPublicationStatus(statuses, v, status)
           IN  after = [u \in Version |-> after[u]]
  <1> DEFINE value == IF index[v] = "none"
                        THEN [statuses[v] EXCEPT !.version = status]
                        ELSE Everywhere(status)
  <1>1. SetPublicationStatus(statuses, v, status) = [statuses EXCEPT ![v] = value]
    BY DEF SetPublicationStatus
  <1> HIDE DEF value
  <1> QED
    BY <1>1

(* What publishing changes: the version it finds publishable, and the one  *)
(* its document had before.                                                *)
LEMMA Publishes ==
    ASSUME PubInv, NEW r \in Request, Publish(r), ~UNCHANGED <<published, document>>
    PROVE  \E v \in Version :
             LET d == request[r].document
             IN  /\ d \in Document /\ Publishable(v) /\ version[v].document = d
                 /\ \A u \in Retiring(d, v) \cap Version :
                       /\ u # v /\ index[u] # "none" /\ version[u].document = d
                       /\ document[d].current = u
                 /\ \A u \in Version :
                       published'[u] = IF u = v THEN Everywhere("PUBLISHED")
                                       ELSE IF u \in Retiring(d, v)
                                         THEN Everywhere("RETIRED") ELSE published[u]
                 /\ published' = [u \in Version |-> published'[u]]
                 /\ document' = [document EXCEPT ![d].current = v]
  <1> DEFINE h == request[r]
  <1>1. h.at = "lock_version" /\ h.op = "publish" /\ r \in Busy
    BY DEF Publish, Busy, Idle
  <1>2. Sound(h) /\ h.document \in Document /\ h.versions \subseteq Version
    BY <1>1, HandlerFields DEF PubInv
  <1>3. PICK v \in h.versions :
          /\ Publishable(v)
          /\ published' = SetPublicationStatus(
                [u \in Version |->
                   IF u \in Retiring(h.document, v)
                     THEN SetPublicationStatus(published, u, "RETIRED")[u]
                     ELSE published[u]],
                v, "PUBLISHED")
          /\ document' = [document EXCEPT ![h.document].current = v]
    BY DEF Publish
  <1>4. /\ v \in Version /\ version[v].document = h.document
        /\ index[v] # "none" /\ published[v].version = "DRAFT"
    BY <1>1, <1>2, <1>3 DEF Sound, Publishable
  <1>5. \A u \in Retiring(h.document, v) \cap Version :
          /\ u # v /\ index[u] # "none" /\ version[u].document = h.document
          /\ document[h.document].current = u
    BY <1>2, SearchableIsPublished DEF Retiring, PubInv, CurrentIsPublished
  <1>6. \A u \in Version :
          published'[u] = IF u = v THEN Everywhere("PUBLISHED")
                          ELSE IF u \in Retiring(h.document, v)
                            THEN Everywhere("RETIRED") ELSE published[u]
    <2>1. \A u \in Retiring(h.document, v) \cap Version :
            SetPublicationStatus(published, u, "RETIRED")[u] = Everywhere("RETIRED")
      BY <1>5 DEF SetPublicationStatus, PubInv, TypeOK
    <2> QED
      BY <1>3, <1>4, <2>1 DEF SetPublicationStatus
  <1>7. published' = [u \in Version |-> published'[u]]
    BY <1>3, StatusesOfVersions
  <1> QED
    BY <1>2, <1>3, <1>4, <1>5, <1>6, <1>7

LEMMA PublishKeeps ==
    ASSUME PubInv, NEW r \in Request, Publish(r)
    PROVE  PubInv'
  <1> DEFINE h == request[r]
  <1>1. /\ h.at = "lock_version" /\ h.op = "publish" /\ r \in Busy
        /\ request' = [request EXCEPT ![r] = Idle]
        /\ UNCHANGED <<version, phase, index, objects>>
    BY DEF Publish, Busy, Idle, End, GoOn
  <1>2. Sound(h) /\ h.document \in Document /\ h.versions \subseteq Version
    BY <1>1, HandlerFields DEF PubInv
  <1>3. CASE UNCHANGED <<published, document>>
    BY <1>1, <1>3, Ends DEF End, GoOn
  <1>4. CASE ~UNCHANGED <<published, document>>
    <2>1. PICK v \in Version :
            /\ Publishable(v) /\ version[v].document = h.document
            /\ \A u \in Retiring(h.document, v) \cap Version :
                  /\ u # v /\ index[u] # "none" /\ version[u].document = h.document
                  /\ document[h.document].current = u
            /\ \A u \in Version :
                  published'[u] = IF u = v THEN Everywhere("PUBLISHED")
                                  ELSE IF u \in Retiring(h.document, v)
                                    THEN Everywhere("RETIRED") ELSE published[u]
            /\ published' = [u \in Version |-> published'[u]]
            /\ document' = [document EXCEPT ![h.document].current = v]
      BY <1>4, Publishes
    <2>2. index[v] # "none" /\ published[v].version = "DRAFT"
      BY <2>1 DEF Publishable
    <2>3. \A d \in Document :
            /\ document'[d].row = document[d].row
            /\ document'[d].current = IF d = h.document THEN v ELSE document[d].current
      BY <1>2, <2>1 DEF PubInv, TypeOK, DocumentRecord
    <2>4. TypeOK'
      <3>1. \A u \in Version : published'[u] \in Published
        BY <2>1 DEF PubInv, TypeOK, Published, PublicationStatus, Everywhere
      <3>2. document' \in [Document -> DocumentRecord]
        BY <1>2, <2>1, <2>2 DEF PubInv, TypeOK, DocumentRecord
      <3> QED
        BY <1>1, <2>1, <3>1, <3>2 DEF PubInv, TypeOK
    <2>5. ASSUME NEW u \in Version PROVE (VersionRow(u) /\ VersionStatus(u))'
      <3>1. VersionRow(u)'
        BY <1>1, <2>3, VersionHasDocument DEF PubInv, VersionRow, Present
      <3>2. VersionStatus(u)'
        <4>1. CASE u = v
          BY <1>1, <2>1, <2>2, <4>1 DEF VersionStatus, PublicationStatus
        <4>2. CASE u # v /\ u \in Retiring(h.document, v)
          BY <1>1, <2>1, <4>2 DEF VersionStatus, PublicationStatus
        <4>3. CASE u # v /\ u \notin Retiring(h.document, v)
          BY <1>1, <2>1, <4>3 DEF PubInv, VersionStatus
        <4> QED
          BY <4>1, <4>2, <4>3
      <3> QED
        BY <3>1, <3>2
    <2>6. ASSUME NEW d \in Document, NEW u \in Version PROVE CurrentIsPublished(d, u)'
      <3>1. CurrentIsPublished(d, u)
        BY DEF PubInv
      <3>2. CASE u = v
        BY <1>1, <2>1, <2>2, <2>3, <3>1, <3>2 DEF CurrentIsPublished, Everywhere
      <3>3. CASE u # v /\ u \in Retiring(h.document, v)
        BY <1>1, <2>1, <2>3, <3>1, <3>3 DEF CurrentIsPublished, Everywhere
      <3>4. CASE u # v /\ u \notin Retiring(h.document, v)
        BY <1>1, <2>1, <2>3, <3>1, <3>4, NonesAreNone DEF CurrentIsPublished, Retiring
      <3> QED
        BY <3>2, <3>3, <3>4
    <2>7. ASSUME NEW s \in Busy \ {r} PROVE Sound(request[s])'
      <3>1. request'[s] = request[s] /\ request[s].document \in Document
        BY <1>1, HandlerFields DEF PubInv, TypeOK, Busy
      <3> QED
        BY <1>1, <2>3, <3>1, StaysSound DEF VersionsOf, Present
    <2> QED
      BY <1>1, <2>4, <2>5, <2>6, <2>7, RowsChange
  <1> QED
    BY <1>3, <1>4

LEMMA Retires ==
    ASSUME PubInv, NEW r \in Request, Retire(r), ~UNCHANGED <<published, document>>
    PROVE  \E v \in Version :
             LET d == request[r].document
             IN  /\ d \in Document /\ Present(v) /\ version[v].document = d
                 /\ index[v] # "none" /\ document[d].current = v
                 /\ published[v].version = "PUBLISHED"
                 /\ published' = [published EXCEPT ![v] = Everywhere("RETIRED")]
                 /\ document' = [document EXCEPT ![d].current = NoVersion]
  <1> DEFINE h == request[r]
  <1>1. h.at = "lock_version" /\ h.op = "retire" /\ r \in Busy
    BY DEF Retire, Busy, Idle
  <1>2. Sound(h) /\ h.document \in Document /\ h.versions \subseteq Version
    BY <1>1, HandlerFields DEF PubInv
  <1>3. PICK v \in h.versions :
          /\ Present(v) /\ published[v].version = "PUBLISHED"
          /\ published' = SetPublicationStatus(published, v, "RETIRED")
          /\ document' = Cleared(h.document, v)
    BY DEF Retire
  <1>4. /\ v \in Version /\ version[v].document = h.document
        /\ index[v] # "none" /\ document[h.document].current = v
    <2>1. v \in Version /\ version[v].document = h.document
      BY <1>1, <1>2, <1>3 DEF Sound
    <2> QED
      BY <1>2, <1>3, <2>1, SearchableIsPublished DEF PubInv, CurrentIsPublished
  <1>5. published' = [published EXCEPT ![v] = Everywhere("RETIRED")]
    BY <1>3, <1>4 DEF SetPublicationStatus
  <1>6. document' = [document EXCEPT ![h.document].current = NoVersion]
    BY <1>3, <1>4 DEF Cleared
  <1> QED
    BY <1>2, <1>3, <1>4, <1>5, <1>6

LEMMA RetireKeeps ==
    ASSUME PubInv, NEW r \in Request, Retire(r)
    PROVE  PubInv'
  <1> DEFINE h == request[r]
  <1>1. /\ h.at = "lock_version" /\ h.op = "retire" /\ r \in Busy
        /\ request' = [request EXCEPT ![r] = Idle]
        /\ UNCHANGED <<version, phase, index, objects>>
    BY DEF Retire, Busy, Idle, End, GoOn
  <1>2. Sound(h) /\ h.document \in Document /\ h.versions \subseteq Version
    BY <1>1, HandlerFields DEF PubInv
  <1>3. CASE UNCHANGED <<published, document>>
    BY <1>1, <1>3, Ends DEF End, GoOn
  <1>4. CASE ~UNCHANGED <<published, document>>
    <2>1. PICK v \in Version :
            /\ Present(v) /\ version[v].document = h.document
            /\ index[v] # "none" /\ document[h.document].current = v
            /\ published' = [published EXCEPT ![v] = Everywhere("RETIRED")]
            /\ document' = [document EXCEPT ![h.document].current = NoVersion]
      BY <1>4, Retires
    <2>2. \A d \in Document :
            /\ document'[d].row = document[d].row
            /\ document'[d].current = IF d = h.document THEN NoVersion
                                                      ELSE document[d].current
      BY <1>2, <2>1 DEF PubInv, TypeOK, DocumentRecord
    <2>3. \A u \in Version :
            published'[u] = IF u = v THEN Everywhere("RETIRED") ELSE published[u]
      BY <2>1 DEF PubInv, TypeOK
    <2>4. TypeOK'
      <3>1. published' \in [Version -> Published]
        BY <2>1 DEF PubInv, TypeOK, Published, PublicationStatus, Everywhere
      <3>2. document' \in [Document -> DocumentRecord]
        BY <1>2, <2>1 DEF PubInv, TypeOK, DocumentRecord
      <3> QED
        BY <1>1, <3>1, <3>2 DEF PubInv, TypeOK
    <2>5. ASSUME NEW u \in Version PROVE (VersionRow(u) /\ VersionStatus(u))'
      <3>1. VersionRow(u)'
        BY <1>1, <2>2, VersionHasDocument DEF PubInv, VersionRow, Present
      <3>2. VersionStatus(u)'
        BY <1>1, <2>1, <2>3 DEF PubInv, VersionStatus, PublicationStatus
      <3> QED
        BY <3>1, <3>2
    <2>6. ASSUME NEW d \in Document, NEW u \in Version PROVE CurrentIsPublished(d, u)'
      <3>1. CurrentIsPublished(d, u) /\ CurrentIsPublished(h.document, u)
        BY <1>2 DEF PubInv
      <3> QED
        BY <1>1, <2>1, <2>2, <2>3, <3>1, NonesAreNone DEF CurrentIsPublished, Everywhere
    <2>7. ASSUME NEW s \in Busy \ {r} PROVE Sound(request[s])'
      <3>1. request'[s] = request[s] /\ request[s].document \in Document
        BY <1>1, HandlerFields DEF PubInv, TypeOK, Busy
      <3> QED
        BY <1>1, <2>2, <3>1, StaysSound DEF VersionsOf, Present
    <2> QED
      BY <1>1, <2>4, <2>5, <2>6, <2>7, RowsChange
  <1> QED
    BY <1>3, <1>4

(* What a deletion does to the rows, for both of its operations.           *)
LEMMA RowsDeleted ==
    ASSUME PubInv, NEW r \in Request, DeleteVersionRows(r)
    PROVE  LET h == request[r]
           IN  /\ r \in Busy /\ Sound(h) /\ h.at = "delete_rows"
               /\ h.op \in {"delete_version", "delete_document"}
               /\ h.document \in Document /\ h.versions \subseteq Version
               /\ h \in Handler
               /\ \A v \in h.versions :
                     /\ Present(v) /\ version[v].document = h.document
                     /\ JobFree(r, v)
               /\ \A v \in Version \ h.versions :
                     /\ version'[v] = version[v] /\ published'[v] = published[v]
                     /\ phase'[v] = phase[v] /\ index'[v] = index[v]
               /\ \A v \in h.versions :
                     /\ version'[v].row = "deleted"
                     /\ version'[v].document = h.document
                     /\ published'[v] = Everywhere("DRAFT")
                     /\ phase'[v] = "none" /\ index'[v] = "none"
               /\ \A d \in Document \ {h.document} : document'[d] = document[d]
               /\ h.op = "delete_document" =>
                     /\ VersionsOf(h.document) \subseteq h.versions
                     /\ document'[h.document].current = NoVersion
               /\ h.op = "delete_version" =>
                     /\ document'[h.document].row = document[h.document].row
                     /\ document'[h.document].current =
                          IF document[h.document].current \in h.versions
                            THEN NoVersion ELSE document[h.document].current
               /\ document' \in [Document -> DocumentRecord]
               /\ version' \in [Version -> VersionRecord]
  <1> DEFINE h == request[r]
  <1>1. h.at = "delete_rows" /\ r \in Busy
    BY DEF DeleteVersionRows, Busy, Idle
  <1>2. /\ Sound(h) /\ h \in Handler /\ h.document \in Document
        /\ h.versions \subseteq Version
    BY <1>1, HandlerFields DEF PubInv
  <1>3. h.op \in {"delete_version", "delete_document"}
    BY <1>1, <1>2 DEF Sound, OnItsWay
  <1>4. \A v \in h.versions :
          Present(v) /\ version[v].document = h.document /\ JobFree(r, v)
    BY <1>1, <1>2, <1>3 DEF Sound, Deleting, DeleteVersionRows
  <1> DEFINE gone == [row |-> "deleted", document |-> h.document, no |-> 0,
                      key |-> NoKey]
  <1>5. /\ version' = [v \in Version |-> IF v \in h.versions THEN gone ELSE version[v]]
        /\ published' = [v \in Version |-> IF v \in h.versions
                            THEN Everywhere("DRAFT") ELSE published[v]]
        /\ phase' = [v \in Version |-> IF v \in h.versions THEN "none" ELSE phase[v]]
        /\ index' = [v \in Version |-> IF v \in h.versions THEN "none" ELSE index[v]]
    BY DEF DeleteVersionRows, Replacing
  <1>6. /\ gone \in VersionRecord /\ gone.row = "deleted"
        /\ gone.document = h.document
    BY <1>2 DEF VersionRecord, Row
  <1> HIDE DEF gone
  <1>7. version' \in [Version -> VersionRecord]
    BY <1>5, <1>6 DEF PubInv, TypeOK
  <1>8. CASE h.op = "delete_document"
    <2>1. document' = [document EXCEPT ![h.document] =
                         [row |-> "deleted", current |-> NoVersion]]
      BY <1>8 DEF DeleteVersionRows
    <2>2. VersionsOf(h.document) \subseteq h.versions
      BY <1>1, <1>2, <1>8 DEF Sound, Deleting
    <2>3. /\ document' \in [Document -> DocumentRecord]
          /\ document'[h.document].current = NoVersion
          /\ \A d \in Document \ {h.document} : document'[d] = document[d]
      BY <1>2, <2>1 DEF PubInv, TypeOK, DocumentRecord, Row
    <2> HIDE DEF h
    <2> QED
      BY <1>1, <1>2, <1>3, <1>4, <1>5, <1>8, <1>6, <1>7, <2>2, <2>3 DEF h
  <1>9. CASE h.op = "delete_version"
    <2>1. PICK w \in Version : h.versions = {w}
      BY <1>2, <1>9 DEF Sound
    <2>2. (CHOOSE v \in h.versions : TRUE) = w
      BY <2>1
    <2>3. document' = Cleared(h.document, w)
      BY <1>9, <2>2 DEF DeleteVersionRows
    <2>4. /\ document' \in [Document -> DocumentRecord]
          /\ document'[h.document].row = document[h.document].row
          /\ document'[h.document].current =
               IF document[h.document].current \in h.versions
                 THEN NoVersion ELSE document[h.document].current
          /\ \A d \in Document \ {h.document} : document'[d] = document[d]
      BY <1>2, <2>1, <2>3 DEF Cleared, PubInv, TypeOK, DocumentRecord
    <2> HIDE DEF h
    <2> QED
      BY <1>1, <1>2, <1>3, <1>4, <1>5, <1>9, <1>6, <1>7, <2>4 DEF h
  <1> QED
    BY <1>3, <1>8, <1>9

LEMMA DeleteVersionRowsKeeps ==
    ASSUME PubInv, NEW r \in Request, DeleteVersionRows(r)
    PROVE  PubInv'
  <1> DEFINE h == request[r]
  <1>1. /\ r \in Busy /\ Sound(h) /\ h.at = "delete_rows" /\ h \in Handler
        /\ h.op \in {"delete_version", "delete_document"}
        /\ h.document \in Document /\ h.versions \subseteq Version
        /\ \A v \in h.versions :
              Present(v) /\ version[v].document = h.document /\ JobFree(r, v)
    BY RowsDeleted
  <1>2. /\ \A v \in Version \ h.versions :
              /\ version'[v] = version[v] /\ published'[v] = published[v]
              /\ phase'[v] = phase[v] /\ index'[v] = index[v]
        /\ \A v \in h.versions :
              /\ version'[v].row = "deleted" /\ version'[v].document = h.document
              /\ published'[v] = Everywhere("DRAFT")
              /\ phase'[v] = "none" /\ index'[v] = "none"
    BY RowsDeleted
  <1>3. /\ \A d \in Document \ {h.document} : document'[d] = document[d]
        /\ h.op = "delete_document" =>
              /\ VersionsOf(h.document) \subseteq h.versions
              /\ document'[h.document].current = NoVersion
        /\ h.op = "delete_version" =>
              /\ document'[h.document].row = document[h.document].row
              /\ document'[h.document].current =
                   IF document[h.document].current \in h.versions
                     THEN NoVersion ELSE document[h.document].current
    BY RowsDeleted
  <1>4. PICK f \in Handler :
          /\ f.op = h.op /\ f.at = "delete_objects"
          /\ f.document = h.document /\ f.versions = h.versions
          /\ request' = [request EXCEPT ![r] = f] /\ objects' = objects
    <2>1. [h EXCEPT !.at = "delete_objects"] \in Handler
      <3> HIDE DEF h
      <3> QED
        BY <1>1, HandlerMoves
    <2> QED
      BY <1>1, <2>1 DEF Handler, DeleteVersionRows, GoOn
  <1>5. TypeOK'
    <2>1. published' \in [Version -> Published]
      BY DEF DeleteVersionRows, Replacing, PubInv, TypeOK, Published,
         Everywhere, PublicationStatus
    <2>2. phase' \in [Version -> Import!Phase] /\ index' \in [Version -> Import!Index]
      BY DEF DeleteVersionRows, Replacing, PubInv, TypeOK, Import!Phase, Import!Index
    <2>3. /\ document' \in [Document -> DocumentRecord]
          /\ version' \in [Version -> VersionRecord]
      BY RowsDeleted
    <2> QED
      BY <1>4, <2>1, <2>2, <2>3 DEF PubInv, TypeOK
  <1>6. ASSUME NEW u \in Version PROVE (VersionRow(u) /\ VersionStatus(u))'
    <2>1. CASE u \in h.versions
      BY <1>1, <1>2, <2>1, NonesAreNone
         DEF VersionRow, VersionStatus, Present, PublicationStatus
    <2>2. CASE u \notin h.versions
      <3>1. Present(u) => document'[version[u].document].row = "present"
        BY <1>1, <1>3, <2>2, VersionHasDocument DEF VersionsOf
      <3> QED
        BY <1>2, <1>4, <2>2, <3>1 DEF PubInv, VersionRow, VersionStatus, Present
    <2> QED
      BY <2>1, <2>2
  <1>7. ASSUME NEW d \in Document, NEW u \in Version PROVE CurrentIsPublished(d, u)'
    <2>1. CurrentIsPublished(d, u) /\ CurrentIsPublished(h.document, u)
      BY <1>1 DEF PubInv
    <2>2. CASE u \in h.versions
      <3>1. version[u].document = h.document /\ published'[u].version = "DRAFT"
        BY <1>1, <1>2, <2>2 DEF Everywhere
      <3>2. document'[d].current # u
        <4>1. CASE d = h.document
          BY <1>1, <1>3, <2>2, <4>1, NonesAreNone
        <4>2. CASE d # h.document
          BY <1>3, <2>1, <3>1, <4>2 DEF CurrentIsPublished
        <4> QED
          BY <4>1, <4>2
      <3> QED
        BY <3>1, <3>2 DEF CurrentIsPublished
    <2>3. CASE u \notin h.versions
      <3>1. version'[u] = version[u] /\ published'[u] = published[u]
        BY <1>2, <2>3
      <3>2. document'[d].current = u <=> document[d].current = u
        <4>1. CASE d = h.document /\ h.op = "delete_document"
          <5>1. published[u].version = "PUBLISHED" => Present(u)
            BY SearchableIsPublished
          <5>2. ~(published[u].version = "PUBLISHED" /\ version[u].document = d)
            BY <1>3, <2>3, <4>1, <5>1 DEF VersionsOf
          <5> QED
            BY <1>3, <2>1, <4>1, <5>2, NonesAreNone DEF CurrentIsPublished
        <4>2. CASE d = h.document /\ h.op = "delete_version"
          BY <1>3, <2>3, <4>2, NonesAreNone
        <4>3. CASE d # h.document
          BY <1>3, <4>3
        <4> QED
          BY <1>1, <4>1, <4>2, <4>3
      <3> QED
        BY <2>1, <3>1, <3>2 DEF CurrentIsPublished
    <2> QED
      BY <2>2, <2>3
  <1>8. ASSUME NEW s \in Busy \ {r} PROVE Sound(request[s])'
    <2>1. /\ Apart(request[s], h) /\ Apart(h, request[s]) /\ Sound(request[s])
          /\ request'[s] = request[s]
          /\ request[s].versions \subseteq Version
          /\ request[s].document \in Document
      BY <1>1, <1>4, HandlerFields DEF PubInv, TypeOK, Busy
    <2>2. request[s].at \in Deleting => request[s].document # h.document
      BY <1>1, <2>1 DEF Apart, Locking, Deleting
    <2>3. ASSUME NEW v \in request[s].versions
          PROVE  \/ /\ version'[v] = version[v]
                    /\ request[s].at = "delete_rows" => phase'[v] = phase[v]
                 \/ /\ Present(v) /\ request[s].at \notin Deleting
                    /\ version'[v].row = "deleted"
                    /\ version'[v].document = version[v].document
      <3>1. CASE v \in h.versions
        <4>1. Present(v) /\ version[v].document = h.document
          BY <1>1, <3>1
        <4>2. request[s].op # "upload"
          BY <2>1, <4>1 DEF Sound, Present
        <4>3. version[v].document = request[s].document
          BY <2>1, <4>2 DEF Sound
        <4> QED
          BY <1>2, <2>2, <3>1, <4>1, <4>3
      <3>2. CASE v \notin h.versions
        BY <1>2, <2>1, <3>2
      <3> QED
        BY <3>1, <3>2
    <2>4. \A v \in Version :
            Present(v)' /\ version'[v].document = request[s].document
              => v \in VersionsOf(request[s].document)
      BY <1>2 DEF VersionsOf, Present
    <2>5. Creating(request[s]) =>
            document'[request[s].document].row = document[request[s].document].row
      BY <1>3, <2>1 DEF Apart
    <2> QED
      BY <2>1, <2>3, <2>4, <2>5, StaysSound
  <1>9. /\ Sound(f)' /\ f.op # "upload" /\ ~Locking(f)
         /\ \A s \in Busy \ {r} : Apart(request[s], f)
    <2>1. f.op # "upload" /\ ~Locking(f) /\ ~Creating(f)
      BY <1>1, <1>4 DEF Locking, Creating
    <2>2. \A s \in Busy \ {r} : Apart(request[s], f)
      <3>1. \A s \in Busy \ {r} : Apart(request[s], h)
        BY <1>1 DEF PubInv
      <3> QED
        BY <1>4, <2>1, <3>1 DEF Apart
    <2>3. OnItsWay(f)'
      BY <1>1, <1>4 DEF OnItsWay
    <2>4. Sound(f)'
      BY <1>1, <1>2, <1>4, <2>1, <2>3 DEF Sound, Present, Deleting
    <2> QED
      BY <2>1, <2>2, <2>4
  <1> QED
    BY <1>4, <1>5, <1>6, <1>7, <1>8, <1>9, RowsChange

(* An import changes the phase or the index of one version nobody locks.   *)
LEMMA ImportChanges ==
    ASSUME PubInv, NEW v \in Version, ImportStep(v)
    PROVE  /\ \A u \in Version \ {v} : phase'[u] = phase[u] /\ index'[u] = index[u]
           /\ phase' \in [Version -> Import!Phase] /\ index' \in [Version -> Import!Index]
           /\ \/ /\ index[v] = "none" /\ index'[v] = "partial"
                 /\ phase'[v] = phase[v]
              \/ /\ index[v] = "partial" /\ index'[v] = "full"
                 /\ phase'[v] = phase[v]
              \/ /\ index[v] = "full" /\ phase[v] = "working" /\ phase'[v] = "ready"
                 /\ index'[v] = index[v]
              \/ /\ phase[v] = "working" /\ phase'[v] = "failed"
                 /\ index'[v] = index[v]
  <1>1. CASE Import!Grow(v)
    BY <1>1 DEF Import!Grow, PubInv, TypeOK, Import!Index
  <1>2. CASE Import!Succeed(v)
    BY <1>2 DEF Import!Succeed, PubInv, TypeOK, Import!Phase
  <1>3. CASE Import!Fail({v})
    BY <1>3 DEF Import!Fail, PubInv, TypeOK, Import!Phase
  <1> QED
    BY <1>1, <1>2, <1>3 DEF ImportStep

LEMMA ImportStepKeeps ==
    ASSUME PubInv, NEW v \in Version, ImportStep(v)
    PROVE  PubInv'
  <1>1. /\ Present(v) /\ Unlocked(v)
        /\ UNCHANGED <<document, version, published, objects, request>>
    BY DEF ImportStep
  <1>2. TypeOK'
    BY <1>1, ImportChanges DEF PubInv, TypeOK
  <1>3. ASSUME NEW u \in Version PROVE (VersionRow(u) /\ VersionStatus(u))'
    <2>1. VersionRow(u) /\ VersionStatus(u)
      BY DEF PubInv
    <2>2. CASE u = v
      BY <1>1, <2>1, <2>2, ImportChanges DEF VersionRow, VersionStatus, Present
    <2>3. CASE u # v
      BY <1>1, <2>1, <2>3, ImportChanges DEF VersionRow, VersionStatus, Present
    <2> QED
      BY <2>2, <2>3
  <1>4. ASSUME NEW s \in Busy' PROVE (Sound(request[s]) /\ ObjectStored(request[s]))'
    <2>1. s \in Busy /\ request'[s] = request[s] /\ request[s].versions \subseteq Version
      BY <1>1, <1>4, HandlerFields DEF Busy
    <2>2. request[s].at = "delete_rows" => v \notin request[s].versions
      BY <1>1, <2>1 DEF Unlocked, LocksVersion
    <2>3. Sound(request[s])'
      BY <1>1, <2>1, <2>2, ImportChanges, StaysSound DEF VersionsOf, Present
    <2> QED
      BY <1>1, <2>1, <2>3 DEF PubInv, ObjectStored
  <1>5. \A d \in Document, u \in Version : CurrentIsPublished(d, u)'
    BY <1>1 DEF PubInv, CurrentIsPublished
  <1>6. \A r, s \in Busy' : r # s => Apart(request[r], request[s])'
    BY <1>1 DEF PubInv, Busy, Apart, Creating, Locking
  <1> QED
    BY <1>2, <1>3, <1>4, <1>5, <1>6 DEF PubInv

-----------------------------------------------------------------------------
(* Deletions of objects and the other ends.                                *)
LEMMA EndsKeep ==
    ASSUME PubInv, NEW r \in Request,
           \/ ReturnStored(r) \/ UploadFails(r) \/ DeleteObjectsAfterwards(r)
           \/ Abort(r)
    PROVE  PubInv'
  <1>1. CASE ReturnStored(r)
    <2>1. r \in Busy /\ Sound(request[r]) /\ request[r].op = "upload"
      BY <1>1 DEF ReturnStored, Busy, Idle, PubInv, Sound, OnItsWay
    <2> QED
      BY <1>1, <2>1, Ends DEF ReturnStored, Rejected
  <1>2. CASE UploadFails(r)
    BY <1>2, Ends DEF UploadFails, Busy
  <1>3. CASE DeleteObjectsAfterwards(r)
    <2>1. r \in Busy
      BY <1>3 DEF DeleteObjectsAfterwards, Busy, Idle
    <2> QED
      BY <1>3, <2>1, Ends DEF DeleteObjectsAfterwards
  <1>4. CASE Abort(r)
    BY <1>4, Ends DEF Abort, Busy
  <1> QED
    BY <1>1, <1>2, <1>3, <1>4

LEMMA InitPubInv == Init => PubInv
  <1> SUFFICES ASSUME Init PROVE PubInv
    OBVIOUS
  <1>1. Busy = {}
    BY DEF Init, Busy
  <1>2. TypeOK
    BY DEF Init, TypeOK, DocumentRecord, VersionRecord, Published, Everywhere,
       PublicationStatus, Row, Import!Init, Import!Phase, Import!Index
  <1>3. ASSUME NEW v \in Version PROVE VersionRow(v) /\ VersionStatus(v)
    BY DEF Init, VersionRow, VersionStatus, Present, PublicationStatus, Import!Init
  <1>4. ASSUME NEW d \in Document, NEW v \in Version PROVE CurrentIsPublished(d, v)
    BY NonesAreNone DEF Init, CurrentIsPublished, Everywhere
  <1> QED
    BY <1>1, <1>2, <1>3, <1>4 DEF PubInv

LEMMA NextPubInv == PubInv /\ [Next]_vars => PubInv'
  <1> SUFFICES ASSUME PubInv, [Next]_vars PROVE PubInv'
    OBVIOUS
  <1>1. CASE UNCHANGED vars
    BY <1>1 DEF vars, PubInv, TypeOK, VersionRow, VersionStatus, Present,
       CurrentIsPublished, Busy, Sound, OnItsWay, VersionsOf, ObjectStored,
       Apart, Creating, Locking
  <1>2. ASSUME NEW r \in Request, NEW d \in Document, NEW k \in Key,
               UploadVersion(r, d, k) \/ UploadDocument(r, d, k)
        PROVE  PubInv'
    BY <1>2, StoreObjectKeeps
  <1>3. ASSUME NEW r \in Request,
               \/ NextVersionNo(r) \/ InsertUpload(r) \/ ReturnStored(r)
               \/ UploadFails(r) \/ LockDocument(r) \/ Publish(r) \/ Retire(r)
               \/ LockVersions(r) \/ RaiseIfIngesting(r) \/ DeleteVersionRows(r)
               \/ DeleteObjectsAfterwards(r) \/ RetryCommits(r) \/ Abort(r)
        PROVE  PubInv'
    BY <1>3, NextVersionNoKeeps, InsertUploadKeeps, EndsKeep, LockDocumentKeeps,
       PublishKeeps, RetireKeeps, LockVersionsKeeps, RaiseIfIngestingKeeps,
       DeleteVersionRowsKeeps, RetryCommitsKeeps
  <1>4. ASSUME NEW r \in Request, NEW v \in Version,
               \/ \E op \in {"publish", "retire", "delete_version"} : RequestFor(r, op, v)
               \/ RetryLocksJob(r, v)
        PROVE  PubInv'
    BY <1>4, RequestForKeeps, RetryLocksJobKeeps
  <1>5. ASSUME NEW r \in Request, NEW d \in Document, RequestDeletion(r, d)
        PROVE  PubInv'
    BY <1>5, RequestDeletionKeeps
  <1>6. ASSUME NEW v \in Version, ImportStep(v) PROVE PubInv'
    BY <1>6, ImportStepKeeps
  <1> QED
    BY <1>1, <1>2, <1>3, <1>4, <1>5, <1>6 DEF Next

LEMMA PubInvariant == Spec => []PubInv
  BY InitPubInv, NextPubInv, PTL DEF Spec

-----------------------------------------------------------------------------
(* The document's current version and the three statuses agree, however    *)
(* publishing, retiring and deleting interleave (lifecycle_router).        *)
THEOREM CurrentVersions == Spec => []CurrentIsSearchable
  <1>1. PubInv => CurrentIsSearchable
    <2> SUFFICES ASSUME PubInv PROVE CurrentIsSearchable
      OBVIOUS
    <2>1. ASSUME NEW v \in Version
          PROVE  /\ (\E d \in Document : document[d].current = v)
                        <=> published[v].version = "PUBLISHED"
                 /\ published[v].version = "PUBLISHED" <=> Searchable(v)
                 /\ published[v].version = "PUBLISHED" =>
                        document[version[v].document].current = v
      BY SearchableIsPublished, VersionHasDocument DEF PubInv, CurrentIsPublished
    <2> QED
      BY <2>1 DEF CurrentIsSearchable, PubInv
  <1> QED
    BY <1>1, PubInvariant, PTL

(* No cleanup of the object store takes a file that a version needs.       *)
THEOREM FilesAreKept == Spec => []ObjectsKept
  <1>1. PubInv => ObjectsKept
    BY DEF PubInv, VersionRow, ObjectsKept
  <1> QED
    BY <1>1, PubInvariant, PTL

(* Requests wait in the order document, version, job: only a manual retry  *)
(* can be part of a deadlock.                                              *)
THEOREM LocksAreOrdered == Spec => []LockOrder
  <1>1. PubInv => LockOrder
    <2> SUFFICES ASSUME PubInv, NEW r \in Busy, NEW s \in Busy, r # s,
                        WaitsFor(r, s), request[s].op # "retry"
                 PROVE  request[r].op = "retry" \/ Stage(request[r]) < Stage(request[s])
      BY DEF LockOrder
    <2>1. OnItsWay(request[r]) /\ OnItsWay(request[s])
      BY DEF PubInv, Sound
    <2> QED
      BY <2>1 DEF OnItsWay, WaitsFor, LocksDocument, LocksVersion, LocksJob, Stage
  <1> QED
    BY <1>1, PubInvariant, PTL

(* A version disappears only while its import is at rest.                  *)
THEOREM RetriesAreKept == Spec => RetryKept
  <1> DEFINE Rest == \A v \in Version :
               Present(v) /\ version'[v].row = "deleted" =>
                   phase[v] \in {"ready", "failed"}
  <1>1. PubInv /\ [Next]_vars => Rest
    <2> SUFFICES ASSUME PubInv, [Next]_vars, NEW v \in Version,
                        Present(v), version'[v].row = "deleted"
                 PROVE  phase[v] \in {"ready", "failed"}
      OBVIOUS
    <2>1. version' # version
      BY DEF Present
    <2>2. \E r \in Request : InsertUpload(r) \/ DeleteVersionRows(r)
      BY <2>1 DEF Next, vars, UploadVersion, UploadDocument, StoreObject,
         NextVersionNo, ReturnStored, UploadFails, RequestFor, RetryLocksJob,
         RequestDeletion, LockDocument, Publish, Retire, LockVersions,
         RaiseIfIngesting, DeleteObjectsAfterwards, RetryCommits, Abort, ImportStep
    <2>3. ASSUME NEW r \in Request, InsertUpload(r)
          PROVE  version'[v].row = "present"
      BY <2>3 DEF InsertUpload, PubInv, TypeOK, Present
    <2>4. ASSUME NEW r \in Request, DeleteVersionRows(r)
          PROVE  phase[v] \in {"ready", "failed"}
      <3>1. v \in request[r].versions
        BY <2>4, RowsDeleted DEF Present
      <3> QED
        BY <2>4, <3>1, RowsDeleted DEF Sound
    <2> QED
      BY <2>2, <2>3, <2>4
  <1> QED
    BY <1>1, PubInvariant, PTL DEF Spec, RetryKept

-----------------------------------------------------------------------------
(* The refinement.  By the invariant, a search finds the versions that are *)
(* published.                                                              *)
Home == [v \in Version |-> version[v].document]

Complete == {v \in Version : index[v] = "full"}

Found == {v \in Version : published[v].version = "PUBLISHED"}

LEMMA FoundIsSearchable == PubInv => {v \in Version : Searchable(v)} = Found
  BY SearchableIsPublished DEF Found

LEMMA FoundAfter == PubInv' => {v \in Version : Searchable(v)}' = Found'
  <1>1. ASSUME PubInv', NEW v \in Version
        PROVE  (Searchable(v) <=> published[v].version = "PUBLISHED")'
    BY <1>1 DEF PubInv, VersionRow, VersionStatus, Searchable, Everywhere,
       PublicationStatus
  <1> QED
    BY <1>1 DEF Found

(* A step of KnowledgeBase, in these terms.                                *)
LEMMA Simulates ==
    ASSUME PubInv, PubInv',
           \/ UNCHANGED <<Home, Complete, Found, WithdrawnVersions>>
           \/ \E v \in Version, d \in Document :
                 /\ Home[v] = NoDocument /\ Home' = [Home EXCEPT ![v] = d]
                 /\ UNCHANGED <<Complete, Found, WithdrawnVersions>>
           \/ \E v \in Version :
                 /\ Home[v] # NoDocument /\ Complete' = Complete \cup {v}
                 /\ UNCHANGED <<Home, Found, WithdrawnVersions>>
           \/ \E v \in Version :
                 LET replaced == {u \in Found : Home[u] = Home[v]}
                 IN  /\ v \in Complete \ (Found \cup WithdrawnVersions)
                     /\ Found' = (Found \ replaced) \cup {v}
                     /\ WithdrawnVersions' = WithdrawnVersions \cup replaced
                     /\ UNCHANGED <<Home, Complete>>
           \/ \E d \in Document, gone \in SUBSET Version :
                 /\ gone # {} /\ \A v \in gone : Home[v] = d
                 /\ Found' = Found \ gone
                 /\ WithdrawnVersions' = WithdrawnVersions \cup gone
                 /\ Complete' \in {Complete, Complete \ gone}
                 /\ UNCHANGED Home
    PROVE  [Knowledge!Next]_(Knowledge!vars)
  <1>1. /\ {v \in Version : Searchable(v)} = Found
        /\ {v \in Version : Searchable(v)}' = Found'
    BY FoundIsSearchable, FoundAfter
  <1> QED
    BY <1>1 DEF Knowledge!Next, Knowledge!vars, Knowledge!Add, Knowledge!Complete,
       Knowledge!Release, Knowledge!Replaced, Knowledge!Withdraw, Home, Complete

LEMMA InsertUploadSimulates ==
    ASSUME PubInv, PubInv', NEW r \in Request, InsertUpload(r)
    PROVE  [Knowledge!Next]_(Knowledge!vars)
  <1> DEFINE h == request[r]
  <1>1. /\ r \in Busy /\ h.document \in Document /\ Sound(h) /\ h.op = "upload"
        /\ h.versions \subseteq Version
    BY HandlerFields DEF InsertUpload, Busy, Idle, PubInv, Sound, OnItsWay
  <1>2. PICK v \in h.versions :
          /\ version' = [version EXCEPT ![v] =
                [row |-> "present", document |-> h.document, no |-> h.no,
                 key |-> h.key]]
          /\ UNCHANGED <<published, index>>
    BY DEF InsertUpload, Import!Accept
  <1>3. v \in Version /\ version[v].row = "absent" /\ Home[v] = NoDocument
    BY <1>1 DEF Sound, Home, PubInv, VersionRow
  <1>4. \A u \in Version :
          /\ version'[u].document = IF u = v THEN h.document ELSE version[u].document
          /\ version'[u].row = IF u = v THEN "present" ELSE version[u].row
    BY <1>2, <1>3 DEF PubInv, TypeOK
  <1>5. Home' = [Home EXCEPT ![v] = h.document]
    BY <1>3, <1>4 DEF Home
  <1>6. UNCHANGED <<Complete, Found, WithdrawnVersions>>
    BY <1>2, <1>3, <1>4 DEF Complete, Found, WithdrawnVersions
  <1> QED
    BY <1>1, <1>3, <1>5, <1>6, Simulates

LEMMA PublishSimulates ==
    ASSUME PubInv, PubInv', NEW r \in Request, Publish(r)
    PROVE  [Knowledge!Next]_(Knowledge!vars)
  <1>1. UNCHANGED <<version, index>>
    BY DEF Publish
  <1>2. UNCHANGED <<Home, Complete>>
    BY <1>1 DEF Home, Complete
  <1>3. CASE UNCHANGED <<published, document>>
    BY <1>1, <1>2, <1>3, Simulates DEF Found, WithdrawnVersions
  <1>4. CASE ~UNCHANGED <<published, document>>
    <2> DEFINE d == request[r].document
    <2>1. PICK v \in Version :
            /\ d \in Document /\ Publishable(v) /\ version[v].document = d
            /\ \A u \in Retiring(d, v) \cap Version :
                  /\ u # v /\ index[u] # "none" /\ version[u].document = d
                  /\ document[d].current = u
            /\ \A u \in Version :
                  published'[u] = IF u = v THEN Everywhere("PUBLISHED")
                                  ELSE IF u \in Retiring(d, v)
                                    THEN Everywhere("RETIRED") ELSE published[u]
            /\ published' = [u \in Version |-> published'[u]]
            /\ document' = [document EXCEPT ![d].current = v]
      BY <1>4, Publishes
    <2> DEFINE replaced == {u \in Found : Home[u] = Home[v]}
    <2>2. /\ index[v] = "full" /\ published[v].version = "DRAFT"
          /\ version[v].row = "present"
      BY <2>1 DEF Publishable, Present, PubInv, VersionRow
    <2>3. \A u \in Version : u \in replaced <=> u \in Retiring(d, v)
      BY <2>1, <2>2 DEF PubInv, CurrentIsPublished, Found, Home, Retiring
    <2>4. v \in Complete \ (Found \cup WithdrawnVersions)
      BY <2>2 DEF Complete, Found, WithdrawnVersions
    <2>5. Found' = (Found \ replaced) \cup {v}
      BY <2>1, <2>3 DEF Found, Everywhere
    <2>6. WithdrawnVersions' = WithdrawnVersions \cup replaced
      <3>1. ASSUME NEW u \in Version
            PROVE  u \in WithdrawnVersions' <=> u \in WithdrawnVersions \cup replaced
        BY <1>1, <2>1, <2>2, <2>3 DEF WithdrawnVersions, Everywhere
      <3> QED
        BY <3>1 DEF WithdrawnVersions, Found
    <2> QED
      BY <1>2, <2>4, <2>5, <2>6, Simulates
  <1> QED
    BY <1>3, <1>4

LEMMA RetireSimulates ==
    ASSUME PubInv, PubInv', NEW r \in Request, Retire(r)
    PROVE  [Knowledge!Next]_(Knowledge!vars)
  <1>1. UNCHANGED <<version, index>>
    BY DEF Retire
  <1>2. UNCHANGED <<Home, Complete>>
    BY <1>1 DEF Home, Complete
  <1>3. CASE UNCHANGED <<published, document>>
    BY <1>1, <1>2, <1>3, Simulates DEF Found, WithdrawnVersions
  <1>4. CASE ~UNCHANGED <<published, document>>
    <2> DEFINE d == request[r].document
    <2>1. PICK v \in Version :
            /\ d \in Document /\ version[v].document = d
            /\ published' = [published EXCEPT ![v] = Everywhere("RETIRED")]
      BY <1>4, Retires
    <2>2. \A u \in Version :
            published'[u] = IF u = v THEN Everywhere("RETIRED") ELSE published[u]
      BY <2>1 DEF PubInv, TypeOK
    <2>3. Found' = Found \ {v} /\ WithdrawnVersions' = WithdrawnVersions \cup {v}
      BY <1>1, <2>2 DEF Found, WithdrawnVersions, Everywhere
    <2>4. /\ {v} \in SUBSET Version /\ {v} # {} /\ \A u \in {v} : Home[u] = d
          /\ Complete' \in {Complete, Complete \ {v}}
      BY <1>2, <2>1 DEF Home
    <2> QED
      BY <1>2, <2>1, <2>3, <2>4, Simulates
  <1> QED
    BY <1>3, <1>4

LEMMA DeletionSimulates ==
    ASSUME PubInv, PubInv', NEW r \in Request, DeleteVersionRows(r)
    PROVE  [Knowledge!Next]_(Knowledge!vars)
  <1> DEFINE d == request[r].document
             gone == request[r].versions
  <1>1. /\ d \in Document /\ gone \in SUBSET Version
        /\ \A v \in gone : version[v].document = d
        /\ \A v \in Version \ gone :
              /\ version'[v] = version[v] /\ published'[v] = published[v]
              /\ index'[v] = index[v]
        /\ \A v \in gone :
              /\ version'[v].row = "deleted" /\ version'[v].document = d
              /\ published'[v] = Everywhere("DRAFT") /\ index'[v] = "none"
    BY RowsDeleted
  <1>2. UNCHANGED Home
    BY <1>1 DEF Home
  <1>3. /\ Found' = Found \ gone /\ Complete' = Complete \ gone
        /\ WithdrawnVersions' = WithdrawnVersions \cup gone
    BY <1>1 DEF Found, Complete, WithdrawnVersions, Everywhere
  <1>4. \A v \in gone : Home[v] = d
    BY <1>1 DEF Home
  <1> HIDE DEF d, gone
  <1>5. CASE gone = {}
    BY <1>2, <1>3, <1>5, Simulates
  <1>6. CASE gone # {}
    BY <1>1, <1>2, <1>3, <1>4, <1>6, Simulates
  <1> QED
    BY <1>5, <1>6

LEMMA ImportSimulates ==
    ASSUME PubInv, PubInv', NEW v \in Version, ImportStep(v)
    PROVE  [Knowledge!Next]_(Knowledge!vars)
  <1>1. Present(v) /\ UNCHANGED <<version, published>>
    BY DEF ImportStep
  <1>2. UNCHANGED <<Home, Found, WithdrawnVersions>>
    BY <1>1 DEF Home, Found, WithdrawnVersions
  <1>3. Home[v] # NoDocument
    BY <1>1, VersionHasDocument, NonesAreNone DEF Home
  <1>4. Complete' = Complete \/ Complete' = Complete \cup {v}
    BY ImportChanges DEF Complete
  <1> QED
    BY <1>2, <1>3, <1>4, Simulates

(* However requests and imports interleave, the knowledge base a question  *)
(* searches changes only as KnowledgeBase lets it.                         *)
THEOREM KnowledgeIsKept == Spec => ImplementsKnowledgeBase
  <1>1. Init => Knowledge!Init
    <2> SUFFICES ASSUME Init PROVE Knowledge!Init
      OBVIOUS
    <2>1. \A v \in Version :
            /\ version[v].row = "absent" /\ version[v].document = NoDocument
            /\ published[v].version = "DRAFT" /\ index[v] = "none"
      BY DEF Init, Everywhere, Import!Init
    <2> QED
      BY <2>1 DEF Knowledge!Init, Searchable, Present, WithdrawnVersions
  <1>2. PubInv /\ PubInv' /\ [Next]_vars => [Knowledge!Next]_(Knowledge!vars)
    <2> SUFFICES ASSUME PubInv, PubInv', [Next]_vars
                 PROVE  [Knowledge!Next]_(Knowledge!vars)
      OBVIOUS
    <2>1. CASE UNCHANGED <<version, published, index>>
      BY <2>1, Simulates DEF Home, Complete, Found, WithdrawnVersions
    <2>2. CASE ~UNCHANGED <<version, published, index>>
      <3>1. \/ \E r \in Request : \/ InsertUpload(r) \/ Publish(r) \/ Retire(r)
                                  \/ DeleteVersionRows(r)
            \/ \E v \in Version : ImportStep(v)
        BY <2>2 DEF Next, vars, UploadVersion, UploadDocument, StoreObject,
           NextVersionNo, ReturnStored, UploadFails, RequestFor, RetryLocksJob,
           RequestDeletion, LockDocument, LockVersions, RaiseIfIngesting,
           DeleteObjectsAfterwards, RetryCommits, Abort, Import!Retry
      <3> QED
        BY <3>1, InsertUploadSimulates, PublishSimulates, RetireSimulates,
           DeletionSimulates, ImportSimulates
    <2> QED
      BY <2>1, <2>2
  <1> QED
    BY <1>1, <1>2, PubInvariant, PTL
    DEF Spec, ImplementsKnowledgeBase, Knowledge!Spec
=============================================================================
