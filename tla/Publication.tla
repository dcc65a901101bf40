------------------------------ MODULE Publication ------------------------------
(***************************************************************************)
(* Documents, their versions and what of them is searchable: uploads with  *)
(* idempotency keys, publishing, retiring and deleting, and the manual     *)
(* retry of an import, by requests that run at the same time.  How an      *)
(* import proceeds is left to UploadLifecycle, which Ingestion implements. *)
(*                                                                         *)
(* An action ends where a request waits for a row lock, commits, or has    *)
(* changed the object store; `request` is what its handler remembers then. *)
(***************************************************************************)
EXTENDS Integers, FiniteSets

CONSTANTS
    Document, NoDocument,
    Version, NoVersion,     \* a version, its job, its source and its object
    Key, NoKey,             \* idempotency keys of one actor and system
    Request

ASSUME NonesAreNone ==
    NoDocument \notin Document /\ NoVersion \notin Version /\ NoKey \notin Key

VARIABLES
    document,   \* documents
    version,    \* document_versions and the key of their ingestion_jobs
    published,  \* publish_status of a version, its source and its chunks
    phase,      \* the ingestion job, and
    index,      \* the chunks and vectors, as UploadLifecycle sees them
    objects,    \* the uploaded files in the object store
    request     \* the requests being handled

vars == <<document, version, published, phase, index, objects, request>>

Import == INSTANCE UploadLifecycle WITH Upload <- Version

-----------------------------------------------------------------------------
Row == {"absent", "present", "deleted"}

PublicationStatus == {"DRAFT", "PUBLISHED", "RETIRED"}

DocumentRecord == [row : Row, current : Version \cup {NoVersion}]

VersionRecord == [row      : Row,
                  document : Document \cup {NoDocument},
                  no       : Nat,
                  key      : Key \cup {NoKey}]

(* The statuses are kept in three tables.                                  *)
Published == [version : PublicationStatus,
              source  : PublicationStatus,
              chunks  : PublicationStatus]

Everywhere(status) == [version |-> status, source |-> status, chunks |-> status]

Operation == {"upload", "publish", "retire", "delete_version",
              "delete_document", "retry"}

(* at: what the handler does next.                                         *)
Handler == [op       : Operation,
            at       : {"lock_document", "insert", "lock_version",
                        "check_jobs", "delete_rows", "delete_objects",
                        "update_version"},
            document : Document,
            versions : SUBSET Version,
            no       : Nat,
            key      : Key \cup {NoKey},
            first    : BOOLEAN]    \* the upload creates its document

Idle == [at |-> "idle"]

Handle(op, at, d, versions) ==
    [op |-> op, at |-> at, document |-> d, versions |-> versions, no |-> 0,
     key |-> NoKey, first |-> FALSE]

Busy == {r \in Request : request[r] # Idle}

Present(v) == version[v].row = "present"

VersionsOf(d) == {v \in Version : Present(v) /\ version[v].document = d}

KeyTaken(k) == \E v \in Version : Present(v) /\ version[v].key = k

(* What the two searches of a question look for.                           *)
Searchable(v) ==
    /\ Present(v) /\ index[v] # "none"
    /\ published[v].source = "PUBLISHED" /\ published[v].chunks = "PUBLISHED"

Init ==
    /\ document = [d \in Document |-> [row |-> "absent", current |-> NoVersion]]
    /\ version = [v \in Version |-> [row |-> "absent", document |-> NoDocument,
                                     no |-> 0, key |-> NoKey]]
    /\ published = [v \in Version |-> Everywhere("DRAFT")]
    /\ Import!Init
    /\ objects = {}
    /\ request = [r \in Request |-> Idle]

-----------------------------------------------------------------------------
(* Row locks, held to the end of a transaction.                            *)

LocksDocument(r, d) ==
    /\ request[r].document = d
    /\ \/ request[r].at = "insert" /\ ~request[r].first
       \/ request[r].at \in {"lock_version", "check_jobs", "delete_rows"}

(* Mutants of LocksVersion: a deletion does not lock its versions;         *)
(* requests lock the version they name before its document.                *)
LocksNoVersion(r, v) == FALSE
LocksVersionFirst(r, v) ==
    /\ v \in request[r].versions
    /\ request[r].at \in {"lock_document", "lock_version", "check_jobs",
                         "delete_rows"}
    /\ request[r].op # "upload"

LocksVersion(r, v) ==
    v \in request[r].versions /\ request[r].at \in {"check_jobs", "delete_rows"}

LocksJob(r, v) ==
    v \in request[r].versions /\ request[r].at = "update_version"

DocumentFree(r, d) == \A s \in Busy \ {r} : ~LocksDocument(s, d)

VersionFree(r, v) == \A s \in Busy \ {r} : ~LocksVersion(s, v)

JobFree(r, v) == \A s \in Busy \ {r} : ~LocksJob(s, v)

GoOn(r, handler) == request' = [request EXCEPT ![r] = handler]

End(r) == GoOn(r, Idle)

(* Best effort: errors of the object store are logged.                     *)
DeleteObjects(keys) ==
    objects' \in {objects \ gone : gone \in SUBSET (keys \cap objects)}

-----------------------------------------------------------------------------
(* Uploads.  The object is stored before any row.                          *)

Fresh(v) ==
    /\ version[v].row = "absent"
    /\ v \notin objects
    /\ \A r \in Busy : v \notin request[r].versions

StoreObject(r, d, k, at, first) ==
    \E v \in Version :
        /\ Fresh(v)
        /\ objects' = objects \cup {v}
        /\ GoOn(r, [op |-> "upload", at |-> at, document |-> d, versions |-> {v},
                    no |-> 1, key |-> k, first |-> first])
        /\ UNCHANGED <<document, version, published, phase, index>>

(* To a document; an upload whose key is taken changes nothing.            *)
UploadVersion(r, d, k) ==
    /\ request[r] = Idle
    /\ document[d].row = "present"
    /\ ~KeyTaken(k)
    /\ StoreObject(r, d, k, "lock_document", FALSE)

UploadDocument(r, d, k) ==
    /\ request[r] = Idle
    /\ document[d].row = "absent"
    /\ \A s \in Busy : request[s].document # d
    /\ ~KeyTaken(k)
    /\ StoreObject(r, d, k, "insert", TRUE)

(* max(version_no) or 0, as a set of one.                                  *)
LatestNo(d) ==
    LET numbers == {version[v].no : v \in VersionsOf(d)} \cup {0}
    IN  {n \in numbers : \A m \in numbers : m <= n}

NextVersionNo(r) ==
    LET h == request[r]
    IN  /\ h.at = "lock_document" /\ h.op = "upload"
        /\ DocumentFree(r, h.document)
        /\ document[h.document].row = "present"
        /\ \E latest \in LatestNo(h.document) :
              GoOn(r, [h EXCEPT !.at = "insert", !.no = latest + 1])
        /\ UNCHANGED <<document, version, published, phase, index, objects>>

(* Mutant of Rejected: the object of the stored upload is deleted.         *)
StoredUpload(h) == {v \in Version : Present(v) /\ version[v].key = h.key}

(* The object an upload leaves behind when another has taken its key.      *)
Rejected(h) == h.versions

(* The unique key and number; the other upload's rows are committed.       *)
InsertFails(h) ==
    \/ KeyTaken(h.key)
    \/ \E v \in VersionsOf(h.document) : version[v].no = h.no

InsertUpload(r) ==
    LET h == request[r]
    IN  /\ h.at = "insert"
        /\ ~InsertFails(h)
        /\ \E v \in h.versions :
              /\ version' = [version EXCEPT ![v] =
                   [row |-> "present", document |-> h.document, no |-> h.no,
                    key |-> h.key]]
              /\ Import!Accept(v)
        /\ document' = [document EXCEPT ![h.document].row = "present"]
        /\ End(r)
        /\ UNCHANGED <<published, objects>>

(* The stored upload of the same key is returned, or a conflict.           *)
ReturnStored(r) ==
    LET h == request[r]
    IN  /\ h.at = "insert"
        /\ InsertFails(h)
        /\ DeleteObjects(Rejected(h))
        /\ End(r)
        /\ UNCHANGED <<document, version, published, phase, index>>

(* The document is gone, or an error before the commit.                    *)
UploadFails(r) ==
    LET h == request[r]
    IN  /\ h # Idle /\ h.op = "upload"
        /\ DeleteObjects(h.versions)
        /\ End(r)
        /\ UNCHANGED <<document, version, published, phase, index>>

-----------------------------------------------------------------------------
(* Publishing and retiring.                                                *)

(* get_version, without a lock, tells the document to lock.                *)
RequestFor(r, op, v) ==
    /\ request[r] = Idle
    /\ Present(v)
    /\ GoOn(r, Handle(op, "lock_document", version[v].document, {v}))
    /\ UNCHANGED <<document, version, published, phase, index, objects>>

RequestDeletion(r, d) ==
    /\ request[r] = Idle
    /\ document[d].row = "present"
    /\ GoOn(r, Handle("delete_document", "lock_document", d, {}))
    /\ UNCHANGED <<document, version, published, phase, index, objects>>

LockDocument(r) ==
    LET h == request[r]
    IN  /\ h.at = "lock_document" /\ h.op # "upload"
        /\ DocumentFree(r, h.document)
        /\ IF document[h.document].row = "present"
             THEN GoOn(r, [h EXCEPT !.at = "lock_version"])
             ELSE End(r)
        /\ UNCHANGED <<document, version, published, phase, index, objects>>

SetPublicationStatus(statuses, v, status) ==
    [statuses EXCEPT ![v] = IF index[v] = "none"
                              THEN [@ EXCEPT !.version = status]
                              ELSE Everywhere(status)]

(* Mutant of Publishable: a retired version.                               *)
PublishableAgain(v) ==
    /\ Present(v) /\ phase[v] = "ready"
    /\ published[v].version # "PUBLISHED" /\ index[v] # "none"

Publishable(v) ==
    /\ Present(v) /\ phase[v] = "ready"
    /\ published[v].version = "DRAFT"
    /\ index[v] # "none"

(* Mutant of Retiring: the version published so far stays so.              *)
RetiringNothing(d, v) == {}

(* The document's current version makes room.                              *)
Retiring(d, v) == {document[d].current} \ {v, NoVersion}

Publish(r) ==
    LET h == request[r]
    IN  /\ h.at = "lock_version" /\ h.op = "publish"
        /\ \E v \in h.versions :
              /\ VersionFree(r, v)
              /\ IF Publishable(v)
                   THEN /\ published' = SetPublicationStatus(
                             [u \in Version |->
                                IF u \in Retiring(h.document, v)
                                  THEN SetPublicationStatus(published, u, "RETIRED")[u]
                                  ELSE published[u]],
                             v, "PUBLISHED")
                        /\ document' = [document EXCEPT ![h.document].current = v]
                   ELSE UNCHANGED <<published, document>>
        /\ End(r)
        /\ UNCHANGED <<version, phase, index, objects>>

Cleared(d, v) ==
    IF document[d].current = v
      THEN [document EXCEPT ![d].current = NoVersion] ELSE document

Retire(r) ==
    LET h == request[r]
    IN  /\ h.at = "lock_version" /\ h.op = "retire"
        /\ \E v \in h.versions :
              /\ VersionFree(r, v)
              /\ IF Present(v) /\ published[v].version = "PUBLISHED"
                   THEN /\ published' = SetPublicationStatus(published, v, "RETIRED")
                        /\ document' = Cleared(h.document, v)
                   ELSE UNCHANGED <<published, document>>
        /\ End(r)
        /\ UNCHANGED <<version, phase, index, objects>>

-----------------------------------------------------------------------------
(* Deleting a version or a whole document.                                 *)

Doomed(h) ==
    IF h.op = "delete_document" THEN VersionsOf(h.document)
                                ELSE {v \in h.versions : Present(v)}

LockVersions(r) ==
    LET h == request[r]
    IN  /\ h.at = "lock_version"
        /\ h.op \in {"delete_version", "delete_document"}
        /\ \A v \in Doomed(h) : VersionFree(r, v)
        /\ IF h.op = "delete_version" /\ Doomed(h) = {}
             THEN End(r)
             ELSE GoOn(r, [h EXCEPT !.at = "check_jobs", !.versions = Doomed(h)])
        /\ UNCHANGED <<document, version, published, phase, index, objects>>

(* ACTIVE_INGESTION_STATUSES                                               *)
Ingesting(versions) == \E v \in versions : phase[v] = "working"

RaiseIfIngesting(r) ==
    LET h == request[r]
    IN  /\ h.at = "check_jobs"
        /\ IF Ingesting(h.versions) THEN End(r)
                                    ELSE GoOn(r, [h EXCEPT !.at = "delete_rows"])
        /\ UNCHANGED <<document, version, published, phase, index, objects>>

Replacing(rows, versions, row) ==
    [v \in Version |-> IF v \in versions THEN row ELSE rows[v]]

(* Waits for the job rows it deletes.                                      *)
DeleteVersionRows(r) ==
    LET h == request[r]
    IN  /\ h.at = "delete_rows"
        /\ \A v \in h.versions : JobFree(r, v)
        /\ version' = Replacing(version, h.versions,
                                [row |-> "deleted", document |-> h.document,
                                 no |-> 0, key |-> NoKey])
        /\ published' = Replacing(published, h.versions, Everywhere("DRAFT"))
        /\ phase' = Replacing(phase, h.versions, "none")
        /\ index' = Replacing(index, h.versions, "none")
        /\ document' =
             IF h.op = "delete_document"
               THEN [document EXCEPT ![h.document] =
                       [row |-> "deleted", current |-> NoVersion]]
               ELSE Cleared(h.document, CHOOSE v \in h.versions : TRUE)
        /\ GoOn(r, [h EXCEPT !.at = "delete_objects"])
        /\ UNCHANGED objects

DeleteObjectsAfterwards(r) ==
    LET h == request[r]
    IN  /\ h.at = "delete_objects"
        /\ DeleteObjects(h.versions)
        /\ End(r)
        /\ UNCHANGED <<document, version, published, phase, index>>

-----------------------------------------------------------------------------
(* The manual retry of an import locks the job, then updates the version.  *)

RetryLocksJob(r, v) ==
    /\ request[r] = Idle
    /\ Present(v) /\ phase[v] = "failed"
    /\ JobFree(r, v)
    /\ GoOn(r, Handle("retry", "update_version", version[v].document, {v}))
    /\ UNCHANGED <<document, version, published, phase, index, objects>>

RetryCommits(r) ==
    LET h == request[r]
    IN  /\ h.at = "update_version"
        /\ \E v \in h.versions : VersionFree(r, v) /\ Import!Retry(v)
        /\ End(r)
        /\ UNCHANGED <<document, version, published, objects>>

(* r waits for a row s has locked.                                         *)
WaitsFor(r, s) ==
    LET h == request[r]
    IN  \/ h.at = "lock_document" /\ LocksDocument(s, h.document)
        \/ h.at = "lock_version"
             /\ \E v \in h.versions \cup Doomed(h) : LocksVersion(s, v)
        \/ h.at = "delete_rows" /\ \E v \in h.versions : LocksJob(s, v)
        \/ h.at = "update_version" /\ \E v \in h.versions : LocksVersion(s, v)

(* The process dies, the connection breaks, or PostgreSQL aborts the       *)
(* transaction to resolve a deadlock: an open transaction leaves nothing.  *)
Abort(r) ==
    /\ request[r] # Idle
    /\ End(r)
    /\ UNCHANGED <<document, version, published, phase, index, objects>>

-----------------------------------------------------------------------------
(* The import of a version whose rows exist; its transactions lock the job *)
(* and the version.                                                        *)
Unlocked(v) == \A r \in Busy : ~LocksVersion(r, v) /\ ~LocksJob(r, v)

ImportStep(v) ==
    /\ Present(v) /\ Unlocked(v)
    /\ Import!Grow(v) \/ Import!Succeed(v) \/ Import!Fail({v})
    /\ UNCHANGED <<document, version, published, objects, request>>

Next ==
    \/ \E r \in Request :
          \/ \E d \in Document, k \in Key :
                UploadVersion(r, d, k) \/ UploadDocument(r, d, k)
          \/ NextVersionNo(r) \/ InsertUpload(r) \/ ReturnStored(r) \/ UploadFails(r)
          \/ \E v \in Version :
                \/ \E op \in {"publish", "retire", "delete_version"} : RequestFor(r, op, v)
                \/ RetryLocksJob(r, v)
          \/ \E d \in Document : RequestDeletion(r, d)
          \/ LockDocument(r) \/ Publish(r) \/ Retire(r)
          \/ LockVersions(r) \/ RaiseIfIngesting(r) \/ DeleteVersionRows(r)
          \/ DeleteObjectsAfterwards(r)
          \/ RetryCommits(r) \/ Abort(r)
    \/ \E v \in Version : ImportStep(v)

Spec == Init /\ [][Next]_vars

-----------------------------------------------------------------------------
(* Every variable holds a value of its type.                               *)
TypeOK ==
    /\ document \in [Document -> DocumentRecord]
    /\ version \in [Version -> VersionRecord]
    /\ published \in [Version -> Published]
    /\ phase \in [Version -> Import!Phase]
    /\ index \in [Version -> Import!Index]
    /\ objects \subseteq Version
    /\ request \in [Request -> Handler \cup {Idle}]

(* The document's current version and the statuses of versions, sources    *)
(* and chunks agree, whatever publishes, retires and deletes at once: the  *)
(* current version is searchable and no other one is shown as published.   *)
(* The variables keep their types.                                         *)
CurrentIsSearchable ==
    /\ TypeOK
    /\ \A v \in Version :
          LET isCurrent == \E d \in Document : document[d].current = v
          IN  /\ isCurrent <=> published[v].version = "PUBLISHED"
              /\ isCurrent <=> Searchable(v)
              /\ isCurrent => document[version[v].document].current = v

(* The file of a version in the database is in the object store, which     *)
(* failed, repeated and conflicting uploads and deletions clean up.        *)
ObjectsKept == \A v \in Version : Present(v) => v \in objects

(* Requests take locks in one order, documents before versions before      *)
(* jobs: only a manual retry, which starts with the job, can be part of a  *)
(* deadlock.                                                               *)
Stage(h) ==
    CASE h.at = "lock_document" -> 1
      [] h.at = "lock_version"  -> 2
      [] OTHER                  -> 3

LockOrder ==
    \A r, s \in Busy :
        r # s /\ WaitsFor(r, s) /\ request[s].op # "retry"
            => request[r].op = "retry" \/ Stage(request[r]) < Stage(request[s])

(* A version disappears only while its import is at rest, so a retry that  *)
(* was accepted is never dropped, though deletion reads the jobs without   *)
(* a lock.                                                                 *)
RetryKept ==
    [][\A v \in Version :
          Present(v) /\ version'[v].row = "deleted" =>
              phase[v] \in {"ready", "failed"}]_vars
=============================================================================
