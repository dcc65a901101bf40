-------------------------- MODULE IngestionRefinement --------------------------
(***************************************************************************)
(* The ingestion pipeline implements UploadLifecycle: what the job row, the*)
(* version row and the chunks of an upload mean to the rest of the system. *)
(***************************************************************************)
EXTENDS Ingestion

(* "ready" takes both rows: other components read the version's status,    *)
(* the ingestion endpoints the job's.                                      *)
PhaseOf(j) ==
    CASE job[j].status = "ABSENT" -> "none"
      [] job[j].status = "FAILED" -> "failed"
      [] job[j].status = "SUCCEEDED" /\ version[j].status = "READY_DRAFT"
            -> "ready"
      [] OTHER -> "working"

IndexOf(j) ==
    IF ~source[j] THEN "none"
    ELSE IF Embedded(j) = Chunk THEN "full" ELSE "partial"

Lifecycle == INSTANCE UploadLifecycle WITH
    Upload <- JobId,
    phase  <- [j \in JobId |-> PhaseOf(j)],
    index  <- [j \in JobId |-> IndexOf(j)]

(* Every transaction of a worker, the recovery scan or an endpoint is a    *)
(* step of the lifecycle or none: no late task, redelivery or retry takes  *)
(* a ready version back, makes one ready without a full index, or revives  *)
(* a failed one but by a manual retry.                                     *)
ImplementsLifecycle == Lifecycle!Spec

(* And under the pipeline's fairness no upload is worked on for ever,      *)
(* whatever is lost or crashes on the way.                                 *)
SettlesEveryUpload == Lifecycle!FairSpec
=============================================================================
