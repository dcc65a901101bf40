------------------------------ MODULE MCIngestion ------------------------------
(* Instances of Ingestion for TLC.                                          *)
EXTENDS IngestionRefinement, TLC

WorkerSymmetry == Permutations(Worker)
=============================================================================
