----------------------------- MODULE MCPublication -----------------------------
(* Instances of Publication for TLC.                                        *)
EXTENDS PublicationRefinement, TLC

Symmetry == Permutations(Document) \cup Permutations(Version)
                \cup Permutations(Key) \cup Permutations(Request)
=============================================================================
