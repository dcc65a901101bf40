------------------------- MODULE PublicationRefinement -------------------------
(***************************************************************************)
(* Publication implements KnowledgeBase: what the rows of documents,       *)
(* versions, sources and chunks mean to a search.                          *)
(***************************************************************************)
EXTENDS Publication

WithdrawnVersions ==
    {v \in Version : version[v].row = "deleted"
                        \/ published[v].version = "RETIRED"}

Knowledge == INSTANCE KnowledgeBase WITH
    home       <- [v \in Version |-> version[v].document],
    complete   <- {v \in Version : index[v] = "full"},
    searchable <- {v \in Version : Searchable(v)},
    withdrawn  <- WithdrawnVersions

(* Whatever requests run at once, a search finds one version of a document *)
(* at most, one that was imported completely, and none that was retired or *)
(* deleted comes back.                                                     *)
ImplementsKnowledgeBase == Knowledge!Spec
=============================================================================
