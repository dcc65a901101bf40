--------------------------------- MODULE Search ---------------------------------
(***************************************************************************)
(* One question, from the first search for evidence to its answer, while   *)
(* documents are published and withdrawn (KnowledgeBase) and other         *)
(* questions use the same reranker.                                        *)
(*                                                                         *)
(* The keyword search and the vector search are two statements, each sees  *)
(* what is published when it runs, and the embedding provider is awaited   *)
(* between them.  Scores are multiples of 1/Unit, which makes the quotients*)
(* of the instance checked whole numbers.                                  *)
(***************************************************************************)
EXTENDS Integers, FiniteSets, Sequences, FiniteSetsExt, SequencesExt

CONSTANTS
    Document, Version, NoDocument,
    NumChunks,                \* chunks of a version
    Length,                   \* characters of a version's chunks
    KeywordTopK, VectorTopK, ResultTopK, CandidateTopK, RerankTopK,
    RrfK, KeywordWeight, VectorWeight, Unit,
    MinimumScore, DegradedMinimum, MinimumGap,
    MaxItems, MaxCharacters   \* the evidence budget

ASSUME NoDocumentIsNone == NoDocument \notin Document

(* BasicRetrievalService, RetrievalSettings and EvidencePolicySettings.    *)
ASSUME LimitsAssumption ==
    /\ {NumChunks, KeywordTopK, VectorTopK, ResultTopK, CandidateTopK,
        RerankTopK, RrfK, KeywordWeight, VectorWeight, Unit,
        MaxItems, MaxCharacters} \subseteq Nat \ {0}
    /\ Length \in [Version -> Nat \ {0}]
    /\ ResultTopK <= RerankTopK /\ RerankTopK <= CandidateTopK
    /\ CandidateTopK <= KeywordTopK + VectorTopK
    /\ MinimumScore \in Nat /\ MinimumGap \in Nat
    /\ DegradedMinimum \in Nat /\ DegradedMinimum >= MinimumScore

VARIABLES
    home, complete, searchable, withdrawn,  \* of KnowledgeBase
    cooling,    \* the process's reranker failed a short time ago
    question,   \* how far the question is
    available,  \* versions that were searchable during its searches
    released    \* those of them released meanwhile

base == <<home, complete, searchable, withdrawn>>
seen == <<available, released>>
vars == <<base, cooling, question, seen>>

Knowledge == INSTANCE KnowledgeBase

-----------------------------------------------------------------------------
Chunk == Version \X (1..NumChunks)

Source(c) == c[1]

Ranking == {s \in BoundedSeq(Chunk, KeywordTopK + VectorTopK) : IsInjective(s)}

(* Rankings of at most n of the chunks.                                    *)
Rankings(chunks, n) == {s \in BoundedSeq(chunks, n) : IsInjective(s)}

Degraded == {"VECTOR_UNAVAILABLE", "RERANK_UNAVAILABLE"}

Reason == {"no_evidence", "score_below_threshold", "score_gap_too_small",
           "required_term_not_covered", "evidence_budget_empty",
           "answer_not_grounded"}

Stage == {"idle", "embedding", "reranking", "generating", "answered",
          "refused", "failed"}

NewQuestion == [pc |-> "idle", keyword |-> <<>>, vector |-> <<>>, hits |-> <<>>,
                degraded |-> {}, reasons |-> {}, evidence |-> {}, cited |-> {}]

At(pc) == question.pc = pc

(* All versions are uploaded, and none of them is published yet.           *)
Init ==
    /\ home \in [Version -> Document]
    /\ complete \in SUBSET Version
    /\ searchable = {}
    /\ withdrawn = {}
    /\ cooling = FALSE
    /\ question = NewQuestion
    /\ available = {}
    /\ released = {}

-----------------------------------------------------------------------------
(* PostgresKnowledgeSearch: chunk and source are published.                *)

(* Mutant: what was withdrawn is found too.                                *)
FoundWithdrawn == {c \in Chunk : Source(c) \in searchable \cup withdrawn}

Found == {c \in Chunk : Source(c) \in searchable}

(* Any chunks may be similar to the question, in any order.                *)
KeywordSearch ==
    /\ At("idle")
    /\ \E hits \in Rankings(Found, KeywordTopK) :
           question' = [question EXCEPT !.pc = "embedding", !.keyword = hits]
    /\ available' = searchable
    /\ UNCHANGED <<base, cooling, released>>

-----------------------------------------------------------------------------
(* _fuse: reciprocal ranks, weighted and added.                            *)

Rank(c, ranking) == CHOOSE i \in DOMAIN ranking : ranking[i] = c

RankScore(weight, rank) == (weight * Unit) \div (RrfK + rank)

Reciprocal(c, ranking, weight) ==
    IF c \in Range(ranking) THEN RankScore(weight, Rank(c, ranking)) ELSE 0

(* Mutant: the score of the later channel replaces that of the first.      *)
LastScore(c, keyword, vector) ==
    IF c \in Range(vector) THEN Reciprocal(c, vector, VectorWeight)
                           ELSE Reciprocal(c, keyword, KeywordWeight)

FusedScore(c, keyword, vector) ==
    Reciprocal(c, keyword, KeywordWeight) + Reciprocal(c, vector, VectorWeight)

(* Chunks with the same score are in the order of their ids, which is any. *)
Fused(keyword, vector) ==
    {s \in SetToSeqs(Range(keyword) \cup Range(vector)) :
         \A i, j \in DOMAIN s : i < j =>
             FusedScore(s[i], keyword, vector) >= FusedScore(s[j], keyword, vector)}

Cut(s, n) == SubSeq(s, 1, IF Len(s) < n THEN Len(s) ELSE n)

-----------------------------------------------------------------------------
(* DeterministicEvidencePolicy and EvidenceOrganizer, which run as soon as *)
(* the hits are there.                                                     *)

(* Mutant: the threshold of a degraded search always.                      *)
AlwaysStrict(degraded) == DegradedMinimum

AppliedThreshold(degraded) ==
    IF degraded = {} THEN MinimumScore ELSE DegradedMinimum

(* The reasons against what was found.  Which terms a question requires    *)
(* and which hits contain them is open (terms).                            *)
Evaluate(q, terms) ==
    LET score(i) == FusedScore(q.hits[i], q.keyword, q.vector)
        below == score(1) < AppliedThreshold(q.degraded)
        close == Len(q.hits) > 1 /\ MinimumGap > 0 /\ score(1) - score(2) < MinimumGap
    IN  IF q.hits = <<>> THEN {"no_evidence"}
        ELSE {reason \in Reason :
                 \/ reason = "score_below_threshold" /\ below
                 \/ reason = "score_gap_too_small" /\ close
                 \/ reason = "required_term_not_covered" /\ ~terms}

Characters(chunks) == MapThenSumSet(LAMBDA c : Length[Source(c)], chunks)

(* The evidence is made of the hits, one after the other; what the budget  *)
(* has no room for is passed over.  There is one such set.                 *)
Organize(hits) ==
    {evidence \in SUBSET Range(hits) :
         \A i \in DOMAIN hits :
             LET items == {hits[j] : j \in 1..(i - 1)} \cap evidence
             IN  hits[i] \in evidence <=>
                     /\ Cardinality(items) < MaxItems
                     /\ Characters(items) + Length[Source(hits[i])] <= MaxCharacters}

(* What becomes of a question with its hits.                               *)
Decide(q) ==
    \E terms \in BOOLEAN, evidence \in Organize(q.hits) :
        LET reasons == Evaluate(q, terms)
        IN  \/ /\ reasons # {}
               /\ question' = [q EXCEPT !.pc = "refused", !.reasons = reasons]
            \/ /\ reasons = {} /\ evidence = {}
               /\ question' = [q EXCEPT !.pc = "refused",
                                        !.reasons = {"evidence_budget_empty"}]
            \/ /\ reasons = {} /\ evidence # {}
               /\ question' = [q EXCEPT !.pc = "generating", !.evidence = evidence]

-----------------------------------------------------------------------------
(* After the vector search: the hits are fused and, if there are any,      *)
(* reranked, unless the reranker failed a short time ago.                  *)
Fuse(vector, degraded) ==
    \E fused \in Fused(question.keyword, vector) :
        LET q == [question EXCEPT !.vector = vector, !.degraded = degraded]
        IN  \/ /\ fused # <<>> /\ ~cooling
               /\ question' = [q EXCEPT !.pc = "reranking", !.hits = fused]
            \/ /\ fused # <<>> /\ cooling
               /\ Decide([q EXCEPT !.hits = Cut(fused, ResultTopK),
                                   !.degraded = @ \cup {"RERANK_UNAVAILABLE"}])
            \/ fused = <<>> /\ Decide(q)

(* The chunks whose vectors are of the provider's model, nearest first.    *)
VectorSearch ==
    /\ At("embedding")
    /\ \E vector \in Rankings(Found, VectorTopK) : Fuse(vector, {})
    /\ UNCHANGED <<base, cooling, seen>>

(* The embedding provider or the statement fails.                          *)
VectorUnavailable ==
    /\ At("embedding")
    /\ Fuse(<<>>, {"VECTOR_UNAVAILABLE"})
    /\ UNCHANGED <<base, cooling, seen>>

(* HttpRerankProvider: only an answer that ranks as many of the candidates *)
(* as asked for, each once, counts; it ends the cooldown.                  *)
Reranked ==
    LET candidates == Cut(question.hits, CandidateTopK)
        asked == IF Len(candidates) < RerankTopK THEN Len(candidates) ELSE RerankTopK
    IN  /\ At("reranking")
        /\ \E ranked \in Rankings(Range(candidates), asked) :
               /\ Len(ranked) = asked
               /\ Decide([question EXCEPT !.hits = Cut(ranked, ResultTopK)])
        /\ cooling' = FALSE
        /\ UNCHANGED <<base, seen>>

(* An error, a timeout or an answer that does not count.                   *)
RerankFails ==
    /\ At("reranking")
    /\ Decide([question EXCEPT !.hits = Cut(@, ResultTopK),
                               !.degraded = @ \cup {"RERANK_UNAVAILABLE"}])
    /\ cooling' = TRUE
    /\ UNCHANGED <<base, seen>>

(* AnswerGenerator: each claim cites evidence that contains it.            *)
Answer ==
    /\ At("generating")
    /\ \E cited \in SUBSET question.evidence \ {{}} :
           question' = [question EXCEPT !.pc = "answered", !.cited = cited]
    /\ UNCHANGED <<base, cooling, seen>>

NotGrounded ==
    /\ At("generating")
    /\ question' = [question EXCEPT !.pc = "refused",
                                    !.reasons = {"answer_not_grounded"}]
    /\ UNCHANGED <<base, cooling, seen>>

ProviderFails ==
    /\ At("generating")
    /\ question' = [question EXCEPT !.pc = "failed"]
    /\ UNCHANGED <<base, cooling, seen>>

-----------------------------------------------------------------------------
(* Meanwhile documents are indexed, published and withdrawn.               *)
Searching == At("embedding")

Publish(v) ==
    /\ Knowledge!Release(v)
    /\ available' = IF Searching THEN available \cup {v} ELSE available
    /\ released' = IF Searching THEN released \cup {v} ELSE released
    /\ UNCHANGED <<cooling, question>>

IndexOrWithdraw ==
    /\ \/ \E v \in Version : Knowledge!Complete(v)
       \/ \E d \in Document, gone \in SUBSET Version : Knowledge!Withdraw(d, gone)
    /\ UNCHANGED <<cooling, question, seen>>

(* Another question's call fails, or succeeds though it began before a     *)
(* failure; or the cooldown is over.                                       *)
OtherQuestions ==
    /\ cooling' = ~cooling
    /\ UNCHANGED <<base, question, seen>>

Next ==
    \/ KeywordSearch \/ VectorSearch \/ VectorUnavailable
    \/ Reranked \/ RerankFails
    \/ Answer \/ NotGrounded \/ ProviderFails
    \/ \E v \in Version : Publish(v)
    \/ IndexOrWithdraw
    \/ OtherQuestions

Spec == Init /\ [][Next]_vars

-----------------------------------------------------------------------------
(* Every variable holds a value of its type; what the knowledge base       *)
(* promises holds here too.                                                *)
TypeOK ==
    /\ Knowledge!TypeOK
    /\ Knowledge!OneAndComplete
    /\ cooling \in BOOLEAN
    /\ question.pc \in Stage
    /\ {question.keyword, question.vector, question.hits} \subseteq Ranking
    /\ question.degraded \subseteq Degraded
    /\ question.reasons \subseteq Reason
    /\ question.evidence \subseteq Range(question.hits)
    /\ question.cited \subseteq question.evidence
    /\ released \subseteq available /\ available \subseteq Version

(* Whatever is withdrawn or published meanwhile, the evidence was          *)
(* published while the question searched: never a draft, nothing that was  *)
(* withdrawn before, and two versions of a document only if one of them    *)
(* was released between the two searches.  The variables keep their types. *)
EvidenceWasPublished ==
    /\ TypeOK
    /\ \A c \in Range(question.hits) : Source(c) \in available
    /\ \A b, c \in Range(question.hits) :
          /\ Source(b) # Source(c)
          /\ home[Source(b)] = home[Source(c)]
          => {Source(b), Source(c)} \cap released # {}

(* The proportion of the settings that the two properties below need: the  *)
(* last ranks of both searches outweigh a first rank of one, every rank    *)
(* reaches the threshold, and a first one that of a degraded search.  The  *)
(* defaults have it; other settings are accepted.                          *)
AgreementOutweighs ==
    LET lastOfBoth == RankScore(KeywordWeight, KeywordTopK)
                          + RankScore(VectorWeight, VectorTopK)
    IN  /\ lastOfBoth > RankScore(KeywordWeight, 1)
        /\ lastOfBoth > RankScore(VectorWeight, 1)

RanksReachThresholds ==
    /\ RankScore(KeywordWeight, KeywordTopK) >= MinimumScore
    /\ RankScore(VectorWeight, VectorTopK) >= MinimumScore
    /\ RankScore(KeywordWeight, 1) >= DegradedMinimum
    /\ RankScore(VectorWeight, 1) >= DegradedMinimum

(* Without the reranker, what both searches found comes before what only   *)
(* one of them found, however high that ranked it (AgreementOutweighs).    *)
AgreementWins ==
    LET both == Range(question.keyword) \cap Range(question.vector)
    IN  At("reranking") \/ "RERANK_UNAVAILABLE" \in question.degraded =>
            \A i, j \in DOMAIN question.hits :
                question.hits[i] \notin both /\ question.hits[j] \in both => j < i

(* A score alone refuses a question only when there was no vector search   *)
(* and the reranker preferred a chunk the keyword search had not put first *)
(* (RanksReachThresholds).                                                 *)
ScoreRefusesOnlyReordered ==
    "score_below_threshold" \in question.reasons =>
        /\ question.degraded = {"VECTOR_UNAVAILABLE"}
        /\ question.hits[1] # question.keyword[1]
=============================================================================
