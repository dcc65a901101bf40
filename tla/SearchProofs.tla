------------------------------ MODULE SearchProofs ------------------------------
(***************************************************************************)
(* Proofs about Search, for every knowledge base and every setting: where  *)
(* the evidence comes from.  What the proportion of the settings decides   *)
(* is proved of the settings that have it; the defaults do.                *)
(***************************************************************************)
EXTENDS Search, FiniteSetTheorems, SequenceTheorems, TLAPS

(* The score of a question's i-th hit.                                     *)
Scored(q, i) == FusedScore(q.hits[i], q.keyword, q.vector)

-----------------------------------------------------------------------------
(* Rankings, and what is made of them.                                     *)

(* A ranking is a sequence without repetition.                             *)
LEMMA RankingKinds ==
    ASSUME NEW S, NEW n \in Nat, NEW s
    PROVE  s \in Rankings(S, n) <=>
               /\ s \in Seq(S) /\ Len(s) <= n
               /\ \A i, j \in 1..Len(s) : s[i] = s[j] => i = j
  <1>1. ASSUME NEW m \in 0..n, s \in [1..m -> S]
        PROVE  s \in Seq(S) /\ Len(s) = m /\ DOMAIN s = 1..m
    BY <1>1
  <1>2. ASSUME s \in Seq(S), Len(s) <= n
        PROVE  Len(s) \in 0..n /\ s \in [1..Len(s) -> S] /\ DOMAIN s = 1..Len(s)
    BY <1>2
  <1> QED
    BY <1>1, <1>2 DEF Rankings, BoundedSeq, SeqOf, IsInjective

LEMMA RankingsGrow ==
    ASSUME NEW S, NEW T, S \subseteq T, NEW m \in Nat, NEW n \in Nat, m <= n
    PROVE  /\ Rankings(S, m) \subseteq Rankings(T, n)
           /\ <<>> \in Rankings(S, m)
  <1>1. ASSUME NEW s \in Seq(S) PROVE s \in Seq(T) /\ Len(s) \in Nat
    BY <1>1
  <1>2. ASSUME NEW s \in Rankings(S, m) PROVE s \in Rankings(T, n)
    BY <1>1, RankingKinds
  <1>3. <<>> \in Seq(S) /\ Len(<<>>) = 0
    OBVIOUS
  <1>4. <<>> \in Rankings(S, m)
    <2> DEFINE e == <<>>
    <2>1. /\ e \in Seq(S) /\ Len(e) <= m
          /\ \A i, j \in 1..Len(e) : e[i] = e[j] => i = j
      BY <1>3
    <2> HIDE DEF e
    <2>2. e \in Rankings(S, m)
      BY <2>1, RankingKinds
    <2> QED
      BY <2>2 DEF e
  <1> QED
    BY <1>2, <1>4

LEMMA ElementsOf ==
    ASSUME NEW S, NEW s \in Seq(S)
    PROVE  /\ Range(s) = {s[i] : i \in 1..Len(s)} /\ Range(s) \subseteq S
           /\ Len(s) # 0 => s[1] \in Range(s)
           /\ s = <<>> <=> Len(s) = 0
  BY DEF Range

(* The first k of a ranking are a ranking.                                 *)
LEMMA CutRanks ==
    ASSUME NEW S, NEW n \in Nat, NEW s \in Rankings(S, n), NEW k \in Nat
    PROVE  /\ Cut(s, k) \in Rankings(S, n)
           /\ Cut(s, k) \in Seq(S) /\ Len(Cut(s, k)) \in Nat
           /\ Len(Cut(s, k)) <= Len(s) /\ Len(s) <= n
           /\ \A i \in 1..Len(Cut(s, k)) : Cut(s, k)[i] = s[i] /\ i \in 1..Len(s)
           /\ Range(Cut(s, k)) \subseteq Range(s)
  <1> DEFINE h == Cut(s, k)
  <1>1. /\ s \in Seq(S) /\ Len(s) \in Nat /\ Len(s) <= n
        /\ \A i, j \in 1..Len(s) : s[i] = s[j] => i = j
    BY RankingKinds
  <1>2. /\ h \in Seq(S) /\ Len(h) \in Nat /\ Len(h) <= Len(s)
        /\ \A i \in 1..Len(h) : h[i] = s[i]
    BY <1>1 DEF Cut
  <1> HIDE DEF h
  <1>3. \A i \in 1..Len(h) : h[i] = s[i] /\ i \in 1..Len(s)
    BY <1>1, <1>2
  <1>4. /\ Len(h) <= n
        /\ \A i, j \in 1..Len(h) : h[i] = h[j] => i = j
    BY <1>1, <1>2, <1>3
  <1>5. h \in Rankings(S, n)
    BY <1>2, <1>4, RankingKinds
  <1>6. Range(h) \subseteq Range(s)
    BY <1>1, <1>2, <1>3, ElementsOf
  <1> QED
    BY <1>1, <1>2, <1>3, <1>5, <1>6 DEF h

(* A ranking has as many elements as it is long, and an enumeration of a   *)
(* set leaves none out.                                                    *)
LEMMA RankedAre ==
    ASSUME NEW S, NEW n \in Nat, NEW s \in Rankings(S, n)
    PROVE  IsFiniteSet(Range(s)) /\ Cardinality(Range(s)) = Len(s)
  <1>1. s \in Seq(S) /\ \A i, j \in 1..Len(s) : s[i] = s[j] => i = j
    BY RankingKinds
  <1>2. /\ s \in Injection(1..Len(s), Range(s))
        /\ s \in Surjection(1..Len(s), Range(s))
    BY <1>1, ElementsOf DEF Injection, Surjection, IsInjective
  <1>3. IsFiniteSet(1..Len(s)) /\ Cardinality(1..Len(s)) = Len(s)
    <2>1. Len(s) \in Nat
      BY <1>1
    <2>2. \A m \in Nat : IsFiniteSet(1..m) /\ Cardinality(1..m) = m
      BY FS_Interval
    <2> QED
      BY <2>1, <2>2
  <1>4. /\ IsFiniteSet(Range(s))
        /\ Cardinality(Range(s)) = Cardinality(1..Len(s))
    <2> DEFINE I == 1..Len(s)
               R == Range(s)
    <2>1. s \in Surjection(I, R) /\ s \in Injection(I, R) /\ IsFiniteSet(I)
      BY <1>2, <1>3
    <2> HIDE DEF I, R
    <2>2. IsFiniteSet(R) /\ Cardinality(R) = Cardinality(I)
      BY <2>1, FS_Surjection
    <2> QED
      BY <2>2 DEF I, R
  <1> QED
    BY <1>3, <1>4

LEMMA EnumerationOf ==
    ASSUME NEW S, IsFiniteSet(S), NEW s \in SetToSeqs(S)
    PROVE  /\ s \in Seq(S) /\ Len(s) = Cardinality(S) /\ Range(s) = S
           /\ \A i, j \in 1..Len(s) : s[i] = s[j] => i = j
  <1>1. Cardinality(S) \in Nat
    BY FS_CardinalityType
  <1>2. /\ s \in [1..Cardinality(S) -> S]
        /\ \A i, j \in 1..Cardinality(S) : s[i] = s[j] => i = j
    BY DEF SetToSeqs
  <1>3. s \in Injection(1..Cardinality(S), S)
    BY <1>2 DEF Injection, IsInjective
  <1>4. /\ IsFiniteSet(1..Cardinality(S))
        /\ Cardinality(1..Cardinality(S)) = Cardinality(S)
    BY <1>1, FS_Interval
  <1>5. s \in Surjection(1..Cardinality(S), S)
    BY <1>3, <1>4, FS_Injection
  <1>6. s \in Seq(S) /\ Len(s) = Cardinality(S)
    BY <1>1, <1>2
  <1> QED
    BY <1>2, <1>5, <1>6, ElementsOf DEF Surjection, Range

(* The chunks that are fused are those that were found, each once, by      *)
(* score.                                                                  *)
LEMMA FusedAre ==
    ASSUME NEW keyword \in Rankings(Chunk, KeywordTopK),
           NEW vector \in Rankings(Chunk, VectorTopK),
           NEW s \in Fused(keyword, vector)
    PROVE  /\ s \in Rankings(Chunk, KeywordTopK + VectorTopK)
           /\ Range(s) = Range(keyword) \cup Range(vector)
           /\ \A i, j \in 1..Len(s) : i < j =>
                 FusedScore(s[i], keyword, vector)
                     >= FusedScore(s[j], keyword, vector)
  <1> DEFINE U == Range(keyword) \cup Range(vector)
  <1>1. /\ KeywordTopK \in Nat /\ VectorTopK \in Nat
        /\ KeywordTopK + VectorTopK \in Nat
    BY LimitsAssumption
  <1>2. /\ keyword \in Seq(Chunk) /\ Len(keyword) <= KeywordTopK
        /\ vector \in Seq(Chunk) /\ Len(vector) <= VectorTopK
    BY <1>1, RankingKinds
  <1>3. /\ IsFiniteSet(Range(keyword)) /\ IsFiniteSet(Range(vector))
        /\ Cardinality(Range(keyword)) = Len(keyword)
        /\ Cardinality(Range(vector)) = Len(vector)
    BY <1>1, RankedAre
  <1>4. /\ IsFiniteSet(U) /\ Cardinality(U) <= KeywordTopK + VectorTopK
        /\ U \subseteq Chunk
    <2>1. /\ IsFiniteSet(U)
          /\ Cardinality(U) =
                Cardinality(Range(keyword)) + Cardinality(Range(vector))
                    - Cardinality(Range(keyword) \cap Range(vector))
      BY <1>3, FS_Union
    <2>2. /\ IsFiniteSet(Range(keyword) \cap Range(vector))
      BY <1>3, FS_Subset
    <2>3. Cardinality(Range(keyword) \cap Range(vector)) \in Nat
      BY <2>2, FS_CardinalityType
    <2> QED
      BY <1>1, <1>2, <1>3, <2>1, <2>3, ElementsOf
  <1>5. s \in SetToSeqs(U)
    BY DEF Fused
  <1>6. /\ s \in Seq(U) /\ Len(s) = Cardinality(U) /\ Range(s) = U
        /\ \A i, j \in 1..Len(s) : s[i] = s[j] => i = j
    <2> HIDE DEF U
    <2> QED
      BY <1>4, <1>5, EnumerationOf
  <1>7. s \in Rankings(Chunk, KeywordTopK + VectorTopK)
    <2>1. s \in Seq(Chunk) /\ Len(s) <= KeywordTopK + VectorTopK
      BY <1>4, <1>6
    <2> HIDE DEF U
    <2> QED
      BY <1>1, <1>6, <2>1, RankingKinds
  <1>8. \A i, j \in DOMAIN s : i < j =>
            FusedScore(s[i], keyword, vector) >= FusedScore(s[j], keyword, vector)
    BY DEF Fused
  <1>9. DOMAIN s = 1..Len(s)
    BY <1>6
  <1> QED
    BY <1>6, <1>7, <1>8, <1>9

-----------------------------------------------------------------------------
(* Scores.                                                                 *)

(* A quotient falls with its divisor.                                      *)
LEMMA QuotientsFall ==
    ASSUME NEW a \in Nat, NEW m \in Nat \ {0}, NEW n \in Nat \ {0}, m <= n
    PROVE  /\ a \div n \in Nat
           /\ a \div n <= a \div m
  <1> DEFINE q == a \div n
             p == a \div m
  <1>1. /\ q \in Int /\ p \in Int
        /\ n * q <= a /\ a < n * (q + 1)
        /\ m * p <= a /\ a < m * (p + 1)
    OBVIOUS
  <1>2. q >= 0
    <2> SUFFICES ASSUME q <= -1 PROVE FALSE
      BY <1>1
    <2>1. n * (q + 1) <= 0
      BY <1>1
    <2> QED
      BY <1>1, <2>1
  <1>3. m * q <= n * q
    BY <1>1, <1>2
  <1>4. q < p + 1
    <2> SUFFICES ASSUME p + 1 <= q PROVE FALSE
      BY <1>1
    <2>1. m * (p + 1) <= m * q
      BY <1>1
    <2> QED
      BY <1>1, <1>3, <2>1
  <1> QED
    BY <1>1, <1>2, <1>4

LEMMA RankScoreFalls ==
    ASSUME NEW weight \in Nat, NEW i \in Nat \ {0}, NEW j \in Nat \ {0}, i <= j
    PROVE  /\ RankScore(weight, i) \in Nat /\ RankScore(weight, j) \in Nat
           /\ RankScore(weight, j) <= RankScore(weight, i)
  <1> DEFINE a == weight * Unit
             m == RrfK + i
             n == RrfK + j
  <1>1. Unit \in Nat /\ RrfK \in Nat
    BY LimitsAssumption
  <1>2. a \in Nat
    BY <1>1
  <1>3. m \in Nat \ {0} /\ n \in Nat \ {0} /\ m <= n /\ m <= m
    BY <1>1
  <1> HIDE DEF a, m, n
  <1>4. a \div m \in Nat /\ a \div n \in Nat /\ a \div n <= a \div m
    BY <1>2, <1>3, QuotientsFall
  <1> QED
    BY <1>4 DEF a, m, n, RankScore

(* What a channel adds to the score of a chunk it has found: less for a    *)
(* later rank, and most for the first.                                     *)
LEMMA ReciprocalBounds ==
    ASSUME NEW n \in Nat, NEW r \in Rankings(Chunk, n), NEW weight \in Nat, NEW c
    PROVE  /\ c \notin Range(r) => Reciprocal(c, r, weight) = 0
           /\ c \in Range(r) =>
                 /\ Reciprocal(c, r, weight) \in Nat
                 /\ Reciprocal(c, r, weight) >= RankScore(weight, n)
                 /\ Reciprocal(c, r, weight) <= RankScore(weight, 1)
                 /\ c = r[1] => Reciprocal(c, r, weight) = RankScore(weight, 1)
  <1>1. CASE c \notin Range(r)
    BY <1>1 DEF Reciprocal
  <1>2. CASE c \in Range(r)
    <2> DEFINE k == Rank(c, r)
    <2>1. /\ r \in Seq(Chunk) /\ Len(r) <= n /\ DOMAIN r = 1..Len(r)
          /\ \A i, j \in 1..Len(r) : r[i] = r[j] => i = j
      BY RankingKinds
    <2>2. PICK i \in 1..Len(r) : r[i] = c
      BY <1>2, <2>1, ElementsOf
    <2>3. k \in 1..Len(r) /\ r[k] = c
      BY <2>1, <2>2 DEF Rank
    <2>4. c = r[1] => k = 1
      BY <2>1, <2>3
    <2>5. k \in Nat \ {0} /\ n \in Nat \ {0} /\ 1 <= k /\ k <= n
      BY <2>1, <2>3
    <2>6. Reciprocal(c, r, weight) = RankScore(weight, k)
      BY <1>2 DEF Reciprocal, RankScore
    <2>7. /\ RankScore(weight, k) \in Nat
          /\ RankScore(weight, k) >= RankScore(weight, n)
          /\ RankScore(weight, k) <= RankScore(weight, 1)
      <3> HIDE DEF k
      <3> QED
        BY <2>5, RankScoreFalls
    <2> QED
      BY <1>2, <2>4, <2>6, <2>7
  <1> QED
    BY <1>1, <1>2

LEMMA RankScoreTypes ==
    /\ RankScore(KeywordWeight, 1) \in Nat
    /\ RankScore(KeywordWeight, KeywordTopK) \in Nat
    /\ RankScore(VectorWeight, 1) \in Nat
    /\ RankScore(VectorWeight, VectorTopK) \in Nat
  <1>1. /\ KeywordTopK \in Nat \ {0} /\ VectorTopK \in Nat \ {0}
        /\ KeywordWeight \in Nat /\ VectorWeight \in Nat
    BY LimitsAssumption
  <1> QED
    BY <1>1, RankScoreFalls

LEMMA ScoreBounds ==
    ASSUME NEW keyword \in Rankings(Chunk, KeywordTopK),
           NEW vector \in Rankings(Chunk, VectorTopK), NEW c
    PROVE  LET score == FusedScore(c, keyword, vector)
               K(i) == RankScore(KeywordWeight, i)
               V(i) == RankScore(VectorWeight, i)
           IN  /\ score \in Nat
               /\ c \in Range(keyword) => score >= K(KeywordTopK)
               /\ c \in Range(vector) => score >= V(VectorTopK)
               /\ c \in Range(keyword) \cap Range(vector) =>
                      score >= K(KeywordTopK) + V(VectorTopK)
               /\ c \in Range(keyword) /\ c = keyword[1] => score >= K(1)
               /\ c \in Range(vector) /\ c = vector[1] => score >= V(1)
               /\ c \notin Range(keyword) \cap Range(vector) =>
                      score <= K(1) \/ score <= V(1)
  <1> DEFINE K(i) == RankScore(KeywordWeight, i)
             V(i) == RankScore(VectorWeight, i)
             x == Reciprocal(c, keyword, KeywordWeight)
             y == Reciprocal(c, vector, VectorWeight)
  <1>1. /\ KeywordTopK \in Nat \ {0} /\ VectorTopK \in Nat \ {0}
        /\ KeywordWeight \in Nat /\ VectorWeight \in Nat
    BY LimitsAssumption
  <1>2. /\ K(1) \in Nat /\ V(1) \in Nat
        /\ K(KeywordTopK) \in Nat /\ V(VectorTopK) \in Nat
    BY RankScoreTypes
  <1>3. /\ c \notin Range(keyword) => x = 0
        /\ c \in Range(keyword) =>
              /\ x \in Nat /\ x >= K(KeywordTopK) /\ x <= K(1)
              /\ c = keyword[1] => x = K(1)
    BY <1>1, ReciprocalBounds
  <1>4. /\ c \notin Range(vector) => y = 0
        /\ c \in Range(vector) =>
              /\ y \in Nat /\ y >= V(VectorTopK) /\ y <= V(1)
              /\ c = vector[1] => y = V(1)
    BY <1>1, ReciprocalBounds
  <1>5. FusedScore(c, keyword, vector) = x + y
    BY DEF FusedScore
  <1> HIDE DEF K, V, x, y
  <1>6. x \in Nat /\ y \in Nat
    BY <1>3, <1>4
  <1> QED
    BY <1>2, <1>3, <1>4, <1>5, <1>6 DEF K, V

-----------------------------------------------------------------------------
(* The question.                                                           *)
Asked == [pc : Stage, keyword : Rankings(Chunk, KeywordTopK),
          vector : Rankings(Chunk, VectorTopK),
          hits : Rankings(Chunk, KeywordTopK + VectorTopK),
          degraded : SUBSET Degraded, reasons : SUBSET Reason,
          evidence : SUBSET Chunk, cited : SUBSET Chunk]

Candidates(q) == Range(q.keyword) \cup Range(q.vector)

(* Without the vector search there are no hits of it.                      *)
KeywordsOnly(q) == "VECTOR_UNAVAILABLE" \in q.degraded => q.vector = <<>>

(* What is decided on: nothing is cited, chosen or held against it yet,    *)
(* and the hits are among what was found.                                  *)
Undecided(q) ==
    /\ q \in Asked
    /\ q.evidence = {} /\ q.cited = {} /\ q.reasons = {}
    /\ Range(q.hits) \subseteq Candidates(q)
    /\ KeywordsOnly(q)

(* The hits are by score, none that was found having more than the first.  *)
ByScore(q) ==
    /\ \A i, j \in 1..Len(q.hits) : i < j => Scored(q, i) >= Scored(q, j)
    /\ q.hits # <<>> => \A c \in Candidates(q) :
                           Scored(q, 1) >= FusedScore(c, q.keyword, q.vector)

Reranker(q) == "RERANK_UNAVAILABLE" \notin q.degraded

(* Only a reranker puts hits in another order, and it answers once; a low  *)
(* score is that of the first hit.                                         *)
QuestionInv(q) ==
    /\ q \in Asked
    /\ q.pc \in {"idle", "embedding", "reranking"} => Undecided(q)
    /\ q.evidence \subseteq Range(q.hits) /\ q.cited \subseteq q.evidence
    /\ Range(q.hits) \subseteq Candidates(q)
    /\ KeywordsOnly(q)
    /\ q.pc \in {"idle", "embedding"} => q.hits = <<>> /\ q.vector = <<>>
    /\ q.pc = "idle" => q.keyword = <<>>
    /\ q.pc = "generating" => q.cited = {}
    /\ q.pc = "reranking" => Reranker(q)
    /\ q.pc = "reranking" \/ ~Reranker(q) => ByScore(q)
    /\ "score_below_threshold" \in q.reasons =>
          q.hits # <<>> /\ Scored(q, 1) < AppliedThreshold(q.degraded)

(* The knowledge base meanwhile: what can still be found was available,    *)
(* and of two versions of a document one was released between the searches.*)
KnowledgeInv ==
    /\ Knowledge!TypeOK /\ Knowledge!OneAndComplete
    /\ released \subseteq available /\ available \subseteq Version
    /\ At("idle") => released = {}
    /\ At("embedding") => searchable \subseteq available
    /\ \A u, v \in available :
          u # v /\ home[u] = home[v] => {u, v} \cap released # {}

FoundAvailable == \A c \in Candidates(question) : Source(c) \in available

Inv ==
    /\ KnowledgeInv /\ cooling \in BOOLEAN
    /\ QuestionInv(question) /\ FoundAvailable

-----------------------------------------------------------------------------
(* A decision adds what it is, and is right about the score.               *)
LEMMA DecidedIs ==
    ASSUME NEW q, Undecided(q), ~Reranker(q) => ByScore(q), Decide(q)
    PROVE  /\ QuestionInv(question')
           /\ Candidates(question') = Candidates(q)
           /\ question'.pc \in {"refused", "generating"}
  <1> DEFINE p == question'
  <1>1. PICK terms \in BOOLEAN, evidence \in Organize(q.hits) :
           p \in {[q EXCEPT !.pc = "refused", !.reasons = Evaluate(q, terms)],
                  [q EXCEPT !.pc = "refused",
                            !.reasons = {"evidence_budget_empty"}],
                  [q EXCEPT !.pc = "generating", !.evidence = evidence]}
    BY DEF Decide
  <1> HIDE DEF p
  <1>2. evidence \subseteq Range(q.hits)
    BY DEF Organize
  <1>3. Evaluate(q, terms) \subseteq Reason
    BY DEF Evaluate, Reason
  <1>4. "score_below_threshold" \in Evaluate(q, terms) =>
            q.hits # <<>> /\ Scored(q, 1) < AppliedThreshold(q.degraded)
    BY DEF Evaluate, Scored
  <1>5. Range(q.hits) \subseteq Chunk
    <2>1. q.hits \in Seq(Chunk)
      BY LimitsAssumption, RankingKinds DEF Undecided, Asked
    <2> QED
      BY <2>1, ElementsOf
  <1>6. /\ p.pc \in {"refused", "generating"}
        /\ p.keyword = q.keyword /\ p.vector = q.vector /\ p.hits = q.hits
        /\ p.degraded = q.degraded /\ p.cited = {}
        /\ p.evidence \in {{}, evidence} /\ p \in Asked
        /\ p.reasons \in {{}, Evaluate(q, terms), {"evidence_budget_empty"}}
    <2> DEFINE reasons == Evaluate(q, terms)
    <2> HIDE DEF reasons
    <2>1. q \in Asked /\ q.evidence = {} /\ q.cited = {} /\ q.reasons = {}
      BY DEF Undecided
    <2>2. CASE p = [q EXCEPT !.pc = "refused", !.reasons = reasons]
      BY <1>3, <2>1, <2>2 DEF Asked, Stage, reasons
    <2>3. CASE p = [q EXCEPT !.pc = "refused",
                             !.reasons = {"evidence_budget_empty"}]
      BY <2>1, <2>3 DEF Asked, Stage, Reason
    <2>4. CASE p = [q EXCEPT !.pc = "generating", !.evidence = evidence]
      BY <1>2, <1>5, <2>1, <2>4 DEF Asked, Stage
    <2> QED
      BY <1>1, <2>2, <2>3, <2>4 DEF reasons
  <1>7. /\ Range(p.hits) \subseteq Candidates(p) /\ KeywordsOnly(p)
        /\ ~Reranker(p) => ByScore(p)
    BY <1>6 DEF Undecided, KeywordsOnly, Candidates, Reranker, ByScore, Scored
  <1>8. "score_below_threshold" \in p.reasons =>
            p.hits # <<>> /\ Scored(p, 1) < AppliedThreshold(p.degraded)
    BY <1>4, <1>6 DEF Scored
  <1> QED
    BY <1>2, <1>6, <1>7, <1>8 DEF KeywordsOnly, QuestionInv, Candidates, p

(* By the settings: the numbers the proofs use.                            *)
LEMMA Numbers ==
    /\ {KeywordTopK, VectorTopK, ResultTopK, CandidateTopK, RerankTopK,
         KeywordTopK + VectorTopK} \subseteq Nat \ {0}
    /\ KeywordTopK <= KeywordTopK + VectorTopK
    /\ VectorTopK <= KeywordTopK + VectorTopK
    /\ RerankTopK <= KeywordTopK + VectorTopK
  BY LimitsAssumption

(* After the vector search the hits are what both searches found, by       *)
(* score, or as many of them as are asked for.                             *)
LEMMA FuseFuses ==
    ASSUME QuestionInv(question), At("embedding"),
           NEW vector \in Rankings(Chunk, VectorTopK),
           NEW degraded \in SUBSET {"VECTOR_UNAVAILABLE"},
           degraded # {} => vector = <<>>, Fuse(vector, degraded)
    PROVE  /\ QuestionInv(question')
           /\ Candidates(question') = Range(question.keyword) \cup Range(vector)
           /\ ~At("embedding")'
  <1>1. PICK fused \in Fused(question.keyword, vector) :
           LET q == [question EXCEPT !.vector = vector, !.degraded = degraded]
           IN  \/ /\ fused # <<>> /\ ~cooling
                  /\ question' = [q EXCEPT !.pc = "reranking", !.hits = fused]
               \/ /\ fused # <<>> /\ cooling
                  /\ Decide([q EXCEPT !.hits = Cut(fused, ResultTopK),
                                      !.degraded = @ \cup {"RERANK_UNAVAILABLE"}])
               \/ fused = <<>> /\ Decide(q)
    BY DEF Fuse
  <1> DEFINE q == [question EXCEPT !.vector = vector, !.degraded = degraded]
  <1>2. /\ question \in Asked /\ question.hits = <<>>
        /\ question.evidence = {} /\ question.cited = {} /\ question.reasons = {}
    BY DEF QuestionInv, Undecided, At
  <1>3. /\ q \in Asked /\ q.hits = <<>> /\ q.vector = vector
        /\ q.keyword = question.keyword /\ q.degraded = degraded
        /\ q.evidence = {} /\ q.cited = {} /\ q.reasons = {}
        /\ "VECTOR_UNAVAILABLE" \in degraded => vector = <<>>
    BY <1>2 DEF Asked, Degraded
  <1>4. /\ fused \in Rankings(Chunk, KeywordTopK + VectorTopK)
        /\ Range(fused) = Candidates(q)
        /\ \A i, j \in 1..Len(fused) : i < j =>
              FusedScore(fused[i], q.keyword, vector)
                  >= FusedScore(fused[j], q.keyword, vector)
    <2>1. question.keyword \in Rankings(Chunk, KeywordTopK)
      BY <1>2 DEF Asked
    <2> QED
      BY <1>3, <2>1, FusedAre DEF Candidates
  <1>5. /\ fused \in Seq(Chunk) /\ Len(fused) <= KeywordTopK + VectorTopK
        /\ \A i, j \in 1..Len(fused) : fused[i] = fused[j] => i = j
    BY <1>4, Numbers, RankingKinds
  <1> HIDE DEF q
  <1>6. ASSUME NEW p, p \in Asked, p.keyword = q.keyword, p.vector = vector,
               \/ p.hits = fused \/ p.hits = Cut(fused, ResultTopK)
        PROVE  Range(p.hits) \subseteq Candidates(p) /\ ByScore(p)
    <2> DEFINE h == p.hits
    <2>1. /\ h \in Seq(Chunk) /\ Len(h) \in Nat /\ Len(h) <= Len(fused)
          /\ \A i \in 1..Len(h) : h[i] = fused[i] /\ i \in 1..Len(fused)
          /\ Range(h) \subseteq Range(fused)
      <3>1. CASE h = fused
        BY <1>5, <3>1
      <3>2. CASE h = Cut(fused, ResultTopK)
        <4>1. ResultTopK \in Nat /\ KeywordTopK + VectorTopK \in Nat
          BY Numbers
        <4> HIDE DEF h
        <4> QED
          BY <1>4, <3>2, <4>1, CutRanks
      <3> QED
        BY <1>6, <3>1, <3>2
    <2>2. Candidates(p) = Candidates(q)
      BY <1>3, <1>6 DEF Candidates
    <2>3. \A i, j \in 1..Len(h) : i < j => Scored(p, i) >= Scored(p, j)
      BY <1>4, <1>6, <2>1 DEF Scored
    <2>4. ASSUME h # <<>>, NEW c \in Candidates(p)
          PROVE  Scored(p, 1) >= FusedScore(c, p.keyword, p.vector)
      <3>1. PICK i \in 1..Len(fused) : fused[i] = c
        BY <1>4, <1>5, <2>2, <2>4, ElementsOf
      <3>2. 1 \in 1..Len(h) /\ 1 \in 1..Len(fused) /\ h[1] = fused[1]
        BY <2>1, <2>4, ElementsOf
      <3>3. FusedScore(c, p.keyword, p.vector) \in Nat
        BY <1>6, ScoreBounds DEF Asked
      <3> QED
        BY <1>4, <1>6, <3>1, <3>2, <3>3 DEF Scored
    <2> QED
      BY <1>4, <2>1, <2>2, <2>3, <2>4 DEF ByScore
  <1>7. CASE question' = [q EXCEPT !.pc = "reranking", !.hits = fused]
    <2>1. /\ question' \in Asked /\ question'.pc = "reranking"
          /\ question'.hits = fused /\ question'.keyword = q.keyword
          /\ question'.vector = vector /\ question'.degraded = degraded
          /\ question'.evidence = {} /\ question'.cited = {}
          /\ question'.reasons = {}
      BY <1>3, <1>4, <1>7 DEF Asked, Stage
    <2>2. /\ Range(question'.hits) \subseteq Candidates(question')
          /\ ByScore(question')
      BY <1>6, <2>1
    <2> QED
      BY <1>3, <2>1, <2>2 DEF KeywordsOnly, QuestionInv, Undecided, Candidates,
         Reranker, At
  <1>8. ASSUME NEW p, Decide(p), p \in Asked, p.keyword = q.keyword,
               p.vector = vector, p.evidence = {}, p.cited = {}, p.reasons = {},
               KeywordsOnly(p),
               \/ p.hits = fused \/ p.hits = Cut(fused, ResultTopK)
        PROVE  /\ QuestionInv(question')
               /\ Candidates(question') = Candidates(q)
               /\ ~At("embedding")'
    <2>1. Undecided(p) /\ ByScore(p)
      BY <1>6, <1>8 DEF Undecided
    <2>2. Candidates(p) = Candidates(q)
      BY <1>3, <1>8 DEF Candidates
    <2> QED
      BY <1>8, <2>1, <2>2, DecidedIs DEF At
  <1>9. CASE fused = <<>> /\ Decide(q)
    BY <1>3, <1>8, <1>9 DEF Candidates, KeywordsOnly
  <1>10. CASE Decide([q EXCEPT !.hits = Cut(fused, ResultTopK),
                               !.degraded = @ \cup {"RERANK_UNAVAILABLE"}])
    <2> DEFINE p == [q EXCEPT !.hits = Cut(fused, ResultTopK),
                              !.degraded = @ \cup {"RERANK_UNAVAILABLE"}]
    <2>1. Cut(fused, ResultTopK) \in Rankings(Chunk, KeywordTopK + VectorTopK)
      <3>1. ResultTopK \in Nat /\ KeywordTopK + VectorTopK \in Nat
        BY Numbers
      <3> QED
        BY <1>4, <3>1, CutRanks
    <2>2. /\ p \in Asked /\ p.keyword = q.keyword /\ p.vector = vector
          /\ p.evidence = {} /\ p.cited = {} /\ p.reasons = {}
          /\ p.hits = Cut(fused, ResultTopK) /\ KeywordsOnly(p)
      BY <1>3, <2>1 DEF Asked, Degraded, KeywordsOnly
    <2> HIDE DEF p
    <2> QED
      BY <1>3, <1>8, <1>10, <2>2 DEF Candidates, p
  <1> QED
    BY <1>1, <1>3, <1>7, <1>8, <1>9, <1>10 DEF q, Candidates

(* Whether it answers or not, the reranker's hits are among those fused;   *)
(* without it they stay by score.                                          *)
LEMMA RerankEnds ==
    ASSUME QuestionInv(question), Reranked \/ RerankFails
    PROVE  /\ QuestionInv(question')
           /\ Candidates(question') = Candidates(question)
           /\ ~At("embedding")'
  <1>1. /\ question \in Asked /\ Undecided(question) /\ Reranker(question)
        /\ ByScore(question)
        /\ question.hits \in Rankings(Chunk, KeywordTopK + VectorTopK)
        /\ Range(question.hits) \subseteq Candidates(question)
    BY DEF QuestionInv, Reranked, RerankFails, At, Undecided, Asked
  <1>2. question.hits \in Seq(Chunk) /\ Len(question.hits) \in Nat
    BY <1>1, Numbers, RankingKinds
  <1>3. ASSUME NEW h \in Rankings(Chunk, KeywordTopK + VectorTopK),
               Range(h) \subseteq Range(question.hits),
               NEW degraded \in SUBSET Degraded,
               degraded \subseteq question.degraded \cup {"RERANK_UNAVAILABLE"},
               NEW q, q = [question EXCEPT !.hits = h, !.degraded = degraded],
               ~Reranker(q) => ByScore(q), Decide(q)
        PROVE  /\ QuestionInv(question')
               /\ Candidates(question') = Candidates(question)
               /\ ~At("embedding")'
    <2>1. /\ q \in Asked /\ q.hits = h /\ q.keyword = question.keyword
          /\ q.vector = question.vector /\ q.evidence = {} /\ q.cited = {}
          /\ q.reasons = {} /\ KeywordsOnly(q)
      BY <1>1, <1>3 DEF Asked, Undecided, KeywordsOnly
    <2>2. Candidates(q) = Candidates(question)
      BY <2>1 DEF Candidates
    <2>3. Undecided(q)
      BY <1>1, <1>3, <2>1, <2>2 DEF Undecided
    <2> QED
      BY <1>3, <2>2, <2>3, DecidedIs DEF At
  <1>4. CASE Reranked
    <2> DEFINE candidates == Cut(question.hits, CandidateTopK)
               asked == IF Len(candidates) < RerankTopK THEN Len(candidates)
                                                        ELSE RerankTopK
    <2>1. PICK ranked \in Rankings(Range(candidates), asked) :
             Decide([question EXCEPT !.hits = Cut(ranked, ResultTopK)])
      BY <1>4 DEF Reranked
    <2>2. /\ candidates \in Seq(Chunk) /\ Len(candidates) \in Nat
          /\ Range(candidates) \subseteq Range(question.hits)
      <3>1. CandidateTopK \in Nat /\ KeywordTopK + VectorTopK \in Nat
        BY Numbers
      <3> QED
        BY <1>1, <3>1, CutRanks
    <2>3. asked \in Nat /\ asked <= KeywordTopK + VectorTopK
      BY <2>2, Numbers
    <2>4. Range(candidates) \subseteq Chunk
      BY <2>2, ElementsOf
    <2> HIDE DEF candidates, asked
    <2> DEFINE h == Cut(ranked, ResultTopK)
    <2>5. /\ h \in Rankings(Range(candidates), asked)
          /\ h \in Seq(Range(candidates))
      <3>1. ResultTopK \in Nat
        BY Numbers
      <3> QED
        BY <2>1, <2>3, <3>1, CutRanks
    <2> HIDE DEF h
    <2>6. Range(h) \subseteq Range(candidates)
      BY <2>5, ElementsOf
    <2>7. h \in Rankings(Chunk, KeywordTopK + VectorTopK)
      <3>1. KeywordTopK + VectorTopK \in Nat
        BY Numbers
      <3> QED
        BY <2>3, <2>4, <2>5, <3>1, RankingsGrow
    <2>8. question.degraded \in SUBSET Degraded
      BY <1>1 DEF Asked
    <2> DEFINE q == [question EXCEPT !.hits = h, !.degraded = question.degraded]
    <2>9. q = [question EXCEPT !.hits = h] /\ Reranker(q)
      BY <1>1 DEF Asked, Reranker
    <2>10. Decide(q)
      BY <2>1, <2>9 DEF h
    <2> HIDE DEF q
    <2> QED
      BY <1>3, <2>2, <2>6, <2>7, <2>8, <2>9, <2>10 DEF q
  <1>5. CASE RerankFails
    <2> DEFINE h == Cut(question.hits, ResultTopK)
               degraded == question.degraded \cup {"RERANK_UNAVAILABLE"}
               q == [question EXCEPT !.hits = h, !.degraded = degraded]
    <2>1. Decide(q)
      BY <1>5 DEF RerankFails
    <2>2. /\ h \in Rankings(Chunk, KeywordTopK + VectorTopK)
          /\ h \in Seq(Chunk) /\ Len(h) \in Nat /\ Len(h) <= Len(question.hits)
          /\ \A i \in 1..Len(h) :
                h[i] = question.hits[i] /\ i \in 1..Len(question.hits)
          /\ Range(h) \subseteq Range(question.hits)
      <3>1. ResultTopK \in Nat /\ KeywordTopK + VectorTopK \in Nat
        BY Numbers
      <3> QED
        BY <1>1, <3>1, CutRanks
    <2>4. degraded \in SUBSET Degraded
      BY <1>1 DEF Asked, Degraded
    <2>5. /\ q.hits = h /\ q.keyword = question.keyword
          /\ q.vector = question.vector
      BY <1>1 DEF Asked
    <2> HIDE DEF h, q
    <2>6. ByScore(q)
      <3>1. Candidates(q) = Candidates(question)
        BY <2>5 DEF Candidates
      <3>2. \A i \in 1..Len(h) : Scored(q, i) = Scored(question, i)
        BY <2>2, <2>5 DEF Scored
      <3>3. h # <<>> => /\ 1 \in 1..Len(h) /\ 1 \in 1..Len(question.hits)
                        /\ question.hits # <<>>
        BY <1>2, <2>2, ElementsOf
      <3>4. \A i, j \in 1..Len(h) : i < j => Scored(q, i) >= Scored(q, j)
        BY <1>1, <2>2, <3>2 DEF ByScore
      <3> QED
        BY <1>1, <2>5, <3>1, <3>2, <3>3, <3>4 DEF ByScore
    <2> QED
      BY <1>3, <2>1, <2>2, <2>4, <2>6 DEF q
  <1> QED
    BY <1>4, <1>5

-----------------------------------------------------------------------------
LEMMA InvInit == Init => Inv
  <1> SUFFICES ASSUME Init PROVE Inv
    OBVIOUS
  <1>1. question = [pc |-> "idle", keyword |-> <<>>, vector |-> <<>>,
                    hits |-> <<>>, degraded |-> {}, reasons |-> {},
                    evidence |-> {}, cited |-> {}]
    BY DEF Init, NewQuestion
  <1>2. /\ <<>> \in Rankings(Chunk, KeywordTopK)
        /\ <<>> \in Rankings(Chunk, VectorTopK)
        /\ <<>> \in Rankings(Chunk, KeywordTopK + VectorTopK)
    <2>1. /\ KeywordTopK \in Nat /\ VectorTopK \in Nat
          /\ KeywordTopK + VectorTopK \in Nat
      BY Numbers
    <2>2. \A n \in Nat : <<>> \in Rankings(Chunk, n)
      BY RankingsGrow
    <2> QED
      BY <2>1, <2>2
  <1>3. question \in Asked
    BY <1>1, <1>2 DEF Asked, Stage
  <1>4. Range(<<>>) = {}
    BY DEF Range
  <1>5. QuestionInv(question)
    BY <1>1, <1>3, <1>4 DEF KeywordsOnly, QuestionInv, Undecided, Candidates,
       Reranker
  <1>6. FoundAvailable
    BY <1>1, <1>4 DEF FoundAvailable, Candidates
  <1>7. KnowledgeInv
    BY <1>1 DEF Init, KnowledgeInv, Knowledge!TypeOK, Knowledge!OneAndComplete, At
  <1> QED
    BY <1>5, <1>6, <1>7 DEF Inv, Init

(* The question's steps after the searches see nothing new.                *)
LEMMA KnowledgeStays ==
    ASSUME Inv, UNCHANGED <<base, seen>>, QuestionInv(question'),
           Candidates(question') = Candidates(question)
                \/ \A c \in Candidates(question') : Source(c) \in available,
           cooling' \in BOOLEAN, ~At("embedding")' , ~At("idle")'
    PROVE  Inv'
  <1>1. KnowledgeInv'
    BY DEF Inv, KnowledgeInv, base, seen, Knowledge!TypeOK,
       Knowledge!OneAndComplete
  <1>2. FoundAvailable'
    BY DEF Inv, FoundAvailable, seen, Candidates
  <1>3. QuestionInv(question)'
    BY DEF QuestionInv, Candidates, Undecided, KeywordsOnly, Reranker,
       ByScore, Scored
  <1> QED
    BY <1>1, <1>2, <1>3 DEF Inv

(* The first search finds what is available from then on.                  *)
LEMMA KeywordSearchStep == Inv /\ KeywordSearch => Inv'
  <1> SUFFICES ASSUME Inv, KeywordSearch PROVE Inv'
    OBVIOUS
  <1>1. PICK hits \in Rankings(Found, KeywordTopK) :
           question' = [question EXCEPT !.pc = "embedding", !.keyword = hits]
    BY DEF KeywordSearch
  <1>2. /\ hits \in Rankings(Chunk, KeywordTopK) /\ Range(hits) \subseteq Found
    <2>1. Found \subseteq Chunk /\ KeywordTopK \in Nat
      BY Numbers DEF Found
    <2>2. hits \in Seq(Found)
      BY <2>1, RankingKinds
    <2> QED
      BY <2>1, <2>2, RankingsGrow, ElementsOf
  <1>3. /\ question \in Asked /\ Undecided(question) /\ question.hits = <<>>
        /\ question.vector = <<>> /\ question.pc = "idle"
        /\ "score_below_threshold" \notin question.reasons
    BY DEF Inv, QuestionInv, KeywordSearch, At, Undecided
  <1>4. /\ question' \in Asked /\ question'.pc = "embedding"
        /\ question'.keyword = hits /\ question'.hits = <<>>
        /\ question'.vector = <<>> /\ question'.evidence = {}
        /\ question'.cited = {} /\ question'.reasons = {}
        /\ question'.degraded = question.degraded
    BY <1>1, <1>2, <1>3 DEF Asked, Stage, Undecided
  <1>5. Range(<<>>) = {} /\ Len(<<>>) = 0
    BY DEF Range
  <1>6. QuestionInv(question')
    BY <1>4, <1>5 DEF KeywordsOnly, QuestionInv, Undecided, Candidates, ByScore
  <1>7. FoundAvailable'
    BY <1>2, <1>4, <1>5 DEF FoundAvailable, Candidates, KeywordSearch, Found
  <1>8. KnowledgeInv'
    BY <1>3, <1>4 DEF Inv, KnowledgeInv, KeywordSearch, base, At,
       Knowledge!TypeOK, Knowledge!OneAndComplete
  <1>9. QuestionInv(question)'
    BY <1>6 DEF QuestionInv, Candidates, Undecided, KeywordsOnly, Reranker,
       ByScore, Scored
  <1> QED
    BY <1>7, <1>8, <1>9 DEF Inv, KeywordSearch

(* The second search finds what is available by then, or nothing.          *)
LEMMA VectorSearchStep == Inv /\ (VectorSearch \/ VectorUnavailable) => Inv'
  <1> SUFFICES ASSUME Inv, VectorSearch \/ VectorUnavailable PROVE Inv'
    OBVIOUS
  <1>1. PICK vector \in Rankings(Found, VectorTopK),
             degraded \in SUBSET {"VECTOR_UNAVAILABLE"} :
           Fuse(vector, degraded) /\ (degraded # {} => vector = <<>>)
    <2>1. <<>> \in Rankings(Found, VectorTopK)
      <3>1. VectorTopK \in Nat
        BY Numbers
      <3> QED
        BY <3>1, RankingsGrow
    <2> QED
      BY <2>1 DEF VectorSearch, VectorUnavailable
  <1>2. vector \in Rankings(Chunk, VectorTopK) /\ Range(vector) \subseteq Found
    <2>1. Found \subseteq Chunk /\ VectorTopK \in Nat
      BY Numbers DEF Found
    <2>2. vector \in Seq(Found)
      BY <2>1, RankingKinds
    <2> QED
      BY <2>1, <2>2, RankingsGrow, ElementsOf
  <1>3. /\ At("embedding") /\ UNCHANGED <<base, cooling, seen>>
        /\ QuestionInv(question) /\ searchable \subseteq available
    BY DEF VectorSearch, VectorUnavailable, Inv, KnowledgeInv
  <1>4. /\ QuestionInv(question') /\ ~At("embedding")'
        /\ Candidates(question') = Range(question.keyword) \cup Range(vector)
    BY <1>1, <1>2, <1>3, FuseFuses
  <1>5. \A c \in Candidates(question') : Source(c) \in available
    BY <1>2, <1>3, <1>4 DEF Inv, FoundAvailable, Candidates, Found
  <1>6. ~At("idle")'
    BY <1>1, <1>3 DEF Fuse, Decide, At, Inv, QuestionInv, Asked
  <1> QED
    BY <1>3, <1>4, <1>5, <1>6, KnowledgeStays DEF Inv

LEMMA RerankStep == Inv /\ (Reranked \/ RerankFails) => Inv'
  <1> SUFFICES ASSUME Inv, Reranked \/ RerankFails PROVE Inv'
    OBVIOUS
  <1>1. /\ QuestionInv(question') /\ ~At("embedding")'
        /\ Candidates(question') = Candidates(question)
    BY RerankEnds DEF Inv
  <1>2. UNCHANGED <<base, seen>> /\ cooling' \in BOOLEAN
    BY DEF Reranked, RerankFails
  <1>3. ~At("idle")'
    BY DEF Reranked, RerankFails, Decide, At, Inv, QuestionInv, Asked
  <1> QED
    BY <1>1, <1>2, <1>3, KnowledgeStays

LEMMA AnswerStep == Inv /\ (Answer \/ NotGrounded \/ ProviderFails) => Inv'
  <1> SUFFICES ASSUME Inv, Answer \/ NotGrounded \/ ProviderFails PROVE Inv'
    OBVIOUS
  <1>1. /\ question.pc = "generating" /\ QuestionInv(question)
        /\ question \in Asked /\ UNCHANGED <<base, cooling, seen>>
    BY DEF Inv, QuestionInv, Answer, NotGrounded, ProviderFails, At
  <1>2. PICK cited \in SUBSET question.evidence,
             pc \in {"answered", "refused", "failed"},
             reasons \in {question.reasons, {"answer_not_grounded"}} :
           question' = [question EXCEPT !.pc = pc, !.reasons = reasons,
                                        !.cited = cited]
    <2>1. CASE Answer
      <3>1. PICK cited \in SUBSET question.evidence :
               question' = [question EXCEPT !.pc = "answered", !.cited = cited]
        BY <2>1 DEF Answer
      <3>2. question' = [question EXCEPT !.pc = "answered", !.cited = cited,
                                         !.reasons = question.reasons]
        BY <1>1, <3>1 DEF Asked
      <3> QED
        BY <3>2
    <2>2. CASE NotGrounded
      <3>1. question' = [question EXCEPT !.pc = "refused", !.cited = {},
                                         !.reasons = {"answer_not_grounded"}]
        BY <1>1, <2>2 DEF NotGrounded, Asked, QuestionInv
      <3> QED
        BY <3>1
    <2>3. CASE ProviderFails
      <3>1. question' = [question EXCEPT !.pc = "failed", !.cited = {},
                                         !.reasons = question.reasons]
        BY <1>1, <2>3 DEF ProviderFails, Asked, QuestionInv
      <3> QED
        BY <3>1
    <2> QED
      BY <2>1, <2>2, <2>3
  <1>3. /\ question' \in Asked /\ question'.pc = pc /\ question'.cited = cited
        /\ question'.reasons = reasons /\ question'.keyword = question.keyword
        /\ question'.vector = question.vector /\ question'.hits = question.hits
        /\ question'.degraded = question.degraded
        /\ question'.evidence = question.evidence
    BY <1>1, <1>2 DEF Asked, Stage, Reason
  <1>4. Candidates(question') = Candidates(question)
    BY <1>3 DEF Candidates
  <1>5. QuestionInv(question')
    BY <1>1, <1>3, <1>4 DEF KeywordsOnly, QuestionInv, Reranker, ByScore, Scored
  <1>6. ~At("embedding")' /\ ~At("idle")'
    BY <1>3 DEF At
  <1> QED
    BY <1>1, <1>4, <1>5, <1>6, KnowledgeStays DEF Inv

(* The knowledge base goes on under the question.                          *)
LEMMA KnowledgeStep ==
    ASSUME Inv, UNCHANGED question, KnowledgeInv', available \subseteq available',
           cooling' \in BOOLEAN
    PROVE  Inv'
  BY DEF Inv, QuestionInv, FoundAvailable, Candidates, Undecided, KeywordsOnly,
     Reranker, ByScore, Scored

LEMMA PublishStep == ASSUME Inv, NEW v \in Version, Publish(v) PROVE Inv'
  <1>1. /\ Knowledge!Release(v) /\ UNCHANGED <<cooling, question>>
        /\ available' = IF Searching THEN available \cup {v} ELSE available
        /\ released' = IF Searching THEN released \cup {v} ELSE released
    BY DEF Publish
  <1>2. /\ searchable' = (searchable \ Knowledge!Replaced(v)) \cup {v}
        /\ withdrawn' = withdrawn \cup Knowledge!Replaced(v)
        /\ home' = home /\ complete' = complete
        /\ v \in complete /\ v \notin searchable /\ v \notin withdrawn
        /\ Knowledge!Replaced(v) = {u \in searchable : home[u] = home[v]}
    BY <1>1 DEF Knowledge!Release, Knowledge!Replaced
  <1>3. Knowledge!TypeOK' /\ Knowledge!OneAndComplete'
    BY <1>2 DEF Inv, KnowledgeInv, Knowledge!TypeOK, Knowledge!OneAndComplete
  <1>4. KnowledgeInv'
    BY <1>1, <1>2, <1>3 DEF Inv, KnowledgeInv, Searching, At
  <1> QED
    BY <1>1, <1>4, KnowledgeStep DEF Inv

LEMMA IndexOrWithdrawStep == Inv /\ IndexOrWithdraw => Inv'
  <1> SUFFICES ASSUME Inv, IndexOrWithdraw PROVE Inv'
    OBVIOUS
  <1>1. UNCHANGED <<cooling, question, seen>> /\ home' = home
    BY DEF IndexOrWithdraw, Knowledge!Complete, Knowledge!Withdraw
  <1>2. /\ Knowledge!TypeOK' /\ Knowledge!OneAndComplete'
        /\ searchable' \subseteq searchable
    <2>1. CASE \E v \in Version : Knowledge!Complete(v)
      BY <2>1 DEF Knowledge!Complete, Inv, KnowledgeInv, Knowledge!TypeOK,
         Knowledge!OneAndComplete
    <2>2. CASE \E d \in Document, gone \in SUBSET Version :
                   Knowledge!Withdraw(d, gone)
      BY <2>2 DEF Knowledge!Withdraw, Inv, KnowledgeInv, Knowledge!TypeOK,
         Knowledge!OneAndComplete
    <2> QED
      BY <2>1, <2>2 DEF IndexOrWithdraw
  <1>3. KnowledgeInv'
    BY <1>1, <1>2 DEF Inv, KnowledgeInv, seen, At
  <1> QED
    BY <1>1, <1>3, KnowledgeStep DEF Inv, seen

LEMMA InvNext == Inv /\ [Next]_vars => Inv'
  <1> SUFFICES ASSUME Inv, [Next]_vars PROVE Inv'
    OBVIOUS
  <1>1. CASE OtherQuestions \/ UNCHANGED vars
    <2>1. UNCHANGED <<base, question, seen>> /\ cooling' \in BOOLEAN
      BY <1>1 DEF OtherQuestions, vars, Inv
    <2>2. KnowledgeInv'
      BY <2>1 DEF Inv, KnowledgeInv, base, seen, At, Knowledge!TypeOK,
         Knowledge!OneAndComplete
    <2> QED
      BY <2>1, <2>2, KnowledgeStep DEF seen
  <1> QED
    BY <1>1, KeywordSearchStep, VectorSearchStep, RerankStep, AnswerStep,
       PublishStep, IndexOrWithdrawStep DEF Next

LEMMA Invariance == Spec => []Inv
  BY InvInit, InvNext, PTL DEF Spec

-----------------------------------------------------------------------------
(* What a question is answered from was published while it searched: no    *)
(* draft, nothing withdrawn before, and two versions of one document only  *)
(* when one was released in between (retrieve, _base_statement).           *)
THEOREM EvidenceIsPublished == Spec => []EvidenceWasPublished
  <1> SUFFICES ASSUME Inv PROVE EvidenceWasPublished
    BY Invariance, PTL
  <1>1. /\ question \in Asked /\ question.evidence \subseteq Range(question.hits)
        /\ question.cited \subseteq question.evidence
        /\ Range(question.hits) \subseteq Candidates(question)
    BY DEF Inv, QuestionInv
  <1>2. \A c \in Range(question.hits) : Source(c) \in available
    BY <1>1 DEF Inv, FoundAvailable
  <1>3. \A n \in Nat : n <= KeywordTopK + VectorTopK =>
            Rankings(Chunk, n) \subseteq Ranking
    BY RankingsGrow, Numbers DEF Ranking, Rankings
  <1>4. {question.keyword, question.vector, question.hits} \subseteq Ranking
    BY <1>1, <1>3, Numbers DEF Asked
  <1>5. TypeOK
    BY <1>1, <1>4 DEF Asked, TypeOK, Inv, KnowledgeInv
  <1> QED
    BY <1>2, <1>5 DEF EvidenceWasPublished, Inv, KnowledgeInv

(* Without the reranker, agreement of the two searches comes before any    *)
(* single rank, wherever two last ranks outweigh a first one (_fuse).      *)
THEOREM AgreementComesFirst ==
    ASSUME AgreementOutweighs PROVE Spec => []AgreementWins
  <1> SUFFICES ASSUME Inv PROVE AgreementWins
    BY Invariance, PTL
  <1> DEFINE both == Range(question.keyword) \cap Range(question.vector)
             K(i) == RankScore(KeywordWeight, i)
             V(i) == RankScore(VectorWeight, i)
  <1> SUFFICES ASSUME \/ At("reranking")
                      \/ "RERANK_UNAVAILABLE" \in question.degraded,
                      NEW i \in DOMAIN question.hits,
                      NEW j \in DOMAIN question.hits,
                      question.hits[i] \notin both, question.hits[j] \in both
               PROVE  j < i
    BY DEF AgreementWins
  <1>1. /\ question.keyword \in Rankings(Chunk, KeywordTopK)
        /\ question.vector \in Rankings(Chunk, VectorTopK)
        /\ question.hits \in Rankings(Chunk, KeywordTopK + VectorTopK)
        /\ ByScore(question)
    BY DEF Inv, QuestionInv, Asked, Reranker, At
  <1>2. /\ question.hits \in Seq(Chunk)
        /\ DOMAIN question.hits = 1..Len(question.hits)
    BY <1>1, Numbers, RankingKinds
  <1>3. /\ Scored(question, i) \in Nat
        /\ Scored(question, i) <= K(1) \/ Scored(question, i) <= V(1)
    BY <1>1, ScoreBounds DEF Scored
  <1>4. /\ Scored(question, j) \in Nat
        /\ Scored(question, j) >= K(KeywordTopK) + V(VectorTopK)
    BY <1>1, ScoreBounds DEF Scored
  <1>5. /\ K(1) \in Nat /\ V(1) \in Nat
        /\ K(KeywordTopK) \in Nat /\ V(VectorTopK) \in Nat
    BY RankScoreTypes
  <1>6. /\ K(KeywordTopK) + V(VectorTopK) > K(1)
        /\ K(KeywordTopK) + V(VectorTopK) > V(1)
    BY DEF AgreementOutweighs
  <1> HIDE DEF K, V
  <1>7. Scored(question, j) > Scored(question, i)
    BY <1>3, <1>4, <1>5, <1>6
  <1>8. i < j => Scored(question, i) >= Scored(question, j)
    BY <1>1, <1>2 DEF ByScore
  <1>9. i # j
    OBVIOUS
  <1> QED
    BY <1>2, <1>3, <1>4, <1>7, <1>8, <1>9

(* Where every rank reaches the threshold and a first one that of a        *)
(* degraded search, a question fails for its score only after a search by  *)
(* keywords alone that was reranked (DeterministicEvidencePolicy).         *)
THEOREM ScoreRefusesOnlyThen ==
    ASSUME RanksReachThresholds PROVE Spec => []ScoreRefusesOnlyReordered
  <1> SUFFICES ASSUME Inv, "score_below_threshold" \in question.reasons
               PROVE  /\ question.degraded = {"VECTOR_UNAVAILABLE"}
                      /\ question.hits[1] # question.keyword[1]
    BY Invariance, PTL DEF ScoreRefusesOnlyReordered
  <1> DEFINE q == question
             K(i) == RankScore(KeywordWeight, i)
             V(i) == RankScore(VectorWeight, i)
             c == q.hits[1]
  <1>1. /\ q.keyword \in Rankings(Chunk, KeywordTopK)
        /\ q.vector \in Rankings(Chunk, VectorTopK)
        /\ q.hits \in Rankings(Chunk, KeywordTopK + VectorTopK)
        /\ q.degraded \subseteq Degraded
        /\ Range(q.hits) \subseteq Candidates(q)
        /\ ~Reranker(q) => ByScore(q)
        /\ q.hits # <<>> /\ Scored(q, 1) < AppliedThreshold(q.degraded)
    BY DEF Inv, QuestionInv, Asked
  <1>2. c \in Candidates(q)
    <2>1. q.hits \in Seq(Chunk)
      BY <1>1, Numbers, RankingKinds
    <2> QED
      BY <1>1, <2>1, ElementsOf
  <1>3. /\ K(KeywordTopK) >= MinimumScore /\ V(VectorTopK) >= MinimumScore
        /\ K(1) >= DegradedMinimum /\ V(1) >= DegradedMinimum
        /\ K(1) \in Nat /\ V(1) \in Nat
        /\ K(KeywordTopK) \in Nat /\ V(VectorTopK) \in Nat
        /\ MinimumScore \in Nat /\ DegradedMinimum \in Nat
    BY RankScoreTypes, LimitsAssumption DEF RanksReachThresholds
  <1>4. \A d : LET score == FusedScore(d, q.keyword, q.vector)
               IN  /\ score \in Nat
                   /\ d \in Range(q.keyword) => score >= K(KeywordTopK)
                   /\ d \in Range(q.vector) => score >= V(VectorTopK)
                   /\ d \in Range(q.keyword) /\ d = q.keyword[1] => score >= K(1)
                   /\ d \in Range(q.vector) /\ d = q.vector[1] => score >= V(1)
    BY <1>1, ScoreBounds
  <1>5. Scored(q, 1) = FusedScore(c, q.keyword, q.vector) /\ Scored(q, 1) \in Nat
    BY <1>4 DEF Scored
  <1> HIDE DEF K, V, c, q
  <1>6. Scored(q, 1) >= MinimumScore
    BY <1>2, <1>3, <1>4, <1>5 DEF Candidates
  <1>7. q.degraded # {} /\ Scored(q, 1) < DegradedMinimum
    BY <1>1, <1>3, <1>5, <1>6 DEF AppliedThreshold
  <1>8. Reranker(q)
    <2> SUFFICES ASSUME ~Reranker(q) PROVE FALSE
      OBVIOUS
    <2>1. \A d \in Candidates(q) :
              Scored(q, 1) >= FusedScore(d, q.keyword, q.vector)
      BY <1>1 DEF ByScore
    <2>2. \/ q.keyword[1] \in Range(q.keyword)
          \/ q.vector[1] \in Range(q.vector)
      <3>1. /\ q.keyword \in Seq(Chunk) /\ q.vector \in Seq(Chunk)
        BY <1>1, Numbers, RankingKinds
      <3>2. Range(q.keyword) # {} \/ Range(q.vector) # {}
        BY <1>2 DEF Candidates
      <3> QED
        BY <3>1, <3>2, ElementsOf
    <2>3. PICK d \in Candidates(q) :
             FusedScore(d, q.keyword, q.vector) >= DegradedMinimum
      BY <1>3, <1>4, <2>2 DEF Candidates
    <2> QED
      BY <1>3, <1>4, <1>5, <1>7, <2>1, <2>3
  <1>9. q.degraded = {"VECTOR_UNAVAILABLE"}
    BY <1>1, <1>7, <1>8 DEF Reranker, Degraded
  <1>10. q.keyword[1] # c
    <2> SUFFICES ASSUME q.keyword[1] = c PROVE FALSE
      OBVIOUS
    <2>1. c \notin Range(q.keyword)
      BY <1>3, <1>4, <1>5, <1>7
    <2>2. q.vector = <<>>
      BY <1>9 DEF Inv, QuestionInv, KeywordsOnly, q
    <2>3. Range(q.vector) = {}
      BY <2>2 DEF Range
    <2> QED
      BY <1>2, <2>1, <2>3 DEF Candidates
  <1> QED
    BY <1>9, <1>10 DEF c, q
=============================================================================
