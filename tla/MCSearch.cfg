\* Two documents, one question, and settings in the proportion of the defaults:
\* 1/(RrfK + 1) > DegradedMinimum > 1/(RrfK + TopK) > MinimumScore.
SPECIFICATION Spec
CONSTANTS
    v1 = v1
    v2 = v2
    v3 = v3
    Document = {d1, d2}
    Version = {v1, v2, v3}
    NoDocument = NoDocument
    NumChunks = 1
    Length <- MCLength
    KeywordTopK = 2
    VectorTopK = 2
    ResultTopK = 2
    CandidateTopK = 3
    RerankTopK = 2
    RrfK = 3
    KeywordWeight = 1
    VectorWeight = 1
    Unit = 60
    MinimumScore = 11
    DegradedMinimum = 14
    MinimumGap = 0
    MaxItems = 2
    MaxCharacters = 2
INVARIANTS
    EvidenceWasPublished
    AgreementWins
    ScoreRefusesOnlyReordered
CHECK_DEADLOCK FALSE
