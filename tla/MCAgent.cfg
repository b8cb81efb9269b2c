SPECIFICATION Spec
CONSTANTS
    Sessions = {"s1"}
    Runs = {1, 2}
    RagRuns = {2}
    MaxToolLoops = 2
    MaxEdits = 1
    CHUNK_SIZE = 4
    CHUNK_OVERLAP = 1
    RRF_K = 3
    RETRIEVAL_TOP_K = 4
    RERANK_CANDIDATES = 3
    HYDE_MAX_SUB = 2
    MAX_CHARS = 6
INVARIANTS
    AnswersHaveBasis
PROPERTIES
    RunEnds
CHECK_DEADLOCK FALSE
