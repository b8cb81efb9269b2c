SPECIFICATION Spec
CONSTANTS
    Sessions <- TwoSessions
    Runs = {r1, r2}
    MaxLines <- ThreeLinesAndOne
    MaxWrites = 3
    MaxRuns = 3
    MaxUpsets = 1
    CJK = {"x", "y"}
    Letters = {"a", "s", "e", "i"}
    MAX_QUERY_TOKENS = 3
    QUERY_RARE_TOKENS = 2
    CANDIDATE_POOL = 2
    TOP_K = 2
INVARIANTS NothingForgotten TurnsAgree
PROPERTIES ForgottenStays
SYMMETRY Symmetry
CHECK_DEADLOCK FALSE
