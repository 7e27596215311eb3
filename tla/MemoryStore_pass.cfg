CONSTANTS
    Writers = {w}
    Distillers = {d}
    Facts = {f1, f2}
    Noise = {f2}
    Tasks = {t1}
    PageSize = 1
    MaxRows = 3
    MaxCited = 1
    MaxBackups = 1
    Files = {file1, file2}
    Named = {file1}
    Phases <- MCPhases
    MaxEdits = 2
    MaxCommits = 2
    MaxRequests = 2
    Undescribed = undescribed
    Rows = {r1, r2, r3}
    Scores = {0, 1, 2}
    Lines = {0, 2}
    candidate_k = 2
    top_k = 2
    rrf_k = 60
    cosine_floor = 2
SPECIFICATION MCSpec
INVARIANTS KnowledgeTypeOK FactsKept CountsHonest HandoffExact BetterRanksFirst
CHECK_DEADLOCK FALSE
