CONSTANTS
    Plans <- MCPlans
    Histories <- MCHistories
    Layers <- MCLayers
    MaxRollbacks = 1
    Sessions = {s1, s2}
    FirstRows <- MCFirstRows
    MaxFaults = 2
    Operators = {o1, o2}
    Agents = {a1, a2}
    Auditors = {b1, b2}
    Rows = {r1, r2}
    MaxTasks = 2
    Callers = {c1, c2}
    Threshold = 2
    Window = 2
    OpenFor = 2
    ProbeTTL = 1
    Timeout = 2
SPECIFICATION MCSpec
INVARIANTS CollaborationTypeOK OldFailuresForgotten ValidatorFloor ReplayComplete KilledOnce
PROPERTIES TargetReconnects CautionAdds ClimbsLadder WorkflowCloses DefectReported FindingsSettle
CHECK_DEADLOCK FALSE
