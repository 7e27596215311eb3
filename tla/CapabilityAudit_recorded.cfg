CONSTANTS
    Accesses <- MCAccesses
    Handlers = {h1, h2}
    max_lines = 1
SPECIFICATION AuditSpec
CHECK_DEADLOCK FALSE
INVARIANT AccessRecorded
