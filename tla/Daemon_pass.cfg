CONSTANTS
  Tasks = {t1, t2}
  Handlers = {h1}
  MaxWrites = 2
  RETRY_QUEUE_MAX = 1
  Symbols = {"f", "g"}
  Places <- MCPlaces
  Versions = {"with", "without"}
  Chunks <- MCChunks
  Requests = {r1, r2}
  Missing = missing
  Procs = {p1, p2}
  External = ext
  None = none
  Closing = closing
  MaxRestarts = 2
SPECIFICATION MCSpec
INVARIANT DaemonTypeOK
PROPERTIES RowsHeal ArchivedRowsLeave IndexHeals HandleKept RlmReturns RedisReturns
CHECK_DEADLOCK FALSE
