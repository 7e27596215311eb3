CONSTANTS
  Agents = {validator}
  Validator = validator
  NoOne = NoOne
  CodeOwners = {}
  OpencodeOwners = {}
  NonCodeOwners = {}
  Traits <- Untold
  Spellings = {issued}
  AsIssued = issued
  NextStatuses = {}
  Kinds = {"epic", "task"}
  MaxSerial <- OneEpicThreeTasks
  MaxFailures = 0
  MaxSubtasks = 2
  MaxDeps = 3
  Writings = {}
  InitialStatuses = {"pending", "done"}
  UpdateStatuses = {}
  Overrides = {FALSE}
  Commands <- StructureCommands
  Procs = {p1, p2}
  Records = {task1, task2}
  Missing = Missing
  Broken = Broken
  MaxMishaps = 2
SPECIFICATION MCSpec
CHECK_DEADLOCK FALSE
INVARIANTS ShowFinds FreshDepsAcyclic FamilyLinked
PROPERTY ArchiveIsFinal
