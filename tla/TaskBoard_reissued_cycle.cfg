CONSTANTS
  Agents = {validator}
  Validator = validator
  NoOne = NoOne
  CodeOwners = {}
  OpencodeOwners = {}
  NonCodeOwners = {}
  Traits <- Untold
  Spellings = {issued}
  AsIssued = issued
  NextStatuses = {}
  Kinds = {"task"}
  MaxSerial <- TwoTasks
  MaxFailures = 0
  MaxSubtasks = 0
  MaxDeps = 2
  Writings = {}
  InitialStatuses = {"done"}
  UpdateStatuses = {}
  Overrides = {FALSE}
  Commands <- DependencyCommands
SPECIFICATION Spec
CHECK_DEADLOCK FALSE
INVARIANT DepsAcyclic
