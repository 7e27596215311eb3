CONSTANTS
  Agents = {validator, analyst}
  Validator = validator
  NoOne = NoOne
  CodeOwners = {}
  OpencodeOwners = {}
  NonCodeOwners = {}
  Traits <- Untold
  Spellings = {issued}
  AsIssued = issued
  NextStatuses <- STATUSES
  Kinds = {"task"}
  MaxSerial <- OneTask
  MaxFailures = 1
  MaxSubtasks = 0
  MaxDeps = 0
  Writings <- AllEvidence
  InitialStatuses = {"pending"}
  UpdateStatuses = {}
  Overrides = {FALSE}
  Commands <- WorkCommands
SPECIFICATION WatchdogSpec
CHECK_DEADLOCK FALSE
CONSTANT Exempt <- Nothing
PROPERTY SparesActiveWork
