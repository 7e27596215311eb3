CONSTANTS
  Agents = {validator, coder}
  Validator = validator
  NoOne = NoOne
  CodeOwners = {coder}
  OpencodeOwners = {}
  NonCodeOwners = {}
  Traits <- Untold
  Spellings = {issued}
  AsIssued = issued
  NextStatuses = {"validation"}
  Kinds = {"epic", "task"}
  MaxSerial <- OneEpicOneTask
  MaxFailures = 4
  MaxSubtasks = 1
  MaxDeps = 1
  Writings <- AllEvidence
  InitialStatuses = {"pending"}
  UpdateStatuses = {}
  Overrides = {FALSE}
  Commands <- RetryCommands
SPECIFICATION RetrySpec
CHECK_DEADLOCK FALSE
PROPERTIES EveryTaskSettles DoneAfterDeps
