CONSTANTS
  Agents = {validator, coder}
  Validator = validator
  NoOne = NoOne
  CodeOwners = {}
  OpencodeOwners = {}
  NonCodeOwners = {}
  Traits <- Untold
  Spellings = {issued}
  AsIssued = issued
  NextStatuses <- STATUSES
  Kinds = {"task"}
  MaxSerial <- OneTask
  MaxFailures = 4
  MaxSubtasks = 0
  MaxDeps = 0
  Writings <- Staged
  InitialStatuses = {"pending"}
  UpdateStatuses <- STATUSES
  Overrides = {TRUE, FALSE}
  Commands <- OperatorCommands
SPECIFICATION LiveWatchdogSpec
CHECK_DEADLOCK FALSE
CONSTANT Exempt <- Nothing
PROPERTIES AbandonedWorkReturns ClaimIsExclusive
