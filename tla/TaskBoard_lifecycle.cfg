CONSTANTS
  Agents = {validator, coder, analyst}
  Validator = validator
  NoOne = NoOne
  CodeOwners = {coder}
  OpencodeOwners = {coder}
  NonCodeOwners = {analyst}
  Traits <- Told
  Spellings = {issued}
  AsIssued = issued
  NextStatuses <- STATUSES
  Kinds = {"task"}
  MaxSerial <- OneTask
  MaxFailures = 4
  MaxSubtasks = 0
  MaxDeps = 0
  Writings <- Staged
  InitialStatuses = {"pending"}
  UpdateStatuses = {"deferred"}
  Overrides = {FALSE}
  Commands <- LifecycleCommands
SPECIFICATION LifecycleSpec
CHECK_DEADLOCK FALSE
INVARIANTS TypeOK NoUnprovenWork EscalationEarned
