-------------------------- MODULE MCStaleWatchdog --------------------------
(* Small instances of StaleWatchdog.                                       *)
EXTENDS StaleWatchdog

AllEvidence == {EVIDENCE}
Staged == {{"TEST_EVIDENCE", "T_SUBSTANCE"}, EVIDENCE \ {"TEST_EVIDENCE", "T_SUBSTANCE"}}
Untold == {{}}
OneTask == [task |-> 1]
Nothing == {}
WorkCommands == {"add", "delete", "claim", "rpetd", "status", "validate", "age"}
OperatorCommands == {"add", "claim", "rpetd", "status", "validate", "assign", "update", "age"}
=============================================================================
