---------------------------- MODULE MCTaskBoard ----------------------------
(* Small instances of TaskBoard.  Each cfg picks the commands in use, so a *)
(* run spends its states on the structure or on the lifecycle.             *)
EXTENDS TaskBoard

AllEvidence == {EVIDENCE}
Staged == {{"TEST_EVIDENCE", "T_SUBSTANCE"}, EVIDENCE \ {"TEST_EVIDENCE", "T_SUBSTANCE"}}

TwoTasks == [task |-> 2]
OneTask == [task |-> 1]
Untold == {{}}
Told == {{}, {"exempt"}, {"git-worded"}, {"lane-infra"}, {"git-worded", "host-worded"}}
OneEpicOneTask == [epic |-> 1, task |-> 1]

DependencyCommands == {"add", "delete", "link", "unlink", "archive"}
RetryCommands == {"add", "link", "claim", "rpetd", "status", "validate"}
LifecycleCommands == {"add", "claim", "rpetd", "status", "validate", "assign", "update", "age"}

(* What changes the links and the family is in MCTaskStructure.            *)
Creates ==
    \E k \in Kinds, par \in Id \cup {NoItem}, ds \in {D \in SUBSET Ref : Cardinality(D) <= MaxDeps},
       owner \in Owner, traits \in Traits, st \in InitialStatuses :
          Add(k, par, ds, owner, traits, st, FALSE)

LifecycleNext == Creates \/ Lifecycle \/ Time
LifecycleSpec == Init /\ [][LifecycleNext]_vars

RetryNext == LifecycleNext \/ \E i, d \in Ref : Link(i, d)
RetrySpec == Init /\ [][RetryNext]_vars /\ Fairness
=============================================================================
