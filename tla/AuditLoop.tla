------------------------------ MODULE AuditLoop ------------------------------
(***************************************************************************)
(* The life of audit findings about one rule in one file, hence with one   *)
(* dedup_key: auditors file them on the blackboard of the daemon           *)
(* (POST /api/findings), findings-to-plan reads the open ones from there   *)
(* and turns them into fix tasks or into a proposal to the operator, and   *)
(* audit-close-loop re-audits when a fix task is done and clears or        *)
(* reopens the finding (PATCH /api/findings/:id), with a message to the    *)
(* operator when the defect persists.  The daemon's handlers are one       *)
(* transaction each under READ COMMITTED.                                  *)
(*                                                                         *)
(* The sweep that findings-to-plan reads leaves out the dedup_key, so its  *)
(* tasks are tagged by rule and position, it never finds a finding carried *)
(* by an open task, and every run makes one more task for each of them.    *)
(***************************************************************************)
EXTENDS Naturals, FiniteSets

CONSTANTS Auditors,
          Rows,        \* identities of agent_findings rows
          MaxTasks     \* bound on the open fix tasks of a finding

ASSUME TasksAssumption == MaxTasks \in Nat \ {0}

VARIABLES defect,      \* the file violates the rule
          finding,     \* [Rows -> status, "none" for a row not there]
          filing,      \* [Auditors -> "idle", "checked"]
          info,        \* the rows, if any, filed with severity info
          routing,     \* open findings that findings-to-plan has read
          todo,        \* [Rows -> number of open fix tasks]
          verdicts     \* [Rows -> what the close loops that re-audited have seen]

loopVars == <<defect, finding, filing, info, routing, todo, verdicts>>

Dedups_Closed(f) == finding[f] # "none"      \* mutant: closed rows deduplicate too

(* An open or ticketed row with the same dedup_key takes the new one in.   *)
Dedups(f) == finding[f] \in {"open", "ticketed"}

LoopInit ==
  /\ defect = FALSE /\ finding = [f \in Rows |-> "none"]
  /\ filing = [a \in Auditors |-> "idle"] /\ info \in SUBSET Rows
  /\ routing = {}
  /\ todo = [f \in Rows |-> 0] /\ verdicts = [f \in Rows |-> {}]

Introduce ==
  /\ ~defect /\ defect' = TRUE
  /\ UNCHANGED <<finding, filing, info, routing, todo, verdicts>>

(* The handler's SELECT: an auditor has found the defect.                  *)
Select(a) ==
  /\ filing[a] = "idle" /\ defect
  /\ ~\E f \in Rows : Dedups(f)
  /\ filing' = [filing EXCEPT ![a] = "checked"]
  /\ UNCHANGED <<defect, finding, info, routing, todo, verdicts>>

(* No index makes dedup_key unique: the INSERT goes through whatever       *)
(* another transaction has inserted since. A row that is closed and no     *)
(* command is busy with stands for a new one.                              *)
Unused(f) == /\ finding[f] \in {"none", "cleared", "wontfix"}
             /\ f \notin routing /\ todo[f] = 0 /\ verdicts[f] = {}

Insert(a) ==
  \E f \in Rows :
    /\ filing[a] = "checked" /\ Unused(f)
    /\ finding' = [finding EXCEPT ![f] = "open"]
    /\ filing' = [filing EXCEPT ![a] = "idle"]
    /\ UNCHANGED <<defect, info, routing, todo, verdicts>>

(* findings-to-plan reads the open findings ...                            *)
ReadFindings ==
  /\ routing = {} /\ routing' = {f \in Rows : finding[f] = "open"}
  /\ UNCHANGED <<defect, finding, filing, info, todo, verdicts>>

(* ... and makes a fix task of each, except of information. (When the      *)
(* domain is over a threshold, which other findings decide, it only        *)
(* proposes a phase or a milestone to the operator: such a run changes     *)
(* nothing here, and is not modelled as a step.)                           *)
CreateTasks ==
  /\ routing # {} /\ routing' = {}
  /\ todo' = [f \in Rows |-> IF f \in routing \ info /\ todo[f] < MaxTasks
                            THEN todo[f] + 1 ELSE todo[f]]
  /\ UNCHANGED <<defect, finding, filing, info, verdicts>>

(* An agent on a fix task repairs the file ...                             *)
Fix(f) ==
  /\ todo[f] > 0 /\ defect /\ defect' = FALSE
  /\ UNCHANGED <<finding, filing, info, routing, todo, verdicts>>

(* ... and sooner or later the task is done, whether or not it did, and    *)
(* its close loop re-audits. The close loops of two tasks may overlap.     *)
ReAudit(f) ==
  /\ todo[f] > 0 /\ todo' = [todo EXCEPT ![f] = @ - 1]
  /\ verdicts' = [verdicts EXCEPT ![f] = @ \cup {IF defect THEN "present" ELSE "gone"}]
  /\ UNCHANGED <<defect, finding, filing, info, routing>>

\* mutant: an empty re-audit patches nothing
PatchedTo_Nothing(f, seen) == IF seen = "gone" THEN finding[f] ELSE "open"

PatchedTo(f, seen) == IF seen = "gone" THEN "cleared" ELSE "open"

(* The command patches the finding it was given the id of. (A run without  *)
(* the id, or that does not reach the daemon, patches nothing, whatever it *)
(* reports, and leaves the task as it was: it is not modelled as a step.)  *)
Close(f) ==
  \E seen \in verdicts[f] :
    /\ finding' = [finding EXCEPT ![f] = PatchedTo(f, seen)]
    /\ verdicts' = [verdicts EXCEPT ![f] = @ \ {seen}]
    /\ UNCHANGED <<defect, filing, info, routing, todo>>

(* The operator, whom the close loop tells that a defect persists, may     *)
(* give a finding up.                                                      *)
GiveUp(f) ==
  /\ finding[f] = "open" /\ finding' = [finding EXCEPT ![f] = "wontfix"]
  /\ UNCHANGED <<defect, filing, info, routing, todo, verdicts>>

LoopNext ==
  \/ Introduce \/ ReadFindings \/ CreateTasks
  \/ \E a \in Auditors : Select(a) \/ Insert(a)
  \/ \E f \in Rows : Fix(f) \/ ReAudit(f) \/ Close(f) \/ GiveUp(f)

(* Audits recur, the router is run again and again, now and then with the  *)
(* domain below the thresholds, tasks get done, and the close loop of each *)
(* is run sooner or later with the finding's id.                           *)
LoopFairness ==
  /\ WF_loopVars(ReadFindings) /\ WF_loopVars(CreateTasks)
  /\ \A a \in Auditors : WF_loopVars(Select(a) \/ Insert(a))
  /\ \A f \in Rows : WF_loopVars(ReAudit(f)) /\ WF_loopVars(Close(f))

LoopSpec == LoopInit /\ [][LoopNext]_loopVars /\ LoopFairness

-----------------------------------------------------------------------------
LoopTypeOK ==
  /\ finding \in [Rows -> {"none", "open", "cleared", "wontfix"}]
  /\ filing \in [Auditors -> {"idle", "checked"}]
  /\ (info \cup routing) \subseteq Rows
  /\ todo \in [Rows -> 0..MaxTasks]
  /\ verdicts \in [Rows -> SUBSET {"gone", "present"}]

(* A defect does not go unreported: deduplication only counts on findings  *)
(* that somebody still follows, even when one is cleared meanwhile.        *)
DefectReported ==
  defect ~> (~defect \/ \E f \in Rows : finding[f] = "open")

(* Once nothing breaks the rule any more every finding about it that is    *)
(* given fix tasks is closed for good, duplicates included, although its   *)
(* tasks are duplicated too, their close loops overlap and decide by what  *)
(* they saw before. Information, what is only ever proposed to the         *)
(* operator, and what is never closed by its id may stay open.             *)
FindingsSettle == <>[]~defect => <>[](\A f \in Rows \ info : finding[f] # "open")
=============================================================================
