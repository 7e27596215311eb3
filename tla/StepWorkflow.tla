---------------------------- MODULE StepWorkflow ----------------------------
(***************************************************************************)
(* The execute-phase workflow of one project phase: sessions that walk     *)
(* through its six steps, the step_handoffs table they hand over through,  *)
(* the daemon's endpoints on it (read latest, append, escalate) and the    *)
(* row of task_completions the last step writes.                           *)
(*                                                                         *)
(* step_handoffs is append-only but only its latest row is ever read, so   *)
(* the table is `latest` and the set of steps `saved` so far.  The router  *)
(* and the steps are prose that an agent follows; they are modelled from   *)
(* the calls they make to the daemon.                                      *)
(***************************************************************************)
EXTENDS StepScoring

CONSTANTS Sessions,       \* sessions that run the workflow at the same time
          FirstRows,      \* <<score, phases>> that step 1 may get for the task
          MaxFaults       \* bound on crashes, failed steps, outages and escalations

ASSUME FlowAssumption == FirstRows \subseteq (0..100) \X SUBSET Phases /\ MaxFaults \in Nat

VARIABLES latest,     \* the latest row, or NoRow
          saved,      \* steps for which some row exists
          up,         \* the daemon and its database answer
          pc,         \* [Sessions -> "idle", "run", "escalate", "post", "check"]
          at,         \* [Sessions -> the step under way, 0 when idle]
          read,       \* [Sessions -> the row an escalation has read]
          completions,\* what step 6 recorded about the task
          faults

flowVars == <<latest, saved, up, pc, at, read, completions, faults>>

LastStep == Len(WorkflowSteps.execute)
Steps == 1..LastStep

NoRow == [step |-> 0]

(* Only step 1 writes the score, the phases and the features; every step   *)
(* writes an empty list of escalation flags.                               *)
HandoffRow(step, next, score, phases) ==
  [step |-> step, next |-> next, score |-> score, phases |-> phases,
   features |-> step = 1, flags |-> 0]

StepRows_NoEnd(k) ==             \* mutant: the last step names a successor
  IF k = 1 THEN {HandoffRow(1, 2, f[1], f[2]) : f \in FirstRows}
  ELSE {HandoffRow(k, k + 1, 0, {})}
StepRows(k) ==
  LET next == IF k = LastStep THEN 0 ELSE k + 1
  IN  IF k = 1 THEN {HandoffRow(1, next, f[1], f[2]) : f \in FirstRows}
      ELSE {HandoffRow(k, next, 0, {})}

FlowInit ==
  /\ latest = NoRow /\ saved = {} /\ up = TRUE
  /\ pc = [s \in Sessions |-> "idle"] /\ at = [s \in Sessions |-> 0]
  /\ read = [s \in Sessions |-> NoRow]
  /\ completions = {} /\ faults = 0

Closed == latest # NoRow /\ latest.next = 0

Stop(s) == pc' = [pc EXCEPT ![s] = "idle"] /\ at' = [at EXCEPT ![s] = 0]

Goto(s, label) == pc' = [pc EXCEPT ![s] = label] /\ UNCHANGED at

Start(s, k) == pc' = [pc EXCEPT ![s] = "run"] /\ at' = [at EXCEPT ![s] = k]

Load_Restarts(s) ==              \* mutant: a completed workflow starts over
  /\ pc[s] = "idle"
  /\ \/ up /\ latest # NoRow /\ Start(s, IF latest.next = 0 THEN 1 ELSE latest.next)
     \/ (~up \/ latest = NoRow) /\ Start(s, 1)
  /\ UNCHANGED <<latest, saved, up, read, completions, faults>>

(* The router loads the handoff. No answer reads as no handoff: a fresh    *)
(* start. A completed workflow stops the router.                           *)
Load(s) ==
  /\ pc[s] = "idle"
  /\ \/ up /\ latest # NoRow /\ latest.next # 0 /\ Start(s, latest.next)
     \/ (~up \/ latest = NoRow) /\ Start(s, 1)
  /\ UNCHANGED <<latest, saved, up, read, completions, faults>>

(* The step's own work is done. Step 3 sends the executor's report to the  *)
(* daemon and step 4 the validator's; the daemon looks for escalation      *)
(* triggers with the latest row in hand.                                   *)
Reports(k) == CASE k = 3 -> Triggers \ {"validator_divergence"}
                [] k = 4 -> {"manifest_violation", "validator_divergence"}
                [] OTHER -> {}

Work(s) ==
  /\ pc[s] = "run"
  /\ \/ Goto(s, "post") /\ UNCHANGED <<read, faults>>
     \/ \E report \in SUBSET Reports(at[s]) :
          /\ up /\ latest # NoRow /\ Fired(latest, report) # {}
          /\ read' = [read EXCEPT ![s] = Escalated(latest, Fired(latest, report))]
          /\ Goto(s, "escalate")
          /\ faults < MaxFaults /\ faults' = faults + 1
  /\ UNCHANGED <<latest, saved, up, completions>>

(* The escalated copy of the row it read is appended in a transaction of   *)
(* its own: by now another row may be the latest.                          *)
Escalate(s) ==
  /\ pc[s] = "escalate"
  /\ latest' = IF up THEN read[s] ELSE latest
  /\ read' = [read EXCEPT ![s] = NoRow]
  /\ Goto(s, "post")
  /\ UNCHANGED <<saved, up, completions, faults>>

(* Step 6 records the completion with what the latest row says of it;      *)
(* without PostgreSQL nothing is recorded.                                 *)
Completion(row) == [score |-> row.score, phases |-> row.phases, escalated |-> row.flags > 0]

Recorded(k) ==
  IF k = LastStep /\ up /\ latest # NoRow
  THEN completions \cup {Completion(latest)} ELSE completions

(* The handoff of the step is appended; a failed request goes unnoticed.   *)
(* After the last step nothing is left to check.                           *)
Post(s) ==
  /\ pc[s] = "post"
  /\ IF up THEN latest' \in StepRows(at[s]) /\ saved' = saved \cup {at[s]}
           ELSE UNCHANGED <<latest, saved>>
  /\ completions' = Recorded(at[s])
  /\ IF at[s] = LastStep THEN Stop(s) ELSE Goto(s, "check")
  /\ UNCHANGED <<up, read, faults>>

(* The router's gate: the latest row must have advanced to this step. For  *)
(* step 1 it must only exist.                                              *)
Advanced(k) == latest # NoRow /\ (k = 1 \/ latest.step > k - 1)

Check_Ungated(s) ==              \* mutant: a handoff that was lost is not noticed
  /\ pc[s] = "check" /\ Start(s, at[s] + 1)
  /\ UNCHANGED <<latest, saved, up, read, completions, faults>>

Check(s) ==
  /\ pc[s] = "check"
  /\ IF up /\ Advanced(at[s]) THEN Start(s, at[s] + 1) ELSE Stop(s)
  /\ UNCHANGED <<latest, saved, up, read, completions, faults>>

(* The session ends, or its step fails and hands nothing over.             *)
Crash(s) ==
  /\ pc[s] # "idle" /\ faults < MaxFaults
  /\ Stop(s) /\ faults' = faults + 1
  /\ read' = [read EXCEPT ![s] = NoRow]
  /\ UNCHANGED <<latest, saved, up, completions>>

GoDown ==
  /\ up /\ faults < MaxFaults
  /\ up' = FALSE /\ faults' = faults + 1
  /\ UNCHANGED <<latest, saved, pc, at, read, completions>>

ComeUp == /\ ~up /\ up' = TRUE
          /\ UNCHANGED <<latest, saved, pc, at, read, completions, faults>>

SessionNext(s) == Load(s) \/ Work(s) \/ Escalate(s) \/ Post(s) \/ Check(s)

FlowNext == \/ \E s \in Sessions : SessionNext(s) \/ Crash(s)
            \/ GoDown \/ ComeUp

(* Agents go on with their step, an operator starts the workflow again     *)
(* until it is closed, and outages end.                                    *)
FlowFairness == WF_flowVars(ComeUp) /\ \A s \in Sessions : WF_flowVars(SessionNext(s))

FlowSpec == FlowInit /\ [][FlowNext]_flowVars /\ FlowFairness

-----------------------------------------------------------------------------
FlowTypeOK ==
  /\ saved \subseteq Steps /\ up \in BOOLEAN /\ faults \in 0..MaxFaults
  /\ at \in [Sessions -> 0..LastStep]
  /\ pc \in [Sessions -> {"idle", "run", "escalate", "post", "check"}]
  /\ \A row \in {latest} \cup {read[s] : s \in Sessions} :
       row = NoRow \/ /\ row.step \in Steps /\ row.next \in 0..LastStep
                      /\ row.score \in 0..100 /\ row.phases \subseteq Phases
                      /\ row.flags \in 0..(MaxEscalations + 2)

(* However sessions race, crash, lose requests or append copies of old     *)
(* rows: a session is at a step only when every step before it has been    *)
(* handed over, so nothing is closed that was not validated and verified.  *)
StepsInOrder ==
  /\ \A s \in Sessions : at[s] # 0 => 1..(at[s] - 1) \subseteq saved
  /\ \A k \in saved : 1..k \subseteq saved

(* The workflow implements the ladder of StepLadder.                       *)
Reached == CHOOSE k \in saved \cup {0} : \A j \in saved : j <= k
Ladder == INSTANCE StepLadder WITH Last <- LastStep, reached <- Reached, climbing <- at
ClimbsLadder == Ladder!Spec

(* Once crashes, outages and divergences are over, the sessions close a    *)
(* workflow that was started and it stays closed, although a slow session  *)
(* may reopen it for a while.                                              *)
WorkflowCloses == <>(\E s \in Sessions : pc[s] # "idle") => <>[]Closed
=============================================================================
