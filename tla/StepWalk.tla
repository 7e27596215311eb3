------------------------------ MODULE StepWalk ------------------------------
(***************************************************************************)
(* A workflow driven through services/step-orchestrator.py: load or create *)
(* a handoff, run a step, save, ask for the next one, roll back, resume,   *)
(* while the daemon scores the task once and may escalate it on the way.   *)
(* The phases chosen for the task decide which steps are skipped.          *)
(***************************************************************************)
EXTENDS StepScoring

CONSTANTS Plans,           \* plans, abstracted as in StepScoring
          Histories,       \* earlier completions, abstracted as in StepScoring
          Layers,          \* phase sets an override layer may hold, {} included
          MaxRollbacks     \* bound on rollbacks in a behaviour

ASSUME PlansAssumption ==
  /\ Plans \subseteq [files : Nat, loc : Nat, tests : Nat, migration : BOOLEAN,
                      api : BOOLEAN, floor : Nat]
  /\ Layers \subseteq SUBSET Phases

VARIABLES handoff,   \* the handoff in memory: workflow, step index, done, row
          store,     \* the latest saved handoff, or NoHandoff
          visited,   \* steps that have run and were saved
          rollbacks

walkVars == <<handoff, store, visited, rollbacks>>

NoHandoff == [none |-> TRUE]

(* The phases are those of the calibrated score, or an override's ...      *)
Chosen(t) ==
  Resolved(t.env, t.pin, t.project,
           SelectPhases(Calibrated(Score(Features(t.plan)), t.signal)))

(* ... while the first step stores the raw score next to them, from which  *)
(* an escalation will start.                                               *)
Row(t) == [score |-> Score(Features(t.plan)),
           phases |-> Chosen(t), features |-> TRUE, flags |-> 0]

Fresh(workflow, row) ==
  [workflow |-> workflow, step |-> 1, done |-> {}, row |-> row]

(* What the daemon is asked to score.                                      *)
Tasks == [plan : Plans, signal : UNION {Signals(h) : h \in Histories}, env : Layers, pin : Layers, project : Layers]

WalkInit ==
  /\ \E w \in DOMAIN WorkflowSteps, t \in Tasks : handoff = Fresh(w, Row(t))
  /\ store = NoHandoff /\ visited = {} /\ rollbacks = 0

NameOf(h) == WorkflowSteps[h.workflow][h.step]

(* The step has run: it is recorded as completed and the handoff appended. *)
Save ==
  /\ NameOf(handoff) \notin handoff.done
  /\ handoff' = [handoff EXCEPT !.done = @ \cup {NameOf(handoff)}]
  /\ store' = handoff'
  /\ visited' = visited \cup {NameOf(handoff)}
  /\ UNCHANGED rollbacks

Advance_ByPhase ==               \* mutant: a step whose phase is not chosen is skipped
  LET steps == WorkflowSteps[handoff.workflow]
      phase == StepToPhase[handoff.workflow]
      later == {j \in (handoff.step + 1)..Len(steps) :
                  steps[j] \in DOMAIN phase => phase[steps[j]] \in handoff.row.phases}
  IN  /\ NameOf(handoff) \in visited /\ later # {}
      /\ handoff' = [handoff EXCEPT !.step = CHOOSE j \in later : \A k \in later : j <= k]
      /\ UNCHANGED <<store, visited, rollbacks>>

Advance ==
  LET next == NextStep(handoff.workflow, handoff.step, handoff.row.phases)
  IN  /\ NameOf(handoff) \in visited
      /\ next # 0
      /\ handoff' = [handoff EXCEPT !.step = next]
      /\ UNCHANGED <<store, visited, rollbacks>>

(* completed_steps is cut before the target, the record is saved.          *)
Before(h, target) ==
  {s \in h.done : \E i, j \in 1..Len(WorkflowSteps[h.workflow]) :
                    /\ WorkflowSteps[h.workflow][i] = s
                    /\ WorkflowSteps[h.workflow][j] = target /\ i < j}

Rollback ==
  \E target \in handoff.done :
    /\ rollbacks < MaxRollbacks
    /\ handoff' = [handoff EXCEPT
                     !.step = CHOOSE i \in 1..Len(WorkflowSteps[handoff.workflow]) :
                                WorkflowSteps[handoff.workflow][i] = target,
                     !.done = Before(handoff, target)]
    /\ store' = handoff' /\ rollbacks' = rollbacks + 1
    /\ UNCHANGED visited

(* A new session: the stored handoff, or a fresh one when there is none or *)
(* PostgreSQL does not answer (an empty snapshot: no phases, no score).    *)
LoadOrCreate ==
  \/ /\ store # NoHandoff /\ handoff' = store
     /\ UNCHANGED <<store, visited, rollbacks>>
  \/ /\ rollbacks < MaxRollbacks /\ rollbacks' = rollbacks + 1
     /\ handoff' = Fresh(handoff.workflow,
                         [score |-> 0, phases |-> {}, features |-> FALSE, flags |-> 0])
     /\ UNCHANGED <<store, visited>>

EscalateRow ==
  \E report \in SUBSET Triggers :
    LET fired == Fired(handoff.row, report)
    IN  /\ fired # {} /\ ~CapHit(handoff.row)
        /\ handoff' = [handoff EXCEPT !.row = Escalated(@, fired)]
        /\ store' = handoff'
        /\ UNCHANGED <<visited, rollbacks>>

WalkNext == Save \/ Advance \/ Rollback \/ LoadOrCreate \/ EscalateRow

WalkSpec == WalkInit /\ [][WalkNext]_walkVars

-----------------------------------------------------------------------------
StepNames(w) == {WorkflowSteps[w][i] : i \in 1..Len(WorkflowSteps[w])}

WalkTypeOK ==
  /\ handoff.step \in 1..Len(WorkflowSteps[handoff.workflow])
  /\ handoff.done \subseteq StepNames(handoff.workflow)
  /\ visited \subseteq StepNames(handoff.workflow)
  /\ handoff.row.score \in 0..100 /\ handoff.row.phases \subseteq Phases
  /\ handoff.row.flags \in 0..(MaxEscalations + 3)

Complete == /\ NameOf(handoff) \in visited
            /\ NextStep(handoff.workflow, handoff.step, handoff.row.phases) = 0

(* However light the score, whatever an override says, after any rollback, *)
(* resume or escalation, a workflow that completes has run every step that *)
(* may not be skipped: the validator's among them.                         *)
ValidatorFloor ==
  Complete => AlwaysRun \cap StepNames(handoff.workflow) \subseteq visited

(* Calibration after a cold start or failures only adds phases to those a  *)
(* score selects, and so does an escalation to those of the score that the *)
(* row stores. What the first escalation may take away is what calibration *)
(* or an override had chosen beyond the raw score; from then on nothing is *)
(* taken away again.                                                       *)
CautionAdds ==
  [][ /\ \A signal \in {"cold", "failed"} :
           SelectPhases(handoff.row.score)
             \subseteq SelectPhases(Calibrated(handoff.row.score, signal))
      /\ handoff'.row.flags > handoff.row.flags =>
           /\ SelectPhases(handoff.row.score) \subseteq handoff'.row.phases
           /\ handoff.row.flags > 0 => handoff.row.phases \subseteq handoff'.row.phases
    ]_walkVars
=============================================================================
