----------------------------- MODULE StepScoring -----------------------------
(***************************************************************************)
(* How much process a task gets: the complexity score of a plan, the       *)
(* phases a score selects, calibration against earlier outcomes, the       *)
(* override layers, escalation, and which steps of a sharded workflow a    *)
(* set of phases leaves in (services/complexity_scorer.py,                 *)
(* services/step-orchestrator.py).  Operators only; StepWalk and           *)
(* StepWorkflow are the machines that use them.                            *)
(***************************************************************************)
EXTENDS Integers, Sequences, FiniteSets

LOCAL INSTANCE FiniteSetsExt

AtMost(n, bound) == IF n < bound THEN n ELSE bound
AtLeast(n, bound) == IF n > bound THEN n ELSE bound

-----------------------------------------------------------------------------
(* The score of a plan. A plan is abstracted to the counts and flags that  *)
(* its <files_expected> and <estimated_loc> blocks yield.                  *)

Features(plan) ==
  [files_expected |-> plan.files,
   estimated_loc |-> plan.loc,
   test_impact |-> AtMost(plan.tests, 10),
   dependency_depth |-> AtMost(plan.files \div 3, 10),
   has_migration |-> plan.migration,
   has_api_change |-> plan.api,
   security_sensitivity |-> plan.floor]

Flat(flag, weight) == IF flag THEN weight ELSE 0

(* Hundredths of a point, so that the weights stay integers.               *)
Hundredths(f) ==
    100 * AtMost(f.files_expected, 20) + 3 * AtMost(f.estimated_loc, 500)
  + 100 * AtMost(f.test_impact, 10) + 150 * AtMost(f.dependency_depth, 10)
  + Flat(f.has_migration, 1500) + Flat(f.has_api_change, 1000)
  + 150 * AtMost(f.security_sensitivity, 10)

(* Python rounds a half to the even neighbour.                             *)
Rounded(h) ==
  LET q == h \div 100  r == h % 100
  IN  IF r > 50 \/ (r = 50 /\ q % 2 = 1) THEN q + 1 ELSE q

Score(f) == AtLeast(AtMost(Rounded(Hundredths(f)), 100), 0)

Phases == {"R", "P", "E", "T", "D", "S", "A"}

Buckets == << [max |-> 15,  phases |-> {"E"}],
              [max |-> 35,  phases |-> {"P", "E", "T"}],
              [max |-> 60,  phases |-> {"R", "P", "E", "T"}],
              [max |-> 85,  phases |-> {"R", "P", "E", "T", "D"}],
              [max |-> 100, phases |-> Phases] >>

BucketOf(score) ==
  CHOOSE i \in 1..5 : /\ score <= Buckets[i].max
                      /\ \A j \in 1..(i - 1) : score > Buckets[j].max

SelectPhases(score) == Buckets[BucketOf(score)].phases

(* Without enough similar completions the score moves to the next bucket.  *)
ColdShift(score) ==
  IF BucketOf(score) < 5 THEN Buckets[BucketOf(score)].max + 1 ELSE score

(* Completions are retrieved with their distance from the plan, here in    *)
(* percent. A distance of zero reads as a missing one, hence as the        *)
(* farthest: an identical plan counts as dissimilar.                       *)
Similarity(distance) == IF distance = 0 THEN 0 ELSE AtLeast(100 - distance, 0)

ColdStartThreshold == 10
MinSimilarity == 50

(* history: how many completions there are, the distances of the nearest.  *)
Cold(history) ==
  \/ history.total < ColdStartThreshold
  \/ Len(history.nearest) < 3
  \/ MapThenSumSet(LAMBDA i : Similarity(history.nearest[i]), DOMAIN history.nearest)
       < MinSimilarity * Len(history.nearest)

(* "cold", or what the regression over the neighbours says of similar      *)
(* tasks: which it is depends on more of them than is kept here.           *)
Signals(history) == IF Cold(history) THEN {"cold"} ELSE {"passed", "failed", "unclear"}

Calibrated(score, signal) ==
  CASE signal = "cold"    -> ColdShift(score)
    [] signal = "passed"  -> AtLeast(score - 5, 0)
    [] signal = "failed"  -> AtMost(score + 10, 100)
    [] signal = "unclear" -> score

(* env > pin > project > auto; an empty layer does not speak.              *)
Resolved(env, pin, project, auto) ==
  CASE env # {}     -> env
    [] pin # {}     -> pin
    [] project # {} -> project
    [] OTHER        -> auto

-----------------------------------------------------------------------------
(* Escalation. A handoff row carries a score, phases, whether the feature  *)
(* vector is still in its snapshot, and how many escalation flags it has.  *)

Triggers == {"manifest_violation", "file_count_overshoot",
             "executor_self_report", "validator_divergence"}

(* report: what the executor or the validator says at this step.           *)
Fired(row, report) ==
     {t \in {"manifest_violation", "executor_self_report"} : t \in report}
  \cup {t \in {"file_count_overshoot"} : t \in report /\ row.features}
  \cup {t \in {"validator_divergence"} : t \in report /\ Cardinality(row.phases) <= 4}

MaxEscalations == 2
EscalationBias == 20

CapHit(row) == row.flags >= MaxEscalations

\* mutant: the score of the row is not read back before the bias is added
Escalated_Unread(row, fired) ==
  LET score == EscalationBias * Cardinality(fired)
  IN  IF CapHit(row) THEN row
      ELSE [row EXCEPT !.score = score, !.phases = SelectPhases(score),
                       !.flags = @ + Cardinality(fired)]

Escalated(row, fired) ==
  IF CapHit(row) THEN row
  ELSE LET score == AtMost(row.score + EscalationBias * Cardinality(fired), 100)
       IN  [row EXCEPT !.score = score, !.phases = SelectPhases(score),
                       !.flags = @ + Cardinality(fired)]

-----------------------------------------------------------------------------
(* The steps of the sharded workflows and the phases they belong to.       *)

WorkflowSteps ==
  [plan    |-> <<"init", "research", "plan", "check", "approve">>,
   execute |-> <<"prepare", "route", "execute", "verify", "validate", "close">>,
   discuss |-> <<"scout", "analyze", "discuss", "commit">>]

StepToPhase ==
  [plan    |-> [research |-> "R", plan |-> "P", check |-> "T", approve |-> "D"],
   execute |-> [execute |-> "E", verify |-> "T", validate |-> "T"],
   discuss |-> [analyze |-> "R", discuss |-> "D"]]

AlwaysRun == {"init", "prepare", "scout", "route", "commit", "validate", "close"}

Runs(workflow, step, chosen) ==
  \/ step \in AlwaysRun
  \/ chosen = {}
  \/ step \notin DOMAIN StepToPhase[workflow]
  \/ StepToPhase[workflow][step] \in chosen

(* Index of the step after index i, 0 when the workflow is complete.       *)
NextStep(workflow, i, chosen) ==
  LET later == {j \in (i + 1)..Len(WorkflowSteps[workflow]) :
                  Runs(workflow, WorkflowSteps[workflow][j], chosen)}
  IN  IF later = {} THEN 0 ELSE CHOOSE j \in later : \A k \in later : j <= k
=============================================================================
