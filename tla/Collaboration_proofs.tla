------------------------- MODULE Collaboration_proofs -------------------------
(***************************************************************************)
(* Proofs about the protocols by which sessions and agents hand work to    *)
(* each other: the execute-phase workflow implements the ladder of         *)
(* StepLadder, for any number of sessions and faults; a party session is   *)
(* killed once and replayed in full, for any number of operators; and a    *)
(* workflow that completes has run every step that may not be skipped, for *)
(* any plans, histories and overrides; and all of them, the A2A client and *)
(* the audit loop included, keep their types.                              *)
(***************************************************************************)
EXTENDS MCCollaboration, A2AClient_proofs, FiniteSetTheorems, TLAPS

-----------------------------------------------------------------------------
(* The workflow of execute-phase: no step is begun before the one below it *)
(* was handed over.                                                        *)

Fields == {"step", "next", "score", "phases", "features", "flags"}

(* A row of the table was written by its step and names the one after it.  *)
RowOK(row) ==
  row = NoRow \/ /\ DOMAIN row = Fields /\ row = [x \in Fields |-> row[x]]
                 /\ row.step \in saved
                 /\ row.next = (IF row.step = LastStep THEN 0 ELSE row.step + 1)

(* What makes the ladder inductive: the steps handed over are the first    *)
(* few, a session is one above them at most, and every row that is or may   *)
(* become the latest is of a step that was handed over.                    *)
LadderInv ==
  /\ saved \subseteq Steps
  /\ at \in [Sessions -> 0..LastStep]
  /\ pc \in [Sessions -> {"idle", "run", "escalate", "post", "check"}]
  /\ read = [s \in Sessions |-> read[s]]
  /\ \A s \in Sessions : pc[s] # "idle" => at[s] # 0
  /\ \A s \in Sessions : pc[s] = "check" => at[s] < LastStep
  /\ StepsInOrder
  /\ RowOK(latest) /\ \A s \in Sessions : RowOK(read[s])

(* The workflow has six steps.                                             *)
LEMMA SixSteps == LastStep = 6 /\ Steps = 1..6
BY DEF LastStep, Steps, WorkflowSteps

(* An escalated copy keeps the step and its successor.                     *)
LEMMA CopyKeepsStep ==
  ASSUME NEW row, NEW fired, row # NoRow, RowOK(row)
  PROVE  RowOK(Escalated(row, fired))
<1>1. CASE CapHit(row)
  BY <1>1 DEF Escalated
<1>2. CASE ~ CapHit(row)
  <2> DEFINE score == AtMost(row.score + EscalationBias * Cardinality(fired), 100)
             copy == [row EXCEPT !.score = score, !.phases = SelectPhases(score),
                                 !.flags = @ + Cardinality(fired)]
  <2>1. Escalated(row, fired) = copy
    BY <1>2 DEF Escalated
  <2>2. DOMAIN copy = Fields /\ copy = [x \in Fields |-> copy[x]]
    BY DEF RowOK, Fields
  <2>3. copy.step = row.step /\ copy.next = row.next
    BY DEF RowOK, Fields
  <2> QED  BY <2>1, <2>2, <2>3 DEF RowOK
<1> QED  BY <1>1, <1>2

(* A row that is appended names its step and the one after it.             *)
LEMMA NewRow ==
  ASSUME NEW k \in Steps, NEW row \in StepRows(k)
  PROVE  /\ DOMAIN row = Fields /\ row = [x \in Fields |-> row[x]]
         /\ row.step = k /\ row.next = (IF k = LastStep THEN 0 ELSE k + 1)
BY DEF StepRows, HandoffRow, Fields

-----------------------------------------------------------------------------
(* What is true of every row stays true when more steps are handed over.   *)
LEMMA RowStays ==
  ASSUME NEW row, RowOK(row), NEW more, saved \subseteq more
  PROVE  row = NoRow \/ /\ DOMAIN row = Fields /\ row = [x \in Fields |-> row[x]]
                        /\ row.step \in more
                        /\ row.next = (IF row.step = LastStep THEN 0 ELSE row.step + 1)
BY DEF RowOK

(* The router starts at the step the latest row names, or anew.            *)
LEMMA LoadStep ==
  ASSUME LadderInv, NEW s \in Sessions, Load(s)
  PROVE  /\ LadderInv'
         /\ \E k \in Steps : 1..(k - 1) \subseteq saved /\ at' = [at EXCEPT ![s] = k]
<1>1. PICK k \in Steps : Start(s, k) /\ 1..(k - 1) \subseteq saved
  <2>1. CASE up /\ latest # NoRow /\ latest.next # 0 /\ Start(s, latest.next)
    <3>1. latest.step \in saved /\ latest.step \in 1..6 /\ latest.next = latest.step + 1 /\ latest.step # 6
      BY <2>1, SixSteps DEF LadderInv, RowOK
    <3>2. 1..latest.step \subseteq saved
      BY <3>1 DEF LadderInv, StepsInOrder
    <3> QED  BY <2>1, <3>1, <3>2, SixSteps
  <2>2. CASE Start(s, 1)
    BY <2>2, SixSteps
  <2> QED  BY <2>1, <2>2 DEF Load
<1>2. UNCHANGED <<latest, saved, read>>
  BY DEF Load
<1>3. /\ at' = [at EXCEPT ![s] = k] /\ pc' = [pc EXCEPT ![s] = "run"]
  BY <1>1 DEF Start
<1>4. LadderInv'
  BY <1>1, <1>2, <1>3, SixSteps DEF LadderInv, StepsInOrder, RowOK
<1> QED  BY <1>1, <1>3, <1>4

(* A step under way reads a row at most.                                   *)
LEMMA WorkStep ==
  ASSUME LadderInv, NEW s \in Sessions, Work(s)
  PROVE  LadderInv' /\ UNCHANGED <<at, saved>>
<1>1. UNCHANGED <<at, saved, latest>> /\ \E label \in {"post", "escalate"} : pc' = [pc EXCEPT ![s] = label]
  BY DEF Work, Goto
<1>2. pc[s] = "run"
  BY DEF Work
<1>3. read' = [x \in Sessions |-> read'[x]] /\ \A x \in Sessions : RowOK(read'[x])
  <2>1. CASE UNCHANGED read
    BY <2>1 DEF LadderInv
  <2>2. ASSUME NEW report, latest # NoRow,
               read' = [read EXCEPT ![s] = Escalated(latest, Fired(latest, report))]
        PROVE  <1>3!1 /\ \A x \in Sessions : RowOK(read'[x])
    <3>1. RowOK(Escalated(latest, Fired(latest, report)))
      BY <2>2, CopyKeepsStep DEF LadderInv
    <3> QED  BY <2>2, <3>1 DEF LadderInv
  <2> QED  BY <2>1, <2>2 DEF Work
<1>4. LadderInv'
  BY <1>1, <1>2, <1>3 DEF LadderInv, StepsInOrder, RowOK
<1> QED  BY <1>1, <1>4

(* The row that was read may become the latest again.                      *)
LEMMA EscalateStep ==
  ASSUME LadderInv, NEW s \in Sessions, Escalate(s)
  PROVE  LadderInv' /\ UNCHANGED <<at, saved>>
<1>1. UNCHANGED <<at, saved>> /\ pc' = [pc EXCEPT ![s] = "post"] /\ pc[s] = "escalate"
  BY DEF Escalate, Goto
<1>2. latest' \in {latest, read[s]} /\ read' = [read EXCEPT ![s] = NoRow]
  BY DEF Escalate
<1>3. RowOK(latest') /\ read' = [x \in Sessions |-> read'[x]] /\ \A x \in Sessions : RowOK(read'[x])
  BY <1>2 DEF LadderInv, RowOK
<1>4. LadderInv'
  BY <1>1, <1>3 DEF LadderInv, StepsInOrder, RowOK
<1> QED  BY <1>1, <1>4

(* A step is handed over; no step below it is missing.                     *)
LEMMA PostStep ==
  ASSUME LadderInv, NEW s \in Sessions, Post(s)
  PROVE  /\ LadderInv'
         /\ at[s] \in Steps /\ 1..(at[s] - 1) \subseteq saved
         /\ saved' \in {saved, saved \cup {at[s]}}
         /\ \/ UNCHANGED at
            \/ at' = [at EXCEPT ![s] = 0]
<1>1. at[s] \in Steps /\ 1..(at[s] - 1) \subseteq saved
  BY SixSteps DEF Post, LadderInv, StepsInOrder
<1>2. saved' \in {saved, saved \cup {at[s]}} /\ UNCHANGED read
  BY DEF Post
<1>3. RowOK(latest)' /\ \A x \in Sessions : RowOK(read[x])'
  <2>1. RowOK(latest)'
    <3>1. CASE up /\ latest' \in StepRows(at[s]) /\ saved' = saved \cup {at[s]}
      BY <1>1, <3>1, NewRow DEF RowOK
    <3>2. CASE UNCHANGED <<latest, saved>>
      BY <3>2 DEF LadderInv, RowOK
    <3> QED  BY <3>1, <3>2 DEF Post
  <2>2. ASSUME NEW x \in Sessions PROVE RowOK(read[x])'
    BY <1>2 DEF LadderInv, RowOK
  <2> QED  BY <2>1, <2>2
<1>4. /\ at' \in [Sessions -> 0..LastStep]
      /\ UNCHANGED at \/ at' = [at EXCEPT ![s] = 0]
      /\ pc' \in [Sessions -> {"idle", "run", "escalate", "post", "check"}]
      /\ \A x \in Sessions : pc'[x] # "idle" => at'[x] # 0
      /\ \A x \in Sessions : pc'[x] = "check" => at'[x] < LastStep
  <2>1. CASE at[s] = LastStep /\ Stop(s)
    BY <1>1, <2>1, SixSteps DEF Stop, LadderInv
  <2>2. CASE at[s] # LastStep /\ Goto(s, "check")
    BY <1>1, <2>2, SixSteps DEF Goto, LadderInv
  <2> QED  BY <2>1, <2>2 DEF Post
<1>5. StepsInOrder'
  <2>1. \A k \in saved' : 1..k \subseteq saved'
    BY <1>1, <1>2, SixSteps DEF LadderInv, StepsInOrder
  <2>2. ASSUME NEW x \in Sessions, at'[x] # 0 PROVE 1..(at'[x] - 1) \subseteq saved'
    BY <1>2, <1>4, <2>2 DEF LadderInv, StepsInOrder
  <2> QED  BY <2>1, <2>2 DEF StepsInOrder
<1>6. LadderInv'
  BY <1>1, <1>2, <1>3, <1>4, <1>5 DEF LadderInv
<1> QED  BY <1>1, <1>2, <1>4, <1>6

(* The router's gate: the next step begins behind one that was handed over.*)
LEMMA CheckStep ==
  ASSUME LadderInv, NEW s \in Sessions, Check(s)
  PROVE  /\ LadderInv'
         /\ UNCHANGED saved
         /\ \/ at' = [at EXCEPT ![s] = 0]
            \/ \E k \in Steps : 1..(k - 1) \subseteq saved /\ at' = [at EXCEPT ![s] = k]
<1>1. UNCHANGED <<latest, saved, read>>
  BY DEF Check
<1>2. CASE Stop(s)
  <2>1. pc' = [pc EXCEPT ![s] = "idle"] /\ at' = [at EXCEPT ![s] = 0]
    BY <1>2 DEF Stop
  <2>2. LadderInv'
    BY <1>1, <2>1, SixSteps DEF LadderInv, StepsInOrder, RowOK
  <2> QED  BY <1>1, <2>1, <2>2
<1>3. CASE up /\ Advanced(at[s]) /\ Start(s, at[s] + 1)
  <2>1. at[s] \in 1..5 /\ latest.step \in saved /\ latest.step \in 1..6 /\ 1..latest.step \subseteq saved
    BY <1>3, SixSteps DEF Check, Advanced, LadderInv, RowOK, StepsInOrder
  <2>2. at[s] \in 1..latest.step
    BY <1>3, <2>1 DEF Advanced
  <2>3. at[s] + 1 \in Steps /\ 1..at[s] \subseteq saved /\ (at[s] + 1) - 1 = at[s]
    BY <2>1, <2>2, SixSteps
  <2>4. at' = [at EXCEPT ![s] = at[s] + 1] /\ pc' = [pc EXCEPT ![s] = "run"]
    BY <1>3 DEF Start
  <2>5. LadderInv'
    BY <1>1, <2>3, <2>4, SixSteps DEF LadderInv, StepsInOrder, RowOK
  <2> QED  BY <1>1, <2>3, <2>4, <2>5
<1> QED  BY <1>2, <1>3 DEF Check

(* Crashes and outages hand over nothing.                                  *)
LEMMA OtherSteps ==
  ASSUME LadderInv, (\E s \in Sessions : Crash(s)) \/ GoDown \/ ComeUp \/ UNCHANGED flowVars
  PROVE  /\ LadderInv'
         /\ UNCHANGED saved
         /\ UNCHANGED at \/ \E s \in Sessions : at' = [at EXCEPT ![s] = 0]
<1>1. ASSUME NEW s \in Sessions, Crash(s) PROVE LadderInv'
  <2>1. /\ pc' = [pc EXCEPT ![s] = "idle"] /\ at' = [at EXCEPT ![s] = 0]
        /\ read' = [read EXCEPT ![s] = NoRow] /\ UNCHANGED <<latest, saved>>
    BY <1>1 DEF Crash, Stop
  <2> QED  BY <2>1, SixSteps DEF LadderInv, StepsInOrder, RowOK
<1>2. CASE UNCHANGED <<latest, saved, pc, at, read>>
  BY <1>2 DEF LadderInv, StepsInOrder, RowOK
<1> QED  BY <1>1, <1>2 DEF Crash, Stop, GoDown, ComeUp, flowVars

(* The invariant holds at first.                                           *)
LEMMA FirstLadder ==
  ASSUME FlowInit
  PROVE  LadderInv
BY SixSteps DEF FlowInit, LadderInv, StepsInOrder, RowOK

-----------------------------------------------------------------------------
(* Steps handed over in order are the first few, and Reached is the last.  *)
LEMMA FirstFew ==
  ASSUME NEW S \in SUBSET (1..6), \A k \in S : 1..k \subseteq S
  PROVE  \E n \in 0..6 : S = 1..n
<1>1. ASSUME NEW n \in 0..6, n = 0 \/ n \in S, \A k \in S : k <= n PROVE S = 1..n
  <2>1. 1..n \subseteq S
    BY <1>1
  <2>2. S \subseteq 1..n
    BY <1>1
  <2> QED  BY <2>1, <2>2
<1>2. PICK n \in 0..6 : (n = 0 \/ n \in S) /\ \A k \in S : k <= n
  <2>1. CASE 6 \in S
    BY <2>1
  <2>2. CASE 6 \notin S /\ 5 \in S
    BY <2>2
  <2>3. CASE 6 \notin S /\ 5 \notin S /\ 4 \in S
    BY <2>3
  <2>4. CASE S \cap {4, 5, 6} = {} /\ 3 \in S
    BY <2>4
  <2>5. CASE S \cap {3, 4, 5, 6} = {} /\ 2 \in S
    BY <2>5
  <2>6. CASE S \cap {2, 3, 4, 5, 6} = {} /\ 1 \in S
    BY <2>6
  <2>7. CASE S = {}
    BY <2>7
  <2> QED  BY <2>1, <2>2, <2>3, <2>4, <2>5, <2>6, <2>7
<1> QED  BY <1>1, <1>2

(* The rung that is reached is the number of steps handed over, ...        *)
LEMMA ReachedIs ==
  ASSUME LadderInv, NEW n \in 0..6, saved = 1..n
  PROVE  Reached = n
<1>1. n \in saved \cup {0} /\ \A j \in saved : j <= n
  OBVIOUS
<1>2. ASSUME NEW m \in saved \cup {0}, \A j \in saved : j <= m PROVE m = n
  BY <1>2
<1> QED  BY <1>1, <1>2 DEF Reached

(* ... after a step as well.                                               *)
LEMMA ReachedAgain ==
  ASSUME LadderInv', NEW n \in 0..6, saved' = 1..n
  PROVE  Reached' = n
<1>1. n \in saved' \cup {0} /\ \A j \in saved' : j <= n
  OBVIOUS
<1>2. ASSUME NEW m \in saved' \cup {0}, \A j \in saved' : j <= m PROVE m = n
  BY <1>2
<1> QED  BY <1>1, <1>2 DEF Reached

(* Every step of the workflow is one of the ladder, or leaves it alone.    *)
LEMMA StepClimbs ==
  ASSUME LadderInv, [FlowNext]_flowVars
  PROVE  LadderInv' /\ [Ladder!Next]_<<Reached, at>>
<1>1. PICK n \in 0..6 : saved = 1..n
  BY FirstFew, SixSteps DEF LadderInv, StepsInOrder
<1>2. Reached = n
  BY <1>1, ReachedIs
<1>3. ASSUME UNCHANGED saved PROVE UNCHANGED Reached
  BY <1>3 DEF Reached
<1>4. ASSUME NEW s \in Sessions, NEW k \in Steps, 1..(k - 1) \subseteq saved,
             at' = [at EXCEPT ![s] = k], UNCHANGED saved
      PROVE  Ladder!Next
  <2>1. k - 1 <= n /\ k \in 1..LastStep /\ k <= Reached + 1
    BY <1>1, <1>2, <1>4, SixSteps
  <2> QED  BY <1>3, <1>4, <2>1 DEF Ladder!Next, Ladder!Begin
<1>5. ASSUME NEW s \in Sessions, at' = [at EXCEPT ![s] = 0], UNCHANGED saved
      PROVE  Ladder!Next
  BY <1>3, <1>5 DEF Ladder!Next, Ladder!Leave
<1>6. ASSUME NEW s \in Sessions, Load(s) PROVE LadderInv' /\ Ladder!Next
  BY <1>4, <1>6, LoadStep DEF Load
<1>7. ASSUME NEW s \in Sessions, Work(s) \/ Escalate(s)
      PROVE  LadderInv' /\ UNCHANGED <<Reached, at>>
  BY <1>3, <1>7, WorkStep, EscalateStep
<1>8. ASSUME NEW s \in Sessions, Post(s)
      PROVE  LadderInv' /\ [Ladder!Next]_<<Reached, at>>
  <2>1. /\ LadderInv'
        /\ at[s] \in Steps /\ 1..(at[s] - 1) \subseteq saved
        /\ saved' \in {saved, saved \cup {at[s]}}
        /\ UNCHANGED at \/ at' = [at EXCEPT ![s] = 0]
    BY <1>8, PostStep
  <2>2. CASE UNCHANGED saved
    BY <1>3, <1>5, <2>1, <2>2
  <2>3. CASE saved' = saved \cup {at[s]}
    <3>1. at[s] - 1 <= n
      BY <1>1, <2>1, SixSteps
    <3>2. saved' = 1..(IF at[s] > n THEN at[s] ELSE n)
      BY <1>1, <2>1, <2>3, <3>1, SixSteps
    <3>3. Reached' = IF at[s] > n THEN at[s] ELSE n
      BY <2>1, <3>2, ReachedAgain, SixSteps
    <3> QED  BY <1>2, <2>1, <3>3, SixSteps DEF Ladder!Next, Ladder!HandOver
  <2> QED  BY <2>1, <2>2, <2>3
<1>9. ASSUME NEW s \in Sessions, Check(s) PROVE LadderInv' /\ Ladder!Next
  BY <1>4, <1>5, <1>9, CheckStep
<1>10. CASE (\E s \in Sessions : Crash(s)) \/ GoDown \/ ComeUp \/ UNCHANGED flowVars
  BY <1>3, <1>5, <1>10, OtherSteps
<1> QED  BY <1>6, <1>7, <1>8, <1>9, <1>10 DEF FlowNext, SessionNext

(* However sessions race, crash, lose requests or append copies of old      *)
(* rows: a session is at a step only when every step before it has been     *)
(* handed over (the router's gate, and what the steps write).              *)
THEOREM HandedOverInOrder == FlowSpec => []StepsInOrder
<1>1. LadderInv => StepsInOrder
  BY DEF LadderInv
<1>2. LadderInv /\ [FlowNext]_flowVars => LadderInv'
  BY StepClimbs
<1> QED  BY FirstLadder, <1>1, <1>2, PTL DEF FlowSpec

(* The workflow implements the ladder: the handoffs of execute-phase never  *)
(* skip a step, for any number of sessions, crashes and outages.           *)
THEOREM WorkflowClimbs == FlowSpec => ClimbsLadder
<1>1. LadderInv /\ [FlowNext]_flowVars => LadderInv' /\ [Ladder!Next]_<<Reached, at>>
  BY StepClimbs
<1>2. FlowInit => Ladder!Init
  <2>1. ASSUME FlowInit PROVE Reached = 0
    BY <2>1, FirstLadder, ReachedIs DEF FlowInit
  <2> QED  BY <2>1 DEF FlowInit, Ladder!Init
<1> QED  BY FirstLadder, <1>1, <1>2, PTL DEF FlowSpec, ClimbsLadder, Ladder!Spec

-----------------------------------------------------------------------------
(* Party sessions.                                                         *)

Locks(o) == op[o].step \in {"locked", "updated"}
Doomed(o) == op[o].step \in {"killed", "audited"}

(* The row lock has one holder, who found the status as it still is, and   *)
(* nobody holds a key lock beside it.                                      *)
LocksExclude ==
  /\ \A o, q \in Operators : Locks(o) /\ Locks(q) => o = q
  /\ \A o \in Operators : Locks(o) => op[o].cmd \in Commands /\ Allowed(op[o].cmd, status)
  /\ \A o \in Operators : op[o] = Idle \/ Locks(o) \/ (Doomed(o) /\ op[o].cmd = "kill")
  /\ RowLocked => ~ KeyShared

(* The session is terminated once: by the kill whose audit row is written  *)
(* or still to be written.                                                 *)
OneKill ==
  /\ \A o, q \in Operators : (Doomed(o) \/ <<"kill", o>> \in findings)
                             /\ (Doomed(q) \/ <<"kill", q>> \in findings) => o = q
  /\ \A o \in Operators : Doomed(o) \/ <<"kill", o>> \in findings => status = "terminated"
  /\ \A o \in Operators : ~ (Doomed(o) /\ <<"kill", o>> \in findings)

(* What a resume has read stays what there is until it commits.            *)
ReplayInv ==
  /\ DOMAIN replays = {"returned", "present"} /\ replays.returned = replays.present
  /\ \A o \in Operators : op[o].step = "updated" /\ op[o].cmd = "resume" => replays.returned = findings

PartyInv == PartyTypeOK /\ LocksExclude /\ OneKill /\ ReplayInv

(* No command leaves a terminated session.                                 *)
LEMMA TerminatedIsFinal ==
  ASSUME NEW cmd \in Commands
  PROVE  /\ ~ Allowed(cmd, "terminated")
         /\ Target[cmd] \in {"active", "paused", "terminated"}
BY DEF Allowed, ValidTransitions, Commands, Target

(* The lock is taken by a command that the status allows.                  *)
LEMMA LockStep ==
  ASSUME PartyInv, NEW o \in Operators, Lock(o)
  PROVE  PartyInv'
<1>1. PICK cmd \in Commands : /\ Allowed(cmd, status) /\ ~ RowLocked /\ ~ KeyShared
                              /\ op' = [op EXCEPT ![o] = [cmd |-> cmd, step |-> "locked"]]
                              /\ UNCHANGED <<status, pausedAt, post, findings, replays>>
  BY DEF Lock
<1>2. op'[o] = [cmd |-> cmd, step |-> "locked"] /\ \A q \in Operators \ {o} : op'[q] = op[q]
  BY <1>1 DEF PartyInv, PartyTypeOK
<1>3. PartyTypeOK'
  BY <1>1 DEF PartyInv, PartyTypeOK
<1>4. LocksExclude'
  BY <1>1, <1>2 DEF PartyInv, LocksExclude, Doomed, Locks, RowLocked, KeyShared
<1>5. OneKill'
  BY <1>1, <1>2 DEF PartyInv, OneKill, Doomed, LocksExclude
<1>6. ReplayInv'
  BY <1>1, <1>2 DEF PartyInv, ReplayInv
<1> QED  BY <1>3, <1>4, <1>5, <1>6 DEF PartyInv

(* The update, and for resume the replay.                                  *)
LEMMA UpdateStep ==
  ASSUME PartyInv, NEW o \in Operators, Update(o)
  PROVE  PartyInv'
<1>1. op'[o] = [op[o] EXCEPT !.step = "updated"] /\ \A q \in Operators \ {o} : op'[q] = op[q]
  BY DEF PartyInv, PartyTypeOK, Update
<1>2. op'[o].cmd = op[o].cmd /\ op'[o].step = "updated"
  BY <1>1 DEF PartyInv, PartyTypeOK
<1>3. UNCHANGED <<status, pausedAt, post, findings>> /\ op[o].step = "locked"
  BY DEF Update
<1>4. PartyTypeOK'
  BY <1>3 DEF PartyInv, PartyTypeOK, Update
<1>5. LocksExclude'
  <2>1. \A q \in Operators : Locks(q)' <=> Locks(q)
    BY <1>1, <1>2, <1>3 DEF Locks
  <2>2. (RowLocked' <=> RowLocked) /\ (KeyShared' <=> KeyShared)
    BY <1>1, <1>2, <1>3, <2>1 DEF RowLocked, KeyShared, Locks
  <2>3. \A q \in Operators : op'[q].cmd = op[q].cmd
    BY <1>1, <1>2
  <2>4. \A q \in Operators : op'[q] = Idle \/ Locks(q)' \/ (Doomed(q)' /\ op'[q].cmd = "kill")
    BY <1>1, <1>2, <2>1 DEF PartyInv, LocksExclude, Doomed, Locks
  <2> QED  BY <1>3, <2>1, <2>2, <2>3, <2>4 DEF PartyInv, LocksExclude
<1>6. OneKill'
  BY <1>1, <1>2, <1>3 DEF PartyInv, OneKill, Doomed
<1>7. ReplayInv'
  <2>1. replays' = IF op[o].cmd = "resume" THEN [returned |-> findings, present |-> findings] ELSE replays
    BY DEF Update, Replayed
  <2>2. \A q \in Operators \ {o} : op'[q].step # "updated"
    BY <1>1, <1>3 DEF PartyInv, LocksExclude, Doomed, Locks
  <2> QED  BY <1>2, <1>3, <2>1, <2>2 DEF PartyInv, ReplayInv
<1> QED  BY <1>4, <1>5, <1>6, <1>7 DEF PartyInv

(* Commit: a kill finds no other kill before it.                           *)
LEMMA CommitStep ==
  ASSUME PartyInv, NEW o \in Operators, Commit(o)
  PROVE  PartyInv'
<1>1. op[o].step = "updated" /\ op[o].cmd \in Commands /\ Allowed(op[o].cmd, status)
  BY DEF PartyInv, LocksExclude, Doomed, Locks, Commit
<1>2. status # "terminated" /\ status' = Target[op[o].cmd] /\ status' \in {"active", "paused", "terminated"}
  BY <1>1, TerminatedIsFinal DEF Commit
<1>3. \A q \in Operators \ {o} : op'[q] = op[q] /\ ~ Locks(q)
  BY <1>1 DEF PartyInv, PartyTypeOK, LocksExclude, Doomed, Locks, Commit
<1>4. \/ op[o].cmd = "kill" /\ op'[o].step = "killed" /\ op'[o].cmd = "kill"
      \/ op[o].cmd # "kill" /\ op'[o] = Idle
  BY DEF PartyInv, PartyTypeOK, Commit
<1>5. UNCHANGED <<post, findings>>
  BY DEF Commit
<1>6. PartyTypeOK'
  <2>1. op' \in [Operators -> [cmd : Commands \cup {"none"},
                              step : {"idle", "locked", "updated", "killed", "audited"}]]
    BY DEF PartyInv, PartyTypeOK, Commit, Idle
  <2>2. pausedAt' \in BOOLEAN
    BY DEF PartyInv, PartyTypeOK, Commit
  <2> QED  BY <1>2, <1>5, <2>1, <2>2 DEF PartyInv, PartyTypeOK
<1>7. LocksExclude'
  BY <1>3, <1>4 DEF PartyInv, LocksExclude, Doomed, Locks, RowLocked, Idle
<1>8. OneKill'
  <2>1. \A q \in Operators : ~ Doomed(q) /\ <<"kill", q>> \notin findings
    BY <1>2 DEF PartyInv, OneKill
  <2>2. op[o].cmd = "kill" => status' = "terminated"
    BY <1>2 DEF Target
  <2> QED  BY <1>3, <1>4, <1>5, <2>1, <2>2 DEF OneKill, Doomed, Idle
<1>9. ReplayInv'
  <2>1. op[o].cmd = "resume" => replays' = [replays EXCEPT !.present = findings] /\ replays.returned = findings
    BY <1>1 DEF PartyInv, ReplayInv, Commit
  <2>2. op[o].cmd # "resume" => replays' = replays
    BY DEF Commit
  <2>3. \A q \in Operators : op'[q].step # "updated"
    BY <1>3, <1>4 DEF Locks, Idle
  <2> QED  BY <2>1, <2>2, <2>3 DEF PartyInv, ReplayInv
<1> QED  BY <1>6, <1>7, <1>8, <1>9 DEF PartyInv

(* The audit row of a kill, which excludes the row lock while it is new.   *)
LEMMA AuditStep ==
  ASSUME PartyInv, NEW o \in Operators, AuditInsert(o) \/ AuditCommit(o)
  PROVE  PartyInv'
<1>1. CASE AuditInsert(o)
  <2>1. op'[o] = [op[o] EXCEPT !.step = "audited"] /\ \A q \in Operators \ {o} : op'[q] = op[q]
    BY <1>1 DEF PartyInv, PartyTypeOK, AuditInsert
  <2>2. op'[o].step = "audited" /\ op'[o].cmd = op[o].cmd /\ op[o].step = "killed" /\ ~ RowLocked
        /\ UNCHANGED <<status, pausedAt, post, findings, replays>>
    BY <1>1, <2>1 DEF PartyInv, PartyTypeOK, AuditInsert
  <2>3. PartyTypeOK'
    BY <1>1 DEF PartyInv, PartyTypeOK, AuditInsert
  <2>4. LocksExclude'
    <3>1. op[o].cmd = "kill"
      BY <2>2 DEF PartyInv, LocksExclude, Locks, Idle
    <3>2. \A q \in Operators : ~ Locks(q) /\ ~ Locks(q)'
      BY <2>1, <2>2 DEF RowLocked, Locks
    <3>3. \A q \in Operators : op'[q] = Idle \/ (Doomed(q)' /\ op'[q].cmd = "kill")
      BY <2>1, <2>2, <3>1, <3>2 DEF PartyInv, LocksExclude, Doomed
    <3>4. ~ RowLocked'
      BY <3>2 DEF RowLocked, Locks
    <3> QED  BY <3>2, <3>3, <3>4 DEF LocksExclude
  <2>5. OneKill'
    BY <2>1, <2>2 DEF PartyInv, OneKill, Doomed
  <2>6. ReplayInv'
    BY <2>1, <2>2 DEF PartyInv, ReplayInv
  <2> QED  BY <2>3, <2>4, <2>5, <2>6 DEF PartyInv
<1>2. CASE AuditCommit(o)
  <2>1. op'[o] = Idle /\ \A q \in Operators \ {o} : op'[q] = op[q]
    BY <1>2 DEF PartyInv, PartyTypeOK, AuditCommit
  <2>2. op[o].step = "audited" /\ findings' = findings \cup {<<"kill", o>>}
        /\ UNCHANGED <<status, pausedAt, post, replays>>
    BY <1>2 DEF AuditCommit
  <2>3. PartyTypeOK'
    BY <1>2 DEF PartyInv, PartyTypeOK, AuditCommit, Idle
  <2>4. LocksExclude'
    BY <2>1, <2>2 DEF PartyInv, LocksExclude, Doomed, Locks, RowLocked, KeyShared, Idle
  <2>5. OneKill'
    BY <2>1, <2>2 DEF PartyInv, OneKill, Doomed, Idle
  <2>6. ReplayInv'
    <3>1. KeyShared
      BY <2>2 DEF KeyShared
    <3>2. \A q \in Operators : op[q].step # "updated"
      BY <3>1 DEF PartyInv, LocksExclude, Doomed, RowLocked
    <3>3. \A q \in Operators : op'[q].step # "updated"
      BY <2>1, <3>2 DEF Idle
    <3> QED  BY <2>2, <3>3 DEF PartyInv, ReplayInv
  <2> QED  BY <2>3, <2>4, <2>5, <2>6 DEF PartyInv
<1> QED  BY <1>1, <1>2

(* A transaction that is rolled back leaves the row as it was.             *)
LEMMA DieStep ==
  ASSUME PartyInv, NEW o \in Operators, Die(o)
  PROVE  PartyInv'
<1>1. op'[o] = Idle /\ \A q \in Operators \ {o} : op'[q] = op[q]
  BY DEF PartyInv, PartyTypeOK, Die
<1>2. UNCHANGED <<status, pausedAt, post, findings>>
  BY DEF Die
<1>3. PartyTypeOK'
  BY <1>2 DEF PartyInv, PartyTypeOK, Die, Idle
<1>4. LocksExclude'
  BY <1>1, <1>2 DEF PartyInv, LocksExclude, Doomed, Locks, RowLocked, KeyShared, Idle
<1>5. OneKill'
  BY <1>1, <1>2 DEF PartyInv, OneKill, Doomed, Idle
<1>6. ReplayInv'
  <2>1. CASE op[o].cmd = "resume"
    <3>1. \A q \in Operators : op'[q].step # "updated"
      BY <1>1, <2>1 DEF PartyInv, LocksExclude, Doomed, Locks, Die, Idle
    <3>2. replays' = [returned |-> {}, present |-> {}]
      BY <2>1 DEF Die
    <3> QED  BY <3>1, <3>2 DEF ReplayInv
  <2>2. CASE op[o].cmd # "resume"
    BY <1>1, <1>2, <2>2 DEF PartyInv, ReplayInv, Idle, Die
  <2> QED  BY <2>1, <2>2
<1> QED  BY <1>3, <1>4, <1>5, <1>6 DEF PartyInv

(* Agents post beside the operators, but never while the row is locked.    *)
LEMMA AgentStep ==
  ASSUME PartyInv, NEW a \in Agents, AgentNext(a)
  PROVE  PartyInv'
<1>1. PartyTypeOK' /\ UNCHANGED <<status, pausedAt, op, replays>>
  BY DEF PartyInv, PartyTypeOK, AgentNext, PostBegin, PostInsert, PostCommit, PostAbort
<1>2. LocksExclude'
  BY <1>1 DEF PartyInv, PartyTypeOK, LocksExclude, Doomed, Locks, RowLocked, KeyShared,
              AgentNext, PostBegin, PostInsert, PostCommit, PostAbort
<1>3. \A o \in Operators : <<"kill", o>> \in findings' <=> <<"kill", o>> \in findings
  BY DEF AgentNext, PostBegin, PostInsert, PostCommit, PostAbort
<1>4. OneKill'
  BY <1>1, <1>3 DEF PartyInv, OneKill, Doomed
<1>5. ReplayInv'
  <2>1. CASE UNCHANGED findings
    BY <1>1, <2>1 DEF PartyInv, ReplayInv
  <2>2. CASE PostCommit(a)
    <3>1. ~ RowLocked
      BY <2>2 DEF PartyInv, LocksExclude, Doomed, KeyShared, PostCommit
    <3> QED  BY <1>1, <3>1 DEF PartyInv, ReplayInv, RowLocked
  <2> QED  BY <2>1, <2>2 DEF AgentNext, PostBegin, PostInsert, PostAbort
<1> QED  BY <1>1, <1>2, <1>4, <1>5 DEF PartyInv

-----------------------------------------------------------------------------
(* The invariant holds at first and after every step.                      *)
LEMMA PartyBegins ==
  ASSUME PartyInit
  PROVE  PartyInv
BY DEF PartyInit, PartyInv, PartyTypeOK, LocksExclude, OneKill, ReplayInv, Locks, Doomed,
       RowLocked, Idle

LEMMA PartyKeeps ==
  ASSUME PartyInv, [PartyNext]_partyVars
  PROVE  PartyInv'
<1>1. CASE UNCHANGED partyVars
  BY <1>1 DEF partyVars, PartyInv, PartyTypeOK, LocksExclude, OneKill, ReplayInv, Locks, Doomed,
              RowLocked, KeyShared
<1> QED  BY <1>1, LockStep, UpdateStep, CommitStep, AuditStep, DieStep, AgentStep
         DEF PartyNext, OperatorNext

(* The session's row, its operators, agents and findings keep their type.  *)
THEOREM PartyTypes == PartySpec => []PartyTypeOK
<1>1. PartyInv => PartyTypeOK
  BY DEF PartyInv
<1> QED  BY PartyBegins, PartyKeeps, <1>1, PTL DEF PartySpec

(* Any number of operators may kill a session at the same time: one audit  *)
(* row at most says that it was, and then it is terminated.  The row lock   *)
(* under which the status is read is what makes it so.                     *)
THEOREM KilledAtMostOnce == PartySpec => []KilledOnce
<1>1. ASSUME PartyInv PROVE KilledOnce
  <2>1. \A f \in Kills : \E o \in Operators : f = <<"kill", o>>
    BY <1>1 DEF PartyInv, PartyTypeOK, Kills
  <2>2. \A f, g \in Kills : f = g
    BY <1>1, <2>1 DEF PartyInv, OneKill, Kills
  <2>3. CASE Kills = {}
    BY <2>3, FS_EmptySet DEF KilledOnce
  <2>4. CASE Kills # {}
    <3>1. PICK f : f \in Kills
      BY <2>4
    <3>2. Kills = {f}
      BY <2>2, <3>1
    <3>3. status = "terminated"
      BY <1>1, <2>1, <3>1 DEF PartyInv, OneKill, Kills
    <3>4. Cardinality(Kills) = 1
      BY <3>2, FS_Singleton, Zenon
    <3> QED  BY <3>3, <3>4 DEF KilledOnce
  <2> QED  BY <2>3, <2>4
<1> QED  BY PartyBegins, PartyKeeps, <1>1, PTL DEF PartySpec

(* No finding is lost between the transition of a resume and its replay,   *)
(* for any number of agents that post meanwhile: the key lock of the        *)
(* findings' foreign key is what makes it so.                              *)
THEOREM ReplayIsComplete == PartySpec => []ReplayComplete
<1>1. PartyInv => ReplayComplete
  BY DEF PartyInv, ReplayInv, ReplayComplete
<1> QED  BY PartyBegins, PartyKeeps, <1>1, PTL DEF PartySpec

-----------------------------------------------------------------------------
(* The walk of a workflow: scores and the phases they select.               *)

(* The phases of a score, bucket by bucket.                                 *)
LEMMA PhasesOf ==
  ASSUME NEW score \in 0..100
  PROVE  /\ BucketOf(score) = IF score <= 15 THEN 1 ELSE IF score <= 35 THEN 2
                              ELSE IF score <= 60 THEN 3 ELSE IF score <= 85 THEN 4 ELSE 5
         /\ SelectPhases(score) =
              IF score <= 15 THEN {"E"} ELSE IF score <= 35 THEN {"P", "E", "T"}
              ELSE IF score <= 60 THEN {"R", "P", "E", "T"}
              ELSE IF score <= 85 THEN {"R", "P", "E", "T", "D"} ELSE Phases
PROOF
  <1>1. /\ Buckets[1].max = 15 /\ Buckets[2].max = 35 /\ Buckets[3].max = 60
        /\ Buckets[4].max = 85 /\ Buckets[5].max = 100
        /\ Buckets[1].phases = {"E"} /\ Buckets[2].phases = {"P", "E", "T"}
        /\ Buckets[3].phases = {"R", "P", "E", "T"}
        /\ Buckets[4].phases = {"R", "P", "E", "T", "D"} /\ Buckets[5].phases = Phases
    BY DEF Buckets
  <1> DEFINE Fits(i) == /\ score <= Buckets[i].max
                        /\ \A j \in 1..(i - 1) : score > Buckets[j].max
             b == IF score <= 15 THEN 1 ELSE IF score <= 35 THEN 2
                  ELSE IF score <= 60 THEN 3 ELSE IF score <= 85 THEN 4 ELSE 5
  <1>2. b \in 1..5 /\ Fits(b)
    BY <1>1
  <1>3. \A i \in 1..5 : Fits(i) => i = b
    <2> SUFFICES ASSUME NEW i \in 1..5, Fits(i), i # b
                 PROVE  FALSE
      OBVIOUS
    <2>1. CASE i < b
      <3>1. score > Buckets[i].max
        BY <1>2, <2>1
      <3>2. i \in {1, 2, 3, 4}
        BY <1>2, <2>1
      <3> QED
        BY <1>1, <3>1, <3>2
    <2>2. CASE i > b
      <3>1. b \in 1..(i - 1)
        BY <1>2, <2>2
      <3>2. score > Buckets[b].max
        BY <3>1
      <3> QED
        BY <1>1, <1>2, <3>2
    <2> QED
      BY <1>2, <2>1, <2>2
  <1>4. BucketOf(score) = CHOOSE i \in 1..5 : Fits(i)
    BY DEF BucketOf
  <1> HIDE DEF Fits, b
  <1>5. BucketOf(score) = b
    BY <1>2, <1>3, <1>4
  <1> USE DEF b
  <1> QED
    BY <1>1, <1>5 DEF SelectPhases

(* A higher score never selects fewer phases.                               *)
LEMMA PhasesGrow ==
  ASSUME NEW low \in 0..100, NEW high \in 0..100, low <= high
  PROVE  /\ SelectPhases(low) \subseteq SelectPhases(high)
         /\ SelectPhases(low) \subseteq Phases /\ "E" \in SelectPhases(low)
         /\ SelectPhases(0) = {"E"}
BY PhasesOf DEF Phases

(* Calibration stays a score, and caution raises it.                        *)
LEMMA Calibrates ==
  ASSUME NEW score \in 0..100, NEW signal \in {"cold", "passed", "failed", "unclear"}
  PROVE  /\ Calibrated(score, signal) \in 0..100
         /\ signal \in {"cold", "failed"} => score <= Calibrated(score, signal)
PROOF
  <1>1. CASE signal = "cold"
    <2>1. Calibrated(score, signal) = ColdShift(score)
      BY <1>1 DEF Calibrated
    <2>2. /\ Buckets[1].max = 15 /\ Buckets[2].max = 35 /\ Buckets[3].max = 60
          /\ Buckets[4].max = 85
      BY DEF Buckets
    <2>3. ColdShift(score) \in 0..100 /\ score <= ColdShift(score)
      BY <2>2, PhasesOf DEF ColdShift
    <2> QED
      BY <2>1, <2>3
  <1>2. CASE signal \in {"passed", "failed", "unclear"}
    BY <1>2 DEF Calibrated, AtMost, AtLeast
  <1> QED
    BY <1>1, <1>2

(* A plan has a score.                                                      *)
LEMMA Scores ==
  ASSUME NEW plan \in Plans
  PROVE  Score(Features(plan)) \in 0..100
PROOF
  <1>1. /\ plan.files \in Nat /\ plan.loc \in Nat /\ plan.tests \in Nat /\ plan.floor \in Nat
        /\ plan.migration \in BOOLEAN /\ plan.api \in BOOLEAN
    BY PlansAssumption
  <1> DEFINE f == Features(plan)
  <1>2. /\ f.files_expected \in Nat /\ f.estimated_loc \in Nat /\ f.test_impact \in Nat
        /\ f.dependency_depth \in Nat /\ f.security_sensitivity \in Nat
    BY <1>1 DEF Features, AtMost
  <1>3. \A n \in Nat, bound \in Nat : AtMost(n, bound) \in Nat
    BY DEF AtMost
  <1>4. \A flag : Flat(flag, 1500) \in Nat /\ Flat(flag, 1000) \in Nat
    BY DEF Flat
  <1> HIDE DEF f
  <1> DEFINE a1 == AtMost(f.files_expected, 20)  a2 == AtMost(f.estimated_loc, 500)
             a3 == AtMost(f.test_impact, 10)     a4 == AtMost(f.dependency_depth, 10)
             a5 == Flat(f.has_migration, 1500)   a6 == Flat(f.has_api_change, 1000)
             a7 == AtMost(f.security_sensitivity, 10)
  <1>5. /\ a1 \in Nat /\ a2 \in Nat /\ a3 \in Nat /\ a4 \in Nat
        /\ a7 \in Nat
    BY <1>2 DEF AtMost
  <1>11. a5 \in Nat /\ a6 \in Nat
    BY <1>4
  <1>9. Hundredths(f) = 100 * a1 + 3 * a2 + 100 * a3 + 150 * a4 + a5 + a6 + 150 * a7
    BY DEF Hundredths
  <1> HIDE DEF a1, a2, a3, a4, a5, a6, a7
  <1>10. Hundredths(f) \in Nat
    BY <1>5, <1>11, <1>9
  <1>6. \A h \in Nat : Rounded(h) \in Nat
    BY DEF Rounded
  <1>7. Rounded(Hundredths(f)) \in Nat
    BY <1>10, <1>6
  <1>8. Score(f) \in 0..100
    BY <1>7 DEF Score, AtMost, AtLeast
  <1> QED
    BY <1>8 DEF f

(* What a walk rests on. Every step below the current one that may not be  *)
(* skipped has run; the same below each step that has run, so that a       *)
(* rollback lands on sound ground; what is stored is as sound as what is   *)
(* in memory, and the two differ in their row only after a start without   *)
(* the database.                                                           *)
EmptyRow == [score |-> 0, phases |-> {}, features |-> FALSE, flags |-> 0]

WalkRows == [score : 0..100, phases : SUBSET Phases, features : BOOLEAN,
             flags : 0..(MaxEscalations + 3)]

StepCount(w) == Len(WorkflowSteps[w])

Below(w, i) ==
  \A k \in 1..StepCount(w) :
    k < i /\ WorkflowSteps[w][k] \in AlwaysRun => WorkflowSteps[w][k] \in visited

SoundHandoff(h) ==
  /\ h \in [workflow : DOMAIN WorkflowSteps, step : 1..6, done : SUBSET visited, row : WalkRows]
  /\ h.step <= StepCount(h.workflow)
  /\ Below(h.workflow, h.step)
  /\ h.row.flags > 0 => h.row.phases = SelectPhases(h.row.score)

WalkInv ==
  /\ SoundHandoff(handoff)
  /\ visited \subseteq StepNames(handoff.workflow)
  /\ \A k \in 1..StepCount(handoff.workflow) :
       WorkflowSteps[handoff.workflow][k] \in visited => Below(handoff.workflow, k)
  /\ store # NoHandoff =>
       /\ SoundHandoff(store) /\ store.workflow = handoff.workflow
       /\ handoff.row \in {store.row, EmptyRow}

(* The step lists are short and name no step twice.                         *)
LEMMA StepsDistinct ==
  ASSUME NEW w \in DOMAIN WorkflowSteps
  PROVE  /\ StepCount(w) \in 4..6
         /\ \A i, j \in 1..StepCount(w) : WorkflowSteps[w][i] = WorkflowSteps[w][j] => i = j
PROOF
  <1>1. w \in {"plan", "execute", "discuss"}
    BY DEF WorkflowSteps
  <1>2. CASE w = "plan"
    <2>1. WorkflowSteps[w] = <<"init", "research", "plan", "check", "approve">>
      BY <1>2 DEF WorkflowSteps
    <2> QED
      BY <2>1 DEF StepCount
  <1>3. CASE w = "execute"
    <2>1. WorkflowSteps[w] = <<"prepare", "route", "execute", "verify", "validate", "close">>
      BY <1>3 DEF WorkflowSteps
    <2> QED
      BY <2>1 DEF StepCount
  <1>4. CASE w = "discuss"
    <2>1. WorkflowSteps[w] = <<"scout", "analyze", "discuss", "commit">>
      BY <1>4 DEF WorkflowSteps
    <2> QED
      BY <2>1 DEF StepCount
  <1> QED
    BY <1>1, <1>2, <1>3, <1>4

(* A nonempty set of step numbers has a least one.                          *)
LEMMA LeastStep ==
  ASSUME NEW S \in SUBSET (1..6), S # {}
  PROVE  LET least == CHOOSE j \in S : \A k \in S : j <= k
         IN  least \in S /\ \A k \in S : least <= k
PROOF
  <1>1. \E j \in S : \A k \in S : j <= k
    <2>1. CASE 1 \in S
      BY <2>1
    <2>2. CASE 1 \notin S /\ 2 \in S
      BY <2>2
    <2>3. CASE 1 \notin S /\ 2 \notin S /\ 3 \in S
      BY <2>3
    <2>4. CASE 1 \notin S /\ 2 \notin S /\ 3 \notin S /\ 4 \in S
      BY <2>4
    <2>5. CASE S \subseteq {5, 6} /\ 5 \in S
      BY <2>5
    <2>6. CASE S = {6}
      BY <2>6
    <2>7. S \subseteq {5, 6} => 5 \in S \/ S = {6}
      OBVIOUS
    <2>8. 1 \in S \/ 2 \in S \/ 3 \in S \/ 4 \in S \/ S \subseteq {5, 6}
      OBVIOUS
    <2> QED
      BY <2>1, <2>2, <2>3, <2>4, <2>5, <2>6, <2>7, <2>8
  <1> QED
    BY <1>1

(* The router's next step: none of those between may not be skipped, and   *)
(* when there is none, neither may any of those that follow.                *)
LEMMA NextStepSkips ==
  ASSUME NEW w \in DOMAIN WorkflowSteps, NEW i \in 1..6, NEW chosen
  PROVE  LET next == NextStep(w, i, chosen)
         IN  /\ next \in 0..StepCount(w)
             /\ next # 0 => i < next
             /\ \A k \in 1..StepCount(w) :
                  i < k /\ (next = 0 \/ k < next) => WorkflowSteps[w][k] \notin AlwaysRun
PROOF
  <1> DEFINE later == {j \in (i + 1)..StepCount(w) : Runs(w, WorkflowSteps[w][j], chosen)}
             next == NextStep(w, i, chosen)
             least == CHOOSE j \in later : \A k \in later : j <= k
  <1>1. next = IF later = {} THEN 0 ELSE least
    BY DEF NextStep, StepCount
  <1>2. StepCount(w) \in 4..6
    BY StepsDistinct
  <1>3. later \in SUBSET (1..6) /\ \A j \in later : i < j /\ j <= StepCount(w)
    BY <1>2
  <1>4. later # {} => least \in later /\ \A k \in later : least <= k
    BY <1>3, LeastStep
  <1>5. \A k \in 1..StepCount(w) : i < k /\ WorkflowSteps[w][k] \in AlwaysRun => k \in later
    BY <1>2 DEF Runs
  <1> HIDE DEF later, next, least
  <1>6. next \in 0..StepCount(w) /\ (next # 0 => i < next)
    BY <1>1, <1>2, <1>3, <1>4
  <1>7. \A k \in 1..StepCount(w) :
          i < k /\ (next = 0 \/ k < next) => WorkflowSteps[w][k] \notin AlwaysRun
    BY <1>1, <1>2, <1>3, <1>4, <1>5
  <1> QED
    BY <1>6, <1>7 DEF next

(* A walk begins sound: nothing lies below the first step.                  *)
LEMMA WalkBegins == WalkInit => WalkInv
PROOF
  <1> SUFFICES ASSUME WalkInit  PROVE WalkInv
    OBVIOUS
  <1>1. PICK w \in DOMAIN WorkflowSteps, t \in Tasks : handoff = Fresh(w, Row(t))
    BY DEF WalkInit
  <1>2. store = NoHandoff /\ visited = {}
    BY DEF WalkInit
  <1>3. Row(t) \in WalkRows /\ Row(t).flags = 0
    <2>1. /\ t.plan \in Plans /\ t.env \in Layers /\ t.pin \in Layers /\ t.project \in Layers
          /\ t.signal \in {"cold", "passed", "failed", "unclear"}
      BY DEF Tasks, Signals
    <2>2. /\ Score(Features(t.plan)) \in 0..100
          /\ Calibrated(Score(Features(t.plan)), t.signal) \in 0..100
      BY <2>1, Scores, Calibrates
    <2>3. SelectPhases(Calibrated(Score(Features(t.plan)), t.signal)) \subseteq Phases
      BY <2>2, PhasesOf DEF Phases
    <2>4. Chosen(t) \subseteq Phases
      BY <2>1, <2>3, PlansAssumption DEF Chosen, Resolved
    <2> QED
      BY <2>2, <2>4 DEF Row, WalkRows, MaxEscalations
  <1>4. StepCount(w) \in 4..6
    BY StepsDistinct
  <1>5. Below(w, 1)
    BY <1>4 DEF Below
  <1>6. SoundHandoff(handoff)
    BY <1>1, <1>2, <1>3, <1>4, <1>5 DEF SoundHandoff, Fresh
  <1> QED
    BY <1>2, <1>6 DEF WalkInv

(* Visiting more only makes more of what lies below visited.                *)
LEMMA StaysSound ==
  ASSUME visited \subseteq visited'
  PROVE  /\ \A w, i : Below(w, i) => Below(w, i)'
         /\ \A h : SoundHandoff(h) => SoundHandoff(h)'
PROOF
  <1>1. \A w, i : Below(w, i) => Below(w, i)'
    BY DEF Below, StepCount
  <1> QED
    BY <1>1 DEF SoundHandoff, StepCount

LEMMA SaveStep == WalkInv /\ Save => WalkInv'
PROOF
  <1> SUFFICES ASSUME WalkInv, Save  PROVE WalkInv'
    OBVIOUS
  <1>1. PICK w \in DOMAIN WorkflowSteps, n \in 1..6 :
        /\ w = handoff.workflow /\ n = handoff.step
        /\ n <= StepCount(w)
        /\ handoff.done \in SUBSET visited /\ handoff.row \in WalkRows /\ Below(w, n)
        /\ handoff.row.flags > 0 => handoff.row.phases = SelectPhases(handoff.row.score)
        /\ handoff = [workflow |-> w, step |-> n, done |-> handoff.done, row |-> handoff.row]
    BY DEF WalkInv, SoundHandoff
  <1>2. /\ handoff' = [workflow |-> w, step |-> n, done |-> handoff.done \cup {WorkflowSteps[w][n]},
                       row |-> handoff.row]
        /\ store' = handoff' /\ visited' = visited \cup {WorkflowSteps[w][n]}
    BY <1>1 DEF Save, NameOf
  <1>3. /\ StepCount(w) \in 4..6
        /\ \A i, j \in 1..StepCount(w) : WorkflowSteps[w][i] = WorkflowSteps[w][j] => i = j
    BY <1>1, StepsDistinct
  <1>4. \A v, i : Below(v, i) => Below(v, i)'
    BY <1>2, StaysSound
  <1>5. SoundHandoff(handoff)'
    <2>1. handoff'.done \subseteq visited' /\ Below(w, n)'
      BY <1>1, <1>2, <1>4
    <2> QED
      BY <1>1, <1>2, <2>1 DEF SoundHandoff, StepCount
  <1>6. visited' \subseteq StepNames(w)
    BY <1>1, <1>2, <1>3 DEF WalkInv, StepNames, StepCount
  <1>7. \A k \in 1..StepCount(w) : WorkflowSteps[w][k] \in visited' => Below(w, k)'
    <2> SUFFICES ASSUME NEW k \in 1..StepCount(w), WorkflowSteps[w][k] \in visited'
                 PROVE  Below(w, k)'
      OBVIOUS
    <2>1. CASE WorkflowSteps[w][k] \in visited
      BY <1>1, <2>1, <1>4 DEF WalkInv
    <2>2. CASE WorkflowSteps[w][k] = WorkflowSteps[w][n]
      BY <2>2, <1>1, <1>3, <1>4
    <2> QED
      BY <1>2, <2>1, <2>2
  <1> QED
    <2>1. handoff'.workflow = w /\ store'.workflow = w /\ handoff'.row = store'.row
      BY <1>2
    <2>2. SoundHandoff(store)'
      BY <1>2, <1>5 DEF SoundHandoff
    <2> QED
      BY <1>5, <1>6, <1>7, <2>1, <2>2 DEF WalkInv, StepNames, StepCount

LEMMA AdvanceStep == WalkInv /\ Advance => WalkInv'
PROOF
  <1> SUFFICES ASSUME WalkInv, Advance  PROVE WalkInv'
    OBVIOUS
  <1>1. PICK w \in DOMAIN WorkflowSteps, n \in 1..6 :
        /\ w = handoff.workflow /\ n = handoff.step
        /\ n <= StepCount(w)
        /\ handoff.done \in SUBSET visited /\ handoff.row \in WalkRows /\ Below(w, n)
        /\ handoff.row.flags > 0 => handoff.row.phases = SelectPhases(handoff.row.score)
        /\ handoff = [workflow |-> w, step |-> n, done |-> handoff.done, row |-> handoff.row]
    BY DEF WalkInv, SoundHandoff
  <1>2. PICK next :
        /\ next = NextStep(w, n, handoff.row.phases)
        /\ handoff' = [workflow |-> w, step |-> next, done |-> handoff.done, row |-> handoff.row]
        /\ UNCHANGED <<store, visited>> /\ next # 0 /\ WorkflowSteps[w][n] \in visited
    BY <1>1 DEF Advance, NameOf
  <1>3. StepCount(w) \in 4..6
    BY <1>1, StepsDistinct
  <1>4. /\ next \in 1..StepCount(w) /\ n < next
        /\ \A k \in 1..StepCount(w) : n < k /\ k < next => WorkflowSteps[w][k] \notin AlwaysRun
    BY <1>1, <1>2, <1>3, NextStepSkips
  <1>5. Below(w, next)
    BY <1>1, <1>2, <1>3, <1>4 DEF Below
  <1>6. \A v, i : Below(v, i) => Below(v, i)'
    BY <1>2, StaysSound
  <1>7. SoundHandoff(handoff)'
    BY <1>1, <1>2, <1>3, <1>4, <1>5, <1>6 DEF SoundHandoff, StepCount
  <1>8. SoundHandoff(store) => SoundHandoff(store)'
    BY <1>2, StaysSound DEF SoundHandoff
  <1>9. handoff'.workflow = w /\ handoff'.row = handoff.row
    BY <1>2
  <1> QED
    BY <1>1, <1>2, <1>6, <1>7, <1>8, <1>9 DEF WalkInv, StepNames, StepCount

LEMMA RollbackStep == WalkInv /\ Rollback => WalkInv'
PROOF
  <1> SUFFICES ASSUME WalkInv, Rollback  PROVE WalkInv'
    OBVIOUS
  <1>1. PICK w \in DOMAIN WorkflowSteps :
        /\ w = handoff.workflow
        /\ handoff.done \in SUBSET visited /\ handoff.row \in WalkRows
        /\ handoff.row.flags > 0 => handoff.row.phases = SelectPhases(handoff.row.score)
        /\ handoff = [workflow |-> w, step |-> handoff.step, done |-> handoff.done,
                      row |-> handoff.row]
    BY DEF WalkInv, SoundHandoff
  <1>2. PICK target \in handoff.done :
          /\ handoff' = [handoff EXCEPT
                           !.step = CHOOSE i \in 1..Len(WorkflowSteps[w]) :
                                      WorkflowSteps[w][i] = target,
                           !.done = Before(handoff, target)]
          /\ store' = handoff' /\ UNCHANGED visited
    BY <1>1 DEF Rollback
  <1>3. PICK back :
          /\ back = CHOOSE i \in 1..Len(WorkflowSteps[w]) : WorkflowSteps[w][i] = target
          /\ back \in 1..StepCount(w) /\ WorkflowSteps[w][back] = target
    BY <1>1 DEF WalkInv, StepNames, StepCount
  <1>4. handoff' = [workflow |-> w, step |-> back, done |-> Before(handoff, target),
                    row |-> handoff.row]
    BY <1>1, <1>2, <1>3
  <1>12. store' = handoff' /\ visited' = visited
    BY <1>2
  <1>5. Before(handoff, target) \subseteq visited
    BY <1>1 DEF Before
  <1>6. Below(w, back)
    BY <1>1, <1>3 DEF WalkInv
  <1>7. \A v, i : Below(v, i) => Below(v, i)'
    BY <1>2, StaysSound
  <1>8. StepCount(w) \in 4..6
    BY <1>1, StepsDistinct
  <1>9. SoundHandoff(handoff)'
    <2>1. /\ handoff'.workflow = w /\ handoff'.step = back /\ handoff'.row = handoff.row
          /\ back \in 1..6 /\ back <= StepCount(w)
      BY <1>3, <1>4, <1>8
    <2>2. handoff' \in [workflow : DOMAIN WorkflowSteps, step : 1..6, done : SUBSET visited',
                        row : WalkRows]
      BY <1>1, <1>4, <1>5, <1>12, <2>1
    <2>3. Below(w, back)'
      BY <1>6, <1>7
    <2> QED
      BY <1>1, <2>1, <2>2, <2>3 DEF SoundHandoff, StepCount
  <1>10. SoundHandoff(store)'
    BY <1>9, <1>12 DEF SoundHandoff
  <1>11. handoff'.workflow = w /\ store'.workflow = w /\ handoff'.row = store'.row
    BY <1>4, <1>12
  <1> QED
    BY <1>1, <1>2, <1>7, <1>9, <1>10, <1>11 DEF WalkInv, StepNames, StepCount

(* A new session takes what is stored, or begins without the database.      *)
LEMMA LoadOrCreateStep == WalkInv /\ LoadOrCreate => WalkInv'
PROOF
  <1> SUFFICES ASSUME WalkInv, LoadOrCreate  PROVE WalkInv'
    OBVIOUS
  <1>1. PICK w \in DOMAIN WorkflowSteps : w = handoff.workflow
    BY DEF WalkInv, SoundHandoff
  <1>2. UNCHANGED <<store, visited>>
    BY DEF LoadOrCreate
  <1>3. /\ \A v, i : Below(v, i) => Below(v, i)'
        /\ \A h : SoundHandoff(h) => SoundHandoff(h)'
    BY <1>2, StaysSound
  <1>4. SoundHandoff(store) => SoundHandoff(store)'
    BY <1>2 DEF SoundHandoff, Below, StepCount
  <1>5. CASE store # NoHandoff /\ handoff' = store
    <2>1. store.workflow = w /\ SoundHandoff(store)
      BY <1>1, <1>5 DEF WalkInv
    <2>2. SoundHandoff(handoff)' /\ handoff'.workflow = w /\ handoff'.row = store'.row
      BY <1>2, <1>4, <1>5, <2>1 DEF SoundHandoff
    <2> QED
      BY <1>1, <1>2, <1>3, <1>4, <2>1, <2>2 DEF WalkInv, StepNames, StepCount
  <1>6. CASE handoff' = Fresh(handoff.workflow, EmptyRow)
    <2>1. handoff' = [workflow |-> w, step |-> 1, done |-> {}, row |-> EmptyRow]
      BY <1>1, <1>6 DEF Fresh
    <2>2. EmptyRow \in WalkRows /\ ~(EmptyRow.flags > 0)
      BY DEF EmptyRow, WalkRows, MaxEscalations
    <2>3. StepCount(w) \in 4..6
      BY StepsDistinct
    <2>4. Below(w, 1)
      BY <2>3 DEF Below
    <2>7. Below(w, 1)'
      BY <1>3, <2>4
    <2>5. SoundHandoff(handoff)'
      <3>1. /\ handoff'.workflow = w /\ handoff'.step = 1 /\ handoff'.done = {}
            /\ handoff'.row = EmptyRow
        BY <2>1
      <3>2. 1 <= StepCount(w)
        BY <2>3
      <3>3. handoff' \in [workflow : DOMAIN WorkflowSteps, step : 1..6, done : SUBSET visited',
                          row : WalkRows]
        BY <2>1, <2>2
      <3> QED
        BY <2>2, <2>7, <3>1, <3>2, <3>3 DEF SoundHandoff, StepCount
    <2>6. handoff'.workflow = w /\ handoff'.row = EmptyRow
      BY <2>1
    <2> QED
      BY <1>1, <1>2, <1>3, <1>4, <2>5, <2>6 DEF WalkInv, StepNames, StepCount
  <1> QED
    BY <1>5, <1>6 DEF LoadOrCreate, EmptyRow

(* At most four triggers fire at once.                                      *)
LEMMA FewFire ==
  ASSUME NEW row, NEW report \in SUBSET Triggers
  PROVE  Cardinality(Fired(row, report)) \in 0..4
PROOF
  <1> DEFINE some == {"manifest_violation", "file_count_overshoot", "executor_self_report",
                      "validator_divergence"}
  <1>1. IsFiniteSet(some) /\ Cardinality(some) <= 4
    <2>1. ASSUME NEW S, NEW x, NEW n \in Nat, IsFiniteSet(S), Cardinality(S) <= n
          PROVE  IsFiniteSet(S \cup {x}) /\ Cardinality(S \cup {x}) <= n + 1
      <3>1. IsFiniteSet(S \cup {x})
            /\ Cardinality(S \cup {x}) = IF x \in S THEN Cardinality(S) ELSE Cardinality(S) + 1
        BY <2>1, FS_AddElement
      <3>2. Cardinality(S) \in Nat
        BY <2>1, FS_CardinalityType
      <3> QED
        BY <2>1, <3>1, <3>2
    <2>2. IsFiniteSet({}) /\ Cardinality({}) <= 0
      BY FS_EmptySet
    <2> DEFINE one == {} \cup {"manifest_violation"}
               two == one \cup {"file_count_overshoot"}
               three == two \cup {"executor_self_report"}
               four == three \cup {"validator_divergence"}
    <2>3. some = four
      OBVIOUS
    <2>4. IsFiniteSet(one) /\ Cardinality(one) <= 1
      BY <2>1, <2>2, 0 + 1 = 1, Zenon
    <2> HIDE DEF one
    <2>5. IsFiniteSet(two) /\ Cardinality(two) <= 2
      BY <2>1, <2>4, 1 + 1 = 2, Zenon
    <2> HIDE DEF two
    <2>6. IsFiniteSet(three) /\ Cardinality(three) <= 3
      BY <2>1, <2>5, 2 + 1 = 3, Zenon
    <2> HIDE DEF three
    <2>7. IsFiniteSet(four) /\ Cardinality(four) <= 4
      BY <2>1, <2>6, 3 + 1 = 4, Zenon
    <2> QED
      BY <2>3, <2>7
  <1>2. Fired(row, report) \subseteq some
    BY DEF Fired
  <1> QED
    BY <1>1, <1>2, FS_Subset, FS_CardinalityType

(* An escalation keeps the row typed, never lowers its score and selects   *)
(* the phases of the new one.                                               *)
LEMMA EscalatedRow ==
  ASSUME NEW row \in WalkRows, NEW report \in SUBSET Triggers, ~CapHit(row)
  PROVE  LET raised == Escalated(row, Fired(row, report))
         IN  /\ raised \in WalkRows /\ row.score <= raised.score
             /\ raised.phases = SelectPhases(raised.score)
PROOF
  <1> DEFINE n == Cardinality(Fired(row, report))
             score == AtMost(row.score + EscalationBias * n, 100)
             new == Escalated(row, Fired(row, report))
  <1>1. n \in 0..4
    BY FewFire
  <1>2. /\ row.score \in 0..100 /\ row.flags \in 0..5 /\ ~(row.flags >= 2)
        /\ row.features \in BOOLEAN /\ row.phases \in SUBSET Phases
        /\ row = [score |-> row.score, phases |-> row.phases, features |-> row.features,
                  flags |-> row.flags]
    BY DEF WalkRows, MaxEscalations, CapHit
  <1>3. new = [score |-> score, phases |-> SelectPhases(score), features |-> row.features,
               flags |-> row.flags + n]
    BY <1>2 DEF Escalated, CapHit, MaxEscalations
  <1> HIDE DEF n, new
  <1>4. score \in 0..100 /\ row.score <= score
    BY <1>1, <1>2 DEF AtMost, EscalationBias
  <1> HIDE DEF score
  <1>5. SelectPhases(score) \subseteq Phases
    <2>1. score <= score
      BY <1>4
    <2> QED
      BY <1>4, <2>1, PhasesGrow
  <1>6. row.flags + n \in 0..5
    BY <1>1, <1>2
  <1> QED
    BY <1>2, <1>3, <1>4, <1>5, <1>6 DEF WalkRows, MaxEscalations, new

LEMMA EscalateRowStep == WalkInv /\ EscalateRow => WalkInv'
PROOF
  <1> SUFFICES ASSUME WalkInv, EscalateRow  PROVE WalkInv'
    OBVIOUS
  <1>1. PICK w \in DOMAIN WorkflowSteps, n \in 1..6 :
        /\ w = handoff.workflow /\ n = handoff.step /\ n <= StepCount(w)
        /\ handoff.done \in SUBSET visited /\ handoff.row \in WalkRows /\ Below(w, n)
        /\ handoff = [workflow |-> w, step |-> n, done |-> handoff.done, row |-> handoff.row]
    BY DEF WalkInv, SoundHandoff
  <1>2. PICK report \in SUBSET Triggers :
        /\ ~CapHit(handoff.row)
        /\ handoff' = [handoff EXCEPT !.row = Escalated(@, Fired(handoff.row, report))]
        /\ store' = handoff' /\ UNCHANGED visited
    BY DEF EscalateRow
  <1>3. PICK raised : /\ raised = Escalated(handoff.row, Fired(handoff.row, report))
                      /\ raised \in WalkRows /\ raised.phases = SelectPhases(raised.score)
    BY <1>1, <1>2, EscalatedRow
  <1>4. /\ handoff' = [workflow |-> w, step |-> n, done |-> handoff.done, row |-> raised]
        /\ store' = handoff' /\ UNCHANGED visited
    BY <1>1, <1>2, <1>3
  <1>5. \A v, i : Below(v, i) => Below(v, i)'
    BY <1>4, StaysSound
  <1>6. SoundHandoff(handoff)'
    BY <1>1, <1>3, <1>4, <1>5 DEF SoundHandoff, StepCount
  <1>7. SoundHandoff(store)'
    BY <1>4, <1>6 DEF SoundHandoff
  <1>8. handoff'.workflow = w /\ store'.workflow = w /\ handoff'.row = store'.row
    BY <1>4
  <1> QED
    BY <1>1, <1>4, <1>5, <1>6, <1>7, <1>8 DEF WalkInv, StepNames, StepCount

LEMMA WalkKeeps == WalkInv /\ [WalkNext]_walkVars => WalkInv'
PROOF
  <1> SUFFICES ASSUME WalkInv, [WalkNext]_walkVars  PROVE WalkInv'
    OBVIOUS
  <1>1. CASE UNCHANGED walkVars
    <2>1. UNCHANGED <<handoff, store, visited>>
      BY <1>1 DEF walkVars
    <2>2. \A v, i : Below(v, i) => Below(v, i)'
      BY <2>1, StaysSound
    <2>3. \A h : SoundHandoff(h) => SoundHandoff(h)'
      BY <2>1, StaysSound
    <2>4. SoundHandoff(handoff)' /\ (SoundHandoff(store) => SoundHandoff(store)')
      BY <2>1, <2>3 DEF WalkInv, SoundHandoff, Below, StepCount
    <2> QED
      BY <2>1, <2>2, <2>4 DEF WalkInv, StepNames, StepCount
  <1> QED
    BY <1>1, SaveStep, AdvanceStep, RollbackStep, LoadOrCreateStep, EscalateRowStep
    DEF WalkNext

LEMMA WalkTyped == WalkInv => WalkTypeOK
<1> SUFFICES ASSUME WalkInv  PROVE WalkTypeOK
  OBVIOUS
<1>1. StepCount(handoff.workflow) \in 4..6
  BY StepsDistinct DEF WalkInv, SoundHandoff
<1> QED
  BY <1>1 DEF WalkInv, SoundHandoff, WalkTypeOK, WalkRows, StepCount

(* The types of a walk: the step is one of the workflow's, what is done is *)
(* among its steps, the score stays in its range however often it is        *)
(* escalated.                                                              *)
THEOREM WalkTypes == WalkSpec => []WalkTypeOK
BY WalkBegins, WalkKeeps, WalkTyped, PTL DEF WalkSpec

(* A workflow that completes has run every step that may not be skipped,   *)
(* the validator's among them: for any plans, histories and override       *)
(* layers, however often it is rolled back, resumed without the database    *)
(* or escalated.                                                           *)
THEOREM ValidatorAlwaysRuns == WalkSpec => []ValidatorFloor
<1>1. WalkInv => ValidatorFloor
  <2> SUFFICES ASSUME WalkInv, Complete,
                      NEW name \in AlwaysRun \cap StepNames(handoff.workflow)
               PROVE  name \in visited
    BY DEF ValidatorFloor
  <2>1. PICK w \in DOMAIN WorkflowSteps, n \in 1..6 :
          /\ w = handoff.workflow /\ n = handoff.step /\ n <= StepCount(w) /\ Below(w, n)
    BY DEF WalkInv, SoundHandoff
  <2>2. PICK k \in 1..StepCount(w) : WorkflowSteps[w][k] = name
    BY <2>1 DEF StepNames, StepCount
  <2>3. StepCount(w) \in 4..6
    BY StepsDistinct
  <2>4. NextStep(w, n, handoff.row.phases) = 0 /\ WorkflowSteps[w][n] \in visited
    BY <2>1 DEF Complete, NameOf
  <2>5. CASE k < n
    BY <2>1, <2>2, <2>5 DEF Below
  <2>6. CASE k = n
    BY <2>2, <2>4, <2>6
  <2>7. CASE n < k
    BY <2>2, <2>3, <2>4, <2>7, NextStepSkips
  <2> QED
    BY <2>3, <2>5, <2>6, <2>7
<1> QED  BY WalkBegins, WalkKeeps, <1>1, PTL DEF WalkSpec

(* A cold start and a history of failures add phases to those the raw      *)
(* score selects. Whatever raises the flags of a task, an escalation or a   *)
(* session that resumes an escalated handoff, keeps every phase that the    *)
(* score in the row selects, and once a task was escalated every phase in   *)
(* the row: only the first escalation may drop what calibration or an       *)
(* override had chosen beyond the raw score.                                *)
THEOREM CautionOnlyAdds == WalkSpec => CautionAdds
<1> DEFINE Adds == /\ \A signal \in {"cold", "failed"} :
                        SelectPhases(handoff.row.score)
                          \subseteq SelectPhases(Calibrated(handoff.row.score, signal))
                   /\ handoff'.row.flags > handoff.row.flags =>
                        /\ SelectPhases(handoff.row.score) \subseteq handoff'.row.phases
                        /\ handoff.row.flags > 0 => handoff.row.phases \subseteq handoff'.row.phases
<1>1. WalkInv /\ [WalkNext]_walkVars => [Adds]_walkVars
  <2> SUFFICES ASSUME WalkInv, WalkNext  PROVE Adds
    BY DEF walkVars
  <2>1. handoff.row \in WalkRows /\ handoff.row.score \in 0..100
    BY DEF WalkInv, SoundHandoff, WalkRows
  <2>2. \A signal \in {"cold", "failed"} :
          SelectPhases(handoff.row.score)
            \subseteq SelectPhases(Calibrated(handoff.row.score, signal))
    <3> TAKE signal \in {"cold", "failed"}
    <3>1. /\ Calibrated(handoff.row.score, signal) \in 0..100
          /\ handoff.row.score <= Calibrated(handoff.row.score, signal)
      BY <2>1, Calibrates
    <3> QED
      BY <2>1, <3>1, PhasesGrow
  <2>3. CASE Save \/ Advance \/ Rollback
    <3>1. handoff'.row = handoff.row
      BY <2>3 DEF Save, Advance, Rollback, WalkInv, SoundHandoff
    <3> QED
      BY <2>1, <2>2, <3>1 DEF WalkRows
  <2>4. CASE LoadOrCreate
    <3> SUFFICES ASSUME handoff'.row.flags > handoff.row.flags
                 PROVE  /\ SelectPhases(handoff.row.score) \subseteq handoff'.row.phases
                        /\ ~ handoff.row.flags > 0
      BY <2>2
    <3>1. CASE store # NoHandoff /\ handoff' = store
      <4>1. handoff.row = EmptyRow
        BY <2>1, <3>1 DEF WalkInv, WalkRows
      <4>2. /\ store.row.score \in 0..100 /\ store.row.flags > 0
            /\ store.row.phases = SelectPhases(store.row.score)
        BY <3>1, <4>1 DEF WalkInv, SoundHandoff, WalkRows, EmptyRow
      <4>3. /\ handoff.row.score \in 0..100 /\ handoff.row.score <= store.row.score
            /\ handoff'.row = store.row
        BY <2>1, <3>1, <4>1, <4>2 DEF EmptyRow
      <4>4. SelectPhases(handoff.row.score) \subseteq SelectPhases(store.row.score)
        <5> DEFINE low == handoff.row.score
                   high == store.row.score
        <5>1. low \in 0..100 /\ high \in 0..100 /\ low <= high
          BY <4>2, <4>3
        <5> HIDE DEF low, high
        <5>2. SelectPhases(low) \subseteq SelectPhases(high)
          BY <5>1, PhasesGrow
        <5> QED
          BY <5>2 DEF low, high
      <4>5. handoff.row.flags = 0
        BY <4>1 DEF EmptyRow
      <4> QED
        BY <4>2, <4>3, <4>4, <4>5
    <3>2. CASE handoff' = Fresh(handoff.workflow, EmptyRow)
      BY <2>1, <3>2 DEF Fresh, EmptyRow, WalkRows, MaxEscalations
    <3> QED
      BY <2>4, <3>1, <3>2 DEF LoadOrCreate, EmptyRow
  <2>5. CASE EscalateRow
    <3>1. PICK report \in SUBSET Triggers :
            /\ ~CapHit(handoff.row)
            /\ handoff' = [handoff EXCEPT !.row = Escalated(@, Fired(handoff.row, report))]
      BY <2>5 DEF EscalateRow
    <3>2. PICK raised : /\ raised = Escalated(handoff.row, Fired(handoff.row, report))
                        /\ raised \in WalkRows /\ handoff.row.score <= raised.score
                        /\ raised.phases = SelectPhases(raised.score)
      BY <2>1, <3>1, EscalatedRow
    <3>3. handoff'.row = raised
      BY <3>1, <3>2 DEF WalkInv, SoundHandoff
    <3>4. raised.score \in 0..100
      BY <3>2 DEF WalkRows
    <3>5. SelectPhases(handoff.row.score) \subseteq SelectPhases(raised.score)
      BY <2>1, <3>2, <3>4, PhasesGrow
    <3>6. SelectPhases(handoff.row.score) \subseteq handoff'.row.phases
      BY <3>2, <3>3, <3>5
    <3>7. handoff.row.flags > 0 => handoff.row.phases = SelectPhases(handoff.row.score)
      BY DEF WalkInv, SoundHandoff
    <3> QED
      BY <2>2, <3>6, <3>7
  <2> QED
    BY <2>3, <2>4, <2>5 DEF WalkNext
<1> QED  BY WalkBegins, WalkKeeps, <1>1, PTL DEF CautionAdds, WalkSpec

-----------------------------------------------------------------------------
(* The scores and flags a row of the workflow may carry.                   *)
RowTyped(row) ==
  row = NoRow \/ /\ row.score \in 0..100 /\ row.phases \subseteq Phases
                 /\ row.flags \in 0..(MaxEscalations + 2)

FlowInv ==
  /\ LadderInv /\ up \in BOOLEAN /\ faults \in 0..MaxFaults
  /\ RowTyped(latest) /\ \A s \in Sessions : RowTyped(read[s])

(* No step reports more than three triggers.                               *)
LEMMA ThreeFire ==
  ASSUME NEW row, NEW k, NEW report \in SUBSET Reports(k)
  PROVE  Cardinality(Fired(row, report)) \in 0..3
<1>1. ASSUME NEW S, NEW x, NEW n \in Nat, IsFiniteSet(S), Cardinality(S) <= n
      PROVE  IsFiniteSet(S \cup {x}) /\ Cardinality(S \cup {x}) <= n + 1
  <2>1. IsFiniteSet(S \cup {x})
        /\ Cardinality(S \cup {x}) = IF x \in S THEN Cardinality(S) ELSE Cardinality(S) + 1
    BY <1>1, FS_AddElement
  <2>2. Cardinality(S) \in Nat
    BY <1>1, FS_CardinalityType
  <2> QED  BY <1>1, <2>1, <2>2
<1>2. IsFiniteSet({}) /\ Cardinality({}) <= 0
  BY FS_EmptySet
<1>3. ASSUME NEW a, NEW b, NEW c
      PROVE  IsFiniteSet({a, b, c}) /\ Cardinality({a, b, c}) <= 3
  <2> DEFINE first == {} \cup {a}
             second == first \cup {b}
             third == second \cup {c}
  <2>1. {a, b, c} = third
    OBVIOUS
  <2>2. IsFiniteSet(first) /\ Cardinality(first) <= 1
    BY <1>1, <1>2, 0 + 1 = 1, Zenon
  <2> HIDE DEF first
  <2>3. IsFiniteSet(second) /\ Cardinality(second) <= 2
    BY <1>1, <2>2, 1 + 1 = 2, Zenon
  <2> HIDE DEF second
  <2>4. IsFiniteSet(third) /\ Cardinality(third) <= 3
    BY <1>1, <2>3, 2 + 1 = 3, Zenon
  <2> QED  BY <2>1, <2>4
<1>4. \/ Fired(row, report) \subseteq {"manifest_violation", "executor_self_report", "file_count_overshoot"}
      \/ Fired(row, report) \subseteq {"manifest_violation", "validator_divergence", "file_count_overshoot"}
  BY DEF Reports, Fired
<1>5. ASSUME NEW S, IsFiniteSet(S), Cardinality(S) <= 3, NEW T \in SUBSET S
      PROVE  Cardinality(T) \in 0..3
  <2>1. IsFiniteSet(T) /\ Cardinality(T) <= Cardinality(S) /\ Cardinality(S) \in Nat
    BY <1>5, FS_Subset, FS_CardinalityType
  <2>2. Cardinality(T) \in Nat
    BY <2>1, FS_CardinalityType
  <2> QED  BY <1>5, <2>1, <2>2
<1>6. PICK a, b, c : Fired(row, report) \in SUBSET {a, b, c}
  BY <1>4
<1> QED  BY <1>3, <1>5, <1>6

LEMMA CopyTyped ==
  ASSUME NEW row, row # NoRow, RowTyped(row), RowOK(row), NEW k, NEW report \in SUBSET Reports(k)
  PROVE  RowTyped(Escalated(row, Fired(row, report)))
<1> DEFINE n == Cardinality(Fired(row, report))
           score == AtMost(row.score + EscalationBias * n, 100)
<1>1. CASE CapHit(row)
  BY <1>1 DEF Escalated
<1>2. CASE ~ CapHit(row)
  <2>1. Escalated(row, Fired(row, report)) =
          [row EXCEPT !.score = score, !.phases = SelectPhases(score), !.flags = @ + n]
    BY <1>2 DEF Escalated
  <2>2. n \in 0..3
    BY ThreeFire
  <2>3. row.score \in 0..100 /\ row.flags \in 0..4 /\ ~ (row.flags >= 2)
    BY <1>2 DEF RowTyped, CapHit, MaxEscalations
  <2> HIDE DEF n
  <2>4. score \in 0..100 /\ score <= score /\ row.flags + n \in 0..4
    BY <2>2, <2>3 DEF AtMost, EscalationBias
  <2> HIDE DEF score
  <2>5. SelectPhases(score) \subseteq Phases
    BY <2>4, PhasesGrow
  <2>6. DOMAIN row = Fields
    BY DEF RowOK
  <2> QED  BY <2>1, <2>4, <2>5, <2>6 DEF RowTyped, Fields, MaxEscalations
<1> QED  BY <1>1, <1>2

LEMMA NewRowTyped ==
  ASSUME NEW k, NEW row \in StepRows(k)
  PROVE  RowTyped(row)
BY FlowAssumption DEF StepRows, HandoffRow, RowTyped, MaxEscalations

LEMMA FlowKeeps ==
  ASSUME FlowInv, [FlowNext]_flowVars
  PROVE  FlowInv'
<1>1. LadderInv'
  BY LoadStep, WorkStep, EscalateStep, PostStep, CheckStep, OtherSteps
     DEF FlowInv, FlowNext, SessionNext
<1>2. up' \in BOOLEAN /\ faults' \in 0..MaxFaults
  <2> DEFINE Counts == up' \in {up, TRUE, FALSE} /\ (faults' = faults \/ (faults < MaxFaults /\ faults' = faults + 1))
  <2>1. Counts
    <3>1. ASSUME NEW s \in Sessions, SessionNext(s) PROVE Counts
      <4>1. CASE Work(s)
        BY <4>1 DEF Work
      <4> QED  BY <3>1, <4>1 DEF SessionNext, Load, Escalate, Post, Check
    <3>2. CASE (\E s \in Sessions : Crash(s)) \/ GoDown \/ ComeUp \/ UNCHANGED flowVars
      BY <3>2 DEF Crash, GoDown, ComeUp, flowVars
    <3> QED  BY <3>1, <3>2 DEF FlowNext
  <2>2. MaxFaults \in Nat /\ faults \in 0..MaxFaults /\ up \in BOOLEAN
    BY FlowAssumption DEF FlowInv
  <2>3. up' \in BOOLEAN
    BY <2>1, <2>2
  <2>4. faults' \in 0..MaxFaults
    BY <2>1, <2>2
  <2> QED  BY <2>3, <2>4
<1>3. RowTyped(latest')
  <2>1. \/ UNCHANGED latest
        \/ \E s \in Sessions : latest' = read[s] \/ latest' \in StepRows(at[s])
    BY DEF FlowNext, flowVars, SessionNext, Load, Work, Escalate, Post, Check, Crash, GoDown, ComeUp
  <2> QED  BY <2>1, NewRowTyped DEF FlowInv
<1>4. ASSUME NEW s \in Sessions PROVE RowTyped(read'[s])
  <2>1. CASE UNCHANGED read
    BY <2>1 DEF FlowInv
  <2>2. ASSUME NEW t \in Sessions, read' = [read EXCEPT ![t] = NoRow] PROVE RowTyped(read'[s])
    BY <2>2 DEF FlowInv, LadderInv, RowTyped
  <2>3. ASSUME NEW t \in Sessions, Work(t) PROVE RowTyped(read'[s])
    <3>1. PICK report \in SUBSET Reports(at[t]) :
            \/ UNCHANGED read
            \/ /\ latest # NoRow
               /\ read' = [read EXCEPT ![t] = Escalated(latest, Fired(latest, report))]
      BY <2>3 DEF Work
    <3>2. latest # NoRow => RowTyped(Escalated(latest, Fired(latest, report)))
      BY CopyTyped DEF FlowInv, LadderInv
    <3> QED  BY <2>1, <3>1, <3>2 DEF FlowInv, LadderInv
  <2> QED
    BY <2>1, <2>2, <2>3
    DEF FlowNext, flowVars, SessionNext, Load, Escalate, Post, Check, Crash, GoDown, ComeUp
<1> QED  BY <1>1, <1>2, <1>3, <1>4 DEF FlowInv

LEMMA FlowBegins ==
  ASSUME FlowInit
  PROVE  FlowInv
<1>1. up = TRUE /\ faults = 0 /\ latest = NoRow /\ \A s \in Sessions : read[s] = NoRow
  BY DEF FlowInit
<1> QED  BY <1>1, FirstLadder, FlowAssumption DEF FlowInv, RowTyped

(* What the workflow's tables and sessions hold is of its type: no row has *)
(* more than four escalation flags, however late its copy was appended.    *)
LEMMA FlowTyped ==
  ASSUME FlowInv
  PROVE  FlowTypeOK
<1>1. ASSUME NEW row, RowTyped(row), RowOK(row)
      PROVE  row = NoRow \/ /\ row.step \in Steps /\ row.next \in 0..LastStep
                            /\ row.score \in 0..100 /\ row.phases \subseteq Phases
                            /\ row.flags \in 0..(MaxEscalations + 2)
  <2>1. CASE row # NoRow
    <3>1. row.step \in 1..6 /\ row.next = IF row.step = LastStep THEN 0 ELSE row.step + 1
      BY <1>1, <2>1, SixSteps DEF RowOK, FlowInv, LadderInv
    <3> QED  BY <1>1, <2>1, <3>1, SixSteps DEF RowTyped
  <2> QED  BY <2>1
<1> QED  BY <1>1 DEF FlowInv, LadderInv, FlowTypeOK

-----------------------------------------------------------------------------
(* Findings and the commands that are busy with them keep their type.      *)
LEMMA LoopKeeps ==
  ASSUME LoopTypeOK, [LoopNext]_loopVars
  PROVE  LoopTypeOK'
<1>1. CASE UNCHANGED loopVars
  BY <1>1 DEF loopVars, LoopTypeOK
<1>2. CASE Introduce \/ ReadFindings
  BY <1>2 DEF Introduce, ReadFindings, LoopTypeOK
<1>3. CASE CreateTasks
  <2>1. ASSUME NEW f \in Rows, todo[f] < MaxTasks PROVE todo[f] + 1 \in 0..MaxTasks
    BY <2>1, TasksAssumption DEF LoopTypeOK
  <2> QED  BY <1>3, <2>1 DEF CreateTasks, LoopTypeOK
<1>4. ASSUME NEW a \in Auditors, Select(a) \/ Insert(a) PROVE LoopTypeOK'
  BY <1>4 DEF Select, Insert, LoopTypeOK
<1>5. ASSUME NEW f \in Rows, ReAudit(f) PROVE LoopTypeOK'
  <2>1. todo[f] - 1 \in 0..MaxTasks
    BY <1>5, TasksAssumption DEF ReAudit, LoopTypeOK
  <2> QED  BY <1>5, <2>1 DEF ReAudit, LoopTypeOK
<1>6. ASSUME NEW f \in Rows, Fix(f) \/ Close(f) \/ GiveUp(f) PROVE LoopTypeOK'
  BY <1>6 DEF Fix, Close, GiveUp, PatchedTo, LoopTypeOK
<1> QED  BY <1>1, <1>2, <1>3, <1>4, <1>5, <1>6 DEF LoopNext

-----------------------------------------------------------------------------
(* The five protocols side by side: a step is of one of them.              *)
AllInv == WalkInv /\ FlowInv /\ PartyInv /\ LoopTypeOK /\ CounterInv

LEMMA AllBegin == MCInit => AllInv
<1> SUFFICES ASSUME MCInit PROVE AllInv
  OBVIOUS
<1>1. WalkInit /\ FlowInit /\ PartyInit /\ LoopInit /\ Init
  BY DEF MCInit
<1>2. LoopTypeOK
  BY <1>1, TasksAssumption DEF LoopInit, LoopTypeOK
<1> QED  BY <1>1, <1>2, WalkBegins, FlowBegins, PartyBegins, CounterBegins DEF AllInv

LEMMA AllKeep == AllInv /\ [MCNext]_allVars => AllInv'
<1> SUFFICES ASSUME AllInv, [MCNext]_allVars PROVE AllInv'
  OBVIOUS
<1>1. /\ [WalkNext]_walkVars /\ [FlowNext]_flowVars /\ [PartyNext]_partyVars
      /\ [LoopNext]_loopVars /\ [Next]_vars
  BY DEF MCNext, InWalk, InFlow, InParty, InLoop, InA2A, allVars
<1> QED  BY <1>1, WalkKeeps, FlowKeeps, PartyKeeps, LoopKeeps, CounterKeeps DEF AllInv

(* The types of all five protocols: no index leaves its workflow, no score *)
(* or flag its range, no counter, limit or place its kind.                 *)
THEOREM CollaborationTypes == MCSpec => []CollaborationTypeOK
<1>1. AllInv => CollaborationTypeOK
  BY WalkTyped, FlowTyped DEF AllInv, CollaborationTypeOK, PartyInv, CounterInv
<1> QED  BY AllBegin, AllKeep, <1>1, PTL DEF MCSpec
=============================================================================
