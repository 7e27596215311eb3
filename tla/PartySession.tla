---------------------------- MODULE PartySession ----------------------------
(***************************************************************************)
(* One party session and the findings its agents post                      *)
(* (services/party_session.py, services/party_session_cli.py).  Operators  *)
(* start, pause, resume, terminate and kill the session, each in a         *)
(* transaction that locks the session's row first; agents post findings    *)
(* and decisions in transactions of their own.  The foreign key of         *)
(* agent_findings.session_id makes a post share the row's key lock, which  *)
(* the FOR UPDATE lock of an operator excludes.                            *)
(***************************************************************************)
EXTENDS Naturals, FiniteSets

CONSTANTS Operators, Agents

VARIABLES status,     \* of the session's row, as committed
          pausedAt,   \* its paused_at column is set
          op,         \* [Operators -> the command an operator runs and its place]
          post,       \* [Agents -> "ready", "begun", "inserted", "sent"]
          findings,   \* findings that are committed: agents, and "kill" rows
          replays     \* what the last resume returned, and what was there

partyVars == <<status, pausedAt, op, post, findings, replays>>

Idle == [cmd |-> "none", step |-> "idle"]

Target == [start |-> "active", pause |-> "paused", resume |-> "active",
           terminate |-> "terminated", kill |-> "terminated"]

Commands == DOMAIN Target

ValidTransitions == {<<"created", "active">>, <<"active", "paused">>,
                     <<"paused", "active">>, <<"active", "terminated">>,
                     <<"paused", "terminated">>}

(* resume() insists on a paused session, the others ask the table.         *)
Allowed(cmd, from) ==
  /\ cmd = "resume" => from = "paused"
  /\ <<from, Target[cmd]>> \in ValidTransitions

PartyInit ==
  /\ status = "created" /\ pausedAt = FALSE
  /\ op = [o \in Operators |-> Idle]
  /\ post = [a \in Agents |-> "ready"]
  /\ findings = {}
  /\ replays = [returned |-> {}, present |-> {}]

RowLocked == \E o \in Operators : op[o].step \in {"locked", "updated"}
KeyShared == \/ \E a \in Agents : post[a] = "inserted"
             \/ \E o \in Operators : op[o].step = "audited"

-----------------------------------------------------------------------------
Lock_Unlocked(o) ==              \* mutant: SELECT without FOR UPDATE
  \E cmd \in Commands :
    /\ op[o] = Idle
    /\ Allowed(cmd, status)
    /\ op' = [op EXCEPT ![o] = [cmd |-> cmd, step |-> "locked"]]
    /\ UNCHANGED <<status, pausedAt, post, findings, replays>>

(* SELECT ... FOR UPDATE: the row is locked and its status checked.        *)
Lock(o) ==
  \E cmd \in Commands :
    /\ op[o] = Idle
    /\ ~RowLocked /\ ~KeyShared
    /\ Allowed(cmd, status)
    /\ op' = [op EXCEPT ![o] = [cmd |-> cmd, step |-> "locked"]]
    /\ UNCHANGED <<status, pausedAt, post, findings, replays>>

(* The UPDATE, and for resume the replay in the same transaction.          *)
Replayed(o) ==
  IF op[o].cmd = "resume" THEN [returned |-> findings, present |-> findings] ELSE replays

Update(o) ==
  /\ op[o].step = "locked"
  /\ op' = [op EXCEPT ![o].step = "updated"]
  /\ replays' = Replayed(o)
  /\ UNCHANGED <<status, pausedAt, post, findings>>

(* Commit releases the lock. A kill goes on to post its audit row.         *)
Commit(o) ==
  /\ op[o].step = "updated"
  /\ status' = Target[op[o].cmd]
  /\ pausedAt' = CASE op[o].cmd = "pause"  -> TRUE
                   [] op[o].cmd = "resume" -> FALSE
                   [] OTHER                -> pausedAt
  /\ op' = [op EXCEPT ![o] = IF @.cmd = "kill" THEN [@ EXCEPT !.step = "killed"] ELSE Idle]
  /\ replays' = IF op[o].cmd = "resume" THEN [replays EXCEPT !.present = findings] ELSE replays
  /\ UNCHANGED <<post, findings>>

AuditInsert(o) ==
  /\ op[o].step = "killed" /\ ~RowLocked
  /\ op' = [op EXCEPT ![o].step = "audited"]
  /\ UNCHANGED <<status, pausedAt, post, findings, replays>>

AuditCommit(o) ==
  /\ op[o].step = "audited"
  /\ findings' = findings \cup {<<"kill", o>>}
  /\ op' = [op EXCEPT ![o] = Idle]
  /\ UNCHANGED <<status, pausedAt, post, replays>>

(* An operator's process dies: the transaction under way is rolled back.   *)
Die(o) ==
  /\ op[o] # Idle
  /\ op' = [op EXCEPT ![o] = Idle]
  /\ replays' = IF op[o].cmd = "resume" THEN [returned |-> {}, present |-> {}] ELSE replays
  /\ UNCHANGED <<status, pausedAt, post, findings>>

-----------------------------------------------------------------------------
(* An agent posts one finding or decision; the status is not looked at.    *)
PostBegin(a) ==
  /\ post[a] = "ready" /\ post' = [post EXCEPT ![a] = "begun"]
  /\ UNCHANGED <<status, pausedAt, op, findings, replays>>

PostInsert_NoKey(a) ==           \* mutant: session_id without its foreign key
  /\ post[a] = "begun"
  /\ post' = [post EXCEPT ![a] = "inserted"]
  /\ UNCHANGED <<status, pausedAt, op, findings, replays>>

PostInsert(a) ==
  /\ post[a] = "begun" /\ ~RowLocked
  /\ post' = [post EXCEPT ![a] = "inserted"]
  /\ UNCHANGED <<status, pausedAt, op, findings, replays>>

PostCommit(a) ==
  /\ post[a] = "inserted"
  /\ post' = [post EXCEPT ![a] = "sent"]
  /\ findings' = findings \cup {<<"finding", a>>}
  /\ UNCHANGED <<status, pausedAt, op, replays>>

PostAbort(a) ==
  /\ post[a] \in {"begun", "inserted"}
  /\ post' = [post EXCEPT ![a] = "ready"]
  /\ UNCHANGED <<status, pausedAt, op, findings, replays>>

OperatorNext(o) == Lock(o) \/ Update(o) \/ Commit(o) \/ AuditInsert(o) \/ AuditCommit(o) \/ Die(o)
AgentNext(a) == PostBegin(a) \/ PostInsert(a) \/ PostCommit(a) \/ PostAbort(a)

PartyNext == (\E o \in Operators : OperatorNext(o)) \/ (\E a \in Agents : AgentNext(a))

PartySpec == PartyInit /\ [][PartyNext]_partyVars

-----------------------------------------------------------------------------
Kills == {f \in findings : f[1] = "kill"}

PartyTypeOK ==
  /\ status \in {"created", "active", "paused", "terminated"}
  /\ pausedAt \in BOOLEAN
  /\ op \in [Operators -> [cmd : Commands \cup {"none"},
                           step : {"idle", "locked", "updated", "killed", "audited"}]]
  /\ post \in [Agents -> {"ready", "begun", "inserted", "sent"}]
  /\ findings \subseteq ({"finding"} \X Agents) \cup ({"kill"} \X Operators)

(* services/party_session.py:348: no finding is lost between the           *)
(* transition and the replay: when a resume commits, what it returned is   *)
(* everything that had been posted by then.                                *)
ReplayComplete ==
  \A o \in Operators : op[o].step # "updated" => replays.returned = replays.present

(* Two operators may kill a session at the same time: it is terminated     *)
(* once, one audit row at most says so, and a terminated session never     *)
(* comes back.                                                             *)
KilledOnce ==
  /\ Cardinality(Kills) <= 1
  /\ Kills # {} => status = "terminated"
=============================================================================
