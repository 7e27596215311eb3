--------------------------- MODULE StaleWatchdog ---------------------------
(***************************************************************************)
(* The daemon thread _stale_task_watchdog beside the task engine.  A pass  *)
(* reads tasks.json once, without the lock, picks the in-progress items    *)
(* whose claim is too old, and then runs `amauta status <id> pending       *)
(* --force` for one after the other.  Commands of agents come in between.  *)
(*                                                                         *)
(* The thread looks for RPETD timestamps in a field "rpetd" that items do  *)
(* not have (cmd_rpetd writes "rpetd_phases"), so the age of the claim is  *)
(* all it uses.                                                            *)
(***************************************************************************)
EXTENDS TaskBoard

CONSTANT Exempt     \* ids with a WATCHDOG_EXEMPT note

ASSUME ExemptAssumption == Exempt \subseteq Id

VARIABLE doomed     \* the ids this pass has still to revert

wvars == <<items, archive, doomed>>

WatchdogTypeOK == TypeOK /\ doomed \in SUBSET Id

WatchdogInit == Init /\ doomed = {}

\* Faulty variant: an item without any RPETD write has no age.
StaleItems_ByLog ==
    {i \in DOMAIN items \ Exempt :
        items[i].status = "in-progress" /\ items[i].logAge = "stale"}

\* The items the pass finds stale in the file it read.
StaleItems ==
    {i \in DOMAIN items \ Exempt :
        items[i].status = "in-progress" /\ items[i].claimAge = "stale"}

Scan ==
    /\ doomed = {}
    /\ StaleItems # {}
    /\ doomed' = StaleItems
    /\ UNCHANGED vars

\* The subprocess: cmd_status with --force, so any status becomes pending.
\* An id that is gone by now is an error that the thread only logs.
Revert(i) ==
    /\ i \in doomed
    /\ doomed' = doomed \ {i}
    /\ items' = IF i \in DOMAIN items
                THEN [items EXCEPT ![i].status = "pending"] ELSE items
    /\ UNCHANGED archive

\* The subprocess times out or fails before it saves.
RevertLost(i) ==
    /\ i \in doomed
    /\ doomed' = doomed \ {i}
    /\ UNCHANGED vars

\* The daemon is restarted in the middle of a pass.
WatchdogRestart ==
    /\ doomed # {}
    /\ doomed' = {}
    /\ UNCHANGED vars

WatchdogNext ==
    \/ Next /\ UNCHANGED doomed
    \/ Scan
    \/ \E i \in doomed : Revert(i) \/ RevertLost(i)
    \/ WatchdogRestart

WatchdogSpec == WatchdogInit /\ [][WatchdogNext]_wvars

\* The thread loops for ever, and a task's subprocess does not fail each time.
WatchdogFairness ==
    /\ WF_wvars(Scan)
    /\ \A i \in Id : SF_wvars(Revert(i))

LiveWatchdogSpec == WatchdogSpec /\ WatchdogFairness

----------------------------------------------------------------------------
(* Properties.                                                             *)

Abandoned(i) ==
    /\ i \in DOMAIN items
    /\ items[i].status = "in-progress" /\ items[i].claimAge = "stale"

\* Work that an agent claimed and left is given back: a stale claim does not
\* stay in progress for ever (the purpose of the thread).
AbandonedWorkReturns ==
    \A i \in Id \ Exempt : Abandoned(i) ~> ~ Abandoned(i)

\* "Watchdog uses latest RPETD timestamp, not just claimed_at": an item with
\* recent RPETD activity is not sent back.
SparesActiveWork ==
    [][\A i \in doomed \cap DOMAIN items :
          Revert(i) => items[i].logAge # "fresh"]_wvars
=============================================================================
