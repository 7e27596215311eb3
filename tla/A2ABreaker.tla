----------------------------- MODULE A2ABreaker -----------------------------
(***************************************************************************)
(* The circuit breaker of one pair of agents (src/services/a2a_breaker.py) *)
(* over three Valkey keys: the state, the failure counter and the probe    *)
(* lock, the last two with an expiry. Every command on a key is a step, so *)
(* that callers interleave between reading the state and writing it back.  *)
(* Time is counted in units; ages stop at the value that matters.          *)
(***************************************************************************)
EXTENDS Naturals, FiniteSets

CONSTANTS
    Callers,        \* processes that send to the same agent
    Threshold,      \* BREAKER_FAILURE_THRESHOLD
    Window,         \* BREAKER_WINDOW_S, in units
    OpenFor,        \* BREAKER_OPEN_DURATION_S
    ProbeTTL,       \* _PROBE_LOCK_TTL_S
    Timeout         \* DEFAULT_TIMEOUT_S

ASSUME A2AAssumption ==
    /\ IsFiniteSet(Callers) /\ Callers # {}
    /\ {Threshold, Window, OpenFor, ProbeTTL, Timeout} \subseteq Nat \ {0}

VARIABLES
    data,       \* the breaker key: its state and the units since opened_at
    failures,   \* the counter and the units it has left, none while no expiry is set
    probe,      \* the units the probe lock has left
    place,      \* where each caller is
    seen,       \* the breaker key as each caller read it, while it matters
    counted     \* what INCR returned to each caller, while it matters

breakerVars == <<data, failures, probe, place, seen, counted>>

ClosedState == [state |-> "closed", age |-> 0]  \* the key is absent
NoFailures == [n |-> 0, ttl |-> 0]
CheckPlaces == {"check", "halve", "probe"}
RecordPlaces == {"count", "expire", "reread", "trip", "confirm", "close"}
RequestPlaces == {"idle", "admitted", "probing", "await", "probe_await"}

BreakerTypeOK ==
    /\ data \in [state : {"closed", "open", "half_open"}, age : 0..OpenFor]
    /\ failures \in [n : 0..Threshold, ttl : 0..Window]
    /\ probe \in 0..ProbeTTL
    /\ place \in [Callers -> CheckPlaces \cup RecordPlaces \cup RequestPlaces]
    /\ seen \in [Callers -> [state : {"closed", "open", "half_open"}, age : 0..OpenFor]]
    /\ counted \in [Callers -> 0..Threshold]

BreakerInit ==
    /\ data = ClosedState /\ failures = NoFailures /\ probe = 0
    /\ place = [c \in Callers |-> "idle"]
    /\ seen = [c \in Callers |-> ClosedState]
    /\ counted = [c \in Callers |-> 0]

At(c, to) == place[c] = to
GoesTo(c, to) == place' = [place EXCEPT ![c] = to]
Reads(c) == seen' = [seen EXCEPT ![c] = data]
Forgets(c) == seen' = [seen EXCEPT ![c] = ClosedState]

ProbeLeft_Eternal == probe                                  \* mutant: SET NX without EX
ProbeLeft == IF probe = 0 THEN 0 ELSE probe - 1

\* One unit of time for the keys.
KeysAge ==
    /\ data' = [data EXCEPT !.age = IF data.state = "closed" \/ @ = OpenFor THEN @ ELSE @ + 1]
    /\ failures' = CASE failures.ttl = 0 -> failures
                     [] failures.ttl = 1 -> NoFailures
                     [] OTHER -> [failures EXCEPT !.ttl = @ - 1]
    /\ probe' = ProbeLeft

-----------------------------------------------------------------------------
(* check_and_allow: the request is admitted, as a probe or not, or refused. *)

CheckBreaker(c) ==
    /\ At(c, "check")
    /\ \/ data.state = "closed" /\ GoesTo(c, "admitted") /\ UNCHANGED seen
       \/ data.state = "half_open" /\ GoesTo(c, "probe") /\ UNCHANGED seen
       \/ data.state = "open" /\ data.age < OpenFor /\ GoesTo(c, "idle") /\ UNCHANGED seen
       \/ data.state = "open" /\ data.age = OpenFor /\ GoesTo(c, "halve") /\ Reads(c)
    /\ UNCHANGED <<data, failures, probe, counted>>

\* get_state writes back what it read, with the state changed.
Halve(c) ==
    /\ At(c, "halve")
    /\ data' = [seen[c] EXCEPT !.state = "half_open"]
    /\ GoesTo(c, "probe") /\ Forgets(c)
    /\ UNCHANGED <<failures, probe, counted>>

TakeProbe(c) ==
    /\ At(c, "probe")
    /\ IF probe = 0 THEN probe' = ProbeTTL /\ GoesTo(c, "probing")
                    ELSE UNCHANGED probe /\ GoesTo(c, "idle")
    /\ UNCHANGED <<data, failures, seen, counted>>

\* Valkey is not there: the request goes through.
FailOpen(c) ==
    /\ place[c] \in CheckPlaces
    /\ GoesTo(c, "admitted") /\ Forgets(c)
    /\ UNCHANGED <<data, failures, probe, counted>>

CheckSteps(c) == CheckBreaker(c) \/ Halve(c) \/ TakeProbe(c)

-----------------------------------------------------------------------------
(* record_failure                                                           *)

Count(c) ==
    /\ At(c, "count")
    /\ failures' = [failures EXCEPT !.n = IF @ = Threshold THEN @ ELSE @ + 1]
    /\ counted' = [counted EXCEPT ![c] = failures'.n]
    /\ GoesTo(c, "expire")
    /\ UNCHANGED <<data, probe, seen>>

Expire_Forgotten(c) ==                                      \* mutant: INCR without EXPIRE
    /\ At(c, "expire") /\ GoesTo(c, "reread")
    /\ UNCHANGED <<data, failures, probe, seen, counted>>
Expire(c) ==
    /\ At(c, "expire")
    /\ failures' = IF failures.n = 0 THEN failures ELSE [failures EXCEPT !.ttl = Window]
    /\ GoesTo(c, "reread")
    /\ UNCHANGED <<data, probe, seen, counted>>

Reread(c) ==
    /\ At(c, "reread")
    /\ Reads(c) /\ GoesTo(c, "trip")
    /\ UNCHANGED <<data, failures, probe, counted>>

Reopened == [state |-> "open", age |-> 0]

\* A closed breaker opens at the threshold, any other opens anew.
Trip(c) ==
    /\ At(c, "trip")
    /\ data' = IF seen[c].state = "closed" /\ counted[c] < Threshold
               THEN data ELSE Reopened
    /\ GoesTo(c, "idle") /\ Forgets(c)
    /\ counted' = [counted EXCEPT ![c] = 0]
    /\ UNCHANGED <<failures, probe>>

FailureSteps(c) == Count(c) \/ Expire(c) \/ Reread(c) \/ Trip(c)

-----------------------------------------------------------------------------
(* record_success: only a half-open breaker closes.                         *)

Confirm(c) ==
    /\ At(c, "confirm")
    /\ GoesTo(c, IF data.state = "half_open" THEN "close" ELSE "idle")
    /\ UNCHANGED <<data, failures, probe, seen, counted>>

CloseBreaker(c) ==
    /\ At(c, "close")
    /\ data' = ClosedState /\ failures' = NoFailures /\ probe' = 0
    /\ GoesTo(c, "idle")
    /\ UNCHANGED <<seen, counted>>

SuccessSteps(c) == Confirm(c) \/ CloseBreaker(c)

Leaves(c) ==
    /\ GoesTo(c, "idle") /\ Forgets(c)
    /\ counted' = [counted EXCEPT ![c] = 0]
    /\ UNCHANGED <<data, failures, probe>>

\* A command fails and the rest is passed over: after INCR this leaves the
\* counter with the expiry it had, or with none.
RecordLost(c) == place[c] \in RecordPlaces /\ Leaves(c)

=============================================================================
