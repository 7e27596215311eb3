------------------------------ MODULE A2AClient ------------------------------
(***************************************************************************)
(* Requests from one agent to another over the table a2a_messages          *)
(* (src/services/a2a_client.py), guarded by the breaker of the pair. Several*)
(* callers send, wait and record the outcome as the docstrings of          *)
(* record_a2a_failure and record_a2a_success ask. Of the table the model   *)
(* keeps what each caller waits for: its last request and the answer to it.*)
(***************************************************************************)
EXTENDS A2ABreaker

VARIABLES
    request,    \* the row of each caller's request: its kind
    answer,     \* the response row to it, and whether it names the asker
    waited,     \* the units since the request
    recent      \* history: failures counted without a gap of a window, and those
                \* in the counter whose EXPIRE never came

clientVars == <<request, answer, waited, recent>>
vars == <<breakerVars, clientVars>>

(* The type of the state. *)
A2ATypeOK ==
    /\ BreakerTypeOK
    /\ request \in [Callers -> {"none", "request", "retried"}]
    /\ answer \in [Callers -> {"none", "addressed", "unknown"}]
    /\ waited \in [Callers -> 0..Timeout]
    /\ recent \in [n : 0..Threshold, idle : 0..Window, lost : 0..Threshold]

Init ==
    /\ BreakerInit
    /\ request = [c \in Callers |-> "none"] /\ answer = [c \in Callers |-> "none"]
    /\ waited = [c \in Callers |-> 0] /\ recent = [n |-> 0, idle |-> 0, lost |-> 0]

Waiting(c) == place[c] \in {"await", "probe_await"}

-----------------------------------------------------------------------------
(* send_request. Payload and capability are checked before the breaker; a   *)
(* refusal by either leaves everything as it is.                            *)

Send(c) ==
    /\ At(c, "idle") /\ GoesTo(c, "check")
    /\ UNCHANGED <<data, failures, probe, seen, counted, clientVars>>

\* The row of the request, and the wait for its answer.
Inserted(c, kind) ==
    /\ request' = [request EXCEPT ![c] = kind]
    /\ answer' = [answer EXCEPT ![c] = "none"]
    /\ waited' = [waited EXCEPT ![c] = 0]

InsertRequest(c) ==
    /\ place[c] \in {"admitted", "probing"}
    /\ Inserted(c, "request")
    /\ GoesTo(c, IF At(c, "probing") THEN "probe_await" ELSE "await")
    /\ UNCHANGED <<data, failures, probe, seen, counted, recent>>

\* The first attempt of send_request_with_retry asks no breaker, writes a row
\* of kind retried and returns its id.
SendWithRetry(c) ==
    /\ At(c, "idle")
    /\ Inserted(c, "retried") /\ GoesTo(c, "await")
    /\ UNCHANGED <<data, failures, probe, seen, counted, recent>>

\* PostgreSQL is not there: the caller gets an exception of the driver.
InsertFails(c) ==
    /\ place[c] \in {"admitted", "probing"} /\ GoesTo(c, "idle")
    /\ UNCHANGED <<data, failures, probe, seen, counted, clientVars>>

-----------------------------------------------------------------------------
(* send_response by the target, and await_response.                         *)

\* The response is turned round if the parent is a row of kind request.
Respond(c) ==
    /\ Waiting(c) /\ answer[c] = "none"
    /\ answer' = [answer EXCEPT ![c] = IF request[c] = "request" THEN "addressed" ELSE "unknown"]
    /\ UNCHANGED <<breakerVars, request, waited, recent>>

\* The call is over; the rows are of no more use to the caller.
Over(c) ==
    /\ request' = [request EXCEPT ![c] = "none"]
    /\ answer' = [answer EXCEPT ![c] = "none"]
    /\ waited' = [waited EXCEPT ![c] = 0]

Receive(c) ==
    /\ Waiting(c) /\ answer[c] # "none" /\ waited[c] < Timeout
    /\ GoesTo(c, "confirm") /\ Over(c)
    /\ UNCHANGED <<data, failures, probe, seen, counted, recent>>

\* The deadline passes, also for an answer that came in during the last sleep.
TimesOut(c) ==
    /\ Waiting(c) /\ waited[c] = Timeout
    /\ GoesTo(c, "count") /\ Over(c)
    /\ UNCHANGED <<data, failures, probe, seen, counted, recent>>

\* PostgreSQL fails while the caller polls: agent_unavailable, a failure too.
PollFails(c) ==
    /\ Waiting(c)
    /\ GoesTo(c, "count") /\ Over(c)
    /\ UNCHANGED <<data, failures, probe, seen, counted, recent>>

\* What the history makes of a caller that leaves: one more in the counter
\* without its EXPIRE, if it was between the two.
OneMore(n) == IF n = Threshold THEN Threshold ELSE n + 1
Loses(c) ==
    recent' = IF At(c, "expire") /\ failures.n > 0 THEN [recent EXCEPT !.lost = OneMore(@)] ELSE recent

\* The caller's process ends, wherever it is.
Dies(c) ==
    /\ ~At(c, "idle") /\ Leaves(c)
    /\ Over(c) /\ Loses(c)

-----------------------------------------------------------------------------
\* With the counter goes what was lost in it.
StillLost == IF failures' = NoFailures THEN 0 ELSE recent.lost

Tick ==
    /\ KeysAge
    /\ waited' = [c \in Callers |-> IF Waiting(c) /\ waited[c] < Timeout THEN waited[c] + 1 ELSE waited[c]]
    /\ recent' = [n |-> IF recent.idle = Window THEN 0 ELSE recent.n,
                  idle |-> IF recent.idle = Window THEN Window ELSE recent.idle + 1,
                  lost |-> StillLost]
    /\ UNCHANGED <<place, seen, counted, request, answer>>

\* record_a2a_failure, with the history of the counted failures.
Failing(c) ==
    /\ FailureSteps(c)
    /\ recent' = IF At(c, "expire") /\ failures.n > 0
                 THEN [recent EXCEPT !.n = OneMore(@), !.idle = 0]
                 ELSE recent
    /\ UNCHANGED <<request, answer, waited>>

BreakerSteps(c) ==
    /\ CheckSteps(c) \/ SuccessSteps(c)
    /\ recent' = [recent EXCEPT !.lost = StillLost]
    /\ UNCHANGED <<request, answer, waited>>
Outage(c) ==
    \/ FailOpen(c) /\ UNCHANGED clientVars
    \/ RecordLost(c) /\ Loses(c) /\ UNCHANGED <<request, answer, waited>>
    \/ InsertFails(c) \/ PollFails(c) \/ Dies(c)

Next ==
    \/ Tick
    \/ \E c \in Callers :
        \/ Send(c) \/ SendWithRetry(c) \/ InsertRequest(c) \/ Respond(c) \/ Receive(c) \/ TimesOut(c)
        \/ BreakerSteps(c) \/ Failing(c) \/ Outage(c)

\* What a caller does on its own once it has sent.
Proceeds(c) == InsertRequest(c) \/ BreakerSteps(c) \/ Failing(c) \/ TimesOut(c)

Fairness ==
    /\ WF_vars(Tick)
    /\ SF_vars(\E c \in Callers : Send(c))
    /\ \A c \in Callers : WF_vars(Proceeds(c))

Spec == Init /\ [][Next]_vars /\ Fairness

-----------------------------------------------------------------------------
(* Properties                                                               *)

RunsLate(c) == Waiting(c) /\ waited[c] < Timeout /\ waited'[c] = Timeout

(* Whatever the callers did to the keys before, with reads and writes in any *)
(* order, probes whose callers died and outages of Valkey and PostgreSQL:    *)
(* once the target answers in time and the outages end, the breaker closes   *)
(* for good (a2a_breaker.py:5, OPEN -> HALF_OPEN -> CLOSED).  (A caller that  *)
(* is refused leaves no other trace than one that dies: such a step is none   *)
(* of the outages.)                                                           *)
TargetReconnects ==
    <>[][\A c \in Callers : (Outage(c) => Proceeds(c)) /\ ~RunsLate(c)]_vars
        => <>[](data = ClosedState)

(* The counter holds no failure that is followed by a window without one     *)
(* (BREAKER_WINDOW_S), but for those whose expiry is about to be set and      *)
(* those whose EXPIRE failed or was cut off by the caller's death after INCR. *)
(* Each of these is one failure too many, not the start of a counter that     *)
(* only grows, and the next failure that is counted whole takes it along.     *)
OldFailuresForgotten ==
    failures.n <= recent.n + Cardinality({c \in Callers : At(c, "expire")}) + recent.lost
=============================================================================
