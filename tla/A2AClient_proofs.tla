-------------------------- MODULE A2AClient_proofs --------------------------
(***************************************************************************)
(* Proofs about the A2A client and its circuit breaker, for any number of  *)
(* callers and any limits: the type of the state, and that the failure     *)
(* counter forgets what is older than its window.                          *)
(***************************************************************************)
EXTENDS A2AClient, FiniteSetTheorems, TLAPS

(* The callers that have counted a failure and not yet set its expiry.      *)
Pending == {c \in Callers : At(c, "expire")}

(* A counter that runs out does so before its history is a window old; one  *)
(* without an expiry holds nothing but what is pending or was lost.         *)
WindowInv ==
  /\ failures.ttl > 0 => failures.ttl + recent.idle <= Window
  /\ failures.ttl = 0 => failures.n <= Cardinality(Pending) + recent.lost
  /\ OldFailuresForgotten

CounterInv == A2ATypeOK /\ WindowInv

-----------------------------------------------------------------------------
(* The type of the state.                                                   *)

Places == CheckPlaces \cup RecordPlaces \cup RequestPlaces

LEMMA AllPlaces ==
  {"check", "halve", "probe", "count", "expire", "reread", "trip", "confirm", "close", "idle",
   "admitted", "probing", "await", "probe_await"} = Places
BY DEF Places, CheckPlaces, RecordPlaces, RequestPlaces

(* The steps of the breaker.                                                *)
BreakerStep(c) ==
  \/ CheckSteps(c) \/ FailureSteps(c) \/ SuccessSteps(c) \/ FailOpen(c) \/ RecordLost(c)

LEMMA BreakerTypes ==
  ASSUME BreakerTypeOK, NEW c \in Callers, BreakerStep(c)
  PROVE  BreakerTypeOK'
PROOF
  <1> USE DEF BreakerTypeOK, GoesTo, At
  <1>0. /\ Threshold \in Nat \ {0} /\ Window \in Nat \ {0} /\ OpenFor \in Nat \ {0}
        /\ ProbeTTL \in Nat \ {0}
    BY A2AAssumption
  <1>1. ASSUME NEW to \in Places
        PROVE  [place EXCEPT ![c] = to] \in [Callers -> CheckPlaces \cup RecordPlaces \cup RequestPlaces]
    BY <1>1 DEF Places
  <1>2. /\ ClosedState \in [state : {"closed", "open", "half_open"}, age : 0..OpenFor]
        /\ Reopened \in [state : {"closed", "open", "half_open"}, age : 0..OpenFor]
        /\ NoFailures \in [n : 0..Threshold, ttl : 0..Window]
    BY <1>0 DEF ClosedState, Reopened, NoFailures
  <1>3. CASE CheckBreaker(c) \/ Halve(c) \/ TakeProbe(c)
    BY <1>0, <1>1, <1>2, <1>3, AllPlaces DEF CheckBreaker, Halve, TakeProbe, Reads, Forgets
  <1>4. CASE Count(c)
    <2>1. /\ failures' = [failures EXCEPT !.n = IF @ = Threshold THEN @ ELSE @ + 1]
          /\ counted' = [counted EXCEPT ![c] = failures'.n]
          /\ place' = [place EXCEPT ![c] = "expire"] /\ UNCHANGED <<data, probe, seen>>
      BY <1>4 DEF Count
    <2>2. failures' \in [n : 0..Threshold, ttl : 0..Window]
      BY <2>1, <1>0
    <2> QED
      BY <2>1, <2>2, <1>1, AllPlaces
  <1>5. CASE Expire(c)
    BY <1>0, <1>1, <1>5, AllPlaces DEF Expire
  <1>6. CASE Reread(c) \/ Trip(c)
    BY <1>0, <1>1, <1>2, <1>6, AllPlaces DEF Reread, Trip, Reads, Forgets
  <1>7. CASE Confirm(c) \/ CloseBreaker(c)
    BY <1>0, <1>1, <1>2, <1>7, AllPlaces DEF Confirm, CloseBreaker
  <1>8. CASE FailOpen(c)
    BY <1>1, <1>2, <1>8, AllPlaces DEF FailOpen, Forgets
  <1>9. CASE RecordLost(c)
    <2>1. /\ [place EXCEPT ![c] = "idle"] \in [Callers -> CheckPlaces \cup RecordPlaces \cup RequestPlaces]
          /\ [seen EXCEPT ![c] = ClosedState] \in [Callers -> [state : {"closed", "open", "half_open"}, age : 0..OpenFor]]
          /\ [counted EXCEPT ![c] = 0] \in [Callers -> 0..Threshold]
      BY <1>0, <1>1, <1>2, AllPlaces
    <2> QED
      BY <1>9, <2>1 DEF RecordLost, Leaves, Forgets
  <1> QED
    BY <1>3, <1>4, <1>5, <1>6, <1>7, <1>8, <1>9
       DEF BreakerStep, CheckSteps, FailureSteps, SuccessSteps

(* The steps of a request beside the breaker move its caller only.          *)
RequestStep(c) ==
  \/ Send(c) \/ SendWithRetry(c) \/ InsertRequest(c) \/ Respond(c) \/ Receive(c) \/ TimesOut(c)
  \/ InsertFails(c) \/ PollFails(c)

LEMMA RequestTypes ==
  ASSUME A2ATypeOK, NEW c \in Callers, RequestStep(c)
  PROVE  /\ A2ATypeOK' /\ UNCHANGED <<failures, recent>>
         /\ \/ place' = place
            \/ /\ place[c] # "expire"
               /\ \E to \in Places \ {"expire"} : place' = [place EXCEPT ![c] = to]
PROOF
  <1>1. Timeout \in Nat \ {0}
    BY A2AAssumption
  <1>2. UNCHANGED <<failures, recent, data, probe, seen, counted>>
    BY DEF RequestStep, Send, SendWithRetry, InsertRequest, Respond, Receive, TimesOut, InsertFails,
           PollFails, breakerVars, clientVars
  <1>3. /\ request' \in [Callers -> {"none", "request", "retried"}]
        /\ answer' \in [Callers -> {"none", "addressed", "unknown"}]
        /\ waited' \in [Callers -> 0..Timeout]
    BY <1>1 DEF RequestStep, Send, SendWithRetry, InsertRequest, Respond, Receive, TimesOut, InsertFails,
           PollFails, breakerVars, clientVars, Inserted, Over, A2ATypeOK
  <1>4. \/ place' = place
        \/ /\ place[c] # "expire"
           /\ \E to \in Places \ {"expire"} : place' = [place EXCEPT ![c] = to]
    <2>1. CASE Respond(c)
      BY <2>1 DEF Respond, breakerVars
    <2>2. CASE Send(c) \/ SendWithRetry(c) \/ InsertRequest(c)
      BY <2>2, AllPlaces DEF Send, SendWithRetry, InsertRequest, GoesTo, At
    <2>3. CASE Receive(c) \/ TimesOut(c) \/ InsertFails(c) \/ PollFails(c)
      BY <2>3, AllPlaces DEF Receive, TimesOut, InsertFails, PollFails, GoesTo, Waiting
    <2> QED
      BY <2>1, <2>2, <2>3 DEF RequestStep
  <1>5. place' \in [Callers -> CheckPlaces \cup RecordPlaces \cup RequestPlaces]
    BY <1>4 DEF A2ATypeOK, BreakerTypeOK, Places
  <1> QED
    BY <1>2, <1>3, <1>4, <1>5 DEF A2ATypeOK, BreakerTypeOK

LEMMA TickTypes ==
  ASSUME A2ATypeOK, Tick
  PROVE  A2ATypeOK'
PROOF
  <1>0. /\ Threshold \in Nat \ {0} /\ Window \in Nat \ {0} /\ OpenFor \in Nat \ {0}
        /\ ProbeTTL \in Nat \ {0} /\ Timeout \in Nat \ {0}
    BY A2AAssumption
  <1>1. data' \in [state : {"closed", "open", "half_open"}, age : 0..OpenFor]
    <2>1. /\ data \in [state : {"closed", "open", "half_open"}, age : 0..OpenFor]
          /\ \/ data' = [data EXCEPT !.age = data.age]
             \/ data.age # OpenFor /\ data' = [data EXCEPT !.age = data.age + 1]
      BY DEF A2ATypeOK, BreakerTypeOK, Tick, KeysAge
    <2> QED
      BY <2>1, <1>0
  <1>2. failures' \in [n : 0..Threshold, ttl : 0..Window]
    <2>1. /\ failures \in [n : 0..Threshold, ttl : 0..Window]
          /\ \/ failures' = failures \/ failures' = [n |-> 0, ttl |-> 0]
             \/ failures.ttl # 0 /\ failures' = [failures EXCEPT !.ttl = failures.ttl - 1]
      BY DEF A2ATypeOK, BreakerTypeOK, Tick, KeysAge, NoFailures
    <2> QED
      BY <2>1, <1>0
  <1>3. probe' \in 0..ProbeTTL
    <2>1. probe \in 0..ProbeTTL /\ probe' = IF probe = 0 THEN 0 ELSE probe - 1
      BY DEF A2ATypeOK, BreakerTypeOK, Tick, KeysAge, ProbeLeft
    <2> QED
      BY <2>1, <1>0
  <1>4. waited' \in [Callers -> 0..Timeout]
    BY <1>0 DEF A2ATypeOK, Tick
  <1>5. recent' \in [n : 0..Threshold, idle : 0..Window, lost : 0..Threshold]
    BY <1>0 DEF A2ATypeOK, Tick, StillLost
  <1> QED
    BY <1>1, <1>2, <1>3, <1>4, <1>5 DEF A2ATypeOK, BreakerTypeOK, Tick

(* A caller whose process ends, or whose next command fails, leaves what it *)
(* did to the keys.                                                         *)
LeaveStep(c) == Dies(c) \/ (RecordLost(c) /\ Loses(c) /\ UNCHANGED <<request, answer, waited>>)

LEMMA LeaveTypes ==
  ASSUME A2ATypeOK, NEW c \in Callers, LeaveStep(c)
  PROVE  /\ A2ATypeOK' /\ failures' = failures /\ Loses(c)
         /\ place' = [place EXCEPT ![c] = "idle"]
PROOF
  <1>1. Leaves(c) /\ Loses(c)
    BY DEF LeaveStep, Dies, RecordLost
  <1>2. ClosedState \in [state : {"closed", "open", "half_open"}, age : 0..OpenFor]
    BY A2AAssumption DEF ClosedState
  <1>3. /\ place' = [place EXCEPT ![c] = "idle"] /\ UNCHANGED <<data, failures, probe>>
        /\ seen' = [seen EXCEPT ![c] = ClosedState] /\ counted' = [counted EXCEPT ![c] = 0]
    BY <1>1 DEF Leaves, GoesTo, Forgets
  <1>4. BreakerTypeOK'
    BY <1>2, <1>3, A2AAssumption DEF A2ATypeOK, BreakerTypeOK, RequestPlaces
  <1>5. /\ request' \in [Callers -> {"none", "request", "retried"}]
        /\ answer' \in [Callers -> {"none", "addressed", "unknown"}]
        /\ waited' \in [Callers -> 0..Timeout]
    BY A2AAssumption DEF LeaveStep, Dies, Over, A2ATypeOK
  <1>6. recent' \in [n : 0..Threshold, idle : 0..Window, lost : 0..Threshold]
    BY <1>1, A2AAssumption DEF Loses, OneMore, A2ATypeOK
  <1> QED
    BY <1>1, <1>3, <1>4, <1>5, <1>6 DEF A2ATypeOK

LEMMA NextCases ==
  ASSUME [Next]_vars
  PROVE  \/ Tick \/ UNCHANGED vars
         \/ \E c \in Callers :
              \/ RequestStep(c)
              \/ BreakerSteps(c)
              \/ FailOpen(c) /\ UNCHANGED clientVars
              \/ LeaveStep(c)
              \/ Failing(c)
BY DEF Next, RequestStep, Outage, LeaveStep

LEMMA TypesStep ==
  ASSUME A2ATypeOK, [Next]_vars
  PROVE  A2ATypeOK'
PROOF
  <1>1. ASSUME NEW c \in Callers, BreakerSteps(c) \/ (FailOpen(c) /\ UNCHANGED clientVars)
        PROVE  A2ATypeOK'
    <2>1. BreakerTypeOK'
      BY <1>1, BreakerTypes DEF BreakerStep, BreakerSteps, A2ATypeOK
    <2>2. recent' \in [n : 0..Threshold, idle : 0..Window, lost : 0..Threshold]
      BY <1>1, A2AAssumption DEF BreakerSteps, StillLost, A2ATypeOK, clientVars
    <2> QED
      BY <1>1, <2>1, <2>2 DEF BreakerSteps, A2ATypeOK, clientVars
  <1>2. ASSUME NEW c \in Callers, Failing(c) PROVE A2ATypeOK'
    <2>1. BreakerTypeOK'
      BY <1>2, BreakerTypes DEF Failing, BreakerStep, A2ATypeOK
    <2>2. recent' \in [n : 0..Threshold, idle : 0..Window, lost : 0..Threshold]
      <3>1. Threshold \in Nat /\ Window \in Nat /\ recent.n \in 0..Threshold
        BY A2AAssumption DEF A2ATypeOK
      <3>2. OneMore(recent.n) \in 0..Threshold /\ 0 \in 0..Window
        BY <3>1 DEF OneMore
      <3>3. recent' = recent \/ recent' = [recent EXCEPT !.n = OneMore(recent.n), !.idle = 0]
        BY <1>2 DEF Failing
      <3> QED
        BY <3>2, <3>3 DEF A2ATypeOK
    <2> QED
      BY <1>2, <2>1, <2>2 DEF Failing, A2ATypeOK
  <1>3. CASE UNCHANGED vars
    BY <1>3 DEF vars, breakerVars, clientVars, A2ATypeOK, BreakerTypeOK
  <1> QED
    BY <1>1, <1>2, <1>3, NextCases, RequestTypes, LeaveTypes, TickTypes

(* Keys, rows, places and the history keep their types, in any order of the *)
(* callers' reads and writes, timeouts, dead callers and outages.           *)
THEOREM A2ATypes == Spec => []A2ATypeOK
PROOF
  <1>1. Init => A2ATypeOK
    BY A2AAssumption
       DEF Init, BreakerInit, A2ATypeOK, BreakerTypeOK, ClosedState, NoFailures, RequestPlaces
  <1> QED
    BY <1>1, TypesStep, PTL DEF Spec

-----------------------------------------------------------------------------
(* The failure counter.                                                     *)

(* How a move of one caller changes the number of those that are pending.   *)
LEMMA PendingMoves ==
  ASSUME A2ATypeOK, NEW c \in Callers, NEW to, place' = [place EXCEPT ![c] = to]
  PROVE  /\ Cardinality(Pending) \in Nat /\ Cardinality(Pending') \in Nat
         /\ place[c] # "expire" /\ to # "expire" => Pending' = Pending
         /\ place[c] # "expire" /\ to = "expire" =>
               Cardinality(Pending') = Cardinality(Pending) + 1
         /\ place[c] = "expire" /\ to # "expire" =>
               Cardinality(Pending') = Cardinality(Pending) - 1
PROOF
  <1>1. IsFiniteSet(Callers) /\ Pending \subseteq Callers /\ Pending' \subseteq Callers
    BY A2AAssumption DEF Pending
  <1>2. /\ IsFiniteSet(Pending) /\ IsFiniteSet(Pending')
        /\ Cardinality(Pending) \in Nat /\ Cardinality(Pending') \in Nat
    BY <1>1, FS_Subset, FS_CardinalityType
  <1>3. \A x \in Callers : place'[x] = IF x = c THEN to ELSE place[x]
    BY DEF A2ATypeOK, BreakerTypeOK
  <1>4. place[c] # "expire" /\ to # "expire" => Pending' = Pending
    BY <1>3 DEF Pending, At
  <1>5. ASSUME place[c] # "expire", to = "expire"
        PROVE  Cardinality(Pending') = Cardinality(Pending) + 1
    <2>1. Pending' = Pending \cup {c} /\ c \notin Pending
      BY <1>3, <1>5 DEF Pending, At
    <2> QED
      BY <1>2, <2>1, FS_AddElement
  <1>6. ASSUME place[c] = "expire", to # "expire"
        PROVE  Cardinality(Pending') = Cardinality(Pending) - 1
    <2>1. Pending' = Pending \ {c} /\ c \in Pending
      BY <1>3, <1>6 DEF Pending, At
    <2> QED
      BY <1>2, <2>1, FS_RemoveElement
  <1> QED
    BY <1>2, <1>4, <1>5, <1>6

(* A step that neither counts nor touches the counter and its history.      *)
LEMMA WindowKept ==
  ASSUME WindowInv, UNCHANGED <<failures, recent>>, Pending' = Pending
  PROVE  WindowInv'
PROOF
  <1>1. failures' = failures /\ recent' = recent /\ Cardinality(Pending') = Cardinality(Pending)
    OBVIOUS
  <1> QED
    BY <1>1 DEF WindowInv, OldFailuresForgotten, Pending

LEMMA WindowStep ==
  ASSUME CounterInv, [Next]_vars
  PROVE  WindowInv'
PROOF
  <1>1. /\ A2ATypeOK /\ WindowInv
        /\ failures \in [n : 0..Threshold, ttl : 0..Window]
        /\ recent \in [n : 0..Threshold, idle : 0..Window, lost : 0..Threshold]
        /\ Window \in Nat \ {0} /\ Threshold \in Nat \ {0}
    BY A2AAssumption DEF CounterInv, A2ATypeOK, BreakerTypeOK
  <1>2. /\ failures.ttl > 0 => failures.ttl + recent.idle <= Window
        /\ failures.ttl = 0 => failures.n <= Cardinality(Pending) + recent.lost
        /\ failures.n <= recent.n + Cardinality(Pending) + recent.lost
    BY <1>1 DEF WindowInv, OldFailuresForgotten, Pending
  <1>3. ASSUME /\ failures'.ttl > 0 => failures'.ttl + recent'.idle <= Window
               /\ failures'.ttl = 0 => failures'.n <= Cardinality(Pending') + recent'.lost
               /\ failures'.n <= recent'.n + Cardinality(Pending') + recent'.lost
        PROVE  WindowInv'
    BY <1>3 DEF WindowInv, OldFailuresForgotten, Pending
  <1>4. IsFiniteSet(Pending) /\ Cardinality(Pending) \in Nat
    <2>1. IsFiniteSet(Callers) /\ Pending \subseteq Callers
      BY A2AAssumption DEF Pending
    <2> QED
      BY <2>1, FS_Subset, FS_CardinalityType
  <1>5. CASE Tick
    <2>1. Pending' = Pending
      BY <1>5 DEF Tick, Pending, At
    <2>2. CASE recent.idle = Window
      <3>1. failures.ttl = 0
        BY <1>1, <1>2, <2>2
      <3>2. /\ failures' = failures
            /\ recent' = [n |-> 0, idle |-> Window, lost |-> IF failures = NoFailures THEN 0 ELSE recent.lost]
        BY <1>5, <2>2, <3>1 DEF Tick, KeysAge, StillLost
      <3>3. recent'.n = 0 /\ recent'.lost = IF failures = NoFailures THEN 0 ELSE recent.lost
        BY <3>2
      <3>4. failures = NoFailures => failures.n = 0
        BY DEF NoFailures
      <3> QED
        BY <1>1, <1>2, <1>3, <1>4, <2>1, <3>1, <3>2, <3>3, <3>4
    <2>3. CASE recent.idle # Window
      <3>1. /\ recent'.n = recent.n /\ recent'.idle = recent.idle + 1
            /\ recent'.lost = IF failures' = [n |-> 0, ttl |-> 0] THEN 0 ELSE recent.lost
        BY <1>5, <2>3 DEF Tick, StillLost, NoFailures
      <3>2. \/ failures' = failures /\ failures.ttl = 0
            \/ failures' = [n |-> 0, ttl |-> 0]
            \/ failures.ttl # 0 /\ failures' = [failures EXCEPT !.ttl = failures.ttl - 1]
        BY <1>5 DEF Tick, KeysAge, NoFailures
      <3>3. /\ failures'.ttl > 0 => failures'.ttl + recent'.idle <= Window
            /\ failures'.ttl = 0 => failures'.n <= Cardinality(Pending) + recent'.lost
            /\ failures'.n <= recent'.n + Cardinality(Pending) + recent'.lost
        <4>1. CASE failures' = failures /\ failures.ttl = 0
          BY <1>1, <1>2, <1>4, <3>1, <4>1
        <4>2. CASE failures' = [n |-> 0, ttl |-> 0]
          BY <1>1, <1>4, <3>1, <4>2
        <4>3. CASE failures.ttl # 0 /\ failures' = [failures EXCEPT !.ttl = failures.ttl - 1]
                   /\ ~ failures' = [n |-> 0, ttl |-> 0]
          <5>1. failures.ttl # 1
            BY <1>5, <4>3 DEF Tick, KeysAge, NoFailures
          <5> QED
            BY <1>1, <1>2, <1>4, <3>1, <4>3, <5>1
        <4> QED
          BY <3>2, <4>1, <4>2, <4>3
      <3> QED
        BY <1>3, <2>1, <3>3
    <2> QED
      BY <2>2, <2>3
  <1>6. CASE UNCHANGED vars
    BY <1>1, <1>6, WindowKept DEF vars, breakerVars, clientVars, Pending, At
  <1>7. ASSUME NEW c \in Callers, RequestStep(c) PROVE WindowInv'
    <2>1. UNCHANGED <<failures, recent>> /\ Pending' = Pending
      <3>1. CASE place' = place
        BY <1>1, <1>7, <3>1, RequestTypes DEF Pending, At
      <3>2. CASE place' # place
        BY <1>1, <1>7, <3>2, RequestTypes, PendingMoves
      <3> QED
        BY <3>1, <3>2
    <2> QED
      BY <1>1, <2>1, WindowKept
  <1>8. ASSUME NEW c \in Callers, recent' = recent \/ recent' = [recent EXCEPT !.lost = StillLost],
               CheckBreaker(c) \/ Halve(c) \/ TakeProbe(c) \/ Confirm(c) \/ FailOpen(c)
        PROVE  WindowInv'
    <2>1. failures' = failures
      BY <1>8 DEF CheckBreaker, Halve, TakeProbe, Confirm, FailOpen
    <2>4. /\ recent'.n = recent.n /\ recent'.idle = recent.idle
          /\ recent'.lost = recent.lost \/ (failures.n = 0 /\ recent'.lost = 0)
      BY <1>1, <1>8, <2>1 DEF StillLost, NoFailures
    <2>2. place[c] # "expire" /\ \E to : to # "expire" /\ place' = [place EXCEPT ![c] = to]
      <3>1. CASE CheckBreaker(c)
        BY <3>1 DEF CheckBreaker, At, GoesTo
      <3>2. CASE Halve(c)
        BY <3>2 DEF Halve, At, GoesTo
      <3>3. CASE TakeProbe(c)
        BY <3>3 DEF TakeProbe, At, GoesTo
      <3>4. CASE Confirm(c)
        BY <3>4 DEF Confirm, At, GoesTo
      <3>5. CASE FailOpen(c)
        BY <3>5 DEF FailOpen, GoesTo, CheckPlaces
      <3> QED
        BY <1>8, <3>1, <3>2, <3>3, <3>4, <3>5
    <2>3. Pending' = Pending
      BY <1>1, <2>2, PendingMoves
    <2> QED
      BY <1>1, <1>2, <1>3, <1>4, <2>1, <2>3, <2>4
  <1>13. ASSUME NEW c \in Callers, LeaveStep(c)
         PROVE  WindowInv'
    <2>1. failures' = failures /\ Loses(c) /\ place' = [place EXCEPT ![c] = "idle"] /\ "idle" # "expire"
      BY <1>1, <1>13, LeaveTypes
    <2>2. CASE At(c, "expire")
      <3>1. Cardinality(Pending') = Cardinality(Pending) - 1 /\ Cardinality(Pending') \in Nat
        BY <1>1, <2>1, <2>2, PendingMoves DEF At
      <3>2. /\ recent'.n = recent.n /\ recent'.idle = recent.idle
            /\ recent'.lost = IF failures.n > 0 /\ recent.lost < Threshold THEN recent.lost + 1 ELSE recent.lost
        BY <1>1, <2>1, <2>2 DEF Loses, OneMore
      <3> QED
        BY <1>1, <1>2, <1>3, <1>4, <2>1, <3>1, <3>2
    <2>3. CASE ~At(c, "expire")
      <3>1. Pending' = Pending
        BY <1>1, <2>1, <2>3, PendingMoves DEF At
      <3> QED
        BY <1>1, <2>1, <2>3, <3>1, WindowKept DEF Loses
    <2> QED
      BY <2>2, <2>3
  <1>9. ASSUME NEW c \in Callers, recent' = [recent EXCEPT !.lost = StillLost], CloseBreaker(c)
        PROVE  WindowInv'
    <2>1. /\ failures' = [n |-> 0, ttl |-> 0] /\ recent'.lost = 0 /\ recent'.n = recent.n
          /\ place[c] = "close" /\ place' = [place EXCEPT ![c] = "idle"]
      BY <1>1, <1>9 DEF CloseBreaker, NoFailures, StillLost, At, GoesTo
    <2>2. Pending' = Pending
      BY <1>1, <2>1, PendingMoves
    <2> QED
      BY <1>1, <1>3, <1>4, <2>1, <2>2
  <1>10. ASSUME NEW c \in Callers, Failing(c), Count(c)
         PROVE  WindowInv'
    <2>1. /\ place[c] = "count" /\ place' = [place EXCEPT ![c] = "expire"] /\ recent' = recent
          /\ \/ failures' = [failures EXCEPT !.n = failures.n]
             \/ failures' = [failures EXCEPT !.n = failures.n + 1]
      BY <1>10 DEF Count, Failing, At, GoesTo
    <2>2. Cardinality(Pending') = Cardinality(Pending) + 1
      BY <1>1, <2>1, PendingMoves
    <2> QED
      BY <1>1, <1>2, <1>3, <1>4, <2>1, <2>2
  <1>11. ASSUME NEW c \in Callers, Failing(c), Expire(c)
         PROVE  WindowInv'
    <2>1. /\ place[c] = "expire" /\ place' = [place EXCEPT ![c] = "reread"]
          /\ failures' = IF failures.n = 0 THEN failures ELSE [failures EXCEPT !.ttl = Window]
          /\ recent' = IF failures.n > 0
                       THEN [recent EXCEPT !.n = IF recent.n = Threshold THEN Threshold ELSE recent.n + 1,
                                           !.idle = 0]
                       ELSE recent
      BY <1>11 DEF Expire, Failing, OneMore, At, GoesTo
    <2>2. /\ Cardinality(Pending') = Cardinality(Pending) - 1
          /\ Cardinality(Pending') \in Nat
      <3>1. "reread" # "expire"
        OBVIOUS
      <3>2. Cardinality(Pending') = Cardinality(Pending) - 1
        BY <1>1, <2>1, <3>1, PendingMoves
      <3>3. Cardinality(Pending') \in Nat
        BY <1>1, <2>1, PendingMoves
      <3> QED
        BY <3>2, <3>3
    <2>3. CASE failures.n = 0
      <3>1. failures' = failures /\ recent' = recent
        BY <1>1, <2>1, <2>3
      <3> QED
        BY <1>1, <1>2, <1>3, <2>2, <2>3, <3>1
    <2>4. CASE failures.n # 0
      <3>1. /\ failures' = [failures EXCEPT !.ttl = Window]
            /\ recent' = [recent EXCEPT !.n = IF recent.n = Threshold THEN Threshold ELSE recent.n + 1,
                                        !.idle = 0]
        BY <1>1, <2>1, <2>4
      <3>2. /\ failures'.ttl = Window /\ failures'.n = failures.n /\ recent'.idle = 0
            /\ recent'.lost = recent.lost
            /\ recent'.n = IF recent.n = Threshold THEN Threshold ELSE recent.n + 1
        BY <1>1, <3>1
      <3> QED
        BY <1>1, <1>2, <1>3, <1>4, <2>2, <3>2
    <2> QED
      BY <2>3, <2>4
  <1>12. ASSUME NEW c \in Callers, Failing(c), Reread(c) \/ Trip(c)
         PROVE  WindowInv'
    <2>1. place[c] \in {"reread", "trip"} /\ recent' = recent /\ failures' = failures
      BY <1>12 DEF Reread, Trip, Failing, At
    <2>2. \E to \in {"trip", "idle"} : place' = [place EXCEPT ![c] = to]
      BY <1>12 DEF Reread, Trip, GoesTo
    <2>3. Pending' = Pending
      BY <1>1, <2>1, <2>2, PendingMoves
    <2> QED
      BY <1>1, <2>1, <2>3, WindowKept
  <1> QED
    BY <1>5, <1>6, <1>7, <1>8, <1>9, <1>10, <1>11, <1>12, <1>13, NextCases
       DEF Failing, FailureSteps, BreakerSteps, CheckSteps, SuccessSteps, clientVars

LEMMA CounterBegins == Init => CounterInv
<1> SUFFICES ASSUME Init
             PROVE  CounterInv
  OBVIOUS
<1>1. A2ATypeOK
  BY A2AAssumption
     DEF Init, BreakerInit, A2ATypeOK, BreakerTypeOK, ClosedState, NoFailures, RequestPlaces
<1>2. Pending = {} /\ failures = [n |-> 0, ttl |-> 0] /\ recent = [n |-> 0, idle |-> 0, lost |-> 0]
  BY DEF Init, BreakerInit, Pending, At, NoFailures
<1>3. Cardinality(Pending) = 0
  BY <1>2, FS_EmptySet
<1>4. WindowInv
  BY <1>2, <1>3 DEF WindowInv, OldFailuresForgotten, Pending
<1> QED
  BY <1>1, <1>4 DEF CounterInv

LEMMA CounterKeeps == CounterInv /\ [Next]_vars => CounterInv'
BY WindowStep, TypesStep DEF CounterInv

(* The failure counter of a pair of agents holds no failure that a window   *)
(* without one follows, but those whose EXPIRE is still to come or never    *)
(* came (a2a_breaker.py:145-146, 179-180): however INCR and EXPIRE of any   *)
(* number of callers interleave, fail or are cut off, and whatever resets   *)
(* the keys in between, each lost EXPIRE accounts for one old failure.      *)
THEOREM FailuresForgotten == Spec => []OldFailuresForgotten
PROOF
  <1>1. CounterInv => OldFailuresForgotten
    BY DEF CounterInv, WindowInv
  <1> QED
    BY CounterBegins, CounterKeeps, <1>1, PTL DEF Spec
=============================================================================
