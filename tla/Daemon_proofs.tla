---------------------------- MODULE Daemon_proofs ----------------------------
(***************************************************************************)
(* Proofs about what the daemon keeps going or up to date: it never loses  *)
(* the handle of a running RLM process while it serves, the retry file of  *)
(* the mirror keeps its bound and one entry for each task, and a rebuild   *)
(* of the code index stores what it built: for any number of processes,    *)
(* restarts, tasks, handlers, writes and requests.                         *)
(***************************************************************************)
EXTENDS MCDaemon, FiniteSetTheorems, WellFoundedInduction, TLAPS

-----------------------------------------------------------------------------
(* The services.                                                           *)

(* The main thread starts RLM before there is a watchdog, and the watchdog *)
(* is in _start_rlm only in the round that stopped the old process: at     *)
(* most one thread starts RLM, and the watchdog does so without a handle   *)
(* until it has launched the new process.                                  *)
OneStarter ==
    /\ start["main"] # "idle" => main = "start_rlm"
    /\ main \in {"off", "start_rlm"} => rlm.pc = "off"
    /\ start["watchdog"] # "idle" => rlm.pc = "start"
    /\ rlm.pc = "backoff" \/ start["watchdog"] \in {"probe", "await"} => handle = None

ServicesInv == ServicesTypeOK /\ OneStarter

(* What stops processes keeps the types of the processes and of the port.   *)
LEMMA EndedTypes ==
    ASSUME ServicesTypeOK, NEW P, Ended(P)
    PROVE  /\ proc' \in [Instances -> {"dead", "booting", "up", "hung"}]
           /\ port' \in Instances \cup {None, Closing}
           /\ \A p \in P \cap Instances : proc'[p] = "dead"
BY DEF ServicesTypeOK, Ended

(* The record of a watchdog loop.                                          *)
LEMMA LoopIs ==
    ASSUME NEW loop \in Loop
    PROVE  /\ loop = [pc |-> loop.pc, count |-> loop.count, uptime |-> loop.uptime]
           /\ loop.pc \in {"off", "check", "backoff", "start", "cooldown"}
           /\ loop.count \in 0..MaxRestarts /\ loop.uptime \in Uptimes
           /\ HasBudget(loop) => loop.count + 1 \in 0..MaxRestarts
           /\ 0 \in 0..MaxRestarts
BY ServicesAssumption DEF Loop, HasBudget

LEMMA ServicesBegin == Init => ServicesInv
PROOF
<1> SUFFICES ASSUME Init PROVE ServicesInv
  OBVIOUS
<1>1. Fresh \in Loop /\ Fresh.pc = "off"
  BY ServicesAssumption DEF Fresh, Loop, Uptimes
<1>2. ServicesTypeOK
  BY <1>1 DEF Init, ServicesTypeOK
<1> QED  BY <1>1, <1>2 DEF Init, ServicesInv, OneStarter, Threads

(* What processes do on their own leaves the threads alone.                *)
LEMMA ProcessesStep ==
    ASSUME ServicesInv, Boots \/ Crash \/ Hang \/ Thaw \/ StartedByHand \/ PortClears
    PROVE  ServicesInv'
PROOF
<1>1. UNCHANGED <<main, start, handle, rlm, redisVars>>
  BY DEF Boots, Crash, Hang, Thaw, StartedByHand, PortClears
<1>2. /\ proc' \in [Instances -> {"dead", "booting", "up", "hung"}]
      /\ port' \in Instances \cup {None, Closing}
  <2>1. CASE Boots
    BY <2>1 DEF Boots, ServicesInv, ServicesTypeOK, Instances
  <2>2. CASE Crash
    BY <2>2, EndedTypes DEF Crash, ServicesInv
  <2>3. CASE Hang \/ Thaw
    BY <2>3 DEF Hang, Thaw, ServicesInv, ServicesTypeOK
  <2>4. CASE StartedByHand
    BY <2>4 DEF StartedByHand, ServicesInv, ServicesTypeOK, Instances
  <2>5. CASE PortClears
    BY <2>5 DEF PortClears, ServicesInv, ServicesTypeOK
  <2> QED
    BY <2>1, <2>2, <2>3, <2>4, <2>5
<1> QED
  BY <1>1, <1>2 DEF ServicesInv, ServicesTypeOK, OneStarter, redisVars

(* The return of _start_rlm to the thread that called it.                   *)
LEMMA ReturnStep ==
    ASSUME ServicesInv, NEW t \in Threads, start[t] # "idle", NEW count \in 0..MaxRestarts,
           Returned(t), ReturnedTo(t, count), UNCHANGED <<handle, proc, port, redisVars>>
    PROVE  ServicesInv'
PROOF
<1>1. /\ rlm = [pc |-> rlm.pc, count |-> rlm.count, uptime |-> rlm.uptime]
      /\ rlm.uptime \in Uptimes /\ "none" \in Uptimes
  BY LoopIs DEF ServicesInv, ServicesTypeOK, Uptimes
<1>2. rlm' \in Loop /\ rlm'.pc = "check"
  BY <1>1 DEF ReturnedTo, Loop
<1>3. start' = [start EXCEPT ![t] = "idle"]
  BY DEF Returned
<1>4. CASE t = "main"
  <2>1. main = "start_rlm" /\ main' = "start_redis" /\ start["watchdog"] = "idle"
    BY <1>4 DEF ServicesInv, OneStarter, Returned
  <2> QED
    BY <1>2, <1>3, <1>4, <2>1
    DEF ServicesInv, ServicesTypeOK, OneStarter, Threads, redisVars
<1>5. CASE t = "watchdog"
  <2>1. main' = main /\ rlm.pc = "start"
    BY <1>5 DEF ServicesInv, OneStarter, Returned
  <2> QED
    BY <1>2, <1>3, <1>5, <2>1
    DEF ServicesInv, ServicesTypeOK, OneStarter, Threads, redisVars
<1> QED
  BY <1>4, <1>5 DEF Threads

(* _start_rlm in either thread.                                            *)
LEMMA StartStep ==
    ASSUME ServicesInv, NEW t \in Threads, Start(t) \/ ProbeKillsNobody(t)
    PROVE  ServicesInv'
PROOF
<1>1. rlm.count \in 0..MaxRestarts /\ 0 \in 0..MaxRestarts
  BY LoopIs DEF ServicesInv, ServicesTypeOK
<1>2. CASE LaunchFails(t) \/ StartSucceeds(t) \/ StartTimesOut(t)
  BY <1>1, <1>2, ReturnStep DEF LaunchFails, StartSucceeds, StartTimesOut
<1>3. CASE Probe(t) \/ ProbeKillsNobody(t)
  <2>1. /\ start[t] = "probe" /\ start' = [start EXCEPT ![t] = "await"]
        /\ UNCHANGED <<main, handle, rlm, redisVars>>
    BY <1>3 DEF Probe, ProbeKillsNobody
  <2>2. /\ proc' \in [Instances -> {"dead", "booting", "up", "hung"}]
        /\ port' \in Instances \cup {None, Closing}
    BY <1>3, EndedTypes DEF Probe, ProbeKillsNobody, ServicesInv, ServicesTypeOK
  <2> QED
    BY <2>1, <2>2 DEF ServicesInv, ServicesTypeOK, OneStarter, Threads, redisVars
<1>4. CASE Launch(t)
  <2>1. /\ start[t] = "await" /\ start' = [start EXCEPT ![t] = "health"]
        /\ UNCHANGED <<main, port, rlm, redisVars>>
    BY <1>4 DEF Launch
  <2>2. PICK p \in Procs : proc' = [proc EXCEPT ![p] = "booting"] /\ handle' = p
    BY <1>4 DEF Launch
  <2>3. ServicesTypeOK'
    BY <2>1, <2>2 DEF ServicesInv, ServicesTypeOK, redisVars
  <2>4. CASE t = "watchdog"
    BY <2>1, <2>3, <2>4 DEF ServicesInv, ServicesTypeOK, OneStarter, Threads
  <2>5. CASE t = "main"
    BY <2>1, <2>3, <2>5 DEF ServicesInv, ServicesTypeOK, OneStarter, Threads
  <2> QED
    BY <2>4, <2>5 DEF Threads
<1> QED
  BY <1>2, <1>3, <1>4 DEF Start

(* The rounds of the RLM watchdog.                                         *)
LEMMA WatchdogStep ==
    ASSUME ServicesInv,
           \/ WatchdogSeesHealth \/ WatchdogRestarts \/ WatchdogStarts
           \/ WatchdogGivesPause \/ CooldownEnds \/ RlmUptimePasses
    PROVE  ServicesInv'
PROOF
<1>1. /\ rlm = [pc |-> rlm.pc, count |-> rlm.count, uptime |-> rlm.uptime]
      /\ rlm.pc \in {"off", "check", "backoff", "start", "cooldown"}
      /\ rlm.count \in 0..MaxRestarts /\ rlm.uptime \in Uptimes
      /\ HasBudget(rlm) => rlm.count + 1 \in 0..MaxRestarts
      /\ 0 \in 0..MaxRestarts /\ {"none", "young", "old"} \subseteq Uptimes
  BY LoopIs DEF ServicesInv, ServicesTypeOK, Uptimes
<1>2. CASE WatchdogSeesHealth
  <2>1. rlm' \in Loop /\ rlm'.pc = rlm.pc
    BY <1>1, <1>2 DEF WatchdogSeesHealth, Loop
  <2> QED
    BY <1>2, <2>1
    DEF WatchdogSeesHealth, ServicesInv, ServicesTypeOK, OneStarter, redisVars
<1>3. CASE WatchdogRestarts
  <2>1. rlm' \in Loop /\ rlm'.pc = "backoff" /\ rlm.pc = "check"
    BY <1>1, <1>3 DEF WatchdogRestarts, Loop
  <2>2. /\ proc' \in [Instances -> {"dead", "booting", "up", "hung"}]
        /\ port' \in Instances \cup {None, Closing}
    BY <1>3, EndedTypes DEF WatchdogRestarts, ServicesInv
  <2> QED
    BY <1>3, <2>1, <2>2
    DEF WatchdogRestarts, ServicesInv, ServicesTypeOK, OneStarter, redisVars
<1>4. CASE WatchdogStarts
  <2>1. rlm' \in Loop /\ rlm'.pc = "start" /\ rlm.pc = "backoff"
    BY <1>1, <1>4 DEF WatchdogStarts, Loop
  <2> QED
    BY <1>4, <2>1
    DEF WatchdogStarts, ServicesInv, ServicesTypeOK, OneStarter, Threads, redisVars
<1>5. CASE WatchdogGivesPause \/ CooldownEnds
  <2>1. /\ rlm' \in Loop /\ rlm'.pc \in {"cooldown", "check"}
        /\ rlm.pc \in {"cooldown", "check"}
        /\ UNCHANGED <<main, start, handle, proc, port, redisVars>>
    BY <1>1, <1>5 DEF WatchdogGivesPause, CooldownEnds, Rested, Loop
  <2> QED
    BY <2>1 DEF ServicesInv, ServicesTypeOK, OneStarter, redisVars
<1>6. CASE RlmUptimePasses
  <2>1. rlm' \in Loop /\ rlm'.pc = rlm.pc
    BY <1>1, <1>6 DEF RlmUptimePasses, Loop
  <2> QED
    BY <1>6, <2>1
    DEF RlmUptimePasses, ServicesInv, ServicesTypeOK, OneStarter, redisVars
<1> QED
  BY <1>2, <1>3, <1>4, <1>5, <1>6

(* The Redis watchdog has a loop and a client of its own.                  *)
LEMMA RedisStep ==
    ASSUME ServicesInv,
           RedisThread \/ RedisUptimePasses \/ RedisFails \/ RedisRecovers
    PROVE  ServicesInv'
PROOF
<1>1. UNCHANGED <<main, rlmVars>>
  BY DEF RedisThread, RedisSeesHealth, RedisReconnects, RedisStarts, RedisGivesPause,
         RedisCooldownEnds, RedisUptimePasses, RedisFails, RedisRecovers
<1>2. /\ redis = [pc |-> redis.pc, count |-> redis.count, uptime |-> redis.uptime]
      /\ redis.pc \in {"off", "check", "backoff", "start", "cooldown"}
      /\ redis.count \in 0..MaxRestarts /\ redis.uptime \in Uptimes
      /\ HasBudget(redis) => redis.count + 1 \in 0..MaxRestarts
      /\ 0 \in 0..MaxRestarts /\ {"none", "young", "old"} \subseteq Uptimes
  BY LoopIs DEF ServicesInv, ServicesTypeOK, Uptimes
<1>3. redis' \in Loop /\ client' \in BOOLEAN /\ redisUp' \in BOOLEAN
  <2>1. CASE RedisSeesHealth \/ RedisUptimePasses
    BY <1>2, <2>1 DEF RedisSeesHealth, RedisUptimePasses, Loop, ServicesInv, ServicesTypeOK
  <2>2. CASE RedisReconnects
    BY <1>2, <2>2 DEF RedisReconnects, Loop, ServicesInv, ServicesTypeOK
  <2>3. CASE RedisStarts
    BY <1>2, <2>3 DEF RedisStarts, ConnectRedis, Loop, ServicesInv, ServicesTypeOK
  <2>4. CASE RedisGivesPause \/ RedisCooldownEnds
    BY <1>2, <2>4 DEF RedisGivesPause, RedisCooldownEnds, Rested, Loop, ServicesInv,
                      ServicesTypeOK
  <2>5. CASE RedisFails \/ RedisRecovers
    BY <2>5 DEF RedisFails, RedisRecovers, ServicesInv, ServicesTypeOK
  <2> QED
    BY <2>1, <2>2, <2>3, <2>4, <2>5 DEF RedisThread
<1> QED
  BY <1>1, <1>3 DEF ServicesInv, ServicesTypeOK, OneStarter, rlmVars

(* The main thread; its end takes the threads along.                       *)
LEMMA MainStep ==
    ASSUME ServicesInv, Boot \/ BootRedis \/ Terminate \/ TearDown \/ Exit \/ Killed
    PROVE  ServicesInv'
PROOF
<1>1. CASE Boot
  BY <1>1 DEF Boot, ServicesInv, ServicesTypeOK, OneStarter, Threads, redisVars
<1>2. CASE BootRedis
  <2>1. UNCHANGED rlmVars /\ main' = "serving" /\ main = "start_redis"
    BY <1>2 DEF BootRedis
  <2>2. redis' \in Loop /\ client' \in BOOLEAN /\ redisUp' \in BOOLEAN
    BY <1>2, LoopIs DEF BootRedis, ConnectRedis, Loop, ServicesInv, ServicesTypeOK
  <2> QED
    BY <2>1, <2>2 DEF ServicesInv, ServicesTypeOK, OneStarter, rlmVars
<1>3. CASE Terminate
  BY <1>3 DEF Terminate, ServicesInv, ServicesTypeOK, OneStarter, rlmVars, redisVars
<1>4. CASE TearDown
  <2>1. /\ proc' \in [Instances -> {"dead", "booting", "up", "hung"}]
        /\ port' \in Instances \cup {None, Closing}
    BY <1>4, EndedTypes DEF TearDown, ServicesInv
  <2> QED
    BY <1>4, <2>1 DEF TearDown, ServicesInv, ServicesTypeOK, OneStarter
<1>5. CASE Exit \/ Killed
  <2>1. Gone
    BY <1>5 DEF Exit, Killed
  <2>2. Fresh \in Loop /\ Fresh.pc = "off"
    BY ServicesAssumption DEF Fresh, Loop, Uptimes
  <2> QED
    BY <2>1, <2>2 DEF Gone, ServicesInv, ServicesTypeOK, OneStarter, Threads
<1> QED
  BY <1>1, <1>2, <1>3, <1>4, <1>5

LEMMA ServicesKeep == ServicesInv /\ [Next]_vars => ServicesInv'
PROOF
<1> SUFFICES ASSUME ServicesInv, [Next]_vars PROVE ServicesInv'
  OBVIOUS
<1>1. CASE UNCHANGED vars
  BY <1>1 DEF vars, ServicesInv, ServicesTypeOK, OneStarter
<1>2. CASE RlmThread
  BY <1>2, WatchdogStep, StartStep DEF RlmThread, Threads
<1>3. CASE Fault
  BY <1>3, ProcessesStep, RedisStep, MainStep, StartStep DEF Fault
<1> QED
  BY <1>1, <1>2, <1>3, ProcessesStep, WatchdogStep, RedisStep, MainStep, StartStep
  DEF Next, Threads

(* Handle, processes, port, loops and budgets keep their types: no loop     *)
(* restarts more often than its budget (amauta-daemon.py:605-691, 806-852). *)
THEOREM ServicesTypes == Spec => []ServicesTypeOK
<1> QED  BY ServicesBegin, ServicesKeep, PTL DEF Spec, ServicesInv

(* While the daemon serves, no thread lets go of the handle of an RLM       *)
(* process that may still hold or take the port: for any number of          *)
(* processes and restarts, slow starts, foreign services and crashes at any *)
(* point (amauta-daemon.py:567, _stop_rlm).                                 *)
THEOREM HandleNeverLost == Spec => HandleKept
<1>1. ServicesInv /\ [Next]_vars
      => [main' = "serving" /\ handle' # handle /\ handle # None => proc'[handle] = "dead"]_vars
  <2> SUFFICES ASSUME ServicesInv, Next, main' = "serving", handle' # handle, handle # None
               PROVE  proc'[handle] = "dead"
    OBVIOUS
  <2>1. handle \in Procs /\ handle \in Instances
    BY DEF ServicesInv, ServicesTypeOK, Instances
  <2>2. CASE WatchdogRestarts
    BY <2>1, <2>2, EndedTypes DEF WatchdogRestarts, ServicesInv
  <2>3. ASSUME NEW t \in Threads, Launch(t)
        PROVE  FALSE
    <3>1. start[t] = "await" /\ main' = main
      BY <2>3 DEF Launch
    <3> QED
      BY <3>1 DEF ServicesInv, OneStarter, Threads
  <2>4. CASE TearDown \/ Exit \/ Killed
    BY <2>4 DEF TearDown, Exit, Killed, Gone
  <2>5. \/ WatchdogRestarts \/ TearDown \/ Exit \/ Killed
        \/ \E t \in Threads : Launch(t)
    BY DEF Next, RlmThread, RedisThread, Fault, Start, Threads, WatchdogSeesHealth,
           WatchdogStarts, WatchdogGivesPause, CooldownEnds, Probe, ProbeKillsNobody,
           LaunchFails, StartSucceeds, StartTimesOut, RedisSeesHealth, RedisReconnects,
           RedisStarts, RedisGivesPause, RedisCooldownEnds, Crash, Hang, StartedByHand,
           RedisFails, Terminate, Boot, BootRedis, Boots, Thaw, PortClears,
           RlmUptimePasses, RedisUptimePasses, RedisRecovers, rlmVars
  <2> QED
    BY <2>2, <2>3, <2>4, <2>5
<1> QED  BY ServicesBegin, ServicesKeep, <1>1, PTL DEF Spec, HandleKept

-----------------------------------------------------------------------------
(* Induction, and the recursions of the retry file.                        *)

(* An induction is a smallest counterexample.                              *)
LEMMA Smallest ==
    ASSUME NEW S \in SUBSET Nat, S # {}
    PROVE  \E n \in S : \A m \in S : n <= m
PROOF
<1>1. PICK n \in S : \A m \in S : ~ (<<m, n>> \in OpToRel(<, Nat))
  BY WFMin, NatLessThanWellFounded
<1>2. \A m \in S : ~ (m < n)
  BY <1>1 DEF OpToRel
<1> QED  BY <1>2

(* What holds at 0 and climbs from each number to the next holds up to n.  *)
LEMMA UpTo ==
    ASSUME NEW n \in Nat, NEW G, 0 \in G, \A i \in 1..n : i - 1 \in G => i \in G
    PROVE  0..n \subseteq G
PROOF
<1> DEFINE Bad == {i \in 0..n : i \notin G}
<1> SUFFICES ASSUME Bad # {} PROVE FALSE
  OBVIOUS
<1>1. Bad \in SUBSET Nat
  OBVIOUS
<1>2. PICK i \in Bad : \A j \in Bad : i <= j
  <2> HIDE DEF Bad
  <2> QED  BY <1>1, Smallest
<1>3. i \in 1..n /\ i - 1 \in 0..n /\ ~ (i <= i - 1)
  OBVIOUS
<1> QED  BY <1>2, <1>3

(* A recursion over 0..n, by a step from each value to the next: there is a *)
(* function that solves it.                                                *)
Steps(step, n, S) == step \in [(1..n) \X S -> S]

Solves(f, n, S, base, step) ==
    /\ f \in [0..n -> S] /\ f[0] = base
    /\ \A i \in 1..n : f[i] = step[<<i, f[i - 1]>>]

LEMMA RecursionSolved ==
    ASSUME NEW n \in Nat, NEW S, NEW base \in S, NEW step, Steps(step, n, S)
    PROVE  \E f : Solves(f, n, S, base, step)
PROOF
<1> DEFINE G == {m \in 0..n : \E f : Solves(f, m, S, base, step)}
<1>1. 0 \in G
  <2>1. Solves([j \in 0..0 |-> base], 0, S, base, step) /\ 0 \in 0..n
    BY DEF Solves
  <2> QED  BY <2>1
<1>2. ASSUME NEW m \in 1..n, m - 1 \in G
      PROVE  m \in G
  <2>1. PICK f : Solves(f, m - 1, S, base, step)
    BY <1>2
  <2> DEFINE g == [j \in 0..m |-> IF j = m THEN step[<<m, f[m - 1]>>] ELSE f[j]]
  <2>2. step[<<m, f[m - 1]>>] \in S
    BY <2>1 DEF Solves, Steps
  <2>3. \A j \in 0..(m - 1) : j \in 0..m /\ j # m
    OBVIOUS
  <2>4. g \in [0..m -> S] /\ g[0] = base
    BY <2>1, <2>2 DEF Solves
  <2>5. ASSUME NEW i \in 1..m
        PROVE  g[i] = step[<<i, g[i - 1]>>]
    <3>1. i - 1 \in 0..(m - 1) /\ g[i - 1] = f[i - 1]
      BY <2>3
    <3>2. CASE i = m
      <4>1. g[m] = step[<<m, f[m - 1]>>] /\ g[m - 1] = f[m - 1]
        BY <3>1, <3>2
      <4> QED  BY <3>2, <4>1
    <3>3. CASE i # m
      <4>1. i \in 1..(m - 1) /\ g[i] = f[i]
        BY <3>3
      <4> QED  BY <2>1, <3>1, <4>1 DEF Solves
    <3> QED  BY <3>2, <3>3
  <2> HIDE DEF g
  <2>6. Solves(g, m, S, base, step) /\ m \in 0..n
    BY <2>4, <2>5 DEF Solves
  <2> QED  BY <2>6
<1>3. 0..n \subseteq G
  <2> HIDE DEF G
  <2> QED  BY <1>1, <1>2, UpTo
<1> QED  BY <1>3

(* One entry for each task.                                                *)
Distinct(q) == \A i, j \in 1..Len(q) : q[i][1] = q[j][1] => i = j

(* A retry file as a sequence.                                             *)
LEMMA QueueIs ==
    ASSUME NEW q
    PROVE  q \in Queue <=> q \in Seq(Entry) /\ Len(q) <= RETRY_QUEUE_MAX /\ Distinct(q)
PROOF
<1>1. RETRY_QUEUE_MAX \in Nat
  BY MirrorAssumption
<1>2. q \in BoundedSeq(Entry, RETRY_QUEUE_MAX) <=> q \in Seq(Entry) /\ Len(q) <= RETRY_QUEUE_MAX
  <2>1. q \in BoundedSeq(Entry, RETRY_QUEUE_MAX)
        <=> \E m \in 0..RETRY_QUEUE_MAX : q \in [1..m -> Entry]
    BY DEF BoundedSeq, SeqOf
  <2>2. ASSUME NEW m \in 0..RETRY_QUEUE_MAX, q \in [1..m -> Entry]
        PROVE  q \in Seq(Entry) /\ Len(q) = m
    BY <1>1, <2>2
  <2>3. ASSUME q \in Seq(Entry), Len(q) <= RETRY_QUEUE_MAX
        PROVE  Len(q) \in 0..RETRY_QUEUE_MAX /\ q \in [1..Len(q) -> Entry]
    BY <1>1, <2>3
  <2> QED  BY <2>1, <2>2, <2>3
<1> QED  BY <1>2 DEF Queue, Distinct

LEMMA WithoutIs ==
    ASSUME NEW q \in Seq(Entry), NEW t, Distinct(q)
    PROVE  /\ Without(q, t) \in Seq(Entry) /\ Len(Without(q, t)) <= Len(q)
           /\ \A i \in 1..Len(Without(q, t)) : Without(q, t)[i][1] # t
           /\ Distinct(Without(q, t))
PROOF
<1> DEFINE L == Len(q)
           Body(k) == [n \in 0..L |->
                         IF n = 0 THEN <<>>
                         ELSE IF q[n][1] = t THEN k[n - 1]
                         ELSE Append(k[n - 1], q[n])]
           kept == CHOOSE k : k = Body(k)
           step == [x \in (1..L) \X Seq(Entry) |->
                      IF q[x[1]][1] = t THEN x[2] ELSE Append(x[2], q[x[1]])]
<1>1. L \in Nat /\ \A n \in 1..L : q[n] \in Entry
  OBVIOUS
<1>5. Without(q, t) = kept[L]
  BY DEF Without
<1> HIDE DEF L, kept
<1>2. step \in [(1..L) \X Seq(Entry) -> Seq(Entry)]
  BY <1>1
<1>3. \E k : k = Body(k)
  <2>1. <<>> \in Seq(Entry)
    OBVIOUS
  <2>2. PICK f \in [0..L -> Seq(Entry)] : /\ f[0] = <<>>
                                         /\ \A i \in 1..L : f[i] = step[<<i, f[i - 1]>>]
    <3>1. Steps(step, L, Seq(Entry))
      BY <1>2 DEF Steps
    <3> HIDE DEF step
    <3>2. \E f : Solves(f, L, Seq(Entry), <<>>, step)
      BY <1>1, <2>1, <3>1, RecursionSolved
    <3> QED  BY <3>2 DEF Solves
  <2>3. ASSUME NEW n \in 1..L
        PROVE  f[n] = IF q[n][1] = t THEN f[n - 1] ELSE Append(f[n - 1], q[n])
    <3>1. n - 1 \in 0..L
      BY <1>1
    <3>2. f[n - 1] \in Seq(Entry)
      BY <3>1
    <3>3. f[n] = step[<<n, f[n - 1]>>]
      BY <2>2
    <3> QED  BY <3>2, <3>3
  <2>4. f = Body(f)
    <3>1. f = [n \in 0..L |-> f[n]]
      BY <2>2
    <3>2. ASSUME NEW n \in 0..L
          PROVE  f[n] = IF n = 0 THEN <<>>
                        ELSE IF q[n][1] = t THEN f[n - 1]
                        ELSE Append(f[n - 1], q[n])
      <4>1. n = 0 \/ n \in 1..L
        BY <1>1
      <4> QED  BY <2>2, <2>3, <4>1
    <3> QED  BY <3>1, <3>2, Zenon
  <2> HIDE DEF Body
  <2> QED  BY <2>4
<1>4. kept = Body(kept)
  <2> HIDE DEF Body
  <2> QED  BY <1>3 DEF kept
<1>6. kept[0] = <<>>
  <2>1. 0 \in 0..L
    BY <1>1
  <2> QED  BY <1>4, <2>1
<1>7. ASSUME NEW n \in 1..L
      PROVE  kept[n] = IF q[n][1] = t THEN kept[n - 1] ELSE Append(kept[n - 1], q[n])
  <2>1. n \in 0..L /\ n # 0
    BY <1>1
  <2>2. Body(kept)[n] = IF q[n][1] = t THEN kept[n - 1] ELSE Append(kept[n - 1], q[n])
    BY <2>1
  <2> HIDE DEF Body
  <2> QED  BY <1>4, <2>2
<1> HIDE DEF Body, step
<1> DEFINE Fine(s, n) ==
              /\ s \in Seq(Entry) /\ Len(s) <= n
              /\ \A i \in 1..Len(s) : s[i][1] # t /\ \E m \in 1..n : s[i] = q[m]
              /\ \A i, j \in 1..Len(s) : s[i][1] = s[j][1] => i = j
           G == {n \in 0..L : Fine(kept[n], n)}
<1>8. 0 \in G
  <2>1. 0 \in 0..L /\ Fine(<<>>, 0)
    BY <1>1
  <2> HIDE DEF Fine
  <2> QED  BY <1>6, <2>1
<1>9. ASSUME NEW n \in 1..L, n - 1 \in G
      PROVE  n \in G
  <2> DEFINE s == kept[n - 1]
  <2>1. Fine(s, n - 1) /\ n \in 0..L /\ n \in Nat /\ n \in 1..n /\ n - 1 \in Nat
    <3> HIDE DEF Fine
    <3>1. n \in 0..L /\ n \in Nat /\ n \in 1..n /\ n - 1 \in Nat
      BY <1>1
    <3> QED  BY <1>9, <3>1
  <2> HIDE DEF s
  <2>2. CASE q[n][1] = t
    <3>1. Fine(s, n)
      BY <2>1
    <3>2. kept[n] = s
      BY <1>7, <2>2 DEF s
    <3> HIDE DEF Fine
    <3> QED  BY <2>1, <3>1, <3>2
  <2>3. CASE q[n][1] # t
    <3>1. kept[n] = Append(s, q[n]) /\ q[n] \in Entry
      BY <1>1, <1>7, <2>3 DEF s
    <3>2. /\ Append(s, q[n]) \in Seq(Entry) /\ Len(Append(s, q[n])) = Len(s) + 1
          /\ \A i \in 1..Len(s) : Append(s, q[n])[i] = s[i]
          /\ Append(s, q[n])[Len(s) + 1] = q[n]
      BY <2>1, <3>1
    <3>3. \A i \in 1..Len(s) : s[i][1] # q[n][1]
      <4> SUFFICES ASSUME NEW i \in 1..Len(s), s[i][1] = q[n][1] PROVE FALSE
        OBVIOUS
      <4>1. PICK m \in 1..(n - 1) : s[i] = q[m]
        BY <2>1
      <4> QED  BY <1>1, <4>1 DEF L, Distinct
    <3> DEFINE a == Append(s, q[n])
    <3>4. ASSUME NEW i \in 1..Len(a)
          PROVE  i \in 1..Len(s) \/ i = Len(s) + 1
      BY <2>1, <3>2
    <3> HIDE DEF a
    <3>5. \A i \in 1..Len(a) : a[i][1] # t /\ \E m \in 1..n : a[i] = q[m]
      BY <2>1, <2>3, <3>2, <3>4 DEF a
    <3>6. \A i, j \in 1..Len(a) : a[i][1] = a[j][1] => i = j
      BY <2>1, <3>2, <3>3, <3>4 DEF a
    <3>7. a \in Seq(Entry) /\ Len(a) <= n
      BY <2>1, <3>2 DEF a
    <3>8. Fine(a, n)
      BY <3>5, <3>6, <3>7
    <3> HIDE DEF Fine
    <3> QED  BY <2>1, <3>1, <3>8 DEF a
  <2> QED  BY <2>2, <2>3
<1>10. L \in G
  <2> HIDE DEF G
  <2>1. 0..L \subseteq G
    BY <1>1, <1>8, <1>9, UpTo
  <2> QED  BY <1>1, <2>1
<1> QED  BY <1>5, <1>10 DEF L, Distinct

LEMMA SavedIs ==
    ASSUME NEW q \in Seq(Entry), Distinct(q)
    PROVE  _saveRetryQueue(q) \in Queue
PROOF
<1> DEFINE L == Len(q)
           M == RETRY_QUEUE_MAX
           s == SubSeq(q, L - M + 1, L)
<1>1. L \in Nat /\ M \in Nat \ {0}
  BY MirrorAssumption
<1>2. CASE L > M
  <2>1. s \in Seq(Entry) /\ Len(s) = M /\ \A i \in 1..M : s[i] = q[L - M + i] /\ L - M + i \in 1..L
    BY <1>1, <1>2
  <2>2. _saveRetryQueue(q) = s
    BY <1>2 DEF _saveRetryQueue
  <2> HIDE DEF s
  <2>3. Distinct(s)
    <3> SUFFICES ASSUME NEW i \in 1..M, NEW j \in 1..M, s[i][1] = s[j][1] PROVE i = j
      BY <2>1 DEF Distinct
    <3> DEFINE at(k) == L - M + k
    <3>1. at(i) \in 1..Len(q) /\ at(j) \in 1..Len(q) /\ q[at(i)][1] = q[at(j)][1]
      BY <2>1
    <3> HIDE DEF at
    <3>2. at(i) = at(j)
      BY <3>1 DEF Distinct
    <3> QED  BY <1>1, <3>2 DEF at
  <2>4. Len(s) <= M
    BY <1>1, <2>1
  <2> QED  BY <2>1, <2>2, <2>3, <2>4, QueueIs
<1>3. CASE ~ (L > M)
  BY <1>1, <1>3, QueueIs DEF _saveRetryQueue
<1> QED  BY <1>2, <1>3

LEMMA EnqueuedIs ==
    ASSUME NEW q \in Queue, NEW e \in Entry
    PROVE  Enqueued(q, e) \in Queue
PROOF
<1> DEFINE w == Without(q, e[1])
           a == Append(w, e)
<1>1. /\ w \in Seq(Entry)
      /\ \A i \in 1..Len(w) : w[i][1] # e[1]
      /\ Distinct(w)
  BY WithoutIs, QueueIs
<1> HIDE DEF w
<1>2. /\ a \in Seq(Entry) /\ Len(a) = Len(w) + 1 /\ a[Len(w) + 1] = e
      /\ \A i \in 1..Len(w) : a[i] = w[i]
      /\ \A i \in 1..Len(a) : i \in 1..Len(w) \/ i = Len(w) + 1
  BY <1>1
<1> HIDE DEF a
<1>3. Distinct(a)
  BY <1>1, <1>2 DEF Distinct
<1>4. Enqueued(q, e) = _saveRetryQueue(a)
  BY DEF Enqueued, a, w
<1> QED  BY <1>2, <1>3, <1>4, SavedIs

LEMMA EnqueuedAllIs ==
    ASSUME NEW q \in Queue, NEW ts, Len(ts) \in Nat,
           \A i \in 1..Len(ts) : <<ts[i], file[ts[i]]>> \in Entry
    PROVE  EnqueuedAll(q, ts) \in Queue
PROOF
<1> DEFINE L == Len(ts)
           Item(n) == <<ts[n], file[ts[n]]>>
           Body(k) == [n \in 0..L |-> IF n = 0 THEN q ELSE Enqueued(k[n - 1], Item(n))]
           after == CHOOSE k : k = Body(k)
           step == [x \in (1..L) \X Queue |-> Enqueued(x[2], Item(x[1]))]
<1>1. EnqueuedAll(q, ts) = after[L]
  BY DEF EnqueuedAll
<1>2. L \in Nat /\ \A n \in 1..L : Item(n) \in Entry
  OBVIOUS
<1> HIDE DEF L, Item, after
<1>3. \E k : k = Body(k)
  <2>1. Steps(step, L, Queue)
    BY <1>2, EnqueuedIs DEF Steps
  <2>2. PICK f : Solves(f, L, Queue, q, step)
    <3> HIDE DEF step
    <3> QED  BY <1>2, <2>1, RecursionSolved
  <2>3. ASSUME NEW n \in 1..L
        PROVE  f[n] = Enqueued(f[n - 1], Item(n))
    <3>1. n - 1 \in 0..L
      BY <1>2
    <3>2. f[n - 1] \in Queue /\ f[n] = step[<<n, f[n - 1]>>]
      BY <2>2, <3>1 DEF Solves
    <3> QED  BY <3>2
  <2>4. f = Body(f)
    <3>1. f = [n \in 0..L |-> f[n]]
      BY <2>2 DEF Solves
    <3>2. ASSUME NEW n \in 0..L
          PROVE  f[n] = IF n = 0 THEN q ELSE Enqueued(f[n - 1], Item(n))
      <4>1. n = 0 \/ n \in 1..L
        BY <1>2
      <4> QED  BY <2>2, <2>3, <4>1 DEF Solves
    <3> QED  BY <3>1, <3>2, Zenon
  <2> HIDE DEF Body
  <2> QED  BY <2>4
<1>4. after = Body(after)
  <2> HIDE DEF Body
  <2> QED  BY <1>3 DEF after
<1>5. \A n \in 0..L : after[n] = IF n = 0 THEN q ELSE Enqueued(after[n - 1], Item(n))
  BY <1>4
<1> HIDE DEF Body, step
<1> DEFINE G == {n \in 0..L : after[n] \in Queue}
<1>6. 0 \in G
  BY <1>2, <1>5
<1>7. ASSUME NEW n \in 1..L, n - 1 \in G
      PROVE  n \in G
  <2>1. n \in 0..L /\ n # 0
    BY <1>2
  <2> QED  BY <1>2, <1>5, <1>7, <2>1, EnqueuedIs
<1>8. 0..L \subseteq G
  <2> HIDE DEF G
  <2> QED  BY <1>2, <1>6, <1>7, UpTo
<1> QED  BY <1>1, <1>2, <1>8

-----------------------------------------------------------------------------
(* The mirror.                                                             *)

(* What a pass of the flusher has still to do and what failed in it are     *)
(* together one retry file: that is why what failed can replace the file.   *)
PassFits == flusher.failed \o flusher.todo \in Queue

MirrorInv == MirrorTypeOK /\ PassFits

(* The entry of an active task, the empty file, and the records.           *)
LEMMA ActiveEntry ==
    ASSUME MirrorTypeOK, NEW t \in Active
    PROVE  <<t, file[t]>> \in Entry
BY MirrorAssumption DEF MirrorTypeOK, Active, Entry

LEMMA NothingQueued ==
    /\ <<>> \in Queue /\ <<>> \o <<>> = <<>>
    /\ NoPass \in [on : BOOLEAN, todo : Queue, failed : Queue]
PROOF
<1> DEFINE none == <<>>
<1>1. none \in Seq(Entry) /\ Len(none) <= RETRY_QUEUE_MAX /\ Distinct(none)
  BY MirrorAssumption DEF Distinct
<1>2. none \in Queue
  <2> HIDE DEF none
  <2> QED  BY <1>1, QueueIs
<1> QED  BY <1>2 DEF NoPass

LEMMA HandlerIs ==
    ASSUME NEW s \in HandlerState
    PROVE  /\ s.pc \in {"reread", "delete"} => s.task \in Tasks
           /\ s.pc \in {"upsert", "enqueue", "save"} => s.entry \in Entry
           /\ s.pc = "save" => s.seen \in Queue
BY DEF HandlerState, Idle

LEMMA BecomesTypes ==
    ASSUME MirrorTypeOK, NEW h \in Handlers, NEW s \in HandlerState, Becomes(h, s)
    PROVE  handler' \in [Handlers -> HandlerState]
BY DEF MirrorTypeOK, Becomes

LEMMA MirrorBegins == MirrorInit => MirrorInv
PROOF
<1> SUFFICES ASSUME MirrorInit PROVE MirrorInv
  OBVIOUS
<1>1. Idle \in HandlerState /\ NoFix \in [upserts : SUBSET Entry, deletes : SUBSET Tasks]
  BY DEF HandlerState, NoFix
<1>2. MirrorTypeOK
  BY <1>1, NothingQueued, MirrorAssumption DEF MirrorInit, MirrorTypeOK
<1>3. PassFits
  BY NothingQueued DEF MirrorInit, PassFits, NoPass
<1> QED  BY <1>2, <1>3 DEF MirrorInv

(* Commands.                                                               *)
LEMMA CommandStep ==
    ASSUME MirrorInv,
           \/ \E h \in Handlers, t \in Tasks : RunWrite(h, t) \/ RunNoChange(h, t) \/ RunDelete(h, t)
           \/ \E t \in Tasks : RunUnmirrored(t) \/ RunArchive(t)
    PROVE  MirrorInv'
PROOF
<1>1. PassFits'
  BY DEF MirrorInv, PassFits, RunWrite, RunNoChange, RunDelete, RunUnmirrored, RunArchive
<1>2. ASSUME NEW t \in Tasks
      PROVE  /\ [pc |-> "reread", task |-> t] \in HandlerState
             /\ [pc |-> "delete", task |-> t] \in HandlerState
  BY DEF HandlerState
<1>3. ASSUME NEW t \in Tasks, Written(t)
      PROVE  /\ writes' \in 0..MaxWrites /\ archived' = archived
             /\ file' \in [Tasks -> 0..MaxWrites]
  BY <1>3, MirrorAssumption DEF MirrorInv, MirrorTypeOK, Written
<1>4. ASSUME NEW h \in Handlers, NEW t \in Tasks, RunWrite(h, t)
      PROVE  MirrorTypeOK'
  BY <1>2, <1>3, <1>4, BecomesTypes DEF RunWrite, MirrorInv, MirrorTypeOK
<1>5. ASSUME NEW h \in Handlers, NEW t \in Tasks, RunNoChange(h, t)
      PROVE  MirrorTypeOK'
  BY <1>2, <1>5, BecomesTypes DEF RunNoChange, MirrorInv, MirrorTypeOK, files
<1>6. ASSUME NEW h \in Handlers, NEW t \in Tasks, RunDelete(h, t)
      PROVE  MirrorTypeOK'
  <2>1. handler' \in [Handlers -> HandlerState]
    BY <1>2, <1>6, BecomesTypes DEF RunDelete, MirrorInv
  <2> QED  BY <1>6, <2>1, MirrorAssumption DEF RunDelete, MirrorInv, MirrorTypeOK
<1>7. ASSUME NEW t \in Tasks, RunUnmirrored(t)
      PROVE  MirrorTypeOK'
  BY <1>3, <1>7 DEF RunUnmirrored, MirrorInv, MirrorTypeOK
<1>8. ASSUME NEW t \in Tasks, RunArchive(t)
      PROVE  MirrorTypeOK'
  BY <1>8, MirrorAssumption DEF RunArchive, MirrorInv, MirrorTypeOK
<1> QED  BY <1>1, <1>4, <1>5, <1>6, <1>7, <1>8 DEF MirrorInv

(* The mirror section of a handler.                                        *)
LEMMA HandlerStep ==
    ASSUME MirrorInv, NEW h \in Handlers,
           Reread(h) \/ Upsert(h) \/ EnqueueLoad(h) \/ EnqueueSave(h) \/ DeleteRow(h)
    PROVE  MirrorInv'
PROOF
<1>1. PassFits'
  BY DEF MirrorInv, PassFits, Reread, Upsert, EnqueueLoad, EnqueueSave, DeleteRow
<1> SUFFICES MirrorTypeOK'
  BY <1>1 DEF MirrorInv
<1>2. Idle \in HandlerState /\ handler[h] \in HandlerState
  BY DEF HandlerState, MirrorInv, MirrorTypeOK
<1>3. CASE Reread(h)
  <2>1. ASSUME NEW t \in Active
        PROVE  [pc |-> "upsert", entry |-> <<t, file[t]>>] \in HandlerState
    BY ActiveEntry DEF HandlerState, MirrorInv
  <2>2. handler' \in [Handlers -> HandlerState]
    BY <1>2, <1>3, <2>1, BecomesTypes DEF Reread, MirrorInv
  <2> QED  BY <1>3, <2>2 DEF Reread, MirrorInv, MirrorTypeOK, files
<1>4. CASE Upsert(h)
  <2>1. handler[h].entry \in Entry
    BY <1>2, <1>4, HandlerIs DEF Upsert
  <2>2. /\ [pc |-> "enqueue", entry |-> handler[h].entry] \in HandlerState
        /\ [row EXCEPT ![handler[h].entry[1]] = handler[h].entry[2]] \in [Tasks -> 0..MaxWrites]
    BY <2>1, MirrorAssumption DEF HandlerState, Entry, MirrorInv, MirrorTypeOK
  <2>3. handler' \in [Handlers -> HandlerState]
    BY <1>2, <1>4, <2>2, BecomesTypes DEF Upsert, MirrorInv
  <2>4. row' \in [Tasks -> 0..MaxWrites]
    BY <1>4, <2>2 DEF Upsert, MirrorInv, MirrorTypeOK
  <2> QED  BY <1>4, <2>3, <2>4 DEF Upsert, MirrorInv, MirrorTypeOK, files
<1>5. CASE EnqueueLoad(h)
  <2>1. handler[h].entry \in Entry /\ queue \in Queue
    BY <1>2, <1>5, HandlerIs DEF EnqueueLoad, MirrorInv, MirrorTypeOK
  <2>2. [pc |-> "save", entry |-> handler[h].entry, seen |-> queue] \in HandlerState
    BY <2>1 DEF HandlerState
  <2>3. handler' \in [Handlers -> HandlerState]
    BY <1>5, <2>2, BecomesTypes DEF EnqueueLoad, MirrorInv
  <2> QED  BY <1>5, <2>3 DEF EnqueueLoad, MirrorInv, MirrorTypeOK, files
<1>6. CASE EnqueueSave(h)
  <2>1. handler[h].entry \in Entry /\ handler[h].seen \in Queue
    BY <1>2, <1>6, HandlerIs DEF EnqueueSave
  <2>2. queue' \in Queue
    BY <1>6, <2>1, EnqueuedIs DEF EnqueueSave
  <2>3. handler' \in [Handlers -> HandlerState]
    BY <1>2, <1>6, BecomesTypes DEF EnqueueSave, MirrorInv
  <2> QED  BY <1>6, <2>2, <2>3 DEF EnqueueSave, MirrorInv, MirrorTypeOK, files
<1>7. CASE DeleteRow(h)
  <2>1. handler' \in [Handlers -> HandlerState]
    BY <1>2, <1>7, BecomesTypes DEF DeleteRow, MirrorInv
  <2>2. row' \in [Tasks -> 0..MaxWrites]
    <3>1. 0 \in 0..MaxWrites /\ row \in [Tasks -> 0..MaxWrites]
      BY MirrorAssumption DEF MirrorInv, MirrorTypeOK
    <3>2. row' = row \/ row' = [row EXCEPT ![handler[h].task] = 0]
      BY <1>7 DEF DeleteRow
    <3> QED  BY <3>1, <3>2
  <2> QED  BY <1>7, <2>1, <2>2 DEF DeleteRow, MirrorInv, MirrorTypeOK, files
<1> QED  BY <1>3, <1>4, <1>5, <1>6, <1>7

(* The flusher.                                                            *)
LEMMA FlushedEntry ==
    ASSUME NEW done, NEW todo \in Seq(Entry), todo # <<>>, done \o todo \in Queue,
           done \in Seq(Entry)
    PROVE  /\ Head(todo) \in Entry
           /\ Tail(todo) \in Queue /\ Append(done, Head(todo)) \in Queue
           /\ done \o Tail(todo) \in Queue
           /\ Append(done, Head(todo)) \o Tail(todo) \in Queue
PROOF
<1> DEFINE D == Len(done)
           T == Len(todo)
           all == done \o todo
           M == RETRY_QUEUE_MAX
<1>1. /\ D \in Nat /\ T \in Nat \ {0} /\ M \in Nat /\ Head(todo) = todo[1] /\ todo[1] \in Entry
      /\ Tail(todo) \in Seq(Entry) /\ Len(Tail(todo)) = T - 1
      /\ \A i \in 1..(T - 1) : Tail(todo)[i] = todo[i + 1]
  BY MirrorAssumption
<1>2. /\ Len(all) = D + T /\ D + T <= M
      /\ \A i \in 1..D : all[i] = done[i]
      /\ \A i \in 1..T : all[D + i] = todo[i]
      /\ \A i, j \in 1..(D + T) : all[i][1] = all[j][1] => i = j
  <2>1. Len(all) = D + T
    OBVIOUS
  <2>2. Len(all) <= M /\ Distinct(all)
    BY QueueIs
  <2>3. /\ \A i \in 1..D : all[i] = done[i]
        /\ \A i \in 1..T : all[D + i] = todo[i]
    BY <1>1
  <2> QED  BY <2>1, <2>2, <2>3 DEF Distinct
<1> HIDE DEF all, D, T, M
<1>3. Append(done, Head(todo)) \o Tail(todo) = done \o todo
  BY <1>1
<1>4. Tail(todo) \in Queue
  <2> DEFINE s == Tail(todo)
             at(i) == D + (i + 1)
  <2>1. s \in Seq(Entry) /\ Len(s) = T - 1
    BY <1>1
  <2>2. \A i \in 1..Len(s) : s[i] = all[at(i)] /\ at(i) \in 1..(D + T)
    BY <1>1, <1>2, <2>1
  <2> HIDE DEF s
  <2>3. Distinct(s)
    <3> SUFFICES ASSUME NEW i \in 1..Len(s), NEW j \in 1..Len(s), s[i][1] = s[j][1] PROVE i = j
      BY DEF Distinct
    <3>1. at(i) = at(j)
      <4> HIDE DEF at
      <4> QED  BY <1>2, <2>2
    <3> QED  BY <1>1, <2>1, <3>1
  <2>4. Len(s) <= M
    BY <1>1, <1>2, <2>1
  <2> QED  BY <2>1, <2>3, <2>4, QueueIs DEF M, s
<1>5. Append(done, Head(todo)) \in Queue
  <2> DEFINE a == Append(done, Head(todo))
  <2>1. /\ a \in Seq(Entry) /\ Len(a) = D + 1 /\ \A i \in 1..(D + 1) : a[i] = all[i] /\ i \in 1..(D + T)
    BY <1>1, <1>2 DEF D
  <2> HIDE DEF a
  <2>2. Distinct(a)
    BY <1>1, <1>2, <2>1 DEF Distinct
  <2>3. Len(a) <= M
    BY <1>1, <1>2, <2>1
  <2> QED  BY <2>1, <2>2, <2>3, QueueIs DEF M, a
<1>6. done \o Tail(todo) \in Queue
  <2> DEFINE s == done \o Tail(todo)
             at(i) == IF i <= D THEN i ELSE i + 1
  <2>1. s \in Seq(Entry) /\ Len(s) = D + (T - 1)
    BY <1>1 DEF D
  <2>2. \A i \in 1..Len(s) : s[i] = all[at(i)] /\ at(i) \in 1..(D + T)
    BY <1>1, <1>2, <2>1 DEF D
  <2> HIDE DEF s
  <2>3. Distinct(s)
    <3> SUFFICES ASSUME NEW i \in 1..Len(s), NEW j \in 1..Len(s), s[i][1] = s[j][1] PROVE i = j
      BY DEF Distinct
    <3>1. at(i) = at(j)
      <4> HIDE DEF at
      <4> QED  BY <1>2, <2>2
    <3>2. i \in Nat /\ j \in Nat
      BY <1>1, <2>1
    <3> QED  BY <1>1, <3>1, <3>2
  <2>4. Len(s) <= M
    BY <1>1, <1>2, <2>1
  <2> QED  BY <2>1, <2>3, <2>4, QueueIs DEF M, s
<1> QED  BY <1>1, <1>3, <1>4, <1>5, <1>6

LEMMA FlushStep ==
    ASSUME MirrorInv, FlushBegin \/ FlushOne \/ FlushSave
    PROVE  MirrorInv'
PROOF
<1>1. /\ flusher = [on |-> flusher.on, todo |-> flusher.todo, failed |-> flusher.failed]
      /\ flusher.todo \in Queue /\ flusher.failed \in Queue /\ queue \in Queue
      /\ flusher.on \in BOOLEAN
  BY DEF MirrorInv, MirrorTypeOK
<1>2. /\ flusher.todo \in Seq(Entry) /\ flusher.failed \in Seq(Entry) /\ Distinct(flusher.failed)
      /\ queue \in Seq(Entry)
  BY <1>1, QueueIs
<1>3. CASE FlushBegin
  <2>1. <<>> \o queue = queue
    BY <1>2
  <2>2. PassFits' /\ flusher' \in [on : BOOLEAN, todo : Queue, failed : Queue]
    BY <1>1, <1>3, <2>1, NothingQueued DEF FlushBegin, PassFits
  <2> QED  BY <1>3, <2>2 DEF FlushBegin, MirrorInv, MirrorTypeOK, files
<1>4. CASE FlushOne
  <2> DEFINE e == Head(flusher.todo)
             rest == Tail(flusher.todo)
  <2>1. flusher.todo # <<>> /\ flusher.failed \o flusher.todo \in Queue
    BY <1>4 DEF FlushOne, MirrorInv, PassFits
  <2>2. /\ e \in Entry /\ rest \in Queue /\ Append(flusher.failed, e) \in Queue
        /\ flusher.failed \o rest \in Queue
        /\ Append(flusher.failed, e) \o rest \in Queue
    BY <1>2, <2>1, FlushedEntry
  <2>3. /\ [row EXCEPT ![e[1]] = e[2]] \in [Tasks -> 0..MaxWrites]
        /\ Enqueued(queue, e) \in Queue
    BY <1>1, <2>2, EnqueuedIs, MirrorAssumption DEF Entry, MirrorInv, MirrorTypeOK
  <2> HIDE DEF e, rest
  <2>4. \/ /\ row' = [row EXCEPT ![e[1]] = e[2]] /\ queue' = queue
           /\ flusher' = [on |-> flusher.on, todo |-> rest, failed |-> flusher.failed]
        \/ /\ row' = row /\ queue' = Enqueued(queue, e)
           /\ flusher' = [on |-> flusher.on, todo |-> rest, failed |-> Append(flusher.failed, e)]
    BY <1>1, <1>4 DEF FlushOne, e, rest
  <2> DEFINE Passes == [on : BOOLEAN, todo : Queue, failed : Queue]
             after(failed) == [on |-> flusher.on, todo |-> rest, failed |-> failed]
  <2>5. \A f \in Queue : after(f) \in Passes /\ after(f).failed = f /\ after(f).todo = rest
    BY <1>1, <2>2
  <2>6. flusher' = after(flusher.failed) \/ flusher' = after(Append(flusher.failed, e))
    BY <2>4
  <2> HIDE DEF after, Passes
  <2>7. flusher' \in Passes /\ PassFits'
    BY <1>1, <2>2, <2>5, <2>6 DEF PassFits
  <2>8. queue' \in Queue /\ row' \in [Tasks -> 0..MaxWrites]
    BY <1>1, <2>3, <2>4 DEF MirrorInv, MirrorTypeOK
  <2> QED  BY <1>4, <2>7, <2>8 DEF FlushOne, MirrorInv, MirrorTypeOK, files, Passes
<1>5. CASE FlushSave
  <2>1. queue' \in Queue
    BY <1>2, <1>5, SavedIs DEF FlushSave
  <2>2. PassFits' /\ flusher' \in [on : BOOLEAN, todo : Queue, failed : Queue]
    BY <1>5, NothingQueued DEF FlushSave, PassFits, NoPass
  <2> QED  BY <1>5, <2>1, <2>2 DEF FlushSave, MirrorInv, MirrorTypeOK, files
<1> QED  BY <1>3, <1>4, <1>5

(* A new daemon.                                                           *)
LEMMA RestartStep ==
    ASSUME MirrorInv, Restart
    PROVE  MirrorInv'
PROOF
<1>1. handler' \in [Handlers -> HandlerState]
  BY DEF Restart, HandlerState
<1>2. PassFits' /\ flusher' \in [on : BOOLEAN, todo : Queue, failed : Queue]
  BY NothingQueued DEF Restart, PassFits, NoPass
<1>3. /\ row' \in [Tasks -> 0..MaxWrites] /\ queue' \in Queue
      /\ pgUp' \in BOOLEAN /\ store' \in {"pg", "sqlite"}
  <2>1. CASE pgUp
    <3>1. PICK S \in SUBSET Active :
             /\ row' = Synced(S) /\ pgUp' = (S = Active)
             /\ \E failed \in SetToSeqs(Active \ S) : queue' = EnqueuedAll(queue, failed)
      BY <2>1 DEF Restart
    <3>2. PICK failed \in SetToSeqs(Active \ S) : queue' = EnqueuedAll(queue, failed)
      BY <3>1
    <3>3. Cardinality(Active \ S) \in Nat
      BY MirrorAssumption, FS_Subset, FS_CardinalityType DEF Active
    <3>4. failed \in [1..Cardinality(Active \ S) -> Active \ S]
      BY DEF SetToSeqs
    <3>5. Len(failed) = Cardinality(Active \ S)
      BY <3>3, <3>4
    <3>6. \A i \in 1..Len(failed) : <<failed[i], file[failed[i]]>> \in Entry
      BY <3>4, <3>5, ActiveEntry DEF MirrorInv
    <3>7. queue' \in Queue
      BY <3>2, <3>3, <3>5, <3>6, EnqueuedAllIs DEF MirrorInv, MirrorTypeOK
    <3>8. row' \in [Tasks -> 0..MaxWrites]
      BY <3>1 DEF Synced, MirrorInv, MirrorTypeOK
    <3>9. store' = "pg"
      BY <2>1 DEF Restart
    <3> QED  BY <3>1, <3>7, <3>8, <3>9
  <2>2. CASE ~ pgUp
    BY <2>2 DEF Restart, MirrorInv, MirrorTypeOK
  <2> QED  BY <2>1, <2>2
<1> QED  BY <1>1, <1>2, <1>3 DEF Restart, MirrorInv, MirrorTypeOK, files

(* reconcile --fix.                                                        *)
LEMMA FixStep ==
    ASSUME MirrorInv,
           FixRead \/ FixKilled \/ (\E e \in Entry : FixUpsert(e)) \/ (\E t \in Tasks : FixDelete(t))
    PROVE  MirrorInv'
PROOF
<1>1. PassFits'
  BY DEF MirrorInv, PassFits, FixRead, FixKilled, FixUpsert, FixDelete
<1> SUFFICES MirrorTypeOK'
  BY <1>1 DEF MirrorInv
<1> DEFINE Fixes == [upserts : SUBSET Entry, deletes : SUBSET Tasks]
<1>2. /\ fixer = [upserts |-> fixer.upserts, deletes |-> fixer.deletes]
      /\ fixer.upserts \in SUBSET Entry /\ fixer.deletes \in SUBSET Tasks
      /\ row \in [Tasks -> 0..MaxWrites] /\ queue \in Queue /\ 0 \in 0..MaxWrites
  BY MirrorAssumption DEF MirrorInv, MirrorTypeOK
<1>3. CASE FixRead
  <2>1. {<<t, file[t]>> : t \in {a \in Active : row[a] # file[a]}} \in SUBSET Entry
    BY ActiveEntry DEF MirrorInv
  <2>2. Doomed \in SUBSET Tasks
    BY DEF Doomed, MirrorInv, MirrorTypeOK
  <2>3. fixer' \in Fixes
    BY <1>3, <2>1, <2>2 DEF FixRead
  <2> QED  BY <1>3, <2>3 DEF FixRead, MirrorInv, MirrorTypeOK, files
<1>4. CASE FixKilled
  BY <1>4 DEF FixKilled, NoFix, MirrorInv, MirrorTypeOK, files
<1>5. ASSUME NEW e \in Entry, FixUpsert(e)
      PROVE  MirrorTypeOK'
  <2>1. fixer' \in Fixes
    BY <1>2, <1>5 DEF FixUpsert
  <2>2. [row EXCEPT ![e[1]] = e[2]] \in [Tasks -> 0..MaxWrites] /\ Enqueued(queue, e) \in Queue
    BY <1>2, EnqueuedIs DEF Entry
  <2>3. row' \in [Tasks -> 0..MaxWrites] /\ queue' \in Queue
    BY <1>2, <1>5, <2>2 DEF FixUpsert
  <2> QED  BY <1>5, <2>1, <2>3 DEF FixUpsert, MirrorInv, MirrorTypeOK, files
<1>6. ASSUME NEW t \in Tasks, FixDelete(t)
      PROVE  MirrorTypeOK'
  <2>1. fixer' \in Fixes
    BY <1>2, <1>6 DEF FixDelete
  <2>2. row' \in [Tasks -> 0..MaxWrites]
    BY <1>2, <1>6 DEF FixDelete
  <2> QED  BY <1>6, <2>1, <2>2 DEF FixDelete, MirrorInv, MirrorTypeOK, files
<1> QED  BY <1>3, <1>4, <1>5, <1>6

LEMMA MirrorKeeps == MirrorInv /\ [MirrorNext]_mvars => MirrorInv'
PROOF
<1> SUFFICES ASSUME MirrorInv, [MirrorNext]_mvars PROVE MirrorInv'
  OBVIOUS
<1>1. CASE UNCHANGED mvars
  BY <1>1 DEF mvars, MirrorInv, MirrorTypeOK, PassFits
<1>2. CASE PgFlips
  BY <1>2 DEF PgFlips, MirrorInv, MirrorTypeOK, PassFits, files
<1> QED
  BY <1>1, <1>2, CommandStep, HandlerStep, FlushStep, RestartStep, FixStep DEF MirrorNext

(* At all times the retry file, what a handler read of it, and what a pass *)
(* of the flusher has to do or could not do hold at most RETRY_QUEUE_MAX   *)
(* entries and one for each task (pg_store.py:2050-2095): for any number   *)
(* of tasks, handlers and writes, whoever writes the file over whom.       *)
THEOREM MirrorTypes == MirrorSpec => []MirrorTypeOK
<1> QED  BY MirrorBegins, MirrorKeeps, PTL DEF MirrorSpec, MirrorInv

-----------------------------------------------------------------------------
(* The code index.                                                         *)

(* The keys a rebuild has left to store are keys of the graph it built.    *)
LeftIsBuilt ==
    \A r \in Requests :
        request[r].pc \in {"store", "dependents"} => request[r].left \subseteq DOMAIN request[r].built

(* The chunk of a row is the one that some version of the file has there.   *)
OfTheFile(R) ==
    \A p \in DOMAIN R : \E v \in Versions : p \in DOMAIN Chunks[v] /\ R[p].chunk = Chunks[v][p]

IndexInv == IndexTypeOK /\ LeftIsBuilt /\ OfTheFile(rows)

LEMMA IndexBegins == IndexInit => IndexInv
PROOF
<1> SUFFICES ASSUME IndexInit PROVE IndexInv
  OBVIOUS
<1>1. rows \in RowSets
  <2>1. << >> \in [{} -> Row]
    OBVIOUS
  <2> QED  BY <2>1 DEF IndexInit, RowSets
<1>2. graph \in [Symbols -> (SUBSET Symbols) \cup {Missing}]
  BY DEF IndexInit
<1>3. request \in [Requests -> RequestState]
  BY DEF IndexInit, RequestState
<1>4. OfTheFile(rows)
  BY DEF IndexInit, OfTheFile
<1> QED  BY <1>1, <1>2, <1>3, <1>4 DEF IndexInit, IndexInv, IndexTypeOK, LeftIsBuilt, Waiting

(* What a record of a request holds.                                       *)
LEMMA RequestIs ==
    ASSUME NEW s \in RequestState
    PROVE  /\ s.pc \in {"check", "hash", "chunk", "upsert"} => s.kind \in Kinds
           /\ s.pc \in {"chunk", "upsert"} => s.sha \in Versions
           /\ s.pc = "upsert" => s.chunks \in {Chunks[v] : v \in Versions}
           /\ s.pc \in {"store", "dependents"} =>
                 /\ s = [pc |-> s.pc, built |-> s.built, left |-> s.left]
                 /\ s.built \in GraphType /\ s.left \in SUBSET Symbols
BY DEF RequestState, Waiting

LEMMA RowsHave ==
    ASSUME NEW R \in RowSets
    PROVE  /\ R \in [DOMAIN R -> Row] /\ DOMAIN R \in SUBSET Places
           /\ \A p \in DOMAIN R : p \in Symbols \X Nat /\ p[1] \in Symbols
PROOF
<1>1. PICK S \in SUBSET Places : R \in [S -> Row]
  BY DEF RowSets
<1> QED  BY <1>1, IndexAssumption

LEMMA RowsMade ==
    ASSUME NEW S \in SUBSET Places, NEW R \in [S -> Row]
    PROVE  R \in RowSets
BY DEF RowSets

LEMMA GraphOfTypes ==
    ASSUME NEW R \in RowSets
    PROVE  GraphOf(R) \in GraphType
PROOF
<1>1. Nodes(R) \in SUBSET Symbols
  BY RowsHave DEF Nodes
<1>2. GraphOf(R) \in [Nodes(R) -> SUBSET Symbols]
  <2> DEFINE Calls(s) == UNION {R[p].chunk : p \in {q \in DOMAIN R : q[1] = s}}
  <2>1. GraphOf(R) = [s \in Nodes(R) |-> (Calls(s) \cap Nodes(R)) \ {s}]
    BY DEF GraphOf
  <2> HIDE DEF Calls
  <2>2. \A s : (Calls(s) \cap Nodes(R)) \ {s} \in SUBSET Symbols
    BY <1>1
  <2> QED  BY <2>1, <2>2
<1> QED  BY <1>1, <1>2 DEF GraphType

LEMMA GraphHas ==
    ASSUME NEW G \in GraphType
    PROVE  /\ DOMAIN G \in SUBSET Symbols /\ G \in [DOMAIN G -> SUBSET Symbols]
           /\ \A s : CallersIn(G, s) \in SUBSET Symbols
PROOF
<1>1. PICK S \in SUBSET Symbols : G \in [S -> SUBSET Symbols]
  BY DEF GraphType
<1> QED  BY <1>1 DEF CallersIn

LEMMA UpsertedTypes ==
    ASSUME NEW R \in RowSets, NEW chunks \in {Chunks[v] : v \in Versions}, NEW sha \in Versions
    PROVE  /\ Upserted(R, chunks, sha) \in RowSets
           /\ OfTheFile(R) => OfTheFile(Upserted(R, chunks, sha))
PROOF
<1>1. PICK v \in Versions : chunks = Chunks[v]
  OBVIOUS
<1>2. PICK S \in SUBSET Places : chunks \in [S -> SUBSET Symbols]
  BY <1>1, IndexAssumption
<1>3. R \in [DOMAIN R -> Row] /\ DOMAIN R \in SUBSET Places
  BY RowsHave
<1>4. DOMAIN R \cup DOMAIN chunks \in SUBSET Places
  BY <1>2, <1>3
<1>5. \A p \in DOMAIN chunks : [chunk |-> chunks[p], sha |-> sha, dependents |-> {}] \in Row
  BY <1>2 DEF Row
<1>6. Upserted(R, chunks, sha) \in [DOMAIN R \cup DOMAIN chunks -> Row]
  BY <1>3, <1>5 DEF Upserted
<1>7. Upserted(R, chunks, sha) \in RowSets
  BY <1>4, <1>6, RowsMade
<1>8. ASSUME OfTheFile(R), NEW p \in DOMAIN R \cup DOMAIN chunks
      PROVE  \E w \in Versions : /\ p \in DOMAIN Chunks[w]
                                 /\ Upserted(R, chunks, sha)[p].chunk = Chunks[w][p]
  <2>1. CASE p \in DOMAIN chunks
    <3>1. Upserted(R, chunks, sha)[p].chunk = chunks[p]
      BY <2>1 DEF Upserted
    <3> QED  BY <1>1, <2>1, <3>1
  <2>2. CASE p \notin DOMAIN chunks
    <3>1. p \in DOMAIN R /\ Upserted(R, chunks, sha)[p] = R[p]
      BY <2>2 DEF Upserted
    <3> QED  BY <1>8, <3>1 DEF OfTheFile
  <2> QED  BY <2>1, <2>2
<1>9. DOMAIN Upserted(R, chunks, sha) = DOMAIN R \cup DOMAIN chunks
  BY DEF Upserted
<1> QED  BY <1>7, <1>8, <1>9 DEF OfTheFile

(* A request that goes on.                                                 *)
LEMMA GoesTypes ==
    ASSUME IndexInv, NEW r \in Requests, NEW s \in RequestState, Goes(r, s),
           s.pc \in {"store", "dependents"} => s.left \subseteq DOMAIN s.built
    PROVE  request' \in [Requests -> RequestState] /\ LeftIsBuilt'
BY DEF IndexInv, IndexTypeOK, LeftIsBuilt, Goes

LEMMA EndTypes ==
    ASSUME IndexInv, NEW r \in Requests, NEW s \in {Waiting, [pc |-> "read"]}, Goes(r, s)
    PROVE  request' \in [Requests -> RequestState] /\ LeftIsBuilt'
PROOF
<1>1. s \in RequestState /\ s.pc \notin {"store", "dependents"}
  BY DEF RequestState, Waiting
<1> QED  BY <1>1, GoesTypes

LEMMA AfterIngestTypes ==
    ASSUME IndexInv, NEW r \in Requests, NEW inserted, AfterIngest(r, inserted)
    PROVE  request' \in [Requests -> RequestState] /\ LeftIsBuilt'
BY EndTypes DEF AfterIngest

(* The ingestion.                                                          *)
LEMMA IngestStep ==
    ASSUME IndexInv, NEW r \in Requests,
           \/ \E kind \in Kinds : Begin(r, kind)
           \/ FindsStale(r) \/ Skip(r) \/ Hash(r) \/ Chunk(r) \/ UpsertChunks(r) \/ IngestFails(r)
           \/ RequestDies(r)
    PROVE  IndexInv'
PROOF
<1>1. request[r] \in RequestState /\ source \in Versions /\ rows \in RowSets
  BY DEF IndexInv, IndexTypeOK
<1>2. /\ request[r].pc \in {"check", "hash", "chunk", "upsert"} => request[r].kind \in Kinds
      /\ request[r].pc \in {"chunk", "upsert"} => request[r].sha \in Versions
      /\ request[r].pc = "upsert" => request[r].chunks \in {Chunks[v] : v \in Versions}
  BY <1>1, RequestIs
<1>3. graph' = graph /\ source' = source
  BY DEF Begin, FindsStale, Skip, Hash, Chunk, UpsertChunks, IngestFails, RequestDies
<1>4. rows' \in RowSets /\ OfTheFile(rows')
  <2>1. CASE UpsertChunks(r)
    BY <1>1, <1>2, <2>1, UpsertedTypes DEF UpsertChunks, At, IndexInv
  <2>2. CASE ~ UpsertChunks(r)
    BY <1>1, <2>2 DEF Begin, FindsStale, Skip, Hash, Chunk, IngestFails, RequestDies, IndexInv
  <2> QED  BY <2>1, <2>2
<1>5. request' \in [Requests -> RequestState] /\ LeftIsBuilt'
  <2>1. ASSUME NEW kind \in Kinds, Begin(r, kind)
        PROVE  request' \in [Requests -> RequestState] /\ LeftIsBuilt'
    <3>1. /\ [pc |-> "hash", kind |-> kind] \in RequestState
          /\ [pc |-> "check", kind |-> kind] \in RequestState
      BY DEF RequestState
    <3>2. PICK s \in {[pc |-> "read"], [pc |-> "hash", kind |-> kind], [pc |-> "check", kind |-> kind]} :
             Goes(r, s)
      BY <2>1 DEF Begin
    <3> QED  BY <3>1, <3>2, GoesTypes, EndTypes
  <2>2. CASE FindsStale(r)
    <3>1. [pc |-> "hash", kind |-> request[r].kind] \in RequestState
      BY <1>2, <2>2 DEF FindsStale, At, RequestState
    <3> QED  BY <2>2, <3>1, GoesTypes DEF FindsStale
  <2>3. CASE Skip(r) \/ IngestFails(r)
    BY <2>3, AfterIngestTypes DEF Skip, IngestFails
  <2>4. CASE Hash(r)
    <3>1. [pc |-> "chunk", kind |-> request[r].kind, sha |-> source] \in RequestState
      BY <1>1, <1>2, <2>4 DEF Hash, At, RequestState
    <3> QED  BY <2>4, <3>1, GoesTypes DEF Hash
  <2>5. CASE Chunk(r)
    <3>1. [pc |-> "upsert", kind |-> request[r].kind, sha |-> request[r].sha,
           chunks |-> Chunks[source]] \in RequestState
      BY <1>1, <1>2, <2>5 DEF Chunk, At, RequestState
    <3> QED  BY <2>5, <3>1, GoesTypes, AfterIngestTypes DEF Chunk
  <2>6. CASE UpsertChunks(r)
    BY <2>6, AfterIngestTypes DEF UpsertChunks
  <2>7. CASE RequestDies(r)
    BY <2>7, EndTypes DEF RequestDies
  <2> QED  BY <2>1, <2>2, <2>3, <2>4, <2>5, <2>6, <2>7
<1> QED  BY <1>3, <1>4, <1>5 DEF IndexInv, IndexTypeOK

(* rebuild_graph.                                                          *)
LEMMA RebuildStep ==
    ASSUME IndexInv, NEW r \in Requests,
           ReadRows(r) \/ StoreNode(r) \/ StoreFails(r) \/ UpdateDependents(r)
    PROVE  IndexInv'
PROOF
<1> DEFINE req == request[r]
<1>1. /\ req \in RequestState /\ source \in Versions /\ rows \in RowSets
      /\ graph \in [Symbols -> (SUBSET Symbols) \cup {Missing}]
      /\ req.pc \in {"store", "dependents"} => req.left \subseteq DOMAIN req.built
  BY DEF IndexInv, IndexTypeOK, LeftIsBuilt
<1>2. ASSUME req.pc \in {"store", "dependents"}
      PROVE  /\ req = [pc |-> req.pc, built |-> req.built, left |-> req.left]
             /\ req.built \in GraphType /\ req.left \in SUBSET Symbols
  BY <1>1, <1>2, RequestIs
<1> HIDE DEF req
<1>3. ASSUME req.pc = "store", NEW left \in SUBSET req.left, Stored(r, left)
      PROVE  request' \in [Requests -> RequestState] /\ LeftIsBuilt'
  <2> DEFINE next == IF left = {} THEN "dependents" ELSE "store"
             s == [pc |-> next, built |-> req.built, left |-> left]
  <2>1. s \in RequestState /\ s.left \subseteq DOMAIN s.built
    BY <1>1, <1>2, <1>3 DEF RequestState
  <2>2. Goes(r, s)
    BY <1>3 DEF Stored, req
  <2> HIDE DEF s
  <2> QED  BY <2>1, <2>2, GoesTypes
<1>4. CASE ReadRows(r)
  <2> DEFINE G == GraphOf(rows)
             s == [pc |-> IF DOMAIN G = {} THEN "dependents" ELSE "store",
                   built |-> G, left |-> DOMAIN G]
  <2>1. G \in GraphType /\ DOMAIN G \in SUBSET Symbols
    BY <1>1, GraphOfTypes, GraphHas
  <2>2. Goes(r, s)
    BY <1>4 DEF ReadRows
  <2> HIDE DEF G
  <2>3. s \in RequestState /\ s.left \subseteq DOMAIN s.built
    BY <2>1 DEF RequestState
  <2> HIDE DEF s
  <2>4. request' \in [Requests -> RequestState] /\ LeftIsBuilt'
    BY <2>2, <2>3, GoesTypes
  <2> QED  BY <1>1, <1>4, <2>4 DEF ReadRows, IndexInv, IndexTypeOK
<1>5. CASE StoreNode(r)
  <2>1. PICK s \in req.left : graph' = [graph EXCEPT ![s] = req.built[s]] /\ Stored(r, req.left \ {s})
    BY <1>5 DEF StoreNode, req
  <2>2. req.pc = "store"
    BY <1>5 DEF StoreNode, At, req
  <2>3. request' \in [Requests -> RequestState] /\ LeftIsBuilt'
    BY <1>3, <2>1, <2>2
  <2>4. req.built[s] \in SUBSET Symbols
    BY <1>1, <1>2, <2>1, <2>2, GraphHas
  <2>5. graph' \in [Symbols -> (SUBSET Symbols) \cup {Missing}]
    BY <1>1, <2>1, <2>4
  <2> QED  BY <1>1, <1>5, <2>3, <2>5 DEF StoreNode, IndexInv, IndexTypeOK
<1>6. CASE StoreFails(r)
  <2>1. req.pc = "store" /\ \E left \in SUBSET req.left : Stored(r, left)
    BY <1>6 DEF StoreFails, At, req
  <2>2. request' \in [Requests -> RequestState] /\ LeftIsBuilt'
    BY <1>3, <2>1
  <2> QED  BY <1>1, <1>6, <2>2 DEF StoreFails, IndexInv, IndexTypeOK
<1>7. CASE UpdateDependents(r)
  <2> DEFINE G == req.built
  <2>1. G \in GraphType
    BY <1>2, <1>7 DEF UpdateDependents, At, req
  <2>2. \A s : CallersIn(G, s) \in SUBSET Symbols
    BY <2>1, GraphHas
  <2>3. rows \in [DOMAIN rows -> Row] /\ DOMAIN rows \in SUBSET Places
    BY <1>1, RowsHave
  <2>4. rows' = [p \in DOMAIN rows |->
                   IF CallersIn(G, p[1]) # {}
                   THEN [rows[p] EXCEPT !.dependents = CallersIn(G, p[1])]
                   ELSE rows[p]]
    BY <1>7 DEF UpdateDependents, req
  <2>5. \A p \in DOMAIN rows : [rows[p] EXCEPT !.dependents = CallersIn(G, p[1])] \in Row
    BY <2>2, <2>3 DEF Row
  <2> HIDE DEF G
  <2>6. rows' \in [DOMAIN rows -> Row]
    BY <2>3, <2>4, <2>5
  <2>7. rows' \in RowSets
    BY <2>3, <2>6, RowsMade
  <2>9. DOMAIN rows' = DOMAIN rows /\ \A p \in DOMAIN rows : rows'[p].chunk = rows[p].chunk
    BY <2>3, <2>4 DEF Row
  <2>10. OfTheFile(rows')
    BY <2>9 DEF IndexInv, OfTheFile
  <2>8. request' \in [Requests -> RequestState] /\ LeftIsBuilt'
    BY <1>7, EndTypes DEF UpdateDependents
  <2> QED  BY <1>1, <1>7, <2>7, <2>8, <2>10 DEF UpdateDependents, IndexInv, IndexTypeOK
<1> QED  BY <1>4, <1>5, <1>6, <1>7

LEMMA IndexKeeps == IndexInv /\ [IndexNext]_ivars => IndexInv'
PROOF
<1> SUFFICES ASSUME IndexInv, [IndexNext]_ivars PROVE IndexInv'
  OBVIOUS
<1>1. CASE UNCHANGED ivars
  BY <1>1 DEF ivars, IndexInv, IndexTypeOK, LeftIsBuilt
<1>2. CASE Edit
  BY <1>2 DEF Edit, IndexInv, IndexTypeOK, LeftIsBuilt
<1>3. CASE \E s \in Symbols : Expire(s)
  BY <1>3 DEF Expire, IndexInv, IndexTypeOK, LeftIsBuilt
<1> QED  BY <1>1, <1>2, <1>3, IngestStep, RebuildStep DEF IndexNext

(* Rows, graph and requests keep their types, for any versions of the file  *)
(* and any number of requests: however ingestions and rebuilds overlap, a   *)
(* rebuild finds every key it stores in the graph it built (rlm_graph.py).  *)
THEOREM IndexTypes == IndexSpec => []IndexTypeOK
<1> QED  BY IndexBegins, IndexKeeps, PTL DEF IndexSpec, IndexInv

(* However slow ingestions overlap with edits and with each other, each row *)
(* holds what one and the same version of the file has at its place, if not *)
(* of the version its sha256 names: an ingestion reads the file for the     *)
(* hash and again for the chunks (rlm_ingestion.py:136-234).                *)
THEOREM RowsComeFromTheFile == IndexSpec => []OfTheFile(rows)
<1> QED  BY IndexBegins, IndexKeeps, PTL DEF IndexSpec, IndexInv

-----------------------------------------------------------------------------
(* The three together.                                                     *)

(* Whichever of the three runs, the types of all hold.                     *)
THEOREM DaemonTypes == MCSpec => []DaemonTypeOK
<1> DEFINE Inv == MirrorInv /\ IndexInv /\ ServicesInv
<1>1. MCInit => Inv
  BY MirrorBegins, IndexBegins, ServicesBegin DEF MCInit
<1>2. Inv /\ [MCNext]_allVars => Inv'
  <2> SUFFICES ASSUME Inv, [MCNext]_allVars PROVE Inv'
    OBVIOUS
  <2>1. [MirrorNext]_mvars /\ [IndexNext]_ivars /\ [Next]_vars
    BY DEF MCNext, InMirror, InIndex, InServices, allVars
  <2> QED  BY <2>1, MirrorKeeps, IndexKeeps, ServicesKeep
<1>3. Inv => DaemonTypeOK
  BY DEF MirrorInv, IndexInv, ServicesInv, DaemonTypeOK
<1> QED  BY <1>1, <1>2, <1>3, PTL DEF MCSpec
===============================================================================
