--------------------------- MODULE DaemonServices ---------------------------
(***************************************************************************)
(* The services the daemon manages (src/services/amauta-daemon.py): the    *)
(* RLM subprocess and the Redis connection, the main thread that starts    *)
(* and stops them, and the two watchdog threads that bring them back.      *)
(* RLM processes run in sessions of their own and survive the daemon; all  *)
(* compete for one port, which a closed socket keeps busy for a while.     *)
(***************************************************************************)
EXTENDS Naturals, FiniteSets

CONSTANTS
    Procs,          \* RLM processes the daemon may have started
    External,       \* an RLM process somebody else starts
    None,
    Closing,        \* the port while the kernel holds a closed socket
    MaxRestarts     \* RLM_MAX_RESTARTS and REDIS_MAX_RESTARTS

ASSUME ServicesAssumption ==
    /\ Procs # {} /\ IsFiniteSet(Procs)
    /\ External \notin Procs /\ None # Closing
    /\ {None, Closing} \cap (Procs \cup {External}) = {}
    /\ MaxRestarts \in Nat \ {0}

VARIABLES
    main,       \* the main thread
    start,      \* where each thread is in _start_rlm
    handle,     \* _rlm_process
    proc,       \* what each RLM process is doing
    port,       \* who holds RLM_PORT
    rlm,        \* the RLM watchdog: its place, restart count and uptime gate
    redis,      \* the Redis watchdog: likewise
    redisUp,    \* the Redis server answers
    client      \* _redis_client is connected

vars == <<main, start, handle, proc, port, rlm, redis, redisUp, client>>
rlmVars == <<start, handle, proc, port, rlm>>
redisVars == <<redis, redisUp, client>>

Instances == Procs \cup {External}
Threads == {"main", "watchdog"}
Uptimes == {"none", "young", "old"}         \* last_successful_uptime: unset, under 300 s, over
Loop == [pc: {"off", "check", "backoff", "start", "cooldown"}, count: 0..MaxRestarts, uptime: Uptimes]
Fresh == [pc |-> "off", count |-> 0, uptime |-> "none"]

(* The type of the state. *)
ServicesTypeOK ==
    /\ main \in {"off", "start_rlm", "start_redis", "serving", "stopping", "exiting"}
    /\ start \in [Threads -> {"idle", "probe", "await", "health"}]
    /\ handle \in Procs \cup {None}
    /\ proc \in [Instances -> {"dead", "booting", "up", "hung"}]
    /\ port \in Instances \cup {None, Closing}
    /\ rlm \in Loop /\ redis \in Loop
    /\ redisUp \in BOOLEAN /\ client \in BOOLEAN

Init ==
    /\ main = "off" /\ start = [t \in Threads |-> "idle"]
    /\ handle = None /\ proc = [p \in Instances |-> "dead"] /\ port = None
    /\ rlm = Fresh /\ redis = Fresh
    /\ redisUp \in BOOLEAN /\ client = FALSE

Alive(p) == proc[p] # "dead"
HasBudget(loop) == loop.count < MaxRestarts
Rested_KeepsCount(loop) == [loop EXCEPT !.pc = "check", !.uptime = "none"]     \* mutant: at the cap for ever
Rested(loop) == [loop EXCEPT !.pc = "check", !.count = 0, !.uptime = "none"]
Answers == port \in Instances /\ proc[port] = "up"      \* _check_rlm_health

-----------------------------------------------------------------------------
(* The processes.                                                          *)

\* Ends the processes in P; the port of one of them lingers.
Ended(P) ==
    /\ proc' = [p \in Instances |-> IF p \in P THEN "dead" ELSE proc[p]]
    /\ port' = IF port \in P THEN Closing ELSE port

\* A started process binds the port, or leaves if it is taken.
Boots ==
    \E p \in Procs :
        /\ proc[p] = "booting"
        /\ IF port = None
           THEN proc' = [proc EXCEPT ![p] = "up"] /\ port' = p
           ELSE proc' = [proc EXCEPT ![p] = "dead"] /\ UNCHANGED port
        /\ UNCHANGED <<main, start, handle, rlm, redisVars>>

Crash ==
    \E p \in Instances :
        /\ Alive(p) /\ Ended({p})
        /\ UNCHANGED <<main, start, handle, rlm, redisVars>>

Hang ==
    \E p \in Instances :
        /\ proc[p] = "up" /\ proc' = [proc EXCEPT ![p] = "hung"]
        /\ UNCHANGED <<main, start, handle, port, rlm, redisVars>>

Thaw ==
    \E p \in Instances :
        /\ proc[p] = "hung" /\ proc' = [proc EXCEPT ![p] = "up"]
        /\ UNCHANGED <<main, start, handle, port, rlm, redisVars>>

StartedByHand ==
    /\ port = None /\ ~Alive(External)
    /\ proc' = [proc EXCEPT ![External] = "up"] /\ port' = External
    /\ UNCHANGED <<main, start, handle, rlm, redisVars>>

PortClears ==
    /\ port = Closing /\ port' = None
    /\ UNCHANGED <<main, start, handle, proc, rlm, redisVars>>

-----------------------------------------------------------------------------
(* _start_rlm, run by the main thread once and by the watchdog thread.     *)

\* What follows the return of _start_rlm in the thread that called it.
Returned(t) ==
    /\ start' = [start EXCEPT ![t] = "idle"]
    /\ IF t = "main" THEN main' = "start_redis" ELSE UNCHANGED main

ReturnedTo(t, count) ==
    rlm' = IF t = "main"
           THEN [rlm EXCEPT !.count = count, !.pc = "check"]
           ELSE [rlm EXCEPT !.count = count, !.uptime = "none", !.pc = "check"]

\* The port is free, or its holders are killed.
Probe(t) ==
    /\ start[t] = "probe"
    /\ start' = [start EXCEPT ![t] = "await"]
    /\ Ended({port} \cap Instances)
    /\ UNCHANGED <<main, handle, rlm, redisVars>>

\* lsof is missing, or the holder belongs to another user.
ProbeKillsNobody(t) ==
    /\ start[t] = "probe" /\ port \in Instances
    /\ start' = [start EXCEPT ![t] = "await"]
    /\ UNCHANGED <<main, handle, proc, port, rlm, redisVars>>

Launch(t) ==
    /\ start[t] = "await" /\ port = None
    /\ \E p \in Procs \ {handle} :
        /\ ~Alive(p)
        /\ proc' = [proc EXCEPT ![p] = "booting"]
        /\ handle' = p
    /\ start' = [start EXCEPT ![t] = "health"]
    /\ UNCHANGED <<main, port, rlm, redisVars>>

\* The port stays busy for 45 s, or Popen raises. TIME_WAIT alone is shorter.
LaunchFails(t) ==
    /\ start[t] = "await" /\ port # Closing
    /\ Returned(t) /\ ReturnedTo(t, rlm.count)
    /\ UNCHANGED <<handle, proc, port, redisVars>>

\* Whoever holds the port answers the health request.
StartSucceeds(t) ==
    /\ start[t] = "health" /\ Answers
    /\ Returned(t) /\ ReturnedTo(t, 0)
    /\ UNCHANGED <<handle, proc, port, redisVars>>

StartTimesOut(t) ==
    /\ start[t] = "health" /\ ~Answers
    /\ Returned(t) /\ ReturnedTo(t, rlm.count)
    /\ UNCHANGED <<handle, proc, port, redisVars>>

-----------------------------------------------------------------------------
(* _rlm_watchdog                                                           *)

\* A process without a handle that answers is adopted.
RlmHealthy == Answers /\ (handle # None => Alive(handle))

WatchdogSeesHealth ==
    /\ rlm.pc = "check" /\ RlmHealthy
    /\ rlm' = CASE rlm.uptime = "none" -> [rlm EXCEPT !.uptime = "young"]
                [] rlm.count > 0 /\ rlm.uptime = "old" -> [rlm EXCEPT !.count = 0]
                [] OTHER -> rlm
    /\ UNCHANGED <<main, start, handle, proc, port, redisVars>>

\* Mutant: the old process is not stopped.
WatchdogRestarts_NoStop ==
    /\ rlm.pc = "check" /\ ~RlmHealthy /\ HasBudget(rlm)
    /\ rlm' = [rlm EXCEPT !.count = @ + 1, !.pc = "backoff"]
    /\ UNCHANGED <<main, start, handle, proc, port, redisVars>>

\* The budget, then _stop_rlm; the back-off follows.
WatchdogRestarts ==
    /\ rlm.pc = "check" /\ ~RlmHealthy /\ HasBudget(rlm)
    /\ rlm' = [rlm EXCEPT !.count = @ + 1, !.pc = "backoff"]
    /\ Ended({handle} \cap Procs)
    /\ handle' = None
    /\ UNCHANGED <<main, start, redisVars>>

WatchdogStarts ==
    /\ rlm.pc = "backoff"
    /\ rlm' = [rlm EXCEPT !.pc = "start"]
    /\ start' = [start EXCEPT !["watchdog"] = "probe"]
    /\ UNCHANGED <<main, handle, proc, port, redisVars>>

WatchdogGivesPause ==
    /\ rlm.pc = "check" /\ ~RlmHealthy /\ ~HasBudget(rlm)
    /\ rlm' = [rlm EXCEPT !.pc = "cooldown"]
    /\ UNCHANGED <<main, start, handle, proc, port, redisVars>>

CooldownEnds ==
    /\ rlm.pc = "cooldown"
    /\ rlm' = Rested(rlm)
    /\ UNCHANGED <<main, start, handle, proc, port, redisVars>>

\* 300 s since the first healthy look.
RlmUptimePasses ==
    /\ rlm.uptime = "young" /\ rlm' = [rlm EXCEPT !.uptime = "old"]
    /\ UNCHANGED <<main, start, handle, proc, port, redisVars>>

-----------------------------------------------------------------------------
(* _redis_watchdog and _start_redis                                        *)

\* _start_redis: connect, or start the container and connect.
ConnectRedis ==
    \/ redisUp /\ client' = TRUE /\ UNCHANGED redisUp
    \/ ~redisUp /\ client' = TRUE /\ redisUp' = TRUE
    \/ ~redisUp /\ client' = FALSE /\ UNCHANGED redisUp

\* Mutant: a client that was never made is not reconnected.
RedisHealthy_NoClient == client => redisUp
RedisHealthy == client /\ redisUp                       \* _check_redis_health

RedisSeesHealth ==
    /\ redis.pc = "check" /\ RedisHealthy
    /\ redis' = CASE redis.uptime = "none" -> [redis EXCEPT !.uptime = "young"]
                  [] redis.count > 0 /\ redis.uptime = "old" -> [redis EXCEPT !.count = 0]
                  [] OTHER -> redis
    /\ UNCHANGED <<main, rlmVars, redisUp, client>>

RedisReconnects ==
    /\ redis.pc = "check" /\ ~RedisHealthy /\ HasBudget(redis)
    /\ redis' = [redis EXCEPT !.count = @ + 1, !.pc = "backoff"]
    /\ client' = FALSE
    /\ UNCHANGED <<main, rlmVars, redisUp>>

RedisStarts ==
    /\ redis.pc = "backoff" /\ ConnectRedis
    /\ redis' = [pc |-> "check", count |-> IF client' THEN 0 ELSE redis.count, uptime |-> "none"]
    /\ UNCHANGED <<main, rlmVars>>

RedisGivesPause ==
    /\ redis.pc = "check" /\ ~RedisHealthy /\ ~HasBudget(redis)
    /\ redis' = [redis EXCEPT !.pc = "cooldown"]
    /\ UNCHANGED <<main, rlmVars, redisUp, client>>

RedisCooldownEnds ==
    /\ redis.pc = "cooldown"
    /\ redis' = Rested(redis)
    /\ UNCHANGED <<main, rlmVars, redisUp, client>>

RedisUptimePasses ==
    /\ redis.uptime = "young" /\ redis' = [redis EXCEPT !.uptime = "old"]
    /\ UNCHANGED <<main, rlmVars, redisUp, client>>

RedisFails ==
    /\ redisUp /\ redisUp' = FALSE
    /\ UNCHANGED <<main, rlmVars, redis, client>>

RedisRecovers ==
    /\ ~redisUp /\ redisUp' = TRUE
    /\ UNCHANGED <<main, rlmVars, redis, client>>

-----------------------------------------------------------------------------
(* The main thread: start_server and its finally block                     *)

Boot ==
    /\ main = "off" /\ main' = "start_rlm"
    /\ start' = [start EXCEPT !["main"] = "probe"]
    /\ UNCHANGED <<handle, proc, port, rlm, redisVars>>

\* The Redis thread exists only if the first connection succeeded.
BootRedis ==
    /\ main = "start_redis" /\ ConnectRedis
    /\ main' = "serving"
    /\ redis' = IF client' THEN [redis EXCEPT !.pc = "check"] ELSE redis
    /\ UNCHANGED rlmVars

\* The threads end with the process, the RLM processes do not.
Gone ==
    /\ main' = "off" /\ start' = [t \in Threads |-> "idle"]
    /\ handle' = None /\ rlm' = Fresh /\ redis' = Fresh /\ client' = FALSE
    /\ UNCHANGED <<proc, port, redisUp>>

Terminate == main = "serving" /\ main' = "stopping" /\ UNCHANGED <<rlmVars, redisVars>>

\* _stop_redis and _stop_rlm, while the watchdog threads still run.
TearDown ==
    /\ main = "stopping" /\ main' = "exiting"
    /\ client' = FALSE
    /\ Ended({handle} \cap Procs) /\ handle' = None
    /\ UNCHANGED <<start, rlm, redis, redisUp>>

Exit == main = "exiting" /\ Gone

\* SIGKILL, or SIGTERM before the try block: no teardown at all.
Killed == main \notin {"off", "exiting"} /\ Gone

-----------------------------------------------------------------------------
Start(t) == Probe(t) \/ Launch(t) \/ LaunchFails(t) \/ StartSucceeds(t) \/ StartTimesOut(t)
RlmThread ==
    \/ WatchdogSeesHealth \/ WatchdogRestarts \/ WatchdogStarts \/ WatchdogGivesPause \/ CooldownEnds
    \/ Start("watchdog")
RedisThread ==
    RedisSeesHealth \/ RedisReconnects \/ RedisStarts \/ RedisGivesPause \/ RedisCooldownEnds
Fault ==
    \/ Crash \/ Hang \/ StartedByHand \/ RedisFails \/ Terminate \/ Killed
    \/ \E t \in Threads : ProbeKillsNobody(t)

Next ==
    \/ RlmThread \/ RedisThread \/ Fault
    \/ Boot \/ Start("main") \/ BootRedis \/ TearDown \/ Exit
    \/ Boots \/ Thaw \/ PortClears \/ RlmUptimePasses \/ RedisUptimePasses \/ RedisRecovers

Spec == Init /\ [][Next]_vars

\* The watchdog threads go on, a closed socket is let go, a started process
\* is not kept from binding the port for ever.
RlmFairness ==
    /\ WF_vars(RlmThread) /\ WF_vars(PortClears) /\ SF_vars(Boots)
    /\ SF_vars(Launch("watchdog")) /\ SF_vars(StartSucceeds("watchdog"))
RedisFairness == WF_vars(RedisThread)

-----------------------------------------------------------------------------
(* Properties. Each names the fairness it needs.                           *)

(* While the daemon serves, it lets go of the handle of an RLM process only *)
(* with the process ended: one that is still running would hold or take the *)
(* port with nobody to stop it.                                             *)
HandleKept ==
    [][main' = "serving" /\ handle' # handle /\ handle # None => proc'[handle] = "dead"]_vars

(* However often RLM crashed, hung, failed to start or found its port taken, *)
(* it answers for good once the daemon stays up and faults end: neither the  *)
(* budget, the cooldown nor a failed first start leaves it down              *)
(* (amauta-daemon.py:605-625).                                               *)
RlmReturns ==
    RlmFairness /\ <>[](main = "serving") /\ <>[][~Fault]_vars => <>[]Answers

(* A Redis thread that exists reconnects once the server is there to stay.   *)
RedisReturns ==
    RedisFairness /\ <>[](main = "serving" /\ redis.pc # "off") /\ <>[]redisUp => <>[]client
=============================================================================
