----------------------------- MODULE TaskMirror -----------------------------
(***************************************************************************)
(* The mirror of tasks.json in the table gsd_tasks.  After each mutating   *)
(* command an HTTP handler of the daemon reads the one task it names again *)
(* and upserts it; a failed upsert goes to a retry file, which a thread    *)
(* flushes; a restart of the daemon upserts every active task; `reconcile  *)
(* --fix` compares both sides.  Handlers, the flusher and reconcile run    *)
(* side by side and none of this is under a lock.                          *)
(*                                                                         *)
(* The content of a task is the number of the write that made it, so a row *)
(* is stale when its number is not the one in the file.  TaskBoard says    *)
(* what the commands write; here a command is any write.                   *)
(***************************************************************************)
EXTENDS Naturals, Sequences, FiniteSets, SequencesExt

CONSTANTS
    Tasks,           \* task ids
    Handlers,        \* the handler threads of the HTTP server
    MaxWrites,       \* bound on the writes to tasks.json
    RETRY_QUEUE_MAX  \* bound of the retry file (1000 in the code)

ASSUME MirrorAssumption ==
    IsFiniteSet(Tasks) /\ MaxWrites \in Nat /\ RETRY_QUEUE_MAX \in Nat \ {0}

VARIABLES
    file,      \* tasks.json: the version of each task, 0 when it is not there
    archived,  \* the ids in tasks-archive.json
    writes,    \* the number of writes so far
    row,       \* gsd_tasks: the version of each row, 0 when there is none
    queue,     \* pg_retry_queue.json: failed upserts, oldest first
    pgUp,      \* whether PostgreSQL answers
    store,     \* the store the daemon chose when it started
    handler,   \* what each handler thread is about to do
    flusher,   \* the pass of the flusher: entries to do, entries that failed
    fixer      \* the pass of reconcile --fix: upserts and deletes to do

files == <<file, archived, writes>>
mvars == <<file, archived, writes, row, queue, pgUp, store, handler, flusher, fixer>>

Entry == Tasks \X (1..MaxWrites)

\* No more entries than the bound, and one for each task.
Queue ==
    {q \in BoundedSeq(Entry, RETRY_QUEUE_MAX) :
        \A i, j \in DOMAIN q : q[i][1] = q[j][1] => i = j}

Active == {t \in Tasks : file[t] # 0}

Idle == [pc |-> "idle"]
NoPass == [on |-> FALSE, todo |-> <<>>, failed |-> <<>>]
NoFix == [upserts |-> {}, deletes |-> {}]

HandlerState ==
    {Idle} \cup [pc : {"reread", "delete"}, task : Tasks]
           \cup [pc : {"upsert", "enqueue"}, entry : Entry]
           \cup [pc : {"save"}, entry : Entry, seen : Queue]

MirrorTypeOK ==
    /\ file \in [Tasks -> 0..MaxWrites] /\ archived \subseteq Tasks
    /\ writes \in 0..MaxWrites
    /\ row \in [Tasks -> 0..MaxWrites]
    /\ queue \in Queue
    /\ pgUp \in BOOLEAN /\ store \in {"pg", "sqlite"}
    /\ handler \in [Handlers -> HandlerState]
    /\ flusher \in [on : BOOLEAN, todo : Queue, failed : Queue]
    /\ fixer \in [upserts : SUBSET Entry, deletes : SUBSET Tasks]

MirrorInit ==
    /\ file = [t \in Tasks |-> 0] /\ archived = {} /\ writes = 0
    /\ row = [t \in Tasks |-> 0] /\ queue = <<>>
    /\ pgUp = TRUE /\ store = "pg"
    /\ handler = [h \in Handlers |-> Idle]
    /\ flusher = NoPass /\ fixer = NoFix

----------------------------------------------------------------------------
(* The retry file.                                                         *)

\* Faulty variant: the file grows.
_saveRetryQueue_Unbounded(q) == q

\* The oldest entries go when the file is full.
_saveRetryQueue(q) ==
    IF Len(q) > RETRY_QUEUE_MAX
    THEN SubSeq(q, Len(q) - RETRY_QUEUE_MAX + 1, Len(q)) ELSE q

\* The entries of the other tasks, in their order.
Without(q, t) ==
    LET kept[n \in 0..Len(q)] ==
            IF n = 0 THEN <<>>
            ELSE IF q[n][1] = t THEN kept[n - 1]
            ELSE Append(kept[n - 1], q[n])
    IN  kept[Len(q)]

\* enqueue_retry: the entry replaces an older one of the same task.
Enqueued(q, e) == _saveRetryQueue(Append(Without(q, e[1]), e))

\* One upsert after the other fails.
EnqueuedAll(q, ts) ==
    LET after[n \in 0..Len(ts)] ==
            IF n = 0 THEN q ELSE Enqueued(after[n - 1], <<ts[n], file[ts[n]]>>)
    IN  after[Len(ts)]

----------------------------------------------------------------------------
(* Commands.                                                               *)

Becomes(h, s) == handler' = [handler EXCEPT ![h] = s]

Written(t) ==
    /\ writes < MaxWrites
    /\ writes' = writes + 1
    /\ file' = [file EXCEPT ![t] = writes + 1]
    /\ UNCHANGED archived

\* A command of a handler saves task t (or adds it): rc = 0, or the process
\* was killed after its commit, which the changed signature shows.
RunWrite(h, t) ==
    /\ handler[h] = Idle
    /\ Written(t)
    /\ Becomes(h, [pc |-> "reread", task |-> t])
    /\ UNCHANGED <<row, queue, pgUp, store, flusher, fixer>>

\* A command that saves t as it was, or fails while another process writes.
RunNoChange(h, t) ==
    /\ handler[h] = Idle
    /\ t \in Active
    /\ Becomes(h, [pc |-> "reread", task |-> t])
    /\ UNCHANGED <<files, row, queue, pgUp, store, flusher, fixer>>

\* A write that no handler mirrors: amauta.py run without the daemon, the
\* stale-task watchdog, the parent or a dependent of the named task, an add
\* killed after its commit (no id in the empty output).
RunUnmirrored(t) ==
    /\ Written(t)
    /\ UNCHANGED <<row, queue, pgUp, store, handler, flusher, fixer>>

\* The destructive mirror action is for rc = 0 only; a delete killed after
\* its commit goes on to the re-read.
RunDelete(h, t) ==
    /\ handler[h] = Idle
    /\ t \in Active
    /\ file' = [file EXCEPT ![t] = 0]
    /\ \E pc \in {"delete", "reread"} : Becomes(h, [pc |-> pc, task |-> t])
    /\ UNCHANGED <<archived, writes, row, queue, pgUp, store, flusher, fixer>>

\* The handler looks for ids in the output of archive, which names none.
RunArchive(t) ==
    /\ t \in Active
    /\ file' = [file EXCEPT ![t] = 0]
    /\ archived' = archived \cup {t}
    /\ UNCHANGED <<writes, row, queue, pgUp, store, handler, flusher, fixer>>

----------------------------------------------------------------------------
(* The mirror section of a handler.                                        *)

\* show --json: a task that is gone, or a timeout, ends in a warning.
Reread(h) ==
    /\ handler[h].pc = "reread"
    /\ LET t == handler[h].task
       IN  \/ Becomes(h, Idle)
           \/ /\ t \in Active
              /\ Becomes(h, [pc |-> "upsert", entry |-> <<t, file[t]>>])
    /\ UNCHANGED <<files, row, queue, pgUp, store, flusher, fixer>>

\* task_upsert.  The SQLite mirror is another table: rows stay.
Upsert(h) ==
    /\ handler[h].pc = "upsert"
    /\ LET e == handler[h].entry
       IN  \/ /\ store = "sqlite"
              /\ Becomes(h, Idle) /\ UNCHANGED row
           \/ /\ store = "pg" /\ pgUp
              /\ row' = [row EXCEPT ![e[1]] = e[2]]
              /\ Becomes(h, Idle)
           \/ /\ store = "pg" /\ ~ pgUp
              /\ Becomes(h, [pc |-> "enqueue", entry |-> e])
              /\ UNCHANGED row
    /\ UNCHANGED <<files, queue, pgUp, store, flusher, fixer>>

\* enqueue_retry reads the retry file and writes it, without a lock.
EnqueueLoad(h) ==
    /\ handler[h].pc = "enqueue"
    /\ Becomes(h, [pc |-> "save", entry |-> handler[h].entry, seen |-> queue])
    /\ UNCHANGED <<files, row, queue, pgUp, store, flusher, fixer>>

EnqueueSave(h) ==
    /\ handler[h].pc = "save"
    /\ queue' = Enqueued(handler[h].seen, handler[h].entry)
    /\ Becomes(h, Idle)
    /\ UNCHANGED <<files, row, pgUp, store, flusher, fixer>>

\* task_delete gives up silently, and leaves the retry file alone.
DeleteRow(h) ==
    /\ handler[h].pc = "delete"
    /\ row' = IF store = "pg" /\ pgUp
              THEN [row EXCEPT ![handler[h].task] = 0] ELSE row
    /\ Becomes(h, Idle)
    /\ UNCHANGED <<files, queue, pgUp, store, flusher, fixer>>

----------------------------------------------------------------------------
(* The flusher thread, the restart, reconcile --fix.                       *)

FlushBegin ==
    /\ store = "pg" /\ ~ flusher.on /\ queue # <<>>
    /\ flusher' = [on |-> TRUE, todo |-> queue, failed |-> <<>>]
    /\ UNCHANGED <<files, row, queue, pgUp, store, handler, fixer>>

\* One task_upsert of the pass; a failed one also enqueues its entry.
FlushOne ==
    /\ flusher.on /\ flusher.todo # <<>>
    /\ LET e == Head(flusher.todo)
       IN  IF pgUp
           THEN /\ row' = [row EXCEPT ![e[1]] = e[2]]
                /\ flusher' = [flusher EXCEPT !.todo = Tail(@)]
                /\ UNCHANGED queue
           ELSE /\ queue' = Enqueued(queue, e)
                /\ flusher' = [flusher EXCEPT !.todo = Tail(@),
                                              !.failed = Append(@, e)]
                /\ UNCHANGED row
    /\ UNCHANGED <<files, pgUp, store, handler, fixer>>

\* What failed replaces the file, with whatever was enqueued meanwhile.
FlushSave ==
    /\ flusher.on /\ flusher.todo = <<>>
    /\ queue' = _saveRetryQueue(flusher.failed)
    /\ flusher' = NoPass
    /\ UNCHANGED <<files, row, pgUp, store, handler, fixer>>

\* Faulty variant: only missing rows are upserted.
Synced_Missing(S) == [t \in Tasks |-> IF t \in S /\ row[t] = 0 THEN file[t] ELSE row[t]]

Synced(S) == [t \in Tasks |-> IF t \in S THEN file[t] ELSE row[t]]

\* A new daemon: its threads start over, and with PostgreSQL up it upserts
\* every active task (_reconcile_tasks_to_store).  PostgreSQL may be lost on
\* the way, and then the upserts that fail are enqueued.
Restart ==
    /\ handler' = [h \in Handlers |-> Idle]
    /\ flusher' = NoPass
    /\ IF pgUp
       THEN /\ store' = "pg"
            /\ \E S \in SUBSET Active :
                 /\ row' = Synced(S)
                 /\ pgUp' = (S = Active)
                 /\ \E failed \in SetToSeqs(Active \ S) : queue' = EnqueuedAll(queue, failed)
       ELSE store' = "sqlite" /\ UNCHANGED <<row, queue, pgUp>>
    /\ UNCHANGED <<files, fixer>>

\* Faulty variant: rows of archived tasks are reported and left.
Doomed_None == {}

\* The rows of archived tasks.  A row that is neither active nor archived is
\* only reported.
Doomed == {t \in archived \ Active : row[t] # 0}

\* reconcile reads the file and all rows, and then acts on what it read.
FixRead ==
    /\ pgUp /\ fixer = NoFix
    /\ fixer' = [upserts |-> {<<t, file[t]>> : t \in {a \in Active : row[a] # file[a]}},
                 deletes |-> Doomed]
    /\ UNCHANGED <<files, row, queue, pgUp, store, handler, flusher>>

FixUpsert(e) ==
    /\ e \in fixer.upserts
    /\ fixer' = [fixer EXCEPT !.upserts = @ \ {e}]
    /\ IF pgUp THEN row' = [row EXCEPT ![e[1]] = e[2]] /\ UNCHANGED queue
               ELSE queue' = Enqueued(queue, e) /\ UNCHANGED row
    /\ UNCHANGED <<files, pgUp, store, handler, flusher>>

FixDelete(t) ==
    /\ fixer.upserts = {} /\ t \in fixer.deletes
    /\ fixer' = [fixer EXCEPT !.deletes = @ \ {t}]
    /\ row' = IF pgUp THEN [row EXCEPT ![t] = 0] ELSE row
    /\ UNCHANGED <<files, queue, pgUp, store, handler, flusher>>

\* The subprocess runs into its time limit.
FixKilled ==
    /\ fixer # NoFix
    /\ fixer' = NoFix
    /\ UNCHANGED <<files, row, queue, pgUp, store, handler, flusher>>

\* PostgreSQL stops or comes back.
PgFlips ==
    /\ pgUp' = ~ pgUp
    /\ UNCHANGED <<files, row, queue, store, handler, flusher, fixer>>

----------------------------------------------------------------------------
MirrorNext ==
    \/ \E h \in Handlers, t \in Tasks :
            RunWrite(h, t) \/ RunNoChange(h, t) \/ RunDelete(h, t)
    \/ \E t \in Tasks : RunUnmirrored(t) \/ RunArchive(t)
    \/ \E h \in Handlers : Reread(h) \/ Upsert(h) \/ EnqueueLoad(h)
                           \/ EnqueueSave(h) \/ DeleteRow(h)
    \/ FlushBegin \/ FlushOne \/ FlushSave
    \/ Restart
    \/ FixRead \/ FixKilled
    \/ \E e \in Entry : FixUpsert(e)
    \/ \E t \in Tasks : FixDelete(t)
    \/ PgFlips

MirrorSpec == MirrorInit /\ [][MirrorNext]_mvars

\* The flusher thread goes on.
FlushFairness == WF_mvars(FlushBegin) /\ WF_mvars(FlushOne) /\ WF_mvars(FlushSave)

\* A started reconcile goes on, and is not killed each time before it comes
\* to the row of one and the same task.
FixFairness ==
    /\ WF_mvars(\E e \in Entry : FixUpsert(e))
    /\ \A t \in Tasks : SF_mvars(FixDelete(t))

----------------------------------------------------------------------------
(* Properties.  Each names the fairness it needs.                           *)

\* PostgreSQL stays up, the daemon is restarted sooner or later as long as a
\* restart changes anything, and not every pass of the flusher is cut off.
Steady ==
    /\ FlushFairness
    /\ <>[] pgUp
    /\ WF_mvars(Restart)
    /\ []<><<FlushSave>>_mvars \/ []<>(queue = <<>>)

\* Whatever was lost, enqueued out of order, flushed late or written without
\* a handler: when the writes end, restarts bring every active row up to date.
RowsHeal == Steady => <>[](\A t \in Active : row[t] = file[t])

\* And when reconcile --fix is run as well, no row of an archived task is
\* left, nor does the flusher bring one back for ever.
ArchivedRowsLeave ==
    Steady /\ FixFairness /\ WF_mvars(FixRead)
        => <>[](\A t \in archived \ Active : row[t] = 0)
=============================================================================
