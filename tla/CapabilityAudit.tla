--------------------------- MODULE CapabilityAudit ---------------------------
(***************************************************************************)
(* The audit of capability accesses (src/services/capability_access.py and *)
(* the route /api/capability/access): an access is decided from the        *)
(* catalog and logged in gsd_audit_log, or, when that fails, appended to a  *)
(* local file, which the next request with a store replays.  Handler       *)
(* threads share the file without a lock, and so does the command line     *)
(* when the daemon does not answer it.                                     *)
(***************************************************************************)
EXTENDS Naturals, Sequences, SequencesExt

CONSTANTS
    Accesses,   \* requests: what the catalog says of each
    Handlers,   \* threads of the daemon, processes of the command line
    max_lines   \* of the buffer, per flush

VARIABLES
    audit,      \* gsd_audit_log: how often each access is in it
    buffer,     \* the lines of capability-audit-buffer.jsonl
    mode,       \* GSD_CAPABILITY_ENFORCE
    handler,    \* what each thread is doing
    told        \* accesses whose response says logged or buffered

auditVars == <<audit, buffer, mode, handler, told>>

Free == [pc |-> "idle"]

AuditInit ==
    /\ audit = [a \in Accesses |-> 0]
    /\ buffer = << >>
    /\ mode \in {"warn", "block", "off"}
    /\ handler = [h \in Handlers |-> Free]
    /\ told = {}

Goes(h, s) == handler' = [handler EXCEPT ![h] = s]
At(h, pc) == handler[h].pc = pc
Decides(h) == Goes(h, [pc |-> "decide", access |-> handler[h].access, store |-> handler[h].store])

\* check_access: the outcome for an access, from its catalog entry.
Outcome(a) ==
    CASE a.listed /\ a.destructive /\ ~ a.confirmed -> "destructive_unconfirmed"
      [] mode = "off" -> "skipped_off"
      [] ~ a.listed -> IF mode = "warn" THEN "unlisted_warn" ELSE "unlisted_blocked"
      [] ~ a.authorized -> "auth_missing"
      [] OTHER -> "allowed"

\* A request comes in.  With a store its thread flushes the buffer first;
\* the command line has none.
Access(h, a) ==
    /\ At(h, "idle")
    /\ a \notin told \cup {handler[g].access : g \in {k \in Handlers : ~ At(k, "idle")}}
    /\ \E store \in BOOLEAN :
          Goes(h, [pc |-> IF store THEN "flush" ELSE "decide", access |-> a, store |-> store])
    /\ UNCHANGED <<audit, buffer, mode, told>>

\* flush_buffer reads the file once, ...
ReadBuffer(h) ==
    /\ At(h, "flush")
    /\ LET n == IF Len(buffer) > max_lines THEN max_lines ELSE Len(buffer)
       IN  IF buffer = << >> THEN Decides(h)
           ELSE Goes(h, [handler[h] EXCEPT !.pc = "replay"]
                        @@ [todo |-> SubSeq(buffer, 1, n),
                            remainder |-> SubSeq(buffer, n + 1, Len(buffer))])
    /\ UNCHANGED <<audit, buffer, mode, told>>

\* ... logs its lines one by one, ...
Replay(h) ==
    /\ At(h, "replay") /\ handler[h].todo # << >>
    /\ audit' = [audit EXCEPT ![Head(handler[h].todo)] = @ + 1]
    /\ Goes(h, [handler[h] EXCEPT !.todo = Tail(@)])
    /\ UNCHANGED <<buffer, mode, told>>

\* ... leaves the file as it is when one fails, ...
ReplayFails(h) ==
    /\ At(h, "replay") /\ handler[h].todo # << >>
    /\ Decides(h)
    /\ UNCHANGED <<audit, buffer, mode, told>>

\* ... and else writes back what it has read and not logged.
Rewrite(h) ==
    /\ At(h, "replay") /\ handler[h].todo = << >>
    /\ buffer' = handler[h].remainder
    /\ Decides(h)
    /\ UNCHANGED <<audit, mode, told>>

\* The switched-off gate logs nothing.
Skip(h) ==
    /\ At(h, "decide") /\ Outcome(handler[h].access) = "skipped_off"
    /\ Goes(h, Free)
    /\ UNCHANGED <<audit, buffer, mode, told>>

\* log_access, with a store that answers, ...
Log(h) ==
    /\ At(h, "decide") /\ Outcome(handler[h].access) # "skipped_off" /\ handler[h].store
    /\ audit' = [audit EXCEPT ![handler[h].access] = @ + 1]
    /\ told' = told \cup {handler[h].access}
    /\ Goes(h, Free)
    /\ UNCHANGED <<buffer, mode>>

\* ... and without one, or when it raises.
Buffer(h) ==
    /\ At(h, "decide") /\ Outcome(handler[h].access) # "skipped_off"
    /\ buffer' = Append(buffer, handler[h].access)
    /\ told' = told \cup {handler[h].access}
    /\ Goes(h, Free)
    /\ UNCHANGED <<audit, mode>>

\* The buffer cannot be written either: the response says so.
BufferFails(h) ==
    /\ At(h, "decide") /\ Outcome(handler[h].access) # "skipped_off"
    /\ Goes(h, Free)
    /\ UNCHANGED <<audit, buffer, mode, told>>

AuditNext ==
    \E h \in Handlers :
        \/ \E a \in Accesses : Access(h, a)
        \/ ReadBuffer(h) \/ Replay(h) \/ ReplayFails(h) \/ Rewrite(h)
        \/ Skip(h) \/ Log(h) \/ Buffer(h) \/ BufferFails(h)

AuditSpec == AuditInit /\ [][AuditNext]_auditVars

\* "the degraded-mode 'every access is audit-logged' guarantee"
\* (capability_access.py:32): an access that was answered as logged or
\* buffered is in the audit log or in the file.
AccessRecorded == \A a \in told : audit[a] > 0 \/ a \in ToSet(buffer)
=============================================================================
