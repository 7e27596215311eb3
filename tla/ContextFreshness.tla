-------------------------- MODULE ContextFreshness --------------------------
(***************************************************************************)
(* The context handed from one phase of a task to the next                 *)
(* (rpetd_context): the files it describes, a hash of each, and the commit *)
(* that was HEAD.  Ending a phase stores the context (/api/context/compact) *)
(* and beginning the next one validates it (/api/context/validate), which  *)
(* hashes and describes again what git says has changed since that commit. *)
(* Agents edit and commit meanwhile.                                       *)
(*                                                                         *)
(* One task; a hash and the description made with it are the version of    *)
(* the file they are of.                                                   *)
(***************************************************************************)
EXTENDS Naturals, Sequences

CONSTANTS
    Files,       \* files a context describes
    Named,       \* those tracked under the path git prints: not absolute, not from
                 \* a directory below the root, nothing git quotes
    Phases,      \* a sequence: R, P, E, T, D
    MaxEdits,    \* bound on the edits of one file
    MaxCommits,  \* bound on the commits
    MaxRequests, \* bound on the requests
    Undescribed  \* a description that was never made

ASSUME ContextAssumption ==
    /\ Phases \in Seq(STRING) /\ MaxEdits \in Nat \ {0} /\ MaxCommits \in Nat \ {0}
    /\ MaxRequests \in Nat /\ Named \subseteq Files
    /\ Undescribed \notin 0..MaxEdits

VARIABLES
    work,       \* the version of each file on disk, Gone when there is none
    commits,    \* what each commit holds; HEAD is the last
    context,    \* the row of each phase, or NoRow
    handoff,    \* the request in progress
    requests    \* how many there have been

cvars == <<work, commits, context, handoff, requests>>

Steps == DOMAIN Phases
Gone == 0
Version == 0..MaxEdits
NoRow == [ref |-> 0, files |-> << >>, exact |-> FALSE]
Resting == [pc |-> "idle"]
HEAD == Len(commits)

\* What a row or a request knows of a file.
Entry == [hash : Version, text : Version \cup {Undescribed}]
Known == UNION {[S -> Entry] : S \in SUBSET Files}

ContextTypeOK ==
    /\ work \in [Files -> Version]
    /\ requests \in 0..MaxRequests
    /\ commits \in Seq([Files -> Version]) /\ HEAD \in 1..MaxCommits
    /\ \A n \in Steps : context[n].ref \in 0..MaxCommits /\ context[n].files \in Known
    /\ \/ handoff = Resting
       \/ /\ handoff.pc \in {"diff", "hash", "head", "store"} /\ handoff.step \in Steps
          /\ handoff.files \in Known /\ handoff.stale \subseteq Files

ContextInit ==
    /\ work = [f \in Files |-> 1]
    /\ commits = <<work>>
    /\ context = [n \in Steps |-> NoRow]
    /\ handoff = Resting /\ requests = 0

----------------------------------------------------------------------------
(* Agents at work.                                                         *)

\* A request in progress is no longer exact once anything moves.
Moves == handoff' = IF handoff = Resting THEN Resting ELSE [handoff EXCEPT !.exact = FALSE]

\* A file that is gone may be written again.
Edit(f) ==
    /\ work[f] < MaxEdits
    /\ work' = [work EXCEPT ![f] = @ + 1]
    /\ Moves
    /\ UNCHANGED <<commits, context, requests>>

Unlink(f) ==
    /\ work[f] # Gone
    /\ work' = [work EXCEPT ![f] = Gone]
    /\ Moves
    /\ UNCHANGED <<commits, context, requests>>

Commit ==
    /\ HEAD < MaxCommits /\ work # commits[HEAD]
    /\ commits' = Append(commits, work)
    /\ Moves
    /\ UNCHANGED <<work, context, requests>>

----------------------------------------------------------------------------
(* The requests.                                                           *)

Another == handoff = Resting /\ requests < MaxRequests /\ requests' = requests + 1

\* compact_conversation names the files that matter.
BeginCompact(n) ==
    /\ Another
    /\ \E S \in SUBSET Files :
          handoff' = [pc |-> IF S = {} THEN "store" ELSE "hash", step |-> n, kind |-> "compact",
                      files |-> << >>, stale |-> S, ref |-> 0, exact |-> TRUE]
    /\ UNCHANGED <<work, commits, context>>

\* validate_context takes the row of the phase before; without one it
\* neither checks nor stores.
BeginValidate(n) ==
    /\ Another
    /\ n - 1 \in Steps /\ context[n - 1] # NoRow
    /\ handoff' = [pc |-> "diff", step |-> n, kind |-> "validate",
                   files |-> context[n - 1].files, stale |-> {},
                   ref |-> context[n - 1].ref, exact |-> context[n - 1].exact]
    /\ UNCHANGED <<work, commits, context>>

Tracked == DOMAIN handoff.files

\* The tracked paths among those git diff --name-only prints, which leaves out
\* the old path of a file that was renamed.
ChangedSince(ref, renamed) ==
    {f \in (Tracked \cap Named) \ renamed : commits[ref][f] # commits[HEAD][f]}

\* changed_since.  Without a commit to compare with, or when git fails,
\* every file has changed, and then an old inexactness is of no account.
Diff ==
    /\ handoff.pc = "diff"
    /\ \E all \in {TRUE, handoff.ref = 0}, renamed \in SUBSET {f \in Files : commits[HEAD][f] = Gone} :
          LET stale == IF all THEN Tracked ELSE ChangedSince(handoff.ref, renamed)
          IN  handoff' = [handoff EXCEPT !.stale = stale,
                                         !.exact = @ \/ stale = Tracked,
                                         !.pc = IF stale = {} THEN "head" ELSE "hash"]
    /\ UNCHANGED <<work, commits, context, requests>>

\* Faulty variant: the hash that was there stays.
Renewed_KeepsHash(f, text) ==
    [g \in Tracked \cup {f} |->
        IF g = f THEN [hash |-> IF f \in Tracked THEN handoff.files[f].hash ELSE work[f],
                       text |-> text]
        ELSE handoff.files[g]]

Renewed(f, text) ==
    [g \in Tracked \cup {f} |->
        IF g = f THEN [hash |-> work[f], text |-> text] ELSE handoff.files[g]]

\* A file is hashed and described.  The description may fail, which leaves
\* the one there was; compact makes none.
Refresh(f) ==
    /\ handoff.pc = "hash" /\ f \in handoff.stale /\ work[f] # Gone
    /\ LET old == IF f \in Tracked THEN handoff.files[f].text ELSE Undescribed
           left == handoff.stale \ {f}
       IN  \E text \in IF handoff.kind = "compact" THEN {Undescribed} ELSE {work[f], old} :
              handoff' = [handoff EXCEPT
                  !.files = Renewed(f, text), !.stale = left,
                  !.pc = IF left = {} THEN "head" ELSE "hash",
                  !.exact = @ /\ work[f] = commits[HEAD][f] /\ text \in {work[f], Undescribed}]
    /\ UNCHANGED <<work, commits, context, requests>>

\* A file that is gone is dropped.
Drop(f) ==
    /\ handoff.pc = "hash" /\ f \in handoff.stale /\ work[f] = Gone
    /\ LET left == handoff.stale \ {f}
       IN  handoff' = [handoff EXCEPT
              !.files = [g \in Tracked \ {f} |-> handoff.files[g]], !.stale = left,
              !.pc = IF left = {} THEN "head" ELSE "hash"]
    /\ UNCHANGED <<work, commits, context, requests>>

\* get_current_commit, when the hashes are made.  It may fail.
ReadHead ==
    /\ handoff.pc = "head"
    /\ \E ref \in {0, HEAD} : handoff' = [handoff EXCEPT !.ref = ref, !.pc = "store"]
    /\ UNCHANGED <<work, commits, context, requests>>

\* The row of the phase is replaced, whichever request wrote it.  A
\* validation that tracks no file any more stores nothing.
Store ==
    /\ handoff.pc = "store"
    /\ context' = IF handoff.kind = "validate" /\ Tracked = {} THEN context
                  ELSE [context EXCEPT ![handoff.step] =
                           [ref |-> handoff.ref, files |-> handoff.files, exact |-> handoff.exact]]
    /\ handoff' = Resting
    /\ UNCHANGED <<work, commits, requests>>

\* The request dies, or PostgreSQL does not answer.
Abandon ==
    /\ handoff # Resting
    /\ handoff' = Resting
    /\ UNCHANGED <<work, commits, context, requests>>

ContextNext ==
    \/ \E f \in Files : Edit(f) \/ Unlink(f) \/ Refresh(f) \/ Drop(f)
    \/ \E n \in Steps : BeginCompact(n) \/ BeginValidate(n)
    \/ Commit \/ Diff \/ ReadHead \/ Store \/ Abandon

ContextSpec == ContextInit /\ [][ContextNext]_cvars

----------------------------------------------------------------------------
(* Properties.                                                             *)

\* When no file was dirty while it was hashed, nothing was edited or
\* committed during a request and no description failed, a context says what
\* the file was at its commit of every file that is there under the path git
\* prints: through any chain of phases, files that come back and failures of
\* git included, nothing that changed there is passed on as current.  (Of a
\* file under another path, or renamed away, the old hash is passed on.)
HandoffExact ==
    \A n \in Steps :
        LET row == context[n]
        IN  row.exact /\ row.ref # 0 =>
                \A f \in DOMAIN row.files \cap Named : commits[row.ref][f] # Gone =>
                    /\ row.files[f].hash = commits[row.ref][f]
                    /\ row.files[f].text \in {Undescribed, row.files[f].hash}
=============================================================================
