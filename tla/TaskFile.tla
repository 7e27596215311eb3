------------------------------ MODULE TaskFile ------------------------------
(***************************************************************************)
(* The files under the task engine: tasks.json with its copy tasks.json.bak *)
(* and tasks-archive.json, as load, save, _load_archive and _save_archive   *)
(* of amauta.py read and write them.  A command that changes tasks holds an *)
(* exclusive file lock from its load to the end of its save; a command that *)
(* shows one takes no lock.  A process can be killed between any two steps, *)
(* a write can fail, and somebody may leave a file that is not JSON.        *)
(***************************************************************************)
EXTENDS Naturals

CONSTANTS
    Procs,       \* processes that run a command
    Records,     \* the tasks there may be
    Missing,     \* a file that is not there
    Broken,      \* a file that is not JSON
    MaxMishaps   \* bound on kills, failed writes and files damaged by hand

ASSUME FilesAssumption ==
    /\ Missing # Broken /\ MaxMishaps \in Nat
    /\ \A S \in SUBSET Records : S # Missing /\ S # Broken

VARIABLES
    main,     \* tasks.json: a set of tasks, Missing or Broken
    bak,      \* tasks.json.bak
    arch,     \* tasks-archive.json
    lock,     \* whoever has .amauta.lock, a set of at most one process
    proc,     \* what each process is doing
    stored,   \* history: tasks reported as stored, and not removed or lost since
    mishaps

fvars == <<main, bak, arch, lock, proc, stored, mishaps>>

Free == [at |-> "idle", data |-> {}, moved |-> {}, new |-> {}, all |-> FALSE, due |-> FALSE]
Places == {"idle", "archive", "backup", "write", "tell", "missing", "missed"}
Content == (SUBSET Records) \cup {Missing, Broken}

\* What a process has in hand.
Doing == [at : Places, data : SUBSET Records, moved : SUBSET Records,
          new : SUBSET Records, all : BOOLEAN, due : BOOLEAN]

(* The type of the state.                                                  *)
FileTypeOK ==
    /\ {main, bak, arch} \subseteq Content
    /\ lock \subseteq Procs /\ stored \subseteq Records /\ mishaps \in 0..MaxMishaps
    /\ proc \in [Procs -> Doing]

FileInit ==
    /\ main = Missing /\ bak = Missing /\ arch = Missing
    /\ lock = {} /\ proc = [p \in Procs |-> Free] /\ stored = {} /\ mishaps = 0

Holds(file) == IF file \in {Missing, Broken} THEN {} ELSE file

\* load: tasks.json, or else the copy, or else the command gives up.
LoadFails == main = Broken /\ bak \in {Missing, Broken}
Loaded == IF main = Broken THEN Holds(bak) ELSE Holds(main)

-----------------------------------------------------------------------------
(* Commands that write.                                                    *)

\* _file_lock, and the command decides what to save.
Locks(p, step) ==
    /\ proc[p].at = "idle" /\ lock = {}
    /\ lock' = {p} /\ proc' = [proc EXCEPT ![p] = step]
    /\ UNCHANGED <<main, bak, arch, stored, mishaps>>

\* Faulty variant: no lock between load and save.
StoreTasks_Unlocked(p, S) ==
    /\ ~ LoadFails /\ proc[p].at = "idle"
    /\ proc' = [proc EXCEPT ![p] = [Free EXCEPT !.at = "backup", !.data = Loaded \cup S, !.new = S]]
    /\ UNCHANGED <<main, bak, arch, lock, stored, mishaps>>

\* A new task, or the new tasks of a file that is merged.
StoreTasks(p, S) ==
    /\ ~ LoadFails
    /\ Locks(p, [Free EXCEPT !.at = "backup", !.data = Loaded \cup S, !.new = S])

\* import --replace does not load.
ImportReplace(p, S) ==
    Locks(p, [Free EXCEPT !.at = "backup", !.data = S, !.new = S, !.all = TRUE])

ArchiveTasks(p, S) ==
    /\ ~ LoadFails /\ S # {} /\ S \subseteq Loaded
    /\ Locks(p, [Free EXCEPT !.at = "archive", !.data = Loaded \ S, !.moved = S])

\* The archive is saved first; one that is not JSON counts as empty.
SaveArchive(p) ==
    /\ proc[p].at = "archive"
    /\ arch' = Holds(arch) \cup proc[p].moved
    /\ proc' = [proc EXCEPT ![p].at = "backup"]
    /\ UNCHANGED <<main, bak, lock, stored, mishaps>>

\* save copies tasks.json to tasks.json.bak, whatever is in it, ...
CopyBackup(p) ==
    /\ proc[p].at = "backup"
    /\ bak' = IF main = Missing THEN bak ELSE main
    /\ proc' = [proc EXCEPT ![p].at = "write"]
    /\ UNCHANGED <<main, arch, lock, stored, mishaps>>

\* ... goes on when that fails, with the old copy or half of the new one, ...
BackupFails(p) ==
    /\ proc[p].at = "backup" /\ main # Missing /\ mishaps < MaxMishaps
    /\ bak' \in {bak, Broken}
    /\ proc' = [proc EXCEPT ![p].at = "write"]
    /\ mishaps' = mishaps + 1
    /\ UNCHANGED <<main, arch, lock, stored>>

\* ... and replaces tasks.json by a temporary file. A replacing import drops
\* what it does not name.
Save(p) ==
    /\ proc[p].at = "write"
    /\ main' = proc[p].data
    /\ stored' = IF proc[p].all THEN stored \cap (proc[p].data \cup Holds(arch)) ELSE stored
    /\ proc' = [proc EXCEPT ![p].at = "tell"]
    /\ UNCHANGED <<bak, arch, lock, mishaps>>

Leaves(p) == lock' = lock \ {p} /\ proc' = [proc EXCEPT ![p] = Free]

Tell(p) ==
    /\ proc[p].at = "tell"
    /\ stored' = stored \cup proc[p].new
    /\ Leaves(p)
    /\ UNCHANGED <<main, bak, arch, mishaps>>

\* Killed, or a temporary file cannot be written: the lock goes, the files stay.
Stops(p) ==
    /\ proc[p].at \in {"archive", "backup", "write", "tell"} /\ mishaps < MaxMishaps
    /\ Leaves(p) /\ mishaps' = mishaps + 1
    /\ UNCHANGED <<main, bak, arch, stored>>

\* Killed while it copies.
StopsCopying(p) ==
    /\ proc[p].at = "backup" /\ main # Missing /\ mishaps < MaxMishaps
    /\ bak' = Broken
    /\ Leaves(p) /\ mishaps' = mishaps + 1
    /\ UNCHANGED <<main, arch, stored>>

-----------------------------------------------------------------------------
(* show: first among the active tasks, then in the archive.                *)

Show(p, t) ==
    /\ proc[p].at = "idle" /\ ~ LoadFails /\ t \notin Loaded
    /\ proc' = [proc EXCEPT ![p] = [Free EXCEPT !.at = "missing", !.new = {t}, !.due = t \in stored]]
    /\ UNCHANGED <<main, bak, arch, lock, stored, mishaps>>

LookInArchive(p) ==
    /\ proc[p].at = "missing"
    /\ proc' = [proc EXCEPT ![p] = IF @.new \subseteq Holds(arch) THEN Free
                                   ELSE [@ EXCEPT !.at = "missed"]]
    /\ UNCHANGED <<main, bak, arch, lock, stored, mishaps>>

NotFound(p) ==
    /\ proc[p].at = "missed"
    /\ proc' = [proc EXCEPT ![p] = Free]
    /\ UNCHANGED <<main, bak, arch, lock, stored, mishaps>>

-----------------------------------------------------------------------------
(* Between two commands a file is edited by hand, badly. What load can no   *)
(* longer find is lost at that moment.                                      *)
DamageMain ==
    /\ lock = {} /\ main # Broken /\ mishaps < MaxMishaps
    /\ main' = Broken /\ mishaps' = mishaps + 1
    /\ stored' = stored \cap (Holds(bak) \cup Holds(arch))
    /\ UNCHANGED <<bak, arch, lock, proc>>

DamageArchive ==
    /\ lock = {} /\ arch # Broken /\ mishaps < MaxMishaps
    /\ arch' = Broken /\ mishaps' = mishaps + 1
    /\ stored' = stored \cap Loaded
    /\ proc' = [p \in Procs |-> [proc[p] EXCEPT !.due = FALSE]]
    /\ UNCHANGED <<main, bak, lock>>

Step(p) ==
    \/ \E S \in SUBSET Records : StoreTasks(p, S) \/ ImportReplace(p, S) \/ ArchiveTasks(p, S)
    \/ SaveArchive(p) \/ CopyBackup(p) \/ BackupFails(p) \/ Save(p) \/ Tell(p)
    \/ Stops(p) \/ StopsCopying(p)
    \/ \E t \in Records : Show(p, t)
    \/ LookInArchive(p) \/ NotFound(p)

FileNext == (\E p \in Procs : Step(p)) \/ DamageMain \/ DamageArchive

FileSpec == FileInit /\ [][FileNext]_fvars

-----------------------------------------------------------------------------
\* A task that was reported as stored is found by every show that begins
\* after, in one file or in the other: under kills between the two saves of
\* archive, failed writes, a damaged file and concurrent commands. A show that
\* cannot load says so instead.
ShowFinds == \A p \in Procs : proc[p].at = "missed" => ~ proc[p].due

\* "Create .bak backup before writing (recoverable by load() on corruption)"
\* (amauta.py:325): what could be loaded after a file was damaged can still be
\* loaded later.
BackupRecovers == stored \subseteq Loaded \cup Holds(arch)
=============================================================================
