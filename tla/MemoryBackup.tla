---------------------------- MODULE MemoryBackup ----------------------------
(***************************************************************************)
(* Backups of the memory table (src/services/backup.py), made and restored *)
(* while callers store, cite and distill. The newest backup file is kept   *)
(* as the table it holds. An import writes neither invalid_at nor          *)
(* applied_count, so every imported row is open and uncited.               *)
(***************************************************************************)
EXTENDS MemoryStore

CONSTANT MaxBackups   \* bound: backups written

ASSUME BackupAssumption == MaxBackups \in Nat

VARIABLES
    file,   \* the newest backup: its name is taken (written), it can be read (whole), its rows
    day,    \* an automatic backup of today is there
    backups \* backups written so far

bvars == <<vars, file, day, backups>>
NoFile == [written |-> FALSE, whole |-> FALSE, rows |-> Empty]

(* The type of the state. *)
BackupTypeOK ==
    /\ MemoryTypeOK
    /\ file.whole => file.written
    /\ DOMAIN file.rows \subseteq DOMAIN rows \cup 1..fresh - 1
    /\ \A i \in DOMAIN file.rows : file.rows[i] \in RowType
    /\ day \in BOOLEAN /\ backups \in 0..MaxBackups

BInit == Init /\ file = NoFile /\ day = FALSE /\ backups = 0

\* _export_table: a failed export is an empty table, and no error.
Exports == {rows, Empty}

\* create writes straight to the final name, so a crash leaves a broken file there.
Create(table, whole) ==
    /\ backups < MaxBackups
    /\ file' = [written |-> TRUE, whole |-> whole, rows |-> IF whole THEN table ELSE Empty]
    /\ backups' = backups + 1
    /\ UNCHANGED vars

\* auto_backup at a daemon start: not when a file of today is there, whatever is in it.
AutoBackup(table, whole) == ~day /\ Create(table, whole) /\ day' = TRUE
BackupCreate(table, whole) == Create(table, whole) /\ UNCHANGED day

NewDay == day /\ day' = FALSE /\ UNCHANGED <<vars, file, backups>>

Imported(i) == [file.rows[i] EXCEPT !.open = TRUE, !.count = 0]

\* import_memory without a bad row: an id that is in the table is left as it is.
Import(table, ids) ==
    [i \in DOMAIN table \cup ids |-> IF i \in DOMAIN table THEN table[i] ELSE Imported(i)]

\* restore checks the file before it touches a table, and an empty table is
\* passed over.
Restorable == file.whole /\ DOMAIN file.rows # {}

RestoreMerge(ids) ==
    /\ Restorable /\ rows' = Import(rows, ids)
    /\ UNCHANGED <<backend, fresh, archive, job, told, dropped, cited, file, day, backups>>

\* The rows that are not in the file go at the operator's word, with all they state.
Dropped == {i \in DOMAIN rows : file.rows # Empty /\ i \notin DOMAIN file.rows}
RestoreReplace(ids) ==
    /\ Restorable /\ rows' = Import(Empty, ids)
    /\ dropped' = dropped \cup UNION {rows[i].facts : i \in Dropped}
    /\ UNCHANGED <<backend, fresh, archive, job, told, cited, file, day, backups>>

BNext ==
    \/ Next /\ UNCHANGED <<file, day, backups>>
    \/ \E table \in Exports, whole \in BOOLEAN : AutoBackup(table, whole) \/ BackupCreate(table, whole)
    \/ NewDay
    \/ RestoreMerge(DOMAIN file.rows) \/ RestoreReplace(DOMAIN file.rows)

BSpec == BInit /\ [][BNext]_bvars
=============================================================================
