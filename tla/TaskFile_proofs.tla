--------------------------- MODULE TaskFile_proofs ---------------------------
(***************************************************************************)
(* Proofs about the files under the task engine, for any number of         *)
(* processes, tasks and mishaps: the type of the state, and that a task     *)
(* that was reported as stored is found.                                   *)
(***************************************************************************)
EXTENDS TaskFile, TLAPS

Writing == {"archive", "backup", "write", "tell"}

(* What load finds and what the archive holds cover the stored tasks.      *)
Covered == LoadFails \/ stored \subseteq Loaded \cup Holds(arch)

(* A command that is about to write is alone and carries every stored task *)
(* that is not in the archive; one that is about to report has saved.  A   *)
(* show that saw a stored task in no active file sees it in the archive.   *)
Carries(p) ==
    /\ proc[p].at \in Writing => lock = {p}
    /\ proc[p].at = "archive" =>
          /\ proc[p].new = {} /\ ~ proc[p].all
          /\ stored \subseteq proc[p].data \cup proc[p].moved \cup Holds(arch)
    /\ proc[p].at \in {"backup", "write"} =>
          /\ proc[p].new \subseteq proc[p].data
          /\ proc[p].all \/ stored \subseteq proc[p].data \cup Holds(arch)
    /\ proc[p].at = "tell" => main \notin {Missing, Broken} /\ proc[p].new \subseteq main
    /\ proc[p].at = "missing" /\ proc[p].due => proc[p].new \subseteq Holds(arch)
    /\ proc[p].at = "missed" => ~ proc[p].due

IInv == FileTypeOK /\ Covered /\ \A p \in Procs : Carries(p)

(* A set of tasks is a file that can be read.                              *)
LEMMA SetIsFile ==
    ASSUME NEW S \in SUBSET Records
    PROVE  S \notin {Missing, Broken} /\ S \in Content /\ Holds(S) = S
BY FilesAssumption DEF Content, Holds

(* What a file holds is a set of tasks.                                    *)
LEMMA HoldsTasks ==
    ASSUME NEW f \in Content
    PROVE  Holds(f) \subseteq Records
BY DEF Content, Holds

(* What a process has in hand before it starts, and when it looks further. *)
LEMMA FreeTyped == Free \in Doing
BY DEF Free, Doing, Places

LEMMA LookTyped ==
    ASSUME NEW t \in Records, NEW b \in BOOLEAN
    PROVE  [Free EXCEPT !.at = "missing", !.new = {t}, !.due = b] \in Doing
BY DEF Free, Doing, Places

(* Neither load nor the archive yields anything but tasks.                 *)
LEMMA LoadsTasks ==
    ASSUME FileTypeOK
    PROVE  Loaded \subseteq Records /\ Holds(arch) \subseteq Records
BY HoldsTasks DEF FileTypeOK, Loaded, Doing

(* The record of one process is written, the others are as before.         *)
LEMMA OneMoves ==
    ASSUME FileTypeOK, NEW p \in Procs, NEW step, proc' = [proc EXCEPT ![p] = step]
    PROVE  proc'[p] = step /\ \A q \in Procs \ {p} : proc'[q] = proc[q]
BY DEF FileTypeOK, Doing

(* What a command has in hand when it takes the lock.                      *)
InHand == [at : {"archive", "backup"}, data : SUBSET Records, moved : SUBSET Records,
          new : SUBSET Records, all : BOOLEAN, due : BOOLEAN]
Ready(step) ==
    /\ step.at = "archive" => /\ step.new = {} /\ ~ step.all
                              /\ stored \subseteq step.data \cup step.moved \cup Holds(arch)
    /\ step.at = "backup" => /\ step.new \subseteq step.data
                             /\ step.all \/ stored \subseteq step.data \cup Holds(arch)

(* The lemmas below show that the invariant holds after every action.      *)

(* A command takes the lock: it carries what load found.                   *)

LEMMA LockSteps ==
    ASSUME IInv, NEW p \in Procs, NEW S \in SUBSET Records,
           StoreTasks(p, S) \/ ImportReplace(p, S) \/ ArchiveTasks(p, S)
    PROVE  IInv'
<1>1. Loaded \subseteq Records /\ Holds(arch) \subseteq Records
  BY LoadsTasks DEF IInv
<1>2. PICK step \in InHand : Locks(p, step) /\ Ready(step)
  <2>1. CASE StoreTasks(p, S)
    <3> DEFINE st == [Free EXCEPT !.at = "backup", !.data = Loaded \cup S, !.new = S]
    <3>1. Locks(p, st) /\ stored \subseteq Loaded \cup Holds(arch)
      BY <2>1 DEF StoreTasks, IInv, Covered
    <3>2. st.at = "backup" /\ st.data = Loaded \cup S /\ st.new = S
      BY DEF Free
    <3>3. st \in InHand
      BY <1>1 DEF Free, InHand
    <3> HIDE DEF st
    <3> QED  BY <3>1, <3>2, <3>3 DEF Ready
  <2>2. CASE ImportReplace(p, S)
    <3> DEFINE st == [Free EXCEPT !.at = "backup", !.data = S, !.new = S, !.all = TRUE]
    <3>1. Locks(p, st)
      BY <2>2 DEF ImportReplace
    <3>2. st.at = "backup" /\ st.data = S /\ st.new = S /\ st.all
      BY DEF Free
    <3>3. st \in InHand
      BY <1>1 DEF Free, InHand
    <3> HIDE DEF st
    <3> QED  BY <3>1, <3>2, <3>3 DEF Ready
  <2>3. CASE ArchiveTasks(p, S)
    <3> DEFINE st == [Free EXCEPT !.at = "archive", !.data = Loaded \ S, !.moved = S]
    <3>1. Locks(p, st) /\ S \subseteq Loaded /\ stored \subseteq Loaded \cup Holds(arch)
      BY <2>3 DEF ArchiveTasks, IInv, Covered
    <3>2. st.at = "archive" /\ st.data = Loaded \ S /\ st.moved = S /\ st.new = {} /\ ~ st.all
      BY DEF Free
    <3>3. st \in InHand
      BY <1>1 DEF Free, InHand
    <3> HIDE DEF st
    <3> QED  BY <3>1, <3>2, <3>3 DEF Ready
  <2> QED  BY <2>1, <2>2, <2>3
<1>3. proc'[p] = step /\ \A q \in Procs \ {p} : proc'[q] = proc[q]
  BY <1>2, OneMoves DEF IInv, Locks
<1>4. FileTypeOK'
  BY <1>2 DEF IInv, FileTypeOK, Locks, Places, InHand, Doing
<1>5. Covered'
  BY <1>2 DEF IInv, Covered, LoadFails, Loaded, Holds, Locks
<1>6. ASSUME NEW q \in Procs PROVE Carries(q)'
  BY <1>2, <1>3 DEF IInv, Carries, Locks, Writing, Ready, InHand
<1> QED  BY <1>4, <1>5, <1>6 DEF IInv

(* The archive only grows; the moved tasks are no longer missing from it.  *)
LEMMA SaveArchiveStep ==
    ASSUME IInv, NEW p \in Procs, SaveArchive(p)
    PROVE  IInv'
<1>1. proc'[p] = [proc[p] EXCEPT !.at = "backup"] /\ \A q \in Procs \ {p} : proc'[q] = proc[q]
  BY DEF IInv, FileTypeOK, SaveArchive, Doing
<1>2. proc[p] \in Doing
  BY DEF IInv, FileTypeOK, Doing
<1>3. arch' \in SUBSET Records /\ Holds(arch)' = Holds(arch) \cup proc[p].moved
  BY <1>2, LoadsTasks, SetIsFile DEF IInv, SaveArchive, Holds, Doing
<1>4. FileTypeOK'
  BY <1>1, <1>2, <1>3 DEF IInv, FileTypeOK, SaveArchive, Places, Content, Doing
<1>5. Covered'
  BY <1>3 DEF IInv, Covered, LoadFails, Loaded, Holds, SaveArchive
<1>6. ASSUME NEW q \in Procs PROVE Carries(q)'
  <2>1. CASE q = p
    BY <1>1, <1>2, <1>3, <2>1 DEF IInv, Carries, SaveArchive, Writing, Doing
  <2>2. CASE q # p
    <3>1. Carries(q) /\ Carries(p) /\ proc'[q] = proc[q] /\ Holds(arch) \subseteq Holds(arch)'
      BY <1>1, <1>3, <2>2 DEF IInv
    <3>2. UNCHANGED <<main, lock, stored>> /\ proc[p].at = "archive"
      BY DEF SaveArchive
    <3> QED  BY <2>2, <3>1, <3>2 DEF Carries, Writing
  <2> QED  BY <2>1, <2>2
<1> QED  BY <1>4, <1>5, <1>6 DEF IInv

(* The copy is made, or fails: what can be loaded is not less, or nothing.  *)
LEMMA CopyStep ==
    ASSUME IInv, NEW p \in Procs, CopyBackup(p) \/ BackupFails(p)
    PROVE  IInv'
<1>1. proc'[p] = [proc[p] EXCEPT !.at = "write"] /\ \A q \in Procs \ {p} : proc'[q] = proc[q]
  BY DEF IInv, FileTypeOK, CopyBackup, BackupFails, Doing
<1>2. proc[p] \in Doing
  BY DEF IInv, FileTypeOK, Doing
<1>3. proc[p].at = "backup" /\ bak' \in Content
      /\ UNCHANGED <<main, arch, lock, stored>>
  BY DEF IInv, FileTypeOK, CopyBackup, BackupFails, Content, Doing
<1>4. FileTypeOK'
  BY <1>1, <1>2, <1>3, FilesAssumption DEF IInv, FileTypeOK, Places, CopyBackup, BackupFails, Doing
<1>5. Covered'
  <2>1. CASE main = Broken
    BY <1>3, <2>1 DEF IInv, Covered, LoadFails, Loaded, Holds, CopyBackup, BackupFails
  <2>2. CASE main # Broken
    BY <1>3, <2>2 DEF IInv, Covered, LoadFails, Loaded, Holds
  <2> QED  BY <2>1, <2>2
<1>6. ASSUME NEW q \in Procs PROVE Carries(q)'
  BY <1>1, <1>2, <1>3 DEF IInv, Carries, Writing, Holds, Doing
<1> QED  BY <1>4, <1>5, <1>6 DEF IInv

(* The new file has everything the old one had and the archive has not.    *)
LEMMA SaveStep ==
    ASSUME IInv, NEW p \in Procs, Save(p)
    PROVE  IInv'
<1>1. proc'[p] = [proc[p] EXCEPT !.at = "tell"] /\ \A q \in Procs \ {p} : proc'[q] = proc[q]
  BY DEF IInv, FileTypeOK, Save, Doing
<1>2. proc[p] \in Doing
  BY DEF IInv, FileTypeOK, Doing
<1>3. main' = proc[p].data /\ main' \in Content /\ main' \notin {Missing, Broken} /\ Holds(main)' = main'
  BY <1>2, SetIsFile DEF Save, Holds, Doing
<1>4. stored' \subseteq proc[p].data \cup Holds(arch) /\ stored' \subseteq Records
  BY <1>2 DEF IInv, FileTypeOK, Carries, Save, Doing
<1>5. FileTypeOK'
  BY <1>1, <1>2, <1>3, <1>4 DEF IInv, FileTypeOK, Places, Save, Doing
<1>6. Covered'
  BY <1>3, <1>4 DEF Covered, Loaded, Holds, Save
<1>7. ASSUME NEW q \in Procs PROVE Carries(q)'
  BY <1>1, <1>2, <1>3 DEF IInv, Carries, Writing, Holds, Save
<1> QED  BY <1>5, <1>6, <1>7 DEF IInv

(* What is reported is in the file that was saved.                         *)
LEMMA TellStep ==
    ASSUME IInv, NEW p \in Procs, Tell(p)
    PROVE  IInv'
<1>1. proc'[p] = Free /\ \A q \in Procs \ {p} : proc'[q] = proc[q]
  BY OneMoves DEF IInv, Tell, Leaves
<1>2. lock = {p} /\ main \notin {Missing, Broken} /\ proc[p].new \subseteq main
  BY DEF IInv, Carries, Writing, Tell
<1>3. FileTypeOK'
  BY <1>2 DEF IInv, FileTypeOK, Tell, Leaves, Free, Places, Doing
<1>4. Covered'
  BY <1>2 DEF IInv, Covered, LoadFails, Loaded, Holds, Tell
<1>5. ASSUME NEW q \in Procs PROVE Carries(q)'
  BY <1>1, <1>2 DEF IInv, Carries, Writing, Holds, Tell, Leaves, Free
<1> QED  BY <1>3, <1>4, <1>5 DEF IInv

(* A killed command leaves the files as they are, or a broken copy.        *)
LEMMA StopStep ==
    ASSUME IInv, NEW p \in Procs, Stops(p) \/ StopsCopying(p)
    PROVE  IInv'
<1>1. proc'[p] = Free /\ \A q \in Procs \ {p} : proc'[q] = proc[q]
  BY OneMoves DEF IInv, Stops, StopsCopying, Leaves
<1>2. /\ lock = {p} /\ lock' = {} /\ bak' \in {bak, Broken}
      /\ main = Missing => bak' = bak
      /\ UNCHANGED <<main, arch, stored>>
      /\ mishaps < MaxMishaps /\ mishaps' = mishaps + 1
  BY DEF IInv, Carries, Writing, Stops, StopsCopying, Leaves
<1>3. FileTypeOK'
  <2>1. proc' \in [Procs -> Doing]
    BY FreeTyped DEF IInv, FileTypeOK, Stops, StopsCopying, Leaves
  <2> QED  BY <1>2, <2>1, FilesAssumption DEF IInv, FileTypeOK, Content, Doing
<1>4. Covered'
  BY <1>2 DEF IInv, Covered, LoadFails, Loaded, Holds
<1>5. ASSUME NEW q \in Procs PROVE Carries(q)'
  BY <1>1, <1>2 DEF IInv, Carries, Writing, Holds, Free
<1> QED  BY <1>3, <1>4, <1>5 DEF IInv

(* A show that missed a stored task finds it in the archive.               *)
LEMMA ShowSteps ==
    ASSUME IInv, NEW p \in Procs,
           (\E t \in Records : Show(p, t)) \/ LookInArchive(p) \/ NotFound(p)
    PROVE  IInv'
<1> DEFINE after(t) == [Free EXCEPT !.at = "missing", !.new = {t}, !.due = t \in stored]
<1>1. UNCHANGED <<main, bak, arch, lock, stored, mishaps>>
  BY DEF Show, LookInArchive, NotFound
<1>2. Covered'
  BY <1>1 DEF IInv, Covered, LoadFails, Loaded, Holds
<1>3. ASSUME NEW t \in Records, Show(p, t) PROVE IInv'
  <2>1. proc' = [proc EXCEPT ![p] = after(t)] /\ proc'[p] = after(t)
        /\ \A q \in Procs \ {p} : proc'[q] = proc[q]
    BY <1>3, OneMoves DEF IInv, Show
  <2>2. after(t).at = "missing" /\ after(t).new = {t} /\ (after(t).due => t \in stored)
    BY DEF Free
  <2>3. after(t) \in Doing
    <3>1. (t \in stored) \in BOOLEAN  OBVIOUS
    <3> QED  BY <3>1, LookTyped, Zenon
  <2>4. t \in stored => t \in Holds(arch)
    BY <1>3 DEF IInv, Covered, Show
  <2> HIDE DEF after
  <2>5. FileTypeOK'
    BY <1>1, <2>1, <2>3 DEF IInv, FileTypeOK, Doing
  <2>6. ASSUME NEW q \in Procs PROVE Carries(q)'
    <3>1. CASE q = p
      BY <1>1, <2>1, <2>2, <2>4, <3>1 DEF Carries, Writing, Holds
    <3>2. CASE q # p
      BY <1>1, <2>1, <3>2 DEF IInv, Carries, Writing, Holds
    <3> QED  BY <3>1, <3>2
  <2> QED  BY <1>2, <2>5, <2>6 DEF IInv
<1>4. CASE LookInArchive(p)
  <2>1. proc' \in [Procs -> Doing]
    BY <1>4 DEF IInv, FileTypeOK, LookInArchive, Free, Places, Doing
  <2>2. FileTypeOK'
    BY <1>1, <2>1 DEF IInv, FileTypeOK, Doing
  <2>3. ASSUME NEW q \in Procs PROVE Carries(q)'
    BY <1>1, <1>4 DEF IInv, FileTypeOK, Carries, LookInArchive, Writing, Holds, Free, Doing
  <2> QED  BY <1>2, <2>2, <2>3 DEF IInv
<1>5. CASE NotFound(p)
  <2>1. proc'[p] = Free /\ \A q \in Procs \ {p} : proc'[q] = proc[q]
    BY <1>5, OneMoves DEF IInv, NotFound
  <2>2. FileTypeOK'
    BY <1>1, <1>5 DEF IInv, FileTypeOK, NotFound, Free, Places, Doing
  <2>3. ASSUME NEW q \in Procs PROVE Carries(q)'
    BY <1>1, <2>1 DEF IInv, Carries, Writing, Holds, Free
  <2> QED  BY <1>2, <2>2, <2>3 DEF IInv
<1> QED  BY <1>3, <1>4, <1>5

(* What is damaged takes its tasks along, from `stored' too.               *)
LEMMA DamageSteps ==
    ASSUME IInv, DamageMain \/ DamageArchive
    PROVE  IInv'
<1>1. CASE DamageMain
  <2>1. FileTypeOK'
    BY <1>1, FilesAssumption DEF IInv, FileTypeOK, DamageMain, Content, Doing
  <2>2. Covered'
    BY <1>1, FilesAssumption DEF Covered, LoadFails, Loaded, Holds, DamageMain
  <2>3. ASSUME NEW q \in Procs PROVE Carries(q)'
    BY <1>1 DEF IInv, Carries, Writing, Holds, DamageMain
  <2> QED  BY <2>1, <2>2, <2>3 DEF IInv
<1>2. CASE DamageArchive
  <2>1. \A q \in Procs : proc'[q] = [proc[q] EXCEPT !.due = FALSE]
    BY <1>2 DEF DamageArchive
  <2>2. FileTypeOK'
    <3>1. proc' \in [Procs -> Doing]
      BY <1>2 DEF IInv, FileTypeOK, DamageArchive, Doing
    <3> QED  BY <1>2, <3>1, FilesAssumption DEF IInv, FileTypeOK, DamageArchive, Content
  <2>3. Covered'
    BY <1>2, FilesAssumption DEF Covered, LoadFails, Loaded, Holds, DamageArchive
  <2>4. ASSUME NEW q \in Procs PROVE Carries(q)'
    BY <1>2, <2>1 DEF IInv, FileTypeOK, Carries, Writing, DamageArchive, Doing
  <2> QED  BY <2>2, <2>3, <2>4 DEF IInv
<1> QED  BY <1>1, <1>2

-----------------------------------------------------------------------------
(* The invariant holds at first, ...                                       *)
LEMMA Starts ==
    ASSUME FileInit
    PROVE  IInv
BY FilesAssumption
   DEF FileInit, IInv, FileTypeOK, Covered, LoadFails, Loaded, Holds, Carries, Writing, Free, Places, Content, Doing

(* ... when nothing happens ...                                            *)
LEMMA Stutters ==
    ASSUME IInv, UNCHANGED fvars
    PROVE  IInv'
BY DEF IInv, FileTypeOK, Covered, LoadFails, Loaded, Holds, Carries, fvars, Doing

(* ... and after every step.                                               *)
LEMMA StepKeeps ==
    ASSUME IInv, FileNext
    PROVE  IInv'
<1>1. ASSUME NEW p \in Procs, Step(p) PROVE IInv'
  <2>1. ASSUME NEW S \in SUBSET Records, StoreTasks(p, S) \/ ImportReplace(p, S) \/ ArchiveTasks(p, S)
        PROVE  IInv'
    BY <2>1, LockSteps
  <2>2. CASE (\E t \in Records : Show(p, t)) \/ LookInArchive(p) \/ NotFound(p)
    BY <2>2, ShowSteps
  <2> QED  BY <1>1, <2>1, <2>2, SaveArchiveStep, CopyStep, SaveStep, TellStep, StopStep DEF Step
<1> QED  BY <1>1, DamageSteps DEF FileNext

(* The state keeps its type: at most the named places and files, and tasks *)
(* in every set, however many processes run (the variables that load, save  *)
(* and the lock of amauta.py stand for).                                   *)
THEOREM FileTypes == FileSpec => []FileTypeOK
<1>1. IInv => FileTypeOK
  BY DEF IInv
<1> QED  BY Starts, Stutters, StepKeeps, <1>1, PTL DEF FileSpec

(* A task that was reported as stored is found by every later show, for any *)
(* number of processes and tasks and any sequence of kills, failed writes   *)
(* and damaged files: the order of the two saves of archive (amauta.py:5456) *)
(* and of the two reads of show is what makes it so.                       *)
THEOREM StoredIsFound == FileSpec => []ShowFinds
<1>1. IInv => ShowFinds
  BY DEF IInv, Carries, ShowFinds
<1> QED  BY Starts, Stutters, StepKeeps, <1>1, PTL DEF FileSpec
===============================================================================
