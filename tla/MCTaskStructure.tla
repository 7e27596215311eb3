-------------------------- MODULE MCTaskStructure --------------------------
(* What the task engine keeps, from three sides of which a behaviour shows *)
(* one: three tasks and the links between them; an epic with two tasks and *)
(* no links; and the files, under two processes, two tasks and two mishaps. *)
EXTENDS TaskBoard, TaskFile

VARIABLE side

Untold == {{}}
OneEpicThreeTasks == [epic |-> 1, task |-> 3]
StructureCommands == {"add", "delete", "link", "unlink", "atomize", "archive"}

RemovalNext ==
    \/ \E i \in DOMAIN items : Delete(i)
    \/ \E S \in SUBSET DOMAIN items : Archive(S) \/ ArchiveKilled(S)

LinksNext ==
    \/ \E ds \in SUBSET ((DOMAIN items) \X Spellings), owner \in Owner :
          Add("task", NoItem, ds, owner, {}, "done", FALSE)
    \/ \E i, d \in (DOMAIN items) \X Spellings : Link(i, d)
    \/ \E i \in DOMAIN items, d \in Ref : Unlink(i, d)
    \/ RemovalNext

FamilyNext ==
    \/ \E k \in Kinds, par \in DOMAIN items \cup {NoItem}, owner \in Owner, st \in InitialStatuses :
          Add(k, par, {}, owner, {}, st, FALSE)
    \/ \E i \in DOMAIN items, n \in 1..MaxSubtasks, owner \in Owner :
          Atomize(i, n, owner, {}) \/ AtomizeKilled(i, n, owner, {})
    \/ RemovalNext

OnLinks(A)  == side = "links" /\ A /\ UNCHANGED <<fvars, side>>
OnFamily(A) == /\ side = "family" /\ A /\ UNCHANGED <<fvars, side>>
               /\ <<"task", 3>> \notin DOMAIN items'
OnFiles(A)  == side = "files" /\ A /\ UNCHANGED <<vars, side>>

MCInit == Init /\ FileInit /\ side \in {"links", "family", "files"}
MCNext == OnLinks(LinksNext) \/ OnFamily(FamilyNext) \/ OnFiles(FileNext)
MCSpec == MCInit /\ [][MCNext]_<<vars, fvars, side>>
=============================================================================
