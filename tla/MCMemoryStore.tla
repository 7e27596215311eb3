--------------------------- MODULE MCMemoryStore ---------------------------
(* What an agent leaves for the next one.  Memory: a writer and a distiller  *)
(* that lists one row a page, two facts of which one may be retired, one     *)
(* citing task, three ids and one citation.  Backup: the same with a backup  *)
(* and restores, where nothing is cited and nothing else happens while the   *)
(* distiller is between two pages.  Contexts: two files, one under the path  *)
(* git prints, three phases, and two commits around two requests.            *)
(* Retrieval: one search over any three rows.  They share no state: a        *)
(* behaviour runs one of them.                                               *)
EXTENDS MemoryBackup, ContextFreshness, Retrieval

VARIABLE part

MCPhases == <<"R", "P", "E">>
Flat == [r \in Rows |-> [text |-> 0, near |-> 0, line |-> 0]]

MCInit ==
    /\ part \in {"memory", "backup", "context", "retrieval"}
    /\ BInit /\ ContextInit /\ RetrievalInit
    /\ part # "retrieval" => corpus = Flat
    /\ part \in {"context", "retrieval"} => Postgres
Uninterrupted == \A c \in Distillers : job[c].at = "page" => job'[c] # job[c]
MCNext ==
    \/ part = "memory" /\ Next /\ UNCHANGED <<part, file, day, backups, cvars, rvars>>
    \/ part = "backup" /\ BNext /\ cited' = 0 /\ Uninterrupted /\ UNCHANGED <<part, cvars, rvars>>
    \/ part = "context" /\ ContextNext /\ UNCHANGED <<part, bvars, rvars>>
    \/ part = "retrieval" /\ answer = NoAnswer /\ RetrievalNext
       /\ UNCHANGED <<part, bvars, cvars>>
MCSpec == MCInit /\ [][MCNext]_<<part, bvars, cvars, rvars>>

\* The types of all three.
KnowledgeTypeOK == BackupTypeOK /\ ContextTypeOK /\ RetrievalTypeOK
=============================================================================
