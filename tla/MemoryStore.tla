---------------------------- MODULE MemoryStore ----------------------------
(***************************************************************************)
(* The table gsd_memory behind the daemon's memory routes, in PostgreSQL   *)
(* (src/services/pg_store.py) or, when that is not there at the start, in  *)
(* SQLite (src/services/sqlite_store.py). Callers store statements through *)
(* the write-time classifier, cite them, distill similar rows into one and *)
(* archive old ones; a transaction is a step, a command is several, and a  *)
(* caller may die between them. All rows are similar to one another. The   *)
(* text of a row is the set of facts it states; ids are handed out in the  *)
(* order of created_at.                                                    *)
(***************************************************************************)
EXTENDS Naturals, FiniteSets, FiniteSetsExt

CONSTANTS
    Writers,    \* processes that store statements
    Distillers, \* processes that distill
    Facts,      \* what a caller may want to have remembered
    Noise,      \* those of a source with a retention limit (RETENTION_DAYS)
    Tasks,      \* tasks that cite rows
    PageSize,   \* DISTILL_ELIGIBILITY_PAGE_SIZE
    MaxRows,    \* bound: ids handed out
    MaxCited    \* bound: citations

ASSUME MemoryAssumption ==
    IsFiniteSet(Facts) /\ IsFiniteSet(Tasks) /\ {MaxRows, MaxCited} \subseteq Nat
    /\ Noise \subseteq Facts /\ PageSize \in Nat \ {0}

Callers == Writers \cup Distillers

VARIABLES
    backend,    \* the store the daemon found at its start
    rows,       \* gsd_memory: the rows by id
    fresh,      \* the next id; ids are random in the code, so never reissued
    archive,    \* gsd_memory_archive: the facts of each archived row by id
    job,        \* what each caller is in the middle of
    told,       \* history: facts whose caller was told stored
    dropped,    \* history: facts the operator deleted or replaced, or a merge left out
    cited       \* history: citations counted so far

vars == <<backend, rows, fresh, archive, job, told, dropped, cited>>

Ids == 1..MaxRows
Kinds == {"noise", "plain", "distilled"}
\* shifted is history: of a distilled row, that its listing was (see WithPage)
RowType == [facts : SUBSET Facts, kind : Kinds, open : BOOLEAN, count : Nat, cites : SUBSET Tasks,
            shifted : BOOLEAN]

NoJob == [at |-> "idle"]
JobType ==
    {NoJob} \cup [at : {"classify", "insert"}, fact : Facts, seen : SUBSET Ids]
        \cup [at : {"merge"}, group : SUBSET Ids, row : RowType, lost : SUBSET Facts]
        \cup [at : {"purge"}, group : SUBSET Ids]

IsListing(list) ==
    /\ DOMAIN list = {"at", "offset", "read", "twice", "before", "shifted"}
    /\ list.at = "page" /\ list.offset \in Nat
    /\ DOMAIN list.read \subseteq Ids
    /\ \A i \in DOMAIN list.read : list.read[i] \in [facts : SUBSET Facts, count : Nat, cites : SUBSET Tasks]
    /\ {list.twice, list.before} \subseteq SUBSET Ids /\ list.shifted \in BOOLEAN

(* The type of the state. *)
MemoryTypeOK ==
    /\ backend \in {"postgres", "sqlite"}
    /\ DOMAIN rows \subseteq Ids /\ \A i \in DOMAIN rows : rows[i] \in RowType
    /\ fresh \in 1..MaxRows + 1 /\ \A i \in DOMAIN rows : i < fresh
    /\ DOMAIN archive \subseteq Ids /\ \A i \in DOMAIN archive : archive[i] \subseteq Facts
    /\ DOMAIN job = Callers /\ \A c \in Callers : job[c] \in JobType \/ IsListing(job[c])
    /\ told \subseteq Facts /\ dropped \subseteq Facts
    /\ cited \in 0..MaxCited

Empty == [i \in {} |-> {}]
Init ==
    /\ backend \in {"postgres", "sqlite"}
    /\ rows = Empty /\ fresh = 1 /\ archive = Empty
    /\ job = [c \in Callers |-> NoJob]
    /\ told = {} /\ dropped = {} /\ cited = 0

Postgres == backend = "postgres"
OpenRows == {i \in DOMAIN rows : rows[i].open}
Goes(c, to) == job' = [job EXCEPT ![c] = to]
With(i, row) == [j \in DOMAIN rows \cup {i} |-> IF j = i THEN row ELSE rows[j]]
Without(gone) == [i \in DOMAIN rows \ gone |-> rows[i]]
Statement(f) ==
    [facts |-> {f}, kind |-> IF f \in Noise THEN "noise" ELSE "plain", open |-> TRUE, count |-> 0, cites |-> {},
     shifted |-> FALSE]
Closed(i) == [rows EXCEPT ![i].open = FALSE]

-----------------------------------------------------------------------------
(* memory_store and memory_store_with_embedding                             *)

\* The lookup of similar valid rows, which serves the duplicate check and the
\* classifier. SQLite has neither.
Lookup(c, f) ==
    /\ job[c] = NoJob /\ fresh <= MaxRows
    /\ Goes(c, [at |-> IF Postgres THEN "classify" ELSE "insert", fact |-> f,
                seen |-> IF Postgres THEN OpenRows ELSE {}])
    /\ UNCHANGED <<backend, rows, fresh, archive, told, dropped, cited>>

Classifying(c) == job[c].at = "classify"

\* A duplicate, or the classifier says NOOP: nothing is written.
Refuse(c) ==
    /\ Classifying(c) /\ DOMAIN rows # {}
    /\ Goes(c, NoJob)
    /\ UNCHANGED <<backend, rows, fresh, archive, told, dropped, cited>>

\* ADD, which is also what every failure of the classifier becomes.
ClassifiedAdd(c) ==
    /\ Classifying(c) /\ Goes(c, [job[c] EXCEPT !.at = "insert"])
    /\ UNCHANGED <<backend, rows, fresh, archive, told, dropped, cited>>

\* DELETE closes the validity window of the target, and nothing else.
Negate(c, i) ==
    /\ Classifying(c) /\ i \in job[c].seen
    /\ rows' = IF i \in OpenRows THEN Closed(i) ELSE rows
    /\ Goes(c, NoJob)
    /\ UNCHANGED <<backend, fresh, archive, told, dropped, cited>>

\* UPDATE without an embedding: the window is closed in a transaction of its own.
Supersede(c, i) ==
    /\ Classifying(c) /\ i \in job[c].seen
    /\ rows' = IF i \in OpenRows THEN Closed(i) ELSE rows
    /\ Goes(c, [job[c] EXCEPT !.at = "insert"])
    /\ UNCHANGED <<backend, fresh, archive, told, dropped, cited>>

Adds(table, f) ==
    /\ fresh <= MaxRows
    /\ rows' = [i \in DOMAIN table \cup {fresh} |-> IF i = fresh THEN Statement(f) ELSE table[i]]
    /\ fresh' = fresh + 1
    /\ told' = told \cup {f}

\* UPDATE with an embedding: closed and replaced in one transaction.
Replace(c, i) ==
    /\ Classifying(c) /\ i \in job[c].seen
    /\ Adds(IF i \in OpenRows THEN Closed(i) ELSE rows, job[c].fact)
    /\ Goes(c, NoJob)
    /\ UNCHANGED <<backend, archive, dropped, cited>>

Insert(c) ==
    /\ job[c].at = "insert"
    /\ Adds(rows, job[c].fact)
    /\ Goes(c, NoJob)
    /\ UNCHANGED <<backend, archive, dropped, cited>>

-----------------------------------------------------------------------------
(* memory_increment_applied: under the lock of the row, once for each task. *)

AlreadyCited(i, t) == t \in rows[i].cites

Cite(i, t) ==
    /\ Postgres /\ i \in DOMAIN rows /\ ~AlreadyCited(i, t)
    /\ cited < MaxCited
    /\ rows' = [rows EXCEPT ![i].cites = @ \cup {t}, ![i].count = @ + 1]
    /\ cited' = cited + 1
    /\ UNCHANGED <<backend, fresh, archive, job, told, dropped>>

-----------------------------------------------------------------------------
(* Distillation (cmdDistill of gsd-memory.cjs): the caller lists rows, open *)
(* or not, page by page and the newest first, stores one row for each group *)
(* and deletes the group row by row.                                        *)

Eligible == {i \in DOMAIN rows : rows[i].kind # "distilled"}
Newer(i) == {j \in Eligible : j > i}
PageAt(offset) == {i \in Eligible : Cardinality(Newer(i)) \in offset..offset + PageSize - 1}

\* Nothing ties one page to the next: a row stored in between shifts the rows
\* behind it, so that the next page has one again that was read.
NoPage == [at |-> "page", offset |-> 0, read |-> Empty, twice |-> {}, before |-> {}, shifted |-> FALSE]
Line(i) == [facts |-> rows[i].facts, count |-> rows[i].count, cites |-> rows[i].cites]
Again(i, line) == [Line(i) EXCEPT !.count = @ + line.count, !.cites = @ \cup line.cites]

\* The listing with the next page read.
WithPage(list) ==
    LET page == PageAt(list.offset)
        seen == DOMAIN list.read
    IN  [list EXCEPT
            !.offset  = @ + PageSize,
            !.read    = [i \in seen \cup page |-> IF i \notin page THEN list.read[i]
                                                ELSE IF i \in seen THEN Again(i, list.read[i])
                                                ELSE Line(i)],
            !.twice   = @ \cup (seen \cap page),
            !.before  = Eligible,
            !.shifted = @ \/ (list.offset > 0 /\ ~(Eligible \subseteq list.before))]

Lists(c) == job[c] = NoJob \/ job[c].at = "page"
Listing(c) == IF job[c] = NoJob THEN NoPage ELSE job[c]

\* A page that is full is followed by another.
NextPage(c) ==
    /\ Lists(c) /\ Cardinality(PageAt(Listing(c).offset)) = PageSize
    /\ Goes(c, WithPage(Listing(c)))
    /\ UNCHANGED <<backend, rows, fresh, archive, told, dropped, cited>>

CarriedCount_SeedTwice(read, group) ==                  \* mutant: the kept row added to its group
    MapThenSumSet(LAMBDA i : read[i].count, group) + read[Min(group)].count
CarriedCount(read, group) == MapThenSumSet(LAMBDA i : read[i].count, group)

FactsOf(read, group) == UNION {read[i].facts : i \in group}

\* The text is a model's summary, or the longest text and the first 200
\* characters of each other one, up to 4000: it may leave out anything.
Merged(read, group, text, shifted) ==
    [facts |-> text, kind |-> "distilled", open |-> TRUE,
     count |-> IF Postgres THEN CarriedCount(read, group) ELSE 0,
     cites |-> UNION {read[i].cites : i \in group},
     shifted |-> shifted]

\* The last page, or one whose successor fails or is beyond the hard cap, and
\* the first group of similar rows.
Group(c, group, text) ==
    /\ Lists(c)
    /\ LET list == WithPage(Listing(c)) IN
       /\ group \subseteq DOMAIN list.read
       /\ Cardinality(group) > 1 \/ group \cap list.twice # {}
       /\ text \subseteq FactsOf(list.read, group)
       /\ Goes(c, [at |-> "merge", group |-> group,
                   row |-> Merged(list.read, group, text, list.shifted),
                   lost |-> FactsOf(list.read, group) \ text])
    /\ UNCHANGED <<backend, rows, fresh, archive, told, dropped, cited>>

Merge(c) ==
    /\ job[c].at = "merge" /\ fresh <= MaxRows
    /\ rows' = With(fresh, job[c].row) /\ fresh' = fresh + 1
    /\ dropped' = dropped \cup job[c].lost
    /\ Goes(c, [at |-> "purge", group |-> job[c].group])
    /\ UNCHANGED <<backend, archive, told, cited>>

\* The merged row could not be stored: the originals stay.
MergeFails_Purges(c) ==                                 \* mutant: the answer is not looked at
    /\ job[c].at = "merge" /\ Goes(c, [at |-> "purge", group |-> job[c].group])
    /\ UNCHANGED <<backend, rows, fresh, archive, told, dropped, cited>>
MergeFails(c) ==
    /\ job[c].at = "merge" /\ Goes(c, NoJob)
    /\ UNCHANGED <<backend, rows, fresh, archive, told, dropped, cited>>

\* A failed delete is reported and passed over.
Purge(c, i, deleted) ==
    /\ job[c].at = "purge" /\ i \in job[c].group
    /\ rows' = IF deleted THEN Without({i}) ELSE rows
    /\ Goes(c, IF job[c].group = {i} THEN NoJob ELSE [job[c] EXCEPT !.group = @ \ {i}])
    /\ UNCHANGED <<backend, fresh, archive, told, dropped, cited>>

-----------------------------------------------------------------------------
(* memory_retention_cleanup: the noise older than some day goes to the      *)
(* archive, where a row that is there already is left as it is.             *)

Retire(last) ==
    LET old == {i \in DOMAIN rows : rows[i].kind = "noise" /\ i <= last} IN
    /\ old # {}
    /\ archive' = [i \in DOMAIN archive \cup old |->
                      IF i \in DOMAIN archive THEN archive[i] ELSE rows[i].facts]
    /\ rows' = Without(old)
    /\ UNCHANGED <<backend, fresh, job, told, dropped, cited>>

\* memory_delete on an operator's word.
Delete(i) ==
    /\ i \in DOMAIN rows
    /\ rows' = Without({i}) /\ dropped' = dropped \cup rows[i].facts
    /\ UNCHANGED <<backend, fresh, archive, job, told, cited>>

\* The caller dies, or the database refuses its next transaction.
Dies(c) ==
    /\ job[c] # NoJob /\ Goes(c, NoJob)
    /\ UNCHANGED <<backend, rows, fresh, archive, told, dropped, cited>>

StoreSteps(c) ==
    \/ \E f \in Facts : Lookup(c, f)
    \/ \E i \in Ids : Negate(c, i) \/ Supersede(c, i) \/ Replace(c, i)
    \/ Refuse(c) \/ ClassifiedAdd(c) \/ Insert(c)

DistillSteps(c) ==
    \/ NextPage(c)
    \/ \E group \in SUBSET Ids, text \in SUBSET Facts : Group(c, group, text)
    \/ Merge(c) \/ MergeFails(c)
    \/ \E i \in Ids, deleted \in BOOLEAN : Purge(c, i, deleted)

Next ==
    \/ \E c \in Writers : StoreSteps(c)
    \/ \E c \in Distillers : DistillSteps(c)
    \/ \E c \in Callers : Dies(c)
    \/ \E i \in Ids : Delete(i) \/ Retire(i) \/ \E t \in Tasks : Cite(i, t)

Spec == Init /\ [][Next]_vars

-----------------------------------------------------------------------------
(* Properties                                                               *)

Held(f) == (\E i \in DOMAIN rows : f \in rows[i].facts) \/ (\E i \in DOMAIN archive : f \in archive[i])

(* A fact whose caller was told stored stays on some row or in the archive,  *)
(* superseded or not, until an operator deletes it or the text of a merge    *)
(* that was stored leaves it out: nothing is lost by the order of the steps, *)
(* whatever is distilled at the same time, archived, retried or cut short    *)
(* ("Only delete originals if the merged entry was stored").                 *)
FactsKept == \A f \in told \ dropped : Held(f)

(* No row claims more citations than were made: a distilled row carries the  *)
(* sum of its group forward, and no citation is carried twice, deletes in    *)
(* the middle of the listing included.  Only a row stored between two pages  *)
(* of the listing can do that: the rows it shifts are read twice.            *)
CountsHonest == \A i \in DOMAIN rows : ~rows[i].shifted => rows[i].count <= cited

=============================================================================
