--------------------------- MODULE Knowledge_proofs ---------------------------
(***************************************************************************)
(* Proofs about what an agent leaves for the next one: the memory table    *)
(* forgets nothing it was told to keep, for any number of writers,         *)
(* distillers, facts, rows and backups; a context which claims to be exact *)
(* is, for any number of files, phases, edits, commits and requests; and   *)
(* no search puts a row ahead of one that is better by both rankings.      *)
(***************************************************************************)
EXTENDS MCMemoryStore, FiniteSetTheorems, WellFoundedInduction, TLAPS

-----------------------------------------------------------------------------
(* The memory table and its backups.                                       *)

TableFields == {"facts", "kind", "open", "count", "cites", "shifted"}
ListFields == {"at", "offset", "read", "twice", "before", "shifted"}
IsRow(row) == DOMAIN row = TableFields /\ row = [x \in TableFields |-> row[x]]

(* Rows, archived rows and rows in the backup carry ids below the next one. *)
Typed ==
    /\ fresh \in Nat \ {0}
    /\ rows = [i \in DOMAIN rows |-> rows[i]] /\ DOMAIN rows \subseteq 1..(fresh - 1)
    /\ \A i \in DOMAIN rows : IsRow(rows[i])
    /\ DOMAIN archive \subseteq 1..(fresh - 1)
    /\ DOMAIN file.rows \subseteq 1..(fresh - 1)
    /\ \A i \in DOMAIN file.rows : IsRow(file.rows[i])

(* The row of an id, in the table and in the backup.                       *)
Copies(i) ==
    (IF i \in DOMAIN rows THEN {rows[i]} ELSE {})
    \cup (IF i \in DOMAIN file.rows THEN {file.rows[i]} ELSE {})

Alike(row, other) == row.facts = other.facts /\ row.kind = other.kind

(* What an id states and of which kind it is never changes: wherever the   *)
(* id is found, it is the same.                                            *)
Agrees ==
    \A i \in 1..(fresh - 1) : \A row \in Copies(i) :
        /\ \A other \in Copies(i) : Alike(row, other)
        /\ i \in DOMAIN archive => archive[i] = row.facts

Tables == Typed /\ Agrees

(* Nothing but an operator's word takes a distilled row or the archive.    *)
Safe(f) ==
    \/ f \in dropped
    \/ \E i \in DOMAIN rows : rows[i].kind = "distilled" /\ f \in rows[i].facts
    \/ \E i \in DOMAIN archive : f \in archive[i]

(* What a listing has read of a row is what the row states, wherever it is. *)
ReadOK(read) ==
    /\ DOMAIN read \subseteq 1..(fresh - 1)
    /\ \A i \in DOMAIN read : \A row \in Copies(i) :
          row.kind # "distilled" /\ row.facts = read[i].facts

(* A distillation holds the facts of its group until they are safe, those  *)
(* of a row that only the backup has included: it may come back.           *)
JobOK(c) ==
    /\ job[c].at = "page" => DOMAIN job[c] = ListFields /\ ReadOK(job[c].read)
    /\ job[c].at \in {"classify", "insert"} => DOMAIN job[c] = {"at", "fact", "seen"}
    /\ job[c].at \in {"merge", "purge"} =>
          job[c].group \subseteq 1..(fresh - 1)
          /\ \A i \in job[c].group : \A row \in Copies(i) : row.kind # "distilled"
    /\ job[c].at = "merge" =>
          /\ IsRow(job[c].row) /\ job[c].row.kind = "distilled"
          /\ \A i \in job[c].group : \A row \in Copies(i) :
                row.facts \subseteq (job[c].row.facts \cup job[c].lost)
    /\ job[c].at = "purge" =>
          /\ job[c] = [at |-> "purge", group |-> job[c].group]
          /\ \A i \in job[c].group : \A row \in Copies(i) : \A f \in row.facts : Safe(f)

Jobs == job = [c \in Callers |-> job[c]] /\ \A c \in Callers : JobOK(c)

FactInv == Tables /\ Jobs /\ FactsKept

(* What every step does to the tables: an id keeps its facts and kind      *)
(* wherever it comes from, and a row that goes leaves its facts somewhere.  *)
Grows ==
    /\ Typed' /\ fresh' >= fresh /\ DOMAIN file'.rows \subseteq 1..(fresh - 1)
    /\ \A i \in 1..(fresh - 1) :
          /\ i \in DOMAIN rows' => \E old \in Copies(i) : Alike(rows'[i], old)
          /\ i \in DOMAIN file'.rows => \E old \in Copies(i) : Alike(file'.rows[i], old)
    /\ \A i \in DOMAIN archive' :
          IF i \in DOMAIN archive THEN archive'[i] = archive[i]
          ELSE i \in DOMAIN rows /\ archive'[i] = rows[i].facts
    /\ DOMAIN archive \subseteq DOMAIN archive'
    /\ \A i \in DOMAIN rows \ DOMAIN rows' :
          \/ rows[i].facts \subseteq dropped'
          \/ i \in DOMAIN archive' /\ archive'[i] = rows[i].facts
          \/ rows[i].kind # "distilled" /\ \A f \in rows[i].facts : Safe(f)
    /\ dropped \subseteq dropped'
    /\ \A f \in told' : f \in told \/ \E i \in DOMAIN rows' : f \in rows'[i].facts

LEMMA CopiesAre ==
    ASSUME NEW i
    PROVE  /\ i \in DOMAIN rows => rows[i] \in Copies(i)
           /\ i \in DOMAIN file.rows => file.rows[i] \in Copies(i)
           /\ \A row \in Copies(i) : \/ i \in DOMAIN rows /\ row = rows[i]
                                     \/ i \in DOMAIN file.rows /\ row = file.rows[i]
BY DEF Copies

(* The copies of an id that there was are like those there were.            *)
LEMMA CopiesStay ==
    ASSUME Tables, Grows, NEW i \in 1..(fresh - 1)
    PROVE  \A row \in Copies(i)' : \E old \in Copies(i) : Alike(row, old)
BY DEF Grows, Copies

LEMMA RowStays ==
    ASSUME Tables, Grows, NEW i \in DOMAIN rows, i \in DOMAIN rows'
    PROVE  Alike(rows'[i], rows[i])
<1>1. i \in 1..(fresh - 1) /\ rows[i] \in Copies(i)
  BY CopiesAre DEF Tables, Typed
<1>2. PICK old \in Copies(i) : Alike(rows'[i], old)
  BY <1>1 DEF Grows
<1>3. Alike(old, rows[i])
  BY <1>1 DEF Tables, Agrees
<1> QED  BY <1>2, <1>3 DEF Alike

(* An id still states the same wherever it is found.                        *)
LEMMA AgreesStays ==
    ASSUME Tables, Grows
    PROVE  Tables'
<1>1. Typed' /\ fresh \in Nat \ {0} /\ fresh' \in Nat \ {0} /\ fresh' >= fresh
  BY DEF Grows, Tables, Typed
<1> SUFFICES ASSUME NEW i \in 1..(fresh' - 1), NEW row \in Copies(i)'
             PROVE  /\ \A other \in Copies(i)' : Alike(row, other)
                    /\ i \in DOMAIN archive' => archive'[i] = row.facts
  BY <1>1 DEF Tables, Agrees
<1>2. CASE i \in 1..(fresh - 1)
  <2>1. PICK old \in Copies(i) : Alike(row, old)
    BY <1>2, CopiesStay
  <2>2. ASSUME NEW other \in Copies(i)' PROVE Alike(row, other)
    <3>1. PICK former \in Copies(i) : Alike(other, former)
      BY <1>2, CopiesStay
    <3>2. Alike(old, former)
      BY <1>2 DEF Tables, Agrees
    <3> QED  BY <2>1, <3>1, <3>2 DEF Alike
  <2>3. ASSUME i \in DOMAIN archive' PROVE archive'[i] = row.facts
    <3>1. CASE i \in DOMAIN archive
      BY <1>2, <2>1, <2>3, <3>1 DEF Grows, Tables, Agrees, Alike
    <3>2. CASE i \notin DOMAIN archive
      <4>1. i \in DOMAIN rows /\ archive'[i] = rows[i].facts /\ rows[i] \in Copies(i)
        BY <2>3, <3>2, CopiesAre DEF Grows
      <4>2. Alike(old, rows[i])
        BY <1>2, <4>1 DEF Tables, Agrees
      <4> QED  BY <2>1, <4>1, <4>2 DEF Alike
    <3> QED  BY <3>1, <3>2
  <2> QED  BY <2>2, <2>3
<1>3. CASE i \notin 1..(fresh - 1)
  <2>1. i \notin DOMAIN archive'
    BY <1>3 DEF Grows, Tables, Typed
  <2>2. i \notin DOMAIN file'.rows
    BY <1>3 DEF Grows
  <2>3. \A other \in Copies(i)' : other = rows'[i]
    BY <2>2 DEF Copies
  <2> QED  BY <2>1, <2>3 DEF Alike
<1> QED  BY <1>2, <1>3

(* A step that leaves the backup alone grows the tables when the rows that *)
(* stay keep their facts and kind.                                         *)
LEMMA GrowsWithoutBackup ==
    ASSUME Tables, Typed', fresh' >= fresh, UNCHANGED file,
           \A i \in DOMAIN rows' : i < fresh =>
              i \in DOMAIN rows /\ rows'[i].facts = rows[i].facts /\ rows'[i].kind = rows[i].kind,
           \A i \in DOMAIN archive' :
              IF i \in DOMAIN archive THEN archive'[i] = archive[i]
              ELSE i \in DOMAIN rows /\ archive'[i] = rows[i].facts,
           DOMAIN archive \subseteq DOMAIN archive',
           \A i \in DOMAIN rows \ DOMAIN rows' :
              \/ rows[i].facts \subseteq dropped'
              \/ i \in DOMAIN archive' /\ archive'[i] = rows[i].facts
              \/ rows[i].kind # "distilled" /\ \A f \in rows[i].facts : Safe(f),
           dropped \subseteq dropped',
           \A f \in told' : f \in told \/ \E i \in DOMAIN rows' : f \in rows'[i].facts
    PROVE  Grows
<1>1. ASSUME NEW i \in 1..(fresh - 1), i \in DOMAIN rows'
      PROVE  \E old \in Copies(i) : Alike(rows'[i], old)
  <2>1. i < fresh
    BY DEF Tables, Typed
  <2> QED  BY <1>1, <2>1, CopiesAre DEF Alike
<1>2. ASSUME NEW i \in DOMAIN file.rows
      PROVE  \E old \in Copies(i) : Alike(file'.rows[i], old)
  BY CopiesAre DEF Alike
<1>3. DOMAIN file'.rows \subseteq 1..(fresh - 1)
  BY DEF Tables, Typed
<1> QED  BY <1>1, <1>2, <1>3 DEF Grows

(* A fact that is safe stays safe while the tables grow.                   *)
LEMMA SafeStays ==
    ASSUME Tables, Grows, NEW f, Safe(f)
    PROVE  Safe(f)'
<1>1. CASE f \in dropped
  BY <1>1 DEF Safe, Grows
<1>2. CASE \E i \in DOMAIN archive : f \in archive[i]
  BY <1>2 DEF Safe, Grows
<1>3. ASSUME NEW i \in DOMAIN rows, rows[i].kind = "distilled", f \in rows[i].facts
      PROVE  Safe(f)'
  <2>1. CASE i \in DOMAIN rows'
    BY <1>3, <2>1, RowStays DEF Safe, Alike
  <2>2. CASE i \notin DOMAIN rows'
    BY <1>3, <2>2 DEF Safe, Grows
  <2> QED  BY <2>1, <2>2
<1> QED  BY <1>1, <1>2, <1>3 DEF Safe

(* Growing tables keep the facts that were told stored.                    *)
LEMMA FactsStay ==
    ASSUME FactInv, Grows
    PROVE  FactsKept'
<1> SUFFICES ASSUME NEW f \in told' \ dropped' PROVE Held(f)'
  BY DEF FactsKept
<1>1. CASE \E i \in DOMAIN rows' : f \in rows'[i].facts
  BY <1>1 DEF Held
<1>2. CASE f \in told
  <2>1. Held(f) /\ f \notin dropped
    BY <1>2 DEF FactInv, FactsKept, Grows
  <2>2. CASE \E i \in DOMAIN archive : f \in archive[i]
    BY <2>2 DEF Held, Grows
  <2>3. ASSUME NEW i \in DOMAIN rows, f \in rows[i].facts PROVE Held(f)'
    <3>1. CASE i \in DOMAIN rows'
      BY <2>3, <3>1, RowStays DEF FactInv, Held, Alike
    <3>2. CASE i \in DOMAIN archive' /\ archive'[i] = rows[i].facts
      BY <2>3, <3>2 DEF Held
    <3>3. CASE Safe(f)
      <4>1. Safe(f)'
        BY <3>3, SafeStays DEF FactInv
      <4> QED  BY <4>1 DEF Safe, Held
    <3> QED  BY <2>3, <3>1, <3>2, <3>3 DEF Grows
  <2> QED  BY <2>1, <2>2, <2>3 DEF Held
<1> QED  BY <1>1, <1>2 DEF Grows

(* What one caller may rely on survives the step of another.               *)
LEMMA JobStays ==
    ASSUME FactInv, Grows, NEW c \in Callers, job'[c] = job[c]
    PROVE  JobOK(c)'
<1>1. JobOK(c) /\ Tables
  BY DEF FactInv, Jobs
<1>2. ASSUME job[c].at \in {"merge", "purge"}
      PROVE  /\ job[c].group \subseteq 1..(fresh - 1) /\ job[c].group \subseteq 1..(fresh' - 1)
             /\ \A i \in job[c].group : \A row \in Copies(i)' : \E old \in Copies(i) : Alike(row, old)
  <2>1. job[c].group \subseteq 1..(fresh - 1) /\ fresh \in Nat /\ fresh' \in Nat /\ fresh' >= fresh
    BY <1>1, <1>2 DEF JobOK, Tables, Typed, Grows
  <2> QED  BY <1>1, <2>1, CopiesStay
<1>3. \A f : Safe(f) => Safe(f)'
  BY <1>1, SafeStays
<1>4. ASSUME job[c].at = "page" PROVE ReadOK(job[c].read)'
  <2>1. PICK read : read = job[c].read /\ read = job'[c].read
    OBVIOUS
  <2>2. DOMAIN read \subseteq 1..(fresh - 1) /\ DOMAIN read \subseteq 1..(fresh' - 1)
    BY <1>1, <1>4, <2>1 DEF JobOK, ReadOK, Tables, Typed, Grows
  <2>3. \A i \in DOMAIN read : \A row \in Copies(i)' : \E old \in Copies(i) : Alike(row, old)
    BY <1>1, <2>2, CopiesStay
  <2> QED  BY <1>1, <1>4, <2>1, <2>2, <2>3 DEF JobOK, ReadOK, Alike
<1> QED  BY <1>1, <1>2, <1>3, <1>4 DEF JobOK, Alike

(* One caller goes on, the tables grow, and it keeps its own promises.     *)
LEMMA Together ==
    ASSUME FactInv, Grows, NEW c \in Callers, NEW to, Goes(c, to), JobOK(c)'
    PROVE  FactInv'
<1>1. job' = [job EXCEPT ![c] = to]
  BY DEF Goes
<1>2. \A d \in Callers \ {c} : job'[d] = job[d]
  BY <1>1 DEF FactInv, Jobs
<1>3. job' = [d \in Callers |-> job'[d]]
  BY <1>1 DEF FactInv, Jobs
<1>4. \A d \in Callers : JobOK(d)'
  BY <1>2, JobStays
<1> QED  BY <1>3, <1>4, FactsStay, AgreesStays DEF FactInv, Jobs

(* A step that moves no caller and lets the tables grow keeps it all.      *)
LEMMA NobodyMoves ==
    ASSUME FactInv, Grows, UNCHANGED job
    PROVE  FactInv'
<1>1. \A d \in Callers : JobOK(d)'
  BY JobStays
<1> QED  BY <1>1, FactsStay, AgreesStays DEF FactInv, Jobs

(* Leaving the tables alone counts as growing.                             *)
LEMMA NothingGrows ==
    ASSUME FactInv, UNCHANGED <<rows, fresh, archive, told, dropped, file>>
    PROVE  Grows
<1>1. Typed' /\ fresh' >= fresh
  BY DEF FactInv, Tables, Typed
<1> QED  BY <1>1, GrowsWithoutBackup DEF FactInv

-----------------------------------------------------------------------------
(* A row whose window closes, or that is cited, keeps its facts and kind.  *)
LEMMA OnlyFlags ==
    ASSUME FactInv, NEW i \in DOMAIN rows, NEW row, IsRow(row),
           row.facts = rows[i].facts, row.kind = rows[i].kind,
           rows' = [rows EXCEPT ![i] = row], UNCHANGED <<fresh, archive, told, dropped, file>>
    PROVE  Grows
<1>1. DOMAIN rows' = DOMAIN rows /\ rows'[i] = row /\ \A j \in DOMAIN rows \ {i} : rows'[j] = rows[j]
  BY DEF FactInv, Tables, Typed
<1>2. Typed'
  <2>1. rows' = [j \in DOMAIN rows' |-> rows'[j]]
    BY <1>1 DEF FactInv, Tables, Typed
  <2>2. \A j \in DOMAIN rows' : IsRow(rows'[j])
    BY <1>1 DEF FactInv, Tables, Typed
  <2>3. /\ fresh' \in Nat \ {0} /\ DOMAIN rows' \subseteq 1..(fresh' - 1)
        /\ DOMAIN archive' \subseteq 1..(fresh' - 1) /\ DOMAIN file'.rows \subseteq 1..(fresh' - 1)
        /\ \A j \in DOMAIN file'.rows : IsRow(file'.rows[j])
    BY <1>1 DEF FactInv, Tables, Typed
  <2> QED  BY <2>1, <2>2, <2>3 DEF Typed, IsRow, TableFields
<1>3. fresh' >= fresh
  BY DEF FactInv, Tables, Typed
<1>4. \A j \in DOMAIN rows' : j \in DOMAIN rows /\ rows'[j].facts = rows[j].facts /\ rows'[j].kind = rows[j].kind
  BY <1>1
<1> QED  BY <1>1, <1>2, <1>3, <1>4, GrowsWithoutBackup DEF FactInv

(* Closing the window of a row is rewriting one row.                       *)
LEMMA ClosedRow ==
    ASSUME FactInv, NEW i \in DOMAIN rows
    PROVE  \E row : /\ IsRow(row) /\ row.facts = rows[i].facts /\ row.kind = rows[i].kind
                    /\ Closed(i) = [rows EXCEPT ![i] = row]
<1> DEFINE row == [rows[i] EXCEPT !.open = FALSE]
<1>1. Closed(i) = [rows EXCEPT ![i] = row]
  BY DEF Closed
<1>2. IsRow(row) /\ row.facts = rows[i].facts /\ row.kind = rows[i].kind
  BY DEF FactInv, Tables, Typed, IsRow, TableFields
<1> QED  BY <1>1, <1>2

(* Closing the window of a row, if it is open, loses nothing.              *)
LEMMA ClosingGrows ==
    ASSUME FactInv, NEW i, rows' = (IF i \in OpenRows THEN Closed(i) ELSE rows),
           UNCHANGED <<fresh, archive, told, dropped, file>>
    PROVE  Grows
<1>1. CASE i \in OpenRows
  BY <1>1, ClosedRow, OnlyFlags DEF OpenRows
<1>2. CASE i \notin OpenRows
  BY <1>2, NothingGrows
<1> QED  BY <1>1, <1>2

(* A new row has the next id; the others are as in the table it is added to. *)
LEMMA NewRowGrows ==
    ASSUME FactInv, NEW table, NEW row, IsRow(row),
           DOMAIN table = DOMAIN rows,
           \A i \in DOMAIN rows : /\ IsRow(table[i])
                                  /\ table[i].facts = rows[i].facts /\ table[i].kind = rows[i].kind,
           rows' = [i \in DOMAIN table \cup {fresh} |-> IF i = fresh THEN row ELSE table[i]],
           fresh' = fresh + 1,
           \A f \in told' : f \in told \/ f \in row.facts,
           dropped \subseteq dropped', UNCHANGED <<archive, file>>
    PROVE  Grows /\ rows'[fresh] = row
<1>1. /\ DOMAIN rows' = DOMAIN rows \cup {fresh} /\ rows'[fresh] = row
      /\ \A i \in DOMAIN rows : i # fresh /\ rows'[i] = table[i]
      /\ rows' = [i \in DOMAIN rows' |-> rows'[i]]
  BY DEF FactInv, Tables, Typed
<1>2. fresh \in Nat /\ fresh >= 1 /\ fresh' = fresh + 1 /\ 1..(fresh - 1) \subseteq 1..(fresh' - 1)
      /\ fresh \in 1..(fresh' - 1) /\ fresh \notin 1..(fresh - 1)
  BY DEF FactInv, Tables, Typed
<1>3. DOMAIN rows' \subseteq 1..(fresh' - 1)
  BY <1>1, <1>2 DEF FactInv, Tables, Typed
<1>4. \A i \in DOMAIN rows' : IsRow(rows'[i])
  BY <1>1
<1>5. DOMAIN archive' \subseteq 1..(fresh' - 1) /\ DOMAIN file'.rows \subseteq 1..(fresh' - 1)
  BY <1>1, <1>2 DEF FactInv, Tables, Typed
<1>6. Typed'
  <2>1. fresh' \in Nat \ {0}
    BY <1>2
  <2>2. rows' = [i \in DOMAIN rows' |-> rows'[i]]
    BY <1>1
  <2>3. \A i \in DOMAIN file'.rows : IsRow(file'.rows[i])
    BY DEF FactInv, Tables, Typed
  <2> QED  BY <1>3, <1>4, <1>5, <2>1, <2>2, <2>3 DEF Typed, IsRow, TableFields
<1>7. \A i \in DOMAIN rows' : i < fresh => i \in DOMAIN rows
  BY <1>1, <1>2
<1>8. \A f \in told' : f \in told \/ \E i \in DOMAIN rows' : f \in rows'[i].facts
  BY <1>1
<1>9. fresh' >= fresh
  BY <1>2
<1>10. \A i \in DOMAIN rows' : i < fresh =>
          i \in DOMAIN rows /\ rows'[i].facts = rows[i].facts /\ rows'[i].kind = rows[i].kind
  BY <1>1, <1>7
<1> QED  BY <1>1, <1>6, <1>8, <1>9, <1>10, GrowsWithoutBackup DEF FactInv

(* A new statement is a row with the one fact.                             *)
LEMMA StatementIsRow ==
    ASSUME NEW f
    PROVE  IsRow(Statement(f)) /\ Statement(f).facts = {f}
BY DEF Statement, IsRow, TableFields

(* Adding a statement, to the table as it is or with a row closed.         *)
LEMMA AddingGrows ==
    ASSUME FactInv, NEW i, NEW f, UNCHANGED <<archive, dropped, file>>,
           Adds(IF i \in OpenRows THEN Closed(i) ELSE rows, f) \/ Adds(rows, f)
    PROVE  Grows
<1> DEFINE Same(table) == /\ DOMAIN table = DOMAIN rows
                          /\ \A j \in DOMAIN rows : /\ IsRow(table[j])
                               /\ table[j].facts = rows[j].facts /\ table[j].kind = rows[j].kind
<1>1. Same(rows)
  BY DEF FactInv, Tables, Typed
<1>2. ASSUME i \in OpenRows PROVE Same(Closed(i))
  <2>1. PICK row : /\ IsRow(row) /\ row.facts = rows[i].facts /\ row.kind = rows[i].kind
                   /\ Closed(i) = [rows EXCEPT ![i] = row]
    BY <1>2, ClosedRow DEF OpenRows
  <2> QED  BY <1>1, <1>2, <2>1 DEF FactInv, Tables, Typed
<1>3. PICK table : Same(table) /\ Adds(table, f)
  BY <1>1, <1>2
<1> HIDE DEF Same
<1>4. Same(table) /\ rows' = [j \in DOMAIN table \cup {fresh} |-> IF j = fresh THEN Statement(f) ELSE table[j]]
      /\ fresh' = fresh + 1 /\ told' = told \cup {f}
  BY <1>3 DEF Adds
<1> USE DEF Same
<1> QED  BY <1>4, StatementIsRow, NewRowGrows

-----------------------------------------------------------------------------
(* The transactions of a caller that stores.                               *)
LEMMA StoreStep ==
    ASSUME FactInv, NEW c \in Callers, StoreSteps(c) \/ Dies(c), UNCHANGED file
    PROVE  FactInv'
<1>1. ASSUME NEW f \in Facts, Lookup(c, f) PROVE FactInv'
  <2> DEFINE to == [at |-> IF Postgres THEN "classify" ELSE "insert", fact |-> f,
                    seen |-> IF Postgres THEN OpenRows ELSE {}]
  <2>1. Goes(c, to) /\ Grows
    BY <1>1, NothingGrows DEF Lookup
  <2>2. job'[c] = to
    BY <2>1 DEF FactInv, Jobs, Goes
  <2>3. JobOK(c)'
    BY <2>2 DEF JobOK
  <2> HIDE DEF to
  <2> QED  BY <2>1, <2>3, Together
<1>2. ASSUME Goes(c, NoJob), Grows PROVE FactInv'
  <2>1. job'[c] = NoJob
    BY <1>2 DEF FactInv, Jobs, Goes
  <2>2. JobOK(c)'
    BY <2>1 DEF JobOK, NoJob
  <2> QED  BY <1>2, <2>2, Together
<1>3. ASSUME Classifying(c), Goes(c, [job[c] EXCEPT !.at = "insert"]), Grows PROVE FactInv'
  <2>1. job'[c] = [job[c] EXCEPT !.at = "insert"]
    BY <1>3 DEF FactInv, Jobs, Goes
  <2>2. DOMAIN job'[c] = {"at", "fact", "seen"} /\ job'[c].at = "insert"
    BY <1>3, <2>1 DEF FactInv, Jobs, JobOK, Classifying
  <2>3. JobOK(c)'
    BY <2>2 DEF JobOK
  <2> QED  BY <1>3, <2>3, Together
<1>4. CASE Refuse(c) \/ Dies(c)
  BY <1>2, <1>4, NothingGrows DEF Refuse, Dies
<1>5. CASE ClassifiedAdd(c)
  BY <1>3, <1>5, NothingGrows DEF ClassifiedAdd
<1>6. ASSUME NEW i \in Ids, Negate(c, i) PROVE FactInv'
  BY <1>2, <1>6, ClosingGrows DEF Negate
<1>7. ASSUME NEW i \in Ids, Supersede(c, i) PROVE FactInv'
  BY <1>3, <1>7, ClosingGrows DEF Supersede
<1>8. ASSUME NEW i \in Ids, Replace(c, i) PROVE FactInv'
  BY <1>2, <1>8, AddingGrows DEF Replace
<1>9. CASE Insert(c)
  BY <1>2, <1>9, AddingGrows DEF Insert
<1> QED  BY <1>1, <1>4, <1>5, <1>6, <1>7, <1>8, <1>9 DEF StoreSteps

(* The transactions of a distillation: what it has read of a row is what    *)
(* the row states.                                                         *)
LEMMA PageRead ==
    ASSUME FactInv, NEW c \in Callers, Lists(c)
    PROVE  /\ DOMAIN WithPage(Listing(c)) = ListFields /\ WithPage(Listing(c)).at = "page"
           /\ ReadOK(WithPage(Listing(c)).read)
<1> DEFINE list == Listing(c)
           page == PageAt(list.offset)
           new == WithPage(list)
<1>1. DOMAIN list = ListFields /\ list.at = "page" /\ ReadOK(list.read)
  <2>1. CASE job[c] = NoJob
    BY <2>1 DEF Listing, NoPage, ListFields, ReadOK, Empty
  <2>2. CASE job[c] # NoJob
    BY <2>2 DEF Listing, Lists, FactInv, Jobs, JobOK
  <2> QED  BY <2>1, <2>2
<1> HIDE DEF list
<1>2. page \subseteq Eligible
  BY DEF PageAt
<1> HIDE DEF page
<1>3. DOMAIN new = ListFields /\ new.at = "page"
  BY <1>1 DEF WithPage, ListFields
<1>4. new.read = [i \in DOMAIN list.read \cup page |->
                     IF i \notin page THEN list.read[i]
                     ELSE IF i \in DOMAIN list.read THEN Again(i, list.read[i]) ELSE Line(i)]
  BY <1>1 DEF WithPage, ListFields, page
<1>5. \A i \in page : i \in 1..(fresh - 1) /\ i \in DOMAIN rows /\ rows[i].kind # "distilled"
  BY <1>2 DEF Eligible, FactInv, Tables, Typed
<1>6. \A i : Line(i).facts = rows[i].facts /\ \A line : Again(i, line).facts = rows[i].facts
  BY DEF Line, Again
<1>7. ASSUME NEW i \in page, NEW row \in Copies(i)
      PROVE  row.kind # "distilled" /\ row.facts = rows[i].facts
  <2>1. rows[i] \in Copies(i)
    BY <1>5, <1>7, CopiesAre
  <2>2. Alike(row, rows[i])
    BY <1>5, <1>7, <2>1 DEF FactInv, Tables, Agrees
  <2> QED  BY <1>5, <1>7, <2>2 DEF Alike
<1> HIDE DEF new
<1>8. ReadOK(new.read)
  <2>1. DOMAIN new.read \subseteq 1..(fresh - 1)
    BY <1>1, <1>4, <1>5 DEF ReadOK
  <2>2. ASSUME NEW i \in DOMAIN new.read, NEW row \in Copies(i)
        PROVE  row.kind # "distilled" /\ row.facts = new.read[i].facts
    <3>1. CASE i \in page
      BY <1>4, <1>6, <1>7, <2>2, <3>1
    <3>2. CASE i \notin page
      BY <1>1, <1>4, <2>2, <3>2 DEF ReadOK
    <3> QED  BY <3>1, <3>2
  <2> QED  BY <2>1, <2>2 DEF ReadOK
<1> QED  BY <1>3, <1>8 DEF new, list

LEMMA NextPageStep ==
    ASSUME FactInv, NEW c \in Callers, NextPage(c), UNCHANGED file
    PROVE  FactInv'
<1>1. PICK to : to = WithPage(Listing(c))
  OBVIOUS
<1>2. /\ Goes(c, to) /\ Grows /\ UNCHANGED <<rows, fresh>>
      /\ DOMAIN to = ListFields /\ to.at = "page" /\ ReadOK(to.read)
  BY <1>1, NothingGrows, PageRead DEF NextPage
<1>3. job'[c] = to
  BY <1>2 DEF FactInv, Jobs, Goes
<1>4. ReadOK(to.read)'
  BY <1>2 DEF ReadOK, Copies
<1>5. JobOK(c)'
  BY <1>2, <1>3, <1>4 DEF JobOK, ReadOK
<1> QED  BY <1>2, <1>5, Together

LEMMA GroupStep ==
    ASSUME FactInv, NEW c \in Callers, NEW group \in SUBSET Ids, NEW text \in SUBSET Facts,
           Group(c, group, text), UNCHANGED file
    PROVE  FactInv'
<1>1. PICK read, shifted : read = WithPage(Listing(c)).read /\ shifted = WithPage(Listing(c)).shifted
  OBVIOUS
<1> DEFINE row == Merged(read, group, text, shifted)
           lost == FactsOf(read, group) \ text
           to == [at |-> "merge", group |-> group, row |-> row, lost |-> lost]
<1>2. /\ Goes(c, to) /\ Grows /\ UNCHANGED <<rows, fresh>>
      /\ group \subseteq DOMAIN read /\ ReadOK(read)
  BY <1>1, NothingGrows, PageRead DEF Group
<1>3. job'[c] = to
  BY <1>2 DEF FactInv, Jobs, Goes
<1>4. IsRow(row) /\ row.kind = "distilled" /\ row.facts = text
  BY DEF Merged, IsRow, TableFields
<1>5. ASSUME NEW i \in group, NEW copy \in Copies(i)'
      PROVE  copy.kind # "distilled" /\ copy.facts \subseteq (row.facts \cup lost)
  <2>1. copy \in Copies(i)
    BY <1>2, <1>5 DEF Copies
  <2>2. copy.kind # "distilled" /\ copy.facts = read[i].facts
    BY <1>2, <1>5, <2>1 DEF ReadOK
  <2>3. read[i].facts \subseteq (text \cup lost)
    BY <1>5 DEF FactsOf
  <2> QED  BY <1>4, <2>2, <2>3
<1>6. group \subseteq 1..(fresh - 1)
  BY <1>2 DEF ReadOK
<1> HIDE DEF row, lost
<1>7. JobOK(c)'
  BY <1>2, <1>3, <1>4, <1>5, <1>6 DEF JobOK, IsRow
<1> HIDE DEF to
<1> QED  BY <1>2, <1>7, Together

(* The merged row is stored: the facts of its group are safe.              *)
LEMMA MergeStep ==
    ASSUME FactInv, NEW c \in Callers, Merge(c), UNCHANGED file
    PROVE  FactInv'
<1> DEFINE to == [at |-> "purge", group |-> job[c].group]
<1>1. job[c].at = "merge" /\ JobOK(c) /\ Tables
  BY DEF FactInv, Jobs, Merge
<1>2. Goes(c, to) /\ job'[c] = to
  BY DEF FactInv, Jobs, Goes, Merge
<1>3. Grows /\ rows'[fresh] = job[c].row
  <2>1. rows' = [i \in DOMAIN rows \cup {fresh} |-> IF i = fresh THEN job[c].row ELSE rows[i]]
        /\ fresh' = fresh + 1 /\ dropped \subseteq dropped' /\ UNCHANGED <<archive, told, file>>
    BY DEF Merge, With
  <2> QED  BY <1>1, <2>1, NewRowGrows DEF JobOK, Tables, Typed, FactInv
<1>4. fresh \in DOMAIN rows' /\ \A f \in job[c].row.facts \cup job[c].lost : Safe(f)'
  <2>1. fresh \in DOMAIN rows'
    BY DEF Merge, With
  <2>2. job[c].lost \subseteq dropped'
    BY DEF Merge
  <2> QED  BY <1>1, <1>3, <2>1, <2>2 DEF JobOK, Safe
<1>5. /\ job[c].group \subseteq 1..(fresh' - 1)
      /\ \A i \in job[c].group : \A row \in Copies(i)' : \E old \in Copies(i) : Alike(row, old)
  <2>1. job[c].group \subseteq 1..(fresh - 1) /\ fresh \in Nat /\ fresh' \in Nat /\ fresh' >= fresh
    BY <1>1, <1>3 DEF JobOK, Tables, Typed, Grows
  <2> QED  BY <1>1, <1>3, <2>1, CopiesStay
<1>6. JobOK(c)'
  <2>1. job'[c].at = "purge" /\ job'[c].group = job[c].group /\ job'[c] = to
    BY <1>2
  <2>2. \A i \in job[c].group : \A row \in Copies(i)' :
            row.kind # "distilled" /\ \A f \in row.facts : Safe(f)'
    BY <1>1, <1>4, <1>5 DEF JobOK, Alike
  <2> QED  BY <1>1, <1>5, <2>1, <2>2 DEF JobOK
<1> HIDE DEF to
<1> QED  BY <1>2, <1>3, <1>6, Together

(* A row of the group goes, or its delete fails.                           *)
LEMMA PurgeStep ==
    ASSUME FactInv, NEW c \in Callers, NEW i \in Ids, NEW deleted \in BOOLEAN, Purge(c, i, deleted), UNCHANGED file
    PROVE  FactInv'
<1>1. /\ job[c].at = "purge" /\ i \in job[c].group /\ JobOK(c) /\ Tables
      /\ UNCHANGED <<fresh, archive, told, dropped, file>>
  BY DEF FactInv, Jobs, Purge
<1>2. Grows
  <2>1. CASE deleted /\ i \in DOMAIN rows
    <3>1. rows' = [j \in DOMAIN rows \ {i} |-> rows[j]]
      BY <2>1 DEF Purge, Without
    <3>2. rows[i].kind # "distilled" /\ \A f \in rows[i].facts : Safe(f)
      BY <1>1, <2>1, CopiesAre DEF JobOK
    <3>3. Typed' /\ fresh' >= fresh
      BY <1>1, <3>1 DEF Tables, Typed, IsRow
    <3> QED  BY <1>1, <3>1, <3>2, <3>3, GrowsWithoutBackup
  <2>2. CASE rows' = rows
    BY <1>1, <2>2, NothingGrows
  <2>3. CASE deleted /\ i \notin DOMAIN rows
    <3>1. rows' = [j \in DOMAIN rows \ {i} |-> rows[j]]
      BY <2>3 DEF Purge, Without
    <3>2. rows' = rows
      BY <1>1, <2>3, <3>1 DEF Tables, Typed
    <3> QED  BY <1>1, <3>2, NothingGrows
  <2> QED  BY <2>1, <2>2, <2>3 DEF Purge
<1>3. CASE Goes(c, NoJob)
  <2>1. job'[c] = NoJob
    BY <1>3 DEF FactInv, Jobs, Goes
  <2>2. JobOK(c)'
    BY <2>1 DEF JobOK, NoJob
  <2> QED  BY <1>2, <1>3, <2>2, Together
<1>4. CASE Goes(c, [job[c] EXCEPT !.group = @ \ {i}])
  <2>1. job'[c] = [job[c] EXCEPT !.group = @ \ {i}]
    BY <1>4 DEF FactInv, Jobs, Goes
  <2>2. job[c] = [at |-> "purge", group |-> job[c].group]
    BY <1>1 DEF JobOK
  <2>3. job'[c] = [at |-> "purge", group |-> job[c].group \ {i}]
    BY <2>1, <2>2
  <2>4. \A f : Safe(f) => Safe(f)'
    BY <1>1, <1>2, SafeStays
  <2>5. \A j \in job[c].group : \A row \in Copies(j)' : \E old \in Copies(j) : Alike(row, old)
    BY <1>1, <1>2, CopiesStay DEF JobOK
  <2>6. job'[c].at = "purge" /\ job'[c].group = job[c].group \ {i}
        /\ job'[c] = [at |-> "purge", group |-> job'[c].group]
    BY <2>3
  <2>7. JobOK(c)'
    BY <1>1, <2>4, <2>5, <2>6 DEF JobOK, Alike
  <2> QED  BY <1>2, <1>4, <2>7, Together
<1> QED  BY <1>3, <1>4 DEF Purge

-----------------------------------------------------------------------------
(* Old noise goes into the archive.                                        *)
LEMMA RetireStep ==
    ASSUME FactInv, NEW last \in Ids, Retire(last), UNCHANGED file
    PROVE  FactInv'
<1> DEFINE old == {i \in DOMAIN rows : rows[i].kind = "noise" /\ i <= last}
<1>1. /\ archive' = [i \in DOMAIN archive \cup old |-> IF i \in DOMAIN archive THEN archive[i] ELSE rows[i].facts]
      /\ rows' = [i \in DOMAIN rows \ old |-> rows[i]]
      /\ UNCHANGED <<fresh, job, told, dropped>>
  BY DEF Retire, Without
<1>2. Tables /\ old \subseteq DOMAIN rows
  BY DEF FactInv
<1> HIDE DEF old
<1>3. \A i \in old : i \in DOMAIN archive' /\ archive'[i] = rows[i].facts
  <2> SUFFICES ASSUME NEW i \in old, i \in DOMAIN archive PROVE archive[i] = rows[i].facts
    BY <1>1
  <2> QED  BY <1>2, CopiesAre DEF Tables, Typed, Agrees
<1>4. Typed' /\ fresh' >= fresh
  <2>1. Typed /\ DOMAIN rows' = DOMAIN rows \ old /\ DOMAIN archive' \subseteq DOMAIN archive \cup DOMAIN rows
    BY <1>1, <1>2 DEF Tables
  <2>2. rows' = [i \in DOMAIN rows' |-> rows'[i]] /\ \A i \in DOMAIN rows' : IsRow(rows'[i])
    BY <1>1, <2>1 DEF Typed
  <2>3. \A i \in DOMAIN file'.rows : IsRow(file'.rows[i])
    BY <2>1 DEF Typed
  <2>4. /\ fresh' \in Nat \ {0} /\ fresh' >= fresh
        /\ DOMAIN rows' \subseteq 1..(fresh' - 1) /\ DOMAIN archive' \subseteq 1..(fresh' - 1)
        /\ DOMAIN file'.rows \subseteq 1..(fresh' - 1)
    BY <1>1, <2>1 DEF Typed
  <2> QED  BY <2>2, <2>3, <2>4 DEF Typed, IsRow
<1>5. Grows
  BY <1>1, <1>2, <1>3, <1>4, GrowsWithoutBackup
<1> QED  BY <1>1, <1>5, NobodyMoves

(* A row goes by the operator's word.                                      *)
LEMMA DeleteStep ==
    ASSUME FactInv, NEW i \in Ids, Delete(i), UNCHANGED file
    PROVE  FactInv'
<1>1. /\ i \in DOMAIN rows /\ rows' = [j \in DOMAIN rows \ {i} |-> rows[j]]
      /\ dropped' = dropped \cup rows[i].facts /\ UNCHANGED <<fresh, archive, job, told>>
  BY DEF Delete, Without
<1>2. Typed' /\ fresh' >= fresh
  BY <1>1 DEF FactInv, Tables, Typed, IsRow
<1>3. Grows
  BY <1>1, <1>2, GrowsWithoutBackup DEF FactInv
<1> QED  BY <1>1, <1>3, NobodyMoves

(* A row is cited.                                                         *)
LEMMA CiteStep ==
    ASSUME FactInv, NEW i \in Ids, NEW t \in Tasks, Cite(i, t), UNCHANGED file
    PROVE  FactInv'
<1> DEFINE row == [rows[i] EXCEPT !.cites = @ \cup {t}, !.count = @ + 1]
<1>1. i \in DOMAIN rows /\ UNCHANGED <<fresh, archive, job, told, dropped>>
  BY DEF Cite
<1>2. IsRow(rows[i])
  BY <1>1 DEF FactInv, Tables, Typed
<1>3. IsRow(row) /\ row.facts = rows[i].facts /\ row.kind = rows[i].kind
  BY <1>2 DEF IsRow, TableFields
<1>4. rows' = [rows EXCEPT ![i] = row]
  BY <1>1, <1>2 DEF Cite, FactInv, Tables, Typed, IsRow, TableFields
<1> HIDE DEF row
<1>5. Grows
  BY <1>1, <1>3, <1>4, OnlyFlags
<1> QED  BY <1>1, <1>5, NobodyMoves

-----------------------------------------------------------------------------
(* The invariant holds at first and after every step.                      *)
LEMMA StoreBegins ==
    ASSUME BInit
    PROVE  FactInv
BY DEF BInit, Init, FactInv, Tables, Typed, Agrees, Copies, Jobs, JobOK, FactsKept, NoJob, Empty, NoFile

(* The callers' steps keep the invariant, whatever backup there is.        *)
LEMMA StoreKeeps ==
    ASSUME FactInv, Next, UNCHANGED file
    PROVE  FactInv'
<1>2. ASSUME NEW c \in Writers, StoreSteps(c) PROVE FactInv'
  BY <1>2, StoreStep DEF Callers
<1>3. ASSUME NEW c \in Distillers, DistillSteps(c) PROVE FactInv'
  <2>1. c \in Callers
    BY DEF Callers
  <2>2. CASE MergeFails(c)
    <3>1. Goes(c, NoJob) /\ Grows
      BY <2>2, NothingGrows DEF MergeFails
    <3>2. job'[c] = NoJob
      BY <2>1, <3>1 DEF FactInv, Jobs, Goes
    <3>3. JobOK(c)'
      BY <3>2 DEF JobOK, NoJob
    <3> QED  BY <2>1, <3>1, <3>3, Together
  <2> QED  BY <1>3, <2>1, <2>2, NextPageStep, GroupStep, MergeStep, PurgeStep DEF DistillSteps
<1>4. ASSUME NEW c \in Callers, Dies(c) PROVE FactInv'
  BY <1>4, StoreStep
<1> QED  BY <1>2, <1>3, <1>4, RetireStep, DeleteStep, CiteStep DEF Next

-----------------------------------------------------------------------------
(* A backup is written: it holds copies of rows, or none.                  *)
LEMMA CreateStep ==
    ASSUME FactInv, NEW table \in Exports, NEW whole \in BOOLEAN, Create(table, whole)
    PROVE  FactInv'
<1>1. /\ UNCHANGED <<rows, fresh, archive, job, told, dropped>>
      /\ file'.rows = IF whole THEN table ELSE Empty
  BY DEF Create, vars
<1>2. file'.rows = rows \/ DOMAIN file'.rows = {}
  BY <1>1 DEF Exports, Empty
<1>3. Typed' /\ fresh' >= fresh /\ DOMAIN file'.rows \subseteq 1..(fresh - 1)
  BY <1>1, <1>2 DEF FactInv, Tables, Typed, IsRow
<1>4. ASSUME NEW i \in 1..(fresh - 1)
      PROVE  /\ i \in DOMAIN rows' => \E old \in Copies(i) : Alike(rows'[i], old)
             /\ i \in DOMAIN file'.rows => \E old \in Copies(i) : Alike(file'.rows[i], old)
  BY <1>1, <1>2, CopiesAre DEF Alike
<1>5. Grows
  BY <1>1, <1>3, <1>4 DEF Grows
<1> QED  BY <1>1, <1>5, NobodyMoves

(* A row that comes back from the backup states what it stated.            *)
LEMMA ImportedRow ==
    ASSUME Tables, NEW i \in DOMAIN file.rows
    PROVE  /\ IsRow(Imported(i)) /\ Alike(Imported(i), file.rows[i])
           /\ i \in 1..(fresh - 1) /\ file.rows[i] \in Copies(i)
           /\ i \in DOMAIN rows => Alike(Imported(i), rows[i])
<1>1. IsRow(file.rows[i]) /\ i \in 1..(fresh - 1) /\ file.rows[i] \in Copies(i)
  BY CopiesAre DEF Tables, Typed
<1>2. IsRow(Imported(i)) /\ Alike(Imported(i), file.rows[i])
  BY <1>1 DEF Imported, IsRow, TableFields, Alike
<1>3. i \in DOMAIN rows => Alike(file.rows[i], rows[i])
  BY <1>1, CopiesAre DEF Tables, Agrees
<1> QED  BY <1>1, <1>2, <1>3 DEF Alike

(* A restore brings rows back beside those there are, or in their place.   *)
LEMMA RestoreStep ==
    ASSUME FactInv, RestoreMerge(DOMAIN file.rows) \/ RestoreReplace(DOMAIN file.rows)
    PROVE  FactInv'
<1>1. Tables /\ UNCHANGED <<fresh, archive, job, told, file>>
  BY DEF FactInv, RestoreMerge, RestoreReplace
<1>2. CASE RestoreMerge(DOMAIN file.rows)
  <2>1. /\ rows' = [i \in DOMAIN rows \cup DOMAIN file.rows |->
                       IF i \in DOMAIN rows THEN rows[i] ELSE Imported(i)]
        /\ dropped' = dropped
    BY <1>2 DEF RestoreMerge, Import
  <2>2. ASSUME NEW i \in DOMAIN rows'
        PROVE  /\ i \in 1..(fresh - 1) /\ IsRow(rows'[i])
               /\ \E old \in Copies(i) : Alike(rows'[i], old)
    <3>1. CASE i \in DOMAIN rows
      BY <1>1, <2>1, <3>1, CopiesAre DEF Tables, Typed, Alike
    <3>2. CASE i \in DOMAIN file.rows \ DOMAIN rows
      BY <1>1, <2>1, <3>2, ImportedRow
    <3> QED  BY <2>1, <2>2, <3>1, <3>2
  <2>3. Typed' /\ fresh' >= fresh /\ DOMAIN file'.rows \subseteq 1..(fresh - 1)
    <3>1. rows' = [i \in DOMAIN rows' |-> rows'[i]] /\ \A i \in DOMAIN rows' : IsRow(rows'[i])
      BY <2>1, <2>2
    <3>2. \A i \in DOMAIN file'.rows : IsRow(file'.rows[i])
      BY <1>1 DEF Tables, Typed
    <3>3. DOMAIN rows' \subseteq 1..(fresh' - 1)
      BY <1>1, <2>2
    <3>4. /\ fresh' \in Nat \ {0} /\ fresh' >= fresh /\ DOMAIN archive' \subseteq 1..(fresh' - 1)
          /\ DOMAIN file'.rows \subseteq 1..(fresh' - 1) /\ fresh' = fresh
      BY <1>1 DEF Tables, Typed
    <3> QED  BY <3>1, <3>2, <3>3, <3>4 DEF Typed, IsRow
  <2>4. ASSUME NEW i \in 1..(fresh - 1), i \in DOMAIN file'.rows
        PROVE  \E old \in Copies(i) : Alike(file'.rows[i], old)
    BY <1>1, <2>4, CopiesAre DEF Alike
  <2>5. DOMAIN rows \subseteq DOMAIN rows'
    BY <2>1
  <2>6. Grows
    BY <1>1, <2>1, <2>2, <2>3, <2>4, <2>5 DEF Grows
  <2> QED  BY <1>1, <2>6, NobodyMoves
<1>3. CASE RestoreReplace(DOMAIN file.rows)
  <2>1. /\ rows' = [i \in DOMAIN file.rows |-> Imported(i)]
        /\ dropped' = dropped \cup UNION {rows[i].facts : i \in Dropped}
        /\ file.rows # Empty
    BY <1>3 DEF RestoreReplace, Import, Restorable, Empty
  <2>2. ASSUME NEW i \in DOMAIN rows'
        PROVE  /\ i \in 1..(fresh - 1) /\ IsRow(rows'[i])
               /\ \E old \in Copies(i) : Alike(rows'[i], old)
    BY <1>1, <2>1, <2>2, ImportedRow
  <2>3. Typed' /\ fresh' >= fresh /\ DOMAIN file'.rows \subseteq 1..(fresh - 1)
    <3>1. rows' = [i \in DOMAIN rows' |-> rows'[i]] /\ \A i \in DOMAIN rows' : IsRow(rows'[i])
      BY <2>1, <2>2
    <3>2. \A i \in DOMAIN file'.rows : IsRow(file'.rows[i])
      BY <1>1 DEF Tables, Typed
    <3>3. DOMAIN rows' \subseteq 1..(fresh' - 1)
      BY <1>1, <2>2
    <3>4. /\ fresh' \in Nat \ {0} /\ fresh' >= fresh /\ DOMAIN archive' \subseteq 1..(fresh' - 1)
          /\ DOMAIN file'.rows \subseteq 1..(fresh' - 1) /\ fresh' = fresh
      BY <1>1 DEF Tables, Typed
    <3> QED  BY <3>1, <3>2, <3>3, <3>4 DEF Typed, IsRow
  <2>4. ASSUME NEW i \in 1..(fresh - 1), i \in DOMAIN file'.rows
        PROVE  \E old \in Copies(i) : Alike(file'.rows[i], old)
    BY <1>1, <2>4, CopiesAre DEF Alike
  <2>5. ASSUME NEW i \in DOMAIN rows \ DOMAIN rows'
        PROVE  rows[i].facts \subseteq dropped'
    <3>1. i \in Dropped
      BY <2>1, <2>5 DEF Dropped
    <3> QED  BY <2>1, <3>1
  <2>6. Grows
    BY <1>1, <2>1, <2>2, <2>3, <2>4, <2>5 DEF Grows
  <2> QED  BY <1>1, <2>6, NobodyMoves
<1> QED  BY <1>2, <1>3

LEMMA BackupKeeps ==
    ASSUME FactInv, [BNext]_bvars
    PROVE  FactInv'
<1>1. CASE UNCHANGED bvars
  BY <1>1, NothingGrows, NobodyMoves DEF bvars, vars
<1>2. CASE NewDay
  BY <1>2, NothingGrows, NobodyMoves DEF NewDay, vars
<1> QED  BY <1>1, <1>2, StoreKeeps, CreateStep, RestoreStep DEF BNext, AutoBackup, BackupCreate

(* A fact whose caller was told stored stays on some row or in the archive  *)
(* until an operator deletes or replaces it or a merge that was stored      *)
(* leaves it out of its text, for any number of writers and distillers that *)
(* die or fail anywhere, pages of any size, and backups made and restored   *)
(* at any moment, also between the pages or the halves of a distillation    *)
(* (gsd-memory.cjs:2689, pg_store.py:997, backup.py): a distilled row is     *)
(* stored before its group goes, and what comes back is never more than     *)
(* there was.                                                              *)
THEOREM NothingForgotten == BSpec => []FactsKept
<1>1. FactInv => FactsKept
  BY DEF FactInv
<1> QED  BY StoreBegins, BackupKeeps, <1>1, PTL DEF BSpec

-----------------------------------------------------------------------------
(* Sums over finite sets. CarriedCount adds up in the order of a CHOOSE that *)
(* depends on the set alone, so that two sums over the same set can be       *)
(* compared element by element. An induction is a least counterexample.      *)

Pick(s) == CHOOSE x \in s : TRUE

(* h sums w over every part of S, an element at a time.                     *)
Sums(h, w, S) ==
    /\ h = [s \in SUBSET S |-> h[s]]
    /\ \A s \in SUBSET S : h[s] = IF s = {} THEN 0 ELSE w[Pick(s)] + h[s \ {Pick(s)}]

LEMMA Least ==
    ASSUME NEW S \in SUBSET Nat, S # {}
    PROVE  \E n \in S : \A m \in S : n <= m
<1>1. PICK n \in S : \A m \in S : ~ (<<m, n>> \in OpToRel(<, Nat))
  BY WFMin, NatLessThanWellFounded
<1>2. \A m \in S : ~ (m < n)
  BY <1>1 DEF OpToRel
<1> QED  BY <1>2

(* A finite set is empty or loses one element with the one picked.          *)
LEMMA Picked ==
    ASSUME NEW S, IsFiniteSet(S), NEW s \in SUBSET S, s # {}
    PROVE  /\ Pick(s) \in s /\ s \ {Pick(s)} \in SUBSET S
           /\ IsFiniteSet(s) /\ Cardinality(s) \in Nat \ {0}
           /\ Cardinality(s \ {Pick(s)}) = Cardinality(s) - 1
<1>1. Pick(s) \in s
  BY DEF Pick
<1>2. IsFiniteSet(s) /\ Cardinality(s) \in Nat
  BY FS_Subset, FS_CardinalityType
<1>3. Cardinality(s) # 0
  BY <1>2, FS_EmptySet
<1> QED  BY <1>1, <1>2, <1>3, FS_RemoveElement

LEMMA SumsExist ==
    ASSUME NEW S, IsFiniteSet(S), NEW w
    PROVE  \E h : Sums(h, w, S)
<1> DEFINE Small(n) == {s \in SUBSET S : Cardinality(s) <= n}
           Upto(h, n) == /\ h = [s \in Small(n) |-> h[s]]
                         /\ \A s \in Small(n) :
                              h[s] = IF s = {} THEN 0 ELSE w[Pick(s)] + h[s \ {Pick(s)}]
           Bad == {n \in Nat : ~ \E h : Upto(h, n)}
<1>1. \A s \in SUBSET S : IsFiniteSet(s) /\ Cardinality(s) \in Nat
  BY FS_Subset, FS_CardinalityType
<1>2. \E h : Upto(h, 0)
  <2> DEFINE h == [s \in Small(0) |-> 0]
  <2>1. \A s \in Small(0) : s = {}
    BY <1>1, FS_EmptySet
  <2>2. Upto(h, 0)
    BY <2>1
  <2> QED  BY <2>2
<1>3. ASSUME NEW n \in Nat, NEW h, Upto(h, n)
      PROVE  \E k : Upto(k, n + 1)
  <2> DEFINE k == [s \in Small(n + 1) |-> IF s = {} THEN 0 ELSE w[Pick(s)] + h[s \ {Pick(s)}]]
  <2>1. \A s \in Small(n + 1) : s # {} => s \ {Pick(s)} \in Small(n)
    BY Picked
  <2>2. Small(n) \subseteq Small(n + 1)
    BY <1>1
  <2>3. \A s \in Small(n) : k[s] = h[s]
    BY <1>3, <2>2
  <2>4. \A s \in Small(n + 1) : k[s] = IF s = {} THEN 0 ELSE w[Pick(s)] + k[s \ {Pick(s)}]
    BY <2>1, <2>3
  <2>5. Upto(k, n + 1)
    BY <2>4
  <2> HIDE DEF k
  <2> QED  BY <2>5
<1> HIDE DEF Upto
<1>4. Bad = {}
  <2> SUFFICES ASSUME Bad # {} PROVE FALSE
    OBVIOUS
  <2>1. PICK n \in Bad : \A m \in Bad : n <= m
    BY Least
  <2>2. n \in Nat /\ n # 0 /\ ~ \E h : Upto(h, n)
    BY <1>2, <2>1
  <2> HIDE DEF Bad
  <2>3. n - 1 \in Nat /\ n - 1 \notin Bad /\ (n - 1) + 1 = n
    BY <2>1, <2>2
  <2>4. \E h : Upto(h, n - 1)
    BY <2>3 DEF Bad
  <2> QED  BY <1>3, <2>2, <2>3, <2>4
<1>5. PICK h : Upto(h, Cardinality(S))
  BY <1>1, <1>4
<1> USE DEF Upto
<1>6. Small(Cardinality(S)) = SUBSET S
  <2> SUFFICES ASSUME NEW s \in SUBSET S PROVE Cardinality(s) <= Cardinality(S)
    OBVIOUS
  <2> QED  BY FS_Subset
<1> QED  BY <1>5, <1>6 DEF Sums

(* Where no weight grows but that of one element, and that by one at most,  *)
(* the sum grows by one at most, and only if the element is counted.        *)
LEMMA SumsCompare ==
    ASSUME NEW S, IsFiniteSet(S), NEW w, NEW v, NEW h, NEW k,
           Sums(h, w, S), Sums(k, v, S),
           NEW X, \A x, y \in X : x = y,
           \A i \in S : /\ w[i] \in Nat /\ v[i] \in Nat
                        /\ v[i] <= w[i] + (IF i \in X THEN 1 ELSE 0)
    PROVE  h[S] \in Nat /\ k[S] \in Nat /\ k[S] <= h[S] + (IF X \cap S = {} THEN 0 ELSE 1)
<1> DEFINE Right(s) == h[s] \in Nat /\ k[s] \in Nat /\ k[s] <= h[s] + (IF X \cap s = {} THEN 0 ELSE 1)
           Bad == {n \in Nat : \E s \in SUBSET S : Cardinality(s) = n /\ ~ Right(s)}
<1>1. h[{}] = 0 /\ k[{}] = 0
  BY DEF Sums
<1>2. ASSUME NEW s \in SUBSET S, s # {}, Right(s \ {Pick(s)})
      PROVE  Right(s)
  <2>1. Pick(s) \in s /\ Pick(s) \in S
    BY <1>2, Picked
  <2>2. h[s] = w[Pick(s)] + h[s \ {Pick(s)}] /\ k[s] = v[Pick(s)] + k[s \ {Pick(s)}]
    BY <1>2 DEF Sums
  <2>3. CASE Pick(s) \in X
    <3>1. X \cap (s \ {Pick(s)}) = {} /\ X \cap s # {}
      BY <2>1, <2>3
    <3> QED  BY <1>2, <2>1, <2>2, <2>3, <3>1
  <2>4. CASE Pick(s) \notin X
    <3>1. X \cap (s \ {Pick(s)}) = X \cap s
      BY <2>4
    <3> QED  BY <1>2, <2>1, <2>2, <2>4, <3>1
  <2> QED  BY <2>3, <2>4
<1>3. Right({})
  BY <1>1
<1> HIDE DEF Right
<1>4. Bad = {}
  <2> SUFFICES ASSUME Bad # {} PROVE FALSE
    OBVIOUS
  <2>1. PICK n \in Bad : \A m \in Bad : n <= m
    BY Least
  <2>2. PICK s \in SUBSET S : n \in Nat /\ Cardinality(s) = n /\ ~ Right(s)
    BY <2>1
  <2>3. s # {}
    BY <1>3, <2>2
  <2>4. /\ s \ {Pick(s)} \in SUBSET S /\ n \in Nat \ {0}
        /\ Cardinality(s \ {Pick(s)}) = n - 1
    BY <2>2, <2>3, Picked
  <2>5. n - 1 \in Bad
    BY <1>2, <2>2, <2>3, <2>4
  <2>6. ~ (n <= n - 1)
    BY <2>4
  <2> QED  BY <2>1, <2>5, <2>6
<1>5. S \in SUBSET S /\ Cardinality(S) \in Nat
  BY FS_CardinalityType
<1>6. Right(S)
  BY <1>4, <1>5
<1> QED  BY <1>6 DEF Right

LEMMA SumsShrink ==
    ASSUME NEW S, IsFiniteSet(S), NEW w, NEW v, NEW h, NEW k,
           Sums(h, w, S), Sums(k, v, S),
           \A i \in S : w[i] \in Nat /\ v[i] \in Nat /\ v[i] <= w[i]
    PROVE  h[S] \in Nat /\ k[S] \in Nat /\ k[S] <= h[S]
<1> DEFINE X == {}
<1>1. (\A x, y \in X : x = y) /\ X \cap S = {}
  OBVIOUS
<1>2. \A i \in S : v[i] <= w[i] + (IF i \in X THEN 1 ELSE 0)
  OBVIOUS
<1> HIDE DEF X
<1>3. h[S] \in Nat /\ k[S] \in Nat /\ k[S] <= h[S] + (IF X \cap S = {} THEN 0 ELSE 1)
  BY <1>1, <1>2, SumsCompare
<1> QED  BY <1>1, <1>3

(* What a distilled row carries is the sum of the counts of its group.      *)
LEMMA CarriedIsSum ==
    ASSUME NEW read, NEW group, IsFiniteSet(group)
    PROVE  \E h : Sums(h, [i \in group |-> read[i].count], group) /\ h[group] = CarriedCount(read, group)
<1> DEFINE Iter(h) == h = [s \in SUBSET group |-> IF s = {} THEN 0
                                                  ELSE read[Pick(s)].count + h[s \ {Pick(s)}]]
           iter == CHOOSE h : Iter(h)
           w == [i \in group |-> read[i].count]
<1>1. CarriedCount(read, group) = iter[group]
  BY DEF CarriedCount, MapThenSumSet, MapThenFoldSet, Pick
<1>2. \A s \in SUBSET group : s # {} => w[Pick(s)] = read[Pick(s)].count
  BY DEF Pick
<1>3. PICK k : Sums(k, w, group)
  BY SumsExist
<1>4. Iter(k)
  BY <1>2, <1>3 DEF Sums
<1>5. Iter(iter)
  BY <1>4, Zenon
<1> HIDE DEF iter
<1>6. Sums(iter, w, group)
  BY <1>2, <1>5 DEF Sums
<1> QED  BY <1>1, <1>6

(* No finite set of ids weighs more than n.                                 *)
Covers(n, w) == \A S \in SUBSET Nat : \A h : IsFiniteSet(S) /\ Sums(h, w, S) => h[S] <= n
IsWeight(w) == \A i \in Nat : w[i] \in Nat

LEMMA CoversLighter ==
    ASSUME NEW n \in Nat, NEW w, NEW v, Covers(n, w), IsWeight(w), IsWeight(v),
           \A i \in Nat : v[i] <= w[i]
    PROVE  Covers(n, v)
<1> SUFFICES ASSUME NEW S \in SUBSET Nat, NEW k, IsFiniteSet(S), Sums(k, v, S)
             PROVE  k[S] <= n
  BY DEF Covers
<1>1. PICK h : Sums(h, w, S)
  BY SumsExist
<1>2. h[S] <= n
  BY <1>1 DEF Covers
<1>3. \A i \in S : w[i] \in Nat /\ v[i] \in Nat /\ v[i] <= w[i]
  BY DEF IsWeight
<1>4. h[S] \in Nat /\ k[S] \in Nat /\ k[S] <= h[S]
  BY <1>1, <1>3, SumsShrink
<1> QED  BY <1>2, <1>4

LEMMA CoversOneMore ==
    ASSUME NEW n \in Nat, NEW w, NEW v, NEW x, Covers(n, w), IsWeight(w), IsWeight(v),
           \A i \in Nat : v[i] <= w[i] + (IF i = x THEN 1 ELSE 0)
    PROVE  Covers(n + 1, v)
<1> SUFFICES ASSUME NEW S \in SUBSET Nat, NEW k, IsFiniteSet(S), Sums(k, v, S)
             PROVE  k[S] <= n + 1
  BY DEF Covers
<1>1. PICK h : Sums(h, w, S)
  BY SumsExist
<1>2. h[S] <= n
  BY <1>1 DEF Covers
<1> DEFINE X == {x}
<1>3. (\A y, z \in X : y = z) /\ \A i : i \in X <=> i = x
  OBVIOUS
<1> HIDE DEF X
<1>4. \A i \in S : /\ w[i] \in Nat /\ v[i] \in Nat
                   /\ v[i] <= w[i] + (IF i \in X THEN 1 ELSE 0)
  BY <1>3 DEF IsWeight
<1>5. h[S] \in Nat /\ k[S] \in Nat /\ k[S] <= h[S] + (IF X \cap S = {} THEN 0 ELSE 1)
  BY <1>1, <1>3, <1>4, SumsCompare
<1> QED  BY <1>2, <1>5

-----------------------------------------------------------------------------
(* The counts of citations.                                                *)

Larger(m, n) == IF m >= n THEN m ELSE n

\* What a row still has to give to a distillation, and what a listing has.
Now(i) == IF i \in Eligible THEN rows[i].count ELSE 0
Was(read, i) == IF i \in DOMAIN read THEN read[i].count ELSE 0
Weights(read) == [i \in Nat |-> Larger(Now(i), Was(read, i))]
ReadCounts(read) == \A i \in DOMAIN read : i \in Nat /\ read[i].count \in Nat

(* A row that was read is not on the next page while no row came in between: *)
(* there are not more newer ones than the listing has passed.                *)
Behind(list) ==
    /\ list.offset \in Nat /\ list.shifted \in BOOLEAN
    /\ list.offset = 0 => DOMAIN list.read = {}
    /\ ReadCounts(list.read) /\ IsFiniteSet(list.before)
    /\ ~list.shifted => \A i \in DOMAIN list.read \cap list.before :
          Cardinality({j \in list.before : j > i}) < list.offset

\* What a row claims, when nothing shifted its listing.
Honest(row, n) ==
    row.count \in Nat /\ (~row.shifted => row.count <= n)

(* The rows not yet distilled have together not more citations than were    *)
(* made, also as a listing has read them; nor has any distilled row, stored *)
(* or about to be.                                                          *)
Counted ==
    /\ cited \in Nat
    /\ \A i \in DOMAIN rows : Honest(rows[i], cited)
    /\ \A c \in Callers : job[c].at = "merge" => Honest(job[c].row, cited)
    /\ Covers(cited, Weights(Empty))
    /\ \A c \in Callers : job[c].at = "page" =>
          /\ Behind(job[c])
          /\ ~job[c].shifted => Covers(cited, Weights(job[c].read))

CountInv == FactInv /\ Counted

(* A row of a later table has what it had, or nothing, or is distilled.     *)
SameCount(i) ==
    /\ i \in DOMAIN rows
    /\ rows'[i].count = rows[i].count /\ rows'[i].kind = rows[i].kind
    /\ rows'[i].shifted = rows[i].shifted
Recounted ==
    /\ \A i \in DOMAIN rows' :
          \/ SameCount(i)
          \/ rows'[i].count = 0 /\ Honest(rows'[i], cited)
          \/ rows'[i].kind = "distilled" /\ Honest(rows'[i], cited)
    /\ cited' = cited

\* A row to be stored claims no more than was cited, nor does a listing.
Fair(j) ==
    /\ j.at = "merge" => Honest(j.row, cited)
    /\ j.at = "page" => Behind(j) /\ (~j.shifted => Covers(cited, Weights(j.read)))
JobsFair == \A c \in Callers : job'[c] = job[c] \/ Fair(job'[c])

LEMMA EligibleNat ==
    ASSUME CountInv
    PROVE  /\ Eligible \subseteq Nat /\ IsFiniteSet(Eligible)
           /\ \A i \in Eligible : rows[i].count \in Nat
<1>1. fresh \in Nat /\ DOMAIN rows \subseteq 1..(fresh - 1)
  BY DEF CountInv, FactInv, Tables, Typed
<1>2. IsFiniteSet(1..(fresh - 1)) /\ Eligible \subseteq 1..(fresh - 1)
  BY <1>1, FS_Interval DEF Eligible
<1>3. IsFiniteSet(Eligible)
  BY <1>2, FS_Subset
<1> QED  BY <1>2, <1>3 DEF Eligible, CountInv, Counted, Honest

LEMMA WeightsAre ==
    ASSUME CountInv, NEW read, ReadCounts(read)
    PROVE  /\ IsWeight(Weights(read))
           /\ \A i \in Nat : Now(i) \in Nat /\ Was(read, i) \in Nat
<1>1. \A i \in Nat : Now(i) \in Nat /\ Was(read, i) \in Nat
  BY EligibleNat DEF Now, Was, ReadCounts
<1> QED  BY <1>1 DEF IsWeight, Weights, Larger

LEMMA NothingRead == ReadCounts(Empty)
BY DEF ReadCounts, Empty

(* Sums that do not grow stay below what was cited.                         *)
LEMMA CoveredStays ==
    ASSUME CountInv, Recounted, NEW read, ReadCounts(read), Covers(cited, Weights(read))
    PROVE  Covers(cited', Weights(read)')
<1>1. cited \in Nat /\ cited' = cited
  BY DEF CountInv, Counted, Recounted
<1> DEFINE w == Weights(read)
           v == Weights(read)'
<1>2. IsWeight(w) /\ \A i \in Nat : Now(i) \in Nat /\ Was(read, i) \in Nat
  BY WeightsAre
<1>3. \A i \in Nat : Now(i)' \in Nat /\ Now(i)' <= Now(i)
  <2> TAKE i \in Nat
  <2>1. CASE i \in Eligible'
    <3>1. i \in DOMAIN rows' /\ rows'[i].kind # "distilled" /\ Now(i)' = rows'[i].count
      BY <2>1 DEF Eligible, Now
    <3>2. SameCount(i) => Now(i) = rows'[i].count
      BY <3>1 DEF SameCount, Now, Eligible
    <3> QED  BY <1>2, <3>1, <3>2 DEF Recounted
  <2>2. CASE i \notin Eligible'
    BY <1>2, <2>2 DEF Now
  <2> QED  BY <2>1, <2>2
<1>4. Was(read, 0)' = Was(read, 0) /\ \A i : Was(read, i)' = Was(read, i)
  BY DEF Was
<1>5. \A i \in Nat : v[i] \in Nat /\ v[i] <= w[i]
  BY <1>2, <1>3, <1>4 DEF Weights, Larger
<1>6. IsWeight(v)
  BY <1>5 DEF IsWeight
<1> HIDE DEF w, v
<1>7. Covers(cited, v)
  BY <1>1, <1>2, <1>5, <1>6, CoversLighter DEF w
<1> QED  BY <1>1, <1>7 DEF v

LEMMA CountedStays ==
    ASSUME CountInv, Recounted, JobsFair
    PROVE  Counted'
<1>1. cited' \in Nat /\ cited' = cited
  BY DEF CountInv, Counted, Recounted
<1>2. \A i \in DOMAIN rows' : Honest(rows'[i], cited)
  BY <1>1 DEF CountInv, Counted, Recounted, SameCount, Honest
<1>3. \A c \in Callers : Fair(job'[c])
  BY DEF CountInv, Counted, JobsFair, Fair
<1>4. Covers(cited', Weights(Empty)')
  <2>1. PICK none : none = Empty
    OBVIOUS
  <2>2. Covers(cited', Weights(none)')
    BY <2>1, CoveredStays, NothingRead DEF CountInv, Counted
  <2> QED  BY <2>1, <2>2 DEF Weights, Was, Empty
<1>5. ASSUME NEW c \in Callers, job'[c].at = "page", ~job'[c].shifted
      PROVE  Covers(cited', Weights(job[c].read)')
  <2>1. PICK read : read = job'[c].read
    OBVIOUS
  <2>2. ReadCounts(read) /\ Covers(cited, Weights(read))
    BY <1>3, <1>5, <2>1 DEF Fair, Behind
  <2>3. Covers(cited', Weights(read)')
    BY <2>2, CoveredStays
  <2> QED  BY <2>1, <2>3 DEF Weights, Was
<1> QED  BY <1>1, <1>2, <1>3, <1>4, <1>5 DEF Counted, Fair

(* A citation is one more, and one more is cited.                           *)
LEMMA CiteCounts ==
    ASSUME CountInv, NEW i \in Ids, NEW t \in Tasks, Cite(i, t)
    PROVE  Counted'
<1>1. /\ i \in DOMAIN rows /\ cited' = cited + 1 /\ job' = job
      /\ rows' = [rows EXCEPT ![i].cites = @ \cup {t}, ![i].count = @ + 1]
  BY DEF Cite
<1>2. /\ cited \in Nat /\ rows = [j \in DOMAIN rows |-> rows[j]] /\ IsRow(rows[i])
      /\ \A j \in DOMAIN rows : Honest(rows[j], cited)
  BY <1>1 DEF CountInv, FactInv, Tables, Typed, Counted
<1>3. /\ DOMAIN rows' = DOMAIN rows
      /\ rows'[i].count = rows[i].count + 1 /\ rows'[i].kind = rows[i].kind
      /\ rows'[i].shifted = rows[i].shifted
      /\ \A j \in DOMAIN rows \ {i} : rows'[j] = rows[j]
  BY <1>1, <1>2 DEF IsRow, TableFields
<1>4. \A j \in DOMAIN rows' : Honest(rows'[j], cited')
  BY <1>1, <1>2, <1>3 DEF Honest
<1>5. \A c \in Callers : job'[c].at = "merge" => Honest(job'[c].row, cited')
  BY <1>1, <1>2 DEF CountInv, Counted, Honest
<1>6. ASSUME NEW read, ReadCounts(read), Covers(cited, Weights(read))
      PROVE  Covers(cited', Weights(read)')
  <2> DEFINE w == Weights(read)
             v == Weights(read)'
  <2>1. IsWeight(w) /\ \A j \in Nat : Now(j) \in Nat /\ Was(read, j) \in Nat
    BY <1>6, WeightsAre
  <2>2. \A j \in Nat : Now(j)' \in Nat /\ Now(j)' <= Now(j) + (IF j = i THEN 1 ELSE 0)
    <3> TAKE j \in Nat
    <3>1. j \in Eligible' <=> j \in Eligible
      BY <1>3 DEF Eligible
    <3>2. j \in Eligible => j \in DOMAIN rows
      BY DEF Eligible
    <3>3. Now(j) = (IF j \in Eligible THEN rows[j].count ELSE 0)
          /\ Now(j)' = IF j \in Eligible' THEN rows'[j].count ELSE 0
      BY DEF Now
    <3> QED  BY <1>2, <1>3, <2>1, <3>1, <3>2, <3>3 DEF Honest
  <2>3. \A j : Was(read, j)' = Was(read, j)
    BY DEF Was
  <2>4. \A j \in Nat : v[j] \in Nat /\ v[j] <= w[j] + (IF j = i THEN 1 ELSE 0)
    BY <2>1, <2>2, <2>3 DEF Weights, Larger
  <2>5. IsWeight(v)
    BY <2>4 DEF IsWeight
  <2> HIDE DEF w, v
  <2>6. Covers(cited + 1, v)
    BY <1>2, <1>6, <2>1, <2>4, <2>5, CoversOneMore DEF w
  <2> QED  BY <1>1, <2>6 DEF v
<1>7. Covers(cited', Weights(Empty)')
  <2>1. PICK none : none = Empty
    OBVIOUS
  <2>2. Covers(cited', Weights(none)')
    BY <1>6, <2>1, NothingRead DEF CountInv, Counted
  <2> QED  BY <2>1, <2>2 DEF Weights, Was, Empty
<1>8. ASSUME NEW c \in Callers, job[c].at = "page"
      PROVE  /\ Behind(job[c])
             /\ ~job[c].shifted => Covers(cited', Weights(job[c].read)')
  <2>1. PICK read : read = job[c].read
    OBVIOUS
  <2>2. Behind(job[c]) /\ ReadCounts(read) /\ (~job[c].shifted => Covers(cited, Weights(read)))
    BY <1>8, <2>1 DEF CountInv, Counted, Behind
  <2>3. ~job[c].shifted => Covers(cited', Weights(read)')
    BY <1>6, <2>2
  <2>4. read = job'[c].read
    BY <1>1, <2>1
  <2> QED  BY <2>2, <2>3, <2>4 DEF Weights, Was
<1>9. cited' \in Nat
  BY <1>1, <1>2
<1> QED  BY <1>1, <1>4, <1>5, <1>7, <1>8, <1>9 DEF Counted

(* A page adds rows that were not read, if no row came in between, and what *)
(* it reads of them is what they have.                                      *)
LEMMA PageCounts ==
    ASSUME CountInv, NEW c \in Callers, Lists(c)
    PROVE  LET new == WithPage(Listing(c))
           IN  Behind(new) /\ (~new.shifted => Covers(cited, Weights(new.read)))
<1> DEFINE list == Listing(c)
           page == PageAt(list.offset)
           new == WithPage(list)
<1>1. /\ DOMAIN list = ListFields /\ Behind(list)
      /\ ~list.shifted => Covers(cited, Weights(list.read))
  <2>1. CASE job[c] = NoJob
    <3>1. list = NoPage /\ IsFiniteSet({})
      BY <2>1, FS_EmptySet DEF Listing
    <3> QED  BY <3>1 DEF NoPage, ListFields, Behind, ReadCounts, Empty, CountInv, Counted
  <2>2. CASE job[c] # NoJob
    BY <2>2 DEF Listing, Lists, CountInv, FactInv, Jobs, JobOK, Counted
  <2> QED  BY <2>1, <2>2
<1> HIDE DEF list
<1>2. /\ \A i : i \in page <=> i \in Eligible
                   /\ Cardinality(Newer(i)) \in list.offset..list.offset + PageSize - 1
      /\ PageSize \in Nat \ {0}
  BY MemoryAssumption DEF PageAt
<1> HIDE DEF page
<1>3. /\ new.offset = list.offset + PageSize /\ new.before = Eligible
      /\ new.shifted = (list.shifted \/ (list.offset > 0 /\ ~(Eligible \subseteq list.before)))
      /\ new.read = [i \in DOMAIN list.read \cup page |->
                        IF i \notin page THEN list.read[i]
                        ELSE IF i \in DOMAIN list.read THEN Again(i, list.read[i]) ELSE Line(i)]
  BY <1>1 DEF WithPage, ListFields, page
<1> HIDE DEF new
<1>4. /\ \A i : Line(i).count = rows[i].count
      /\ \A i, line : Again(i, line).count = rows[i].count + line.count
  BY DEF Line, Again
<1>5. /\ Eligible \subseteq Nat /\ IsFiniteSet(Eligible)
      /\ \A i \in Eligible : rows[i].count \in Nat
  BY EligibleNat
<1>6. list.offset \in Nat /\ list.shifted \in BOOLEAN /\ ReadCounts(list.read)
  BY <1>1 DEF Behind
<1>11. PageSize \in Nat /\ PageSize > 0
  BY <1>2
<1>7. ReadCounts(new.read)
  <2> SUFFICES ASSUME NEW i \in DOMAIN new.read PROVE i \in Nat /\ new.read[i].count \in Nat
    BY DEF ReadCounts
  <2>1. CASE i \in page
    <3>1. i \in Nat /\ rows[i].count \in Nat
      BY <1>2, <1>5, <2>1
    <3>2. CASE i \in DOMAIN list.read
      <4>1. new.read[i] = Again(i, list.read[i]) /\ list.read[i].count \in Nat
        BY <1>3, <1>6, <2>1, <3>2 DEF ReadCounts
      <4>2. new.read[i].count = rows[i].count + list.read[i].count
        BY <1>4, <4>1
      <4> QED  BY <3>1, <4>1, <4>2
    <3>3. CASE i \notin DOMAIN list.read
      BY <1>3, <1>4, <2>1, <3>1, <3>3
    <3> QED  BY <3>2, <3>3
  <2>2. CASE i \notin page
    BY <1>3, <1>6, <2>2 DEF ReadCounts
  <2> QED  BY <2>1, <2>2
<1>8. ASSUME ~new.shifted, NEW i \in Eligible, i \in DOMAIN list.read
      PROVE  Cardinality(Newer(i)) \in Nat /\ Cardinality(Newer(i)) < list.offset /\ i \notin page
  <2> DEFINE former == {j \in list.before : j > i}
  <2>1. ~list.shifted /\ list.offset > 0 /\ Eligible \subseteq list.before /\ IsFiniteSet(list.before)
    <3>1. list.offset # 0 /\ IsFiniteSet(list.before)
      BY <1>1, <1>8 DEF Behind
    <3>2. list.offset > 0
      BY <1>6, <3>1
    <3> QED  BY <1>3, <1>8, <3>1, <3>2
  <2>2. Cardinality(former) < list.offset
    BY <1>1, <1>8, <2>1 DEF Behind
  <2>3. IsFiniteSet(former) /\ Newer(i) \subseteq former
    <3>1. former \subseteq list.before
      OBVIOUS
    <3>2. IsFiniteSet(former)
      BY <2>1, <3>1, FS_Subset
    <3> QED  BY <2>1, <3>2 DEF Newer
  <2> HIDE DEF former
  <2>4. IsFiniteSet(Newer(i)) /\ Cardinality(Newer(i)) <= Cardinality(former)
    BY <2>3, FS_Subset
  <2>5. Cardinality(Newer(i)) \in Nat /\ Cardinality(former) \in Nat
    BY <2>3, <2>4, FS_CardinalityType
  <2> QED  BY <1>2, <1>6, <2>2, <2>4, <2>5
<1>9. Behind(new)
  <2>1. ASSUME ~new.shifted, NEW i \in DOMAIN new.read \cap Eligible
        PROVE  Cardinality({j \in Eligible : j > i}) < new.offset
    <3>1. {j \in Eligible : j > i} = Newer(i)
      BY DEF Newer
    <3>2. CASE i \in page
      <4>1. Cardinality(Newer(i)) \in list.offset..list.offset + PageSize - 1
        BY <1>2, <3>2
      <4>2. PICK n : n = Cardinality(Newer(i))
        OBVIOUS
      <4>3. n < list.offset + PageSize
        BY <1>6, <1>11, <4>1, <4>2
      <4> QED  BY <1>3, <3>1, <4>2, <4>3
    <3>3. CASE i \notin page
      <4>1. i \in DOMAIN list.read
        BY <1>3, <2>1, <3>3
      <4>2. Cardinality(Newer(i)) \in Nat /\ Cardinality(Newer(i)) < list.offset
        BY <1>8, <2>1, <4>1
      <4>3. PICK n : n = Cardinality(Newer(i))
        OBVIOUS
      <4>4. n < list.offset + PageSize
        BY <1>6, <1>11, <4>2, <4>3
      <4> QED  BY <1>3, <3>1, <4>3, <4>4
    <3> QED  BY <3>2, <3>3
  <2>2. new.offset \in Nat /\ new.offset # 0 /\ new.shifted \in BOOLEAN
    BY <1>2, <1>3, <1>6
  <2> QED  BY <1>3, <1>5, <1>7, <2>1, <2>2 DEF Behind
<1>10. ASSUME ~new.shifted PROVE Covers(cited, Weights(new.read))
  <2>1. /\ IsWeight(Weights(list.read)) /\ IsWeight(Weights(new.read))
        /\ \A i \in Nat : Now(i) \in Nat /\ Was(list.read, i) \in Nat /\ Was(new.read, i) \in Nat
    BY <1>6, <1>7, WeightsAre
  <2>2. ASSUME NEW i \in Nat PROVE Was(new.read, i) = Was(list.read, i) \/ Was(new.read, i) = Now(i)
    <3>1. CASE i \in page
      <4>1. i \in Eligible /\ i \notin DOMAIN list.read
        BY <1>2, <1>8, <1>10, <3>1
      <4> QED  BY <1>3, <1>4, <3>1, <4>1 DEF Was, Now
    <3>2. CASE i \notin page
      BY <1>3, <3>2 DEF Was
    <3> QED  BY <3>1, <3>2
  <2>3. \A i \in Nat : Weights(new.read)[i] <= Weights(list.read)[i]
    BY <2>1, <2>2 DEF Weights, Larger
  <2>4. Covers(cited, Weights(list.read)) /\ cited \in Nat
    BY <1>1, <1>3, <1>10 DEF CountInv, Counted
  <2>5. PICK w, v : w = Weights(list.read) /\ v = Weights(new.read)
    OBVIOUS
  <2>6. Covers(cited, v)
    BY <2>1, <2>3, <2>4, <2>5, CoversLighter
  <2> QED  BY <2>5, <2>6
<1> QED  BY <1>9, <1>10 DEF new, list

LEMMA GroupsAreFinite ==
    ASSUME NEW group \in SUBSET Ids
    PROVE  IsFiniteSet(group)
<1>1. MaxRows \in Int /\ 1 \in Int
  BY MemoryAssumption
<1>2. IsFiniteSet(1..MaxRows)
  BY <1>1, FS_Interval
<1> QED  BY <1>2, FS_Subset DEF Ids

(* What is carried over is a number, and what was cited if nothing shifted. *)
LEMMA MergedCount ==
    ASSUME CountInv, NEW c \in Callers, Lists(c), NEW read, NEW shifted,
           read = WithPage(Listing(c)).read, shifted = WithPage(Listing(c)).shifted,
           NEW group, group \subseteq DOMAIN read, IsFiniteSet(group), NEW text
    PROVE  Honest(Merged(read, group, text, shifted), cited)
<1>1. ReadCounts(read) /\ (~shifted => Covers(cited, Weights(read)))
  BY PageCounts DEF Behind
<1>2. cited \in Nat /\ group \subseteq Nat
  BY <1>1 DEF CountInv, Counted, ReadCounts
<1> DEFINE v == [i \in group |-> read[i].count]
           w == Weights(read)
<1>3. PICK h : Sums(h, v, group) /\ h[group] = CarriedCount(read, group)
  BY CarriedIsSum
<1>4. \A i \in group : v[i] \in Nat /\ w[i] \in Nat /\ v[i] <= w[i] /\ v[i] <= v[i]
  <2> TAKE i \in group
  <2>1. v[i] = Was(read, i) /\ i \in Nat
    BY <1>2 DEF Was
  <2>2. Now(i) \in Nat /\ Was(read, i) \in Nat
    BY <1>1, <2>1, WeightsAre
  <2> QED  BY <2>1, <2>2 DEF Weights, Larger
<1>5. PICK k : Sums(k, w, group)
  BY SumsExist
<1> HIDE DEF v, w
<1>6. h[group] \in Nat /\ h[group] <= k[group]
  BY <1>3, <1>4, <1>5, SumsShrink
<1>7. ~shifted => k[group] <= cited
  BY <1>1, <1>2, <1>5 DEF Covers, w
<1>8. k[group] \in Nat
  BY <1>3, <1>4, <1>5, SumsShrink
<1>9. /\ Merged(read, group, text, shifted).count = IF Postgres THEN h[group] ELSE 0
      /\ Merged(read, group, text, shifted).shifted = shifted
  BY <1>3 DEF Merged
<1> QED  BY <1>2, <1>6, <1>7, <1>8, <1>9 DEF Honest

(* The caller that moves is not about to store a row, or one that counts right. *)
LEMMA JobMoves ==
    ASSUME FactInv, NEW c \in Callers, NEW to, Goes(c, to), Fair(to)
    PROVE  JobsFair
<1>1. \A d \in Callers : job'[d] = IF d = c THEN to ELSE job[d]
  BY DEF FactInv, Jobs, Goes
<1> QED  BY <1>1 DEF JobsFair

LEMMA JobsStay ==
    ASSUME job' = job
    PROVE  JobsFair
BY DEF JobsFair

LEMMA RowsStay ==
    ASSUME rows' = rows, cited' = cited
    PROVE  Recounted
BY DEF Recounted, SameCount

LEMMA RowsGo ==
    ASSUME NEW gone, rows' = Without(gone), cited' = cited
    PROVE  Recounted
BY DEF Recounted, SameCount, Without

(* Closing a window counts nothing, nor does a new statement.                *)
LEMMA ClosingCounts ==
    ASSUME FactInv, NEW i \in OpenRows
    PROVE  /\ DOMAIN Closed(i) = DOMAIN rows
           /\ \A j \in DOMAIN rows : /\ Closed(i)[j].count = rows[j].count
                                     /\ Closed(i)[j].kind = rows[j].kind
                                     /\ Closed(i)[j].shifted = rows[j].shifted
<1>1. \A j \in DOMAIN rows : IsRow(rows[j])
  BY DEF FactInv, Tables, Typed
<1> QED  BY <1>1 DEF Closed, OpenRows, IsRow, TableFields

LEMMA AddingCounts ==
    ASSUME CountInv, NEW i, NEW f, cited' = cited,
           Adds(IF i \in OpenRows THEN Closed(i) ELSE rows, f) \/ Adds(rows, f)
    PROVE  Recounted
<1>1. PICK table : /\ DOMAIN table = DOMAIN rows
                   /\ \A j \in DOMAIN rows : /\ table[j].count = rows[j].count
                                             /\ table[j].kind = rows[j].kind
                                             /\ table[j].shifted = rows[j].shifted
                   /\ Adds(table, f)
  BY ClosingCounts DEF CountInv
<1>2. rows' = [j \in DOMAIN rows \cup {fresh} |-> IF j = fresh THEN Statement(f) ELSE table[j]]
  BY <1>1 DEF Adds
<1>3. Statement(f).count = 0 /\ Honest(Statement(f), cited)
  BY DEF Statement, Honest, CountInv, Counted
<1> QED  BY <1>1, <1>2, <1>3 DEF Recounted, SameCount

LEMMA StoreCounts ==
    ASSUME CountInv, NEW c \in Callers, StoreSteps(c) \/ Dies(c)
    PROVE  Counted'
<1>1. FactInv
  BY DEF CountInv
<1>2. JobsFair
  <2>1. ASSUME Goes(c, NoJob) PROVE JobsFair
    BY <1>1, <2>1, JobMoves DEF NoJob, Fair
  <2>2. ASSUME Goes(c, [job[c] EXCEPT !.at = "insert"]), Classifying(c) PROVE JobsFair
    <3>1. [job[c] EXCEPT !.at = "insert"].at = "insert"
      BY <1>1, <2>2 DEF FactInv, Jobs, JobOK, Classifying
    <3> QED  BY <1>1, <2>2, <3>1, JobMoves DEF Fair
  <2>3. ASSUME NEW f \in Facts, Lookup(c, f) PROVE JobsFair
    <3> DEFINE to == [at |-> IF Postgres THEN "classify" ELSE "insert", fact |-> f,
                      seen |-> IF Postgres THEN OpenRows ELSE {}]
    <3>1. to.at \notin {"merge", "page"} /\ Goes(c, to)
      BY <2>3 DEF Lookup
    <3> HIDE DEF to
    <3> QED  BY <1>1, <3>1, JobMoves DEF Fair
  <2> QED
    BY <2>1, <2>2, <2>3 DEF StoreSteps, Dies, Negate, Supersede, Replace, Refuse, ClassifiedAdd, Insert
<1>3. Recounted
  <2>1. ASSUME NEW i, rows' = IF i \in OpenRows THEN Closed(i) ELSE rows, cited' = cited
        PROVE  Recounted
    BY <1>1, <2>1, ClosingCounts DEF Recounted, SameCount
  <2>2. ASSUME NEW i \in Ids, Negate(c, i) \/ Supersede(c, i) PROVE Recounted
    BY <2>1, <2>2 DEF Negate, Supersede
  <2>3. ASSUME NEW i \in Ids, Replace(c, i) PROVE Recounted
    BY <2>3, AddingCounts DEF Replace
  <2>4. CASE Insert(c)
    BY <2>4, AddingCounts DEF Insert
  <2>5. ASSUME NEW f \in Facts, Lookup(c, f) PROVE Recounted
    BY <2>5, RowsStay DEF Lookup
  <2>6. CASE Refuse(c) \/ ClassifiedAdd(c) \/ Dies(c)
    BY <2>6, RowsStay DEF Refuse, ClassifiedAdd, Dies
  <2> QED  BY <2>2, <2>3, <2>4, <2>5, <2>6 DEF StoreSteps
<1> QED  BY <1>2, <1>3, CountedStays

(* A distillation carries a count over; the originals stay uneligible        *)
(* beside it or go.                                                          *)
LEMMA DistillCounts ==
    ASSUME CountInv, NEW c \in Callers, DistillSteps(c)
    PROVE  Counted'
<1>1. FactInv
  BY DEF CountInv
<1>2. CASE NextPage(c)
  <2>1. PICK to : to = WithPage(Listing(c))
    OBVIOUS
  <2>2. Goes(c, to) /\ to.at = "page" /\ Behind(to) /\ (~to.shifted => Covers(cited, Weights(to.read)))
    BY <1>1, <1>2, <2>1, PageRead, PageCounts DEF NextPage
  <2>3. JobsFair
    BY <1>1, <2>2, JobMoves DEF Fair
  <2>4. Recounted
    BY <1>2, RowsStay DEF NextPage
  <2> QED  BY <2>3, <2>4, CountedStays
<1>3. ASSUME NEW group \in SUBSET Ids, NEW text \in SUBSET Facts, Group(c, group, text) PROVE Counted'
  <2>1. PICK read, shifted : read = WithPage(Listing(c)).read /\ shifted = WithPage(Listing(c)).shifted
    OBVIOUS
  <2> DEFINE row == Merged(read, group, text, shifted)
             to == [at |-> "merge", group |-> group, row |-> row, lost |-> FactsOf(read, group) \ text]
  <2>2. Goes(c, to) /\ Lists(c) /\ group \subseteq DOMAIN read /\ to.row = row /\ to.at = "merge"
    BY <1>3, <2>1 DEF Group
  <2>3. IsFiniteSet(group)
    BY GroupsAreFinite
  <2>4. Honest(row, cited)
    BY <2>1, <2>2, <2>3, MergedCount
  <2> HIDE DEF to, row
  <2>5. JobsFair
    BY <1>1, <2>2, <2>4, JobMoves DEF Fair
  <2>6. Recounted
    BY <1>3, RowsStay DEF Group
  <2> QED  BY <2>5, <2>6, CountedStays
<1>4. CASE Merge(c)
  <2> DEFINE to == [at |-> "purge", group |-> job[c].group]
  <2>1. Goes(c, to) /\ to.at \notin {"merge", "page"}
    BY <1>4 DEF Merge
  <2> HIDE DEF to
  <2>2. JobsFair
    BY <1>1, <2>1, JobMoves DEF Fair
  <2>3. job[c].row.kind = "distilled" /\ Honest(job[c].row, cited)
    BY <1>1, <1>4 DEF Merge, FactInv, Jobs, JobOK, CountInv, Counted
  <2>4. rows' = [i \in DOMAIN rows \cup {fresh} |-> IF i = fresh THEN job[c].row ELSE rows[i]] /\ cited' = cited
    BY <1>4 DEF Merge, With
  <2>5. Recounted
    BY <2>3, <2>4 DEF Recounted, SameCount
  <2> QED  BY <2>2, <2>5, CountedStays
<1>5. CASE MergeFails(c)
  <2>1. JobsFair
    BY <1>1, <1>5, JobMoves DEF MergeFails, NoJob, Fair
  <2>2. Recounted
    BY <1>5, RowsStay DEF MergeFails
  <2> QED  BY <2>1, <2>2, CountedStays
<1>6. ASSUME NEW i \in Ids, NEW deleted \in BOOLEAN, Purge(c, i, deleted) PROVE Counted'
  <2>1. Recounted
    BY <1>6, RowsGo, RowsStay DEF Purge
  <2>2. job[c].at = "purge" /\ job[c] = [at |-> "purge", group |-> job[c].group]
    BY <1>1, <1>6 DEF Purge, FactInv, Jobs, JobOK
  <2>3. CASE Goes(c, NoJob)
    BY <1>1, <2>1, <2>3, JobMoves, CountedStays DEF NoJob, Fair
  <2>4. CASE Goes(c, [job[c] EXCEPT !.group = @ \ {i}])
    <3>1. [job[c] EXCEPT !.group = @ \ {i}].at = "purge"
      BY <2>2
    <3>2. JobsFair
      BY <1>1, <2>4, <3>1, JobMoves DEF Fair
    <3> QED  BY <2>1, <3>2, CountedStays
  <2> QED  BY <1>6, <2>3, <2>4 DEF Purge
<1> QED  BY <1>2, <1>3, <1>4, <1>5, <1>6 DEF DistillSteps

(* What a restore brings back is uncited.                                    *)
LEMMA RestoreCounts ==
    ASSUME CountInv, RestoreMerge(DOMAIN file.rows) \/ RestoreReplace(DOMAIN file.rows)
    PROVE  Counted'
<1>1. \A i \in DOMAIN file.rows : Imported(i).count = 0
  <2>1. \A i \in DOMAIN file.rows : IsRow(file.rows[i])
    BY DEF CountInv, FactInv, Tables, Typed
  <2> QED  BY <2>1 DEF Imported, IsRow, TableFields
<1>2. cited' = cited /\ job' = job
  BY DEF RestoreMerge, RestoreReplace
<1>3. \A i \in DOMAIN rows' : (i \in DOMAIN rows /\ rows'[i] = rows[i]) \/ rows'[i].count = 0
  BY <1>1 DEF RestoreMerge, RestoreReplace, Import, Empty
<1>4. Recounted
  <2>1. \A row : row.count = 0 => Honest(row, cited)
    BY DEF Honest, CountInv, Counted
  <2> QED  BY <1>2, <1>3, <2>1 DEF Recounted, SameCount
<1> QED  BY <1>2, <1>4, JobsStay, CountedStays

LEMMA CountsBegin ==
    ASSUME BInit
    PROVE  CountInv
<1>1. FactInv
  BY StoreBegins
<1>2. /\ DOMAIN rows = {} /\ cited = 0 /\ \A c \in Callers : job[c].at \notin {"merge", "page"}
  BY DEF BInit, Init, Empty, NoJob
<1>3. PICK w : w = Weights(Empty)
  OBVIOUS
<1>4. \A i \in Nat : w[i] = 0
  BY <1>2, <1>3 DEF Weights, Larger, Now, Was, Eligible, Empty
<1>5. ASSUME NEW S \in SUBSET Nat, NEW h, IsFiniteSet(S), Sums(h, w, S)
      PROVE  h[S] <= cited
  <2> DEFINE zero == [s \in SUBSET S |-> 0]
             none == [i \in Nat |-> 0]
  <2>1. Sums(zero, none, S)
    <3>1. ASSUME NEW s \in SUBSET S, s # {}
          PROVE  zero[s] = none[Pick(s)] + zero[s \ {Pick(s)}]
      <4>1. Pick(s) \in Nat /\ s \ {Pick(s)} \in SUBSET S
        BY <3>1 DEF Pick
      <4>2. none[Pick(s)] = 0 /\ zero[s \ {Pick(s)}] = 0 /\ zero[s] = 0
        BY <4>1
      <4> QED  BY <4>2
    <3>2. zero[{}] = 0 /\ zero = [s \in SUBSET S |-> zero[s]]
      OBVIOUS
    <3> HIDE DEF zero, none
    <3> QED  BY <3>1, <3>2 DEF Sums
  <2>2. zero[S] = 0
    OBVIOUS
  <2>3. \A i \in S : none[i] \in Nat /\ w[i] \in Nat /\ w[i] <= none[i]
    BY <1>4
  <2> HIDE DEF zero, none
  <2>4. h[S] \in Nat /\ h[S] <= zero[S]
    BY <1>5, <2>1, <2>3, SumsShrink
  <2> QED  BY <1>2, <2>2, <2>4
<1>6. Covers(cited, Weights(Empty))
  BY <1>3, <1>5 DEF Covers
<1> QED  BY <1>1, <1>2, <1>6 DEF CountInv, Counted

LEMMA CountsKeep ==
    ASSUME CountInv, [BNext]_bvars
    PROVE  CountInv'
<1>1. FactInv'
  BY BackupKeeps DEF CountInv
<1>2. ASSUME UNCHANGED <<rows, job, cited>> PROVE Counted'
  <2>1. Recounted /\ JobsFair
    BY <1>2, RowsStay, JobsStay
  <2> QED  BY <2>1, CountedStays
<1>3. ASSUME Next PROVE Counted'
  <2>1. ASSUME NEW i \in Ids, Delete(i) \/ Retire(i) PROVE Counted'
    <3>1. Recounted /\ JobsFair
      BY <2>1, RowsGo, JobsStay DEF Delete, Retire
    <3> QED  BY <3>1, CountedStays
  <2>2. ASSUME NEW c \in Writers, StoreSteps(c) PROVE Counted'
    BY <2>2, StoreCounts DEF Callers
  <2>3. ASSUME NEW c \in Distillers, DistillSteps(c) PROVE Counted'
    BY <2>3, DistillCounts DEF Callers
  <2>4. ASSUME NEW c \in Callers, Dies(c) PROVE Counted'
    BY <2>4, StoreCounts
  <2>5. ASSUME NEW i \in Ids, NEW t \in Tasks, Cite(i, t) PROVE Counted'
    BY <2>5, CiteCounts
  <2> QED  BY <1>3, <2>1, <2>2, <2>3, <2>4, <2>5 DEF Next
<1>4. Counted'
  <2>1. CASE NewDay \/ UNCHANGED bvars
    BY <1>2, <2>1 DEF NewDay, bvars, vars
  <2>2. ASSUME NEW table \in Exports, NEW whole \in BOOLEAN, Create(table, whole) PROVE Counted'
    BY <1>2, <2>2 DEF Create, vars
  <2> QED  BY <1>3, <2>1, <2>2, RestoreCounts DEF BNext, AutoBackup, BackupCreate
<1> QED  BY <1>1, <1>4 DEF CountInv

(* No row claims more citations than were made, for any number of callers,   *)
(* rows, citations, distillations that fail or overlap anywhere, pages of    *)
(* any size and backups, unless a row was stored or restored between two     *)
(* pages of its listing (gsd-memory.cjs:2467, pg_store.py:1279): what a      *)
(* distilled row carries over its originals can no longer give, for no       *)
(* distilled row is distilled again; and a row that was read has never more  *)
(* newer ones than the listing has passed, so that rows which go in the      *)
(* middle of it make the next page miss some and never repeat one.           *)
THEOREM CitedOnce == BSpec => []CountsHonest
<1>1. CountInv => CountsHonest
  BY DEF CountInv, Counted, CountsHonest, Honest
<1> QED  BY CountsBegin, CountsKeep, <1>1, PTL DEF BSpec

-----------------------------------------------------------------------------
(* Contexts handed from phase to phase.                                    *)

ContextFields == {"ref", "files", "exact"}
RequestFields == {"pc", "step", "kind", "files", "stale", "ref", "exact"}

(* What is known of a file git names is what the file was at a commit, if  *)
(* it was there.                                                           *)
AsOf(files, f, commit) ==
    f \in Named /\ commit[f] # Gone =>
        /\ files[f].hash = commit[f]
        /\ files[f].text \in {Undescribed, files[f].hash}

ContextRows ==
    /\ context = [n \in Steps |-> context[n]]
    /\ \A n \in Steps :
          /\ context[n].ref \in 0..HEAD
          /\ context[n].exact \in BOOLEAN
          /\ context[n].exact /\ context[n].ref # 0 =>
                \A f \in DOMAIN context[n].files : AsOf(context[n].files, f, commits[context[n].ref])

(* Along a request: first the entries are of the commit they came with,    *)
(* then those that are not stale are of HEAD, and in the end all are of     *)
(* the commit that is stored with them.                                    *)
RequestOK ==
    handoff # Resting =>
    /\ DOMAIN handoff = RequestFields /\ handoff = [x \in RequestFields |-> handoff[x]]
    /\ handoff.pc \in {"diff", "hash", "head", "store"}
    /\ handoff.step \in Steps /\ handoff.ref \in 0..HEAD /\ handoff.exact \in BOOLEAN
    /\ handoff.pc \in {"diff", "store"} /\ handoff.exact /\ handoff.ref # 0 =>
          \A f \in DOMAIN handoff.files : AsOf(handoff.files, f, commits[handoff.ref])
    /\ handoff.pc = "hash" /\ handoff.exact =>
          \A f \in DOMAIN handoff.files \ handoff.stale : AsOf(handoff.files, f, commits[HEAD])
    /\ handoff.pc = "head" /\ handoff.exact =>
          \A f \in DOMAIN handoff.files : AsOf(handoff.files, f, commits[HEAD])

ContextInv ==
    /\ commits \in Seq([Files -> Version]) /\ HEAD \in Nat \ {0}
    /\ work \in [Files -> Version]
    /\ ContextRows
    /\ RequestOK

(* Once anything moves the request in progress promises nothing.           *)
LEMMA MovedRequest ==
    ASSUME ContextInv, Moves, HEAD' >= HEAD, HEAD' \in Nat
    PROVE  RequestOK'
<1>1. CASE handoff = Resting
  BY <1>1 DEF Moves, RequestOK
<1>2. CASE handoff # Resting
  <2>1. handoff' = [handoff EXCEPT !.exact = FALSE]
    BY <1>2 DEF Moves
  <2>2. /\ DOMAIN handoff' = RequestFields /\ handoff' = [x \in RequestFields |-> handoff'[x]]
        /\ handoff'.exact = FALSE /\ handoff'.pc = handoff.pc /\ handoff'.step = handoff.step
        /\ handoff'.ref = handoff.ref
    BY <1>2, <2>1 DEF ContextInv, RequestOK, RequestFields
  <2>3. /\ handoff.pc \in {"diff", "hash", "head", "store"} /\ handoff.step \in Steps
        /\ handoff.ref \in 0..HEAD /\ HEAD \in Nat
    BY <1>2 DEF ContextInv, RequestOK
  <2>4. handoff'.ref \in 0..HEAD'
    BY <2>2, <2>3
  <2> QED  BY <2>2, <2>3, <2>4 DEF RequestOK, Steps
<1> QED  BY <1>1, <1>2

(* Agents edit, delete and commit: older commits stay as they were.        *)
LEMMA AgentsMove ==
    ASSUME ContextInv, (\E f \in Files : Edit(f) \/ Unlink(f)) \/ Commit
    PROVE  ContextInv'
<1>1. Moves /\ UNCHANGED context
  BY DEF Edit, Unlink, Commit
<1>2. work' \in [Files -> Version]
  <2>1. ASSUME NEW f \in Files, NEW v \in Version, work' = [work EXCEPT ![f] = v]
        PROVE  work' \in [Files -> Version]
    BY <2>1 DEF ContextInv
  <2>2. ASSUME NEW f \in Files, Edit(f) PROVE work[f] + 1 \in Version
    BY <2>2, ContextAssumption DEF ContextInv, Edit, Version
  <2>3. Gone \in Version
    BY ContextAssumption DEF Gone, Version
  <2> QED  BY <2>1, <2>2, <2>3 DEF ContextInv, Edit, Unlink, Commit
<1>3. /\ commits' \in Seq([Files -> Version]) /\ HEAD' \in Nat \ {0} /\ HEAD' >= HEAD
      /\ \A i \in 1..HEAD : commits'[i] = commits[i]
  <2>1. CASE UNCHANGED commits
    BY <2>1 DEF ContextInv, HEAD
  <2>2. CASE commits' = Append(commits, work)
    BY <2>2 DEF ContextInv, HEAD
  <2> QED  BY <2>1, <2>2 DEF Edit, Unlink, Commit
<1>4. ContextRows'
  BY <1>1, <1>3 DEF ContextInv, ContextRows, AsOf, Steps
<1>5. RequestOK'
  BY <1>1, <1>3, MovedRequest
<1> QED  BY <1>2, <1>3, <1>4, <1>5 DEF ContextInv

(* What does not touch commits, files and rows need only keep RequestOK.     *)
LEMMA OnlyRequest ==
    ASSUME ContextInv, UNCHANGED <<work, commits, context>>, RequestOK'
    PROVE  ContextInv'
BY DEF ContextInv, HEAD, ContextRows, AsOf, Steps

(* A request begins without entries, or with those of the phase before.    *)
LEMMA BeginStep ==
    ASSUME ContextInv, NEW n \in Steps, BeginCompact(n) \/ BeginValidate(n)
    PROVE  ContextInv'
<1>1. UNCHANGED <<work, commits, context>>
  BY DEF BeginCompact, BeginValidate
<1>2. CASE BeginCompact(n)
  <2>1. PICK S \in SUBSET Files :
          handoff' = [pc |-> IF S = {} THEN "store" ELSE "hash", step |-> n, kind |-> "compact",
                      files |-> << >>, stale |-> S, ref |-> 0, exact |-> TRUE]
    BY <1>2 DEF BeginCompact
  <2>2. DOMAIN handoff'.files = {}
    BY <2>1
  <2>3. RequestOK'
    BY <1>1, <2>1, <2>2 DEF ContextInv, RequestOK, RequestFields, HEAD, Steps
  <2> QED  BY <1>1, <2>3, OnlyRequest
<1>3. CASE BeginValidate(n)
  <2>1. /\ handoff' = [pc |-> "diff", step |-> n, kind |-> "validate",
                       files |-> context[n - 1].files, stale |-> {},
                       ref |-> context[n - 1].ref, exact |-> context[n - 1].exact]
        /\ n - 1 \in Steps
    BY <1>3 DEF BeginValidate
  <2>2. RequestOK'
    BY <1>1, <2>1 DEF ContextInv, ContextRows, RequestOK, RequestFields, HEAD, Steps, AsOf
  <2> QED  BY <1>1, <2>2, OnlyRequest
<1> QED  BY <1>2, <1>3

(* What git does not name as changed is at HEAD what it was at the commit, *)
(* or is not there, or git has another name for it.                        *)
LEMMA DiffStep ==
    ASSUME ContextInv, Diff
    PROVE  ContextInv'
<1>1. UNCHANGED <<work, commits, context>> /\ handoff.pc = "diff" /\ handoff # Resting
  BY DEF Diff, Resting
<1>2. PICK stale : /\ \/ stale = Tracked
                      \/ \E renamed \in SUBSET {f \in Files : commits[HEAD][f] = Gone} :
                            handoff.ref # 0 /\ stale = ChangedSince(handoff.ref, renamed)
                   /\ handoff' = [handoff EXCEPT !.stale = stale, !.exact = @ \/ stale = Tracked,
                                                 !.pc = IF stale = {} THEN "head" ELSE "hash"]
  BY DEF Diff
<1>3. /\ DOMAIN handoff' = RequestFields /\ handoff' = [x \in RequestFields |-> handoff'[x]]
      /\ handoff'.stale = stale /\ handoff'.step = handoff.step /\ handoff'.ref = handoff.ref
      /\ handoff'.pc = (IF stale = {} THEN "head" ELSE "hash") /\ handoff'.files = handoff.files
      /\ handoff'.exact \in BOOLEAN /\ (handoff'.exact => handoff.exact \/ stale = Tracked)
  BY <1>1, <1>2 DEF ContextInv, RequestOK, RequestFields
<1>4. ASSUME handoff'.exact, NEW f \in Tracked \ stale PROVE AsOf(handoff.files, f, commits[HEAD])
  <2>1. handoff.exact /\ handoff.ref # 0
    BY <1>2, <1>3, <1>4
  <2>2. f \in Named /\ commits[HEAD][f] # Gone => commits[handoff.ref][f] = commits[HEAD][f]
    BY <1>2, <1>4 DEF ChangedSince
  <2> QED  BY <1>1, <1>4, <2>1, <2>2 DEF ContextInv, RequestOK, AsOf, Tracked
<1>5. RequestOK'
  BY <1>1, <1>3, <1>4 DEF ContextInv, RequestOK, HEAD, Steps, Tracked, AsOf
<1> QED  BY <1>1, <1>5, OnlyRequest

(* A file that is hashed is no longer stale; its new entry is of HEAD when *)
(* the request still is exact.                                             *)
LEMMA RefreshStep ==
    ASSUME ContextInv, NEW f \in Files, Refresh(f)
    PROVE  ContextInv'
<1>1. UNCHANGED <<work, commits, context>> /\ handoff.pc = "hash" /\ handoff # Resting
  BY DEF Refresh, Resting
<1> DEFINE left == handoff.stale \ {f}
<1>2. PICK text : handoff' = [handoff EXCEPT
                    !.files = Renewed(f, text), !.stale = left,
                    !.pc = IF left = {} THEN "head" ELSE "hash",
                    !.exact = @ /\ work[f] = commits[HEAD][f] /\ text \in {work[f], Undescribed}]
  BY DEF Refresh
<1>3. /\ DOMAIN handoff' = RequestFields /\ handoff' = [x \in RequestFields |-> handoff'[x]]
      /\ handoff'.files = Renewed(f, text) /\ handoff'.stale = left
      /\ handoff'.step = handoff.step /\ handoff'.ref = handoff.ref
      /\ handoff'.pc = (IF left = {} THEN "head" ELSE "hash")
      /\ handoff'.exact \in BOOLEAN
      /\ handoff'.exact => handoff.exact /\ work[f] = commits[HEAD][f] /\ text \in {work[f], Undescribed}
  BY <1>1, <1>2 DEF ContextInv, RequestOK, RequestFields
<1>4. ASSUME handoff'.exact, NEW g \in DOMAIN Renewed(f, text) \ left
      PROVE  AsOf(Renewed(f, text), g, commits[HEAD])
  <2>1. CASE g = f
    BY <1>3, <1>4, <2>1 DEF AsOf, Renewed
  <2>2. CASE g # f
    <3>1. g \in Tracked \ handoff.stale /\ Renewed(f, text)[g] = handoff.files[g]
      BY <1>4, <2>2 DEF Renewed
    <3> QED  BY <1>1, <1>3, <1>4, <3>1 DEF ContextInv, RequestOK, AsOf, Tracked
  <2> QED  BY <2>1, <2>2
<1> HIDE DEF left
<1>5. RequestOK'
  BY <1>1, <1>3, <1>4 DEF ContextInv, RequestOK, HEAD, Steps
<1> QED  BY <1>1, <1>5, OnlyRequest

(* A file that is gone leaves the entries.                                 *)
LEMMA DropStep ==
    ASSUME ContextInv, NEW f \in Files, Drop(f)
    PROVE  ContextInv'
<1>1. UNCHANGED <<work, commits, context>> /\ handoff.pc = "hash" /\ handoff # Resting
  BY DEF Drop, Resting
<1> DEFINE left == handoff.stale \ {f}
           kept == [g \in Tracked \ {f} |-> handoff.files[g]]
<1>2. handoff' = [handoff EXCEPT !.files = kept, !.stale = left,
                                 !.pc = IF left = {} THEN "head" ELSE "hash"]
  BY DEF Drop
<1>3. /\ DOMAIN handoff' = RequestFields /\ handoff' = [x \in RequestFields |-> handoff'[x]]
      /\ handoff'.files = kept /\ handoff'.stale = left
      /\ handoff'.step = handoff.step /\ handoff'.ref = handoff.ref
      /\ handoff'.pc = (IF left = {} THEN "head" ELSE "hash")
      /\ handoff'.exact = handoff.exact
  BY <1>1, <1>2 DEF ContextInv, RequestOK, RequestFields
<1>4. ASSUME handoff.exact, NEW g \in DOMAIN kept \ left PROVE AsOf(kept, g, commits[HEAD])
  BY <1>1, <1>4 DEF ContextInv, RequestOK, AsOf, Tracked
<1> HIDE DEF left, kept
<1>5. RequestOK'
  BY <1>1, <1>3, <1>4 DEF ContextInv, RequestOK, HEAD, Steps
<1> QED  BY <1>1, <1>5, OnlyRequest

(* The commit that is stored is HEAD when the entries are of HEAD.         *)
LEMMA ReadHeadStep ==
    ASSUME ContextInv, ReadHead
    PROVE  ContextInv'
<1>1. UNCHANGED <<work, commits, context>> /\ handoff.pc = "head" /\ handoff # Resting
  BY DEF ReadHead, Resting
<1>2. PICK ref \in {0, HEAD} : handoff' = [handoff EXCEPT !.ref = ref, !.pc = "store"]
  BY DEF ReadHead
<1>3. /\ DOMAIN handoff' = RequestFields /\ handoff' = [x \in RequestFields |-> handoff'[x]]
      /\ handoff'.files = handoff.files /\ handoff'.step = handoff.step /\ handoff'.ref = ref
      /\ handoff'.pc = "store" /\ handoff'.exact = handoff.exact
  BY <1>1, <1>2 DEF ContextInv, RequestOK, RequestFields
<1>4. RequestOK'
  BY <1>1, <1>3 DEF ContextInv, RequestOK, HEAD, Steps
<1> QED  BY <1>1, <1>4, OnlyRequest

(* The row takes over what the request promises; a request may also die.   *)
LEMMA EndStep ==
    ASSUME ContextInv, Store \/ Abandon
    PROVE  ContextInv'
<1>1. UNCHANGED <<work, commits>> /\ RequestOK'
  BY DEF Store, Abandon, RequestOK
<1>2. CASE UNCHANGED context
  BY <1>1, <1>2, OnlyRequest
<1>3. CASE Store /\ context' = [context EXCEPT ![handoff.step] =
                [ref |-> handoff.ref, files |-> handoff.files, exact |-> handoff.exact]]
  <2>1. /\ handoff # Resting /\ handoff.pc = "store" /\ handoff.step \in Steps
        /\ handoff.ref \in 0..HEAD /\ handoff.exact \in BOOLEAN
        /\ handoff.exact /\ handoff.ref # 0 =>
              \A f \in DOMAIN handoff.files : AsOf(handoff.files, f, commits[handoff.ref])
    BY <1>3 DEF Store, Resting, ContextInv, RequestOK
  <2>2. ContextRows'
    BY <1>1, <1>3, <2>1 DEF ContextInv, ContextRows, HEAD, Steps, AsOf
  <2> QED  BY <1>1, <2>2 DEF ContextInv, HEAD
<1> QED  BY <1>2, <1>3 DEF Store, Abandon

-----------------------------------------------------------------------------
(* The invariant holds at first and after every step.                      *)
LEMMA ContextBegins ==
    ASSUME ContextInit
    PROVE  ContextInv
<1>1. work \in [Files -> Version]
  BY ContextAssumption DEF ContextInit, Version
<1>2. commits \in Seq([Files -> Version]) /\ HEAD = 1
  BY <1>1 DEF ContextInit, HEAD
<1>3. \A n \in Steps : context[n].ref = 0 /\ context[n].exact \in BOOLEAN /\ ~ context[n].exact
  BY DEF ContextInit, NoRow
<1>4. context = [n \in Steps |-> context[n]]
  BY DEF ContextInit
<1>5. ContextRows
  BY <1>2, <1>3, <1>4 DEF ContextRows
<1> QED  BY <1>1, <1>2, <1>5 DEF ContextInit, ContextInv, RequestOK

LEMMA ContextKeeps ==
    ASSUME ContextInv, [ContextNext]_cvars
    PROVE  ContextInv'
<1>1. CASE UNCHANGED cvars
  BY <1>1, OnlyRequest DEF cvars, ContextInv, RequestOK, HEAD, Steps, AsOf
<1> QED  BY <1>1, AgentsMove, BeginStep, DiffStep, RefreshStep, DropStep, ReadHeadStep, EndStep
         DEF ContextNext

(* Through any chain of phases, edits, commits, failed diffs and abandoned *)
(* requests, a context that was made without anything moving says of every  *)
(* file which is there under the path git prints what the file was at the  *)
(* commit stored with it; of a file renamed away, or tracked under another *)
(* path, it promises nothing                                               *)
(* (context_validator.py:120, services/amauta-daemon.py).                  *)
THEOREM HandoffsAreExact == ContextSpec => []HandoffExact
<1>1. ContextInv => HandoffExact
  BY DEF ContextInv, ContextRows, AsOf, HandoffExact
<1> QED  BY ContextBegins, ContextKeeps, <1>1, PTL DEF ContextSpec

-----------------------------------------------------------------------------
(* Searches: no row is ahead of one that both rankings prefer.             *)

Fraction == [num : Nat, den : Nat \ {0}]

\* Products of numbers, ordered.
LEMMA ProductsOrdered ==
  ASSUME NEW a \in Nat, NEW b \in Nat, NEW c \in Nat, a < b
  PROVE  a * c <= b * c /\ (c > 0 => a * c < b * c)
PROOF
  <1>1. PICK d \in Nat : b = a + d /\ d > 0
    <2>1. b - a \in Nat /\ b = a + (b - a) /\ b - a > 0
      OBVIOUS
    <2> QED  BY <2>1
  <1>2. b * c = a * c + d * c
    BY <1>1
  <1>3. d * c \in Nat /\ (c > 0 => d * c > 0)
    BY <1>1
  <1> QED  BY <1>2, <1>3

\* A greater fraction is at least one unit greater over the common denominator,
\* and sums of fractions are ordered as their parts.
LEMMA PlusGrows ==
  ASSUME NEW x \in Fraction, NEW y \in Fraction, NEW u \in Fraction, NEW v \in Fraction,
         ~ More(u, x), ~ More(v, y), More(x, u) \/ More(y, v)
  PROVE  More(Plus(x, y), Plus(u, v))
PROOF
  <1> DEFINE p == x.num * u.den  q == u.num * x.den
             s == y.num * v.den  t == v.num * y.den
             B == y.den * v.den  D == x.den * u.den
  <1>1. p \in Nat /\ q \in Nat /\ s \in Nat /\ t \in Nat /\ B \in Nat /\ D \in Nat
        /\ B > 0 /\ D > 0
    BY DEF Fraction
  <1>2. q <= p /\ t <= s /\ (q < p \/ t < s)
    BY <1>1 DEF More
  <1> HIDE DEF p, q, s, t, B, D
  <1>3. q * B <= p * B /\ (q < p => q * B < p * B)
    BY <1>1, <1>2, ProductsOrdered
  <1>4. t * D <= s * D /\ (t < s => t * D < s * D)
    BY <1>1, <1>2, ProductsOrdered
  <1>5. q * B \in Nat /\ p * B \in Nat /\ t * D \in Nat /\ s * D \in Nat
    BY <1>1
  <1>6. p * B + s * D > q * B + t * D
    BY <1>2, <1>3, <1>4, <1>5
  <1>7. Plus(x, y).num * Plus(u, v).den = p * B + s * D
    BY DEF Plus, Fraction, p, s, B, D
  <1>8. Plus(u, v).num * Plus(x, y).den = q * B + t * D
    BY DEF Plus, Fraction, q, t, B, D
  <1> QED  BY <1>6, <1>7, <1>8 DEF More

LEMMA PlusIsFraction ==
  ASSUME NEW x \in Fraction, NEW y \in Fraction
  PROVE  Plus(x, y) \in Fraction
PROOF
  <1>1. x.num * y.den + y.num * x.den \in Nat /\ x.den * y.den \in Nat /\ x.den * y.den # 0
    BY DEF Fraction
  <1> QED  BY <1>1 DEF Plus, Fraction

LEMMA Reciprocals ==
  ASSUME NEW a \in Nat, NEW b \in Nat
  PROVE  /\ Reciprocal(a) \in Fraction /\ None \in Fraction
         /\ More(Reciprocal(a), None) /\ ~ More(None, Reciprocal(a)) /\ ~ More(None, None)
         /\ a < b => More(Reciprocal(a), Reciprocal(b))
         /\ a <= b => ~ More(Reciprocal(b), Reciprocal(a))
BY RetrievalAssumption DEF Reciprocal, None, Fraction, More

\* Nothing is more than itself.
LEMMA MoreIsStrict ==
  ASSUME NEW x \in Fraction
  PROVE  ~ More(x, x)
PROOF
  <1>1. x.num * x.den \in Nat
    BY DEF Fraction
  <1> QED  BY <1>1 DEF More

\* A row that begins no later keeps its lead.
LEMMA DecayKeepsLead ==
  ASSUME NEW x \in Fraction, NEW u \in Fraction, More(x, u),
         NEW last \in Nat, NEW m \in 0..last, NEW n \in 0..last, m <= n
  PROVE  /\ More(Decayed(x, m, last), Decayed(u, n, last))
         /\ ~ More(Decayed(u, n, last), Decayed(x, m, last))
PROOF
  <1>1. CASE last = 0
    <2>1. x.num * u.den \in Nat /\ u.num * x.den \in Nat
      BY DEF Fraction
    <2> QED  BY <1>1, <2>1 DEF More, Decayed
  <1>2. CASE last # 0
    <2> DEFINE p == x.num * u.den  q == u.num * x.den
               L == 20 * last  M == 20 * last - m  N == 20 * last - n
    <2>1. p \in Nat /\ q \in Nat /\ q < p
      BY DEF Fraction, More
    <2>2. L \in Nat /\ M \in Nat /\ N \in Nat /\ L > 0 /\ N > 0 /\ N <= M
      BY <1>2
    <2> HIDE DEF p, q, M, N, L
    <2>3. q * N < p * N
      BY <2>1, <2>2, ProductsOrdered
    <2>4. N = M \/ N * p <= M * p
      BY <2>1, <2>2, ProductsOrdered
    <2>5. p * N = N * p /\ p * M = M * p /\ q * N \in Nat /\ p * N \in Nat /\ p * M \in Nat
      BY <2>1, <2>2
    <2>6. q * N < p * M
      BY <2>3, <2>4, <2>5
    <2>7. (q * N) * L < (p * M) * L
      BY <2>2, <2>5, <2>6, ProductsOrdered
    <2>8. Decayed(x, m, last).num * Decayed(u, n, last).den = (p * M) * L
      BY <1>2 DEF Decayed, Fraction, p, M, L
    <2>9. Decayed(u, n, last).num * Decayed(x, m, last).den = (q * N) * L
      BY <1>2 DEF Decayed, Fraction, q, N, L
    <2>10. (q * N) * L \in Nat /\ (p * M) * L \in Nat
      BY <2>2, <2>5
    <2> QED  BY <2>7, <2>8, <2>9, <2>10 DEF More
  <1> QED  BY <1>1, <1>2

\* An order of a finite set is a sequence of all its elements, each once.
LEMMA OrdersAreComplete ==
  ASSUME NEW S, IsFiniteSet(S), NEW p \in SetToSeqs(S)
  PROVE  /\ p \in Seq(S) /\ DOMAIN p = 1..Cardinality(S) /\ Len(p) = Cardinality(S)
         /\ Cardinality(S) \in Nat
         /\ IsInjective(p) /\ ToSet(p) = S
PROOF
  <1> DEFINE n == Cardinality(S)
  <1>1. n \in Nat
    BY FS_CardinalityType
  <1>2. p \in [1..n -> S] /\ IsInjective(p)
    BY DEF SetToSeqs, IsInjective
  <1>3. p \in Seq(S) /\ Len(p) = n
    BY <1>1, <1>2
  <1>4. ASSUME NEW s \in S, s \notin ToSet(p)
        PROVE  FALSE
    <2> DEFINE T == S \ {s}
    <2>1. IsFiniteSet(T) /\ Cardinality(T) = Cardinality(S) - 1
      BY <1>4, FS_RemoveElement
    <2>2. p \in [1..n -> T]
      BY <1>2, <1>4 DEF ToSet
    <2>3. IsFiniteSet(1..n) /\ Cardinality(1..n) = n
      BY <1>1, FS_Interval
    <2>4. Cardinality(T) < Cardinality(1..n)
      BY <1>1, <2>1, <2>3
    <2> HIDE DEF T, n
    <2>5. \E i, j \in 1..n : i # j /\ p[i] = p[j]
      BY <2>1, <2>2, <2>3, <2>4, FS_PigeonHole
    <2> QED  BY <1>2, <2>5 DEF IsInjective
  <1>5. ToSet(p) = S
    BY <1>2, <1>4 DEF ToSet
  <1> QED  BY <1>1, <1>2, <1>3, <1>5

\* The best of a set: distinct, no more than asked for, and none is there
\* without the elements that score more, which stand before it.
LEMMA BestRows ==
  ASSUME NEW S, IsFiniteSet(S), NEW score, \A s \in S : score[s] \in Fraction,
         NEW n \in Nat, NEW list \in Best(S, score, n)
  PROVE  /\ list \in Seq(S) /\ Len(list) <= n /\ DOMAIN list = 1..Len(list)
         /\ IsInjective(list) /\ ToSet(list) \subseteq S
         /\ \A j \in DOMAIN list : \A s \in S :
               More(score[s], score[list[j]]) => \E i \in 1..j - 1 : list[i] = s
PROOF
  <1> DEFINE m == IF Cardinality(S) < n THEN Cardinality(S) ELSE n
  <1>1. PICK p \in SetToSeqs(S) :
           /\ list = SubSeq(p, 1, m)
           /\ \A i, j \in DOMAIN p : i < j => ~ More(score[p[j]], score[p[i]])
    BY DEF Best, Orders
  <1>2. /\ p \in Seq(S) /\ DOMAIN p = 1..Cardinality(S) /\ Len(p) = Cardinality(S)
        /\ Cardinality(S) \in Nat /\ IsInjective(p) /\ ToSet(p) = S
    BY OrdersAreComplete
  <1>3. m \in 0..Len(p) /\ m <= n
    BY <1>2
  <1>4. list \in Seq(S) /\ Len(list) = m /\ DOMAIN list = 1..m /\ \A i \in 1..m : list[i] = p[i]
    BY <1>1, <1>2, <1>3
  <1> HIDE DEF m
  <1>5. IsInjective(list) /\ ToSet(list) \subseteq S
    BY <1>2, <1>3, <1>4 DEF IsInjective, ToSet
  <1>6. ASSUME NEW j \in DOMAIN list, NEW s \in S, More(score[s], score[list[j]])
        PROVE  \E i \in 1..j - 1 : list[i] = s
    <2>1. PICK i \in DOMAIN p : p[i] = s
      BY <1>2 DEF ToSet
    <2>2. i \in 1..Cardinality(S) /\ j \in 1..m /\ j \in DOMAIN p /\ list[j] = p[j]
      BY <1>2, <1>3, <1>4, <1>6, <2>1
    <2>3. i # j
      BY <1>6, <2>1, <2>2, MoreIsStrict
    <2>4. ~ j < i
      BY <1>1, <1>6, <2>1, <2>2
    <2>5. i \in 1..j - 1
      BY <1>2, <1>3, <2>2, <2>3, <2>4
    <2> QED  BY <1>3, <1>4, <2>1, <2>2, <2>5
  <1> QED  BY <1>3, <1>4, <1>5, <1>6

-----------------------------------------------------------------------------
(* The list and their ranks.                                               *)

\* What another row must beat to be ahead of it in the answer.
Beats(r, q) == By("text", r) > By("text", q) /\ By("near", r) > By("near", q)
               /\ By("line", r) <= By("line", q)

LEMMA RowsHaveScores ==
  ASSUME corpus \in Corpora, NEW r \in Rows
  PROVE  By("text", r) \in Nat /\ By("near", r) \in Nat /\ By("line", r) \in Nat
BY RetrievalAssumption DEF Corpora, By

LEMMA LegsAreFinite ==
  ASSUME NEW field, NEW scope \in SUBSET Rows
  PROVE  IsFiniteSet(scope) /\ IsFiniteSet(Leg(field, scope)) /\ Leg(field, scope) \subseteq scope
BY RetrievalAssumption, FS_Subset DEF Leg

\* A row with the greater score has the better rank.
LEMMA RanksFollowScores ==
  ASSUME corpus \in Corpora, NEW field \in {"text", "near", "line"}, NEW leg \in SUBSET Rows,
         NEW r \in leg, NEW q \in leg, By(field, r) > By(field, q)
  PROVE  Rank(field, leg, r) \in Nat /\ Rank(field, leg, q) \in Nat
         /\ Rank(field, leg, r) < Rank(field, leg, q)
PROOF
  <1> DEFINE Above(x) == {y \in leg : By(field, y) > By(field, x)}
  <1>1. IsFiniteSet(leg) /\ IsFiniteSet(Above(r)) /\ IsFiniteSet(Above(q))
    BY RetrievalAssumption, FS_Subset
  <1>2. \A y \in leg : By(field, y) \in Nat
    BY RowsHaveScores
  <1>3. Above(r) \subseteq Above(q) /\ r \in Above(q) /\ r \notin Above(r)
    BY <1>2
  <1> HIDE DEF Above
  <1>4. /\ Cardinality(Above(r)) \in Nat /\ Cardinality(Above(q)) \in Nat
        /\ Cardinality(Above(r)) < Cardinality(Above(q))
    BY <1>1, <1>3, FS_CardinalityType, FS_Subset
  <1> QED  BY <1>4 DEF Rank, Above

\* A cut takes no row without those that score more, and the ranks of its
\* list are no more than it has list.
LEMMA CutsFollowScores ==
  ASSUME corpus \in Corpora, NEW field \in {"text", "near"}, NEW scope \in SUBSET Rows,
         NEW cut \in Cuts(field, Leg(field, scope)), NEW q \in cut
  PROVE  /\ q \in Leg(field, scope)
         /\ \A r \in scope : By(field, r) > By(field, q) => r \in cut
         /\ Rank(field, Leg(field, scope), q) \in 0..candidate_k
PROOF
  <1> DEFINE leg == Leg(field, scope)
  <1>1. IsFiniteSet(leg) /\ leg \in SUBSET Rows /\ cut \subseteq leg /\ IsFiniteSet(cut)
    BY LegsAreFinite, FS_Subset DEF Cuts
  <1>2. \A y \in Rows : By(field, y) \in Nat
    BY RowsHaveScores
  <1>3. \A x \in cut, y \in leg \ cut : By(field, x) >= By(field, y)
    BY DEF Cuts
  <1>4. ASSUME NEW r \in scope, By(field, r) > By(field, q)
        PROVE  r \in cut
    <2>1. r \in leg
      BY <1>1, <1>2, <1>4 DEF Leg
    <2> QED  BY <1>1, <1>2, <1>3, <1>4, <2>1
  <1>5. Rank(field, leg, q) \in 0..candidate_k
    <2> DEFINE Above == {y \in leg : By(field, y) > By(field, q)}
    <2>1. Above \subseteq cut \ {q}
      BY <1>1, <1>2, <1>4 DEF Leg
    <2>2. IsFiniteSet(cut \ {q}) /\ Cardinality(cut \ {q}) = Cardinality(cut) - 1
          /\ Cardinality(cut) \in Nat /\ Cardinality(leg) \in Nat
      BY <1>1, FS_RemoveElement, FS_CardinalityType
    <2>3. IsFiniteSet(Above) /\ Cardinality(Above) \in Nat
          /\ Cardinality(Above) <= Cardinality(cut) - 1
      BY <2>1, <2>2, FS_Subset, FS_CardinalityType
    <2>4. Cardinality(cut) <= candidate_k
      BY <2>2, RetrievalAssumption DEF Cuts
    <2> QED  BY <2>2, <2>3, <2>4, RetrievalAssumption DEF Rank
  <1> QED  BY <1>1, <1>4, <1>5

-----------------------------------------------------------------------------
(* The two searches.                                                       *)

\* What an answer must be.
Sound(list, scope) ==
  /\ list \in Seq(Rows) /\ Len(list) <= top_k /\ DOMAIN list = 1..Len(list)
  /\ IsInjective(list) /\ ToSet(list) \subseteq scope
  /\ \A j \in DOMAIN list : \A r \in scope :
        Beats(r, list[j]) => \E i \in 1..j - 1 : list[i] = r

\* The best of a set by any score that follows both rankings.
LEMMA BestIsSound ==
  ASSUME NEW scope \in SUBSET Rows, NEW S \in SUBSET scope,
         NEW score, \A s \in S : score[s] \in Fraction,
         \A q \in S, r \in scope : Beats(r, q) => r \in S /\ More(score[r], score[q]),
         NEW list \in Best(S, score, top_k)
  PROVE  Sound(list, scope)
PROOF
  <1>1. IsFiniteSet(S) /\ top_k \in Nat
    BY RetrievalAssumption, FS_Subset
  <1>2. /\ list \in Seq(S) /\ Len(list) <= top_k /\ DOMAIN list = 1..Len(list)
        /\ IsInjective(list) /\ ToSet(list) \subseteq S
        /\ \A j \in DOMAIN list : \A s \in S :
              More(score[s], score[list[j]]) => \E i \in 1..j - 1 : list[i] = s
    BY <1>1, BestRows
  <1>3. list \in Seq(Rows)
    BY <1>2
  <1>4. \A j \in DOMAIN list : list[j] \in S
    BY <1>2 DEF ToSet
  <1> QED  BY <1>2, <1>3, <1>4 DEF Sound

\* The last line there is.
LEMMA LastLine ==
  ASSUME corpus \in Corpora, NEW T \in SUBSET Rows, T # {}
  PROVE  \E last \in {By("line", r) : r \in T} : \A r \in T : By("line", r) <= last
PROOF
  <1> DEFINE Ranks == {Rank("line", T, r) : r \in T}
  <1>1. IsFiniteSet(T)
    BY RetrievalAssumption, FS_Subset
  <1>2. ASSUME NEW r \in T  PROVE Rank("line", T, r) \in Nat
    BY <1>1, FS_Subset, FS_CardinalityType DEF Rank
  <1>3. Ranks \in SUBSET Nat /\ Ranks # {}
    BY <1>2
  <1>4. PICK r \in T : \A q \in T : Rank("line", T, r) <= Rank("line", T, q)
    <2> HIDE DEF Ranks
    <2>1. PICK n \in Ranks : \A m \in Ranks : n <= m
      BY <1>3, Least
    <2> QED  BY <2>1 DEF Ranks
  <1>5. ASSUME NEW q \in T, By("line", q) > By("line", r)
        PROVE  FALSE
    BY <1>2, <1>4, <1>5, RanksFollowScores
  <1>6. \A q \in T : By("line", q) \in Nat
    BY RowsHaveScores
  <1> QED  BY <1>5, <1>6

\* Sorting again by the decayed scores keeps an answer sound.
LEMMA ResortedIsSound ==
  ASSUME corpus \in Corpora, NEW scope \in SUBSET Rows, NEW S \in SUBSET scope,
         NEW score, \A s \in S : score[s] \in Fraction,
         \A q \in S, r \in scope : Beats(r, q) => r \in S /\ More(score[r], score[q]),
         NEW list, Sound(list, scope), ToSet(list) \subseteq S,
         NEW sorted \in Resorted(list, score)
  PROVE  Sound(sorted, scope)
PROOF
  <1> DEFINE T == ToSet(list)
             last == CHOOSE l \in {By("line", r) : r \in T} : \A r \in T : By("line", r) <= l
             new == [r \in T |-> Decayed(score[r], By("line", r), last)]
  <1>1. T \subseteq Rows /\ IsFiniteSet(T) /\ Cardinality(T) \in Nat
    BY RetrievalAssumption, FS_Subset, FS_CardinalityType
  <1>2. Cardinality(T) <= top_k
    <2> DEFINE n == Len(list)
    <2>0. n \in Nat /\ n <= top_k
      BY DEF Sound
    <2>1. IsFiniteSet(1..n) /\ Cardinality(1..n) = n
      BY <2>0, FS_Interval
    <2>2. list \in Surjection(1..n, T)
      BY DEF Sound, Surjection, ToSet
    <2>3. Cardinality(T) <= Cardinality(1..n)
      BY <2>1, <2>2, FS_Surjection
    <2> QED  BY <1>1, <2>0, <2>1, <2>3, RetrievalAssumption
  <1>3. /\ sorted \in SetToSeqs(T)
        /\ \A i, j \in DOMAIN sorted : i < j => ~ More(new[sorted[j]], new[sorted[i]])
    BY DEF Resorted, Orders
  <1>4. /\ sorted \in Seq(T) /\ DOMAIN sorted = 1..Cardinality(T) /\ Len(sorted) = Cardinality(T)
        /\ IsInjective(sorted) /\ ToSet(sorted) = T
    BY <1>1, <1>3, OrdersAreComplete
  <1>5. ASSUME NEW j \in DOMAIN sorted, NEW r \in scope, Beats(r, sorted[j])
        PROVE  \E i \in 1..j - 1 : sorted[i] = r
    <2> DEFINE q == sorted[j]
    <2>1. q \in T /\ q \in S
      BY <1>4 DEF ToSet
    <2>2. r \in T
      <3>1. PICK k \in DOMAIN list : list[k] = q
        BY <2>1 DEF ToSet
      <3>2. PICK i \in 1..k - 1 : list[i] = r
        BY <1>5, <3>1 DEF Sound
      <3>3. i \in DOMAIN list
        BY <3>1, <3>2 DEF Sound
      <3> QED  BY <3>2, <3>3 DEF ToSet
    <2>3. last \in {By("line", x) : x \in T} /\ \A x \in T : By("line", x) <= last
      BY <1>1, <2>1, LastLine
    <2>4. last \in Nat /\ By("line", r) \in 0..last /\ By("line", q) \in 0..last
      BY <1>1, <2>1, <2>2, <2>3, RowsHaveScores
    <2>5. By("line", r) <= By("line", q) /\ More(score[r], score[q])
          /\ score[r] \in Fraction /\ score[q] \in Fraction
      BY <1>5, <2>1, <2>2 DEF Beats
    <2> HIDE DEF last, q
    <2>6. More(Decayed(score[r], By("line", r), last), Decayed(score[q], By("line", q), last))
          /\ ~ More(Decayed(score[q], By("line", q), last), Decayed(score[r], By("line", r), last))
      BY <2>4, <2>5, DecayKeepsLead
    <2>7. More(new[r], new[q]) /\ ~ More(new[q], new[r])
      BY <2>1, <2>2, <2>6
    <2>8. PICK i \in DOMAIN sorted : sorted[i] = r
      BY <1>4, <2>2 DEF ToSet
    <2> HIDE DEF new
    <2>9. i # j /\ ~ j < i
      BY <1>3, <2>7, <2>8 DEF q
    <2> QED  BY <1>1, <1>4, <2>8, <2>9
  <1>6. sorted \in Seq(Rows) /\ T \subseteq scope
    BY <1>1, <1>4 DEF Sound
  <1> HIDE DEF T
  <1> QED  BY <1>1, <1>2, <1>4, <1>5, <1>6 DEF Sound

\* COALESCE keeps the order of the rows: one that both rankings prefer is
\* ranked no worse by either, and better by one that has the other row.
LEMMA RankOrFollows ==
  ASSUME corpus \in Corpora, NEW field \in {"text", "near"}, NEW scope \in SUBSET Rows,
         NEW cut \in Cuts(field, Leg(field, scope)),
         NEW q \in scope, NEW r \in scope, By(field, r) > By(field, q)
  PROVE  LET rank(x) == RankOr(field, Leg(field, scope), cut, x)
         IN  /\ rank(r) \in Nat /\ rank(q) \in Nat /\ rank(r) <= rank(q)
             /\ q \in cut => r \in cut /\ rank(r) < rank(q)
PROOF
  <1> DEFINE leg == Leg(field, scope)
  <1>1. leg \in SUBSET Rows
    BY LegsAreFinite
  <1>2. ASSUME NEW x \in cut
        PROVE  Rank(field, leg, x) \in 0..candidate_k
    BY CutsFollowScores
  <1>3. CASE q \in cut
    <2>1. r \in cut /\ q \in leg /\ r \in leg
      BY <1>3, CutsFollowScores
    <2>2. Rank(field, leg, r) \in Nat /\ Rank(field, leg, q) \in Nat
          /\ Rank(field, leg, r) < Rank(field, leg, q)
      BY <1>1, <2>1, RanksFollowScores
    <2> QED  BY <1>3, <2>1, <2>2 DEF RankOr
  <1>4. CASE q \notin cut
    BY <1>2, <1>4, RetrievalAssumption DEF RankOr
  <1> QED  BY <1>3, <1>4

LEMMA HybridIsSound ==
  ASSUME corpus \in Corpora, NEW scope \in SUBSET Rows, Hybrid(scope)
  PROVE  answer'.scope = scope /\ Sound(answer'.rows, scope) /\ corpus' = corpus
PROOF
  <1> DEFINE textLeg == Leg("text", scope)  nearLeg == Leg("near", scope)
  <1>1. PICK b \in Cuts("text", textLeg), v \in Cuts("near", nearLeg) :
          LET score == [r \in b \cup v |->
                          Plus(Reciprocal(RankOr("text", textLeg, b, r)),
                               Reciprocal(RankOr("near", nearLeg, v, r)))]
          IN  \E list \in Best(b \cup v, score, top_k) : \E sorted \in Resorted(list, score) :
                Answers(sorted, scope)
    BY DEF Hybrid
  <1> DEFINE T(r) == RankOr("text", textLeg, b, r)
             N(r) == RankOr("near", nearLeg, v, r)
             score == [r \in b \cup v |-> Plus(Reciprocal(T(r)), Reciprocal(N(r)))]
  <1>2. PICK list \in Best(b \cup v, score, top_k) :
          \E sorted \in Resorted(list, score) : Answers(sorted, scope)
    BY <1>1
  <1>2a. PICK sorted \in Resorted(list, score) :
          Answers(sorted, scope)
    BY <1>2
  <1>3. b \cup v \in SUBSET scope
    BY DEF Cuts, Leg
  <1>4. ASSUME NEW r \in b \cup v
        PROVE  T(r) \in Nat /\ N(r) \in Nat
    BY CutsFollowScores, RetrievalAssumption DEF RankOr
  <1>5. \A r \in b \cup v : score[r] \in Fraction
    BY <1>4, Reciprocals, PlusIsFraction
  <1>6. ASSUME NEW q \in b \cup v, NEW r \in scope, Beats(r, q)
        PROVE  r \in b \cup v /\ More(score[r], score[q])
    <2>1. q \in scope /\ By("text", r) > By("text", q) /\ By("near", r) > By("near", q)
      BY <1>3, <1>6 DEF Beats
    <2>2. T(r) \in Nat /\ T(q) \in Nat /\ T(r) <= T(q) /\ (q \in b => r \in b /\ T(r) < T(q))
      BY <2>1, RankOrFollows
    <2>3. N(r) \in Nat /\ N(q) \in Nat /\ N(r) <= N(q) /\ (q \in v => r \in v /\ N(r) < N(q))
      BY <2>1, RankOrFollows
    <2>4. r \in b \cup v
      BY <2>2, <2>3
    <2> HIDE DEF T, N
    <2>5. /\ ~ More(Reciprocal(T(q)), Reciprocal(T(r))) /\ ~ More(Reciprocal(N(q)), Reciprocal(N(r)))
          /\ \/ More(Reciprocal(T(r)), Reciprocal(T(q)))
             \/ More(Reciprocal(N(r)), Reciprocal(N(q)))
      BY <2>2, <2>3, Reciprocals
    <2>6. \A n \in {T(r), T(q), N(r), N(q)} : Reciprocal(n) \in Fraction
      BY <2>2, <2>3, Reciprocals
    <2>7. More(Plus(Reciprocal(T(r)), Reciprocal(N(r))), Plus(Reciprocal(T(q)), Reciprocal(N(q))))
      BY <2>5, <2>6, PlusGrows
    <2> QED  BY <2>4, <2>7
  <1> HIDE DEF score
  <1>7. Sound(list, scope) /\ ToSet(list) \subseteq b \cup v
    <2>1. IsFiniteSet(b \cup v) /\ top_k \in Nat
      BY <1>3, RetrievalAssumption, FS_Subset
    <2>2. ToSet(list) \subseteq b \cup v
      BY <1>2, <1>5, <2>1, BestRows
    <2>3. Sound(list, scope)
      BY <1>2, <1>3, <1>5, <1>6, BestIsSound
    <2> QED  BY <2>2, <2>3
  <1>8. Sound(sorted, scope)
    BY <1>2a, <1>3, <1>5, <1>6, <1>7, ResortedIsSound
  <1> QED  BY <1>2a, <1>8 DEF Answers

LEMMA TextOnlyIsSound ==
  ASSUME corpus \in Corpora, NEW scope \in SUBSET Rows, TextOnly(scope)
  PROVE  answer'.scope = scope /\ Sound(answer'.rows, scope) /\ corpus' = corpus
PROOF
  <1> DEFINE leg == Leg("text", scope)  score == [r \in Rows |-> TextScore(r)]
  <1>1. PICK list \in Best(leg, score, top_k) : Answers(list, scope)
    BY DEF TextOnly
  <1>2. leg \in SUBSET scope
    BY DEF Leg
  <1>3. \A r \in Rows : By("text", r) \in Nat /\ score[r] = [num |-> By("text", r), den |-> 1]
    BY RowsHaveScores DEF TextScore
  <1>4. \A s \in leg : score[s] \in Fraction
    BY <1>2, <1>3 DEF Fraction
  <1>5. \A q \in leg, r \in scope : Beats(r, q) => r \in leg /\ More(score[r], score[q])
    BY <1>2, <1>3 DEF Beats, Leg, More
  <1> HIDE DEF leg, score
  <1>6. Sound(list, scope)
    BY <1>1, <1>2, <1>4, <1>5, BestIsSound
  <1> QED  BY <1>1, <1>6 DEF Answers

LEMMA NothingIsSound ==
  ASSUME NEW scope \in SUBSET Rows
  PROVE  Sound(<< >>, scope)
<1>1. << >> \in Seq(Rows) /\ Len(<< >>) = 0 /\ DOMAIN << >> = {}
  OBVIOUS
<1> QED  BY <1>1, RetrievalAssumption DEF Sound, IsInjective, ToSet

\* A list has a row before it has one with a smaller score, however it is cut.
LEMMA NeighboursFollow ==
  ASSUME corpus \in Corpora, NEW field \in {"text", "near"},
         NEW S \in {Leg(field, Rows), {}}, NEW whole \in Neighbours(field, S),
         NEW list \in {SubSeq(whole, 1, i) : i \in 0..Len(whole)}
  PROVE  /\ ToSet(list) \subseteq Rows /\ Len(list) \in Nat /\ DOMAIN list = 1..Len(list)
         /\ IsInjective(list)
         /\ \A j \in DOMAIN list, r \in Rows :
               By(field, r) > By(field, list[j]) => \E i \in 1..j - 1 : list[i] = r
PROOF
  <1> DEFINE score == [r \in S |-> [num |-> By(field, r), den |-> 1]]
  <1>0. PICK n \in 0..Len(whole) : list = SubSeq(whole, 1, n)
    OBVIOUS
  <1>1. S \subseteq Rows /\ IsFiniteSet(S) /\ candidate_k \in Nat
    BY LegsAreFinite, RetrievalAssumption, FS_Subset
  <1>2. \A r \in Rows : By(field, r) \in Nat
    BY RowsHaveScores
  <1>3. \A r \in S : score[r] \in Fraction
    BY <1>1, <1>2 DEF Fraction
  <1>4. whole \in Best(S, score, candidate_k)
    BY DEF Neighbours
  <1>5. /\ whole \in Seq(S) /\ DOMAIN whole = 1..Len(whole)
        /\ IsInjective(whole) /\ ToSet(whole) \subseteq S
        /\ \A j \in DOMAIN whole : \A s \in S :
              More(score[s], score[whole[j]]) => \E i \in 1..j - 1 : whole[i] = s
    <2> HIDE DEF score
    <2> QED  BY <1>1, <1>3, <1>4, BestRows
  <1>6. /\ Len(list) = n /\ Len(whole) \in Nat /\ DOMAIN list = 1..n
        /\ \A i \in 1..n : i \in DOMAIN whole /\ list[i] = whole[i] /\ whole[i] \in S
    BY <1>0, <1>5
  <1>7. IsInjective(list) /\ ToSet(list) \subseteq Rows
    BY <1>1, <1>5, <1>6 DEF IsInjective, ToSet
  <1>8. ASSUME NEW j \in DOMAIN list, NEW r \in Rows, By(field, r) > By(field, list[j])
        PROVE  \E i \in 1..j - 1 : list[i] = r
    <2>1. list[j] = whole[j] /\ list[j] \in S /\ j \in DOMAIN whole /\ j \in 1..n
      BY <1>6
    <2>2. r \in S
      BY <1>1, <1>2, <1>8, <2>1 DEF Leg
    <2>3. More(score[r], score[whole[j]])
      BY <1>1, <1>2, <1>8, <2>1, <2>2 DEF More
    <2> HIDE DEF score
    <2>4. PICK i \in 1..j - 1 : whole[i] = r
      BY <1>5, <2>1, <2>2, <2>3
    <2> QED  BY <1>6, <2>1, <2>4
  <1> QED  BY <1>6, <1>7, <1>8

\* What a list adds to a row follows its places.
LEMMA SharesFollow ==
  ASSUME NEW list, Len(list) \in Nat, DOMAIN list = 1..Len(list), IsInjective(list), NEW q, NEW r,
         \A j \in DOMAIN list : list[j] = q => \E i \in 1..j - 1 : list[i] = r
  PROVE  /\ Share(list, q) \in Fraction /\ Share(list, r) \in Fraction
         /\ ~ More(Share(list, q), Share(list, r))
         /\ q \in ToSet(list) => r \in ToSet(list) /\ More(Share(list, r), Share(list, q))
PROOF
  <1>1. ASSUME NEW i \in DOMAIN list
        PROVE  list[i] \in ToSet(list) /\ Share(list, list[i]) = Reciprocal(i) /\ i \in Nat
    BY DEF Share, ToSet, IsInjective
  <1>2. ASSUME NEW x, x \notin ToSet(list)
        PROVE  Share(list, x) = None
    BY <1>2 DEF Share
  <1>3. CASE q \in ToSet(list)
    <2>1. PICK j \in DOMAIN list : list[j] = q
      BY <1>3 DEF ToSet
    <2>2. PICK i \in 1..j - 1 : list[i] = r
      BY <2>1
    <2>3. i \in DOMAIN list /\ i \in Nat /\ j \in Nat /\ i < j
      BY <2>1, <2>2
    <2>4. Share(list, q) = Reciprocal(j) /\ Share(list, r) = Reciprocal(i) /\ r \in ToSet(list)
      BY <1>1, <2>1, <2>2, <2>3
    <2> QED  BY <2>3, <2>4, Reciprocals
  <1>4. CASE q \notin ToSet(list) /\ r \in ToSet(list)
    <2>1. PICK i \in DOMAIN list : list[i] = r
      BY <1>4 DEF ToSet
    <2>2. i \in Nat /\ Share(list, r) = Reciprocal(i) /\ Share(list, q) = None
      BY <1>1, <1>2, <1>4, <2>1
    <2> QED  BY <1>4, <2>2, Reciprocals
  <1>5. CASE q \notin ToSet(list) /\ r \notin ToSet(list)
    <2>1. Share(list, r) = None /\ Share(list, q) = None
      BY <1>2, <1>5
    <2>2. 0 \in Nat
      OBVIOUS
    <2> QED  BY <1>5, <2>1, <2>2, Reciprocals
  <1> QED  BY <1>3, <1>4, <1>5

LEMMA SimilarIsSound ==
  ASSUME corpus \in Corpora, NEW embedded, Similar(embedded)
  PROVE  answer'.scope = Rows /\ Sound(answer'.rows, Rows) /\ corpus' = corpus
PROOF
  <1>1. PICK near \in Neighbours("near", IF embedded THEN Leg("near", Rows) ELSE {}) :
        \E text \in Neighbours("text", Leg("text", Rows)) :
          LET score == Fused(AboveFloor(near), text)
          IN  \E list \in Best(DOMAIN score, score, top_k) : Answers(list, Rows)
    BY DEF Similar
  <1>2. PICK text \in Neighbours("text", Leg("text", Rows)) :
          LET score == Fused(AboveFloor(near), text)
          IN  \E list \in Best(DOMAIN score, score, top_k) : Answers(list, Rows)
    BY <1>1
  <1> DEFINE vector == AboveFloor(near)
             score == Fused(vector, text)
             S == ToSet(vector) \cup ToSet(text)
  <1>3. PICK list \in Best(DOMAIN score, score, top_k) : Answers(list, Rows)
    BY <1>2
  <1>4. DOMAIN score = S /\ \A r \in S : score[r] = Plus(Share(vector, r), Share(text, r))
    BY DEF Fused
  <1>5. /\ ToSet(vector) \subseteq Rows /\ Len(vector) \in Nat /\ DOMAIN vector = 1..Len(vector)
        /\ IsInjective(vector)
        /\ \A j \in DOMAIN vector, r \in Rows :
               By("near", r) > By("near", vector[j]) => \E i \in 1..j - 1 : vector[i] = r
    <2> DEFINE leg == IF embedded THEN Leg("near", Rows) ELSE {}
               kept == {i \in DOMAIN near : By("near", near[i]) >= cosine_floor}
    <2>1. leg \in {Leg("near", Rows), {}} /\ near \in Neighbours("near", leg)
      OBVIOUS
    <2>2. Len(near) \in Nat /\ DOMAIN near = 1..Len(near)
      <3> DEFINE points == [r \in leg |-> [num |-> By("near", r), den |-> 1]]
      <3>1. leg \subseteq Rows /\ IsFiniteSet(leg) /\ candidate_k \in Nat
        BY LegsAreFinite, RetrievalAssumption, FS_Subset
      <3>2. \A r \in leg : points[r] \in Fraction
        BY <3>1, RowsHaveScores DEF Fraction
      <3>3. near \in Best(leg, points, candidate_k)
        BY DEF Neighbours
      <3> HIDE DEF points, leg
      <3>4. near \in Seq(leg) /\ DOMAIN near = 1..Len(near)
        BY <3>1, <3>2, <3>3, BestRows
      <3> QED  BY <3>4
    <2>3. IsFiniteSet(DOMAIN near) /\ Cardinality(DOMAIN near) = Len(near)
      <3>1. PICK n \in Nat : n = Len(near)
        BY <2>2
      <3>2. IsFiniteSet(1..n) /\ Cardinality(1..n) = n
        BY FS_Interval
      <3> QED  BY <2>2, <3>1, <3>2
    <2>4. Cardinality(kept) \in 0..Len(near)
      BY <2>2, <2>3, FS_Subset, FS_CardinalityType
    <2>5. vector \in {SubSeq(near, 1, i) : i \in 0..Len(near)}
      BY <2>4 DEF AboveFloor
    <2> HIDE DEF leg, vector
    <2> QED  BY <2>1, <2>5, NeighboursFollow
  <1>6. /\ ToSet(text) \subseteq Rows /\ Len(text) \in Nat /\ DOMAIN text = 1..Len(text)
        /\ IsInjective(text)
        /\ \A j \in DOMAIN text, r \in Rows :
               By("text", r) > By("text", text[j]) => \E i \in 1..j - 1 : text[i] = r
    <2> DEFINE leg == Leg("text", Rows)
               points == [r \in leg |-> [num |-> By("text", r), den |-> 1]]
    <2>1. leg \subseteq Rows /\ IsFiniteSet(leg) /\ candidate_k \in Nat
      BY LegsAreFinite, RetrievalAssumption
    <2>2. \A r \in leg : points[r] \in Fraction
      BY <2>1, RowsHaveScores DEF Fraction
    <2>3. text \in Best(leg, points, candidate_k)
      BY DEF Neighbours
    <2>4. text \in Seq(leg) /\ Len(text) \in Nat
      <3> HIDE DEF points, leg
      <3>1. text \in Seq(leg)
        BY <2>1, <2>2, <2>3, BestRows
      <3> QED  BY <3>1
    <2>5. text \in {SubSeq(text, 1, i) : i \in 0..Len(text)}
      <3>1. text = SubSeq(text, 1, Len(text)) /\ Len(text) \in 0..Len(text)
        BY <2>4
      <3> QED  BY <3>1
    <2> QED  BY <2>5, NeighboursFollow
  <1> HIDE DEF vector, score, S
  <1>7. \A r \in S : score[r] \in Fraction
    <2> SUFFICES ASSUME NEW r \in S  PROVE score[r] \in Fraction
      OBVIOUS
    <2>1. ASSUME NEW parts \in {vector, text}  PROVE Share(parts, r) \in Fraction
      <3>1. CASE r \in ToSet(parts)
        <4>1. PICK i \in DOMAIN parts : parts[i] = r
          BY <3>1 DEF ToSet
        <4>2. Share(parts, r) = Reciprocal(i) /\ i \in Nat
          BY <1>5, <1>6, <2>1, <3>1, <4>1 DEF Share, IsInjective
        <4> QED  BY <4>2, Reciprocals
      <3>2. CASE r \notin ToSet(parts)
        <4>1. Share(parts, r) = None /\ 0 \in Nat
          BY <3>2 DEF Share
        <4> QED  BY <4>1, Reciprocals
      <3> QED  BY <3>1, <3>2
    <2>2. Share(vector, r) \in Fraction /\ Share(text, r) \in Fraction
      BY <2>1
    <2> QED  BY <1>4, <2>2, PlusIsFraction
  <1>8. ASSUME NEW q \in S, NEW r \in Rows, Beats(r, q)
        PROVE  r \in S /\ More(score[r], score[q])
    <2>1. /\ Share(vector, q) \in Fraction /\ Share(vector, r) \in Fraction
          /\ ~ More(Share(vector, q), Share(vector, r))
          /\ q \in ToSet(vector) => r \in ToSet(vector) /\ More(Share(vector, r), Share(vector, q))
      <3>1. \A j \in DOMAIN vector : vector[j] = q => \E i \in 1..j - 1 : vector[i] = r
        BY <1>5, <1>8 DEF Beats
      <3> QED  BY <1>5, <3>1, SharesFollow
    <2>2. /\ Share(text, q) \in Fraction /\ Share(text, r) \in Fraction
          /\ ~ More(Share(text, q), Share(text, r))
          /\ q \in ToSet(text) => r \in ToSet(text) /\ More(Share(text, r), Share(text, q))
      <3>1. \A j \in DOMAIN text : text[j] = q => \E i \in 1..j - 1 : text[i] = r
        BY <1>6, <1>8 DEF Beats
      <3> QED  BY <1>6, <3>1, SharesFollow
    <2>3. q \in ToSet(vector) \/ q \in ToSet(text)
      BY DEF S
    <2>4. r \in S
      BY <2>1, <2>2, <2>3 DEF S
    <2>5. More(Plus(Share(vector, r), Share(text, r)), Plus(Share(vector, q), Share(text, q)))
      BY <2>1, <2>2, <2>3, PlusGrows
    <2> QED  BY <1>4, <2>4, <2>5
  <1>9. S \subseteq Rows
    BY <1>5, <1>6 DEF S
  <1>10. Sound(list, Rows)
    BY <1>3, <1>4, <1>7, <1>8, <1>9, BestIsSound
  <1> QED  BY <1>3, <1>10 DEF Answers

-----------------------------------------------------------------------------
LEMMA SearchesBegin == RetrievalInit => RetrievalTypeOK /\ BetterRanksFirst
<1> SUFFICES ASSUME RetrievalInit  PROVE RetrievalTypeOK /\ BetterRanksFirst
  OBVIOUS
<1>1. answer.rows = << >> /\ answer.scope = {} /\ corpus \in Corpora
  BY DEF RetrievalInit, NoAnswer
<1>2. Len(<< >>) = 0 /\ DOMAIN << >> = {}
  OBVIOUS
<1> QED  BY <1>1, <1>2, RetrievalAssumption
         DEF RetrievalTypeOK, BetterRanksFirst, ToSet, IsInjective

LEMMA SearchesAreSound ==
  RetrievalTypeOK /\ BetterRanksFirst /\ [RetrievalNext]_rvars
    => RetrievalTypeOK' /\ BetterRanksFirst'
PROOF
  <1> SUFFICES ASSUME RetrievalTypeOK, BetterRanksFirst, [RetrievalNext]_rvars
               PROVE  RetrievalTypeOK' /\ BetterRanksFirst'
    OBVIOUS
  <1>1. CASE UNCHANGED rvars
    BY <1>1 DEF rvars, RetrievalTypeOK, BetterRanksFirst, By
  <1>2. CASE RetrievalNext
    <2>1. PICK scope \in SUBSET Rows :
             answer'.scope = scope /\ Sound(answer'.rows, scope) /\ corpus' = corpus
      <3>1. ASSUME NEW scope \in SUBSET Rows, FilteredFallback(scope) \/ Unanswered(scope)
            PROVE  answer'.scope = scope /\ Sound(answer'.rows, scope) /\ corpus' = corpus
        BY <3>1, NothingIsSound DEF FilteredFallback, Unanswered, Answers
      <3> QED  BY <1>2, <3>1, HybridIsSound, TextOnlyIsSound, SimilarIsSound
               DEF RetrievalNext, RetrievalTypeOK
    <2>2. \A field, r : By(field, r)' = By(field, r)
      BY <2>1 DEF By
    <2>3. RetrievalTypeOK'
      BY <2>1 DEF RetrievalTypeOK, Sound
    <2>4. BetterRanksFirst'
      BY <2>1, <2>2 DEF BetterRanksFirst, Sound, Beats
    <2> QED  BY <2>3, <2>4
  <1> QED  BY <1>1, <1>2

(* No answer of a search puts a row ahead of one that is better by text and *)
(* by distance and does not begin later, or leaves that one out: for any    *)
(* number of rows, any scores and any limits, and whatever fails.           *)
THEOREM BetterIsAhead == RetrievalSpec => [](RetrievalTypeOK /\ BetterRanksFirst)
BY SearchesBegin, SearchesAreSound, PTL DEF RetrievalSpec
-----------------------------------------------------------------------------
(* The types of the memory table and its backups.                          *)

LEMMA RowsTyped ==
    ASSUME MemoryTypeOK, NEW i \in DOMAIN rows
    PROVE  /\ i \in Ids /\ rows[i] \in RowType /\ rows[i].facts \subseteq Facts
           /\ [rows[i] EXCEPT !.open = FALSE] \in RowType
BY DEF MemoryTypeOK, RowType

LEMMA ClosedTyped ==
    ASSUME MemoryTypeOK, NEW i \in OpenRows
    PROVE  DOMAIN Closed(i) = DOMAIN rows /\ \A j \in DOMAIN rows : Closed(i)[j] \in RowType
<1>1. i \in DOMAIN rows
  BY DEF OpenRows
<1>2. \A j \in DOMAIN rows : rows[j] \in RowType /\ [rows[j] EXCEPT !.open = FALSE] \in RowType
  BY RowsTyped
<1> QED  BY <1>1, <1>2 DEF Closed

\* What is known of the callers together.
JobsAre(jobs) == DOMAIN jobs = Callers /\ \A c \in Callers : jobs[c] \in JobType \/ IsListing(jobs[c])

LEMMA PageTyped ==
    ASSUME CountInv, MemoryTypeOK, NEW c \in Callers, Lists(c)
    PROVE  IsListing(WithPage(Listing(c)))
<1> DEFINE list == Listing(c)
           page == PageAt(list.offset)
           new == WithPage(list)
           Read == [facts : SUBSET Facts, count : Nat, cites : SUBSET Tasks]
<1>1. IsListing(list)
  <2>1. job[c] \in JobType => job[c].at # "page"
    BY DEF JobType, NoJob
  <2>2. IsListing(NoPage)
    BY DEF IsListing, NoPage, Empty
  <2> QED  BY <2>1, <2>2 DEF Listing, Lists, MemoryTypeOK
<1> HIDE DEF list
<1>2. page \subseteq Eligible /\ Eligible \subseteq DOMAIN rows /\ Eligible \subseteq Ids
  BY DEF PageAt, Eligible, MemoryTypeOK
<1> HIDE DEF page
<1>3. /\ DOMAIN new = DOMAIN list /\ new.at = "page" /\ new.offset = list.offset + PageSize
      /\ new.before = Eligible /\ new.twice = list.twice \cup (DOMAIN list.read \cap page)
      /\ new.shifted \in BOOLEAN
      /\ new.read = [i \in DOMAIN list.read \cup page |->
                        IF i \notin page THEN list.read[i]
                        ELSE IF i \in DOMAIN list.read THEN Again(i, list.read[i]) ELSE Line(i)]
  BY <1>1 DEF WithPage, IsListing, page
<1> HIDE DEF new
<1>4. ASSUME NEW i \in page
      PROVE  Line(i) \in Read /\ \A line \in Read : Again(i, line) \in Read
  <2>1. rows[i] \in RowType
    BY <1>2, <1>4, RowsTyped
  <2>2. rows[i].facts \in SUBSET Facts /\ rows[i].count \in Nat /\ rows[i].cites \in SUBSET Tasks
    BY <2>1 DEF RowType
  <2>3. Line(i) \in Read
    BY <2>2 DEF Line
  <2>4. ASSUME NEW line \in Read PROVE Again(i, line) \in Read
    <3>1. PICK n, t : n = Line(i).count + line.count /\ t = Line(i).cites \cup line.cites
      OBVIOUS
    <3>2. Again(i, line) = [[Line(i) EXCEPT !.count = n] EXCEPT !.cites = t]
      BY <3>1 DEF Again, Line
    <3>3. n \in Nat /\ t \in SUBSET Tasks
      BY <2>3, <2>4, <3>1
    <3> QED  BY <2>3, <3>2, <3>3
  <2> QED  BY <2>3, <2>4
<1>5. DOMAIN list.read \subseteq Ids /\ \A i \in DOMAIN list.read : list.read[i] \in Read
  BY <1>1 DEF IsListing
<1> HIDE DEF Read
<1>6. \A i \in DOMAIN new.read : i \in Ids /\ new.read[i] \in Read
  BY <1>2, <1>3, <1>4, <1>5
<1>7. list.offset \in Nat /\ list.twice \subseteq Ids /\ PageSize \in Nat
      /\ DOMAIN list = {"at", "offset", "read", "twice", "before", "shifted"}
  BY <1>1, MemoryAssumption DEF IsListing
<1>8. new.offset \in Nat /\ {new.twice, new.before} \subseteq SUBSET Ids /\ DOMAIN new.read \subseteq Ids
  BY <1>2, <1>3, <1>5, <1>6, <1>7
<1> QED  BY <1>3, <1>6, <1>7, <1>8 DEF IsListing, Read, new, list

LEMMA MergedTyped ==
    ASSUME CountInv, MemoryTypeOK, NEW c \in Callers, Lists(c), NEW read, NEW shifted,
           read = WithPage(Listing(c)).read, shifted = WithPage(Listing(c)).shifted,
           NEW group \in SUBSET Ids, group \subseteq DOMAIN read, NEW text \in SUBSET Facts
    PROVE  Merged(read, group, text, shifted) \in RowType /\ FactsOf(read, group) \subseteq Facts
<1>1. IsFiniteSet(group)
  BY GroupsAreFinite
<1>2. Merged(read, group, text, shifted).count \in Nat
  BY <1>1, MergedCount DEF Honest
<1>3. /\ \A i \in group : read[i] \in [facts : SUBSET Facts, count : Nat, cites : SUBSET Tasks]
      /\ shifted \in BOOLEAN
  BY PageTyped DEF IsListing
<1>4. \A i \in group : read[i].facts \subseteq Facts /\ read[i].cites \subseteq Tasks
  BY <1>3
<1>5. UNION {read[i].facts : i \in group} \subseteq Facts /\ UNION {read[i].cites : i \in group} \subseteq Tasks
  BY <1>4
<1>6. Merged(read, group, text, shifted).count = IF Postgres THEN CarriedCount(read, group) ELSE 0
  BY DEF Merged
<1>7. (IF Postgres THEN CarriedCount(read, group) ELSE 0) \in Nat
  BY <1>2, <1>6
<1> QED  BY <1>3, <1>5, <1>7 DEF Merged, RowType, Kinds, FactsOf

LEMMA JobsTyped ==
    ASSUME MemoryTypeOK, NEW c \in Callers
    PROVE  /\ job[c].at \in {"classify", "insert"} =>
                job[c].fact \in Facts /\ [job[c] EXCEPT !.at = "insert"] \in JobType
           /\ job[c].at = "merge" =>
                /\ job[c].row \in RowType /\ job[c].lost \subseteq Facts
                /\ [at |-> "purge", group |-> job[c].group] \in JobType
           /\ job[c].at = "purge" => \A i : [job[c] EXCEPT !.group = @ \ {i}] \in JobType
           /\ NoJob \in JobType
<1>1. job[c] \in JobType \/ IsListing(job[c])
  BY DEF MemoryTypeOK
<1>2. CASE job[c] \in [at : {"classify", "insert"}, fact : Facts, seen : SUBSET Ids]
  BY <1>2 DEF JobType
<1>3. CASE job[c] \in [at : {"merge"}, group : SUBSET Ids, row : RowType, lost : SUBSET Facts]
  BY <1>3 DEF JobType
<1>4. CASE job[c] \in [at : {"purge"}, group : SUBSET Ids]
  BY <1>4 DEF JobType
<1>5. CASE job[c] = NoJob
  BY <1>5 DEF JobType, NoJob
<1>6. CASE IsListing(job[c])
  BY <1>6 DEF IsListing, JobType
<1> QED  BY <1>1, <1>2, <1>3, <1>4, <1>5, <1>6 DEF JobType

LEMMA GoesTyped ==
    ASSUME MemoryTypeOK, NEW c \in Callers, NEW to, to \in JobType \/ IsListing(to), Goes(c, to)
    PROVE  JobsAre(job')
<1>1. \A d \in Callers : job'[d] = IF d = c THEN to ELSE job[d]
  BY DEF MemoryTypeOK, Goes
<1> QED  BY <1>1 DEF MemoryTypeOK, Goes, JobsAre

LEMMA AddsTyped ==
    ASSUME MemoryTypeOK, NEW i, NEW f \in Facts, MaxRows \in Nat,
           Adds(IF i \in OpenRows THEN Closed(i) ELSE rows, f) \/ Adds(rows, f)
    PROVE  /\ DOMAIN rows' \subseteq Ids /\ \A j \in DOMAIN rows' : rows'[j] \in RowType
           /\ fresh' \in 1..MaxRows + 1 /\ \A j \in DOMAIN rows' : j < fresh'
           /\ told' \subseteq Facts
<1>1. PICK table : /\ DOMAIN table = DOMAIN rows /\ \A j \in DOMAIN rows : table[j] \in RowType
                   /\ Adds(table, f)
  BY ClosedTyped, RowsTyped
<1>2. Statement(f) \in RowType
  BY MemoryAssumption DEF Statement, RowType, Kinds
<1>3. /\ fresh \in Nat /\ fresh >= 1 /\ fresh <= MaxRows /\ fresh' = fresh + 1
      /\ DOMAIN rows' = DOMAIN rows \cup {fresh} /\ told' = told \cup {f}
      /\ \A j \in DOMAIN rows' : rows'[j] = IF j = fresh THEN Statement(f) ELSE table[j]
  BY <1>1 DEF Adds, MemoryTypeOK
<1>4. DOMAIN rows \subseteq Ids /\ (\A j \in DOMAIN rows : j < fresh) /\ told \subseteq Facts
  BY DEF MemoryTypeOK
<1> QED  BY <1>1, <1>2, <1>3, <1>4 DEF Ids

LEMMA StoreTyped ==
    ASSUME MemoryTypeOK, NEW c \in Callers, StoreSteps(c) \/ Dies(c)
    PROVE  MemoryTypeOK'
<1>1. MaxRows \in Nat /\ OpenRows \subseteq Ids
  BY MemoryAssumption DEF OpenRows, MemoryTypeOK
<1>2. ASSUME NEW f \in Facts, Lookup(c, f) PROVE MemoryTypeOK'
  <2> DEFINE to == [at |-> IF Postgres THEN "classify" ELSE "insert", fact |-> f,
                    seen |-> IF Postgres THEN OpenRows ELSE {}]
  <2>1. to \in JobType
    BY <1>1 DEF JobType
  <2>2. Goes(c, to) /\ UNCHANGED <<backend, rows, fresh, archive, told, dropped, cited>>
    BY <1>2 DEF Lookup
  <2> HIDE DEF to
  <2>3. JobsAre(job')
    BY <2>1, <2>2, GoesTyped
  <2> QED  BY <2>2, <2>3 DEF MemoryTypeOK, JobsAre
<1>3. ASSUME Goes(c, NoJob) \/ (Classifying(c) /\ Goes(c, [job[c] EXCEPT !.at = "insert"]))
      PROVE  JobsAre(job')
  BY <1>3, JobsTyped, GoesTyped DEF Classifying
<1>4. CASE Refuse(c) \/ ClassifiedAdd(c) \/ Dies(c)
  BY <1>3, <1>4 DEF Refuse, ClassifiedAdd, Dies, MemoryTypeOK, JobsAre
<1>5. ASSUME NEW i \in Ids, Negate(c, i) \/ Supersede(c, i) PROVE MemoryTypeOK'
  <2>1. DOMAIN rows' = DOMAIN rows /\ \A j \in DOMAIN rows : rows'[j] \in RowType
    BY <1>5, ClosedTyped, RowsTyped DEF Negate, Supersede
  <2>2. UNCHANGED <<backend, fresh, archive, told, dropped, cited>> /\ JobsAre(job')
    BY <1>3, <1>5 DEF Negate, Supersede
  <2> QED  BY <2>1, <2>2 DEF MemoryTypeOK, JobsAre
<1>6. ASSUME NEW i \in Ids, Replace(c, i) PROVE MemoryTypeOK'
  <2>1. job[c].fact \in Facts
    BY <1>6, JobsTyped DEF Replace, Classifying
  <2>2. /\ DOMAIN rows' \subseteq Ids /\ \A j \in DOMAIN rows' : rows'[j] \in RowType
        /\ fresh' \in 1..MaxRows + 1 /\ \A j \in DOMAIN rows' : j < fresh'
        /\ told' \subseteq Facts
    BY <1>1, <1>6, <2>1, AddsTyped DEF Replace
  <2>3. UNCHANGED <<backend, archive, dropped, cited>> /\ JobsAre(job')
    BY <1>3, <1>6 DEF Replace
  <2> QED  BY <2>2, <2>3 DEF MemoryTypeOK, JobsAre
<1>7. ASSUME Insert(c) PROVE MemoryTypeOK'
  <2>1. job[c].fact \in Facts
    BY <1>7, JobsTyped DEF Insert
  <2>2. /\ DOMAIN rows' \subseteq Ids /\ \A j \in DOMAIN rows' : rows'[j] \in RowType
        /\ fresh' \in 1..MaxRows + 1 /\ \A j \in DOMAIN rows' : j < fresh'
        /\ told' \subseteq Facts
    BY <1>1, <1>7, <2>1, AddsTyped DEF Insert
  <2>3. UNCHANGED <<backend, archive, dropped, cited>> /\ JobsAre(job')
    BY <1>3, <1>7 DEF Insert
  <2> QED  BY <2>2, <2>3 DEF MemoryTypeOK, JobsAre
<1> QED  BY <1>2, <1>4, <1>5, <1>6, <1>7 DEF StoreSteps

\* Steps that only take rows out of the table.
LEMMA WithoutTyped ==
    ASSUME MemoryTypeOK, NEW gone, rows' = Without(gone) \/ rows' = rows
    PROVE  DOMAIN rows' \subseteq DOMAIN rows /\ \A j \in DOMAIN rows' : rows'[j] = rows[j]
BY DEF Without

LEMMA DistillTyped ==
    ASSUME CountInv, MemoryTypeOK, NEW c \in Callers, DistillSteps(c)
    PROVE  MemoryTypeOK'
<1>1. ASSUME NEW group \in SUBSET Ids, NEW text \in SUBSET Facts, Group(c, group, text)
      PROVE  MemoryTypeOK'
  <2>1. PICK read, shifted : read = WithPage(Listing(c)).read /\ shifted = WithPage(Listing(c)).shifted
    OBVIOUS
  <2> DEFINE to == [at |-> "merge", group |-> group, row |-> Merged(read, group, text, shifted),
                    lost |-> FactsOf(read, group) \ text]
  <2>2. /\ Goes(c, to) /\ Lists(c) /\ group \subseteq DOMAIN read
        /\ UNCHANGED <<backend, rows, fresh, archive, told, dropped, cited>>
    BY <1>1, <2>1 DEF Group
  <2>3. Merged(read, group, text, shifted) \in RowType /\ FactsOf(read, group) \subseteq Facts
    BY <2>1, <2>2, MergedTyped
  <2>4. to \in JobType
    BY <2>3 DEF JobType
  <2> HIDE DEF to
  <2>5. JobsAre(job')
    BY <2>2, <2>4, GoesTyped
  <2> QED  BY <2>2, <2>5 DEF MemoryTypeOK, JobsAre
<1>5. CASE NextPage(c)
  <2>1. PICK to : to = WithPage(Listing(c))
    OBVIOUS
  <2>2. /\ Goes(c, to) /\ IsListing(to)
        /\ UNCHANGED <<backend, rows, fresh, archive, told, dropped, cited>>
    BY <1>5, <2>1, PageTyped DEF NextPage
  <2>3. JobsAre(job')
    BY <2>2, GoesTyped
  <2> QED  BY <2>2, <2>3 DEF MemoryTypeOK, JobsAre
<1>2. CASE Merge(c)
  <2>1. job[c].row \in RowType /\ JobsAre(job')
    <3> DEFINE to == [at |-> "purge", group |-> job[c].group]
    <3>1. job[c].at = "merge" /\ Goes(c, to)
      BY <1>2 DEF Merge
    <3>2. job[c].row \in RowType /\ to \in JobType
      BY <3>1, JobsTyped
    <3> HIDE DEF to
    <3> QED  BY <3>1, <3>2, GoesTyped
  <2>2. /\ fresh \in Nat /\ fresh >= 1 /\ fresh <= MaxRows /\ fresh' = fresh + 1 /\ MaxRows \in Nat
        /\ DOMAIN rows' = DOMAIN rows \cup {fresh}
        /\ \A j \in DOMAIN rows' : rows'[j] = IF j = fresh THEN job[c].row ELSE rows[j]
        /\ UNCHANGED <<backend, archive, told, cited>>
    BY <1>2, MemoryAssumption DEF Merge, With, MemoryTypeOK
  <2>5. dropped' \subseteq Facts
    BY <1>2, JobsTyped DEF Merge, MemoryTypeOK
  <2>3. DOMAIN rows \subseteq Ids /\ (\A j \in DOMAIN rows : rows[j] \in RowType /\ j < fresh)
    BY DEF MemoryTypeOK
  <2>4. /\ DOMAIN rows' \subseteq Ids /\ \A j \in DOMAIN rows' : rows'[j] \in RowType
        /\ fresh' \in 1..MaxRows + 1 /\ \A j \in DOMAIN rows' : j < fresh'
    BY <2>1, <2>2, <2>3 DEF Ids
  <2> QED  BY <2>1, <2>2, <2>4, <2>5 DEF MemoryTypeOK, JobsAre
<1>3. CASE MergeFails(c)
  <2>1. JobsAre(job')
    BY <1>3, JobsTyped, GoesTyped DEF MergeFails
  <2> QED  BY <1>3, <2>1 DEF MergeFails, MemoryTypeOK, JobsAre
<1>4. ASSUME NEW i \in Ids, NEW deleted \in BOOLEAN, Purge(c, i, deleted) PROVE MemoryTypeOK'
  <2>1. JobsAre(job')
    BY <1>4, JobsTyped, GoesTyped DEF Purge
  <2>2. DOMAIN rows' \subseteq DOMAIN rows /\ \A j \in DOMAIN rows' : rows'[j] = rows[j]
    BY <1>4, WithoutTyped DEF Purge
  <2> QED  BY <1>4, <2>1, <2>2 DEF Purge, MemoryTypeOK, JobsAre
<1> QED  BY <1>1, <1>2, <1>3, <1>4, <1>5 DEF DistillSteps

LEMMA OthersTyped ==
    ASSUME MemoryTypeOK, NEW i \in Ids, Delete(i) \/ Retire(i) \/ \E t \in Tasks : Cite(i, t)
    PROVE  MemoryTypeOK'
<1>1. CASE Delete(i)
  <2>1. DOMAIN rows' \subseteq DOMAIN rows /\ \A j \in DOMAIN rows' : rows'[j] = rows[j]
    BY <1>1, WithoutTyped DEF Delete
  <2>2. dropped' \subseteq Facts
    BY <1>1, RowsTyped DEF Delete, MemoryTypeOK
  <2> QED  BY <1>1, <2>1, <2>2 DEF Delete, MemoryTypeOK, JobsAre
<1>2. CASE Retire(i)
  <2>1. DOMAIN rows' \subseteq DOMAIN rows /\ \A j \in DOMAIN rows' : rows'[j] = rows[j]
    BY <1>2, WithoutTyped DEF Retire
  <2>2. DOMAIN archive' \subseteq Ids /\ \A j \in DOMAIN archive' : archive'[j] \subseteq Facts
    <3> DEFINE old == {j \in DOMAIN rows : rows[j].kind = "noise" /\ j <= i}
    <3>1. archive' = [j \in DOMAIN archive \cup old |->
                         IF j \in DOMAIN archive THEN archive[j] ELSE rows[j].facts]
      BY <1>2 DEF Retire
    <3>2. \A j \in old : j \in Ids /\ rows[j].facts \subseteq Facts
      BY RowsTyped
    <3> HIDE DEF old
    <3> QED  BY <3>1, <3>2 DEF MemoryTypeOK
  <2> QED  BY <1>2, <2>1, <2>2 DEF Retire, MemoryTypeOK, JobsAre
<1>3. ASSUME NEW t \in Tasks, Cite(i, t) PROVE MemoryTypeOK'
  <2>1. /\ i \in DOMAIN rows /\ cited < MaxCited /\ cited' = cited + 1
        /\ rows' = [rows EXCEPT ![i].cites = @ \cup {t}, ![i].count = @ + 1]
        /\ UNCHANGED <<backend, fresh, archive, job, told, dropped>>
    BY <1>3 DEF Cite
  <2>2. cited \in 0..MaxCited /\ MaxCited \in Nat
    BY MemoryAssumption DEF MemoryTypeOK
  <2>3. [rows[i] EXCEPT !.cites = @ \cup {t}, !.count = @ + 1] \in RowType
    <3>1. rows[i] \in RowType
      BY <2>1, RowsTyped
    <3>2. (rows[i].cites \cup {t}) \in SUBSET Tasks /\ rows[i].count + 1 \in Nat
      BY <3>1 DEF RowType
    <3> QED  BY <3>1, <3>2 DEF RowType
  <2>4. /\ DOMAIN rows' = DOMAIN rows
        /\ rows'[i] = [rows[i] EXCEPT !.cites = @ \cup {t}, !.count = @ + 1]
        /\ \A j \in DOMAIN rows \ {i} : rows'[j] = rows[j]
    BY <2>1, RowsTyped DEF RowType
  <2>5. \A j \in DOMAIN rows' : rows'[j] \in RowType
    BY <2>3, <2>4, RowsTyped
  <2> QED  BY <2>1, <2>2, <2>4, <2>5 DEF MemoryTypeOK, JobsAre
<1> QED  BY <1>1, <1>2, <1>3

(* A step of the table itself.                                             *)
LEMMA MemoryTyped ==
    ASSUME CountInv, MemoryTypeOK, Next
    PROVE  MemoryTypeOK'
BY StoreTyped, DistillTyped, OthersTyped DEF Next, Callers

LEMMA ImportTyped ==
    ASSUME FactInv, BackupTypeOK, NEW i \in DOMAIN file.rows
    PROVE  i \in Ids /\ i < fresh /\ Imported(i) \in RowType
<1>1. i \in 1..fresh - 1 /\ fresh \in 1..MaxRows + 1 /\ MaxRows \in Nat
  BY MemoryAssumption DEF FactInv, Tables, Typed, BackupTypeOK, MemoryTypeOK
<1>2. file.rows[i] \in RowType
  BY DEF BackupTypeOK
<1>3. Imported(i) \in RowType
  BY <1>2 DEF Imported, RowType
<1> QED  BY <1>1, <1>3 DEF Ids

LEMMA RestoresTyped ==
    ASSUME FactInv, BackupTypeOK,
           RestoreMerge(DOMAIN file.rows) \/ RestoreReplace(DOMAIN file.rows)
    PROVE  MemoryTypeOK' /\ UNCHANGED <<file, day, backups>>
<1>1. UNCHANGED <<backend, fresh, archive, job, told, cited, file, day, backups>>
  BY DEF RestoreMerge, RestoreReplace
<1>2. /\ DOMAIN rows' \subseteq Ids
      /\ \A i \in DOMAIN rows' : rows'[i] \in RowType /\ i < fresh
  <2>1. PICK table \in {rows, Empty} : rows' = Import(table, DOMAIN file.rows)
    BY DEF RestoreMerge, RestoreReplace
  <2>2. \A i \in DOMAIN table : i \in Ids /\ i < fresh /\ table[i] \in RowType
    BY <2>1 DEF BackupTypeOK, MemoryTypeOK, Empty
  <2> QED  BY <2>1, <2>2, ImportTyped DEF Import
<1>3. dropped' \subseteq Facts
  <2>1. \A i \in Dropped : rows[i].facts \subseteq Facts
    BY RowsTyped DEF Dropped, BackupTypeOK
  <2>2. UNION {rows[i].facts : i \in Dropped} \subseteq Facts
    BY <2>1
  <2> QED  BY <2>2 DEF RestoreMerge, RestoreReplace, BackupTypeOK, MemoryTypeOK
<1> QED  BY <1>1, <1>2, <1>3 DEF BackupTypeOK, MemoryTypeOK

LEMMA BackupsTyped ==
    ASSUME CountInv, BackupTypeOK, [BNext]_bvars
    PROVE  BackupTypeOK'
<1>1. /\ FactInv /\ MemoryTypeOK /\ BackupAssumption /\ MaxBackups \in Nat
      /\ DOMAIN file'.rows \subseteq DOMAIN rows' \cup 1..fresh' - 1
  BY CountsKeep, BackupAssumption
     DEF CountInv, FactInv, Tables, Typed, BackupTypeOK, BackupAssumption
<1>2. CASE UNCHANGED bvars
  BY <1>1, <1>2 DEF bvars, vars, BackupTypeOK, MemoryTypeOK
<1>3. CASE Next /\ UNCHANGED <<file, day, backups>>
  BY <1>1, <1>3, MemoryTyped DEF BackupTypeOK
<1>4. ASSUME NEW table \in Exports, NEW whole \in BOOLEAN, Create(table, whole), day' \in BOOLEAN
      PROVE  BackupTypeOK'
  <2>1. MemoryTypeOK'
    BY <1>1, <1>4 DEF Create, vars, MemoryTypeOK
  <2>2. \A i \in DOMAIN table : table[i] \in RowType
    BY <1>1 DEF Exports, MemoryTypeOK, Empty
  <2>3. file'.written /\ \A i \in DOMAIN file'.rows : file'.rows[i] \in RowType
    BY <1>4, <2>2 DEF Create, Empty
  <2> QED  BY <1>1, <1>4, <2>1, <2>3 DEF Create, BackupTypeOK
<1>5. CASE NewDay
  BY <1>1, <1>5 DEF NewDay, vars, BackupTypeOK, MemoryTypeOK
<1>6. CASE RestoreMerge(DOMAIN file.rows) \/ RestoreReplace(DOMAIN file.rows)
  BY <1>1, <1>6, RestoresTyped DEF BackupTypeOK
<1> QED
  <2>1. ASSUME NEW table \in Exports, NEW whole \in BOOLEAN,
               AutoBackup(table, whole) \/ BackupCreate(table, whole)
        PROVE  BackupTypeOK'
    BY <1>4, <2>1 DEF AutoBackup, BackupCreate, BackupTypeOK
  <2> QED  BY <1>2, <1>3, <1>5, <1>6, <2>1 DEF BNext

LEMMA BackupsTypedFirst ==
    ASSUME BInit
    PROVE  BackupTypeOK
<1>1. {MaxRows, MaxCited} \subseteq Nat /\ DOMAIN Empty = {}
  BY MemoryAssumption DEF Empty
<1>2. DOMAIN job = Callers /\ \A c \in Callers : job[c] \in JobType
  BY DEF BInit, Init, JobType
<1>3. /\ rows = Empty /\ archive = Empty /\ fresh = 1 /\ cited = 0 /\ told = {} /\ dropped = {}
      /\ backend \in {"postgres", "sqlite"}
  BY DEF BInit, Init
<1>4. MemoryTypeOK
  BY <1>1, <1>2, <1>3 DEF MemoryTypeOK
<1>5. file.whole = FALSE /\ DOMAIN file.rows = {} /\ day = FALSE /\ backups = 0
  BY <1>1 DEF BInit, NoFile
<1>6. MaxBackups \in Nat /\ backups = 0
  BY <1>5, BackupAssumption DEF BackupAssumption
<1>7. backups \in 0..MaxBackups
  BY <1>6
<1> QED  BY <1>4, <1>5, <1>7 DEF BackupTypeOK

-----------------------------------------------------------------------------
(* The types of contexts and requests.                                     *)

LEMMA RenewedTyped ==
    ASSUME handoff.files \in Known, NEW f \in Files, NEW text \in Version \cup {Undescribed},
           work \in [Files -> Version]
    PROVE  Renewed(f, text) \in Known /\ [g \in Tracked \ {f} |-> handoff.files[g]] \in Known
<1>1. PICK S \in SUBSET Files : handoff.files \in [S -> Entry]
  BY DEF Known
<1>2. [hash |-> work[f], text |-> text] \in Entry
  BY DEF Entry
<1>3. Renewed(f, text) \in [S \cup {f} -> Entry]
  BY <1>1, <1>2 DEF Renewed, Tracked
<1>4. [g \in Tracked \ {f} |-> handoff.files[g]] \in [S \ {f} -> Entry]
  BY <1>1 DEF Tracked
<1>5. S \cup {f} \in SUBSET Files /\ S \ {f} \in SUBSET Files
  BY <1>1
<1> QED  BY <1>3, <1>4, <1>5 DEF Known

LEMMA NothingKnown == << >> \in Known
<1>1. << >> \in [{} -> Entry]
  OBVIOUS
<1> QED  BY <1>1 DEF Known

LEMMA TextTyped ==
    ASSUME handoff.files \in Known, NEW f \in Tracked
    PROVE  f \in Files /\ handoff.files[f].text \in Version \cup {Undescribed}
BY DEF Known, Tracked, Entry

\* What is to be shown of a request on its way.
Underway ==
    /\ handoff.pc \in {"diff", "hash", "head", "store"} /\ handoff.step \in Steps
    /\ handoff.files \in Known /\ handoff.stale \subseteq Files

LEMMA AgentsTyped ==
    ASSUME ContextInv, ContextTypeOK, (\E f \in Files : Edit(f) \/ Unlink(f)) \/ Commit
    PROVE  ContextTypeOK'
<1>1. work' \in [Files -> Version] /\ commits' \in Seq([Files -> Version])
  BY AgentsMove DEF ContextInv
<1>2. HEAD' \in 1..MaxCommits
  <2>1. HEAD \in 1..MaxCommits /\ commits \in Seq([Files -> Version]) /\ MaxCommits \in Nat
    BY ContextAssumption DEF ContextTypeOK
  <2>2. CASE UNCHANGED commits
    BY <2>1, <2>2 DEF HEAD
  <2>3. CASE HEAD < MaxCommits /\ commits' = Append(commits, work)
    <3>1. Len(commits') = Len(commits) + 1
      BY <2>1, <2>3
    <3> QED  BY <2>1, <2>3, <3>1 DEF HEAD
  <2> QED  BY <2>2, <2>3 DEF Edit, Unlink, Commit
<1>3. handoff' = Resting \/ Underway'
  <2>1. CASE handoff = Resting
    BY <2>1 DEF Edit, Unlink, Commit, Moves
  <2>2. CASE handoff # Resting
    <3>1. handoff' = [handoff EXCEPT !.exact = FALSE]
      BY <2>2 DEF Edit, Unlink, Commit, Moves
    <3> QED  BY <2>2, <3>1 DEF ContextTypeOK, Underway, ContextInv, RequestOK, RequestFields, Steps
  <2> QED  BY <2>1, <2>2
<1> QED  BY <1>1, <1>2, <1>3 DEF Edit, Unlink, Commit, ContextTypeOK, Underway, Steps

LEMMA RequestTyped ==
    ASSUME ContextTypeOK, UNCHANGED <<work, commits, context>>, requests' \in 0..MaxRequests,
           handoff' = Resting \/ Underway'
    PROVE  ContextTypeOK'
BY DEF ContextTypeOK, Underway, HEAD, Steps

LEMMA BeginTyped ==
    ASSUME ContextTypeOK, NEW n \in Steps, BeginCompact(n) \/ BeginValidate(n)
    PROVE  ContextTypeOK'
<1>1. UNCHANGED <<work, commits, context>> /\ requests' \in 0..MaxRequests
  BY ContextAssumption DEF BeginCompact, BeginValidate, Another, ContextTypeOK
<1>2. CASE BeginCompact(n)
  <2>1. PICK S \in SUBSET Files :
          handoff' = [pc |-> IF S = {} THEN "store" ELSE "hash", step |-> n, kind |-> "compact",
                      files |-> << >>, stale |-> S, ref |-> 0, exact |-> TRUE]
    BY <1>2 DEF BeginCompact
  <2>2. Underway'
    BY <2>1, NothingKnown DEF Underway, Steps
  <2> QED  BY <1>1, <2>2, RequestTyped
<1>3. CASE BeginValidate(n)
  <2>1. Underway'
    BY <1>3 DEF BeginValidate, ContextTypeOK, Underway, Steps
  <2> QED  BY <1>1, <2>1, RequestTyped
<1> QED  BY <1>2, <1>3

LEMMA WorkTyped ==
    ASSUME ContextInv, ContextTypeOK, Diff \/ (\E f \in Files : Refresh(f) \/ Drop(f)) \/ ReadHead
    PROVE  ContextTypeOK'
<1>1. UNCHANGED <<work, commits, context>> /\ requests' \in 0..MaxRequests
  BY DEF Diff, Refresh, Drop, ReadHead, ContextTypeOK
<1>2. Underway /\ DOMAIN handoff = RequestFields
  <2>1. handoff.pc \in {"diff", "hash", "head"}
    BY DEF Diff, Refresh, Drop, ReadHead
  <2>2. handoff # Resting
    BY <2>1 DEF Resting
  <2> QED  BY <2>2 DEF ContextTypeOK, Underway, ContextInv, RequestOK
<1>3. CASE Diff
  <2>1. PICK stale : /\ stale \subseteq Tracked
                     /\ handoff' = [handoff EXCEPT !.stale = stale, !.exact = @ \/ stale = Tracked,
                                                   !.pc = IF stale = {} THEN "head" ELSE "hash"]
    BY <1>3 DEF Diff, ChangedSince
  <2>2. stale \subseteq Files
    BY <1>2, <2>1, TextTyped DEF Underway
  <2>3. Underway'
    BY <1>2, <2>1, <2>2 DEF Underway, RequestFields, Steps
  <2> QED  BY <1>1, <2>3, RequestTyped
<1>4. ASSUME NEW f \in Files, Refresh(f) PROVE ContextTypeOK'
  <2> DEFINE left == handoff.stale \ {f}
  <2>1. PICK text \in Version \cup {Undescribed} : handoff' = [handoff EXCEPT
                      !.files = Renewed(f, text), !.stale = left,
                      !.pc = IF left = {} THEN "head" ELSE "hash",
                      !.exact = @ /\ work[f] = commits[HEAD][f] /\ text \in {work[f], Undescribed}]
    BY <1>2, <1>4, TextTyped DEF Refresh, Underway, ContextTypeOK
  <2>2. Renewed(f, text) \in Known /\ left \subseteq Files
    BY <1>2, RenewedTyped DEF Underway, ContextTypeOK
  <2> HIDE DEF left
  <2>3. Underway'
    BY <1>2, <2>1, <2>2 DEF Underway, RequestFields, Steps
  <2> QED  BY <1>1, <2>3, RequestTyped
<1>5. ASSUME NEW f \in Files, Drop(f) PROVE ContextTypeOK'
  <2> DEFINE left == handoff.stale \ {f}
             kept == [g \in Tracked \ {f} |-> handoff.files[g]]
  <2>1. handoff' = [handoff EXCEPT !.files = kept, !.stale = left,
                                   !.pc = IF left = {} THEN "head" ELSE "hash"]
    BY <1>5 DEF Drop
  <2>2. kept \in Known /\ left \subseteq Files
    BY <1>2, RenewedTyped DEF Underway, ContextTypeOK
  <2> HIDE DEF left, kept
  <2>3. Underway'
    BY <1>2, <2>1, <2>2 DEF Underway, RequestFields, Steps
  <2> QED  BY <1>1, <2>3, RequestTyped
<1>6. CASE ReadHead
  <2>1. Underway'
    BY <1>2, <1>6 DEF ReadHead, Underway, RequestFields, Steps
  <2> QED  BY <1>1, <2>1, RequestTyped
<1> QED  BY <1>3, <1>4, <1>5, <1>6

LEMMA EndTyped ==
    ASSUME ContextInv, ContextTypeOK, Store \/ Abandon
    PROVE  ContextTypeOK'
<1>1. UNCHANGED <<work, commits, requests>> /\ handoff' = Resting
  BY DEF Store, Abandon
<1>2. \A n \in Steps : context'[n].ref \in 0..MaxCommits /\ context'[n].files \in Known
  <2>1. CASE UNCHANGED context
    BY <2>1 DEF ContextTypeOK
  <2>2. CASE Store /\ context' = [context EXCEPT ![handoff.step] =
                [ref |-> handoff.ref, files |-> handoff.files, exact |-> handoff.exact]]
    <3>1. handoff # Resting
      BY <2>2 DEF Store, Resting
    <3>2. handoff.ref \in 0..HEAD /\ HEAD \in 1..MaxCommits /\ MaxCommits \in Nat
      BY <3>1, ContextAssumption DEF ContextInv, RequestOK, ContextTypeOK
    <3>3. handoff.ref \in 0..MaxCommits /\ handoff.files \in Known
      BY <3>1, <3>2 DEF ContextTypeOK
    <3>4. DOMAIN context = Steps
      BY DEF ContextInv, ContextRows
    <3> QED  BY <2>2, <3>3, <3>4 DEF ContextTypeOK
  <2> QED  BY <2>1, <2>2 DEF Store, Abandon
<1> QED  BY <1>1, <1>2 DEF ContextTypeOK, HEAD, Steps

LEMMA ContextsTyped ==
    ASSUME ContextInv, ContextTypeOK, [ContextNext]_cvars
    PROVE  ContextTypeOK'
<1>1. CASE UNCHANGED cvars
  BY <1>1 DEF cvars, ContextTypeOK, HEAD, Steps
<1> QED  BY <1>1, AgentsTyped, BeginTyped, WorkTyped, EndTyped DEF ContextNext

LEMMA ContextsTypedFirst ==
    ASSUME ContextInit
    PROVE  ContextTypeOK
<1>1. MaxRequests \in Nat /\ MaxCommits \in Nat \ {0}
  BY ContextAssumption
<1>2. HEAD = 1 /\ work \in [Files -> Version] /\ commits \in Seq([Files -> Version])
  BY ContextBegins DEF ContextInv, ContextInit, HEAD
<1>3. \A n \in Steps : context[n].ref = 0 /\ context[n].files \in Known
  BY NothingKnown DEF ContextInit, NoRow
<1> QED  BY <1>1, <1>2, <1>3 DEF ContextInit, ContextTypeOK

-----------------------------------------------------------------------------
(* The three parts side by side: a step is of one of them.                 *)
KnowledgeInv ==
    /\ CountInv /\ BackupTypeOK
    /\ ContextInv /\ ContextTypeOK
    /\ RetrievalTypeOK /\ BetterRanksFirst

LEMMA KnowledgeBegins ==
    ASSUME MCInit
    PROVE  KnowledgeInv
<1>1. BInit /\ ContextInit /\ RetrievalInit
  BY DEF MCInit
<1> QED  BY <1>1, CountsBegin, BackupsTypedFirst, ContextBegins, ContextsTypedFirst, SearchesBegin
         DEF KnowledgeInv

LEMMA KnowledgeKeeps ==
    ASSUME KnowledgeInv, [MCNext]_<<part, bvars, cvars, rvars>>
    PROVE  KnowledgeInv'
<1>1. [BNext]_bvars /\ [ContextNext]_cvars /\ [RetrievalNext]_rvars
  <2>1. CASE part = "memory" /\ Next /\ UNCHANGED <<part, file, day, backups, cvars, rvars>>
    BY <2>1 DEF BNext
  <2> QED  BY <2>1 DEF MCNext
<1> QED  BY <1>1, CountsKeep, BackupsTyped, ContextKeeps, ContextsTyped, SearchesAreSound
         DEF KnowledgeInv

(* The type of the whole state: every row that is stored, distilled, backed *)
(* up or restored is a row, no id, count or citation passes its bound, and  *)
(* what a context or a request knows is of files there are.                *)
THEOREM KnowledgeTypes == MCSpec => []KnowledgeTypeOK
<1>1. KnowledgeInv => KnowledgeTypeOK
  BY DEF KnowledgeInv, KnowledgeTypeOK
<1> QED  BY KnowledgeBegins, KnowledgeKeeps, <1>1, PTL DEF MCSpec
=============================================================================
