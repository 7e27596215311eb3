----------------------------- MODULE CodeIndex -----------------------------
(***************************************************************************)
(* The code index of the RLM service: the rows that ingestion cuts a       *)
(* source file into (rlm_chunks in PostgreSQL) and the dependency graph    *)
(* derived from the rows (Valkey).  Every request runs in a thread of its  *)
(* own and may ingest the file while it is edited and while other requests *)
(* ingest it or rebuild the graph.                                         *)
(*                                                                         *)
(* One file; ingest_directory takes the files one after the other, and no  *)
(* step reads two of them.  A chunk is the set of symbols it calls, a row  *)
(* is keyed by the symbol and its first line (a place), and the sha256 of  *)
(* a file is the version it is of.  Embeddings and ranking are left out.   *)
(***************************************************************************)
EXTENDS Naturals, FiniteSets

CONSTANTS
    Symbols,    \* names of functions and classes
    Places,     \* symbol and line: the key of a row
    Versions,   \* contents the file may have
    Chunks,     \* per version: the chunk at each place that has one
    Requests,   \* threads of the service
    Missing     \* a key that is not in Valkey

ASSUME IndexAssumption ==
    /\ Places \subseteq Symbols \X Nat
    /\ Chunks \in [Versions -> UNION {[S -> SUBSET Symbols] : S \in SUBSET Places}]
    /\ \A S \in SUBSET Symbols : S # Missing

VARIABLES
    source,     \* the version on disk
    rows,       \* rlm_chunks: a partial function on Places
    graph,      \* Valkey: the callees of a symbol, or Missing
    request     \* what each thread is doing

ivars == <<source, rows, graph, request>>

Kinds == {"search", "query", "reindex", "forced", "rebuild"}
Waiting == [pc |-> "idle"]

Row == [chunk : SUBSET Symbols, sha : Versions, dependents : SUBSET Symbols]
RowSets == UNION {[S -> Row] : S \in SUBSET Places}
GraphType == UNION {[S -> SUBSET Symbols] : S \in SUBSET Symbols}

RequestState ==
    {Waiting, [pc |-> "read"]}
        \cup [pc : {"check", "hash"}, kind : Kinds]
        \cup [pc : {"chunk"}, kind : Kinds, sha : Versions]
        \cup [pc : {"upsert"}, kind : Kinds, sha : Versions, chunks : {Chunks[v] : v \in Versions}]
        \cup [pc : {"store", "dependents"}, built : GraphType, left : SUBSET Symbols]

IndexTypeOK ==
    /\ source \in Versions
    /\ rows \in RowSets
    /\ graph \in [Symbols -> (SUBSET Symbols) \cup {Missing}]
    /\ request \in [Requests -> RequestState]

IndexInit ==
    /\ source \in Versions
    /\ rows = << >>
    /\ graph = [s \in Symbols |-> Missing]
    /\ request = [r \in Requests |-> Waiting]

----------------------------------------------------------------------------
(* What is read and what is derived.                                       *)

Goes(r, s) == request' = [request EXCEPT ![r] = s]
At(r, pc) == request[r].pc = pc
Nodes(R) == {p[1] : p \in DOMAIN R}

\* build_graph_from_pg: the calls in the rows, to symbols that have a row.
GraphOf(R) ==
    [s \in Nodes(R) |->
        ((UNION {R[p].chunk : p \in {q \in DOMAIN R : q[1] = s}}) \cap Nodes(R)) \ {s}]

CallersIn(G, s) == {c \in DOMAIN G : s \in G[c]}

\* Faulty variant: ON CONFLICT DO NOTHING.
Upserted_DoNothing(R, chunks, sha) ==
    [p \in DOMAIN R \cup DOMAIN chunks |->
        IF p \in DOMAIN R THEN R[p]
        ELSE [chunk |-> chunks[p], sha |-> sha, dependents |-> {}]]

\* The rows of a file's chunks are written; no row is ever deleted.
Upserted(R, chunks, sha) ==
    [p \in DOMAIN R \cup DOMAIN chunks |->
        IF p \in DOMAIN chunks
        THEN [chunk |-> chunks[p], sha |-> sha, dependents |-> {}]
        ELSE R[p]]

----------------------------------------------------------------------------
(* A request.  Without PostgreSQL none of this runs: searches scan the     *)
(* files themselves.                                                       *)

\* /search, /query, /reindex with and without force; the start of the
\* service rebuilds the graph in a thread.
Begin(r, kind) ==
    /\ request[r] = Waiting
    /\ Goes(r, CASE kind = "rebuild" -> [pc |-> "read"]
                 [] kind = "forced" -> [pc |-> "hash", kind |-> kind]
                 [] OTHER -> [pc |-> "check", kind |-> kind])
    /\ UNCHANGED <<source, rows, graph>>

\* The row that SELECT ... LIMIT 1 returns is any one of the file.
Stale(p) == rows[p].sha # source

\* What follows ingestion: /search and an uneventful /query answer at once.
AfterIngest(r, inserted) ==
    IF request[r].kind \in {"reindex", "forced"} \/ (request[r].kind = "query" /\ inserted)
    THEN Goes(r, [pc |-> "read"])
    ELSE Goes(r, Waiting)

\* is_stale: the file is hashed and then the row is selected.  No step of
\* another thread between the two makes a difference that one before or
\* after them does not.
FindsStale(r) ==
    /\ At(r, "check")
    /\ DOMAIN rows = {} \/ \E p \in DOMAIN rows : Stale(p)
    /\ Goes(r, [pc |-> "hash", kind |-> request[r].kind])
    /\ UNCHANGED <<source, rows, graph>>

Skip(r) ==
    /\ At(r, "check")
    /\ \E p \in DOMAIN rows : ~ Stale(p)
    /\ AfterIngest(r, FALSE)
    /\ UNCHANGED <<source, rows, graph>>

\* The file is read once for its hash ...
Hash(r) ==
    /\ At(r, "hash")
    /\ Goes(r, [pc |-> "chunk", kind |-> request[r].kind, sha |-> source])
    /\ UNCHANGED <<source, rows, graph>>

\* ... and once more for its chunks.  A file without any is skipped.
Chunk(r) ==
    /\ At(r, "chunk")
    /\ IF Chunks[source] = << >> THEN AfterIngest(r, FALSE)
       ELSE Goes(r, [pc |-> "upsert", kind |-> request[r].kind,
                     sha |-> request[r].sha, chunks |-> Chunks[source]])
    /\ UNCHANGED <<source, rows, graph>>

\* One transaction for all chunks.
UpsertChunks(r) ==
    /\ At(r, "upsert")
    /\ rows' = Upserted(rows, request[r].chunks, request[r].sha)
    /\ AfterIngest(r, TRUE)
    /\ UNCHANGED <<source, graph>>

\* A failed ingestion is an entry in the statistics, no more.
IngestFails(r) ==
    /\ request[r].pc \in {"hash", "chunk", "upsert"}
    /\ AfterIngest(r, FALSE)
    /\ UNCHANGED <<source, rows, graph>>

----------------------------------------------------------------------------
(* rebuild_graph, in whichever thread asks for it.                         *)

\* The rows are read once.
ReadRows(r) ==
    /\ At(r, "read")
    /\ LET G == GraphOf(rows)
       IN  Goes(r, [pc |-> IF DOMAIN G = {} THEN "dependents" ELSE "store",
                    built |-> G, left |-> DOMAIN G])
    /\ UNCHANGED <<source, rows, graph>>

Stored(r, left) ==
    Goes(r, [pc |-> IF left = {} THEN "dependents" ELSE "store",
             built |-> request[r].built, left |-> left])

\* One key after the other; nothing is deleted.
StoreNode(r) ==
    /\ At(r, "store")
    /\ \E s \in request[r].left :
          /\ graph' = [graph EXCEPT ![s] = request[r].built[s]]
          /\ Stored(r, request[r].left \ {s})
    /\ UNCHANGED <<source, rows>>

\* Without Valkey no key is stored; a key that cannot be set is skipped.
StoreFails(r) ==
    /\ At(r, "store")
    /\ \E lost \in (SUBSET request[r].left) \ {{}} : Stored(r, request[r].left \ lost)
    /\ UNCHANGED <<source, rows, graph>>

\* The reverse pass.  A symbol without callers keeps the ones it had.
UpdateDependents(r) ==
    /\ At(r, "dependents")
    /\ LET G == request[r].built
       IN  rows' = [p \in DOMAIN rows |->
                       IF CallersIn(G, p[1]) # {}
                       THEN [rows[p] EXCEPT !.dependents = CallersIn(G, p[1])]
                       ELSE rows[p]]
    /\ Goes(r, Waiting)
    /\ UNCHANGED <<source, graph>>

\* PostgreSQL is lost or the service ends: open transactions roll back.
RequestDies(r) ==
    /\ request[r] # Waiting
    /\ Goes(r, Waiting)
    /\ UNCHANGED <<source, rows, graph>>

----------------------------------------------------------------------------
(* The surroundings.                                                       *)

\* Somebody edits the file, or takes an old version back.
Edit ==
    /\ \E v \in Versions \ {source} : source' = v
    /\ UNCHANGED <<rows, graph, request>>

\* Keys live for an hour.
Expire(s) ==
    /\ graph[s] # Missing
    /\ graph' = [graph EXCEPT ![s] = Missing]
    /\ UNCHANGED <<source, rows, request>>

IndexNext ==
    \/ \E r \in Requests :
          \/ \E kind \in Kinds : Begin(r, kind)
          \/ FindsStale(r) \/ Skip(r) \/ Hash(r) \/ Chunk(r) \/ UpsertChunks(r) \/ IngestFails(r)
          \/ ReadRows(r) \/ StoreNode(r) \/ StoreFails(r) \/ UpdateDependents(r)
          \/ RequestDies(r)
    \/ Edit
    \/ \E s \in Symbols : Expire(s)

IndexSpec == IndexInit /\ [][IndexNext]_ivars

----------------------------------------------------------------------------
(* Properties.                                                             *)

\* A forced /reindex writes its rows; some rebuild comes to its last key.
Reingested == \E r \in Requests : At(r, "upsert") /\ request[r].kind = "forced" /\ UpsertChunks(r)
Rebuilt ==
    \E r \in Requests :
        At(r, "store") /\ Cardinality(request[r].left) = 1 /\ StoreNode(r)

Current(p) ==
    p \in DOMAIN rows /\ rows[p].chunk = Chunks[source][p] /\ rows[p].sha = source

GraphCurrent ==
    \A s \in Nodes(rows) : graph[s] \in {Missing, GraphOf(rows)[s]}

Disturbed == Edit \/ \E r \in Requests : StoreFails(r)

\* Whatever slow ingestions and rebuilds wrote over newer ones: when the
\* edits end and Valkey stays, forced reindexing brings the rows of everything
\* in the file up to date for good, and rebuilds the graph with them.
IndexHeals ==
    <>[][~ Disturbed]_ivars /\ []<><<Reingested>>_ivars /\ []<><<Rebuilt>>_ivars
        => <>[](GraphCurrent /\ \A p \in DOMAIN Chunks[source] : Current(p))
=============================================================================
