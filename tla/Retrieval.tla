----------------------------- MODULE Retrieval -----------------------------
(***************************************************************************)
(* What is found again.  Two searches fuse a text ranking and a ranking by *)
(* the distance of embeddings with reciprocal ranks: hybrid_search over the *)
(* chunks of the code (src/services/rlm_search.py), inside one statement,   *)
(* and retrieve_similar over earlier invocations of a skill                 *)
(* (src/services/skill_invocation_store.py), in Python.  Either ranking may *)
(* leave a row out, and the embedding service or the database may fail.     *)
(* Scores are small numbers: only their order matters to a rank.            *)
(***************************************************************************)
EXTENDS Naturals, FiniteSets, Sequences, SequencesExt

CONSTANTS
    Rows,         \* chunks, or invocations of the skill
    Scores,       \* a set of numbers; 0 says no match, or no embedding
    Lines,        \* where a chunk begins
    candidate_k,  \* rows of a leg: RRF_CANDIDATE_K, _VECTOR_LIMIT, _BM25_LIMIT
    top_k,        \* rows of an answer
    rrf_k,        \* 60
    cosine_floor  \* of Scores

ASSUME RetrievalAssumption ==
    /\ IsFiniteSet(Rows) /\ Scores \subseteq Nat /\ Lines \subseteq Nat
    /\ {candidate_k, top_k, rrf_k} \subseteq Nat \ {0}

VARIABLES
    corpus,  \* for the query at hand: the text score, the similarity and the line of each row
    answer   \* of the last search, with the rows it could range over

rvars == <<corpus, answer>>

Corpora == [Rows -> [text : Scores, near : Scores, line : Lines]]
NoAnswer == [rows |-> << >>, scope |-> {}]

(* The type of the state.                                                  *)
RetrievalTypeOK ==
    /\ corpus \in Corpora
    /\ answer.scope \subseteq Rows /\ Len(answer.rows) <= top_k
    /\ ToSet(answer.rows) \subseteq answer.scope /\ IsInjective(answer.rows)

RetrievalInit == corpus \in Corpora /\ answer = NoAnswer

By(field, r) == corpus[r][field]
Leg(field, scope) == {r \in scope : By(field, r) > 0}

\* RANK() OVER (ORDER BY ...): equal rows share a rank.
Rank(field, leg, r) == 1 + Cardinality({q \in leg : By(field, q) > By(field, r)})

\* LIMIT: the best rows, any of those that are equal.
Cuts(field, leg) ==
    {cut \in SUBSET leg :
        /\ Cardinality(cut) = IF Cardinality(leg) < candidate_k THEN Cardinality(leg) ELSE candidate_k
        /\ \A r \in cut, q \in leg \ cut : By(field, r) >= By(field, q)}

\* Scores are fractions.
More(x, y) == x.num * y.den > y.num * x.den
Plus(x, y) == [num |-> x.num * y.den + y.num * x.den, den |-> x.den * y.den]
Reciprocal(rank) == [num |-> 1, den |-> rrf_k + rank]
None == [num |-> 0, den |-> 1]

\* The orders of a set in which no element stands behind one it goes before.
Orders(S, GoesBefore(_, _)) ==
    {p \in SetToSeqs(S) : \A i, j \in DOMAIN p : i < j => ~ GoesBefore(p[j], p[i])}

Best_Uncut(S, score, n) ==               \* mutant: no LIMIT
    Orders(S, LAMBDA r, q : More(score[r], score[q]))

\* The best n of a set by a score, equal ones in either order.
Best(S, score, n) ==
    {SubSeq(p, 1, IF Cardinality(S) < n THEN Cardinality(S) ELSE n) :
        p \in Orders(S, LAMBDA r, q : More(score[r], score[q]))}

TextScore(r) == [num |-> By("text", r), den |-> 1]
Answers(rows, scope) == answer' = [rows |-> rows, scope |-> scope] /\ UNCHANGED corpus

-----------------------------------------------------------------------------
(* hybrid_search                                                           *)

RankOr_First(field, leg, cut, r) ==      \* mutant: a row a leg does not have ranks 0 in it
    IF r \in cut THEN Rank(field, leg, r) ELSE 0

\* COALESCE: a row that a leg does not have ranks behind the last candidate.
RankOr(field, leg, cut, r) == IF r \in cut THEN Rank(field, leg, r) ELSE candidate_k + 1

\* position_decay: later chunks score up to 5 % lower.
Decayed(x, line, last) ==
    IF last = 0 THEN x ELSE [num |-> x.num * (20 * last - line), den |-> x.den * 20 * last]

\* Python sorts the rows of the statement again, and its sort is stable: there
\* is one such order.
Resorted(rows, score) ==
    LET last == CHOOSE l \in {By("line", r) : r \in ToSet(rows)} : \A r \in ToSet(rows) : By("line", r) <= l
        new == [r \in ToSet(rows) |-> Decayed(score[r], By("line", r), last)]
        Place(r) == CHOOSE i \in DOMAIN rows : rows[i] = r
        GoesBefore(r, q) == \/ More(new[r], new[q])
                            \/ ~ More(new[q], new[r]) /\ Place(r) < Place(q)
    IN  Orders(ToSet(rows), GoesBefore)

\* hybrid_search_generic, when the query has an embedding and the statement works.
Hybrid(scope) ==
    \E b \in Cuts("text", Leg("text", scope)), v \in Cuts("near", Leg("near", scope)) :
        LET score == [r \in b \cup v |->
                         Plus(Reciprocal(RankOr("text", Leg("text", scope), b, r)),
                              Reciprocal(RankOr("near", Leg("near", scope), v, r)))]
        IN  \E rows \in Best(b \cup v, score, top_k) : \E sorted \in Resorted(rows, score) :
                Answers(sorted, scope)

\* _generic_bm25_only, its fallback, and bm25_only_search: by text alone.
TextOnly(scope) ==
    \E rows \in Best(Leg("text", scope), [r \in Rows |-> TextScore(r)], top_k) : Answers(rows, scope)

\* The fallback of a search with a file filter: the filter names an alias the
\* statement does not have, so the search answers nothing.
FilteredFallback(scope) == Answers(<< >>, scope)

-----------------------------------------------------------------------------
(* retrieve_similar                                                        *)

\* A neighbour query: its rows in order, equal ones in either.
Neighbours(field, S) ==
    Best(S, [r \in S |-> [num |-> By(field, r), den |-> 1]], candidate_k)

\* The vector rows below the floor, which come last, are dropped before ranks
\* are counted.
AboveFloor(rows) ==
    SubSeq(rows, 1, Cardinality({i \in DOMAIN rows : By("near", rows[i]) >= cosine_floor}))

Share(rows, r) ==
    IF r \in ToSet(rows) THEN Reciprocal(CHOOSE i \in DOMAIN rows : rows[i] = r) ELSE None

\* _reciprocal_rank_fusion: a list that does not have a row adds nothing to it.
Fused(vector, text) ==
    [r \in ToSet(vector) \cup ToSet(text) |-> Plus(Share(vector, r), Share(text, r))]

\* Without an embedding of the query there is no vector list.
Similar(embedded) ==
    \E near \in Neighbours("near", IF embedded THEN Leg("near", Rows) ELSE {}),
       text \in Neighbours("text", Leg("text", Rows)) :
        LET score == Fused(AboveFloor(near), text)
        IN  \E rows \in Best(DOMAIN score, score, top_k) : Answers(rows, Rows)

\* The database does not answer: both searches return an empty list.
Unanswered(scope) == Answers(<< >>, scope)

RetrievalNext ==
    \/ \E scope \in SUBSET Rows : Hybrid(scope) \/ TextOnly(scope) \/ FilteredFallback(scope) \/ Unanswered(scope)
    \/ \E embedded \in BOOLEAN : Similar(embedded)

RetrievalSpec == RetrievalInit /\ [][RetrievalNext]_rvars

-----------------------------------------------------------------------------
\* However the two rankings disagree, tie, are cut off or leave rows out, and
\* whatever fails: a row that another one in scope beats by text and by
\* distance, without beginning before it, is never ahead of it in an answer,
\* nor in one that the other is missing from.
BetterRanksFirst ==
    \A j \in DOMAIN answer.rows : \A r \in answer.scope :
        LET q == answer.rows[j]
        IN  /\ By("text", r) > By("text", q) /\ By("near", r) > By("near", q)
            /\ By("line", r) <= By("line", q)
            => \E i \in 1..j - 1 : answer.rows[i] = r
=============================================================================
