------------------------------- MODULE Search -------------------------------
(***************************************************************************)
(* HybridRetriever::search (semfs-core/src/retriever/hybrid.rs) with its   *)
(* KeywordRetriever, SemanticRetriever and reciprocal_rank_fusion. One     *)
(* search takes the stores' locks once per statement, so an index run may  *)
(* replace a file between any two of its steps. Replacing a file removes   *)
(* its row and inserts one with a new id (pipeline.rs:233-242); vectors of *)
(* old ids may be found, words of old ids may not.                         *)
(*                                                                         *)
(* Scores are in millionths. What a store finds is a choice: a keyword     *)
(* score is any of Scores, the two orders are any.                         *)
(***************************************************************************)
EXTENDS Integers, Sequences, FiniteSets, Functions

CONSTANTS IndexedPath,   \* the files
          Scores,        \* what a keyword match may score
          TopK,          \* the results wanted
          MaxReplaced    \* bound: files replaced during a search

ASSUME SearchAssumption ==
  /\ IsFiniteSet(IndexedPath) /\ Scores \subseteq Nat
  /\ TopK \in Nat \ {0} /\ MaxReplaced \in Nat

Unit == 1000000
K == 60
Id == 1..(Cardinality(IndexedPath) + MaxReplaced)
Limit == TopK * 3

VARIABLES
  pathOf,    \* every id ever given -> the path of its row
  live,      \* the ids whose row is there
  pc,
  filtered,  \* the query has metadata filters
  valid,     \* filtered_ids
  keyword, semantic, fused,   \* lists of [id, score], best first
  results    \* list of [id, path, score]

queryVars == <<filtered, valid, keyword, semantic>>
vars == <<pathOf, live, pc, filtered, valid, keyword, semantic, fused, results>>

Ids(list) == {list[i].id : i \in 1..Len(list)}
Distinct(list) == \A i, j \in 1..Len(list) : list[i].id = list[j].id => i = j
Ranked(list) == \A i, j \in 1..Len(list) : i <= j => list[i].score >= list[j].score

TypeOK ==
  /\ pathOf \in [DOMAIN pathOf -> IndexedPath] /\ DOMAIN pathOf \subseteq Id
  /\ live \subseteq DOMAIN pathOf
  /\ pc \in {"idle", "keyword", "semantic", "fuse", "resolve", "sort"}
  /\ filtered \in BOOLEAN /\ valid \subseteq DOMAIN pathOf
  /\ \A list \in {keyword, semantic, fused} :
       /\ Ids(list) \subseteq DOMAIN pathOf /\ Distinct(list) /\ Ranked(list)
       /\ \A i \in 1..Len(list) : list[i].score \in Nat
  /\ Len(fused) <= TopK /\ Len(results) <= TopK

Init ==
  /\ pathOf \in Bijection(1..Cardinality(IndexedPath), IndexedPath)
  /\ live = DOMAIN pathOf
  /\ pc = "idle" /\ filtered = FALSE /\ valid = {}
  /\ keyword = << >> /\ semantic = << >> /\ fused = << >> /\ results = << >>

-----------------------------------------------------------------------------
Goto(step) == pc' = step

\* The lists of at most n different ids of S, best first.
Lists(S, scores, n) ==
  {list \in UNION {[1..k -> [id : S, score : scores]] : k \in 0..n} :
     Distinct(list) /\ Ranked(list)}

Least(a, b) == IF a < b THEN a ELSE b

\* 1 / (k + rank + 1), rank counted from 0.
WeightUnranked(rank) == Unit \div (K + 1)
Weight(rank) == Unit \div (K + rank + 1)

Rank(list, id) == (CHOOSE i \in 1..Len(list) : list[i].id = id) - 1

\* What reciprocal_rank_fusion gives one id.
InList(list, id) == IF id \in Ids(list) THEN Weight(Rank(list, id)) ELSE 0
Fusion(a, b, id) == InList(a, id) + InList(b, id)

FusionsUnmerged(a, b) ==
  LET hits == a \o b
  IN  {[i \in 1..Len(hits) |-> [id |-> hits[i].id, score |-> Fusion(a, b, hits[i].id)]]}

AnyOrder(at, score) == TRUE
BestFirst(at, score) == \A i, j \in DOMAIN at : i <= j => score[at[i]] >= score[at[j]]

\* The fused lists: sorted by score, equal scores in any order.
Fusions(a, b) ==
  LET ids == Ids(a) \cup Ids(b)
      score == [id \in ids |-> Fusion(a, b, id)]
      orders == {at \in Bijection(1..Cardinality(ids), ids) : BestFirst(at, score)}
  IN  {[i \in DOMAIN at |-> [id |-> at[i], score |-> score[at[i]]]] : at \in orders}

\* The relevance threshold: half of a strong best score, or 0.02.
MinScore(top) == IF top > 100000 THEN top \div 2 ELSE 20000

-----------------------------------------------------------------------------
\* filter_by selects among the rows that are there.
FilteredIds == SUBSET live

\* A query, and the ids that satisfy its filters.
Begin ==
  /\ pc = "idle" /\ Goto("keyword")
  /\ filtered' \in BOOLEAN
  /\ IF filtered' THEN valid' \in FilteredIds ELSE valid' = {}
  /\ UNCHANGED <<pathOf, live, keyword, semantic, fused, results>>

\* search_fts; a query without words finds nothing.
KeywordSearch ==
  /\ pc = "keyword" /\ Goto("semantic")
  /\ keyword' \in Lists(live, Scores, Least(Limit, Cardinality(live)))
  /\ UNCHANGED <<pathOf, live, filtered, valid, semantic, fused, results>>

\* The vectors of every id may still be there; without an embedder, none is.
SemanticSearch ==
  /\ pc = "semantic" /\ Goto("fuse")
  /\ semantic' \in Lists(DOMAIN pathOf, {Unit}, Least(Limit, Cardinality(DOMAIN pathOf)))
  /\ UNCHANGED <<pathOf, live, filtered, valid, keyword, fused, results>>

\* take(top_k)
Cut(list) == SubSeq(list, 1, Least(TopK, Len(list)))

\* The elements of a list at positions S, in their order.
Nth(S, k) == CHOOSE i \in S : Cardinality({j \in S : j <= i}) = k
Sub(list, S) == [k \in 1..Cardinality(S) |-> list[Nth(S, k)]]

\* retain(filtered_ids), and retain(min_score).
Passes(id) == filtered => id \in valid

Fuse ==
  /\ pc = "fuse" /\ Goto("resolve")
  /\ \E list \in IF semantic = << >> THEN {keyword} ELSE Fusions(semantic, keyword) :
       LET in == Sub(list, {i \in DOMAIN list : Passes(list[i].id)})
       IN  fused' = Cut(Sub(in, {i \in DOMAIN in : in[i].score >= MinScore(in[1].score)}))
  /\ UNCHANGED <<pathOf, live, queryVars, results>>

\* get_file of the next result: an id without a row is left out.
HasRow(id) == id \in live

Resolve ==
  /\ pc = "resolve" /\ fused # << >>
  /\ fused' = Tail(fused)
  /\ results' = IF HasRow(Head(fused).id)
                THEN Append(results, [id |-> Head(fused).id, score |-> Head(fused).score,
                                      path |-> pathOf[Head(fused).id]])
                ELSE results
  /\ UNCHANGED <<pathOf, live, pc, queryVars>>

\* Sorting by relevance leaves the results, by name or by date reorders them.
SortResults ==
  /\ pc = "resolve" /\ fused = << >> /\ Goto("sort")
  /\ \E at \in Bijection(1..Len(results), 1..Len(results)) :
       results' = [i \in 1..Len(results) |-> results[at[i]]]
  /\ UNCHANGED <<pathOf, live, queryVars, fused>>

\* The caller has the results, or an error; nothing of the search is left.
EndsSearch ==
  /\ Goto("idle") /\ filtered' = FALSE /\ valid' = {}
  /\ keyword' = << >> /\ semantic' = << >> /\ results' = << >>
  /\ UNCHANGED <<pathOf, live, fused>>

Return == pc = "sort" /\ EndsSearch

\* The `?` of the two searches. The filter's leaves nothing to forget.
SearchFails == pc \in {"keyword", "semantic"} /\ EndsSearch

-----------------------------------------------------------------------------
\* An index run removes the row of a changed file, and inserts its new one.
Remove ==
  /\ \E id \in live : live' = live \ {id}
  /\ UNCHANGED <<pathOf, pc, queryVars, fused, results>>

ReuseFree(id) == id \notin live

\* The row of the old content is deleted before the new one is inserted, and
\* the path of a row is UNIQUE.
PathFree(p) == \A id \in live : pathOf[id] # p
IsNextId(id) == id = Cardinality(DOMAIN pathOf) + 1

Insert ==
  /\ \E id \in Id, p \in IndexedPath :
       /\ IsNextId(id) /\ PathFree(p)
       /\ pathOf' = [i \in DOMAIN pathOf \cup {id} |-> IF i = id THEN p ELSE pathOf[i]]
       /\ live' = live \cup {id}
  /\ UNCHANGED <<pc, queryVars, fused, results>>

Next ==
  \/ Begin \/ KeywordSearch \/ SemanticSearch \/ Fuse \/ Resolve \/ SortResults \/ Return
  \/ SearchFails \/ Remove \/ Insert

Spec == Init /\ [][Next]_vars

-----------------------------------------------------------------------------
(* No file is listed twice, although a file that is replaced during the    *)
(* search is known by two ids and each of the two searches may find it: an *)
(* id is fused once, and a path has one row (rrf.rs:12-18, hybrid.rs:96).  *)
NoFileTwice ==
  \A i, j \in 1..Len(results) : results[i].path = results[j].path => i = j

(* A result is a file that one of the searches found under that very id,   *)
(* and that satisfied the filters, however the index changed since: an id  *)
(* is never given to another file (hybrid.rs:44-76, sqlite.rs:90-110).     *)
ResultsAreFound ==
  \A i \in 1..Len(results) :
    LET r == results[i] IN
    /\ r.id \in Ids(keyword) \cup Ids(semantic)
    /\ pathOf[r.id] = r.path
    /\ filtered => r.id \in valid

(* A file that every search with an answer ranks above another comes before*)
(* it in the end: fusion, filters, the threshold and the cut never turn a  *)
(* unanimous order round, with equal scores in any order of a hash map     *)
(* (rrf.rs:3-21, hybrid.rs:66-91).                                         *)
RankedAbove(list, x, y) ==
  x \in Ids(list) /\ (y \in Ids(list) => Rank(list, x) < Rank(list, y))

UnanimityKept ==
  \A i, j \in 1..Len(fused) :
    (\A list \in {keyword, semantic} :
       list # << >> => RankedAbove(list, fused[i].id, fused[j].id)) => i < j

-----------------------------------------------------------------------------
(* hybrid.rs:80-81: for fused results, keep those within 50% of the top    *)
(* score; so fusion alone never drops a result as good as half the best.   *)
FusedKeptRelative ==
  [][pc = "fuse" /\ semantic # << >> /\ ~filtered =>
       \A id \in Ids(keyword) \cup Ids(semantic) :
         (\A j \in Ids(keyword) \cup Ids(semantic) :
            2 * Fusion(semantic, keyword, id) >= Fusion(semantic, keyword, j))
         => id \in Ids(fused') \/ Len(fused') = TopK]_vars
=============================================================================
