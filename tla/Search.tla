------------------------------- MODULE Search -------------------------------
(* hybrid_search and ahybrid_search (embedder/search.py): which points of a  *)
(* collection that changes are returned, and in which order. A score is a    *)
(* number per point; what Qdrant does with a query is taken from the shape   *)
(* of the query the code sends.                                             *)
EXTENDS Integers, Sequences, FiniteSets, SequencesExt

CONSTANTS
  Points,
  Scores,       \* the score functions that may occur, dense and sparse and colbert
  K,            \* Qdrant's constant of reciprocal rank fusion
  MaxLimit      \* bound on the three limits of a query

ASSUME ScoresAssumption == Scores \subseteq [Points -> Nat]
ASSUME LimitAssumption  == K \in Nat \ {0} /\ MaxLimit \in Nat \ {0}

VARIABLES
  dense, sparse, colbert,  \* the scores of the points for the query
  collection,              \* the points of the collection
  last                     \* the query that was answered last

searchVars == <<dense, sparse, colbert, collection, last>>

Queries == [limit : 1..MaxLimit, prefetch_limit : 1..MaxLimit,
            fusion_limit : 1..MaxLimit, rerank : BOOLEAN]

------------------------------------------------------------------------------
(* Qdrant's query_points. *)

Smaller(a, b) == IF a < b THEN a ELSE b
First(s, n)   == SubSeq(s, 1, Smaller(n, Len(s)))

(* The rankings of S by a score; equal scores may come in any order. *)
Rankings(S, score(_)) ==
  {r \in SetToSeqs(S) : \A i, j \in DOMAIN r : i < j => score(r[i]) >= score(r[j])}

Ranks    == K..(K + Cardinality(Points))
Multiple == FoldSet(LAMBDA a, b : a * b, 1, Ranks)

(* 1 / (K + rank) from each list the point is in, times Multiple. *)
Reciprocal(p, r) ==
  LET at == {i \in DOMAIN r : r[i] = p}
  IN IF at = {} THEN 0 ELSE Multiple \div (K + (CHOOSE i \in at : TRUE) - 1)

(* The lists that RRF may make of two lists. *)
Fusions(a, b) ==
  LET Fused(p) == Reciprocal(p, a) + Reciprocal(p, b)
  IN Rankings(ToSet(a) \union ToSet(b), Fused)

------------------------------------------------------------------------------
(* The query. *)

Prefetches(C, score, n) ==
  LET Score(p) == score[p] IN {First(r, n) : r \in Rankings(C, Score)}

(* A sparse query finds only points that share a term with it. *)
Matching(C) == {p \in C : sparse[p] > 0}

(* The lists that the two prefetches give together. *)
Candidates(C, q) ==
  UNION {Fusions(a, b) : a \in Prefetches(C, dense, q.prefetch_limit),
                         b \in Prefetches(Matching(C), sparse, q.prefetch_limit)}

(* DEFECT: the fused list is cut to `limit` before the rerank. *)
hybrid_search_cut(C, q) ==
  LET Colbert(p) == colbert[p]
      Page(f) == IF q.rerank THEN Rankings(ToSet(First(f, q.limit)), Colbert)
                             ELSE {First(f, q.limit)}
  IN UNION {Page(f) : f \in Candidates(C, q)}

(* With a rerank: the first fusion_limit of the fused list by colbert score; *)
(* else the fused list. In both cases the first `limit` of it.               *)
hybrid_search(C, q) ==
  LET Colbert(p) == colbert[p]
      Page(f) == IF q.rerank
                   THEN {First(r, q.limit) : r \in Rankings(ToSet(First(f, q.fusion_limit)), Colbert)}
                   ELSE {First(f, q.limit)}
  IN UNION {Page(f) : f \in Candidates(C, q)}

(* The same query through the asynchronous client, the vectors made in a     *)
(* thread.                                                                  *)
ahybrid_search(C, q) == hybrid_search(C, q)

------------------------------------------------------------------------------
None == [query |-> "none"]

SearchInit ==
  /\ dense \in Scores /\ sparse \in Scores /\ colbert \in Scores
  /\ collection = {} /\ last = None

(* embed adds points, deletions of chunks remove them. *)
IndexPoint(p)  == collection' = collection \union {p} /\ last' = None
RemovePoint(p) == p \in collection /\ collection' = collection \ {p} /\ last' = None

Answer(q) ==
  /\ \E hits \in hybrid_search(collection, q) \union ahybrid_search(collection, q) :
       last' = [query |-> q, hits |-> hits]
  /\ UNCHANGED collection

SearchNext ==
  /\ \/ \E p \in Points : IndexPoint(p) \/ RemovePoint(p)
     \/ last = None /\ \E q \in Queries : Answer(q)
  /\ UNCHANGED <<dense, sparse, colbert>>

SearchSpec == SearchInit /\ [][SearchNext]_searchVars

------------------------------------------------------------------------------
(* Limits that cover the collection make the two stages of the search        *)
(* invisible: the result is the best `limit` points by colbert score.        *)
RerankIsExact ==
  last # None /\ last.query.rerank
  /\ last.query.prefetch_limit >= Cardinality(collection)
  /\ last.query.fusion_limit >= Cardinality(collection) =>
    LET hits == last.hits IN
    /\ Len(hits) = Smaller(last.query.limit, Cardinality(collection))
    /\ \A i \in DOMAIN hits : \A p \in collection :
         colbert[p] > colbert[hits[i]] => \E j \in 1..i - 1 : hits[j] = p

(* A larger limit only adds hits at the end, whichever of the two functions  *)
(* is asked: the stages before the last one do not depend on it.            *)
LargerLimitExtends ==
  last # None /\ last.query.limit < MaxLimit =>
    \E more \in ahybrid_search(collection, [last.query EXCEPT !.limit = @ + 1]) :
      IsPrefix(last.hits, more)
=============================================================================
