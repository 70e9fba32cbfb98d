------------------------------- MODULE MCParts ------------------------------
(* Small instances of Chunking, QueryParser and Cache for TLC.             *)
EXTENDS Parts
CONSTANTS q1, q2, q3, q4, f1, f2, h1, t1, t2, t3, t4

\* The caches of queries and of texts do not see each other: a behaviour that
\* uses both shows nothing that two behaviours do not show.
OneCache == (\A q \in Query : lastUse[q] = -1) \/ (\A x \in Text : lastPut[x] = -1)

Alike == Permutations(Query)
=============================================================================
