------------------------------ MODULE MCSearch ------------------------------
(* Small instances of Search for TLC. *)
EXTENDS Search, TLC
CONSTANTS a, b, c

\* No path differs from another but by its name.
Alike == Permutations(IndexedPath)
=============================================================================
