--------------------------- MODULE MCWriteHandler ---------------------------
(* Small instances of WriteHandler for TLC. *)
EXTENDS WriteHandler

CONSTANTS a, b, report

\* Both files have the same base name: two directories hold a "report".
BaseValue == [p \in {a, b} |-> report]
=============================================================================
