-------------------------- MODULE MCIndexPipeline ---------------------------
(* Small instances of IndexPipeline for TLC. *)
EXTENDS IndexPipeline
CONSTANTS a, b
ThreeAndTwo == [f \in File |-> IF f = a THEN 3 ELSE 2]
OneEach == [f \in File |-> 1]
=============================================================================
