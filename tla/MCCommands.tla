----------------------------- MODULE MCCommands -----------------------------
(* Small instances of Commands for TLC. *)
EXTENDS Commands, TLC
CONSTANTS a, b, p1, p2, bge, e5
LengthValue == [m \in Model |-> IF m = bge THEN 2 ELSE 1]
PreferenceValue == <<bge, e5>>
KeyValue == {"dims", "alpha"}
ValueValue == [k \in Key |-> {1, 2}]
DefaultValue == [k \in Key |-> 1]
Alike == Permutations({a, b}) \cup Permutations({p1, p2})
=============================================================================
