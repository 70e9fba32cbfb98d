---------------------------- MODULE MCSemanticFs ----------------------------
(* Small instances of SemanticFs for TLC. *)
EXTENDS SemanticFs
CONSTANTS dx, rx, ry, q, x, y

BaseValue == [p \in SourcePath |-> IF p = ry THEN y ELSE x]
RootValue == [w \in Word \ {q} |-> IF w = y THEN ry ELSE rx]

\* A query finds two files of one name, another file, or nothing; a name is
\* sometimes a query that finds its own file.
TwoNamesakes == [s \in SemPath |-> IF s = <<q>> THEN {dx, rx} ELSE {}]
OtherFile    == [s \in SemPath |-> IF s = <<q>> THEN {rx, ry} ELSE {}]
NameIsQuery  == [s \in SemPath |-> IF s \in {<<q>>, <<x>>} THEN {dx} ELSE {}]
Narrower     == [s \in SemPath |-> IF s \in {<<q>>, <<q, x>>} THEN {dx} ELSE {}]
FindsValue   == {TwoNamesakes, OtherFile, NameIsQuery, Narrower}
=============================================================================
