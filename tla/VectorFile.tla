----------------------------- MODULE VectorFile -----------------------------
(***************************************************************************)
(* LanceStore (semfs-storage/src/lance.rs) with its dimensions. vectors.bin*)
(* records for how many dimensions it was written; a process that opens the*)
(* store for another number starts empty, and its first save overwrites the*)
(* file. IndexStore has the same file for one number of dimensions and     *)
(* shows the steps of a save; here a save is one step.                     *)
(***************************************************************************)
EXTENDS Naturals

CONSTANTS Model,     \* embedding models
          Length     \* model -> the length of its vectors

ASSUME LengthAssumption == Length \in [Model -> Nat \ {0}]

VARIABLE vfile       \* the store in vectors.bin

\* A vector: the row it belongs to and the model that made it.
Vector == [id : Nat \ {0}, by : Model]
Store == [dims : Nat, vectors : SUBSET Vector]

\* No file, or one that does not parse. No store is opened for 0 dimensions.
Unwritten == [dims |-> 0, vectors |-> {}]

Empty(d) == [dims |-> d, vectors |-> {}]

\* LanceStore::new
OpenedNothing(d) == Empty(d)
OpenedUnchecked(d) == [dims |-> d, vectors |-> vfile.vectors]
Opened(d) == IF vfile.dims = d THEN vfile ELSE Empty(d)

\* delete_by_file, in memory
WithoutAll(s, id) == Empty(s.dims)
Without(s, id) == [s EXCEPT !.vectors = {v \in @ : v.id # id}]

\* insert refuses a whole batch for one vector of another length.
Fits(s, batch) == \A v \in batch : Length[v.by] = s.dims
With(s, batch) == [s EXCEPT !.vectors = @ \cup batch]

\* save_to_disk. An error before the file is truncated leaves it as it was.
Save(s) == vfile' = s
SaveFails == vfile' \in {vfile, Unwritten}
=============================================================================
