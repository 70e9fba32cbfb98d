------------------------------- MODULE Chunks -------------------------------
(***************************************************************************)
(* What a Chunker returns (semfs-core/src/indexer/chunker/traits.rs): a    *)
(* vector of chunks, each with the index of its parent. Indices start at 1 *)
(* here, and 0 is None. The content of a chunk is a set of lines of a text *)
(* or of nodes of a syntax tree; the empty set is a blank content, which   *)
(* is stored but never embedded (pipeline.rs:264).                         *)
(***************************************************************************)
EXTENDS Integers, Sequences, SequencesExt, Ordering

VARIABLES phase,   \* where the call of chunk() is
          chunks   \* the chunks so far

ChunkPhase == {"choose", "lines", "nodes", "done"}
ChunkType == {"File", "Module", "Class", "Function", "Section", "Paragraph"}

ChunkData(type, content, parent) ==
  [type |-> type, content |-> content, parent |-> parent]

ChunksTypeOK ==
  /\ phase \in ChunkPhase
  /\ \A i \in 1..Len(chunks) :
       /\ chunks[i].type \in ChunkType
       /\ chunks[i].parent \in 0..(i - 1)
=============================================================================
