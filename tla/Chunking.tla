------------------------------- MODULE Chunking -----------------------------
(***************************************************************************)
(* get_chunker (semfs-core/src/indexer/chunker/mod.rs) and the chunker it  *)
(* chooses. Text extensions and those of likely texts go to the text       *)
(* chunker, code extensions to the code chunker; other files have words in *)
(* the index and no chunks.                                                *)
(***************************************************************************)
EXTENDS TextChunker, CodeChunker

chunkVars == <<phase, chunks, textVars, codeVars>>

ChunkingInit == phase = "choose" /\ chunks = << >> /\ NoText /\ NoCode

\* A file that is no code has no tree.
GetChunker ==
  /\ phase = "choose"
  /\ \/ (GrowTree \/ BeginCode) /\ UNCHANGED textVars
     \/ tree = << >> /\ BeginText /\ UNCHANGED codeVars
     \/ tree = << >> /\ phase' = "done" /\ UNCHANGED <<chunks, textVars, codeVars>>

ChunkingNext ==
  \/ GetChunker
  \/ TextStep /\ UNCHANGED codeVars
  \/ CodeStep /\ UNCHANGED textVars

ChunkingSpec == ChunkingInit /\ [][ChunkingNext]_chunkVars

ChunkingTypeOK == ChunksTypeOK /\ TextTypeOK /\ CodeTypeOK
=============================================================================
