----------------------------- MODULE IndexStore -----------------------------
(***************************************************************************)
(* The durable index: SqliteStore's tables files, files_fts and chunks     *)
(* (semfs-storage/src/sqlite.rs) and LanceStore's vectors.bin              *)
(* (semfs-storage/src/lance.rs). A call of SqliteStore holds its mutex and *)
(* is one step. A chunk, and the vector made from it, is a pair <<file id, *)
(* chunk index>>; the chunk_index stands for the chunk's own row id.       *)
(***************************************************************************)
EXTENDS Integers, FiniteSets

CONSTANTS File,      \* paths under the source root
          Torn       \* vectors.bin truncated or half written

VARIABLES rows,      \* file id -> its row of `files`: path and content hash
          nextFile,  \* the AUTOINCREMENT sequence of `files`
          fts,       \* rowids of files_fts
          chunks,    \* rows of `chunks`
          vbin       \* content of vectors.bin: a set of vectors, or Torn

storeVars == <<rows, nextFile, fts, chunks, vbin>>

StoreTypeOK ==
  /\ nextFile \in Nat \ {0}
  /\ DOMAIN rows \subseteq 1..(nextFile - 1)
  /\ rows \in [DOMAIN rows -> [path : File, hash : Nat]]
  /\ fts \subseteq 1..(nextFile - 1)
  /\ chunks \subseteq (1..(nextFile - 1)) \X Nat
  /\ vbin = Torn \/ vbin \subseteq (1..(nextFile - 1)) \X Nat

StoreInit ==
  rows = << >> /\ nextFile = 1 /\ fts = {} /\ chunks = {} /\ vbin = {}

RowsOf(f) == {i \in DOMAIN rows : rows[i].path = f}

\* The UNIQUE constraint on path is the caller's guard: RowsOf(f) = {}.
InsertFile(f, h) ==
  /\ rows' = [i \in DOMAIN rows \cup {nextFile} |->
                IF i = nextFile THEN [path |-> f, hash |-> h] ELSE rows[i]]
  /\ nextFile' = nextFile + 1
  /\ UNCHANGED <<fts, chunks, vbin>>

DeleteFileRowOnly(id) ==
  /\ rows' = [i \in DOMAIN rows \ {id} |-> rows[i]]
  /\ UNCHANGED <<fts, chunks, nextFile, vbin>>

\* One transaction, and foreign_keys = ON cascades to the chunks.
DeleteFile(id) ==
  /\ rows' = [i \in DOMAIN rows \ {id} |-> rows[i]]
  /\ fts' = fts \ {id}
  /\ chunks' = {c \in chunks : c[1] # id}
  /\ UNCHANGED <<nextFile, vbin>>

\* files_fts has no foreign key: the row need not exist.
IndexContent(id) == fts' = fts \cup {id} /\ UNCHANGED <<rows, nextFile, chunks, vbin>>

\* A chunk of a file that is gone violates the foreign key.
CanInsertChunk(id) == id \in DOMAIN rows
InsertChunk(id, k) ==
  chunks' = chunks \cup {<<id, k>>} /\ UNCHANGED <<rows, nextFile, fts, vbin>>

DeleteChunks(id) ==
  chunks' = {c \in chunks : c[1] # id} /\ UNCHANGED <<rows, nextFile, fts, vbin>>

\* load_from_disk: a file that does not parse is an empty store.
Loaded == IF vbin = Torn THEN {} ELSE vbin
=============================================================================
