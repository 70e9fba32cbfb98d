------------------------------ MODULE WalStore ------------------------------
(***************************************************************************)
(* WalStore (semfs-storage/src/wal.rs): the SQLite table wal_entries. Every *)
(* call is one statement under the connection's mutex with synchronous =   *)
(* FULL, so it is one atomic and durable step. The operators below are the *)
(* calls; WriteHandler composes them with the file system.                 *)
(*                                                                         *)
(* The payload of a write is not stored (wal.rs:128-132), so an operation  *)
(* of kind "write" carries only its path. Timestamps are not kept: they    *)
(* are wall-clock readings that no call but cleanup_completed compares.    *)
(***************************************************************************)
EXTENDS Integers, FiniteSets

CONSTANT Path       \* the files of the indexed directory

VARIABLES wal,      \* id -> row of wal_entries
          nextId    \* the AUTOINCREMENT sequence: ids are never reused

walVars == <<wal, nextId>>

Operation == [kind : {"move", "copy"}, src : Path, dst : Path]
               \cup [kind : {"delete", "write"}, src : Path]

Status == {"pending", "executing", "completed", "failed"}

WalTypeOK ==
  /\ nextId \in Nat \ {0}
  /\ DOMAIN wal \subseteq 1..(nextId - 1)
  /\ wal \in [DOMAIN wal -> [op : Operation, status : Status]]

WalInit == wal = << >> /\ nextId = 1

LogOperation(op) ==
  /\ wal' = [i \in DOMAIN wal \cup {nextId} |->
               IF i = nextId THEN [op |-> op, status |-> "pending"] ELSE wal[i]]
  /\ nextId' = nextId + 1

SetStatus(i, s) ==
  /\ wal' = [wal EXCEPT ![i].status = s]
  /\ UNCHANGED nextId

MarkExecuting(i) == SetStatus(i, "executing")
MarkCompleted(i) == SetStatus(i, "completed")
MarkFailed(i)    == SetStatus(i, "failed")

\* The rows recover_pending selects; its ORDER BY id is the caller's order.
Open == {i \in DOMAIN wal : wal[i].status \in {"pending", "executing"}}

\* Which completed rows are older than the cutoff depends on the wall clock
\* only, so any set S of them may be.
CleanupCompleted(S) ==
  /\ \A i \in S : wal[i].status = "completed"
  /\ wal' = [i \in DOMAIN wal \ S |-> wal[i]]
  /\ UNCHANGED nextId
=============================================================================
