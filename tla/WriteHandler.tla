---------------------------- MODULE WriteHandler ----------------------------
(***************************************************************************)
(* WriteHandler (semfs-core/src/vfs/write_ops.rs) over the write-ahead log *)
(* and the file system. One process at a time owns the handler and calls   *)
(* it serially (SemanticFs's callbacks take &mut self); it may die at any  *)
(* step, a WAL statement may fail, a file-system call may fail, and other  *)
(* programs change the same files at any moment.                           *)
(*                                                                         *)
(* A file is a whole content, absent, or Torn: truncated by an open-for-   *)
(* writing whose data did not reach it. std::fs::rename is one step;       *)
(* std::fs::copy and std::fs::write are two (open with truncation, then    *)
(* the data).                                                              *)
(***************************************************************************)
EXTENDS WalStore

CONSTANTS Name,         \* base names
          Base,         \* path -> its base name
          Content,      \* what a whole file may hold
          Absent, Torn, \* the other two states of a file
          MaxOps,       \* bound: operations logged
          MaxTime,      \* bound: seconds the clock advances
          MaxFaults,    \* bound: crashes, WAL errors and trash-dir errors
          MaxExternal   \* bound: changes made by other programs

ASSUME FileAssumption ==
  /\ Base \in [Path -> Name]
  /\ Absent # Torn /\ Absent \notin Content /\ Torn \notin Content

ASSUME BoundAssumption ==
  MaxOps \in Nat /\ MaxTime \in Nat /\ MaxFaults \in Nat /\ MaxExternal \in Nat

\* A name in ~/.semanticfs/trash: the second of the deletion and a base name.
Trash == [at : 0..MaxTime, base : Name]

ASSUME PathAssumption == Path \cap Trash = {}

File  == Path \cup Trash
Value == Content \cup {Absent, Torn}

VARIABLES
  disk,        \* File -> Value
  now,         \* wall clock, in seconds
  pc,          \* the next step of the call being served; "idle" between calls
  cur,         \* WAL id of the operation being carried out, 0 if none
  buf,         \* data the open file descriptor will write
  trashPath,   \* trash name chosen by handle_unlink, Absent if none
  recovering,  \* recover() is on the stack
  rest,        \* entries recover() has still to look at
  faults, external,   \* bounded counters of the environment's moves
  fresh,       \* history: the entry that nothing but its own operation has
               \* disturbed since it was logged, 0 if none
  before       \* history: the disk when the fresh entry was logged

procVars == <<pc, cur, buf, trashPath, recovering, rest>>
vars == <<wal, nextId, disk, now, pc, cur, buf, trashPath, recovering, rest,
          faults, external, fresh, before>>

Blank == [f \in File |-> Absent]

Step == {"idle", "logged", "act", "trash", "finish", "remove", "complete",
         "fail", "scan"}

TypeOK ==
  /\ WalTypeOK
  /\ disk \in [File -> Value] /\ before \in [File -> Value]
  /\ now \in 0..MaxTime
  /\ pc \in Step
  /\ cur \in DOMAIN wal \cup {0}
  /\ buf \in Value
  /\ trashPath \in Trash \cup {Absent}
  /\ recovering \in BOOLEAN
  /\ rest \subseteq Open
  /\ faults \in 0..MaxFaults /\ external \in 0..MaxExternal
  /\ fresh \in Open \cup {0}

Init ==
  /\ WalInit
  /\ disk \in {d \in [File -> Content \cup {Absent}] : \A k \in Trash : d[k] = Absent}
  /\ now = 0
  /\ pc = "idle" /\ cur = 0 /\ buf = Absent /\ trashPath = Absent
  /\ recovering = FALSE /\ rest = {}
  /\ faults = 0 /\ external = 0
  /\ fresh = 0 /\ before = Blank

-----------------------------------------------------------------------------
Exists(p) == disk[p] # Absent
Op == wal[cur].op

Moved(d, from, to) ==
  IF from = to THEN d ELSE [d EXCEPT ![to] = d[from], ![from] = Absent]
TrashName(p) == [at |-> now, base |-> Base[p]]

\* The file a copy or a write opens for writing.
Target == CASE Op.kind = "write"  -> Op.src
            [] Op.kind = "copy"   -> Op.dst
            [] Op.kind = "delete" -> trashPath

\* Bookkeeping of the history variables when the operation in hand changes
\* the disk: any other operation is no longer undisturbed.
Touch(d) ==
  /\ disk' = d
  /\ IF cur = fresh THEN UNCHANGED <<fresh, before>>
                    ELSE fresh' = 0 /\ before' = Blank

Goto(step) == pc' = step /\ UNCHANGED <<cur, buf, trashPath, recovering, rest>>

\* The call returns (or the process dies and is started again): every local
\* variable is gone.
Return ==
  /\ pc' = "idle" /\ cur' = 0 /\ buf' = Absent /\ trashPath' = Absent
  /\ recovering' = FALSE /\ rest' = {}

\* The operation's last WAL statement is done: the handler returns, recover()
\* goes on to its next entry.
Settled ==
  /\ IF recovering
     THEN /\ pc' = "scan" /\ cur' = 0 /\ buf' = Absent /\ trashPath' = Absent
          /\ UNCHANGED <<recovering, rest>>
     ELSE Return
  /\ IF cur = fresh THEN fresh' = 0 /\ before' = Blank
                    ELSE UNCHANGED <<fresh, before>>

-----------------------------------------------------------------------------
\* The four handlers log their operation first.
Handle(op, data) ==
  /\ pc = "idle" /\ nextId <= MaxOps
  /\ LogOperation(op)
  /\ pc' = "logged" /\ cur' = nextId /\ buf' = data
  /\ fresh' = nextId /\ before' = disk
  /\ UNCHANGED <<disk, now, trashPath, recovering, rest, faults, external>>

\* A move to another semantic directory keeps its name, so the source of a
\* rename may be its destination; no caller copies a file to itself.
HandleRename == \E from, to \in Path :
                  Handle([kind |-> "move", src |-> from, dst |-> to], Absent)
HandleCopy   == \E from, to \in Path :
                  from # to /\ Handle([kind |-> "copy", src |-> from, dst |-> to], Absent)
HandleUnlink == \E p \in Path : Handle([kind |-> "delete", src |-> p], Absent)
HandleWrite  == \E p \in Path, c \in Content :
                  Handle([kind |-> "write", src |-> p], c)

StartExecuting ==
  /\ pc = "logged"
  /\ MarkExecuting(cur)
  /\ Goto("act")
  /\ UNCHANGED <<disk, now, faults, external, fresh, before>>

\* std::fs::rename of a move; it may fail for reasons the model does not keep.
Rename ==
  /\ pc = "act" /\ Op.kind = "move"
  /\ \/ Exists(Op.src) /\ Touch(Moved(disk, Op.src, Op.dst)) /\ Goto("complete")
     \/ Goto("fail") /\ UNCHANGED <<disk, fresh, before>>
  /\ UNCHANGED <<walVars, now, faults, external>>

\* std::fs::copy and std::fs::write open and truncate their target.
OpenTarget ==
  /\ pc = "act" /\ Op.kind \in {"copy", "write"}
  /\ \/ /\ Op.kind = "copy" => Exists(Op.src)
        /\ Touch([disk EXCEPT ![Target] = Torn])
        /\ buf' = IF Op.kind = "copy" THEN disk[Op.src] ELSE buf
        /\ pc' = "finish" /\ UNCHANGED <<cur, trashPath, recovering, rest>>
     \/ Goto("fail") /\ UNCHANGED <<disk, fresh, before>>
  /\ UNCHANGED <<walVars, now, faults, external>>

\* The copy's `and_then` and the match on fs::copy and fs::write: no step of an
\* operation runs after one that failed.
OnDataErrorRemoves == IF Op.kind = "delete" THEN "remove" ELSE "fail"
OnDataError == "fail"

\* The data reaches the file, unless another program has replaced it since it
\* was opened: then it goes to a file that no name leads to.
FinishTarget ==
  /\ pc = "finish"
  /\ \/ /\ Touch(IF disk[Target] = Torn THEN [disk EXCEPT ![Target] = buf] ELSE disk)
        /\ Goto(IF Op.kind = "delete" THEN "remove" ELSE "complete")
     \/ Goto(OnDataError) /\ UNCHANGED <<disk, fresh, before>>
  /\ UNCHANGED <<walVars, now, faults, external>>

\* handle_unlink creates the trash directory, whose `?` returns with the entry
\* still executing, and picks the trash name.
PrepareTrash ==
  /\ pc = "act" /\ Op.kind = "delete"
  /\ \/ /\ pc' = "trash" /\ trashPath' = TrashName(Op.src)
        /\ UNCHANGED <<cur, buf, recovering, rest, faults>>
     \/ faults < MaxFaults /\ faults' = faults + 1 /\ Return
  /\ UNCHANGED <<walVars, disk, now, external, fresh, before>>

\* Rename into the trash, or fall back to copying: the copy opens its target.
MoveToTrash ==
  /\ pc = "trash"
  /\ \/ Exists(Op.src) /\ Touch(Moved(disk, Op.src, trashPath)) /\ Goto("complete")
     \/ /\ Exists(Op.src) /\ Touch([disk EXCEPT ![trashPath] = Torn])
        /\ buf' = disk[Op.src] /\ pc' = "finish"
        /\ UNCHANGED <<cur, trashPath, recovering, rest>>
     \/ Goto("fail") /\ UNCHANGED <<disk, fresh, before>>
  /\ UNCHANGED <<walVars, now, faults, external>>

RemoveOriginal ==
  /\ pc = "remove"
  /\ \/ Exists(Op.src) /\ Touch([disk EXCEPT ![Op.src] = Absent]) /\ Goto("complete")
     \/ Goto("fail") /\ UNCHANGED <<disk, fresh, before>>
  /\ UNCHANGED <<walVars, now, faults, external>>

Complete ==
  /\ pc = "complete" /\ MarkCompleted(cur) /\ Settled
  /\ UNCHANGED <<disk, now, faults, external>>

Fail ==
  /\ pc = "fail" /\ MarkFailed(cur) /\ Settled
  /\ UNCHANGED <<disk, now, faults, external>>

-----------------------------------------------------------------------------
\* The rows recover() works through, and the order it takes them in.
PendingExecutingOnly == {i \in Open : wal[i].status = "executing"}
PendingAndFailed     == {i \in DOMAIN wal : wal[i].status # "completed"}
RecoverPending       == Open

IsNextLatest(i, S) == \A j \in S : i >= j
IsNext(i, S)       == \A j \in S : i <= j

LeftAfterSame(i) == rest
LeftAfter(i)     == rest \ {i}

Recover ==
  /\ pc = "idle" /\ RecoverPending # {}
  /\ pc' = "scan" /\ recovering' = TRUE /\ rest' = RecoverPending
  /\ UNCHANGED <<walVars, disk, now, cur, buf, trashPath, faults, external, fresh, before>>

VerdictTrustsDest(op) ==
  IF Exists(IF op.kind \in {"move", "copy"} THEN op.dst ELSE op.src)
  THEN "complete" ELSE "fail"

\* What recover() decides about one entry from the files it finds. The
\* exists() calls of one entry are one reading.
Verdict(op) ==
  CASE op.kind = "move"   -> IF Exists(op.dst) /\ ~Exists(op.src) THEN "complete"
                             ELSE IF Exists(op.src) THEN "act" ELSE "fail"
    [] op.kind = "copy"   -> IF Exists(op.dst) THEN "complete"
                             ELSE IF Exists(op.src) THEN "act" ELSE "fail"
    [] op.kind = "delete" -> IF Exists(op.src) THEN "fail" ELSE "complete"
    [] op.kind = "write"  -> "fail"

RecoverEntry ==
  /\ pc = "scan"
  /\ \E i \in rest :
       /\ IsNext(i, rest)
       /\ cur' = i /\ rest' = LeftAfter(i) /\ pc' = Verdict(wal[i].op)
  /\ UNCHANGED <<walVars, disk, now, buf, trashPath, recovering, faults, external, fresh, before>>

RecoverReturns ==
  /\ pc = "scan" /\ rest = {} /\ Return
  /\ UNCHANGED <<walVars, disk, now, faults, external, fresh, before>>

-----------------------------------------------------------------------------
\* A WAL statement fails and its `?` leaves the handler, or recover(), early.
WalError ==
  /\ pc \in {"logged", "complete", "fail"} /\ faults < MaxFaults
  /\ faults' = faults + 1 /\ Return
  /\ UNCHANGED <<walVars, disk, now, external, fresh, before>>

\* The process dies; the WAL and the disk survive, and it is started again.
Crash ==
  /\ pc # "idle" /\ faults < MaxFaults
  /\ faults' = faults + 1 /\ Return
  /\ UNCHANGED <<walVars, disk, now, external, fresh, before>>

Cleanup ==
  /\ pc = "idle"
  /\ \E S \in SUBSET (DOMAIN wal \ Open) : S # {} /\ CleanupCompleted(S)
  /\ UNCHANGED <<disk, now, procVars, faults, external, fresh, before>>

\* Another program replaces, creates or removes a file of the directory.
External ==
  /\ external < MaxExternal /\ external' = external + 1
  /\ \E p \in Path, v \in Content \cup {Absent} :
       disk[p] # v /\ disk' = [disk EXCEPT ![p] = v]
  /\ fresh' = 0 /\ before' = Blank
  /\ UNCHANGED <<walVars, now, procVars, faults>>

Tick ==
  /\ now < MaxTime /\ now' = now + 1
  /\ UNCHANGED <<walVars, disk, procVars, faults, external, fresh, before>>

Program ==
  \/ StartExecuting \/ Rename \/ OpenTarget \/ FinishTarget
  \/ PrepareTrash \/ MoveToTrash \/ RemoveOriginal
  \/ Complete \/ Fail \/ RecoverEntry \/ RecoverReturns

Next ==
  \/ HandleRename \/ HandleCopy \/ HandleUnlink \/ HandleWrite
  \/ Program \/ Recover
  \/ WalError \/ Crash \/ Cleanup \/ External \/ Tick

Spec == Init /\ [][Next]_vars

-----------------------------------------------------------------------------
Settles(i, status) ==
  i \in Open /\ i \in DOMAIN wal' /\ wal'[i].status = status

(* The log keeps the promise of OperationLog whatever crashes, failing     *)
(* statements and repeated recoveries do: an id is announced once, settled *)
(* once, and only completed rows are forgotten (wal.rs, write_ops.rs).     *)
VerdictOf(status) == CASE status = "completed" -> "done"
                       [] status = "failed"    -> "failed"
                       [] OTHER                -> "open"

Log == INSTANCE OperationLog WITH
         Op        <- Operation,
         announced <- nextId - 1,
         record    <- [i \in DOMAIN wal |-> wal[i].op],
         verdict   <- [i \in DOMAIN wal |-> VerdictOf(wal[i].status)]

LogRefinement == Log!Spec

(* A move is all or nothing through any crash and any number of recover()  *)
(* calls: as long as only its own operation touched the files, the entry   *)
(* becomes completed exactly when the source's content sits at the         *)
(* destination and the source is gone, and failed only when every file is  *)
(* as it was (write_ops.rs:20-40, 147-163).                                *)
MoveAtomic ==
  [][fresh # 0 =>
       LET op == wal[fresh].op IN
       op.kind = "move" /\ before[op.src] # Absent =>
         /\ Settles(fresh, "completed") => disk = Moved(before, op.src, op.dst)
         /\ Settles(fresh, "failed")    => disk = before]_vars

(* A soft delete never destroys what it deletes: completed means that the  *)
(* file is gone and its content is in the trash, failed that no file of    *)
(* the directory changed, also when rename falls back to copy and remove   *)
(* and the process dies in between (write_ops.rs:66-111, 178-184).         *)
DeleteAtomic ==
  [][fresh # 0 =>
       LET op == wal[fresh].op IN
       op.kind = "delete" /\ before[op.src] # Absent =>
         /\ Settles(fresh, "completed") =>
              disk[op.src] = Absent /\ \E k \in Trash : disk[k] = before[op.src]
         /\ Settles(fresh, "failed") => \A p \in Path : disk[p] = before[p]]_vars

(* Recovery never certifies an interrupted write, whose data it does not   *)
(* have, and never writes to the file (wal.rs:128-132, write_ops.rs:185).  *)
WriteNotForged ==
  [][recovering => \A i \in Open :
       wal[i].op.kind = "write" => ~Settles(i, "completed")]_vars

(* recover() leaves nothing behind: what it has not settled is still on    *)
(* its list, so when it returns Ok no entry is pending or executing        *)
(* (write_ops.rs:137-199).                                                 *)
RecoverCovers == recovering => Open \subseteq rest \cup {cur}

(* recover() settles entries in the order they were logged, also those of  *)
(* different process lifetimes (wal.rs:119).                               *)
RecoverInOrder ==
  [][recovering => \A i, j \in Open :
       (Settles(i, "completed") \/ Settles(i, "failed")) => i <= j]_vars

-----------------------------------------------------------------------------
(* README.md:259 and wal.rs:131: the WAL makes a copy atomic across a      *)
(* crash, so a completed copy is never the truncated destination of a copy *)
(* that died between fs::copy's opening of it and its data.                *)
CopyAtomic ==
  [][fresh # 0 =>
       LET op == wal[fresh].op IN
       op.kind = "copy" /\ Settles(fresh, "completed") => disk[op.dst] # Torn]_vars
=============================================================================
