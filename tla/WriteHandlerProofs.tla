------------------------- MODULE WriteHandlerProofs -------------------------
(***************************************************************************)
(* Proofs about WriteHandler, for any set of files, any contents and any   *)
(* bounds.                                                                 *)
(***************************************************************************)
EXTENDS WriteHandler, TLAPS

\* What holds of the program's position: which entry it is on, and that what
\* recover() has not settled is still ahead of it.
Position ==
  /\ pc = "idle" => cur = 0 /\ ~recovering
  /\ pc = "scan" => cur = 0 /\ recovering
  /\ pc \notin {"idle", "scan"} => cur \in Open
  /\ cur \notin rest
  /\ ~recovering => rest = {}
  /\ pc \in {"trash", "remove"} => Op.kind = "delete" /\ trashPath \in Trash
  /\ pc = "finish" => Op.kind \in {"copy", "write"} \/ (Op.kind = "delete" /\ trashPath \in Trash)

Inv == TypeOK /\ Position /\ RecoverCovers

-----------------------------------------------------------------------------
LEMMA OpFacts ==
  ASSUME NEW op \in Operation
  PROVE  /\ op.kind \in {"move", "copy", "delete", "write"}
         /\ op.src \in Path
         /\ op.kind \in {"move", "copy"} => op.dst \in Path
BY DEF Operation

\* What a status update does to the table.
LEMMA StatusUpdate ==
  ASSUME WalTypeOK, NEW i \in DOMAIN wal, NEW s \in Status, SetStatus(i, s)
  PROVE  /\ WalTypeOK'
         /\ DOMAIN wal' = DOMAIN wal
         /\ \A j \in DOMAIN wal : wal'[j].op = wal[j].op
         /\ \A j \in DOMAIN wal : wal'[j].status = IF j = i THEN s ELSE wal[j].status
BY DEF WalTypeOK, SetStatus

\* What logging does to it.
LEMMA Logged ==
  ASSUME WalTypeOK, NEW op \in Operation, LogOperation(op)
  PROVE  /\ WalTypeOK'
         /\ DOMAIN wal' = DOMAIN wal \cup {nextId}
         /\ nextId \notin DOMAIN wal /\ nextId # 0
         /\ \A j \in DOMAIN wal : wal'[j] = wal[j]
         /\ wal'[nextId] = [op |-> op, status |-> "pending"]
         /\ Open' = Open \cup {nextId}
<1>1. nextId \in Nat \ {0} /\ nextId \notin DOMAIN wal
  BY DEF WalTypeOK
<1>2. /\ DOMAIN wal' = DOMAIN wal \cup {nextId}
      /\ \A j \in DOMAIN wal : wal'[j] = wal[j]
      /\ wal'[nextId] = [op |-> op, status |-> "pending"]
      /\ nextId' = nextId + 1
  BY <1>1 DEF LogOperation
<1>3. WalTypeOK'
  BY <1>1, <1>2 DEF WalTypeOK, LogOperation, Status
<1>4. Open' = Open \cup {nextId}
  BY <1>1, <1>2 DEF Open
<1> QED BY <1>1, <1>2, <1>3, <1>4

\* What the file operations keep.
LEMMA DiskTypes ==
  ASSUME disk \in [File -> Value]
  PROVE  /\ \A f \in File, v \in Value : [disk EXCEPT ![f] = v] \in [File -> Value]
         /\ \A f, g \in File : Moved(disk, f, g) \in [File -> Value]
         /\ \A f \in File : disk[f] \in Value
         /\ Absent \in Value /\ Torn \in Value /\ Content \subseteq Value
         /\ Blank \in [File -> Value]
         /\ Path \subseteq File /\ Trash \subseteq File
BY DEF Moved, Value, Blank, File

LEMMA InitInv == Init => Inv
<1> SUFFICES ASSUME Init PROVE Inv
  OBVIOUS
<1>1. disk \in [File -> Value]
  BY DEF Init, Value
<1>2. before \in [File -> Value]
  BY DEF Init, Value, Blank
<1>3. WalTypeOK /\ Open = {}
  BY DEF Init, WalInit, WalTypeOK, Open
<1>4. pc \in Step /\ buf \in Value /\ trashPath \in Trash \cup {Absent}
  BY DEF Init, Step, Value
<1>5. now \in 0..MaxTime /\ faults \in 0..MaxFaults /\ external \in 0..MaxExternal
  BY BoundAssumption DEF Init
<1>6. /\ cur \in DOMAIN wal \cup {0} /\ rest \subseteq Open /\ fresh \in Open \cup {0}
      /\ recovering \in BOOLEAN
  BY DEF Init
<1>7. TypeOK
  BY <1>1, <1>2, <1>3, <1>4, <1>5, <1>6 DEF TypeOK
<1> QED
  BY <1>3, <1>7 DEF Inv, Position, RecoverCovers, Init, WalInit

LEMMA HandleStep ==
  ASSUME Inv, NEW op \in Operation, NEW data \in Content \cup {Absent},
         Handle(op, data)
  PROVE  Inv'
<1>1. /\ WalTypeOK' /\ Open' = Open \cup {nextId}
      /\ nextId \notin DOMAIN wal /\ nextId # 0
      /\ DOMAIN wal' = DOMAIN wal \cup {nextId}
      /\ \A j \in DOMAIN wal : wal'[j] = wal[j]
      /\ wal'[nextId] = [op |-> op, status |-> "pending"]
  BY Logged DEF Handle, Inv, TypeOK
<1>2. Open \subseteq DOMAIN wal
  BY DEF Open
<1>3. TypeOK'
  BY <1>1, <1>2 DEF Inv, TypeOK, Handle, Step, Value
<1>4. Position'
  BY <1>1, <1>2 DEF Inv, TypeOK, Handle, Position
<1>5. RecoverCovers'
  BY DEF Inv, Handle, Position, RecoverCovers
<1> QED BY <1>3, <1>4, <1>5 DEF Inv

\* Steps that leave the log alone, change the disk and go to another step.
LEMMA DiskStep ==
  ASSUME Inv, NEW d \in [File -> Value], Touch(d), UNCHANGED walVars,
         pc \notin {"idle", "scan"}, pc' \in {"complete", "remove", "finish"},
         pc' = "remove" => Op.kind = "delete" /\ trashPath \in Trash,
         pc' = "finish" => \/ Op.kind \in {"copy", "write"}
                           \/ Op.kind = "delete" /\ trashPath \in Trash,
         buf' \in Value,
         UNCHANGED <<cur, trashPath, recovering, rest, now, faults, external>>
  PROVE  Inv'
<1>1. Open' = Open /\ WalTypeOK' /\ wal' = wal
  BY DEF walVars, Open, WalTypeOK, Inv, TypeOK
<1>2. before' \in [File -> Value] /\ fresh' \in Open \cup {0} /\ disk' \in [File -> Value]
  BY DiskTypes DEF Touch, Inv, TypeOK
<1>3. TypeOK'
  BY <1>1, <1>2 DEF Inv, TypeOK, Step
<1>4. Position'
  BY <1>1 DEF Inv, Position, Op
<1>5. RecoverCovers'
  BY <1>1 DEF Inv, RecoverCovers
<1> QED BY <1>3, <1>4, <1>5 DEF Inv

LEMMA FailStep ==
  ASSUME Inv, Goto("fail"), pc \notin {"idle", "scan"},
         UNCHANGED <<disk, fresh, before, walVars, now, faults, external>>
  PROVE  Inv'
<1>1. Open' = Open /\ WalTypeOK' /\ wal' = wal
  BY DEF walVars, Open, WalTypeOK, Inv, TypeOK
<1> QED
  BY <1>1 DEF Inv, TypeOK, Position, RecoverCovers, Goto, Step

\* A call that ends without settling its entry.
LEMMA ReturnStep ==
  ASSUME Inv, Return, UNCHANGED <<walVars, disk, now, external, fresh, before>>,
         faults' \in 0..MaxFaults
  PROVE  Inv'
<1>1. Open' = Open /\ WalTypeOK' /\ wal' = wal
  BY DEF walVars, Open, WalTypeOK, Inv, TypeOK
<1>2. TypeOK'
  BY <1>1 DEF Inv, TypeOK, Return, Step, Value
<1>3. Position'
  BY <1>1 DEF Inv, Position, Return
<1> QED
  BY <1>2, <1>3 DEF Inv, RecoverCovers, Return

LEMMA SettleStep ==
  ASSUME Inv, pc \in {"complete", "fail"}, NEW s \in {"completed", "failed"},
         SetStatus(cur, s), Settled, UNCHANGED <<disk, now, faults, external>>
  PROVE  Inv'
<1>1. cur \in DOMAIN wal /\ cur \in Open
  BY DEF Inv, Position, Open
<1>2. /\ WalTypeOK' /\ DOMAIN wal' = DOMAIN wal
      /\ \A j \in DOMAIN wal : wal'[j].op = wal[j].op
      /\ \A j \in DOMAIN wal : wal'[j].status = IF j = cur THEN s ELSE wal[j].status
  BY <1>1, StatusUpdate DEF Inv, TypeOK, Status
<1>3. Open' = Open \ {cur}
  BY <1>1, <1>2 DEF Open
<1>4. before' \in [File -> Value] /\ fresh' \in (Open \ {cur}) \cup {0}
  BY DiskTypes DEF Settled, Inv, TypeOK
<1>5. /\ pc' \in {"idle", "scan"} /\ cur' = 0 /\ buf' = Absent /\ trashPath' = Absent
      /\ recovering' = (pc' = "scan") /\ recovering' \in BOOLEAN
      /\ recovering' = recovering /\ rest' = rest
  BY DEF Settled, Return, Inv, Position, TypeOK
<1>6. TypeOK'
  BY <1>2, <1>3, <1>4, <1>5 DEF Inv, TypeOK, Position, Step, Value
<1>7. Position'
  BY <1>2, <1>3, <1>5 DEF Inv, Position, TypeOK, WalTypeOK, Open
<1>8. RecoverCovers'
  BY <1>3, <1>5 DEF Inv, RecoverCovers
<1> QED BY <1>6, <1>7, <1>8 DEF Inv

\* Steps that change neither the log nor the disk.
LEMMA QuietStep ==
  ASSUME Inv, UNCHANGED <<wal, nextId, disk, fresh, before>>,
         now' \in 0..MaxTime, external' \in 0..MaxExternal, faults' \in 0..MaxFaults,
         pc' \in Step, cur' \in DOMAIN wal \cup {0}, rest' \subseteq Open,
         trashPath' \in Trash \cup {Absent}, recovering' \in BOOLEAN, buf' \in Value,
         Position', RecoverCovers'
  PROVE  Inv'
<1>1. Open' = Open /\ WalTypeOK'
  BY DEF Open, WalTypeOK, Inv, TypeOK
<1> QED
  BY <1>1 DEF Inv, TypeOK

LEMMA TargetInFile ==
  ASSUME Inv, \/ pc = "act" /\ Op.kind \in {"copy", "write"}
              \/ pc = "finish"
  PROVE  Target \in File
<1>1. cur \in DOMAIN wal
  BY DEF Inv, Position, Open
<1>2. Op \in Operation
  BY <1>1 DEF Inv, TypeOK, WalTypeOK, Op
<1>3. /\ Op.src \in Path
      /\ Op.kind = "copy" => Op.dst \in Path
      /\ Op.kind \in {"copy", "write"} \/ (Op.kind = "delete" /\ trashPath \in Trash)
  BY <1>2, OpFacts DEF Inv, Position
<1> QED
  BY <1>3 DEF Target, File

LEMMA NextInv == Inv /\ [Next]_vars => Inv'
<1> SUFFICES ASSUME Inv, [Next]_vars PROVE Inv'
  OBVIOUS
<1>types. /\ \A f \in File, v \in Value : [disk EXCEPT ![f] = v] \in [File -> Value]
          /\ \A f, g \in File : Moved(disk, f, g) \in [File -> Value]
          /\ \A f \in File : disk[f] \in Value
          /\ Absent \in Value /\ Torn \in Value /\ Content \subseteq Value
          /\ Blank \in [File -> Value]
          /\ Path \subseteq File /\ Trash \subseteq File
  BY DiskTypes DEF Inv, TypeOK
<1>op. pc \notin {"idle", "scan"} =>
         /\ cur \in DOMAIN wal /\ Op \in Operation
         /\ Op.src \in Path /\ (Op.kind \in {"move", "copy"} => Op.dst \in Path)
  <2> SUFFICES ASSUME pc \notin {"idle", "scan"}
               PROVE  /\ cur \in DOMAIN wal /\ Op \in Operation
                      /\ Op.src \in Path /\ (Op.kind \in {"move", "copy"} => Op.dst \in Path)
    OBVIOUS
  <2>1. cur \in DOMAIN wal
    BY DEF Inv, Position, Open
  <2>2. Op \in Operation
    BY <2>1 DEF Inv, TypeOK, WalTypeOK, Op
  <2> QED BY <2>1, <2>2, OpFacts
<1>1. CASE HandleRename
  <2>1. PICK from, to \in Path : Handle([kind |-> "move", src |-> from, dst |-> to], Absent)
    BY <1>1 DEF HandleRename
  <2> QED
    BY <2>1, HandleStep DEF Operation
<1>2. CASE HandleCopy
  <2>1. PICK from, to \in Path : from # to /\ Handle([kind |-> "copy", src |-> from, dst |-> to], Absent)
    BY <1>2 DEF HandleCopy
  <2> QED
    BY <2>1, HandleStep DEF Operation
<1>3. CASE HandleUnlink
  <2>1. PICK p \in Path : Handle([kind |-> "delete", src |-> p], Absent)
    BY <1>3 DEF HandleUnlink
  <2> QED
    BY <2>1, HandleStep DEF Operation
<1>4. CASE HandleWrite
  <2>1. PICK p \in Path, c \in Content : Handle([kind |-> "write", src |-> p], c)
    BY <1>4 DEF HandleWrite
  <2> QED
    BY <2>1, HandleStep DEF Operation
<1>5. CASE StartExecuting
  <2>1. cur \in DOMAIN wal /\ cur \in Open
    BY <1>5 DEF StartExecuting, Inv, Position, Open
  <2>2. /\ WalTypeOK' /\ DOMAIN wal' = DOMAIN wal
        /\ \A j \in DOMAIN wal : wal'[j].op = wal[j].op
        /\ \A j \in DOMAIN wal : wal'[j].status = IF j = cur THEN "executing" ELSE wal[j].status
    BY <1>5, <2>1, StatusUpdate DEF StartExecuting, MarkExecuting, Inv, TypeOK, Status
  <2>3. Open' = Open
    BY <2>1, <2>2 DEF Open
  <2>4. TypeOK'
    BY <1>5, <2>2, <2>3 DEF StartExecuting, Goto, Inv, TypeOK, Step
  <2>5. Position'
    BY <1>5, <2>1, <2>2, <2>3 DEF StartExecuting, Goto, Inv, Position
  <2> QED
    BY <1>5, <2>3, <2>4, <2>5 DEF StartExecuting, Goto, Inv, RecoverCovers
<1>6. CASE Rename
  <2>1. CASE Touch(Moved(disk, Op.src, Op.dst)) /\ Goto("complete")
    <3>1. Moved(disk, Op.src, Op.dst) \in [File -> Value]
      BY <1>6, <1>types, <1>op DEF Rename
    <3> QED
      BY <1>6, <2>1, <3>1, DiskStep DEF Rename, Goto, Inv, TypeOK
  <2>2. CASE Goto("fail") /\ UNCHANGED <<disk, fresh, before>>
    BY <1>6, <2>2, FailStep DEF Rename
  <2> QED BY <1>6, <2>1, <2>2 DEF Rename
<1>7. CASE OpenTarget
  <2>1. CASE /\ Op.kind = "copy" => Exists(Op.src)
             /\ Touch([disk EXCEPT ![Target] = Torn])
             /\ buf' = IF Op.kind = "copy" THEN disk[Op.src] ELSE buf
             /\ pc' = "finish" /\ UNCHANGED <<cur, trashPath, recovering, rest>>
    <3>1. Target \in File
      BY <1>7, TargetInFile DEF OpenTarget
    <3>2. buf' \in Value
      BY <1>7, <2>1, <1>types, <1>op DEF OpenTarget, Inv, TypeOK
    <3> QED
      BY <1>7, <2>1, <3>1, <3>2, <1>types, DiskStep DEF OpenTarget
  <2>2. CASE Goto("fail") /\ UNCHANGED <<disk, fresh, before>>
    BY <1>7, <2>2, FailStep DEF OpenTarget
  <2> QED BY <1>7, <2>1, <2>2 DEF OpenTarget
<1>8. CASE FinishTarget
  <2>1. CASE /\ Touch(IF disk[Target] = Torn THEN [disk EXCEPT ![Target] = buf] ELSE disk)
             /\ Goto(IF Op.kind = "delete" THEN "remove" ELSE "complete")
    <3>1. Target \in File
      BY <1>8, TargetInFile DEF FinishTarget
    <3>2. (IF disk[Target] = Torn THEN [disk EXCEPT ![Target] = buf] ELSE disk) \in [File -> Value]
      BY <3>1, <1>types DEF Inv, TypeOK
    <3>3. pc' = "remove" => Op.kind = "delete" /\ trashPath \in Trash
      BY <1>8, <2>1 DEF FinishTarget, Goto, Inv, Position
    <3> QED
      BY <1>8, <2>1, <3>2, <3>3, DiskStep DEF FinishTarget, Goto, Inv, TypeOK
  <2>2. CASE Goto(OnDataError) /\ UNCHANGED <<disk, fresh, before>>
    BY <1>8, <2>2, FailStep DEF FinishTarget, OnDataError
  <2> QED BY <1>8, <2>1, <2>2 DEF FinishTarget
<1>9. CASE PrepareTrash
  <2>1. CASE /\ pc' = "trash" /\ trashPath' = TrashName(Op.src)
             /\ UNCHANGED <<cur, buf, recovering, rest, faults>>
    <3>1. TrashName(Op.src) \in Trash
      BY <1>9, <1>op, FileAssumption DEF PrepareTrash, TrashName, Trash, Inv, TypeOK
    <3>2. Open' = Open /\ wal' = wal
      BY <1>9 DEF PrepareTrash, walVars, Open
    <3>3. Position'
      BY <1>9, <2>1, <3>1, <3>2 DEF PrepareTrash, Inv, Position, Op
    <3>4. RecoverCovers'
      BY <2>1, <3>2 DEF Inv, RecoverCovers
    <3>5. pc' \in Step
      BY <2>1 DEF Step
    <3> QED
      BY <1>9, <2>1, <3>1, <3>3, <3>4, <3>5, QuietStep DEF PrepareTrash, Inv, TypeOK, walVars
  <2>2. CASE faults < MaxFaults /\ faults' = faults + 1 /\ Return
    <3>1. faults' \in 0..MaxFaults
      BY <2>2, BoundAssumption DEF Inv, TypeOK
    <3> QED
      BY <1>9, <2>2, <3>1, ReturnStep DEF PrepareTrash
  <2> QED BY <1>9, <2>1, <2>2 DEF PrepareTrash
<1>10. CASE MoveToTrash
  <2>0. Op.kind = "delete" /\ trashPath \in Trash /\ Op.src \in File /\ trashPath \in File
    BY <1>10, <1>op, <1>types DEF MoveToTrash, Inv, Position
  <2>1. CASE Touch(Moved(disk, Op.src, trashPath)) /\ Goto("complete")
    <3>1. Moved(disk, Op.src, trashPath) \in [File -> Value]
      BY <2>0, <1>types
    <3> QED
      BY <1>10, <2>1, <3>1, DiskStep DEF MoveToTrash, Goto, Inv, TypeOK
  <2>2. CASE /\ Exists(Op.src) /\ Touch([disk EXCEPT ![trashPath] = Torn])
             /\ buf' = disk[Op.src] /\ pc' = "finish"
             /\ UNCHANGED <<cur, trashPath, recovering, rest>>
    <3>1. [disk EXCEPT ![trashPath] = Torn] \in [File -> Value] /\ buf' \in Value
      BY <2>0, <2>2, <1>types
    <3> QED
      BY <1>10, <2>0, <2>2, <3>1, DiskStep DEF MoveToTrash
  <2>3. CASE Goto("fail") /\ UNCHANGED <<disk, fresh, before>>
    BY <1>10, <2>3, FailStep DEF MoveToTrash
  <2> QED BY <1>10, <2>1, <2>2, <2>3 DEF MoveToTrash
<1>11. CASE RemoveOriginal
  <2>1. CASE Touch([disk EXCEPT ![Op.src] = Absent]) /\ Goto("complete")
    <3>1. [disk EXCEPT ![Op.src] = Absent] \in [File -> Value]
      BY <1>11, <1>op, <1>types DEF RemoveOriginal
    <3> QED
      BY <1>11, <2>1, <3>1, DiskStep DEF RemoveOriginal, Goto, Inv, TypeOK
  <2>2. CASE Goto("fail") /\ UNCHANGED <<disk, fresh, before>>
    BY <1>11, <2>2, FailStep DEF RemoveOriginal
  <2> QED BY <1>11, <2>1, <2>2 DEF RemoveOriginal
<1>12. CASE Complete
  BY <1>12, SettleStep DEF Complete, MarkCompleted
<1>13. CASE Fail
  BY <1>13, SettleStep DEF Fail, MarkFailed
<1>14. CASE Recover
  <2>1. Open' = Open /\ wal' = wal
    BY <1>14 DEF Recover, walVars, Open
  <2>2. Position'
    BY <1>14, <2>1 DEF Recover, RecoverPending, Inv, Position, Open, TypeOK, WalTypeOK, Op
  <2>3. RecoverCovers' /\ pc' \in Step
    BY <1>14, <2>1 DEF Recover, RecoverPending, RecoverCovers, Step
  <2> QED
    BY <1>14, <2>2, <2>3, QuietStep DEF Recover, RecoverPending, Inv, TypeOK, walVars
<1>15. CASE RecoverEntry
  <2>1. PICK i \in rest : cur' = i /\ rest' = rest \ {i} /\ pc' = Verdict(wal[i].op)
    BY <1>15 DEF RecoverEntry, LeftAfter
  <2>2. i \in Open /\ i \in DOMAIN wal /\ i # 0
    BY DEF Inv, TypeOK, WalTypeOK, Open
  <2>3. wal[i].op.kind \in {"move", "copy", "delete", "write"}
    BY <2>2, OpFacts DEF Inv, TypeOK, WalTypeOK
  <2>4. pc' \in {"act", "complete", "fail"}
    BY <2>1, <2>3 DEF Verdict
  <2>5. Open' = Open /\ wal' = wal
    BY <1>15 DEF RecoverEntry, walVars, Open
  <2>6. pc = "scan" /\ recovering /\ cur = 0 /\ UNCHANGED <<recovering, buf, trashPath>>
    BY <1>15 DEF RecoverEntry, Inv, Position
  <2>7. Position'
    BY <2>1, <2>2, <2>4, <2>5, <2>6 DEF Inv, Position
  <2>8. RecoverCovers'
    BY <2>1, <2>5, <2>6, <2>2 DEF Inv, RecoverCovers, TypeOK, WalTypeOK, Open
  <2>9. pc' \in Step /\ rest' \subseteq Open
    BY <2>1, <2>4 DEF Step, Inv, TypeOK
  <2> QED
    BY <1>15, <2>1, <2>2, <2>7, <2>8, <2>9, QuietStep DEF RecoverEntry, Inv, TypeOK, walVars
<1>16. CASE RecoverReturns
  BY <1>16, ReturnStep DEF RecoverReturns, Inv, TypeOK
<1>17. CASE WalError
  <2>1. faults' \in 0..MaxFaults
    BY <1>17, BoundAssumption DEF WalError, Inv, TypeOK
  <2> QED
    BY <1>17, <2>1, ReturnStep DEF WalError
<1>18. CASE Crash
  <2>1. faults' \in 0..MaxFaults
    BY <1>18, BoundAssumption DEF Crash, Inv, TypeOK
  <2> QED
    BY <1>18, <2>1, ReturnStep DEF Crash
<1>19. CASE Cleanup
  <2>1. PICK S \in SUBSET (DOMAIN wal \ Open) : CleanupCompleted(S)
    BY <1>19 DEF Cleanup
  <2>2. /\ wal' = [j \in DOMAIN wal \ S |-> wal[j]]
        /\ \A j \in S : wal[j].status = "completed"
    BY <2>1 DEF CleanupCompleted
  <2>3. DOMAIN wal' = DOMAIN wal \ S /\ \A j \in DOMAIN wal \ S : wal'[j] = wal[j]
    BY <2>2
  <2>4. WalTypeOK'
    BY <2>1, <2>2, <2>3 DEF CleanupCompleted, WalTypeOK, Inv, TypeOK
  <2>5. Open' = Open
    BY <2>1, <2>2, <2>3 DEF Open
  <2>6. cur = 0 /\ pc = "idle" /\ rest = {} /\ ~recovering
    BY <1>19 DEF Cleanup, Inv, Position
  <2>7. TypeOK'
    BY <1>19, <2>4, <2>5, <2>6 DEF Cleanup, procVars, Inv, TypeOK
  <2>8. Position'
    BY <1>19, <2>3, <2>6 DEF Cleanup, procVars, Inv, Position
  <2> QED
    BY <1>19, <2>5, <2>7, <2>8 DEF Cleanup, procVars, Inv, RecoverCovers
<1>20. CASE External
  <2>1. PICK p \in Path, v \in Content \cup {Absent} : disk' = [disk EXCEPT ![p] = v]
    BY <1>20 DEF External
  <2>2. disk' \in [File -> Value]
    BY <2>1, <1>types
  <2>3. Open' = Open /\ WalTypeOK' /\ wal' = wal
    BY <1>20 DEF External, walVars, Open, WalTypeOK, Inv, TypeOK
  <2>4. TypeOK'
    BY <1>20, <2>2, <2>3, <1>types, BoundAssumption DEF External, procVars, Inv, TypeOK
  <2> QED
    BY <1>20, <2>3, <2>4 DEF External, procVars, Inv, Position, RecoverCovers, Op
<1>21. CASE Tick
  <2>1. Open' = Open /\ WalTypeOK' /\ wal' = wal
    BY <1>21 DEF Tick, walVars, Open, WalTypeOK, Inv, TypeOK
  <2>2. TypeOK'
    BY <1>21, <2>1, BoundAssumption DEF Tick, procVars, Inv, TypeOK
  <2> QED
    BY <1>21, <2>1, <2>2 DEF Tick, procVars, Inv, Position, RecoverCovers, Op
<1>22. CASE UNCHANGED vars
  <2>1. Open' = Open /\ WalTypeOK' /\ wal' = wal
    BY <1>22 DEF vars, Open, WalTypeOK, Inv, TypeOK
  <2> QED
    BY <1>22, <2>1 DEF vars, Inv, TypeOK, Position, RecoverCovers, Op
<1> QED
  BY <1>1, <1>2, <1>3, <1>4, <1>5, <1>6, <1>7, <1>8, <1>9, <1>10, <1>11, <1>12,
     <1>13, <1>14, <1>15, <1>16, <1>17, <1>18, <1>19, <1>20, <1>21, <1>22
     DEF Next, Program

(* The state of the program and of the log keeps its type.                 *)
THEOREM TypeCorrect == Spec => []TypeOK
<1>1. Inv => TypeOK
  BY DEF Inv
<1> QED BY <1>1, InitInv, NextInv, PTL DEF Spec

(* recover() never drops an entry it has not settled (write_ops.rs:137).   *)
THEOREM RecoveryIsComplete == Spec => []RecoverCovers
<1>1. Inv => RecoverCovers
  BY DEF Inv
<1> QED BY <1>1, InitInv, NextInv, PTL DEF Spec

-----------------------------------------------------------------------------
\* A move whose entry nothing else has disturbed is, at every moment, either
\* not begun or done; and the program knows which when it settles the entry.
Undisturbed(kind) ==
  fresh # 0 /\ wal[fresh].op.kind = kind /\ before[wal[fresh].op.src] # Absent

After == Moved(before, wal[fresh].op.src, wal[fresh].op.dst)

MoveInv ==
  Undisturbed("move") =>
    /\ disk \in {before, After}
    /\ cur = fresh /\ pc \in {"logged", "act", "fail"} => disk = before
    /\ cur = fresh /\ pc = "complete" => disk = After

LEMMA MovedFacts ==
  ASSUME NEW d \in [File -> Value], NEW f \in File, NEW g \in File
  PROVE  /\ f # g => Moved(d, f, g)[f] = Absent
         /\ f = g => Moved(d, f, g) = d
         /\ Moved(d, f, g)[g] = d[f]
         /\ Moved(d, f, g) \in [File -> Value]
BY DEF Moved, Value

\* Steps that do not concern the undisturbed entry: it keeps its operation,
\* and neither the disk nor the program's position on it changes.
LEMMA MoveFrame ==
  ASSUME MoveInv, fresh' = fresh, before' = before, disk' = disk,
         fresh # 0 => wal'[fresh].op = wal[fresh].op,
         \/ cur' # fresh
         \/ cur' = cur /\ pc' = pc
         \/ cur' = cur /\ pc \in {"logged", "act"} /\ pc' \in {"act", "fail", "trash"}
         \/ pc' \notin {"logged", "act", "fail", "complete"}
  PROVE  MoveInv'
BY DEF MoveInv, Undisturbed, After, Moved

LEMMA MoveTouch ==
  ASSUME Inv, MoveInv, pc \notin {"idle", "scan"}, NEW d, Touch(d), UNCHANGED walVars,
         Op.kind # "move", cur' = cur
  PROVE  MoveInv'
<1>1. cur # 0
  BY DEF Inv, Position, Open, TypeOK, WalTypeOK
<1>2. CASE cur = fresh
  BY <1>1, <1>2 DEF Touch, walVars, MoveInv, Undisturbed, Op
<1>3. CASE cur # fresh
  BY <1>1, <1>3 DEF Touch, MoveInv, Undisturbed
<1> QED BY <1>2, <1>3

LEMMA MoveInvStep == Inv /\ MoveInv /\ [Next]_vars => MoveInv'
<1> SUFFICES ASSUME Inv, MoveInv, [Next]_vars PROVE MoveInv'
  OBVIOUS
<1>fresh. fresh # 0 => fresh \in Open /\ fresh \in DOMAIN wal
  BY DEF Inv, TypeOK, Open
<1>cur. pc \notin {"idle", "scan"} => cur \in Open /\ cur \in DOMAIN wal /\ cur # 0
  BY DEF Inv, Position, Open, TypeOK, WalTypeOK
<1>1. ASSUME NEW op \in Operation, NEW data, Handle(op, data) PROVE MoveInv'
  <2>1. nextId \notin DOMAIN wal /\ nextId # 0
    BY DEF Inv, TypeOK, WalTypeOK
  <2> QED
    BY <1>1, <2>1 DEF Handle, MoveInv, Undisturbed
<1>2. CASE HandleRename \/ HandleCopy \/ HandleUnlink \/ HandleWrite
  BY <1>1, <1>2 DEF HandleRename, HandleCopy, HandleUnlink, HandleWrite, Operation
<1>3. CASE StartExecuting
  <2>1. fresh # 0 => wal'[fresh].op = wal[fresh].op
    BY <1>3, <1>cur, <1>fresh, StatusUpdate
       DEF StartExecuting, MarkExecuting, Inv, TypeOK, Status
  <2> QED
    BY <1>3, <2>1, MoveFrame DEF StartExecuting, Goto
<1>4. CASE Rename
  <2>1. CASE Exists(Op.src) /\ Touch(Moved(disk, Op.src, Op.dst)) /\ Goto("complete")
    <3>1. CASE cur = fresh
      <4>1. pc = "act" /\ wal' = wal /\ disk' = Moved(disk, Op.src, Op.dst) /\ pc' = "complete"
            /\ fresh' = fresh /\ before' = before
        BY <1>4, <2>1, <3>1 DEF Rename, walVars, Touch, Goto
      <4>2. Undisturbed("move") => disk = before
        BY <3>1, <4>1 DEF MoveInv
      <4> QED
        BY <3>1, <4>1, <4>2 DEF MoveInv, Undisturbed, After, Op
    <3>2. CASE cur # fresh
      BY <2>1, <3>2, <1>4, <1>cur DEF Rename, Touch, MoveInv, Undisturbed
    <3> QED BY <3>1, <3>2
  <2>2. CASE Goto("fail") /\ UNCHANGED <<disk, fresh, before>>
    BY <1>4, <2>2, MoveFrame DEF Rename, Goto, walVars
  <2> QED BY <1>4, <2>1, <2>2 DEF Rename
<1>5. CASE OpenTarget
  <2>1. CASE Touch([disk EXCEPT ![Target] = Torn]) /\ UNCHANGED cur
    BY <1>5, <2>1, MoveTouch DEF OpenTarget
  <2>2. CASE Goto("fail") /\ UNCHANGED <<disk, fresh, before>>
    BY <1>5, <2>2, MoveFrame DEF OpenTarget, Goto, walVars
  <2> QED BY <1>5, <2>1, <2>2 DEF OpenTarget
<1>6. CASE FinishTarget
  <2>0. Op.kind # "move"
    BY <1>6 DEF FinishTarget, Inv, Position
  <2>1. CASE /\ Touch(IF disk[Target] = Torn THEN [disk EXCEPT ![Target] = buf] ELSE disk)
             /\ UNCHANGED cur
    BY <1>6, <2>0, <2>1, MoveTouch DEF FinishTarget
  <2>2. CASE Goto(OnDataError) /\ UNCHANGED <<disk, fresh, before>>
    BY <1>6, <2>0, <2>2 DEF FinishTarget, Goto, walVars, Op, MoveInv, Undisturbed, After, Moved
  <2> QED BY <1>6, <2>1, <2>2 DEF FinishTarget, Goto
<1>7. CASE PrepareTrash
  <2>1. CASE pc' = "trash" /\ cur' = cur
    BY <1>7, <2>1, MoveFrame DEF PrepareTrash, walVars
  <2>2. CASE Return
    BY <1>7, <2>2, MoveFrame DEF PrepareTrash, Return, walVars
  <2> QED BY <1>7, <2>1, <2>2 DEF PrepareTrash
<1>8. CASE MoveToTrash
  <2>0. Op.kind # "move"
    BY <1>8 DEF MoveToTrash, Inv, Position
  <2>1. ASSUME NEW d, Touch(d), UNCHANGED cur PROVE MoveInv'
    BY <1>8, <2>0, <2>1, MoveTouch DEF MoveToTrash
  <2>2. CASE Goto("fail") /\ UNCHANGED <<disk, fresh, before>>
    BY <1>8, <2>0, <2>2 DEF MoveToTrash, Goto, walVars, Op, MoveInv, Undisturbed, After, Moved
  <2> QED BY <1>8, <2>1, <2>2 DEF MoveToTrash, Goto
<1>9. CASE RemoveOriginal
  <2>0. Op.kind # "move"
    BY <1>9 DEF RemoveOriginal, Inv, Position
  <2>1. ASSUME NEW d, Touch(d), UNCHANGED cur PROVE MoveInv'
    BY <1>9, <2>0, <2>1, MoveTouch DEF RemoveOriginal
  <2>2. CASE Goto("fail") /\ UNCHANGED <<disk, fresh, before>>
    BY <1>9, <2>0, <2>2 DEF RemoveOriginal, Goto, walVars, Op, MoveInv, Undisturbed, After, Moved
  <2> QED BY <1>9, <2>1, <2>2 DEF RemoveOriginal, Goto
<1>10. ASSUME NEW s \in {"completed", "failed"}, SetStatus(cur, s), Settled,
              pc \in {"complete", "fail"}, UNCHANGED disk
       PROVE MoveInv'
  <2>1. fresh # 0 => wal'[fresh].op = wal[fresh].op
    BY <1>10, <1>cur, <1>fresh, StatusUpdate DEF Inv, TypeOK, Status
  <2>2. CASE cur = fresh
    BY <1>10, <2>2 DEF Settled, MoveInv, Undisturbed
  <2>3. CASE cur # fresh
    BY <1>10, <2>1, <2>3, MoveFrame DEF Settled, Return
  <2> QED BY <2>2, <2>3
<1>11. CASE Complete \/ Fail
  BY <1>10, <1>11 DEF Complete, Fail, MarkCompleted, MarkFailed
<1>12. CASE Recover
  BY <1>12, MoveFrame DEF Recover, walVars
<1>13. CASE RecoverEntry
  <2>1. PICK i \in rest : cur' = i /\ pc' = Verdict(wal[i].op)
    BY <1>13 DEF RecoverEntry
  <2>2. wal' = wal /\ disk' = disk /\ fresh' = fresh /\ before' = before
    BY <1>13 DEF RecoverEntry, walVars
  <2>3. CASE i = fresh /\ Undisturbed("move")
    <3>1. /\ i \in DOMAIN wal /\ wal[i].op \in Operation
          /\ wal[i].op.src \in File /\ wal[i].op.dst \in File
      BY <2>3, OpFacts DEF Inv, TypeOK, WalTypeOK, Open, Position, Undisturbed, File
    <3>2. /\ wal[i].op.src # wal[i].op.dst => After[wal[i].op.src] = Absent
          /\ wal[i].op.src = wal[i].op.dst => After = before
          /\ After[wal[i].op.dst] = before[wal[i].op.src]
          /\ before[wal[i].op.src] # Absent
      BY <2>3, <3>1, MovedFacts DEF After, Undisturbed, Inv, TypeOK
    <3>3. CASE disk = before
      <4>1. pc' = "act"
        BY <2>1, <2>3, <3>2, <3>3 DEF Verdict, Exists, Undisturbed
      <4> QED BY <2>1, <2>2, <3>3, <4>1 DEF MoveInv, Undisturbed, After, Moved
    <3>4. CASE disk = After /\ disk # before
      <4>1. pc' = "complete"
        BY <2>1, <2>3, <3>2, <3>4 DEF Verdict, Exists, Undisturbed
      <4> QED BY <2>1, <2>2, <2>3, <3>4, <4>1 DEF MoveInv, Undisturbed, After, Moved
    <3> QED BY <2>3, <3>3, <3>4 DEF MoveInv
  <2>4. CASE ~Undisturbed("move")
    BY <2>2, <2>4 DEF MoveInv, Undisturbed
  <2>5. CASE i # fresh
    BY <2>1, <2>2, <2>5, MoveFrame
  <2> QED BY <2>3, <2>4, <2>5
<1>14. CASE RecoverReturns \/ WalError \/ Crash
  BY <1>14, MoveFrame DEF RecoverReturns, WalError, Crash, Return, walVars
<1>15. CASE Cleanup
  <2>1. PICK S \in SUBSET (DOMAIN wal \ Open) : CleanupCompleted(S)
    BY <1>15 DEF Cleanup
  <2>2. fresh # 0 => wal'[fresh] = wal[fresh]
    BY <2>1, <1>fresh DEF CleanupCompleted
  <2> QED
    BY <1>15, <2>2, MoveFrame DEF Cleanup, procVars
<1>16. CASE External
  BY <1>16 DEF External, MoveInv, Undisturbed
<1>17. CASE Tick
  BY <1>17, MoveFrame DEF Tick, walVars, procVars
<1>18. CASE UNCHANGED vars
  BY <1>18, MoveFrame DEF vars
<1> QED
  BY <1>2, <1>3, <1>4, <1>5, <1>6, <1>7, <1>8, <1>9, <1>11, <1>12, <1>13,
     <1>14, <1>15, <1>16, <1>17, <1>18 DEF Next, Program

-----------------------------------------------------------------------------
\* An entry is settled only by the last step of its own operation.
LEMMA OnlySettling ==
  ASSUME Inv, [Next]_vars, NEW i, NEW s \in {"completed", "failed"}, Settles(i, s)
  PROVE  /\ cur = i /\ disk' = disk
         /\ s = "completed" => Complete
         /\ s = "failed" => Fail
<1>open. i \in Open /\ i \in DOMAIN wal /\ wal[i].status \in {"pending", "executing"}
         /\ i \in DOMAIN wal' /\ wal'[i].status = s
  BY DEF Settles, Open
<1>cur. pc \notin {"idle", "scan"} => cur \in DOMAIN wal
  BY DEF Inv, Position, Open
<1>1. ASSUME wal' = wal PROVE FALSE
  BY <1>1, <1>open
<1>2. CASE HandleRename \/ HandleCopy \/ HandleUnlink \/ HandleWrite
  <2>1. PICK op : LogOperation(op)
    BY <1>2 DEF HandleRename, HandleCopy, HandleUnlink, HandleWrite, Handle
  <2>2. i # nextId
    BY <1>open DEF Inv, TypeOK, WalTypeOK
  <2> QED BY <2>1, <2>2, <1>open DEF LogOperation
<1>3. CASE StartExecuting
  <2>1. wal'[i].status = IF i = cur THEN "executing" ELSE wal[i].status
    BY <1>3, <1>open, <1>cur, StatusUpdate DEF StartExecuting, MarkExecuting, Inv, TypeOK, Status
  <2> QED BY <2>1, <1>open
<1>4. CASE Complete
  <2>1. wal'[i].status = IF i = cur THEN "completed" ELSE wal[i].status
    BY <1>4, <1>open, <1>cur, StatusUpdate DEF Complete, MarkCompleted, Inv, TypeOK, Status
  <2> QED BY <1>4, <2>1, <1>open DEF Complete
<1>5. CASE Fail
  <2>1. wal'[i].status = IF i = cur THEN "failed" ELSE wal[i].status
    BY <1>5, <1>open, <1>cur, StatusUpdate DEF Fail, MarkFailed, Inv, TypeOK, Status
  <2> QED BY <1>5, <2>1, <1>open DEF Fail
<1>6. CASE Cleanup
  <2>1. PICK S \in SUBSET (DOMAIN wal \ Open) : CleanupCompleted(S)
    BY <1>6 DEF Cleanup
  <2> QED BY <2>1, <1>open DEF CleanupCompleted
<1>7. CASE Rename \/ OpenTarget \/ FinishTarget \/ PrepareTrash \/ MoveToTrash \/ RemoveOriginal
  BY <1>1, <1>7 DEF Rename, OpenTarget, FinishTarget, PrepareTrash, MoveToTrash,
                    RemoveOriginal, walVars
<1>8. CASE Recover \/ RecoverEntry \/ RecoverReturns \/ WalError \/ Crash
  BY <1>1, <1>8 DEF Recover, RecoverEntry, RecoverReturns, WalError, Crash, walVars
<1>9. CASE External \/ Tick \/ UNCHANGED vars
  BY <1>1, <1>9 DEF External, Tick, walVars, vars
<1> QED
  BY <1>2, <1>3, <1>4, <1>5, <1>6, <1>7, <1>8, <1>9 DEF Next, Program

LEMMA MoveSettles ==
  ASSUME Inv, MoveInv, [Next]_vars, fresh # 0, wal[fresh].op.kind = "move",
         before[wal[fresh].op.src] # Absent
  PROVE  /\ Settles(fresh, "completed") => disk = Moved(before, wal[fresh].op.src, wal[fresh].op.dst)
         /\ Settles(fresh, "failed")    => disk = before
<1>1. ASSUME Settles(fresh, "completed")
      PROVE  disk = Moved(before, wal[fresh].op.src, wal[fresh].op.dst)
  <2>1. cur = fresh /\ Complete
    BY <1>1, OnlySettling
  <2> QED BY <2>1 DEF Complete, MoveInv, Undisturbed, After
<1>2. ASSUME Settles(fresh, "failed") PROVE disk = before
  <2>1. cur = fresh /\ Fail
    BY <1>2, OnlySettling
  <2> QED BY <2>1 DEF Fail, MoveInv, Undisturbed
<1> QED BY <1>1, <1>2

(* A move is all or nothing through any crashes, failing WAL statements    *)
(* and repeated recoveries (write_ops.rs:20-40, 147-163).                  *)
THEOREM MovesAreAtomic == Spec => MoveAtomic
<1>1. Init => MoveInv
  BY DEF Init, MoveInv, Undisturbed
<1>2. Inv /\ MoveInv /\ [Next]_vars =>
        [fresh # 0 =>
           LET op == wal[fresh].op IN
           op.kind = "move" /\ before[op.src] # Absent =>
             /\ Settles(fresh, "completed") => disk = Moved(before, op.src, op.dst)
             /\ Settles(fresh, "failed")    => disk = before]_vars
  BY MoveSettles
<1> QED
  BY <1>1, <1>2, InitInv, NextInv, MoveInvStep, PTL DEF Spec, MoveAtomic

-----------------------------------------------------------------------------
\* An undisturbed soft delete changes no file but its own. That file is as it
\* was until the rename or the removal, and from then on its content is in the
\* trash; between the two steps of the copy the data is in hand.
Deleted == wal[fresh].op.src

DeleteInv ==
  Undisturbed("delete") =>
    /\ \A p \in Path \ {Deleted} : disk[p] = before[p]
    /\ \/ disk[Deleted] = before[Deleted]
       \/ disk[Deleted] = Absent /\ \E k \in Trash : disk[k] = before[Deleted]
    /\ cur = fresh =>
         /\ pc \in {"logged", "act", "trash", "finish", "remove", "fail"} =>
              disk[Deleted] = before[Deleted]
         /\ pc = "finish" => disk[trashPath] = Torn /\ buf = before[Deleted]
         /\ pc = "remove" => disk[trashPath] = before[Deleted]
         /\ pc = "complete" => disk[Deleted] = Absent

LEMMA DeleteFrame ==
  ASSUME DeleteInv, fresh' = fresh, before' = before, disk' = disk,
         fresh # 0 => wal'[fresh].op = wal[fresh].op,
         \/ cur' # fresh
         \/ cur' = cur /\ pc' = pc /\ UNCHANGED <<buf, trashPath>>
         \/ /\ cur' = cur /\ pc \in {"logged", "act", "trash", "finish", "remove"}
            /\ pc' \in {"act", "trash", "fail"}
         \/ pc' \in {"idle", "scan"}
  PROVE  DeleteInv'
BY DEF DeleteInv, Undisturbed, Deleted

LEMMA DeleteTouch ==
  ASSUME Inv, DeleteInv, pc \notin {"idle", "scan"}, NEW d, Touch(d), UNCHANGED walVars,
         Op.kind # "delete", cur' = cur
  PROVE  DeleteInv'
<1>1. cur # 0
  BY DEF Inv, Position, Open, TypeOK, WalTypeOK
<1>2. CASE cur = fresh
  BY <1>1, <1>2 DEF Touch, walVars, DeleteInv, Undisturbed, Op
<1>3. CASE cur # fresh
  BY <1>1, <1>3 DEF Touch, DeleteInv, Undisturbed
<1> QED BY <1>2, <1>3

\* The steps of a soft delete on its own file.
LEMMA DeleteSteps ==
  ASSUME Inv, DeleteInv, MoveToTrash \/ (FinishTarget /\ Op.kind = "delete") \/ RemoveOriginal
  PROVE  DeleteInv'
<1> DEFINE s == Op.src
           t == trashPath
<1>1. /\ cur \in DOMAIN wal /\ cur # 0 /\ Op.kind = "delete" /\ t \in Trash
      /\ UNCHANGED walVars
  BY DEF MoveToTrash, FinishTarget, RemoveOriginal, Inv, Position, Open, TypeOK, WalTypeOK
<1>2. s \in Path /\ s \in File /\ t \in File /\ t \notin Path /\ s # t
  BY <1>1, OpFacts, PathAssumption DEF Inv, TypeOK, WalTypeOK, Op, File
<1>3. disk \in [File -> Value] /\ wal' = wal /\ Path \subseteq File
  BY <1>1 DEF Inv, TypeOK, walVars, File
<1>4. ASSUME cur # fresh, NEW d, Touch(d) PROVE DeleteInv'
  BY <1>4 DEF Touch, DeleteInv, Undisturbed
<1>5. CASE Goto("fail") /\ UNCHANGED <<disk, fresh, before>>
  BY <1>3, <1>5, DeleteFrame DEF Goto, MoveToTrash, FinishTarget, RemoveOriginal
<1>6. ASSUME cur = fresh, cur' = cur, UNCHANGED <<fresh, before>>,
             Undisturbed("delete") =>
               /\ \A p \in Path \ {s} : disk'[p] = before[p]
               /\ \/ disk'[s] = before[s]
                  \/ disk'[s] = Absent /\ \E k \in Trash : disk'[k] = before[s]
               /\ \/ pc' = "finish" /\ disk'[s] = before[s] /\ disk'[trashPath'] = Torn
                                    /\ buf' = before[s]
                  \/ pc' = "remove" /\ disk'[s] = before[s] /\ disk'[trashPath'] = before[s]
                  \/ pc' = "complete" /\ disk'[s] = Absent
      PROVE  DeleteInv'
  BY <1>3, <1>6 DEF DeleteInv, Undisturbed, Deleted, Op
<1>7. ASSUME cur = fresh, Undisturbed("delete"), pc \in {"trash", "finish", "remove"}
      PROVE  /\ Deleted = s /\ disk[s] = before[s] /\ before[s] # Absent
             /\ \A p \in Path \ {s} : disk[p] = before[p]
             /\ pc = "finish" => disk[t] = Torn /\ buf = before[s]
             /\ pc = "remove" => disk[t] = before[s]
  BY <1>7 DEF DeleteInv, Undisturbed, Deleted, Op
<1>8. CASE MoveToTrash
  <2>1. CASE Touch(Moved(disk, s, t)) /\ Goto("complete")
    <3>1. Moved(disk, s, t) = [disk EXCEPT ![t] = disk[s], ![s] = Absent]
      BY <1>2 DEF Moved
    <3>2. CASE cur = fresh
      <4>1. /\ disk' = [disk EXCEPT ![t] = disk[s], ![s] = Absent]
            /\ pc' = "complete" /\ cur' = cur /\ UNCHANGED <<fresh, before>>
        BY <2>1, <3>1, <3>2 DEF Touch, Goto
      <4>2. disk'[s] = Absent /\ disk'[t] = disk[s] /\ \A p \in Path \ {s} : disk'[p] = disk[p]
        BY <1>2, <1>3, <4>1
      <4>3. pc \in {"trash", "finish", "remove"}
        BY <1>8 DEF MoveToTrash
      <4> QED BY <1>1, <1>6, <1>7, <3>2, <4>1, <4>2, <4>3
    <3> QED BY <1>4, <2>1, <3>2
  <2>2. CASE /\ Touch([disk EXCEPT ![t] = Torn]) /\ buf' = disk[s] /\ pc' = "finish"
             /\ UNCHANGED <<cur, trashPath, recovering, rest>>
    <3>1. CASE cur = fresh
      <4>1. disk' = [disk EXCEPT ![t] = Torn] /\ UNCHANGED <<fresh, before>>
        BY <2>2, <3>1 DEF Touch
      <4>2. disk'[t] = Torn /\ \A p \in Path : disk'[p] = disk[p]
        BY <1>2, <1>3, <4>1
      <4>3. pc \in {"trash", "finish", "remove"}
        BY <1>8 DEF MoveToTrash
      <4> QED BY <1>2, <1>6, <1>7, <2>2, <3>1, <4>1, <4>2, <4>3
    <3> QED BY <1>4, <2>2, <3>1
  <2> QED BY <1>5, <1>8, <2>1, <2>2 DEF MoveToTrash
<1>9. CASE FinishTarget /\ Op.kind = "delete"
  <2>0. Target = t
    BY <1>9 DEF Target
  <2>1. CASE /\ Touch(IF disk[t] = Torn THEN [disk EXCEPT ![t] = buf] ELSE disk)
             /\ Goto("remove")
    <3>1. CASE cur = fresh
      <4>1. /\ disk' = IF disk[t] = Torn THEN [disk EXCEPT ![t] = buf] ELSE disk
            /\ pc' = "remove" /\ cur' = cur /\ trashPath' = t /\ UNCHANGED <<fresh, before>>
        BY <2>1, <3>1 DEF Touch, Goto
      <4>2. (disk[t] = Torn => disk'[t] = buf) /\ \A p \in Path : disk'[p] = disk[p]
        BY <1>2, <1>3, <4>1
      <4>3. pc = "finish"
        BY <1>9 DEF FinishTarget
      <4> QED BY <1>2, <1>6, <1>7, <3>1, <4>1, <4>2, <4>3
    <3> QED BY <1>4, <2>1, <3>1
  <2> QED BY <1>5, <1>9, <2>0, <2>1 DEF FinishTarget, OnDataError
<1>10. CASE RemoveOriginal
  <2>1. CASE Touch([disk EXCEPT ![s] = Absent]) /\ Goto("complete")
    <3>1. CASE cur = fresh
      <4>1. /\ disk' = [disk EXCEPT ![s] = Absent]
            /\ pc' = "complete" /\ cur' = cur /\ UNCHANGED <<fresh, before>>
        BY <2>1, <3>1 DEF Touch, Goto
      <4>2. disk'[s] = Absent /\ disk'[t] = disk[t] /\ \A p \in Path \ {s} : disk'[p] = disk[p]
        BY <1>2, <1>3, <4>1
      <4>3. pc = "remove"
        BY <1>10 DEF RemoveOriginal
      <4> QED BY <1>1, <1>6, <1>7, <3>1, <4>1, <4>2, <4>3
    <3> QED BY <1>4, <2>1, <3>1
  <2> QED BY <1>5, <1>10, <2>1 DEF RemoveOriginal
<1> QED BY <1>8, <1>9, <1>10

LEMMA DeleteInvStep == Inv /\ DeleteInv /\ [Next]_vars => DeleteInv'
<1> SUFFICES ASSUME Inv, DeleteInv, [Next]_vars PROVE DeleteInv'
  OBVIOUS
<1>fresh. fresh # 0 => fresh \in Open /\ fresh \in DOMAIN wal
  BY DEF Inv, TypeOK, Open
<1>cur. pc \notin {"idle", "scan"} => cur \in Open /\ cur \in DOMAIN wal /\ cur # 0
  BY DEF Inv, Position, Open, TypeOK, WalTypeOK
<1>1. ASSUME NEW op \in Operation, NEW data, Handle(op, data) PROVE DeleteInv'
  <2>1. nextId \notin DOMAIN wal /\ nextId # 0
    BY DEF Inv, TypeOK, WalTypeOK
  <2> QED
    BY <1>1, <2>1 DEF Handle, DeleteInv, Undisturbed, Deleted
<1>2. CASE HandleRename \/ HandleCopy \/ HandleUnlink \/ HandleWrite
  BY <1>1, <1>2 DEF HandleRename, HandleCopy, HandleUnlink, HandleWrite, Operation
<1>3. CASE StartExecuting
  <2>1. fresh # 0 => wal'[fresh].op = wal[fresh].op
    BY <1>3, <1>cur, <1>fresh, StatusUpdate
       DEF StartExecuting, MarkExecuting, Inv, TypeOK, Status
  <2> QED
    BY <1>3, <2>1, DeleteFrame DEF StartExecuting, Goto
<1>4. CASE Rename
  <2>1. CASE Touch(Moved(disk, Op.src, Op.dst)) /\ Goto("complete")
    BY <1>4, <2>1, DeleteTouch DEF Rename, Goto
  <2>2. CASE Goto("fail") /\ UNCHANGED <<disk, fresh, before>>
    BY <1>4, <2>2, DeleteFrame DEF Rename, Goto, walVars
  <2> QED BY <1>4, <2>1, <2>2 DEF Rename
<1>5. CASE OpenTarget
  <2>1. CASE Touch([disk EXCEPT ![Target] = Torn]) /\ UNCHANGED cur
    BY <1>5, <2>1, DeleteTouch DEF OpenTarget
  <2>2. CASE Goto("fail") /\ UNCHANGED <<disk, fresh, before>>
    BY <1>5, <2>2, DeleteFrame DEF OpenTarget, Goto, walVars
  <2> QED BY <1>5, <2>1, <2>2 DEF OpenTarget
<1>6. CASE FinishTarget /\ Op.kind # "delete"
  <2>1. CASE /\ Touch(IF disk[Target] = Torn THEN [disk EXCEPT ![Target] = buf] ELSE disk)
             /\ UNCHANGED cur
    BY <1>6, <2>1, DeleteTouch DEF FinishTarget
  <2>2. CASE Goto("fail") /\ UNCHANGED <<disk, fresh, before>>
    BY <1>6, <2>2, DeleteFrame DEF FinishTarget, Goto, walVars
  <2> QED BY <1>6, <2>1, <2>2 DEF FinishTarget, OnDataError, Goto
<1>7. CASE PrepareTrash
  <2>1. CASE pc' = "trash" /\ cur' = cur
    BY <1>7, <2>1, DeleteFrame DEF PrepareTrash, walVars
  <2>2. CASE Return
    BY <1>7, <2>2, DeleteFrame DEF PrepareTrash, Return, walVars
  <2> QED BY <1>7, <2>1, <2>2 DEF PrepareTrash
<1>8. ASSUME NEW s \in {"completed", "failed"}, SetStatus(cur, s), Settled,
              pc \in {"complete", "fail"}, UNCHANGED disk
       PROVE DeleteInv'
  <2>1. fresh # 0 => wal'[fresh].op = wal[fresh].op
    BY <1>8, <1>cur, <1>fresh, StatusUpdate DEF Inv, TypeOK, Status
  <2>2. CASE cur = fresh
    BY <1>8, <2>2 DEF Settled, DeleteInv, Undisturbed
  <2>3. CASE cur # fresh
    BY <1>8, <2>1, <2>3, DeleteFrame DEF Settled, Return
  <2> QED BY <2>2, <2>3
<1>9. CASE Complete \/ Fail
  BY <1>8, <1>9 DEF Complete, Fail, MarkCompleted, MarkFailed
<1>10. CASE Recover \/ RecoverReturns \/ WalError \/ Crash
  BY <1>10, DeleteFrame DEF Recover, RecoverReturns, WalError, Crash, Return, walVars
<1>11. CASE RecoverEntry
  <2>1. PICK i \in rest : cur' = i /\ pc' = Verdict(wal[i].op)
    BY <1>11 DEF RecoverEntry
  <2>2. wal' = wal /\ disk' = disk /\ fresh' = fresh /\ before' = before
    BY <1>11 DEF RecoverEntry, walVars
  <2>3. CASE i = fresh /\ Undisturbed("delete")
    <3>1. pc' = IF disk[Deleted] # Absent THEN "fail" ELSE "complete"
      BY <2>1, <2>3 DEF Verdict, Exists, Undisturbed, Deleted
    <3>2. disk[Deleted] # Absent => disk[Deleted] = before[Deleted]
      BY <2>3 DEF DeleteInv
    <3> QED BY <2>1, <2>2, <2>3, <3>1, <3>2 DEF DeleteInv, Undisturbed, Deleted
  <2>4. CASE ~Undisturbed("delete")
    BY <2>2, <2>4 DEF DeleteInv, Undisturbed
  <2>5. CASE i # fresh
    BY <2>1, <2>2, <2>5, DeleteFrame
  <2> QED BY <2>3, <2>4, <2>5
<1>12. CASE Cleanup
  <2>1. PICK S \in SUBSET (DOMAIN wal \ Open) : CleanupCompleted(S)
    BY <1>12 DEF Cleanup
  <2>2. fresh # 0 => wal'[fresh] = wal[fresh]
    BY <2>1, <1>fresh DEF CleanupCompleted
  <2> QED
    BY <1>12, <2>2, DeleteFrame DEF Cleanup, procVars
<1>13. CASE External
  BY <1>13 DEF External, DeleteInv, Undisturbed
<1>14. CASE Tick \/ UNCHANGED vars
  BY <1>14, DeleteFrame DEF Tick, walVars, procVars, vars
<1> QED
  BY <1>2, <1>3, <1>4, <1>5, <1>6, <1>7, <1>9, <1>10, <1>11, <1>12, <1>13, <1>14,
     DeleteSteps DEF Next, Program

(* A soft delete never destroys what it deletes, through any crashes,      *)
(* failing WAL statements and repeated recoveries: completed means that    *)
(* the file is gone and its content in the trash, failed that no file of   *)
(* the directory changed (write_ops.rs:66-111, 178-184).                   *)
THEOREM DeletesAreAtomic == Spec => DeleteAtomic
<1>1. Init => DeleteInv
  BY DEF Init, DeleteInv, Undisturbed
<1> DEFINE A == fresh # 0 =>
                  LET op == wal[fresh].op IN
                  op.kind = "delete" /\ before[op.src] # Absent =>
                    /\ Settles(fresh, "completed") =>
                         disk[op.src] = Absent /\ \E k \in Trash : disk[k] = before[op.src]
                    /\ Settles(fresh, "failed") => \A p \in Path : disk[p] = before[p]
<1>2. ASSUME Inv, DeleteInv, [Next]_vars PROVE [A]_vars
  <2> SUFFICES ASSUME Undisturbed("delete")
               PROVE  /\ Settles(fresh, "completed") =>
                           /\ disk[Deleted] = Absent
                           /\ \E k \in Trash : disk[k] = before[Deleted]
                      /\ Settles(fresh, "failed") => \A p \in Path : disk[p] = before[p]
    BY DEF Undisturbed, Deleted
  <2>1. ASSUME Settles(fresh, "completed")
        PROVE  disk[Deleted] = Absent /\ \E k \in Trash : disk[k] = before[Deleted]
    <3>1. cur = fresh /\ pc = "complete"
      BY <1>2, <2>1, OnlySettling DEF Complete
    <3> QED BY <1>2, <3>1 DEF DeleteInv, Undisturbed, Deleted
  <2>2. ASSUME Settles(fresh, "failed"), NEW p \in Path PROVE disk[p] = before[p]
    <3>1. cur = fresh /\ pc = "fail"
      BY <1>2, <2>2, OnlySettling DEF Fail
    <3> QED BY <1>2, <3>1 DEF DeleteInv
  <2> QED BY <2>1, <2>2
<1>3. Spec => [][A]_vars
  BY <1>1, <1>2, InitInv, NextInv, DeleteInvStep, PTL DEF Spec
<1> QED BY <1>3 DEF DeleteAtomic

-----------------------------------------------------------------------------
\* The log's own promise.

LEMMA LogInit == Init => Log!Init
<1> SUFFICES ASSUME Init PROVE Log!Init
  OBVIOUS
<1>1. wal = << >> /\ nextId = 1 /\ DOMAIN wal = {}
  BY DEF Init, WalInit
<1>2. [i \in DOMAIN wal |-> wal[i].op] = << >>
  BY <1>1
<1>3. [i \in DOMAIN wal |-> VerdictOf(wal[i].status)] = << >>
  BY <1>1
<1> QED BY <1>1, <1>2, <1>3 DEF Log!Init

\* Settling an entry is settling it in the promise.
LEMMA LogSettle ==
  ASSUME WalTypeOK, NEW i \in Open, NEW s \in {"completed", "failed"}, SetStatus(i, s)
  PROVE  Log!Settle(i, VerdictOf(s))
<1>1. i \in DOMAIN wal /\ VerdictOf(wal[i].status) = "open"
  BY DEF Open, VerdictOf
<1>2. /\ DOMAIN wal' = DOMAIN wal
      /\ \A j \in DOMAIN wal : wal'[j].op = wal[j].op
      /\ \A j \in DOMAIN wal : wal'[j].status = IF j = i THEN s ELSE wal[j].status
  BY <1>1, StatusUpdate DEF Status
<1>3. [j \in DOMAIN wal' |-> wal'[j].op] = [j \in DOMAIN wal |-> wal[j].op]
  BY <1>2
<1>4. [j \in DOMAIN wal' |-> VerdictOf(wal'[j].status)]
        = [[j \in DOMAIN wal |-> VerdictOf(wal[j].status)] EXCEPT ![i] = VerdictOf(s)]
  BY <1>1, <1>2
<1>5. nextId' = nextId
  BY DEF SetStatus
<1> QED BY <1>1, <1>3, <1>4, <1>5 DEF Log!Settle

LEMMA LogStep == Inv /\ [Next]_vars => [Log!Next]_(Log!vars)
<1> SUFFICES ASSUME Inv, [Next]_vars PROVE [Log!Next]_(Log!vars)
  OBVIOUS
<1>cur. pc \notin {"idle", "scan"} => cur \in Open /\ cur \in DOMAIN wal
  BY DEF Inv, Position, Open
<1>type. WalTypeOK
  BY DEF Inv, TypeOK
<1>1. ASSUME NEW op \in Operation, LogOperation(op) PROVE Log!Next
  <2>1. nextId - 1 + 1 = nextId /\ nextId' - 1 = nextId
    BY <1>1, <1>type DEF LogOperation, WalTypeOK
  <2>2. /\ DOMAIN wal' = DOMAIN wal \cup {nextId}
        /\ \A j \in DOMAIN wal : wal'[j] = wal[j]
        /\ wal'[nextId] = [op |-> op, status |-> "pending"]
        /\ nextId \notin DOMAIN wal
    BY <1>1, <1>type, Logged
  <2>3. [j \in DOMAIN wal' |-> wal'[j].op]
          = [j \in DOMAIN [k \in DOMAIN wal |-> wal[k].op] \cup {nextId} |->
               IF j = nextId THEN op ELSE [k \in DOMAIN wal |-> wal[k].op][j]]
    BY <2>2
  <2>4. VerdictOf("pending") = "open"
    BY DEF VerdictOf
  <2>5. [j \in DOMAIN wal' |-> VerdictOf(wal'[j].status)]
          = [j \in DOMAIN [k \in DOMAIN wal |-> VerdictOf(wal[k].status)] \cup {nextId} |->
               IF j = nextId THEN "open" ELSE [k \in DOMAIN wal |-> VerdictOf(wal[k].status)][j]]
    BY <2>2, <2>4
  <2>6. Log!Announce(op)
    BY <2>1, <2>3, <2>5 DEF Log!Announce
  <2> QED BY <2>6 DEF Log!Next
<1>2. CASE HandleRename \/ HandleCopy \/ HandleUnlink \/ HandleWrite
  <2>1. PICK op \in Operation : LogOperation(op)
    BY <1>2 DEF HandleRename, HandleCopy, HandleUnlink, HandleWrite, Handle, Operation
  <2> QED BY <2>1, <1>1
<1>3. CASE StartExecuting
  <2>1. /\ DOMAIN wal' = DOMAIN wal
        /\ \A j \in DOMAIN wal : wal'[j].op = wal[j].op
        /\ \A j \in DOMAIN wal : wal'[j].status = IF j = cur THEN "executing" ELSE wal[j].status
        /\ nextId' = nextId
    BY <1>3, <1>cur, <1>type, StatusUpdate DEF StartExecuting, MarkExecuting, SetStatus, Status
  <2>2. \A j \in DOMAIN wal : VerdictOf(wal'[j].status) = VerdictOf(wal[j].status)
    BY <1>3, <1>cur, <2>1 DEF StartExecuting, Open, VerdictOf
  <2>3. [j \in DOMAIN wal' |-> wal'[j].op] = [j \in DOMAIN wal |-> wal[j].op]
    BY <2>1
  <2>4. [j \in DOMAIN wal' |-> VerdictOf(wal'[j].status)] = [j \in DOMAIN wal |-> VerdictOf(wal[j].status)]
    BY <2>1, <2>2
  <2> QED BY <2>1, <2>3, <2>4 DEF Log!vars
<1>4. CASE Complete \/ Fail
  <2>1. PICK s \in {"completed", "failed"} : SetStatus(cur, s)
    BY <1>4 DEF Complete, Fail, MarkCompleted, MarkFailed
  <2>2. cur \in Open /\ cur \in DOMAIN wal
    BY <1>4, <1>cur DEF Complete, Fail
  <2>3. Log!Settle(cur, VerdictOf(s))
    BY <2>1, <2>2, <1>type, LogSettle
  <2>4. VerdictOf(s) \in {"done", "failed"}
    BY DEF VerdictOf
  <2>5. DOMAIN [j \in DOMAIN wal |-> VerdictOf(wal[j].status)] = DOMAIN wal
    OBVIOUS
  <2> QED BY <2>2, <2>3, <2>4, <2>5 DEF Log!Next
<1>5. CASE Cleanup
  <2>1. PICK S \in SUBSET (DOMAIN wal \ Open) : CleanupCompleted(S)
    BY <1>5 DEF Cleanup
  <2>2. /\ \A j \in S : wal[j].status = "completed"
        /\ DOMAIN wal' = DOMAIN wal \ S /\ \A j \in DOMAIN wal \ S : wal'[j] = wal[j]
        /\ nextId' = nextId
    BY <2>1 DEF CleanupCompleted
  <2>3. \A j \in S : [k \in DOMAIN wal |-> VerdictOf(wal[k].status)][j] = "done"
    BY <2>1, <2>2 DEF VerdictOf
  <2>4. [j \in DOMAIN wal' |-> wal'[j].op]
          = [j \in DOMAIN [k \in DOMAIN wal |-> wal[k].op] \ S |-> [k \in DOMAIN wal |-> wal[k].op][j]]
    BY <2>2
  <2>5. [j \in DOMAIN wal' |-> VerdictOf(wal'[j].status)]
          = [j \in DOMAIN [k \in DOMAIN wal |-> VerdictOf(wal[k].status)] \ S |->
               [k \in DOMAIN wal |-> VerdictOf(wal[k].status)][j]]
    BY <2>2
  <2>6. Log!Forget(S) /\ S \in SUBSET DOMAIN [j \in DOMAIN wal |-> VerdictOf(wal[j].status)]
    BY <2>1, <2>2, <2>3, <2>4, <2>5 DEF Log!Forget
  <2> QED BY <2>6 DEF Log!Next
<1>6. ASSUME wal' = wal, nextId' = nextId PROVE UNCHANGED Log!vars
  BY <1>6 DEF Log!vars
<1>7. CASE Rename \/ OpenTarget \/ FinishTarget \/ PrepareTrash \/ MoveToTrash \/ RemoveOriginal
  BY <1>6, <1>7 DEF Rename, OpenTarget, FinishTarget, PrepareTrash, MoveToTrash,
                    RemoveOriginal, walVars
<1>8. CASE Recover \/ RecoverEntry \/ RecoverReturns \/ WalError \/ Crash
  BY <1>6, <1>8 DEF Recover, RecoverEntry, RecoverReturns, WalError, Crash, walVars
<1>9. CASE External \/ Tick \/ UNCHANGED vars
  BY <1>6, <1>9 DEF External, Tick, walVars, vars
<1> QED
  BY <1>2, <1>3, <1>4, <1>5, <1>7, <1>8, <1>9 DEF Next, Program

(* The handlers, the crashes and the recoveries implement the log's        *)
(* promise: announced once, settled once, never unsettled (wal.rs).        *)
THEOREM LogRefined == Spec => LogRefinement
BY LogInit, LogStep, InitInv, NextInv, PTL DEF Spec, LogRefinement, Log!Spec

-----------------------------------------------------------------------------
\* What recover() has in hand is the oldest unsettled entry, and if that is a
\* write it has already been judged failed.
InHand ==
  recovering /\ cur # 0 =>
    /\ Op.kind = "write" => pc = "fail"
    /\ \A j \in Open : cur <= j

LEMMA InHandStep == Inv /\ InHand /\ [Next]_vars => InHand'
<1> SUFFICES ASSUME Inv, InHand, [Next]_vars PROVE InHand'
  OBVIOUS
<1>cur. pc \notin {"idle", "scan"} => cur \in Open /\ cur \in DOMAIN wal /\ cur # 0
  BY DEF Inv, Position, Open, TypeOK, WalTypeOK
<1>1. CASE HandleRename \/ HandleCopy \/ HandleUnlink \/ HandleWrite
  <2>1. ~recovering'
    BY <1>1 DEF HandleRename, HandleCopy, HandleUnlink, HandleWrite, Handle, Inv, Position
  <2> QED BY <2>1 DEF InHand
<1>2. CASE StartExecuting
  <2>1. ~recovering \/ Op.kind # "write"
    BY <1>2, <1>cur DEF StartExecuting, InHand
  <2>2. /\ DOMAIN wal' = DOMAIN wal
        /\ \A j \in DOMAIN wal : wal'[j].op = wal[j].op
        /\ \A j \in DOMAIN wal : wal'[j].status = IF j = cur THEN "executing" ELSE wal[j].status
    BY <1>2, <1>cur, StatusUpdate DEF StartExecuting, MarkExecuting, Inv, TypeOK, Status
  <2>3. Open' = Open /\ Op' = Op
    BY <1>2, <1>cur, <2>2 DEF Open, Op, StartExecuting, Goto
  <2> QED BY <1>2, <1>cur, <2>1, <2>3 DEF StartExecuting, Goto, InHand
<1>3. CASE Rename \/ OpenTarget \/ PrepareTrash \/ MoveToTrash \/ FinishTarget \/ RemoveOriginal
  <2>1. recovering /\ Op.kind = "write" => FALSE
    BY <1>3, <1>cur DEF Rename, OpenTarget, PrepareTrash, MoveToTrash, FinishTarget,
                       RemoveOriginal, InHand
  <2>2. CASE Return
    BY <2>2 DEF Return, InHand
  <2>3. CASE wal' = wal /\ cur' = cur /\ recovering' = recovering
    BY <2>1, <2>3 DEF InHand, Op, Open
  <2> QED
    BY <1>3, <2>2, <2>3 DEF Rename, OpenTarget, PrepareTrash, MoveToTrash, FinishTarget,
                            RemoveOriginal, Goto, walVars
<1>4. CASE Complete \/ Fail
  BY <1>4 DEF Complete, Fail, Settled, Return, InHand
<1>5. CASE Recover
  <2>1. cur' = 0
    BY <1>5 DEF Recover, Inv, Position
  <2> QED BY <2>1 DEF InHand
<1>6. CASE RecoverEntry
  <2>1. PICK i \in rest : IsNext(i, rest) /\ cur' = i /\ pc' = Verdict(wal[i].op)
    BY <1>6 DEF RecoverEntry
  <2>2. wal' = wal /\ Open' = Open
    BY <1>6 DEF RecoverEntry, walVars, Open
  <2>3. Open \subseteq rest
    BY <1>6 DEF RecoverEntry, Inv, RecoverCovers, Position, TypeOK, WalTypeOK, Open
  <2>4. \A j \in Open : i <= j
    BY <2>1, <2>3 DEF IsNext
  <2>5. wal[i].op.kind = "write" => Verdict(wal[i].op) = "fail"
    BY DEF Verdict
  <2> QED BY <2>1, <2>2, <2>4, <2>5 DEF InHand, Op
<1>7. CASE RecoverReturns \/ WalError \/ Crash
  BY <1>7 DEF RecoverReturns, WalError, Crash, Return, InHand
<1>8. CASE Cleanup
  <2>1. cur' = 0
    BY <1>8 DEF Cleanup, procVars, Inv, Position
  <2> QED BY <2>1 DEF InHand
<1>9. CASE External \/ Tick \/ UNCHANGED vars
  BY <1>9 DEF External, Tick, walVars, procVars, vars, InHand, Op, Open
<1> QED
  BY <1>1, <1>2, <1>3, <1>4, <1>5, <1>6, <1>7, <1>8, <1>9 DEF Next, Program

LEMMA InHandInit == Init => InHand
BY DEF Init, InHand

(* Recovery never certifies an interrupted write, whatever the number of   *)
(* crashes, of recoveries and of files (write_ops.rs:185).                 *)
THEOREM WritesAreNotForged == Spec => WriteNotForged
<1>1. Inv /\ InHand /\ [Next]_vars =>
        [recovering => \A i \in Open :
           wal[i].op.kind = "write" => ~Settles(i, "completed")]_vars
  <2> SUFFICES ASSUME Inv, InHand, [Next]_vars, recovering, NEW i \in Open,
                      wal[i].op.kind = "write", Settles(i, "completed")
               PROVE  FALSE
    OBVIOUS
  <2>1. cur = i /\ Complete
    BY OnlySettling
  <2> QED BY <2>1 DEF Complete, InHand, Op, Inv, Position, Open, TypeOK, WalTypeOK
<1> QED BY <1>1, InitInv, NextInv, InHandInit, InHandStep, PTL DEF Spec, WriteNotForged

(* recover() settles the entries oldest first, also those of different     *)
(* process lifetimes (wal.rs:119, write_ops.rs:139).                       *)
THEOREM RecoveryIsOrdered == Spec => RecoverInOrder
<1>1. Inv /\ InHand /\ [Next]_vars =>
        [recovering => \A i, j \in Open :
           (Settles(i, "completed") \/ Settles(i, "failed")) => i <= j]_vars
  <2> SUFFICES ASSUME Inv, InHand, [Next]_vars, recovering, NEW i \in Open, NEW j \in Open,
                      Settles(i, "completed") \/ Settles(i, "failed")
               PROVE  i <= j
    OBVIOUS
  <2>1. cur = i
    BY OnlySettling
  <2>2. cur # 0
    BY <2>1 DEF Open, Inv, TypeOK, WalTypeOK
  <2> QED BY <2>1, <2>2 DEF InHand
<1> QED BY <1>1, InitInv, NextInv, InHandInit, InHandStep, PTL DEF Spec, RecoverInOrder
=============================================================================
