--------------------------- MODULE CommandsProofs ---------------------------
(***************************************************************************)
(* Proofs about Commands, for any processes, files, models, settings and   *)
(* bounds.                                                                 *)
(***************************************************************************)
EXTENDS Commands, WellFoundedInduction, TLAPS

\* What a run is doing at which step: a batch waits only while it indexes, and
\* within process_file it has a file that it took from those to do.
Placed(job) ==
  /\ job.cmd = "set" <=> job.pc \in {"set", "write"}
  /\ job.pc \in {"detect", "open"} => job.cmd \in {"index", "mount", "search"}
  /\ job.batch # {} => job.pc \in Indexing
  /\ IF job.pc \in Indexing \ {"files"} THEN job.file \in File ELSE job.file = NoFile
  /\ job.file \notin job.todo
  /\ job.pc \in {"look", "drop", "dropvec", "insert"} => job.hash # 0
  /\ job.pc = "chunks" => job.row # 0

Position == \A p \in Process : Placed(proc[p]) /\ proc[p].row < nextId

Typed == TypeOK /\ Position

-----------------------------------------------------------------------------
LEMMA ModelFacts ==
  /\ \A m \in Model : Length[m] \in Nat \ {0}
  /\ \A s \in Settings : s["dims"] \in Nat \ {0}
BY LengthAssumption, CommandsAssumption DEF Settings

LEMMA IdleFacts == Idle \in Job /\ Unwritten \in Store
<1>1. MaxVersion \in Nat
  BY CommandsAssumption
<1> QED BY <1>1, ConfigAssumption DEF Idle, Job, Embedder, Unwritten, Store

LEMMA IdlePlaced ==
  Placed(Idle) /\ Idle.batch = {} /\ Idle.store.vectors = {} /\ Idle.row = 0
BY DEF Placed, Idle, Unwritten, Indexing

\* What the operators on a store give.
LEMMA StoreFacts ==
  ASSUME NEW s \in Store
  PROVE  /\ \A b \in SUBSET Vector :
              /\ With(s, b) \in Store /\ With(s, b).dims = s.dims
              /\ With(s, b).vectors = s.vectors \cup b
         /\ \A i \in Nat :
              /\ Without(s, i) \in Store /\ Without(s, i).dims = s.dims
              /\ Without(s, i).vectors = {v \in s.vectors : v.id # i}
BY DEF Store, With, Without

LEMMA OpenFacts ==
  ASSUME vfile \in Store, NEW d \in Nat
  PROVE  /\ Opened(d) \in Store /\ Opened(d).dims = d
         /\ Opened(d) = vfile \/ (Opened(d).vectors = {} /\ vfile.dims # d)
BY DEF Store, Opened, Empty

LEMMA LoadFacts == ConfigTypeOK => Load \in Settings
BY ConfigAssumption DEF ConfigTypeOK, Load

LEMMA SetKeyFacts ==
  ASSUME NEW s \in Settings, NEW k \in Key, NEW v \in Value[k]
  PROVE  SetKey(s, k, v) \in Settings
<1> DEFINE values == UNION {Value[j] : j \in Key}
<1>1. s \in [Key -> values] /\ \A j \in Key : s[j] \in Value[j]
  BY DEF Settings
<1>2. v \in values
  OBVIOUS
<1>3. SetKey(s, k, v) \in [Key -> values]
  <2> HIDE DEF values
  <2> QED BY <1>1, <1>2 DEF SetKey
<1>4. \A j \in Key : SetKey(s, k, v)[j] \in Value[j]
  BY <1>1 DEF SetKey
<1> QED BY <1>3, <1>4 DEF Settings

LEMMA DetectFacts == AutoDetect \in Embedder
<1> DEFINE answers == {i \in 1..Len(Preference) : Preference[i] \in served}
<1>1. CASE answers = {}
  BY <1>1 DEF AutoDetect, Embedder
<1>2. CASE answers # {}
  <2> DEFINE first == CHOOSE i \in answers : \A j \in answers : i <= j
  <2>1. \E i \in answers : \A j \in answers : i <= j
    <3> DEFINE less == OpToRel(<, Nat)
    <3>0. answers \subseteq Nat
      OBVIOUS
    <3>1. \A i, j \in answers : <<i, j>> \in less <=> i < j
      BY DEF OpToRel
    <3>2. \E i \in answers : \A j \in answers : ~ (<<j, i>> \in less)
      <4>1. IsWellFoundedOn(less, Nat)
        BY NatLessThanWellFounded
      <4> HIDE DEF less, answers
      <4> QED BY <1>2, <3>0, <4>1, WFMin
    <3>3. PICK i \in answers : \A j \in answers : ~ (<<j, i>> \in less)
      BY <3>2
    <3>4. \A j \in answers : ~ (j < i)
      BY <3>1, <3>3
    <3>5. \A j \in answers : i <= j
      BY <3>0, <3>4
    <3> QED BY <3>5
  <2>2. first \in answers
    BY <2>1
  <2> QED BY <1>2, <2>2, CommandsAssumption DEF AutoDetect, Embedder
<1> QED BY <1>1, <1>2

-----------------------------------------------------------------------------
\* A step of p that leaves the files of the vectors and the rows alone.
LEMMA TypedJob ==
  ASSUME Typed, NEW p \in Process, NEW job \in Job, Placed(job), job.row < nextId,
         proc' = [proc EXCEPT ![p] = job],
         \A v \in job.batch \cup job.store.vectors : v.id < nextId,
         UNCHANGED <<vfile, disk, rows, nextId, served>>,
         ConfigTypeOK', lastSet' \in Settings,
         fresh' \in [Process -> BOOLEAN], calm' \in BOOLEAN, mixed' \in BOOLEAN
  PROVE  Typed'
<1>1. \A q \in Process : proc'[q] = IF q = p THEN job ELSE proc[q]
  BY DEF Typed, TypeOK
<1>2. proc' \in [Process -> Job]
  BY DEF Typed, TypeOK
<1>3. Position'
  BY <1>1 DEF Typed, Position
<1>4. \A q \in Process :
        \A v \in proc'[q].batch \cup proc'[q].store.vectors \cup vfile'.vectors : v.id < nextId'
  BY <1>1 DEF Typed, TypeOK
<1>5. rows' \in [DOMAIN rows' -> Row']
  BY DEF Typed, TypeOK, Row
<1> QED BY <1>2, <1>3, <1>4, <1>5 DEF Typed, TypeOK

LEMMA InitTyped == Init => Typed
<1> SUFFICES ASSUME Init PROVE Typed
  OBVIOUS
<1>1. proc \in [Process -> Job] /\ Position
  BY IdleFacts, IdlePlaced DEF Init, Position
<1>2. vfile \in Store /\ vfile.dims = 0 /\ vfile.vectors = {}
  BY IdleFacts DEF Init, Unwritten
<1>3. \A p \in Process :
        \A v \in proc[p].batch \cup proc[p].store.vectors \cup vfile.vectors : v.id < nextId
  BY <1>2 DEF Init, Idle, Unwritten
<1>4. disk \in [File -> 1..MaxVersion]
  BY CommandsAssumption DEF Init
<1>5. DOMAIN rows = {} /\ rows \in [DOMAIN rows -> Row]
  BY DEF Init
<1>6. ConfigTypeOK /\ lastSet \in Settings /\ calm \in BOOLEAN /\ mixed \in BOOLEAN
  BY ConfigAssumption DEF Init, ConfigInit, ConfigTypeOK
<1>7. nextId \in Nat \ {0} /\ served \subseteq Model /\ fresh \in [Process -> BOOLEAN]
  BY DEF Init
<1> QED BY <1>1, <1>2, <1>3, <1>4, <1>5, <1>6, <1>7 DEF Typed, TypeOK

LEMMA TypedStart ==
  ASSUME Typed, NEW p \in Process, NEW cmd \in {"index", "mount", "search", "set"},
         NEW full \in BOOLEAN, NEW first \in {"detect", "open", "set"},
         cmd = "set" <=> first = "set", Start(p, cmd, full, first)
  PROVE  Typed'
<1> DEFINE new == [Idle EXCEPT !.cmd = cmd, !.full = full, !.conf = Load, !.pc = first]
<1>1. ConfigTypeOK /\ lastSet \in Settings /\ calm \in BOOLEAN /\ mixed \in BOOLEAN
      /\ fresh \in [Process -> BOOLEAN] /\ 0 < nextId
  BY DEF Typed, TypeOK
<1>2. new \in Job
  BY <1>1, IdleFacts, LoadFacts DEF Job
<1>3. Placed(new) /\ new.batch = {} /\ new.store.vectors = {} /\ new.row = 0
  BY DEF Placed, Idle, Unwritten, Indexing
<1>4. /\ ConfigTypeOK' /\ lastSet' = lastSet /\ fresh' = fresh /\ calm' = calm
      /\ mixed' \in BOOLEAN /\ proc' = [proc EXCEPT ![p] = new]
      /\ UNCHANGED <<vfile, disk, rows, nextId, served>>
  BY <1>1 DEF Start, files, ConfigTypeOK
<1> HIDE DEF new
<1> QED BY <1>1, <1>2, <1>3, <1>4, TypedJob

\* Steps that change what one process does, and no vector.
LEMMA TypedQuiet ==
  ASSUME Typed, NEW p \in Process,
         \/ Index(p) \/ Mount(p) \/ Search(p) \/ ConfigSet(p) \/ Detect(p) \/ Open(p)
         \/ EndIndexing(p) \/ EndSearch(p) \/ BeginSave(p) \/ EndSave(p)
  PROVE  Typed'
<1> DEFINE job == proc[p]
<1>1. /\ job \in Job /\ Placed(job)
      /\ \A v \in job.batch \cup job.store.vectors \cup vfile.vectors : v.id < nextId
      /\ ConfigTypeOK /\ lastSet \in Settings /\ vfile \in Store
      /\ fresh \in [Process -> BOOLEAN] /\ calm \in BOOLEAN /\ mixed \in BOOLEAN
      /\ proc \in [Process -> Job] /\ job.row < nextId /\ nextId \in Nat \ {0}
  BY DEF Typed, TypeOK, Position
<1>2. Placed(Idle) /\ Idle.batch = {} /\ Idle.store.vectors = {} /\ Idle.row < nextId
  BY <1>1, IdlePlaced
<1>4. CASE Index(p)
  <2>1. PICK full \in Flags : Start(p, "index", full, "detect")
    BY <1>4 DEF Index
  <2> QED BY <2>1, TypedStart, CommandsAssumption
<1>5. CASE Mount(p)
  BY <1>5, TypedStart DEF Mount
<1>6. CASE Search(p)
  BY <1>6, TypedStart DEF Search
<1>7. CASE ConfigSet(p)
  BY <1>7, TypedStart DEF ConfigSet
<1>8. CASE Detect(p)
  <2> DEFINE new == [job EXCEPT !.model = AutoDetect,
                                !.pc = IF job.cmd = "mount" THEN "files" ELSE "open",
                                !.todo = IF job.cmd = "mount" THEN File ELSE {}]
  <2>1. /\ new \in Job /\ Placed(new) /\ new.batch = job.batch /\ new.store = job.store
        /\ new.row = job.row
    BY <1>1, <1>8, DetectFacts, CommandsAssumption DEF Job, Placed, Detect, At, Indexing
  <2>2. proc' = [proc EXCEPT ![p] = new]
    BY <1>1, <1>8 DEF Detect
  <2>3. /\ ConfigTypeOK' /\ lastSet' = lastSet /\ fresh' = fresh /\ calm' = calm
        /\ mixed' = mixed /\ UNCHANGED <<vfile, disk, rows, nextId, served>>
    BY <1>1, <1>8 DEF Detect, files, history, ConfigTypeOK
  <2> HIDE DEF new
  <2> QED BY <1>1, <2>1, <2>2, <2>3, TypedJob
<1>9. CASE Open(p)
  <2> DEFINE new == [job EXCEPT !.store = Opened(DimsFor(p)),
                                !.pc = CASE job.cmd = "index" -> "files"
                                         [] job.cmd = "mount" -> "detect"
                                         [] job.cmd = "search" -> "ask",
                                !.todo = IF job.cmd = "index" THEN File ELSE {}]
  <2>1. DimsFor(p) \in Nat
    BY <1>1, ModelFacts DEF DimsFor, Job, Embedder
  <2>2. /\ Opened(DimsFor(p)) \in Store
        /\ \A v \in Opened(DimsFor(p)).vectors : v.id < nextId
    BY <1>1, <2>1, OpenFacts
  <2>3. job.pc = "open" /\ job.cmd \in {"index", "mount", "search"} /\ job.batch = {}
    BY <1>1, <1>9 DEF Open, At, Placed, Indexing
  <2>4. /\ new \in Job /\ Placed(new) /\ new.batch = {} /\ new.store = Opened(DimsFor(p))
        /\ new.row = job.row
    BY <1>1, <2>2, <2>3, CommandsAssumption DEF Job, Placed, Indexing
  <2>5. proc' = [proc EXCEPT ![p] = new]
    BY <1>1, <1>9, <2>3 DEF Open
  <2>6. /\ ConfigTypeOK' /\ lastSet' = lastSet /\ calm' = calm /\ mixed' = mixed
        /\ fresh' \in [Process -> BOOLEAN] /\ UNCHANGED <<vfile, disk, rows, nextId, served>>
    BY <1>1, <1>9 DEF Open, files, ConfigTypeOK
  <2> HIDE DEF new
  <2> QED BY <1>1, <2>2, <2>4, <2>5, <2>6, TypedJob
<1>11. CASE EndIndexing(p) \/ EndSearch(p) \/ EndSave(p)
  <2>1. proc' = [proc EXCEPT ![p] = Idle] /\ UNCHANGED <<vfile, files, counters, history>>
    BY <1>11 DEF EndIndexing, EndSearch, EndSave
  <2>2. ConfigTypeOK'
    BY <1>1, <1>11 DEF EndIndexing, EndSearch, EndSave, WriteConfig, ConfigTypeOK, Job
  <2> QED BY <1>1, <1>2, <2>1, <2>2, IdleFacts, TypedJob DEF files, history
<1>12. CASE BeginSave(p)
  <2>1. CASE proc' = [proc EXCEPT ![p] = Idle] /\ UNCHANGED <<config, lastSet>>
    BY <1>1, <1>2, <1>12, <2>1, IdleFacts, TypedJob DEF BeginSave, files, ConfigTypeOK
  <2>2. CASE Truncate /\ \E k \in Key : \E v \in Value[k] :
                  /\ proc' = [proc EXCEPT ![p].conf = SetKey(@, k, v), ![p].pc = "write"]
                  /\ lastSet' = [lastSet EXCEPT ![k] = v]
    <3>0. PICK k \in Key : \E v \in Value[k] :
                  /\ proc' = [proc EXCEPT ![p].conf = SetKey(@, k, v), ![p].pc = "write"]
                  /\ lastSet' = [lastSet EXCEPT ![k] = v]
      BY <2>2
    <3>1. PICK v \in Value[k] :
                  /\ proc' = [proc EXCEPT ![p].conf = SetKey(@, k, v), ![p].pc = "write"]
                  /\ lastSet' = [lastSet EXCEPT ![k] = v]
      BY <3>0
    <3> DEFINE new == [job EXCEPT !.conf = SetKey(@, k, v), !.pc = "write"]
    <3>2. /\ SetKey(job.conf, k, v) \in Settings
          /\ lastSet' \in Settings
      BY <1>1, <3>1, SetKeyFacts DEF SetKey, Job
    <3>3. job.pc = "set"
      BY <1>12 DEF BeginSave, At
    <3>4. /\ new \in Job /\ Placed(new) /\ new.batch = job.batch /\ new.store = job.store
          /\ new.row = job.row
      BY <1>1, <3>2, <3>3 DEF Job, Placed, Indexing
    <3>5. proc' = [proc EXCEPT ![p] = new]
      BY <1>1, <3>1
    <3>6. /\ ConfigTypeOK' /\ fresh' = fresh /\ calm' = calm
          /\ mixed' = mixed /\ UNCHANGED <<vfile, disk, rows, nextId, served>>
      BY <1>12, <2>2 DEF BeginSave, Truncate, files, ConfigTypeOK
    <3> HIDE DEF new
    <3> QED BY <1>1, <3>2, <3>4, <3>5, <3>6, TypedJob
  <2> QED BY <1>12, <2>1, <2>2 DEF BeginSave
<1> QED BY <1>4, <1>5, <1>6, <1>7, <1>8, <1>9, <1>11, <1>12

-----------------------------------------------------------------------------
\* The steps of an indexing run, and what they have in common.
Work(p) ==
  \/ SkipFile(p) \/ TakeFile(p) \/ LookUp(p) \/ DropRow(p) \/ DropVectors(p)
  \/ InsertRow(p) \/ AddChunks(p) \/ EmbedBatch(p)

\* What p holds afterwards: nothing that it did not hold, but for the vector of
\* the row it inserted.
Holds(p, job) ==
  /\ job.store.vectors \subseteq proc[p].store.vectors \cup proc[p].batch
  /\ \A v \in job.batch : v \in proc[p].batch \/ v.id = proc[p].row
  /\ job.row < nextId' /\ nextId' \in {nextId, nextId + 1}

\* It saves its copy, or leaves it as it is.
Keeps(p, job) ==
  /\ job.store.dims = proc[p].store.dims
  /\ \/ job.store = proc[p].store /\ UNCHANGED <<vfile, fresh>>
     \/ /\ Saves(p, job.store)
        /\ Fits(proc[p].store, job.store.vectors \ proc[p].store.vectors)

Worked(p, job) ==
  /\ proc' = [proc EXCEPT ![p] = job] /\ Placed(job)
  /\ {proc[p].pc, job.pc} \subseteq Indexing
  /\ job.cmd = proc[p].cmd /\ job.conf = proc[p].conf
  /\ UNCHANGED <<config, disk, served, lastSet, mixed>> /\ calm' \in BOOLEAN
  /\ Holds(p, job) /\ Keeps(p, job)

LEMMA TypedParts ==
  ASSUME Typed, NEW p \in Process
  PROVE  /\ proc \in [Process -> Job] /\ proc[p] \in Job /\ Placed(proc[p])
         /\ proc[p].store \in Store /\ vfile \in Store /\ proc[p].batch \subseteq Vector
         /\ proc[p].row \in Nat /\ proc[p].row < nextId /\ nextId \in Nat \ {0}
         /\ fresh \in [Process -> BOOLEAN] /\ calm \in BOOLEAN
         /\ DOMAIN rows \subseteq File /\ rows \in [DOMAIN rows -> Row]
         /\ disk \in [File -> 1..MaxVersion] /\ MaxVersion \in Nat
BY CommandsAssumption DEF Typed, TypeOK, Position, Job

\* A step that saves nothing and leaves its copy alone.
LEMMA WorkedQuiet ==
  ASSUME Typed, NEW p \in Process, NEW job \in Job, Works(p, job), Placed(job),
         {proc[p].pc, job.pc} \subseteq Indexing,
         job.cmd = proc[p].cmd, job.conf = proc[p].conf, job.store = proc[p].store,
         calm' = calm \/ calm' = FALSE, Holds(p, job)
  PROVE  \E j \in Job : Worked(p, j)
BY TypedParts DEF Works, Worked, Keeps

LEMMA FailsCalm == (Goes => calm' = calm) /\ (Fails => calm' = FALSE)
BY DEF Goes, Fails

LEMMA WorkReads ==
  ASSUME Typed, NEW p \in Process, SkipFile(p) \/ TakeFile(p) \/ LookUp(p)
  PROVE  \E j \in Job : Worked(p, j)
<1> DEFINE job == proc[p]
<1>1. /\ job \in Job /\ Placed(job) /\ job.row < nextId /\ nextId \in Nat /\ nextId' = nextId
      /\ calm' = calm \/ calm' = FALSE
  BY TypedParts, FailsCalm DEF SkipFile, TakeFile, LookUp
<1>2. CASE SkipFile(p)
  <2>1. PICK f \in job.todo : Works(p, [job EXCEPT !.todo = @ \ {f}])
    BY <1>2 DEF SkipFile
  <2> DEFINE new == [job EXCEPT !.todo = @ \ {f}]
  <2>2. job.pc = "files"
    BY <1>2 DEF SkipFile, At
  <2>3. /\ new \in Job /\ Placed(new) /\ new.pc = "files" /\ new.batch = job.batch
        /\ new.cmd = job.cmd /\ new.conf = job.conf /\ new.store = job.store /\ new.row = job.row
    BY <1>1, <2>2 DEF Job, Placed
  <2>4. Holds(p, new)
    <3> HIDE DEF new
    <3> QED BY <1>1, <2>3 DEF Holds
  <2> HIDE DEF new
  <2> QED BY <1>1, <2>1, <2>2, <2>3, <2>4, WorkedQuiet DEF new, Indexing
<1>3. CASE TakeFile(p)
  <2>1. PICK f \in job.todo :
          Works(p, [job EXCEPT !.pc = "look", !.todo = @ \ {f}, !.file = f, !.hash = disk[f]])
    BY <1>3 DEF TakeFile
  <2> DEFINE new == [job EXCEPT !.pc = "look", !.todo = @ \ {f}, !.file = f, !.hash = disk[f]]
  <2>2. job.pc = "files" /\ f \in File /\ disk[f] \in 0..MaxVersion /\ disk[f] # 0
    <3>1. job.pc = "files" /\ f \in File
      BY <1>1, <1>3 DEF TakeFile, At, Job
    <3>2. disk[f] \in 1..MaxVersion /\ MaxVersion \in Nat
      BY <3>1, TypedParts
    <3>3. disk[f] \in 0..MaxVersion /\ disk[f] # 0
      BY <3>2
    <3> QED BY <3>1, <3>3
  <2>3. /\ new \in Job /\ Placed(new) /\ new.pc = "look" /\ new.batch = job.batch
        /\ new.cmd = job.cmd /\ new.conf = job.conf /\ new.store = job.store /\ new.row = job.row
    BY <1>1, <2>2, CommandsAssumption DEF Job, Placed, Indexing
  <2>4. Holds(p, new)
    <3> HIDE DEF new
    <3> QED BY <1>1, <2>3 DEF Holds
  <2> HIDE DEF new
  <2> QED BY <1>1, <2>1, <2>2, <2>3, <2>4, WorkedQuiet DEF new, Indexing
<1>4. CASE LookUp(p)
  <2>1. job.pc = "look"
    BY <1>4 DEF LookUp, At
  <2>2. CASE /\ job.file \in DOMAIN rows
             /\ Works(p, [job EXCEPT !.pc = "drop", !.row = rows[job.file].id])
    <3> DEFINE new == [job EXCEPT !.pc = "drop", !.row = rows[job.file].id]
    <3>1. rows[job.file].id \in Nat /\ rows[job.file].id < nextId
      BY <1>1, <2>2, TypedParts DEF Row
    <3>2. /\ new \in Job /\ Placed(new) /\ new.pc = "drop" /\ new.batch = job.batch
          /\ new.cmd = job.cmd /\ new.conf = job.conf /\ new.store = job.store /\ new.row < nextId
      BY <1>1, <2>1, <3>1 DEF Job, Placed, Indexing
    <3>3. Holds(p, new)
      <4> HIDE DEF new
      <4> QED BY <1>1, <3>2 DEF Holds
    <3> HIDE DEF new
    <3> QED BY <1>1, <2>1, <2>2, <3>2, <3>3, WorkedQuiet DEF new, Indexing
  <2>3. CASE Works(p, [job EXCEPT !.pc = "insert"])
    <3> DEFINE new == [job EXCEPT !.pc = "insert"]
    <3>2. /\ new \in Job /\ Placed(new) /\ new.pc = "insert" /\ new.batch = job.batch
          /\ new.cmd = job.cmd /\ new.conf = job.conf /\ new.store = job.store /\ new.row = job.row
      BY <1>1, <2>1 DEF Job, Placed, Indexing
    <3>3. Holds(p, new)
      <4> HIDE DEF new
      <4> QED BY <1>1, <3>2 DEF Holds
    <3> HIDE DEF new
    <3> QED BY <1>1, <2>1, <2>3, <3>2, <3>3, WorkedQuiet DEF new, Indexing
  <2> QED BY <1>4, <2>2, <2>3 DEF LookUp
<1> QED BY <1>2, <1>3, <1>4

\* The end of process_file.
LEMMA ReturnedFacts ==
  ASSUME NEW job \in Job, Placed(job), job.pc \in Indexing
  PROVE  LET new == Returned(job) IN
         /\ new \in Job /\ Placed(new) /\ new.pc = "files" /\ new.row = 0
         /\ new.cmd = job.cmd /\ new.conf = job.conf /\ new.store = job.store
         /\ new.batch = job.batch /\ new.todo = job.todo
<1>1. NoFile \notin File /\ 0 \in 0..MaxVersion
  BY CommandsAssumption
<1> DEFINE new == Returned(job)
<1>2. /\ new.pc = "files" /\ new.row = 0 /\ new.cmd = job.cmd /\ new.conf = job.conf
      /\ new.store = job.store /\ new.batch = job.batch /\ new.todo = job.todo
      /\ new.file = NoFile /\ new.hash = 0
  BY DEF Returned, Job
<1>3. new \in Job
  BY <1>1 DEF Returned, Job, Indexing
<1>4. NoFile \notin job.todo
  BY <1>1 DEF Job
<1> HIDE DEF new
<1>5. Placed(new)
  BY <1>2, <1>4 DEF Placed, Indexing
<1> QED BY <1>2, <1>3, <1>5 DEF new

LEMMA WorkRows ==
  ASSUME Typed, NEW p \in Process, DropRow(p) \/ InsertRow(p) \/ AddChunks(p)
  PROVE  \E j \in Job : Worked(p, j)
<1> DEFINE job == proc[p]
<1>1. /\ job \in Job /\ Placed(job) /\ job.row < nextId /\ nextId \in Nat \ {0}
      /\ job.row \in Nat
      /\ calm' = calm \/ calm' = FALSE
  BY TypedParts, FailsCalm DEF DropRow, InsertRow, AddChunks
<1>2. CASE DropRow(p)
  <2> DEFINE new == [job EXCEPT !.pc = "dropvec"]
  <2>1. job.pc = "drop" /\ Works(p, new) /\ nextId' = nextId
    BY <1>2 DEF DropRow, At
  <2>2. /\ new \in Job /\ Placed(new) /\ new.pc = "dropvec" /\ new.batch = job.batch
        /\ new.cmd = job.cmd /\ new.conf = job.conf /\ new.store = job.store /\ new.row = job.row
    BY <1>1, <2>1 DEF Job, Placed, Indexing
  <2>3. Holds(p, new)
    <3> HIDE DEF new
    <3> QED BY <1>1, <2>1, <2>2 DEF Holds
  <2> HIDE DEF new
  <2> QED BY <1>1, <2>1, <2>2, <2>3, WorkedQuiet DEF Indexing
<1>3. CASE InsertRow(p)
  <2>1. job.pc = "insert"
    BY <1>3 DEF InsertRow, At
  <2>2. CASE /\ nextId' = nextId + 1
             /\ Works(p, [job EXCEPT !.pc = "chunks", !.hash = 0, !.row = nextId])
    <3> DEFINE new == [job EXCEPT !.pc = "chunks", !.hash = 0, !.row = nextId]
    <3>1. /\ new \in Job /\ Placed(new) /\ new.pc = "chunks" /\ new.batch = job.batch
          /\ new.cmd = job.cmd /\ new.conf = job.conf /\ new.store = job.store /\ new.row = nextId
      <4>1. 0 \in 0..MaxVersion
        BY CommandsAssumption
      <4> QED BY <1>1, <2>1, <4>1 DEF Job, Placed, Indexing
    <3>2. Holds(p, new)
      <4> HIDE DEF new
      <4> QED BY <1>1, <2>2, <3>1 DEF Holds
    <3> HIDE DEF new
    <3> QED BY <1>1, <2>1, <2>2, <3>1, <3>2, WorkedQuiet DEF new, Indexing
  <2>3. CASE Works(p, Returned(job)) /\ UNCHANGED <<rows, nextId>>
    <3>1. Holds(p, Returned(job))
      BY <1>1, <2>1, <2>3, ReturnedFacts DEF Holds, Indexing
    <3> QED BY <1>1, <2>1, <2>3, <3>1, ReturnedFacts, WorkedQuiet DEF Indexing
  <2> QED BY <1>3, <2>2, <2>3 DEF InsertRow
<1>4. CASE AddChunks(p)
  <2> DEFINE new == IF job.model = NoModel THEN {} ELSE {[id |-> job.row, by |-> job.model]}
  <2>1. job.pc = "chunks" /\ nextId' = nextId
    BY <1>4 DEF AddChunks, At
  <2>2. \E some \in {{}, new} : Works(p, Returned([job EXCEPT !.batch = @ \cup some]))
    BY <1>4 DEF AddChunks
  <2>3. PICK some \in {{}, new} : Works(p, Returned([job EXCEPT !.batch = @ \cup some]))
    BY <2>2
  <2>4. some \subseteq Vector /\ \A v \in some : v.id = job.row
    BY <1>1, <2>1 DEF Placed, Job, Embedder, Vector
  <2> HIDE DEF new
  <2> DEFINE more == [job EXCEPT !.batch = @ \cup some]
  <2>5. /\ more \in Job /\ Placed(more) /\ more.pc = "chunks" /\ more.batch = job.batch \cup some
        /\ more.cmd = job.cmd /\ more.conf = job.conf /\ more.store = job.store
    BY <1>1, <2>1, <2>4 DEF Job, Placed, Indexing
  <2> HIDE DEF more
  <2>6. Holds(p, Returned(more))
    BY <1>1, <2>1, <2>4, <2>5, ReturnedFacts DEF Holds, Indexing
  <2> QED BY <1>1, <2>1, <2>3, <2>5, <2>6, ReturnedFacts, WorkedQuiet DEF more, Indexing
<1> QED BY <1>2, <1>3, <1>4

\* The steps that save.
LEMMA WorkVectors ==
  ASSUME Typed, NEW p \in Process, DropVectors(p) \/ EmbedBatch(p)
  PROVE  \E j \in Job : Worked(p, j)
<1> DEFINE job == proc[p]
<1>1. /\ job \in Job /\ Placed(job) /\ job.row < nextId /\ nextId \in Nat \ {0}
      /\ job.store \in Store /\ job.batch \subseteq Vector /\ calm \in BOOLEAN
  BY TypedParts
<1>2. ASSUME NEW s, Saves(p, s) PROVE calm' \in BOOLEAN
  BY <1>1, <1>2 DEF Saves, Fails
<1>3. CASE DropVectors(p)
  <2> DEFINE kept == DropsOld(p)
             new == [job EXCEPT !.pc = "insert", !.store = kept, !.row = 0]
  <2>1. /\ job.pc = "dropvec" /\ proc' = [proc EXCEPT ![p] = new] /\ Saves(p, kept)
        /\ UNCHANGED <<config, disk, rows, nextId, served, lastSet, mixed>>
    BY <1>3 DEF DropVectors, At, files
  <2>2. kept \in Store /\ kept.dims = job.store.dims /\ kept.vectors \subseteq job.store.vectors
    <3>1. job.row \in Nat
      BY TypedParts
    <3>2. /\ Without(job.store, job.row) \in Store
          /\ Without(job.store, job.row).dims = job.store.dims
          /\ Without(job.store, job.row).vectors = {v \in job.store.vectors : v.id # job.row}
      BY <1>1, <3>1, StoreFacts
    <3> QED BY <3>2 DEF DropsOld
  <2> HIDE DEF kept
  <2>3. /\ new \in Job /\ Placed(new) /\ new.pc = "insert" /\ new.batch = job.batch
        /\ new.cmd = job.cmd /\ new.conf = job.conf /\ new.store = kept /\ new.row = 0
    BY <1>1, <2>1, <2>2 DEF Job, Placed, Indexing
  <2> HIDE DEF new
  <2>4. Holds(p, new)
    BY <1>1, <2>1, <2>2, <2>3 DEF Holds
  <2>5. Keeps(p, new)
    BY <2>1, <2>2, <2>3 DEF Keeps, Fits
  <2> USE <2>3
  <2>6. WITNESS new \in Job
  <2> QED BY <1>2, <2>1, <2>3, <2>4, <2>5 DEF Worked, Indexing
<1>4. CASE EmbedBatch(p)
  <2>1. /\ job.pc \in Indexing
        /\ UNCHANGED <<config, disk, rows, nextId, served, lastSet, mixed>>
    BY <1>1, <1>4 DEF EmbedBatch, Placed, files
  <2>2. CASE /\ Fits(job.store, job.batch) /\ Saves(p, With(job.store, job.batch))
             /\ proc' = [proc EXCEPT ![p] =
                  [job EXCEPT !.store = With(job.store, job.batch), !.batch = {}]]
    <3> DEFINE kept == With(job.store, job.batch)
               new == [job EXCEPT !.store = kept, !.batch = {}]
    <3>1. kept \in Store /\ kept.dims = job.store.dims /\ kept.vectors = job.store.vectors \cup job.batch
      BY <1>1, StoreFacts
    <3> HIDE DEF kept
    <3>2. /\ new \in Job /\ Placed(new) /\ new.pc = job.pc /\ new.batch = {}
          /\ new.cmd = job.cmd /\ new.conf = job.conf /\ new.store = kept /\ new.row = job.row
      BY <1>1, <2>1, <3>1 DEF Job, Placed, Indexing
    <3>3. proc' = [proc EXCEPT ![p] = new] /\ Saves(p, kept)
      BY <2>2 DEF kept
    <3> HIDE DEF new
    <3>4. Holds(p, new)
      BY <1>1, <2>1, <3>1, <3>2 DEF Holds
    <3>5. Keeps(p, new)
      BY <2>2, <3>1, <3>2, <3>3 DEF Keeps, Fits
    <3> USE <3>2
    <3>6. WITNESS new \in Job
    <3> QED BY <1>2, <2>1, <3>2, <3>3, <3>4, <3>5 DEF Worked
  <2>3. CASE /\ proc' = [proc EXCEPT ![p] = [job EXCEPT !.batch = {}]]
             /\ calm' = FALSE /\ UNCHANGED <<vfile, fresh>>
    <3> DEFINE new == [job EXCEPT !.batch = {}]
    <3>1. /\ new \in Job /\ Placed(new) /\ new.pc = job.pc /\ new.batch = {}
          /\ new.cmd = job.cmd /\ new.conf = job.conf /\ new.store = job.store /\ new.row = job.row
      BY <1>1, <2>1 DEF Job, Placed, Indexing
    <3>2. proc' = [proc EXCEPT ![p] = new]
      BY <2>3
    <3> HIDE DEF new
    <3>3. Holds(p, new) /\ Keeps(p, new)
      BY <1>1, <2>1, <2>3, <3>1 DEF Holds, Keeps
    <3> USE <3>1
    <3>4. WITNESS new \in Job
    <3> QED BY <2>1, <2>3, <3>1, <3>2, <3>3 DEF Worked
  <2> QED BY <1>4, <2>2, <2>3, FailsCalm DEF EmbedBatch
<1> QED BY <1>3, <1>4

LEMMA WorkFacts ==
  ASSUME Typed, NEW p \in Process, Work(p)
  PROVE  \E job \in Job : Worked(p, job)
BY WorkReads, WorkRows, WorkVectors DEF Work

\* What becomes of the table.
RowsGo(p) ==
  /\ nextId' = nextId
  /\ DOMAIN rows' = {g \in DOMAIN rows : rows[g].id # proc[p].row}
  /\ rows' = [g \in DOMAIN rows' |-> rows[g]]

RowsCome(p) ==
  LET f == proc[p].file IN
  /\ f \notin DOMAIN rows /\ f \in File /\ nextId' = nextId + 1
  /\ DOMAIN rows' = DOMAIN rows \cup {f}
  /\ rows' = [g \in DOMAIN rows' |->
       IF g = f THEN [id |-> nextId, hash |-> proc[p].hash, by |-> NoModel] ELSE rows[g]]

RowsEmbed(p) ==
  LET f == proc[p].file IN
  /\ f \in DOMAIN rows /\ rows[f].id = proc[p].row /\ nextId' = nextId
  /\ rows' = [rows EXCEPT ![f].by = proc[p].model]

LEMMA RowsFacts ==
  ASSUME Typed, NEW p \in Process, Work(p)
  PROVE  \/ UNCHANGED <<rows, nextId>>
         \/ DropRow(p) /\ RowsGo(p)
         \/ InsertRow(p) /\ RowsCome(p) /\ proc[p].hash \in 1..MaxVersion
         \/ AddChunks(p) /\ RowsEmbed(p) /\ proc[p].model \in Embedder
<1>1. CASE DropRow(p)
  BY <1>1, TypedParts DEF DropRow, RowsGo
<1>2. CASE InsertRow(p)
  <2>1. /\ proc[p].pc = "insert" /\ Placed(proc[p]) /\ proc[p] \in Job
    BY <1>2, TypedParts DEF InsertRow, At
  <2>2. proc[p].file \in File /\ proc[p].hash # 0
    BY <2>1 DEF Placed, Indexing
  <2>3. proc[p].hash \in 0..MaxVersion /\ MaxVersion \in Nat
    BY <2>1, CommandsAssumption DEF Job
  <2>4. proc[p].hash \in 1..MaxVersion
    BY <2>2, <2>3
  <2> QED BY <1>2, <2>2, <2>4 DEF InsertRow, RowsCome
<1>3. CASE AddChunks(p)
  <2>1. proc[p].model \in Embedder
    BY TypedParts DEF Job
  <2> QED BY <1>3, <2>1 DEF AddChunks, RowsEmbed
<1>4. CASE SkipFile(p) \/ TakeFile(p) \/ LookUp(p) \/ DropVectors(p) \/ EmbedBatch(p)
  BY <1>4 DEF SkipFile, TakeFile, LookUp, DropVectors, EmbedBatch, files
<1> QED BY <1>1, <1>2, <1>3, <1>4 DEF Work

RowsOK ==
  /\ DOMAIN rows \subseteq File /\ rows \in [DOMAIN rows -> Row]
  /\ \A f, g \in DOMAIN rows : f # g => rows[f].id # rows[g].id

LEMMA TypedRows ==
  ASSUME Typed, NEW p \in Process, Work(p)
  PROVE  RowsOK' /\ nextId' \in {nextId, nextId + 1}
<1>1. /\ nextId \in Nat \ {0} /\ DOMAIN rows \subseteq File /\ rows \in [DOMAIN rows -> Row]
  BY TypedParts
<1>2. \A f, g \in DOMAIN rows : f # g => rows[f].id # rows[g].id
  BY DEF Typed, TypeOK
<1>3. \A g \in DOMAIN rows : rows[g] \in Row /\ rows[g].id \in Nat /\ rows[g].id < nextId
  BY <1>1 DEF Row
<1>4. CASE UNCHANGED <<rows, nextId>>
  BY <1>1, <1>2, <1>4 DEF RowsOK, Row
<1>5. CASE RowsGo(p)
  <2>1. Row' = Row
    BY <1>5 DEF RowsGo, Row
  <2>2. DOMAIN rows' \subseteq DOMAIN rows /\ \A g \in DOMAIN rows' : rows'[g] = rows[g]
    BY <1>5 DEF RowsGo
  <2>3. rows' = [g \in DOMAIN rows' |-> rows'[g]]
    BY <1>5 DEF RowsGo
  <2> QED BY <1>1, <1>2, <1>3, <1>5, <2>1, <2>2, <2>3 DEF RowsOK, RowsGo
<1>6. CASE RowsCome(p) /\ proc[p].hash \in 1..MaxVersion
  <2> DEFINE f == proc[p].file
             new == [id |-> nextId, hash |-> proc[p].hash, by |-> NoModel]
  <2>1. nextId' = nextId + 1 /\ new \in Row'
    BY <1>1, <1>6 DEF RowsCome, Row, Embedder
  <2>2. \A g \in DOMAIN rows : rows[g] \in Row'
    BY <1>1, <1>3, <2>1 DEF Row
  <2>3. /\ DOMAIN rows' = DOMAIN rows \cup {f} /\ f \in File /\ f \notin DOMAIN rows
        /\ rows'[f] = new /\ \A g \in DOMAIN rows : rows'[g] = rows[g]
        /\ rows' = [g \in DOMAIN rows' |-> rows'[g]]
    BY <1>6 DEF RowsCome
  <2> HIDE DEF f
  <2>4. new.id = nextId
    OBVIOUS
  <2> HIDE DEF new
  <2>5. rows' \in [DOMAIN rows' -> Row']
    BY <2>1, <2>2, <2>3
  <2>6. \A g, h \in DOMAIN rows' : g # h => rows'[g].id # rows'[h].id
    BY <1>1, <1>2, <1>3, <2>3, <2>4
  <2> QED BY <1>1, <2>1, <2>3, <2>5, <2>6 DEF RowsOK
<1>7. CASE RowsEmbed(p) /\ proc[p].model \in Embedder
  <2> DEFINE f == proc[p].file
  <2>1. Row' = Row /\ nextId' = nextId /\ f \in DOMAIN rows
    BY <1>7 DEF RowsEmbed, Row
  <2>2. rows' = [rows EXCEPT ![f] = [rows[f] EXCEPT !.by = proc[p].model]]
    BY <1>7 DEF RowsEmbed
  <2>3. [rows[f] EXCEPT !.by = proc[p].model] \in Row
    BY <1>3, <1>7, <2>1 DEF Row
  <2>4. DOMAIN rows' = DOMAIN rows /\ rows' \in [DOMAIN rows -> Row]
    BY <1>1, <2>1, <2>2, <2>3
  <2>5. \A g \in DOMAIN rows : rows'[g].id = rows[g].id
    BY <1>1, <1>3, <2>1, <2>2 DEF Row
  <2> QED BY <1>1, <1>2, <2>1, <2>4, <2>5 DEF RowsOK
<1> QED BY <1>4, <1>5, <1>6, <1>7, RowsFacts

LEMMA TypedWork ==
  ASSUME Typed, NEW p \in Process, Work(p)
  PROVE  Typed'
<1>1. PICK job \in Job : Worked(p, job)
  BY WorkFacts
<1>2. /\ proc \in [Process -> Job] /\ vfile \in Store /\ fresh \in [Process -> BOOLEAN]
      /\ nextId \in Nat \ {0} /\ proc[p].row \in Nat /\ proc[p].row < nextId
      /\ disk \in [File -> 1..MaxVersion] /\ proc[p] \in Job
  BY TypedParts
<1>3. RowsOK' /\ nextId' \in {nextId, nextId + 1}
  BY TypedRows
<1>4. nextId' \in Nat \ {0} /\ nextId <= nextId'
  BY <1>2, <1>3
<1>5. proc' \in [Process -> Job] /\ \A q \in Process : proc'[q] = IF q = p THEN job ELSE proc[q]
  BY <1>1, <1>2 DEF Worked
<1>6. Position'
  <2>1. Placed(job) /\ job.row < nextId'
    BY <1>1 DEF Worked, Holds
  <2>2. \A q \in Process : Placed(proc[q]) /\ proc[q].row < nextId /\ proc[q].row \in Nat
    BY TypedParts DEF Typed, Position
  <2>3. \A q \in Process : proc[q].row < nextId'
    BY <1>2, <1>4, <2>2
  <2> QED BY <1>5, <2>1, <2>2, <2>3 DEF Position
<1>7. /\ vfile' \in {vfile, job.store, Unwritten}
      /\ fresh' \in [Process -> BOOLEAN]
  <2>1. Keeps(p, job)
    BY <1>1 DEF Worked
  <2>2. CASE Saves(p, job.store)
    BY <1>2, <2>2 DEF Saves, Save, SaveFails
  <2> QED BY <1>2, <2>1, <2>2 DEF Keeps
<1>8. vfile' \in Store
  BY <1>2, <1>7, IdleFacts DEF Job
<1>9. ASSUME NEW q \in Process,
             NEW v \in proc'[q].batch \cup proc'[q].store.vectors \cup vfile'.vectors
      PROVE  v.id < nextId'
  <2>1. \A w \in proc[p].batch \cup proc[p].store.vectors \cup vfile.vectors : w.id < nextId
    BY DEF Typed, TypeOK
  <2>2. \A w \in proc[q].batch \cup proc[q].store.vectors : w.id < nextId
    BY DEF Typed, TypeOK
  <2>3. /\ job.store.vectors \subseteq proc[p].store.vectors \cup proc[p].batch
        /\ \A w \in job.batch : w \in proc[p].batch \/ w.id = proc[p].row
    BY <1>1 DEF Worked, Holds
  <2>4. \A w \in job.batch \cup job.store.vectors : w.id < nextId
    BY <1>2, <2>1, <2>3
  <2>5. Unwritten.vectors = {}
    BY DEF Unwritten
  <2>6. v.id < nextId
    BY <1>5, <1>7, <2>1, <2>2, <2>4, <2>5
  <2>7. v.id \in Nat
    BY <1>5, <1>8 DEF Job, Store, Vector
  <2> QED BY <1>2, <1>4, <2>6, <2>7
<1>10. ConfigTypeOK' /\ UNCHANGED <<disk, served, lastSet, mixed>> /\ calm' \in BOOLEAN
  BY <1>1 DEF Worked, ConfigTypeOK, Typed, TypeOK
<1> QED BY <1>2, <1>3, <1>4, <1>5, <1>6, <1>7, <1>8, <1>9, <1>10 DEF Typed, TypeOK, RowsOK

LEMMA TypedCrash ==
  ASSUME Typed, NEW p \in Process, Crash(p)
  PROVE  Typed'
<1>1. /\ proc' = [proc EXCEPT ![p] = Idle]
      /\ vfile' = vfile \/ vfile' = Unwritten
      /\ fresh' \in [Process -> BOOLEAN] /\ calm' \in BOOLEAN /\ mixed' \in BOOLEAN
      /\ UNCHANGED <<config, disk, rows, nextId, served, lastSet>>
  BY DEF Crash, Fails, files, Typed, TypeOK
<1>2. Placed(Idle) /\ Idle.batch = {} /\ Idle.store.vectors = {} /\ Unwritten.vectors = {}
      /\ Idle.row < nextId
  BY IdlePlaced, TypedParts DEF Unwritten
<1>3. proc' \in [Process -> Job] /\ \A q \in Process : proc'[q] = IF q = p THEN Idle ELSE proc[q]
  BY <1>1, IdleFacts DEF Typed, TypeOK
<1>4. Position'
  BY <1>1, <1>2, <1>3 DEF Typed, Position
<1>5. \A q \in Process :
        \A v \in proc'[q].batch \cup proc'[q].store.vectors \cup vfile'.vectors : v.id < nextId'
  BY <1>1, <1>2, <1>3 DEF Typed, TypeOK
<1>6. ConfigTypeOK' /\ Row' = Row /\ vfile' \in Store
  BY <1>1, IdleFacts DEF ConfigTypeOK, Row, Typed, TypeOK
<1> QED BY <1>1, <1>3, <1>4, <1>5, <1>6 DEF Typed, TypeOK

\* An edit, a change of the server, or nothing.
LEMMA TypedOther ==
  ASSUME Typed, Edit \/ Serve \/ UNCHANGED vars
  PROVE  Typed'
<1>1. /\ disk' \in [File -> 1..MaxVersion] /\ served' \subseteq Model
      /\ UNCHANGED <<config, vfile, rows, nextId, proc, fresh, calm, lastSet, mixed>>
  BY DEF Edit, Serve, vars, history, Typed, TypeOK
<1> QED
  BY <1>1 DEF Typed, TypeOK, Position, ConfigTypeOK, Row

LEMMA NextTyped == Typed /\ [Next]_vars => Typed'
<1> SUFFICES ASSUME Typed, [Next]_vars PROVE Typed'
  OBVIOUS
<1>1. CASE Edit \/ Serve \/ UNCHANGED vars
  BY <1>1, TypedOther
<1>2. ASSUME NEW p \in Process, Command(p) PROVE Typed'
  BY <1>2, TypedQuiet, TypedWork, TypedCrash DEF Command, Work
<1> QED BY <1>1, <1>2 DEF Next

(* However many commands run, fail and die over however many files, and    *)
(* whatever their settings, every copy of the store is well formed and no  *)
(* vector has an id that was never given to a row (pipeline.rs:233-279).   *)
THEOREM CommandsTyped == Spec => []TypeOK
BY InitTyped, NextTyped, PTL DEF Spec, Typed

-----------------------------------------------------------------------------
\* A step of p outside the indexing: its copy stays, or is that of an idle
\* process, or is opened; its batch is empty.
Stays(p) == proc'[p].store = proc[p].store /\ proc[p].pc # "idle" /\ fresh' = fresh

Resets(p) == proc'[p].store = Unwritten /\ fresh' = fresh

Opens(p) ==
  /\ \E d \in Nat : proc'[p].store = Opened(d)
  /\ fresh' = [fresh EXCEPT ![p] = TRUE]

Quiet(p) ==
  /\ UNCHANGED <<vfile, rows, nextId, calm>>
  /\ \A q \in Others(p) : proc'[q] = proc[q]
  /\ proc[p].batch = {} /\ proc'[p].batch = {}
  /\ {proc[p].pc, proc'[p].pc} \cap Indexing \subseteq {"files"}
  /\ Stays(p) \/ Resets(p) \/ Opens(p)

LEMMA QuietSteps ==
  ASSUME Typed, NEW p \in Process,
         \/ Index(p) \/ Mount(p) \/ Search(p) \/ ConfigSet(p) \/ Detect(p) \/ Open(p)
         \/ EndIndexing(p) \/ EndSearch(p) \/ BeginSave(p) \/ EndSave(p)
  PROVE  Quiet(p)
<1>1. /\ proc \in [Process -> Job] /\ proc[p] \in Job /\ Placed(proc[p])
      /\ proc[p].pc \notin Indexing => proc[p].batch = {}
  BY TypedParts DEF Placed
<1>2. ASSUME NEW cmd, NEW full, NEW first \in {"detect", "open", "set"},
             Start(p, cmd, full, first)
      PROVE  Quiet(p)
  <2> DEFINE new == [Idle EXCEPT !.cmd = cmd, !.full = full, !.conf = Load, !.pc = first]
  <2>1. new.store = Unwritten /\ new.batch = {} /\ new.pc = first
    BY DEF Idle
  <2>2. /\ proc'[p] = new /\ proc[p].pc = "idle" /\ \A q \in Others(p) : proc'[q] = proc[q]
        /\ UNCHANGED <<vfile, rows, nextId, calm, fresh>>
    BY <1>1, <1>2 DEF Start, At, Others, files
  <2> HIDE DEF new
  <2> QED BY <1>1, <2>1, <2>2 DEF Quiet, Resets, Indexing
<1>3. CASE Index(p) \/ Mount(p) \/ Search(p) \/ ConfigSet(p)
  BY <1>2, <1>3 DEF Index, Mount, Search, ConfigSet
<1>4. CASE Detect(p)
  <2>1. /\ proc[p].pc = "detect" /\ proc'[p].pc \in {"files", "open"}
        /\ proc'[p].store = proc[p].store /\ proc'[p].batch = proc[p].batch
        /\ \A q \in Others(p) : proc'[q] = proc[q]
        /\ UNCHANGED <<vfile, rows, nextId, calm, fresh>>
    BY <1>1, <1>4 DEF Detect, At, Others, files, history, Job
  <2> QED BY <1>1, <2>1 DEF Quiet, Stays, Indexing
<1>5. CASE Open(p)
  <2>1. DimsFor(p) \in Nat
    BY <1>1, ModelFacts DEF DimsFor, Job, Embedder
  <2>2. proc[p].pc = "open" /\ proc[p].cmd \in {"index", "mount", "search"}
    BY <1>1, <1>5 DEF Open, At, Placed
  <2>3. /\ proc'[p].store = Opened(DimsFor(p)) /\ proc'[p].batch = proc[p].batch
        /\ proc'[p].pc \in {"files", "detect", "ask"}
    BY <1>1, <1>5, <2>2 DEF Open, Job
  <2>4. /\ \A q \in Others(p) : proc'[q] = proc[q]
        /\ UNCHANGED <<vfile, rows, nextId, calm>> /\ fresh' = [fresh EXCEPT ![p] = TRUE]
    BY <1>1, <1>5 DEF Open, Others, files
  <2>5. Opens(p)
    BY <2>1, <2>3, <2>4 DEF Opens
  <2> QED BY <1>1, <2>2, <2>3, <2>4, <2>5 DEF Quiet, Indexing
<1>7. ASSUME proc' = [proc EXCEPT ![p] = Idle], proc[p].batch = {},
             proc[p].pc \notin Indexing \ {"files"},
             UNCHANGED <<vfile, rows, nextId, fresh, calm>>
      PROVE  Quiet(p)
  <2>1. proc'[p] = Idle /\ \A q \in Others(p) : proc'[q] = proc[q]
    BY <1>1, <1>7 DEF Others
  <2>2. Idle.store = Unwritten /\ Idle.batch = {} /\ Idle.pc = "idle"
    BY DEF Idle
  <2>3. Resets(p) /\ proc'[p].batch = {} /\ proc'[p].pc \notin Indexing
    BY <1>7, <2>1, <2>2 DEF Resets, Indexing
  <2> QED BY <1>7, <2>1, <2>3 DEF Quiet
<1>8. CASE EndIndexing(p) \/ EndSearch(p) \/ EndSave(p)
  <2>1. /\ proc' = [proc EXCEPT ![p] = Idle]
        /\ UNCHANGED <<vfile, rows, nextId, fresh, calm>>
    BY <1>8 DEF EndIndexing, EndSearch, EndSave, files, history
  <2>2. CASE EndIndexing(p)
    BY <1>7, <2>1, <2>2 DEF EndIndexing, At
  <2>3. CASE EndSearch(p) \/ EndSave(p)
    <3>1. proc[p].pc \in {"ask", "write"}
      BY <2>3 DEF EndSearch, EndSave, At
    <3> QED BY <1>1, <1>7, <2>1, <3>1 DEF Indexing
  <2> QED BY <1>8, <2>2, <2>3
<1>9. CASE BeginSave(p)
  <2>1. proc[p].pc = "set" /\ proc[p].batch = {} /\ UNCHANGED <<vfile, rows, nextId, fresh, calm>>
    BY <1>1, <1>9 DEF BeginSave, At, files, Indexing
  <2>2. CASE proc' = [proc EXCEPT ![p] = Idle]
    BY <1>7, <2>1, <2>2 DEF Indexing
  <2>3. CASE \E k \in Key : \E v \in Value[k] :
               proc' = [proc EXCEPT ![p].conf = SetKey(@, k, v), ![p].pc = "write"]
    <3>1. /\ proc'[p].store = proc[p].store /\ proc'[p].batch = proc[p].batch
          /\ proc'[p].pc = "write" /\ \A q \in Others(p) : proc'[q] = proc[q]
      BY <1>1, <2>3 DEF Others, Job
    <3> QED BY <2>1, <3>1 DEF Quiet, Stays, Indexing
  <2> QED BY <1>9, <2>2, <2>3 DEF BeginSave
<1> QED BY <1>3, <1>4, <1>5, <1>8, <1>9

-----------------------------------------------------------------------------
\* VectorsHaveFileDims and CopyMirrorsFile together with: a copy that is opened
\* for another length than the file's is empty until it, or another, is saved.
Copies ==
  /\ Fits(vfile, vfile.vectors)
  /\ \A p \in Process :
       /\ Fits(proc[p].store, proc[p].store.vectors)
       /\ proc[p].pc # "idle" /\ fresh[p] =>
            IF proc[p].store.dims = vfile.dims THEN proc[p].store = vfile
            ELSE proc[p].store.vectors = {}

\* The two facts about lengths, of any store.
LEMMA StoreOfNoLength ==
  ASSUME NEW s \in Store, Fits(s, s.vectors), s.dims = 0
  PROVE  s = Unwritten
<1>1. s.vectors = {}
  BY ModelFacts DEF Fits, Store, Vector
<1> QED BY <1>1 DEF Store, Unwritten

LEMMA SameStore ==
  ASSUME NEW s \in Store, NEW t \in Store, s.dims = t.dims, s.vectors = t.vectors
  PROVE  s = t
BY DEF Store

LEMMA CopiesParts == Copies => VectorsHaveFileDims /\ CopyMirrorsFile
BY DEF Copies, VectorsHaveFileDims, CopyMirrorsFile, At

\* A save by p of a copy whose vectors fit.
LEMMA CopiesSaved ==
  ASSUME Typed, Typed', Copies, NEW p \in Process, NEW kept \in Store,
         Fits(kept, kept.vectors), vfile' = kept, proc'[p].store = kept,
         \A q \in Others(p) : proc'[q] = proc[q] /\ ~fresh'[q]
  PROVE  Copies'
<1>1. \A q \in Process : q # p => proc'[q] = proc[q] /\ ~fresh'[q]
  BY DEF Others
<1> QED BY <1>1 DEF Copies, Fits

\* A step of p that leaves the file alone.
LEMMA CopiesUnsaved ==
  ASSUME Typed, Typed', Copies, NEW p \in Process, vfile' = vfile,
         Fits(proc'[p].store, proc'[p].store.vectors),
         proc'[p].pc # "idle" /\ fresh'[p] =>
              IF proc'[p].store.dims = vfile.dims THEN proc'[p].store = vfile
              ELSE proc'[p].store.vectors = {},
         \A q \in Others(p) : proc'[q] = proc[q] /\ fresh'[q] = fresh[q]
  PROVE  Copies'
<1>1. \A q \in Process : q # p => proc'[q] = proc[q] /\ fresh'[q] = fresh[q]
  BY DEF Others
<1> QED BY <1>1 DEF Copies, Fits

LEMMA InitCopies == Init => Copies
BY DEF Copies, Init, Idle, Unwritten, Fits

LEMMA QuietCopies ==
  ASSUME Typed, Typed', Copies, NEW p \in Process, Quiet(p)
  PROVE  Copies'
<1>1. /\ fresh \in [Process -> BOOLEAN] /\ vfile \in Store /\ proc[p].store \in Store
      /\ vfile' = vfile
  BY TypedParts DEF Quiet
<1>2. \A q \in Others(p) : proc'[q] = proc[q] /\ fresh'[q] = fresh[q]
  BY <1>1 DEF Quiet, Stays, Resets, Opens, Others
<1>3. CASE Stays(p)
  BY <1>1, <1>2, <1>3, CopiesUnsaved DEF Copies, Stays
<1>4. CASE Resets(p)
  <2>1. vfile.dims = 0 => vfile = Unwritten
    BY <1>1, StoreOfNoLength DEF Copies
  <2>2. Fits(Unwritten, Unwritten.vectors) /\ Unwritten.vectors = {} /\ Unwritten.dims = 0
    BY DEF Fits, Unwritten
  <2> QED BY <1>1, <1>2, <1>4, <2>1, <2>2, CopiesUnsaved DEF Resets
<1>5. CASE Opens(p)
  <2>1. PICK d \in Nat : proc'[p].store = Opened(d)
    BY <1>5 DEF Opens
  <2>2. /\ Opened(d).dims = d
        /\ Opened(d) = vfile \/ (Opened(d).vectors = {} /\ vfile.dims # d)
    BY <1>1, OpenFacts
  <2>3. Fits(Opened(d), Opened(d).vectors)
    BY <2>2 DEF Copies, Fits
  <2> QED BY <1>1, <1>2, <2>1, <2>2, <2>3, CopiesUnsaved
<1> QED BY <1>3, <1>4, <1>5 DEF Quiet

LEMMA WorkCopies ==
  ASSUME Typed, Typed', Copies, NEW p \in Process, Work(p)
  PROVE  Copies'
<1>1. PICK job \in Job : Worked(p, job)
  BY WorkFacts
<1>2. /\ proc'[p] = job /\ proc[p].pc # "idle" /\ \A q \in Others(p) : proc'[q] = proc[q]
  BY <1>1, TypedParts DEF Worked, Others, Indexing
<1>3. Keeps(p, job) /\ job.store \in Store
  BY <1>1 DEF Worked, Job
<1>4. Fits(proc[p].store, proc[p].store.vectors)
  BY DEF Copies
<1>5. CASE job.store = proc[p].store /\ UNCHANGED <<vfile, fresh>>
  BY <1>2, <1>4, <1>5, CopiesUnsaved DEF Copies
<1>6. CASE /\ Saves(p, job.store)
           /\ Fits(proc[p].store, job.store.vectors \ proc[p].store.vectors)
  <2>1. Fits(job.store, job.store.vectors)
    BY <1>3, <1>4, <1>6 DEF Keeps, Fits
  <2>2. CASE vfile' = job.store /\ \A q \in Others(p) : ~fresh'[q]
    BY <1>2, <1>3, <2>1, <2>2, CopiesSaved
  <2>3. CASE /\ vfile' \in {vfile, Unwritten}
             /\ fresh' = [q \in Process |-> q # p /\ fresh[q] /\ vfile' = vfile]
    <3>1. Fits(vfile', vfile'.vectors)
      BY <2>3 DEF Copies, Fits, Unwritten
    <3>2. ~fresh'[p] /\ \A q \in Process : q # p => proc'[q] = proc[q]
      BY <1>2, <2>3 DEF Others
    <3>3. \A q \in Process : fresh'[q] => q # p /\ fresh[q] /\ vfile' = vfile
      BY <2>3
    <3>4. ASSUME NEW q \in Process
          PROVE  /\ Fits(proc'[q].store, proc'[q].store.vectors)
                 /\ proc'[q].pc # "idle" /\ fresh'[q] =>
                      IF proc'[q].store.dims = vfile'.dims THEN proc'[q].store = vfile'
                      ELSE proc'[q].store.vectors = {}
      <4>1. CASE q = p
        BY <1>2, <2>1, <3>2, <4>1
      <4>2. CASE q # p
        BY <3>2, <3>3, <4>2 DEF Copies
      <4> QED BY <4>1, <4>2
    <3>5. Fits(vfile, vfile.vectors)'
      BY <3>1 DEF Fits
    <3> QED BY <3>4, <3>5 DEF Copies, Fits
  <2>4. \A q \in Others(p) : q \in Process /\ q # p
    BY DEF Others
  <2> QED BY <1>6, <2>2, <2>3, <2>4 DEF Saves, Save, SaveFails
<1> QED BY <1>3, <1>5, <1>6 DEF Keeps

LEMMA CrashCopies ==
  ASSUME Typed, Typed', Copies, NEW p \in Process, Crash(p)
  PROVE  Copies'
<1>1. /\ \A q \in Process : proc'[q] = IF q = p THEN Idle ELSE proc[q]
      /\ \A q \in Process : fresh'[q] = (fresh[q] /\ vfile' = vfile)
      /\ vfile' = vfile \/ vfile' = Unwritten
  BY TypedParts DEF Crash
<1>2. Fits(vfile', vfile'.vectors) /\ Fits(Idle.store, Idle.store.vectors) /\ Idle.pc = "idle"
  BY <1>1 DEF Copies, Fits, Idle, Unwritten
<1>3. ASSUME NEW q \in Process
      PROVE  /\ Fits(proc'[q].store, proc'[q].store.vectors)
             /\ proc'[q].pc # "idle" /\ fresh'[q] =>
                  IF proc'[q].store.dims = vfile'.dims THEN proc'[q].store = vfile'
                  ELSE proc'[q].store.vectors = {}
  <2>1. CASE q = p
    BY <1>1, <1>2, <2>1
  <2>2. CASE q # p
    <3>1. proc'[q] = proc[q] /\ (fresh'[q] => fresh[q] /\ vfile' = vfile)
      BY <1>1, <2>2
    <3> QED BY <3>1 DEF Copies
  <2> QED BY <2>1, <2>2
<1>4. Fits(vfile, vfile.vectors)'
  BY <1>2 DEF Fits
<1> QED BY <1>3, <1>4 DEF Copies, Fits

LEMMA NextCopies == Typed /\ Copies /\ [Next]_vars => Copies'
<1> SUFFICES ASSUME Typed, Copies, [Next]_vars PROVE Copies'
  OBVIOUS
<1>1. Typed'
  BY NextTyped
<1>2. CASE Edit \/ Serve \/ UNCHANGED vars
  <2>1. UNCHANGED <<vfile, proc, fresh>>
    BY <1>2 DEF Edit, Serve, vars, history
  <2> QED BY <2>1 DEF Copies, Fits
<1>3. ASSUME NEW p \in Process, Command(p) PROVE Copies'
  BY <1>1, <1>3, QuietSteps, QuietCopies, WorkCopies, CrashCopies DEF Command, Work
<1> QED BY <1>2, <1>3 DEF Next

(* Whatever lengths the commands opened the store for, no file and no copy *)
(* holds a vector of another length (lance.rs:67-74, 131-139).             *)
THEOREM LengthsAgree == Spec => []VectorsHaveFileDims
BY InitTyped, NextTyped, InitCopies, NextCopies, CopiesParts, PTL DEF Spec

(* A save overwrites nothing that the process does not have in its copy,   *)
(* as long as no other process saved meanwhile, and none of its own saves  *)
(* failed (lance.rs:96-154).                                               *)
THEOREM CopiesMirror == Spec => []CopyMirrorsFile
BY InitTyped, NextTyped, InitCopies, NextCopies, CopiesParts, PTL DEF Spec

-----------------------------------------------------------------------------
\* What the work on files and batches leaves alone.
LEMMA WorkFrame ==
  ASSUME Typed, NEW p \in Process, Work(p)
  PROVE  /\ proc[p].pc \in Indexing /\ proc'[p].pc \in Indexing
         /\ proc'[p].cmd = proc[p].cmd /\ proc'[p].conf = proc[p].conf
         /\ \A q \in Others(p) : proc'[q] = proc[q]
         /\ UNCHANGED <<config, lastSet, mixed>>
<1>1. PICK job \in Job : Worked(p, job)
  BY WorkFacts
<1> QED BY <1>1, TypedParts DEF Worked, Others

LEMMA NextSearchFits == Typed /\ SearchNeverMismatched /\ [Next]_vars => SearchNeverMismatched'
<1> SUFFICES ASSUME Typed, SearchNeverMismatched, [Next]_vars PROVE SearchNeverMismatched'
  OBVIOUS
<1>1. ASSUME UNCHANGED proc PROVE SearchNeverMismatched'
  BY <1>1 DEF SearchNeverMismatched, At
<1>2. CASE Edit \/ Serve \/ UNCHANGED vars
  BY <1>1, <1>2 DEF Edit, Serve, vars
<1>3. ASSUME NEW p \in Process, NEW job \in Job, proc' = [proc EXCEPT ![p] = job],
             job.pc = "ask" /\ job.model # NoModel => Length[job.model] = job.store.dims
      PROVE  SearchNeverMismatched'
  BY <1>3, TypedParts DEF SearchNeverMismatched, At
<1>4. ASSUME NEW p \in Process, proc'[p].pc # "ask",
             \A q \in Others(p) : proc'[q] = proc[q]
      PROVE  SearchNeverMismatched'
  BY <1>4 DEF SearchNeverMismatched, At, Others
<1>5. ASSUME NEW p \in Process, Command(p) PROVE SearchNeverMismatched'
  <2>1. proc[p] \in Job /\ proc \in [Process -> Job] /\ vfile \in Store /\ Placed(proc[p])
    BY TypedParts DEF Typed, Position
  <2>2. CASE Index(p) \/ Mount(p) \/ Search(p) \/ ConfigSet(p)
    <3>1. /\ proc'[p].pc \in {"detect", "open", "set"}
          /\ \A q \in Others(p) : proc'[q] = proc[q]
      <4>1. PICK cmd, full, first :
              first \in {"detect", "open", "set"} /\ Start(p, cmd, full, first)
        BY <2>2, Zenon DEF Index, Mount, Search, ConfigSet
      <4>2. proc' = [proc EXCEPT ![p] =
              [Idle EXCEPT !.cmd = cmd, !.full = full, !.conf = Load, !.pc = first]]
        BY <4>1 DEF Start
      <4>3. [Idle EXCEPT !.cmd = cmd, !.full = full, !.conf = Load, !.pc = first].pc = first
        BY DEF Idle
      <4> QED BY <2>1, <4>1, <4>2, <4>3 DEF Others
    <3> QED BY <1>4, <3>1
  <2>3. CASE EndIndexing(p) \/ EndSearch(p) \/ EndSave(p) \/ Crash(p) \/ BeginSave(p)
    <3>1. CASE proc' = [proc EXCEPT ![p] = Idle]
      <4>1. proc'[p].pc = "idle" /\ \A q \in Others(p) : proc'[q] = proc[q]
        BY <2>1, <3>1 DEF Idle, Others
      <4> QED BY <1>4, <4>1
    <3>2. CASE \E k \in Key : \E v \in Value[k] :
                 proc' = [proc EXCEPT ![p].conf = SetKey(@, k, v), ![p].pc = "write"]
      <4>1. proc'[p].pc = "write" /\ \A q \in Others(p) : proc'[q] = proc[q]
        BY <2>1, <3>2 DEF Others, Job
      <4> QED BY <1>4, <4>1
    <3> QED BY <2>3, <3>1, <3>2 DEF EndIndexing, EndSearch, EndSave, Crash, BeginSave
  <2>4. CASE Detect(p)
    <3>1. /\ proc'[p].pc \in {"files", "open"}
          /\ \A q \in Others(p) : proc'[q] = proc[q]
      BY <2>1, <2>4 DEF Detect, At, Others, Job
    <3> QED BY <1>4, <3>1
  <2>5. CASE Work(p)
    BY <1>4, <2>5, WorkFrame DEF Indexing
  <2>6. CASE Open(p)
    <3>1. /\ proc[p].cmd \in {"index", "mount", "search"}
          /\ \A q \in Others(p) : proc'[q] = proc[q]
      BY <2>1, <2>6 DEF Open, At, Placed, Others
    <3>2. CASE proc[p].cmd # "search"
      <4>1. proc'[p].pc \in {"files", "detect"}
        BY <2>1, <2>6, <3>1, <3>2 DEF Open, Job
      <4> QED BY <1>4, <3>1, <4>1
    <3>3. CASE proc[p].cmd = "search"
      <4>1. proc'[p].store = Opened(DimsFor(p)) /\ proc'[p].model = proc[p].model
        BY <2>1, <2>6 DEF Open, Job
      <4>2. DimsFor(p) \in Nat
        BY <2>1, ModelFacts DEF DimsFor, Job, Embedder
      <4>3. proc[p].model # NoModel => proc'[p].store.dims = Length[proc[p].model]
        BY <2>1, <3>3, <4>1, <4>2, OpenFacts DEF DimsFor
      <4> QED BY <3>1, <4>1, <4>3 DEF SearchNeverMismatched, At, Others
    <3> QED BY <3>2, <3>3
  <2> QED BY <1>5, <2>2, <2>3, <2>4, <2>5, <2>6 DEF Command, Work
<1> QED BY <1>2, <1>5 DEF Next

(* A search with a model asks a store of the model's length, whatever      *)
(* lengths the configuration and the file say (search.rs:13-21).           *)
THEOREM SearchesFit == Spec => []SearchNeverMismatched
<1>1. Init => SearchNeverMismatched
  BY DEF Init, SearchNeverMismatched, At, Idle
<1> QED BY <1>1, InitTyped, NextTyped, NextSearchFits, PTL DEF Spec

-----------------------------------------------------------------------------
\* KeysHoldTheirLastSet, with the one process that may be setting a key: what
\* it loaded is what the file holds, and what it writes is what was set.
OneSetter ==
  ~mixed =>
    /\ \A p, q \in Process : proc[p].cmd = "set" /\ proc[q].cmd = "set" => p = q
    /\ \A p \in Process : proc[p].pc = "set" => proc[p].conf = Load
    /\ \A p \in Process : proc[p].pc = "write" => proc[p].conf = lastSet
    /\ (\A p \in Process : proc[p].pc # "write") => Load = lastSet

LEMMA NextOneSetter == Typed /\ OneSetter /\ [Next]_vars => OneSetter'
<1> SUFFICES ASSUME Typed, OneSetter, [Next]_vars, ~mixed' PROVE OneSetter'
  BY DEF OneSetter
<1>1. ~mixed
  <2>1. mixed \in BOOLEAN
    BY DEF Typed, TypeOK
  <2>2. CASE Edit \/ Serve \/ UNCHANGED vars
    BY <2>2 DEF Edit, Serve, vars, history
  <2>3. ASSUME NEW p \in Process, Command(p) PROVE ~mixed
    <3>1. ASSUME NEW cmd, NEW full, NEW first, Start(p, cmd, full, first) PROVE ~mixed
      BY <3>1 DEF Start
    <3> QED
      BY <2>3, <3>1, WorkFrame DEF Command, Work, Index, Mount, Search, ConfigSet, Detect,
         Open, EndIndexing, EndSearch, BeginSave, EndSave, Crash, history
  <2> QED BY <2>2, <2>3 DEF Next
<1>2. /\ proc \in [Process -> Job] /\ lastSet \in Settings /\ ConfigTypeOK /\ ConfigTypeOK'
      /\ \A q \in Process : proc[q].cmd = "set" <=> proc[q].pc \in {"set", "write"}
      /\ \A q \in Process : proc'[q].cmd = "set" <=> proc'[q].pc \in {"set", "write"}
  BY NextTyped DEF Typed, TypeOK, Position, Placed
<1>3. /\ \A p, q \in Process : proc[p].cmd = "set" /\ proc[q].cmd = "set" => p = q
      /\ \A p \in Process : proc[p].pc = "set" => proc[p].conf = Load
      /\ \A p \in Process : proc[p].pc = "write" => proc[p].conf = lastSet
      /\ (\A p \in Process : proc[p].pc # "write") => Load = lastSet
  BY <1>1 DEF OneSetter
<1>4. ASSUME UNCHANGED <<proc, config, lastSet>> PROVE OneSetter'
  BY <1>3, <1>4 DEF OneSetter, Load
\* A step of a process that sets no key, before and after.
<1>5. ASSUME NEW p \in Process, UNCHANGED <<config, lastSet>>,
             \A q \in Others(p) : proc'[q] = proc[q],
             proc[p].cmd # "set", proc'[p].cmd # "set"
      PROVE  OneSetter'
  <2>1. \A q \in Process : q # p => proc'[q] = proc[q]
    BY <1>5 DEF Others
  <2>2. Load' = Load
    BY <1>5 DEF Load
  <2>3. /\ proc[p].pc \notin {"set", "write"} /\ proc'[p].pc \notin {"set", "write"}
    BY <1>2, <1>5
  <2> QED BY <1>3, <1>5, <2>1, <2>2, <2>3 DEF OneSetter
\* A command that ends or dies without having touched the file.
<1>6. ASSUME NEW p \in Process, UNCHANGED <<config, lastSet>>,
             proc' = [proc EXCEPT ![p] = Idle], proc[p].pc # "write"
      PROVE  OneSetter'
  <2>1. \A q \in Process : proc'[q] = IF q = p THEN Idle ELSE proc[q]
    BY <1>2, <1>6
  <2>2. Load' = Load /\ Idle.cmd # "set" /\ Idle.pc \notin {"set", "write"}
    BY <1>6 DEF Load, Idle
  <2> QED BY <1>3, <1>6, <2>1, <2>2 DEF OneSetter
<1>7. ASSUME NEW p \in Process, NEW cmd, NEW full, NEW first, Start(p, cmd, full, first)
      PROVE  /\ proc'[p].cmd = cmd /\ proc'[p].pc = first /\ proc'[p].conf = Load
             /\ proc[p].pc = "idle"
             /\ \A q \in Others(p) : proc'[q] = proc[q]
             /\ UNCHANGED <<config, lastSet>>
             /\ cmd = "set" => \A q \in Others(p) : proc[q].cmd # "set"
  BY <1>2, <1>7 DEF Start, At, Idle, Others
<1>8. ASSUME NEW p \in Process, Command(p) PROVE OneSetter'
  <2>1. CASE Index(p) \/ Mount(p) \/ Search(p)
    <3>1. \E full \in BOOLEAN : \/ Start(p, "index", full, "detect")
                               \/ Start(p, "mount", full, "open")
                               \/ Start(p, "search", full, "detect")
      BY <2>1, CommandsAssumption DEF Index, Mount, Search
    <3>2. /\ proc'[p].cmd # "set" /\ proc[p].pc = "idle"
          /\ \A q \in Others(p) : proc'[q] = proc[q]
          /\ UNCHANGED <<config, lastSet>>
      BY <1>7, <3>1
    <3> QED BY <1>2, <1>5, <3>2
  <2>2. CASE ConfigSet(p)
    <3>1. /\ proc'[p].cmd = "set" /\ proc'[p].pc = "set" /\ proc'[p].conf = Load
          /\ \A q \in Others(p) : proc'[q] = proc[q] /\ proc[q].cmd # "set"
          /\ proc[p].pc = "idle" /\ UNCHANGED <<config, lastSet>>
      <4>1. Start(p, "set", FALSE, "set")
        BY <2>2 DEF ConfigSet
      <4>2. /\ proc'[p].cmd = "set" /\ proc'[p].pc = "set" /\ proc'[p].conf = Load
            /\ proc[p].pc = "idle" /\ UNCHANGED <<config, lastSet>>
        <5>1. proc'[p].cmd = "set"
          BY <1>7, <4>1
        <5>2. proc'[p].pc = "set"
          BY <1>2, <4>1 DEF Start
        <5>3. proc'[p].conf = Load /\ proc[p].pc = "idle"
          BY <1>7, <4>1
        <5>4. UNCHANGED <<config, lastSet>>
          BY <1>7, <4>1
        <5> QED BY <5>1, <5>2, <5>3, <5>4
      <4>3. \A q \in Others(p) : proc'[q] = proc[q] /\ proc[q].cmd # "set"
        BY <1>7, <4>1
      <4> QED BY <4>2, <4>3
    <3>2. \A q \in Process : q # p => proc'[q] = proc[q] /\ proc[q].cmd # "set" /\ proc[q].pc # "write"
      BY <1>2, <3>1 DEF Others
    <3>3. Load' = Load
      BY <3>1 DEF Load
    <3> QED BY <1>2, <1>3, <3>1, <3>2, <3>3 DEF OneSetter
  <2>3. CASE Detect(p) \/ Open(p)
    <3>1. /\ proc'[p].cmd = proc[p].cmd /\ proc[p].pc \in {"detect", "open"}
          /\ \A q \in Others(p) : proc'[q] = proc[q]
          /\ UNCHANGED <<config, lastSet>>
      BY <1>2, <2>3 DEF Detect, Open, At, Others, Job, history
    <3> QED BY <1>2, <1>5, <3>1
  <2>4. CASE Work(p)
    BY <1>2, <1>5, <2>4, WorkFrame DEF Indexing
  <2>5. CASE EndIndexing(p) \/ EndSearch(p) \/ Crash(p)
    <3>1. /\ proc' = [proc EXCEPT ![p] = Idle] /\ UNCHANGED <<config, lastSet>>
          /\ proc[p].pc # "write"
      BY <2>5 DEF EndIndexing, EndSearch, Crash, At, history
    <3> QED BY <1>6, <3>1
  <2>6. CASE BeginSave(p)
    <3>1. proc[p].pc = "set"
      BY <2>6 DEF BeginSave, At
    <3>2. CASE proc' = [proc EXCEPT ![p] = Idle] /\ UNCHANGED <<config, lastSet>>
      BY <1>6, <3>1, <3>2
    <3>3. CASE \E k \in Key : \E v \in Value[k] :
                 /\ proc' = [proc EXCEPT ![p].conf = SetKey(@, k, v), ![p].pc = "write"]
                 /\ lastSet' = [lastSet EXCEPT ![k] = v]
      <4>1. PICK k \in Key : \E v \in Value[k] :
                 /\ proc' = [proc EXCEPT ![p].conf = SetKey(@, k, v), ![p].pc = "write"]
                 /\ lastSet' = [lastSet EXCEPT ![k] = v]
        BY <3>3
      <4>2. PICK v \in Value[k] :
                 /\ proc' = [proc EXCEPT ![p].conf = SetKey(@, k, v), ![p].pc = "write"]
                 /\ lastSet' = [lastSet EXCEPT ![k] = v]
        BY <4>1
      <4>3. /\ \A q \in Process : q # p => proc'[q] = proc[q] /\ proc[q].cmd # "set"
            /\ proc'[p].pc = "write" /\ proc'[p].conf = SetKey(proc[p].conf, k, v)
        BY <1>2, <1>3, <3>1, <4>2 DEF Job
      <4>4. proc[p].conf = Load /\ Load = lastSet
        BY <1>2, <1>3, <3>1
      <4>5. proc'[p].conf = lastSet'
        BY <4>2, <4>3, <4>4 DEF SetKey
      <4> QED BY <1>2, <4>3, <4>5 DEF OneSetter
    <3> QED BY <2>6, <3>2, <3>3 DEF BeginSave
  <2>7. CASE EndSave(p)
    <3>1. proc[p].pc = "write" /\ proc[p].conf = lastSet /\ lastSet' = lastSet
      BY <1>3, <2>7 DEF EndSave, At, history
    <3>2. \A q \in Process : q # p => proc[q].pc \notin {"set", "write"} /\ proc[q].cmd # "set"
      BY <1>2, <1>3, <3>1
    <3>3. config' = lastSet
      BY <2>7, <3>1, <3>2 DEF EndSave, WriteConfig, Others, At
    <3>4. Load' = lastSet'
      BY <1>2, <3>1, <3>3, ConfigAssumption DEF Load
    <3>5. \A q \in Process : proc'[q] = IF q = p THEN Idle ELSE proc[q]
      BY <1>2, <2>7 DEF EndSave
    <3>6. Idle.cmd # "set" /\ Idle.pc \notin {"set", "write"}
      BY DEF Idle
    <3> QED BY <3>2, <3>4, <3>5, <3>6 DEF OneSetter
  <2> QED BY <1>8, <2>1, <2>2, <2>3, <2>4, <2>5, <2>6, <2>7 DEF Command, Work
<1>9. CASE Edit \/ Serve \/ UNCHANGED vars
  BY <1>4, <1>9 DEF Edit, Serve, vars, history
<1> QED BY <1>8, <1>9 DEF Next

(* Whatever other commands run and die, a key holds the value it was last  *)
(* set to, unless two sets overlapped or one was cut off (config.rs:118).  *)
THEOREM KeysHold == Spec => []KeysHoldTheirLastSet
<1>1. Init => OneSetter
  BY DEF Init, OneSetter, Idle, ConfigInit, Load
<1>2. OneSetter => KeysHoldTheirLastSet
  BY DEF OneSetter, KeysHoldTheirLastSet, At
<1> QED BY <1>1, <1>2, InitTyped, NextTyped, NextOneSetter, PTL DEF Spec

-----------------------------------------------------------------------------
\* The rows whose vectors a run is to embed: those in its batch, and the one it
\* has inserted and whose chunks come next.
Held(job) == {v.id : v \in job.batch} \cup IF job.pc = "chunks" THEN {job.row} ELSE {}

\* None of them is of a file that the run has yet to replace.
Apart(p) ==
  \A id \in Held(proc[p]) :
    /\ \A f \in DOMAIN rows : rows[f].id = id =>
         f \notin proc[p].todo /\ (proc[p].pc = "look" => f # proc[p].file)
    /\ proc[p].pc \in {"drop", "dropvec"} => id # proc[p].row

AllApart == \A p \in Process : Apart(p)

\* A row stands, or the run that deleted it is about to delete its vectors.
Dropping(p, id) == proc[p].pc = "dropvec" /\ proc[p].row = id
Accounted(id) ==
  (\E f \in DOMAIN rows : rows[f].id = id) \/ (\E q \in Process : Dropping(q, id))

\* VectorsOfRows and IndexedStays together with: what a run holds is accounted
\* for, unless another has saved, and so may have replaced the row.
FileAccounted == \A v \in vfile.vectors : Accounted(v.id)
HeldAccounted == \A p \in Process : fresh[p] => \A id \in Held(proc[p]) : Accounted(id)
DroppedGone ==
  \A p \in Process : proc[p].pc = "dropvec" => \A f \in DOMAIN rows : rows[f].id # proc[p].row
VectorOf(f) == [id |-> rows[f].id, by |-> rows[f].by]
Stored(v) == v \in vfile.vectors \/ \E p \in Process : v \in proc[p].batch
AllStored == \A f \in DOMAIN rows : rows[f].by # NoModel => Stored(VectorOf(f))

Calm == calm => FileAccounted /\ HeldAccounted /\ DroppedGone /\ AllStored

LEMMA CalmParts == Calm => VectorsOfRows /\ IndexedStays
<1> SUFFICES ASSUME Calm, calm PROVE VectorsOfRows /\ IndexedStays
  BY DEF VectorsOfRows, IndexedStays
<1>1. VectorsOfRows
  BY DEF Calm, FileAccounted, Accounted, Dropping, VectorsOfRows, At
<1>2. IndexedStays
  <2>1. \A f \in DOMAIN rows : rows[f].by # NoModel => Stored(VectorOf(f))
    BY DEF Calm, AllStored
  <2> QED BY <2>1 DEF Stored, VectorOf, IndexedStays
<1> QED BY <1>1, <1>2

\* What each step makes of the run.
LEMMA StepFacts ==
  ASSUME Typed, NEW p \in Process
  PROVE  /\ SkipFile(p) => \E f \in proc[p].todo :
              /\ proc[p].pc = "files" /\ proc'[p] = [proc[p] EXCEPT !.todo = @ \ {f}]
         /\ TakeFile(p) => \E f \in proc[p].todo :
              /\ proc[p].pc = "files"
              /\ proc'[p] = [proc[p] EXCEPT !.pc = "look", !.todo = @ \ {f},
                                            !.file = f, !.hash = disk[f]]
         /\ LookUp(p) =>
              /\ proc[p].pc = "look"
              /\ \/ /\ proc[p].file \in DOMAIN rows
                    /\ proc'[p] = [proc[p] EXCEPT !.pc = "drop", !.row = rows[proc[p].file].id]
                 \/ proc'[p] = [proc[p] EXCEPT !.pc = "insert"]
         /\ DropRow(p) =>
              proc[p].pc = "drop" /\ proc'[p] = [proc[p] EXCEPT !.pc = "dropvec"]
         /\ DropVectors(p) =>
              /\ proc[p].pc = "dropvec"
              /\ proc'[p] = [proc[p] EXCEPT !.pc = "insert", !.store = DropsOld(p), !.row = 0]
         /\ InsertRow(p) =>
              /\ proc[p].pc = "insert"
              /\ \/ /\ RowsCome(p)
                    /\ proc'[p] = [proc[p] EXCEPT !.pc = "chunks", !.hash = 0, !.row = nextId]
                 \/ UNCHANGED rows /\ proc'[p] = Returned(proc[p])
         /\ EmbedBatch(p) => \E s \in Store : proc'[p] = [proc[p] EXCEPT !.store = s, !.batch = {}]
<1>1. proc \in [Process -> Job] /\ proc[p].store \in Store /\ proc[p] \in Job
      /\ proc[p].batch \subseteq Vector
  BY TypedParts
<1>2. SkipFile(p) => \E f \in proc[p].todo :
        proc[p].pc = "files" /\ proc'[p] = [proc[p] EXCEPT !.todo = @ \ {f}]
  BY <1>1 DEF SkipFile, At, Works
<1>3. TakeFile(p) => \E f \in proc[p].todo :
        /\ proc[p].pc = "files"
        /\ proc'[p] = [proc[p] EXCEPT !.pc = "look", !.todo = @ \ {f},
                                      !.file = f, !.hash = disk[f]]
  BY <1>1 DEF TakeFile, At, Works
<1>4. LookUp(p) =>
        /\ proc[p].pc = "look"
        /\ \/ /\ proc[p].file \in DOMAIN rows
              /\ proc'[p] = [proc[p] EXCEPT !.pc = "drop", !.row = rows[proc[p].file].id]
           \/ proc'[p] = [proc[p] EXCEPT !.pc = "insert"]
  BY <1>1 DEF LookUp, At, Works
<1>5. DropRow(p) => proc[p].pc = "drop" /\ proc'[p] = [proc[p] EXCEPT !.pc = "dropvec"]
  BY <1>1 DEF DropRow, At, Works
<1>6. DropVectors(p) =>
        /\ proc[p].pc = "dropvec"
        /\ proc'[p] = [proc[p] EXCEPT !.pc = "insert", !.store = DropsOld(p), !.row = 0]
  BY <1>1 DEF DropVectors, At
<1>7. InsertRow(p) =>
        /\ proc[p].pc = "insert"
        /\ \/ /\ RowsCome(p)
              /\ proc'[p] = [proc[p] EXCEPT !.pc = "chunks", !.hash = 0, !.row = nextId]
           \/ UNCHANGED rows /\ proc'[p] = Returned(proc[p])
  <2> SUFFICES ASSUME InsertRow(p)
               PROVE  /\ proc[p].pc = "insert"
                      /\ \/ /\ RowsCome(p)
                            /\ proc'[p] = [proc[p] EXCEPT !.pc = "chunks", !.hash = 0, !.row = nextId]
                         \/ UNCHANGED rows /\ proc'[p] = Returned(proc[p])
    OBVIOUS
  <2>1. proc[p].pc = "insert" /\ proc[p].file \in File
    BY TypedParts DEF InsertRow, At, Placed, Indexing
  <2> QED BY <1>1, <2>1 DEF InsertRow, Works, RowsCome
<1>8. EmbedBatch(p) => \E s \in Store : proc'[p] = [proc[p] EXCEPT !.store = s, !.batch = {}]
  <2>1. With(proc[p].store, proc[p].batch) \in Store
    BY <1>1, StoreFacts
  <2>2. [proc[p] EXCEPT !.store = proc[p].store, !.batch = {}] = [proc[p] EXCEPT !.batch = {}]
    BY <1>1 DEF Job
  <2> QED BY <1>1, <2>1, <2>2 DEF EmbedBatch
<1> QED BY <1>2, <1>3, <1>4, <1>5, <1>6, <1>7, <1>8

LEMMA PcFacts ==
  ASSUME Typed, NEW p \in Process
  PROVE  /\ SkipFile(p) => proc'[p].pc = "files" /\ proc'[p].batch = proc[p].batch
         /\ TakeFile(p) => proc'[p].pc = "look" /\ proc'[p].batch = proc[p].batch
         /\ LookUp(p) => proc'[p].pc \in {"drop", "insert"} /\ proc'[p].batch = proc[p].batch
         /\ DropRow(p) => proc'[p].pc = "dropvec" /\ proc'[p].batch = proc[p].batch
         /\ DropVectors(p) => proc'[p].pc = "insert" /\ proc'[p].batch = proc[p].batch
         /\ InsertRow(p) => proc'[p].pc \in {"chunks", "files"} /\ proc'[p].batch = proc[p].batch
<1>1. proc[p] \in Job
  BY TypedParts
<1>2. SkipFile(p) => proc'[p].pc = "files" /\ proc'[p].batch = proc[p].batch
  BY <1>1, StepFacts DEF Job
<1>3. TakeFile(p) => proc'[p].pc = "look" /\ proc'[p].batch = proc[p].batch
  BY <1>1, StepFacts DEF Job
<1>4. LookUp(p) => proc'[p].pc \in {"drop", "insert"} /\ proc'[p].batch = proc[p].batch
  BY <1>1, StepFacts DEF Job
<1>5. DropRow(p) => proc'[p].pc = "dropvec" /\ proc'[p].batch = proc[p].batch
  BY <1>1, StepFacts DEF Job
<1>6. DropVectors(p) => proc'[p].pc = "insert" /\ proc'[p].batch = proc[p].batch
  BY <1>1, StepFacts DEF Job
<1>7. InsertRow(p) => proc'[p].pc \in {"chunks", "files"} /\ proc'[p].batch = proc[p].batch
  BY <1>1, StepFacts DEF Returned, Job
<1> QED BY <1>2, <1>3, <1>4, <1>5, <1>6, <1>7

\* The chunks of the row: all of them, or some when they are refused.
LEMMA ChunksFacts ==
  ASSUME Typed, NEW p \in Process, AddChunks(p)
  PROVE  /\ proc[p].pc = "chunks" /\ proc'[p].pc = "files" /\ proc'[p].todo = proc[p].todo
         /\ proc[p].batch \subseteq proc'[p].batch
         /\ \A v \in proc'[p].batch : v \in proc[p].batch \/ v.id = proc[p].row
         /\ \/ UNCHANGED rows
            \/ /\ RowsEmbed(p)
               /\ proc[p].model # NoModel =>
                    [id |-> proc[p].row, by |-> proc[p].model] \in proc'[p].batch
<1> DEFINE job == proc[p]
           new == IF job.model = NoModel THEN {} ELSE {[id |-> job.row, by |-> job.model]}
<1>1. job \in Job /\ proc \in [Process -> Job] /\ job.pc = "chunks"
  BY TypedParts DEF AddChunks, At
<1>2. ASSUME NEW some, proc'[p] = Returned([job EXCEPT !.batch = @ \cup some])
      PROVE  proc'[p].pc = "files" /\ proc'[p].todo = job.todo /\ proc'[p].batch = job.batch \cup some
  BY <1>1, <1>2 DEF Returned, Job
<1>3. \A v \in new : v.id = job.row
  OBVIOUS
<1>4. job.model # NoModel => [id |-> job.row, by |-> job.model] \in new
  OBVIOUS
<1>5. CASE RowsEmbed(p) /\ proc'[p] = Returned([job EXCEPT !.batch = @ \cup new])
  <2> HIDE DEF new
  <2> QED BY <1>1, <1>2, <1>3, <1>4, <1>5
<1>6. CASE /\ UNCHANGED rows
           /\ \E some \in {{}, new} : proc'[p] = Returned([job EXCEPT !.batch = @ \cup some])
  <2> HIDE DEF new
  <2> QED BY <1>1, <1>2, <1>3, <1>6
<1> QED BY <1>1, <1>5, <1>6 DEF AddChunks, Works, RowsEmbed

\* What a run holds was given to a row.
LEMMA HeldGiven ==
  ASSUME Typed, NEW p \in Process, NEW id \in Held(proc[p])
  PROVE  id \in Nat /\ id < nextId
<1>1. \A v \in proc[p].batch : v.id < nextId
  BY DEF Typed, TypeOK
<1> QED BY <1>1, TypedParts DEF Held, Vector

\* The rows change only by new ids.
LEMMA RowsNew ==
  ASSUME Typed, NEW p \in Process, Work(p)
  PROVE  /\ \A f \in DOMAIN rows' :
              \/ f \in DOMAIN rows /\ rows'[f].id = rows[f].id
              \/ RowsCome(p) /\ f = proc[p].file /\ rows'[f].id = nextId
         /\ \A f \in DOMAIN rows :
              \/ f \in DOMAIN rows' /\ rows'[f].id = rows[f].id
              \/ RowsGo(p) /\ DropRow(p) /\ rows[f].id = proc[p].row
<1>1. rows \in [DOMAIN rows -> Row]
  BY TypedParts
<1>2. CASE UNCHANGED <<rows, nextId>>
  BY <1>2
<1>3. CASE DropRow(p) /\ RowsGo(p)
  BY <1>3 DEF RowsGo
<1>4. CASE RowsCome(p)
  BY <1>4 DEF RowsCome
<1>5. CASE RowsEmbed(p)
  BY <1>1, <1>5 DEF RowsEmbed, Row
<1> QED BY <1>2, <1>3, <1>4, <1>5, RowsFacts

\* No run holds more than before but for the row it has just inserted.
LEMMA HeldWork ==
  ASSUME Typed, NEW p \in Process, Work(p)
  PROVE  \A id \in Held(proc'[p]) : id \in Held(proc[p]) \/ (RowsCome(p) /\ id = nextId)
<1>1. proc[p] \in Job
  BY TypedParts
<1>2. CASE AddChunks(p)
  BY <1>2, ChunksFacts DEF Held
<1>3. CASE InsertRow(p)
  <2>1. proc[p].pc = "insert"
    BY <1>3, StepFacts
  <2>2. CASE /\ RowsCome(p)
             /\ proc'[p] = [proc[p] EXCEPT !.pc = "chunks", !.hash = 0, !.row = nextId]
    <3>1. proc'[p].batch = proc[p].batch /\ proc'[p].pc = "chunks" /\ proc'[p].row = nextId
      BY <1>1, <2>2 DEF Job
    <3> QED BY <2>2, <3>1 DEF Held
  <2>3. CASE proc'[p] = Returned(proc[p])
    <3>1. proc'[p].batch = proc[p].batch /\ proc'[p].pc = "files"
      BY <1>1, <2>3 DEF Returned, Job
    <3> QED BY <3>1 DEF Held
  <2> QED BY <1>3, <2>2, <2>3, StepFacts
<1>4. CASE EmbedBatch(p)
  <2>1. PICK s \in Store : proc'[p] = [proc[p] EXCEPT !.store = s, !.batch = {}]
    BY <1>4, StepFacts
  <2>2. proc'[p].batch = {} /\ proc'[p].pc = proc[p].pc /\ proc'[p].row = proc[p].row
    BY <1>1, <2>1 DEF Job
  <2> QED BY <2>2 DEF Held
<1>5. CASE SkipFile(p) \/ TakeFile(p) \/ LookUp(p) \/ DropRow(p) \/ DropVectors(p)
  <2>1. proc'[p].batch = proc[p].batch /\ proc'[p].pc # "chunks"
    BY <1>5, PcFacts
  <2> QED BY <2>1 DEF Held
<1> QED BY <1>2, <1>3, <1>4, <1>5 DEF Work

\* The part of Apart about one row.
Free(job, f) == f \notin job.todo /\ (job.pc = "look" => f # job.file)

LEMMA FreeWork ==
  ASSUME Typed, NEW p \in Process, Work(p), NEW f
  PROVE  Free(proc[p], f) => Free(proc'[p], f)
<1>1. proc[p] \in Job
  BY TypedParts
<1>2. CASE AddChunks(p)
  BY <1>2, ChunksFacts DEF Free
<1>3. CASE InsertRow(p)
  <2>1. proc'[p].todo = proc[p].todo /\ proc'[p].pc # "look"
    BY <1>1, <1>3, StepFacts DEF Returned, Job
  <2> QED BY <2>1 DEF Free
<1>4. CASE EmbedBatch(p)
  <2>1. PICK s \in Store : proc'[p] = [proc[p] EXCEPT !.store = s, !.batch = {}]
    BY <1>4, StepFacts
  <2>2. proc'[p].todo = proc[p].todo /\ proc'[p].pc = proc[p].pc /\ proc'[p].file = proc[p].file
    BY <1>1, <2>1 DEF Job
  <2> QED BY <2>2 DEF Free
<1>5. CASE LookUp(p) \/ DropRow(p) \/ DropVectors(p)
  <2>1. proc'[p].todo = proc[p].todo /\ proc'[p].pc # "look"
    BY <1>1, <1>5, StepFacts DEF Job
  <2> QED BY <2>1 DEF Free
<1>6. CASE SkipFile(p)
  <2>1. PICK g \in proc[p].todo : proc[p].pc = "files" /\ proc'[p] = [proc[p] EXCEPT !.todo = @ \ {g}]
    BY <1>6, StepFacts
  <2>2. proc'[p].todo = proc[p].todo \ {g} /\ proc'[p].pc = "files"
    BY <1>1, <2>1 DEF Job
  <2> QED BY <2>2 DEF Free
<1>7. CASE TakeFile(p)
  <2>1. PICK g \in proc[p].todo :
          /\ proc[p].pc = "files"
          /\ proc'[p] = [proc[p] EXCEPT !.pc = "look", !.todo = @ \ {g},
                                        !.file = g, !.hash = disk[g]]
    BY <1>7, StepFacts
  <2>2. proc'[p].todo = proc[p].todo \ {g} /\ proc'[p].file = g
    BY <1>1, <2>1 DEF Job
  <2> QED BY <2>2 DEF Free
<1> QED BY <1>2, <1>3, <1>4, <1>5, <1>6, <1>7 DEF Work

\* The row that a run is to delete is never one whose vectors it is to embed.
LEMMA DropsOther ==
  ASSUME Typed, NEW p \in Process, Work(p), Apart(p), proc'[p].pc \in {"drop", "dropvec"},
         NEW id \in Held(proc[p])
  PROVE  id # proc'[p].row
<1>1. proc[p] \in Job
  BY TypedParts
<1>2. CASE LookUp(p)
  <2>1. /\ proc[p].pc = "look" /\ proc[p].file \in DOMAIN rows
        /\ proc'[p].row = rows[proc[p].file].id
    <3>1. proc'[p] # [proc[p] EXCEPT !.pc = "insert"]
      BY <1>1 DEF Job
    <3>2. /\ proc[p].file \in DOMAIN rows
          /\ proc'[p] = [proc[p] EXCEPT !.pc = "drop", !.row = rows[proc[p].file].id]
      BY <1>2, <3>1, StepFacts
    <3> QED BY <1>1, <1>2, <3>2, StepFacts DEF Job
  <2> QED BY <2>1 DEF Apart
<1>3. CASE DropRow(p)
  <2>1. proc[p].pc = "drop" /\ proc'[p].row = proc[p].row
    BY <1>1, <1>3, StepFacts DEF Job
  <2> QED BY <2>1 DEF Apart
<1>4. CASE EmbedBatch(p)
  <2>1. PICK s \in Store : proc'[p] = [proc[p] EXCEPT !.store = s, !.batch = {}]
    BY <1>4, StepFacts
  <2>2. proc'[p].pc = proc[p].pc /\ proc'[p].row = proc[p].row
    BY <1>1, <2>1 DEF Job
  <2> QED BY <2>2 DEF Apart
<1>5. CASE SkipFile(p) \/ TakeFile(p) \/ DropVectors(p) \/ InsertRow(p) \/ AddChunks(p)
  <2>1. proc'[p].pc \notin {"drop", "dropvec"}
    BY <1>5, PcFacts, ChunksFacts
  <2> QED BY <2>1
<1> QED BY <1>2, <1>3, <1>4, <1>5 DEF Work

LEMMA WorkApart ==
  ASSUME Typed, AllApart, NEW p \in Process, Work(p)
  PROVE  AllApart'
<1>1. PICK job \in Job : Worked(p, job)
  BY WorkFacts
<1>2. /\ \A q \in Process : q # p => proc'[q] = proc[q]
      /\ nextId \in Nat /\ \A f \in DOMAIN rows : rows[f].id \in Nat /\ rows[f].id < nextId
  BY <1>1, TypedParts DEF Worked, Row
<1>3. ASSUME NEW q \in Process, q # p PROVE Apart(q)'
  <2>1. proc'[q] = proc[q] /\ Held(proc'[q]) = Held(proc[q])
    BY <1>2, <1>3
  <2>2. ASSUME NEW id \in Held(proc[q]), NEW f \in DOMAIN rows', rows'[f].id = id
        PROVE  f \in DOMAIN rows /\ rows[f].id = id
    <3>1. id # nextId
      BY <1>2, HeldGiven
    <3> QED BY <2>2, <3>1, RowsNew
  <2>3. Apart(q)
    BY DEF AllApart
  <2> QED BY <2>1, <2>2, <2>3 DEF Apart
<1>4. Apart(p)'
  <2>0. Apart(p)
    BY DEF AllApart
  <2>1. ASSUME NEW id \in Held(proc'[p]), NEW f \in DOMAIN rows', rows'[f].id = id
        PROVE  Free(proc'[p], f)
    <3>1. CASE RowsCome(p) /\ id = nextId
      <4>1. f = proc[p].file
        BY <1>2, <2>1, <3>1, RowsNew
      <4>2. Placed(proc[p]) /\ proc[p].pc = "insert"
        <5>1. InsertRow(p)
          BY <1>2, <3>1, RowsFacts DEF RowsCome, RowsGo, RowsEmbed
        <5> QED BY <5>1, StepFacts, TypedParts
      <4> QED BY <4>1, <4>2, FreeWork DEF Free, Placed
    <3>2. CASE id \in Held(proc[p])
      <4>1. id # nextId
        BY <1>2, <3>2, HeldGiven
      <4>2. f \in DOMAIN rows /\ rows[f].id = id
        BY <2>1, <4>1, RowsNew
      <4> QED BY <2>0, <3>2, <4>2, FreeWork DEF Apart, Free
    <3> QED BY <2>1, <3>1, <3>2, HeldWork
  <2>2. ASSUME NEW id \in Held(proc'[p]), proc'[p].pc \in {"drop", "dropvec"}
        PROVE  id # proc'[p].row
    <3>1. CASE id \in Held(proc[p])
      BY <2>0, <2>2, <3>1, DropsOther
    <3>2. ~RowsCome(p)
      <4>1. SUFFICES ASSUME RowsCome(p) PROVE FALSE
        OBVIOUS
      <4>2. InsertRow(p)
        BY <1>2, <4>1, RowsFacts DEF RowsCome, RowsGo, RowsEmbed
      <4>3. proc'[p].pc \notin {"drop", "dropvec"}
        BY <4>2, PcFacts
      <4> QED BY <2>2, <4>3
    <3> QED BY <2>2, <3>1, <3>2, HeldWork
  <2> QED BY <2>1, <2>2 DEF Apart, Free
<1> QED BY <1>3, <1>4 DEF AllApart

LEMMA NextApart == Typed /\ AllApart /\ [Next]_vars => AllApart'
<1> SUFFICES ASSUME Typed, AllApart, [Next]_vars PROVE AllApart'
  OBVIOUS
<1>1. CASE Edit \/ Serve \/ UNCHANGED vars
  <2>1. UNCHANGED <<rows, proc>>
    BY <1>1 DEF Edit, Serve, vars
  <2> QED BY <2>1 DEF AllApart, Apart, Held
<1>2. ASSUME NEW p \in Process, UNCHANGED rows, Held(proc'[p]) = {},
             \A q \in Others(p) : proc'[q] = proc[q]
      PROVE  AllApart'
  <2>1. \A q \in Process : q # p => proc'[q] = proc[q]
    BY <1>2 DEF Others
  <2>2. ASSUME NEW q \in Process PROVE Apart(q)'
    <3>1. CASE q = p
      BY <1>2, <3>1 DEF Apart
    <3>2. CASE q # p
      <4>1. proc'[q] = proc[q] /\ Apart(q)
        BY <2>1, <3>2 DEF AllApart
      <4> QED BY <1>2, <4>1 DEF Apart, Held
    <3> QED BY <3>1, <3>2
  <2> QED BY <2>2 DEF AllApart
<1>3. ASSUME NEW p \in Process, Command(p) PROVE AllApart'
  <2>1. CASE Crash(p)
    <3>1. proc'[p] = Idle /\ UNCHANGED rows /\ \A q \in Others(p) : proc'[q] = proc[q]
      BY <2>1, TypedParts DEF Crash, files, Others
    <3>2. Held(Idle) = {}
      BY DEF Held, Idle
    <3> QED BY <1>2, <3>1, <3>2
  <2>2. CASE Quiet(p)
    <3>1. Held(proc'[p]) = {}
      BY <2>2 DEF Quiet, Held, Indexing
    <3> QED BY <1>2, <2>2, <3>1 DEF Quiet
  <2> QED BY <1>3, <2>1, <2>2, QuietSteps, WorkApart DEF Command, Work
<1> QED BY <1>1, <1>3 DEF Next

-----------------------------------------------------------------------------
\* A save that leaves the commands calm is of a copy of the file.
LEMMA CalmSave ==
  ASSUME Typed, Copies, NEW p \in Process, NEW kept \in Store, Saves(p, kept), calm',
         proc[p].pc # "idle", kept.dims = proc[p].store.dims
  PROVE  /\ calm /\ fresh[p] /\ proc[p].store.vectors = vfile.vectors /\ vfile' = kept
         /\ \A q \in Process : fresh'[q] => q = p
<1>0. ~Fails
  BY FailsCalm
<1>1. /\ calm /\ fresh[p] /\ vfile.dims \in {0, kept.dims} /\ vfile' = kept
      /\ \A q \in Process : fresh'[q] => q = p
  BY <1>0, TypedParts DEF Saves, Save
<1>2. vfile \in Store /\ Fits(vfile, vfile.vectors)
  BY TypedParts DEF Copies
<1>3. vfile.dims = 0 => vfile.vectors = {}
  BY <1>2, StoreOfNoLength DEF Unwritten
<1>4. IF proc[p].store.dims = vfile.dims THEN proc[p].store = vfile
      ELSE proc[p].store.vectors = {}
  BY <1>1 DEF Copies
<1> QED BY <1>1, <1>3, <1>4

LEMMA QuietCalm ==
  ASSUME Typed, Calm, NEW p \in Process, Quiet(p)
  PROVE  Calm'
<1>1. /\ UNCHANGED <<vfile, rows, calm>>
      /\ \A q \in Process : q # p => proc'[q] = proc[q] /\ fresh'[q] = fresh[q]
      /\ proc[p].batch = {} /\ proc'[p].batch = {}
      /\ proc[p].pc \notin {"dropvec", "chunks"} /\ proc'[p].pc \notin {"dropvec", "chunks"}
  BY TypedParts DEF Quiet, Stays, Resets, Opens, Others, Indexing
<1>2. \A q \in Process : \A id : Dropping(q, id)' <=> Dropping(q, id)
  BY <1>1 DEF Dropping
<1>3. \A id : Accounted(id)' <=> Accounted(id)
  BY <1>1, <1>2 DEF Accounted
<1>4. Held(proc'[p]) = {} /\ Held(proc[p]) = {}
  BY <1>1 DEF Held
<1>5. FileAccounted => FileAccounted'
  BY <1>1, <1>3 DEF FileAccounted
<1>6. HeldAccounted => HeldAccounted'
  BY <1>1, <1>3, <1>4 DEF HeldAccounted
<1>7. DroppedGone => DroppedGone'
  BY <1>1 DEF DroppedGone
<1>8. AllStored => AllStored'
  BY <1>1 DEF AllStored, Stored, VectorOf
<1> QED BY <1>1, <1>5, <1>6, <1>7, <1>8 DEF Calm

\* What is accounted for stays so, but for the row whose vectors are deleted.
LEMMA WorkAccounts ==
  ASSUME Typed, NEW p \in Process, Work(p), NEW id, Accounted(id),
         DropVectors(p) => id # proc[p].row
  PROVE  Accounted(id)'
<1>1. PICK job \in Job : Worked(p, job)
  BY WorkFacts
<1>2. /\ \A q \in Process : q # p => proc'[q] = proc[q]
      /\ proc[p] \in Job
  BY <1>1, TypedParts DEF Worked
<1>3. CASE \E f \in DOMAIN rows : rows[f].id = id
  <2>1. PICK f \in DOMAIN rows : rows[f].id = id
    BY <1>3
  <2>2. CASE f \in DOMAIN rows' /\ rows'[f].id = id
    BY <2>2 DEF Accounted
  <2>3. CASE DropRow(p) /\ id = proc[p].row
    <3>1. Dropping(p, id)'
      BY <1>2, <2>3, StepFacts DEF Dropping, Job
    <3> QED BY <3>1 DEF Accounted
  <2> QED BY <2>1, <2>2, <2>3, RowsNew
<1>4. CASE \E q \in Process : Dropping(q, id)
  <2>1. PICK q \in Process : Dropping(q, id)
    BY <1>4
  <2>2. CASE q # p
    <3>1. Dropping(q, id)'
      BY <1>2, <2>1, <2>2 DEF Dropping
    <3> QED BY <3>1 DEF Accounted
  <2>3. CASE q = p
    <3>1. proc[p].pc = "dropvec" /\ proc[p].row = id /\ ~DropVectors(p)
      BY <2>1, <2>3 DEF Dropping
    <3>2. EmbedBatch(p)
      BY <3>1 DEF Work, SkipFile, TakeFile, LookUp, DropRow, InsertRow, AddChunks, At
    <3>3. PICK s \in Store : proc'[p] = [proc[p] EXCEPT !.store = s, !.batch = {}]
      BY <3>2, StepFacts
    <3>4. Dropping(p, id)'
      BY <1>2, <3>1, <3>3 DEF Dropping, Job
    <3> QED BY <3>4 DEF Accounted
  <2> QED BY <2>2, <2>3
<1> QED BY <1>3, <1>4 DEF Accounted

\* The steps that do not save.
Plain(p) ==
  \/ SkipFile(p) \/ TakeFile(p) \/ LookUp(p) \/ DropRow(p) \/ InsertRow(p) \/ AddChunks(p)

\* What the file holds after a step that leaves the commands calm.
PlainFile(p) == Plain(p) /\ UNCHANGED <<vfile, fresh>> /\ proc[p].batch \subseteq proc'[p].batch

Overtakes(p) == fresh[p] /\ \A q \in Process : fresh'[q] => q = p

EmbeddedFile(p) ==
  /\ EmbedBatch(p) /\ Overtakes(p) /\ proc'[p].batch = {}
  /\ vfile'.vectors = vfile.vectors \cup proc[p].batch

DroppedFile(p) ==
  /\ DropVectors(p) /\ Overtakes(p) /\ proc'[p].batch = proc[p].batch
  /\ vfile'.vectors = {v \in vfile.vectors : v.id # proc[p].row}

LEMMA CalmFile ==
  ASSUME Typed, Copies, NEW p \in Process, Work(p), calm'
  PROVE  calm /\ (PlainFile(p) \/ EmbeddedFile(p) \/ DroppedFile(p))
<1>1. /\ proc[p] \in Job /\ proc[p].store \in Store /\ proc[p].batch \subseteq Vector
      /\ proc[p].row \in Nat /\ Placed(proc[p])
  BY TypedParts
<1>2. CASE Plain(p)
  <2>1. UNCHANGED <<vfile, fresh>> /\ calm' = calm
    BY <1>2, FailsCalm DEF Plain, SkipFile, TakeFile, LookUp, DropRow, InsertRow, AddChunks, Works
  <2>2. CASE AddChunks(p)
    BY <1>2, <2>1, <2>2, ChunksFacts DEF PlainFile
  <2>3. CASE ~AddChunks(p)
    <3>1. proc'[p].batch = proc[p].batch
      BY <1>2, <2>3, PcFacts DEF Plain
    <3> QED BY <1>2, <2>1, <3>1 DEF PlainFile
  <2> QED BY <2>2, <2>3
<1>3. CASE EmbedBatch(p)
  <2> DEFINE kept == With(proc[p].store, proc[p].batch)
  <2>1. Saves(p, kept)
    BY <1>3, FailsCalm DEF EmbedBatch
  <2>2. kept \in Store /\ kept.dims = proc[p].store.dims
        /\ kept.vectors = proc[p].store.vectors \cup proc[p].batch
    BY <1>1, StoreFacts
  <2>3. proc[p].pc # "idle"
    BY <1>1, <1>3 DEF EmbedBatch, Placed, Indexing
  <2>4. proc'[p].batch = {}
    <3>1. PICK s \in Store : proc'[p] = [proc[p] EXCEPT !.store = s, !.batch = {}]
      BY <1>3, StepFacts
    <3> QED BY <1>1, <3>1 DEF Job
  <2> HIDE DEF kept
  <2> QED BY <1>3, <2>1, <2>2, <2>3, <2>4, CalmSave DEF EmbeddedFile, Overtakes
<1>4. CASE DropVectors(p)
  <2> DEFINE kept == DropsOld(p)
  <2>1. Saves(p, kept)
    BY <1>4 DEF DropVectors
  <2>2. kept \in Store /\ kept.dims = proc[p].store.dims
        /\ kept.vectors = {v \in proc[p].store.vectors : v.id # proc[p].row}
    BY <1>1, StoreFacts DEF DropsOld
  <2>3. proc[p].pc = "dropvec" /\ proc'[p].batch = proc[p].batch
    BY <1>1, <1>4, StepFacts DEF Job
  <2> HIDE DEF kept
  <2> QED BY <1>4, <2>1, <2>2, <2>3, CalmSave DEF DroppedFile, Overtakes
<1> QED BY <1>2, <1>3, <1>4 DEF Work, Plain

\* A step that does not delete the vectors of a row keeps every row accounted for.
LEMMA NoDrop ==
  ASSUME Typed, NEW p \in Process, Plain(p) \/ EmbedBatch(p)
  PROVE  Work(p) /\ ~DropVectors(p)
<1>1. proc[p] \in Job
  BY TypedParts
<1>2. CASE Plain(p)
  BY <1>2 DEF Plain, Work, SkipFile, TakeFile, LookUp, DropRow, InsertRow, AddChunks,
     DropVectors, At
<1>3. CASE EmbedBatch(p)
  <2>1. PICK s \in Store : proc'[p] = [proc[p] EXCEPT !.store = s, !.batch = {}]
    BY <1>3, StepFacts
  <2>2. proc'[p].pc = proc[p].pc
    BY <1>1, <2>1 DEF Job
  <2>3. DropVectors(p) => proc[p].pc = "dropvec" /\ proc'[p].pc = "insert"
    BY <1>1, StepFacts DEF Job
  <2> QED BY <1>3, <2>2, <2>3 DEF Work
<1> QED BY <1>2, <1>3

LEMMA RowsStill ==
  ASSUME NEW p \in Process, EmbedBatch(p) \/ DropVectors(p)
  PROVE  UNCHANGED <<rows, nextId>>
BY DEF EmbedBatch, DropVectors, files

LEMMA CalmFileAccounted ==
  ASSUME Typed, AllApart, NEW p \in Process, Work(p), FileAccounted, HeldAccounted,
         PlainFile(p) \/ EmbeddedFile(p) \/ DroppedFile(p)
  PROVE  FileAccounted'
<1>1. ASSUME NEW id, Accounted(id), DropVectors(p) => id # proc[p].row PROVE Accounted(id)'
  BY <1>1, WorkAccounts
<1>2. CASE PlainFile(p)
  BY <1>1, <1>2, NoDrop DEF PlainFile, FileAccounted
<1>3. CASE EmbeddedFile(p)
  <2>1. \A v \in proc[p].batch : Accounted(v.id)
    BY <1>3 DEF EmbeddedFile, Overtakes, HeldAccounted, Held
  <2> QED BY <1>1, <1>3, <2>1, NoDrop DEF EmbeddedFile, FileAccounted
<1>4. CASE DroppedFile(p)
  BY <1>1, <1>4 DEF DroppedFile, FileAccounted
<1> QED BY <1>2, <1>3, <1>4

LEMMA CalmHeldAccounted ==
  ASSUME Typed, AllApart, NEW p \in Process, Work(p), HeldAccounted,
         PlainFile(p) \/ EmbeddedFile(p) \/ DroppedFile(p)
  PROVE  HeldAccounted'
<1>1. \A q \in Process : q # p => proc'[q] = proc[q]
  BY WorkFrame DEF Others
<1>2. ASSUME fresh[p], NEW id \in Held(proc'[p]) PROVE Accounted(id)'
  <2>1. CASE id \in Held(proc[p])
    <3>1. Accounted(id)
      BY <1>2, <2>1 DEF HeldAccounted
    <3>2. DropVectors(p) => id # proc[p].row
      BY <2>1, StepFacts DEF AllApart, Apart
    <3> QED BY <3>1, <3>2, WorkAccounts
  <2>2. CASE RowsCome(p) /\ id = nextId
    BY <2>2 DEF RowsCome, Accounted
  <2> QED BY <1>2, <2>1, <2>2, HeldWork
<1>3. CASE PlainFile(p)
  <2>1. ASSUME NEW q \in Process, q # p, fresh'[q], NEW id \in Held(proc'[q])
        PROVE  Accounted(id)'
    <3>1. Accounted(id)
      BY <1>1, <1>3, <2>1 DEF PlainFile, HeldAccounted
    <3> QED BY <1>3, <3>1, NoDrop, WorkAccounts DEF PlainFile
  <2>2. fresh' = fresh
    BY <1>3 DEF PlainFile
  <2> QED BY <1>2, <2>1, <2>2 DEF HeldAccounted
<1>4. CASE EmbeddedFile(p) \/ DroppedFile(p)
  <2>1. Overtakes(p)
    BY <1>4 DEF EmbeddedFile, DroppedFile
  <2> QED BY <1>2, <2>1 DEF HeldAccounted, Overtakes
<1> QED BY <1>3, <1>4

LEMMA CalmDroppedGone ==
  ASSUME Typed, NEW p \in Process, Work(p), calm', DroppedGone
  PROVE  DroppedGone'
<1>1. \A q \in Process : q # p => proc'[q] = proc[q]
  BY WorkFrame DEF Others
<1>2. \A q \in Process : proc[q].row < nextId /\ proc[q].row \in Nat /\ nextId \in Nat
  BY TypedParts
<1>3. ASSUME NEW q \in Process, proc[q].pc = "dropvec", proc'[q].row = proc[q].row,
             NEW f \in DOMAIN rows'
      PROVE  rows'[f].id # proc'[q].row
  BY <1>2, <1>3, RowsNew DEF DroppedGone
<1>4. ASSUME proc'[p].pc = "dropvec" PROVE \A f \in DOMAIN rows' : rows'[f].id # proc'[p].row
  <2>1. proc[p] \in Job
    BY TypedParts
  <2>2. CASE DropRow(p)
    <3>1. RowsGo(p)
      BY <2>2, FailsCalm DEF DropRow, RowsGo
    <3>2. proc'[p].row = proc[p].row
      BY <2>1, <2>2, StepFacts DEF Job
    <3> QED BY <3>1, <3>2 DEF RowsGo
  <2>3. CASE EmbedBatch(p)
    <3>1. PICK s \in Store : proc'[p] = [proc[p] EXCEPT !.store = s, !.batch = {}]
      BY <2>3, StepFacts
    <3>2. proc'[p].pc = proc[p].pc /\ proc'[p].row = proc[p].row
      BY <2>1, <3>1 DEF Job
    <3> QED BY <1>3, <1>4, <3>2
  <2>4. CASE SkipFile(p) \/ TakeFile(p) \/ LookUp(p) \/ DropVectors(p) \/ InsertRow(p) \/ AddChunks(p)
    <3>1. proc'[p].pc # "dropvec"
      BY <2>4, PcFacts, ChunksFacts
    <3> QED BY <1>4, <3>1
  <2> QED BY <2>2, <2>3, <2>4 DEF Work
<1> QED BY <1>1, <1>3, <1>4 DEF DroppedGone

LEMMA CalmAllStored ==
  ASSUME Typed, NEW p \in Process, Work(p), DroppedGone, AllStored,
         PlainFile(p) \/ EmbeddedFile(p) \/ DroppedFile(p)
  PROVE  AllStored'
<1>1. \A q \in Process : q # p => proc'[q] = proc[q]
  BY WorkFrame DEF Others
<1>2. CASE PlainFile(p)
  <2>1. ASSUME NEW v, Stored(v) PROVE Stored(v)'
    BY <1>1, <1>2, <2>1 DEF PlainFile, Stored
  <2>2. ASSUME NEW f \in DOMAIN rows', rows'[f].by # NoModel PROVE Stored(VectorOf(f))'
    <3>1. CASE f \in DOMAIN rows /\ rows'[f] = rows[f]
      BY <2>1, <2>2, <3>1 DEF AllStored, VectorOf
    <3>2. CASE RowsEmbed(p) /\ f = proc[p].file /\ rows'[f] # rows[f] /\ AddChunks(p)
      <4>1. rows \in [DOMAIN rows -> Row]
        BY TypedParts
      <4>2. f \in DOMAIN rows /\ rows'[f].id = proc[p].row /\ rows'[f].by = proc[p].model
        BY <3>2, <4>1 DEF RowsEmbed, Row
      <4>3. [id |-> proc[p].row, by |-> proc[p].model] \in proc'[p].batch
        BY <2>2, <3>2, <4>2, ChunksFacts
      <4> QED BY <4>2, <4>3 DEF Stored, VectorOf
    <3>3. \/ f \in DOMAIN rows /\ rows'[f] = rows[f]
          \/ RowsEmbed(p) /\ f = proc[p].file /\ rows'[f] # rows[f] /\ AddChunks(p)
      <4>1. CASE UNCHANGED rows \/ RowsGo(p)
        BY <2>2, <4>1 DEF RowsGo
      <4>2. CASE RowsCome(p)
        BY <2>2, <4>2 DEF RowsCome
      <4>3. CASE RowsEmbed(p) /\ AddChunks(p)
        BY <2>2, <4>3 DEF RowsEmbed
      <4> QED BY <4>1, <4>2, <4>3, RowsFacts
    <3> QED BY <3>1, <3>2, <3>3
  <2> QED BY <2>2 DEF AllStored
<1>3. CASE EmbeddedFile(p)
  <2>1. ASSUME NEW v, Stored(v) PROVE Stored(v)'
    BY <1>1, <1>3, <2>1 DEF EmbeddedFile, Stored
  <2> QED BY <1>3, <2>1, RowsStill DEF EmbeddedFile, AllStored, VectorOf
<1>4. CASE DroppedFile(p)
  <2>1. ASSUME NEW v, Stored(v), v.id # proc[p].row PROVE Stored(v)'
    BY <1>1, <1>4, <2>1 DEF DroppedFile, Stored
  <2>2. \A f \in DOMAIN rows : VectorOf(f).id # proc[p].row
    BY <1>4, StepFacts DEF DroppedFile, DroppedGone, VectorOf
  <2> QED BY <1>4, <2>1, <2>2, RowsStill DEF DroppedFile, AllStored, VectorOf
<1> QED BY <1>2, <1>3, <1>4

LEMMA WorkCalm ==
  ASSUME Typed, Copies, AllApart, Calm, NEW p \in Process, Work(p)
  PROVE  Calm'
<1> SUFFICES ASSUME calm' PROVE FileAccounted' /\ HeldAccounted' /\ DroppedGone' /\ AllStored'
  BY DEF Calm
<1>1. calm /\ (PlainFile(p) \/ EmbeddedFile(p) \/ DroppedFile(p))
  BY CalmFile
<1>2. FileAccounted /\ HeldAccounted /\ DroppedGone /\ AllStored
  BY <1>1 DEF Calm
<1> QED BY <1>1, <1>2, CalmFileAccounted, CalmHeldAccounted, CalmDroppedGone, CalmAllStored

LEMMA NextCalm == Typed /\ Copies /\ AllApart /\ Calm /\ [Next]_vars => Calm'
<1> SUFFICES ASSUME Typed, Copies, AllApart, Calm, [Next]_vars PROVE Calm'
  OBVIOUS
<1>1. CASE Edit \/ Serve \/ UNCHANGED vars
  <2>1. UNCHANGED <<vfile, rows, proc, fresh, calm>>
    BY <1>1 DEF Edit, Serve, vars, history
  <2> QED
    BY <2>1 DEF Calm, FileAccounted, HeldAccounted, DroppedGone, AllStored, Accounted, Dropping,
       Held, Stored, VectorOf
<1>2. ASSUME NEW p \in Process, Command(p) PROVE Calm'
  <2>1. CASE Crash(p)
    BY <2>1, FailsCalm DEF Crash, Calm
  <2> QED BY <1>2, <2>1, QuietSteps, QuietCalm, WorkCalm DEF Command, Work
<1> QED BY <1>1, <1>2 DEF Next

LEMMA InitCalm == Init => Calm /\ AllApart
BY DEF Init, Calm, FileAccounted, HeldAccounted, DroppedGone, AllStored, AllApart, Apart, Held,
   Idle, Unwritten

(* While nothing failed and no stale copy was saved, a vector in the file  *)
(* outlives its row only until the run that deleted the row goes on to     *)
(* delete its vectors: no batch, however late it is embedded, puts a vector*)
(* of a replaced row back (pipeline.rs:233-279).                           *)
THEOREM VectorsGoWithTheirRow == Spec => []VectorsOfRows
BY InitTyped, NextTyped, InitCopies, NextCopies, NextApart, InitCalm, NextCalm, CalmParts, PTL
   DEF Spec

(* While nothing failed and no stale copy was saved, no command loses the  *)
(* vector of a file that a run with a model has indexed, runs without a    *)
(* model included (pipeline.rs:87-110, lance.rs:118-154).                  *)
THEOREM NoIndexedFileIsLost == Spec => []IndexedStays
BY InitTyped, NextTyped, InitCopies, NextCopies, NextApart, InitCalm, NextCalm, CalmParts, PTL
   DEF Spec
=============================================================================
