------------------------------ MODULE Commands ------------------------------
(***************************************************************************)
(* The commands of semfs-cli as processes that share ~/.semanticfs:        *)
(* index (and reindex), mount up to its file system, search, and config    *)
(* set. Each loads the configuration, detects an embedder                  *)
(* (semfs-embed/src/traits.rs) and opens the vector store, but not in the  *)
(* same order nor for the same number of dimensions. A file is indexed in  *)
(* the steps of process_file, so that commands may meet between them. Two  *)
(* things are coarser than in IndexPipeline, which has one process: a file *)
(* has one chunk, so one vector, and the batch, the channel and the worker *)
(* are one set of vectors that are still to be embedded.                   *)
(***************************************************************************)
EXTENDS AppConfig, VectorFile, Sequences, FiniteSets

CONSTANTS Process, File,
          NoModel,           \* the NoopEmbedder
          NoFile,            \* a run that is not in process_file
          Preference,        \* the models in the order auto_detect tries them
          Flags,             \* the values of --full
          MaxVersion, MaxEdits, MaxStarts, MaxServes, MaxFaults   \* bounds

ASSUME CommandsAssumption ==
  /\ NoModel \notin Model /\ NoFile \notin File /\ Preference \in Seq(Model)
  /\ "dims" \in Key /\ Value["dims"] \subseteq Nat \ {0} /\ Flags \subseteq BOOLEAN
  /\ {MaxVersion, MaxEdits, MaxStarts, MaxServes, MaxFaults} \subseteq Nat
  /\ MaxVersion # 0

VARIABLES
  disk,      \* file -> version
  rows,      \* the files table: path -> [id, hash, by], by being history: the
             \* embedder of the run that gave the row its chunks
  nextId,    \* its AUTOINCREMENT sequence
  served,    \* the models the Ollama server answers for
  proc,      \* process -> its command
  edits, starts, serves, faults,   \* bounded counters
  fresh,     \* history: process -> since it opened the store no other has saved,
             \* nor has it failed to save
  calm,      \* history: no command failed, saved a stale copy or changed the
             \* dimensions of the file
  lastSet,   \* history: key -> the value of the last command that set it
  mixed      \* history: two config sets overlapped, or one was cut off

counters == <<edits, starts, serves, faults>>
vars == <<config, vfile, disk, rows, nextId, served, proc, counters,
          fresh, calm, lastSet, mixed>>

Embedder == Model \cup {NoModel}
Row == [id : 1..(nextId - 1), hash : 1..MaxVersion, by : Embedder]

\* Between two files, and within process_file: the old row is looked up, it and
\* its vectors are deleted, the new row and its chunks are inserted.
Indexing == {"files", "look", "drop", "dropvec", "insert", "chunks"}

\* In process_file: the file, the hash of what was read, and the row that is to
\* be deleted or has been inserted.
Job == [cmd : {"none", "index", "mount", "search", "set"},
        pc : Indexing \cup {"idle", "detect", "open", "ask", "set", "write"},
        full : BOOLEAN, conf : Settings, model : Embedder, store : Store,
        todo : SUBSET File, batch : SUBSET Vector,
        file : File \cup {NoFile}, hash : 0..MaxVersion, row : Nat]

Idle == [cmd |-> "none", pc |-> "idle", full |-> FALSE, conf |-> Default, model |-> NoModel,
         store |-> Unwritten, todo |-> {}, batch |-> {},
         file |-> NoFile, hash |-> 0, row |-> 0]

TypeOK ==
  /\ ConfigTypeOK /\ lastSet \in Settings
  /\ vfile \in Store
  /\ disk \in [File -> 1..MaxVersion]
  /\ nextId \in Nat \ {0} /\ DOMAIN rows \subseteq File /\ rows \in [DOMAIN rows -> Row]
  /\ \A f, g \in DOMAIN rows : f # g => rows[f].id # rows[g].id
  /\ served \subseteq Model
  /\ proc \in [Process -> Job]
  /\ \A p \in Process :
       \A v \in proc[p].batch \cup proc[p].store.vectors \cup vfile.vectors : v.id < nextId
  /\ fresh \in [Process -> BOOLEAN] /\ {calm, mixed} \subseteq BOOLEAN

Init ==
  /\ ConfigInit /\ vfile = Unwritten
  /\ disk \in [File -> {1}] /\ rows = << >> /\ nextId = 1
  /\ served \in SUBSET Model
  /\ proc = [p \in Process |-> Idle]
  /\ edits = 0 /\ starts = 0 /\ serves = 0 /\ faults = 0
  /\ fresh = [p \in Process |-> TRUE] /\ calm = TRUE
  /\ lastSet = Default /\ mixed = FALSE

-----------------------------------------------------------------------------
At(p, step) == proc[p].pc = step
Others(p) == Process \ {p}

files == <<disk, rows, nextId, served>>
history == <<fresh, calm, lastSet, mixed>>

Goes == UNCHANGED <<counters, calm>>
Fails ==
  /\ faults < MaxFaults /\ faults' = faults + 1 /\ calm' = FALSE
  /\ UNCHANGED <<edits, starts, serves>>

\* A user edits a file; the server starts, stops, or is given other models.
Edit ==
  /\ edits < MaxEdits /\ edits' = edits + 1
  /\ \E f \in File, v \in 1..MaxVersion : disk[f] # v /\ disk' = [disk EXCEPT ![f] = v]
  /\ UNCHANGED <<config, vfile, rows, nextId, served, proc, starts, serves, faults, history>>

Serve ==
  /\ serves < MaxServes /\ serves' = serves + 1
  /\ \E s \in SUBSET Model : s # served /\ served' = s
  /\ UNCHANGED <<config, vfile, disk, rows, nextId, proc, edits, starts, faults, history>>

\* Every command begins with load(); --full is only printed.
Start(p, cmd, full, first) ==
  /\ At(p, "idle") /\ starts < MaxStarts /\ starts' = starts + 1
  /\ proc' = [proc EXCEPT ![p] =
       [Idle EXCEPT !.cmd = cmd, !.full = full, !.conf = Load, !.pc = first]]
  /\ mixed' = (mixed \/ (cmd = "set" /\ \E q \in Others(p) : proc[q].cmd = "set"))
  /\ UNCHANGED <<config, vfile, files, edits, serves, faults, fresh, calm, lastSet>>

Index(p) == \E full \in Flags : Start(p, "index", full, "detect")
Mount(p) == Start(p, "mount", FALSE, "open")
Search(p) == Start(p, "search", FALSE, "detect")
ConfigSet(p) == Start(p, "set", FALSE, "set")

\* The first model that answers a test. is_available and the test ask the
\* server, so a model that is not there, or no server, means the next one.
AutoDetect ==
  LET answers == {i \in 1..Len(Preference) : Preference[i] \in served}
  IN IF answers = {} THEN NoModel
     ELSE Preference[CHOOSE i \in answers : \A j \in answers : i <= j]

\* mount has its store by now; index and search open theirs after this.
Detect(p) ==
  /\ At(p, "detect")
  /\ proc' = [proc EXCEPT ![p].model = AutoDetect,
                          ![p].pc = IF proc[p].cmd = "mount" THEN "files" ELSE "open",
                          ![p].todo = IF proc[p].cmd = "mount" THEN File ELSE {}]
  /\ UNCHANGED <<config, vfile, files, counters, history>>

\* mount opens the store for the dimensions of the configuration. index and
\* search take those of the model, if there is one.
DimsOfConfig(p) == proc[p].conf["dims"]
DimsFor(p) ==
  IF proc[p].cmd # "mount" /\ proc[p].model # NoModel
  THEN Length[proc[p].model] ELSE proc[p].conf["dims"]

Open(p) ==
  /\ At(p, "open")
  /\ proc' = [proc EXCEPT ![p].store = Opened(DimsFor(p)),
                          ![p].pc = CASE proc[p].cmd = "index" -> "files"
                                      [] proc[p].cmd = "mount" -> "detect"
                                      [] proc[p].cmd = "search" -> "ask",
                          ![p].todo = IF proc[p].cmd = "index" THEN File ELSE {}]
  /\ fresh' = [fresh EXCEPT ![p] = TRUE]
  /\ UNCHANGED <<config, vfile, files, counters, calm, lastSet, mixed>>

-----------------------------------------------------------------------------
\* A save of p's copy, and what it means for the others. One that fails is only
\* logged, so that p goes on with a copy that is not in the file.
Saves(p, s) ==
  \/ /\ Save(s) /\ UNCHANGED counters
     /\ fresh' = [q \in Process |-> q = p /\ fresh[p]]
     /\ calm' = (calm /\ fresh[p] /\ vfile.dims \in {0, s.dims})
  \/ /\ SaveFails /\ Fails
     /\ fresh' = [q \in Process |-> q # p /\ fresh[q] /\ vfile' = vfile]

Unchanged(f) == f \in DOMAIN rows /\ rows[f].hash = disk[f]

\* p goes on within process_file as job, and saves nothing.
Works(p, job) ==
  /\ proc' = [proc EXCEPT ![p] = job]
  /\ UNCHANGED <<config, vfile, disk, served, fresh, lastSet, mixed>>

\* process_file ends, with or without an error.
Returned(job) == [job EXCEPT !.pc = "files", !.file = NoFile, !.hash = 0, !.row = 0]

\* It leaves a file it has indexed, or cannot read.
SkipFile(p) ==
  /\ At(p, "files")
  /\ \E f \in proc[p].todo :
       /\ (Unchanged(f) /\ Goes) \/ Fails
       /\ Works(p, [proc[p] EXCEPT !.todo = @ \ {f}])
  /\ UNCHANGED <<rows, nextId>>

\* A hash that cannot be got counts as changed.
TakeFile(p) ==
  /\ At(p, "files")
  /\ \E f \in proc[p].todo :
       /\ (~Unchanged(f) /\ Goes) \/ Fails
       /\ Works(p, [proc[p] EXCEPT !.pc = "look", !.todo = @ \ {f},
                                   !.file = f, !.hash = disk[f]])
  /\ UNCHANGED <<rows, nextId>>

\* An old row that cannot be looked up is not deleted.
LookUp(p) ==
  /\ At(p, "look")
  /\ LET f == proc[p].file
     IN  \/ /\ f \in DOMAIN rows /\ Goes
            /\ Works(p, [proc[p] EXCEPT !.pc = "drop", !.row = rows[f].id])
         \/ /\ (f \notin DOMAIN rows /\ Goes) \/ Fails
            /\ Works(p, [proc[p] EXCEPT !.pc = "insert"])
  /\ UNCHANGED <<rows, nextId>>

\* delete_file, whose error is ignored; the row may be gone already.
DropRow(p) ==
  /\ At(p, "drop")
  /\ Works(p, [proc[p] EXCEPT !.pc = "dropvec"])
  /\ \/ /\ rows' = [f \in {g \in DOMAIN rows : rows[g].id # proc[p].row} |-> rows[f]]
        /\ Goes
     \/ Fails /\ UNCHANGED rows
  /\ UNCHANGED nextId

\* delete_by_file, in memory and on disk.
LeavesOld(p) == proc[p].store
DropsOld(p) == Without(proc[p].store, proc[p].row)

DropVectors(p) ==
  /\ At(p, "dropvec")
  /\ LET s == DropsOld(p)
     IN  /\ proc' = [proc EXCEPT ![p] =
                       [proc[p] EXCEPT !.pc = "insert", !.store = s, !.row = 0]]
         /\ Saves(p, s)
  /\ UNCHANGED <<config, files, lastSet, mixed>>

\* The path is UNIQUE: of two runs that replace a file one cannot insert it.
InsertRow(p) ==
  /\ At(p, "insert")
  /\ LET f == proc[p].file
     IN  \/ /\ f \notin DOMAIN rows /\ Goes
            /\ rows' = [g \in DOMAIN rows \cup {f} |->
                 IF g = f THEN [id |-> nextId, hash |-> proc[p].hash, by |-> NoModel]
                 ELSE rows[g]]
            /\ nextId' = nextId + 1
            /\ Works(p, [proc[p] EXCEPT !.pc = "chunks", !.hash = 0, !.row = nextId])
         \/ /\ (f \in DOMAIN rows /\ Goes) \/ Fails
            /\ Works(p, Returned(proc[p]))
            /\ UNCHANGED <<rows, nextId>>

\* The chunks of a row that is gone are refused; those before the error wait in
\* the batch all the same.
AddChunks(p) ==
  /\ At(p, "chunks")
  /\ LET f == proc[p].file
         model == proc[p].model
         new == IF model = NoModel THEN {} ELSE {[id |-> proc[p].row, by |-> model]}
         stands == f \in DOMAIN rows /\ rows[f].id = proc[p].row
     IN  \/ /\ stands /\ Goes
            /\ rows' = [rows EXCEPT ![f].by = model]
            /\ Works(p, Returned([proc[p] EXCEPT !.batch = @ \cup new]))
         \/ /\ (~stands /\ Goes) \/ Fails
            /\ \E some \in {{}, new} :
                 Works(p, Returned([proc[p] EXCEPT !.batch = @ \cup some]))
            /\ UNCHANGED rows
  /\ UNCHANGED nextId

\* A batch that cannot be embedded, or has vectors of a wrong length, is
\* dropped with a warning.
EmbedBatch(p) ==
  /\ proc[p].batch # {}
  /\ LET s == With(proc[p].store, proc[p].batch)
         fits == Fits(proc[p].store, proc[p].batch)
     IN  \/ /\ fits /\ Saves(p, s)
            /\ proc' = [proc EXCEPT ![p] = [proc[p] EXCEPT !.store = s, !.batch = {}]]
         \/ /\ Fails \/ (~fits /\ calm' = FALSE /\ UNCHANGED counters)
            /\ proc' = [proc EXCEPT ![p] = [proc[p] EXCEPT !.batch = {}]]
            /\ UNCHANGED <<vfile, fresh>>
  /\ UNCHANGED <<config, files, lastSet, mixed>>

EndIndexing(p) ==
  /\ At(p, "files") /\ proc[p].todo = {} /\ proc[p].batch = {}
  /\ proc' = [proc EXCEPT ![p] = Idle]
  /\ UNCHANGED <<config, vfile, files, counters, history>>

\* The query is embedded and compared with every vector; a query of another
\* length than the store's is an error that hides all words found, too.
EndSearch(p) ==
  /\ At(p, "ask")
  /\ proc' = [proc EXCEPT ![p] = Idle]
  /\ UNCHANGED <<config, vfile, files, counters, history>>

\* execute_set: parse the value, save() truncates and then writes.
BeginSave(p) ==
  /\ At(p, "set")
  /\ \/ /\ \E k \in Key : \E v \in Value[k] :
             /\ proc' = [proc EXCEPT ![p].conf = SetKey(@, k, v), ![p].pc = "write"]
             /\ lastSet' = [lastSet EXCEPT ![k] = v]
        /\ Truncate
     \/ /\ proc' = [proc EXCEPT ![p] = Idle] /\ UNCHANGED <<config, lastSet>>
  /\ UNCHANGED <<vfile, files, counters, fresh, calm, mixed>>

EndSave(p) ==
  /\ At(p, "write")
  /\ WriteConfig(proc[p].conf, \A q \in Others(p) : ~At(q, "write"))
  /\ proc' = [proc EXCEPT ![p] = Idle]
  /\ UNCHANGED <<vfile, files, counters, history>>

\* A process dies. One that was saving vectors may leave half a file.
Crash(p) ==
  /\ ~At(p, "idle") /\ Fails
  /\ proc' = [proc EXCEPT ![p] = Idle]
  /\ vfile' \in {vfile} \cup IF proc[p].pc \in Indexing THEN {Unwritten} ELSE {}
  /\ fresh' = [q \in Process |-> fresh[q] /\ vfile' = vfile]
  /\ mixed' = (mixed \/ At(p, "write"))
  /\ UNCHANGED <<config, files, lastSet>>

Command(p) ==
  \/ Index(p) \/ Mount(p) \/ Search(p) \/ ConfigSet(p)
  \/ Detect(p) \/ Open(p) \/ SkipFile(p) \/ TakeFile(p) \/ LookUp(p) \/ DropRow(p)
  \/ DropVectors(p) \/ InsertRow(p) \/ AddChunks(p) \/ EmbedBatch(p) \/ EndIndexing(p)
  \/ EndSearch(p) \/ BeginSave(p) \/ EndSave(p) \/ Crash(p)

Next == Edit \/ Serve \/ \E p \in Process : Command(p)

Spec == Init /\ [][Next]_vars

-----------------------------------------------------------------------------
(* Whatever dimensions the commands were started with, and however they    *)
(* overlap, no file and no process ever holds a vector of another length   *)
(* than the store was opened for (lance.rs:67-74, 131-139).                *)
VectorsHaveFileDims ==
  \A s \in {vfile} \cup {proc[p].store : p \in Process} : Fits(s, s.vectors)

(* A search with a model never fails for a store of another length, though *)
(* the configuration, the server and the file may each say another number  *)
(* (search.rs:13-21).                                                      *)
SearchNeverMismatched ==
  \A p \in Process :
    At(p, "ask") /\ proc[p].model # NoModel => Length[proc[p].model] = proc[p].store.dims

(* The copy of a process is the file, as long as no other process saved, no*)
(* save of its own failed and they agree on the dimensions; so a save then *)
(* loses nothing but the vectors of files it replaced (lance.rs:96-154).   *)
CopyMirrorsFile ==
  \A p \in Process :
    ~At(p, "idle") /\ fresh[p] /\ proc[p].store.dims = vfile.dims => proc[p].store = vfile

(* While the commands were calm, a vector in the file outlives its row only*)
(* while the run that deleted the row has yet to delete the vectors; what  *)
(* runs wait to embed puts no vector of a replaced row back                *)
(* (pipeline.rs:233-279).                                                  *)
VectorsOfRows ==
  calm => \A v \in vfile.vectors :
            \/ \E f \in DOMAIN rows : rows[f].id = v.id
            \/ \E p \in Process : At(p, "dropvec") /\ proc[p].row = v.id

(* While the commands were calm, every file indexed with a model keeps its *)
(* vector on disk or in the batch of the run that is to embed it, through  *)
(* runs without a model, mounts, searches and changes of the configuration.*)
IndexedStays ==
  calm => \A f \in DOMAIN rows :
    rows[f].by # NoModel =>
      [id |-> rows[f].id, by |-> rows[f].by]
        \in vfile.vectors \cup UNION {proc[p].batch : p \in Process}

(* Outside the two steps of a save every key holds the value it was last   *)
(* set to, unless two sets overlapped or one was cut off (config.rs:118).  *)
KeysHoldTheirLastSet ==
  ~mixed /\ (\A p \in Process : ~At(p, "write")) => Load = lastSet

-----------------------------------------------------------------------------
(* main.rs:47 "Force full reindex (ignore cache)": a run with --full and a *)
(* model, in which nothing failed, leaves a vector of every file.          *)
FullReindexes ==
  [][\A p \in Process :
       calm /\ proc[p].full /\ proc[p].model # NoModel /\ EndIndexing(p)
         => \A f \in File : f \in DOMAIN rows /\ \E v \in vfile.vectors : v.id = rows[f].id]_vars
=============================================================================
