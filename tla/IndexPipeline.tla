---------------------------- MODULE IndexPipeline ---------------------------
(***************************************************************************)
(* IndexingPipeline (semfs-core/src/indexer/pipeline.rs). Each runner is a *)
(* process: its main thread works through the crawled files and fills      *)
(* batches of chunks, its embed worker turns batches into vectors, and a   *)
(* bounded channel lies between them. index_directory runs both threads;   *)
(* index_file uses the same code with one thread, which receives only when *)
(* it has sent everything. Runners share the durable index; each has its   *)
(* own in-memory copy of the vectors.                                      *)
(*                                                                         *)
(* A file's content is a version number, its hash the same number, and 0   *)
(* is a file that is absent or not text. Every chunk has some text.        *)
(***************************************************************************)
EXTENDS IndexStore, Sequences

CONSTANTS Runner,
          ChunksOf,     \* file -> the number of chunks its content gives
          BatchSize,    \* batch_size.max(50), pipeline.rs:72
          ChanCap,      \* bounded(4), pipeline.rs:75
          FileBatch,    \* 100, pipeline.rs:291
          Embedders,    \* whether a start may find an embedding model, or not
          MaxVersion, MaxEdits, MaxRuns, MaxFaults  \* bounds

ASSUME PipelineAssumption ==
  /\ File # {} /\ ChunksOf \in [File -> Nat] /\ Embedders \subseteq BOOLEAN
  /\ BatchSize \in Nat \ {0} /\ FileBatch \in Nat \ {0} /\ ChanCap \in Nat \ {0}
  /\ MaxVersion \in Nat \ {0} /\ MaxEdits \in Nat /\ MaxRuns \in Nat /\ MaxFaults \in Nat

VARIABLES
  disk,      \* file -> version
  main,      \* runner -> its main thread
  worker,    \* runner -> its embed worker
  chan,      \* runner -> the batches in the channel
  mem,       \* runner -> LanceStore::data
  edits, runs, faults,   \* bounded counters
  clean,     \* history: runner -> nothing failed since its run began
  done       \* history: runner -> ids this run has indexed

vars == <<rows, nextFile, fts, chunks, vbin, disk, main, worker, chan, mem,
          edits, runs, faults, clean, done>>

Item == (1..(nextFile - 1)) \X Nat

MainStep == {"idle", "next", "lookup", "dropchunks", "droprow", "dropvec", "savebegin",
             "saveend", "insert", "fts", "chunk", "send", "flush", "close", "join"}

TypeOK ==
  /\ StoreTypeOK
  /\ disk \in [File -> 0..MaxVersion]
  /\ main \in [Runner -> [pc : MainStep, single : BOOLEAN, embeds : BOOLEAN,
                          todo : SUBSET File, file : File, hash : 0..MaxVersion,
                          id : 0..(nextFile - 1), k : Nat, batch : SUBSET Item]]
  /\ worker \in [Runner -> [pc : {"recv", "embed", "savebegin", "saveend", "gone"},
                            batch : SUBSET Item]]
  /\ \A r \in Runner :
       /\ Len(chan[r]) <= ChanCap
       /\ \A i \in 1..Len(chan[r]) : chan[r][i] # {} /\ chan[r][i] \subseteq Item
       /\ Cardinality(main[r].batch) <= BatchSize \/ main[r].single
       /\ mem[r] \subseteq Item

Idle == [pc |-> "idle", single |-> FALSE, embeds |-> FALSE, todo |-> {},
         file |-> CHOOSE f \in File : TRUE, hash |-> 0, id |-> 0, k |-> 0, batch |-> {}]
Gone == [pc |-> "gone", batch |-> {}]

Init ==
  /\ StoreInit
  /\ disk \in [File -> {1}]
  /\ main = [r \in Runner |-> Idle] /\ worker = [r \in Runner |-> Gone]
  /\ chan = [r \in Runner |-> << >>] /\ mem = [r \in Runner |-> {}]
  /\ edits = 0 /\ runs = 0 /\ faults = 0
  /\ clean = [r \in Runner |-> TRUE] /\ done = [r \in Runner |-> {}]

-----------------------------------------------------------------------------
At(r, step) == main[r].pc = step
Go(r, step) == main' = [main EXCEPT ![r].pc = step]

\* `let _ =` and `?` over a call that fails: every failure costs one fault.
Faulty(r) ==
  /\ faults < MaxFaults /\ faults' = faults + 1
  /\ clean' = [clean EXCEPT ![r] = FALSE]
NoFault == UNCHANGED <<faults, clean>>

\* process_file returns an error: index_directory counts it and goes on with
\* the batch it has; index_file returns, and its channel goes with it.
Abandon(r) ==
  IF main[r].single
  THEN /\ main' = [main EXCEPT ![r] = Idle]
       /\ worker' = [worker EXCEPT ![r] = Gone]
       /\ chan' = [chan EXCEPT ![r] = << >>]
       /\ done' = [done EXCEPT ![r] = {}]
  ELSE Go(r, "next") /\ UNCHANGED <<worker, chan, done>>

\* save_to_disk holds the read lock of LanceStore::data until the file is
\* written, so the map does not change under a save.
Saving(r) == main[r].pc = "saveend" \/ worker[r].pc = "saveend"

\* Two processes writing vectors.bin at once may leave a mixture.
Saved(r) == {mem[r]} \cup IF \E q \in Runner \ {r} : Saving(q) THEN {Torn} ELSE {}

-----------------------------------------------------------------------------
Edit ==
  /\ edits < MaxEdits /\ edits' = edits + 1
  /\ \E f \in File, v \in 0..MaxVersion :
       disk[f] # v /\ disk' = [disk EXCEPT ![f] = v]
  /\ UNCHANGED <<storeVars, main, worker, chan, mem, runs, faults, clean, done>>

\* A process opens the stores and starts to index. The worker's thread may
\* fail to start, and then the channel has no receiver.
Start(r, single, files) ==
  /\ At(r, "idle") /\ runs < MaxRuns /\ runs' = runs + 1
  /\ \E embeds \in Embedders :
       /\ main' = [main EXCEPT ![r] = [Idle EXCEPT !.pc = "next", !.single = single,
                                                   !.embeds = embeds, !.todo = files]]
       /\ \/ /\ worker' = [worker EXCEPT ![r].pc = IF embeds \/ single THEN "recv" ELSE "gone"]
             /\ clean' = [clean EXCEPT ![r] = TRUE] /\ UNCHANGED faults
          \/ embeds /\ ~single /\ Faulty(r) /\ UNCHANGED worker
  /\ mem' = [mem EXCEPT ![r] = Loaded]
  /\ UNCHANGED <<storeVars, disk, chan, edits, done>>

\* crawl_directory: the files that are there and not ignored.
Crawled == {f \in File : disk[f] # 0}

IndexDirectory(r) == Start(r, FALSE, Crawled)
IndexFile(r) == \E f \in File : Start(r, TRUE, {f})

\* process_file begins: read, hash, compare with the stored hash. An unreadable
\* file and an equal hash are skipped; a hash that cannot be looked up counts as
\* a changed one.
Take(r, f, skip) ==
  main' = [main EXCEPT ![r] =
    [main[r] EXCEPT !.todo = main[r].todo \ {f}, !.file = f, !.hash = disk[f], !.k = 0,
                    !.id = 0, !.pc = IF skip THEN "next" ELSE "lookup"]]

ReadFile(r) ==
  /\ At(r, "next")
  /\ \E f \in main[r].todo :
       \/ /\ Take(r, f, disk[f] = 0 \/ \E i \in RowsOf(f) : rows[i].hash = disk[f])
          /\ NoFault
       \/ disk[f] # 0 /\ Take(r, f, FALSE) /\ Faulty(r)
  /\ UNCHANGED <<storeVars, disk, worker, chan, mem, edits, runs, done>>

\* The metadata of a file removed meanwhile cannot be read; otherwise the old
\* row, if there is one, is to be replaced. A row that cannot be looked up
\* counts as none.
LookUp(r) ==
  /\ At(r, "lookup")
  /\ LET f == main[r].file IN
       \/ disk[f] = 0 /\ Abandon(r) /\ NoFault
       \/ /\ disk[f] # 0 /\ UNCHANGED <<worker, chan, done>>
          /\ \/ RowsOf(f) = {} /\ Go(r, "insert") /\ NoFault
             \/ Go(r, "insert") /\ Faulty(r)
             \/ /\ \E i \in RowsOf(f) :
                      main' = [main EXCEPT ![r].pc = "dropchunks", ![r].id = i]
                /\ NoFault
  /\ UNCHANGED <<storeVars, disk, mem, edits, runs>>

\* Errors of the three deletions are ignored.
DropChunks(r) ==
  /\ At(r, "dropchunks") /\ Go(r, "droprow")
  /\ \/ DeleteChunks(main[r].id) /\ NoFault
     \/ Faulty(r) /\ UNCHANGED storeVars
  /\ UNCHANGED <<disk, worker, chan, mem, edits, runs, done>>

DropRow(r) ==
  /\ At(r, "droprow") /\ Go(r, "dropvec")
  /\ \/ DeleteFile(main[r].id) /\ NoFault
     \/ Faulty(r) /\ UNCHANGED storeVars
  /\ UNCHANGED <<disk, worker, chan, mem, edits, runs, done>>

KeepVectors(r) == mem[r]
DropVectors(r) == {x \in mem[r] : x[1] # main[r].id}

DropVec(r) ==
  /\ At(r, "dropvec") /\ ~Saving(r) /\ Go(r, "savebegin")
  /\ mem' = [mem EXCEPT ![r] = DropVectors(r)]
  /\ UNCHANGED <<storeVars, disk, worker, chan, edits, runs, faults, clean, done>>

\* A write that cannot begin, or cannot end, is only warned about.
MainSaves(r) ==
  /\ \/ At(r, "savebegin") /\ vbin' = Torn /\ Go(r, "saveend") /\ NoFault
     \/ At(r, "saveend") /\ vbin' \in Saved(r) /\ Go(r, "insert") /\ NoFault
     \/ main[r].pc \in {"savebegin", "saveend"} /\ Faulty(r) /\ Go(r, "insert") /\ UNCHANGED vbin
  /\ UNCHANGED <<rows, nextFile, fts, chunks, disk, worker, chan, mem, edits, runs, done>>

InsertRow(r) ==
  /\ At(r, "insert")
  /\ \/ /\ RowsOf(main[r].file) = {} /\ InsertFile(main[r].file, main[r].hash)
        /\ main' = [main EXCEPT ![r].pc = "fts", ![r].id = nextFile]
        /\ NoFault /\ UNCHANGED <<worker, chan, done>>
     \/ RowsOf(main[r].file) # {} /\ Abandon(r) /\ NoFault /\ UNCHANGED storeVars
     \/ Faulty(r) /\ Abandon(r) /\ UNCHANGED storeVars
  /\ UNCHANGED <<disk, mem, edits, runs>>

InsertFts(r) ==
  /\ At(r, "fts")
  /\ \/ IndexContent(main[r].id) /\ Go(r, "chunk") /\ NoFault /\ UNCHANGED <<worker, chan, done>>
     \/ Faulty(r) /\ Abandon(r) /\ UNCHANGED storeVars
  /\ UNCHANGED <<disk, mem, edits, runs>>

\* A batch is sent when it has reached its size.
FullLate(r) == Cardinality(main[r].batch) >= IF main[r].single THEN FileBatch ELSE BatchSize
Full(r) == Cardinality(main[r].batch) + 1 >= IF main[r].single THEN FileBatch ELSE BatchSize

NextChunk(r) ==
  /\ At(r, "chunk") /\ main[r].k < ChunksOf[main[r].file]
  /\ \/ LET k == main[r].k + 1
            batch == IF main[r].embeds THEN main[r].batch \cup {<<main[r].id, k>>} ELSE {}
        IN  /\ CanInsertChunk(main[r].id) /\ InsertChunk(main[r].id, k)
            /\ main' = [main EXCEPT ![r].k = k, ![r].batch = batch,
                          ![r].pc = IF main[r].embeds /\ Full(r) THEN "send" ELSE "chunk"]
            /\ NoFault /\ UNCHANGED <<worker, chan, done>>
     \/ ~CanInsertChunk(main[r].id) /\ Abandon(r) /\ NoFault /\ UNCHANGED storeVars
     \/ Faulty(r) /\ Abandon(r) /\ UNCHANGED storeVars
  /\ UNCHANGED <<disk, mem, edits, runs>>

EndFile(r) ==
  /\ At(r, "chunk") /\ main[r].k = ChunksOf[main[r].file]
  /\ Go(r, "next")
  /\ done' = [done EXCEPT ![r] = @ \cup {main[r].id}]
  /\ UNCHANGED <<storeVars, disk, worker, chan, mem, edits, runs, faults, clean>>

\* send blocks while the channel is full; it fails, and the batch is lost,
\* when the receiver is gone.
Cap(r) == IF main[r].single THEN 1 ELSE ChanCap

Send(r) ==
  /\ main[r].pc \in {"send", "flush"}
  /\ worker[r].pc # "gone" => Len(chan[r]) < Cap(r)
  /\ chan' = IF worker[r].pc = "gone" THEN chan
             ELSE [chan EXCEPT ![r] = Append(@, main[r].batch)]
  /\ main' = [main EXCEPT ![r].batch = {},
                          ![r].pc = IF At(r, "send") THEN "chunk" ELSE "close"]
  /\ UNCHANGED <<storeVars, disk, worker, mem, edits, runs, faults, clean, done>>

\* All files are done: flush what is left of the batch.
AfterFilesDrops(r) == "close"
AfterFiles(r) == IF main[r].batch # {} THEN "flush" ELSE "close"

EndFiles(r) ==
  /\ At(r, "next") /\ main[r].todo = {} /\ Go(r, AfterFiles(r))
  /\ UNCHANGED <<storeVars, disk, worker, chan, mem, edits, runs, faults, clean, done>>

\* drop(embed_tx): the worker ends when the channel is empty.
CloseChannel(r) ==
  /\ At(r, "close") /\ Go(r, "join")
  /\ UNCHANGED <<storeVars, disk, worker, chan, mem, edits, runs, faults, clean, done>>

JoinsNobody(r) == TRUE
WorkerEnded(r) == worker[r].pc = "gone"

Join(r) ==
  /\ At(r, "join") /\ WorkerEnded(r)
  /\ main' = [main EXCEPT ![r] = Idle]
  /\ done' = [done EXCEPT ![r] = {}] /\ mem' = [mem EXCEPT ![r] = {}]
  /\ UNCHANGED <<storeVars, disk, worker, chan, edits, runs, faults, clean>>

-----------------------------------------------------------------------------
\* index_file has no second thread: it receives after drop(tx).
MayReceive(r) == main[r].single => At(r, "join")

HangsUpNever(r) == FALSE
HangsUp(r) == At(r, "join") /\ chan[r] = << >>

Receive(r) ==
  /\ worker[r].pc = "recv" /\ MayReceive(r)
  /\ \/ /\ chan[r] # << >>
        /\ worker' = [worker EXCEPT ![r] = [pc |-> "embed", batch |-> Head(chan[r])]]
        /\ chan' = [chan EXCEPT ![r] = Tail(@)]
     \/ HangsUp(r) /\ worker' = [worker EXCEPT ![r].pc = "gone"] /\ UNCHANGED chan
  /\ UNCHANGED <<storeVars, disk, main, mem, edits, runs, faults, clean, done>>

\* embed_batch, and LanceStore::insert's change of the map. A failed batch is
\* dropped with a warning.
Embed(r) ==
  /\ worker[r].pc = "embed" /\ ~Saving(r)
  /\ \/ /\ mem' = [mem EXCEPT ![r] = @ \cup worker[r].batch]
        /\ worker' = [worker EXCEPT ![r] = [pc |-> "savebegin", batch |-> {}]]
        /\ NoFault
     \/ /\ worker' = [worker EXCEPT ![r] = [pc |-> "recv", batch |-> {}]]
        /\ Faulty(r) /\ UNCHANGED mem
  /\ UNCHANGED <<storeVars, disk, main, chan, edits, runs, done>>

WorkerSaves(r) ==
  /\ \/ worker[r].pc = "savebegin" /\ vbin' = Torn /\ NoFault
        /\ worker' = [worker EXCEPT ![r].pc = "saveend"]
     \/ worker[r].pc = "saveend" /\ vbin' \in Saved(r) /\ NoFault
        /\ worker' = [worker EXCEPT ![r].pc = "recv"]
     \/ worker[r].pc \in {"savebegin", "saveend"} /\ Faulty(r) /\ UNCHANGED vbin
        /\ worker' = [worker EXCEPT ![r].pc = "recv"]
  /\ UNCHANGED <<rows, nextFile, fts, chunks, disk, main, chan, mem, edits, runs, done>>

\* The process dies: the batch, the channel and the map of vectors are gone.
Crash(r) ==
  /\ ~At(r, "idle") /\ Faulty(r)
  /\ main' = [main EXCEPT ![r] = Idle] /\ worker' = [worker EXCEPT ![r] = Gone]
  /\ chan' = [chan EXCEPT ![r] = << >>] /\ done' = [done EXCEPT ![r] = {}]
  /\ mem' = [mem EXCEPT ![r] = {}]
  /\ UNCHANGED <<storeVars, disk, edits, runs>>

Main(r) ==
  \/ ReadFile(r) \/ LookUp(r) \/ DropChunks(r) \/ DropRow(r) \/ DropVec(r) \/ MainSaves(r)
  \/ InsertRow(r) \/ InsertFts(r) \/ NextChunk(r) \/ EndFile(r) \/ Send(r)
  \/ EndFiles(r) \/ CloseChannel(r) \/ Join(r)

Worker(r) == Receive(r) \/ Embed(r) \/ WorkerSaves(r)

Environment(r) == IndexDirectory(r) \/ Crash(r)

Next == Edit \/ \E r \in Runner : Environment(r) \/ Main(r) \/ Worker(r)

Spec == Init /\ [][Next]_vars

\* Both threads of a running index are scheduled.
Fairness == \A r \in Runner : WF_vars(Main(r)) /\ WF_vars(Worker(r))

\* The same with index_file, which nothing in the program calls yet.
FileNext == Next \/ \E r \in Runner : IndexFile(r)
FileSpec == Init /\ [][FileNext]_vars /\ Fairness

-----------------------------------------------------------------------------
Searchable(id) ==
  /\ id \in DOMAIN rows /\ id \in fts
  /\ vbin # Torn
  /\ \A k \in 1..ChunksOf[rows[id].path] : <<id, k>> \in chunks /\ <<id, k>> \in vbin

(* A run with an embedder in which nothing failed leaves every file it     *)
(* reports as indexed searchable by words and by meaning, on disk, whatever*)
(* crashed before it: nothing is left in a batch, the channel or the       *)
(* worker's hands (pipeline.rs:150-162).                                   *)
CleanRunIndexes ==
  [][\A r \in Runner :
       At(r, "join") /\ ~At(r, "join")' /\ clean'[r] /\ main[r].embeds
         => \A id \in done[r] : Searchable(id)]_vars

(* Words are found only in files that exist, also after a crash between    *)
(* any two statements and the runs that follow it (sqlite.rs:137-145).     *)
FtsHasFile == fts \subseteq DOMAIN rows

(* While nothing has failed, no vector of a replaced file survives it: not *)
(* in memory, in the channel, in a batch or in the file, outside the steps *)
(* that replace it (pipeline.rs:233-240).                                  *)
InFlight(r) == main[r].batch \cup worker[r].batch \cup UNION {chan[r][i] : i \in 1..Len(chan[r])}
NoOrphanVectors ==
  \A r \in Runner :
    faults = 0 /\ main[r].pc \notin {"dropvec", "savebegin", "saveend"} =>
      \A x \in InFlight(r) \cup mem[r] : x[1] \in DOMAIN rows

\* index_file has filled its channel and its only thread waits to send more.
WaitsForItself(r) ==
  main[r].single /\ main[r].pc \in {"send", "flush"} /\ Len(chan[r]) = Cap(r)

(* Every run of index_directory ends, whatever the sizes of batches and    *)
(* channel are: its threads never wait for each other. A run of index_file *)
(* ends too, or waits for itself, and that only over a file of more chunks *)
(* than its batch holds (pipeline.rs:75, 130-162, 283-294).                *)
RunEnds ==
  \A r \in Runner :
    ~At(r, "idle") ~>
      \/ At(r, "idle")
      \/ WaitsForItself(r) /\ ChunksOf[main[r].file] > FileBatch

=============================================================================
