------------------------ MODULE IndexPipelineProofs -------------------------
(***************************************************************************)
(* Proofs about IndexPipeline: for any number of runners the types and the *)
(* limits of batches and channels, for one runner what its index holds.    *)
(***************************************************************************)
EXTENDS IndexPipeline, FiniteSetTheorems, TLAPS

-----------------------------------------------------------------------------
\* The state of a runner when n is the next file id.
Ids(n) == 1..(n - 1)
Items(n) == Ids(n) \X Nat
MainRec(n) ==
  [pc : MainStep, single : BOOLEAN, embeds : BOOLEAN, todo : SUBSET File, file : File,
   hash : 0..MaxVersion, id : 0..(n - 1), k : Nat, batch : SUBSET Items(n)]
WorkerRec(n) ==
  [pc : {"recv", "embed", "savebegin", "saveend", "gone"}, batch : SUBSET Items(n)]

Types ==
  /\ StoreTypeOK
  /\ disk \in [File -> 0..MaxVersion]
  /\ main \in [Runner -> MainRec(nextFile)]
  /\ worker \in [Runner -> WorkerRec(nextFile)]
  /\ chan \in [Runner -> Seq(SUBSET Items(nextFile))]
  /\ mem \in [Runner -> SUBSET Items(nextFile)]
  /\ faults \in Nat /\ clean \in [Runner -> BOOLEAN] /\ done \in [Runner -> SUBSET Nat]

\* A batch is sent when it has reached its size, and only if it holds some.
Batch(m) ==
  /\ IsFiniteSet(m.batch)
  /\ ~m.single => IF m.pc = "send" THEN Cardinality(m.batch) <= BatchSize
                                   ELSE Cardinality(m.batch) < BatchSize
  /\ m.pc \in {"send", "flush"} => m.batch # {}
  /\ m.pc = "fts" => m.id # 0

Channel(c) ==
  /\ Len(c) <= ChanCap
  /\ \A i \in 1..Len(c) : c[i] # {}

TInv == Types /\ \A r \in Runner : Batch(main[r]) /\ Channel(chan[r])

LEMMA TInvTypes == TInv => TypeOK
<1> SUFFICES ASSUME TInv PROVE TypeOK
  OBVIOUS
<1>1. Item = Items(nextFile)
  BY DEF Item, Items, Ids
<1>2. main \in [Runner -> [pc : MainStep, single : BOOLEAN, embeds : BOOLEAN,
                           todo : SUBSET File, file : File, hash : 0..MaxVersion,
                           id : 0..(nextFile - 1), k : Nat, batch : SUBSET Item]]
  BY <1>1 DEF TInv, Types, MainRec
<1>3. worker \in [Runner -> [pc : {"recv", "embed", "savebegin", "saveend", "gone"},
                             batch : SUBSET Item]]
  BY <1>1 DEF TInv, Types, WorkerRec
<1>4. ASSUME NEW r \in Runner
      PROVE  /\ Len(chan[r]) <= ChanCap
             /\ \A i \in 1..Len(chan[r]) : chan[r][i] # {} /\ chan[r][i] \subseteq Item
             /\ Cardinality(main[r].batch) <= BatchSize \/ main[r].single
             /\ mem[r] \subseteq Item
  <2>1. chan[r] \in Seq(SUBSET Item) /\ mem[r] \subseteq Item
    BY <1>1 DEF TInv, Types
  <2>2. Cardinality(main[r].batch) \in Nat
    BY FS_CardinalityType DEF TInv, Batch
  <2>3. Cardinality(main[r].batch) <= BatchSize \/ main[r].single
    BY <2>2, PipelineAssumption DEF TInv, Batch
  <2>4. \A i \in 1..Len(chan[r]) : chan[r][i] \in SUBSET Item
    BY <2>1
  <2> QED BY <2>1, <2>3, <2>4 DEF TInv, Channel
<1> QED BY <1>2, <1>3, <1>4 DEF TInv, Types, TypeOK

LEMMA IdleTypes == ASSUME NEW n \in Nat \ {0} PROVE Idle \in MainRec(n) /\ Gone \in WorkerRec(n)
<1>1. (CHOOSE f \in File : TRUE) \in File
  BY PipelineAssumption
<1>2. 0 \in 0..MaxVersion /\ 0 \in 0..(n - 1)
  BY PipelineAssumption
<1> QED BY <1>1, <1>2 DEF Idle, Gone, MainRec, WorkerRec, MainStep

LEMMA InitTInv == Init => TInv
<1> SUFFICES ASSUME Init PROVE TInv
  OBVIOUS
<1>1. nextFile = 1 /\ 1 \in Nat \ {0}
  BY DEF Init, StoreInit
<1>2. Idle \in MainRec(nextFile) /\ Gone \in WorkerRec(nextFile)
  BY <1>1, IdleTypes
<1>3. StoreTypeOK
  BY DEF Init, StoreInit, StoreTypeOK
<1>4. disk \in [File -> 0..MaxVersion]
  BY PipelineAssumption DEF Init
<1>5. chan \in [Runner -> Seq(SUBSET Items(nextFile))]
  <2>1. << >> \in Seq(SUBSET Items(nextFile))
    OBVIOUS
  <2> QED BY <2>1 DEF Init
<1>6. Types
  BY <1>2, <1>3, <1>4, <1>5 DEF Init, Types
<1>7. IsFiniteSet({}) /\ Cardinality({}) = 0
  BY FS_EmptySet
<1>8. ASSUME NEW r \in Runner PROVE Batch(main[r]) /\ Channel(chan[r])
  <2>1. main[r] = Idle /\ chan[r] = << >> /\ Len(<< >>) = 0
    BY DEF Init
  <2>2. Idle.batch = {} /\ Idle.pc = "idle"
    BY DEF Idle
  <2> QED BY <1>7, <2>1, <2>2, PipelineAssumption DEF Batch, Channel
<1> QED BY <1>6, <1>8 DEF TInv

-----------------------------------------------------------------------------
\* A step of one runner that gives no file id.
LEMMA RunnerStep ==
  ASSUME TInv, NEW r \in Runner, nextFile' = nextFile, StoreTypeOK', UNCHANGED disk,
         NEW m \in MainRec(nextFile), main' = [main EXCEPT ![r] = m], Batch(m),
         NEW w \in WorkerRec(nextFile), worker' = [worker EXCEPT ![r] = w],
         NEW c \in Seq(SUBSET Items(nextFile)), chan' = [chan EXCEPT ![r] = c], Channel(c),
         NEW v \in SUBSET Items(nextFile), mem' = [mem EXCEPT ![r] = v],
         faults' \in Nat, clean' \in [Runner -> BOOLEAN], done' \in [Runner -> SUBSET Nat]
  PROVE  TInv'
<1>1. main' \in [Runner -> MainRec(nextFile)]
  BY DEF TInv, Types
<1>2. worker' \in [Runner -> WorkerRec(nextFile)]
  BY DEF TInv, Types
<1>3. chan' \in [Runner -> Seq(SUBSET Items(nextFile))]
  BY DEF TInv, Types
<1>4. mem' \in [Runner -> SUBSET Items(nextFile)]
  BY DEF TInv, Types
<1>5. Types'
  BY <1>1, <1>2, <1>3, <1>4 DEF TInv, Types
<1>6. ASSUME NEW q \in Runner PROVE Batch(main'[q]) /\ Channel(chan'[q])
  <2>1. main'[q] = IF q = r THEN m ELSE main[q]
    BY DEF TInv, Types
  <2>2. chan'[q] = IF q = r THEN c ELSE chan[q]
    BY DEF TInv, Types
  <2> QED BY <2>1, <2>2 DEF TInv
<1>7. \A q \in Runner : Batch(main[q])' /\ Channel(chan[q])'
  BY <1>6 DEF Batch, Channel
<1> QED BY <1>5, <1>7 DEF TInv

\* What a runner has before its step.
LEMMA Before ==
  ASSUME TInv, NEW r \in Runner
  PROVE  /\ nextFile \in Nat \ {0} /\ StoreTypeOK /\ faults \in Nat
         /\ clean \in [Runner -> BOOLEAN] /\ done \in [Runner -> SUBSET Nat]
         /\ main[r] \in MainRec(nextFile) /\ Batch(main[r])
         /\ worker[r] \in WorkerRec(nextFile)
         /\ chan[r] \in Seq(SUBSET Items(nextFile)) /\ Channel(chan[r])
         /\ mem[r] \in SUBSET Items(nextFile)
         /\ main = [main EXCEPT ![r] = main[r]] /\ worker = [worker EXCEPT ![r] = worker[r]]
         /\ chan = [chan EXCEPT ![r] = chan[r]] /\ mem = [mem EXCEPT ![r] = mem[r]]
BY DEF TInv, Types, StoreTypeOK

LEMMA FaultTypes ==
  ASSUME TInv, NEW r \in Runner, NoFault \/ Faulty(r)
  PROVE  faults' \in Nat /\ clean' \in [Runner -> BOOLEAN]
<1>1. CASE NoFault
  BY <1>1 DEF TInv, Types, NoFault
<1>2. CASE Faulty(r)
  <2>1. faults \in Nat /\ clean \in [Runner -> BOOLEAN]
    BY DEF TInv, Types
  <2> QED BY <1>2, <2>1 DEF Faulty
<1> QED BY <1>1, <1>2

\* A step of the main thread that leaves its batch.
LEMMA GoTypes ==
  ASSUME NEW n \in Nat \ {0}, NEW m \in MainRec(n), NEW s \in MainStep
  PROVE  /\ [m EXCEPT !.pc = s] \in MainRec(n)
         /\ Batch(m) /\ m.pc # "send" /\ s \notin {"send", "flush", "fts"}
              => Batch([m EXCEPT !.pc = s])
<1> DEFINE q == [m EXCEPT !.pc = s]
<1>1. q \in MainRec(n)
  BY DEF MainRec
<1>2. q.pc = s /\ q.batch = m.batch /\ q.single = m.single
  BY DEF MainRec
<1> HIDE DEF q
<1>3. Batch(m) /\ m.pc # "send" /\ s \notin {"send", "flush", "fts"} => Batch(q)
  BY <1>2 DEF Batch
<1> QED BY <1>1, <1>3 DEF q

LEMMA EmptyTypes ==
  ASSUME NEW n \in Nat \ {0}
  PROVE  /\ Idle \in MainRec(n) /\ Batch(Idle) /\ Gone \in WorkerRec(n)
         /\ << >> \in Seq(SUBSET Items(n)) /\ Channel(<< >>)
<1>1. IsFiniteSet({}) /\ Cardinality({}) = 0
  BY FS_EmptySet
<1>2. Idle.batch = {} /\ Idle.pc = "idle"
  BY DEF Idle
<1>3. Batch(Idle)
  BY <1>1, <1>2, PipelineAssumption DEF Batch
<1>4. Channel(<< >>)
  BY PipelineAssumption DEF Channel
<1> QED BY <1>3, <1>4, IdleTypes

LEMMA AbandonTypes ==
  ASSUME TInv, NEW r \in Runner, Abandon(r), main[r].pc # "send",
         nextFile' = nextFile, StoreTypeOK', UNCHANGED <<disk, mem>>, NoFault \/ Faulty(r)
  PROVE  TInv'
<1> DEFINE n == nextFile
<1>1. n \in Nat \ {0} /\ main[r] \in MainRec(n) /\ Batch(main[r])
      /\ faults' \in Nat /\ clean' \in [Runner -> BOOLEAN]
  BY Before, FaultTypes
<1>2. CASE main[r].single
  <2>1. /\ main' = [main EXCEPT ![r] = Idle] /\ worker' = [worker EXCEPT ![r] = Gone]
        /\ chan' = [chan EXCEPT ![r] = << >>] /\ done' = [done EXCEPT ![r] = {}]
    BY <1>2 DEF Abandon
  <2>2. done' \in [Runner -> SUBSET Nat]
    BY <2>1, Before
  <2>3. mem' = [mem EXCEPT ![r] = mem[r]] /\ mem[r] \in SUBSET Items(n)
    BY Before
  <2> QED BY <1>1, <2>1, <2>2, <2>3, EmptyTypes, RunnerStep
<1>3. CASE ~main[r].single
  <2> DEFINE m == [main[r] EXCEPT !.pc = "next"]
  <2>1. main' = [main EXCEPT ![r] = m] /\ UNCHANGED <<worker, chan, done>>
    BY <1>3 DEF Abandon, Go
  <2>2. "next" \in MainStep
    BY DEF MainStep
  <2>3. m \in MainRec(n) /\ Batch(m)
    BY <1>1, <2>2, GoTypes
  <2> HIDE DEF m
  <2> QED BY <1>1, <2>1, <2>3, Before, RunnerStep
<1> QED BY <1>2, <1>3

\* Calls of the stores keep their types.
LEMMA StoreCalls ==
  ASSUME StoreTypeOK, NEW id, NEW k \in Nat
  PROVE  /\ UNCHANGED storeVars => StoreTypeOK' /\ nextFile' = nextFile
         /\ DeleteChunks(id) => StoreTypeOK' /\ nextFile' = nextFile
         /\ DeleteFile(id) => StoreTypeOK' /\ nextFile' = nextFile
         /\ id \in Ids(nextFile) /\ IndexContent(id) => StoreTypeOK' /\ nextFile' = nextFile
         /\ id \in Ids(nextFile) /\ InsertChunk(id, k) => StoreTypeOK' /\ nextFile' = nextFile
<1>1. UNCHANGED storeVars => StoreTypeOK' /\ nextFile' = nextFile
  BY DEF StoreTypeOK, storeVars
<1>2. DeleteChunks(id) => StoreTypeOK' /\ nextFile' = nextFile
  BY DEF DeleteChunks, StoreTypeOK
<1>3. DeleteFile(id) => StoreTypeOK' /\ nextFile' = nextFile
  BY DEF DeleteFile, StoreTypeOK
<1>4. id \in Ids(nextFile) /\ IndexContent(id) => StoreTypeOK' /\ nextFile' = nextFile
  BY DEF IndexContent, StoreTypeOK, Ids
<1>5. id \in Ids(nextFile) /\ InsertChunk(id, k) => StoreTypeOK' /\ nextFile' = nextFile
  BY DEF InsertChunk, StoreTypeOK, Ids
<1> QED BY <1>1, <1>2, <1>3, <1>4, <1>5

-----------------------------------------------------------------------------
LEMMA EditTInv == ASSUME TInv, Edit PROVE TInv'
<1>1. /\ UNCHANGED <<storeVars, main, worker, chan, mem, faults, clean, done>>
      /\ \E f \in File, v \in 0..MaxVersion : disk' = [disk EXCEPT ![f] = v]
  BY DEF Edit
<1>2. disk' \in [File -> 0..MaxVersion]
  BY <1>1 DEF TInv, Types
<1>3. nextFile' = nextFile /\ StoreTypeOK'
  BY <1>1, StoreCalls DEF TInv, Types, storeVars
<1>4. Types'
  BY <1>1, <1>2, <1>3 DEF TInv, Types
<1> QED BY <1>1, <1>4 DEF TInv, Batch, Channel

LEMMA StartTInv ==
  ASSUME TInv, NEW r \in Runner, NEW single \in BOOLEAN, NEW files \in SUBSET File,
         Start(r, single, files)
  PROVE  TInv'
<1> DEFINE n == nextFile
<1>1. /\ n \in Nat \ {0} /\ worker[r] \in WorkerRec(n) /\ Idle \in MainRec(n) /\ StoreTypeOK
      /\ chan = [chan EXCEPT ![r] = chan[r]] /\ worker = [worker EXCEPT ![r] = worker[r]]
      /\ chan[r] \in Seq(SUBSET Items(n)) /\ Channel(chan[r])
      /\ faults \in Nat /\ clean \in [Runner -> BOOLEAN] /\ done \in [Runner -> SUBSET Nat]
  BY Before, EmptyTypes
<1>2. PICK embeds \in BOOLEAN :
        /\ main' = [main EXCEPT ![r] = [Idle EXCEPT !.pc = "next", !.single = single,
                                                    !.embeds = embeds, !.todo = files]]
        /\ \/ /\ worker' = [worker EXCEPT ![r].pc = IF embeds \/ single THEN "recv" ELSE "gone"]
              /\ clean' = [clean EXCEPT ![r] = TRUE] /\ UNCHANGED faults
           \/ embeds /\ ~single /\ Faulty(r) /\ UNCHANGED worker
  BY PipelineAssumption DEF Start
<1> DEFINE m == [Idle EXCEPT !.pc = "next", !.single = single, !.embeds = embeds, !.todo = files]
<1>3. m \in MainRec(n)
  BY <1>1 DEF MainRec, MainStep
<1>4. m.pc = "next" /\ m.batch = {}
  BY DEF Idle
<1>5. Batch(m)
  <2>1. IsFiniteSet({}) /\ Cardinality({}) = 0
    BY FS_EmptySet
  <2> HIDE DEF m
  <2> QED BY <1>4, <2>1, PipelineAssumption DEF Batch
<1>6. PICK w \in WorkerRec(n) : worker' = [worker EXCEPT ![r] = w]
  <2>1. CASE UNCHANGED worker
    BY <1>1, <2>1
  <2>2. CASE worker' = [worker EXCEPT ![r].pc = IF embeds \/ single THEN "recv" ELSE "gone"]
    <3> DEFINE w == [worker[r] EXCEPT !.pc = IF embeds \/ single THEN "recv" ELSE "gone"]
    <3>1. w \in WorkerRec(n)
      BY <1>1 DEF WorkerRec
    <3>2. worker' = [worker EXCEPT ![r] = w]
      BY <2>2
    <3> HIDE DEF w
    <3> QED BY <3>1, <3>2
  <2> QED BY <1>2, <2>1, <2>2
<1>7. faults' \in Nat /\ clean' \in [Runner -> BOOLEAN]
  <2>1. CASE Faulty(r)
    BY <2>1, FaultTypes
  <2>2. CASE clean' = [clean EXCEPT ![r] = TRUE] /\ UNCHANGED faults
    BY <1>1, <2>2
  <2> QED BY <1>2, <2>1, <2>2
<1>8. Loaded \in SUBSET Items(n)
  BY DEF Loaded, TInv, Types, StoreTypeOK, Items, Ids
<1>9. /\ UNCHANGED <<storeVars, disk, chan, done>> /\ mem' = [mem EXCEPT ![r] = Loaded]
  BY DEF Start
<1>10. nextFile' = nextFile /\ StoreTypeOK'
  BY <1>1, <1>9, StoreCalls DEF storeVars
<1>11. main' = [main EXCEPT ![r] = m]
  BY <1>2
<1> HIDE DEF m
<1> QED BY <1>1, <1>3, <1>5, <1>6, <1>7, <1>8, <1>9, <1>10, <1>11, RunnerStep

\* A step of the main thread between two places where it holds the same batch.
LEMMA GoTInv ==
  ASSUME TInv, NEW r \in Runner, NEW s \in MainStep \ {"send", "flush", "fts"},
         main[r].pc # "send", Go(r, s), nextFile' = nextFile, StoreTypeOK',
         UNCHANGED <<disk, worker, chan>>,
         NEW v \in SUBSET Items(nextFile), mem' = [mem EXCEPT ![r] = v],
         NoFault \/ Faulty(r), done' \in [Runner -> SUBSET Nat]
  PROVE  TInv'
<1> DEFINE m == [main[r] EXCEPT !.pc = s]
<1>1. main' = [main EXCEPT ![r] = m]
  BY DEF Go
<1>2. m \in MainRec(nextFile) /\ Batch(m)
  BY Before, GoTypes
<1> HIDE DEF m
<1> QED BY <1>1, <1>2, Before, FaultTypes, RunnerStep

LEMMA DropTInv ==
  ASSUME TInv, NEW r \in Runner, DropChunks(r) \/ DropRow(r) \/ DropVec(r) \/ MainSaves(r)
  PROVE  TInv'
<1>1. /\ nextFile \in Nat \ {0} /\ StoreTypeOK /\ mem[r] \in SUBSET Items(nextFile)
      /\ mem = [mem EXCEPT ![r] = mem[r]] /\ done \in [Runner -> SUBSET Nat]
  BY Before
<1>2. {"droprow", "dropvec", "savebegin", "saveend", "insert"}
        \subseteq MainStep \ {"send", "flush", "fts"}
  BY DEF MainStep
<1>3. CASE DropChunks(r)
  <2>1. /\ Go(r, "droprow") /\ main[r].pc # "send" /\ UNCHANGED <<disk, worker, chan, mem, done>>
        /\ DeleteChunks(main[r].id) \/ UNCHANGED storeVars
        /\ NoFault \/ Faulty(r)
    BY <1>3 DEF DropChunks, At
  <2>2. nextFile' = nextFile /\ StoreTypeOK'
    BY <1>1, <2>1, StoreCalls
  <2> QED BY <1>1, <1>2, <2>1, <2>2, GoTInv
<1>4. CASE DropRow(r)
  <2>1. /\ Go(r, "dropvec") /\ main[r].pc # "send" /\ UNCHANGED <<disk, worker, chan, mem, done>>
        /\ DeleteFile(main[r].id) \/ UNCHANGED storeVars
        /\ NoFault \/ Faulty(r)
    BY <1>4 DEF DropRow, At
  <2>2. nextFile' = nextFile /\ StoreTypeOK'
    BY <1>1, <2>1, StoreCalls
  <2> QED BY <1>1, <1>2, <2>1, <2>2, GoTInv
<1>5. CASE DropVec(r)
  <2>1. /\ Go(r, "savebegin") /\ main[r].pc # "send" /\ UNCHANGED <<disk, worker, chan, done>>
        /\ UNCHANGED storeVars /\ mem' = [mem EXCEPT ![r] = DropVectors(r)] /\ NoFault
    BY <1>5 DEF DropVec, At, NoFault
  <2>2. nextFile' = nextFile /\ StoreTypeOK'
    BY <1>1, <2>1, StoreCalls
  <2>3. DropVectors(r) \in SUBSET Items(nextFile)
    BY <1>1 DEF DropVectors
  <2> QED BY <1>1, <1>2, <2>1, <2>2, <2>3, GoTInv
<1>6. CASE MainSaves(r)
  <2>1. /\ main[r].pc # "send" /\ UNCHANGED <<disk, worker, chan, mem, done>>
        /\ UNCHANGED <<rows, nextFile, fts, chunks>>
        /\ vbin' \in {vbin, Torn} \cup Saved(r)
        /\ Go(r, "saveend") \/ Go(r, "insert")
        /\ NoFault \/ Faulty(r)
    BY <1>6 DEF MainSaves, At
  <2>2. vbin' = Torn \/ vbin' \subseteq (1..(nextFile - 1)) \X Nat
    BY <1>1, <2>1 DEF Saved, StoreTypeOK, Items, Ids
  <2>3. nextFile' = nextFile /\ StoreTypeOK'
    BY <1>1, <2>1, <2>2 DEF StoreTypeOK
  <2> QED BY <1>1, <1>2, <2>1, <2>3, GoTInv
<1> QED BY <1>3, <1>4, <1>5, <1>6

LEMMA ReadTInv ==
  ASSUME TInv, NEW r \in Runner, ReadFile(r)
  PROVE  TInv'
<1> DEFINE n == nextFile
<1>1. /\ n \in Nat \ {0} /\ main[r] \in MainRec(n) /\ Batch(main[r]) /\ StoreTypeOK
      /\ main[r].pc = "next"
  BY Before DEF ReadFile, At
<1>2. PICK f \in main[r].todo, s \in {"next", "lookup"} :
        main' = [main EXCEPT ![r] =
          [main[r] EXCEPT !.todo = main[r].todo \ {f}, !.file = f, !.hash = disk[f],
                          !.k = 0, !.id = 0, !.pc = s]]
  BY DEF ReadFile, Take
<1> DEFINE m == [main[r] EXCEPT !.todo = main[r].todo \ {f}, !.file = f,
                       !.hash = disk[f], !.k = 0, !.id = 0, !.pc = s]
<1>3. main' = [main EXCEPT ![r] = m]
  BY <1>2
<1>4. m \in MainRec(n)
  <2>1. f \in File /\ disk[f] \in 0..MaxVersion /\ 0 \in 0..(n - 1)
    BY <1>1 DEF MainRec, TInv, Types
  <2> QED BY <1>1, <2>1 DEF MainRec, MainStep
<1>5. m.batch = main[r].batch /\ m.single = main[r].single /\ m.pc = s
  BY <1>1 DEF MainRec
<1> HIDE DEF m
<1>6. Batch(m)
  BY <1>1, <1>5 DEF Batch
<1>7. UNCHANGED <<storeVars, disk, worker, chan, mem, done>> /\ (NoFault \/ Faulty(r))
  BY DEF ReadFile
<1>8. nextFile' = nextFile /\ StoreTypeOK'
  BY <1>1, <1>7, StoreCalls DEF storeVars
<1>9. faults' \in Nat /\ clean' \in [Runner -> BOOLEAN]
  BY <1>7, FaultTypes
<1> QED BY <1>3, <1>4, <1>6, <1>7, <1>8, <1>9, Before, RunnerStep

LEMMA LookUpTInv ==
  ASSUME TInv, NEW r \in Runner, LookUp(r)
  PROVE  TInv'
<1> DEFINE n == nextFile
           f == main[r].file
<1>1. /\ n \in Nat \ {0} /\ main[r] \in MainRec(n) /\ Batch(main[r]) /\ StoreTypeOK
      /\ main[r].pc = "lookup"
  BY Before DEF LookUp, At
<1>2. UNCHANGED <<storeVars, disk, mem>> /\ (NoFault \/ Faulty(r))
  BY DEF LookUp
<1>3. nextFile' = nextFile /\ StoreTypeOK'
  BY <1>1, <1>2, StoreCalls DEF storeVars
<1>4. CASE Abandon(r)
  BY <1>1, <1>2, <1>3, <1>4, AbandonTypes
<1>5. CASE UNCHANGED <<worker, chan, done>> /\ Go(r, "insert")
  <2>1. "insert" \in MainStep \ {"send", "flush", "fts"}
    BY DEF MainStep
  <2> QED BY <1>1, <1>2, <1>3, <1>5, <2>1, Before, GoTInv
<1>6. CASE /\ UNCHANGED <<worker, chan, done>>
           /\ \E i \in RowsOf(f) :
                main' = [main EXCEPT ![r].pc = "dropchunks", ![r].id = i]
  <2>1. PICK i \in 0..(n - 1) : main' = [main EXCEPT ![r].pc = "dropchunks", ![r].id = i]
    <3>1. RowsOf(f) \subseteq 0..(n - 1)
      BY <1>1 DEF RowsOf, StoreTypeOK
    <3> QED BY <1>6, <3>1
  <2> DEFINE m == [main[r] EXCEPT !.pc = "dropchunks", !.id = i]
  <2>2. main' = [main EXCEPT ![r] = m]
    BY <1>1, <2>1 DEF TInv, Types, MainRec
  <2>3. m \in MainRec(n)
    BY <1>1 DEF MainRec, MainStep
  <2>4. m.batch = main[r].batch /\ m.single = main[r].single /\ m.pc = "dropchunks"
    BY <1>1 DEF MainRec
  <2> HIDE DEF m
  <2>5. Batch(m)
    BY <1>1, <2>4 DEF Batch
  <2>6. faults' \in Nat /\ clean' \in [Runner -> BOOLEAN]
    BY <1>2, FaultTypes
  <2> QED BY <1>2, <1>3, <1>6, <2>2, <2>3, <2>5, <2>6, Before, RunnerStep
<1>7. \/ Abandon(r)
      \/ UNCHANGED <<worker, chan, done>> /\ Go(r, "insert")
      \/ /\ UNCHANGED <<worker, chan, done>>
         /\ \E i \in RowsOf(f) :
              main' = [main EXCEPT ![r].pc = "dropchunks", ![r].id = i]
  BY DEF LookUp
<1> QED BY <1>4, <1>5, <1>6, <1>7

\* A new row: ids and items of before remain ids and items.
LEMMA MoreItems ==
  ASSUME NEW n \in Nat \ {0}
  PROVE  /\ Ids(n) \subseteq Ids(n + 1) /\ Items(n) \subseteq Items(n + 1)
         /\ MainRec(n) \subseteq MainRec(n + 1) /\ WorkerRec(n) \subseteq WorkerRec(n + 1)
<1>1. Ids(n) \subseteq Ids(n + 1) /\ 0..(n - 1) \subseteq 0..((n + 1) - 1)
  BY DEF Ids
<1>2. Items(n) \subseteq Items(n + 1)
  BY <1>1 DEF Items
<1>3. MainRec(n) \subseteq MainRec(n + 1)
  BY <1>1, <1>2 DEF MainRec
<1>4. WorkerRec(n) \subseteq WorkerRec(n + 1)
  BY <1>2 DEF WorkerRec
<1> QED BY <1>1, <1>2, <1>3, <1>4

LEMMA InsertTInv ==
  ASSUME TInv, NEW r \in Runner, InsertRow(r)
  PROVE  TInv'
<1> DEFINE n == nextFile
<1>1. /\ n \in Nat \ {0} /\ main[r] \in MainRec(n) /\ Batch(main[r]) /\ StoreTypeOK
      /\ main[r].pc = "insert"
  BY Before DEF InsertRow, At
<1>2. UNCHANGED <<disk, mem>>
  BY DEF InsertRow
<1>3. CASE Abandon(r) /\ UNCHANGED storeVars /\ (NoFault \/ Faulty(r))
  <2>1. nextFile' = nextFile /\ StoreTypeOK'
    BY <1>1, <1>3, StoreCalls
  <2> QED BY <1>1, <1>2, <1>3, <2>1, AbandonTypes
<1>4. CASE /\ InsertFile(main[r].file, main[r].hash)
           /\ main' = [main EXCEPT ![r].pc = "fts", ![r].id = nextFile]
           /\ NoFault /\ UNCHANGED <<worker, chan, done>>
  <2>1. nextFile' = n + 1 /\ UNCHANGED <<fts, chunks, vbin>>
        /\ rows' = [i \in DOMAIN rows \cup {n} |->
                      IF i = n THEN [path |-> main[r].file, hash |-> main[r].hash] ELSE rows[i]]
    BY <1>4 DEF InsertFile
  <2>2. main[r].file \in File /\ main[r].hash \in Nat
    BY <1>1 DEF MainRec
  <2>3. StoreTypeOK'
    <3>1. DOMAIN rows' \subseteq 1..n
      BY <1>1, <2>1 DEF StoreTypeOK
    <3>2. \A i \in DOMAIN rows' : rows'[i] \in [path : File, hash : Nat]
      BY <1>1, <2>1, <2>2 DEF StoreTypeOK
    <3>3. 1..(n - 1) \subseteq 1..n /\ (n + 1) - 1 = n
      BY <1>1
    <3>4. rows' \in [DOMAIN rows' -> [path : File, hash : Nat]]
      BY <2>1, <3>2
    <3>5. fts' \subseteq 1..n
      BY <1>1, <2>1, <3>3 DEF StoreTypeOK
    <3>6. chunks' \subseteq (1..n) \X Nat
      BY <1>1, <2>1, <3>3 DEF StoreTypeOK
    <3>7. vbin' = Torn \/ vbin' \subseteq (1..n) \X Nat
      BY <1>1, <2>1, <3>3 DEF StoreTypeOK
    <3> QED BY <1>1, <2>1, <3>1, <3>3, <3>4, <3>5, <3>6, <3>7 DEF StoreTypeOK
  <2> DEFINE m == [main[r] EXCEPT !.pc = "fts", !.id = n]
  <2>4. main' = [main EXCEPT ![r] = m]
    BY <1>4
  <2>5. m \in MainRec(n + 1)
    <3>1. main[r] \in MainRec(n + 1) /\ n \in 0..((n + 1) - 1)
      BY <1>1, MoreItems
    <3> QED BY <3>1 DEF MainRec, MainStep
  <2>6. m.batch = main[r].batch /\ m.single = main[r].single /\ m.pc = "fts" /\ m.id = n
    BY <1>1 DEF MainRec
  <2> HIDE DEF m
  <2>7. Batch(m)
    BY <1>1, <2>6 DEF Batch
  <2>8. main' \in [Runner -> MainRec(n + 1)]
    BY <1>1, <2>4, <2>5, MoreItems DEF TInv, Types
  <2>9. worker \in [Runner -> WorkerRec(n + 1)] /\ mem \in [Runner -> SUBSET Items(n + 1)]
    BY <1>1, MoreItems DEF TInv, Types
  <2>10. chan \in [Runner -> Seq(SUBSET Items(n + 1))]
    <3>1. SUBSET Items(n) \subseteq SUBSET Items(n + 1)
      BY <1>1, MoreItems
    <3>2. ASSUME NEW q \in Runner PROVE chan[q] \in Seq(SUBSET Items(n + 1))
      <4>1. chan[q] \in Seq(SUBSET Items(n))
        BY DEF TInv, Types
      <4>2. \A i \in 1..Len(chan[q]) : chan[q][i] \in SUBSET Items(n + 1)
        BY <3>1, <4>1
      <4>3. Len(chan[q]) \in Nat /\ chan[q] = [i \in 1..Len(chan[q]) |-> chan[q][i]]
        BY <4>1
      <4> QED BY <4>2, <4>3
    <3> QED BY <3>2 DEF TInv, Types
  <2>11. Types'
    BY <1>2, <1>4, <2>1, <2>3, <2>8, <2>9, <2>10 DEF TInv, Types, NoFault
  <2>12. ASSUME NEW q \in Runner PROVE Batch(main'[q]) /\ Channel(chan'[q])
    <3>1. main'[q] = IF q = r THEN m ELSE main[q]
      BY <2>4 DEF TInv, Types
    <3> QED BY <1>4, <2>7, <3>1 DEF TInv
  <2>13. \A q \in Runner : Batch(main[q])' /\ Channel(chan[q])'
    BY <2>12 DEF Batch, Channel
  <2> QED BY <2>11, <2>13 DEF TInv
<1> QED BY <1>3, <1>4 DEF InsertRow

LEMMA FtsTInv ==
  ASSUME TInv, NEW r \in Runner, InsertFts(r)
  PROVE  TInv'
<1>1. /\ nextFile \in Nat \ {0} /\ main[r] \in MainRec(nextFile) /\ Batch(main[r])
      /\ StoreTypeOK /\ main[r].pc = "fts"
  BY Before DEF InsertFts, At
<1>2. UNCHANGED <<disk, mem>>
  BY DEF InsertFts
<1>3. main[r].id \in Ids(nextFile)
  <2>1. main[r].id \in 0..(nextFile - 1) /\ main[r].id # 0
    BY <1>1 DEF Batch, MainRec
  <2> QED BY <1>1, <2>1 DEF Ids
<1>4. CASE IndexContent(main[r].id) /\ Go(r, "chunk") /\ NoFault /\ UNCHANGED <<worker, chan, done>>
  <2>1. nextFile' = nextFile /\ StoreTypeOK'
    BY <1>1, <1>3, <1>4, StoreCalls
  <2>2. "chunk" \in MainStep \ {"send", "flush", "fts"}
    BY DEF MainStep
  <2> QED BY <1>1, <1>2, <1>4, <2>1, <2>2, Before, GoTInv
<1>5. CASE Faulty(r) /\ Abandon(r) /\ UNCHANGED storeVars
  <2>1. nextFile' = nextFile /\ StoreTypeOK'
    BY <1>1, <1>5, StoreCalls
  <2> QED BY <1>1, <1>2, <1>5, <2>1, AbandonTypes
<1> QED BY <1>4, <1>5 DEF InsertFts

LEMMA ChunkTInv ==
  ASSUME TInv, NEW r \in Runner, NextChunk(r)
  PROVE  TInv'
<1> DEFINE n == nextFile
           id == main[r].id
           k == main[r].k + 1
           batch == IF main[r].embeds THEN main[r].batch \cup {<<id, k>>} ELSE {}
           s == IF main[r].embeds /\ Full(r) THEN "send" ELSE "chunk"
           m == [main[r] EXCEPT !.k = k, !.batch = batch, !.pc = s]
<1>1. /\ n \in Nat \ {0} /\ main[r] \in MainRec(n) /\ Batch(main[r])
      /\ StoreTypeOK /\ main[r].pc = "chunk"
  BY Before DEF NextChunk, At
<1>2. UNCHANGED <<disk, mem>>
  BY DEF NextChunk
<1>3. CASE /\ CanInsertChunk(id) /\ InsertChunk(id, k)
           /\ main' = [main EXCEPT ![r].k = k, ![r].batch = batch, ![r].pc = s]
           /\ NoFault /\ UNCHANGED <<worker, chan, done>>
  <2>1. id \in Ids(n) /\ k \in Nat
    BY <1>1, <1>3 DEF CanInsertChunk, StoreTypeOK, Ids, MainRec
  <2>2. nextFile' = n /\ StoreTypeOK'
    BY <1>1, <1>3, <2>1, StoreCalls
  <2>3. main' = [main EXCEPT ![r] = m]
    BY <1>3
  <2>4. batch \in SUBSET Items(n) /\ s \in MainStep
    BY <1>1, <2>1 DEF Items, MainRec, MainStep
  <2> HIDE DEF batch, s, k
  <2>5. m \in MainRec(n)
    BY <1>1, <2>1, <2>4 DEF MainRec
  <2>6. m.batch = batch /\ m.single = main[r].single /\ m.pc = s
    BY <1>1 DEF MainRec
  <2> HIDE DEF m
  <2>7. IsFiniteSet(main[r].batch) /\ Cardinality(main[r].batch) \in Nat
    BY <1>1, FS_CardinalityType DEF Batch
  <2>8. IsFiniteSet(batch) /\ Cardinality(batch) \in Nat
        /\ Cardinality(batch) <= Cardinality(main[r].batch) + 1
    <3>1. IsFiniteSet({}) /\ Cardinality({}) = 0
      BY FS_EmptySet
    <3>2. /\ IsFiniteSet(main[r].batch \cup {<<id, k>>})
          /\ Cardinality(main[r].batch \cup {<<id, k>>}) \in
               {Cardinality(main[r].batch), Cardinality(main[r].batch) + 1}
      BY <2>7, FS_AddElement
    <3> QED BY <2>7, <3>1, <3>2 DEF batch
  <2>9. ~main[r].single => /\ Cardinality(main[r].batch) < BatchSize
                           /\ s = "send" => Cardinality(main[r].batch) + 1 >= BatchSize
                           /\ s # "send" /\ main[r].embeds =>
                                ~(Cardinality(main[r].batch) + 1 >= BatchSize)
    BY <1>1 DEF Batch, s, Full
  <2>10. ~main[r].embeds => s = "chunk" /\ batch = {}
    BY DEF s, batch
  <2>11. s \in {"send", "chunk"} /\ (s = "send" => batch # {})
    BY DEF s, batch
  <2>12. Cardinality({}) = 0 /\ BatchSize \in Nat \ {0}
    BY FS_EmptySet, PipelineAssumption
  <2>13. ~m.single => IF m.pc = "send" THEN Cardinality(m.batch) <= BatchSize
                                       ELSE Cardinality(m.batch) < BatchSize
    BY <2>6, <2>7, <2>8, <2>9, <2>10, <2>12
  <2>14. Batch(m)
    BY <2>6, <2>8, <2>11, <2>13 DEF Batch
  <2> QED BY <1>1, <1>2, <1>3, <2>2, <2>3, <2>5, <2>14, Before, FaultTypes, RunnerStep
<1>4. CASE Abandon(r) /\ UNCHANGED storeVars /\ (NoFault \/ Faulty(r))
  <2>1. nextFile' = nextFile /\ StoreTypeOK'
    BY <1>1, <1>4, StoreCalls
  <2> QED BY <1>1, <1>2, <1>4, <2>1, AbandonTypes
<1> QED BY <1>3, <1>4 DEF NextChunk

LEMMA EndTInv ==
  ASSUME TInv, NEW r \in Runner, EndFile(r) \/ EndFiles(r) \/ CloseChannel(r)
  PROVE  TInv'
<1>1. /\ UNCHANGED <<storeVars, disk, worker, chan, mem, faults, clean>>
      /\ main[r].pc \in {"chunk", "next", "close"}
  BY DEF EndFile, EndFiles, CloseChannel, At
<1>2. nextFile' = nextFile /\ StoreTypeOK' /\ NoFault
  BY <1>1, Before, StoreCalls DEF storeVars, NoFault
<1>3. {"next", "close", "join"} \subseteq MainStep \ {"send", "flush", "fts"}
  BY DEF MainStep
<1>4. CASE EndFile(r)
  <2>1. Go(r, "next") /\ done' = [done EXCEPT ![r] = @ \cup {main[r].id}]
    BY <1>4 DEF EndFile
  <2>2. main[r].id \in Nat /\ done \in [Runner -> SUBSET Nat]
    <3>1. main[r].id \in 0..(nextFile - 1)
      BY Before DEF MainRec
    <3> QED BY <3>1, Before
  <2>3. done' \in [Runner -> SUBSET Nat]
    BY <2>1, <2>2
  <2> QED BY <1>1, <1>2, <1>3, <2>1, <2>3, Before, GoTInv
<1>5. CASE EndFiles(r) /\ main[r].batch # {}
  <2> DEFINE m == [main[r] EXCEPT !.pc = "flush"]
  <2>1. main' = [main EXCEPT ![r] = m] /\ UNCHANGED done /\ main[r].pc = "next"
    BY <1>5 DEF EndFiles, Go, AfterFiles, At
  <2>2. "flush" \in MainStep
    BY DEF MainStep
  <2>3. m \in MainRec(nextFile)
    BY <2>2, Before, GoTypes
  <2>4. m.pc = "flush" /\ m.batch = main[r].batch /\ m.single = main[r].single
    BY Before DEF MainRec
  <2> HIDE DEF m
  <2>5. Batch(m)
    BY <1>5, <2>1, <2>4, Before DEF Batch
  <2> QED BY <1>1, <1>2, <2>1, <2>3, <2>5, Before, RunnerStep
<1>6. CASE EndFiles(r) /\ main[r].batch = {}
  <2>1. Go(r, "close") /\ UNCHANGED done
    BY <1>6 DEF EndFiles, AfterFiles
  <2> QED BY <1>1, <1>2, <1>3, <2>1, Before, GoTInv
<1>7. CASE CloseChannel(r)
  <2>1. Go(r, "join") /\ UNCHANGED done
    BY <1>7 DEF CloseChannel
  <2> QED BY <1>1, <1>2, <1>3, <2>1, Before, GoTInv
<1> QED BY <1>4, <1>5, <1>6, <1>7

LEMMA SendTInv ==
  ASSUME TInv, NEW r \in Runner, Send(r)
  PROVE  TInv'
<1> DEFINE n == nextFile
           s == IF At(r, "send") THEN "chunk" ELSE "close"
           m == [main[r] EXCEPT !.batch = {}, !.pc = s]
<1>1. /\ n \in Nat \ {0} /\ main[r] \in MainRec(n) /\ Batch(main[r])
      /\ main[r].pc \in {"send", "flush"} /\ main[r].batch # {}
  BY Before DEF Send, Batch
<1>2. UNCHANGED <<storeVars, disk, worker, mem, faults, clean, done>>
  BY DEF Send
<1>3. nextFile' = n /\ StoreTypeOK'
  BY <1>2, Before, StoreCalls DEF storeVars
<1>4. main' = [main EXCEPT ![r] = m]
  BY DEF Send
<1>5. s \in MainStep /\ s \in {"chunk", "close"}
  BY DEF MainStep
<1> HIDE DEF s
<1>6. m \in MainRec(n)
  BY <1>1, <1>5 DEF MainRec
<1>7. m.batch = {} /\ m.single = main[r].single /\ m.pc = s
  BY <1>1 DEF MainRec
<1> HIDE DEF m
<1>8. Batch(m)
  <2>1. IsFiniteSet({}) /\ Cardinality({}) = 0
    BY FS_EmptySet
  <2> QED BY <1>5, <1>7, <2>1, PipelineAssumption DEF Batch
<1>9. PICK c \in Seq(SUBSET Items(n)) : chan' = [chan EXCEPT ![r] = c] /\ Channel(c)
  <2>1. CASE worker[r].pc = "gone"
    <3>1. chan' = chan
      BY <2>1 DEF Send
    <3> QED BY <3>1, Before
  <2>2. CASE worker[r].pc # "gone"
    <3> DEFINE b == main[r].batch
               c == Append(chan[r], b)
    <3>1. chan' = [chan EXCEPT ![r] = c] /\ Len(chan[r]) < Cap(r)
      BY <2>2 DEF Send
    <3>2. b \in SUBSET Items(n) /\ b # {} /\ chan[r] \in Seq(SUBSET Items(n)) /\ Channel(chan[r])
      BY <1>1, Before DEF MainRec
    <3> HIDE DEF b
    <3>3. Cap(r) <= ChanCap /\ Cap(r) \in Nat /\ ChanCap \in Nat
      BY PipelineAssumption DEF Cap
    <3>4. /\ c \in Seq(SUBSET Items(n)) /\ Len(c) = Len(chan[r]) + 1 /\ Len(chan[r]) \in Nat
          /\ \A i \in 1..Len(c) : c[i] = IF i = Len(chan[r]) + 1 THEN b ELSE chan[r][i]
      BY <3>2
    <3> HIDE DEF c
    <3>5. Channel(c)
      <4>1. Len(c) <= ChanCap
        BY <3>1, <3>3, <3>4
      <4>2. ASSUME NEW i \in 1..Len(c) PROVE c[i] # {}
        <5>1. i = Len(chan[r]) + 1 \/ i \in 1..Len(chan[r])
          BY <3>4
        <5>2. \A j \in 1..Len(chan[r]) : chan[r][j] # {}
          BY <3>2 DEF Channel
        <5> QED BY <3>2, <3>4, <5>1, <5>2
      <4> QED BY <4>1, <4>2 DEF Channel
    <3> QED BY <3>1, <3>4, <3>5
  <2> QED BY <2>1, <2>2
<1> QED BY <1>2, <1>3, <1>4, <1>6, <1>8, <1>9, Before, RunnerStep

LEMMA JoinTInv ==
  ASSUME TInv, NEW r \in Runner, Join(r) \/ Crash(r)
  PROVE  TInv'
<1>1. /\ main' = [main EXCEPT ![r] = Idle] /\ mem' = [mem EXCEPT ![r] = {}]
      /\ done' = [done EXCEPT ![r] = {}] /\ UNCHANGED <<storeVars, disk>>
      /\ NoFault \/ Faulty(r)
  BY DEF Join, Crash, NoFault
<1>2. nextFile' = nextFile /\ StoreTypeOK'
  BY <1>1, Before, StoreCalls DEF storeVars
<1>3. done' \in [Runner -> SUBSET Nat] /\ {} \in SUBSET Items(nextFile)
  BY <1>1, Before
<1>4. CASE Join(r)
  <2>1. UNCHANGED <<worker, chan>>
    BY <1>4 DEF Join
  <2> QED BY <1>1, <1>2, <1>3, <2>1, Before, EmptyTypes, FaultTypes, RunnerStep
<1>5. CASE Crash(r)
  <2>1. worker' = [worker EXCEPT ![r] = Gone] /\ chan' = [chan EXCEPT ![r] = << >>]
    BY <1>5 DEF Crash
  <2> QED BY <1>1, <1>2, <1>3, <2>1, Before, EmptyTypes, FaultTypes, RunnerStep
<1> QED BY <1>4, <1>5

LEMMA WorkerTInv ==
  ASSUME TInv, NEW r \in Runner, Worker(r)
  PROVE  TInv'
<1> DEFINE n == nextFile
<1>1. /\ n \in Nat \ {0} /\ StoreTypeOK
      /\ main[r] \in MainRec(n) /\ Batch(main[r]) /\ worker[r] \in WorkerRec(n)
      /\ chan[r] \in Seq(SUBSET Items(n)) /\ Channel(chan[r]) /\ mem[r] \in SUBSET Items(n)
      /\ main = [main EXCEPT ![r] = main[r]] /\ mem = [mem EXCEPT ![r] = mem[r]]
      /\ chan = [chan EXCEPT ![r] = chan[r]] /\ done \in [Runner -> SUBSET Nat]
      /\ worker[r].batch \in SUBSET Items(n)
  BY Before DEF WorkerRec
<1>2. CASE Receive(r)
  <2>1. UNCHANGED <<storeVars, disk, main, mem, done>> /\ NoFault
    BY <1>2 DEF Receive, NoFault
  <2>2. nextFile' = n /\ StoreTypeOK'
    BY <1>1, <2>1, StoreCalls DEF storeVars
  <2>3. CASE /\ chan[r] # << >>
             /\ worker' = [worker EXCEPT ![r] = [pc |-> "embed", batch |-> Head(chan[r])]]
             /\ chan' = [chan EXCEPT ![r] = Tail(@)]
    <3>1. /\ Head(chan[r]) \in SUBSET Items(n) /\ Tail(chan[r]) \in Seq(SUBSET Items(n))
          /\ Len(Tail(chan[r])) = Len(chan[r]) - 1 /\ Len(chan[r]) \in Nat
          /\ \A i \in 1..Len(Tail(chan[r])) : Tail(chan[r])[i] = chan[r][i + 1]
      BY <1>1, <2>3
    <3>2. Channel(Tail(chan[r]))
      <4>1. Len(chan[r]) <= ChanCap /\ ChanCap \in Nat
            /\ \A i \in 1..Len(chan[r]) : chan[r][i] # {}
        BY <1>1, PipelineAssumption DEF Channel
      <4>2. \A i \in 1..Len(Tail(chan[r])) : i + 1 \in 1..Len(chan[r])
        BY <3>1
      <4>3. Len(Tail(chan[r])) <= ChanCap
        BY <3>1, <4>1
      <4> QED BY <3>1, <4>1, <4>2, <4>3 DEF Channel
    <3>3. [pc |-> "embed", batch |-> Head(chan[r])] \in WorkerRec(n)
      BY <3>1 DEF WorkerRec
    <3>4. chan' = [chan EXCEPT ![r] = Tail(chan[r])]
      BY <2>3
    <3> QED BY <1>1, <2>1, <2>2, <2>3, <3>1, <3>2, <3>3, <3>4, FaultTypes, RunnerStep
  <2>4. CASE worker' = [worker EXCEPT ![r].pc = "gone"] /\ UNCHANGED chan
    <3> DEFINE w == [worker[r] EXCEPT !.pc = "gone"]
    <3>1. w \in WorkerRec(n) /\ worker' = [worker EXCEPT ![r] = w]
      BY <1>1, <2>4 DEF WorkerRec
    <3> HIDE DEF w
    <3> QED BY <1>1, <2>1, <2>2, <2>4, <3>1, FaultTypes, RunnerStep
  <2> QED BY <1>2, <2>3, <2>4 DEF Receive
<1>3. CASE Embed(r)
  <2>1. UNCHANGED <<storeVars, disk, main, chan, done>> /\ (NoFault \/ Faulty(r))
    BY <1>3 DEF Embed
  <2>2. nextFile' = n /\ StoreTypeOK'
    BY <1>1, <2>1, StoreCalls DEF storeVars
  <2>3. PICK w \in WorkerRec(n), v \in SUBSET Items(n) :
          worker' = [worker EXCEPT ![r] = w] /\ mem' = [mem EXCEPT ![r] = v]
    <3>1. [pc |-> "savebegin", batch |-> {}] \in WorkerRec(n)
          /\ [pc |-> "recv", batch |-> {}] \in WorkerRec(n)
      BY DEF WorkerRec
    <3>2. mem[r] \cup worker[r].batch \in SUBSET Items(n)
      BY <1>1
    <3>3. CASE /\ mem' = [mem EXCEPT ![r] = @ \cup worker[r].batch]
               /\ worker' = [worker EXCEPT ![r] = [pc |-> "savebegin", batch |-> {}]]
      BY <3>1, <3>2, <3>3
    <3>4. CASE worker' = [worker EXCEPT ![r] = [pc |-> "recv", batch |-> {}]] /\ UNCHANGED mem
      BY <1>1, <3>1, <3>4
    <3> QED BY <1>3, <3>3, <3>4 DEF Embed
  <2> QED BY <1>1, <2>1, <2>2, <2>3, FaultTypes, RunnerStep
<1>4. CASE WorkerSaves(r)
  <2>1. /\ UNCHANGED <<rows, nextFile, fts, chunks, disk, main, chan, mem, done>>
        /\ vbin' \in {vbin, Torn} \cup Saved(r)
        /\ \E s \in {"saveend", "recv"} : worker' = [worker EXCEPT ![r].pc = s]
    BY <1>4 DEF WorkerSaves
  <2>2. vbin' = Torn \/ vbin' \subseteq (1..(nextFile - 1)) \X Nat
    BY <1>1, <2>1 DEF Saved, StoreTypeOK, Items, Ids
  <2>3. nextFile' = n /\ StoreTypeOK'
    BY <1>1, <2>1, <2>2 DEF StoreTypeOK
  <2>4. PICK w \in WorkerRec(n) : worker' = [worker EXCEPT ![r] = w]
    <3>1. PICK s \in {"saveend", "recv"} : worker' = [worker EXCEPT ![r].pc = s]
      BY <2>1
    <3> DEFINE w == [worker[r] EXCEPT !.pc = s]
    <3>2. w \in WorkerRec(n) /\ worker' = [worker EXCEPT ![r] = w]
      BY <1>1, <3>1 DEF WorkerRec
    <3> HIDE DEF w
    <3> QED BY <3>2
  <2>5. NoFault \/ Faulty(r)
    BY <1>4 DEF WorkerSaves
  <2> QED BY <1>1, <2>1, <2>3, <2>4, <2>5, FaultTypes, RunnerStep
<1> QED BY <1>2, <1>3, <1>4 DEF Worker

LEMMA NextTInv == ASSUME TInv, [FileNext]_vars PROVE TInv'
<1>1. ASSUME NEW r \in Runner, IndexDirectory(r) \/ IndexFile(r) PROVE TInv'
  <2>1. Crawled \in SUBSET File /\ TRUE \in BOOLEAN /\ FALSE \in BOOLEAN
    BY DEF Crawled
  <2> QED BY <1>1, <2>1, StartTInv DEF IndexDirectory, IndexFile
<1>2. ASSUME NEW r \in Runner, Main(r) PROVE TInv'
  BY <1>2, ReadTInv, LookUpTInv, DropTInv, InsertTInv, FtsTInv, ChunkTInv, EndTInv, SendTInv,
     JoinTInv DEF Main
<1>3. CASE UNCHANGED vars
  BY <1>3 DEF vars, TInv, Types, StoreTypeOK, Batch, Channel
<1>4. CASE FileNext
  BY <1>1, <1>2, <1>4, EditTInv, JoinTInv, WorkerTInv DEF FileNext, Next, Environment
<1> QED BY <1>3, <1>4

LEMMA AlwaysTInv == FileSpec => []TInv
BY InitTInv, NextTInv, PTL DEF FileSpec

(* The type invariant for any number of runners, files, chunks and faults: *)
(* batches and channels keep within their sizes, and nothing holds the id  *)
(* of a row to come (pipeline.rs:72-162, 291-334).                         *)
THEOREM PipelineTyped == FileSpec => []TypeOK
BY AlwaysTInv, TInvTypes, PTL

-----------------------------------------------------------------------------
(* One runner. Its main thread has a file in hand at the steps Busy, and   *)
(* has not yet inserted its row at the steps Replacing.                    *)
Replacing == {"lookup", "dropchunks", "droprow", "dropvec", "savebegin", "saveend", "insert"}
Filling == {"fts", "chunk", "send"}
Busy == Replacing \cup Filling

\* Where both threads are, and what holds whatever failed.
Shape(p) ==
  LET m == main[p] w == worker[p] IN
  /\ w.pc # "embed" => w.batch = {}
  /\ w.pc = "gone" => chan[p] = << >>
  /\ m.pc = "idle" => w.pc = "gone" /\ done[p] = {} /\ ~m.embeds
  /\ m.pc \in {"idle", "close", "join"} => m.batch = {}
  /\ m.pc \in Busy => m.file \notin m.todo
  /\ m.pc \in {"dropchunks", "droprow"} \cup Filling => m.id \in RowsOf(m.file)
  /\ m.pc \in Replacing \cup {"fts"} => m.k = 0
  /\ FtsHasFile
  /\ faults = 0 => clean[p]

\* While nothing failed in this run, what waits to be embedded is of rows that
\* the run has inserted: their files are not to be replaced any more.
Replaceable(p) == main[p].todo \cup IF main[p].pc \in Replacing THEN {main[p].file} ELSE {}
Flights(p) ==
  /\ \A x \in InFlight(p) : x[1] \in DOMAIN rows /\ rows[x[1]].path \notin Replaceable(p)
  /\ main[p].pc = "dropvec" => main[p].id \notin DOMAIN rows

\* While nothing ever failed, the vectors are those of rows, but for the row
\* being replaced.
Fresh(p) ==
  /\ \A x \in mem[p] :
       x[1] \in DOMAIN rows \/ (main[p].pc = "dropvec" /\ x[1] = main[p].id)
  /\ vbin # Torn => \A x \in vbin :
       x[1] \in DOMAIN rows
         \/ (main[p].pc \in {"dropvec", "savebegin", "saveend"} /\ x[1] = main[p].id)

\* While nothing failed in this run, what it has indexed is in the index or on
\* the way: vectors wait, or are in memory, and a save follows every change.
Held(p) == InFlight(p) \cup mem[p]
Whole(p, id, n) == \A k \in 1..n : <<id, k>> \in chunks /\ <<id, k>> \in Held(p)
InHand(p) == IF main[p].pc \in Filling THEN {main[p].id} ELSE {}
Quiet(p) == main[p].pc \notin {"savebegin", "saveend"} /\ worker[p].pc \notin {"savebegin", "saveend"}
Indexed(p) ==
  /\ main[p].pc \notin {"idle", "join"} => worker[p].pc # "gone"
  /\ \A i \in done[p] :
       /\ i \in DOMAIN rows /\ i \in fts
       /\ rows[i].path \notin main[p].todo
       /\ main[p].pc \in Busy => rows[i].path # main[p].file
       /\ Whole(p, i, ChunksOf[rows[i].path])
  /\ main[p].pc \in {"chunk", "send"} =>
       main[p].id \in fts /\ Whole(p, main[p].id, main[p].k)
  /\ Quiet(p) => vbin = mem[p] \/ \A x \in mem[p] : x[1] \notin done[p] \cup InHand(p)

OneInv(p) ==
  /\ Shape(p)
  /\ clean[p] => Flights(p)
  /\ faults = 0 => Fresh(p)
  /\ clean[p] /\ main[p].embeds => Indexed(p)

\* After a failure only the shape is left to show.
LEMMA Failed ==
  ASSUME TInv, NEW p \in Runner, Faulty(p), Shape(p)'
  PROVE  OneInv(p)'
<1>1. clean'[p] = FALSE /\ faults' # 0
  BY DEF Faulty, TInv, Types
<1> QED BY <1>1 DEF OneInv

LEMMA GoFields ==
  ASSUME TInv, NEW p \in Runner, NEW s, Go(p, s)
  PROVE  /\ main'[p].pc = s /\ main'[p].single = main[p].single
         /\ main'[p].embeds = main[p].embeds /\ main'[p].todo = main[p].todo
         /\ main'[p].file = main[p].file /\ main'[p].id = main[p].id
         /\ main'[p].k = main[p].k /\ main'[p].batch = main[p].batch
BY DEF Go, TInv, Types, MainRec

LEMMA IdleFields ==
  /\ Idle.pc = "idle" /\ Idle.batch = {} /\ Idle.embeds = FALSE /\ Idle.todo = {}
  /\ Gone.pc = "gone" /\ Gone.batch = {}
BY DEF Idle, Gone

LEMMA InitOne == ASSUME Init, NEW p \in Runner PROVE OneInv(p)
<1>1. /\ main[p] = Idle /\ worker[p] = Gone /\ chan[p] = << >> /\ mem[p] = {} /\ vbin = {}
      /\ fts = {} /\ done[p] = {} /\ faults = 0 /\ clean[p] = TRUE
  BY DEF Init, StoreInit
<1>2. /\ Idle.pc = "idle" /\ Idle.batch = {} /\ Idle.embeds = FALSE
      /\ Gone.pc = "gone" /\ Gone.batch = {}
  BY IdleFields
<1>3. Shape(p)
  BY <1>1, <1>2 DEF Shape, FtsHasFile, Busy, Replacing, Filling
<1>4. InFlight(p) = {}
  BY <1>1, <1>2 DEF InFlight
<1> QED BY <1>1, <1>2, <1>3, <1>4 DEF OneInv, Flights, Fresh

\* A worker that is gone and a main thread without a batch hold nothing.
LEMMA NothingFlies ==
  ASSUME NEW p \in Runner, Shape(p), worker[p].pc = "gone", main[p].batch = {}
  PROVE  InFlight(p) = {}
BY DEF Shape, InFlight

LEMMA EditOne ==
  ASSUME TInv, NEW p \in Runner, OneInv(p), Edit
  PROVE  OneInv(p)'
BY DEF Edit, storeVars, OneInv, Shape, FtsHasFile, RowsOf, Flights, InFlight, Replaceable, Fresh,
       Indexed, Whole, Held, InHand, Quiet

LEMMA StartOne ==
  ASSUME TInv, NEW p \in Runner, OneInv(p), NEW single \in BOOLEAN, NEW files \in SUBSET File,
         Start(p, single, files)
  PROVE  OneInv(p)'
<1>1. /\ main[p].pc = "idle" /\ worker[p].pc = "gone" /\ chan[p] = << >> /\ done[p] = {}
      /\ worker[p].batch = {} /\ main[p].batch = {} /\ FtsHasFile
      /\ UNCHANGED <<rows, nextFile, fts, chunks, vbin, chan, done>>
      /\ mem' = [mem EXCEPT ![p] = Loaded]
  BY DEF Start, At, storeVars, OneInv, Shape
<1>2. PICK embeds \in BOOLEAN :
        /\ main' = [main EXCEPT ![p] = [Idle EXCEPT !.pc = "next", !.single = single,
                                                    !.embeds = embeds, !.todo = files]]
        /\ \/ /\ worker' = [worker EXCEPT ![p].pc = IF embeds \/ single THEN "recv" ELSE "gone"]
              /\ clean' = [clean EXCEPT ![p] = TRUE] /\ UNCHANGED faults
           \/ embeds /\ ~single /\ Faulty(p) /\ UNCHANGED worker
  BY PipelineAssumption DEF Start
<1>3. main'[p].pc = "next" /\ main'[p].batch = {} /\ main'[p].embeds = embeds
  BY <1>2 DEF Idle, TInv, Types
<1>4. mem'[p] = Loaded
  BY <1>1 DEF TInv, Types
<1>5. worker'[p].batch = {} /\ worker'[p].pc # "embed"
  <2>1. worker \in [Runner -> WorkerRec(nextFile)]
    BY DEF TInv, Types
  <2>2. worker'[p].batch = worker[p].batch /\ worker'[p].pc \in {"recv", "gone"}
    BY <1>1, <1>2, <2>1 DEF WorkerRec
  <2> QED BY <1>1, <2>2
<1>6. InFlight(p)' = {}
  BY <1>1, <1>3, <1>5 DEF InFlight
<1>7. CASE embeds /\ ~single /\ Faulty(p) /\ UNCHANGED worker
  <2>1. faults' # 0
    BY <1>7 DEF Faulty, TInv, Types
  <2>2. Shape(p)'
    BY <1>1, <1>3, <1>5, <2>1 DEF Shape, FtsHasFile, Busy, Replacing, Filling
  <2> QED BY <1>7, <2>2, Failed
<1>8. CASE /\ worker' = [worker EXCEPT ![p].pc = IF embeds \/ single THEN "recv" ELSE "gone"]
           /\ clean' = [clean EXCEPT ![p] = TRUE] /\ UNCHANGED faults
  <2>1. clean'[p] = TRUE /\ (embeds => worker'[p].pc = "recv")
    BY <1>8 DEF TInv, Types, WorkerRec
  <2>2. Shape(p)'
    BY <1>1, <1>3, <1>5, <2>1 DEF Shape, FtsHasFile, Busy, Replacing, Filling
  <2>3. Flights(p)'
    BY <1>3, <1>6 DEF Flights
  <2>4. faults' = 0 => Fresh(p)'
    BY <1>1, <1>3, <1>4, <1>8 DEF OneInv, Fresh, Loaded
  <2>5. embeds => Indexed(p)'
    BY <1>1, <1>3, <2>1 DEF Indexed, InHand, Filling
  <2> QED BY <1>3, <2>2, <2>3, <2>4, <2>5 DEF OneInv
<1> QED BY <1>2, <1>7, <1>8

LEMMA ReadOne ==
  ASSUME TInv, NEW p \in Runner, OneInv(p), ReadFile(p)
  PROVE  OneInv(p)'
<1>1. /\ main[p].pc = "next" /\ main[p] \in MainRec(nextFile)
      /\ UNCHANGED <<rows, nextFile, fts, chunks, vbin, worker, chan, mem, done>>
  BY Before DEF ReadFile, At, storeVars
<1>2. PICK f \in main[p].todo, s \in {"next", "lookup"} :
        main' = [main EXCEPT ![p] =
          [main[p] EXCEPT !.todo = main[p].todo \ {f}, !.file = f, !.hash = disk[f],
                          !.k = 0, !.id = 0, !.pc = s]]
  BY DEF ReadFile, Take
<1>3. /\ main'[p].pc = s /\ main'[p].todo = main[p].todo \ {f} /\ main'[p].file = f
      /\ main'[p].k = 0 /\ main'[p].batch = main[p].batch /\ main'[p].embeds = main[p].embeds
  BY <1>1, <1>2 DEF TInv, Types, MainRec
<1>4. InFlight(p)' = InFlight(p)
  BY <1>1, <1>3 DEF InFlight
<1>5. ASSUME faults' = 0 => clean'[p] PROVE Shape(p)'
  BY <1>1, <1>3, <1>5 DEF OneInv, Shape, FtsHasFile, Busy, Replacing, Filling
<1>6. CASE Faulty(p)
  <2>1. faults' # 0
    BY <1>6 DEF Faulty, TInv, Types
  <2> QED BY <1>5, <1>6, <2>1, Failed
<1>7. CASE NoFault
  <2>1. Shape(p)'
    BY <1>5, <1>7 DEF NoFault, OneInv, Shape
  <2>2. clean[p] => Flights(p)'
    BY <1>1, <1>3, <1>4 DEF OneInv, Flights, Replaceable, Replacing
  <2>3. faults = 0 => Fresh(p)'
    BY <1>1, <1>3 DEF OneInv, Fresh
  <2>4. clean[p] /\ main[p].embeds => Indexed(p)'
    BY <1>1, <1>3, <1>4 DEF OneInv, Indexed, Whole, Held, InHand, Quiet, Filling
  <2> QED BY <1>1, <1>3, <1>7, <2>1, <2>2, <2>3, <2>4 DEF OneInv, NoFault
<1> QED BY <1>6, <1>7 DEF ReadFile

\* process_file ends early: what it had begun stays where it is.
LEMMA AbandonOne ==
  ASSUME TInv, NEW p \in Runner, OneInv(p), Abandon(p), UNCHANGED storeVars, UNCHANGED mem,
         NoFault \/ Faulty(p), main[p].pc \in {"lookup", "insert", "fts", "chunk"}
  PROVE  OneInv(p)'
<1>0. UNCHANGED <<rows, nextFile, fts, chunks, vbin, mem>>
  BY DEF storeVars
<1>1. CASE main[p].single
  <2>1. /\ main'[p] = Idle /\ worker'[p] = Gone /\ chan'[p] = << >> /\ done'[p] = {}
    BY <1>1 DEF Abandon, TInv, Types
  <2>2. /\ Idle.pc = "idle" /\ Idle.batch = {} /\ Idle.embeds = FALSE
        /\ Gone.pc = "gone" /\ Gone.batch = {}
    BY IdleFields
  <2>3. InFlight(p)' = {}
    BY <2>1, <2>2 DEF InFlight
  <2>4. ASSUME faults' = 0 => clean'[p] PROVE Shape(p)'
    BY <1>0, <2>1, <2>2, <2>4 DEF OneInv, Shape, FtsHasFile, Busy, Replacing, Filling
  <2>5. CASE Faulty(p)
    <3>1. faults' # 0
      BY <2>5 DEF Faulty, TInv, Types
    <3> QED BY <2>4, <2>5, <3>1, Failed
  <2>6. CASE NoFault
    <3>1. Shape(p)'
      BY <2>4, <2>6 DEF NoFault, OneInv, Shape
    <3>2. Flights(p)'
      BY <2>1, <2>2, <2>3 DEF Flights
    <3>3. faults' = 0 => Fresh(p)'
      BY <1>0, <2>1, <2>2, <2>6 DEF NoFault, OneInv, Fresh
    <3> QED BY <2>1, <2>2, <3>1, <3>2, <3>3 DEF OneInv
  <2> QED BY <2>5, <2>6
<1>2. CASE ~main[p].single
  <2>1. Go(p, "next") /\ UNCHANGED <<worker, chan, done>>
    BY <1>2 DEF Abandon
  <2>2. /\ main'[p].pc = "next" /\ main'[p].todo = main[p].todo
        /\ main'[p].batch = main[p].batch /\ main'[p].embeds = main[p].embeds
    BY <2>1, GoFields
  <2>3. InFlight(p)' = InFlight(p)
    BY <2>1, <2>2 DEF InFlight
  <2>4. ASSUME faults' = 0 => clean'[p] PROVE Shape(p)'
    BY <1>0, <2>1, <2>2, <2>4 DEF OneInv, Shape, FtsHasFile, Busy, Replacing, Filling
  <2>5. CASE Faulty(p)
    <3>1. faults' # 0
      BY <2>5 DEF Faulty, TInv, Types
    <3> QED BY <2>4, <2>5, <3>1, Failed
  <2>6. CASE NoFault
    <3>1. Shape(p)'
      BY <2>4, <2>6 DEF NoFault, OneInv, Shape
    <3>2. clean[p] => Flights(p)'
      BY <1>0, <2>2, <2>3 DEF OneInv, Flights, Replaceable, Replacing
    <3>3. faults = 0 => Fresh(p)'
      BY <1>0, <2>2 DEF OneInv, Fresh
    <3>4. clean[p] /\ main[p].embeds => Indexed(p)'
      BY <1>0, <2>1, <2>2, <2>3
         DEF OneInv, Indexed, Whole, Held, InHand, Quiet, Filling, Busy, Replacing
    <3> QED BY <2>2, <2>6, <3>1, <3>2, <3>3, <3>4 DEF OneInv, NoFault
  <2> QED BY <2>5, <2>6
<1> QED BY <1>1, <1>2

LEMMA LookUpOne ==
  ASSUME TInv, NEW p \in Runner, OneInv(p), LookUp(p)
  PROVE  OneInv(p)'
<1> DEFINE f == main[p].file
<1>1. /\ main[p].pc = "lookup" /\ main[p] \in MainRec(nextFile)
      /\ UNCHANGED <<rows, nextFile, fts, chunks, vbin, mem>> /\ UNCHANGED storeVars
      /\ NoFault \/ Faulty(p)
  BY Before DEF LookUp, At, storeVars
<1>2. CASE Abandon(p)
  BY <1>1, <1>2, AbandonOne
<1>3. CASE /\ UNCHANGED <<worker, chan, done>>
           /\ \/ Go(p, "insert")
              \/ \E i \in RowsOf(f) :
                   main' = [main EXCEPT ![p].pc = "dropchunks", ![p].id = i]
  <2>1. /\ main'[p].todo = main[p].todo /\ main'[p].file = f
        /\ main'[p].k = main[p].k /\ main'[p].batch = main[p].batch
        /\ main'[p].embeds = main[p].embeds
        /\ \/ main'[p].pc = "insert"
           \/ main'[p].pc = "dropchunks" /\ main'[p].id \in RowsOf(f)
    <3>1. CASE Go(p, "insert")
      BY <3>1, GoFields
    <3>2. CASE \E i \in RowsOf(f) :
                 main' = [main EXCEPT ![p].pc = "dropchunks", ![p].id = i]
      <4>1. PICK i \in RowsOf(f) :
              main' = [main EXCEPT ![p].pc = "dropchunks", ![p].id = i]
        BY <3>2
      <4> QED BY <1>1, <4>1 DEF TInv, Types, MainRec
    <3> QED BY <1>3, <3>1, <3>2
  <2>2. InFlight(p)' = InFlight(p)
    BY <1>3, <2>1 DEF InFlight
  <2>3. ASSUME faults' = 0 => clean'[p] PROVE Shape(p)'
    BY <1>1, <1>3, <2>1, <2>3 DEF OneInv, Shape, FtsHasFile, RowsOf, Busy, Replacing, Filling
  <2>4. CASE Faulty(p)
    <3>1. faults' # 0
      BY <2>4 DEF Faulty, TInv, Types
    <3> QED BY <2>3, <2>4, <3>1, Failed
  <2>5. CASE NoFault
    <3>1. Shape(p)'
      BY <2>3, <2>5 DEF NoFault, OneInv, Shape
    <3>2. clean[p] => Flights(p)'
      BY <1>1, <2>1, <2>2 DEF OneInv, Flights, Replaceable, Replacing
    <3>3. faults = 0 => Fresh(p)'
      BY <1>1, <2>1 DEF OneInv, Fresh
    <3>4. clean[p] /\ main[p].embeds => Indexed(p)'
      BY <1>1, <1>3, <2>1, <2>2
         DEF OneInv, Indexed, Whole, Held, InHand, Quiet, Filling, Busy, Replacing
    <3> QED BY <1>1, <2>1, <2>5, <3>1, <3>2, <3>3, <3>4 DEF OneInv, NoFault
  <2> QED BY <1>1, <2>4, <2>5
<1> QED BY <1>2, <1>3 DEF LookUp

LEMMA DropChunksOne ==
  ASSUME TInv, NEW p \in Runner, OneInv(p), DropChunks(p)
  PROVE  OneInv(p)'
<1>1. /\ main[p].pc = "dropchunks" /\ Go(p, "droprow")
      /\ UNCHANGED <<rows, nextFile, fts, vbin, worker, chan, mem, done>>
      /\ \/ chunks' = {c \in chunks : c[1] # main[p].id} /\ NoFault
         \/ Faulty(p)
  BY DEF DropChunks, At, storeVars, DeleteChunks
<1>2. /\ main'[p].pc = "droprow" /\ main'[p].todo = main[p].todo /\ main'[p].file = main[p].file
      /\ main'[p].id = main[p].id /\ main'[p].k = main[p].k
      /\ main'[p].batch = main[p].batch /\ main'[p].embeds = main[p].embeds
  BY <1>1, GoFields
<1>3. InFlight(p)' = InFlight(p)
  BY <1>1, <1>2 DEF InFlight
<1>4. ASSUME faults' = 0 => clean'[p] PROVE Shape(p)'
  BY <1>1, <1>2, <1>4 DEF OneInv, Shape, FtsHasFile, RowsOf, Busy, Replacing, Filling
<1>5. CASE Faulty(p)
  <2>1. faults' # 0
    BY <1>5 DEF Faulty, TInv, Types
  <2> QED BY <1>4, <1>5, <2>1, Failed
<1>6. CASE chunks' = {c \in chunks : c[1] # main[p].id} /\ NoFault
  <2>1. Shape(p)'
    BY <1>4, <1>6 DEF NoFault, OneInv, Shape
  <2>2. clean[p] => Flights(p)'
    BY <1>1, <1>2, <1>3 DEF OneInv, Flights, Replaceable, Replacing
  <2>3. faults = 0 => Fresh(p)'
    BY <1>1, <1>2 DEF OneInv, Fresh
  <2>4. clean[p] /\ main[p].embeds => Indexed(p)'
    <3>1. main[p].id \in DOMAIN rows /\ rows[main[p].id].path = main[p].file
      BY <1>1 DEF OneInv, Shape, RowsOf
    <3>2. \A i, k : i # main[p].id => (<<i, k>> \in chunks => <<i, k>> \in chunks')
      BY <1>6
    <3> QED BY <1>1, <1>2, <1>3, <3>1, <3>2
            DEF OneInv, Indexed, Whole, Held, InHand, Quiet, Filling, Busy, Replacing
  <2> QED BY <1>2, <1>6, <2>1, <2>2, <2>3, <2>4 DEF OneInv, NoFault
<1> QED BY <1>1, <1>5, <1>6

LEMMA DropRowOne ==
  ASSUME TInv, NEW p \in Runner, OneInv(p), DropRow(p)
  PROVE  OneInv(p)'
<1> DEFINE id == main[p].id
<1>1. /\ main[p].pc = "droprow" /\ Go(p, "dropvec")
      /\ UNCHANGED <<nextFile, vbin, worker, chan, mem, done>>
      /\ \/ /\ rows' = [i \in DOMAIN rows \ {id} |-> rows[i]] /\ fts' = fts \ {id}
            /\ chunks' = {c \in chunks : c[1] # id} /\ NoFault
         \/ Faulty(p) /\ UNCHANGED <<rows, fts, chunks>>
  BY DEF DropRow, At, storeVars, DeleteFile
<1>2. /\ main'[p].pc = "dropvec" /\ main'[p].todo = main[p].todo /\ main'[p].file = main[p].file
      /\ main'[p].id = id /\ main'[p].k = main[p].k
      /\ main'[p].batch = main[p].batch /\ main'[p].embeds = main[p].embeds
  BY <1>1, GoFields
<1>3. InFlight(p)' = InFlight(p)
  BY <1>1, <1>2 DEF InFlight
<1>4. CASE Faulty(p) /\ UNCHANGED <<rows, fts, chunks>>
  <2>1. faults' # 0
    BY <1>4 DEF Faulty, TInv, Types
  <2>2. Shape(p)'
    BY <1>1, <1>2, <1>4, <2>1 DEF OneInv, Shape, FtsHasFile, Busy, Replacing, Filling
  <2> QED BY <1>4, <2>2, Failed
<1>5. CASE /\ rows' = [i \in DOMAIN rows \ {id} |-> rows[i]] /\ fts' = fts \ {id}
           /\ chunks' = {c \in chunks : c[1] # id} /\ NoFault
  <2>1. DOMAIN rows' = DOMAIN rows \ {id} /\ \A i \in DOMAIN rows' : rows'[i] = rows[i]
    BY <1>5
  <2>2. rows[id].path = main[p].file /\ UNCHANGED <<faults, clean>>
    BY <1>1, <1>5 DEF OneInv, Shape, RowsOf, NoFault
  <2>3. Shape(p)'
    BY <1>1, <1>2, <1>5, <2>1, <2>2 DEF OneInv, Shape, FtsHasFile, Busy, Replacing, Filling
  <2>4. clean[p] => Flights(p)'
    BY <1>1, <1>2, <1>3, <2>1, <2>2 DEF OneInv, Flights, Replaceable, Replacing
  <2>5. faults = 0 => Fresh(p)'
    BY <1>1, <1>2, <2>1 DEF OneInv, Fresh
  <2>6. clean[p] /\ main[p].embeds => Indexed(p)'
    <3>1. \A i, k : i # id => (<<i, k>> \in chunks => <<i, k>> \in chunks')
      BY <1>5
    <3> QED BY <1>1, <1>2, <1>3, <1>5, <2>1, <2>2, <3>1
            DEF OneInv, Indexed, Whole, Held, InHand, Quiet, Filling, Busy, Replacing
  <2> QED BY <1>2, <2>2, <2>3, <2>4, <2>5, <2>6 DEF OneInv
<1> QED BY <1>1, <1>4, <1>5

LEMMA DropVecOne ==
  ASSUME TInv, NEW p \in Runner, OneInv(p), DropVec(p)
  PROVE  OneInv(p)'
<1> DEFINE id == main[p].id
<1>1. /\ main[p].pc = "dropvec" /\ Go(p, "savebegin")
      /\ UNCHANGED <<rows, nextFile, fts, chunks, vbin, worker, chan, faults, clean, done>>
      /\ mem' = [mem EXCEPT ![p] = DropVectors(p)]
  BY DEF DropVec, At, storeVars
<1>2. /\ main'[p].pc = "savebegin" /\ main'[p].todo = main[p].todo /\ main'[p].file = main[p].file
      /\ main'[p].id = id /\ main'[p].k = main[p].k
      /\ main'[p].batch = main[p].batch /\ main'[p].embeds = main[p].embeds
  BY <1>1, GoFields
<1>3. InFlight(p)' = InFlight(p)
  BY <1>1, <1>2 DEF InFlight
<1>4. mem'[p] = {x \in mem[p] : x[1] # id}
  BY <1>1 DEF DropVectors, TInv, Types
<1>5. Shape(p)'
  BY <1>1, <1>2 DEF OneInv, Shape, FtsHasFile, Busy, Replacing, Filling
<1>6. clean[p] => Flights(p)'
  BY <1>1, <1>2, <1>3 DEF OneInv, Flights, Replaceable, Replacing
<1>7. faults = 0 => Fresh(p)'
  BY <1>1, <1>2, <1>4 DEF OneInv, Fresh
<1>8. clean[p] /\ main[p].embeds => Indexed(p)'
  <2>1. clean[p] => id \notin DOMAIN rows
    BY <1>1 DEF OneInv, Flights
  <2>2. \A i, k : i # id => (<<i, k>> \in mem[p] => <<i, k>> \in mem'[p])
    BY <1>4
  <2> QED BY <1>1, <1>2, <1>3, <2>1, <2>2
          DEF OneInv, Indexed, Whole, Held, Quiet, Filling, Busy, Replacing
<1> QED BY <1>1, <1>2, <1>5, <1>6, <1>7, <1>8 DEF OneInv

\* With one runner a save that ends leaves the vectors in memory in the file.
LEMMA SavedAlone ==
  ASSUME NEW p, Runner = {p}
  PROVE  Saved(p) = {mem[p]}
BY DEF Saved

LEMMA MainSavesOne ==
  ASSUME TInv, NEW p, Runner = {p}, OneInv(p), MainSaves(p)
  PROVE  OneInv(p)'
<1>0. p \in Runner
  OBVIOUS
<1>1. /\ main[p].pc \in {"savebegin", "saveend"}
      /\ UNCHANGED <<rows, nextFile, fts, chunks, worker, chan, mem, done>>
      /\ \/ vbin' = Torn /\ Go(p, "saveend") /\ NoFault
         \/ vbin' = mem[p] /\ Go(p, "insert") /\ NoFault
         \/ Faulty(p) /\ Go(p, "insert")
  BY SavedAlone DEF MainSaves, At
<1>2. /\ main'[p].pc \in {"saveend", "insert"}
      /\ main'[p].todo = main[p].todo /\ main'[p].file = main[p].file
      /\ main'[p].id = main[p].id /\ main'[p].k = main[p].k
      /\ main'[p].batch = main[p].batch /\ main'[p].embeds = main[p].embeds
  BY <1>0, <1>1, GoFields
<1>3. InFlight(p)' = InFlight(p)
  BY <1>1, <1>2 DEF InFlight
<1>4. ASSUME faults' = 0 => clean'[p] PROVE Shape(p)'
  BY <1>1, <1>2, <1>4 DEF OneInv, Shape, FtsHasFile, Busy, Replacing, Filling
<1>5. CASE Faulty(p)
  <2>1. faults' # 0
    BY <1>5 DEF Faulty, TInv, Types
  <2> QED BY <1>0, <1>4, <1>5, <2>1, Failed
<1>6. CASE /\ NoFault
           /\ \/ vbin' = Torn /\ main'[p].pc = "saveend"
              \/ vbin' = mem[p] /\ main'[p].pc = "insert"
  <2>1. Shape(p)'
    BY <1>4, <1>6 DEF NoFault, OneInv, Shape
  <2>2. clean[p] => Flights(p)'
    BY <1>1, <1>2, <1>3 DEF OneInv, Flights, Replaceable, Replacing
  <2>3. faults = 0 => Fresh(p)'
    BY <1>1, <1>2, <1>6 DEF OneInv, Fresh
  <2>4. clean[p] /\ main[p].embeds => Indexed(p)'
    BY <1>1, <1>2, <1>3, <1>6
       DEF OneInv, Indexed, Whole, Held, InHand, Quiet, Filling, Busy, Replacing
  <2> QED BY <1>2, <1>6, <2>1, <2>2, <2>3, <2>4 DEF OneInv, NoFault
<1>7. /\ Go(p, "saveend") => main'[p].pc = "saveend"
      /\ Go(p, "insert") => main'[p].pc = "insert"
  BY <1>0, GoFields
<1> QED BY <1>1, <1>5, <1>6, <1>7

LEMMA InsertOne ==
  ASSUME TInv, NEW p \in Runner, OneInv(p), InsertRow(p)
  PROVE  OneInv(p)'
<1> DEFINE n == nextFile
           f == main[p].file
<1>1. main[p].pc = "insert" /\ UNCHANGED <<disk, mem>> /\ main[p] \in MainRec(n)
      /\ n \in Nat \ {0} /\ StoreTypeOK
  BY Before DEF InsertRow, At
<1>2. CASE Abandon(p) /\ UNCHANGED storeVars /\ (NoFault \/ Faulty(p))
  BY <1>1, <1>2, AbandonOne
<1>3. CASE /\ RowsOf(f) = {} /\ InsertFile(f, main[p].hash)
           /\ main' = [main EXCEPT ![p].pc = "fts", ![p].id = nextFile]
           /\ NoFault /\ UNCHANGED <<worker, chan, done>>
  <2>1. /\ UNCHANGED <<fts, chunks, vbin, mem, worker, chan, faults, clean, done>>
        /\ rows' = [i \in DOMAIN rows \cup {n} |->
                      IF i = n THEN [path |-> f, hash |-> main[p].hash] ELSE rows[i]]
    BY <1>1, <1>3 DEF InsertFile, NoFault
  <2>2. /\ main'[p].pc = "fts" /\ main'[p].id = n /\ main'[p].todo = main[p].todo
        /\ main'[p].file = f /\ main'[p].k = main[p].k
        /\ main'[p].batch = main[p].batch /\ main'[p].embeds = main[p].embeds
    BY <1>1, <1>3 DEF TInv, Types, MainRec
  <2>3. InFlight(p)' = InFlight(p)
    BY <2>1, <2>2 DEF InFlight
  <2>4. n \notin DOMAIN rows
    BY <1>1 DEF StoreTypeOK
  <2>5. /\ DOMAIN rows' = DOMAIN rows \cup {n}
        /\ \A i \in DOMAIN rows : rows'[i] = rows[i]
        /\ rows'[n].path = f
    BY <2>1, <2>4
  <2>6. Shape(p)'
    BY <1>1, <2>1, <2>2, <2>5 DEF OneInv, Shape, FtsHasFile, RowsOf, Busy, Replacing, Filling
  <2>7. clean[p] => Flights(p)'
    BY <1>1, <2>2, <2>3, <2>5 DEF OneInv, Flights, Replaceable, Replacing
  <2>8. faults = 0 => Fresh(p)'
    BY <1>1, <2>1, <2>2, <2>5 DEF OneInv, Fresh
  <2>9. clean[p] /\ main[p].embeds => Indexed(p)'
    <3>1. \A x \in mem[p] : x[1] # n
      <4>1. mem[p] \subseteq Items(n)
        BY Before
      <4> QED BY <1>1, <4>1 DEF Items, Ids
    <3> QED BY <1>1, <2>1, <2>2, <2>3, <2>5, <3>1
            DEF OneInv, Indexed, Whole, Held, InHand, Quiet, Filling, Busy, Replacing
  <2> QED BY <2>1, <2>2, <2>6, <2>7, <2>8, <2>9 DEF OneInv
<1> QED BY <1>2, <1>3 DEF InsertRow

LEMMA FtsOne ==
  ASSUME TInv, NEW p \in Runner, OneInv(p), InsertFts(p)
  PROVE  OneInv(p)'
<1>1. main[p].pc = "fts" /\ UNCHANGED mem
  BY DEF InsertFts, At
<1>2. CASE Faulty(p) /\ Abandon(p) /\ UNCHANGED storeVars
  BY <1>1, <1>2, AbandonOne
<1>3. CASE IndexContent(main[p].id) /\ Go(p, "chunk") /\ NoFault /\ UNCHANGED <<worker, chan, done>>
  <2>1. /\ UNCHANGED <<rows, nextFile, chunks, vbin, mem, worker, chan, faults, clean, done>>
        /\ fts' = fts \cup {main[p].id}
    BY <1>1, <1>3 DEF IndexContent, NoFault
  <2>2. /\ main'[p].pc = "chunk" /\ main'[p].todo = main[p].todo /\ main'[p].file = main[p].file
        /\ main'[p].id = main[p].id /\ main'[p].k = main[p].k
        /\ main'[p].batch = main[p].batch /\ main'[p].embeds = main[p].embeds
    BY <1>3, GoFields
  <2>3. InFlight(p)' = InFlight(p)
    BY <2>1, <2>2 DEF InFlight
  <2>4. Shape(p)'
    BY <1>1, <2>1, <2>2 DEF OneInv, Shape, FtsHasFile, RowsOf, Busy, Replacing, Filling
  <2>5. clean[p] => Flights(p)'
    BY <1>1, <2>1, <2>2, <2>3 DEF OneInv, Flights, Replaceable, Replacing
  <2>6. faults = 0 => Fresh(p)'
    BY <1>1, <2>1, <2>2 DEF OneInv, Fresh
  <2>7. clean[p] /\ main[p].embeds => Indexed(p)'
    <3>1. main[p].k = 0
      BY <1>1 DEF OneInv, Shape, Replacing
    <3> QED BY <1>1, <2>1, <2>2, <2>3, <3>1
            DEF OneInv, Indexed, Whole, Held, InHand, Quiet, Filling, Busy, Replacing
  <2> QED BY <2>1, <2>2, <2>4, <2>5, <2>6, <2>7 DEF OneInv
<1> QED BY <1>2, <1>3 DEF InsertFts

LEMMA ChunkOne ==
  ASSUME TInv, NEW p \in Runner, OneInv(p), NextChunk(p)
  PROVE  OneInv(p)'
<1> DEFINE id == main[p].id
           k == main[p].k + 1
           batch == IF main[p].embeds THEN main[p].batch \cup {<<id, k>>} ELSE {}
           s == IF main[p].embeds /\ Full(p) THEN "send" ELSE "chunk"
<1>1. main[p].pc = "chunk" /\ UNCHANGED mem /\ main[p] \in MainRec(nextFile)
  BY Before DEF NextChunk, At
<1>2. CASE Abandon(p) /\ UNCHANGED storeVars /\ (NoFault \/ Faulty(p))
  BY <1>1, <1>2, AbandonOne
<1>3. CASE /\ InsertChunk(id, k)
           /\ main' = [main EXCEPT ![p].k = k, ![p].batch = batch, ![p].pc = s]
           /\ NoFault /\ UNCHANGED <<worker, chan, done>>
  <2>1. /\ UNCHANGED <<rows, nextFile, fts, vbin, mem, worker, chan, faults, clean, done>>
        /\ chunks' = chunks \cup {<<id, k>>}
    BY <1>1, <1>3 DEF InsertChunk, NoFault
  <2> HIDE DEF k, batch, s
  <2>2. /\ main'[p].pc = s /\ main'[p].todo = main[p].todo /\ main'[p].file = main[p].file
        /\ main'[p].id = id /\ main'[p].k = k
        /\ main'[p].batch = batch /\ main'[p].embeds = main[p].embeds
    BY <1>1, <1>3 DEF TInv, Types, MainRec
  <2>3. s \in {"send", "chunk"}
    BY DEF s
  <2>4. /\ InFlight(p)' \subseteq InFlight(p) \cup {<<id, k>>}
        /\ main[p].embeds => InFlight(p)' = InFlight(p) \cup {<<id, k>>}
    BY <2>1, <2>2 DEF InFlight, batch
  <2>5. id \in DOMAIN rows /\ rows[id].path = main[p].file /\ main[p].file \notin main[p].todo
    BY <1>1 DEF OneInv, Shape, RowsOf, Busy, Filling
  <2>6. Shape(p)'
    BY <1>1, <2>1, <2>2, <2>3 DEF OneInv, Shape, FtsHasFile, RowsOf, Busy, Replacing, Filling
  <2>7. clean[p] => Flights(p)'
    <3>1. <<id, k>>[1] = id
      OBVIOUS
    <3> QED BY <1>1, <2>1, <2>2, <2>3, <2>4, <2>5, <3>1
            DEF OneInv, Flights, Replaceable, Replacing
  <2>8. faults = 0 => Fresh(p)'
    BY <1>1, <2>1, <2>2, <2>3 DEF OneInv, Fresh
  <2>9. clean[p] /\ main[p].embeds => Indexed(p)'
    <3> SUFFICES ASSUME clean[p], main[p].embeds PROVE Indexed(p)'
      OBVIOUS
    <3>1. Held(p)' = Held(p) \cup {<<id, k>>}
      BY <2>1, <2>4 DEF Held
    <3>2. ASSUME NEW i, NEW n, Whole(p, i, n) PROVE Whole(p, i, n)'
      BY <2>1, <3>1, <3>2 DEF Whole
    <3>3. \A j \in 1..k : <<id, j>> \in chunks' /\ <<id, j>> \in Held(p)'
      <4>1. Whole(p, id, main[p].k) /\ main[p].k \in Nat
        BY <1>1 DEF OneInv, Indexed, MainRec
      <4>2. \A j \in 1..k : j = k \/ j \in 1..main[p].k
        BY <4>1 DEF k
      <4> QED BY <2>1, <3>1, <4>1, <4>2 DEF Whole
    <3>4. main'[p].pc \notin {"idle", "join"} => worker'[p].pc # "gone"
      BY <1>1, <2>1 DEF OneInv, Indexed
    <3>5. \A i \in done'[p] :
            /\ i \in DOMAIN rows' /\ i \in fts'
            /\ rows'[i].path \notin main'[p].todo
            /\ main'[p].pc \in Busy => rows'[i].path # main'[p].file
            /\ Whole(p, i, ChunksOf[rows[i].path])'
      BY <1>1, <2>1, <2>2, <3>2 DEF OneInv, Indexed, Busy, Filling
    <3>6. main'[p].id \in fts' /\ Whole(p, main[p].id, main[p].k)'
      <4>1. main[p].id \in fts
        BY <1>1 DEF OneInv, Indexed
      <4>2. \A j \in 1..main'[p].k :
              <<main'[p].id, j>> \in chunks' /\ <<main'[p].id, j>> \in Held(p)'
        BY <2>2, <3>3
      <4> QED BY <2>1, <2>2, <4>1, <4>2 DEF Whole
    <3>7. Quiet(p)' => vbin' = mem'[p] \/ \A x \in mem'[p] : x[1] \notin done'[p] \cup InHand(p)'
      BY <1>1, <2>1, <2>2, <2>3 DEF OneInv, Indexed, Quiet, InHand, Filling
    <3> QED BY <3>4, <3>5, <3>6, <3>7 DEF Indexed
  <2> QED BY <2>1, <2>2, <2>6, <2>7, <2>8, <2>9 DEF OneInv
<1> QED BY <1>2, <1>3 DEF NextChunk

LEMMA EndOne ==
  ASSUME TInv, NEW p \in Runner, OneInv(p), EndFile(p) \/ EndFiles(p) \/ CloseChannel(p)
  PROVE  OneInv(p)'
<1>1. /\ UNCHANGED <<rows, nextFile, fts, chunks, vbin, worker, chan, mem, faults, clean>>
      /\ main[p] \in MainRec(nextFile)
      /\ \/ /\ main[p].pc = "chunk" /\ main[p].k = ChunksOf[main[p].file] /\ Go(p, "next")
            /\ done' = [done EXCEPT ![p] = @ \cup {main[p].id}]
         \/ /\ main[p].pc = "next" /\ UNCHANGED done
            /\ Go(p, IF main[p].batch # {} THEN "flush" ELSE "close")
         \/ /\ main[p].pc = "close" /\ UNCHANGED done /\ Go(p, "join")
  BY Before DEF EndFile, EndFiles, CloseChannel, At, AfterFiles, storeVars
<1>2. /\ main'[p].todo = main[p].todo /\ main'[p].file = main[p].file
      /\ main'[p].id = main[p].id /\ main'[p].k = main[p].k
      /\ main'[p].batch = main[p].batch /\ main'[p].embeds = main[p].embeds
      /\ \/ /\ main[p].pc = "chunk" /\ main[p].k = ChunksOf[main[p].file] /\ main'[p].pc = "next"
            /\ done'[p] = done[p] \cup {main[p].id}
         \/ /\ main[p].pc = "next" /\ done'[p] = done[p]
            /\ main'[p].pc = IF main[p].batch # {} THEN "flush" ELSE "close"
         \/ /\ main[p].pc = "close" /\ done'[p] = done[p] /\ main'[p].pc = "join"
  BY <1>1, GoFields DEF TInv, Types
<1>3. InFlight(p)' = InFlight(p)
  BY <1>1, <1>2 DEF InFlight
<1>4. Shape(p)'
  BY <1>1, <1>2 DEF OneInv, Shape, FtsHasFile, RowsOf, Busy, Replacing, Filling
<1>5. clean[p] => Flights(p)'
  BY <1>1, <1>2, <1>3 DEF OneInv, Flights, Replaceable, Replacing
<1>6. faults = 0 => Fresh(p)'
  BY <1>1, <1>2 DEF OneInv, Fresh
<1>7. clean[p] /\ main[p].embeds => Indexed(p)'
  <2> SUFFICES ASSUME clean[p], main[p].embeds PROVE Indexed(p)'
    OBVIOUS
  <2>1. ASSUME NEW i, NEW n, Whole(p, i, n) PROVE Whole(p, i, n)'
    BY <1>1, <1>3, <2>1 DEF Whole, Held
  <2>2. CASE main[p].pc = "chunk" /\ main[p].k = ChunksOf[main[p].file] /\ main'[p].pc = "next"
             /\ done'[p] = done[p] \cup {main[p].id}
    <3>1. main[p].id \in DOMAIN rows /\ rows[main[p].id].path = main[p].file
          /\ main[p].file \notin main[p].todo
      BY <2>2 DEF OneInv, Shape, RowsOf, Busy, Filling
    <3>2. main[p].id \in fts /\ Whole(p, main[p].id, ChunksOf[main[p].file])
      BY <2>2 DEF OneInv, Indexed
    <3>3. worker[p].pc # "gone"
      BY <2>2 DEF OneInv, Indexed
    <3>4. \A i \in done'[p] :
            /\ i \in DOMAIN rows' /\ i \in fts'
            /\ rows'[i].path \notin main'[p].todo
            /\ Whole(p, i, ChunksOf[rows[i].path])'
      BY <1>1, <1>2, <2>1, <2>2, <3>1, <3>2 DEF OneInv, Indexed
    <3>5. Quiet(p)' => vbin' = mem'[p] \/ \A x \in mem'[p] : x[1] \notin done'[p] \cup InHand(p)'
      BY <1>1, <2>2 DEF OneInv, Indexed, Quiet, InHand, Filling
    <3> QED BY <1>1, <2>2, <3>3, <3>4, <3>5 DEF Indexed, Busy, Replacing, Filling
  <2>3. CASE main[p].pc \in {"next", "close"} /\ main'[p].pc \in {"flush", "close", "join"}
             /\ done'[p] = done[p]
    <3>1. \A i \in done'[p] :
            /\ i \in DOMAIN rows' /\ i \in fts'
            /\ rows'[i].path \notin main'[p].todo
            /\ Whole(p, i, ChunksOf[rows[i].path])'
      BY <1>1, <1>2, <2>1, <2>3 DEF OneInv, Indexed
    <3>2. Quiet(p)' => vbin' = mem'[p] \/ \A x \in mem'[p] : x[1] \notin done'[p] \cup InHand(p)'
      BY <1>1, <2>3 DEF OneInv, Indexed, Quiet, InHand, Filling
    <3>3. worker'[p].pc # "gone"
      BY <1>1, <2>3 DEF OneInv, Indexed
    <3> QED BY <2>3, <3>1, <3>2, <3>3 DEF Indexed, Busy, Replacing, Filling
  <2> QED BY <1>2, <2>2, <2>3
<1> QED BY <1>1, <1>2, <1>4, <1>5, <1>6, <1>7 DEF OneInv

LEMMA SendOne ==
  ASSUME TInv, NEW p \in Runner, OneInv(p), Send(p)
  PROVE  OneInv(p)'
<1> DEFINE s == IF main[p].pc = "send" THEN "chunk" ELSE "close"
<1>1. /\ UNCHANGED <<rows, nextFile, fts, chunks, vbin, worker, mem, faults, clean, done>>
      /\ main[p] \in MainRec(nextFile) /\ main[p].pc \in {"send", "flush"}
      /\ main' = [main EXCEPT ![p].batch = {}, ![p].pc = s]
  BY Before DEF Send, At, storeVars
<1>2. /\ main'[p].todo = main[p].todo /\ main'[p].file = main[p].file
      /\ main'[p].id = main[p].id /\ main'[p].k = main[p].k
      /\ main'[p].batch = {} /\ main'[p].embeds = main[p].embeds
      /\ \/ main[p].pc = "send" /\ main'[p].pc = "chunk"
         \/ main[p].pc = "flush" /\ main'[p].pc = "close"
  BY <1>1 DEF TInv, Types, MainRec
<1>3. /\ InFlight(p)' \subseteq InFlight(p)
      /\ worker[p].pc = "gone" => chan'[p] = chan[p]
      /\ worker[p].pc # "gone" => InFlight(p)' = InFlight(p)
  <2>1. CASE worker[p].pc = "gone"
    <3>1. chan' = chan
      BY <2>1 DEF Send
    <3>2. InFlight(p) = main[p].batch \cup InFlight(p)'
      BY <1>1, <1>2, <3>1 DEF InFlight
    <3> QED BY <2>1, <3>1, <3>2
  <2>2. CASE worker[p].pc # "gone"
    <3>1. chan'[p] = Append(chan[p], main[p].batch)
      BY <2>2 DEF Send, TInv, Types
    <3>2. chan[p] \in Seq(SUBSET Items(nextFile)) /\ main[p].batch \in SUBSET Items(nextFile)
      BY <1>1, Before DEF MainRec
    <3>3. /\ Len(chan'[p]) = Len(chan[p]) + 1 /\ Len(chan[p]) \in Nat
          /\ \A i \in 1..Len(chan[p]) : chan'[p][i] = chan[p][i]
          /\ chan'[p][Len(chan[p]) + 1] = main[p].batch
      BY <3>1, <3>2
    <3>4. \A i \in 1..Len(chan'[p]) : i \in 1..Len(chan[p]) \/ i = Len(chan[p]) + 1
      BY <3>3
    <3>5. /\ 1..Len(chan[p]) \subseteq 1..Len(chan'[p])
          /\ Len(chan[p]) + 1 \in 1..Len(chan'[p])
      BY <3>3
    <3>6. \A x : (\E i \in 1..Len(chan'[p]) : x \in chan'[p][i])
                   <=> x \in main[p].batch \/ \E i \in 1..Len(chan[p]) : x \in chan[p][i]
      BY <3>3, <3>4, <3>5
    <3>7. InFlight(p)' = InFlight(p)
      <4>1. \A x : x \in InFlight(p) <=> \/ x \in main[p].batch \/ x \in worker[p].batch
                                         \/ \E i \in 1..Len(chan[p]) : x \in chan[p][i]
        BY DEF InFlight
      <4>2. \A x : x \in InFlight(p)' <=> \/ x \in main'[p].batch \/ x \in worker'[p].batch
                                          \/ \E i \in 1..Len(chan'[p]) : x \in chan'[p][i]
        BY DEF InFlight
      <4>3. worker' = worker /\ main'[p].batch = {}
        BY <1>1, <1>2
      <4>4. \A x : x \in InFlight(p)' <=> x \in InFlight(p)
        BY <3>6, <4>1, <4>2, <4>3
      <4> QED BY <4>4
    <3> QED BY <2>2, <3>7
  <2> QED BY <2>1, <2>2
<1>4. Shape(p)'
  BY <1>1, <1>2, <1>3 DEF OneInv, Shape, FtsHasFile, RowsOf, Busy, Replacing, Filling
<1>5. clean[p] => Flights(p)'
  BY <1>1, <1>2, <1>3 DEF OneInv, Flights, Replaceable, Replacing
<1>6. faults = 0 => Fresh(p)'
  BY <1>1, <1>2 DEF OneInv, Fresh
<1>7. clean[p] /\ main[p].embeds => Indexed(p)'
  <2> SUFFICES ASSUME clean[p], main[p].embeds PROVE Indexed(p)'
    OBVIOUS
  <2>1. worker[p].pc # "gone" /\ InFlight(p)' = InFlight(p)
    BY <1>1, <1>3 DEF OneInv, Indexed
  <2>2. Held(p)' = Held(p)
    BY <1>1, <2>1 DEF Held
  <2>3. ASSUME NEW i, NEW n, Whole(p, i, n) PROVE Whole(p, i, n)'
    BY <1>1, <2>2, <2>3 DEF Whole
  <2>4. \A i \in done'[p] :
          /\ i \in DOMAIN rows' /\ i \in fts'
          /\ rows'[i].path \notin main'[p].todo
          /\ main'[p].pc \in Busy => rows'[i].path # main'[p].file
          /\ Whole(p, i, ChunksOf[rows[i].path])'
    BY <1>1, <1>2, <2>3 DEF OneInv, Indexed, Busy, Replacing, Filling
  <2>5. main'[p].pc = "chunk" => main'[p].id \in fts' /\ Whole(p, main[p].id, main[p].k)'
    <3> SUFFICES ASSUME main'[p].pc = "chunk"
                 PROVE  main'[p].id \in fts' /\ Whole(p, main[p].id, main[p].k)'
      OBVIOUS
    <3>1. main[p].pc = "send"
      BY <1>2
    <3>2. main[p].id \in fts /\ Whole(p, main[p].id, main[p].k)
      BY <3>1 DEF OneInv, Indexed
    <3>3. \A j \in 1..main'[p].k :
            <<main'[p].id, j>> \in chunks' /\ <<main'[p].id, j>> \in Held(p)'
      BY <1>1, <1>2, <2>2, <3>2 DEF Whole
    <3>4. main'[p].id \in fts'
      BY <1>1, <1>2, <3>2
    <3>5. Whole(p, main[p].id, main[p].k)'
      BY <3>3 DEF Whole
    <3> QED BY <3>4, <3>5
  <2>6. Quiet(p)' => vbin' = mem'[p] \/ \A x \in mem'[p] : x[1] \notin done'[p] \cup InHand(p)'
    BY <1>1, <1>2 DEF OneInv, Indexed, Quiet, InHand, Filling
  <2> QED BY <1>1, <1>2, <2>1, <2>4, <2>5, <2>6 DEF Indexed
<1> QED BY <1>1, <1>2, <1>4, <1>5, <1>6, <1>7 DEF OneInv

LEMMA JoinOne ==
  ASSUME TInv, NEW p \in Runner, OneInv(p), Join(p)
  PROVE  OneInv(p)'
<1>1. /\ main[p].pc = "join" /\ worker[p].pc = "gone"
      /\ UNCHANGED <<rows, nextFile, fts, chunks, vbin, worker, chan, faults, clean>>
      /\ main'[p] = Idle /\ done'[p] = {} /\ mem'[p] = {}
  BY DEF Join, At, WorkerEnded, storeVars, TInv, Types
<1>2. /\ main'[p].pc = "idle" /\ main'[p].batch = {} /\ main'[p].embeds = FALSE
  BY <1>1, IdleFields
<1>3. Shape(p)'
  BY <1>1, <1>2 DEF OneInv, Shape, FtsHasFile, Busy, Replacing, Filling
<1>4. InFlight(p)' = {}
  BY <1>1, <1>2 DEF OneInv, Shape, InFlight
<1>5. Flights(p)'
  BY <1>2, <1>4 DEF Flights
<1>6. faults = 0 => Fresh(p)'
  BY <1>1, <1>2 DEF OneInv, Fresh
<1> QED BY <1>1, <1>2, <1>3, <1>5, <1>6 DEF OneInv

LEMMA CrashOne ==
  ASSUME TInv, NEW p \in Runner, OneInv(p), Crash(p)
  PROVE  OneInv(p)'
<1>1. /\ Faulty(p) /\ UNCHANGED <<rows, fts>>
      /\ main'[p] = Idle /\ worker'[p] = Gone /\ chan'[p] = << >> /\ done'[p] = {}
  BY DEF Crash, storeVars, TInv, Types
<1>2. faults' # 0
  BY <1>1 DEF Faulty, TInv, Types
<1>3. Shape(p)'
  BY <1>1, <1>2, IdleFields DEF OneInv, Shape, FtsHasFile, Busy, Replacing, Filling
<1> QED BY <1>1, <1>3, Failed

LEMMA ReceiveOne ==
  ASSUME TInv, NEW p \in Runner, OneInv(p), Receive(p)
  PROVE  OneInv(p)'
<1>1. /\ UNCHANGED <<rows, nextFile, fts, chunks, vbin, main, mem, faults, clean, done>>
      /\ worker[p].pc = "recv" /\ worker[p].batch = {} /\ worker[p] \in WorkerRec(nextFile)
  BY Before DEF Receive, storeVars, OneInv, Shape
<1>2. /\ worker'[p].pc \in {"embed", "gone"}
      /\ worker'[p].pc # "embed" => worker'[p].batch = {}
      /\ worker'[p].pc = "gone" => chan'[p] = << >> /\ main[p].pc = "join"
      /\ InFlight(p)' = InFlight(p)
  <2>1. CASE /\ chan[p] # << >>
             /\ worker' = [worker EXCEPT ![p] = [pc |-> "embed", batch |-> Head(chan[p])]]
             /\ chan' = [chan EXCEPT ![p] = Tail(@)]
    <3> DEFINE c == chan[p]
               t == chan'[p]
    <3>1. worker'[p].pc = "embed" /\ worker'[p].batch = Head(c) /\ t = Tail(c)
      BY <2>1 DEF TInv, Types
    <3>2. /\ Len(t) = Len(c) - 1 /\ Len(c) \in Nat \ {0} /\ Head(c) = c[1]
          /\ \A i \in 1..Len(t) : t[i] = c[i + 1]
      <4>1. c \in Seq(SUBSET Items(nextFile)) /\ c # << >>
        BY <2>1, Before
      <4> QED BY <3>1, <4>1
    <3> HIDE DEF c, t
    <3>3. \A x : (\E i \in 1..Len(c) : x \in c[i])
                   <=> x \in Head(c) \/ \E i \in 1..Len(t) : x \in t[i]
      <4>1. \A i \in 1..Len(c) : i = 1 \/ (i - 1 \in 1..Len(t) /\ t[i - 1] = c[i])
        BY <3>2
      <4>2. \A i \in 1..Len(t) : i + 1 \in 1..Len(c)
        BY <3>2
      <4>3. 1 \in 1..Len(c)
        BY <3>2
      <4> QED BY <3>2, <4>1, <4>2, <4>3
    <3>4. \A x : x \in InFlight(p) <=> x \in main[p].batch \/ \E i \in 1..Len(c) : x \in c[i]
      BY <1>1 DEF InFlight, c
    <3>5. \A x : x \in InFlight(p)' <=> \/ x \in main'[p].batch \/ x \in worker'[p].batch
                                        \/ \E i \in 1..Len(t) : x \in t[i]
      BY DEF InFlight, t
    <3>6. \A x : x \in InFlight(p)' <=> x \in InFlight(p)
      BY <1>1, <3>1, <3>3, <3>4, <3>5
    <3>7. InFlight(p)' = InFlight(p)
      BY <3>6
    <3> QED BY <3>1, <3>7
  <2>2. CASE HangsUp(p) /\ worker' = [worker EXCEPT ![p].pc = "gone"] /\ UNCHANGED chan
    <3>1. worker'[p].pc = "gone" /\ worker'[p].batch = worker[p].batch
      BY <1>1, <2>2 DEF TInv, Types, WorkerRec
    <3>2. chan'[p] = << >> /\ main[p].pc = "join"
      BY <2>2 DEF HangsUp, At
    <3>3. InFlight(p)' = InFlight(p)
      BY <1>1, <2>2, <3>1 DEF InFlight
    <3> QED BY <1>1, <3>1, <3>2, <3>3
  <2> QED BY <2>1, <2>2 DEF Receive
<1>3. Shape(p)'
  BY <1>1, <1>2 DEF OneInv, Shape, FtsHasFile, RowsOf, Busy, Replacing, Filling
<1>4. clean[p] => Flights(p)'
  BY <1>1, <1>2 DEF OneInv, Flights, Replaceable
<1>5. faults = 0 => Fresh(p)'
  BY <1>1 DEF OneInv, Fresh
<1>6. clean[p] /\ main[p].embeds => Indexed(p)'
  BY <1>1, <1>2 DEF OneInv, Indexed, Whole, Held, InHand, Quiet
<1> QED BY <1>1, <1>3, <1>4, <1>5, <1>6 DEF OneInv

LEMMA EmbedOne ==
  ASSUME TInv, NEW p \in Runner, OneInv(p), Embed(p)
  PROVE  OneInv(p)'
<1>1. UNCHANGED <<rows, nextFile, fts, chunks, vbin, main, chan, done>>
  BY DEF Embed, storeVars
<1>2. CASE /\ worker' = [worker EXCEPT ![p] = [pc |-> "recv", batch |-> {}]]
           /\ Faulty(p) /\ UNCHANGED mem
  <2>1. worker'[p].pc = "recv" /\ worker'[p].batch = {} /\ faults' # 0
        /\ main[p].pc # "idle"
    BY <1>2 DEF Embed, OneInv, Shape, Faulty, TInv, Types
  <2>2. Shape(p)'
    BY <1>1, <2>1 DEF OneInv, Shape, FtsHasFile, RowsOf, Busy, Replacing, Filling
  <2> QED BY <1>2, <2>2, Failed
<1>3. CASE /\ mem' = [mem EXCEPT ![p] = @ \cup worker[p].batch]
           /\ worker' = [worker EXCEPT ![p] = [pc |-> "savebegin", batch |-> {}]]
           /\ NoFault
  <2>1. /\ worker'[p].pc = "savebegin" /\ worker'[p].batch = {}
        /\ mem'[p] = mem[p] \cup worker[p].batch /\ UNCHANGED <<faults, clean>>
    BY <1>3 DEF NoFault, TInv, Types
  <2>2. /\ InFlight(p) = InFlight(p)' \cup worker[p].batch
        /\ worker[p].batch \subseteq InFlight(p)
    BY <1>1, <2>1 DEF InFlight
  <2>3. Held(p)' = Held(p)
    BY <2>1, <2>2 DEF Held
  <2>4. main[p].pc # "idle"
    BY <1>3 DEF OneInv, Shape, Embed
  <2>5. Shape(p)'
    BY <1>1, <2>1, <2>4 DEF OneInv, Shape, FtsHasFile, RowsOf, Busy, Replacing, Filling
  <2>6. clean[p] => Flights(p)'
    BY <1>1, <2>1, <2>2 DEF OneInv, Flights, Replaceable
  <2>7. faults = 0 => Fresh(p)'
    BY <1>1, <2>1, <2>2 DEF OneInv, Fresh, Shape, Flights
  <2>8. clean[p] /\ main[p].embeds => Indexed(p)'
    BY <1>1, <2>1, <2>3 DEF OneInv, Indexed, Whole, Quiet
  <2> QED BY <1>1, <2>1, <2>5, <2>6, <2>7, <2>8 DEF OneInv
<1> QED BY <1>2, <1>3 DEF Embed

LEMMA WorkerSavesOne ==
  ASSUME TInv, NEW p, Runner = {p}, OneInv(p), WorkerSaves(p)
  PROVE  OneInv(p)'
<1>0. p \in Runner
  OBVIOUS
<1>1. /\ UNCHANGED <<rows, nextFile, fts, chunks, main, chan, mem, done>>
      /\ worker[p].pc \in {"savebegin", "saveend"} /\ worker[p].batch = {}
      /\ worker[p] \in WorkerRec(nextFile)
  BY <1>0, Before DEF WorkerSaves, OneInv, Shape
<1>2. /\ worker'[p].pc \in {"saveend", "recv"} /\ worker'[p].batch = {}
      /\ \/ vbin' = Torn /\ NoFault /\ worker'[p].pc = "saveend"
         \/ vbin' = mem[p] /\ NoFault /\ worker'[p].pc = "recv"
         \/ Faulty(p)
  <2>1. PICK s \in {"saveend", "recv"} :
          /\ worker' = [worker EXCEPT ![p].pc = s]
          /\ \/ vbin' = Torn /\ NoFault /\ s = "saveend"
             \/ vbin' = mem[p] /\ NoFault /\ s = "recv"
             \/ Faulty(p)
    BY SavedAlone DEF WorkerSaves
  <2>2. worker'[p].pc = s /\ worker'[p].batch = worker[p].batch
    BY <1>0, <1>1, <2>1 DEF TInv, Types, WorkerRec
  <2> QED BY <1>1, <2>1, <2>2
<1>3. InFlight(p)' = InFlight(p)
  BY <1>1, <1>2 DEF InFlight
<1>4. ASSUME faults' = 0 => clean'[p] PROVE Shape(p)'
  BY <1>1, <1>2, <1>4 DEF OneInv, Shape, FtsHasFile, RowsOf, Busy, Replacing, Filling
<1>5. CASE Faulty(p)
  <2>1. faults' # 0
    BY <1>5 DEF Faulty, TInv, Types
  <2> QED BY <1>0, <1>4, <1>5, <2>1, Failed
<1>6. CASE /\ NoFault
           /\ \/ vbin' = Torn /\ worker'[p].pc = "saveend"
              \/ vbin' = mem[p] /\ worker'[p].pc = "recv"
  <2>1. Shape(p)'
    BY <1>4, <1>6 DEF NoFault, OneInv, Shape
  <2>2. clean[p] => Flights(p)'
    BY <1>1, <1>3 DEF OneInv, Flights, Replaceable
  <2>3. faults = 0 => Fresh(p)'
    BY <1>1, <1>6 DEF OneInv, Fresh
  <2>4. clean[p] /\ main[p].embeds => Indexed(p)'
    BY <1>1, <1>3, <1>6 DEF OneInv, Indexed, Whole, Held, InHand, Quiet
  <2> QED BY <1>1, <1>6, <2>1, <2>2, <2>3, <2>4 DEF OneInv, NoFault
<1> QED BY <1>2, <1>5, <1>6

LEMMA NextOne ==
  ASSUME TInv, NEW p, Runner = {p}, OneInv(p), [FileNext]_vars
  PROVE  OneInv(p)'
<1>0. p \in Runner /\ \A r \in Runner : r = p
  OBVIOUS
<1>1. ASSUME IndexDirectory(p) \/ IndexFile(p) PROVE OneInv(p)'
  <2>1. Crawled \in SUBSET File /\ TRUE \in BOOLEAN /\ FALSE \in BOOLEAN
    BY DEF Crawled
  <2> QED BY <1>0, <1>1, <2>1, StartOne DEF IndexDirectory, IndexFile
<1>2. ASSUME Main(p) PROVE OneInv(p)'
  BY <1>0, <1>2, ReadOne, LookUpOne, DropChunksOne, DropRowOne, DropVecOne, MainSavesOne,
     InsertOne, FtsOne, ChunkOne, EndOne, SendOne, JoinOne DEF Main
<1>3. ASSUME Worker(p) PROVE OneInv(p)'
  BY <1>0, <1>3, ReceiveOne, EmbedOne, WorkerSavesOne DEF Worker
<1>4. CASE UNCHANGED vars
  BY <1>4 DEF vars, OneInv, Shape, FtsHasFile, RowsOf, Flights, InFlight, Replaceable, Fresh,
              Indexed, Whole, Held, InHand, Quiet
<1>5. CASE FileNext
  BY <1>0, <1>1, <1>2, <1>3, <1>5, EditOne, CrashOne DEF FileNext, Next, Environment
<1> QED BY <1>4, <1>5

LEMMA AlwaysOne ==
  ASSUME NEW p, Runner = {p}
  PROVE  FileSpec => [](TInv /\ OneInv(p))
<1>1. Init => OneInv(p)
  BY InitOne
<1>2. TInv /\ OneInv(p) /\ [FileNext]_vars => OneInv(p)'
  BY NextOne
<1> QED BY <1>1, <1>2, InitTInv, NextTInv, PTL DEF FileSpec

(* Words are found only in files that exist, in an index that one process  *)
(* at a time fills, whatever fails and whenever it dies: the delete of a   *)
(* row takes its text with it, and the text of a file is inserted after    *)
(* its row (pipeline.rs:233-282, sqlite.rs:137-145, 235-246).              *)
THEOREM OneFtsHasFile ==
  ASSUME NEW p, Runner = {p}
  PROVE  FileSpec => []FtsHasFile
<1>1. OneInv(p) => FtsHasFile
  BY DEF OneInv, Shape
<1> QED BY <1>1, AlwaysOne, PTL

(* As long as nothing fails, one process at a time leaves no vector of a   *)
(* replaced file anywhere (pipeline.rs:233-240).                           *)
THEOREM OneNoOrphanVectors ==
  ASSUME NEW p, Runner = {p}
  PROVE  FileSpec => []NoOrphanVectors
<1>1. ASSUME OneInv(p) PROVE NoOrphanVectors
  BY <1>1 DEF OneInv, Shape, Flights, Fresh, NoOrphanVectors
<1> QED BY <1>1, AlwaysOne, PTL

\* A run leaves "join" by its end or its death.
LEMMA LeavesJoin ==
  ASSUME NEW p, Runner = {p}, [FileNext]_vars, At(p, "join"), ~At(p, "join")'
  PROVE  Join(p) \/ Crash(p)
<1>1. ASSUME UNCHANGED main PROVE FALSE
  BY <1>1 DEF At
<1>2. CASE Main(p)
  BY <1>2 DEF Main, ReadFile, Take, LookUp, DropChunks, DropRow, DropVec, MainSaves, InsertRow,
              InsertFts, NextChunk, EndFile, Send, EndFiles, CloseChannel, At
<1>3. ~Worker(p) /\ ~Edit /\ ~UNCHANGED vars
  BY <1>1 DEF Worker, Receive, Embed, WorkerSaves, Edit, vars
<1>4. ~IndexDirectory(p) /\ ~IndexFile(p)
  BY DEF IndexDirectory, IndexFile, Start, At
<1> QED BY <1>2, <1>3, <1>4 DEF FileNext, Next, Environment

\* At the end of a run everything is in the file.
LEMMA EndsSearchable ==
  ASSUME TInv, NEW p \in Runner, OneInv(p), Join(p), clean[p], main[p].embeds,
         \A f \in File : ChunksOf[f] > 0, Torn \notin SUBSET (Nat \X Nat),
         NEW i \in done[p]
  PROVE  Searchable(i)
<1>1. main[p].pc = "join" /\ worker[p].pc = "gone" /\ main[p].batch = {} /\ Indexed(p)
  BY DEF Join, At, WorkerEnded, OneInv, Shape
<1>2. InFlight(p) = {}
  BY <1>1, NothingFlies DEF OneInv
<1>3. /\ i \in DOMAIN rows /\ i \in fts
      /\ \A k \in 1..ChunksOf[rows[i].path] : <<i, k>> \in chunks /\ <<i, k>> \in mem[p]
  BY <1>1, <1>2 DEF Indexed, Whole, Held
<1>4. ChunksOf[rows[i].path] \in Nat /\ ChunksOf[rows[i].path] > 0
  <2>1. rows[i].path \in File
    BY <1>3, Before DEF StoreTypeOK
  <2> QED BY <2>1, PipelineAssumption
<1>5. <<i, 1>> \in mem[p]
  BY <1>3, <1>4
<1>6. vbin = mem[p]
  <2>1. Quiet(p) /\ <<i, 1>>[1] \in done[p]
    BY <1>1 DEF Quiet
  <2> QED BY <1>1, <1>5, <2>1 DEF Indexed
<1>7. vbin # Torn
  <2>1. mem[p] \subseteq Items(nextFile) /\ nextFile \in Nat
    BY Before
  <2>2. Items(nextFile) \subseteq Nat \X Nat
    BY <2>1 DEF Items, Ids
  <2> QED BY <1>6, <2>1, <2>2
<1> QED BY <1>3, <1>6, <1>7 DEF Searchable

(* A run in which nothing failed leaves what it reports as indexed         *)
(* searchable by words and by meaning, on disk: whatever failed in runs    *)
(* before it, however the files change meanwhile, and for every size of    *)
(* batch and channel (pipeline.rs:63-165).                                 *)
THEOREM OneCleanRunIndexes ==
  ASSUME NEW p, Runner = {p},
         \A f \in File : ChunksOf[f] > 0, Torn \notin SUBSET (Nat \X Nat)
  PROVE  FileSpec => CleanRunIndexes
<1> DEFINE A == \A r \in Runner :
                  At(r, "join") /\ ~At(r, "join")' /\ clean'[r] /\ main[r].embeds
                    => \A id \in done[r] : Searchable(id)
<1>1. ASSUME TInv, OneInv(p), [FileNext]_vars PROVE [A]_vars
  <2> SUFFICES ASSUME At(p, "join"), ~At(p, "join")', clean'[p], main[p].embeds,
                      NEW i \in done[p]
               PROVE  Searchable(i)
    OBVIOUS
  <2>1. ~Crash(p)
    BY <1>1 DEF Crash, Faulty, TInv, Types
  <2>2. Join(p)
    BY <1>1, <2>1, LeavesJoin
  <2>3. clean[p]
    BY <2>2 DEF Join
  <2> QED BY <1>1, <2>2, <2>3, EndsSearchable
<1>2. FileSpec => [][A]_vars
  BY <1>1, AlwaysOne, PTL DEF FileSpec
<1> QED BY <1>2 DEF CleanRunIndexes
=============================================================================
