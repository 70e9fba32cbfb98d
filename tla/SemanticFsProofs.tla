--------------------------- MODULE SemanticFsProofs --------------------------
(***************************************************************************)
(* Proofs about SemanticFs, for any finite set of files, any results of    *)
(* the searches and any number of inodes.                                  *)
(***************************************************************************)
EXTENDS SemanticFs, FiniteSetTheorems, TLAPS

\* The inode of a file remembers a path under the source root.
FilesAreReal ==
  \A i \in DOMAIN inodes : ~inodes[i].isDir => inodes[i].real \in SourcePath

\* A callback in hand knows its directory, and all it has in hand was given by
\* the index since the request.
CallOK ==
  /\ call # Idle => call.dir \in DOMAIN inodes
  /\ call.at = "asked" => Given(found, call.sem) \subseteq gave
  /\ call.at = "searched" => call.hits \subseteq gave
  /\ call.at = "picked" => call.file \in gave /\ Base[call.file] = call.name
  /\ call.op = "rename" => call.dest \in SourcePath

Table == OneInodePerName /\ InodeNamesItsFile /\ FilesAreReal
Inv == TypeOK /\ Table /\ CallOK

\* What is left of the type invariant without the callback in hand.
Typed ==
  /\ readOnly \in BOOLEAN
  /\ nextInode \in 2..(MaxInode + 1)
  /\ DOMAIN inodes = 1..(nextInode - 1)
  /\ inodes \in [DOMAIN inodes -> InodeEntry]
  /\ disk \in [SourcePath -> 0..MaxVersion]
  /\ found \in Finds
  /\ known \subseteq DOMAIN inodes
  /\ reply \in Reply
  /\ changes \in 0..MaxChanges

CallTyped == call \in Call /\ gave \subseteq SourcePath

LEMMA TypesSplit ==
  /\ TypeOK <=> Typed /\ CallTyped
  /\ Typed' /\ CallTyped' => TypeOK'
BY DEF TypeOK, Typed, CallTyped

-----------------------------------------------------------------------------
\* Entries that one callback may ask inodes for.
Entries(E) ==
  /\ E \subseteq InodeEntry /\ IsFiniteSet(E)
  /\ \A d, e \in E : d.sem = e.sem /\ d.name = e.name => d = e
  /\ \A e \in E : ~e.isDir => e.real \in SourcePath /\ Base[e.real] = e.name

LEMMA GivenFacts ==
  ASSUME Finds \subseteq [SemPath -> SUBSET SourcePath],
         NEW finds \in Finds, NEW sem \in SemPath \cup {<< >>}
  PROVE  Given(finds, sem) \subseteq SourcePath
BY DEF Given

LEMMA ResultFacts ==
  ASSUME TypeOK
  PROVE  Results \subseteq SourcePath /\ IsFiniteSet(Results) /\ Results \subseteq call.hits
<1>1. call.hits \subseteq SourcePath
  BY DEF TypeOK, Call
<1> QED BY <1>1, FS_Subset, FsAssumption DEF Results

\* The fields of the callback in hand.
LEMMA CallFields ==
  ASSUME TypeOK
  PROVE  /\ call.dir \in 0..MaxInode /\ call.sem \in SemPath \cup {<< >>}
         /\ call.name \in Word \cup {<< >>} /\ call.hits \subseteq SourcePath
         /\ call.dest \in SourcePath \cup {NoPath} /\ call.file \in SourcePath \cup {NoPath}
BY DEF TypeOK, Call

LEMMA IdleFacts == Idle \in Call /\ Idle.at = "idle" /\ Idle.op = "none"
<1>1. Idle.at = "idle" /\ Idle.op = "none"
  BY DEF Idle
<1>2. 0 \in 0..MaxInode
  BY FsAssumption
<1>3. Idle \in Call
  BY <1>2 DEF Idle, Call
<1> QED BY <1>1, <1>3

LEMMA FinishFacts == Finish => CallTyped' /\ CallOK'
BY IdleFacts DEF Finish, CallTyped, CallOK

LEMMA DeeperPath ==
  ASSUME NEW up \in SemPath \cup {<< >>}, NEW name \in Word, Len(Append(up, name)) <= MaxDepth
  PROVE  Append(up, name) \in SemPath
<1>1. PICK n \in Nat : up \in [1..n -> Word]
  <2>1. CASE up = << >>
    <3>1. up \in [1..0 -> Word]
      BY <2>1
    <3> QED BY <3>1
  <2>2. CASE up \in SemPath
    BY <2>2, FsAssumption DEF SemPath
  <2> QED BY <2>1, <2>2
<1>2. up \in Seq(Word) /\ Len(up) = n
  BY <1>1
<1>3. Append(up, name) \in [1..n + 1 -> Word] /\ Len(Append(up, name)) = n + 1
  <2>1. Append(up, name) \in Seq(Word) /\ Len(Append(up, name)) = n + 1
    BY <1>2
  <2>2. \A s \in Seq(Word) : s \in [1..Len(s) -> Word]
    OBVIOUS
  <2> QED BY <2>1, <2>2
<1>4. n + 1 \in 1..MaxDepth
  BY <1>3, FsAssumption
<1>5. [1..n + 1 -> Word] \in {[1..k -> Word] : k \in 1..MaxDepth}
  BY <1>4
<1> QED BY <1>3, <1>5 DEF SemPath

\* get_or_create_inode only adds to the table, and every entry it was asked
\* for is in it afterwards.
LEMMA TableGrows ==
  ASSUME Inv, NEW E, Entries(E), GetOrCreate(E)
  PROVE  /\ nextInode' \in 2..(MaxInode + 1)
         /\ DOMAIN inodes' = 1..(nextInode' - 1) /\ inodes' \in [DOMAIN inodes' -> InodeEntry]
         /\ DOMAIN inodes \subseteq DOMAIN inodes'
         /\ \A i \in DOMAIN inodes : inodes'[i] = inodes[i]
         /\ Table'
         /\ \A e \in E : InodeOf(inodes', e.sem, e.name) \in 1..MaxInode \cap DOMAIN inodes'
<1> DEFINE new == {e \in E : IsNew(inodes, e)}
           last == nextInode + Cardinality(new) - 1
<1>1. /\ last <= MaxInode /\ nextInode' = last + 1
      /\ \E at \in Bijection(nextInode..last, new) :
           inodes' = [i \in 1..last |-> IF i < nextInode THEN inodes[i] ELSE at[i]]
  BY DEF GetOrCreate
<1>2. PICK at : /\ at \in Bijection(nextInode..last, new)
                /\ inodes' = [i \in 1..last |-> IF i < nextInode THEN inodes[i] ELSE at[i]]
  BY <1>1
<1>3. Cardinality(new) \in Nat
  <2>1. IsFiniteSet(new)
    BY FS_Subset DEF Entries
  <2> QED BY <2>1, FS_CardinalityType
<1>4. new \subseteq E /\ \A e \in new : Inode(inodes, e.sem, e.name) = {}
  BY DEF IsNew
<1>5. /\ at \in [nextInode..last -> new]
      /\ \A i, j \in nextInode..last : at[i] = at[j] => i = j
      /\ \A e \in new : \E i \in nextInode..last : at[i] = e
  BY <1>2 DEF Bijection, Injection, Surjection, IsInjective
<1>6. nextInode \in 2..(MaxInode + 1) /\ DOMAIN inodes = 1..(nextInode - 1)
      /\ inodes \in [DOMAIN inodes -> InodeEntry]
  BY DEF Inv, TypeOK
<1>7. \A e \in E : ~IsNew(inodes, e) => \E i \in DOMAIN inodes :
                     inodes[i].sem = e.sem /\ inodes[i].name = e.name
  BY DEF IsNew, Inode
<1> HIDE DEF new, last
<1>8. last \in Nat /\ last + 1 >= nextInode /\ last <= MaxInode /\ nextInode' = last + 1
      /\ nextInode \in Nat /\ nextInode >= 2
  <2>1. last = nextInode + Cardinality(new) - 1
    BY DEF last
  <2> QED BY <1>1, <1>3, <1>6, <2>1, FsAssumption DEF last
<1>9. /\ nextInode' \in 2..(MaxInode + 1) /\ DOMAIN inodes' = 1..(nextInode' - 1)
      /\ DOMAIN inodes' = 1..last
  BY <1>2, <1>8, FsAssumption
<1>10. \A i \in 1..last : \/ i \in DOMAIN inodes /\ inodes'[i] = inodes[i]
                          \/ i \in nextInode..last /\ inodes'[i] = at[i] /\ at[i] \in new
  BY <1>2, <1>5, <1>6, <1>8
<1>11. \A i \in DOMAIN inodes : i \in 1..last /\ inodes'[i] = inodes[i]
  BY <1>2, <1>6, <1>8
<1>12. \A i \in nextInode..last : i \in 1..last /\ inodes'[i] = at[i]
  BY <1>2, <1>8
<1>13. inodes' \in [DOMAIN inodes' -> InodeEntry]
  <2>1. \A i \in 1..last : inodes'[i] \in InodeEntry
    BY <1>4, <1>6, <1>10 DEF Entries
  <2> QED BY <2>1, <1>2, <1>9
<1>14. FilesAreReal' /\ InodeNamesItsFile'
  BY <1>4, <1>9, <1>10 DEF Inv, Table, FilesAreReal, InodeNamesItsFile, Entries
<1>15. OneInodePerName'
  <2> SUFFICES ASSUME NEW i \in 1..last, NEW j \in 1..last,
                      inodes'[i].sem = inodes'[j].sem, inodes'[i].name = inodes'[j].name
               PROVE  i = j
    BY <1>9 DEF OneInodePerName
  <2>1. CASE i \in DOMAIN inodes /\ j \in DOMAIN inodes
    BY <2>1, <1>11 DEF Inv, Table, OneInodePerName
  <2>2. ASSUME NEW k \in DOMAIN inodes, NEW e \in new,
               inodes[k].sem = e.sem, inodes[k].name = e.name
        PROVE  FALSE
    BY <2>2, <1>4 DEF Inode
  <2>3. CASE i \in nextInode..last /\ j \in nextInode..last
    <3>1. at[i] \in new /\ at[j] \in new /\ inodes'[i] = at[i] /\ inodes'[j] = at[j]
      BY <2>3, <1>5, <1>12
    <3>2. at[i] = at[j]
      BY <3>1, <1>4 DEF Entries
    <3> QED BY <2>3, <3>2, <1>5
  <2> QED BY <2>1, <2>2, <2>3, <1>10, <1>11
<1>16. \A e \in E : InodeOf(inodes', e.sem, e.name) \in 1..MaxInode \cap DOMAIN inodes'
  <2> SUFFICES ASSUME NEW e \in E
               PROVE  InodeOf(inodes', e.sem, e.name) \in 1..MaxInode \cap DOMAIN inodes'
    OBVIOUS
  <2>1. \E i \in DOMAIN inodes' : inodes'[i].sem = e.sem /\ inodes'[i].name = e.name
    <3>1. CASE IsNew(inodes, e)
      <4>1. e \in new
        BY <3>1 DEF new
      <4> QED BY <4>1, <1>5, <1>9, <1>12
    <3>2. CASE ~IsNew(inodes, e)
      BY <3>2, <1>7, <1>9, <1>11
    <3> QED BY <3>1, <3>2
  <2>2. Inode(inodes', e.sem, e.name) # {}
    BY <2>1 DEF Inode
  <2>3. InodeOf(inodes', e.sem, e.name) \in Inode(inodes', e.sem, e.name)
    BY <2>2 DEF InodeOf
  <2>4. InodeOf(inodes', e.sem, e.name) \in DOMAIN inodes'
    BY <2>3 DEF Inode
  <2>5. 1..last \subseteq 1..MaxInode
    BY <1>8, FsAssumption
  <2> QED BY <2>4, <2>5, <1>9
<1> QED BY <1>9, <1>11, <1>13, <1>14, <1>15, <1>16 DEF Table

-----------------------------------------------------------------------------
LEMMA InitInv == Init => Inv
<1> SUFFICES ASSUME Init PROVE Inv
  OBVIOUS
<1>1. TypeOK
  <2>1. RootEntry \in InodeEntry
    BY DEF RootEntry, InodeEntry
  <2>2. inodes \in [{1} -> InodeEntry] /\ DOMAIN inodes = 1..(nextInode - 1)
    BY <2>1 DEF Init, RootDir
  <2>3. disk \in [SourcePath -> 0..MaxVersion]
    BY FsAssumption DEF Init
  <2>4. reply \in Reply
    BY FsAssumption DEF Init, Nothing, Reply
  <2>5. Typed
    BY <2>2, <2>3, <2>4, FsAssumption DEF Init, Typed, RootDir
  <2>6. CallTyped
    BY IdleFacts DEF Init, CallTyped
  <2> QED BY <2>5, <2>6, TypesSplit
<1>2. Table
  BY DEF Init, Table, OneInodePerName, InodeNamesItsFile, FilesAreReal, RootEntry, RootDir
<1>3. CallOK
  BY IdleFacts DEF Init, CallOK
<1> QED BY <1>1, <1>2, <1>3 DEF Inv

\* A step that leaves the table alone.
LEMMA TableStays ==
  ASSUME Inv, UNCHANGED <<inodes, nextInode>>
  PROVE  Table'
BY DEF Inv, Table, OneInodePerName, InodeNamesItsFile, FilesAreReal

LEMMA CallStays ==
  ASSUME CallOK, UNCHANGED <<call, gave, found>>, DOMAIN inodes \subseteq DOMAIN inodes'
  PROVE  CallOK'
BY DEF CallOK, Given

LEMMA DirectoryPath ==
  ASSUME TypeOK, NEW i \in DOMAIN inodes
  PROVE  inodes[i] \in InodeEntry /\ inodes[i].sem \in SemPath \cup {<< >>} /\ i \in 1..MaxInode
<1>1. inodes[i] \in InodeEntry
  BY DEF TypeOK
<1>2. i \in 1..MaxInode
  BY FsAssumption DEF TypeOK
<1> QED BY <1>1, <1>2 DEF InodeEntry

LEMMA ReplyWith ==
  ASSUME NEW r \in Reply
  PROVE  /\ \A op \in {"none", "error", "ok", "entry", "listing", "data"} :
              [r EXCEPT !.op = op] \in Reply
         /\ \A i \in 0..MaxInode : [r EXCEPT !.dir = i] \in Reply /\ [r EXCEPT !.ino = i] \in Reply
         /\ \A x \in SUBSET (SourcePath \X (1..MaxInode)) : [r EXCEPT !.items = x] \in Reply
         /\ \A v \in 0..MaxVersion : [r EXCEPT !.data = v] \in Reply
         /\ [r EXCEPT !.logged = TRUE] \in Reply
<1>1. \A op \in {"none", "error", "ok", "entry", "listing", "data"} : [r EXCEPT !.op = op] \in Reply
  BY DEF Reply
<1>2. \A i \in 0..MaxInode : [r EXCEPT !.dir = i] \in Reply
  BY DEF Reply
<1>3. \A i \in 0..MaxInode : [r EXCEPT !.ino = i] \in Reply
  BY DEF Reply
<1>4. \A x \in SUBSET (SourcePath \X (1..MaxInode)) : [r EXCEPT !.items = x] \in Reply
  BY DEF Reply
<1>5. \A v \in 0..MaxVersion : [r EXCEPT !.data = v] \in Reply
  BY DEF Reply
<1>6. [r EXCEPT !.logged = TRUE] \in Reply
  BY DEF Reply
<1> QED BY <1>1, <1>2, <1>3, <1>4, <1>5, <1>6

LEMMA Replies ==
  /\ Nothing \in Reply
  /\ \A op \in {"none", "error", "ok"} :
       Say(op) \in Reply /\ [Say(op) EXCEPT !.logged = TRUE] \in Reply
  /\ \A d, i \in 0..MaxInode : [Say("entry") EXCEPT !.dir = d, !.ino = i] \in Reply
  /\ \A i \in 0..MaxInode, v \in 0..MaxVersion :
       [Say("data") EXCEPT !.ino = i, !.data = v] \in Reply
  /\ \A d \in 0..MaxInode, x \in SUBSET (SourcePath \X (1..MaxInode)) :
       [Say("listing") EXCEPT !.dir = d, !.items = x] \in Reply
<1>1. Nothing \in Reply
  BY FsAssumption DEF Nothing, Reply
<1>2. \A op \in {"none", "error", "ok", "entry", "listing", "data"} : Say(op) \in Reply
  BY <1>1, ReplyWith DEF Say
<1>3. \A op \in {"none", "error", "ok"} : [Say(op) EXCEPT !.logged = TRUE] \in Reply
  BY <1>2, ReplyWith
<1>4. \A d, i \in 0..MaxInode : [Say("entry") EXCEPT !.dir = d, !.ino = i] \in Reply
  BY <1>2, ReplyWith
<1>5. \A i \in 0..MaxInode, v \in 0..MaxVersion :
        [Say("data") EXCEPT !.ino = i, !.data = v] \in Reply
  BY <1>2, ReplyWith
<1>6. \A d \in 0..MaxInode, x \in SUBSET (SourcePath \X (1..MaxInode)) :
        [Say("listing") EXCEPT !.dir = d, !.items = x] \in Reply
  BY <1>2, ReplyWith
<1> QED BY <1>1, <1>2, <1>3, <1>4, <1>5, <1>6

-----------------------------------------------------------------------------
\* The steps that only carry a callback on.
LEMMA RequestInv ==
  ASSUME Inv, NEW op \in {"lookup", "readdir", "rename", "unlink"}, NEW dir \in DOMAIN inodes,
         NEW sem \in SemPath \cup {<< >>}, NEW name \in Word \cup {<< >>},
         NEW dest \in SourcePath \cup {NoPath}, op = "rename" => dest \in SourcePath,
         Request(op, dir, sem, name, dest)
  PROVE  Inv'
<1> DEFINE c == [op |-> op, at |-> "asked", dir |-> dir, sem |-> sem, name |-> name,
                 dest |-> dest, hits |-> {}, file |-> NoPath]
<1>1. call' = c /\ gave' = Given(found, sem) /\ reply' = Nothing
      /\ UNCHANGED <<readOnly, inodes, nextInode, disk, found, known, changes>>
  BY DEF Request
<1>2. dir \in 0..MaxInode
  BY FsAssumption DEF Inv, TypeOK
<1>4. c \in Call /\ c.at = "asked" /\ c.op = op /\ c.dir = dir /\ c.sem = sem /\ c.dest = dest
  BY <1>2 DEF Call
<1> HIDE DEF c
<1>5. Given(found, sem) \subseteq SourcePath
  BY GivenFacts, FsAssumption DEF Inv, TypeOK
<1>6. CallTyped' /\ CallOK'
  BY <1>1, <1>4, <1>5 DEF CallTyped, CallOK, Given
<1>7. Typed'
  BY <1>1, Replies DEF Typed, Inv, TypeOK
<1> QED BY <1>1, <1>6, <1>7, TableStays, TypesSplit DEF Inv

LEMMA RequestsInv == Inv /\ Requests => Inv'
<1> SUFFICES ASSUME Inv, Requests PROVE Inv'
  OBVIOUS
<1>1. \A d \in Directories : d \in DOMAIN inodes /\ inodes[d].sem \in SemPath \cup {<< >>}
  BY DirectoryPath DEF Directories, Inv, TypeOK
<1>2. CASE LookupRequest
  <2>1. PICK parent \in Directories, name \in Word :
          /\ Len(Append(inodes[parent].sem, name)) <= MaxDepth
          /\ Request("lookup", parent, Append(inodes[parent].sem, name), name, NoPath)
    BY <1>2 DEF LookupRequest
  <2>2. Append(inodes[parent].sem, name) \in SemPath
    BY <1>1, <2>1, DeeperPath
  <2> QED BY <1>1, <2>1, <2>2, RequestInv
<1>3. CASE ReadDirRequest
  BY <1>1, <1>3, RequestInv DEF ReadDirRequest
<1>4. CASE RenameRequest
  BY <1>1, <1>4, RequestInv, FsAssumption DEF RenameRequest
<1>5. CASE UnlinkRequest
  BY <1>1, <1>5, RequestInv DEF UnlinkRequest
<1>6. CASE Refused
  <2>1. Typed'
    BY <1>6, Replies DEF Refused, Typed, Inv, TypeOK
  <2>2. CallTyped'
    BY <1>6 DEF Refused, CallTyped, Inv, TypeOK
  <2>3. CallOK' /\ Table'
    BY <1>6, CallStays, TableStays DEF Refused, Inv
  <2> QED BY <2>1, <2>2, <2>3, TypesSplit DEF Inv
<1> QED BY <1>2, <1>3, <1>4, <1>5, <1>6 DEF Requests

LEMMA SearchIndexInv == Inv /\ SearchIndex => Inv'
<1> SUFFICES ASSUME Inv, SearchIndex PROVE Inv'
  OBVIOUS
<1>1. /\ call.at = "asked" /\ call' = [call EXCEPT !.at = "searched", !.hits = Given(found, call.sem)]
      /\ UNCHANGED <<readOnly, inodes, nextInode, disk, found, known, reply, gave, changes>>
  BY DEF SearchIndex
<1>2. call \in Call /\ call # Idle
  BY <1>1, IdleFacts DEF Inv, TypeOK
<1>3. Given(found, call.sem) \subseteq SourcePath
  BY CallFields, GivenFacts, FsAssumption DEF Inv, TypeOK
<1>4. /\ call' \in Call /\ call'.at = "searched" /\ call'.hits = Given(found, call.sem)
      /\ call'.op = call.op /\ call'.dir = call.dir /\ call'.dest = call.dest
  BY <1>1, <1>2, <1>3 DEF Call
<1>5. CallTyped' /\ CallOK'
  BY <1>1, <1>2, <1>4 DEF CallTyped, CallOK, Inv, TypeOK
<1>6. Typed'
  BY <1>1 DEF Typed, Inv, TypeOK
<1> QED BY <1>1, <1>5, <1>6, TableStays, TypesSplit DEF Inv

-----------------------------------------------------------------------------
\* Lookup and ReadDir, which extend the table.
LEMMA LookupEntryInv ==
  ASSUME Inv, NEW e \in InodeEntry, LookupEntry(e),
         ~e.isDir => e.real \in SourcePath /\ Base[e.real] = e.name,
         UNCHANGED <<readOnly, disk, found, changes>>
  PROVE  Inv'
<1>1. Entries({e}) /\ GetOrCreate({e})
  BY FS_Singleton DEF Entries, LookupEntry
<1>2. /\ nextInode' \in 2..(MaxInode + 1)
      /\ DOMAIN inodes' = 1..(nextInode' - 1) /\ inodes' \in [DOMAIN inodes' -> InodeEntry]
      /\ DOMAIN inodes \subseteq DOMAIN inodes' /\ Table'
      /\ InodeOf(inodes', e.sem, e.name) \in 1..MaxInode \cap DOMAIN inodes'
  BY <1>1, TableGrows
<1>3. known' \subseteq DOMAIN inodes'
  BY <1>2 DEF LookupEntry, Inv, TypeOK
<1>4. reply' \in Reply
  <2>1. call.dir \in 0..MaxInode /\ InodeOf(inodes', e.sem, e.name) \in 0..MaxInode
    BY <1>2, CallFields, FsAssumption DEF Inv
  <2> QED BY <2>1, Replies DEF LookupEntry
<1>5. CallTyped' /\ CallOK'
  BY FinishFacts DEF LookupEntry
<1>6. Typed'
  BY <1>2, <1>3, <1>4 DEF Typed, Inv, TypeOK
<1> QED BY <1>2, <1>5, <1>6, TypesSplit DEF Inv

LEMMA SearchParentInv ==
  ASSUME Inv, call.at = "searched", SearchParent(inodes[call.dir].sem),
         call.op = "lookup", UNCHANGED <<readOnly, disk, found, changes>>
  PROVE  Inv'
<1> DEFINE up == inodes[call.dir].sem
<1>1. /\ call' = [call EXCEPT !.at = "asked", !.sem = up, !.hits = {}]
      /\ gave' = Given(found, up) /\ UNCHANGED <<inodes, nextInode, known, reply>>
  BY DEF SearchParent
<1>2. call \in Call /\ call # Idle
  BY IdleFacts DEF Inv, TypeOK
<1>3. call.dir \in DOMAIN inodes /\ up \in SemPath \cup {<< >>}
  BY <1>2, DirectoryPath DEF Inv, CallOK
<1>4. Given(found, up) \subseteq SourcePath
  BY <1>3, GivenFacts, FsAssumption DEF Inv, TypeOK
<1> HIDE DEF up
<1>5. /\ call' \in Call /\ call'.at = "asked" /\ call'.sem = up
      /\ call'.op = "lookup" /\ call'.dir = call.dir
  BY <1>1, <1>2, <1>3 DEF Call
<1>6. CallTyped' /\ CallOK'
  BY <1>1, <1>3, <1>4, <1>5 DEF CallTyped, CallOK, Given
<1>7. Typed'
  BY <1>1 DEF Typed, Inv, TypeOK
<1> QED BY <1>1, <1>6, <1>7, TableStays, TypesSplit DEF Inv

LEMMA LookupInv == Inv /\ Lookup => Inv'
<1> SUFFICES ASSUME Inv, Lookup PROVE Inv'
  OBVIOUS
<1> DEFINE up == inodes[call.dir].sem
<1>1. /\ Searched("lookup") /\ UNCHANGED <<readOnly, disk, found, changes>>
      /\ \/ LookupEntry(DirEntry(call.sem, call.name))
         \/ SearchParent(up)
         \/ call.sem = up /\ \E p \in FileHits : LookupEntry(FileEntry(up, call.name, p))
         \/ LookupMiss
  BY DEF Lookup
<1>2. call.sem \in SemPath \cup {<< >>} /\ call.name \in Word \cup {<< >>} /\ TypeOK
  BY CallFields DEF Inv
<1>3. CASE LookupEntry(DirEntry(call.sem, call.name))
  <2>1. /\ DirEntry(call.sem, call.name) \in InodeEntry
        /\ DirEntry(call.sem, call.name).isDir
    BY <1>2 DEF DirEntry, InodeEntry
  <2> QED BY <2>1, <1>1, <1>3, LookupEntryInv
<1>4. CASE SearchParent(up)
  BY <1>1, <1>4, SearchParentInv DEF Searched
<1> HIDE DEF up
<1>5. ASSUME NEW p \in FileHits, LookupEntry(FileEntry(up, call.name, p)), call.sem = up
      PROVE  Inv'
  <2>1. p \in SourcePath /\ Base[p] = call.name
    BY <1>2, ResultFacts DEF FileHits, HitsNamed
  <2>2. /\ FileEntry(up, call.name, p) \in InodeEntry
        /\ FileEntry(up, call.name, p).real = p /\ FileEntry(up, call.name, p).name = call.name
    BY <1>2, <1>5, <2>1 DEF FileEntry, InodeEntry
  <2> QED BY <2>1, <2>2, <1>1, <1>5, LookupEntryInv
<1>6. CASE LookupMiss
  <2>1. reply' \in Reply /\ UNCHANGED <<inodes, nextInode, known>> /\ CallTyped' /\ CallOK'
    BY <1>6, Replies, FinishFacts DEF LookupMiss
  <2>2. Typed'
    BY <2>1, <1>1 DEF Typed, Inv, TypeOK
  <2> QED BY <2>1, <2>2, TableStays, TypesSplit DEF Inv
<1> QED BY <1>1, <1>3, <1>4, <1>5, <1>6

LEMMA ReadDirInv == Inv /\ ReadDir => Inv'
<1> SUFFICES ASSUME Inv, ReadDir PROVE Inv'
  OBVIOUS
<1> DEFINE sem == call.sem
           hits == Results
<1>1. sem \in SemPath \cup {<< >>} /\ call.dir \in 0..MaxInode
  BY CallFields DEF Inv
<1>2. hits \subseteq SourcePath /\ IsFiniteSet(hits)
  BY ResultFacts DEF Inv
<1>3. reply' = [Say("listing") EXCEPT !.dir = call.dir,
             !.items = {<<p, InodeOf(inodes', sem, Base[p])>> : p \in hits}]
  BY DEF ReadDir
<1>4. PICK first \in SUBSET hits :
        /\ \A p \in hits : \E q \in first : Base[q] = Base[p]
        /\ \A p, q \in first : Base[p] = Base[q] => p = q
        /\ GetOrCreate({FileEntry(sem, Base[p], p) : p \in first})
  BY DEF ReadDir
<1> HIDE DEF sem, hits
<1> DEFINE E == {FileEntry(sem, Base[p], p) : p \in first}
<1>5. \A p \in SourcePath : /\ FileEntry(sem, Base[p], p) \in InodeEntry
                            /\ FileEntry(sem, Base[p], p).sem = sem
                            /\ FileEntry(sem, Base[p], p).name = Base[p]
                            /\ FileEntry(sem, Base[p], p).real = p
  BY <1>1, FsAssumption DEF FileEntry, InodeEntry
<1>6. IsFiniteSet(E)
  <2> DEFINE f == [p \in first |-> FileEntry(sem, Base[p], p)]
  <2>1. f \in Surjection(first, E)
    BY DEF Surjection
  <2>2. IsFiniteSet(first)
    BY <1>2, FS_Subset
  <2> HIDE DEF f, E
  <2> QED BY <2>1, <2>2, FS_Surjection
<1>7. Entries(E)
  BY <1>2, <1>4, <1>5, <1>6 DEF Entries
<1>8. \A p \in first : FileEntry(sem, Base[p], p) \in E
  OBVIOUS
<1>9. GetOrCreate(E)
  BY <1>4
<1> HIDE DEF E
<1>10. /\ nextInode' \in 2..(MaxInode + 1)
       /\ DOMAIN inodes' = 1..(nextInode' - 1) /\ inodes' \in [DOMAIN inodes' -> InodeEntry]
       /\ DOMAIN inodes \subseteq DOMAIN inodes' /\ Table'
       /\ \A e \in E : InodeOf(inodes', e.sem, e.name) \in 1..MaxInode \cap DOMAIN inodes'
  BY <1>7, <1>9, TableGrows
<1>11. \A p \in hits : InodeOf(inodes', sem, Base[p]) \in 1..MaxInode
  <2> SUFFICES ASSUME NEW p \in hits PROVE InodeOf(inodes', sem, Base[p]) \in 1..MaxInode
    OBVIOUS
  <2>1. PICK q \in first : Base[q] = Base[p]
    BY <1>4
  <2>2. FileEntry(sem, Base[q], q) \in E
    BY <1>8
  <2>3. q \in SourcePath
    BY <1>2
  <2> QED BY <2>1, <2>2, <2>3, <1>5, <1>10
<1>12. reply' \in Reply
  <2> DEFINE items == {<<p, InodeOf(inodes', sem, Base[p])>> : p \in hits}
  <2>1. items \in SUBSET (SourcePath \X (1..MaxInode))
    BY <1>2, <1>11
  <2>2. reply' = [Say("listing") EXCEPT !.dir = call.dir, !.items = items]
    BY <1>3
  <2> HIDE DEF items
  <2> QED BY <2>1, <2>2, <1>1, Replies
<1>13. UNCHANGED <<readOnly, disk, found, known, changes>> /\ CallTyped' /\ CallOK'
  BY FinishFacts DEF ReadDir
<1>14. Typed'
  BY <1>10, <1>12, <1>13 DEF Typed, Inv, TypeOK
<1> QED BY <1>10, <1>13, <1>14, TypesSplit DEF Inv

-----------------------------------------------------------------------------
\* The callbacks that only look at the table.
LEMMA FileInode ==
  ASSUME Inv, NEW ino \in known \ Directories
  PROVE  inodes[ino].real \in SourcePath /\ ino \in 1..MaxInode
<1>1. ino \in DOMAIN inodes /\ ~inodes[ino].isDir
  BY DEF Inv, TypeOK, Directories
<1> QED BY <1>1, DirectoryPath DEF Inv, Table, FilesAreReal

LEMMA ReadInv == Inv /\ Read => Inv'
<1> SUFFICES ASSUME Inv, Read PROVE Inv'
  OBVIOUS
<1>1. PICK ino \in known \ Directories :
        reply' = IF disk[inodes[ino].real] = 0 THEN Say("error")
                 ELSE [Say("data") EXCEPT !.ino = ino, !.data = disk[inodes[ino].real]]
  BY DEF Read
<1>2. disk[inodes[ino].real] \in 0..MaxVersion /\ ino \in 0..MaxInode
  BY FileInode DEF Inv, TypeOK
<1>3. reply' \in Reply
  BY <1>1, <1>2, Replies
<1>4. UNCHANGED <<readOnly, inodes, nextInode, disk, found, known, call, gave, changes>>
  BY DEF Read
<1>5. Typed' /\ CallTyped'
  BY <1>3, <1>4 DEF Typed, CallTyped, Inv, TypeOK
<1> QED BY <1>4, <1>5, TableStays, CallStays, TypesSplit DEF Inv

\* The end of a callback that changed the disk, and otherwise only its reply.
LEMMA DiskInv ==
  ASSUME Inv, UNCHANGED <<readOnly, inodes, nextInode, found, known, changes>>,
         disk' \in [SourcePath -> 0..MaxVersion], reply' \in Reply,
         Finish \/ UNCHANGED <<call, gave>>
  PROVE  Inv'
<1>1. Typed'
  BY DEF Typed, Inv, TypeOK
<1>2. CallTyped' /\ CallOK'
  <2>1. CASE Finish
    BY <2>1, FinishFacts
  <2>2. CASE UNCHANGED <<call, gave>>
    BY <2>2, CallStays DEF CallTyped, Inv, TypeOK
  <2> QED BY <2>1, <2>2
<1> QED BY <1>1, <1>2, TableStays, TypesSplit DEF Inv

LEMMA HandlerFacts ==
  ASSUME TypeOK, NEW after \in [SourcePath -> 0..MaxVersion], Handler(after)
  PROVE  disk' \in [SourcePath -> 0..MaxVersion] /\ reply' \in Reply /\ disk' \in {disk, after}
<1>1. reply' \in {[Say(op) EXCEPT !.logged = TRUE] : op \in {"ok", "error"}}
  BY DEF Handler
<1>2. reply' \in Reply
  BY <1>1, Replies
<1> QED BY <1>2 DEF Handler, TypeOK

LEMMA WriteFacts ==
  ASSUME Inv, Write
  PROVE  /\ Inv' /\ call = Idle
         /\ \E i \in known : \A p \in SourcePath :
              disk'[p] # disk[p] => p = inodes[i].real /\ disk'[p] # 0
<1>1. PICK ino \in known \ Directories, v \in 1..MaxVersion :
        WriteFromStart(inodes[ino].real, v) \/ WriteAtOffset(inodes[ino].real, v)
  BY DEF Write
<1> DEFINE p == inodes[ino].real
           after == [disk EXCEPT ![p] = v]
<1>2. p \in SourcePath /\ disk \in [SourcePath -> 0..MaxVersion]
  BY FileInode DEF Inv, TypeOK
<1> HIDE DEF p
<1>3. v \in 0..MaxVersion /\ v # 0
  OBVIOUS
<1>4. after \in [SourcePath -> 0..MaxVersion]
      /\ \A q \in SourcePath : after[q] # disk[q] => q = p /\ after[q] # 0
  BY <1>2, <1>3
<1> HIDE DEF after
<1>5. disk' \in {disk, after} /\ reply' \in Reply
  <2>1. CASE WriteFromStart(p, v)
    <3>1. Handler(after)
      BY <2>1 DEF WriteFromStart, after
    <3> QED BY <3>1, <1>4, HandlerFacts DEF Inv
  <2>2. CASE WriteAtOffset(p, v)
    BY <2>2, Replies DEF WriteAtOffset, after
  <2> QED BY <1>1, <2>1, <2>2 DEF p
<1>6. disk' \in [SourcePath -> 0..MaxVersion]
      /\ \A q \in SourcePath : disk'[q] # disk[q] => q = p /\ disk'[q] # 0
  BY <1>2, <1>4, <1>5
<1>7. Inv'
  BY <1>5, <1>6, DiskInv DEF Write
<1> QED BY <1>6, <1>7 DEF Write, p

-----------------------------------------------------------------------------
\* What a rename or a removal picks was given by the index since the request.
LEMMA PickFileInv == Inv /\ PickFile => Inv' /\ UNCHANGED disk
<1> SUFFICES ASSUME Inv, PickFile PROVE Inv'
  BY DEF PickFile
<1>1. UNCHANGED <<readOnly, inodes, nextInode, disk, found, known, changes>>
      /\ call.at = "searched"
  BY DEF PickFile, Searched
<1>2. ASSUME NEW p \in Named, call' = [call EXCEPT !.at = "picked", !.file = p],
             UNCHANGED <<reply, gave>>
      PROVE  Inv'
  <2>1. p \in SourcePath /\ Base[p] = call.name /\ p \in gave
    <3>1. p \in call.hits /\ p \in SourcePath /\ Base[p] = call.name
      BY ResultFacts DEF Named, HitsNamed, Inv
    <3> QED BY <3>1, <1>1 DEF Inv, CallOK
  <2>2. call \in Call /\ call # Idle
    BY <1>1, IdleFacts DEF Inv, TypeOK
  <2>3. /\ call' \in Call /\ call'.at = "picked" /\ call'.file = p /\ call'.name = call.name
        /\ call'.op = call.op /\ call'.dir = call.dir /\ call'.dest = call.dest
    BY <1>2, <2>1, <2>2 DEF Call
  <2>4. CallTyped' /\ CallOK'
    BY <1>1, <1>2, <2>1, <2>2, <2>3 DEF CallTyped, CallOK, Inv, TypeOK
  <2>5. Typed'
    BY <1>1, <1>2 DEF Typed, Inv, TypeOK
  <2> QED BY <1>1, <2>4, <2>5, TableStays, TypesSplit DEF Inv
<1>3. CASE reply' = Say("error") /\ Finish
  <2>1. disk' \in [SourcePath -> 0..MaxVersion] /\ reply' \in Reply
    BY <1>1, <1>3, Replies DEF Inv, TypeOK
  <2> QED BY <1>1, <1>3, <2>1, DiskInv
<1> QED BY <1>2, <1>3 DEF PickFile

\* What the two callbacks do with it.
Asked == {p \in gave : Base[p] = call.name}

LEMMA PickedFacts ==
  ASSUME Inv, call.at = "picked"
  PROVE  call.file \in SourcePath /\ call.file \in Asked
BY DEF Inv, TypeOK, CallOK, Asked

LEMMA GoneFacts ==
  ASSUME Inv, Gone(call.file)
  PROVE  UNCHANGED disk /\ reply' \in Reply
BY HandlerFacts DEF Gone, Inv, TypeOK

LEMMA UnlinkFacts ==
  ASSUME Inv, Unlink
  PROVE  /\ Inv' /\ call.op = "unlink"
         /\ \A p \in SourcePath : disk'[p] # disk[p] => p \in Asked /\ disk'[p] = 0
<1> DEFINE after == [disk EXCEPT ![call.file] = 0]
<1>1. /\ Picked("unlink") /\ Finish
      /\ UNCHANGED <<readOnly, inodes, nextInode, found, known, changes>>
      /\ Handler(after) \/ Gone(call.file)
  BY DEF Unlink
<1>2. call.file \in SourcePath /\ call.file \in Asked /\ disk \in [SourcePath -> 0..MaxVersion]
  BY <1>1, PickedFacts DEF Picked, Inv, TypeOK
<1>3. after \in [SourcePath -> 0..MaxVersion]
      /\ \A p \in SourcePath : after[p] # disk[p] => p = call.file /\ after[p] = 0
  <2>1. 0 \in 0..MaxVersion
    BY FsAssumption
  <2> QED BY <1>2, <2>1
<1> HIDE DEF after
<1>4. disk' \in {disk, after} /\ reply' \in Reply
  BY <1>1, <1>3, HandlerFacts, GoneFacts DEF Inv
<1>5. disk' \in [SourcePath -> 0..MaxVersion]
  BY <1>2, <1>3, <1>4
<1>6. \A p \in SourcePath : disk'[p] # disk[p] => p \in Asked /\ disk'[p] = 0
  BY <1>2, <1>3, <1>4
<1>7. Inv'
  BY <1>1, <1>4, <1>5, DiskInv
<1> QED BY <1>1, <1>6, <1>7 DEF Picked

LEMMA RenameFacts ==
  ASSUME Inv, Rename
  PROVE  /\ Inv' /\ call.op = "rename"
         /\ \A p \in SourcePath : disk'[p] # disk[p] =>
              \/ p \in Asked /\ disk'[p] = 0
              \/ p = call.dest /\ \E q \in Asked : disk'[p] = disk[q] /\ disk'[q] = 0
<1> DEFINE p == call.file
           q == call.dest
           after == Moved(p, q)
<1>1. /\ Picked("rename") /\ Finish
      /\ UNCHANGED <<readOnly, inodes, nextInode, found, known, changes>>
      /\ Handler(after) \/ Gone(p)
  BY DEF Rename
<1>2. /\ p \in SourcePath /\ p \in Asked /\ q \in SourcePath
      /\ disk \in [SourcePath -> 0..MaxVersion]
  BY <1>1, PickedFacts DEF Picked, Inv, TypeOK, CallOK
<1> HIDE DEF p, q
<1>3. 0 \in 0..MaxVersion
  BY FsAssumption
<1>4. after \in [SourcePath -> 0..MaxVersion]
  BY <1>2, <1>3 DEF Moved
<1>5. p # q => after[p] = 0 /\ after[q] = disk[p]
  BY <1>2 DEF Moved
<1>6. \A r \in SourcePath : after[r] # disk[r] => p # q /\ (r = p \/ r = q)
  BY <1>2 DEF Moved
<1> HIDE DEF after
<1>7. disk' \in {disk, after} /\ reply' \in Reply
  BY <1>1, <1>4, HandlerFacts, GoneFacts DEF Inv, p
<1>8. disk' \in [SourcePath -> 0..MaxVersion]
  BY <1>2, <1>4, <1>7
<1>9. ASSUME NEW r \in SourcePath, disk'[r] # disk[r]
      PROVE  \/ r \in Asked /\ disk'[r] = 0
             \/ r = q /\ \E f \in Asked : disk'[r] = disk[f] /\ disk'[f] = 0
  BY <1>2, <1>5, <1>6, <1>7, <1>9
<1>10. Inv'
  BY <1>1, <1>7, <1>8, DiskInv
<1> QED BY <1>1, <1>9, <1>10 DEF Picked, q

-----------------------------------------------------------------------------
\* The environment.
LEMMA ChangeFacts ==
  Change /\ TypeOK => changes' \in 0..MaxChanges /\ reply' \in Reply /\ changes' # changes
<1> SUFFICES ASSUME Change, TypeOK
             PROVE  changes' \in 0..MaxChanges /\ reply' \in Reply /\ changes' # changes
  OBVIOUS
<1>1. changes' \in 0..MaxChanges /\ changes' # changes
  BY FsAssumption DEF Change, TypeOK
<1>2. reply' \in Reply
  BY Replies DEF Change
<1> QED BY <1>1, <1>2

LEMMA ExternalInv == Inv /\ External => Inv'
<1> SUFFICES ASSUME Inv, External PROVE Inv'
  OBVIOUS
<1>1. disk' \in [SourcePath -> 0..MaxVersion]
  BY DEF External, Inv, TypeOK
<1>2. changes' \in 0..MaxChanges /\ reply' \in Reply
  BY ChangeFacts DEF External, Inv
<1>3. UNCHANGED <<readOnly, inodes, nextInode, found, known, call, gave>>
  BY DEF External
<1>4. Typed' /\ CallTyped'
  BY <1>1, <1>2, <1>3 DEF Typed, CallTyped, Inv, TypeOK
<1> QED BY <1>3, <1>4, TableStays, CallStays, TypesSplit DEF Inv

LEMMA ReindexInv == Inv /\ Reindex => Inv'
<1> SUFFICES ASSUME Inv, Reindex PROVE Inv'
  OBVIOUS
<1>1. changes' \in 0..MaxChanges /\ reply' \in Reply /\ found' \in Finds
  BY ChangeFacts DEF Reindex, Inv
<1>2. /\ UNCHANGED <<readOnly, inodes, nextInode, disk, known, call>>
      /\ gave' = IF call = Idle THEN {} ELSE gave \cup Given(found', call.sem)
  BY DEF Reindex
<1>3. Given(found', call.sem) \subseteq SourcePath
  BY <1>1, CallFields, GivenFacts, FsAssumption DEF Inv
<1>4. Typed' /\ CallTyped'
  BY <1>1, <1>2, <1>3 DEF Typed, CallTyped, Inv, TypeOK
<1>5. CallOK'
  <2>1. CASE call = Idle
    BY <1>2, <2>1, IdleFacts DEF CallOK
  <2>2. CASE call # Idle
    <3>1. gave \subseteq gave' /\ Given(found', call.sem) \subseteq gave'
      BY <1>2, <2>2
    <3>2. Given(found', call'.sem) = Given(found, call.sem)'
      BY DEF Given
    <3> QED BY <1>2, <3>1, <3>2 DEF CallOK, Inv
  <2> QED BY <2>1, <2>2
<1> QED BY <1>2, <1>4, <1>5, TableStays, TypesSplit DEF Inv

LEMMA MountInv == Inv /\ Mount => Inv'
<1> SUFFICES ASSUME Inv, Mount PROVE Inv'
  OBVIOUS
<1>1. changes' \in 0..MaxChanges /\ reply' \in Reply
  BY ChangeFacts DEF Mount, Inv
<1>2. RootEntry \in InodeEntry
  BY DEF RootEntry, InodeEntry
<1>3. /\ DOMAIN inodes' = 1..(nextInode' - 1) /\ inodes' \in [DOMAIN inodes' -> InodeEntry]
      /\ nextInode' \in 2..(MaxInode + 1) /\ known' \subseteq DOMAIN inodes'
  BY <1>2, FsAssumption DEF Mount, RootDir
<1>4. Table'
  BY DEF Mount, Table, OneInodePerName, InodeNamesItsFile, FilesAreReal, RootEntry, RootDir
<1>5. Typed'
  BY <1>1, <1>3 DEF Mount, Typed, Inv, TypeOK
<1>6. CallTyped' /\ CallOK'
  BY FinishFacts DEF Mount
<1> QED BY <1>4, <1>5, <1>6, TypesSplit DEF Inv

LEMMA NextInv == Inv /\ [Next]_vars => Inv'
<1> SUFFICES ASSUME Inv, [Next]_vars PROVE Inv'
  OBVIOUS
<1>1. CASE UNCHANGED vars
  <2>1. Typed' /\ CallTyped'
    BY <1>1 DEF vars, Typed, CallTyped, Inv, TypeOK
  <2>2. Table' /\ CallOK'
    BY <1>1, TableStays, CallStays DEF vars, Inv
  <2> QED BY <2>1, <2>2, TypesSplit DEF Inv
<1> QED BY <1>1, RequestsInv, SearchIndexInv, LookupInv, ReadDirInv, ReadInv, WriteFacts,
           PickFileInv, RenameFacts, UnlinkFacts, ExternalInv, ReindexInv, MountInv
        DEF Next, Callback, Environment

LEMMA Always == Spec => []Inv
BY InitInv, NextInv, PTL DEF Spec

-----------------------------------------------------------------------------
(* The type invariant, for any number of files, inodes and changes: what   *)
(* get_or_create_inode and the callbacks leave in the table is well formed *)
(* (filesystem.rs:83-112).                                                 *)
THEOREM FsTyped == Spec => []TypeOK
<1>1. Inv => TypeOK
  BY DEF Inv
<1> QED BY <1>1, Always, PTL

(* A name in a semantic directory has one inode for the life of a mount,   *)
(* whatever lookups and listings asked for it (filesystem.rs:93-112).      *)
THEOREM NamesHaveOneInode == Spec => []OneInodePerName
<1>1. Inv => OneInodePerName
  BY DEF Inv, Table
<1> QED BY <1>1, Always, PTL

(* The path remembered with an inode is one of that name, after any        *)
(* renames, removals and index runs (filesystem.rs:289, 321).              *)
THEOREM InodesNameTheirFiles == Spec => []InodeNamesItsFile
<1>1. Inv => InodeNamesItsFile
  BY DEF Inv, Table
<1> QED BY <1>1, Always, PTL

(* Callbacks change on disk only what they were asked to: a removal and a  *)
(* rename take a file of the name asked for that the index gave since the  *)
(* request, a rename overwrites only its destination, and a write its      *)
(* inode's file, for any files, index and number of changes in between     *)
(* (filesystem.rs:455-493, 502-538).                                       *)
THEOREM OnlyFoundIsTouched == Spec => TouchesOnlyWhatWasFound
<1> DEFINE A == changes' = changes =>
             LET asked == {p \in gave : Base[p] = call.name} IN
             \A p \in SourcePath : disk'[p] # disk[p] =>
               \/ call.op \in {"rename", "unlink"} /\ p \in asked /\ disk'[p] = 0
               \/ /\ call.op = "rename" /\ p = call.dest
                  /\ \E q \in asked : disk'[p] = disk[q] /\ disk'[q] = 0
               \/ /\ call = Idle /\ disk'[p] # 0
                  /\ \E i \in known : inodes[i].real = p
<1>1. UNCHANGED disk => A
  OBVIOUS
<1>2. ASSUME Inv, Next PROVE A
  <2>1. CASE Requests
    <3>1. UNCHANGED disk
      BY <2>1 DEF Requests, LookupRequest, ReadDirRequest, RenameRequest, UnlinkRequest,
                  Refused, Request
    <3> QED BY <1>1, <3>1
  <2>2. CASE SearchIndex \/ Lookup \/ ReadDir \/ Read \/ PickFile
    <3>1. UNCHANGED disk
      BY <2>2 DEF SearchIndex, Lookup, ReadDir, Read, PickFile
    <3> QED BY <1>1, <3>1
  <2>3. CASE Write
    BY <1>2, <2>3, WriteFacts
  <2>4. CASE Rename
    BY <1>2, <2>4, RenameFacts DEF Asked
  <2>5. CASE Unlink
    BY <1>2, <2>5, UnlinkFacts DEF Asked
  <2>6. CASE Environment
    <3>1. changes' # changes
      BY <1>2, <2>6, ChangeFacts DEF Environment, External, Reindex, Mount, Inv
    <3> QED BY <3>1
  <2> QED BY <1>2, <2>1, <2>2, <2>3, <2>4, <2>5, <2>6 DEF Next, Callback
<1>3. ASSUME Inv, UNCHANGED vars PROVE A
  BY <1>1, <1>3 DEF vars
<1>4. Inv /\ [Next]_vars => [A]_vars
  BY <1>2, <1>3
<1> QED BY <1>4, Always, PTL DEF Spec, TouchesOnlyWhatWasFound
=============================================================================
