----------------------------- MODULE SemanticFs -----------------------------
(***************************************************************************)
(* SemanticFilesystem (semfs-fuse/src/filesystem.rs) over VfsMapper        *)
(* (semfs-core/src/vfs/mapper.rs). The session loop serves one request at  *)
(* a time (every callback takes &mut self), but not alone: while a         *)
(* callback runs, other programs change files and an index run changes the *)
(* index. A callback that searches is a request, the search in the index,  *)
(* the look which of its results exist, and what it does with them; Read   *)
(* and Write, which go straight to a file, are one action.                 *)
(*                                                                         *)
(* A semantic path is the sequence of its components; what the search      *)
(* finds for one is a set of paths, listed in any order (equal scores are  *)
(* ordered by a hash map). A file's content is a number, 0 if it is not    *)
(* there. WriteHandler's operations are taken whole, done or failed.       *)
(***************************************************************************)
EXTENDS Integers, Sequences, FiniteSets, Functions

CONSTANTS SourcePath,   \* files that are or may be under the source root
          Word,         \* path components: queries and base names
          Base,         \* path -> its base name
          RootFile,     \* base name -> the path source_root/name
          Finds,        \* the results an index may give: semantic path -> paths
          MaxDepth,     \* bound: components of a semantic path
          MaxInode,     \* bound: inode numbers handed out
          MaxVersion,   \* bound: contents of a file
          MaxChanges    \* bound: changes made by others, and mounts

SemPath == UNION {[1..n -> Word] : n \in 1..MaxDepth}

ASSUME FsAssumption ==
  /\ IsFiniteSet(SourcePath) /\ Base \in [SourcePath -> Word]
  /\ RootFile \in [DOMAIN RootFile -> SourcePath] /\ DOMAIN RootFile \subseteq Word
  /\ \A w \in DOMAIN RootFile : Base[RootFile[w]] = w
  /\ Finds \subseteq [SemPath -> SUBSET SourcePath]
  /\ MaxDepth \in Nat /\ MaxInode \in Nat \ {0} /\ MaxVersion \in Nat \ {0} /\ MaxChanges \in Nat

VARIABLES
  readOnly,   \* the mount option
  inodes,     \* inode_map: inode -> InodeEntry
  nextInode,
  disk,       \* path -> content, 0 if absent
  found,      \* semantic path -> what the search returns
  known,      \* inodes the kernel has been told of by lookup
  reply,      \* the last reply
  call,       \* the callback in hand
  gave,       \* history: the files that the index gave for the directory of
              \* the callback in hand at some moment since the request
  changes     \* bounded counter of the environment's moves

vars == <<readOnly, inodes, nextInode, disk, found, known, reply, call, gave, changes>>

NoPath == << >>
RootDir == 1
InodeEntry == [sem : SemPath \cup {<< >>}, name : Word \cup {<< >>},
               real : SourcePath \cup {NoPath}, isDir : BOOLEAN]

\* dir is the directory that was listed or looked into; logged, that the
\* callback handed an operation to WriteHandler.
Reply == [op : {"none", "error", "ok", "entry", "listing", "data"},
          data : 0..MaxVersion, dir : 0..MaxInode, ino : 0..MaxInode,
          items : SUBSET (SourcePath \X (1..MaxInode)), logged : BOOLEAN]

Nothing == [op |-> "none", data |-> 0, dir |-> 0, ino |-> 0, items |-> {},
            logged |-> FALSE]
Say(op) == [Nothing EXCEPT !.op = op]

\* The local variables of a callback: the directory and its semantic path, the
\* names it was given, the results of the search, the file picked from them.
Call == [op : {"none", "lookup", "readdir", "rename", "unlink"},
         at : {"idle", "asked", "searched", "picked"}, dir : 0..MaxInode,
         sem : SemPath \cup {<< >>}, name : Word \cup {<< >>},
         dest : SourcePath \cup {NoPath}, hits : SUBSET SourcePath,
         file : SourcePath \cup {NoPath}]

Idle == [op |-> "none", at |-> "idle", dir |-> 0, sem |-> << >>, name |-> << >>,
         dest |-> NoPath, hits |-> {}, file |-> NoPath]

TypeOK ==
  /\ readOnly \in BOOLEAN
  /\ nextInode \in 2..(MaxInode + 1)
  /\ DOMAIN inodes = 1..(nextInode - 1)
  /\ inodes \in [DOMAIN inodes -> InodeEntry]
  /\ disk \in [SourcePath -> 0..MaxVersion]
  /\ found \in Finds
  /\ known \subseteq DOMAIN inodes
  /\ reply \in Reply
  /\ call \in Call /\ gave \subseteq SourcePath
  /\ changes \in 0..MaxChanges

RootEntry == [sem |-> << >>, name |-> << >>, real |-> NoPath, isDir |-> TRUE]

Init ==
  /\ readOnly \in BOOLEAN
  /\ inodes = [i \in {RootDir} |-> RootEntry] /\ nextInode = 2
  /\ disk \in [SourcePath -> 0..1]
  /\ found \in Finds
  /\ known = {RootDir}
  /\ reply = Nothing /\ call = Idle /\ gave = {} /\ changes = 0

-----------------------------------------------------------------------------
\* What the index gives for a path; the root lists nothing.
Given(finds, sem) == IF sem = << >> THEN {} ELSE finds[sem]

Request(op, dir, sem, name, dest) ==
  /\ call = Idle
  /\ call' = [op |-> op, at |-> "asked", dir |-> dir, sem |-> sem, name |-> name,
              dest |-> dest, hits |-> {}, file |-> NoPath]
  /\ gave' = Given(found, sem) /\ reply' = Nothing
  /\ UNCHANGED <<readOnly, inodes, nextInode, disk, found, known, changes>>

Finish == call' = Idle /\ gave' = {}

\* VfsMapper::readdir asks the index, and then the disk for each result.
SearchIndex ==
  /\ call.at = "asked"
  /\ call' = [call EXCEPT !.at = "searched", !.hits = Given(found, call.sem)]
  /\ UNCHANGED <<readOnly, inodes, nextInode, disk, found, known, reply, gave, changes>>

Results == {p \in call.hits : disk[p] # 0}

HitsNamed == {p \in Results : Base[p] = call.name}

Searched(op) == call.op = op /\ call.at = "searched"

Inode(tbl, sem, name) == {i \in DOMAIN tbl : tbl[i].sem = sem /\ tbl[i].name = name}

\* get_or_create_inode for a set of entries, none of which agree in sem and
\* name: those that have no inode get the next ones, in the order of the list.
AlwaysNew(tbl, e) == TRUE
IsNew(tbl, e) == Inode(tbl, e.sem, e.name) = {}

GetOrCreateSameNext(entries) ==
  LET new == {e \in entries : IsNew(inodes, e)}
      last == nextInode + Cardinality(new) - 1
  IN  /\ last <= MaxInode /\ UNCHANGED nextInode
      /\ \E at \in Bijection(nextInode..last, new) :
           inodes' = [i \in 1..last |-> IF i < nextInode THEN inodes[i] ELSE at[i]]

GetOrCreate(entries) ==
  LET new == {e \in entries : IsNew(inodes, e)}
      last == nextInode + Cardinality(new) - 1
  IN  /\ last <= MaxInode /\ nextInode' = last + 1
      /\ \E at \in Bijection(nextInode..last, new) :
           inodes' = [i \in 1..last |-> IF i < nextInode THEN inodes[i] ELSE at[i]]

InodeOf(tbl, sem, name) == CHOOSE i \in Inode(tbl, sem, name) : TRUE

DirEntry(sem, name) == [sem |-> sem, name |-> name, real |-> NoPath, isDir |-> TRUE]
FileEntry(sem, name, p) == [sem |-> sem, name |-> name, real |-> p, isDir |-> FALSE]

-----------------------------------------------------------------------------
\* The kernel asks only for inodes it knows and that were called directories.
Directories == {i \in known : inodes[i].isDir}

LookupRequest ==
  \E parent \in Directories, name \in Word :
    LET sem == Append(inodes[parent].sem, name) IN
    Len(sem) <= MaxDepth /\ Request("lookup", parent, sem, name, NoPath)

LookupMiss == reply' = Say("error") /\ Finish /\ UNCHANGED <<inodes, nextInode, known>>

LookupEntry(e) ==
  /\ GetOrCreate({e})
  /\ reply' = [Say("entry") EXCEPT !.dir = call.dir, !.ino = InodeOf(inodes', e.sem, e.name)]
  /\ known' = known \cup {InodeOf(inodes', e.sem, e.name)}
  /\ Finish

\* The second search of a lookup, for the directory itself.
SearchParent(up) ==
  /\ call' = [call EXCEPT !.at = "asked", !.sem = up, !.hits = {}]
  /\ gave' = Given(found, up)
  /\ UNCHANGED <<inodes, nextInode, known, reply>>

\* The files that the name may stand for when it is looked up.
FileHitsAny == Results
FileHits == HitsNamed

\* A name for which the search finds anything is a directory; otherwise it may
\* be a result of its parent.
Lookup ==
  /\ Searched("lookup")
  /\ LET up == inodes[call.dir].sem IN
     IF call.sem # up
     THEN \/ Results # {} /\ LookupEntry(DirEntry(call.sem, call.name))
          \/ Results = {} /\ SearchParent(up)
     ELSE \/ \E p \in FileHits : LookupEntry(FileEntry(up, call.name, p))
          \/ FileHits = {} /\ LookupMiss
  /\ UNCHANGED <<readOnly, disk, found, changes>>

ReadDirRequest ==
  \E ino \in Directories : Request("readdir", ino, inodes[ino].sem, << >>, NoPath)

\* Two results of one name get one inode, which names the first of them.
ReadDir ==
  /\ Searched("readdir")
  /\ \E first \in SUBSET Results :
       /\ \A p \in Results : \E q \in first : Base[q] = Base[p]
       /\ \A p, q \in first : Base[p] = Base[q] => p = q
       /\ GetOrCreate({FileEntry(call.sem, Base[p], p) : p \in first})
  /\ reply' = [Say("listing") EXCEPT !.dir = call.dir,
        !.items = {<<p, InodeOf(inodes', call.sem, Base[p])>> : p \in Results}]
  /\ Finish
  /\ UNCHANGED <<readOnly, disk, found, known, changes>>

\* read opens the real path remembered with the inode, whatever the search
\* would find now.
Read ==
  /\ call = Idle
  /\ \E ino \in known \ Directories :
       LET p == inodes[ino].real IN
       reply' = IF disk[p] = 0 THEN Say("error")
                ELSE [Say("data") EXCEPT !.ino = ino, !.data = disk[p]]
  /\ UNCHANGED <<readOnly, inodes, nextInode, disk, found, known, call, gave, changes>>

\* A callback that changes files: refused on a read-only mount.
Refused ==
  /\ call = Idle /\ readOnly /\ reply' = Say("error")
  /\ UNCHANGED <<readOnly, inodes, nextInode, disk, found, known, call, gave, changes>>

\* WriteHandler carries out a logged operation, or fails, the last time when it
\* marks in its log what it has done.
Handler(after) ==
  \/ disk' = after /\ reply' \in {[Say(op) EXCEPT !.logged = TRUE] : op \in {"ok", "error"}}
  \/ disk' = disk /\ reply' = [Say("error") EXCEPT !.logged = TRUE]

\* A write at offset 0 goes through WriteHandler, which creates a file that
\* is gone; another one goes to the file itself, which must exist.
WriteFromStart(p, v) == Handler([disk EXCEPT ![p] = v])

WriteAtOffset(p, v) ==
  \/ disk[p] # 0 /\ disk' = [disk EXCEPT ![p] = v] /\ reply' \in {Say("ok"), Say("error")}
  \/ disk' = disk /\ reply' = Say("error")

Write ==
  /\ call = Idle /\ ~readOnly
  /\ \E ino \in known \ Directories, v \in 1..MaxVersion :
       WriteFromStart(inodes[ino].real, v) \/ WriteAtOffset(inodes[ino].real, v)
  /\ UNCHANGED <<readOnly, inodes, nextInode, found, known, call, gave, changes>>

\* rename looks at the new name only: the file will go to the source root,
\* over whatever has that name there.
RenameRequest ==
  /\ ~readOnly
  /\ \E parent \in Directories, name \in Word, newname \in DOMAIN RootFile :
       Request("rename", parent, inodes[parent].sem, name, RootFile[newname])

UnlinkRequest ==
  /\ ~readOnly
  /\ \E parent \in Directories, name \in Word :
       Request("unlink", parent, inodes[parent].sem, name, NoPath)

\* The files that the name may stand for when it is renamed or removed: the
\* search is asked again, the inode is not.
NamedByInode == {inodes[i].real : i \in Inode(inodes, call.sem, call.name)} \ {NoPath}
Named == HitsNamed

PickFile ==
  /\ Searched("rename") \/ Searched("unlink")
  /\ \/ /\ \E p \in Named : call' = [call EXCEPT !.at = "picked", !.file = p]
        /\ UNCHANGED <<reply, gave>>
     \/ Named = {} /\ reply' = Say("error") /\ Finish
  /\ UNCHANGED <<readOnly, inodes, nextInode, disk, found, known, changes>>

Moved(p, q) == IF p = q THEN disk ELSE [disk EXCEPT ![q] = disk[p], ![p] = 0]

\* WriteHandler gets the path; the file may be gone by now, or another one may
\* have taken its place.
Picked(op) == call.op = op /\ call.at = "picked"

Gone(p) == disk[p] = 0 /\ Handler(disk)

Rename ==
  /\ Picked("rename")
  /\ \/ disk[call.file] # 0 /\ Handler(Moved(call.file, call.dest))
     \/ Gone(call.file)
  /\ Finish
  /\ UNCHANGED <<readOnly, inodes, nextInode, found, known, changes>>

Unlink ==
  /\ Picked("unlink")
  /\ \/ disk[call.file] # 0 /\ Handler([disk EXCEPT ![call.file] = 0])
     \/ Gone(call.file)
  /\ Finish
  /\ UNCHANGED <<readOnly, inodes, nextInode, found, known, changes>>

-----------------------------------------------------------------------------
Change == changes < MaxChanges /\ changes' = changes + 1 /\ reply' = Nothing

\* Another program changes a file; an index run changes what is found. Neither
\* waits for a callback.
External ==
  /\ Change
  /\ \E p \in SourcePath, v \in 0..MaxVersion : disk[p] # v /\ disk' = [disk EXCEPT ![p] = v]
  /\ UNCHANGED <<readOnly, inodes, nextInode, found, known, call, gave>>

Reindex ==
  /\ Change
  /\ found' \in Finds \ {found}
  /\ gave' = IF call = Idle THEN {} ELSE gave \cup Given(found', call.sem)
  /\ UNCHANGED <<readOnly, inodes, nextInode, disk, known, call>>

\* The file system is unmounted or dies, and is mounted again: the inodes start
\* over.
Mount ==
  /\ Change
  /\ readOnly' \in BOOLEAN
  /\ inodes' = [i \in {RootDir} |-> RootEntry] /\ nextInode' = 2 /\ known' = {RootDir}
  /\ Finish
  /\ UNCHANGED <<disk, found>>

Requests == LookupRequest \/ ReadDirRequest \/ RenameRequest \/ UnlinkRequest \/ Refused
Callback == SearchIndex \/ Lookup \/ ReadDir \/ Read \/ Write \/ PickFile \/ Rename \/ Unlink
Environment == External \/ Reindex \/ Mount
Next == Requests \/ Callback \/ Environment

Spec == Init /\ [][Next]_vars

-----------------------------------------------------------------------------
(* A name in a semantic directory has one inode for the life of a mount,   *)
(* whatever lookups and listings asked for it: what the kernel caches for  *)
(* a second stays valid (filesystem.rs:84-112).                            *)
OneInodePerName ==
  \A i, j \in DOMAIN inodes :
    inodes[i].sem = inodes[j].sem /\ inodes[i].name = inodes[j].name => i = j

(* No file is lost by mistake. Of what callbacks change on disk, a removal  *)
(* takes away, and a rename moves, a file that bears the name asked for    *)
(* and that the index gave for that directory at some moment since the     *)
(* request; a rename otherwise overwrites the one file at its destination, *)
(* with the content of such a file; and a write changes the file of an     *)
(* inode the kernel knows. This holds whatever other programs and index    *)
(* runs do between the search and the deed, and whatever an older listing  *)
(* or a stale inode says (filesystem.rs:455-493, 502-538).                 *)
TouchesOnlyWhatWasFound ==
  [][changes' = changes =>
       LET asked == {p \in gave : Base[p] = call.name} IN
       \A p \in SourcePath : disk'[p] # disk[p] =>
         \/ call.op \in {"rename", "unlink"} /\ p \in asked /\ disk'[p] = 0
         \/ /\ call.op = "rename" /\ p = call.dest
            /\ \E q \in asked : disk'[p] = disk[q] /\ disk'[q] = 0
         \/ /\ call = Idle /\ disk'[p] # 0
            /\ \E i \in known : inodes[i].real = p]_vars

(* Of a file, read returns a content that a file of that name has now: the *)
(* path remembered with an inode is never one of another name, not even    *)
(* after renames and index runs (filesystem.rs:289, 321).                  *)
InodeNamesItsFile ==
  \A i \in DOMAIN inodes : ~inodes[i].isDir => Base[inodes[i].real] = inodes[i].name

=============================================================================
