# SemanticFS in TLA+

This directory models the stateful parts of SemanticFS (a Rust program that
shows the results of searches as directories), checks them with TLC on small
instances and proves the central results with TLAPS.
Sources are cited by their path under `crates/`.

## The system

| Part | State | Operations | Talks to |
|---|---|---|---|
| Write handler, write-ahead log (`semfs-core/src/vfs/write_ops.rs`, `semfs-storage/src/wal.rs`) | table `wal_entries`, the files, `~/.semanticfs/trash` | rename, copy, unlink, write, recover; log, mark, cleanup | file system, SQLite |
| Watcher (`semfs-watch/src/watcher.rs`, `debounce.rs`, `events.rs`) | running flag, raw channel and pending map per `watch()` call, batch channel | watch, stop, notify callback, debounce thread, receive | notify, a consumer |
| Indexing pipeline (`semfs-core/src/indexer/pipeline.rs`, `crawler.rs`) | batch, bounded channel, two threads | index_directory, index_file | both stores, embedder, caches |
| Index stores (`semfs-storage/src/sqlite.rs`, `lance.rs`) | `files`, `files_fts`, `chunks`; vectors in memory and `vectors.bin` | insert, delete, find | used by pipeline and search |
| FUSE file system, mapper (`semfs-fuse/src/filesystem.rs`, `semfs-core/src/vfs/mapper.rs`) | inode table | lookup, readdir, read, write, rename, unlink, mount | search, write handler, files |
| Hybrid search (`semfs-core/src/retriever/*.rs`) | one search in progress | filter, keyword, semantic, fusion, threshold, resolve, sort | both stores |
| Caches (`semfs-storage/src/cache.rs`) | query results, embeddings, parsed queries | get, put, invalidate, clear | called by the pipeline |
| Query parser, filters (`semfs-core/src/query/parser.rs`, `filter.rs`) | one query in progress | parse_query | called by search and the mapper |
| Chunkers (`semfs-core/src/indexer/chunker/*.rs`) | one file in progress | get_chunker, chunk | called by the pipeline |
| Command line, configuration (`semfs-cli/src/`) | `config.toml`, a command's copies of it and of `vectors.bin` | index, reindex, search, mount, config set | all of the above |
| Embedders (`semfs-embed/src/*.rs`) | none that lasts | auto_detect_embedder, embed | an Ollama server or an ONNX model |
| Platform providers, access rules, benchmarks | none that matters | | |

The command line runs each command as a process of its own: two `index`
commands, or an `index` beside a `search`, share only the files of the stores
and `config.toml`. A mounted file system serves one callback at a time and owns
its write handler.

What is hard here, and where it is modelled:

* a crash, a failing SQLite statement or another program between any two steps
  of a file operation, and recovery that crashes itself (`WriteHandler`);
* two threads, two bounded channels and a clock between a change and the
  consumer that is to learn of it; restart while the old thread sleeps (`Watcher`);
* a producer and a consumer over a bounded channel, failures that are ignored
  by design, several processes on one store (`IndexPipeline`);
* an inode table that outlives the search results it was made from, and other
  programs between the search of a callback and what it does (`SemanticFs`);
* a search over an index that changes between its statements (`Search`);
* eviction at the limit, expiry and invalidation (`Cache`);
* a store whose vector length each command takes from another place, and which
  every command rewrites from a copy of its own (`Commands`, `VectorFile`);
* patterns, most without word boundaries, that cut a query in turn (`QueryParser`);
* three places that flush a paragraph, and indices into a vector that grows
  during a recursion (`TextChunker`, `CodeChunker`).

`PROJECT.json` lists every hazard with its line and the properties that cover it,
or the reason why none does.

## The modules

| Module | Models | Kind |
|---|---|---|
| `OperationLog` | what a log promises: announce, settle once, forget only what is done | abstract specification |
| `WalStore` | `WalStore`'s calls, one atomic statement each | operators |
| `WriteHandler` | the handlers and `recover()` over the log and the files; refines `OperationLog` | state machine |
| `WriteHandlerProofs` | theorems about `WriteHandler` | proofs |
| `Mailbox` | what one `watch()` promises: the newest of a path, once and in order | abstract specification |
| `Debouncer` | `EventDebouncer`'s pending map | operators |
| `Watcher` | the watcher's callback, thread and channels over `Debouncer`; one `watch()` call refines `Mailbox` | state machine |
| `IndexStore` | the calls of the two stores | operators and state |
| `IndexPipeline` | index runs over `IndexStore` | state machine |
| `SemanticFs` | FUSE callbacks and the inode table | state machine |
| `Search` | one hybrid search beside an index run | state machine |
| `Cache` | the three caches | state machine |
| `QueryParser` | `parse_query` with the date and extension filters | state machine |
| `Chunks` | what a chunker returns | state |
| `TextChunker`, `CodeChunker` | the two chunkers | state machines |
| `Chunking` | `get_chunker` and the chunker it chooses | composition |
| `Ordering` | the members of a finite set of numbers in ascending order | operators |
| `Parts` | `Chunking`, `QueryParser` and `Cache` side by side | composition |
| `AppConfig` | `config.toml`: load, set a key, save | operators and state |
| `VectorFile` | `vectors.bin` with its dimensions: open, delete, insert, save | operators and state |
| `Commands` | the commands as processes over `AppConfig` and `VectorFile` | composition |
| `WatcherProofs`, `IndexPipelineProofs`, `SemanticFsProofs`, `SearchProofs`, `CacheProofs`, `CommandsProofs`, `PartsProofs` | theorems about these modules | proofs |
| `MC*` | the constants of the instances | for TLC |

The modules that `Parts` puts side by side share no state, and a behaviour of it
is a use of one of them. `Ordering` finds each number by its place: the library's
sorting function has no definition that a prover can expand.

Operators with names such as `VerdictTrustsDest` or `FileHitsAny` that no action
uses are mutated forms: each breaks the property for which PROJECT.json names
it, which shows that the property depends on the code.

### WriteHandler

A handler is a program counter over the steps of the code: log the operation
(`Handle*`), mark it executing, change the file system (`Rename`; `OpenTarget`
then `FinishTarget` for `fs::copy` and `fs::write`, which truncate first;
`PrepareTrash`, `MoveToTrash`, `RemoveOriginal` for a soft delete and its copying
fallback), and mark it completed or failed. `recover()` takes the list of open
entries once (`Recover`), decides each from the files it finds (`RecoverEntry`,
`Verdict`) and goes through the same file steps. A file is a content, `Absent` or
`Torn`. `Crash` and `WalError` end a call at any step; `External` changes a file
at any time. The log is synchronous = FULL, so a statement is durable when it
returns. `fresh` and `before` are history variables: the newest entry, as long as
only its own operation has touched the files, and the disk when it was logged.

### Debouncer and Watcher

Each `watch()` call is a session with its own raw channel, pending map and
thread; `running` and the batch channel are shared, as in the code. A thread
polls the flag, drains its channel into the map, flushes what is old enough, and
once more when it is told to stop. `AddEvent` also removes what is ready, because
`add_event` returns it and the thread does not look at it. Both `try_send`s lose
what finds no place. Instants are ages in ticks. An event is numbered by the
change it reports. The history variables remember of each path the newest event
its thread drained (`drained`), the consumer saw (`seen`), and `add_event` handed
to the caller that does not look (`unread`), and whether a channel was ever full
(`overflow`). `ChangesDelivered` says that these are the only ways in which a
change is lost, and that the last change before a silence is never `unread`.
`Mailbox` has neither channels nor a map: changes are accepted, sent and
received. `newest` is what the thread of the one `watch()` call drained last, and
`mail` the batch channel.

### IndexStore and IndexPipeline

A runner is a process: a main thread that walks the files, an embed worker and a
channel. Every store call is a step, every `let _ =`, `if let Ok` and `?` over a
store call may fail: a hash that cannot be looked up counts as a changed one, a
row that cannot be looked up as none. `index_file` is the same code with one
thread that receives only when it has sent everything. `vectors.bin` is `Torn`
between the two steps of a save, and saves of two processes may leave a mixture. A
crash is the death of a process; the loss of power (SqliteStore runs with
synchronous = NORMAL) is not modelled. Vectors and chunks are pairs of a row id
and an index; chunks that consist of white space, which are not embedded, are not
told apart.

### SemanticFs

The session serves one callback at a time, but files and index change while it
runs. So a callback that searches has several actions, and `call` holds its local
variables between them: the request, the search in the index (`SearchIndex`), the
look which of the results exist on disk (`Results`, part of the next step), and
what it does with them. `lookup` searches twice, for the name as a query and for
its directory. `rename` and `unlink` pick a file by its name (`PickFile`) and hand
it to `WriteHandler` in a step of its own, when it may be gone or another file may
be there. `read` and `write` go straight to the path of an inode and are one
action. `gave` is history: the files the index gave for the directory of the
callback at some moment since the request.

A semantic path is a sequence of components; the search's result for a path is a
set of files taken from a small family (`Finds`) that an index run may change.
`RootFile` is the path a new name gets, since `rename` joins it to the source root
whatever the new parent is. `WriteHandler`'s operations are taken whole: done or
failed. A mount without a write handler, which refuses every change, behaves like
a read-only one and is left out.

### QueryParser

A query is a sequence of atoms, the pieces of text that the patterns tell apart,
the head of the module lists them. Adjacent atoms are glued together, because
words are split at blanks only and the patterns have no word boundaries, but for
those of Go and Java, which are names before a blank, a quotation mark or the end
(`go`). "code" and the English "file" are cleaned up when a file type was found,
and are no stop words (`code`), unlike the Korean "file" (`file`). Each step of
`parse_query` is an action: remove the quotation marks, cut out a date, cut out a
file type, find sort order and words. A pattern is the set of its matches, of
which the leftmost is taken; of several file types, which the model does not tell
apart, any, for the order of the mappings decides in the code. Digits that are not
ASCII are atoms of their own (`wide`, `widenum`). Runs of five digits or more are
left out, and there is one kind of quotation mark. What the code would panic on
leads to the phase `panicked`.

### Chunkers

A text is a sequence of headings, blank lines and lines with text, and the
content of a chunk the set of its lines. A syntax tree is given node by node in
document order; tree-sitter builds it, so any tree may come. The recursion of
`walk_tree` is a stack of calls. `IndexPipeline` knows only the number of chunks
of a file.

### AppConfig, VectorFile, Commands

A command is a process: it loads the configuration, detects a model, opens the
store, and indexes, searches or sets a key. `mount` opens its store before it
detects a model, and for the dimensions of the configuration. A file is indexed in
the steps of `process_file`: take or skip it, look up its old row, delete the row,
delete its vectors and save, insert the new row, insert its chunks. Another
command may come between any two of them, and each may fail. A file has one
vector, and the batch, the channel and the worker of `IndexPipeline` are one set
of vectors to embed (`batch`), which is embedded, inserted and saved in one step.
A save of `vectors.bin` is one step here; one that fails leaves the old file or
one that does not parse (`SaveFails`), and the process goes on with its copy.
`config.toml` is truncated in one step and written in the next. Each process works
on its own copy of the vectors; `fresh` is the history of whether, since it was
opened, no other process has saved and no save of its own failed, `calm` of
whether no command failed, saved an overtaken copy or changed the file's
dimensions.

### Search

Scores are integers in millionths. What the keyword index, the vectors and the
filters give is a choice, with every score and order; `DOMAIN pathOf` are all ids
ever given, `live` those whose row is there, and `Remove` and `Insert` are an
index run's replacement of a file at any moment of the search. A search that fails
(`SearchFails`) leaves nothing behind.

### Cache

The clock need not advance between two calls, and of equally old entries any may
be evicted. `lastUse`, `lastPut`, `dropped` and `changedSince` are history. No
code of the repository reads the caches yet; the calls come in any order.

## What TLC checks

Every configuration sets `CHECK_DEADLOCK FALSE` because its bounds end a
behaviour, except `search_results`, whose next query can always come.

| Run | Instance | Shows |
|---|---|---|
| `write_atomic` | 2 files of one base name, 2 contents, 2 operations, 2 accidents, 1 external change, 1 tick; 1.7 M states | type invariant; `RecoverCovers`, `MoveAtomic`, `DeleteAtomic`, `RecoverInOrder`; the log implements `OperationLog` |
| `copy_atomic` | 2 files, 1 operation, 1 accident | violated: a crash while the copy is written, and `recover()` certifies the torn destination |
| `watch_restart` | 2 paths, 3 changes, 2 `watch()` calls, channels of 2; 3.2 M states | type invariant; `NewestWins`, `Debounced` for several `watch()` calls |
| `watch_quiet` | 3 paths of which one is ignored, 3 changes, 1 `watch()` call, channels of 2; 0.2 M states | the watcher implements `Mailbox`; liveness: `ChangesDelivered`, `StopEndsThread` |
| `index_runs` | 2 files of 3 and 2 chunks, batches of 2, channel of 1, `index_file`'s batch of 2, 3 runs, 2 faults, 1 edit; 0.9 M states | type invariant; `FtsHasFile`, `NoOrphanVectors`, `CleanRunIndexes`; liveness: `RunEnds` |
| `fs_names` | 3 files of which two share a name, 3 words, paths of depth 2, 5 inodes, 2 changes; 1.3 M states | type invariant; `OneInodePerName`, `InodeNamesItsFile`, `TouchesOnlyWhatWasFound` |
| `search_results` | 3 interchangeable files, 1 replacement, keyword score above the strong threshold, 2 results wanted; 2.5 M states | type invariant; `NoFileTwice`, `ResultsAreFound`, `UnanimityKept` |
| `search_relative` | 2 files, no replacement | violated: fused results are cut by an absolute threshold |
| `parts_alone` | texts up to 7 lines, trees up to 5 nodes; queries up to 5 of 14 atoms; 4 queries or 4 texts for 3 places, 3 ticks; 3.7 M states | type invariants; `ChunksAreParagraphs`, `ChunksAreTheTree`; `PlainWordsKept`, `FiltersFound`; `RecentKept`, `NoChangedFile`, `YoungAnswered` |
| `query_panics` | queries up to 4 of 9 atoms | violated: a query makes `parse_query` panic |
| `command_runs` | 2 processes, 2 commands, 2 models of different lengths, 2 files, 1 edit, 1 change of the server, 1 fault; 5.0 M states | type invariant; `VectorsHaveFileDims`, `SearchNeverMismatched`, `CopyMirrorsFile`, `VectorsOfRows`, `IndexedStays`, `KeysHoldTheirLastSet` |
| `full_reindex` | 1 process, 2 commands, nothing fails | violated: `--full` reindexes nothing |

### Why the bounds are enough

* `write_atomic`: two operations give every order of two entries on the same
  files (a move and back, a write after a delete); two accidents give a crash and
  a crash of the recovery after it; one base name makes trash names collide
  within a tick.
* `watch_*`: three events give a replaced event, one of another path between, and
  a full channel; two `watch()` calls give two threads over one flag. Debounce is
  one tick, so an event can be younger or old enough. With bounded events the
  inner draining loop always ends: a stream that never pauses is not covered.
* `index_runs`: five chunks in batches of two make two full batches and a rest,
  one more than worker and channel hold, so the sender really blocks; three runs
  let a run follow a crash that followed a run. For `index_file` one file is larger
  than its batch and one is not: over the first it waits for itself for ever, as
  `RunEnds` says, over the second it ends.
* `fs_names`: depth two gives a listing in a listing; the four families of results
  hold two files of one name, a name that is a query, and a narrower query. Two
  changes let another program remove or replace a file and an index run forget it
  between one search and the deed.
* `search_results`: one replacement puts both ids of a file into one search; three
  files for two places make the cut to `TopK` bite; one keyword score suffices
  because ranks, not scores, decide a fused order, and the two thresholds are both
  used (a keyword-only search has a strong best score, a fused one never has). The
  files are interchangeable, and the properties safety properties.
* `parts_alone`: seven lines hold two headings with two paragraphs each, five
  nodes a class with a tiny function beside another and a function in a function.
  Five atoms hold a date with blanks in it and something glued to either end, or a
  date beside a file type and a word; January, June and December are the two ends
  of a year and its middle. Four keys for three places make the caches evict. The
  constraint keeps a behaviour of `Cache` to one of its two caches, which share no
  state but the clock and `dropped`; queries are symmetric. All its properties are
  safety properties of one of the three parts, so symmetry and constraint are
  sound for them.
* `command_runs`: two commands meet between any two statements, or the second
  finds what the first has left, after a crash or a failure if it had one. The
  models have lengths 2 and 1 and the
  configuration says one of them, so every pair of the configuration, the model
  and the file comes to differ. `Edit` and two files let a run replace one file
  and keep another. Processes and files are interchangeable.

### Fairness

`Watcher!FairSpec`: the debounce threads run, time passes, and the consumer keeps
receiving. The threads block on nothing but a sleep and a `try_recv`. It does not
say that anyone calls `watch` or `stop`. `IndexPipeline!FileSpec`: both threads of
a run are scheduled by the operating system; a send or a receive that is blocked
is not enabled, so fairness gives it nothing. Edits, starts and crashes are not
fair.

### Disagreements with the documents

The four runs that expect a violation each contradict a sentence of the
repository, quoted in PROJECT.json. Modelling showed other behaviour worth a
maintainer's look, which the hazards describe at their lines and which the
models contain without a run of its own.

* Write path: trash names collide within a second; a write at an offset is not
  logged.
* Watcher: the batch that `add_event` returns is dropped; `stop()` then `watch()`
  within one poll leaves the old debounce thread running.
* Index: a file whose indexing failed half way is skipped as unchanged
  afterwards; `index_file` waits for itself above 100 chunks; two processes
  overwrite each other's `vectors.bin`, each with its own copy; the chunks of code
  carry their parent's index, but every `parent_chunk_id` is stored as none.
* File system: `get_or_create_inode` ignores the path of an entry it knows, so a
  listing may lead to another file of the same name; a listed file whose name is
  a query is looked up as a directory.
* Search and caches: weak keyword matches fall under a threshold meant for
  results without one; putting a cached query again into a full query cache evicts
  another.
* Commands: `mount` opens the store for the configured dimensions, 768 by default,
  and detects a model afterwards, of which the first in the list has 1024: the
  store then opens empty and the first save overwrites the vectors; a failed write
  of `vectors.bin` is a warning; the providers' `mount` only logs and makes the
  directory, so the command starts no file system.
* Queries: "this month" written with two blanks is taken for last month; a year
  glued to a word joins that word to the next.

## What is proved

Every theorem holds for any values of the constants that satisfy the
assumptions of the module it is about. Each is proved from an inductive
invariant: one lemma for `Init`, one for the step with one case per action, and
`PTL` to combine them. The invariant is stronger than the property wherever the
property alone is not inductive.

`WriteHandlerProofs` assumes base names of files, `Absent` and `Torn` different
from each other and from contents (`FileAssumption`), natural numbers as bounds
(`BoundAssumption`), and the trash apart from the files (`PathAssumption`).

| Theorem | States |
|---|---|
| `TypeCorrect` | the type invariant |
| `RecoveryIsComplete` | `RecoverCovers`: what is unsettled is on recovery's list or in its hand |
| `MovesAreAtomic` | `MoveAtomic`: completed means moved, failed means untouched |
| `DeletesAreAtomic` | `DeleteAtomic`: completed means in the trash, failed means untouched |
| `LogRefined` | `WriteHandler` implements `OperationLog` |
| `WritesAreNotForged` | recovery completes no write |
| `RecoveryIsOrdered` | `RecoverInOrder`: recovery settles the oldest entry first |

The invariant is `Inv == TypeOK /\ Position /\ RecoverCovers`. `RecoverCovers`
alone is not inductive: that the list loses nothing rests on `Position`, which
says that the entry in hand is open and not on the list between its log entry and
its verdict, that nothing is in hand while idle or scanning, and that the steps of
a soft delete have a trash name. `LogRefined` needs only that settling touches an
open entry. `MovesAreAtomic` adds `MoveInv`: of the fresh entry, the disk is the
old one or the moved one, and the program counter says which, through crashes as
well (after a crash it is one or the other, which is all that `Verdict` needs).
`DeletesAreAtomic` adds `DeleteInv`: the file is as it was, or it is gone and some
trash name holds its content; while the copy that replaces a failed rename is
under way, the trash is torn and the data in hand. `WritesAreNotForged` and
`RecoveryIsOrdered` add `InHand`: the entry recovery has in hand is older than all
on its list, and a write is in hand only to be failed.

`WatcherProofs` assumes capacities of at least one, a natural debounce time, and
that `NoPath` is no path (`WatcherAssumption`, `DebounceAssumption`).

| Theorem | States |
|---|---|
| `WatcherTyped` | the type invariant, in which both channels keep within their capacities |
| `NewestIsSent` | `NewestWins`: no batch holds an event of which its thread has drained a newer one |
| `QuietIsSent` | `Debounced`: a watching thread sends only what was quiet for the debounce time |
| `OrderIsKept` | `DeliveredInOrder`: what one `watch()` call has under way is in order, and newer than what was seen |
| `MailRefined` | `MailDelivered`: with one `watch()` call, `Watcher` implements `Mailbox` |

The first three rest on `NewestWaits`: what waits in a map is the newest its
thread drained of the path, and as old. `OrderIsKept` needs a chain through the
whole path of an event, `InOrder`: numbers grow along the raw channel and are
above all that was drained (`RawOrdered`), which is at least what is in the map,
which is above what is in the batches, which is above what was seen
(`SentOrdered`). A second `watch()` call breaks the chain, as TLC shows.
`MailRefined` puts the two together: a drained event is accepted by the mailbox
because of `RawOrdered`, a flush is its `Send` because of `NewestWaits` and
`SentOrdered`, and what a full channel loses is a stutter.

`CacheProofs` assumes that queries and texts are different keys and that the
limits and times are natural numbers (`CacheAssumption`).

| Theorem | States |
|---|---|
| `CachesTyped` | the type invariant, in which no cache exceeds its limit |
| `RecentQueriesStay` | `RecentKept` |
| `NoStaleResult` | `NoChangedFile`: no cached result names a file that changed since |
| `YoungTextsStay` | `YoungAnswered` |

`RecentKept` counts the keys used since; its proof needs the converse of every
eviction (`QueryHistory`, `TextHistory`): a key that is not cached, though used
and not dropped, has been outlived by a whole cache. The counting goes through
the cardinality facts of the library.

`CommandsProofs` assumes that every setting has a default, that a model's vectors
have a length, that `NoModel` is no model, and natural bounds
(`ConfigAssumption`, `LengthAssumption`, `CommandsAssumption`).

| Theorem | States |
|---|---|
| `CommandsTyped` | the type invariant, in which no vector has the id of a row to come |
| `LengthsAgree` | `VectorsHaveFileDims` |
| `CopiesMirror` | `CopyMirrorsFile` |
| `SearchesFit` | `SearchNeverMismatched` |
| `KeysHold` | `KeysHoldTheirLastSet` |
| `VectorsGoWithTheirRow` | `VectorsOfRows` |
| `NoIndexedFileIsLost` | `IndexedStays` |

`Typed` adds to the type invariant where in a command each field is used.
`Copies` adds to the two store properties that a copy opened for another length
than the file's is empty until somebody saves. `OneSetter` follows what a `config
set` loaded until it writes it. `VectorsGoWithTheirRow` and `NoIndexedFileIsLost`
rest on one invariant, `Calm`: every vector of the file, and every row whose
vectors a run still holds (in its batch, or inserted and with chunks to come), is
accounted for, that is, the row stands or the run that deleted it is about to
delete its vectors; but a run that another has overtaken may hold anything. And
what a run holds is of no file it has yet to replace (`AllApart`), which needs no
calm.

`SemanticFsProofs` assumes finitely many files, a bounded number of inodes and
depth of paths, and that files have base names (`FsAssumption`).

| Theorem | States |
|---|---|
| `FsTyped` | the type invariant |
| `NamesHaveOneInode` | `OneInodePerName` |
| `InodesNameTheirFiles` | `InodeNamesItsFile` |
| `OnlyFoundIsTouched` | `TouchesOnlyWhatWasFound` |

The inode table only grows: a listing gives its new entries the next numbers, in
any order, by a bijection (`TableGrows`), so the entries a callback asks for must
themselves have different names. `FilesAreReal` adds that the inode of a file
holds the path of a file and not of a directory. `OnlyFoundIsTouched` needs
`CallOK`, which follows the local variables of a callback through the steps of
others: what the index gives at the moment, what the search has returned and the
file picked all stay within what was given since the request.

`SearchProofs` assumes a finite set of files, natural scores and at least one
result wanted (`SearchAssumption`).

| Theorem | States |
|---|---|
| `SearchTyped` | the type invariant: lists without an id twice, best first, and never too many results |
| `NoResultTwice` | `NoFileTwice` |
| `ResultsWereFound` | `ResultsAreFound` |
| `UnanimityHolds` | `UnanimityKept`, for lists of at most 940 entries (`ScoresDiffer`) |

`NoFileTwice` needs `NotAgain`: a candidate whose path is listed already has no
row any more, which holds because a path has one row and ids are given once
(`Rows`). Filters, threshold and cut are shown to select from the fused list in
its order (`Embeds`), which keeps it ranked, without duplicates and unanimous.
`ScoresDiffer` is about the model, not the code: scores are whole millionths, in
which the weights of two ranks differ while ranks stay below 940. The mount asks
for 100 results, so its lists have at most 300 entries.

`IndexPipelineProofs` assumes that there are files, and sizes of at least one
(`PipelineAssumption`). Its theorems are about `FileSpec`, in which `index_file`
is called as well.

| Theorem | States | Processes at once |
|---|---|---|
| `PipelineTyped` | the type invariant: batches and channels within their sizes | any |
| `OneFtsHasFile` | `FtsHasFile` | one |
| `OneNoOrphanVectors` | `NoOrphanVectors` | one |
| `OneCleanRunIndexes` | `CleanRunIndexes`, when every file has chunks and `Torn` is no set of vectors | one |

The three about one process allow any number of runs one after the other, with
failures and deaths anywhere in them, as the run `index_runs` does. Two processes
that index at once can leave words without a row: one inserts the text of a row
that the other has just deleted. The invariant `OneInv` has four parts, and each
holds for less long than the one before. `Shape`, always: where both threads are,
and that the row in hand exists from its insertion on. `Flights`, while nothing
failed in this run: what waits to be embedded is of rows whose files the run will
not replace again. `Fresh`, while nothing ever failed: vectors in memory and in
the file are of rows, but for the row being replaced; the embedding of a batch
keeps it by `Flights`. `Indexed`, in a run that embeds and in which nothing
failed: what is indexed is in the tables, and each of its vectors is in flight or
in memory; and whenever no save is under way, the file is the memory, or the
memory holds nothing of this run. At the end of a run the worker is gone and the
batch empty, so nothing is in flight, and what is indexed is in the file.

`PartsProofs` assumes that the bounds on the length of a text or a query are
natural numbers, so its theorems are about texts, trees and queries of any length
(`TextAssumption`, `QueryAssumption`; `PartsTyped` needs `CacheAssumption` too).

| Theorem | States |
|---|---|
| `PartsTyped` | `PartsTypeOK`, the type invariant of each of the three parts |
| `ParagraphsOfAnyText` | `ChunksAreParagraphs` |
| `WalkInvariant` | the invariant of both chunkers, `TextInv /\ CodeInv` |
| `TreeOfAnyCode` | `ChunksAreTheTree` |
| `FiltersOfAnyQuery` | `FiltersFound` |
| `WordsOfAnyQuery` | `PlainWordsKept` |

*Text.* Between two lines the chunks hold exactly the headings and paragraphs
above the first line that is not flushed yet (`PartsUpTo`), and `current_text` is
the last lines read, blank before the first one with text (`OpenText`). Each of
the three places that flush takes the second to the first; a chunk's parent is
the last section before it in all of them.

*Code.* A tree in document order has an ancestor chain for each node and each
node's descendants right after it (`IsTree`), and keeps both as it is given node
by node. The stack of the walk is then known from the next node alone: it holds
the nodes that hang on a node dealt with, except under what is left out
(`CallsFrom`), and the chunks are the kept nodes before it (`ChunksUpTo`). That
the index which a call hands to its children is the place of the nearest kept
ancestor is what `ParentPlace` says; it needs that a kept node's ancestors were
all dealt with before. What is above a node is the one function that satisfies
the equation of `Above`, so no induction over the tree is needed.

*Queries.* The parser's invariant is the history of its cuts: what remains is the
query without quotation marks, without the date taken (`DateTaken`) and without
the file type (`NameTaken`). The rest are lemmas about cutting: no match contains
a plain word, so a cut keeps every word that stands alone and brings out a new
one only where it glues the two sides of a match together (`Joins`), which only a
year with a word on either side of it does (`YearGlued`). A plain word that
occurs several times is counted by an injection from places to places.

## What is only checked, or not modelled

* Only checked: liveness (`RunEnds`, `ChangesDelivered`, `StopEndsThread`), which
  is beyond the prover, as is ENABLED. Every other property of a passing run is
  stated by a theorem. None of them needs induction over data, which the prover
  cannot do: loops and recursions of the code are steps of a state machine, and a
  statement about all texts or trees is an invariant of its steps.
* Embedders: which model is detected and whether a batch succeeds are choices of
  `Commands` and `IndexPipeline`; the HTTP client with its sub-batches and the
  arithmetic of the ONNX runtime change no state.
* `status`, `diagnose` and `config get` read and print; `unmount` runs an external
  program. `mount` opens the log and never calls `recover()`; `recover()` is
  modelled as what a caller may do at any time between operations.
* Platform providers: external mount programs, or an error.
* Access rules: rows that nothing enforces. Benchmarks: measurement.
* The ignore patterns of the crawler; FUSE attributes and the resumption of
  `readdir` at an offset.
* Loss of power under the index (synchronous = NORMAL): a crash here is the death
  of a process.

## Plan

1. Done: write path, watcher, index pipeline, FUSE table, search, caches, query
   parser, chunkers, commands, and proofs for all of them.
2. A composition of `SemanticFs` with `WriteHandler` in place of its operations
   taken whole, and of `Commands` with the batches and chunks of `IndexPipeline`.
3. What remains of the index when two processes index at once: which parts of
   `OneInv` each of them keeps for its own files.
