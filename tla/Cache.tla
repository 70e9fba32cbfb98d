-------------------------------- MODULE Cache --------------------------------
(***************************************************************************)
(* CacheManager (semfs-storage/src/cache.rs): the least-recently-used      *)
(* query cache, the embedding cache, and the parsed-query cache whose      *)
(* entries expire. Every call holds the write lock of the cache it changes *)
(* and is one step. The clock does not have to advance between two calls,  *)
(* and entries of equal age are told apart by the order of a hash map.     *)
(*                                                                         *)
(* A cached result is the set of the files it names.                       *)
(***************************************************************************)
EXTENDS Integers, FiniteSets

CONSTANTS Query,      \* query hashes
          Text,       \* raw query texts
          FileId, Hash,
          QueryCap,   \* max_size of the query cache
          TextCap,    \* max_size of the parsed-query cache
          Ttl,        \* its time to live
          MaxTime     \* bound: the clock

ASSUME CacheAssumption ==
  /\ QueryCap \in Nat /\ TextCap \in Nat /\ Ttl \in Nat /\ MaxTime \in Nat
  /\ Query \cap Text = {}

VARIABLES
  now,
  queries,      \* query -> [files, used]: file_ids and last_accessed
  embeddings,   \* hashes that have an embedding
  texts,        \* text -> created_at
  \* history
  lastUse,      \* query -> the time of its last put or hit, -1 if never
  lastPut,      \* text -> the time of its last put, -1 if never
  dropped,      \* queries and texts invalidated or cleared since
  changedSince  \* cached query -> the files that changed since its last put

vars == <<now, queries, embeddings, texts, lastUse, lastPut, dropped, changedSince>>

Room(cap) == IF cap = 0 THEN 1 ELSE cap

TypeOK ==
  /\ now \in 0..MaxTime
  /\ DOMAIN queries \subseteq Query /\ DOMAIN texts \subseteq Text
  /\ queries \in [DOMAIN queries -> [files : SUBSET FileId, used : 0..now]]
  /\ texts \in [DOMAIN texts -> 0..now]
  /\ embeddings \subseteq Hash
  /\ Cardinality(DOMAIN queries) <= Room(QueryCap)
  /\ Cardinality(DOMAIN texts) <= Room(TextCap)

Init ==
  /\ now = 0
  /\ queries = << >> /\ texts = << >> /\ embeddings = {}
  /\ lastUse = [q \in Query |-> -1] /\ lastPut = [t \in Text |-> -1]
  /\ dropped = {} /\ changedSince = [q \in Query |-> {}]

-----------------------------------------------------------------------------
Only(f, keys) == [k \in keys |-> f[k]]
With(f, k, v) == [j \in DOMAIN f \cup {k} |-> IF j = k THEN v ELSE f[j]]

\* What is left of a full cache after it made room: any one of the oldest keys
\* is removed, also when the key to be put is there already.
MakesRoomLate(keys, age, cap) ==
  IF Cardinality(keys) > cap /\ keys # {}
  THEN {keys \ {k} : k \in {x \in keys : \A y \in keys : age[x] <= age[y]}}
  ELSE {keys}

MakesRoomNewest(keys, age, cap) ==
  IF Cardinality(keys) >= cap /\ keys # {}
  THEN {keys \ {k} : k \in {x \in keys : \A y \in keys : age[y] <= age[x]}}
  ELSE {keys}

MakesRoom(keys, age, cap) ==
  IF Cardinality(keys) >= cap /\ keys # {}
  THEN {keys \ {k} : k \in {x \in keys : \A y \in keys : age[x] <= age[y]}}
  ELSE {keys}

Used == [q \in DOMAIN queries |-> queries[q].used]

GetQuery(q) ==
  /\ q \in DOMAIN queries
  /\ queries' = [queries EXCEPT ![q].used = now]
  /\ lastUse' = [lastUse EXCEPT ![q] = now]
  /\ UNCHANGED <<now, embeddings, texts, lastPut, dropped, changedSince>>

PutQuery(q, files) ==
  /\ \E kept \in MakesRoom(DOMAIN queries, Used, QueryCap) :
       queries' = With(Only(queries, kept), q, [files |-> files, used |-> now])
  /\ lastUse' = [lastUse EXCEPT ![q] = now] /\ dropped' = dropped \ {q}
  /\ changedSince' = [p \in Query |-> IF p = q \/ p \notin DOMAIN queries' THEN {} ELSE changedSince[p]]
  /\ UNCHANGED <<now, embeddings, texts, lastPut>>

PutText(t) ==
  /\ LET fresh == {x \in DOMAIN texts : now - texts[x] < Ttl} IN
       \E kept \in MakesRoom(fresh, texts, TextCap) :
         texts' = With(Only(texts, kept), t, now)
  /\ lastPut' = [lastPut EXCEPT ![t] = now] /\ dropped' = dropped \ {t}
  /\ UNCHANGED <<now, queries, embeddings, lastUse, changedSince>>

\* What get gives of the parsed-query cache; it changes nothing.
TextHit(t) == t \in DOMAIN texts /\ now - texts[t] < Ttl

PutEmbedding(h) ==
  /\ h \notin embeddings /\ embeddings' = embeddings \cup {h}
  /\ UNCHANGED <<now, queries, texts, lastUse, lastPut, dropped, changedSince>>

-----------------------------------------------------------------------------
\* on_file_changed: the queries that name the file go, and the embedding of
\* its old content, if that is known.
SurvivesIfOthers(q, f) == queries[q].files # {f}
Survives(q, f) == f \notin queries[q].files

OnFileChanged(f, known) ==
  /\ LET kept == {q \in DOMAIN queries : Survives(q, f)} IN
       /\ queries' = Only(queries, kept)
       /\ dropped' = dropped \cup (DOMAIN queries \ kept)
  /\ embeddings' = embeddings \ known
  /\ changedSince' = [q \in Query |-> IF q \in DOMAIN queries' THEN changedSince[q] \cup {f} ELSE {}]
  /\ UNCHANGED <<now, texts, lastUse, lastPut>>

ClearQueries ==
  /\ queries # << >> /\ queries' = << >> /\ dropped' = dropped \cup DOMAIN queries
  /\ UNCHANGED <<now, embeddings, texts, lastUse, lastPut, changedSince>>

ClearTexts ==
  /\ texts # << >> /\ texts' = << >> /\ dropped' = dropped \cup DOMAIN texts
  /\ UNCHANGED <<now, queries, embeddings, lastUse, lastPut, changedSince>>

Tick ==
  /\ now < MaxTime /\ now' = now + 1
  /\ UNCHANGED <<queries, embeddings, texts, lastUse, lastPut, dropped, changedSince>>

Next ==
  \/ \E q \in Query : GetQuery(q) \/ \E files \in SUBSET FileId : PutQuery(q, files)
  \/ \E t \in Text : PutText(t)
  \/ \E h \in Hash : PutEmbedding(h)
  \/ \E f \in FileId, known \in {{}} \cup {{h} : h \in Hash} : OnFileChanged(f, known)
  \/ ClearQueries \/ ClearTexts \/ Tick

Spec == Init /\ [][Next]_vars

-----------------------------------------------------------------------------
\* The other queries that were used since q was.
UsedSince(q) == {p \in Query \ {q} : lastUse[p] >= lastUse[q]}

(* However results are put, hit, invalidated and put again, a query is     *)
(* still cached while fewer than max_size - 1 others were used after it    *)
(* (cache.rs:39-46). One place is missing: put() of a query that is there  *)
(* makes room for it again.                                                *)
RecentKept ==
  \A q \in Query :
    /\ lastUse[q] >= 0 /\ q \notin dropped
    /\ Cardinality(UsedSince(q)) < QueryCap - 1
    => q \in DOMAIN queries

(* A cached result never names a file that changed after it was put: not   *)
(* after any number of evictions, hits and changes of other files          *)
(* (cache.rs:62-66, 206-211).                                              *)
NoChangedFile == \A q \in DOMAIN queries : queries[q].files \cap changedSince[q] = {}

(* A parsed query is answered from the cache for its whole time to live    *)
(* unless max_size - 1 others were put after it: expired entries take no   *)
(* room from it (cache.rs:154-174).                                        *)
YoungAnswered ==
  \A t \in Text :
    /\ lastPut[t] >= 0 /\ t \notin dropped /\ now - lastPut[t] < Ttl
    /\ Cardinality({s \in Text \ {t} : lastPut[s] >= lastPut[t]}) < TextCap - 1
    => TextHit(t)
=============================================================================
