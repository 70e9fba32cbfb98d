----------------------------- MODULE CacheProofs -----------------------------
(***************************************************************************)
(* Proofs about Cache, for any sizes, times to live, queries and texts.    *)
(***************************************************************************)
EXTENDS Cache, FiniteSetTheorems, TLAPS

\* The keys that were ever used, and those used since x was.
Ever(last, S) == {y \in S : last[y] >= 0}
Since(last, S, x) == {y \in S \ {x} : last[y] >= last[x]}

\* The history variables, and how they agree with the caches: what is not in a
\* cache, though used and not dropped, has been outlived by a whole cache.
QueryHistory ==
  /\ lastUse \in [Query -> -1..now] /\ changedSince \in [Query -> SUBSET FileId]
  /\ IsFiniteSet(Ever(lastUse, Query))
  /\ \A q \in DOMAIN queries : queries[q].used = lastUse[q] /\ q \notin dropped
  /\ \A q \in Query \ DOMAIN queries :
       lastUse[q] >= 0 /\ q \notin dropped => Cardinality(Since(lastUse, Query, q)) >= QueryCap - 1

TextHistory ==
  /\ lastPut \in [Text -> -1..now]
  /\ IsFiniteSet(Ever(lastPut, Text))
  /\ \A t \in DOMAIN texts : texts[t] = lastPut[t] /\ t \notin dropped
  /\ \A t \in Text \ DOMAIN texts :
       lastPut[t] >= 0 /\ t \notin dropped /\ now - lastPut[t] < Ttl
         => Cardinality(Since(lastPut, Text, t)) >= TextCap - 1

QueryInv == TypeOK /\ QueryHistory /\ NoChangedFile
Inv == QueryInv /\ TextHistory

-----------------------------------------------------------------------------
LEMMA SinceFinite ==
  ASSUME NEW S, NEW last \in [S -> Int], NEW x \in S, IsFiniteSet(Ever(last, S)), last[x] >= 0
  PROVE  IsFiniteSet(Since(last, S, x)) /\ Cardinality(Since(last, S, x)) \in Nat
<1>1. Since(last, S, x) \subseteq Ever(last, S)
  BY DEF Since, Ever
<1> QED BY <1>1, FS_Subset, FS_CardinalityType

\* Later uses of others only add to those used since.
LEMMA SinceGrows ==
  ASSUME NEW S, NEW last \in [S -> Int], NEW new \in [S -> Int], NEW x \in S,
         IsFiniteSet(Ever(new, S)), new[x] = last[x], last[x] >= 0,
         \A y \in S : new[y] >= last[y],
         NEW n \in Int, Cardinality(Since(last, S, x)) >= n, IsFiniteSet(Ever(last, S))
  PROVE  Cardinality(Since(new, S, x)) >= n
<1>1. Since(last, S, x) \subseteq Since(new, S, x)
  BY DEF Since
<1>2. /\ IsFiniteSet(Since(new, S, x)) /\ Cardinality(Since(new, S, x)) \in Nat
      /\ Cardinality(Since(last, S, x)) \in Nat
  BY SinceFinite
<1>3. Cardinality(Since(last, S, x)) <= Cardinality(Since(new, S, x))
  BY <1>1, <1>2, FS_Subset
<1> QED BY <1>2, <1>3

\* The oldest of a set of keys has been outlived by all the others.
LEMMA OldestOutlived ==
  ASSUME NEW S, NEW last \in [S -> Int], NEW keys \in SUBSET S, NEW x \in keys,
         IsFiniteSet(Ever(last, S)), last[x] >= 0, \A y \in keys : last[x] <= last[y]
  PROVE  Cardinality(Since(last, S, x)) >= Cardinality(keys) - 1
<1>1. keys \ {x} \subseteq Since(last, S, x)
  BY DEF Since
<1>2. IsFiniteSet(Since(last, S, x)) /\ Cardinality(Since(last, S, x)) \in Nat
  BY SinceFinite
<1>3. keys \subseteq Ever(last, S)
  BY DEF Ever
<1>4. IsFiniteSet(keys) /\ Cardinality(keys) \in Nat
  BY <1>3, FS_Subset, FS_CardinalityType
<1>5. Cardinality(keys \ {x}) = Cardinality(keys) - 1
  BY <1>4, FS_RemoveElement
<1>6. Cardinality(keys \ {x}) <= Cardinality(Since(last, S, x))
  BY <1>1, <1>2, FS_Subset
<1> QED BY <1>2, <1>4, <1>5, <1>6

LEMMA EverPut ==
  ASSUME NEW S, NEW last \in [S -> Int], NEW new \in [S -> Int], NEW x \in S,
         IsFiniteSet(Ever(last, S)), \A y \in S \ {x} : new[y] = last[y]
  PROVE  IsFiniteSet(Ever(new, S))
<1>1. Ever(new, S) \subseteq Ever(last, S) \cup {x}
  BY DEF Ever
<1> QED BY <1>1, FS_AddElement, FS_Subset

\* What is kept of a full cache, and that there is room for a key then.
LEMMA RoomMade ==
  ASSUME NEW keys, IsFiniteSet(keys), NEW age, NEW cap \in Nat, NEW x,
         NEW kept \in MakesRoom(keys, age, cap), Cardinality(keys) <= Room(cap)
  PROVE  /\ kept \subseteq keys /\ Cardinality(kept \cup {x}) <= Room(cap)
         /\ IsFiniteSet(kept \cup {x})
         /\ \A k \in keys \ kept :
              /\ Cardinality(keys) >= cap
              /\ \A y \in keys : age[k] <= age[y]
<1>1. Cardinality(keys) \in Nat
  BY FS_CardinalityType
<1>2. CASE Cardinality(keys) >= cap /\ keys # {}
  <2>1. PICK k \in keys : kept = keys \ {k} /\ \A y \in keys : age[k] <= age[y]
    BY <1>2 DEF MakesRoom
  <2>2. IsFiniteSet(kept) /\ Cardinality(kept) = Cardinality(keys) - 1
    BY <2>1, FS_RemoveElement
  <2>3. /\ IsFiniteSet(kept \cup {x})
        /\ Cardinality(kept \cup {x}) \in {Cardinality(kept), Cardinality(kept) + 1}
    BY <2>2, FS_AddElement
  <2>4. Cardinality(kept \cup {x}) <= Room(cap)
    BY <1>1, <2>2, <2>3 DEF Room
  <2> QED BY <1>2, <2>1, <2>3, <2>4
<1>3. CASE ~ (Cardinality(keys) >= cap /\ keys # {})
  <2>1. kept = keys
    BY <1>3 DEF MakesRoom
  <2>2. /\ IsFiniteSet(kept \cup {x})
        /\ Cardinality(kept \cup {x}) \in {Cardinality(kept), Cardinality(kept) + 1}
    BY <2>1, FS_AddElement
  <2>3. Cardinality(kept \cup {x}) <= Room(cap)
    BY <1>1, <1>3, <2>1, <2>2, FS_EmptySet DEF Room
  <2> QED BY <2>1, <2>2, <2>3
<1> QED BY <1>2, <1>3

-----------------------------------------------------------------------------
LEMMA InitInv == Init => Inv
<1> SUFFICES ASSUME Init PROVE Inv
  OBVIOUS
<1>1. Ever(lastUse, Query) = {} /\ Ever(lastPut, Text) = {}
  BY DEF Init, Ever
<1>2. DOMAIN queries = {} /\ DOMAIN texts = {}
  BY DEF Init
<1>3. TypeOK
  BY <1>2, FS_EmptySet, CacheAssumption DEF Init, TypeOK, Room
<1>4. QueryHistory
  <2>1. lastUse \in [Query -> -1..now] /\ changedSince \in [Query -> SUBSET FileId]
    BY DEF Init
  <2>2. \A q \in Query : lastUse[q] = -1
    BY DEF Init
  <2> QED BY <1>1, <1>2, <2>1, <2>2, FS_EmptySet DEF QueryHistory
<1>5. TextHistory
  <2>1. lastPut \in [Text -> -1..now]
    BY DEF Init
  <2>2. \A t \in Text : lastPut[t] = -1
    BY DEF Init
  <2> QED BY <1>1, <1>2, <2>1, <2>2, FS_EmptySet DEF TextHistory
<1>6. NoChangedFile
  BY <1>2 DEF NoChangedFile
<1> QED BY <1>3, <1>4, <1>5, <1>6 DEF Inv, QueryInv

\* The two caches do not see each other.
LEMMA TextsUntouched ==
  ASSUME Inv, UNCHANGED <<now, texts, lastPut>>,
         \A t \in Text : t \in dropped' <=> t \in dropped
  PROVE  TextHistory'
BY DEF Inv, QueryInv, TypeOK, TextHistory

LEMMA QueriesUntouched ==
  ASSUME Inv, UNCHANGED <<now, queries, lastUse, changedSince>>,
         \A q \in Query : q \in dropped' <=> q \in dropped
  PROVE  QueryHistory' /\ NoChangedFile'
BY DEF Inv, QueryInv, TypeOK, QueryHistory, NoChangedFile

\* What is known of the keys in either cache.
LEMMA Keys ==
  ASSUME Inv
  PROVE  /\ IsFiniteSet(DOMAIN queries) /\ IsFiniteSet(DOMAIN texts)
         /\ DOMAIN queries \in SUBSET Query /\ DOMAIN texts \in SUBSET Text
         /\ lastUse \in [Query -> Int] /\ lastPut \in [Text -> Int]
         /\ now \in Nat
         /\ \A q \in Query : lastUse[q] <= now
         /\ \A t \in Text : lastPut[t] <= now
         /\ \A q \in DOMAIN queries : lastUse[q] >= 0
         /\ \A t \in DOMAIN texts : lastPut[t] >= 0
<1>1. /\ now \in Nat /\ lastUse \in [Query -> -1..now] /\ lastPut \in [Text -> -1..now]
      /\ DOMAIN queries \in SUBSET Query /\ DOMAIN texts \in SUBSET Text
  BY CacheAssumption DEF Inv, QueryInv, TypeOK, QueryHistory, TextHistory
<1>2. \A q \in DOMAIN queries : lastUse[q] >= 0
  BY <1>1 DEF Inv, QueryInv, TypeOK, QueryHistory
<1>3. \A t \in DOMAIN texts : lastPut[t] >= 0
  BY <1>1 DEF Inv, QueryInv, TypeOK, TextHistory
<1>4. DOMAIN queries \subseteq Ever(lastUse, Query) /\ DOMAIN texts \subseteq Ever(lastPut, Text)
  BY <1>1, <1>2, <1>3 DEF Ever
<1>5. IsFiniteSet(DOMAIN queries) /\ IsFiniteSet(DOMAIN texts)
  BY <1>4, FS_Subset DEF Inv, QueryInv, QueryHistory, TextHistory
<1> QED BY <1>1, <1>2, <1>3, <1>5

\* q is used now: nothing that is not cached is outlived by less than before.
LEMMA UseKeepsOutlived ==
  ASSUME Inv, NEW q \in Query, NEW r \in Query, r # q, lastUse[r] >= 0,
         Cardinality(Since(lastUse, Query, r)) >= QueryCap - 1
  PROVE  Cardinality(Since([lastUse EXCEPT ![q] = now], Query, r)) >= QueryCap - 1
<1> DEFINE new == [lastUse EXCEPT ![q] = now]
<1>1. IsFiniteSet(Ever(lastUse, Query)) /\ QueryCap - 1 \in Int
  BY CacheAssumption DEF Inv, QueryInv, QueryHistory
<1>2. new \in [Query -> Int] /\ new[r] = lastUse[r] /\ \A y \in Query : new[y] >= lastUse[y]
  BY Keys
<1>3. \A y \in Query \ {q} : new[y] = lastUse[y]
  BY Keys
<1> HIDE DEF new
<1>4. IsFiniteSet(Ever(new, Query))
  BY <1>1, <1>2, <1>3, Keys, EverPut
<1>5. Cardinality(Since(new, Query, r)) >= QueryCap - 1
  BY <1>1, <1>2, <1>4, Keys, SinceGrows
<1> QED BY <1>5 DEF new

LEMMA GetQueryStep ==
  ASSUME Inv, NEW q \in Query, GetQuery(q)
  PROVE  Inv'
<1>1. /\ q \in DOMAIN queries /\ queries' = [queries EXCEPT ![q].used = now]
      /\ lastUse' = [lastUse EXCEPT ![q] = now]
      /\ UNCHANGED <<now, embeddings, texts, lastPut, dropped, changedSince>>
  BY DEF GetQuery
<1>2. /\ DOMAIN queries' = DOMAIN queries
      /\ queries' \in [DOMAIN queries -> [files : SUBSET FileId, used : 0..now]]
      /\ \A r \in DOMAIN queries : queries'[r].files = queries[r].files
      /\ \A r \in DOMAIN queries : queries'[r].used = IF r = q THEN now ELSE queries[r].used
  BY <1>1, Keys DEF Inv, QueryInv, TypeOK
<1>3. TypeOK'
  BY <1>1, <1>2 DEF Inv, QueryInv, TypeOK
<1>4. QueryHistory'
  <2>1. lastUse' \in [Query -> -1..now']
    BY <1>1, Keys DEF Inv, QueryInv, QueryHistory
  <2>2. IsFiniteSet(Ever(lastUse', Query))
    <3>1. lastUse' \in [Query -> Int] /\ \A y \in Query \ {q} : lastUse'[y] = lastUse[y]
      BY <1>1, Keys
    <3> QED BY <3>1, Keys, EverPut DEF Inv, QueryInv, QueryHistory
  <2>3. \A r \in DOMAIN queries' : queries'[r].used = lastUse'[r] /\ r \notin dropped'
    BY <1>1, <1>2, Keys DEF Inv, QueryInv, QueryHistory
  <2>4. ASSUME NEW r \in Query \ DOMAIN queries', lastUse'[r] >= 0, r \notin dropped'
        PROVE  Cardinality(Since(lastUse', Query, r)) >= QueryCap - 1
    <3>1. r # q /\ lastUse[r] >= 0 /\ Cardinality(Since(lastUse, Query, r)) >= QueryCap - 1
      BY <1>1, <1>2, <2>4, Keys DEF Inv, QueryInv, QueryHistory
    <3> QED BY <1>1, <3>1, Keys, UseKeepsOutlived
  <2> QED BY <1>1, <2>1, <2>2, <2>3, <2>4 DEF Inv, QueryInv, QueryHistory
<1>5. NoChangedFile'
  BY <1>1, <1>2 DEF Inv, QueryInv, NoChangedFile
<1>6. TextHistory'
  BY <1>1, TextsUntouched
<1> QED BY <1>3, <1>4, <1>5, <1>6 DEF Inv, QueryInv

LEMMA PutQueryStep ==
  ASSUME Inv, NEW q \in Query, NEW files \in SUBSET FileId, PutQuery(q, files)
  PROVE  Inv'
<1>1. PICK kept \in MakesRoom(DOMAIN queries, Used, QueryCap) :
        queries' = With(Only(queries, kept), q, [files |-> files, used |-> now])
  BY DEF PutQuery
<1>2. /\ lastUse' = [lastUse EXCEPT ![q] = now] /\ dropped' = dropped \ {q}
      /\ changedSince' = [p \in Query |-> IF p = q \/ p \notin DOMAIN queries' THEN {} ELSE changedSince[p]]
      /\ UNCHANGED <<now, embeddings, texts, lastPut>>
  BY DEF PutQuery
<1>3. /\ kept \subseteq DOMAIN queries /\ Cardinality(kept \cup {q}) <= Room(QueryCap)
      /\ \A k \in DOMAIN queries \ kept :
           /\ Cardinality(DOMAIN queries) >= QueryCap
           /\ \A y \in DOMAIN queries : Used[k] <= Used[y]
  <2>1. /\ IsFiniteSet(DOMAIN queries) /\ QueryCap \in Nat
        /\ Cardinality(DOMAIN queries) <= Room(QueryCap)
    BY Keys, CacheAssumption DEF Inv, QueryInv, TypeOK
  <2> QED BY <2>1, RoomMade
<1>4. /\ DOMAIN queries' = kept \cup {q} /\ queries'[q] = [files |-> files, used |-> now]
      /\ \A r \in kept : r # q => queries'[r] = queries[r]
      /\ queries' = [r \in DOMAIN queries' |-> queries'[r]]
  BY <1>1 DEF With, Only
<1>5. /\ now \in Nat /\ kept \subseteq Query
      /\ \A r \in kept : queries[r] \in [files : SUBSET FileId, used : 0..now]
  BY <1>3, Keys DEF Inv, QueryInv, TypeOK
<1>6. queries' \in [DOMAIN queries' -> [files : SUBSET FileId, used : 0..now]]
  BY <1>4, <1>5
<1>7. TypeOK'
  BY <1>2, <1>3, <1>4, <1>5, <1>6 DEF Inv, QueryInv, TypeOK
<1>8. QueryHistory'
  <2>1. lastUse' \in [Query -> -1..now'] /\ changedSince' \in [Query -> SUBSET FileId]
    BY <1>2, Keys DEF Inv, QueryInv, QueryHistory
  <2>2. IsFiniteSet(Ever(lastUse', Query))
    <3>1. lastUse' \in [Query -> Int] /\ \A y \in Query \ {q} : lastUse'[y] = lastUse[y]
      BY <1>2, Keys
    <3> QED BY <3>1, Keys, EverPut DEF Inv, QueryInv, QueryHistory
  <2>3. \A r \in DOMAIN queries' : queries'[r].used = lastUse'[r] /\ r \notin dropped'
    BY <1>2, <1>3, <1>4, Keys DEF Inv, QueryInv, QueryHistory
  <2>4. ASSUME NEW r \in Query \ DOMAIN queries', lastUse'[r] >= 0, r \notin dropped'
        PROVE  Cardinality(Since(lastUse', Query, r)) >= QueryCap - 1
    <3>1. r # q /\ lastUse[r] >= 0 /\ r \notin dropped /\ r \notin kept
      BY <1>2, <1>4, <2>4, Keys
    <3>2. CASE r \notin DOMAIN queries
      <4>1. Cardinality(Since(lastUse, Query, r)) >= QueryCap - 1
        BY <3>1, <3>2 DEF Inv, QueryInv, QueryHistory
      <4> QED BY <1>2, <3>1, <4>1, UseKeepsOutlived
    <3>3. CASE r \in DOMAIN queries
      <4>1. /\ Cardinality(DOMAIN queries) >= QueryCap
            /\ \A y \in DOMAIN queries : lastUse[r] <= lastUse[y]
        BY <1>3, <3>1, <3>3 DEF Used, Inv, QueryInv, QueryHistory
      <4>2. Cardinality(Since(lastUse, Query, r)) >= Cardinality(DOMAIN queries) - 1
        BY <3>1, <3>3, <4>1, Keys, OldestOutlived DEF Inv, QueryInv, QueryHistory
      <4>3. Cardinality(DOMAIN queries) \in Nat /\ Cardinality(Since(lastUse, Query, r)) \in Nat
        BY <3>1, Keys, FS_CardinalityType, SinceFinite DEF Inv, QueryInv, QueryHistory
      <4>4. Cardinality(Since(lastUse, Query, r)) >= QueryCap - 1
        BY <4>1, <4>2, <4>3, CacheAssumption
      <4> QED BY <1>2, <3>1, <4>4, UseKeepsOutlived
    <3> QED BY <3>2, <3>3
  <2> QED BY <2>1, <2>2, <2>3, <2>4 DEF QueryHistory
<1>9. NoChangedFile'
  BY <1>2, <1>3, <1>4, <1>5 DEF Inv, QueryInv, NoChangedFile, QueryHistory
<1>10. TextHistory'
  BY <1>2, TextsUntouched, CacheAssumption
<1> QED BY <1>7, <1>8, <1>9, <1>10 DEF Inv, QueryInv

\* A call on the cache of parsed queries: UseKeepsOutlived for texts.
LEMMA PutKeepsOutlived ==
  ASSUME Inv, NEW t \in Text, NEW r \in Text, r # t, lastPut[r] >= 0,
         Cardinality(Since(lastPut, Text, r)) >= TextCap - 1
  PROVE  Cardinality(Since([lastPut EXCEPT ![t] = now], Text, r)) >= TextCap - 1
<1> DEFINE new == [lastPut EXCEPT ![t] = now]
<1>1. IsFiniteSet(Ever(lastPut, Text)) /\ TextCap - 1 \in Int
  BY CacheAssumption DEF Inv, TextHistory
<1>2. new \in [Text -> Int] /\ new[r] = lastPut[r] /\ \A y \in Text : new[y] >= lastPut[y]
  BY Keys
<1>3. \A y \in Text \ {t} : new[y] = lastPut[y]
  BY Keys
<1> HIDE DEF new
<1>4. IsFiniteSet(Ever(new, Text))
  BY <1>1, <1>2, <1>3, Keys, EverPut
<1>5. Cardinality(Since(new, Text, r)) >= TextCap - 1
  BY <1>1, <1>2, <1>4, Keys, SinceGrows
<1> QED BY <1>5 DEF new

LEMMA PutTextStep ==
  ASSUME Inv, NEW t \in Text, PutText(t)
  PROVE  Inv'
<1> DEFINE young == {x \in DOMAIN texts : now - texts[x] < Ttl}
<1>1. PICK kept \in MakesRoom(young, texts, TextCap) : texts' = With(Only(texts, kept), t, now)
  BY DEF PutText
<1>2. /\ lastPut' = [lastPut EXCEPT ![t] = now] /\ dropped' = dropped \ {t}
      /\ UNCHANGED <<now, queries, embeddings, lastUse, changedSince>>
  BY DEF PutText
<1>3. /\ IsFiniteSet(young) /\ Cardinality(young) <= Room(TextCap) /\ TextCap \in Nat
      /\ young \in SUBSET Text /\ young \subseteq DOMAIN texts
  <2>1. /\ TextCap \in Nat /\ Cardinality(DOMAIN texts) <= Room(TextCap)
        /\ Cardinality(DOMAIN texts) \in Nat /\ Room(TextCap) \in Nat
    BY Keys, CacheAssumption, FS_CardinalityType DEF Inv, QueryInv, TypeOK, Room
  <2>2. /\ IsFiniteSet(young) /\ Cardinality(young) <= Cardinality(DOMAIN texts)
        /\ Cardinality(young) \in Nat
    BY Keys, FS_Subset, FS_CardinalityType
  <2> QED BY <2>1, <2>2, Keys
<1>4. /\ kept \subseteq young /\ Cardinality(kept \cup {t}) <= Room(TextCap)
      /\ \A k \in young \ kept :
           /\ Cardinality(young) >= TextCap
           /\ \A y \in young : texts[k] <= texts[y]
  <2> HIDE DEF young
  <2> QED BY <1>3, RoomMade
<1>5. /\ DOMAIN texts' = kept \cup {t} /\ texts'[t] = now
      /\ \A r \in kept : r # t => texts'[r] = texts[r]
      /\ texts' = [r \in DOMAIN texts' |-> texts'[r]]
  BY <1>1 DEF With, Only
<1>6. now \in Nat /\ kept \subseteq Text /\ \A r \in kept : texts[r] \in 0..now
  BY <1>3, <1>4, Keys DEF Inv, QueryInv, TypeOK
<1>7. texts' \in [DOMAIN texts' -> 0..now]
  BY <1>5, <1>6
<1>8. TypeOK'
  BY <1>2, <1>4, <1>5, <1>6, <1>7 DEF Inv, QueryInv, TypeOK
<1>9. TextHistory'
  <2>1. lastPut' \in [Text -> -1..now']
    BY <1>2, Keys DEF Inv, TextHistory
  <2>2. IsFiniteSet(Ever(lastPut', Text))
    <3>1. lastPut' \in [Text -> Int] /\ \A y \in Text \ {t} : lastPut'[y] = lastPut[y]
      BY <1>2, Keys
    <3> QED BY <3>1, Keys, EverPut DEF Inv, TextHistory
  <2>3. \A r \in DOMAIN texts' : texts'[r] = lastPut'[r] /\ r \notin dropped'
    BY <1>2, <1>3, <1>4, <1>5, Keys DEF Inv, TextHistory
  <2>4. ASSUME NEW r \in Text \ DOMAIN texts', lastPut'[r] >= 0, r \notin dropped',
               now' - lastPut'[r] < Ttl
        PROVE  Cardinality(Since(lastPut', Text, r)) >= TextCap - 1
    <3>1. /\ r # t /\ lastPut[r] >= 0 /\ r \notin dropped /\ r \notin kept
          /\ now - lastPut[r] < Ttl
      BY <1>2, <1>5, <2>4, Keys
    <3>2. CASE r \notin DOMAIN texts
      <4>1. Cardinality(Since(lastPut, Text, r)) >= TextCap - 1
        BY <3>1, <3>2 DEF Inv, TextHistory
      <4> QED BY <1>2, <3>1, <4>1, PutKeepsOutlived
    <3>3. CASE r \in DOMAIN texts
      <4>1. r \in young /\ \A y \in young : texts[y] = lastPut[y]
        BY <3>1, <3>3 DEF Inv, TextHistory
      <4>2. Cardinality(young) >= TextCap /\ \A y \in young : lastPut[r] <= lastPut[y]
        BY <1>4, <3>1, <4>1
      <4>3. IsFiniteSet(Ever(lastPut, Text))
        BY DEF Inv, TextHistory
      <4> HIDE DEF young
      <4>4. Cardinality(Since(lastPut, Text, r)) >= Cardinality(young) - 1
        BY <1>3, <3>1, <4>1, <4>2, <4>3, Keys, OldestOutlived
      <4>5. Cardinality(young) \in Nat /\ Cardinality(Since(lastPut, Text, r)) \in Nat
        BY <1>3, <3>1, <4>3, Keys, FS_CardinalityType, SinceFinite
      <4>6. Cardinality(Since(lastPut, Text, r)) >= TextCap - 1
        BY <1>3, <4>2, <4>4, <4>5
      <4> QED BY <1>2, <3>1, <4>6, PutKeepsOutlived
    <3> QED BY <3>2, <3>3
  <2> QED BY <2>1, <2>2, <2>3, <2>4 DEF TextHistory
<1>10. QueryHistory' /\ NoChangedFile'
  BY <1>2, QueriesUntouched, CacheAssumption
<1> QED BY <1>8, <1>9, <1>10 DEF Inv, QueryInv

\* Steps that put nothing: files change, caches are cleared, time passes.
LEMMA OnFileChangedStep ==
  ASSUME Inv, NEW f \in FileId, NEW known \in SUBSET Hash, OnFileChanged(f, known)
  PROVE  Inv'
<1> DEFINE kept == {q \in DOMAIN queries : Survives(q, f)}
<1>1. /\ queries' = Only(queries, kept) /\ dropped' = dropped \cup (DOMAIN queries \ kept)
      /\ embeddings' = embeddings \ known
      /\ changedSince' = [q \in Query |-> IF q \in DOMAIN queries' THEN changedSince[q] \cup {f} ELSE {}]
      /\ UNCHANGED <<now, texts, lastUse, lastPut>>
  BY DEF OnFileChanged
<1>2. /\ DOMAIN queries' = kept /\ kept \subseteq DOMAIN queries
      /\ \A q \in kept : queries'[q] = queries[q] /\ f \notin queries[q].files
      /\ queries' = [q \in kept |-> queries[q]]
  BY <1>1 DEF Only, Survives
<1>3. /\ Cardinality(kept) <= Cardinality(DOMAIN queries)
      /\ Cardinality(kept) \in Nat /\ Cardinality(DOMAIN queries) \in Nat /\ Room(QueryCap) \in Nat
  BY Keys, FS_Subset, FS_CardinalityType, CacheAssumption DEF Room
<1>4. TypeOK'
  <2> HIDE DEF kept
  <2> QED BY <1>1, <1>2, <1>3 DEF Inv, QueryInv, TypeOK
<1>5. QueryHistory'
  <2> HIDE DEF kept
  <2> QED BY <1>1, <1>2, Keys DEF Inv, QueryInv, QueryHistory
<1>6. NoChangedFile'
  <2> HIDE DEF kept
  <2> QED BY <1>1, <1>2, Keys DEF Inv, QueryInv, NoChangedFile
<1>7. TextHistory'
  BY <1>1, Keys, TextsUntouched, CacheAssumption
<1> QED BY <1>4, <1>5, <1>6, <1>7 DEF Inv, QueryInv

LEMMA ClearStep ==
  ASSUME Inv, ClearQueries \/ ClearTexts
  PROVE  Inv'
<1>1. Cardinality({}) = 0 /\ Room(QueryCap) \in Nat /\ Room(TextCap) \in Nat
  BY FS_EmptySet, CacheAssumption DEF Room
<1>2. CASE ClearQueries
  <2>1. DOMAIN queries' = {} /\ dropped' = dropped \cup DOMAIN queries
        /\ UNCHANGED <<now, embeddings, texts, lastUse, lastPut, changedSince>>
    BY <1>2 DEF ClearQueries
  <2>2. queries' \in [{} -> [files : SUBSET FileId, used : 0..now]]
    BY <1>2 DEF ClearQueries
  <2>3. TypeOK'
    BY <1>1, <2>1, <2>2 DEF Inv, QueryInv, TypeOK
  <2>4. QueryHistory' /\ NoChangedFile'
    BY <2>1 DEF Inv, QueryInv, QueryHistory, NoChangedFile
  <2>5. TextHistory'
    BY <2>1, Keys, TextsUntouched, CacheAssumption
  <2> QED BY <2>3, <2>4, <2>5 DEF Inv, QueryInv
<1>3. CASE ClearTexts
  <2>1. DOMAIN texts' = {} /\ dropped' = dropped \cup DOMAIN texts
        /\ UNCHANGED <<now, queries, embeddings, lastUse, lastPut, changedSince>>
    BY <1>3 DEF ClearTexts
  <2>2. texts' \in [{} -> 0..now]
    BY <1>3 DEF ClearTexts
  <2>3. TypeOK'
    BY <1>1, <2>1, <2>2 DEF Inv, QueryInv, TypeOK
  <2>4. TextHistory'
    BY <2>1 DEF Inv, TextHistory
  <2>5. QueryHistory' /\ NoChangedFile'
    BY <2>1, Keys, QueriesUntouched, CacheAssumption
  <2> QED BY <2>3, <2>4, <2>5 DEF Inv, QueryInv
<1> QED BY <1>2, <1>3

LEMMA TickStep ==
  ASSUME Inv, Tick
  PROVE  Inv'
<1>1. /\ now' = now + 1 /\ now' \in 0..MaxTime /\ 0..now \subseteq 0..now' /\ -1..now \subseteq -1..now'
      /\ UNCHANGED <<queries, embeddings, texts, lastUse, lastPut, dropped, changedSince>>
  BY Keys, CacheAssumption DEF Tick, Inv, QueryInv, TypeOK
<1>2. TypeOK'
  BY <1>1 DEF Inv, QueryInv, TypeOK
<1>3. QueryHistory' /\ NoChangedFile'
  BY <1>1 DEF Inv, QueryInv, QueryHistory, NoChangedFile
<1>4. ASSUME NEW t \in Text PROVE now' - lastPut[t] < Ttl => now - lastPut[t] < Ttl
  BY <1>1, Keys, CacheAssumption
<1>5. TextHistory'
  BY <1>1, <1>4 DEF Inv, TextHistory
<1> QED BY <1>2, <1>3, <1>5 DEF Inv, QueryInv

LEMMA NextInv == Inv /\ [Next]_vars => Inv'
<1> SUFFICES ASSUME Inv, [Next]_vars PROVE Inv'
  OBVIOUS
<1>1. CASE UNCHANGED vars
  BY <1>1 DEF vars, Inv, QueryInv, TypeOK, QueryHistory, TextHistory, NoChangedFile
<1>2. ASSUME NEW h \in Hash, PutEmbedding(h) PROVE Inv'
  <2>1. TypeOK'
    BY <1>2 DEF PutEmbedding, Inv, QueryInv, TypeOK
  <2>2. QueryHistory' /\ NoChangedFile' /\ TextHistory'
    BY <1>2, QueriesUntouched, TextsUntouched DEF PutEmbedding
  <2> QED BY <2>1, <2>2 DEF Inv, QueryInv
<1>3. ASSUME NEW f \in FileId, NEW known \in {{}} \cup {{h} : h \in Hash}, OnFileChanged(f, known)
      PROVE  Inv'
  <2>1. known \in SUBSET Hash
    OBVIOUS
  <2> QED BY <1>3, <2>1, OnFileChangedStep
<1> QED
  BY <1>1, <1>2, <1>3, GetQueryStep, PutQueryStep, PutTextStep, ClearStep, TickStep DEF Next

-----------------------------------------------------------------------------
(* Neither cache ever holds more than its size, nor an entry of the future,*)
(* whatever the order of puts, hits, evictions and invalidations           *)
(* (cache.rs:39-46, 163-174).                                              *)
THEOREM CachesTyped == Spec => []TypeOK
BY InitInv, NextInv, PTL DEF Spec, Inv, QueryInv

(* Of a cache of any size, a query is still there while fewer than         *)
(* max_size - 1 others were used after it (cache.rs:39-46).                *)
THEOREM RecentQueriesStay == Spec => []RecentKept
<1>1. Inv => RecentKept
  <2> SUFFICES ASSUME Inv, NEW q \in Query, lastUse[q] >= 0, q \notin dropped,
                      q \notin DOMAIN queries
               PROVE  ~ (Cardinality(UsedSince(q)) < QueryCap - 1)
    BY DEF RecentKept
  <2>1. Cardinality(Since(lastUse, Query, q)) >= QueryCap - 1
    BY DEF Inv, QueryInv, QueryHistory
  <2>2. Cardinality(Since(lastUse, Query, q)) \in Nat
    BY Keys, SinceFinite DEF Inv, QueryInv, QueryHistory
  <2>3. UsedSince(q) = Since(lastUse, Query, q)
    BY DEF UsedSince, Since
  <2> QED BY <2>1, <2>2, <2>3, CacheAssumption
<1> QED BY <1>1, InitInv, NextInv, PTL DEF Spec

(* No cached result names a file that changed since it was put, however    *)
(* many changes, evictions and hits came between (cache.rs:62-66, 206-211).*)
THEOREM NoStaleResult == Spec => []NoChangedFile
BY InitInv, NextInv, PTL DEF Spec, Inv, QueryInv

(* Of a cache of any size and time to live, a parsed query is answered for *)
(* all of that time while fewer than max_size - 1 others were put after it *)
(* (cache.rs:154-174).                                                     *)
THEOREM YoungTextsStay == Spec => []YoungAnswered
<1>1. Inv => YoungAnswered
  <2> SUFFICES ASSUME Inv, NEW t \in Text, lastPut[t] >= 0, t \notin dropped,
                      now - lastPut[t] < Ttl,
                      Cardinality({s \in Text \ {t} : lastPut[s] >= lastPut[t]}) < TextCap - 1
               PROVE  TextHit(t)
    BY DEF YoungAnswered
  <2>1. Since(lastPut, Text, t) = {s \in Text \ {t} : lastPut[s] >= lastPut[t]}
    BY DEF Since
  <2>2. Cardinality(Since(lastPut, Text, t)) \in Nat
    BY Keys, SinceFinite DEF Inv, TextHistory
  <2>3. t \in DOMAIN texts
    <3> SUFFICES ASSUME t \notin DOMAIN texts PROVE FALSE
      OBVIOUS
    <3>1. Cardinality(Since(lastPut, Text, t)) >= TextCap - 1
      BY DEF Inv, TextHistory
    <3> QED BY <2>1, <2>2, <3>1, CacheAssumption
  <2> QED BY <2>3 DEF TextHit, Inv, TextHistory
<1> QED BY <1>1, InitInv, NextInv, PTL DEF Spec
=============================================================================
