---------------------------- MODULE SearchProofs ----------------------------
(***************************************************************************)
(* Proofs about Search, for any finite set of files, any number of them    *)
(* replaced during a search, and any number of results wanted.             *)
(***************************************************************************)
EXTENDS Search, FiniteSetTheorems, TLAPS

-----------------------------------------------------------------------------
\* The elements of sub are elements of list, in the same order.
Embeds(sub, list) ==
  \E at \in [1..Len(sub) -> 1..Len(list)] :
    /\ \A i \in 1..Len(sub) : sub[i] = list[at[i]]
    /\ \A i, j \in 1..Len(sub) : i < j => at[i] < at[j]

LEMMA EmbedsTwice ==
  ASSUME NEW T, NEW r \in Seq(T), NEW s \in Seq(T), NEW t \in Seq(T), Embeds(r, s), Embeds(s, t)
  PROVE  Embeds(r, t)
<1>1. PICK f \in [1..Len(r) -> 1..Len(s)] :
        /\ \A i \in 1..Len(r) : r[i] = s[f[i]]
        /\ \A i, j \in 1..Len(r) : i < j => f[i] < f[j]
  BY DEF Embeds
<1>2. PICK g \in [1..Len(s) -> 1..Len(t)] :
        /\ \A i \in 1..Len(s) : s[i] = t[g[i]]
        /\ \A i, j \in 1..Len(s) : i < j => g[i] < g[j]
  BY DEF Embeds
<1> DEFINE h == [i \in 1..Len(r) |-> g[f[i]]]
<1>3. h \in [1..Len(r) -> 1..Len(t)]
  BY <1>1, <1>2
<1>4. \A i \in 1..Len(r) : r[i] = t[h[i]]
  BY <1>1, <1>2
<1>5. \A i, j \in 1..Len(r) : i < j => h[i] < h[j]
  BY <1>1, <1>2
<1> HIDE DEF h
<1> QED BY <1>3, <1>4, <1>5 DEF Embeds

\* A finite set of numbers has a first, a second, ... element.
LEMMA NthExists ==
  ASSUME NEW n \in Nat, NEW S \in SUBSET (1..n)
  PROVE  /\ IsFiniteSet(S) /\ Cardinality(S) \in 0..n
         /\ \A k \in 1..Cardinality(S) : Nth(S, k) \in S
         /\ \A k, m \in 1..Cardinality(S) : k < m => Nth(S, k) < Nth(S, m)
<1>1. IsFiniteSet(S) /\ Cardinality(S) \in 0..n
  <2>1. IsFiniteSet(1..n) /\ Cardinality(1..n) = n
    BY FS_Interval
  <2>2. IsFiniteSet(S) /\ Cardinality(S) <= n
    BY <2>1, FS_Subset
  <2>3. Cardinality(S) \in Nat
    BY <2>2, FS_CardinalityType
  <2> QED BY <2>2, <2>3
<1>0. S \subseteq Int
  OBVIOUS
<1> DEFINE UpTo(i) == {j \in S : j <= i}
           f == [i \in S |-> Cardinality(UpTo(i))]
<1>2. \A i \in S : /\ UpTo(i) \subseteq S /\ IsFiniteSet(UpTo(i)) /\ i \in UpTo(i)
                   /\ Cardinality(UpTo(i)) \in 1..Cardinality(S)
  <2> SUFFICES ASSUME NEW i \in S
               PROVE  /\ UpTo(i) \subseteq S /\ IsFiniteSet(UpTo(i)) /\ i \in UpTo(i)
                      /\ Cardinality(UpTo(i)) \in 1..Cardinality(S)
    OBVIOUS
  <2>1. UpTo(i) \subseteq S /\ i \in UpTo(i)
    OBVIOUS
  <2> HIDE DEF UpTo
  <2>2. IsFiniteSet(UpTo(i)) /\ Cardinality(UpTo(i)) <= Cardinality(S)
    BY <1>1, <2>1, FS_Subset
  <2>3. Cardinality(UpTo(i)) \in Nat /\ Cardinality(UpTo(i)) # 0
    BY <2>1, <2>2, FS_CardinalityType, FS_EmptySet
  <2> QED BY <1>1, <2>1, <2>2, <2>3
<1>3. \A i, j \in S : i < j => Cardinality(UpTo(i)) < Cardinality(UpTo(j))
  <2> SUFFICES ASSUME NEW i \in S, NEW j \in S, i < j
               PROVE  Cardinality(UpTo(i)) < Cardinality(UpTo(j))
    OBVIOUS
  <2>1. UpTo(i) \subseteq UpTo(j) /\ j \notin UpTo(i)
    <3>1. i \in Int /\ j \in Int /\ \A k \in S : k \in Int
      BY <1>0
    <3>2. \A k \in S : k <= i => k <= j
      BY <3>1
    <3>3. ~(j <= i)
      BY <3>1
    <3> QED BY <3>2, <3>3
  <2> HIDE DEF UpTo
  <2>2. IsFiniteSet(UpTo(j)) /\ j \in UpTo(j) /\ Cardinality(UpTo(j)) \in Nat
        /\ Cardinality(UpTo(i)) \in Nat
    BY <1>2, <1>1
  <2>3. /\ Cardinality(UpTo(i)) <= Cardinality(UpTo(j))
        /\ Cardinality(UpTo(j)) = Cardinality(UpTo(i)) => UpTo(i) = UpTo(j)
    BY <2>1, <2>2, FS_Subset
  <2> QED BY <2>1, <2>2, <2>3
<1> HIDE DEF UpTo
<1>4. f \in [S -> 1..Cardinality(S)]
  BY <1>2
<1>5. \A i, j \in S : f[i] = f[j] => i = j
  <2> SUFFICES ASSUME NEW i \in S, NEW j \in S, f[i] = f[j] PROVE i = j
    OBVIOUS
  <2>1. f[i] = Cardinality(UpTo(i)) /\ f[j] = Cardinality(UpTo(j))
    OBVIOUS
  <2>2. i \in Int /\ j \in Int /\ f[i] \in Int /\ f[j] \in Int
    BY <1>1, <1>4
  <2> QED BY <2>1, <2>2, <1>3
<1>6. f \in Surjection(S, 1..Cardinality(S))
  <2>1. f \in Injection(S, 1..Cardinality(S))
    BY <1>4, <1>5 DEF Injection, IsInjective
  <2>2. IsFiniteSet(1..Cardinality(S)) /\ Cardinality(1..Cardinality(S)) = Cardinality(S)
    BY <1>1, FS_Interval
  <2> HIDE DEF f
  <2> QED BY <2>1, <2>2, FS_Injection
<1>7. \A k \in 1..Cardinality(S) : Nth(S, k) \in S /\ Cardinality(UpTo(Nth(S, k))) = k
  <2> SUFFICES ASSUME NEW k \in 1..Cardinality(S)
               PROVE  Nth(S, k) \in S /\ Cardinality(UpTo(Nth(S, k))) = k
    OBVIOUS
  <2>1. \E i \in S : f[i] = k
    <3> HIDE DEF f
    <3> QED BY <1>6 DEF Surjection
  <2>2. \E i \in S : Cardinality(UpTo(i)) = k
    BY <2>1
  <2>3. \E i \in S : Cardinality({j \in S : j <= i}) = k
    BY <2>2 DEF UpTo
  <2> QED BY <2>3 DEF Nth, UpTo
<1>8. ASSUME NEW k \in 1..Cardinality(S), NEW m \in 1..Cardinality(S), k < m
      PROVE  Nth(S, k) < Nth(S, m)
  <2>1. Nth(S, k) \in Int /\ Nth(S, m) \in Int
    BY <1>0, <1>7
  <2> QED BY <1>3, <1>7, <1>8, <2>1
<1> QED BY <1>1, <1>7, <1>8

LEMMA SubEmbeds ==
  ASSUME NEW T, NEW list \in Seq(T), NEW S \in SUBSET DOMAIN list
  PROVE  /\ Sub(list, S) \in Seq(T) /\ Embeds(Sub(list, S), list)
         /\ \A i \in 1..Len(Sub(list, S)) : \E k \in S : Sub(list, S)[i] = list[k]
<1>1. S \in SUBSET (1..Len(list)) /\ Len(list) \in Nat
  OBVIOUS
<1>2. /\ Cardinality(S) \in Nat
      /\ \A k \in 1..Cardinality(S) : Nth(S, k) \in S
      /\ \A k, m \in 1..Cardinality(S) : k < m => Nth(S, k) < Nth(S, m)
  BY <1>1, NthExists
<1>3. Sub(list, S) \in Seq(T) /\ Len(Sub(list, S)) = Cardinality(S)
  BY <1>1, <1>2 DEF Sub
<1>4. \A k \in 1..Cardinality(S) : Sub(list, S)[k] = list[Nth(S, k)]
  BY DEF Sub
<1> DEFINE at == [k \in 1..Cardinality(S) |-> Nth(S, k)]
<1>5. at \in [1..Len(Sub(list, S)) -> 1..Len(list)]
  BY <1>1, <1>2, <1>3
<1>6. /\ \A i \in 1..Len(Sub(list, S)) : Sub(list, S)[i] = list[at[i]]
      /\ \A i, j \in 1..Len(Sub(list, S)) : i < j => at[i] < at[j]
  BY <1>2, <1>3, <1>4
<1>7. Embeds(Sub(list, S), list)
  <2> HIDE DEF at
  <2> QED BY <1>5, <1>6 DEF Embeds
<1> QED BY <1>2, <1>3, <1>4, <1>7

LEMMA CutEmbeds ==
  ASSUME NEW T, NEW list \in Seq(T)
  PROVE  Cut(list) \in Seq(T) /\ Embeds(Cut(list), list) /\ Len(Cut(list)) <= TopK
<1>1. Least(TopK, Len(list)) \in 0..Len(list) /\ Least(TopK, Len(list)) <= TopK
  BY SearchAssumption DEF Least
<1>2. /\ Cut(list) \in Seq(T) /\ Len(Cut(list)) = Least(TopK, Len(list))
      /\ \A i \in 1..Len(Cut(list)) : Cut(list)[i] = list[i]
  BY <1>1 DEF Cut
<1> DEFINE at == [i \in 1..Len(Cut(list)) |-> i]
<1>3. at \in [1..Len(Cut(list)) -> 1..Len(list)]
  BY <1>1, <1>2
<1>4. /\ \A i \in 1..Len(Cut(list)) : Cut(list)[i] = list[at[i]]
      /\ \A i, j \in 1..Len(Cut(list)) : i < j => at[i] < at[j]
  BY <1>2
<1>5. Embeds(Cut(list), list)
  <2> HIDE DEF at
  <2> QED BY <1>3, <1>4 DEF Embeds
<1> QED BY <1>1, <1>2, <1>5

LEMMA TailEmbeds ==
  ASSUME NEW T, NEW list \in Seq(T), list # << >>
  PROVE  /\ Tail(list) \in Seq(T) /\ Embeds(Tail(list), list)
         /\ Len(Tail(list)) = Len(list) - 1
         /\ \A i \in 1..Len(Tail(list)) : Tail(list)[i] = list[i + 1]
<1>1. /\ Tail(list) \in Seq(T) /\ Len(Tail(list)) = Len(list) - 1
      /\ \A i \in 1..Len(Tail(list)) : Tail(list)[i] = list[i + 1]
  OBVIOUS
<1> DEFINE at == [i \in 1..Len(Tail(list)) |-> i + 1]
<1>2. at \in [1..Len(Tail(list)) -> 1..Len(list)]
  BY <1>1
<1>3. /\ \A i \in 1..Len(Tail(list)) : Tail(list)[i] = list[at[i]]
      /\ \A i, j \in 1..Len(Tail(list)) : i < j => at[i] < at[j]
  BY <1>1
<1>4. Embeds(Tail(list), list)
  <2> HIDE DEF at
  <2> QED BY <1>2, <1>3 DEF Embeds
<1> QED BY <1>1, <1>4

-----------------------------------------------------------------------------
Hit == [id : DOMAIN pathOf, score : Nat]

\* A list as TypeOK wants it.
Proper(list) == list \in Seq(Hit) /\ Distinct(list) /\ Ranked(list)

\* What every hit of a list of candidates satisfies, and its order.
Found(list) ==
  \A i \in 1..Len(list) :
    /\ list[i].id \in Ids(keyword) \cup Ids(semantic)
    /\ filtered => list[i].id \in valid

Unanimous(list) ==
  \A i, j \in 1..Len(list) :
    (\A l \in {keyword, semantic} :
       l # << >> => RankedAbove(l, list[i].id, list[j].id)) => i < j

LEMMA EmbedsKeeps ==
  ASSUME NEW list, Proper(list), NEW sub \in Seq(Hit), Embeds(sub, list)
  PROVE  /\ Proper(sub)
         /\ Found(list) => Found(sub)
         /\ Unanimous(list) => Unanimous(sub)
<1>1. PICK at \in [1..Len(sub) -> 1..Len(list)] :
        /\ \A i \in 1..Len(sub) : sub[i] = list[at[i]]
        /\ \A i, j \in 1..Len(sub) : i < j => at[i] < at[j]
  BY DEF Embeds
<1>2. \A i \in 1..Len(sub) : at[i] \in 1..Len(list) /\ at[i] \in Int /\ i \in Int
  BY <1>1
<1>3. list \in Seq(Hit) /\ Distinct(list) /\ Ranked(list)
  BY DEF Proper
<1>4. Distinct(sub)
  <2> SUFFICES ASSUME NEW i \in 1..Len(sub), NEW j \in 1..Len(sub), sub[i].id = sub[j].id
               PROVE  i = j
    BY DEF Distinct
  <2>1. at[i] = at[j]
    BY <1>1, <1>2, <1>3 DEF Distinct
  <2> QED BY <2>1, <1>1, <1>2
<1>5. Ranked(sub)
  <2> SUFFICES ASSUME NEW i \in 1..Len(sub), NEW j \in 1..Len(sub), i <= j
               PROVE  sub[i].score >= sub[j].score
    BY DEF Ranked
  <2>1. at[i] <= at[j]
    BY <1>1, <1>2
  <2> QED BY <2>1, <1>1, <1>2, <1>3 DEF Ranked
<1>6. Found(list) => Found(sub)
  BY <1>1, <1>2 DEF Found
<1>7. Unanimous(list) => Unanimous(sub)
  <2> SUFFICES ASSUME Unanimous(list), NEW i \in 1..Len(sub), NEW j \in 1..Len(sub),
                      \A l \in {keyword, semantic} :
                        l # << >> => RankedAbove(l, sub[i].id, sub[j].id)
               PROVE  i < j
    BY DEF Unanimous
  <2>1. at[i] < at[j]
    BY <1>1, <1>2 DEF Unanimous
  <2> QED BY <2>1, <1>1, <1>2
<1> QED BY <1>3, <1>4, <1>5, <1>6, <1>7 DEF Proper

-----------------------------------------------------------------------------
\* The rows: ids are given in turn, and a path has at most one row.
Rows ==
  /\ \E n \in Nat : DOMAIN pathOf = 1..n
  /\ pathOf \in [DOMAIN pathOf -> IndexedPath] /\ DOMAIN pathOf \subseteq Id
  /\ live \subseteq DOMAIN pathOf
  /\ \A i, j \in live : pathOf[i] = pathOf[j] => i = j

\* The lists of one search, and when they are empty.
Lists0 ==
  /\ pc \in {"idle", "keyword", "semantic", "fuse", "resolve", "sort"}
  /\ filtered \in BOOLEAN /\ valid \subseteq DOMAIN pathOf
  /\ Proper(keyword) /\ Proper(semantic) /\ Proper(fused)
  /\ Len(keyword) <= Limit /\ Len(semantic) <= Limit
  /\ results \in Seq([id : DOMAIN pathOf, path : IndexedPath, score : Nat])
  /\ Len(fused) + Len(results) <= TopK
  /\ pc # "resolve" => fused = << >>
  /\ pc \notin {"resolve", "sort"} => results = << >>

\* A candidate whose path is among the results already has lost its row.
NotAgain ==
  \A i \in 1..Len(results), j \in 1..Len(fused) :
    pathOf[fused[j].id] = results[i].path => fused[j].id \notin live

Inv == Rows /\ Lists0 /\ NoFileTwice /\ NotAgain /\ Found(fused) /\ ResultsAreFound

LEMMA InvTypes == Inv => TypeOK
<1> SUFFICES ASSUME Inv PROVE TypeOK
  OBVIOUS
<1>1. ASSUME NEW list, Proper(list)
      PROVE  /\ Ids(list) \subseteq DOMAIN pathOf /\ Distinct(list) /\ Ranked(list)
             /\ \A i \in 1..Len(list) : list[i].score \in Nat
  <2>1. \A i \in 1..Len(list) : list[i].id \in DOMAIN pathOf /\ list[i].score \in Nat
    <3>1. \A i \in 1..Len(list) : list[i] \in Hit
      BY <1>1 DEF Proper
    <3> QED BY <3>1 DEF Hit
  <2> QED BY <1>1, <2>1 DEF Proper, Ids
<1>2. /\ Len(fused) \in Nat /\ Len(results) \in Nat /\ Len(fused) + Len(results) <= TopK
      /\ TopK \in Nat
  BY SearchAssumption DEF Inv, Lists0, Proper
<1>3. Len(fused) <= TopK /\ Len(results) <= TopK
  BY <1>2
<1>4. Proper(keyword) /\ Proper(semantic) /\ Proper(fused)
  BY DEF Inv, Lists0
<1> QED BY <1>1, <1>3, <1>4 DEF Inv, Rows, Lists0, TypeOK

LEMMA InitInv == Init => Inv
<1> SUFFICES ASSUME Init PROVE Inv
  OBVIOUS
<1> DEFINE n == Cardinality(IndexedPath)
<1>1. n \in Nat
  BY SearchAssumption, FS_CardinalityType
<1>2. /\ pathOf \in [1..n -> IndexedPath] /\ live = 1..n
      /\ \A i, j \in 1..n : pathOf[i] = pathOf[j] => i = j
  BY DEF Init, Bijection, Injection, IsInjective
<1>3. 1..n \subseteq Id
  BY <1>1, SearchAssumption DEF Id
<1> HIDE DEF n
<1>4. Rows
  BY <1>1, <1>2, <1>3 DEF Rows
<1>5. Proper(<< >>)
  BY DEF Proper, Distinct, Ranked
<1>6. Proper(keyword) /\ Proper(semantic) /\ Proper(fused)
  BY <1>5 DEF Init
<1>7. Limit \in Nat /\ TopK \in Nat
  BY SearchAssumption DEF Limit
<1>8. Len(keyword) <= Limit /\ Len(semantic) <= Limit /\ Len(fused) + Len(results) <= TopK
  BY <1>7 DEF Init
<1>9. Lists0
  <2>1. << >> \in Seq([id : DOMAIN pathOf, path : IndexedPath, score : Nat])
    OBVIOUS
  <2>2. /\ pc = "idle" /\ filtered = FALSE /\ valid = {}
        /\ fused = << >> /\ results = << >>
    BY DEF Init
  <2>3. results \in Seq([id : DOMAIN pathOf, path : IndexedPath, score : Nat])
    BY <2>1, <2>2
  <2> QED BY <1>6, <1>8, <2>2, <2>3 DEF Lists0
<1>10. Found(fused)
  BY DEF Init, Found
<1> QED BY <1>4, <1>9, <1>10 DEF Init, Inv, NoFileTwice, NotAgain, ResultsAreFound

-----------------------------------------------------------------------------
LEMMA ListsProper ==
  ASSUME NEW S \in SUBSET DOMAIN pathOf, NEW scores \in SUBSET Nat, NEW n \in Nat,
         NEW list \in Lists(S, scores, n)
  PROVE  Proper(list) /\ Len(list) <= n
<1>1. PICK k \in 0..n : list \in [1..k -> [id : S, score : scores]]
  BY DEF Lists
<1>2. [id : S, score : scores] \subseteq Hit
  BY DEF Hit
<1>3. list \in Seq(Hit) /\ Len(list) = k
  BY <1>1, <1>2
<1>4. Distinct(list) /\ Ranked(list)
  BY DEF Lists
<1> QED BY <1>3, <1>4 DEF Proper

LEMMA LeastIs ==
  ASSUME NEW m \in Nat, NEW n \in Nat
  PROVE  Least(m, n) \in Nat /\ Least(m, n) <= m
BY DEF Least

LEMMA BeginInv == ASSUME Inv, Begin PROVE Inv'
<1>1. /\ pc = "idle" /\ pc' = "keyword" /\ filtered' \in BOOLEAN /\ valid' \subseteq DOMAIN pathOf
      /\ UNCHANGED <<pathOf, live, keyword, semantic, fused, results>>
      /\ fused = << >> /\ results = << >>
  BY DEF Inv, Rows, Lists0, Begin, Goto, FilteredIds
<1>2. Lists0'
  BY <1>1 DEF Inv, Lists0, Proper, Distinct, Ranked, Hit
<1>3. Rows'
  BY <1>1 DEF Inv, Rows
<1> QED BY <1>1, <1>2, <1>3
        DEF Inv, NoFileTwice, NotAgain, Found, Unanimous, ResultsAreFound

LEMMA KeywordInv == ASSUME Inv, KeywordSearch PROVE Inv'
<1>1. /\ pc = "keyword" /\ pc' = "semantic"
      /\ UNCHANGED <<pathOf, live, filtered, valid, semantic, fused, results>>
      /\ fused = << >> /\ results = << >>
  BY DEF Inv, Lists0, KeywordSearch, Goto
<1>2. live \in SUBSET DOMAIN pathOf /\ IsFiniteSet(live) /\ Limit \in Nat
  <2>1. PICK n \in Nat : DOMAIN pathOf = 1..n
    BY DEF Inv, Rows
  <2>2. live \subseteq DOMAIN pathOf
    BY DEF Inv, Rows
  <2>3. IsFiniteSet(1..n)
    BY FS_Interval
  <2> QED BY <2>1, <2>2, <2>3, FS_Subset, SearchAssumption DEF Limit
<1>3. Cardinality(live) \in Nat
  BY <1>2, FS_CardinalityType
<1>4. /\ Least(Limit, Cardinality(live)) \in Nat /\ Least(Limit, Cardinality(live)) <= Limit
      /\ Scores \in SUBSET Nat
  BY <1>2, <1>3, LeastIs, SearchAssumption
<1>5. Proper(keyword') /\ Len(keyword') <= Least(Limit, Cardinality(live))
  BY <1>2, <1>4, ListsProper DEF KeywordSearch
<1>6. Len(keyword') <= Limit
  BY <1>2, <1>4, <1>5 DEF Proper
<1>7. Lists0'
  BY <1>1, <1>5, <1>6 DEF Inv, Lists0, Proper, Distinct, Ranked, Hit
<1>8. Rows'
  BY <1>1 DEF Inv, Rows
<1> QED BY <1>1, <1>7, <1>8
        DEF Inv, NoFileTwice, NotAgain, Found, Unanimous, ResultsAreFound

LEMMA SemanticInv == ASSUME Inv, SemanticSearch PROVE Inv'
<1>1. /\ pc = "semantic" /\ pc' = "fuse"
      /\ UNCHANGED <<pathOf, live, filtered, valid, keyword, fused, results>>
      /\ fused = << >> /\ results = << >>
  BY DEF Inv, Lists0, SemanticSearch, Goto
<1>2. IsFiniteSet(DOMAIN pathOf) /\ Limit \in Nat
  <2>1. PICK n \in Nat : DOMAIN pathOf = 1..n
    BY DEF Inv, Rows
  <2> QED BY <2>1, FS_Interval, SearchAssumption DEF Limit
<1>3. Cardinality(DOMAIN pathOf) \in Nat
  BY <1>2, FS_CardinalityType
<1> DEFINE n == Least(Limit, Cardinality(DOMAIN pathOf))
<1>4. n \in Nat /\ n <= Limit
  BY <1>2, <1>3, LeastIs
<1>5. semantic' \in Lists(DOMAIN pathOf, {Unit}, n) /\ {Unit} \in SUBSET Nat
  BY DEF SemanticSearch, Unit
<1> HIDE DEF n
<1>6. Proper(semantic') /\ Len(semantic') <= n
  BY <1>4, <1>5, ListsProper
<1>7. Len(semantic') <= Limit
  BY <1>2, <1>4, <1>6 DEF Proper
<1>8. Lists0'
  BY <1>1, <1>6, <1>7 DEF Inv, Lists0, Proper, Distinct, Ranked, Hit
<1>9. Rows'
  BY <1>1 DEF Inv, Rows
<1> QED BY <1>1, <1>8, <1>9
        DEF Inv, NoFileTwice, NotAgain, Found, Unanimous, ResultsAreFound

-----------------------------------------------------------------------------
\* The place of an id in a list without duplicates.
LEMMA RankIs ==
  ASSUME NEW list, Proper(list), NEW i \in 1..Len(list)
  PROVE  Rank(list, list[i].id) = i - 1 /\ list[i].id \in Ids(list)
<1> DEFINE j == CHOOSE k \in 1..Len(list) : list[k].id = list[i].id
<1>1. j \in 1..Len(list) /\ list[j].id = list[i].id
  OBVIOUS
<1> HIDE DEF j
<1>2. j = i
  BY <1>1 DEF Proper, Distinct
<1>3. Rank(list, list[i].id) = j - 1
  BY DEF Rank, j
<1> QED BY <1>2, <1>3 DEF Ids

LEMMA RankType ==
  ASSUME NEW list, Proper(list), NEW id \in Ids(list)
  PROVE  Rank(list, id) \in 0..(Len(list) - 1)
<1>1. PICK i \in 1..Len(list) : id = list[i].id
  BY DEF Ids
<1>2. Rank(list, id) = i - 1
  BY <1>1, RankIs
<1>3. Len(list) \in Nat
  BY DEF Proper
<1> QED BY <1>2, <1>3

LEMMA WeightType == ASSUME NEW r \in Nat PROVE Weight(r) \in Nat
<1>1. K + r + 1 \in Nat \ {0} /\ Unit \in Nat
  BY DEF K, Unit
<1>2. \A d \in Nat \ {0} : Unit \div d \in Nat
  BY <1>1
<1> QED BY <1>1, <1>2 DEF Weight

LEMMA FusionType ==
  ASSUME NEW a, Proper(a), NEW b, Proper(b), NEW id
  PROVE  InList(a, id) \in Nat /\ Fusion(a, b, id) \in Nat
<1>1. ASSUME NEW list, Proper(list) PROVE InList(list, id) \in Nat
  <2>1. CASE id \in Ids(list)
    <3>1. Rank(list, id) \in Nat
      <4>1. Rank(list, id) \in 0..(Len(list) - 1)
        BY <1>1, <2>1, RankType
      <4> QED BY <4>1
    <3> QED BY <2>1, <3>1, WeightType DEF InList
  <2>2. CASE id \notin Ids(list)
    BY <2>2 DEF InList
  <2> QED BY <2>1, <2>2
<1>2. InList(a, id) \in Nat /\ InList(b, id) \in Nat
  BY <1>1
<1> QED BY <1>2 DEF Fusion

\* The fused lists are lists of what was found, with its score.
LEMMA FusionsProper ==
  ASSUME NEW a, Proper(a), NEW b, Proper(b), NEW list \in Fusions(a, b)
  PROVE  /\ Proper(list)
         /\ \A i \in 1..Len(list) : /\ list[i].id \in Ids(a) \cup Ids(b)
                                    /\ list[i].score = Fusion(a, b, list[i].id)
<1> DEFINE ids == Ids(a) \cup Ids(b)
           score == [id \in ids |-> Fusion(a, b, id)]
           n == Cardinality(ids)
<1>1. PICK at \in Bijection(1..n, ids) :
        BestFirst(at, score) /\ list = [i \in DOMAIN at |-> [id |-> at[i], score |-> score[at[i]]]]
  BY DEF Fusions
<1>2. at \in [1..n -> ids] /\ \A i, j \in 1..n : at[i] = at[j] => i = j
  BY <1>1 DEF Bijection, Injection, IsInjective
<1>3. n \in Nat
  <2>1. \A l : Proper(l) => IsFiniteSet(Ids(l))
    <3> SUFFICES ASSUME NEW l, Proper(l) PROVE IsFiniteSet(Ids(l))
      OBVIOUS
    <3>1. IsFiniteSet(1..Len(l))
      <4>1. Len(l) \in Int
        BY DEF Proper
      <4> QED BY <4>1, FS_Interval
    <3> DEFINE f == [i \in 1..Len(l) |-> l[i].id]
    <3>2. f \in Surjection(1..Len(l), Ids(l))
      BY DEF Ids, Surjection
    <3> HIDE DEF f
    <3> QED BY <3>1, <3>2, FS_Surjection
  <2>2. IsFiniteSet(ids)
    BY <2>1, FS_Union
  <2> QED BY <2>2, FS_CardinalityType
<1>4. ids \subseteq DOMAIN pathOf
  <2>1. \A l : Proper(l) => Ids(l) \subseteq DOMAIN pathOf
    <3> SUFFICES ASSUME NEW l, Proper(l), NEW i \in 1..Len(l) PROVE l[i].id \in DOMAIN pathOf
      BY DEF Ids
    <3>1. l[i] \in Hit
      BY DEF Proper
    <3> QED BY <3>1 DEF Hit
  <2> QED BY <2>1
<1>5. score \in [ids -> Nat]
  BY FusionType
<1> HIDE DEF n
<1>6. Len(list) = n /\ list \in Seq(Hit)
  BY <1>1, <1>2, <1>3, <1>4, <1>5 DEF Hit
<1>7. \A i \in 1..n : list[i].id = at[i] /\ list[i].score = score[at[i]]
  BY <1>1, <1>2
<1>8. Distinct(list)
  <2> SUFFICES ASSUME NEW i \in 1..Len(list), NEW j \in 1..Len(list), list[i].id = list[j].id
               PROVE  i = j
    BY DEF Distinct
  <2>1. i \in 1..n /\ j \in 1..n
    BY <1>6
  <2>2. at[i] = at[j]
    BY <1>7, <2>1
  <2> QED BY <1>2, <2>1, <2>2
<1>9. Ranked(list)
  <2>1. \A i, j \in 1..n : i <= j => score[at[i]] >= score[at[j]]
    BY <1>1, <1>2 DEF BestFirst
  <2>2. \A i, j \in 1..n : i <= j => list[i].score >= list[j].score
    BY <1>7, <2>1, Zenon
  <2> QED BY <1>6, <2>2 DEF Ranked
<1>10. \A i \in 1..n : at[i] \in ids /\ score[at[i]] = Fusion(a, b, at[i])
  BY <1>2
<1> QED BY <1>6, <1>7, <1>8, <1>9, <1>10 DEF Proper

\* The lists a search fuses: of what was found, best first.
Fusable == IF semantic = << >> THEN {keyword} ELSE Fusions(semantic, keyword)

LEMMA FusableProper ==
  ASSUME Inv, NEW list \in Fusable
  PROVE  /\ Proper(list)
         /\ \A i \in 1..Len(list) : list[i].id \in Ids(keyword) \cup Ids(semantic)
<1>1. Proper(semantic) /\ Proper(keyword)
  BY DEF Inv, Lists0
<1>2. CASE semantic = << >>
  BY <1>1, <1>2 DEF Fusable, Ids
<1>3. CASE semantic # << >>
  BY <1>1, <1>3, FusionsProper DEF Fusable
<1> QED BY <1>2, <1>3

\* Filters, threshold and cut select from the fused list.
LEMMA FuseSelects ==
  ASSUME Inv, Fuse
  PROVE  \E list \in Fusable :
           /\ Embeds(fused', list) /\ fused' \in Seq(Hit) /\ Len(fused') <= TopK
           /\ \A i \in 1..Len(fused') : Passes(fused'[i].id)
<1>1. PICK list \in Fusable :
        LET in == Sub(list, {i \in DOMAIN list : Passes(list[i].id)})
        IN  fused' = Cut(Sub(in, {i \in DOMAIN in : in[i].score >= MinScore(in[1].score)}))
  BY DEF Fuse, Fusable
<1> DEFINE S == {i \in DOMAIN list : Passes(list[i].id)}
           in == Sub(list, S)
           Q == {i \in DOMAIN in : in[i].score >= MinScore(in[1].score)}
           kept == Sub(in, Q)
<1>2. fused' = Cut(kept)
  BY <1>1
<1>3. list \in Seq(Hit)
  BY FusableProper DEF Proper
<1>4. S \in SUBSET DOMAIN list /\ \A i \in S : Passes(list[i].id)
  OBVIOUS
<1>5. Q \in SUBSET DOMAIN in
  OBVIOUS
<1> HIDE DEF S, Q
<1>6. /\ in \in Seq(Hit) /\ Embeds(in, list)
      /\ \A i \in 1..Len(in) : Passes(in[i].id)
  BY <1>3, <1>4, SubEmbeds
<1> HIDE DEF in
<1>7. /\ kept \in Seq(Hit) /\ Embeds(kept, in)
  BY <1>5, <1>6, SubEmbeds
<1> HIDE DEF kept
<1>8. /\ fused' \in Seq(Hit) /\ Embeds(fused', kept) /\ Len(fused') <= TopK
  BY <1>2, <1>7, CutEmbeds
<1>9. Embeds(fused', in)
  BY <1>6, <1>7, <1>8, EmbedsTwice
<1>10. \A i \in 1..Len(fused') : Passes(fused'[i].id)
  BY <1>6, <1>9 DEF Embeds
<1>11. Embeds(fused', list)
  BY <1>3, <1>6, <1>8, <1>9, EmbedsTwice
<1> QED BY <1>8, <1>10, <1>11

LEMMA FuseInv == ASSUME Inv, Fuse PROVE Inv'
<1>1. /\ pc = "fuse" /\ pc' = "resolve" /\ results = << >>
      /\ UNCHANGED <<pathOf, live, filtered, valid, keyword, semantic, results>>
  BY DEF Inv, Lists0, Fuse, Goto, queryVars
<1>2. PICK list \in Fusable :
        /\ Embeds(fused', list) /\ fused' \in Seq(Hit) /\ Len(fused') <= TopK
        /\ \A i \in 1..Len(fused') : Passes(fused'[i].id)
  BY FuseSelects
<1>3. /\ Proper(list)
      /\ \A i \in 1..Len(list) : list[i].id \in Ids(keyword) \cup Ids(semantic)
  BY FusableProper
<1>4. fused' \in Seq(Hit) /\ Distinct(fused') /\ Ranked(fused')
  BY <1>2, <1>3, EmbedsKeeps DEF Proper
<1>5. \A i \in 1..Len(fused') : /\ fused'[i].id \in Ids(keyword) \cup Ids(semantic)
                                /\ filtered => fused'[i].id \in valid
  BY <1>2, <1>3 DEF Embeds, Passes
<1>6. Proper(fused)'
  BY <1>1, <1>4 DEF Proper, Hit, Distinct, Ranked
<1>7. Found(fused)'
  BY <1>1, <1>5 DEF Found, Ids
<1>8. Len(fused') + Len(results') <= TopK
  BY <1>1, <1>2
<1>9. Lists0'
  BY <1>1, <1>6, <1>8 DEF Inv, Lists0, Proper, Distinct, Ranked, Hit
<1>10. Rows'
  BY <1>1 DEF Inv, Rows
<1> QED BY <1>1, <1>7, <1>9, <1>10 DEF Inv, NoFileTwice, NotAgain, ResultsAreFound

LEMMA WiderSeq ==
  ASSUME NEW S, NEW T, S \subseteq T, NEW list \in Seq(S)
  PROVE  list \in Seq(T)
<1>1. \A i \in 1..Len(list) : list[i] \in T
  OBVIOUS
<1>2. Len(list) \in Nat /\ list = [i \in 1..Len(list) |-> list[i]]
  OBVIOUS
<1> QED BY <1>1, <1>2

LEMMA ResolveInv == ASSUME Inv, Resolve PROVE Inv'
<1> DEFINE Result == [id : DOMAIN pathOf, path : IndexedPath, score : Nat]
           h == Head(fused)
           new == [id |-> h.id, score |-> h.score, path |-> pathOf[h.id]]
<1>1. /\ pc = "resolve" /\ fused # << >> /\ fused' = Tail(fused)
      /\ results' = IF h.id \in live THEN Append(results, new) ELSE results
      /\ UNCHANGED <<pathOf, live, pc, filtered, valid, keyword, semantic>>
  BY DEF Resolve, HasRow, queryVars
<1>2. fused \in Seq(Hit) /\ Distinct(fused) /\ Ranked(fused) /\ Proper(fused)
      /\ results \in Seq(Result) /\ Len(fused) + Len(results) <= TopK
  BY DEF Inv, Lists0, Proper
<1>3. /\ fused' \in Seq(Hit) /\ Embeds(fused', fused) /\ Len(fused') = Len(fused) - 1
      /\ \A i \in 1..Len(fused') : fused'[i] = fused[i + 1]
  BY <1>1, <1>2, TailEmbeds
<1>4. Proper(fused') /\ Found(fused')
  BY <1>2, <1>3, EmbedsKeeps DEF Inv
<1>5. Proper(fused)' /\ Found(fused)'
  BY <1>1, <1>4 DEF Proper, Hit, Distinct, Ranked, Found, Ids
<1>6. h \in Hit /\ h = fused[1] /\ 1 \in 1..Len(fused) /\ Len(fused) \in Nat /\ Len(results) \in Nat
  BY <1>1, <1>2
<1>7. new \in Result
  BY <1>6 DEF Hit, Inv, Rows
<1> HIDE DEF new, h, Result
<1>8. /\ results' \in Seq(Result)
      /\ Len(results') \in {Len(results), Len(results) + 1}
      /\ \A i \in 1..Len(results') :
           \/ i \in 1..Len(results) /\ results'[i] = results[i]
           \/ i = Len(results) + 1 /\ results'[i] = new /\ h.id \in live
  BY <1>1, <1>2, <1>7
<1>9. Len(fused') + Len(results') <= TopK
  <2>1. Len(fused') = Len(fused) - 1 /\ Len(results') <= Len(results) + 1
        /\ Len(results') \in Nat
    BY <1>3, <1>6, <1>8
  <2> QED BY <1>2, <1>6, <2>1, SearchAssumption
<1>10. Lists0'
  <2>1. results' \in Seq([id : DOMAIN pathOf', path : IndexedPath, score : Nat])
    BY <1>1, <1>8 DEF Result
  <2> QED BY <1>1, <1>5, <1>9, <2>1 DEF Inv, Lists0, Proper, Distinct, Ranked, Hit
<1>11. Rows'
  BY <1>1 DEF Inv, Rows
<1>12. new.id = h.id /\ new.path = pathOf[h.id] /\ new.score = h.score
  BY DEF new
<1>13. NoFileTwice'
  <2> SUFFICES ASSUME NEW i \in 1..Len(results'), NEW j \in 1..Len(results'),
                      results'[i].path = results'[j].path
               PROVE  i = j
    BY DEF NoFileTwice
  <2>1. ASSUME NEW k \in 1..Len(results), results[k].path = new.path PROVE h.id \notin live
    BY <1>6, <1>12, <2>1 DEF Inv, NotAgain
  <2> QED BY <1>8, <2>1 DEF Inv, NoFileTwice
<1>14. NotAgain'
  <2> SUFFICES ASSUME NEW i \in 1..Len(results'), NEW j \in 1..Len(fused'),
                      pathOf[fused'[j].id] = results'[i].path
               PROVE  fused'[j].id \notin live
    BY <1>1 DEF NotAgain
  <2>1. fused'[j] = fused[j + 1] /\ j + 1 \in 1..Len(fused) /\ j + 1 # 1
    BY <1>3, <1>6
  <2>2. CASE i \in 1..Len(results) /\ results'[i] = results[i]
    BY <2>1, <2>2 DEF Inv, NotAgain
  <2>3. CASE results'[i] = new /\ h.id \in live
    <3>1. fused[j + 1].id # h.id
      BY <1>2, <1>6, <2>1 DEF Distinct
    <3>2. pathOf[fused[j + 1].id] = pathOf[h.id]
      BY <1>12, <2>1, <2>3
    <3> QED BY <2>1, <2>3, <3>1, <3>2 DEF Inv, Rows
  <2> QED BY <1>8, <2>2, <2>3
<1>15. ResultsAreFound'
  <2> SUFFICES ASSUME NEW i \in 1..Len(results')
               PROVE  /\ results'[i].id \in Ids(keyword) \cup Ids(semantic)
                      /\ pathOf[results'[i].id] = results'[i].path
                      /\ filtered => results'[i].id \in valid
    BY <1>1 DEF ResultsAreFound, Ids
  <2>1. CASE i \in 1..Len(results) /\ results'[i] = results[i]
    BY <2>1 DEF Inv, ResultsAreFound
  <2>2. CASE results'[i] = new
    BY <1>6, <1>12, <2>2 DEF Inv, Found
  <2> QED BY <1>8, <2>1, <2>2
<1> QED BY <1>5, <1>10, <1>11, <1>13, <1>14, <1>15 DEF Inv

LEMMA SortInv == ASSUME Inv, SortResults PROVE Inv'
<1> DEFINE Result == [id : DOMAIN pathOf, path : IndexedPath, score : Nat]
           n == Len(results)
<1>1. /\ pc = "resolve" /\ fused = << >> /\ pc' = "sort"
      /\ UNCHANGED <<pathOf, live, filtered, valid, keyword, semantic, fused>>
  BY DEF SortResults, Goto, queryVars
<1>2. PICK at \in Bijection(1..n, 1..n) : results' = [i \in 1..n |-> results[at[i]]]
  BY DEF SortResults
<1>3. at \in [1..n -> 1..n] /\ \A i, j \in 1..n : at[i] = at[j] => i = j
  BY <1>2 DEF Bijection, Injection, IsInjective
<1>4. results \in Seq(Result) /\ n \in Nat
  BY DEF Inv, Lists0
<1>5. results' \in Seq(Result) /\ Len(results') = n
  <2> HIDE DEF Result
  <2>1. \A i \in 1..n : results[at[i]] \in Result
    BY <1>3, <1>4
  <2> HIDE DEF n
  <2> QED BY <1>2, <1>4, <2>1
<1>6. \A i \in 1..n : results'[i] = results[at[i]]
  BY <1>2
<1>7. Lists0'
  <2>1. results' \in Seq([id : DOMAIN pathOf', path : IndexedPath, score : Nat])
    BY <1>1, <1>5
  <2> QED BY <1>1, <1>5, <2>1 DEF Inv, Lists0, Proper, Distinct, Ranked, Hit
<1>8. Rows'
  BY <1>1 DEF Inv, Rows
<1> HIDE DEF n, Result
<1>9. NoFileTwice'
  <2> SUFFICES ASSUME NEW i \in 1..n, NEW j \in 1..n, results'[i].path = results'[j].path
               PROVE  i = j
    BY <1>5 DEF NoFileTwice
  <2>1. at[i] \in 1..n /\ at[j] \in 1..n
    BY <1>3
  <2>2. results[at[i]].path = results[at[j]].path
    BY <1>6
  <2>3. \A k, l \in 1..n : results[k].path = results[l].path => k = l
    BY DEF Inv, NoFileTwice, n
  <2>4. at[i] = at[j]
    BY <2>1, <2>2, <2>3
  <2> QED BY <1>3, <2>4
<1>10. ResultsAreFound'
  <2>1. ASSUME NEW i \in 1..n
        PROVE  /\ results[i].id \in Ids(keyword) \cup Ids(semantic)
               /\ pathOf[results[i].id] = results[i].path
               /\ filtered => results[i].id \in valid
    BY DEF Inv, ResultsAreFound, n
  <2>2. ASSUME NEW i \in 1..n
        PROVE  /\ results'[i].id \in Ids(keyword) \cup Ids(semantic)
               /\ pathOf[results'[i].id] = results'[i].path
               /\ filtered => results'[i].id \in valid
    <3>1. at[i] \in 1..n /\ results'[i] = results[at[i]]
      BY <1>3, <1>6
    <3> QED BY <3>1, <2>1
  <2> QED BY <1>1, <1>5, <2>2 DEF ResultsAreFound, Ids
<1> QED BY <1>1, <1>7, <1>8, <1>9, <1>10 DEF Inv, NotAgain, Found, Ids

LEMMA ReturnInv == ASSUME Inv, Return \/ SearchFails PROVE Inv'
<1>1. /\ pc' = "idle" /\ fused = << >> /\ fused' = << >> /\ filtered' = FALSE /\ valid' = {}
      /\ keyword' = << >> /\ semantic' = << >> /\ results' = << >>
      /\ UNCHANGED <<pathOf, live>>
  BY DEF Inv, Lists0, Return, SearchFails, EndsSearch, Goto
<1>2. << >> \in Seq([id : DOMAIN pathOf', path : IndexedPath, score : Nat])
  OBVIOUS
<1>3. Limit \in Nat /\ TopK \in Nat
  BY SearchAssumption DEF Limit
<1>4. Proper(keyword)' /\ Proper(semantic)' /\ Proper(fused)'
  BY <1>1 DEF Proper, Distinct, Ranked
<1>5. Len(keyword') <= Limit /\ Len(semantic') <= Limit /\ Len(fused') + Len(results') <= TopK
  BY <1>1, <1>3
<1>6. results' \in Seq([id : DOMAIN pathOf', path : IndexedPath, score : Nat])
  BY <1>1, <1>2
<1>7. Lists0'
  BY <1>1, <1>4, <1>5, <1>6 DEF Lists0, Limit
<1>8. Rows'
  BY <1>1 DEF Inv, Rows
<1> QED BY <1>1, <1>7, <1>8 DEF Inv, NoFileTwice, NotAgain, Found, ResultsAreFound

LEMMA RemoveInv == ASSUME Inv, Remove PROVE Inv'
<1>1. /\ live' \subseteq live
      /\ UNCHANGED <<pathOf, pc, filtered, valid, keyword, semantic, fused, results>>
  BY DEF Remove, queryVars
<1>2. Lists0'
  BY <1>1 DEF Inv, Lists0, Proper, Distinct, Ranked, Hit
<1>3. Rows'
  BY <1>1 DEF Inv, Rows
<1>4. NotAgain'
  BY <1>1 DEF Inv, NotAgain
<1> QED BY <1>1, <1>2, <1>3, <1>4 DEF Inv, NoFileTwice, Found, ResultsAreFound, Ids

LEMMA InsertInv == ASSUME Inv, Insert PROVE Inv'
<1> DEFINE Result(rows) == [id : rows, path : IndexedPath, score : Nat]
<1>1. PICK id \in Id, p \in IndexedPath :
        /\ id = Cardinality(DOMAIN pathOf) + 1 /\ PathFree(p)
        /\ pathOf' = [i \in DOMAIN pathOf \cup {id} |-> IF i = id THEN p ELSE pathOf[i]]
        /\ live' = live \cup {id}
  BY DEF Insert, IsNextId
<1>2. UNCHANGED <<pc, filtered, valid, keyword, semantic, fused, results>>
  BY DEF Insert, queryVars
<1>3. PICK n \in Nat : DOMAIN pathOf = 1..n
  BY DEF Inv, Rows
<1>4. id = n + 1
  <2>1. Cardinality(1..n) = n
    BY FS_Interval
  <2> QED BY <1>1, <1>3, <2>1
<1>5. /\ DOMAIN pathOf' = 1..(n + 1) /\ id \notin DOMAIN pathOf
      /\ DOMAIN pathOf \subseteq DOMAIN pathOf'
      /\ \A i \in DOMAIN pathOf : pathOf'[i] = pathOf[i]
      /\ pathOf'[id] = p
  BY <1>1, <1>3, <1>4
<1>6. Rows'
  <2>1. pathOf' \in [DOMAIN pathOf' -> IndexedPath]
    BY <1>1, <1>5 DEF Inv, Rows
  <2>2. DOMAIN pathOf' \subseteq Id /\ live' \subseteq DOMAIN pathOf'
    BY <1>1, <1>5 DEF Inv, Rows
  <2>3. \A i, j \in live' : pathOf'[i] = pathOf'[j] => i = j
    BY <1>1, <1>5 DEF Inv, Rows, PathFree
  <2> QED BY <1>3, <1>5, <2>1, <2>2, <2>3 DEF Rows
<1>7. ASSUME NEW list, Proper(list)
      PROVE  list \in Seq([id : DOMAIN pathOf', score : Nat]) /\ Distinct(list) /\ Ranked(list)
  <2>1. Hit \subseteq [id : DOMAIN pathOf', score : Nat]
    BY <1>5 DEF Hit
  <2>2. list \in Seq(Hit) /\ Distinct(list) /\ Ranked(list)
    BY <1>7 DEF Proper
  <2> QED BY <2>1, <2>2, WiderSeq
<1>8. Proper(keyword)' /\ Proper(semantic)' /\ Proper(fused)'
  <2>1. Proper(keyword) /\ Proper(semantic) /\ Proper(fused)
    BY DEF Inv, Lists0
  <2> QED BY <1>2, <1>7, <2>1 DEF Proper, Hit, Distinct, Ranked
<1>9. results' \in Seq(Result(DOMAIN pathOf'))
  <2>1. results \in Seq(Result(DOMAIN pathOf))
    BY DEF Inv, Lists0
  <2>2. Result(DOMAIN pathOf) \subseteq Result(DOMAIN pathOf')
    BY <1>5
  <2> HIDE DEF Result
  <2> QED BY <1>2, <2>1, <2>2, WiderSeq
<1>10. Lists0'
  BY <1>2, <1>5, <1>8, <1>9 DEF Inv, Lists0, Limit
<1>11. /\ \A i \in 1..Len(fused) : fused[i].id \in DOMAIN pathOf
       /\ \A i \in 1..Len(results) : results[i].id \in DOMAIN pathOf
  <2>1. \A i \in 1..Len(fused) : fused[i] \in Hit
    BY DEF Inv, Lists0, Proper
  <2>2. results \in Seq(Result(DOMAIN pathOf))
    BY DEF Inv, Lists0
  <2>3. \A i \in 1..Len(results) : results[i] \in Result(DOMAIN pathOf)
    <3> HIDE DEF Result
    <3> QED BY <2>2
  <2> QED BY <2>1, <2>3 DEF Hit
<1>12. NotAgain'
  BY <1>1, <1>2, <1>5, <1>11 DEF Inv, NotAgain
<1>13. ResultsAreFound'
  BY <1>2, <1>5, <1>11 DEF Inv, ResultsAreFound, Ids
<1> QED BY <1>2, <1>6, <1>10, <1>12, <1>13 DEF Inv, NoFileTwice, Found, Ids

-----------------------------------------------------------------------------
LEMMA NextInv == ASSUME Inv, [Next]_vars PROVE Inv'
<1>1. CASE Next
  BY <1>1, BeginInv, KeywordInv, SemanticInv, FuseInv, ResolveInv, SortInv, ReturnInv,
     RemoveInv, InsertInv DEF Next
<1>2. CASE UNCHANGED vars
  BY <1>2 DEF vars, queryVars, Inv, Rows, Lists0, Proper, Distinct, Ranked, Hit, Limit, NoFileTwice,
     NotAgain, Found, ResultsAreFound, Ids
<1> QED BY <1>1, <1>2

LEMMA InvHolds == Spec => []Inv
BY InitInv, NextInv, PTL DEF Spec

(* The type invariant of a search: lists without duplicates, best first,   *)
(* of rows that exist or existed, and never more results than wanted.      *)
THEOREM SearchTyped == Spec => []TypeOK
BY InvHolds, InvTypes, PTL

(* No file is listed twice, whatever an index run replaces during a search *)
(* (hybrid.rs:96): a second id of a listed path has no row, NotAgain.      *)
THEOREM NoResultTwice == Spec => []NoFileTwice
<1>1. Inv => NoFileTwice
  BY DEF Inv
<1> QED BY <1>1, InvHolds, PTL

(* A result is what a search found under that id and what the filters      *)
(* allow (hybrid.rs:44-76): ids are given once, so none changes its path.  *)
THEOREM ResultsWereFound == Spec => []ResultsAreFound
<1>1. Inv => ResultsAreFound
  BY DEF Inv
<1> QED BY <1>1, InvHolds, PTL

-----------------------------------------------------------------------------
(* Unanimity. The model counts scores in millionths, so two weights differ *)
(* only while ranks stay below 940: a search for at most 313 results; the  *)
(* mount asks for 100 (provider.rs:19).                                    *)
ScoresDiffer == Limit + K <= 1000

\* The ranks, from 0, in a list of at most 940 entries.
Place == 0..939

LEMMA DivBounds ==
  ASSUME NEW u \in Nat, NEW d \in Nat \ {0}
  PROVE  /\ u \div d \in Nat /\ (u \div d) * d <= u /\ u < (u \div d) * d + d
OBVIOUS

\* A quotient not below its divisor falls when the divisor grows.
LEMMA QuotientFalls ==
  ASSUME NEW u \in Nat, NEW d \in Nat, NEW e \in Nat, d < e, e * e <= u,
         NEW p \in Nat, NEW q \in Nat, q * e <= u, u < q * e + e, u < p * d + d
  PROVE  p > q
<1>1. e <= q + 1
  <2>1. SUFFICES ASSUME q + 1 < e PROVE FALSE
    OBVIOUS
  <2>2. (q + 1) * e <= e * e
    BY <2>1
  <2>3. (q + 1) * e = q * e + e
    OBVIOUS
  <2>4. q * e \in Int /\ e * e \in Int
    OBVIOUS
  <2> QED BY <2>2, <2>3, <2>4
<1>2. SUFFICES ASSUME p <= q PROVE FALSE
  OBVIOUS
<1>3. p * d + d <= q * d + d
  <2>1. p * d <= q * d
    BY <1>2
  <2>2. p * d \in Int /\ q * d \in Int
    OBVIOUS
  <2> QED BY <2>1, <2>2
<1>4. q * d + q <= q * e
  <2>1. q * (d + 1) <= q * e
    OBVIOUS
  <2>2. q * (d + 1) = q * d + q
    OBVIOUS
  <2> QED BY <2>1, <2>2
<1>5. q * d \in Int /\ q * e \in Int /\ p * d \in Int
  OBVIOUS
<1>6. d <= q
  BY <1>1
<1> DEFINE a == p * d
           b == q * d
           c == q * e
<1>7. u < a + d /\ c <= u
  OBVIOUS
<1>8. a + d <= b + d /\ b + q <= c
  BY <1>3, <1>4
<1>9. a \in Int /\ b \in Int /\ c \in Int
  BY <1>5
<1> HIDE DEF a, b, c
<1> QED BY <1>6, <1>7, <1>8, <1>9

LEMMA UnitIs == Unit \in Nat /\ \A e \in 1..1000 : e * e <= Unit
<1>1. Unit \in Nat /\ Unit = 1000 * 1000
  BY SMT DEF Unit
<1>2. ASSUME NEW e \in 1..1000 PROVE e * e <= Unit
  <2>1. e * e <= 1000 * e /\ 1000 * e <= 1000 * 1000 /\ e * e \in Int
    BY SMT
  <2> QED BY <1>1, <2>1, SMT
<1> QED BY <1>1, <1>2

LEMMA UnitDivided ==
  ASSUME NEW d \in Nat \ {0}
  PROVE  /\ Unit \div d \in Nat /\ (Unit \div d) * d <= Unit
         /\ Unit < (Unit \div d) * d + d
BY DivBounds, UnitIs

LEMMA WeightFalls ==
  ASSUME NEW r \in Place, NEW s \in Place, r < s
  PROVE  Weight(r) > Weight(s)
<1>1. /\ K + r + 1 \in Nat \ {0} /\ K + s + 1 \in Nat \ {0} /\ K + s + 1 \in 1..1000
      /\ K + r + 1 < K + s + 1
  BY DEF K, Place
<1> DEFINE d == K + r + 1
           e == K + s + 1
<1> HIDE DEF d, e
<1>2. d \in Nat \ {0} /\ e \in Nat \ {0} /\ e \in 1..1000 /\ d < e /\ d \in Nat /\ e \in Nat
  BY <1>1 DEF d, e
<1>3. /\ Unit \div d \in Nat /\ Unit < (Unit \div d) * d + d
      /\ Unit \div e \in Nat /\ (Unit \div e) * e <= Unit
      /\ Unit < (Unit \div e) * e + e
  BY <1>2, UnitDivided
<1>4. Unit \in Nat /\ e * e <= Unit
  BY <1>2, UnitIs
<1> DEFINE p == Unit \div d
           q == Unit \div e
<1>5. /\ p \in Nat /\ q \in Nat /\ q * e <= Unit /\ Unit < q * e + e
      /\ Unit < p * d + d
  BY <1>3
<1> HIDE DEF p, q
<1>6. p > q
  BY <1>2, <1>4, <1>5, QuotientFalls, Zenon
<1> QED BY <1>6 DEF Weight, d, e, p, q

LEMMA WeightCounts == ASSUME NEW r \in Place PROVE Weight(r) > 0
<1>1. K + r + 1 \in Nat \ {0} /\ K + r + 1 <= 1000
  BY DEF K, Place
<1> DEFINE d == K + r + 1
<1> HIDE DEF d
<1>2. d \in Nat \ {0} /\ d <= 1000
  BY <1>1 DEF d
<1>3. Unit \div d \in Nat /\ Unit < (Unit \div d) * d + d
  BY <1>2, UnitDivided
<1>4. Unit \in Nat /\ d <= Unit
  <2>1. Unit \in Nat /\ d * d <= Unit
    BY <1>2, UnitIs
  <2>2. d <= d * d /\ d * d \in Int
    BY <1>2
  <2> QED BY <1>2, <2>1, <2>2
<1>5. Unit \div d # 0
  BY <1>2, <1>3, <1>4
<1> QED BY <1>3, <1>5 DEF Weight, d

LEMMA AboveScoresMore ==
  ASSUME ScoresDiffer, NEW list, Proper(list), Len(list) <= Limit, NEW x, NEW y,
         RankedAbove(list, x, y)
  PROVE  InList(list, x) > InList(list, y)
<1>1. Len(list) \in Nat /\ Limit \in Nat
  BY SearchAssumption DEF Proper, Limit
<1>2. \A id \in Ids(list) : Rank(list, id) \in Place
  <2> SUFFICES ASSUME NEW id \in Ids(list) PROVE Rank(list, id) \in Place
    OBVIOUS
  <2>1. Rank(list, id) \in 0..(Len(list) - 1)
    BY RankType
  <2>2. Limit <= 940
    BY <1>1 DEF ScoresDiffer, K
  <2>3. Len(list) - 1 <= 939 /\ Len(list) - 1 \in Int
    BY <1>1, <2>2
  <2>4. \A n \in Int : n <= 939 => \A k \in 0..n : k \in Place
    BY DEF Place
  <2> QED BY <2>1, <2>3, <2>4, Zenon
<1>3. x \in Ids(list)
  BY DEF RankedAbove
<1>4. CASE y \in Ids(list)
  <2>1. Rank(list, x) < Rank(list, y)
    BY <1>4 DEF RankedAbove
  <2>2. Weight(Rank(list, x)) > Weight(Rank(list, y))
    BY <1>2, <1>3, <1>4, <2>1, WeightFalls, Zenon
  <2> QED BY <1>3, <1>4, <2>2, Zenon DEF InList
<1>5. CASE y \notin Ids(list)
  <2>1. Weight(Rank(list, x)) > 0
    BY <1>2, <1>3, WeightCounts, Zenon
  <2> QED BY <1>3, <1>5, <2>1, Zenon DEF InList
<1> QED BY <1>4, <1>5

LEMMA FusableUnanimous ==
  ASSUME Inv, ScoresDiffer, NEW list \in Fusable
  PROVE  Unanimous(list)
<1> SUFFICES ASSUME NEW i \in 1..Len(list), NEW j \in 1..Len(list),
                    \A l \in {keyword, semantic} :
                      l # << >> => RankedAbove(l, list[i].id, list[j].id)
             PROVE  i < j
  BY DEF Unanimous
<1>1. /\ Proper(semantic) /\ Proper(keyword) /\ Proper(list)
      /\ Len(semantic) <= Limit /\ Len(keyword) <= Limit
  BY FusableProper DEF Inv, Lists0
<1>2. i \in Int /\ j \in Int
  OBVIOUS
<1>3. CASE semantic = << >>
  <2>1. list = keyword
    BY <1>3 DEF Fusable
  <2>2. keyword # << >>
    BY <2>1
  <2>3. Rank(list, list[i].id) = i - 1 /\ Rank(list, list[j].id) = j - 1
        /\ list[j].id \in Ids(list)
    BY <1>1, RankIs
  <2>4. Rank(list, list[i].id) < Rank(list, list[j].id)
    BY <2>1, <2>2, <2>3 DEF RankedAbove
  <2> QED BY <1>2, <2>3, <2>4
<1>4. CASE semantic # << >>
  <2> DEFINE x == list[i].id
             y == list[j].id
  <2>1. list[i].score = Fusion(semantic, keyword, x) /\ list[j].score = Fusion(semantic, keyword, y)
    BY <1>1, <1>4, FusionsProper DEF Fusable
  <2> HIDE DEF x, y
  <2>2. InList(semantic, x) > InList(semantic, y)
    <3>1. RankedAbove(semantic, x, y)
      BY <1>4 DEF x, y
    <3> QED BY <1>1, <3>1, AboveScoresMore
  <2>3. InList(keyword, x) >= InList(keyword, y)
    <3>1. CASE keyword = << >>
      <4>1. InList(keyword, x) = 0 /\ InList(keyword, y) = 0
        BY <3>1 DEF InList, Ids
      <4> QED BY <4>1
    <3>2. CASE keyword # << >>
      <4>1. RankedAbove(keyword, x, y)
        BY <3>2 DEF x, y
      <4>2. InList(keyword, x) > InList(keyword, y)
        BY <1>1, <4>1, AboveScoresMore
      <4>3. InList(keyword, x) \in Nat /\ InList(keyword, y) \in Nat
        BY <1>1, FusionType
      <4> QED BY <4>2, <4>3
    <3> QED BY <3>1, <3>2
  <2>4. /\ InList(semantic, x) \in Nat /\ InList(semantic, y) \in Nat
        /\ InList(keyword, x) \in Nat /\ InList(keyword, y) \in Nat
    BY <1>1, FusionType
  <2>5. Fusion(semantic, keyword, x) > Fusion(semantic, keyword, y)
    BY <2>2, <2>3, <2>4 DEF Fusion
  <2>6. Fusion(semantic, keyword, x) \in Nat /\ Fusion(semantic, keyword, y) \in Nat
    BY <1>1, FusionType
  <2>7. j <= i => list[j].score >= list[i].score
    BY <1>1 DEF Proper, Ranked
  <2> QED BY <1>2, <2>1, <2>5, <2>6, <2>7
<1> QED BY <1>3, <1>4

LEMMA UnanimousInit == Init => Unanimous(fused)
BY DEF Init, Unanimous

LEMMA UnanimousNext ==
  ASSUME ScoresDiffer, Inv, Unanimous(fused), [Next]_vars
  PROVE  Unanimous(fused)'
<1>1. Proper(fused) /\ fused \in Seq(Hit)
  BY DEF Inv, Lists0, Proper
<1>2. CASE Begin \/ KeywordSearch \/ SemanticSearch \/ Return \/ SearchFails
  <2>1. fused' = fused /\ fused = << >>
    BY <1>2 DEF Begin, KeywordSearch, SemanticSearch, Return, SearchFails, EndsSearch, Inv, Lists0
  <2> QED BY <2>1 DEF Unanimous
<1>3. CASE Fuse
  <2>1. UNCHANGED <<keyword, semantic>>
    BY <1>3 DEF Fuse, queryVars
  <2>2. PICK list \in Fusable : Embeds(fused', list) /\ fused' \in Seq(Hit)
    BY <1>3, FuseSelects
  <2>3. Unanimous(fused')
    BY <2>2, FusableProper, FusableUnanimous, EmbedsKeeps
  <2> QED BY <2>1, <2>3 DEF Unanimous
<1>4. CASE Resolve
  <2>1. fused # << >> /\ fused' = Tail(fused) /\ UNCHANGED <<keyword, semantic>>
    BY <1>4 DEF Resolve, queryVars
  <2>2. Unanimous(fused')
    BY <1>1, <2>1, TailEmbeds, EmbedsKeeps
  <2> QED BY <2>1, <2>2 DEF Unanimous
<1>5. CASE SortResults \/ Remove \/ Insert \/ UNCHANGED vars
  <2>1. UNCHANGED <<keyword, semantic, fused>>
    BY <1>5 DEF SortResults, Remove, Insert, vars, queryVars
  <2> QED BY <2>1 DEF Unanimous
<1> QED BY <1>2, <1>3, <1>4, <1>5 DEF Next

(* A file that every search with an answer ranks above another stays above *)
(* it (rrf.rs:3-21, hybrid.rs:66-91), for any number of files and results  *)
(* whose scores the model tells apart: its weight is larger in each list,  *)
(* and what selects from the fused list keeps its order.                   *)
THEOREM UnanimityHolds == ASSUME ScoresDiffer PROVE Spec => []UnanimityKept
<1>1. Unanimous(fused) => UnanimityKept
  BY DEF Unanimous, UnanimityKept
<1>2. Init => Inv /\ Unanimous(fused)
  BY InitInv, UnanimousInit
<1>3. Inv /\ Unanimous(fused) /\ [Next]_vars => (Inv /\ Unanimous(fused))'
  BY NextInv, UnanimousNext
<1> QED BY <1>1, <1>2, <1>3, PTL DEF Spec
=============================================================================
