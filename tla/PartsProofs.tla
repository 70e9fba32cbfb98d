----------------------------- MODULE PartsProofs ----------------------------
(***************************************************************************)
(* Theorems about the chunkers and the query parser, for files and queries *)
(* of any length.                                                          *)
(***************************************************************************)
EXTENDS Parts, CacheProofs, TLAPS, FiniteSetTheorems, WellFoundedInduction

-----------------------------------------------------------------------------
(* Numbers: least and greatest members, and the ascending order of a set.  *)

(* A set of natural numbers that has a member has a least one.             *)
LEMMA LeastMember ==
  ASSUME NEW S \in SUBSET Nat, S # {}
  PROVE  Min(S) \in S /\ \A x \in S : Min(S) <= x
<1> DEFINE less == OpToRel(<, Nat)
<1>0. \A i, j \in S : <<i, j>> \in less <=> i < j
  BY DEF OpToRel
<1>1. PICK m \in S : \A x \in S : ~(<<x, m>> \in less)
  <2>1. IsWellFoundedOn(less, Nat)
    BY NatLessThanWellFounded
  <2> HIDE DEF less
  <2> QED BY <2>1, WFMin
<1> HIDE DEF less
<1>2. \A x \in S : m <= x
  <2>1. \A x \in S : ~(x < m)
    BY <1>0, <1>1
  <2>2. m \in Nat /\ \A x \in S : x \in Nat
    OBVIOUS
  <2> QED BY <2>1, <2>2
<1> QED BY <1>2 DEF Min

(* One with a bound has a greatest one.                                    *)
LEMMA GreatestMember ==
  ASSUME NEW S \in SUBSET Nat, S # {}, NEW n \in Nat, \A x \in S : x <= n
  PROVE  Max(S) \in S /\ \A x \in S : x <= Max(S)
<1> DEFINE Bounds == {u \in Nat : \A x \in S : x <= u}
           u == Min(Bounds)
<1>1. u \in Bounds /\ \A v \in Bounds : u <= v
  <2>1. n \in Bounds /\ Bounds \in SUBSET Nat
    OBVIOUS
  <2> HIDE DEF Bounds
  <2> QED BY <2>1, LeastMember
<1>2. u \in S
  <2> SUFFICES ASSUME u \notin S PROVE FALSE
    OBVIOUS
  <2>1. PICK x \in S : TRUE
    OBVIOUS
  <2>2. u \in Nat /\ \A y \in S : y <= u - 1
    <3>1. u \in Nat /\ \A y \in S : y <= u /\ y # u
      BY <1>1
    <3>2. \A y \in S : y \in Nat
      OBVIOUS
    <3> HIDE DEF u
    <3> QED BY <3>1, <3>2
  <2>3. u - 1 \in Bounds
    BY <2>1, <2>2
  <2> QED BY <2>3, <2>2, <1>1
<1> HIDE DEF u
<1> QED BY <1>1, <1>2 DEF Max

(* Of two members of a finite set, the smaller one has the smaller place,  *)
(* and the places are those of its enumeration.                            *)
LEMMA PlaceGrows ==
  ASSUME NEW S \in SUBSET Int, IsFiniteSet(S)
  PROVE  /\ Cardinality(S) \in Nat
         /\ \A x \in S : Place(x, S) \in 1..Cardinality(S)
         /\ \A x, y \in S : x < y <=> Place(x, S) < Place(y, S)
<1> DEFINE upTo(x) == {y \in S : y <= x}
<1>1. ASSUME NEW x \in S
      PROVE  /\ IsFiniteSet(upTo(x)) /\ Cardinality(upTo(x)) \in 1..Cardinality(S)
             /\ Cardinality(S) \in Nat
  <2>1. IsFiniteSet(upTo(x)) /\ Cardinality(upTo(x)) <= Cardinality(S)
    BY FS_Subset
  <2>2. Cardinality(upTo(x)) \in Nat /\ Cardinality(S) \in Nat
    BY <2>1, FS_CardinalityType
  <2>3. Cardinality(upTo(x)) # 0
    <3>1. x \in upTo(x)
      OBVIOUS
    <3> HIDE DEF upTo
    <3> QED BY <3>1, <2>1, FS_EmptySet
  <2> QED BY <2>1, <2>2, <2>3
<1>2. ASSUME NEW x \in S, NEW y \in S, x < y
      PROVE  Cardinality(upTo(x)) < Cardinality(upTo(y))
  <2>1. upTo(x) \in SUBSET upTo(y) /\ y \in upTo(y) /\ y \notin upTo(x)
    <3>1. x \in Int /\ y \in Int /\ x < y /\ \A z \in S : z \in Int
      BY <1>2
    <3>2. \A z \in S : z <= x => z <= y
      BY <3>1
    <3>3. y <= y /\ ~(y <= x)
      BY <3>1
    <3> QED BY <3>2, <3>3
  <2>2. IsFiniteSet(upTo(y)) /\ Cardinality(upTo(x)) \in Int /\ Cardinality(upTo(y)) \in Int
    BY <1>1
  <2> HIDE DEF upTo
  <2>3. Cardinality(upTo(x)) <= Cardinality(upTo(y)) /\ Cardinality(upTo(x)) # Cardinality(upTo(y))
    BY <2>1, <2>2, FS_Subset
  <2> QED BY <2>2, <2>3
<1>3. Cardinality(S) \in Nat
  BY FS_CardinalityType
<1>4. \A x \in S : Place(x, S) = Cardinality(upTo(x))
  BY DEF Place
<1> HIDE DEF upTo
<1>5. \A x \in S : Place(x, S) \in 1..Cardinality(S)
  BY <1>1, <1>4
<1>6. ASSUME NEW x \in S, NEW y \in S
      PROVE  x < y <=> Place(x, S) < Place(y, S)
  <2>1. CASE x < y
    BY <2>1, <1>2, <1>4
  <2>2. CASE x = y
    BY <2>2, <1>5
  <2>3. CASE y < x
    <3>1. Place(y, S) < Place(x, S)
      BY <2>3, <1>2, <1>4
    <3> QED BY <3>1, <2>3, <1>5
  <2> QED BY <2>1, <2>2, <2>3
<1> QED BY <1>3, <1>5, <1>6

(* Ascending(S) enumerates S, each member at its place.                    *)
LEMMA AscendingOrder ==
  ASSUME NEW S \in SUBSET Int, IsFiniteSet(S)
  PROVE  /\ Cardinality(S) \in Nat
         /\ Ascending(S) \in [1..Cardinality(S) -> S]
         /\ \A x \in S : Place(x, S) \in 1..Cardinality(S) /\ Ascending(S)[Place(x, S)] = x
         /\ \A i \in 1..Cardinality(S) : Place(Ascending(S)[i], S) = i
         /\ \A i, j \in 1..Cardinality(S) : i < j <=> Ascending(S)[i] < Ascending(S)[j]
<1> DEFINE n == Cardinality(S)
           rank == [x \in S |-> Place(x, S)]
<1>1. n \in Nat /\ (\A x \in S : Place(x, S) \in 1..n)
      /\ \A x, y \in S : x < y <=> Place(x, S) < Place(y, S)
  BY PlaceGrows
<1> HIDE DEF n
<1>2. \A x, y \in S : Place(x, S) = Place(y, S) => x = y
  <2> SUFFICES ASSUME NEW x \in S, NEW y \in S, Place(x, S) = Place(y, S) PROVE x = y
    OBVIOUS
  <2>1. ~(x < y) /\ ~(y < x)
    BY <1>1
  <2> QED BY <2>1
<1>3. rank \in Injection(S, 1..n)
  BY <1>1, <1>2 DEF Injection, IsInjective
<1>4. rank \in Surjection(S, 1..n)
  <2>1. IsFiniteSet(1..n) /\ Cardinality(1..n) = n
    BY <1>1, FS_Interval
  <2> HIDE DEF rank
  <2> QED BY <1>3, <2>1, FS_Injection DEF n
<1>5. \A i \in 1..n : \E x \in S : Place(x, S) = i
  BY <1>4 DEF Surjection
<1>6. \A i \in 1..n : Ascending(S)[i] \in S /\ Place(Ascending(S)[i], S) = i
  BY <1>5 DEF Ascending, n
<1>7. Ascending(S) = [i \in 1..n |-> Ascending(S)[i]]
  BY DEF Ascending, n
<1>8. Ascending(S) \in [1..n -> S]
  BY <1>6, <1>7
<1>9. \A x \in S : Ascending(S)[Place(x, S)] = x
  <2> SUFFICES ASSUME NEW x \in S PROVE Ascending(S)[Place(x, S)] = x
    OBVIOUS
  <2>1. Place(x, S) \in 1..n
    BY <1>1
  <2>2. Ascending(S)[Place(x, S)] \in S
        /\ Place(Ascending(S)[Place(x, S)], S) = Place(x, S)
    BY <1>6, <2>1
  <2> QED BY <1>2, <2>2
<1>10. \A i, j \in 1..n : i < j <=> Ascending(S)[i] < Ascending(S)[j]
  <2> SUFFICES ASSUME NEW i \in 1..n, NEW j \in 1..n
               PROVE  i < j <=> Ascending(S)[i] < Ascending(S)[j]
    OBVIOUS
  <2>1. /\ Ascending(S)[i] \in S /\ Place(Ascending(S)[i], S) = i
        /\ Ascending(S)[j] \in S /\ Place(Ascending(S)[j], S) = j
    BY <1>6
  <2>2. \A x, y \in S : x < y <=> Place(x, S) < Place(y, S)
    BY <1>1
  <2>3. Ascending(S)[i] < Ascending(S)[j]
        <=> Place(Ascending(S)[i], S) < Place(Ascending(S)[j], S)
    BY <2>1, <2>2, Zenon
  <2> QED BY <2>1, <2>3
<1> QED BY <1>1, <1>6, <1>8, <1>9, <1>10 DEF n

-----------------------------------------------------------------------------
(* The text chunker. The lines are a parameter L of what follows, and so   *)
(* are the chunks cs and their spans sp.                                   *)

Chunk == [type : ChunkType, content : SUBSET Int, parent : Nat]

\* From line p to line q there is text, and neither before nor behind it.
IsRun(L, p, q) ==
  /\ \A i \in p..q : L[i] = "text"
  /\ p = 1 \/ L[p - 1] # "text"
  /\ q = Len(L) \/ L[q + 1] # "text"

\* Chunk c is a heading or a paragraph of the lines above line b.
Whole(L, c, b) ==
  \/ c.type = "Section" /\ \E i \in 1..(b - 1) : L[i] = "heading" /\ c.content = {i}
  \/ /\ c.type = "Paragraph"
     /\ \E p, q \in 1..(b - 1) : p <= q /\ IsRun(L, p, q) /\ c.content = p..q

\* The last section among the first k chunks, if there is one, is chunk p.
LastSection(cs, k, p) ==
  /\ p \in 0..k /\ (p # 0 => cs[p].type = "Section")
  /\ \A j \in (p + 1)..k : cs[j].type # "Section"

\* A section has no parent, a paragraph the last section before it.
ParentFound(cs, k, c) ==
  \/ c.type = "Section" /\ c.parent = 0
  \/ c.type = "Paragraph" /\ LastSection(cs, k, c.parent)

\* The chunks hold the headings and paragraphs above line b, in their order.
PartsUpTo(L, cs, sp, b) ==
  /\ cs \in Seq(Chunk) /\ sp \in Seq(Int \X Int) /\ Len(sp) = Len(cs)
  /\ \A i \in 1..Len(cs) : Whole(L, cs[i], b)
  /\ \A i \in 1..Len(cs) : cs[i].content \subseteq sp[i][1]..sp[i][2] /\ sp[i][2] < b
  /\ \A i \in 2..Len(cs) : sp[i - 1][2] < sp[i][1]
  /\ \A l \in 1..(b - 1) : L[l] # "blank" => \E i \in 1..Len(cs) : l \in cs[i].content
  /\ \A i \in 1..Len(cs) : ParentFound(cs, i - 1, cs[i])

(* Reading on over blank lines leaves the parts as they are.               *)
LEMMA PartsReadOn ==
  ASSUME NEW L, NEW cs, NEW sp, NEW b \in Int, NEW d \in Int, b <= d,
         PartsUpTo(L, cs, sp, b), \A l \in b..(d - 1) : L[l] = "blank"
  PROVE  PartsUpTo(L, cs, sp, d)
<1>1. \A i \in 1..Len(cs) : Whole(L, cs[i], d)
  <2> SUFFICES ASSUME NEW i \in 1..Len(cs) PROVE Whole(L, cs[i], d)
    OBVIOUS
  <2>1. Whole(L, cs[i], b) /\ 1..(b - 1) \subseteq 1..(d - 1)
    BY DEF PartsUpTo
  <2> QED BY <2>1 DEF Whole
<1>2. \A i \in 1..Len(cs) : cs[i].content \subseteq sp[i][1]..sp[i][2] /\ sp[i][2] < d
  <2> SUFFICES ASSUME NEW i \in 1..Len(cs)
               PROVE  cs[i].content \subseteq sp[i][1]..sp[i][2] /\ sp[i][2] < d
    OBVIOUS
  <2>1. sp[i] \in Int \X Int /\ sp[i][2] < b /\ cs[i].content \subseteq sp[i][1]..sp[i][2]
    BY DEF PartsUpTo
  <2> QED BY <2>1
<1>3. \A l \in 1..(d - 1) : L[l] # "blank" => \E i \in 1..Len(cs) : l \in cs[i].content
  <2> SUFFICES ASSUME NEW l \in 1..(d - 1), L[l] # "blank"
               PROVE  \E i \in 1..Len(cs) : l \in cs[i].content
    OBVIOUS
  <2>1. l \in 1..(b - 1)
    OBVIOUS
  <2> QED BY <2>1 DEF PartsUpTo
<1> QED BY <1>1, <1>2, <1>3 DEF PartsUpTo

\* Chunk c with span s is the part between the lines b and d.
NextPart(L, cs, c, s, b, d) ==
  /\ b \in Int /\ d \in Int /\ b <= d
  /\ c \in Chunk /\ Whole(L, c, d)
  /\ s \in Int \X Int /\ b <= s[1] /\ s[2] < d /\ c.content \subseteq s[1]..s[2]
  /\ \A l \in b..(d - 1) : L[l] # "blank" => l \in c.content
  /\ ParentFound(cs, Len(cs), c)

(* The next part is appended to those above it.                            *)
LEMMA PartAppended ==
  ASSUME NEW L, NEW cs, NEW sp, NEW b, NEW d, NEW c, NEW s,
         PartsUpTo(L, cs, sp, b), NextPart(L, cs, c, s, b, d)
  PROVE  PartsUpTo(L, Append(cs, c), Append(sp, s), d)
<1> DEFINE n == Len(cs)
           as == Append(cs, c)
           ap == Append(sp, s)
<1>0. n \in Nat /\ cs \in Seq(Chunk) /\ sp \in Seq(Int \X Int) /\ Len(sp) = n
  BY DEF PartsUpTo
<1>a. c \in Chunk /\ s \in Int \X Int /\ b \in Int /\ d \in Int /\ b <= d
  BY DEF NextPart
<1>1. as \in Seq(Chunk) /\ ap \in Seq(Int \X Int) /\ Len(as) = n + 1 /\ Len(ap) = n + 1
  BY <1>0, <1>a
<1>2. /\ \A i \in 1..n : as[i] = cs[i] /\ ap[i] = sp[i]
      /\ as[n + 1] = c /\ ap[n + 1] = s
  <2>1. \A i \in 1..n : as[i] = cs[i]
    BY <1>0, <1>a
  <2>2. \A i \in 1..n : ap[i] = sp[i]
    BY <1>0, <1>a
  <2> QED BY <2>1, <2>2, <1>0, <1>a
<1> HIDE DEF n, as, ap
<1>b. \A i \in 1..(n + 1) : i \in 1..n \/ i = n + 1
  BY <1>0
<1>3. \A i \in 1..(n + 1) : Whole(L, as[i], d)
  <2>1. ASSUME NEW i \in 1..n PROVE Whole(L, as[i], d)
    <3>1. Whole(L, cs[i], b) /\ 1..(b - 1) \subseteq 1..(d - 1)
      BY <1>a DEF PartsUpTo, n
    <3>2. Whole(L, cs[i], d)
      BY <3>1 DEF Whole
    <3> QED BY <3>2, <1>2
  <2>2. Whole(L, as[n + 1], d)
    BY <1>2 DEF NextPart
  <2> QED BY <2>1, <2>2, <1>b
<1>4. \A i \in 1..(n + 1) : as[i].content \subseteq ap[i][1]..ap[i][2] /\ ap[i][2] < d
  <2>1. ASSUME NEW i \in 1..n
        PROVE  as[i].content \subseteq ap[i][1]..ap[i][2] /\ ap[i][2] < d
    <3>1. sp[i] \in Int \X Int /\ sp[i][2] < b /\ cs[i].content \subseteq sp[i][1]..sp[i][2]
      BY <1>0 DEF PartsUpTo, n
    <3>2. sp[i][2] < d
      BY <3>1, <1>a
    <3> QED BY <3>1, <3>2, <1>2
  <2>2. as[n + 1].content \subseteq ap[n + 1][1]..ap[n + 1][2] /\ ap[n + 1][2] < d
    BY <1>2 DEF NextPart
  <2> QED BY <2>1, <2>2, <1>b
<1>5. \A i \in 2..(n + 1) : ap[i - 1][2] < ap[i][1]
  <2>1. ASSUME NEW i \in 2..n PROVE ap[i - 1][2] < ap[i][1]
    <3>1. sp[i - 1][2] < sp[i][1] /\ i - 1 \in 1..n /\ i \in 1..n
      BY <1>0 DEF PartsUpTo, n
    <3> QED BY <3>1, <1>2
  <2>2. ASSUME n >= 1 PROVE ap[n][2] < ap[n + 1][1]
    <3>1. n \in 1..n
      BY <2>2, <1>0
    <3>2. sp[n] \in Int \X Int /\ sp[n][2] < b
      BY <3>1, <1>0 DEF PartsUpTo, n
    <3>3. ap[n] = sp[n] /\ ap[n + 1] = s
      BY <3>1, <1>2
    <3>4. b <= s[1] /\ s[1] \in Int
      BY <1>a DEF NextPart
    <3>5. sp[n][2] \in Int
      BY <3>2
    <3>6. sp[n][2] < s[1]
      BY <3>2, <3>4, <3>5, <1>a
    <3> QED BY <3>3, <3>6
  <2>3. ASSUME NEW i \in 2..(n + 1) PROVE ap[i - 1][2] < ap[i][1]
    <3>1. CASE i \in 2..n
      BY <3>1, <2>1
    <3>2. CASE i = n + 1
      <4>1. n >= 1 /\ i - 1 = n
        BY <3>2, <1>0
      <4> QED BY <4>1, <3>2, <2>2
    <3> QED BY <3>1, <3>2, <1>0
  <2> QED BY <2>3
<1>6. \A l \in 1..(d - 1) : L[l] # "blank" => \E i \in 1..(n + 1) : l \in as[i].content
  <2> SUFFICES ASSUME NEW l \in 1..(d - 1), L[l] # "blank"
               PROVE  \E i \in 1..(n + 1) : l \in as[i].content
    OBVIOUS
  <2>1. CASE l >= b
    <3>1. l \in b..(d - 1)
      BY <2>1, <1>a
    <3>2. l \in c.content
      BY <3>1 DEF NextPart
    <3>3. n + 1 \in 1..(n + 1)
      BY <1>0
    <3> QED BY <3>2, <3>3, <1>2
  <2>2. CASE l < b
    <3>1. l \in 1..(b - 1)
      BY <2>2, <1>a
    <3>2. PICK i \in 1..n : l \in cs[i].content
      BY <3>1 DEF PartsUpTo, n
    <3>3. i \in 1..(n + 1)
      BY <3>2, <1>0
    <3>4. as[i] = cs[i]
      BY <3>2, <1>2
    <3>5. l \in as[i].content
      BY <3>2, <3>4
    <3> QED BY <3>3, <3>5
  <2>3. l >= b \/ l < b
    BY <1>a
  <2> QED BY <2>1, <2>2, <2>3
<1>7. \A i \in 1..(n + 1) : ParentFound(as, i - 1, as[i])
  <2>1. ASSUME NEW i \in 1..(n + 1), NEW x, ParentFound(cs, i - 1, x)
        PROVE  ParentFound(as, i - 1, x)
    <3>1. CASE x.type = "Section" /\ x.parent = 0
      BY <3>1 DEF ParentFound
    <3>2. CASE x.type = "Paragraph" /\ LastSection(cs, i - 1, x.parent)
      <4> DEFINE p == x.parent
      <4>1. \A j \in 1..(i - 1) : j \in 1..n
        BY <1>0
      <4>2. p \in 0..(i - 1) /\ (p # 0 => cs[p].type = "Section")
            /\ \A j \in (p + 1)..(i - 1) : cs[j].type # "Section"
        BY <3>2 DEF LastSection
      <4>3. p # 0 => p \in 1..(i - 1)
        BY <4>2
      <4>4. \A j \in (p + 1)..(i - 1) : j \in 1..(i - 1)
        BY <4>2
      <4>5. \A j \in 1..(i - 1) : as[j] = cs[j]
        BY <4>1, <1>2
      <4> HIDE DEF p
      <4>6. LastSection(as, i - 1, p)
        BY <4>2, <4>3, <4>4, <4>5 DEF LastSection
      <4> QED BY <3>2, <4>6 DEF ParentFound, p
    <3> QED BY <2>1, <3>1, <3>2 DEF ParentFound
  <2>2. ASSUME NEW i \in 1..n PROVE ParentFound(as, i - 1, as[i])
    <3>1. ParentFound(cs, i - 1, cs[i])
      BY DEF PartsUpTo, n
    <3>2. i \in 1..(n + 1)
      BY <1>0
    <3> QED BY <2>1, <3>1, <3>2, <1>2
  <2>3. ASSUME NEW i, i = n + 1 PROVE ParentFound(as, i - 1, as[i])
    <3>1. ParentFound(cs, n, c)
      BY DEF NextPart, n
    <3>2. i \in 1..(n + 1) /\ i - 1 = n
      BY <2>3, <1>0
    <3>3. ParentFound(cs, i - 1, c)
      BY <3>1, <3>2
    <3>4. ParentFound(as, i - 1, c)
      BY <2>1, <3>2, <3>3
    <3>5. as[i] = c
      BY <2>3, <1>2
    <3> QED BY <3>4, <3>5
  <2> QED BY <2>2, <2>3, <1>b
<1> QED BY <1>1, <1>3, <1>4, <1>5, <1>6, <1>7 DEF PartsUpTo, as, ap

\* What the loop over the lines has read below the chunks: the lines of
\* current_text are the last ones, blank ones before text.
OpenText(L, k, b, t) ==
  /\ L \in Seq(Line) /\ k \in 1..(Len(L) + 1) /\ b \in 1..k /\ t = b..(k - 1)
  /\ \A i \in t : L[i] # "heading"
  /\ \A i \in t : L[i] = "text" => \A j \in i..(k - 1) : L[j] = "text"
  /\ b > 1 => L[b - 1] # "text"

\* Flushed and FlushedSpans of a text t of lines L that ends before line k.
InkOf(L, t) == {i \in t : L[i] = "text"}
FlushedOf(L, t, cs, p) ==
  IF InkOf(L, t) = {} THEN cs ELSE Append(cs, ChunkData("Paragraph", InkOf(L, t), p))
SpansOf(L, t, sp, b, k) == IF InkOf(L, t) = {} THEN sp ELSE Append(sp, <<b, k - 1>>)

(* A text that ends before a line without text, or at the end, is flushed  *)
(* as a whole paragraph, and without text in it nothing is lost.           *)
LEMMA FlushKeepsParts ==
  ASSUME NEW L, NEW k, NEW b, NEW t, NEW cs, NEW sp, NEW p,
         OpenText(L, k, b, t), PartsUpTo(L, cs, sp, b),
         LastSection(cs, Len(cs), p), k = Len(L) + 1 \/ L[k] # "text"
  PROVE  /\ PartsUpTo(L, FlushedOf(L, t, cs, p), SpansOf(L, t, sp, b, k), k)
         /\ LastSection(FlushedOf(L, t, cs, p), Len(FlushedOf(L, t, cs, p)), p)
<1> DEFINE ink == InkOf(L, t)
<1>1. /\ L \in Seq(Line) /\ Len(L) \in Nat /\ k \in 1..(Len(L) + 1) /\ b \in 1..k
      /\ t = b..(k - 1)
      /\ \A i \in t : L[i] # "heading"
      /\ \A i \in t : L[i] = "text" => \A j \in i..(k - 1) : L[j] = "text"
      /\ b > 1 => L[b - 1] # "text"
  BY DEF OpenText
<1>2. \A i \in 1..Len(L) : L[i] \in Line
  BY <1>1
<1>3. b \in Int /\ k \in Int /\ b <= k
  BY <1>1
<1>4. CASE ink = {}
  <2>1. \A l \in b..(k - 1) : L[l] = "blank"
    <3> SUFFICES ASSUME NEW l \in b..(k - 1) PROVE L[l] = "blank"
      OBVIOUS
    <3>1. l \in t /\ l \in 1..Len(L)
      BY <1>1
    <3>2. L[l] # "text" /\ L[l] # "heading"
      BY <3>1, <1>4, <1>1 DEF InkOf
    <3> QED BY <3>1, <3>2, <1>2 DEF Line
  <2>2. PartsUpTo(L, cs, sp, k)
    BY <2>1, <1>3, PartsReadOn
  <2> QED BY <2>2, <1>4 DEF FlushedOf, SpansOf
<1>5. CASE ink # {}
  <2> DEFINE q == Min(ink)
             c == ChunkData("Paragraph", ink, p)
             s == <<b, k - 1>>
             n == Len(cs)
  <2>1. q \in ink /\ \A i \in ink : q <= i
    <3>1. ink \in SUBSET Nat
      BY <1>1 DEF InkOf
    <3> HIDE DEF ink
    <3> QED BY <3>1, <1>5, LeastMember
  <2> HIDE DEF q
  <2>2. q \in b..(k - 1) /\ q \in 1..(k - 1) /\ L[q] = "text" /\ k - 1 \in 1..(k - 1) /\ q <= k - 1
    BY <2>1, <1>1 DEF InkOf
  <2>3. ink = q..(k - 1)
    <3>1. \A i \in ink : i \in q..(k - 1)
      BY <2>1, <2>2, <1>1 DEF InkOf
    <3>2. \A i \in q..(k - 1) : i \in t /\ L[i] = "text"
      BY <2>2, <1>1
    <3> QED BY <3>1, <3>2 DEF InkOf
  <2>4. IsRun(L, q, k - 1)
    <3>1. \A i \in q..(k - 1) : L[i] = "text"
      BY <2>3 DEF InkOf
    <3>2. q = 1 \/ L[q - 1] # "text"
      <4>1. CASE q = b
        BY <4>1, <1>1
      <4>2. CASE q # b
        <5>1. q - 1 \in b..(k - 1) /\ q - 1 < q
          BY <4>2, <2>2, <1>3
        <5>2. q - 1 \notin ink
          BY <5>1, <2>1, <2>2, <1>3
        <5> QED BY <5>1, <5>2, <1>1 DEF InkOf
      <4> QED BY <4>1, <4>2
    <3>3. k - 1 = Len(L) \/ L[k - 1 + 1] # "text"
      BY <1>1
    <3> QED BY <3>1, <3>2, <3>3 DEF IsRun
  <2>5. n \in Nat /\ cs \in Seq(Chunk) /\ p \in 0..n
    BY DEF PartsUpTo, LastSection
  <2>6. c \in Chunk /\ c.type = "Paragraph" /\ c.content = ink /\ c.parent = p
    <3>1. ink \in SUBSET Int
      BY <1>1 DEF InkOf
    <3> HIDE DEF ink
    <3> QED BY <3>1, <2>5 DEF Chunk, ChunkData, ChunkType
  <2>7. s \in Int \X Int /\ s[1] = b /\ s[2] = k - 1
    BY <1>3
  <2> HIDE DEF c, s, ink, n
  <2>8. Whole(L, c, k)
    BY <2>2, <2>3, <2>4, <2>6 DEF Whole
  <2>9. c.content \subseteq s[1]..s[2]
    BY <2>2, <2>3, <2>6, <2>7, <1>3
  <2>10. \A l \in b..(k - 1) : L[l] # "blank" => l \in c.content
    <3> SUFFICES ASSUME NEW l \in b..(k - 1), L[l] # "blank" PROVE l \in ink
      BY <2>6
    <3>1. l \in t /\ l \in 1..Len(L)
      BY <1>1
    <3>2. L[l] = "text"
      BY <3>1, <1>1, <1>2 DEF Line
    <3> QED BY <3>1, <3>2 DEF ink, InkOf
  <2>11. ParentFound(cs, n, c)
    BY <2>6 DEF ParentFound, n
  <2>12. s[2] < k /\ b <= s[1]
    BY <2>7, <1>3
  <2>13. NextPart(L, cs, c, s, b, k)
    BY <2>6, <2>7, <2>8, <2>9, <2>10, <2>11, <2>12, <1>3 DEF NextPart, n
  <2>14. PartsUpTo(L, Append(cs, c), Append(sp, s), k)
    BY <2>13, PartAppended
  <2>15. LastSection(Append(cs, c), Len(Append(cs, c)), p)
    <3>1. Len(Append(cs, c)) = n + 1 /\ (\A j \in 1..n : Append(cs, c)[j] = cs[j])
          /\ Append(cs, c)[n + 1] = c
      BY <2>5, <2>6 DEF n
    <3>2. (p # 0 => cs[p].type = "Section") /\ \A j \in (p + 1)..n : cs[j].type # "Section"
      BY DEF LastSection, n
    <3>3. \A j \in (p + 1)..(n + 1) : (j \in (p + 1)..n /\ j \in 1..n) \/ j = n + 1
      BY <2>5
    <3>4. \A j \in (p + 1)..(n + 1) : Append(cs, c)[j].type # "Section"
      BY <3>1, <3>2, <3>3, <2>6
    <3>5. p # 0 => p \in 1..n
      BY <2>5
    <3>6. p \in 0..(n + 1)
      BY <2>5
    <3> QED BY <3>1, <3>2, <3>4, <3>5, <3>6 DEF LastSection
  <2>16. FlushedOf(L, t, cs, p) = Append(cs, c) /\ SpansOf(L, t, sp, b, k) = Append(sp, s)
    BY <1>5 DEF FlushedOf, SpansOf, c, s, ink
  <2> QED BY <2>14, <2>15, <2>16
<1> QED BY <1>4, <1>5
(* A heading is the next part, and the last section from then on.          *)
LEMMA HeadingIsPart ==
  ASSUME NEW L \in Seq(Line), NEW k \in 1..Len(L), NEW cs, NEW sp,
         PartsUpTo(L, cs, sp, k), L[k] = "heading"
  PROVE  LET c == ChunkData("Section", {k}, 0) IN
         /\ PartsUpTo(L, Append(cs, c), Append(sp, <<k, k>>), k + 1)
         /\ LastSection(Append(cs, c), Len(Append(cs, c)), Len(cs) + 1)
<1> DEFINE c == ChunkData("Section", {k}, 0)
           s == <<k, k>>
           n == Len(cs)
<1>1. k \in Int /\ k + 1 \in Int /\ k <= k + 1 /\ k < k + 1
  OBVIOUS
<1>2. c \in Chunk /\ c.type = "Section" /\ c.content = {k} /\ c.parent = 0
  BY DEF Chunk, ChunkData, ChunkType
<1>3. s \in Int \X Int /\ s[1] = k /\ s[2] = k
  OBVIOUS
<1>4. n \in Nat /\ cs \in Seq(Chunk)
  BY DEF PartsUpTo
<1> HIDE DEF c, s, n
<1>5. Whole(L, c, k + 1)
  <2>1. k \in 1..(k + 1 - 1)
    OBVIOUS
  <2> QED BY <2>1, <1>2 DEF Whole
<1>6. \A l \in k..(k + 1 - 1) : L[l] # "blank" => l \in c.content
  BY <1>2
<1>7. c.content \subseteq s[1]..s[2]
  BY <1>2, <1>3
<1>8. ParentFound(cs, n, c)
  BY <1>2 DEF ParentFound
<1>9. k <= s[1] /\ s[2] < k + 1
  BY <1>3, <1>1
<1>10. NextPart(L, cs, c, s, k, k + 1)
  BY <1>1, <1>2, <1>3, <1>5, <1>6, <1>7, <1>8, <1>9 DEF NextPart, n
<1>11. PartsUpTo(L, Append(cs, c), Append(sp, s), k + 1)
  BY <1>10, PartAppended
<1>12. LastSection(Append(cs, c), Len(Append(cs, c)), n + 1)
  <2>1. Len(Append(cs, c)) = n + 1 /\ Append(cs, c)[n + 1] = c
    BY <1>4, <1>2 DEF n
  <2>2. n + 1 \in 0..(n + 1) /\ (n + 1 + 1)..(n + 1) = {}
    BY <1>4
  <2> QED BY <2>1, <2>2, <1>2 DEF LastSection
<1> QED BY <1>11, <1>12 DEF c, s, n

\* What the chunker makes of lines L: the parts of all of them, or one chunk
\* when there are none.
Chunked(L, cs, sp) ==
  \/ PartsUpTo(L, cs, sp, Len(L) + 1) /\ cs # << >>
  \/ /\ \A l \in 1..Len(L) : L[l] = "blank"
     /\ cs = <<ChunkData("File", {}, 0)>> /\ sp = <<(<<1, Len(L)>>)>>

\* The state of the text chunker in each phase.
TextResult ==
  /\ lines # << >> /\ TextTypeOK /\ Chunked(lines, chunks, spans)

TextInv ==
  /\ phase \in ChunkPhase
  /\ phase = "choose" => chunks = << >>
  /\ phase \in {"choose", "nodes"} => NoText
  /\ phase = "lines" =>
       /\ lines # << >> /\ Len(lines) <= MaxLines
       /\ OpenText(lines, at, start, text) /\ PartsUpTo(lines, chunks, spans, start)
       /\ LastSection(chunks, Len(chunks), section)
  /\ phase = "done" => NoText \/ TextResult

LEMMA TextInvInit == ChunkingInit => TextInv
BY DEF ChunkingInit, TextInv, ChunkPhase

LEMMA ReadLineKeeps == TextInv /\ ReadLine => TextInv'
<1> SUFFICES ASSUME TextInv, ReadLine PROVE TextInv'
  OBVIOUS
<1>1. /\ phase = "lines" /\ phase' = "lines" /\ lines' = lines /\ at' = at + 1
      /\ lines # << >> /\ Len(lines) <= MaxLines /\ at <= Len(lines)
      /\ OpenText(lines, at, start, text) /\ PartsUpTo(lines, chunks, spans, start)
      /\ LastSection(chunks, Len(chunks), section)
  BY DEF TextInv, ReadLine
<1>2. /\ lines \in Seq(Line) /\ Len(lines) \in Nat /\ at \in 1..(Len(lines) + 1)
      /\ start \in 1..at /\ text = start..(at - 1)
      /\ \A i \in text : lines[i] # "heading"
      /\ \A i \in text : lines[i] = "text" => \A j \in i..(at - 1) : lines[j] = "text"
      /\ start > 1 => lines[start - 1] # "text"
  BY <1>1 DEF OpenText
<1>3. at \in 1..Len(lines)
  BY <1>1, <1>2
<1>4. /\ Flushed = FlushedOf(lines, text, chunks, section)
      /\ FlushedSpans = SpansOf(lines, text, spans, start, at)
      /\ Ink = InkOf(lines, text)
  BY DEF Flushed, FlushedSpans, FlushedOf, SpansOf, Ink, InkOf
<1>5. SUFFICES /\ OpenText(lines, at + 1, start', text')
               /\ PartsUpTo(lines, chunks', spans', start')
               /\ LastSection(chunks', Len(chunks'), section')
  BY <1>1 DEF TextInv, ChunkPhase
<1>6. ASSUME lines[at] # "text"
      PROVE  /\ PartsUpTo(lines, Flushed, FlushedSpans, at)
             /\ LastSection(Flushed, Len(Flushed), section)
  BY <1>1, <1>4, <1>6, FlushKeepsParts
<1>7. ASSUME lines[at] # "text", start' = at + 1, text' = {}
      PROVE  OpenText(lines, at + 1, start', text')
  <2>1. at + 1 \in 1..(Len(lines) + 1) /\ start' \in 1..(at + 1)
        /\ start'..(at + 1 - 1) = {} /\ lines[start' - 1] # "text"
    BY <1>3, <1>7
  <2> QED BY <2>1, <1>2, <1>7 DEF OpenText
<1>8. CASE Heading
  <2>1. /\ lines[at] = "heading" /\ chunks' = Append(Flushed, ChunkData("Section", {at}, 0))
        /\ spans' = Append(FlushedSpans, <<at, at>>) /\ section' = Len(Flushed) + 1
        /\ text' = {} /\ start' = at + 1
    BY <1>8 DEF Heading
  <2>2. PartsUpTo(lines, Flushed, FlushedSpans, at)
    BY <2>1, <1>6
  <2>3. /\ PartsUpTo(lines, chunks', spans', at + 1)
        /\ LastSection(chunks', Len(chunks'), section')
    BY <2>1, <2>2, <1>2, <1>3, HeadingIsPart
  <2>4. OpenText(lines, at + 1, start', text')
    BY <2>1, <1>7
  <2> QED BY <2>1, <2>3, <2>4
<1>9. CASE ParagraphBreak
  <2>1. /\ lines[at] = "blank" /\ chunks' = Flushed /\ spans' = FlushedSpans
        /\ section' = section /\ text' = {} /\ start' = at + 1
    BY <1>9 DEF ParagraphBreak
  <2>2. /\ PartsUpTo(lines, Flushed, FlushedSpans, at)
        /\ LastSection(Flushed, Len(Flushed), section)
    BY <2>1, <1>6
  <2>3. PartsUpTo(lines, Flushed, FlushedSpans, at + 1)
    <3>1. \A l \in at..(at + 1 - 1) : lines[l] = "blank"
      BY <2>1, <1>3
    <3> QED BY <3>1, <2>2, <1>3, PartsReadOn
  <2>4. OpenText(lines, at + 1, start', text')
    BY <2>1, <1>7
  <2> QED BY <2>1, <2>2, <2>3, <2>4
<1>10. CASE AppendLine
  <2>1. /\ lines[at] = "text" \/ (lines[at] = "blank" /\ Ink = {})
        /\ text' = text \cup {at} /\ chunks' = chunks /\ spans' = spans
        /\ start' = start /\ section' = section
    BY <1>10 DEF AppendLine
  <2>2. text' = start..(at + 1 - 1) /\ at + 1 \in 1..(Len(lines) + 1) /\ start \in 1..(at + 1)
    BY <2>1, <1>2, <1>3
  <2>3. \A i \in text' : lines[i] # "heading"
    BY <2>1, <1>2
  <2>4. ASSUME NEW i \in text', lines[i] = "text", NEW j \in i..(at + 1 - 1)
        PROVE  lines[j] = "text"
    <3>1. CASE lines[at] = "text"
      <4>1. CASE i = at
        BY <4>1, <3>1, <1>3
      <4>2. CASE i # at
        <5>1. i \in text /\ i \in start..(at - 1)
          BY <4>2, <2>1, <1>2
        <5>2. j = at \/ j \in i..(at - 1)
          BY <5>1, <1>3, <1>2
        <5> QED BY <5>1, <5>2, <2>4, <3>1, <1>2
      <4> QED BY <4>1, <4>2
    <3>2. CASE lines[at] = "blank" /\ Ink = {}
      <4>1. i # at
        BY <3>2, <2>4
      <4>2. i \in Ink
        BY <4>1, <2>1, <2>4 DEF Ink
      <4> QED BY <4>2, <3>2
    <3> QED BY <3>1, <3>2, <2>1
  <2>5. OpenText(lines, at + 1, start', text')
    BY <2>1, <2>2, <2>3, <2>4, <1>2 DEF OpenText
  <2> QED BY <2>1, <2>5, <1>1
<1> QED BY <1>8, <1>9, <1>10 DEF ReadLine

LEMMA EndOfTextKeeps == TextInv /\ EndOfText => TextInv'
<1> SUFFICES ASSUME TextInv, EndOfText PROVE TextInv'
  OBVIOUS
<1>1. /\ phase' = "done" /\ lines' = lines /\ at' = at /\ text' = text /\ start' = start
      /\ section' = section /\ lines # << >> /\ Len(lines) <= MaxLines /\ at > Len(lines)
      /\ OpenText(lines, at, start, text) /\ PartsUpTo(lines, chunks, spans, start)
      /\ LastSection(chunks, Len(chunks), section)
  BY DEF TextInv, EndOfText
<1>2. /\ lines \in Seq(Line) /\ Len(lines) \in Nat /\ at \in 1..(Len(lines) + 1)
      /\ start \in 1..at /\ text = start..(at - 1)
  BY <1>1 DEF OpenText
<1>3. at = Len(lines) + 1
  BY <1>1, <1>2
<1>4. /\ Flushed = FlushedOf(lines, text, chunks, section)
      /\ FlushedSpans = SpansOf(lines, text, spans, start, at)
      /\ Ink = InkOf(lines, text)
  BY DEF Flushed, FlushedSpans, FlushedOf, SpansOf, Ink, InkOf
<1>5. /\ PartsUpTo(lines, Flushed, FlushedSpans, Len(lines) + 1)
      /\ LastSection(Flushed, Len(Flushed), section)
  BY <1>1, <1>3, <1>4, FlushKeepsParts
<1>6. /\ chunks' = IF Flushed = << >> THEN <<ChunkData("File", Ink, 0)>> ELSE Flushed
      /\ spans' = IF Flushed = << >> THEN <<(<<1, Len(lines)>>)>> ELSE FlushedSpans
  BY DEF EndOfText
<1>7. section \in 0..Len(chunks') /\ Chunked(lines, chunks', spans')
  <2>1. CASE Flushed # << >>
    BY <2>1, <1>5, <1>6 DEF Chunked, LastSection
  <2>2. CASE Flushed = << >>
    <3>1. Ink = {}
      <4>1. ASSUME Ink # {} PROVE FALSE
        <5>1. chunks \in Seq(Chunk) /\ Flushed = Append(chunks, ChunkData("Paragraph", Ink, section))
          BY <4>1, <1>1 DEF Flushed, PartsUpTo
        <5>2. ChunkData("Paragraph", Ink, section) \in Chunk
          <6>1. Ink \in SUBSET Int /\ section \in Nat
            BY <1>1, <1>2, <5>1 DEF Ink, LastSection
          <6> QED BY <6>1 DEF Chunk, ChunkData, ChunkType
        <5>3. Len(Flushed) = Len(chunks) + 1 /\ Len(chunks) \in Nat
          BY <5>1, <5>2
        <5> QED BY <5>3, <2>2
      <4> QED BY <4>1
    <3>2. \A l \in 1..Len(lines) : lines[l] = "blank"
      <4>1. \A l \in 1..(Len(lines) + 1 - 1) :
              lines[l] # "blank" => \E i \in 1..Len(Flushed) : l \in Flushed[i].content
        BY <1>5 DEF PartsUpTo
      <4> QED BY <4>1, <2>2, <1>2
    <3>3. section = 0
      BY <2>2, <1>5 DEF LastSection
    <3>4. chunks' = <<ChunkData("File", {}, 0)>> /\ spans' = <<(<<1, Len(lines)>>)>>
      BY <2>2, <3>1, <1>6
    <3> QED BY <3>2, <3>3, <3>4 DEF Chunked
  <2> QED BY <2>1, <2>2
<1>8. TextTypeOK'
  <2>1. at \in 1..(MaxLines + 1) /\ start \in 1..(MaxLines + 1) /\ text \subseteq 1..Len(lines)
    BY <1>1, <1>2, <1>3, TextAssumption
  <2> QED BY <2>1, <1>1, <1>2, <1>7 DEF TextTypeOK
<1> QED BY <1>1, <1>7, <1>8 DEF TextInv, TextResult, ChunkPhase
LEMMA TextInvStep == TextInv /\ [ChunkingNext]_chunkVars => TextInv'
<1> SUFFICES ASSUME TextInv, [ChunkingNext]_chunkVars PROVE TextInv'
  OBVIOUS
<1>1. CASE GetChunker
  <2>1. phase = "choose" /\ chunks = << >> /\ NoText
    BY <1>1 DEF GetChunker, TextInv
  <2>2. CASE (GrowTree \/ BeginCode) /\ UNCHANGED textVars
    <3>1. NoText'
      BY <2>1, <2>2 DEF NoText, textVars
    <3>2. phase' \in {"choose", "nodes", "done"} /\ (phase' = "choose" => chunks' = << >>)
      BY <2>1, <2>2 DEF GrowTree, BeginCode
    <3> QED BY <3>1, <3>2 DEF TextInv, ChunkPhase
  <2>3. CASE tree = << >> /\ BeginText /\ UNCHANGED codeVars
    <3>1. PICK c \in BoundedSeq(Line, MaxLines) :
            lines' = c /\ phase' = IF c = << >> THEN "done" ELSE "lines"
      BY <2>3 DEF BeginText
    <3>2. chunks' = chunks /\ at' = at /\ text' = text /\ start' = start /\ section' = section
          /\ spans' = spans
      BY <2>3 DEF BeginText
    <3>3. c \in Seq(Line) /\ Len(c) <= MaxLines
      <4>1. PICK m \in 0..MaxLines : c \in [1..m -> Line]
        BY DEF BoundedSeq, SeqOf
      <4>2. m \in Nat /\ m <= MaxLines
        BY <4>1, TextAssumption
      <4>3. c \in Seq(Line) /\ Len(c) = m
        BY <4>1, <4>2
      <4> QED BY <4>2, <4>3
    <3>4. CASE c = << >>
      BY <3>1, <3>2, <3>4, <2>1 DEF TextInv, NoText, ChunkPhase
    <3>5. CASE c # << >>
      <4>1. phase' = "lines" /\ lines' = c /\ chunks' = << >> /\ at' = 1 /\ text' = {}
            /\ start' = 1 /\ section' = 0 /\ spans' = << >>
        BY <3>1, <3>2, <3>5, <2>1 DEF NoText
      <4>2. OpenText(c, 1, 1, {})
        <5>1. Len(c) \in Nat /\ 1 \in 1..(Len(c) + 1) /\ 1..(1 - 1) = {}
          BY <3>3
        <5> QED BY <5>1, <3>3 DEF OpenText
      <4>3. PartsUpTo(c, << >>, << >>, 1)
        BY DEF PartsUpTo
      <4>4. LastSection(<< >>, Len(<< >>), 0)
        BY DEF LastSection
      <4> QED BY <4>1, <4>2, <4>3, <4>4, <3>3, <3>5 DEF TextInv, ChunkPhase
    <3> QED BY <3>4, <3>5
  <2>4. CASE tree = << >> /\ phase' = "done" /\ UNCHANGED <<chunks, textVars, codeVars>>
    <3>1. NoText'
      BY <2>1, <2>4 DEF NoText, textVars
    <3> QED BY <3>1, <2>4 DEF TextInv, ChunkPhase
  <2> QED BY <1>1, <2>2, <2>3, <2>4 DEF GetChunker
<1>2. CASE TextStep /\ UNCHANGED codeVars
  BY <1>2, ReadLineKeeps, EndOfTextKeeps DEF TextStep
<1>3. CASE CodeStep /\ UNCHANGED textVars
  <2>1. phase = "nodes" /\ NoText
    BY <1>3 DEF CodeStep, WalkTree, EndOfWalk, TextInv
  <2>2. NoText'
    BY <2>1, <1>3 DEF NoText, textVars
  <2>3. phase' \in {"nodes", "done"}
    BY <2>1, <1>3 DEF CodeStep, WalkTree, EndOfWalk
  <2> QED BY <2>2, <2>3 DEF TextInv, ChunkPhase
<1>4. CASE UNCHANGED chunkVars
  <2>1. /\ phase' = phase /\ chunks' = chunks /\ lines' = lines /\ at' = at /\ text' = text
        /\ start' = start /\ section' = section /\ spans' = spans
    BY <1>4 DEF chunkVars, textVars
  <2> QED BY <2>1 DEF TextInv, NoText, TextResult, TextTypeOK
<1> QED BY <1>1, <1>2, <1>3, <1>4 DEF ChunkingNext

THEOREM TextInvariant == ChunkingSpec => []TextInv
BY TextInvInit, TextInvStep, PTL DEF ChunkingSpec

(* What a part is: a run or a heading of the lines, from line first to     *)
(* line last.                                                              *)
LEMMA PartFacts ==
  ASSUME NEW L \in Seq(Line), NEW c, Whole(L, c, Len(L) + 1)
  PROVE  \E p, q \in 1..Len(L) :
           /\ p <= q /\ c.content = p..q
           /\ Min(c.content) = p /\ Max(c.content) = q
           /\ \/ c.type = "Section" /\ p = q /\ L[p] = "heading"
              \/ c.type = "Paragraph" /\ IsRun(L, p, q)
<1>0. Len(L) \in Nat /\ Len(L) + 1 - 1 = Len(L)
  OBVIOUS
<1>1. ASSUME NEW p \in 1..Len(L), NEW q \in 1..Len(L), p <= q
      PROVE  Min(p..q) = p /\ Max(p..q) = q
  <2> DEFINE r == p..q
  <2>1. r \in SUBSET Nat /\ p \in r /\ q \in r /\ \A x \in r : p <= x /\ x <= q
    BY <1>0, <1>1
  <2>2. Min(r) \in r /\ (\A x \in r : Min(r) <= x)
    <3> HIDE DEF r
    <3> QED BY <2>1, LeastMember
  <2>3. Max(r) \in r /\ (\A x \in r : x <= Max(r))
    <3> HIDE DEF r
    <3>1. q \in Nat
      BY <1>0
    <3> QED BY <2>1, <3>1, GreatestMember
  <2>4. Min(r) \in Int /\ Max(r) \in Int
    BY <2>1, <2>2, <2>3
  <2> HIDE DEF r
  <2>5. Min(r) <= p /\ p <= Min(r) /\ Max(r) <= q /\ q <= Max(r)
    BY <2>1, <2>2, <2>3
  <2> QED BY <2>4, <2>5 DEF r
<1>2. CASE c.type = "Section" /\ \E i \in 1..Len(L) : L[i] = "heading" /\ c.content = {i}
  <2>1. PICK i \in 1..Len(L) : L[i] = "heading" /\ c.content = {i}
    BY <1>2
  <2>2. i..i = {i} /\ i <= i
    BY <1>0
  <2>3. Min(c.content) = i /\ Max(c.content) = i
    BY <2>1, <2>2, <1>1
  <2> QED BY <1>2, <2>1, <2>2, <2>3
<1>3. CASE /\ c.type = "Paragraph"
           /\ \E p, q \in 1..Len(L) : p <= q /\ IsRun(L, p, q) /\ c.content = p..q
  BY <1>1, <1>3
<1> QED BY <1>0, <1>2, <1>3 DEF Whole

\* Runs and Headings of lines L.
RunsOf(L) ==
  {r \in SUBSET {i \in 1..Len(L) : L[i] = "text"} :
     /\ r # {} /\ r = Min(r)..Max(r)
     /\ ~\E i \in {Min(r) - 1, Max(r) + 1} : i \in 1..Len(L) /\ L[i] = "text"}
HeadingsOf(L) == {{i} : i \in {j \in 1..Len(L) : L[j] = "heading"}}

(* The contents of the chunks are exactly the runs and the headings.       *)
LEMMA PartsAreAll ==
  ASSUME NEW L \in Seq(Line), NEW cs, NEW sp, PartsUpTo(L, cs, sp, Len(L) + 1)
  PROVE  {cs[i].content : i \in 1..Len(cs)} = RunsOf(L) \cup HeadingsOf(L)
<1>0. Len(L) \in Nat /\ \A i \in 1..Len(L) : L[i] \in Line
  OBVIOUS
<1>1. ASSUME NEW i \in 1..Len(cs)
      PROVE  cs[i].content \in RunsOf(L) \cup HeadingsOf(L)
  <2>1. PICK p, q \in 1..Len(L) :
           /\ p <= q /\ cs[i].content = p..q
           /\ Min(cs[i].content) = p /\ Max(cs[i].content) = q
           /\ \/ cs[i].type = "Section" /\ p = q /\ L[p] = "heading"
              \/ cs[i].type = "Paragraph" /\ IsRun(L, p, q)
    <3>1. Whole(L, cs[i], Len(L) + 1)
      BY DEF PartsUpTo
    <3> QED BY <3>1, PartFacts
  <2>2. CASE p = q /\ L[p] = "heading"
    <3>1. p..q = {p}
      BY <2>2, <1>0
    <3> QED BY <3>1, <2>1, <2>2 DEF HeadingsOf
  <2>3. CASE IsRun(L, p, q)
    <3>1. p..q \subseteq {k \in 1..Len(L) : L[k] = "text"} /\ p..q # {}
      <4>1. \A k \in p..q : k \in 1..Len(L) /\ L[k] = "text"
        BY <2>3, <1>0 DEF IsRun
      <4>2. p \in p..q
        BY <2>1, <1>0
      <4> QED BY <4>1, <4>2
    <3>2. ~\E k \in {p - 1, q + 1} : k \in 1..Len(L) /\ L[k] = "text"
      <4>1. p - 1 \in 1..Len(L) => L[p - 1] # "text"
        BY <2>3, <1>0 DEF IsRun
      <4>2. q + 1 \in 1..Len(L) => L[q + 1] # "text"
        BY <2>3, <1>0 DEF IsRun
      <4> QED BY <4>1, <4>2
    <3>3. Min(p..q) = p /\ Max(p..q) = q
      BY <2>1
    <3>4. p..q \in RunsOf(L)
      BY <3>1, <3>2, <3>3 DEF RunsOf
    <3> QED BY <3>4, <2>1
  <2> QED BY <2>1, <2>2, <2>3
<1>2. ASSUME NEW l \in 1..Len(L), L[l] # "blank"
      PROVE  \E i \in 1..Len(cs) : \E p, q \in 1..Len(L) :
               /\ cs[i].content = p..q /\ l \in p..q
               /\ (p = q /\ L[p] = "heading") \/ IsRun(L, p, q)
  <2>1. l \in 1..(Len(L) + 1 - 1)
    BY <1>0
  <2>2. PICK i \in 1..Len(cs) : l \in cs[i].content
    BY <2>1, <1>2 DEF PartsUpTo
  <2>3. Whole(L, cs[i], Len(L) + 1)
    BY DEF PartsUpTo
  <2>4. PICK p, q \in 1..Len(L) :
           /\ p <= q /\ cs[i].content = p..q
           /\ Min(cs[i].content) = p /\ Max(cs[i].content) = q
           /\ \/ cs[i].type = "Section" /\ p = q /\ L[p] = "heading"
              \/ cs[i].type = "Paragraph" /\ IsRun(L, p, q)
    BY <2>3, PartFacts
  <2> QED BY <2>2, <2>4
<1>3. ASSUME NEW r \in RunsOf(L)
      PROVE  \E i \in 1..Len(cs) : cs[i].content = r
  <2> DEFINE m == Min(r)
             M == Max(r)
  <2>1. /\ r \subseteq {k \in 1..Len(L) : L[k] = "text"} /\ r # {} /\ r = m..M
        /\ ~\E k \in {m - 1, M + 1} : k \in 1..Len(L) /\ L[k] = "text"
    BY DEF RunsOf
  <2>2. m \in r /\ M \in r
    <3>1. r \in SUBSET Nat /\ (\A x \in r : x <= Len(L))
      BY <2>1, <1>0
    <3> QED BY <3>1, <2>1, <1>0, LeastMember, GreatestMember
  <2> HIDE DEF m, M
  <2>3. /\ m \in 1..Len(L) /\ M \in 1..Len(L) /\ L[m] = "text"
        /\ \A k \in m..M : L[k] = "text"
    BY <2>1, <2>2
  <2>4. PICK i \in 1..Len(cs) : \E p, q \in 1..Len(L) :
               /\ cs[i].content = p..q /\ m \in p..q
               /\ (p = q /\ L[p] = "heading") \/ IsRun(L, p, q)
    BY <2>3, <1>2
  <2>5. PICK p, q \in 1..Len(L) :
               /\ cs[i].content = p..q /\ m \in p..q
               /\ (p = q /\ L[p] = "heading") \/ IsRun(L, p, q)
    BY <2>4
  <2>6. IsRun(L, p, q)
    BY <2>3, <2>5, <1>0
  <2>7. m - 1 \notin p..q
    BY <2>1, <2>3, <2>5, <2>6, <1>0 DEF IsRun
  <2>8. p = m
    BY <2>3, <2>5, <2>7, <1>0
  <2>9. M <= q
    <3>1. ASSUME q < M PROVE FALSE
      <4>1. q + 1 \in m..M /\ q # Len(L)
        BY <3>1, <2>3, <2>5, <2>8, <1>0
      <4> QED BY <4>1, <2>3, <2>6 DEF IsRun
    <3> QED BY <3>1, <2>3, <1>0
  <2>10. q <= M
    <3>1. ASSUME M < q PROVE FALSE
      <4>1. M + 1 \in p..q /\ M + 1 \in 1..Len(L)
        BY <3>1, <2>2, <2>1, <2>3, <2>5, <2>8, <1>0
      <4> QED BY <4>1, <2>1, <2>6 DEF IsRun
    <3> QED BY <3>1, <2>3, <1>0
  <2>11. q = M
    BY <2>9, <2>10, <2>3, <1>0
  <2> QED BY <2>5, <2>8, <2>11, <2>1
<1>4. ASSUME NEW j \in 1..Len(L), L[j] = "heading"
      PROVE  \E i \in 1..Len(cs) : cs[i].content = {j}
  <2>1. PICK i \in 1..Len(cs) : \E p, q \in 1..Len(L) :
               /\ cs[i].content = p..q /\ j \in p..q
               /\ (p = q /\ L[p] = "heading") \/ IsRun(L, p, q)
    BY <1>2, <1>4
  <2>2. PICK p, q \in 1..Len(L) :
               /\ cs[i].content = p..q /\ j \in p..q
               /\ (p = q /\ L[p] = "heading") \/ IsRun(L, p, q)
    BY <2>1
  <2>3. p = q
    BY <2>2, <1>4 DEF IsRun
  <2>4. p..q = {j}
    BY <2>2, <2>3, <1>0
  <2> QED BY <2>2, <2>4
<1>5. ASSUME NEW r \in HeadingsOf(L) PROVE \E i \in 1..Len(cs) : cs[i].content = r
  <2>1. PICK j \in 1..Len(L) : L[j] = "heading" /\ r = {j}
    BY DEF HeadingsOf
  <2> QED BY <2>1, <1>4
<1>6. \A r \in RunsOf(L) \cup HeadingsOf(L) : \E i \in 1..Len(cs) : cs[i].content = r
  BY <1>3, <1>5
<1> QED BY <1>1, <1>6
(* The parents and the order of the parts are those of the property.       *)
LEMMA PartsInOrder ==
  ASSUME NEW L \in Seq(Line), NEW cs, NEW sp, PartsUpTo(L, cs, sp, Len(L) + 1)
  PROVE  /\ \A i \in 2..Len(cs) : Max(cs[i - 1].content) < Min(cs[i].content)
         /\ \A i \in 1..Len(cs) :
              LET above == {j \in 1..(i - 1) : cs[j].type = "Section"} IN
              /\ cs[i].parent =
                   IF cs[i].type # "Paragraph" \/ above = {} THEN 0 ELSE Max(above)
              /\ cs[i].content \subseteq sp[i][1]..sp[i][2]
              /\ sp[i][2] <= Len(L)
              /\ i > 1 => sp[i - 1][2] < sp[i][1]
<1>0. Len(L) \in Nat /\ Len(cs) \in Nat /\ cs \in Seq(Chunk) /\ sp \in Seq(Int \X Int)
      /\ Len(sp) = Len(cs)
  BY DEF PartsUpTo
<1>1. ASSUME NEW i \in 1..Len(cs)
      PROVE  /\ sp[i][1] \in Int /\ sp[i][2] \in Int /\ sp[i][2] <= Len(L)
             /\ cs[i].content \subseteq sp[i][1]..sp[i][2]
             /\ i > 1 => sp[i - 1][2] < sp[i][1]
  <2>1. sp[i] \in Int \X Int
    BY <1>0
  <2>2. sp[i][2] < Len(L) + 1 /\ cs[i].content \subseteq sp[i][1]..sp[i][2]
    BY DEF PartsUpTo
  <2>3. i > 1 => i \in 2..Len(cs)
    BY <1>0
  <2>4. i > 1 => sp[i - 1][2] < sp[i][1]
    BY <2>3 DEF PartsUpTo
  <2>5. sp[i][1] \in Int /\ sp[i][2] \in Int
    BY <2>1
  <2>6. sp[i][2] <= Len(L)
    BY <2>2, <2>5, <1>0
  <2> QED BY <2>2, <2>4, <2>5, <2>6, Zenon
<1>2. ASSUME NEW i \in 1..Len(cs)
      PROVE  /\ Min(cs[i].content) \in cs[i].content /\ Max(cs[i].content) \in cs[i].content
             /\ cs[i].type \in {"Section", "Paragraph"}
  <2>1. Whole(L, cs[i], Len(L) + 1)
    BY DEF PartsUpTo
  <2>2. PICK p, q \in 1..Len(L) :
           /\ p <= q /\ cs[i].content = p..q
           /\ Min(cs[i].content) = p /\ Max(cs[i].content) = q
           /\ cs[i].type \in {"Section", "Paragraph"}
    BY <2>1, PartFacts
  <2>3. p \in p..q /\ q \in p..q
    BY <2>2, <1>0
  <2> QED BY <2>2, <2>3
<1>3. ASSUME NEW i \in 2..Len(cs) PROVE Max(cs[i - 1].content) < Min(cs[i].content)
  <2>1. i \in 1..Len(cs) /\ i - 1 \in 1..Len(cs) /\ i > 1
    BY <1>0
  <2>2. Max(cs[i - 1].content) \in sp[i - 1][1]..sp[i - 1][2]
        /\ Min(cs[i].content) \in sp[i][1]..sp[i][2]
    BY <2>1, <1>1, <1>2
  <2>3. sp[i - 1][2] < sp[i][1] /\ sp[i - 1][2] \in Int /\ sp[i][1] \in Int
        /\ sp[i - 1][1] \in Int /\ sp[i][2] \in Int
    BY <2>1, <1>1
  <2> QED BY <2>2, <2>3
<1>4. ASSUME NEW i \in 1..Len(cs)
      PROVE  LET above == {j \in 1..(i - 1) : cs[j].type = "Section"} IN
             cs[i].parent = IF cs[i].type # "Paragraph" \/ above = {} THEN 0 ELSE Max(above)
  <2> DEFINE above == {j \in 1..(i - 1) : cs[j].type = "Section"}
             p == cs[i].parent
  <2>1. ParentFound(cs, i - 1, cs[i])
    BY DEF PartsUpTo
  <2>2. CASE cs[i].type = "Section" /\ p = 0
    BY <2>2
  <2>3. CASE cs[i].type = "Paragraph" /\ LastSection(cs, i - 1, p)
    <3>1. /\ p \in 0..(i - 1) /\ (p # 0 => cs[p].type = "Section")
          /\ \A j \in (p + 1)..(i - 1) : cs[j].type # "Section"
      BY <2>3 DEF LastSection
    <3> HIDE DEF p
    <3>2. \A j \in above : j <= p
      <4> SUFFICES ASSUME NEW j \in above, p < j PROVE FALSE
        BY <3>1
      <4>1. j \in (p + 1)..(i - 1)
        BY <3>1
      <4> QED BY <4>1, <3>1
    <3>3. CASE p = 0
      <4>1. above = {}
        <5> SUFFICES ASSUME NEW j \in above PROVE FALSE
          OBVIOUS
        <5>1. j \in 1..(i - 1) /\ j <= 0
          BY <3>2, <3>3
        <5> QED BY <5>1
      <4> QED BY <4>1, <3>3, <2>3 DEF p
    <3>4. CASE p # 0
      <4>1. p \in above
        BY <3>1, <3>4
      <4>2. above \in SUBSET Nat /\ i \in Nat /\ (\A x \in above : x <= i /\ x \in Int)
        BY <1>0
      <4> HIDE DEF above
      <4>3. Max(above) \in above /\ \A x \in above : x <= Max(above)
        BY <4>1, <4>2, GreatestMember
      <4>4. p \in Int /\ Max(above) \in Int
        BY <4>1, <4>2, <4>3
      <4>5. Max(above) <= p /\ p <= Max(above)
        BY <4>1, <4>3, <3>2
      <4>6. Max(above) = p
        BY <4>4, <4>5
      <4> QED BY <4>1, <4>6, <2>3 DEF above, p
    <3> QED BY <3>3, <3>4
  <2> QED BY <2>1, <2>2, <2>3 DEF ParentFound
<1> QED BY <1>1, <1>3, <1>4
LEMMA PartsAsStated == TextInv => ChunksAreParagraphs
<1> SUFFICES ASSUME TextInv, TextDone PROVE ChunksAreParagraphs
  BY DEF ChunksAreParagraphs
<1>1. /\ lines \in Seq(Line) /\ lines # << >> /\ Len(lines) \in Nat
      /\ Chunked(lines, chunks, spans)
  BY DEF TextInv, TextDone, NoText, TextResult, TextTypeOK
<1>2. Runs = RunsOf(lines) /\ Headings = HeadingsOf(lines)
  BY DEF Runs, RunsOf, Headings, HeadingsOf
<1>3. CASE PartsUpTo(lines, chunks, spans, Len(lines) + 1) /\ chunks # << >>
  <2>1. {chunks[i].content : i \in 1..Len(chunks)} = Runs \cup Headings
    BY <1>1, <1>2, <1>3, PartsAreAll
  <2>2. Runs \cup Headings # {}
    <3>1. chunks \in Seq(Chunk)
      BY <1>3 DEF PartsUpTo
    <3>2. 1 \in 1..Len(chunks)
      BY <3>1, <1>3
    <3> QED BY <3>2, <2>1
  <2> QED BY <2>1, <2>2, <1>1, <1>3, PartsInOrder DEF ChunksAreParagraphs
<1>4. CASE /\ \A l \in 1..Len(lines) : lines[l] = "blank"
           /\ chunks = <<ChunkData("File", {}, 0)>> /\ spans = <<(<<1, Len(lines)>>)>>
  <2>1. Runs = {}
    <3> SUFFICES ASSUME NEW r \in Runs PROVE FALSE
      OBVIOUS
    <3>1. r \subseteq {i \in 1..Len(lines) : lines[i] = "text"} /\ r # {}
      BY DEF Runs
    <3> QED BY <3>1, <1>4
  <2>2. Headings = {}
    BY <1>4 DEF Headings
  <2>3. Len(chunks) = 1 /\ chunks[1].content = {} /\ chunks[1].parent = 0
        /\ chunks[1].type = "File"
    BY <1>4 DEF ChunkData
  <2>4. spans[1][2] = Len(lines)
    BY <1>4
  <2>5. \A i \in 1..Len(chunks) : i = 1
    BY <2>3
  <2>6. \A i \in 2..Len(chunks) : FALSE
    BY <2>3
  <2> QED BY <2>1, <2>2, <2>3, <2>4, <2>5, <2>6, <1>1 DEF ChunksAreParagraphs
<1> QED BY <1>1, <1>3, <1>4 DEF Chunked

(* Of a file of any length, the chunks are its headings and paragraphs,    *)
(* each once and in their order, with the last heading above a paragraph   *)
(* as its parent (text.rs:34-119).                                         *)
THEOREM ParagraphsOfAnyText == ChunkingSpec => []ChunksAreParagraphs
<1>1. TextInv => ChunksAreParagraphs
  BY PartsAsStated
<1> QED BY <1>1, TextInvariant, PTL
-----------------------------------------------------------------------------
(* The code chunker: trees in document order. A gives the nodes above each *)
(* node of tree t.                                                         *)

Node == [kind : NodeKind, up : Nat, tiny : BOOLEAN]

IsAbove(t, A) ==
  A = [i \in 1..Len(t) |-> IF t[i].up = 0 THEN {} ELSE {t[i].up} \cup A[t[i].up]]

Rooted(t) ==
  /\ t \in Seq(Node)
  /\ \A i \in 1..Len(t) : t[i].up \in 0..(i - 1) /\ (t[i].up = 0 <=> i = 1)

\* The nodes above a node come before it and form one chain.
Chained(t, A) ==
  /\ \A i \in 1..Len(t) : A[i] \subseteq 1..(i - 1)
  /\ \A i \in 1..Len(t) : \A y \in A[i] : A[y] \subseteq A[i]
  /\ \A i \in 1..Len(t) : \A x, y \in A[i] : x < y => x \in A[y]

\* The nodes below a node follow it without a gap: what comes between a node
\* and one below it is below it, and what comes behind it and is not below it
\* hangs, by some node c, on a node above it.
Contiguous(t, A) ==
  /\ \A i \in 2..Len(t) : t[i].up \in {i - 1} \cup A[i - 1]
  /\ \A k \in 1..Len(t) : \A n \in A[k] : \A m \in (n + 1)..(k - 1) : n \in A[m]
  /\ \A m \in 1..Len(t) : \A n \in 1..(m - 1) :
       n \notin A[m] =>
         \E c \in (n + 1)..m : c \in {m} \cup A[m] /\ t[c].up \in A[n]

IsTree(t, A) == Rooted(t) /\ IsAbove(t, A) /\ Chained(t, A) /\ Contiguous(t, A)

(* A function with the equation of Above is Above: it has only one.        *)
LEMMA AboveUnique ==
  ASSUME NEW t, Rooted(t), NEW A, IsAbove(t, A)
  PROVE  Above(t) = A
<1> DEFINE F == Above(t)
           N == 1..Len(t)
<1>0. Len(t) \in Nat /\ \A i \in N : t[i].up \in 0..(i - 1)
  BY DEF Rooted
<1>1. F = [i \in N |-> IF t[i].up = 0 THEN {} ELSE {t[i].up} \cup F[t[i].up]]
  BY DEF Above, IsAbove
<1>2. A = [i \in N |-> IF t[i].up = 0 THEN {} ELSE {t[i].up} \cup A[t[i].up]]
  BY DEF IsAbove
<1> HIDE DEF F
<1>3. \A i \in N : F[i] = A[i]
  <2> DEFINE D == {i \in N : F[i] # A[i]}
  <2> SUFFICES ASSUME D # {} PROVE FALSE
    OBVIOUS
  <2>1. D \in SUBSET Nat
    BY <1>0
  <2> DEFINE m == Min(D)
  <2>2. m \in D /\ \A x \in D : m <= x
    <3> HIDE DEF D
    <3> QED BY <2>1, LeastMember
  <2> HIDE DEF m
  <2>3. m \in N /\ F[m] # A[m] /\ t[m].up \in 0..(m - 1)
    BY <2>2, <1>0
  <2>4. t[m].up # 0 => t[m].up \in N /\ t[m].up < m
    BY <2>3, <1>0
  <2>5. t[m].up # 0 => F[t[m].up] = A[t[m].up]
    <3> SUFFICES ASSUME t[m].up # 0, F[t[m].up] # A[t[m].up] PROVE FALSE
      OBVIOUS
    <3>1. t[m].up \in D
      BY <2>4
    <3>2. m <= t[m].up /\ t[m].up < m /\ m \in Int /\ t[m].up \in Int
      BY <3>1, <2>2, <2>4, <1>0
    <3> QED BY <3>2
  <2>6. F[m] = IF t[m].up = 0 THEN {} ELSE {t[m].up} \cup F[t[m].up]
    BY <1>1, <2>3
  <2>7. A[m] = IF t[m].up = 0 THEN {} ELSE {t[m].up} \cup A[t[m].up]
    BY <1>2, <2>3
  <2> QED BY <2>3, <2>5, <2>6, <2>7
<1>4. F = [i \in N |-> F[i]] /\ A = [i \in N |-> A[i]]
  BY <1>1, <1>2
<1>5. [i \in N |-> F[i]] = [i \in N |-> A[i]]
  BY <1>3
<1> QED BY <1>4, <1>5 DEF F

\* The nodes above each node of t when node x is added to it.
Extended(t, A, x) ==
  [i \in 1..(Len(t) + 1) |->
     IF i <= Len(t) THEN A[i] ELSE IF x.up = 0 THEN {} ELSE {x.up} \cup A[x.up]]

(* A tree that grows by a node below its last one, or below a node above   *)
(* that, stays a tree in document order.                                   *)
LEMMA TreeGrows ==
  ASSUME NEW t, NEW A, IsTree(t, A), NEW x \in Node,
         IF t = << >> THEN x.up = 0 ELSE x.up \in {Len(t)} \cup A[Len(t)]
  PROVE  IsTree(Append(t, x), Extended(t, A, x))
<1> DEFINE n == Len(t)
           u == Append(t, x)
           B == Extended(t, A, x)
           k == n + 1
<1>0. n \in Nat /\ t \in Seq(Node) /\ k \in Nat
  BY DEF IsTree, Rooted
<1>1. u \in Seq(Node) /\ Len(u) = k /\ (\A i \in 1..n : u[i] = t[i]) /\ u[k] = x
  BY <1>0
<1>2. /\ \A i \in 1..n : B[i] = A[i]
      /\ B[k] = IF x.up = 0 THEN {} ELSE {x.up} \cup A[x.up]
      /\ B = [i \in 1..k |-> IF i <= n THEN A[i] ELSE IF x.up = 0 THEN {} ELSE {x.up} \cup A[x.up]]
  BY <1>0 DEF Extended
<1>3. t = << >> <=> n = 0
  BY <1>0
<1> HIDE DEF u, B, n
<1>4. \A i \in 1..k : i \in 1..n \/ i = k
  BY <1>0
<1>5. \A i \in 1..n : t[i].up \in 0..(i - 1) /\ (t[i].up = 0 <=> i = 1)
  BY DEF IsTree, Rooted, n
<1>6. \A i \in 1..n : A[i] = IF t[i].up = 0 THEN {} ELSE {t[i].up} \cup A[t[i].up]
  BY <1>0 DEF IsTree, IsAbove, n
<1>7. /\ \A i \in 1..n : A[i] \subseteq 1..(i - 1)
      /\ \A i \in 1..n : \A y \in A[i] : A[y] \subseteq A[i]
      /\ \A i \in 1..n : \A y, z \in A[i] : y < z => y \in A[z]
  BY DEF IsTree, Chained, n
<1>8. /\ \A i \in 2..n : t[i].up \in {i - 1} \cup A[i - 1]
      /\ \A j \in 1..n : \A i \in A[j] : \A m \in (i + 1)..(j - 1) : i \in A[m]
      /\ \A m \in 1..n : \A i \in 1..(m - 1) :
           i \notin A[m] => \E c \in (i + 1)..m : c \in {m} \cup A[m] /\ t[c].up \in A[i]
  BY DEF IsTree, Contiguous, n
<1>9. CASE n = 0
  <2>1. x.up = 0 /\ k = 1 /\ u[1] = x /\ B[1] = {} /\ Len(u) = 1
    BY <1>1, <1>2, <1>3, <1>9, <1>0
  <2>2. \A i \in 1..Len(u) : i = 1
    BY <2>1
  <2>3. Rooted(u)
    BY <1>1, <2>1, <2>2 DEF Rooted
  <2>4. IsAbove(u, B)
    <3>1. 1..Len(u) = {1}
      BY <2>1
    <3>2. B = [i \in {1} |-> {}]
      BY <1>2, <2>1, <3>1, <1>9, <1>1
    <3>3. [i \in 1..Len(u) |-> IF u[i].up = 0 THEN {} ELSE {u[i].up} \cup B[u[i].up]]
          = [i \in {1} |-> {}]
      BY <2>1, <3>1
    <3> QED BY <3>2, <3>3 DEF IsAbove
  <2>5. Chained(u, B)
    BY <2>1, <2>2 DEF Chained
  <2>6. Contiguous(u, B)
    <3>1. \A i \in 2..Len(u) : FALSE
      BY <2>1
    <3>2. \A m \in 1..Len(u) : \A i \in 1..(m - 1) : FALSE
      BY <2>1
    <3> QED BY <3>1, <3>2, <2>1, <2>2 DEF Contiguous
  <2> QED BY <2>3, <2>4, <2>5, <2>6 DEF IsTree, u, B
<1>10. CASE n # 0
  <2> DEFINE p == x.up
  <2>1. n \in 1..n /\ p \in {n} \cup A[n] /\ p \in 1..n
    <3>1. n \in 1..n /\ p \in {n} \cup A[n]
      BY <1>10, <1>0, <1>3 DEF n
    <3>2. A[n] \subseteq 1..(n - 1)
      BY <3>1, <1>7
    <3> QED BY <3>1, <3>2, <1>0
  <2>2. B[k] = {p} \cup A[p]
    BY <2>1, <1>2
  <2>a. u[k].up = p
    BY <1>1
  <2> HIDE DEF p
  <2>3. A[p] \subseteq 1..(p - 1) /\ A[p] \subseteq 1..n
    BY <2>1, <1>7
  <2>4. B[k] \subseteq {n} \cup A[n]
    BY <2>1, <2>2, <1>7
  <2>5. Rooted(u)
    <3>1. \A i \in 1..n : u[i].up \in 0..(i - 1) /\ (u[i].up = 0 <=> i = 1)
      BY <1>1, <1>5
    <3>2. u[k].up \in 0..(k - 1) /\ (u[k].up = 0 <=> k = 1)
      BY <2>1, <2>a, <1>0, <1>10
    <3> QED BY <3>1, <3>2, <1>1, <1>4 DEF Rooted
  <2>6. IsAbove(u, B)
    <3>1. ASSUME NEW i \in 1..k
          PROVE  B[i] = IF u[i].up = 0 THEN {} ELSE {u[i].up} \cup B[u[i].up]
      <4>1. CASE i \in 1..n
        <5>1. t[i].up # 0 => t[i].up \in 1..n
          BY <4>1, <1>5, <1>0
        <5>2. B[i] = A[i] /\ u[i] = t[i]
          BY <4>1, <1>1, <1>2
        <5>3. A[i] = IF t[i].up = 0 THEN {} ELSE {t[i].up} \cup A[t[i].up]
          BY <4>1, <1>6
        <5>4. t[i].up # 0 => A[t[i].up] = B[t[i].up]
          BY <5>1, <1>2
        <5> QED BY <5>2, <5>3, <5>4, Zenon
      <4>2. CASE i = k
        BY <4>2, <2>1, <2>2, <2>a, <1>2
      <4> QED BY <4>1, <4>2, <1>4
    <3>2. B = [i \in 1..k |-> B[i]]
      BY <1>2
    <3>3. [i \in 1..k |-> B[i]]
          = [i \in 1..k |-> IF u[i].up = 0 THEN {} ELSE {u[i].up} \cup B[u[i].up]]
      BY <3>1
    <3> QED BY <3>2, <3>3, <1>1 DEF IsAbove
  <2>7. \A i \in 1..k : B[i] \subseteq 1..(i - 1)
    <3>1. B[k] \subseteq 1..(k - 1)
      BY <2>1, <2>2, <2>3, <1>0
    <3> QED BY <3>1, <1>2, <1>4, <1>7
  <2>8. \A i \in 1..k : \A y \in B[i] : B[y] \subseteq B[i]
    <3>1. ASSUME NEW i \in 1..n, NEW y \in B[i] PROVE B[y] \subseteq B[i]
      <4>1. y \in A[i] /\ y \in 1..n
        BY <3>1, <1>2, <1>7, <1>0
      <4> QED BY <4>1, <1>2, <1>7
    <3>2. ASSUME NEW y \in B[k] PROVE B[y] \subseteq B[k]
      <4>1. y \in 1..n /\ (y = p \/ y \in A[p])
        BY <3>2, <2>1, <2>2, <2>3
      <4>2. A[y] \subseteq A[p]
        BY <4>1, <2>1, <1>7
      <4>3. B[y] = A[y]
        BY <4>1, <1>2
      <4> QED BY <4>2, <4>3, <2>2
    <3> QED BY <3>1, <3>2, <1>4
  <2>9. \A i \in 1..k : \A y, z \in B[i] : y < z => y \in B[z]
    <3>1. ASSUME NEW i \in 1..n, NEW y \in B[i], NEW z \in B[i], y < z PROVE y \in B[z]
      <4>1. y \in A[i] /\ z \in A[i] /\ z \in 1..n
        BY <3>1, <1>2, <1>7, <1>0
      <4>2. y \in A[z]
        BY <4>1, <3>1, <1>7
      <4> QED BY <4>1, <4>2, <1>2
    <3>2. ASSUME NEW y \in B[k], NEW z \in B[k], y < z PROVE y \in B[z]
      <4>1. /\ y = p \/ y \in A[p]
            /\ z = p \/ z \in A[p]
            /\ y \in 1..n /\ z \in 1..n
        BY <3>2, <2>1, <2>2, <2>3
      <4>2. B[z] = A[z]
        BY <4>1, <1>2
      <4>3. CASE z = p
        <5>1. y # p
          BY <4>1, <4>3, <3>2
        <5> QED BY <5>1, <4>1, <4>2, <4>3
      <4>4. CASE z \in A[p]
        <5>1. z < p /\ y # p
          BY <4>1, <4>4, <2>1, <2>3, <3>2
        <5>2. y \in A[p]
          BY <5>1, <4>1
        <5>3. y \in A[z]
          BY <5>2, <4>4, <2>1, <3>2, <1>7
        <5> QED BY <5>3, <4>2
      <4> QED BY <4>1, <4>3, <4>4
    <3> QED BY <3>1, <3>2, <1>4
  <2>10. Chained(u, B)
    BY <2>7, <2>8, <2>9, <1>1 DEF Chained
  <2>11. \A i \in 2..k : u[i].up \in {i - 1} \cup B[i - 1]
    <3>1. ASSUME NEW i \in 2..n PROVE u[i].up \in {i - 1} \cup B[i - 1]
      <4>1. i \in 1..n /\ i - 1 \in 1..n
        BY <1>0
      <4>2. t[i].up \in {i - 1} \cup A[i - 1]
        BY <1>8
      <4> QED BY <4>1, <4>2, <1>1, <1>2
    <3>2. u[k].up \in {k - 1} \cup B[k - 1]
      <4>1. k - 1 = n /\ B[n] = A[n]
        BY <2>1, <1>0, <1>2
      <4> QED BY <4>1, <2>1, <2>a
    <3>3. \A i \in 2..k : i \in 2..n \/ i = k
      BY <1>0
    <3> QED BY <3>1, <3>2, <3>3
  <2>12. \A j \in 1..k : \A i \in B[j] : \A m \in (i + 1)..(j - 1) : i \in B[m]
    <3>1. ASSUME NEW j \in 1..n, NEW i \in B[j], NEW m \in (i + 1)..(j - 1)
          PROVE  i \in B[m]
      <4>1. i \in A[j] /\ i \in 1..(j - 1)
        BY <3>1, <1>2, <1>7
      <4>2. m \in 1..n
        BY <4>1, <1>0
      <4>3. i \in A[m]
        BY <4>1, <1>8
      <4> QED BY <4>2, <4>3, <1>2
    <3>2. ASSUME NEW i \in B[k], NEW m \in (i + 1)..(k - 1) PROVE i \in B[m]
      <4>1. (i = n \/ i \in A[n]) /\ i \in 1..n
        BY <2>1, <2>2, <2>3, <2>4
      <4>2. m \in 1..n /\ i < m
        BY <4>1, <1>0
      <4>3. i \in A[n]
        BY <4>1, <4>2
      <4>4. CASE m = n
        BY <4>2, <4>3, <4>4, <1>2
      <4>5. CASE m # n
        <5>1. m \in (i + 1)..(n - 1)
          BY <4>1, <4>2, <4>5, <1>0
        <5>2. i \in A[m]
          BY <5>1, <4>3, <2>1, <1>8
        <5> QED BY <5>2, <4>2, <1>2
      <4> QED BY <4>4, <4>5
    <3> QED BY <3>1, <3>2, <1>4
  <2>13. \A m \in 1..k : \A i \in 1..(m - 1) :
           i \notin B[m] => \E c \in (i + 1)..m : c \in {m} \cup B[m] /\ u[c].up \in B[i]
    <3>1. ASSUME NEW m \in 1..n, NEW i \in 1..(m - 1), i \notin B[m]
          PROVE  \E c \in (i + 1)..m : c \in {m} \cup B[m] /\ u[c].up \in B[i]
      <4>1. i \notin A[m] /\ i \in 1..n
        BY <3>1, <1>2, <1>0
      <4>2. PICK c \in (i + 1)..m : c \in {m} \cup A[m] /\ t[c].up \in A[i]
        BY <4>1, <1>8
      <4>3. c \in 1..n
        BY <4>1, <1>0
      <4> QED BY <4>1, <4>2, <4>3, <1>1, <1>2
    <3>2. ASSUME NEW i \in 1..(k - 1), i \notin B[k]
          PROVE  \E c \in (i + 1)..k : c \in {k} \cup B[k] /\ u[c].up \in B[i]
      <4>1. i \in 1..n /\ i # p /\ i \notin A[p] /\ B[i] = A[i]
        BY <3>2, <2>2, <1>2, <1>0
      <4>2. k \in (i + 1)..k
        BY <4>1, <1>0
      <4>3. CASE p < i
        <5>1. p \in A[i]
          <6>1. p # n /\ p \in A[n]
            BY <4>1, <4>3, <2>1, <1>0
          <6>2. CASE i = n
            BY <6>1, <6>2
          <6>3. CASE i # n /\ i \in A[n]
            BY <6>1, <6>3, <4>3, <2>1, <1>7
          <6>4. CASE i # n /\ i \notin A[n]
            <7>1. i \in 1..(n - 1)
              BY <6>4, <4>1, <1>0
            <7>2. PICK c \in (i + 1)..n : c \in {n} \cup A[n] /\ t[c].up \in A[i]
              BY <7>1, <6>4, <2>1, <1>8
            <7>3. c \in 1..n /\ p < c
              BY <7>1, <4>3, <2>1, <1>0
            <7>4. p \in A[c]
              BY <7>2, <7>3, <6>1, <2>1, <1>7
            <7>5. p = t[c].up \/ p \in A[t[c].up]
              BY <7>3, <7>4, <1>6
            <7> QED BY <7>2, <7>5, <4>1, <1>7
          <6> QED BY <6>2, <6>3, <6>4
        <5> QED BY <5>1, <4>1, <4>2, <2>a
      <4>4. CASE i < p
        <5>1. i \in 1..(p - 1)
          BY <4>1, <4>4, <2>1
        <5>2. PICK c \in (i + 1)..p : c \in {p} \cup A[p] /\ t[c].up \in A[i]
          BY <5>1, <4>1, <2>1, <1>8
        <5>3. c \in 1..n /\ c \in (i + 1)..k /\ c \in B[k]
          BY <5>2, <2>1, <2>2, <4>1, <1>0
        <5>4. u[c].up \in B[i]
          BY <5>2, <5>3, <4>1, <1>1
        <5> QED BY <5>3, <5>4
      <4> QED BY <4>1, <4>3, <4>4, <2>1
    <3> QED BY <3>1, <3>2, <1>4
  <2>14. Contiguous(u, B)
    BY <2>11, <2>12, <2>13, <1>1 DEF Contiguous
  <2> QED BY <2>5, <2>6, <2>10, <2>14 DEF IsTree, u, B
<1> QED BY <1>9, <1>10
-----------------------------------------------------------------------------
(* The walk. Nodes before line `cur` in document order have been dealt     *)
(* with; the calls still to be made are those for the nodes from there on  *)
(* that hang on a node dealt with and not left out.                        *)

Small(t, i) == t[i].tiny /\ t[i].kind \in {"Class", "Function"}
LeftOut(t, A, i) == \E a \in {i} \cup A[i] : Small(t, a)
KeptOf(t, A) == {i \in 1..Len(t) : t[i].kind # "Other" /\ ~LeftOut(t, A, i)}

\* The place of the chunk that is to be the parent of node i.
ParentPlace(t, A, i) ==
  LET over == A[i] \cap KeptOf(t, A)
  IN  IF over = {} THEN 0 ELSE Place(Max(over), KeptOf(t, A))

\* Chunk c is that of node i.
ChunkOf(t, A, c, i) ==
  /\ c.type = t[i].kind
  /\ c.content = IF t[i].kind = "Module" THEN {} ELSE {i}
  /\ c.parent = ParentPlace(t, A, i)

Call(t) == [parent : Nat, node : 1..Len(t)]
Cur(t, w) == IF w = << >> THEN Len(t) + 1 ELSE w[1].node

\* The nodes before node b that are kept have their chunks.
ChunksUpTo(t, A, cs, b) ==
  /\ cs \in Seq(Chunk)
  /\ Len(cs) = Cardinality({i \in KeptOf(t, A) : i < b})
  /\ \A i \in KeptOf(t, A) : i < b => ChunkOf(t, A, cs[Place(i, KeptOf(t, A))], i)
  /\ \A i \in 1..Len(cs) : cs[i].type \in ChunkType /\ cs[i].parent \in 0..(i - 1)

\* The calls w are in document order, and for the right nodes.
CallsFrom(t, A, w, b) ==
  /\ w \in Seq(Call(t))
  /\ \A i, j \in 1..Len(w) : i < j => w[i].node < w[j].node
  /\ \A i \in 1..Len(w) : w[i].node >= b /\ w[i].parent = ParentPlace(t, A, w[i].node)
  /\ \A m \in 1..Len(t) :
       m >= b => ((\E i \in 1..Len(w) : w[i].node = m)
                  <=> t[m].up < b /\ (t[m].up # 0 => ~LeftOut(t, A, t[m].up)))

(* The kept nodes are numbers, finitely many.                              *)
LEMMA KeptNumbers ==
  ASSUME NEW t, NEW A, IsTree(t, A)
  PROVE  /\ KeptOf(t, A) \in SUBSET Int /\ IsFiniteSet(KeptOf(t, A))
         /\ Len(t) \in Nat
         /\ \A b : IsFiniteSet({i \in KeptOf(t, A) : i < b})
<1>1. t \in Seq(Node) /\ Len(t) \in Nat
  BY DEF IsTree, Rooted
<1>2. KeptOf(t, A) \in SUBSET (1..Len(t))
  BY DEF KeptOf
<1>3. IsFiniteSet(1..Len(t))
  BY <1>1, FS_Interval
<1>4. IsFiniteSet(KeptOf(t, A))
  BY <1>2, <1>3, FS_Subset
<1>5. ASSUME NEW b PROVE IsFiniteSet({i \in KeptOf(t, A) : i < b})
  BY <1>4, FS_Subset
<1>6. KeptOf(t, A) \in SUBSET Int
  BY <1>1, <1>2
<1> HIDE DEF KeptOf
<1> QED BY <1>1, <1>4, <1>5, <1>6

(* The place of a kept node is one behind those of the kept nodes before.  *)
LEMMA PlaceOfNext ==
  ASSUME NEW t, NEW A, IsTree(t, A), NEW n \in KeptOf(t, A)
  PROVE  LET done == {i \in KeptOf(t, A) : i < n} IN
         /\ Place(n, KeptOf(t, A)) = Cardinality(done) + 1
         /\ Cardinality({i \in KeptOf(t, A) : i < n + 1}) = Cardinality(done) + 1
<1> DEFINE K == KeptOf(t, A)
           done == {i \in K : i < n}
<1>1. K \in SUBSET Int /\ IsFiniteSet(done) /\ n \in K /\ \A i \in K : i \in Int
  BY KeptNumbers
<1> HIDE DEF K
<1>2. \A i \in K : (i <= n <=> i < n \/ i = n) /\ (i < n + 1 <=> i < n \/ i = n)
  BY <1>1
<1>3. {i \in K : i <= n} = done \cup {n}
  BY <1>1, <1>2
<1>4. {i \in K : i < n + 1} = done \cup {n}
  BY <1>1, <1>2
<1>5. n \notin done
  BY <1>1
<1> HIDE DEF done
<1>6. Cardinality(done \cup {n}) = Cardinality(done) + 1
  BY <1>1, <1>5, FS_AddElement
<1> QED BY <1>3, <1>4, <1>6 DEF Place, K, done

(* Whether a node below a node that was dealt with is left out, and what   *)
(* its parent is.                                                          *)
LEMMA BelowFacts ==
  ASSUME NEW t, NEW A, IsTree(t, A), NEW n \in 1..Len(t), NEW c \in 1..Len(t), t[c].up = n
  PROVE  /\ A[c] = {n} \cup A[n] /\ n < c
         /\ n \in KeptOf(t, A) => ParentPlace(t, A, c) = Place(n, KeptOf(t, A))
         /\ n \notin KeptOf(t, A) => ParentPlace(t, A, c) = ParentPlace(t, A, n)
<1> DEFINE K == KeptOf(t, A)
<1>0. Len(t) \in Nat /\ n \in Nat /\ c \in Nat
  BY DEF IsTree, Rooted
<1>1. A[c] = {n} \cup A[n]
  BY <1>0 DEF IsTree, IsAbove
<1>2. n < c
  BY <1>0 DEF IsTree, Rooted
<1>3. A[n] \subseteq 1..(n - 1)
  BY DEF IsTree, Chained
<1>4. ASSUME n \in K PROVE ParentPlace(t, A, c) = Place(n, K)
  <2> DEFINE over == A[c] \cap K
  <2>1. n \in over /\ over \in SUBSET Nat /\ (\A x \in over : x <= n /\ x \in Int)
    BY <1>0, <1>1, <1>3, <1>4
  <2> HIDE DEF over
  <2>2. Max(over) \in over /\ \A x \in over : x <= Max(over)
    BY <2>1, <1>0, GreatestMember
  <2>3. Max(over) <= n /\ n <= Max(over) /\ Max(over) \in Int
    BY <2>1, <2>2
  <2>4. Max(over) = n
    BY <2>3, <1>0
  <2>5. over # {}
    BY <2>1
  <2> QED BY <2>4, <2>5 DEF ParentPlace, over
<1>5. ASSUME n \notin K PROVE ParentPlace(t, A, c) = ParentPlace(t, A, n)
  <2>1. A[c] \cap K = A[n] \cap K
    BY <1>1, <1>5
  <2> QED BY <2>1 DEF ParentPlace
<1> QED BY <1>1, <1>2, <1>4, <1>5

(* The parent of a node whose parent node comes before b has one of the    *)
(* places before b.                                                        *)
LEMMA ParentBefore ==
  ASSUME NEW t, NEW A, IsTree(t, A), NEW n \in 1..Len(t), NEW b \in Int, t[n].up < b
  PROVE  ParentPlace(t, A, n) \in 0..Cardinality({i \in KeptOf(t, A) : i < b})
<1> DEFINE K == KeptOf(t, A)
           over == A[n] \cap K
           done == {i \in K : i < b}
<1>0. Len(t) \in Nat /\ n \in Nat /\ K \in SUBSET Int /\ IsFiniteSet(K) /\ IsFiniteSet(done)
  BY KeptNumbers
<1>a. \A a \in A[n] : a \in Nat /\ a < n /\ a < b
  <2>1. A[n] = IF t[n].up = 0 THEN {} ELSE {t[n].up} \cup A[t[n].up]
    BY DEF IsTree, IsAbove
  <2>2. t[n].up \in 0..(n - 1)
    BY DEF IsTree, Rooted
  <2>3. t[n].up # 0 => A[t[n].up] \subseteq 1..(t[n].up - 1)
    BY <2>2, <1>0 DEF IsTree, Chained
  <2> SUFFICES ASSUME NEW a \in A[n] PROVE a \in Nat /\ a < n /\ a < b
    OBVIOUS
  <2>4. t[n].up # 0 /\ (a = t[n].up \/ a \in 1..(t[n].up - 1))
    BY <2>1, <2>3
  <2> QED BY <2>2, <2>4, <1>0
<1>1. Cardinality(done) \in Nat
  <2> HIDE DEF done
  <2> QED BY <1>0, FS_CardinalityType
<1>2. CASE over = {}
  BY <1>1, <1>2 DEF ParentPlace
<1>3. CASE over # {}
  <2> DEFINE g == Max(over)
  <2>1. over \in SUBSET Nat /\ \A x \in over : x <= n
    BY <1>0, <1>a
  <2>2. g \in over
    <3> HIDE DEF over
    <3> QED BY <2>1, <1>0, <1>3, GreatestMember
  <2>3. g \in K /\ g \in Int /\ g < b
    BY <2>2, <1>a
  <2> HIDE DEF g
  <2>4. Place(g, K) \in Nat
    <3> HIDE DEF K
    <3> QED BY <2>3, <1>0, PlaceGrows
  <2>5. Place(g, K) <= Cardinality(done)
    <3> DEFINE upTo == {y \in K : y <= g}
    <3>1. \A y \in K : y <= g => y < b
      BY <2>3, <1>0
    <3>2. upTo \in SUBSET done
      BY <3>1
    <3>3. Cardinality(upTo) <= Cardinality(done)
      <4> HIDE DEF upTo, done
      <4> QED BY <3>2, <1>0, FS_Subset
    <3> QED BY <3>3 DEF Place
  <2>6. ParentPlace(t, A, n) = Place(g, K)
    BY <1>3 DEF ParentPlace, g
  <2> QED BY <2>4, <2>5, <2>6, <1>1
<1> QED BY <1>2, <1>3
(* A node whose call is to be made is left out only for itself.            *)
LEMMA CalledAlive ==
  ASSUME NEW t, NEW A, IsTree(t, A), NEW n \in 1..Len(t),
         t[n].up # 0 => ~LeftOut(t, A, t[n].up)
  PROVE  /\ \A a \in A[n] : ~LeftOut(t, A, a)
         /\ LeftOut(t, A, n) <=> Small(t, n)
<1>0. Len(t) \in Nat /\ t[n].up \in 0..(n - 1)
  BY DEF IsTree, Rooted
<1>1. A[n] = IF t[n].up = 0 THEN {} ELSE {t[n].up} \cup A[t[n].up]
  BY DEF IsTree, IsAbove
<1>2. ASSUME NEW a \in A[n], LeftOut(t, A, a) PROVE FALSE
  <2>1. t[n].up # 0 /\ t[n].up \in 1..Len(t) /\ (a = t[n].up \/ a \in A[t[n].up])
    BY <1>0, <1>1, <1>2
  <2>2. {a} \cup A[a] \subseteq {t[n].up} \cup A[t[n].up]
    BY <2>1 DEF IsTree, Chained
  <2>3. LeftOut(t, A, t[n].up)
    BY <2>2, <1>2 DEF LeftOut
  <2> QED BY <2>1, <2>3
<1>3. ASSUME LeftOut(t, A, n) PROVE Small(t, n)
  <2>1. PICK a \in {n} \cup A[n] : Small(t, a)
    BY <1>3 DEF LeftOut
  <2>2. a \in A[n] => LeftOut(t, A, a)
    BY <2>1 DEF LeftOut
  <2> QED BY <2>1, <2>2, <1>2
<1>4. ASSUME Small(t, n) PROVE LeftOut(t, A, n)
  BY <1>4 DEF LeftOut
<1> QED BY <1>2, <1>3, <1>4

(* The call for a node that is left out returns: every node up to that of  *)
(* the next call is below it, so none of them is kept.                     *)
LEMMA CallReturns ==
  ASSUME NEW t, NEW A, IsTree(t, A), NEW w, NEW cs, w # << >>,
         CallsFrom(t, A, w, Cur(t, w)), ChunksUpTo(t, A, cs, Cur(t, w)),
         Small(t, w[1].node)
  PROVE  /\ CallsFrom(t, A, Tail(w), Cur(t, Tail(w)))
         /\ ChunksUpTo(t, A, cs, Cur(t, Tail(w)))
<1> DEFINE n == w[1].node
           v == Tail(w)
           b == Cur(t, v)
           K == KeptOf(t, A)
<1>0. Cur(t, w) = n
  BY DEF Cur
<1>1. w \in Seq(Call(t)) /\ Len(w) \in Nat /\ 1 \in 1..Len(w)
  BY DEF CallsFrom
<1>2. \A i \in 1..Len(w) : w[i].node \in 1..Len(t)
  <2>1. \A i \in 1..Len(w) : w[i] \in Call(t)
    BY <1>1
  <2> QED BY <2>1 DEF Call
<1>3. n \in 1..Len(t) /\ Len(t) \in Nat
  BY <1>1, <1>2, KeptNumbers
<1>4. v \in Seq(Call(t)) /\ Len(v) = Len(w) - 1 /\ \A i \in 1..Len(v) : v[i] = w[i + 1]
  BY <1>1
<1>5. /\ \A i, j \in 1..Len(w) : i < j => w[i].node < w[j].node
      /\ \A i \in 1..Len(w) : w[i].node >= n /\ w[i].parent = ParentPlace(t, A, w[i].node)
      /\ \A m \in 1..Len(t) :
           m >= n => ((\E i \in 1..Len(w) : w[i].node = m)
                      <=> t[m].up < n /\ (t[m].up # 0 => ~LeftOut(t, A, t[m].up)))
  BY <1>0 DEF CallsFrom
<1> HIDE DEF v
<1>6. \A i \in 1..Len(v) : v[i].node \in 1..Len(t) /\ b <= v[i].node
  <2> SUFFICES ASSUME NEW i \in 1..Len(v) PROVE v[i].node \in 1..Len(t) /\ b <= v[i].node
    OBVIOUS
  <2>1. v # << >> /\ 1 \in 1..Len(v) /\ i + 1 \in 1..Len(w) /\ 2 \in 1..Len(w)
    BY <1>1, <1>4
  <2>2. v[i].node = w[i + 1].node /\ b = w[2].node
    BY <2>1, <1>4 DEF Cur
  <2>3. i = 1 \/ (2 < i + 1)
    OBVIOUS
  <2>4. w[2].node <= w[i + 1].node
    BY <2>1, <2>3, <1>2, <1>3, <1>5
  <2> QED BY <2>1, <2>2, <2>4, <1>2
<1>7. b \in Int /\ n < b
  <2>1. CASE v = << >>
    BY <2>1, <1>3 DEF Cur
  <2>2. CASE v # << >>
    <3>1. 2 \in 1..Len(w) /\ 1 \in 1..Len(v) /\ b = w[2].node
      BY <2>2, <1>1, <1>4 DEF Cur
    <3> QED BY <3>1, <1>1, <1>2, <1>3, <1>5
  <2> QED BY <2>1, <2>2
<1>8. /\ \A a \in A[n] : ~LeftOut(t, A, a)
      /\ \A a \in A[n] : a < n /\ a \in 1..Len(t)
  <2>1. t[n].up # 0 => ~LeftOut(t, A, t[n].up)
    BY <1>1, <1>3, <1>5
  <2>2. \A a \in A[n] : ~LeftOut(t, A, a)
    BY <2>1, <1>3, CalledAlive
  <2> QED BY <2>2, <1>3 DEF IsTree, Chained
<1> HIDE DEF b, n
<1>9. ASSUME NEW m \in 1..Len(t), n < m, m < b PROVE n \in A[m]
  <2> SUFFICES ASSUME n \notin A[m] PROVE FALSE
    OBVIOUS
  <2>1. n \in 1..(m - 1)
    BY <1>3, <1>9
  <2>2. PICK c \in (n + 1)..m : c \in {m} \cup A[m] /\ t[c].up \in A[n]
    BY <2>1 DEF IsTree, Contiguous
  <2>3. c \in 1..Len(t) /\ c > n /\ c < b
    BY <1>3, <1>7, <1>9
  <2>4. t[c].up < n /\ ~LeftOut(t, A, t[c].up)
    BY <2>2, <1>8
  <2>5. PICK i \in 1..Len(w) : w[i].node = c
    BY <2>3, <2>4, <1>3, <1>5
  <2>6. i # 1
    BY <2>3, <2>5, <1>3 DEF n
  <2>7. i - 1 \in 1..Len(v) /\ v[i - 1].node = c
    BY <2>5, <2>6, <1>1, <1>4
  <2>8. b <= c
    BY <2>7, <1>6
  <2> QED BY <2>3, <2>8, <1>7
<1>10. ASSUME NEW m \in 1..Len(t), n <= m, m < b PROVE LeftOut(t, A, m)
  <2>1. Small(t, n)
    BY DEF n
  <2>2. n = m \/ n \in A[m]
    BY <1>3, <1>9, <1>10
  <2> QED BY <2>1, <2>2 DEF LeftOut
<1>11. ChunksUpTo(t, A, cs, b)
  <2>1. \A i \in K : i < b <=> i < n
    <3>1. \A i \in K : i \in 1..Len(t) /\ ~LeftOut(t, A, i)
      BY DEF KeptOf
    <3> QED BY <3>1, <1>3, <1>7, <1>10
  <2>2. {i \in K : i < b} = {i \in K : i < n}
    BY <2>1
  <2>3. ChunksUpTo(t, A, cs, n)
    BY <1>0
  <2> HIDE DEF K
  <2> QED BY <2>1, <2>2, <2>3 DEF ChunksUpTo, K
<1>12. CallsFrom(t, A, v, b)
  <2>1. \A i, j \in 1..Len(v) : i < j => v[i].node < v[j].node
    <3> SUFFICES ASSUME NEW i \in 1..Len(v), NEW j \in 1..Len(v), i < j
                 PROVE  v[i].node < v[j].node
      OBVIOUS
    <3>1. i + 1 \in 1..Len(w) /\ j + 1 \in 1..Len(w) /\ i + 1 < j + 1
      BY <1>1, <1>4
    <3> QED BY <3>1, <1>4, <1>5
  <2>2. \A i \in 1..Len(v) : v[i].node >= b /\ v[i].parent = ParentPlace(t, A, v[i].node)
    <3> SUFFICES ASSUME NEW i \in 1..Len(v)
                 PROVE  v[i].node >= b /\ v[i].parent = ParentPlace(t, A, v[i].node)
      OBVIOUS
    <3>1. i + 1 \in 1..Len(w) /\ v[i] = w[i + 1]
      BY <1>1, <1>4
    <3>2. v[i].parent = ParentPlace(t, A, v[i].node)
      BY <3>1, <1>5
    <3>3. v[i].node >= b
      BY <1>6, <1>3, <1>7
    <3> QED BY <3>2, <3>3
  <2>3. ASSUME NEW m \in 1..Len(t), m >= b
        PROVE  (\E i \in 1..Len(v) : v[i].node = m)
               <=> t[m].up < b /\ (t[m].up # 0 => ~LeftOut(t, A, t[m].up))
    <3>1. m > n /\ m >= n
      BY <2>3, <1>3, <1>7
    <3>2. (\E i \in 1..Len(v) : v[i].node = m) <=> (\E i \in 1..Len(w) : w[i].node = m)
      <4>1. ASSUME NEW i \in 1..Len(v), v[i].node = m
            PROVE  \E j \in 1..Len(w) : w[j].node = m
        <5>1. i + 1 \in 1..Len(w) /\ w[i + 1].node = m
          BY <4>1, <1>1, <1>4
        <5> QED BY <5>1
      <4>2. ASSUME NEW i \in 1..Len(w), w[i].node = m
            PROVE  \E j \in 1..Len(v) : v[j].node = m
        <5>1. i # 1
          BY <4>2, <3>1, <1>3 DEF n
        <5>2. i - 1 \in 1..Len(v) /\ v[i - 1].node = m
          BY <4>2, <5>1, <1>1, <1>4
        <5> QED BY <5>2
      <4> QED BY <4>1, <4>2
    <3>3. (\E i \in 1..Len(w) : w[i].node = m)
          <=> t[m].up < n /\ (t[m].up # 0 => ~LeftOut(t, A, t[m].up))
      BY <3>1, <1>5
    <3>4. t[m].up \in Nat /\ t[m].up < m /\ (t[m].up # 0 => t[m].up \in 1..Len(t))
      BY <1>3 DEF IsTree, Rooted
    <3>5. ASSUME t[m].up < b, t[m].up # 0 => ~LeftOut(t, A, t[m].up)
          PROVE  t[m].up < n
      <4>1. t[m].up = 0 => t[m].up < n
        BY <1>3
      <4>2. ASSUME t[m].up # 0 PROVE t[m].up < n
        BY <3>4, <3>5, <4>2, <1>3, <1>10
      <4> QED BY <4>1, <4>2
    <3>6. t[m].up < n => t[m].up < b
      BY <3>4, <1>3, <1>7
    <3> QED BY <3>2, <3>3, <3>5, <3>6
  <2> QED BY <2>1, <2>2, <2>3, <1>4 DEF CallsFrom
<1> QED BY <1>11, <1>12 DEF v, b
\* The nodes below node n, and the calls for them with parent p.
ChildrenOf(t, n) == {c \in 1..Len(t) : t[c].up = n}
CallsOf(t, n, p) ==
  [i \in 1..Len(Ascending(ChildrenOf(t, n))) |->
     [parent |-> p, node |-> Ascending(ChildrenOf(t, n))[i]]]

(* The calls for the nodes below a node are for each of them, in order.    *)
LEMMA CallsOfFacts ==
  ASSUME NEW t \in Seq(Node), NEW n, NEW p \in Nat
  PROVE  /\ CallsOf(t, n, p) \in Seq(Call(t))
         /\ \A i \in 1..Len(CallsOf(t, n, p)) :
              CallsOf(t, n, p)[i].parent = p /\ CallsOf(t, n, p)[i].node \in ChildrenOf(t, n)
         /\ \A c \in ChildrenOf(t, n) :
              \E i \in 1..Len(CallsOf(t, n, p)) : CallsOf(t, n, p)[i].node = c
         /\ \A i, j \in 1..Len(CallsOf(t, n, p)) :
              i < j => CallsOf(t, n, p)[i].node < CallsOf(t, n, p)[j].node
<1> DEFINE S == ChildrenOf(t, n)
           a == Ascending(S)
           k == Cardinality(S)
           C == CallsOf(t, n, p)
<1>1. S \in SUBSET Int /\ IsFiniteSet(S) /\ S \subseteq 1..Len(t)
  <2>1. S \in SUBSET (1..Len(t)) /\ Len(t) \in Nat
    BY DEF ChildrenOf
  <2>2. IsFiniteSet(1..Len(t))
    BY <2>1, FS_Interval
  <2>3. S \in SUBSET Int
    BY <2>1
  <2> HIDE DEF S
  <2> QED BY <2>1, <2>2, <2>3, FS_Subset
<1> HIDE DEF S
<1>2. /\ k \in Nat /\ a \in [1..k -> S]
      /\ \A x \in S : Place(x, S) \in 1..k /\ a[Place(x, S)] = x
      /\ \A i, j \in 1..k : i < j <=> a[i] < a[j]
  BY <1>1, AscendingOrder
<1> HIDE DEF a, k
<1>3. Len(a) = k
  BY <1>2
<1>4. C = [i \in 1..k |-> [parent |-> p, node |-> a[i]]]
  BY <1>3 DEF CallsOf, a, S
<1>5. \A i \in 1..k : [parent |-> p, node |-> a[i]] \in Call(t)
  BY <1>1, <1>2 DEF Call
<1>6. C \in Seq(Call(t)) /\ Len(C) = k
  BY <1>2, <1>4, <1>5
<1>7. \A i \in 1..k : C[i].parent = p /\ C[i].node = a[i] /\ a[i] \in S
  BY <1>2, <1>4
<1> HIDE DEF C
<1>8. \A c \in S : \E i \in 1..Len(C) : C[i].node = c
  BY <1>2, <1>6, <1>7
<1>9. \A i, j \in 1..Len(C) : i < j => C[i].node < C[j].node
  BY <1>2, <1>6, <1>7
<1> QED BY <1>6, <1>7, <1>8, <1>9 DEF C, S

(* The call for a node that is not left out makes calls for the nodes      *)
(* below it: the next node in document order is that of the next call.     *)
LEMMA CallDescends ==
  ASSUME NEW t, NEW A, IsTree(t, A), NEW w, w # << >>, NEW p \in Nat,
         CallsFrom(t, A, w, Cur(t, w)), ~Small(t, w[1].node),
         \A c \in ChildrenOf(t, w[1].node) : ParentPlace(t, A, c) = p
  PROVE  /\ CallsFrom(t, A, CallsOf(t, w[1].node, p) \o Tail(w), w[1].node + 1)
         /\ Cur(t, CallsOf(t, w[1].node, p) \o Tail(w)) = w[1].node + 1
<1> DEFINE n == w[1].node
           S == ChildrenOf(t, n)
           d == CallsOf(t, n, p)
           v == Tail(w)
           e == d \o v
           D == Len(d)
           V == Len(v)
<1>0. Cur(t, w) = n
  BY DEF Cur
<1>1. w \in Seq(Call(t)) /\ Len(w) \in Nat /\ 1 \in 1..Len(w)
  BY DEF CallsFrom
<1>2. \A i \in 1..Len(w) : w[i].node \in 1..Len(t)
  <2>1. \A i \in 1..Len(w) : w[i] \in Call(t)
    BY <1>1
  <2> QED BY <2>1 DEF Call
<1>3. n \in 1..Len(t) /\ Len(t) \in Nat /\ t \in Seq(Node)
  BY <1>1, <1>2, KeptNumbers DEF IsTree, Rooted
<1>4. v \in Seq(Call(t)) /\ V \in Nat /\ V = Len(w) - 1 /\ \A i \in 1..V : v[i] = w[i + 1]
  BY <1>1
<1>5. /\ \A i, j \in 1..Len(w) : i < j => w[i].node < w[j].node
      /\ \A i \in 1..Len(w) : w[i].node >= n /\ w[i].parent = ParentPlace(t, A, w[i].node)
      /\ \A m \in 1..Len(t) :
           m >= n => ((\E i \in 1..Len(w) : w[i].node = m)
                      <=> t[m].up < n /\ (t[m].up # 0 => ~LeftOut(t, A, t[m].up)))
  BY <1>0 DEF CallsFrom
<1>6. /\ d \in Seq(Call(t)) /\ D \in Nat
      /\ \A i \in 1..D : d[i].parent = p /\ d[i].node \in S
      /\ \A c \in S : \E i \in 1..D : d[i].node = c
      /\ \A i, j \in 1..D : i < j => d[i].node < d[j].node
  <2> HIDE DEF n
  <2>1. d \in Seq(Call(t))
    BY <1>3, CallsOfFacts
  <2>2. D \in Nat
    BY <2>1
  <2> QED BY <2>1, <2>2, <1>3, CallsOfFacts
<1>7. \A c \in S : c \in 1..Len(t) /\ t[c].up = n /\ n < c
  BY <1>3 DEF ChildrenOf, IsTree, Rooted
<1>8. /\ \A a \in A[n] : ~LeftOut(t, A, a)
      /\ \A a \in A[n] : a < n /\ a \in 1..Len(t)
      /\ ~LeftOut(t, A, n)
  <2>1. t[n].up # 0 => ~LeftOut(t, A, t[n].up)
    BY <1>1, <1>3, <1>5
  <2>2. (\A a \in A[n] : ~LeftOut(t, A, a)) /\ ~LeftOut(t, A, n)
    BY <2>1, <1>3, CalledAlive
  <2> QED BY <2>2, <1>3 DEF IsTree, Chained
<1> HIDE DEF n, S, d, v
<1>9. /\ e \in Seq(Call(t)) /\ Len(e) = D + V
      /\ \A i \in 1..D : e[i] = d[i]
      /\ \A i \in 1..V : e[D + i] = v[i]
  <2>1. d \in Seq(Call(t)) /\ v \in Seq(Call(t)) /\ D \in Nat /\ V \in Nat
    BY <1>4, <1>6
  <2>2. e \in Seq(Call(t)) /\ Len(e) = D + V
    BY <2>1
  <2>3. \A i \in 1..D : e[i] = d[i]
    BY <2>1
  <2>4. \A i \in 1..V : e[D + i] = v[i]
    <3> SUFFICES ASSUME NEW i \in 1..V PROVE e[D + i] = v[i]
      OBVIOUS
    <3>1. D + i \in 1..(D + V) /\ ~(D + i <= D) /\ D + i - D = i
      BY <2>1
    <3> QED BY <2>1, <3>1
  <2> QED BY <2>2, <2>3, <2>4
<1> HIDE DEF D, V, e
<1>10. \A i \in 1..V : v[i].node \in 1..Len(t) /\ n < v[i].node /\ t[v[i].node].up < n
         /\ v[i].parent = ParentPlace(t, A, v[i].node)
  <2> SUFFICES ASSUME NEW i \in 1..V
               PROVE  /\ v[i].node \in 1..Len(t) /\ n < v[i].node /\ t[v[i].node].up < n
                      /\ v[i].parent = ParentPlace(t, A, v[i].node)
    OBVIOUS
  <2>1. i + 1 \in 1..Len(w) /\ 1 < i + 1 /\ v[i] = w[i + 1]
    BY <1>1, <1>4
  <2>2. v[i].node \in 1..Len(t) /\ v[i].node >= n /\ v[i].parent = ParentPlace(t, A, v[i].node)
    BY <2>1, <1>2, <1>5
  <2>3. n < v[i].node
    BY <2>1, <1>1, <1>5 DEF n
  <2>4. t[v[i].node].up < n
    BY <2>1, <2>2, <1>5
  <2> QED BY <2>2, <2>3, <2>4
<1>11. \A c \in S : \A i \in 1..V : c < v[i].node
  <2> SUFFICES ASSUME NEW c \in S, NEW i \in 1..V, ~(c < v[i].node) PROVE FALSE
    OBVIOUS
  <2> DEFINE m == v[i].node
  <2>1. m \in 1..Len(t) /\ n < m /\ t[m].up < n
    BY <1>10
  <2>2. c \in 1..Len(t) /\ t[c].up = n /\ n < c
    BY <1>7
  <2>3. m # c
    BY <2>1, <2>2, <1>3
  <2> HIDE DEF m
  <2>a. ~(c < m)
    BY DEF m
  <2>4. m \in (n + 1)..(c - 1)
    BY <2>1, <2>2, <2>3, <2>a, <1>3
  <2>5. n \in A[c]
    BY <2>2, <1>3, BelowFacts
  <2>6. n \in A[m]
    BY <2>2, <2>4, <2>5 DEF IsTree, Contiguous
  <2>7. A[m] = IF t[m].up = 0 THEN {} ELSE {t[m].up} \cup A[t[m].up]
    BY <2>1 DEF IsTree, IsAbove
  <2>8. t[m].up \in 0..(m - 1) /\ t[m].up \in Nat
    BY <2>1, <1>3 DEF IsTree, Rooted
  <2>9. t[m].up # 0 /\ (n = t[m].up \/ n \in A[t[m].up])
    BY <2>6, <2>7
  <2>10. t[m].up \in 1..Len(t)
    BY <2>1, <2>8, <2>9, <1>3
  <2>11. A[t[m].up] \subseteq 1..(t[m].up - 1)
    BY <2>10 DEF IsTree, Chained
  <2>12. n <= t[m].up
    BY <2>9, <2>10, <2>11, <1>3
  <2> QED BY <2>1, <2>8, <2>12, <1>3
<1>12. \A i \in 1..Len(e) : i \in 1..D \/ (i - D \in 1..V /\ e[i] = v[i - D])
  <2> SUFFICES ASSUME NEW i \in 1..Len(e), i \notin 1..D
               PROVE  i - D \in 1..V /\ e[i] = v[i - D]
    OBVIOUS
  <2>1. i - D \in 1..V /\ D + (i - D) = i
    BY <1>4, <1>6, <1>9
  <2> QED BY <2>1, <1>9
<1>13. \A i \in 1..Len(e) : /\ e[i].node \in 1..Len(t) /\ n < e[i].node
                            /\ e[i].parent = ParentPlace(t, A, e[i].node)
  <2>1. ASSUME NEW i \in 1..D
        PROVE  /\ e[i].node \in 1..Len(t) /\ n < e[i].node
               /\ e[i].parent = ParentPlace(t, A, e[i].node)
    BY <1>6, <1>7, <1>9 DEF S, n
  <2>2. ASSUME NEW i \in 1..V
        PROVE  /\ v[i].node \in 1..Len(t) /\ n < v[i].node
               /\ v[i].parent = ParentPlace(t, A, v[i].node)
    BY <1>10
  <2> QED BY <2>1, <2>2, <1>12
<1>14. \A i, j \in 1..Len(e) : i < j => e[i].node < e[j].node
  <2> SUFFICES ASSUME NEW i \in 1..Len(e), NEW j \in 1..Len(e), i < j
               PROVE  e[i].node < e[j].node
    OBVIOUS
  <2>0. i \in Int /\ j \in Int
    BY <1>9, <1>4, <1>6
  <2>1. CASE i \in 1..D /\ j \in 1..D
    BY <2>1, <1>6, <1>9
  <2>2. CASE i \in 1..D /\ j \notin 1..D
    <3>1. j - D \in 1..V /\ e[j] = v[j - D]
      BY <2>2, <1>12
    <3>2. e[i].node \in S
      BY <2>2, <1>6, <1>9
    <3> QED BY <3>1, <3>2, <1>11
  <2>3. CASE i \notin 1..D
    <3>1. j \notin 1..D
      BY <2>3, <2>0, <1>6, <1>9
    <3>2. i - D \in 1..V /\ e[i] = v[i - D] /\ j - D \in 1..V /\ e[j] = v[j - D]
      BY <2>3, <3>1, <1>12
    <3>3. i - D + 1 \in 1..Len(w) /\ j - D + 1 \in 1..Len(w) /\ i - D + 1 < j - D + 1
      BY <3>2, <2>0, <1>1, <1>4, <1>6
    <3>4. v[i - D] = w[i - D + 1] /\ v[j - D] = w[j - D + 1]
      BY <3>2, <1>4
    <3>5. w[i - D + 1].node < w[j - D + 1].node
      BY <3>3, <1>5
    <3> QED BY <3>2, <3>4, <3>5
  <2> QED BY <2>1, <2>2, <2>3
<1>15. ASSUME NEW m \in 1..Len(t), m >= n + 1
       PROVE  (\E i \in 1..Len(e) : e[i].node = m)
              <=> t[m].up < n + 1 /\ (t[m].up # 0 => ~LeftOut(t, A, t[m].up))
  <2>0. m > n /\ m >= n /\ t[m].up \in Nat
    BY <1>3, <1>15 DEF IsTree, Rooted
  <2>1. ASSUME NEW i \in 1..Len(e), e[i].node = m
        PROVE  t[m].up < n + 1 /\ (t[m].up # 0 => ~LeftOut(t, A, t[m].up))
    <3>1. CASE i \in 1..D
      <4>1. m \in S
        BY <2>1, <3>1, <1>6, <1>9
      <4>2. t[m].up = n
        BY <4>1, <1>7
      <4> QED BY <4>2, <1>3, <1>8
    <3>2. CASE i \notin 1..D
      <4>1. i - D \in 1..V /\ v[i - D].node = m
        BY <2>1, <3>2, <1>12
      <4>2. i - D + 1 \in 1..Len(w) /\ w[i - D + 1].node = m
        BY <4>1, <1>1, <1>4
      <4>3. t[m].up < n /\ (t[m].up # 0 => ~LeftOut(t, A, t[m].up))
        BY <4>2, <2>0, <1>5
      <4> QED BY <4>3, <2>0, <1>3
    <3> QED BY <3>1, <3>2
  <2>2. ASSUME t[m].up < n + 1, t[m].up # 0 => ~LeftOut(t, A, t[m].up)
        PROVE  \E i \in 1..Len(e) : e[i].node = m
    <3>1. CASE t[m].up = n
      <4>1. m \in S
        BY <3>1 DEF S, ChildrenOf
      <4>2. PICK i \in 1..D : d[i].node = m
        BY <4>1, <1>6
      <4>3. i \in 1..Len(e) /\ e[i] = d[i]
        BY <4>2, <1>9, <1>4, <1>6
      <4> QED BY <4>2, <4>3
    <3>2. CASE t[m].up # n
      <4>1. t[m].up < n
        BY <3>2, <2>2, <2>0, <1>3
      <4>2. PICK i \in 1..Len(w) : w[i].node = m
        BY <4>1, <2>0, <2>2, <1>5
      <4>3. i # 1
        BY <4>2, <2>0, <1>3 DEF n
      <4>4. i - 1 \in 1..V /\ v[i - 1] = w[i]
        BY <4>2, <4>3, <1>1, <1>4
      <4>5. D + (i - 1) \in 1..Len(e) /\ e[D + (i - 1)] = v[i - 1]
        BY <4>4, <1>4, <1>6, <1>9
      <4> QED BY <4>2, <4>4, <4>5
    <3> QED BY <3>1, <3>2
  <2> QED BY <2>1, <2>2
<1>16. CallsFrom(t, A, e, n + 1)
  <2>1. \A i \in 1..Len(e) : e[i].node >= n + 1
    BY <1>3, <1>13
  <2> QED BY <2>1, <1>9, <1>13, <1>14, <1>15 DEF CallsFrom
<1>17. Cur(t, e) = n + 1
  <2>0. Len(e) \in Nat /\ (e # << >> <=> 1 \in 1..Len(e))
    BY <1>9, <1>4, <1>6
  <2>1. CASE n = Len(t)
    <3>1. e = << >>
      <4> SUFFICES ASSUME e # << >> PROVE FALSE
        OBVIOUS
      <4>1. e[1].node \in 1..Len(t) /\ n < e[1].node
        BY <2>0, <1>13
      <4> QED BY <4>1, <2>1, <1>3
    <3> QED BY <3>1, <2>1 DEF Cur
  <2>2. CASE n # Len(t)
    <3> DEFINE m == n + 1
    <3>1. m \in 1..Len(t) /\ m \in 2..Len(t) /\ m - 1 = n /\ m >= n + 1
      BY <2>2, <1>3
    <3>2. t[m].up \in {n} \cup A[n]
      BY <3>1 DEF IsTree, Contiguous
    <3>3. t[m].up < n + 1 /\ ~LeftOut(t, A, t[m].up)
      BY <3>2, <1>3, <1>8
    <3>4. PICK i \in 1..Len(e) : e[i].node = m
      BY <3>1, <3>3, <1>15
    <3>5. 1 \in 1..Len(e) /\ e # << >>
      BY <3>4, <2>0
    <3>6. i = 1 \/ 1 < i
      BY <2>0
    <3>7. e[1].node <= m
      BY <3>4, <3>5, <3>6, <1>13, <1>14, <1>3
    <3>8. n < e[1].node /\ e[1].node \in 1..Len(t)
      BY <3>5, <1>13
    <3>9. e[1].node = n + 1
      BY <3>7, <3>8, <1>3
    <3> QED BY <3>5, <3>9 DEF Cur
  <2> QED BY <2>1, <2>2
<1> QED BY <1>16, <1>17 DEF e, d, v, n
(* A kept node gets the next chunk; a node that is not kept gets none.     *)
LEMMA NodeChunked ==
  ASSUME NEW t, NEW A, IsTree(t, A), NEW n \in KeptOf(t, A), NEW cs,
         ChunksUpTo(t, A, cs, n), NEW c \in Chunk, ChunkOf(t, A, c, n)
  PROVE  /\ ChunksUpTo(t, A, Append(cs, c), n + 1)
         /\ Len(cs) + 1 = Place(n, KeptOf(t, A))
<1> DEFINE K == KeptOf(t, A)
           as == Append(cs, c)
           l == Len(cs)
           done == {i \in K : i < n}
<1>1. cs \in Seq(Chunk) /\ l \in Nat /\ l = Cardinality(done)
  BY DEF ChunksUpTo
<1>d. as \in Seq(Chunk) /\ Len(as) = l + 1
  BY <1>1
<1>e. as[l + 1] = c
  BY <1>1
<1>f. \A i \in 1..l : as[i] = cs[i]
  BY <1>1
<1>2. /\ as \in Seq(Chunk) /\ Len(as) = l + 1 /\ as[l + 1] = c
      /\ \A i \in 1..l : as[i] = cs[i]
  BY <1>d, <1>e, <1>f
<1>3. K \in SUBSET Int /\ IsFiniteSet(K) /\ Len(t) \in Nat /\ n \in K
  BY KeptNumbers
<1>4. Place(n, K) = l + 1 /\ Cardinality({i \in K : i < n + 1}) = l + 1
  BY <1>1, PlaceOfNext
<1>5. \A i \in K : i < n => ChunkOf(t, A, cs[Place(i, K)], i)
  BY DEF ChunksUpTo
<1>a. \A i \in 1..l : cs[i].type \in ChunkType /\ cs[i].parent \in 0..(i - 1)
  BY DEF ChunksUpTo
<1>b. n \in 1..Len(t) /\ t[n].up < n
  BY DEF KeptOf, IsTree, Rooted
<1>c. ParentPlace(t, A, n) \in 0..l
  BY <1>b, <1>1, <1>3, ParentBefore
<1> HIDE DEF K, as, l, done
<1>6. \A i \in K : i < n => Place(i, K) \in 1..l
  <2> SUFFICES ASSUME NEW i \in K, i < n PROVE Place(i, K) \in 1..l
    OBVIOUS
  <2>1. Place(i, K) \in Nat /\ Place(i, K) >= 1 /\ Place(i, K) < Place(n, K)
    BY <1>3, PlaceGrows
  <2> QED BY <2>1, <1>4, <1>1
<1>7. \A i \in K : i < n + 1 => ChunkOf(t, A, as[Place(i, K)], i)
  <2> SUFFICES ASSUME NEW i \in K, i < n + 1 PROVE ChunkOf(t, A, as[Place(i, K)], i)
    OBVIOUS
  <2>1. i < n \/ i = n
    BY <1>3
  <2>2. CASE i < n
    BY <2>2, <1>2, <1>5, <1>6
  <2>3. CASE i = n
    BY <2>3, <1>2, <1>4
  <2> QED BY <2>1, <2>2, <2>3
<1>8. \A i \in 1..(l + 1) : as[i].type \in ChunkType /\ as[i].parent \in 0..(i - 1)
  <2>1. as[l + 1].type \in ChunkType /\ as[l + 1].parent \in 0..(l + 1 - 1)
    BY <1>1, <1>2, <1>c DEF ChunkOf, Chunk
  <2>2. \A i \in 1..(l + 1) : i \in 1..l \/ i = l + 1
    BY <1>1
  <2>3. \A i \in 1..l : as[i].type \in ChunkType /\ as[i].parent \in 0..(i - 1)
    BY <1>f, <1>a
  <2> SUFFICES ASSUME NEW i \in 1..(l + 1)
               PROVE  as[i].type \in ChunkType /\ as[i].parent \in 0..(i - 1)
    OBVIOUS
  <2>4. CASE i \in 1..l
    BY <2>3, <2>4
  <2>5. CASE i = l + 1
    <3>1. i - 1 = l + 1 - 1
      BY <2>5, <1>1
    <3>2. as[i] = as[l + 1]
      BY <2>5, Zenon
    <3> QED BY <2>1, <3>1, <3>2, Zenon
  <2> QED BY <2>2, <2>4, <2>5
<1> QED BY <1>2, <1>4, <1>7, <1>8 DEF ChunksUpTo, K, as, l

LEMMA NodePassed ==
  ASSUME NEW t, NEW A, IsTree(t, A), NEW n \in 1..Len(t), n \notin KeptOf(t, A), NEW cs,
         ChunksUpTo(t, A, cs, n)
  PROVE  ChunksUpTo(t, A, cs, n + 1)
<1> DEFINE K == KeptOf(t, A)
<1>1. Len(t) \in Nat /\ \A i \in K : i \in Int
  BY KeptNumbers
<1>2. \A i \in K : i < n + 1 <=> i < n
  BY <1>1
<1>3. {i \in K : i < n + 1} = {i \in K : i < n}
  BY <1>2
<1> HIDE DEF K
<1> QED BY <1>2, <1>3 DEF ChunksUpTo, K

(* The walk begins with the root, and when no call is left every kept node *)
(* has its chunk.                                                          *)
LEMMA WalkBegins ==
  ASSUME NEW t, NEW A, IsTree(t, A), t # << >>
  PROVE  LET w == <<[parent |-> 0, node |-> 1]>> IN
         /\ Cur(t, w) = 1
         /\ CallsFrom(t, A, w, 1) /\ ChunksUpTo(t, A, << >>, 1)
<1> DEFINE w == <<[parent |-> 0, node |-> 1]>>
<1>1. Len(t) \in Nat /\ 1 \in 1..Len(t)
  BY DEF IsTree, Rooted
<1>2. w \in Seq(Call(t)) /\ Len(w) = 1 /\ w[1] = [parent |-> 0, node |-> 1] /\ w # << >>
  BY <1>1 DEF Call
<1>3. \A i \in 1..Len(w) : i = 1 /\ w[i].node = 1 /\ w[i].parent = 0
  BY <1>2
<1> HIDE DEF w
<1>4. \A i \in 1..Len(t) : t[i].up \in Nat /\ (t[i].up = 0 <=> i = 1)
  BY <1>1 DEF IsTree, Rooted
<1>5. ParentPlace(t, A, 1) = 0
  <2>1. A[1] = {}
    BY <1>1, <1>4 DEF IsTree, IsAbove
  <2> QED BY <2>1 DEF ParentPlace
<1>6. CallsFrom(t, A, w, 1)
  <2>1. ASSUME NEW m \in 1..Len(t)
        PROVE  (\E i \in 1..Len(w) : w[i].node = m)
               <=> t[m].up < 1 /\ (t[m].up # 0 => ~LeftOut(t, A, t[m].up))
    <3>1. (\E i \in 1..Len(w) : w[i].node = m) <=> m = 1
      BY <1>2, <1>3
    <3>2. t[m].up < 1 <=> m = 1
      BY <1>4
    <3>3. m = 1 => t[m].up = 0
      BY <1>4
    <3> QED BY <3>1, <3>2, <3>3
  <2>2. \A i, j \in 1..Len(w) : i < j => w[i].node < w[j].node
    BY <1>3
  <2>3. \A i \in 1..Len(w) : w[i].node >= 1 /\ w[i].parent = ParentPlace(t, A, w[i].node)
    BY <1>3, <1>5
  <2> QED BY <2>1, <2>2, <2>3, <1>2 DEF CallsFrom
<1>7. ChunksUpTo(t, A, << >>, 1)
  <2>1. \A i \in KeptOf(t, A) : ~(i < 1)
    BY <1>1 DEF KeptOf
  <2>2. {i \in KeptOf(t, A) : i < 1} = {}
    BY <2>1
  <2>3. Cardinality({i \in KeptOf(t, A) : i < 1}) = 0
    BY <2>2, FS_EmptySet
  <2>4. << >> \in Seq(Chunk) /\ Len(<< >>) = 0 /\ 1..0 = {}
    OBVIOUS
  <2> QED BY <2>1, <2>3, <2>4 DEF ChunksUpTo
<1> QED BY <1>2, <1>6, <1>7 DEF Cur, w

\* The state of the code chunker in each phase.
CodeResult ==
  \/ chunks = WholeFile(tree)
  \/ chunks # << >> /\ ChunksUpTo(tree, Above(tree), chunks, Len(tree) + 1)

CodeInv ==
  /\ IsTree(tree, Above(tree))
  /\ phase = "choose" => walk = << >>
  /\ phase = "lines" => tree = << >> /\ walk = << >>
  /\ phase = "nodes" =>
       /\ tree # << >>
       /\ CallsFrom(tree, Above(tree), walk, Cur(tree, walk))
       /\ ChunksUpTo(tree, Above(tree), chunks, Cur(tree, walk))
  /\ phase = "done" =>
       /\ walk = << >>
       /\ tree = << >> => lines # << >> \/ chunks = << >>
       /\ tree # << >> => CodeResult

LEMMA CodeInvInit == ChunkingInit => CodeInv
<1> SUFFICES ASSUME ChunkingInit PROVE CodeInv
  OBVIOUS
<1>1. phase = "choose" /\ tree = << >> /\ walk = << >>
  BY DEF ChunkingInit, NoCode
<1> DEFINE e == << >>
           A == [i \in 1..0 |-> {}]
<1>2. Rooted(e)
  BY DEF Rooted
<1>3. IsAbove(e, A)
  BY DEF IsAbove
<1>4. Above(e) = A
  BY <1>2, <1>3, AboveUnique
<1>5. Chained(e, A) /\ Contiguous(e, A)
  <2>1. \A i \in 1..Len(e) : FALSE
    OBVIOUS
  <2>2. \A i \in 2..Len(e) : FALSE
    OBVIOUS
  <2> HIDE DEF e, A
  <2> QED BY <2>1, <2>2 DEF Chained, Contiguous
<1>6. IsTree(tree, Above(tree))
  BY <1>1, <1>2, <1>3, <1>4, <1>5 DEF IsTree
<1> QED BY <1>1, <1>6 DEF CodeInv
LEMMA GrowTreeKeeps == TextInv /\ CodeInv /\ GrowTree => CodeInv'
<1> SUFFICES ASSUME TextInv, CodeInv, GrowTree PROVE CodeInv'
  OBVIOUS
<1> DEFINE A == Above(tree)
<1>1. PICK x \in IF tree = << >> THEN Roots ELSE NextNodes : tree' = Append(tree, x)
  BY DEF GrowTree
<1>2. /\ phase = "choose" /\ phase' = "choose" /\ walk' = walk /\ walk = << >>
      /\ IsTree(tree, A)
  BY DEF CodeInv, GrowTree
<1>3. x \in Node /\ IF tree = << >> THEN x.up = 0 ELSE x.up \in {Len(tree)} \cup A[Len(tree)]
  <2>1. CASE tree = << >>
    <3>1. x \in Roots
      BY <1>1, <2>1
    <3> QED BY <3>1, <2>1 DEF Roots, Node, NodeKind
  <2>2. CASE tree # << >>
    <3>1. x \in [kind : NodeKind, up : {Len(tree)} \cup A[Len(tree)], tiny : BOOLEAN]
      BY <1>1, <2>2 DEF NextNodes
    <3>2. tree \in Seq(Node) /\ Len(tree) \in 1..Len(tree)
      BY <1>2, <2>2 DEF IsTree, Rooted
    <3>3. A[Len(tree)] \subseteq 1..(Len(tree) - 1)
      BY <1>2, <3>2 DEF IsTree, Chained
    <3> HIDE DEF A
    <3>4. {Len(tree)} \cup A[Len(tree)] \subseteq Nat
      BY <3>2, <3>3
    <3> QED BY <3>1, <3>4, <2>2 DEF Node
  <2> QED BY <2>1, <2>2
<1> DEFINE u == Append(tree, x)
           B == Extended(tree, A, x)
<1>4. IsTree(u, B)
  <2> HIDE DEF A
  <2> QED BY <1>2, <1>3, TreeGrows
<1>5. Above(u) = B
  <2> HIDE DEF u, B
  <2>1. Rooted(u) /\ IsAbove(u, B)
    BY <1>4 DEF IsTree
  <2> QED BY <2>1, AboveUnique
<1>6. IsTree(tree', Above(tree'))
  BY <1>1, <1>4, <1>5
<1> QED BY <1>2, <1>6 DEF CodeInv

LEMMA ChoiceKeeps == TextInv /\ CodeInv /\ GetChunker => CodeInv'
<1> SUFFICES ASSUME TextInv, CodeInv, GetChunker PROVE CodeInv'
  OBVIOUS
<1>1. phase = "choose" /\ chunks = << >> /\ NoText /\ walk = << >> /\ IsTree(tree, Above(tree))
  BY DEF GetChunker, TextInv, CodeInv
<1>2. CASE GrowTree
  BY <1>2, GrowTreeKeeps
<1>3. CASE BeginCode
  <2>1. tree' = tree
    BY <1>3 DEF BeginCode
  <2>2. CASE /\ tree # << >> /\ phase' = "nodes"
             /\ walk' = <<[parent |-> 0, node |-> 1]>> /\ UNCHANGED chunks
    <3> DEFINE w == <<[parent |-> 0, node |-> 1]>>
               A == Above(tree)
    <3>1. Cur(tree, w) = 1 /\ CallsFrom(tree, A, w, 1) /\ ChunksUpTo(tree, A, << >>, 1)
      BY <1>1, <2>2, WalkBegins
    <3> HIDE DEF w, A
    <3>2. walk' = w /\ chunks' = << >> /\ phase' = "nodes" /\ tree # << >> /\ IsTree(tree, A)
      BY <2>2, <1>1 DEF w, A
    <3>3. /\ CallsFrom(tree, A, w, Cur(tree, w))
          /\ ChunksUpTo(tree, A, << >>, Cur(tree, w))
      BY <3>1
    <3> QED BY <2>1, <3>2, <3>3 DEF CodeInv, A
  <2>3. CASE /\ phase' = "done" /\ UNCHANGED walk
             /\ chunks' = IF tree = << >> THEN << >> ELSE WholeFile(tree)
    <3>1. (tree = << >> => chunks' = << >>) /\ (tree # << >> => chunks' = WholeFile(tree))
      BY <2>3
    <3>2. phase' = "done" /\ walk' = << >>
      BY <1>1, <2>3
    <3> QED BY <1>1, <2>1, <3>1, <3>2 DEF CodeInv, CodeResult
  <2> QED BY <1>3, <2>2, <2>3 DEF BeginCode
<1>4. CASE tree = << >> /\ BeginText /\ UNCHANGED codeVars
  <2>1. /\ tree' = tree /\ walk' = walk /\ tree = << >> /\ chunks' = << >>
        /\ phase' \in {"done", "lines"}
    BY <1>1, <1>4 DEF BeginText, codeVars
  <2> QED BY <1>1, <2>1 DEF CodeInv
<1>5. CASE tree = << >> /\ phase' = "done" /\ UNCHANGED <<chunks, textVars, codeVars>>
  <2>1. tree' = tree /\ walk' = walk /\ tree = << >> /\ chunks' = << >> /\ phase' = "done"
    BY <1>1, <1>5 DEF codeVars
  <2> QED BY <1>1, <2>1 DEF CodeInv
<1> QED BY <1>2, <1>3, <1>4, <1>5 DEF GetChunker

LEMMA TextStepKeepsCode ==
  TextInv /\ CodeInv /\ TextStep /\ UNCHANGED codeVars => CodeInv'
<1> SUFFICES ASSUME TextInv, CodeInv, TextStep, UNCHANGED codeVars PROVE CodeInv'
  OBVIOUS
<1>1. phase = "lines" /\ phase' \in {"lines", "done"} /\ lines' = lines /\ lines # << >>
  BY DEF TextStep, ReadLine, EndOfText, TextInv
<1>2. tree' = tree /\ walk' = walk /\ tree = << >> /\ walk = << >> /\ IsTree(tree, Above(tree))
  BY <1>1 DEF CodeInv, codeVars
<1> QED BY <1>1, <1>2 DEF CodeInv

\* Node n is dealt with by a call with parent p.
LEMMA WalkKeeps == TextInv /\ CodeInv /\ WalkTree => CodeInv'
<1> SUFFICES ASSUME TextInv, CodeInv, WalkTree PROVE CodeInv'
  OBVIOUS
<1> DEFINE A == Above(tree)
           n == walk[1].node
           p == walk[1].parent
           K == KeptOf(tree, A)
<1>1. /\ phase = "nodes" /\ phase' = "nodes" /\ tree' = tree /\ walk # << >> /\ tree # << >>
      /\ IsTree(tree, A) /\ CallsFrom(tree, A, walk, n) /\ ChunksUpTo(tree, A, chunks, n)
      /\ Cur(tree, walk) = n
  BY DEF WalkTree, CodeInv, Cur
<1>2. Head(walk) = walk[1] /\ 1 \in 1..Len(walk) /\ walk \in Seq(Call(tree))
  BY <1>1 DEF CallsFrom
<1>3. n \in 1..Len(tree) /\ p \in Nat /\ p = ParentPlace(tree, A, n)
  <2>1. walk[1] \in Call(tree)
    BY <1>2
  <2> QED BY <2>1, <1>1, <1>2 DEF CallsFrom, Call
<1>4. /\ tree \in Seq(Node) /\ Len(tree) \in Nat /\ n \in Nat
      /\ tree[n].up < n /\ tree[n] \in Node
  BY <1>1, <1>3 DEF IsTree, Rooted
<1>5. tree[n].up # 0 => ~LeftOut(tree, A, tree[n].up)
  <2>1. \E i \in 1..Len(walk) : walk[i].node = n
    BY <1>2
  <2>2. n >= n
    BY <1>4
  <2> QED BY <1>1, <1>3, <2>1, <2>2 DEF CallsFrom
<1>6. LeftOut(tree, A, n) <=> Small(tree, n)
  BY <1>1, <1>3, <1>5, CalledAlive
<1>7. n \in K <=> Worthy(n) /\ ~TooSmall(n)
  BY <1>3, <1>6 DEF KeptOf, Worthy, TooSmall, Small
<1>8. \A c \in ChildrenOf(tree, n) :
        /\ n \in K => ParentPlace(tree, A, c) = Place(n, K)
        /\ n \notin K => ParentPlace(tree, A, c) = p
  BY <1>1, <1>3, BelowFacts DEF ChildrenOf
<1>9. \A q : Calls(n, q) = CallsOf(tree, n, q)
  BY DEF Calls, CallsOf, Below, ChildrenOf
<1> HIDE DEF A
<1>10. \/ /\ Worthy(n) /\ TooSmall(n)
          /\ walk' = Tail(walk) /\ UNCHANGED chunks
       \/ /\ Worthy(n) /\ ~TooSmall(n)
          /\ chunks' = Append(chunks, ChunkData(tree[n].kind, Content(n), p))
          /\ walk' = Calls(n, Len(chunks) + 1) \o Tail(walk)
       \/ /\ ~Worthy(n)
          /\ walk' = Calls(n, p) \o Tail(walk) /\ UNCHANGED chunks
  BY <1>2 DEF WalkTree
<1> DEFINE Goal == CallsFrom(tree, A, walk', Cur(tree, walk'))
                   /\ ChunksUpTo(tree, A, chunks', Cur(tree, walk'))
<1>11. ASSUME Worthy(n) /\ TooSmall(n) /\ walk' = Tail(walk) /\ UNCHANGED chunks
       PROVE  Goal
  <2>1. Small(tree, n)
    BY <1>11 DEF TooSmall, Small
  <2> QED BY <2>1, <1>1, <1>11, CallReturns
<1>12. ASSUME /\ Worthy(n) /\ ~TooSmall(n)
              /\ chunks' = Append(chunks, ChunkData(tree[n].kind, Content(n), p))
              /\ walk' = Calls(n, Len(chunks) + 1) \o Tail(walk)
       PROVE  Goal
  <2> DEFINE c == ChunkData(tree[n].kind, Content(n), p)
             q == Len(chunks) + 1
  <2>1. n \in K /\ ~Small(tree, n)
    BY <1>7, <1>12 DEF TooSmall, Small
  <2>2. c.type = tree[n].kind /\ c.content = Content(n) /\ c.parent = p
    BY DEF ChunkData
  <2>3. c \in Chunk
    <3>1. tree[n].kind \in ChunkType
      BY <1>4, <1>12 DEF Node, NodeKind, Worthy, ChunkType
    <3>2. Content(n) \in SUBSET Int
      BY <1>4 DEF Content
    <3> QED BY <3>1, <3>2, <1>3 DEF Chunk, ChunkData
  <2>4. ChunkOf(tree, A, c, n)
    BY <2>2, <1>3 DEF ChunkOf, Content
  <2> HIDE DEF c
  <2>5. ChunksUpTo(tree, A, Append(chunks, c), n + 1) /\ q = Place(n, K)
    BY <1>1, <2>1, <2>3, <2>4, NodeChunked
  <2>6. q \in Nat
    BY <1>1 DEF ChunksUpTo
  <2>7. \A d \in ChildrenOf(tree, n) : ParentPlace(tree, A, d) = q
    BY <1>8, <2>1, <2>5
  <2>8. CallsFrom(tree, A, CallsOf(tree, n, q) \o Tail(walk), n + 1)
        /\ Cur(tree, CallsOf(tree, n, q) \o Tail(walk)) = n + 1
    BY <1>1, <2>1, <2>6, <2>7, CallDescends
  <2>9. walk' = CallsOf(tree, n, q) \o Tail(walk) /\ chunks' = Append(chunks, c)
    BY <1>12, <1>9 DEF c
  <2> QED BY <2>5, <2>8, <2>9
<1>13. ASSUME ~Worthy(n) /\ walk' = Calls(n, p) \o Tail(walk) /\ UNCHANGED chunks
       PROVE  Goal
  <2>1. n \notin K /\ ~Small(tree, n)
    BY <1>7, <1>13 DEF Worthy, Small
  <2>2. ChunksUpTo(tree, A, chunks, n + 1)
    BY <1>1, <1>3, <2>1, NodePassed
  <2>3. \A d \in ChildrenOf(tree, n) : ParentPlace(tree, A, d) = p
    BY <1>8, <2>1
  <2>4. CallsFrom(tree, A, CallsOf(tree, n, p) \o Tail(walk), n + 1)
        /\ Cur(tree, CallsOf(tree, n, p) \o Tail(walk)) = n + 1
    BY <1>1, <1>3, <2>1, <2>3, CallDescends
  <2>5. walk' = CallsOf(tree, n, p) \o Tail(walk) /\ chunks' = chunks
    BY <1>13, <1>9
  <2> QED BY <2>2, <2>4, <2>5
<1>14. Goal
  <2> HIDE DEF Goal, n, p
  <2> QED BY <1>10, <1>11, <1>12, <1>13
<1> QED BY <1>1, <1>14 DEF CodeInv, A

LEMMA EndOfWalkKeeps == TextInv /\ CodeInv /\ EndOfWalk => CodeInv'
<1> SUFFICES ASSUME TextInv, CodeInv, EndOfWalk PROVE CodeInv'
  OBVIOUS
<1>1. /\ phase = "nodes" /\ phase' = "done" /\ tree' = tree /\ walk' = walk /\ walk = << >>
      /\ tree # << >> /\ IsTree(tree, Above(tree))
      /\ ChunksUpTo(tree, Above(tree), chunks, Cur(tree, walk))
  BY DEF EndOfWalk, CodeInv, codeVars
<1>2. Cur(tree, walk) = Len(tree) + 1
  BY <1>1 DEF Cur
<1>3. CASE chunks = << >>
  <2>1. chunks' = WholeFile(tree)
    BY <1>3 DEF EndOfWalk
  <2> QED BY <1>1, <2>1 DEF CodeInv, CodeResult
<1>4. CASE chunks # << >>
  <2>1. chunks' = chunks
    BY <1>4 DEF EndOfWalk
  <2>2. ChunksUpTo(tree, Above(tree), chunks, Len(tree) + 1)
    BY <1>1, <1>2
  <2> QED BY <1>1, <1>4, <2>1, <2>2 DEF CodeInv, CodeResult
<1> QED BY <1>3, <1>4

LEMMA CodeInvStep == TextInv /\ CodeInv /\ [ChunkingNext]_chunkVars => CodeInv'
<1> SUFFICES ASSUME TextInv, CodeInv, [ChunkingNext]_chunkVars PROVE CodeInv'
  OBVIOUS
<1>1. CASE UNCHANGED chunkVars
  <2>1. /\ phase' = phase /\ chunks' = chunks /\ lines' = lines
        /\ tree' = tree /\ walk' = walk
    BY <1>1 DEF chunkVars, textVars, codeVars
  <2> QED BY <2>1 DEF CodeInv, CodeResult
<1>2. CASE ChunkingNext
  BY <1>2, ChoiceKeeps, TextStepKeepsCode, WalkKeeps, EndOfWalkKeeps DEF ChunkingNext, CodeStep
<1> QED BY <1>1, <1>2

(* The state of a walk in every reachable state: the calls still to be     *)
(* made are those for the nodes that hang on a node dealt with and not     *)
(* left out, in document order, and the chunks are those of the nodes      *)
(* dealt with (code.rs:66-119).                                            *)
THEOREM WalkInvariant == ChunkingSpec => [](TextInv /\ CodeInv)
<1>1. ChunkingInit => TextInv /\ CodeInv
  BY TextInvInit, CodeInvInit
<1>2. TextInv /\ CodeInv /\ [ChunkingNext]_chunkVars => (TextInv /\ CodeInv)'
  BY TextInvStep, CodeInvStep
<1> QED BY <1>1, <1>2, PTL DEF ChunkingSpec
LEMMA TreeAsStated == CodeInv => ChunksAreTheTree
<1> SUFFICES ASSUME CodeInv, CodeDone, chunks # WholeFile(tree)
             PROVE  /\ Kept # {}
                    /\ Len(chunks) = Cardinality(Kept)
                    /\ \A n \in Kept :
                         LET c == chunks[Place(n, Kept)]  over == Above(tree)[n] \cap Kept IN
                         /\ c.type = tree[n].kind /\ c.content = Content(n)
                         /\ c.parent = IF over = {} THEN 0 ELSE Place(Max(over), Kept)
  BY DEF ChunksAreTheTree
<1> DEFINE A == Above(tree)
           K == KeptOf(tree, A)
<1>1. IsTree(tree, A) /\ chunks # << >> /\ ChunksUpTo(tree, A, chunks, Len(tree) + 1)
  BY DEF CodeInv, CodeDone, CodeResult
<1>2. Kept = K
  BY DEF Kept, KeptOf, LeftOut, Worthy, TooSmall, Small
<1> HIDE DEF A
<1>3. Len(tree) \in Nat /\ IsFiniteSet(K)
  BY <1>1, KeptNumbers
<1>4. \A i \in K : i < Len(tree) + 1
  BY <1>3 DEF KeptOf
<1> HIDE DEF K
<1>5. {i \in K : i < Len(tree) + 1} = K
  BY <1>4
<1>6. Len(chunks) = Cardinality(K) /\ chunks \in Seq(Chunk)
  BY <1>1, <1>5 DEF ChunksUpTo, K
<1>7. K # {}
  <2> SUFFICES ASSUME K = {} PROVE FALSE
    OBVIOUS
  <2>1. Len(chunks) = 0
    BY <1>6, FS_EmptySet
  <2> QED BY <2>1, <1>1, <1>6
<1>8. \A n \in K : ChunkOf(tree, A, chunks[Place(n, K)], n)
  BY <1>1, <1>4 DEF ChunksUpTo, K
<1>9. ASSUME NEW n \in K
      PROVE  LET c == chunks[Place(n, K)]  over == A[n] \cap K IN
             /\ c.type = tree[n].kind /\ c.content = Content(n)
             /\ c.parent = IF over = {} THEN 0 ELSE Place(Max(over), K)
  BY <1>8 DEF ChunkOf, ParentPlace, Content, K
<1> QED BY <1>2, <1>6, <1>7, <1>9 DEF A

(* The chunks of any code file are the functions, classes and modules of   *)
(* its tree in document order, each with its nearest chunk above as        *)
(* parent, however large and deep the tree is (code.rs:66-119, 153-160).   *)
THEOREM TreeOfAnyCode == ChunkingSpec => []ChunksAreTheTree
BY WalkInvariant, TreeAsStated, PTL

LEMMA ChunksTyped == TextInv /\ CodeInv => ChunkingTypeOK
<1> SUFFICES ASSUME TextInv, CodeInv PROVE ChunkingTypeOK
  OBVIOUS
<1> DEFINE Good(cs) == cs \in Seq(Chunk) /\ \A i \in 1..Len(cs) :
                         cs[i].type \in ChunkType /\ cs[i].parent \in 0..(i - 1)
<1>1. Good(<< >>)
  OBVIOUS
<1>2. ASSUME NEW c \in SUBSET Int PROVE Good(<<ChunkData("File", c, 0)>>)
  <2> DEFINE d == ChunkData("File", c, 0)
             cs == <<d>>
  <2>1. d \in Chunk /\ d.type = "File" /\ d.parent = 0
    BY DEF ChunkData, Chunk, ChunkType
  <2> HIDE DEF d
  <2>2. cs \in Seq(Chunk) /\ Len(cs) = 1 /\ cs[1] = d
    BY <2>1
  <2> HIDE DEF cs
  <2>3. \A i \in 1..Len(cs) : cs[i] = d /\ 0 \in 0..(i - 1)
    BY <2>2
  <2>4. "File" \in ChunkType
    BY DEF ChunkType
  <2> QED BY <2>1, <2>2, <2>3, <2>4 DEF cs, d
<1>3. ASSUME NEW L, NEW sp, NEW b, PartsUpTo(L, chunks, sp, b) PROVE Good(chunks)
  <2> SUFFICES ASSUME NEW i \in 1..Len(chunks)
               PROVE  chunks[i].type \in ChunkType /\ chunks[i].parent \in 0..(i - 1)
    BY <1>3 DEF PartsUpTo
  <2>1. chunks \in Seq(Chunk) /\ Whole(L, chunks[i], b) /\ ParentFound(chunks, i - 1, chunks[i])
    BY <1>3 DEF PartsUpTo
  <2>2. 0 \in 0..(i - 1)
    BY <2>1
  <2> QED BY <2>1, <2>2 DEF Whole, ParentFound, LastSection, ChunkType
<1>4. ASSUME NEW t, NEW A, NEW b, ChunksUpTo(t, A, chunks, b) PROVE Good(chunks)
  BY <1>4 DEF ChunksUpTo
<1>5. Good(chunks) => ChunksTypeOK /\ Len(chunks) \in Nat
  BY DEF ChunksTypeOK, TextInv
<1>6. NoText /\ Len(chunks) \in Nat => TextTypeOK
  <2>1. MaxLines + 1 \in Nat /\ 1 \in 1..(MaxLines + 1)
    BY TextAssumption
  <2> QED BY <2>1, TextAssumption DEF NoText, TextTypeOK
<1>7. walk = << >> => CodeTypeOK
  <2>1. \A i \in 1..Len(<< >>) : FALSE
    OBVIOUS
  <2> QED BY <2>1 DEF CodeTypeOK
<1>8. CASE phase = "choose"
  <2>1. chunks = << >> /\ NoText /\ walk = << >>
    BY <1>8 DEF TextInv, CodeInv
  <2>2. Good(chunks)
    BY <2>1, <1>1
  <2> HIDE DEF Good
  <2> QED BY <2>1, <2>2, <1>5, <1>6, <1>7 DEF ChunkingTypeOK
<1>9. CASE phase = "lines"
  <2>1. /\ lines # << >> /\ Len(lines) <= MaxLines
        /\ OpenText(lines, at, start, text) /\ PartsUpTo(lines, chunks, spans, start)
        /\ LastSection(chunks, Len(chunks), section) /\ walk = << >>
    BY <1>9 DEF TextInv, CodeInv
  <2>2. Good(chunks)
    BY <2>1, <1>3
  <2>3. TextTypeOK
    <3>1. /\ lines \in Seq(Line) /\ at \in 1..(Len(lines) + 1) /\ start \in 1..at
          /\ text = start..(at - 1)
      BY <2>1 DEF OpenText
    <3>2. at \in 1..(MaxLines + 1) /\ start \in 1..(MaxLines + 1) /\ text \subseteq 1..Len(lines)
      BY <3>1, <2>1, TextAssumption
    <3> QED BY <3>1, <3>2, <2>1 DEF LastSection, TextTypeOK
  <2> HIDE DEF Good
  <2> QED BY <2>1, <2>2, <2>3, <1>5, <1>7 DEF ChunkingTypeOK
<1>10. CASE phase = "nodes"
  <2> DEFINE A == Above(tree)
             b == Cur(tree, walk)
  <2>1. NoText /\ IsTree(tree, A) /\ CallsFrom(tree, A, walk, b) /\ ChunksUpTo(tree, A, chunks, b)
    BY <1>10 DEF TextInv, CodeInv
  <2> HIDE DEF A
  <2>2. Good(chunks)
    BY <2>1, <1>4
  <2>3. \A i \in 1..Len(walk) : walk[i].node \in 1..Len(tree)
    <3>1. walk \in Seq(Call(tree))
      BY <2>1 DEF CallsFrom
    <3>2. \A i \in 1..Len(walk) : walk[i] \in Call(tree)
      BY <3>1
    <3> QED BY <3>2 DEF Call
  <2>4. b \in Int
    <3>1. Len(tree) \in Nat
      BY <2>1, KeptNumbers
    <3>2. walk \in Seq(Call(tree))
      BY <2>1 DEF CallsFrom
    <3>3. walk # << >> => 1 \in 1..Len(walk)
      BY <3>2
    <3> QED BY <2>3, <3>1, <3>3 DEF Cur
  <2> HIDE DEF b
  <2>5. ASSUME NEW i \in 1..Len(walk) PROVE walk[i].parent \in 0..Len(chunks)
    <3> DEFINE m == walk[i].node
    <3>1. m \in 1..Len(tree) /\ m >= b /\ walk[i].parent = ParentPlace(tree, A, m)
      BY <2>1, <2>3 DEF CallsFrom
    <3>2. tree[m].up < b
      BY <2>1, <3>1 DEF CallsFrom
    <3>3. Len(chunks) = Cardinality({k \in KeptOf(tree, A) : k < b})
      BY <2>1 DEF ChunksUpTo
    <3> HIDE DEF m
    <3> QED BY <2>1, <2>4, <3>1, <3>2, <3>3, ParentBefore
  <2>6. CodeTypeOK
    BY <2>3, <2>5 DEF CodeTypeOK
  <2> HIDE DEF Good
  <2> QED BY <2>1, <2>2, <2>6, <1>5, <1>6 DEF ChunkingTypeOK
<1>11. CASE phase = "done"
  <2>1. walk = << >>
    BY <1>11 DEF CodeInv
  <2>2. NoText \/ TextResult
    BY <1>11 DEF TextInv
  <2>3. CASE TextResult
    <3>1. Good(chunks)
      <4>1. CASE PartsUpTo(lines, chunks, spans, Len(lines) + 1)
        BY <4>1, <1>3
      <4>2. CASE chunks = <<ChunkData("File", {}, 0)>>
        <5>1. {} \in SUBSET Int
          OBVIOUS
        <5> HIDE DEF Good
        <5> QED BY <4>2, <5>1, <1>2
      <4> QED BY <2>3, <4>1, <4>2 DEF TextResult, Chunked
    <3> HIDE DEF Good
    <3> QED BY <2>1, <2>3, <3>1, <1>5, <1>7 DEF ChunkingTypeOK, TextResult
  <2>4. CASE NoText
    <3>1. CASE tree = << >>
      <4>1. chunks = << >>
        BY <1>11, <2>4, <3>1 DEF CodeInv, NoText
      <4> QED BY <4>1, <2>1, <2>4, <1>1, <1>5, <1>6, <1>7 DEF ChunkingTypeOK
    <3>2. CASE tree # << >>
      <4>1. IsTree(tree, Above(tree)) /\ CodeResult
        BY <1>11, <3>2 DEF CodeInv
      <4>2. 1..Len(tree) \in SUBSET Int
        OBVIOUS
      <4>3. CASE chunks = WholeFile(tree)
        <5> HIDE DEF Good
        <5>1. Good(chunks)
          BY <4>2, <4>3, <1>2 DEF WholeFile
        <5> QED BY <5>1, <2>1, <2>4, <1>5, <1>6, <1>7 DEF ChunkingTypeOK
      <4>4. CASE ChunksUpTo(tree, Above(tree), chunks, Len(tree) + 1)
        <5>1. Good(chunks)
          BY <4>4, <1>4
        <5> HIDE DEF Good
        <5> QED BY <5>1, <2>1, <2>4, <1>5, <1>6, <1>7 DEF ChunkingTypeOK
      <4> QED BY <4>1, <4>3, <4>4 DEF CodeResult
    <3> QED BY <3>1, <3>2
  <2> QED BY <2>2, <2>3, <2>4
<1> QED BY <1>8, <1>9, <1>10, <1>11 DEF TextInv, ChunkPhase

(* Both chunkers give chunks of the types the index knows, each below a    *)
(* chunk before it, whatever the file is (text.rs:34-119, code.rs:66-119). *)
THEOREM ChunkingTyped == ChunkingSpec => []ChunkingTypeOK
BY WalkInvariant, ChunksTyped, PTL
-----------------------------------------------------------------------------
(* The query parser. What its steps do to a text s is said of any sequence *)
(* of atoms: which positions a match takes, what is left of the others.    *)

LEMMA InjectedCount ==
  ASSUME NEW S, NEW T, IsFiniteSet(T), NEW f \in [S -> T],
         \A x, y \in S : f[x] = f[y] => x = y
  PROVE  /\ Cardinality(S) \in Nat /\ Cardinality(T) \in Nat
         /\ Cardinality(S) <= Cardinality(T)
<1>1. f \in Injection(S, T)
  BY DEF Injection, IsInjective
<1>2. IsFiniteSet(S) /\ Cardinality(S) <= Cardinality(T)
  BY <1>1, FS_Injection
<1> QED BY <1>2, FS_CardinalityType

(* The blanks from a position on are skipped, and nothing else.            *)
LEMMA SkipFacts ==
  ASSUME NEW s \in Seq(Atom), NEW i \in 1..(Len(s) + 1)
  PROVE  /\ Skip(s, i) \in i..(Len(s) + 1)
         /\ \A j \in i..(Skip(s, i) - 1) : s[j] = "space"
         /\ Skip(s, i) <= Len(s) => s[Skip(s, i)] # "space"
<1> DEFINE J == {j \in i..(Len(s) + 1) : j > Len(s) \/ s[j] # "space"}
<1>1. Len(s) \in Nat /\ i \in Nat
  OBVIOUS
<1>2. J \in SUBSET Nat /\ Len(s) + 1 \in J
  BY <1>1
<1>3. Min(J) \in J /\ \A x \in J : Min(J) <= x
  <2> HIDE DEF J
  <2> QED BY <1>2, LeastMember
<1>4. Skip(s, i) = Min(J)
  BY DEF Skip
<1>5. ASSUME NEW j \in i..(Min(J) - 1) PROVE s[j] = "space"
  <2>1. Min(J) \in i..(Len(s) + 1)
    BY <1>3
  <2>2. j \in i..(Len(s) + 1) /\ ~(Min(J) <= j)
    BY <1>1, <2>1
  <2>3. j \notin J
    BY <2>2, <1>3
  <2> QED BY <2>2, <2>3
<1>6. Min(J) <= Len(s) => s[Min(J)] # "space"
  <2>1. Min(J) \in i..(Len(s) + 1) /\ (Min(J) > Len(s) \/ s[Min(J)] # "space")
    BY <1>3
  <2> QED BY <2>1, <1>1
<1> HIDE DEF J
<1>7. Min(J) \in i..(Len(s) + 1)
  BY <1>3 DEF J
<1> QED BY <1>4, <1>5, <1>6, <1>7

\* A match m in text s begins with an atom of B, and goes on with atoms of C.
Match(s, m, B, C) ==
  /\ m[1] \in 1..Len(s) /\ m[2] \in m[1]..Len(s)
  /\ s[m[1]] \in B
  /\ \A i \in (m[1] + 1)..m[2] : s[i] \in C

LEMMA YearMatchIs ==
  ASSUME NEW s \in Seq(Atom), NEW m \in YearMatches(s)
  PROVE  Match(s, m, {"year", "wide"}, {"space", "made"})
<1>1. PICK i \in 1..Len(s) :
        /\ s[i] \in {"year", "wide"}
        /\ m = <<i, IF IsAt(s, Skip(s, i + 1), {"made"}) THEN Skip(s, i + 1)
                    ELSE Skip(s, i + 1) - 1>>
  BY DEF YearMatches
<1> DEFINE k == Skip(s, i + 1)
<1>2. Len(s) \in Nat /\ i \in Nat /\ i + 1 \in 1..(Len(s) + 1)
  OBVIOUS
<1>3. k \in (i + 1)..(Len(s) + 1) /\ \A j \in (i + 1)..(k - 1) : s[j] = "space"
  BY <1>2, SkipFacts
<1> HIDE DEF k
<1>4. CASE IsAt(s, k, {"made"})
  <2>1. m[1] = i /\ m[2] = k /\ k <= Len(s) /\ s[k] = "made"
    BY <1>1, <1>4 DEF IsAt, k
  <2>2. \A j \in (i + 1)..k : j \in (i + 1)..(k - 1) \/ j = k
    BY <1>2, <1>3
  <2>3. \A j \in (i + 1)..k : s[j] \in {"space", "made"}
    BY <2>1, <2>2, <1>3
  <2>4. k \in i..Len(s)
    BY <2>1, <1>2, <1>3
  <2> QED BY <2>1, <2>3, <2>4, <1>1 DEF Match
<1>5. CASE ~IsAt(s, k, {"made"})
  <2>1. m[1] = i /\ m[2] = k - 1
    BY <1>1, <1>5 DEF k
  <2>2. k - 1 \in i..Len(s)
    BY <1>2, <1>3
  <2> QED BY <2>1, <2>2, <1>1, <1>3 DEF Match
<1> QED BY <1>4, <1>5

LEMMA RecentMatchIs ==
  ASSUME NEW s \in Seq(Atom), NEW m \in RecentMatches(s)
  PROVE  /\ Match(s, m, {"recent", "past"}, {"space", "num", "widenum", "month", "day"})
         /\ s[m[2]] \in {"month", "day"}
<1>1. PICK i \in 1..Len(s) :
        /\ s[i] \in {"recent", "past"}
        /\ IsAt(s, Skip(s, i + 1), {"num", "widenum"})
        /\ IsAt(s, Skip(s, Skip(s, i + 1) + 1), {"month", "day"})
        /\ m = <<i, Skip(s, Skip(s, i + 1) + 1)>>
  BY DEF RecentMatches
<1> DEFINE k == Skip(s, i + 1)
           l == Skip(s, k + 1)
<1>2. Len(s) \in Nat /\ i \in Nat /\ i + 1 \in 1..(Len(s) + 1)
  OBVIOUS
<1>3. k \in (i + 1)..(Len(s) + 1) /\ \A j \in (i + 1)..(k - 1) : s[j] = "space"
  BY <1>2, SkipFacts
<1>4. k <= Len(s) /\ s[k] \in {"num", "widenum"} /\ l <= Len(s) /\ s[l] \in {"month", "day"}
  BY <1>1 DEF IsAt
<1>5. k \in Nat /\ k + 1 \in 1..(Len(s) + 1)
  BY <1>2, <1>3, <1>4
<1>6. l \in (k + 1)..(Len(s) + 1) /\ \A j \in (k + 1)..(l - 1) : s[j] = "space"
  BY <1>5, SkipFacts
<1>7. m[1] = i /\ m[2] = l
  BY <1>1
<1> HIDE DEF k, l
<1>8. \A j \in (i + 1)..l :
        j \in (i + 1)..(k - 1) \/ j = k \/ j \in (k + 1)..(l - 1) \/ j = l
  BY <1>2, <1>3, <1>5, <1>6
<1>9. \A j \in (i + 1)..l : s[j] \in {"space", "num", "widenum", "month", "day"}
  BY <1>3, <1>4, <1>6, <1>8
<1>10. l \in i..Len(s)
  BY <1>2, <1>3, <1>4, <1>6
<1> QED BY <1>1, <1>4, <1>7, <1>9, <1>10 DEF Match

LEMMA MonthMatchIs ==
  ASSUME NEW s \in Seq(Atom), NEW m \in MonthMatches(s)
  PROVE  Match(s, m, {"past", "this"}, {"space", "month"}) /\ s[m[2]] = "month"
<1>1. PICK i \in 1..Len(s) :
        /\ s[i] \in {"past", "this"}
        /\ IsAt(s, Skip(s, i + 1), {"month"})
        /\ m = <<i, Skip(s, i + 1)>>
  BY DEF MonthMatches
<1> DEFINE k == Skip(s, i + 1)
<1>2. Len(s) \in Nat /\ i \in Nat /\ i + 1 \in 1..(Len(s) + 1)
  OBVIOUS
<1>3. k \in (i + 1)..(Len(s) + 1) /\ \A j \in (i + 1)..(k - 1) : s[j] = "space"
  BY <1>2, SkipFacts
<1>4. k <= Len(s) /\ s[k] = "month" /\ m[1] = i /\ m[2] = k
  BY <1>1 DEF IsAt
<1> HIDE DEF k
<1>5. \A j \in (i + 1)..k : j \in (i + 1)..(k - 1) \/ j = k
  BY <1>2, <1>3
<1>6. \A j \in (i + 1)..k : s[j] \in {"space", "month"}
  BY <1>3, <1>4, <1>5
<1>7. k \in i..Len(s)
  BY <1>2, <1>3, <1>4
<1> QED BY <1>1, <1>4, <1>6, <1>7 DEF Match

LEMMA NameMatchIs ==
  ASSUME NEW s \in Seq(Atom), NEW m \in Named(s)
  PROVE  Match(s, m, {"ext", "go"}, {}) /\ m[2] = m[1]
<1>1. PICK i \in 1..Len(s) : s[i] \in {"ext", "go"} /\ m = <<i, i>>
  BY DEF Named
<1>2. m[1] = i /\ m[2] = i /\ i \in i..Len(s)
  BY <1>1
<1>3. (i + 1)..i = {}
  OBVIOUS
<1> QED BY <1>1, <1>2, <1>3 DEF Match

(* The leftmost match is a match.                                          *)
LEMMA FirstFound ==
  ASSUME NEW ms, ms # {}, \A m \in ms : m[1] \in Nat
  PROVE  First(ms) \in ms
<1> DEFINE P == {m[1] : m \in ms}
<1>1. P \in SUBSET Nat /\ P # {}
  OBVIOUS
<1>2. Min(P) \in P /\ \A x \in P : Min(P) <= x
  <2> HIDE DEF P
  <2> QED BY <1>1, LeastMember
<1>3. PICK m \in ms : m[1] = Min(P)
  BY <1>2
<1>4. \A k \in ms : m[1] <= k[1]
  BY <1>2, <1>3
<1> QED BY <1>3, <1>4 DEF First
LEMMA SliceIs ==
  ASSUME NEW s \in Seq(Atom), NEW a \in 1..(Len(s) + 1), NEW b \in (a - 1)..Len(s)
  PROVE  /\ SubSeq(s, a, b) \in Seq(Atom) /\ Len(SubSeq(s, a, b)) = b - a + 1
         /\ \A i \in 1..(b - a + 1) : SubSeq(s, a, b)[i] = s[a + i - 1]
<1> DEFINE n == b - a + 1
           f == [i \in 1..n |-> s[a + i - 1]]
<1>1. Len(s) \in Nat /\ a \in Nat /\ b \in Nat /\ n \in Nat
  OBVIOUS
<1>2. \A i \in 1..n : a + i - 1 \in 1..Len(s)
  BY <1>1
<1>3. \A i \in 1..n : s[a + i - 1] \in Atom
  BY <1>2
<1>4. f \in Seq(Atom) /\ Len(f) = n
  <2> HIDE DEF n
  <2> QED BY <1>1, <1>3
<1>5. SubSeq(s, a, b) = f
  BY <1>1
<1> QED BY <1>4, <1>5

\* The words of text s that are the atom "word" alone.
Alone(s) ==
  {i \in 1..Len(s) : /\ s[i] = "word"
                     /\ i = 1 \/ s[i - 1] = "space"
                     /\ i = Len(s) \/ s[i + 1] = "space"}

LEMMA AloneFinite ==
  ASSUME NEW s \in Seq(Atom)
  PROVE  IsFiniteSet(Alone(s)) /\ Cardinality(Alone(s)) \in Nat
<1>1. Alone(s) \in SUBSET (1..Len(s)) /\ IsFiniteSet(1..Len(s))
  <2>1. Len(s) \in Int
    OBVIOUS
  <2> QED BY <2>1, FS_Interval DEF Alone
<1> HIDE DEF Alone
<1> QED BY <1>1, FS_Subset, FS_CardinalityType

\* Text r holds every atom of s that is none of X, and every lone word.
Keeps(s, r, X) ==
  /\ r \in Seq(Atom) /\ Len(r) <= Len(s)
  /\ \A x \in Atom \ X : Contains(s, x) <=> Contains(r, x)
  /\ Cardinality(Alone(s)) <= Cardinality(Alone(r))

(* Trimming takes only blanks from both ends.                              *)
LEMMA TrimIs ==
  ASSUME NEW s \in Seq(Atom)
  PROVE  \/ Trim(s) = << >> /\ \A i \in 1..Len(s) : s[i] = "space"
         \/ \E a, b \in 1..Len(s) :
              /\ a <= b /\ Trim(s) = SubSeq(s, a, b)
              /\ \A i \in 1..Len(s) : s[i] # "space" => i \in a..b
<1> DEFINE ink == {i \in 1..Len(s) : s[i] # "space"}
<1>1. Len(s) \in Nat
  OBVIOUS
<1>2. CASE ink = {}
  <2>1. \A i \in 1..Len(s) : s[i] = "space"
    BY <1>2
  <2> QED BY <2>1, <1>2 DEF Trim
<1>3. CASE ink # {}
  <2>1. ink \in SUBSET Nat /\ \A x \in ink : x <= Len(s)
    BY <1>1
  <2>2. Min(ink) \in ink /\ \A x \in ink : Min(ink) <= x
    <3> HIDE DEF ink
    <3> QED BY <2>1, <1>3, LeastMember
  <2>3. Max(ink) \in ink /\ \A x \in ink : x <= Max(ink)
    <3> HIDE DEF ink
    <3> QED BY <2>1, <1>1, <1>3, GreatestMember
  <2>4. Trim(s) = SubSeq(s, Min(ink), Max(ink))
    BY <1>3 DEF Trim
  <2>5. Min(ink) \in 1..Len(s) /\ Max(ink) \in 1..Len(s) /\ Min(ink) <= Max(ink)
    BY <2>2, <2>3
  <2>6. ASSUME NEW i \in 1..Len(s), s[i] # "space" PROVE i \in Min(ink)..Max(ink)
    <3>1. i \in ink
      BY <2>6
    <3>2. Min(ink) <= i /\ i <= Max(ink)
      BY <3>1, <2>2, <2>3
    <3> QED BY <3>2, <2>5
  <2> HIDE DEF ink
  <2> QED BY <2>4, <2>5, <2>6
<1> QED BY <1>2, <1>3

LEMMA TrimKeeps ==
  ASSUME NEW s \in Seq(Atom)
  PROVE  Keeps(s, Trim(s), {"space"})
<1> DEFINE r == Trim(s)
<1>1. Len(s) \in Nat
  OBVIOUS
<1>2. CASE r = << >> /\ \A i \in 1..Len(s) : s[i] = "space"
  <2>1. r \in Seq(Atom) /\ Len(r) = 0 /\ 1..0 = {}
    BY <1>2
  <2>2. Alone(s) = {}
    BY <1>2 DEF Alone
  <2>3. Alone(r) = {}
    BY <2>1 DEF Alone
  <2>4. Cardinality(Alone(s)) <= Cardinality(Alone(r))
    BY <2>2, <2>3, FS_EmptySet
  <2>5. \A x \in Atom \ {"space"} : ~Contains(s, x) /\ ~Contains(r, x)
    BY <1>2, <2>1 DEF Contains
  <2> QED BY <2>1, <2>4, <2>5, <1>1 DEF Keeps
<1>3. ASSUME NEW a \in 1..Len(s), NEW b \in 1..Len(s), a <= b, r = SubSeq(s, a, b),
             \A i \in 1..Len(s) : s[i] # "space" => i \in a..b
      PROVE  Keeps(s, r, {"space"})
  <2> DEFINE n == b - a + 1
  <2>1. n \in Nat /\ n <= Len(s) /\ a \in 1..(Len(s) + 1) /\ b \in (a - 1)..Len(s)
    BY <1>1, <1>3
  <2>2. r \in Seq(Atom) /\ Len(r) = n /\ \A i \in 1..n : r[i] = s[a + i - 1]
    BY <2>1, <1>3, SliceIs
  <2> HIDE DEF r
  <2>3. ASSUME NEW x \in Atom \ {"space"} PROVE Contains(s, x) <=> Contains(r, x)
    <3>1. ASSUME NEW i \in 1..Len(s), s[i] = x PROVE \E j \in 1..Len(r) : r[j] = x
      <4>1. i \in a..b
        BY <1>3, <3>1
      <4>2. i - a + 1 \in 1..n /\ a + (i - a + 1) - 1 = i
        BY <4>1
      <4> QED BY <4>2, <2>2, <3>1
    <3>2. ASSUME NEW j \in 1..Len(r), r[j] = x PROVE \E i \in 1..Len(s) : s[i] = x
      <4>1. a + j - 1 \in 1..Len(s)
        BY <2>1, <2>2
      <4> QED BY <4>1, <2>2, <3>2
    <3> QED BY <3>1, <3>2 DEF Contains
  <2>4. Cardinality(Alone(s)) <= Cardinality(Alone(r))
    <3> DEFINE f == [i \in Alone(s) |-> i - a + 1]
    <3>1. ASSUME NEW i \in Alone(s) PROVE i - a + 1 \in Alone(r) /\ i \in Int
      <4> DEFINE j == i - a + 1
      <4>1. /\ i \in 1..Len(s) /\ s[i] = "word"
            /\ i = 1 \/ s[i - 1] = "space"
            /\ i = Len(s) \/ s[i + 1] = "space"
        BY <3>1 DEF Alone
      <4>2. i \in a..b
        BY <4>1, <1>3
      <4>3. j \in 1..n /\ a + j - 1 = i
        BY <4>2
      <4>4. r[j] = "word"
        BY <4>1, <4>3, <2>2
      <4>5. j = 1 \/ r[j - 1] = "space"
        <5> SUFFICES ASSUME j # 1 PROVE r[j - 1] = "space"
          OBVIOUS
        <5>1. j - 1 \in 1..n /\ a + (j - 1) - 1 = i - 1 /\ i # 1
          BY <4>3
        <5> QED BY <5>1, <4>1, <2>2
      <4>6. j = n \/ r[j + 1] = "space"
        <5> SUFFICES ASSUME j # n PROVE r[j + 1] = "space"
          OBVIOUS
        <5>1. j + 1 \in 1..n /\ a + (j + 1) - 1 = i + 1 /\ i # Len(s)
          BY <4>3, <2>1
        <5> QED BY <5>1, <4>1, <2>2
      <4> QED BY <4>1, <4>3, <4>4, <4>5, <4>6, <2>2 DEF Alone
    <3>2. f \in [Alone(s) -> Alone(r)]
      BY <3>1
    <3>3. \A x, y \in Alone(s) : f[x] = f[y] => x = y
      BY <3>1, <2>1
    <3>4. IsFiniteSet(Alone(r))
      BY <2>2, AloneFinite
    <3> HIDE DEF f
    <3> QED BY <3>2, <3>3, <3>4, InjectedCount
  <2> QED BY <2>1, <2>2, <2>3, <2>4 DEF Keeps
<1> QED BY <1>2, <1>3, TrimIs
\* Text s without the positions of match m. A match joins two words when it
\* is glued to the one before it and takes the blanks before the next.
Removed(s, m) == SubSeq(s, 1, m[1] - 1) \o SubSeq(s, m[2] + 1, Len(s))
Joins(s, m) == m[1] > 1 /\ s[m[1] - 1] # "space" /\ m[2] > m[1] /\ m[2] < Len(s)

LEMMA RemovedIs ==
  ASSUME NEW s \in Seq(Atom), NEW m, m[1] \in 1..Len(s), m[2] \in m[1]..Len(s)
  PROVE  LET k == m[2] - m[1] + 1  r == Removed(s, m) IN
         /\ r \in Seq(Atom) /\ k \in 1..Len(s) /\ Len(r) = Len(s) - k
         /\ \A i \in 1..(m[1] - 1) : r[i] = s[i]
         /\ \A i \in m[1]..(Len(s) - k) : r[i] = s[i + k]
<1> DEFINE a == m[1]
           b == m[2]
           k == b - a + 1
           d == SubSeq(s, 1, a - 1)
           e == SubSeq(s, b + 1, Len(s))
           r == d \o e
<1>1. Len(s) \in Nat /\ a \in 1..Len(s) /\ b \in a..Len(s) /\ a \in Nat /\ b \in Nat
  OBVIOUS
<1> HIDE DEF a, b
<1>2. d \in Seq(Atom) /\ Len(d) = a - 1 /\ \A i \in 1..(a - 1) : d[i] = s[i]
  <2>1. 1 \in 1..(Len(s) + 1) /\ a - 1 \in (1 - 1)..Len(s)
    BY <1>1
  <2>2. (a - 1) - 1 + 1 = a - 1 /\ \A i \in 1..(a - 1) : 1 + i - 1 = i
    BY <1>1
  <2>3. /\ d \in Seq(Atom) /\ Len(d) = (a - 1) - 1 + 1
        /\ \A i \in 1..((a - 1) - 1 + 1) : d[i] = s[1 + i - 1]
    BY <2>1, SliceIs
  <2> HIDE DEF d
  <2> QED BY <2>2, <2>3
<1>3. e \in Seq(Atom) /\ Len(e) = Len(s) - b /\ \A i \in 1..(Len(s) - b) : e[i] = s[b + i]
  <2>1. b + 1 \in 1..(Len(s) + 1) /\ Len(s) \in (b + 1 - 1)..Len(s)
    BY <1>1
  <2>2. Len(s) - (b + 1) + 1 = Len(s) - b /\ \A i \in 1..(Len(s) - b) : b + 1 + i - 1 = b + i
    BY <1>1
  <2>3. /\ e \in Seq(Atom) /\ Len(e) = Len(s) - (b + 1) + 1
        /\ \A i \in 1..(Len(s) - (b + 1) + 1) : e[i] = s[b + 1 + i - 1]
    BY <2>1, SliceIs
  <2> HIDE DEF e
  <2> QED BY <2>2, <2>3
<1> HIDE DEF d, e
<1>4. r \in Seq(Atom) /\ Len(r) = Len(s) - k /\ k \in 1..Len(s)
  <2>1. r \in Seq(Atom)
    BY <1>2, <1>3
  <2>2. d \in Seq(Atom) /\ e \in Seq(Atom)
    BY <1>2, <1>3
  <2>3. Len(r) = Len(d) + Len(e)
    BY <2>2
  <2> QED BY <2>1, <2>3, <1>1, <1>2, <1>3
<1>5. ASSUME NEW i \in 1..(a - 1) PROVE r[i] = s[i]
  <2>1. i \in 1..Len(d) /\ i \in 1..(Len(d) + Len(e))
    BY <1>1, <1>2, <1>3
  <2>2. r[i] = d[i]
    BY <2>1, <1>2, <1>3
  <2> QED BY <2>2, <1>2
<1>6. ASSUME NEW i \in a..(Len(s) - k) PROVE r[i] = s[i + k]
  <2>1. i \in 1..(Len(d) + Len(e)) /\ ~(i <= Len(d)) /\ i - Len(d) \in 1..Len(e)
    <3>1. Len(d) = a - 1 /\ Len(e) = Len(s) - b
      BY <1>2, <1>3
    <3> QED BY <1>1, <3>1
  <2>2. r[i] = e[i - Len(d)]
    BY <2>1, <1>2, <1>3
  <2>3. b + (i - Len(d)) = i + k
    BY <1>1, <1>2
  <2> QED BY <2>1, <2>2, <2>3, <1>3
<1>7. r = Removed(s, m)
  BY DEF Removed, a, b, d, e
<1> HIDE DEF r
<1> QED BY <1>4, <1>5, <1>6, <1>7 DEF a, b

(* What is outside a match stays, and lone words stay alone unless the     *)
(* match joins two words.                                                  *)
LEMMA RemovedKeeps ==
  ASSUME NEW s \in Seq(Atom), NEW m, NEW B, NEW C, Match(s, m, B, C)
  PROVE  LET r == Removed(s, m) IN
         /\ r \in Seq(Atom) /\ Len(r) <= Len(s)
         /\ \A x : Contains(r, x) <=> \E i \in (1..Len(s)) \ (m[1]..m[2]) : s[i] = x
         /\ "word" \notin B \cup C /\ "space" \notin B /\ (s[m[2]] # "space" \/ ~Joins(s, m))
              => Cardinality(Alone(s)) <= Cardinality(Alone(r))
<1> DEFINE a == m[1]
           b == m[2]
           k == b - a + 1
           r == Removed(s, m)
<1>1. /\ Len(s) \in Nat /\ a \in 1..Len(s) /\ b \in a..Len(s) /\ a \in Nat /\ b \in Nat
      /\ k \in Nat
  BY DEF Match
<1>2. /\ r \in Seq(Atom) /\ k \in 1..Len(s) /\ Len(r) = Len(s) - k
      /\ \A i \in 1..(a - 1) : r[i] = s[i]
      /\ \A i \in a..(Len(s) - k) : r[i] = s[i + k]
  BY <1>1, RemovedIs
<1>3. s[a] \in B /\ \A i \in (a + 1)..b : s[i] \in C
  BY DEF Match
<1>k. k = b - a + 1 /\ Len(r) = Len(s) - k
  BY <1>2
<1> HIDE DEF r, k, a, b
<1>4. ASSUME NEW x
      PROVE  Contains(r, x) <=> \E i \in (1..Len(s)) \ (a..b) : s[i] = x
  <2>1. ASSUME NEW j \in 1..Len(r), r[j] = x PROVE \E i \in (1..Len(s)) \ (a..b) : s[i] = x
    <3>1. CASE j < a
      <4>1. j \in 1..(a - 1) /\ j \in (1..Len(s)) \ (a..b)
        BY <1>1, <3>1, <1>k
      <4> QED BY <4>1, <1>2, <2>1
    <3>2. CASE ~(j < a)
      <4>1. j \in a..(Len(s) - k) /\ j + k \in (1..Len(s)) \ (a..b)
        BY <1>1, <1>2, <3>2, <1>k
      <4> QED BY <4>1, <1>2, <2>1
    <3> QED BY <3>1, <3>2
  <2>2. ASSUME NEW i \in (1..Len(s)) \ (a..b), s[i] = x PROVE \E j \in 1..Len(r) : r[j] = x
    <3>1. CASE i < a
      <4>1. i \in 1..(a - 1) /\ i \in 1..Len(r)
        BY <1>1, <1>2, <3>1, <1>k
      <4> QED BY <4>1, <1>2, <2>2
    <3>2. CASE ~(i < a)
      <4>1. i - k \in a..(Len(s) - k) /\ i - k \in 1..Len(r) /\ i - k + k = i
        BY <1>1, <1>2, <3>2, <1>k
      <4> QED BY <4>1, <1>2, <2>2
    <3> QED BY <3>1, <3>2
  <2> QED BY <2>1, <2>2 DEF Contains
<1>5. ASSUME "word" \notin B \cup C, "space" \notin B, s[b] # "space" \/ ~Joins(s, m)
      PROVE  Cardinality(Alone(s)) <= Cardinality(Alone(r))
  <2> DEFINE f == [i \in Alone(s) |-> IF i < a THEN i ELSE i - k]
  <2>1. ASSUME NEW i \in Alone(s)
        PROVE  i \in 1..Len(s) /\ (i < a \/ i > b) /\ (IF i < a THEN i ELSE i - k) \in Alone(r)
    <3>1. /\ i \in 1..Len(s) /\ s[i] = "word"
          /\ i = 1 \/ s[i - 1] = "space"
          /\ i = Len(s) \/ s[i + 1] = "space"
      BY <2>1 DEF Alone
    <3>2. i < a \/ i > b
      <4>1. i = a \/ i \in (a + 1)..b => s[i] \in B \cup C
        BY <1>3
      <4> QED BY <4>1, <3>1, <1>1, <1>5
    <3>3. CASE i < a
      <4>1. i # a - 1
        BY <3>1, <3>3, <1>1, <1>3, <1>5
      <4>2. i \in 1..(a - 1) /\ i \in 1..Len(r) /\ i # Len(s) /\ i + 1 \in 1..(a - 1)
        BY <4>1, <3>1, <3>3, <1>1, <1>k
      <4>3. r[i] = "word" /\ r[i + 1] = "space"
        BY <4>2, <3>1, <1>2
      <4>4. i = 1 \/ r[i - 1] = "space"
        <5>1. i = 1 \/ i - 1 \in 1..(a - 1)
          BY <4>2, <1>1
        <5> QED BY <5>1, <3>1, <1>2
      <4>5. i \in Alone(r)
        BY <4>2, <4>3, <4>4 DEF Alone
      <4> QED BY <4>5, <3>1, <3>3
    <3>4. CASE i > b
      <4> DEFINE j == i - k
      <4>1. j \in a..(Len(s) - k) /\ j \in 1..Len(r) /\ j + k = i /\ ~(i < a)
        BY <3>1, <3>4, <1>1, <1>2, <1>k
      <4>2. r[j] = "word"
        BY <4>1, <3>1, <1>2
      <4>3. j = Len(r) \/ r[j + 1] = "space"
        <5> SUFFICES ASSUME j # Len(r) PROVE r[j + 1] = "space"
          OBVIOUS
        <5>1. j + 1 \in a..(Len(s) - k) /\ j + 1 + k = i + 1 /\ i # Len(s)
          BY <4>1, <1>1, <1>k
        <5> QED BY <5>1, <3>1, <1>2
      <4>4. j = 1 \/ r[j - 1] = "space"
        <5>1. CASE i > b + 1
          <6>1. j - 1 \in a..(Len(s) - k) /\ j - 1 + k = i - 1 /\ i # 1
            BY <5>1, <4>1, <1>1, <1>k
          <6> QED BY <6>1, <3>1, <1>2
        <5>2. CASE i = b + 1
          <6>1. j = a /\ i # 1 /\ i - 1 = b
            BY <5>2, <1>1, <1>k
          <6>2. s[b] = "space"
            BY <6>1, <3>1
          <6>3. b # a
            BY <6>2, <1>3, <1>5
          <6>4. ~(a > 1 /\ s[a - 1] # "space")
            BY <6>2, <6>3, <5>2, <3>1, <1>1, <1>5 DEF Joins, a, b
          <6>5. a = 1 \/ (a - 1 \in 1..(a - 1) /\ s[a - 1] = "space")
            BY <6>4, <1>1
          <6> QED BY <6>1, <6>5, <1>2
        <5> QED BY <5>1, <5>2, <3>1, <3>4, <1>1
      <4>5. j \in Alone(r)
        BY <4>1, <4>2, <4>3, <4>4 DEF Alone
      <4> QED BY <4>1, <4>5, <3>1, <3>4
    <3> QED BY <3>2, <3>3, <3>4
  <2>2. f \in [Alone(s) -> Alone(r)]
    BY <2>1
  <2>3. \A x, y \in Alone(s) : f[x] = f[y] => x = y
    <3> SUFFICES ASSUME NEW x \in Alone(s), NEW y \in Alone(s), f[x] = f[y] PROVE x = y
      OBVIOUS
    <3>1. x \in 1..Len(s) /\ y \in 1..Len(s) /\ (x < a \/ x > b) /\ (y < a \/ y > b)
      BY <2>1
    <3>2. (IF x < a THEN x ELSE x - k) = (IF y < a THEN y ELSE y - k)
      OBVIOUS
    <3> QED BY <3>1, <3>2, <1>1, <1>k
  <2>4. IsFiniteSet(Alone(r))
    BY <1>2, AloneFinite
  <2> HIDE DEF f
  <2> QED BY <2>2, <2>3, <2>4, InjectedCount
<1>6. r \in Seq(Atom) /\ Len(r) <= Len(s)
  BY <1>1, <1>2
<1> QED BY <1>4, <1>5, <1>6 DEF r, a, b

(* Cutting out a match keeps what is outside it but blanks.                *)
LEMMA CutKeeps ==
  ASSUME NEW s \in Seq(Atom), NEW m, NEW B, NEW C, Match(s, m, B, C)
  PROVE  LET r == Cut(s, m) IN
         /\ r \in Seq(Atom) /\ Len(r) <= Len(s)
         /\ \A x \in Atom \ {"space"} :
              Contains(r, x) <=> \E i \in (1..Len(s)) \ (m[1]..m[2]) : s[i] = x
         /\ "word" \notin B \cup C /\ "space" \notin B /\ (s[m[2]] # "space" \/ ~Joins(s, m))
              => Cardinality(Alone(s)) <= Cardinality(Alone(r))
<1> DEFINE d == Removed(s, m)
<1>1. /\ d \in Seq(Atom) /\ Len(d) <= Len(s)
      /\ \A x : Contains(d, x) <=> \E i \in (1..Len(s)) \ (m[1]..m[2]) : s[i] = x
      /\ "word" \notin B \cup C /\ "space" \notin B /\ (s[m[2]] # "space" \/ ~Joins(s, m))
           => Cardinality(Alone(s)) <= Cardinality(Alone(d))
  BY RemovedKeeps
<1>2. Cut(s, m) = Trim(d)
  BY DEF Cut, Removed
<1> HIDE DEF d
<1>3. Keeps(d, Trim(d), {"space"})
  BY <1>1, TrimKeeps
<1>4. /\ Trim(d) \in Seq(Atom) /\ Len(Trim(d)) <= Len(d)
      /\ \A x \in Atom \ {"space"} : Contains(d, x) <=> Contains(Trim(d), x)
      /\ Cardinality(Alone(d)) <= Cardinality(Alone(Trim(d)))
  BY <1>3 DEF Keeps
<1>5. Len(s) \in Nat /\ Len(d) \in Nat /\ Len(Trim(d)) \in Nat
  BY <1>1, <1>4
<1>6. /\ Cardinality(Alone(s)) \in Nat /\ Cardinality(Alone(d)) \in Nat
      /\ Cardinality(Alone(Trim(d))) \in Nat
  BY <1>1, <1>4, AloneFinite
<1>7. Len(Trim(d)) <= Len(s)
  BY <1>1, <1>4, <1>5
<1>8. ASSUME Cardinality(Alone(s)) <= Cardinality(Alone(d))
      PROVE  Cardinality(Alone(s)) <= Cardinality(Alone(Trim(d)))
  BY <1>4, <1>6, <1>8
<1> QED BY <1>1, <1>2, <1>4, <1>7, <1>8

(* Taking every "file" and "code" for a blank keeps the other atoms.       *)
LEMMA FileKeeps ==
  ASSUME NEW s \in Seq(Atom)
  PROVE  Keeps(s, WithoutFile(s), {"space", "file", "code"})
<1> DEFINE r == WithoutFile(s)
<1>1. Len(s) \in Nat /\ "space" \in Atom
  BY DEF Atom
<1>2. r \in Seq(Atom) /\ Len(r) = Len(s)
  BY <1>1 DEF WithoutFile
<1>3. \A i \in 1..Len(s) : r[i] = IF s[i] \in {"file", "code"} THEN "space" ELSE s[i]
  BY DEF WithoutFile
<1> HIDE DEF r
<1>4. \A x \in Atom \ {"space", "file", "code"} : Contains(s, x) <=> Contains(r, x)
  BY <1>2, <1>3 DEF Contains
<1>5. Alone(s) \in SUBSET Alone(r)
  <2> SUFFICES ASSUME NEW i \in Alone(s) PROVE i \in Alone(r)
    OBVIOUS
  <2>1. /\ i \in 1..Len(s) /\ s[i] = "word"
        /\ i = 1 \/ s[i - 1] = "space"
        /\ i = Len(s) \/ s[i + 1] = "space"
    BY DEF Alone
  <2>2. (i = 1 \/ i - 1 \in 1..Len(s)) /\ (i = Len(s) \/ i + 1 \in 1..Len(s))
    BY <1>1, <2>1
  <2> QED BY <2>1, <2>2, <1>2, <1>3 DEF Alone
<1>6. Cardinality(Alone(s)) <= Cardinality(Alone(r))
  BY <1>2, <1>5, AloneFinite, FS_Subset
<1> QED BY <1>1, <1>2, <1>4, <1>6 DEF Keeps, r
(* A word goes on to the next blank.                                       *)
LEMMA EndOfIs ==
  ASSUME NEW s \in Seq(Atom), NEW i \in 1..Len(s), s[i] # "space"
  PROVE  LET e == EndOf(s, i) IN
         /\ e \in i..Len(s) /\ \A k \in i..e : s[k] # "space"
         /\ e = Len(s) \/ s[e + 1] = "space"
<1> DEFINE E == {j \in i..Len(s) : \A k \in i..j : s[k] # "space"}
           e == EndOf(s, i)
<1>1. Len(s) \in Nat /\ i \in Nat /\ i..i = {i}
  OBVIOUS
<1>2. E \in SUBSET Nat /\ i \in E /\ \A x \in E : x <= Len(s)
  BY <1>1
<1>3. e \in E /\ \A x \in E : x <= e
  <2>1. e = Max(E)
    BY DEF EndOf
  <2> HIDE DEF E, e
  <2> QED BY <1>1, <1>2, <2>1, GreatestMember
<1>4. e \in i..Len(s) /\ \A k \in i..e : s[k] # "space"
  <2> HIDE DEF e
  <2> QED BY <1>3
<1>5. e = Len(s) \/ s[e + 1] = "space"
  <2> SUFFICES ASSUME e # Len(s), s[e + 1] # "space" PROVE FALSE
    OBVIOUS
  <2> HIDE DEF e
  <2>1. e + 1 \in i..Len(s) /\ \A k \in i..(e + 1) : k \in i..e \/ k = e + 1
    BY <1>1, <1>4
  <2>2. e + 1 \in E
    BY <2>1, <1>4
  <2> QED BY <2>2, <1>3, <1>1, <1>4
<1> QED BY <1>4, <1>5

(* A word is not empty and has no blank in it; it is the atom "word" only  *)
(* where that stands alone.                                                *)
LEMMA WordIs ==
  ASSUME NEW s \in Seq(Atom), NEW i \in Begins(s)
  PROVE  /\ WordAt(s, i) \in Seq(Atom \ {"space"}) /\ WordAt(s, i) # << >>
         /\ WordAt(s, i) = <<"word">> <=> i \in Alone(s)
<1> DEFINE e == EndOf(s, i)
           w == WordAt(s, i)
<1>1. i \in 1..Len(s) /\ s[i] # "space" /\ (i = 1 \/ s[i - 1] = "space") /\ Len(s) \in Nat
  BY DEF Begins
<1>2. /\ e \in i..Len(s) /\ \A k \in i..e : s[k] # "space"
      /\ e = Len(s) \/ s[e + 1] = "space"
  BY <1>1, EndOfIs
<1> HIDE DEF e
<1>3. /\ w \in Seq(Atom) /\ Len(w) = e - i + 1
      /\ \A k \in 1..(e - i + 1) : w[k] = s[i + k - 1]
  <2>1. i \in 1..(Len(s) + 1) /\ e \in (i - 1)..Len(s)
    BY <1>1, <1>2
  <2>2. w = SubSeq(s, i, e)
    BY DEF WordAt, e
  <2> HIDE DEF w
  <2> QED BY <2>1, <2>2, SliceIs
<1> HIDE DEF w
<1>k. i \in Nat /\ e \in Nat /\ Len(w) = e - i + 1
  BY <1>1, <1>2, <1>3
<1>4. Len(w) \in Nat /\ Len(w) >= 1 /\ 1 \in 1..Len(w) /\ i + 1 - 1 = i
  BY <1>1, <1>2, <1>3
<1>5. w \in Seq(Atom \ {"space"})
  <2>1. \A k \in 1..Len(w) : i + k - 1 \in i..e
    BY <1>1, <1>2, <1>3
  <2>2. \A k \in 1..Len(w) : w[k] \in Atom \ {"space"}
    BY <2>1, <1>2, <1>3
  <2> QED BY <2>2, <1>3
<1>6. w # << >>
  BY <1>3, <1>4
<1>7. w[1] = s[i]
  BY <1>3, <1>4
<1>8. ASSUME w = <<"word">> PROVE i \in Alone(s)
  <2>1. Len(w) = 1 /\ w[1] = "word"
    BY <1>8
  <2>a. 1 = e - i + 1
    BY <2>1, <1>k
  <2>b. i \in Nat /\ e \in Nat
    BY <1>k
  <2>2. e = i
    BY <2>a, <2>b
  <2> QED BY <2>1, <2>2, <1>1, <1>2, <1>7 DEF Alone
<1>9. ASSUME i \in Alone(s) PROVE w = <<"word">>
  <2>1. s[i] = "word" /\ (i = Len(s) \/ s[i + 1] = "space")
    BY <1>9 DEF Alone
  <2>2. e = i
    <3> SUFFICES ASSUME e # i PROVE FALSE
      OBVIOUS
    <3>1. i + 1 \in i..e /\ i # Len(s)
      BY <1>1, <1>2
    <3> QED BY <3>1, <2>1, <1>2
  <2>3. Len(w) = 1
    BY <2>2, <1>1, <1>3
  <2>4. w[1] = "word"
    BY <2>1, <1>7
  <2> QED BY <2>3, <2>4, <1>3
<1> QED BY <1>5, <1>6, <1>8, <1>9 DEF w

(* The words at some beginnings, and how many of them are lone ones.       *)
LEMMA WordsAre ==
  ASSUME NEW s \in Seq(Atom), NEW P \in SUBSET Begins(s)
  PROVE  LET ws == WordsAt(s, P) IN
         /\ \A k \in 1..Len(ws) : ws[k] # << >> /\ ws[k] \in Seq(Atom \ {"space"})
         /\ Alone(s) \subseteq P => Count(ws, <<"word">>) = Cardinality(Alone(s))
<1> DEFINE b == Ascending(P)
           n == Cardinality(P)
           ws == WordsAt(s, P)
           N == {k \in 1..n : ws[k] = <<"word">>}
<1>1. P \in SUBSET Int /\ IsFiniteSet(P)
  <2>1. P \in SUBSET (1..Len(s)) /\ Len(s) \in Int
    BY DEF Begins
  <2>2. IsFiniteSet(1..Len(s)) /\ P \in SUBSET Int
    BY <2>1, FS_Interval
  <2> QED BY <2>1, <2>2, FS_Subset
<1>2. /\ n \in Nat /\ b \in [1..n -> P]
      /\ \A x \in P : Place(x, P) \in 1..n /\ b[Place(x, P)] = x
      /\ \A i, j \in 1..n : i < j <=> b[i] < b[j]
  BY <1>1, AscendingOrder
<1> HIDE DEF b, n
<1>3. ws = [k \in 1..n |-> WordAt(s, b[k])]
  BY DEF WordsAt, b, n
<1> HIDE DEF ws
<1>4. Len(ws) = n /\ \A k \in 1..n : ws[k] = WordAt(s, b[k]) /\ b[k] \in P /\ b[k] \in Begins(s)
  BY <1>2, <1>3
<1>5. \A k \in 1..n : /\ ws[k] # << >> /\ ws[k] \in Seq(Atom \ {"space"})
                      /\ ws[k] = <<"word">> <=> b[k] \in Alone(s)
  BY <1>4, WordIs
<1>6. ASSUME Alone(s) \subseteq P PROVE Count(ws, <<"word">>) = Cardinality(Alone(s))
  <2>1. Count(ws, <<"word">>) = Cardinality(N)
    BY <1>4 DEF Count
  <2>2. IsFiniteSet(N)
    <3>1. N \in SUBSET (1..n) /\ IsFiniteSet(1..n)
      BY <1>2, FS_Interval
    <3> HIDE DEF N
    <3> QED BY <3>1, FS_Subset
  <2>3. IsFiniteSet(Alone(s))
    BY AloneFinite
  <2> DEFINE f == [k \in N |-> b[k]]
             g == [i \in Alone(s) |-> Place(i, P)]
  <2>4. f \in [N -> Alone(s)]
    BY <1>5
  <2>5. \A x, y \in N : f[x] = f[y] => x = y
    <3> SUFFICES ASSUME NEW x \in N, NEW y \in N, b[x] = b[y] PROVE x = y
      OBVIOUS
    <3>1. x \in 1..n /\ y \in 1..n /\ b[x] \in Int /\ b[y] \in Int
      BY <1>1, <1>4
    <3>2. ~(b[x] < b[y]) /\ ~(b[y] < b[x])
      BY <3>1
    <3>3. ~(x < y) /\ ~(y < x)
      BY <3>1, <3>2, <1>2
    <3> QED BY <3>1, <3>3, <1>2
  <2>6. g \in [Alone(s) -> N]
    <3> SUFFICES ASSUME NEW i \in Alone(s) PROVE Place(i, P) \in N
      OBVIOUS
    <3>1. Place(i, P) \in 1..n /\ b[Place(i, P)] = i
      BY <1>2, <1>6
    <3> QED BY <3>1, <1>5
  <2>7. \A x, y \in Alone(s) : g[x] = g[y] => x = y
    <3> SUFFICES ASSUME NEW x \in Alone(s), NEW y \in Alone(s), Place(x, P) = Place(y, P)
                 PROVE  x = y
      OBVIOUS
    <3>1. b[Place(x, P)] = x /\ b[Place(y, P)] = y
      BY <1>2, <1>6
    <3> QED BY <3>1
  <2> HIDE DEF f, g, N
  <2>8. /\ Cardinality(N) \in Nat /\ Cardinality(Alone(s)) \in Nat
        /\ Cardinality(N) <= Cardinality(Alone(s))
    BY <2>3, <2>4, <2>5, InjectedCount
  <2>9. Cardinality(Alone(s)) <= Cardinality(N)
    BY <2>2, <2>6, <2>7, InjectedCount
  <2>10. Cardinality(N) = Cardinality(Alone(s))
    BY <2>8, <2>9
  <2> QED BY <2>1, <2>10
<1> QED BY <1>4, <1>5, <1>6 DEF ws

LEMMA AloneBegins ==
  ASSUME NEW s \in Seq(Atom)
  PROVE  Alone(s) \subseteq Begins(s)
BY DEF Alone, Begins
LEMMA CountIs ==
  ASSUME NEW s \in Seq(Atom), NEW x
  PROVE  /\ Count(s, x) \in Nat /\ (Count(s, x) > 0 <=> Contains(s, x))
         /\ \A p \in 1..Len(s) :
              s[p] = x => (Count(s, x) > 1 <=> \E i \in (1..Len(s)) \ {p} : s[i] = x)
<1> DEFINE S == {i \in 1..Len(s) : s[i] = x}
<1>1. IsFiniteSet(S)
  <2>1. S \in SUBSET (1..Len(s)) /\ Len(s) \in Int
    OBVIOUS
  <2>2. IsFiniteSet(1..Len(s))
    BY <2>1, FS_Interval
  <2> HIDE DEF S
  <2> QED BY <2>1, <2>2, FS_Subset
<1>2. Count(s, x) = Cardinality(S)
  BY DEF Count
<1>3. Contains(s, x) <=> S # {}
  BY DEF Contains
<1>4. ASSUME NEW p \in 1..Len(s), s[p] = x
      PROVE  Count(s, x) > 1 <=> \E i \in (1..Len(s)) \ {p} : s[i] = x
  <2> DEFINE R == S \ {p}
  <2>1. p \in S
    BY <1>4
  <2>2. (\E i \in (1..Len(s)) \ {p} : s[i] = x) <=> R # {}
    OBVIOUS
  <2> HIDE DEF S
  <2>3. IsFiniteSet(R) /\ Cardinality(R) = Cardinality(S) - 1
    BY <1>1, <2>1, FS_RemoveElement
  <2> HIDE DEF R
  <2>4. Cardinality(R) \in Nat /\ Cardinality(S) \in Nat /\ (Cardinality(R) = 0 <=> R = {})
    BY <1>1, <2>3, FS_CardinalityType, FS_EmptySet
  <2>5. Cardinality(S) > 1 <=> R # {}
    BY <2>3, <2>4
  <2> QED BY <2>2, <2>5, <1>2
<1> HIDE DEF S
<1>5. Cardinality(S) \in Nat /\ (Cardinality(S) = 0 <=> S = {})
  BY <1>1, FS_CardinalityType, FS_EmptySet
<1>6. Count(s, x) \in Nat /\ (Count(s, x) > 0 <=> Contains(s, x))
  BY <1>2, <1>3, <1>5
<1> QED BY <1>4, <1>6

\* What is left of a query names a file type where the query did.
HasName(s) == \E i \in 1..Len(s) : s[i] = "ext" \/ (s[i] = "go" /\ Bounded(s, i))
NamesKept(s, r) ==
  /\ HasName(s) => HasName(r)
  /\ Contains(r, "ext") <=> Contains(s, "ext")
  /\ Contains(r, "go") <=> Contains(s, "go")

LEMMA HasNameIs == ASSUME NEW s PROVE HasName(s) <=> Named(s) # {}
BY DEF HasName, Named

LEMMA TrimNames ==
  ASSUME NEW s \in Seq(Atom), HasName(s)
  PROVE  HasName(Trim(s))
<1>1. PICK i \in 1..Len(s) : s[i] = "ext" \/ (s[i] = "go" /\ Bounded(s, i))
  BY DEF HasName
<1>2. PICK a, b \in 1..Len(s) :
        /\ a <= b /\ Trim(s) = SubSeq(s, a, b)
        /\ \A j \in 1..Len(s) : s[j] # "space" => j \in a..b
  BY <1>1, TrimIs
<1>3. Len(s) \in Nat /\ i \in a..b
  BY <1>1, <1>2
<1> DEFINE t == SubSeq(s, a, b)
           k == i - a + 1
<1>4. Len(t) = b - a + 1 /\ \A j \in 1..(b - a + 1) : t[j] = s[a + j - 1]
  <2>1. a \in 1..(Len(s) + 1) /\ b \in (a - 1)..Len(s)
    BY <1>2, <1>3
  <2> QED BY <2>1, SliceIs
<1> HIDE DEF t
<1>5. k \in 1..Len(t) /\ a + k - 1 = i
  BY <1>2, <1>3, <1>4
<1>6. t[k] = s[i]
  BY <1>4, <1>5
<1>7. ASSUME s[i] = "go", Bounded(s, i) PROVE Bounded(t, k)
  <2>1. CASE i = b
    BY <2>1, <1>2, <1>4 DEF Bounded
  <2>2. CASE i # b
    <3>1. k + 1 \in 1..Len(t) /\ a + (k + 1) - 1 = i + 1 /\ i # Len(s)
      BY <2>2, <1>2, <1>3, <1>4
    <3>2. t[k + 1] = s[i + 1]
      BY <3>1, <1>4
    <3> QED BY <3>1, <3>2, <1>7 DEF Bounded
  <2> QED BY <2>1, <2>2
<1>8. HasName(t)
  <2> HIDE DEF k
  <2> QED BY <1>1, <1>5, <1>6, <1>7 DEF HasName
<1> QED BY <1>2, <1>8 DEF t

LEMMA RemovedNames ==
  ASSUME NEW s \in Seq(Atom), NEW m, NEW B, NEW C, Match(s, m, B, C), HasName(s),
         "ext" \notin B \cup C, "go" \notin B \cup C, "space" \notin B, "quote" \notin B
  PROVE  HasName(Removed(s, m))
<1> DEFINE a == m[1]
           b == m[2]
           k == b - a + 1
           r == Removed(s, m)
<1>1. /\ Len(s) \in Nat /\ a \in 1..Len(s) /\ b \in a..Len(s) /\ s[a] \in B
      /\ \A j \in (a + 1)..b : s[j] \in C
  BY DEF Match
<1>2. /\ Len(r) = Len(s) - k /\ k \in 1..Len(s)
      /\ \A j \in 1..(a - 1) : r[j] = s[j]
      /\ \A j \in a..(Len(s) - k) : r[j] = s[j + k]
  BY <1>1, RemovedIs
<1>3. PICK i \in 1..Len(s) : s[i] = "ext" \/ (s[i] = "go" /\ Bounded(s, i))
  BY DEF HasName
<1> HIDE DEF a, b, r
<1>4. i < a \/ i > b
  <2>1. \A j \in a..b : j = a \/ j \in (a + 1)..b
    BY <1>1
  <2> QED BY <2>1, <1>1, <1>3
<1>5. CASE i < a
  <2>1. i \in 1..(a - 1) /\ i \in 1..Len(r) /\ i # Len(s)
    BY <1>1, <1>2, <1>3, <1>5
  <2>2. r[i] = s[i]
    BY <2>1, <1>2
  <2>3. ASSUME s[i] = "go", Bounded(s, i) PROVE Bounded(r, i)
    <3>1. s[i + 1] \in {"space", "quote"}
      BY <2>1, <2>3 DEF Bounded
    <3>2. i + 1 # a
      BY <3>1, <1>1
    <3>3. i + 1 \in 1..(a - 1)
      BY <3>2, <1>1, <2>1
    <3> QED BY <3>1, <3>3, <1>2 DEF Bounded
  <2>4. HasName(r)
    BY <2>1, <2>2, <2>3, <1>3 DEF HasName
  <2> QED BY <2>4 DEF r
<1>6. CASE i > b
  <2> DEFINE j == i - k
  <2>1. j \in a..(Len(s) - k) /\ j \in 1..Len(r) /\ j + k = i
    BY <1>1, <1>2, <1>3, <1>6
  <2>2. r[j] = s[i]
    BY <2>1, <1>2
  <2>3. ASSUME s[i] = "go", Bounded(s, i) PROVE Bounded(r, j)
    <3>1. CASE i = Len(s)
      BY <3>1, <1>1, <1>2 DEF Bounded
    <3>2. CASE i # Len(s)
      <4>1. s[i + 1] \in {"space", "quote"}
        BY <3>2, <2>3 DEF Bounded
      <4>2. j + 1 \in a..(Len(s) - k) /\ (j + 1) + k = i + 1
        BY <3>2, <1>1, <1>2, <1>3, <1>6
      <4>3. r[j + 1] = s[i + 1]
        BY <4>2, <1>2
      <4> QED BY <4>1, <4>3 DEF Bounded
    <3> QED BY <3>1, <3>2
  <2> HIDE DEF j
  <2>4. HasName(r)
    BY <2>1, <2>2, <2>3, <1>3 DEF HasName
  <2> QED BY <2>4 DEF r
<1> QED BY <1>4, <1>5, <1>6 DEF r

\* The filter of a month, when it is now month n, and the month is that of
\* match m in query s.
MonthFilter(s, m, n) ==
  [kind |-> "month", now |-> n, from |-> Meant(n, SaysThis(s, m)),
   until |-> Following(Meant(n, SaysThis(s, m)))]

\* Match m is cut from query s as the date, and d is the filter it gives.
DateCut(s, d, m) ==
  \/ /\ YearMatches(s) # {} /\ m = First(YearMatches(s))
     /\ d = {[kind |-> "year"]}
  \/ /\ YearMatches(s) = {} /\ RecentMatches(s) # {} /\ m = First(RecentMatches(s))
     /\ d = {[kind |-> "recent"]}
  \/ /\ YearMatches(s) = {} /\ RecentMatches(s) = {}
     /\ MonthMatches(s) # {} /\ m = First(MonthMatches(s))
     /\ \E n \in Months : d = {MonthFilter(s, m, n)}

\* Query s without its date is r, and r without its file type is t.
DateTaken(s, d, r) ==
  \/ YearMatches(s) \cup RecentMatches(s) \cup MonthMatches(s) = {} /\ d = {} /\ r = s
  \/ \E m : DateCut(s, d, m) /\ r = Cut(s, m)

NameTaken(r, b, t) ==
  \/ \E m \in Named(r) : b = TRUE /\ t = Trim(WithoutFile(Cut(r, m)))
  \/ Named(r) = {} /\ b = FALSE /\ t = r

(* The first match of each kind is a match.                                *)
LEMMA FirstMatches ==
  ASSUME NEW s \in Seq(Atom)
  PROVE  /\ YearMatches(s) # {} => First(YearMatches(s)) \in YearMatches(s)
         /\ RecentMatches(s) # {} => First(RecentMatches(s)) \in RecentMatches(s)
         /\ MonthMatches(s) # {} => First(MonthMatches(s)) \in MonthMatches(s)
<1>0. Len(s) \in Nat
  OBVIOUS
<1>1. \A m \in YearMatches(s) : m[1] \in Nat
  BY <1>0, YearMatchIs DEF Match
<1>2. \A m \in RecentMatches(s) : m[1] \in Nat
  BY <1>0, RecentMatchIs DEF Match
<1>3. \A m \in MonthMatches(s) : m[1] \in Nat
  BY <1>0, MonthMatchIs DEF Match
<1> QED BY <1>1, <1>2, <1>3, FirstFound

\* What is said of a query s and of what is left of it when a match with first
\* atom in B and others in C is cut out.
LEMMA CutOut ==
  ASSUME NEW s \in Seq(Atom), NEW m, NEW B, NEW C, Match(s, m, B, C),
         "space" \notin B, "quote" \notin B, "word" \notin B \cup C, "ext" \notin B \cup C,
         "go" \notin B \cup C, "recent" \notin C
  PROVE  LET r == Cut(s, m) IN
         /\ r \in Seq(Atom) /\ Len(r) <= Len(s)
         /\ NamesKept(s, r)
         /\ s[m[1]] # "recent" => (Contains(r, "recent") <=> Count(s, "recent") > 0)
         /\ s[m[1]] = "recent" => (Contains(r, "recent") <=> Count(s, "recent") > 1)
         /\ s[m[2]] # "space" \/ ~Joins(s, m) => Cardinality(Alone(s)) <= Cardinality(Alone(r))
<1> DEFINE r == Cut(s, m)
           out == (1..Len(s)) \ (m[1]..m[2])
<1>1. /\ r \in Seq(Atom) /\ Len(r) <= Len(s)
      /\ \A x \in Atom \ {"space"} : Contains(r, x) <=> \E i \in out : s[i] = x
      /\ s[m[2]] # "space" \/ ~Joins(s, m) => Cardinality(Alone(s)) <= Cardinality(Alone(r))
  BY CutKeeps
<1>2. /\ Contains(r, "ext") <=> \E i \in out : s[i] = "ext"
      /\ Contains(r, "go") <=> \E i \in out : s[i] = "go"
      /\ Contains(r, "recent") <=> \E i \in out : s[i] = "recent"
  <2>1. {"ext", "go", "recent"} \subseteq Atom \ {"space"}
    BY DEF Atom
  <2> QED BY <1>1, <2>1
<1>3. /\ m[1] \in 1..Len(s) /\ m[2] \in m[1]..Len(s) /\ s[m[1]] \in B
      /\ \A i \in (m[1] + 1)..m[2] : s[i] \in C
  BY DEF Match
<1>4. \A i \in m[1]..m[2] : i = m[1] \/ i \in (m[1] + 1)..m[2]
  BY <1>3
<1>5. \A i \in 1..Len(s) : s[i] = "ext" \/ s[i] = "go" => i \in out
  BY <1>3, <1>4
<1>6. \A i \in 1..Len(s) : s[i] = "recent" /\ i # m[1] => i \in out
  BY <1>3, <1>4
<1>7. m[1] \notin out /\ out \subseteq 1..Len(s)
  BY <1>3
<1>11. HasName(s) => HasName(r)
  <2>1. ASSUME HasName(s) PROVE HasName(Removed(s, m))
    BY <2>1, RemovedNames
  <2>2. Removed(s, m) \in Seq(Atom)
    BY <1>3, RemovedIs
  <2>3. r = Trim(Removed(s, m))
    BY DEF Cut, Removed
  <2> QED BY <2>1, <2>2, <2>3, TrimNames
<1> HIDE DEF r, out
<1>12. Contains(r, "ext") <=> Contains(s, "ext")
  BY <1>2, <1>5, <1>7 DEF Contains
<1>13. Contains(r, "go") <=> Contains(s, "go")
  BY <1>2, <1>5, <1>7 DEF Contains
<1>8. NamesKept(s, r)
  BY <1>11, <1>12, <1>13 DEF NamesKept
<1>9. ASSUME s[m[1]] # "recent" PROVE Contains(r, "recent") <=> Count(s, "recent") > 0
  <2>1. (\E i \in out : s[i] = "recent") <=> \E i \in 1..Len(s) : s[i] = "recent"
    BY <1>6, <1>7, <1>9
  <2> QED BY <2>1, <1>2, CountIs DEF Contains
<1>10. ASSUME s[m[1]] = "recent" PROVE Contains(r, "recent") <=> Count(s, "recent") > 1
  <2>1. (\E i \in out : s[i] = "recent")
        <=> \E i \in (1..Len(s)) \ {m[1]} : s[i] = "recent"
    BY <1>6, <1>7
  <2>2. Count(s, "recent") > 1 <=> \E i \in (1..Len(s)) \ {m[1]} : s[i] = "recent"
    BY <1>3, <1>10, CountIs
  <2> QED BY <2>1, <2>2, <1>2
<1> QED BY <1>1, <1>8, <1>9, <1>10 DEF r

(* The range of a month is that month: last month ends where this month    *)
(* begins, and this month contains the present.                            *)
LEMMA WholeMonths ==
  ASSUME NEW s, NEW m, NEW n \in Months
  PROVE  LET d == MonthFilter(s, m, n) IN
         /\ d.kind = "month" /\ d.from[2] \in 1..12
         /\ IF SaysThis(s, m) THEN d.from = <<0, d.now>> /\ d.until = Following(<<0, d.now>>)
            ELSE d.until = <<0, d.now>> /\ Following(d.from) = d.until
<1>1. n \in 1..12
  BY QueryAssumption
<1>2. CASE SaysThis(s, m)
  BY <1>1, <1>2 DEF MonthFilter, Meant
<1>3. CASE ~SaysThis(s, m) /\ n = 1
  BY <1>3 DEF MonthFilter, Meant, Following
<1>4. CASE ~SaysThis(s, m) /\ n # 1
  <2>1. Meant(n, SaysThis(s, m)) = <<0, n - 1>>
    BY <1>4 DEF Meant
  <2>2. n - 1 \in 1..12 /\ n - 1 # 12 /\ n - 1 + 1 = n
    BY <1>1, <1>4
  <2>3. Following(<<0, n - 1>>) = <<0, n>>
    BY <2>2 DEF Following
  <2> QED BY <2>1, <2>2, <2>3, <1>4 DEF MonthFilter
<1> QED BY <1>2, <1>3, <1>4
\* The only matches that join two words are those of a year.
YearGlued(s) == YearMatches(s) # {} /\ Joins(s, First(YearMatches(s)))

\* The date that was found in s is there, and what is left holds the rest.
DateIsTaken(s, d, r) ==
  /\ r \in Seq(Atom) /\ Len(r) <= Len(s)
  /\ d # {} <=> YearMatches(s) \cup RecentMatches(s) \cup MonthMatches(s) # {}
  /\ NamesKept(s, r)
  /\ Contains(r, "recent") <=>
       Count(s, "recent") > IF d = {[kind |-> "recent"]}
                               /\ s[First(RecentMatches(s))[1]] = "recent" THEN 1 ELSE 0
  /\ ~YearGlued(s) => Cardinality(Alone(s)) <= Cardinality(Alone(r))
  /\ \A x \in d : x.kind = "month" =>
       \E n \in Months : x = MonthFilter(s, First(MonthMatches(s)), n)

LEMMA DateIs ==
  ASSUME NEW s \in Seq(Atom), NEW d, NEW r, DateTaken(s, d, r)
  PROVE  DateIsTaken(s, d, r)
<1>0. Len(s) \in Nat
  OBVIOUS
<1>1. CASE YearMatches(s) \cup RecentMatches(s) \cup MonthMatches(s) = {} /\ d = {} /\ r = s
  <2>1. d # {[kind |-> "recent"]} /\ \A x \in d : FALSE
    BY <1>1
  <2>2. Contains(r, "recent") <=> Count(s, "recent") > 0
    BY <1>1, CountIs
  <2>3. Cardinality(Alone(s)) <= Cardinality(Alone(r))
    BY <1>1, AloneFinite
  <2>4. r \in Seq(Atom) /\ Len(r) <= Len(s)
    BY <1>0, <1>1
  <2>5. NamesKept(s, r)
    BY <1>1 DEF NamesKept
  <2>6. Contains(r, "recent") <=>
          Count(s, "recent") > IF d = {[kind |-> "recent"]}
                                  /\ s[First(RecentMatches(s))[1]] = "recent" THEN 1 ELSE 0
    BY <2>1, <2>2
  <2>7. d # {} <=> YearMatches(s) \cup RecentMatches(s) \cup MonthMatches(s) # {}
    BY <1>1
  <2> QED BY <2>1, <2>3, <2>4, <2>5, <2>6, <2>7 DEF DateIsTaken
<1>2. ASSUME NEW m, DateCut(s, d, m), r = Cut(s, m)
      PROVE  DateIsTaken(s, d, r)
  <2>1. CASE /\ YearMatches(s) # {} /\ m = First(YearMatches(s))
             /\ d = {[kind |-> "year"]}
    <3>1. m \in YearMatches(s)
      BY <2>1, FirstMatches
    <3> DEFINE B == {"year", "wide"}
               C == {"space", "made"}
    <3>2. Match(s, m, B, C)
      BY <3>1, YearMatchIs
    <3>3. /\ "space" \notin B /\ "word" \notin B \cup C /\ "ext" \notin B \cup C
          /\ "quote" \notin B /\ "go" \notin B \cup C
          /\ "recent" \notin C /\ s[m[1]] # "recent"
      BY <3>2 DEF Match
    <3> HIDE DEF B, C
    <3>4. /\ r \in Seq(Atom) /\ Len(r) <= Len(s)
          /\ NamesKept(s, r)
          /\ Contains(r, "recent") <=> Count(s, "recent") > 0
          /\ ~Joins(s, m) => Cardinality(Alone(s)) <= Cardinality(Alone(r))
      BY <1>2, <3>2, <3>3, CutOut
    <3>5. d # {[kind |-> "recent"]} /\ d # {} /\ \A x \in d : x.kind # "month"
      <4>1. [kind |-> "year"].kind = "year" /\ [kind |-> "recent"].kind = "recent"
        OBVIOUS
      <4> QED BY <2>1, <4>1
    <3>6. YearMatches(s) \cup RecentMatches(s) \cup MonthMatches(s) # {}
      BY <2>1
    <3>7. ~YearGlued(s) => ~Joins(s, m)
      BY <2>1 DEF YearGlued
    <3> QED BY <3>4, <3>5, <3>6, <3>7 DEF DateIsTaken
  <2>2. CASE /\ YearMatches(s) = {} /\ RecentMatches(s) # {} /\ m = First(RecentMatches(s))
             /\ d = {[kind |-> "recent"]}
    <3>1. m \in RecentMatches(s)
      BY <2>2, FirstMatches
    <3> DEFINE B == {"recent", "past"}
               C == {"space", "num", "widenum", "month", "day"}
    <3>2. Match(s, m, B, C) /\ s[m[2]] # "space"
      <4>1. Match(s, m, B, C) /\ s[m[2]] \in {"month", "day"}
        BY <3>1, RecentMatchIs
      <4> QED BY <4>1
    <3>3. /\ "space" \notin B /\ "word" \notin B \cup C /\ "ext" \notin B \cup C
          /\ "quote" \notin B /\ "go" \notin B \cup C
          /\ "recent" \notin C
      OBVIOUS
    <3> HIDE DEF B, C
    <3>4. /\ r \in Seq(Atom) /\ Len(r) <= Len(s)
          /\ NamesKept(s, r)
          /\ s[m[1]] # "recent" => (Contains(r, "recent") <=> Count(s, "recent") > 0)
          /\ s[m[1]] = "recent" => (Contains(r, "recent") <=> Count(s, "recent") > 1)
          /\ Cardinality(Alone(s)) <= Cardinality(Alone(r))
      BY <1>2, <3>2, <3>3, CutOut
    <3>5. d # {} /\ \A x \in d : x.kind # "month"
      <4>1. [kind |-> "recent"].kind = "recent"
        OBVIOUS
      <4> QED BY <2>2, <4>1
    <3>6. YearMatches(s) \cup RecentMatches(s) \cup MonthMatches(s) # {}
      BY <2>2
    <3>7. Contains(r, "recent") <=>
            Count(s, "recent") > IF d = {[kind |-> "recent"]}
                                    /\ s[First(RecentMatches(s))[1]] = "recent" THEN 1 ELSE 0
      <4>1. CASE s[m[1]] = "recent"
        BY <4>1, <2>2, <3>4
      <4>2. CASE s[m[1]] # "recent"
        BY <4>2, <2>2, <3>4
      <4> QED BY <4>1, <4>2
    <3> QED BY <3>4, <3>5, <3>6, <3>7 DEF DateIsTaken
  <2>3. ASSUME YearMatches(s) = {}, RecentMatches(s) = {}, MonthMatches(s) # {},
               m = First(MonthMatches(s)), NEW n \in Months, d = {MonthFilter(s, m, n)}
        PROVE  DateIsTaken(s, d, r)
    <3>1. m \in MonthMatches(s)
      BY <2>3, FirstMatches
    <3> DEFINE B == {"past", "this"}
               C == {"space", "month"}
    <3>2. Match(s, m, B, C) /\ s[m[2]] # "space"
      <4>1. Match(s, m, B, C) /\ s[m[2]] = "month"
        BY <3>1, MonthMatchIs
      <4> QED BY <4>1
    <3>3. /\ "space" \notin B /\ "word" \notin B \cup C /\ "ext" \notin B \cup C
          /\ "quote" \notin B /\ "go" \notin B \cup C
          /\ "recent" \notin C /\ s[m[1]] # "recent"
      BY <3>2 DEF Match
    <3> HIDE DEF B, C
    <3>4. /\ r \in Seq(Atom) /\ Len(r) <= Len(s)
          /\ NamesKept(s, r)
          /\ Contains(r, "recent") <=> Count(s, "recent") > 0
          /\ Cardinality(Alone(s)) <= Cardinality(Alone(r))
      BY <1>2, <3>2, <3>3, CutOut
    <3>5. d # {[kind |-> "recent"]} /\ d # {}
      <4>1. [kind |-> "recent"].kind = "recent" /\ MonthFilter(s, m, n).kind = "month"
        BY WholeMonths
      <4> QED BY <2>3, <4>1
    <3>6. YearMatches(s) \cup RecentMatches(s) \cup MonthMatches(s) # {}
      BY <2>3
    <3>7. \A x \in d : \E k \in Months : x = MonthFilter(s, First(MonthMatches(s)), k)
      BY <2>3
    <3> QED BY <3>4, <3>5, <3>6, <3>7 DEF DateIsTaken
  <2> QED BY <1>2, <2>1, <2>2, <2>3 DEF DateCut
<1> QED BY <1>1, <1>2 DEF DateTaken

(* Taking the name of a file type away keeps all but "file" and "code".    *)
LEMMA NameIs ==
  ASSUME NEW r \in Seq(Atom), NEW b, NEW t, NameTaken(r, b, t)
  PROVE  /\ t \in Seq(Atom) /\ Len(t) <= Len(r)
         /\ b \in BOOLEAN /\ (b <=> HasName(r))
         /\ Contains(t, "recent") <=> Contains(r, "recent")
         /\ Cardinality(Alone(r)) <= Cardinality(Alone(t))
<1>0. Len(r) \in Nat
  OBVIOUS
<1>1. Named(r) # {} <=> HasName(r)
  BY HasNameIs
<1>2. CASE Named(r) = {} /\ b = FALSE /\ t = r
  <2>1. b \in BOOLEAN /\ (b <=> HasName(r))
    BY <1>1, <1>2
  <2>2. Cardinality(Alone(r)) <= Cardinality(Alone(t)) /\ Len(t) <= Len(r)
    BY <1>0, <1>2, AloneFinite
  <2>3. t \in Seq(Atom) /\ (Contains(t, "recent") <=> Contains(r, "recent"))
    BY <1>2
  <2> QED BY <2>1, <2>2, <2>3
<1>3. ASSUME NEW m \in Named(r), b = TRUE, t = Trim(WithoutFile(Cut(r, m)))
      PROVE  /\ t \in Seq(Atom) /\ Len(t) <= Len(r)
             /\ b \in BOOLEAN /\ (b <=> HasName(r))
             /\ Contains(t, "recent") <=> Contains(r, "recent")
             /\ Cardinality(Alone(r)) <= Cardinality(Alone(t))
  <2> DEFINE B == {"ext", "go"}
             C == {}
             u == Cut(r, m)
             v == WithoutFile(u)
  <2>2. Match(r, m, B, C) /\ m[2] = m[1]
    BY NameMatchIs
  <2>3. r[m[1]] # "recent" /\ r[m[2]] # "space"
    BY <2>2 DEF Match
  <2>4. /\ m[1] \in 1..Len(r) /\ "word" \notin B \cup C /\ "space" \notin B
    BY <2>2 DEF Match
  <2> HIDE DEF B, C
  <2>5. /\ u \in Seq(Atom) /\ Len(u) <= Len(r)
        /\ \A x \in Atom \ {"space"} :
             Contains(u, x) <=> \E i \in (1..Len(r)) \ (m[1]..m[2]) : r[i] = x
        /\ Cardinality(Alone(r)) <= Cardinality(Alone(u))
    BY <2>2, <2>3, <2>4, CutKeeps
  <2>6. Contains(u, "recent") <=> Contains(r, "recent")
    <3>1. m[1]..m[2] = {m[1]}
      BY <2>2, <2>4
    <3>2. (\E i \in (1..Len(r)) \ (m[1]..m[2]) : r[i] = "recent")
          <=> \E i \in 1..Len(r) : r[i] = "recent"
      BY <3>1, <2>3
    <3>3. "recent" \in Atom \ {"space"}
      BY DEF Atom
    <3> QED BY <2>5, <3>2, <3>3 DEF Contains
  <2> HIDE DEF u
  <2>7. Keeps(u, v, {"space", "file", "code"})
    BY <2>5, FileKeeps
  <2> HIDE DEF v
  <2>8. Keeps(v, Trim(v), {"space"})
    BY <2>7, TrimKeeps DEF Keeps
  <2>9. t = Trim(v)
    BY <1>3 DEF u, v
  <2>10. t \in Seq(Atom) /\ Len(t) <= Len(v) /\ Len(v) <= Len(u) /\ v \in Seq(Atom)
    BY <2>7, <2>8, <2>9 DEF Keeps
  <2>11. Len(t) \in Nat /\ Len(v) \in Nat /\ Len(u) \in Nat
    BY <2>5, <2>10
  <2>12. Contains(t, "recent") <=> Contains(r, "recent")
    <3>1. "recent" \in Atom \ {"space"} /\ "recent" \in Atom \ {"space", "file", "code"}
      BY DEF Atom
    <3> QED BY <3>1, <2>6, <2>7, <2>8, <2>9 DEF Keeps
  <2>13. /\ Cardinality(Alone(r)) \in Nat /\ Cardinality(Alone(u)) \in Nat
         /\ Cardinality(Alone(v)) \in Nat /\ Cardinality(Alone(t)) \in Nat
    BY <2>5, <2>10, AloneFinite
  <2>14. /\ Cardinality(Alone(u)) <= Cardinality(Alone(v))
         /\ Cardinality(Alone(v)) <= Cardinality(Alone(t))
    BY <2>7, <2>8, <2>9 DEF Keeps
  <2>15. Cardinality(Alone(r)) <= Cardinality(Alone(t))
    BY <2>5, <2>13, <2>14
  <2>16. Len(t) <= Len(r)
    BY <2>5, <2>10, <2>11, <1>0
  <2> QED BY <1>1, <1>3, <2>10, <2>12, <2>15, <2>16
<1> QED BY <1>2, <1>3 DEF NameTaken
\* What each phase of parse_query has made of the query.
ParserInv ==
  /\ QueryTypeOK
  /\ qphase = "given" => dated = {} /\ typed = FALSE
  /\ qphase = "date" => rest = Asked /\ dated = {} /\ typed = FALSE
  /\ qphase = "extension" => DateTaken(Asked, dated, rest) /\ typed = FALSE
  /\ qphase \in {"words", "parsed"} =>
       \E r : DateTaken(Asked, dated, r) /\ NameTaken(r, typed, rest)
  /\ qphase = "parsed" =>
       /\ sort = SortOf(rest)
       /\ semantic = WordsAt(rest, {i \in Begins(rest) : WordAt(rest, i) \notin StopWord})

LEMMA UnquoteIs ==
  ASSUME NEW s \in Seq(Atom)
  PROVE  Unquote(s) \in Seq(Atom) /\ Len(Unquote(s)) <= Len(s)
<1>0. Len(s) \in Nat
  OBVIOUS
<1>1. CASE ~Quoted(s)
  BY <1>0, <1>1 DEF Unquote
<1>2. CASE Quoted(s) /\ Len(s) >= 2
  <2>1. 2 \in 1..(Len(s) + 1) /\ Len(s) - 1 \in (2 - 1)..Len(s)
    BY <1>0, <1>2
  <2>2. /\ SubSeq(s, 2, Len(s) - 1) \in Seq(Atom)
        /\ Len(SubSeq(s, 2, Len(s) - 1)) = Len(s) - 1 - 2 + 1
    BY <2>1, SliceIs
  <2>3. Unquote(s) = SubSeq(s, 2, Len(s) - 1)
    BY <1>2 DEF Unquote
  <2> QED BY <1>0, <2>2, <2>3
<1>3. CASE Quoted(s) /\ Len(s) < 2
  <2>1. s # << >>
    BY <1>3 DEF Quoted
  <2>0. Len(s) # 0
    BY <2>1
  <2>2. Len(s) = 1
    <3> DEFINE n == Len(s)
    <3>1. n \in Nat /\ n < 2 /\ n # 0
      BY <1>0, <1>3, <2>0
    <3> HIDE DEF n
    <3>2. n = 1
      BY <3>1
    <3> QED BY <3>2 DEF n
  <2>3. Unquote(s) = SubSeq(s, 2, 0)
    BY <1>3, <2>2 DEF Unquote
  <2>4. SubSeq(s, 2, 0) = << >>
    OBVIOUS
  <2> QED BY <2>2, <2>3, <2>4
<1> QED BY <1>0, <1>1, <1>2, <1>3

LEMMA AskedIs ==
  ASSUME input \in Seq(Typed)
  PROVE  Asked \in Seq(Atom) /\ Len(Asked) <= Len(input)
<1>1. input \in Seq(Atom)
  BY QueryAssumption
<1>2. Trim(input) \in Seq(Atom) /\ Len(Trim(input)) <= Len(input)
  BY <1>1, TrimKeeps DEF Keeps
<1>3. Asked \in Seq(Atom) /\ Len(Asked) <= Len(Trim(input))
  BY <1>2, UnquoteIs DEF Asked
<1>4. Len(Asked) \in Nat /\ Len(Trim(input)) \in Nat /\ Len(input) \in Nat
  BY <1>1, <1>2, <1>3
<1> QED BY <1>2, <1>3, <1>4

LEMMA ParserInvInit == QueryInit => ParserInv
<1> SUFFICES ASSUME QueryInit PROVE ParserInv
  OBVIOUS
<1>1. /\ input = << >> /\ qphase = "given" /\ rest = << >> /\ dated = {} /\ typed = FALSE
      /\ sort = "Relevance" /\ semantic = << >>
  BY DEF QueryInit
<1>2. Len(input) <= MaxAtoms /\ Len(rest) <= Len(input) /\ Len(semantic) = 0
  BY <1>1, QueryAssumption
<1>3. \A i \in 1..Len(semantic) : FALSE
  BY <1>2
<1>4. QueryTypeOK
  <2>1. input \in Seq(Typed) /\ rest \in Seq(Atom)
    BY <1>1
  <2>2. qphase \in QueryPhase /\ typed \in BOOLEAN /\ sort \in SortOrder
    BY <1>1 DEF QueryPhase, SortOrder
  <2> QED BY <1>2, <1>3, <2>1, <2>2 DEF QueryTypeOK
<1> QED BY <1>1, <1>4 DEF ParserInv

LEMMA TypeAtomKeeps == ParserInv /\ TypeAtom => ParserInv'
<1> SUFFICES ASSUME ParserInv, TypeAtom PROVE ParserInv'
  OBVIOUS
<1>1. /\ qphase = "given" /\ qphase' = "given" /\ rest' = rest /\ dated' = dated
      /\ typed' = typed /\ sort' = sort /\ semantic' = semantic
      /\ Len(input) < MaxAtoms /\ QueryTypeOK /\ dated = {} /\ typed = FALSE
  BY DEF ParserInv, TypeAtom
<1>2. PICK a \in Typed : input' = Append(input, a)
  BY DEF TypeAtom
<1>3. input \in Seq(Typed) /\ Len(input) \in Nat /\ rest \in Seq(Atom) /\ Len(rest) <= Len(input)
  BY <1>1 DEF QueryTypeOK
<1>4. input' \in Seq(Typed) /\ Len(input') = Len(input) + 1
  BY <1>2, <1>3
<1>5. Len(input') <= MaxAtoms /\ Len(rest) <= Len(input')
  <2>1. Len(rest) \in Nat
    BY <1>3
  <2> QED BY <2>1, <1>1, <1>3, <1>4, QueryAssumption
<1>6. QueryTypeOK'
  BY <1>1, <1>4, <1>5 DEF QueryTypeOK
<1> QED BY <1>1, <1>6 DEF ParserInv

LEMMA RemoveQuotesKeeps == ParserInv /\ RemoveQuotes => ParserInv'
<1> SUFFICES ASSUME ParserInv, RemoveQuotes PROVE ParserInv'
  OBVIOUS
<1>1. /\ qphase' \in {"panicked", "date"} /\ rest' = Asked
      /\ input' = input /\ dated' = dated /\ typed' = typed /\ sort' = sort
      /\ semantic' = semantic
      /\ QueryTypeOK /\ dated = {} /\ typed = FALSE
  BY DEF ParserInv, RemoveQuotes, Asked
<1>2. Asked \in Seq(Atom) /\ Len(Asked) <= Len(input)
  BY <1>1, AskedIs DEF QueryTypeOK
<1>3. QueryTypeOK'
  BY <1>1, <1>2 DEF QueryTypeOK, QueryPhase
<1>4. Asked' = Asked
  BY <1>1 DEF Asked
<1> QED BY <1>1, <1>3, <1>4 DEF ParserInv

LEMMA ExtractDateKeeps == ParserInv /\ ExtractDate => ParserInv'
<1> SUFFICES ASSUME ParserInv, ExtractDate PROVE ParserInv'
  OBVIOUS
<1> DEFINE s == Asked
<1>1. /\ rest = s /\ input' = input /\ dated = {} /\ typed = FALSE /\ typed' = typed
      /\ sort' = sort /\ semantic' = semantic /\ QueryTypeOK
  BY DEF ParserInv, ExtractDate
<1>2. s \in Seq(Atom) /\ Len(s) <= Len(input)
  BY <1>1, AskedIs DEF QueryTypeOK
<1>3. Asked' = s
  BY <1>1 DEF Asked
<1> HIDE DEF s
<1>4. ASSUME DateTaken(s, dated', rest'), qphase' = "extension"
      PROVE  ParserInv'
  <2>1. DateIsTaken(s, dated', rest')
    BY <1>2, <1>4, DateIs
  <2>2. rest' \in Seq(Atom) /\ Len(rest') <= Len(s)
    BY <2>1 DEF DateIsTaken
  <2>3. Len(rest') \in Nat /\ Len(s) \in Nat /\ Len(input) \in Nat
    BY <2>2, <1>1, <1>2 DEF QueryTypeOK
  <2>4. Len(rest') <= Len(input')
    BY <2>2, <2>3, <1>1, <1>2
  <2>5. QueryTypeOK'
    BY <1>1, <1>4, <2>2, <2>4 DEF QueryTypeOK, QueryPhase
  <2> QED BY <1>1, <1>3, <1>4, <2>5 DEF ParserInv
<1>9. CASE qphase' = "panicked" /\ UNCHANGED <<dated, rest>>
  <2>1. QueryTypeOK'
    BY <1>1, <1>9 DEF QueryTypeOK, QueryPhase
  <2> QED BY <1>9, <2>1 DEF ParserInv
<1>5. CASE /\ YearMatches(rest) # {}
           /\ LET m == First(YearMatches(rest)) IN
                /\ Parses(rest, m) /\ qphase' = "extension"
                /\ dated' = {[kind |-> "year"]} /\ rest' = Cut(rest, m)
  <2> DEFINE m == First(YearMatches(rest))
  <2>1. DateCut(s, dated', m) /\ rest' = Cut(s, m)
    BY <1>1, <1>5 DEF DateCut
  <2> QED BY <2>1, <1>5, <1>4 DEF DateTaken
<1>6. CASE /\ YearMatches(rest) = {} /\ RecentMatches(rest) # {}
           /\ LET m == First(RecentMatches(rest)) IN
                /\ Parses(rest, m) /\ qphase' = "extension"
                /\ dated' = {[kind |-> "recent"]} /\ rest' = Cut(rest, m)
  <2> DEFINE m == First(RecentMatches(rest))
  <2>1. DateCut(s, dated', m) /\ rest' = Cut(s, m)
    BY <1>1, <1>6 DEF DateCut
  <2> QED BY <2>1, <1>6, <1>4 DEF DateTaken
<1>7. CASE /\ YearMatches(rest) = {} /\ RecentMatches(rest) = {} /\ MonthMatches(rest) # {}
           /\ LET m == First(MonthMatches(rest)) IN
                /\ \E n \in Months :
                     LET month == Meant(n, SaysThis(rest, m))
                     IN  dated' = {[kind |-> "month", now |-> n, from |-> month,
                                    until |-> Following(month)]}
                /\ rest' = Cut(rest, m)
           /\ qphase' = "extension"
  <2> DEFINE m == First(MonthMatches(rest))
  <2>1. PICK n \in Months : dated' = {MonthFilter(rest, m, n)}
    BY <1>7 DEF MonthFilter
  <2>2. DateCut(s, dated', m) /\ rest' = Cut(s, m)
    BY <1>1, <1>7, <2>1 DEF DateCut
  <2> QED BY <2>2, <1>7, <1>4 DEF DateTaken
<1>8. CASE /\ YearMatches(rest) = {} /\ RecentMatches(rest) = {} /\ MonthMatches(rest) = {}
           /\ qphase' = "extension" /\ UNCHANGED <<dated, rest>>
  <2>1. DateTaken(s, dated', rest')
    BY <1>1, <1>8 DEF DateTaken
  <2> QED BY <2>1, <1>8, <1>4
<1> QED BY <1>5, <1>6, <1>7, <1>8, <1>9 DEF ExtractDate

LEMMA ExtractExtensionKeeps == ParserInv /\ ExtractExtension => ParserInv'
<1> SUFFICES ASSUME ParserInv, ExtractExtension PROVE ParserInv'
  OBVIOUS
<1> DEFINE s == Asked
<1>1. /\ qphase' = "words" /\ input' = input /\ dated' = dated /\ sort' = sort
      /\ semantic' = semantic /\ QueryTypeOK /\ DateTaken(s, dated, rest) /\ typed = FALSE
  BY DEF ParserInv, ExtractExtension
<1>2. NameTaken(rest, typed', rest')
  BY <1>1 DEF ExtractExtension, NameTaken
<1>3. Asked' = s
  BY <1>1 DEF Asked
<1>4. rest \in Seq(Atom) /\ Len(rest) <= Len(input) /\ Len(input) \in Nat /\ Len(rest) \in Nat
  BY <1>1 DEF QueryTypeOK
<1>5. rest' \in Seq(Atom) /\ Len(rest') <= Len(rest) /\ typed' \in BOOLEAN
  BY <1>2, <1>4, NameIs
<1>6. Len(rest') <= Len(input')
  <2>1. Len(rest') \in Nat
    BY <1>5
  <2> QED BY <2>1, <1>1, <1>4, <1>5
<1>7. QueryTypeOK'
  BY <1>1, <1>5, <1>6 DEF QueryTypeOK, QueryPhase
<1> HIDE DEF s
<1> QED BY <1>1, <1>2, <1>3, <1>7 DEF ParserInv

LEMMA FindWordsKeeps == ParserInv /\ FindWords => ParserInv'
<1> SUFFICES ASSUME ParserInv, FindWords PROVE ParserInv'
  OBVIOUS
<1> DEFINE s == Asked
           P == {i \in Begins(rest) : WordAt(rest, i) \notin StopWord}
<1>1. /\ qphase' = "parsed" /\ input' = input /\ dated' = dated /\ rest' = rest
      /\ typed' = typed /\ QueryTypeOK /\ sort' = SortOf(rest)
      /\ semantic' = WordsAt(rest, P)
  BY DEF ParserInv, FindWords
<1>2. PICK r : DateTaken(s, dated, r) /\ NameTaken(r, typed, rest)
  BY DEF ParserInv, FindWords
<1>3. Asked' = s
  BY <1>1 DEF Asked
<1>4. \A k \in 1..Len(semantic') :
        semantic'[k] # << >> /\ semantic'[k] \in Seq(Atom \ {"space"})
  <2>1. rest \in Seq(Atom) /\ P \in SUBSET Begins(rest)
    BY <1>1 DEF QueryTypeOK
  <2> HIDE DEF P
  <2> QED BY <2>1, <1>1, WordsAre
<1>5. sort' \in SortOrder
  BY <1>1 DEF SortOf, SortOrder
<1>6. QueryTypeOK'
  <2> HIDE DEF P
  <2> QED BY <1>1, <1>4, <1>5 DEF QueryTypeOK, QueryPhase
<1>7. semantic' = WordsAt(rest', {i \in Begins(rest') : WordAt(rest', i) \notin StopWord})
  BY <1>1
<1> HIDE DEF s, P
<1> QED BY <1>1, <1>2, <1>3, <1>6, <1>7 DEF ParserInv

LEMMA ParserInvStep == ParserInv /\ [QueryNext]_queryVars => ParserInv'
<1> SUFFICES ASSUME ParserInv, [QueryNext]_queryVars PROVE ParserInv'
  OBVIOUS
<1>1. CASE UNCHANGED queryVars
  <2>1. /\ input' = input /\ qphase' = qphase /\ rest' = rest /\ dated' = dated
        /\ typed' = typed /\ sort' = sort /\ semantic' = semantic
    BY <1>1 DEF queryVars
  <2>2. QueryTypeOK' /\ Asked' = Asked
    BY <2>1 DEF ParserInv, QueryTypeOK, Asked
  <2> QED BY <2>1, <2>2 DEF ParserInv
<1>2. CASE QueryNext
  BY <1>2, TypeAtomKeeps, RemoveQuotesKeeps, ExtractDateKeeps, ExtractExtensionKeeps,
     FindWordsKeeps DEF QueryNext, QueryStep
<1> QED BY <1>1, <1>2

(* In each phase the parser has cut the first date and the first file type *)
(* it found out of the query, and nothing else (parser.rs:20-66).          *)
THEOREM ParserInvariant == QuerySpec => []ParserInv
BY ParserInvInit, ParserInvStep, PTL DEF QuerySpec

(* A query leaves no part of it that is longer than itself, and no word    *)
(* that is empty or has a blank in it (parser.rs:41-66).                   *)
THEOREM QueryTyped == QuerySpec => []QueryTypeOK
<1>1. ParserInv => QueryTypeOK
  BY DEF ParserInv
<1> QED BY <1>1, ParserInvariant, PTL

LEMMA FiltersAsStated == ParserInv => FiltersFound
<1> SUFFICES ASSUME ParserInv, qphase = "parsed"
             PROVE  /\ Named(Asked) # {} => typed
                    /\ typed => Contains(Asked, "ext") \/ Contains(Asked, "go")
                    /\ (dated # {})
                       <=> YearMatches(Asked) \cup RecentMatches(Asked) \cup MonthMatches(Asked) # {}
                    /\ sort = "DateDesc" <=>
                         Count(Asked, "recent") > (IF dated = {[kind |-> "recent"]}
                                     /\ Asked[First(RecentMatches(Asked))[1]] = "recent"
                                   THEN 1 ELSE 0)
                    /\ \A d \in dated : d.kind = "month" => WholeMonth(d)
  BY DEF FiltersFound, Parsed
<1> DEFINE s == Asked
<1>1. s \in Seq(Atom)
  BY AskedIs DEF ParserInv, QueryTypeOK
<1>2. PICK r : DateTaken(s, dated, r) /\ NameTaken(r, typed, rest)
  BY DEF ParserInv
<1>3. DateIsTaken(s, dated, r)
  BY <1>1, <1>2, DateIs
<1>4. /\ r \in Seq(Atom)
      /\ dated # {} <=> YearMatches(s) \cup RecentMatches(s) \cup MonthMatches(s) # {}
      /\ NamesKept(s, r)
      /\ Contains(r, "recent") <=>
           Count(s, "recent") > IF dated = {[kind |-> "recent"]}
                                   /\ s[First(RecentMatches(s))[1]] = "recent" THEN 1 ELSE 0
      /\ \A x \in dated : x.kind = "month" =>
           \E n \in Months : x = MonthFilter(s, First(MonthMatches(s)), n)
  BY <1>3 DEF DateIsTaken
<1>5. /\ typed <=> HasName(r)
      /\ Contains(rest, "recent") <=> Contains(r, "recent")
  BY <1>2, <1>4, NameIs
<1>6. sort = "DateDesc" <=> Contains(rest, "recent")
  BY DEF ParserInv, SortOf
<1>7. ASSUME NEW d \in dated, d.kind = "month" PROVE WholeMonth(d)
  <2> DEFINE m == First(MonthMatches(s))
  <2>1. PICK n \in Months : d = MonthFilter(s, m, n)
    BY <1>4, <1>7
  <2> HIDE DEF m
  <2> QED BY <2>1, WholeMonths DEF WholeMonth, m
<1> HIDE DEF s
<1>8. /\ Named(s) # {} => typed
      /\ typed => Contains(s, "ext") \/ Contains(s, "go")
  <2>1. HasName(r) => Contains(r, "ext") \/ Contains(r, "go")
    BY DEF HasName, Contains
  <2>2. Named(s) # {} => HasName(s)
    BY HasNameIs
  <2> QED BY <1>4, <1>5, <2>1, <2>2 DEF NamesKept
<1>9. sort = "DateDesc" <=>
        Count(s, "recent") > IF dated = {[kind |-> "recent"]}
                                /\ s[First(RecentMatches(s))[1]] = "recent" THEN 1 ELSE 0
  BY <1>4, <1>5, <1>6
<1> QED BY <1>4, <1>7, <1>8, <1>9 DEF s

(* In a query of any length a date and a file type are both found, in any  *)
(* order, and so is a sort order that is not part of the date; the range   *)
(* of a month is one whole month, in January and December too              *)
(* (parser.rs:20-42, filter.rs:47-79).                                     *)
THEOREM FiltersOfAnyQuery == QuerySpec => []FiltersFound
BY ParserInvariant, FiltersAsStated, PTL

LEMMA WordsAsStated == ParserInv => PlainWordsKept
<1> SUFFICES ASSUME ParserInv, qphase = "parsed", ~YearJoins
             PROVE  Count(semantic, <<"word">>) >= Count(Words(Asked), <<"word">>)
  BY DEF PlainWordsKept, Parsed
<1> DEFINE s == Asked
           P == {i \in Begins(rest) : WordAt(rest, i) \notin StopWord}
<1>1. s \in Seq(Atom) /\ rest \in Seq(Atom)
  BY AskedIs DEF ParserInv, QueryTypeOK
<1>2. PICK r : DateTaken(s, dated, r) /\ NameTaken(r, typed, rest)
  BY DEF ParserInv
<1>3. ~YearGlued(s)
  BY DEF YearJoins, YearGlued, Joins
<1> HIDE DEF s
<1>4. r \in Seq(Atom) /\ Cardinality(Alone(s)) <= Cardinality(Alone(r))
  BY <1>1, <1>2, <1>3, DateIs DEF DateIsTaken
<1>5. Cardinality(Alone(r)) <= Cardinality(Alone(rest))
  BY <1>2, <1>4, NameIs
<1>6. Count(Words(s), <<"word">>) = Cardinality(Alone(s))
  <2>1. Begins(s) \in SUBSET Begins(s) /\ Alone(s) \subseteq Begins(s)
    BY <1>1, AloneBegins
  <2> QED BY <1>1, <2>1, WordsAre DEF Words
<1>7. Count(semantic, <<"word">>) = Cardinality(Alone(rest))
  <2>1. P \in SUBSET Begins(rest)
    OBVIOUS
  <2>2. Alone(rest) \subseteq P
    <3> SUFFICES ASSUME NEW i \in Alone(rest) PROVE i \in P
      OBVIOUS
    <3>1. i \in Begins(rest)
      BY <1>1, AloneBegins
    <3>2. WordAt(rest, i) = <<"word">>
      BY <1>1, <3>1, WordIs
    <3>3. <<"word">> \notin StopWord
      BY DEF StopWord
    <3> QED BY <3>1, <3>2, <3>3
  <2>3. semantic = WordsAt(rest, P)
    BY DEF ParserInv
  <2> HIDE DEF P
  <2> QED BY <1>1, <2>1, <2>2, <2>3, WordsAre
<1>8. /\ Cardinality(Alone(s)) \in Nat /\ Cardinality(Alone(r)) \in Nat
      /\ Cardinality(Alone(rest)) \in Nat
  BY <1>1, <1>4, AloneFinite
<1> QED BY <1>4, <1>5, <1>6, <1>7, <1>8 DEF s

(* No filter, sort order or stop word of a query of any length takes a     *)
(* plain word along, unless a year was glued to another word               *)
(* (parser.rs:20-66, filter.rs).                                           *)
THEOREM WordsOfAnyQuery == QuerySpec => []PlainWordsKept
BY ParserInvariant, WordsAsStated, PTL
-----------------------------------------------------------------------------
(* The parts together. A use of one of them is a behaviour of it, and      *)
(* leaves the others where they are.                                       *)

LEMMA EachPart == PartsSpec => ChunkingSpec /\ QuerySpec /\ Spec
<1>1. PartsInit => ChunkingInit /\ QueryInit /\ Init
  BY DEF PartsInit
<1>2. [PartsNext]_<<chunkVars, queryVars, vars>>
        => [ChunkingNext]_chunkVars /\ [QueryNext]_queryVars /\ [Next]_vars
  BY DEF PartsNext
<1> QED BY <1>1, <1>2, PTL DEF PartsSpec, ChunkingSpec, QuerySpec, Spec

(* Files, queries and caches of any size: every part stays within its      *)
(* types (traits.rs, parser.rs, cache.rs).                                 *)
THEOREM PartsTyped == PartsSpec => []PartsTypeOK
<1>1. ChunkingTypeOK /\ QueryTypeOK /\ TypeOK => PartsTypeOK
  BY DEF PartsTypeOK
<1> QED BY <1>1, EachPart, ChunkingTyped, QueryTyped, CachesTyped, PTL
=============================================================================
