---------------------------- MODULE WatcherProofs ----------------------------
(***************************************************************************)
(* Proofs about Watcher, for any paths, debounce time and capacities of    *)
(* the channels.                                                           *)
(***************************************************************************)
EXTENDS Watcher, TLAPS

\* An event that waits is the newest its thread has drained of its path, and
\* has waited since then.
NewestWaits ==
  \A s \in Session : \A x \in pending[s] :
    /\ x.ev.n = drained[s][x.ev.path].n
    /\ x.age = drained[s][x.ev.path].age

Inv == TypeOK /\ NewestWaits

\* A session that has not begun holds nothing.
LaterIdle ==
  \A s \in Session : s > sessions => raw[s] = << >> /\ pending[s] = {} /\ tpc[s] = "none"

\* An event that waits in the raw channel of the first session is newer than
\* those before it and than all its thread has drained.
RawOrdered ==
  \A s \in Session :
    /\ \A p \in WatchedPath : drained[s][p].n <= changes
    /\ \A i \in 1..Len(raw[s]) :
         /\ raw[s][i].n <= changes
         /\ \A p \in WatchedPath : drained[s][p].n < raw[s][i].n
         /\ \A j \in 1..Len(raw[s]) : i < j => raw[s][i].n < raw[s][j].n

\* What is under way to the consumer is newer than what it has seen.
SentOrdered ==
  /\ \A i \in 1..Len(batches) : \A e \in batches[i] :
       /\ seen[e.path] < e.n
       /\ \A s \in Session : s = 1 => e.n <= drained[s][e.path].n
       /\ \A s \in Session : \A x \in pending[s] : x.ev.path = e.path => e.n < x.ev.n
       /\ \A j \in 1..Len(batches) : \A f \in batches[j] :
            f.path = e.path => (i < j => e.n < f.n) /\ (i = j => e = f)
  /\ \A s \in Session : \A x \in pending[s] : seen[x.ev.path] < x.ev.n
  /\ \A p \in WatchedPath : \A s \in Session : s = 1 => seen[p] <= drained[s][p].n

InOrder == LaterIdle /\ RawOrdered /\ (sessions <= 1 => SentOrdered)

-----------------------------------------------------------------------------
LEMMA PendingFacts ==
  ASSUME NEW P \in SUBSET Pending
  PROVE  /\ \A x \in P : /\ x.ev \in FsEvent /\ x.age \in 0..Debounce
                         /\ x.ev.path \in WatchedPath /\ x.ev.n \in 1..MaxEvents
                         /\ x = [ev |-> x.ev, age |-> x.age]
         /\ {x.ev : x \in P} \subseteq FsEvent
         /\ Ready(P) \subseteq P /\ {x.ev : x \in Ready(P)} \subseteq FsEvent
BY DebounceAssumption DEF Pending, FsEvent, Ready

\* One more tick of waiting.
Waited(age) == IF age < Debounce THEN age + 1 ELSE age

LEMMA OlderFacts ==
  ASSUME NEW P \in SUBSET Pending
  PROVE  /\ Older(P) \in SUBSET Pending
         /\ \A y \in Older(P) : \E x \in P : y.ev = x.ev /\ y.age = Waited(x.age)
<1>1. \A x \in P : [x EXCEPT !.age = IF @ < Debounce THEN @ + 1 ELSE @]
                     = [ev |-> x.ev, age |-> Waited(x.age)]
  BY DEF Pending, Waited
<1>2. \A x \in P : [ev |-> x.ev, age |-> Waited(x.age)] \in Pending
  BY PendingFacts, DebounceAssumption DEF Pending, Waited
<1>3. \A y \in Older(P) : \E x \in P : y = [ev |-> x.ev, age |-> Waited(x.age)]
  BY <1>1 DEF Older
<1> QED BY <1>2, <1>3

LEMMA InsertFacts ==
  ASSUME NEW P \in SUBSET Pending, NEW e \in FsEvent
  PROVE  /\ Insert(P, e) \in SUBSET Pending /\ AddEvent(P, e) \in SUBSET Pending
         /\ HandedOut(P, e) \in SUBSET Pending
         /\ \A x \in Insert(P, e) : \/ x \in P /\ x.ev.path # e.path
                                    \/ x.ev = e /\ x.age = 0
         /\ \A x, y \in Insert(P, e) :
              /\ \A v, w \in P : v.ev.path = w.ev.path => v = w
              /\ x.ev.path = y.ev.path
              => x = y
         /\ AddEvent(P, e) \subseteq Insert(P, e) /\ HandedOut(P, e) \subseteq Insert(P, e)
<1>1. [ev |-> e, age |-> 0] \in Pending
  BY DebounceAssumption DEF Pending
<1>2. Insert(P, e) \in SUBSET Pending
  BY <1>1 DEF Insert
<1>3. \A x \in Insert(P, e) : \/ x \in P /\ x.ev.path # e.path
                              \/ x = [ev |-> e, age |-> 0]
  BY DEF Insert
<1>4. AddEvent(P, e) \subseteq Insert(P, e) /\ HandedOut(P, e) \subseteq Insert(P, e)
  BY DEF AddEvent, HandedOut, Ready
<1> QED BY <1>2, <1>3, <1>4

LEMMA ConvertedFacts ==
  ASSUME NEW n \in 1..MaxEvents, NEW p \in WatchedPath, NEW q \in WatchedPath,
         NEW kind \in {"created", "modified", "deleted", "rename both", "rename half"}
  PROVE  Converted(n, kind, p, q) \in FsEvent /\ Converted(n, kind, p, q).n = n
BY DEF Converted, FsEvent

LEMMA InitInv == Init => Inv
<1> SUFFICES ASSUME Init PROVE Inv
  OBVIOUS
<1>1. /\ raw \in [Session -> Seq(FsEvent)] /\ \A s \in Session : Len(raw[s]) <= RawCap
      /\ batches \in Seq((SUBSET FsEvent) \ {{}}) /\ Len(batches) <= BatchCap
  BY WatcherAssumption DEF Init
<1>2. /\ pending \in [Session -> SUBSET Pending] /\ \A s \in Session : pending[s] = {}
      /\ tpc \in [Session -> ThreadStep]
  BY DEF Init, ThreadStep
<1>3. /\ drained \in [Session -> [WatchedPath -> [n : 0..MaxEvents, age : 0..Debounce]]]
      /\ seen \in [WatchedPath -> 0..MaxEvents] /\ unread \in [WatchedPath -> 0..MaxEvents]
  BY DebounceAssumption DEF Init
<1>4. sessions \in 0..MaxWatch /\ active \in 0..sessions /\ changes \in 0..MaxEvents
  BY WatcherAssumption, DebounceAssumption DEF Init
<1>5. running \in BOOLEAN /\ overflow \in BOOLEAN
  BY DEF Init
<1> QED BY <1>1, <1>2, <1>3, <1>4, <1>5 DEF Inv, TypeOK, NewestWaits

\* try_send keeps the batches well formed.
LEMMA SendFacts ==
  ASSUME TypeOK, NEW evs \in SUBSET FsEvent, TrySend(evs)
  PROVE  /\ batches' \in Seq((SUBSET FsEvent) \ {{}}) /\ Len(batches') <= BatchCap
         /\ overflow' \in BOOLEAN
         /\ \/ batches' = batches
            \/ batches' = Append(batches, evs) /\ evs # {}
<1>1. overflow' \in BOOLEAN
  BY DEF TrySend, TypeOK
<1>2. \/ batches' = batches
      \/ batches' = Append(batches, evs) /\ evs # {} /\ Len(batches) # BatchCap
  BY DEF TrySend
<1>3. CASE batches' = batches
  BY <1>1, <1>3 DEF TypeOK
<1>4. CASE batches' = Append(batches, evs) /\ evs # {} /\ Len(batches) # BatchCap
  BY <1>1, <1>4, WatcherAssumption DEF TypeOK
<1> QED BY <1>2, <1>3, <1>4

LEMMA WatchInv == Inv /\ Watch => Inv'
<1> SUFFICES ASSUME Inv, Watch PROVE Inv'
  OBVIOUS
<1>1. /\ sessions' \in 0..MaxWatch /\ active' \in 0..sessions'
  BY WatcherAssumption DEF Inv, TypeOK, Watch
<1>2. running' \in BOOLEAN
  BY DEF Watch
<1>3. tpc' \in [Session -> ThreadStep]
  BY DEF Inv, TypeOK, Watch, ThreadStep
<1>4. UNCHANGED <<raw, pending, batches, changes, drained, seen, overflow, unread>>
  BY DEF Watch
<1> QED BY <1>1, <1>2, <1>3, <1>4 DEF Inv, TypeOK, NewestWaits

LEMMA StopInv == Inv /\ Stop => Inv'
<1> SUFFICES ASSUME Inv, Stop PROVE Inv'
  OBVIOUS
<1>1. running' \in BOOLEAN
  BY DEF Stop
<1>2. UNCHANGED <<sessions, raw, pending, tpc, batches, changes, drained, seen, overflow, unread>>
  BY DEF Stop
<1>3. active' \in 0..sessions
  BY WatcherAssumption DEF Inv, TypeOK, Stop
<1> QED BY <1>1, <1>2, <1>3 DEF Inv, TypeOK, NewestWaits

LEMMA ChangeInv == Inv /\ Change => Inv'
<1> SUFFICES ASSUME Inv, Change PROVE Inv'
  OBVIOUS
<1>1. UNCHANGED <<running, active, sessions, pending, tpc, batches, drained, seen, unread>>
  BY DEF Change
<1>2. changes' \in 0..MaxEvents /\ changes + 1 \in 1..MaxEvents
  <2>1. changes \in 0..MaxEvents /\ changes < MaxEvents /\ changes' = changes + 1
    BY DEF Inv, TypeOK, Change
  <2> QED BY <2>1, DebounceAssumption
<1>3. PICK e \in FsEvent, lost \in BOOLEAN :
        /\ lost \/ Len(raw[active]) # RawCap
        /\ raw' = IF lost THEN raw ELSE [raw EXCEPT ![active] = Append(@, e)]
        /\ overflow' = (overflow \/ lost)
  <2>1. PICK kind \in {"created", "modified", "deleted", "rename both", "rename half"},
             p, q \in WatchedPath :
          LET lost == Len(raw[active]) = RawCap \/ tpc[active] = "none"
              e == Converted(changes + 1, kind, p, q)
          IN  /\ raw' = IF lost THEN raw ELSE [raw EXCEPT ![active] = Append(@, e)]
              /\ overflow' = (overflow \/ lost)
    BY DEF Change
  <2>2. Converted(changes + 1, kind, p, q) \in FsEvent
    BY <1>2, ConvertedFacts
  <2> QED BY <2>1, <2>2
<1>4. overflow' \in BOOLEAN
  BY <1>3 DEF Inv, TypeOK
<1>5. raw' \in [Session -> Seq(FsEvent)] /\ \A s \in Session : Len(raw'[s]) <= RawCap
  <2>1. active \in Session
    <3>1. active # 0 /\ sessions \in 0..MaxWatch /\ active \in 0..sessions
      BY DEF Change, Inv, TypeOK
    <3> QED BY <3>1, WatcherAssumption DEF Session
  <2>2. raw[active] \in Seq(FsEvent) /\ Len(raw[active]) <= RawCap
    BY <2>1 DEF Inv, TypeOK
  <2>3. ~lost => /\ Append(raw[active], e) \in Seq(FsEvent)
                 /\ Len(Append(raw[active], e)) <= RawCap
    BY <2>2, <1>3, WatcherAssumption
  <2> QED BY <2>1, <2>3, <1>3 DEF Inv, TypeOK
<1> QED BY <1>1, <1>2, <1>4, <1>5 DEF Inv, TypeOK, NewestWaits

LEMMA TickInv == Inv /\ Tick => Inv'
<1> SUFFICES ASSUME Inv, Tick PROVE Inv'
  OBVIOUS
<1>1. /\ UNCHANGED <<running, active, sessions, raw, tpc, batches, changes, seen, overflow, unread>>
      /\ pending' = [s \in Session |-> Older(pending[s])]
      /\ drained' = [s \in Session |-> [p \in WatchedPath |->
                       [drained[s][p] EXCEPT !.age = IF @ < Debounce THEN @ + 1 ELSE @]]]
  BY DEF Tick
<1>2. pending' \in [Session -> SUBSET Pending]
  BY <1>1, OlderFacts DEF Inv, TypeOK
<1>3. \A s \in Session : \A p \in WatchedPath :
        /\ drained'[s][p] = [n |-> drained[s][p].n, age |-> Waited(drained[s][p].age)]
        /\ Waited(drained[s][p].age) \in 0..Debounce
  <2> SUFFICES ASSUME NEW s \in Session, NEW p \in WatchedPath
               PROVE  /\ drained'[s][p] = [n |-> drained[s][p].n, age |-> Waited(drained[s][p].age)]
                      /\ Waited(drained[s][p].age) \in 0..Debounce
    OBVIOUS
  <2>1. drained[s][p] \in [n : 0..MaxEvents, age : 0..Debounce]
    BY DEF Inv, TypeOK
  <2>2. drained'[s][p] = [drained[s][p] EXCEPT !.age = IF @ < Debounce THEN @ + 1 ELSE @]
    BY <1>1
  <2> QED BY <2>1, <2>2, DebounceAssumption DEF Waited
<1>4. drained' \in [Session -> [WatchedPath -> [n : 0..MaxEvents, age : 0..Debounce]]]
  <2>1. \A s \in Session : \A p \in WatchedPath : drained[s][p].n \in 0..MaxEvents
    BY DEF Inv, TypeOK
  <2>2. \A s \in Session : \A p \in WatchedPath :
          drained'[s][p] \in [n : 0..MaxEvents, age : 0..Debounce]
    <3> SUFFICES ASSUME NEW s \in Session, NEW p \in WatchedPath
                 PROVE  drained'[s][p] \in [n : 0..MaxEvents, age : 0..Debounce]
      OBVIOUS
    <3>1. drained'[s][p] = [n |-> drained[s][p].n, age |-> Waited(drained[s][p].age)]
      BY <1>3
    <3>2. drained[s][p].n \in 0..MaxEvents /\ Waited(drained[s][p].age) \in 0..Debounce
      BY <2>1, <1>3
    <3> QED BY <3>1, <3>2
  <2>3. \A s \in Session : drained'[s] \in [WatchedPath -> [n : 0..MaxEvents, age : 0..Debounce]]
    BY <1>1, <2>2
  <2> QED BY <1>1, <2>3
<1>5. \A s \in Session : \A x, y \in pending'[s] : x.ev.path = y.ev.path => x = y
  <2> SUFFICES ASSUME NEW s \in Session, NEW x \in pending'[s], NEW y \in pending'[s],
                      x.ev.path = y.ev.path
               PROVE  x = y
    OBVIOUS
  <2>1. pending[s] \in SUBSET Pending /\ pending'[s] = Older(pending[s])
    BY <1>1 DEF Inv, TypeOK
  <2>2. PICK v \in pending[s], w \in pending[s] :
          /\ x.ev = v.ev /\ x.age = Waited(v.age)
          /\ y.ev = w.ev /\ y.age = Waited(w.age)
    BY <2>1, OlderFacts
  <2>3. v = w
    BY <2>2 DEF Inv, TypeOK
  <2>4. x = [ev |-> x.ev, age |-> x.age] /\ y = [ev |-> y.ev, age |-> y.age]
    BY <1>2, PendingFacts
  <2> QED BY <2>2, <2>3, <2>4
<1>6. NewestWaits'
  <2> SUFFICES ASSUME NEW s \in Session, NEW x \in pending'[s]
               PROVE  /\ x.ev.n = drained'[s][x.ev.path].n
                      /\ x.age = drained'[s][x.ev.path].age
    BY DEF NewestWaits
  <2>1. pending[s] \in SUBSET Pending /\ pending'[s] = Older(pending[s])
    BY <1>1 DEF Inv, TypeOK
  <2>2. PICK v \in pending[s] : x.ev = v.ev /\ x.age = Waited(v.age)
    BY <2>1, OlderFacts
  <2>3. /\ v.ev.path \in WatchedPath
        /\ v.ev.n = drained[s][v.ev.path].n /\ v.age = drained[s][v.ev.path].age
    BY <2>1, PendingFacts DEF Inv, NewestWaits
  <2>4. drained'[s][v.ev.path] = [n |-> drained[s][v.ev.path].n,
                                  age |-> Waited(drained[s][v.ev.path].age)]
    BY <2>3, <1>3
  <2> QED BY <2>2, <2>3, <2>4
<1> QED BY <1>1, <1>2, <1>4, <1>5, <1>6 DEF Inv, TypeOK

LEMMA ReceiveInv == Inv /\ Receive => Inv'
<1> SUFFICES ASSUME Inv, Receive PROVE Inv'
  OBVIOUS
<1>1. UNCHANGED <<running, active, sessions, raw, pending, tpc, changes, drained, overflow, unread>>
  BY DEF Receive
<1>2. batches' \in Seq((SUBSET FsEvent) \ {{}}) /\ Len(batches') <= BatchCap
  BY WatcherAssumption DEF Receive, Inv, TypeOK
<1>3. Head(batches) \subseteq FsEvent
  BY DEF Receive, Inv, TypeOK
<1>4. \A p \in WatchedPath : (\E e \in Head(batches) : e.path = p) =>
        (CHOOSE e \in Head(batches) : e.path = p).n \in 0..MaxEvents
  BY <1>3, DebounceAssumption DEF FsEvent
<1>5. seen' \in [WatchedPath -> 0..MaxEvents]
  BY <1>4 DEF Receive, Inv, TypeOK
<1> QED BY <1>1, <1>2, <1>5 DEF Inv, TypeOK, NewestWaits

\* A step that only moves its thread on.
LEMMA MoveInv ==
  ASSUME Inv, NEW s \in Session, NEW step \in ThreadStep,
         tpc' = [tpc EXCEPT ![s] = step],
         UNCHANGED <<running, active, sessions, raw, pending, batches, changes,
                     drained, seen, overflow, unread>>
  PROVE  Inv'
BY DEF Inv, TypeOK, NewestWaits

LEMMA DrainOneInv ==
  ASSUME Inv, NEW s \in Session, DrainOne(s)
  PROVE  Inv'
<1> DEFINE e == Head(raw[s])
<1>0. \/ UNCHANGED <<pending, drained, unread>>
      \/ /\ pending' = [pending EXCEPT ![s] = AddEvent(@, e)]
         /\ drained' = [drained EXCEPT ![s][e.path] = [n |-> e.n, age |-> 0]]
         /\ unread' = [p \in WatchedPath |->
              IF \E x \in HandedOut(pending[s], e) : x.ev.path = p
              THEN (CHOOSE x \in HandedOut(pending[s], e) : x.ev.path = p).ev.n
              ELSE unread[p]]
  BY Zenon DEF DrainOne
<1>1. UNCHANGED <<running, active, sessions, tpc, batches, changes, seen, overflow>>
  BY DEF DrainOne
<1>2. raw[s] \in Seq(FsEvent) /\ raw[s] # << >> /\ e \in FsEvent
  BY DEF DrainOne, Inv, TypeOK
<1>3. raw' \in [Session -> Seq(FsEvent)] /\ \A t \in Session : Len(raw'[t]) <= RawCap
  BY <1>2, WatcherAssumption DEF DrainOne, Inv, TypeOK
<1> HIDE DEF e
<1>4. CASE UNCHANGED <<pending, drained, unread>>
  BY <1>1, <1>3, <1>4 DEF Inv, TypeOK, NewestWaits
<1>5. CASE /\ pending' = [pending EXCEPT ![s] = AddEvent(@, e)]
           /\ drained' = [drained EXCEPT ![s][e.path] = [n |-> e.n, age |-> 0]]
           /\ unread' = [p \in WatchedPath |->
                IF \E x \in HandedOut(pending[s], e) : x.ev.path = p
                THEN (CHOOSE x \in HandedOut(pending[s], e) : x.ev.path = p).ev.n
                ELSE unread[p]]
  <2>1. pending[s] \in SUBSET Pending /\ e.path \in WatchedPath /\ e.n \in 1..MaxEvents
    BY <1>2 DEF Inv, TypeOK, FsEvent
  <2>2. pending'[s] = AddEvent(pending[s], e) /\ pending' \in [Session -> SUBSET Pending]
    <3>1. pending \in [Session -> SUBSET Pending]
      BY DEF Inv, TypeOK
    <3>2. AddEvent(pending[s], e) \in SUBSET Pending
      BY <1>2, <2>1, InsertFacts
    <3> QED BY <1>5, <3>1, <3>2
  <2>3. drained' \in [Session -> [WatchedPath -> [n : 0..MaxEvents, age : 0..Debounce]]]
    BY <1>5, <2>1, DebounceAssumption DEF Inv, TypeOK
  <2>4. unread' \in [WatchedPath -> 0..MaxEvents]
    <3>1. \A p \in WatchedPath : (\E x \in HandedOut(pending[s], e) : x.ev.path = p) =>
            (CHOOSE x \in HandedOut(pending[s], e) : x.ev.path = p).ev.n \in 1..MaxEvents
      BY <2>1, <1>2, InsertFacts, PendingFacts
    <3>2. \A p \in WatchedPath : unread[p] \in 0..MaxEvents
      BY DEF Inv, TypeOK
    <3> DEFINE Out == HandedOut(pending[s], e)
    <3> DEFINE number(p) == (CHOOSE x \in Out : x.ev.path = p).ev.n
    <3>3. \A p \in WatchedPath : (\E x \in Out : x.ev.path = p) => number(p) \in 1..MaxEvents
      BY <3>1
    <3>4. unread' = [p \in WatchedPath |->
                       IF \E x \in Out : x.ev.path = p THEN number(p) ELSE unread[p]]
      BY <1>5
    <3> HIDE DEF Out, number
    <3> QED BY <3>2, <3>3, <3>4, DebounceAssumption
  <2>5. \A x, y \in pending'[s] : x.ev.path = y.ev.path => x = y
    <3>1. \A v, w \in pending[s] : v.ev.path = w.ev.path => v = w
      BY DEF Inv, TypeOK
    <3>2. pending'[s] \subseteq Insert(pending[s], e)
      BY <2>2 DEF AddEvent
    <3>3. \A x, y \in Insert(pending[s], e) :
            /\ \A v, w \in pending[s] : v.ev.path = w.ev.path => v = w
            /\ x.ev.path = y.ev.path
            => x = y
      BY <2>1, <1>2, InsertFacts
    <3> QED BY <3>1, <3>2, <3>3
  <2>6. \A t \in Session : \A x, y \in pending'[t] : x.ev.path = y.ev.path => x = y
    BY <2>5, <1>5 DEF Inv, TypeOK
  <2>7. \A x \in pending'[s] : /\ x.ev.n = drained'[s][x.ev.path].n
                               /\ x.age = drained'[s][x.ev.path].age
    <3> SUFFICES ASSUME NEW x \in pending'[s]
                 PROVE  /\ x.ev.n = drained'[s][x.ev.path].n
                        /\ x.age = drained'[s][x.ev.path].age
      OBVIOUS
    <3>1. \/ x \in pending[s] /\ x.ev.path # e.path
          \/ x.ev = e /\ x.age = 0
      <4>1. x \in Insert(pending[s], e)
        BY <2>2 DEF AddEvent
      <4> QED BY <4>1, <2>1, <1>2, InsertFacts
    <3>2. drained'[s] = [drained[s] EXCEPT ![e.path] = [n |-> e.n, age |-> 0]]
      BY <1>5 DEF Inv, TypeOK
    <3>3. drained[s] \in [WatchedPath -> [n : 0..MaxEvents, age : 0..Debounce]]
      BY DEF Inv, TypeOK
    <3>4. CASE x \in pending[s] /\ x.ev.path # e.path
      BY <3>2, <3>3, <3>4, <2>1, PendingFacts DEF Inv, NewestWaits
    <3>5. CASE x.ev = e /\ x.age = 0
      BY <3>2, <3>3, <3>5, <2>1
    <3> QED BY <3>1, <3>4, <3>5
  <2>8. \A t \in Session : t # s => pending'[t] = pending[t] /\ drained'[t] = drained[t]
    BY <1>5 DEF Inv, TypeOK
  <2>9. NewestWaits'
    BY <2>7, <2>8 DEF Inv, NewestWaits
  <2> QED BY <1>1, <1>3, <2>2, <2>3, <2>4, <2>6, <2>9 DEF Inv, TypeOK
<1> QED BY <1>4, <1>5, <1>0

\* A thread sends some of its events and keeps some of the others.
LEMMA SendInv ==
  ASSUME Inv, NEW s \in Session, NEW step \in ThreadStep,
         NEW Out \in SUBSET pending[s], NEW Kept \in SUBSET pending[s],
         TrySend({x.ev : x \in Out}),
         pending' = [pending EXCEPT ![s] = Kept],
         tpc' = [tpc EXCEPT ![s] = step],
         UNCHANGED <<running, active, sessions, raw, changes, drained, seen, unread>>
  PROVE  Inv'
<1>1. pending[s] \in SUBSET Pending
  BY DEF Inv, TypeOK
<1>2. {x.ev : x \in Out} \in SUBSET FsEvent
  BY <1>1, PendingFacts
<1>3. /\ batches' \in Seq((SUBSET FsEvent) \ {{}}) /\ Len(batches') <= BatchCap
      /\ overflow' \in BOOLEAN
  BY <1>2, SendFacts DEF Inv
<1>4. \A t \in Session : pending'[t] \subseteq pending[t]
  BY DEF Inv, TypeOK
<1>5. pending' \in [Session -> SUBSET Pending] /\ tpc' \in [Session -> ThreadStep]
  BY <1>1 DEF Inv, TypeOK
<1>6. NewestWaits'
  BY <1>4 DEF Inv, NewestWaits
<1>7. \A t \in Session : \A x, y \in pending'[t] : x.ev.path = y.ev.path => x = y
  BY <1>4 DEF Inv, TypeOK
<1> QED BY <1>3, <1>5, <1>6, <1>7 DEF Inv, TypeOK

LEMMA ThreadInv ==
  ASSUME Inv, NEW s \in Session, Thread(s)
  PROVE  Inv'
<1>1. CASE Check(s)
  <2>1. PICK step \in {"drain", "final"} : tpc' = [tpc EXCEPT ![s] = step]
    BY <1>1 DEF Check
  <2> QED BY <1>1, <2>1, MoveInv DEF Check, ThreadStep
<1>2. CASE DrainOne(s)
  BY <1>2, DrainOneInv
<1>3. CASE DrainEnd(s)
  BY <1>3, MoveInv DEF DrainEnd, ThreadStep
<1>4. CASE Flush(s)
  <2>1. /\ Ready(pending[s]) \in SUBSET pending[s]
        /\ pending[s] \ Ready(pending[s]) \in SUBSET pending[s]
    BY DEF Ready
  <2> QED BY <1>4, <2>1, SendInv DEF Flush, ThreadStep
<1>5. CASE FinalFlush(s)
  BY <1>5, SendInv DEF FinalFlush, ThreadStep
<1> QED BY <1>1, <1>2, <1>3, <1>4, <1>5 DEF Thread

LEMMA StepInv == Inv /\ [Next]_vars => Inv'
<1> SUFFICES ASSUME Inv, [Next]_vars PROVE Inv'
  OBVIOUS
<1>1. CASE UNCHANGED vars
  BY <1>1 DEF Inv, TypeOK, NewestWaits, vars
<1> QED BY <1>1, WatchInv, StopInv, ChangeInv, TickInv, ReceiveInv, ThreadInv DEF Next

-----------------------------------------------------------------------------
(* The channels stay within their capacities, a batch is never empty and a *)
(* debouncer holds one event of a path, whatever thread runs               *)
(* (watcher.rs:73-134, debounce.rs:21-48).                                 *)
THEOREM WatcherTyped == Spec => []TypeOK
<1>1. Inv => TypeOK
  BY DEF Inv
<1> QED BY <1>1, InitInv, StepInv, PTL DEF Spec

\* Only a thread that flushes sends, and it sends events of its own map.
LEMMA Sender ==
  ASSUME Inv, [Next]_vars, Sent
  PROVE  \E s \in Session : \E Out \in SUBSET pending[s] :
           /\ (Flush(s) /\ Out = Ready(pending[s])) \/ FinalFlush(s)
           /\ batches' = Append(batches, {x.ev : x \in Out})
           /\ \A t \in Session : t # s => tpc'[t] = tpc[t]
<1>1. batches \in Seq((SUBSET FsEvent) \ {{}}) /\ batches' # batches
  BY DEF Inv, TypeOK, Sent
<1>2. ~Receive
  <2>1. ASSUME Receive PROVE Len(batches') < Len(batches)
    BY <2>1, <1>1 DEF Receive
  <2> QED BY <2>1, <1>1, StepInv DEF Sent, Inv, TypeOK
<1>3. PICK s \in Session : Flush(s) \/ FinalFlush(s)
  BY <1>1, <1>2 DEF Next, vars, Watch, Stop, Change, Tick, Thread, Check, DrainOne, DrainEnd
<1>4. \A t \in Session : t # s => tpc'[t] = tpc[t]
  BY <1>3 DEF Flush, FinalFlush, Inv, TypeOK
<1>5. \A evs : TrySend(evs) => batches' = Append(batches, evs)
  BY <1>1 DEF TrySend
<1>6. CASE Flush(s)
  <2>1. Ready(pending[s]) \in SUBSET pending[s]
    BY DEF Ready
  <2>2. batches' = Append(batches, {x.ev : x \in Ready(pending[s])})
    BY <1>5, <1>6 DEF Flush
  <2> QED BY <1>4, <1>6, <2>1, <2>2
<1>7. CASE FinalFlush(s)
  <2>1. batches' = Append(batches, {x.ev : x \in pending[s]})
    BY <1>5, <1>7 DEF FinalFlush
  <2> QED BY <1>4, <1>7, <2>1
<1> QED BY <1>3, <1>6, <1>7

LEMMA LastSent ==
  ASSUME Inv, NEW evs, batches' = Append(batches, evs)
  PROVE  SentEvents = evs
<1>1. batches \in Seq((SUBSET FsEvent) \ {{}})
  BY DEF Inv, TypeOK
<1> QED BY <1>1 DEF SentEvents

(* No batch holds an event of a path of which its thread has already       *)
(* drained a newer one: the map keeps the newest (debounce.rs:21-25).      *)
THEOREM NewestIsSent == Spec => NewestWins
<1>1. Inv /\ [Next]_vars =>
        (Sent => \A s \in Session :
           tpc'[s] # tpc[s] => \A e \in SentEvents : e.n = drained[s][e.path].n)
  <2> SUFFICES ASSUME Inv, [Next]_vars, Sent, NEW s \in Session, tpc'[s] # tpc[s],
                      NEW e \in SentEvents
               PROVE  e.n = drained[s][e.path].n
    OBVIOUS
  <2>1. PICK Out \in SUBSET pending[s] : batches' = Append(batches, {x.ev : x \in Out})
    BY Sender
  <2>2. PICK x \in Out : e = x.ev
    <3>1. SentEvents = {x.ev : x \in Out}
      BY <2>1, LastSent
    <3> QED BY <3>1
  <2>3. x \in pending[s]
    OBVIOUS
  <2>4. x.ev.n = drained[s][x.ev.path].n
    BY <2>3 DEF Inv, NewestWaits
  <2> QED BY <2>2, <2>4
<1> QED BY <1>1, InitInv, StepInv, PTL DEF Spec, NewestWins

(* While it watches, a thread sends only events of paths that have been    *)
(* quiet for the debounce time (debounce.rs:28-48).                        *)
THEOREM QuietIsSent == Spec => Debounced
<1>1. Inv /\ [Next]_vars =>
        (Sent => \A s \in Session :
           tpc[s] = "flush" /\ tpc'[s] # "flush" =>
             \A e \in SentEvents : drained[s][e.path].age >= Debounce)
  <2> SUFFICES ASSUME Inv, [Next]_vars, Sent, NEW s \in Session,
                      tpc[s] = "flush", tpc'[s] # "flush", NEW e \in SentEvents
               PROVE  drained[s][e.path].age >= Debounce
    OBVIOUS
  <2>1. PICK Out \in SUBSET pending[s] :
          /\ (Flush(s) /\ Out = Ready(pending[s])) \/ FinalFlush(s)
          /\ batches' = Append(batches, {x.ev : x \in Out})
    BY Sender
  <2>2. Out = Ready(pending[s])
    BY <2>1 DEF FinalFlush
  <2>3. PICK x \in Ready(pending[s]) : e = x.ev
    <3>1. SentEvents = {x.ev : x \in Ready(pending[s])}
      BY <2>1, <2>2, LastSent
    <3> QED BY <3>1
  <2> QED BY <2>3 DEF Inv, NewestWaits, Ready
<1> QED BY <1>1, InitInv, StepInv, PTL DEF Spec, Debounced

-----------------------------------------------------------------------------
LEMMA InitOrder == Init => InOrder
<1> SUFFICES ASSUME Init PROVE InOrder
  OBVIOUS
<1>1. LaterIdle
  BY DEF Init, LaterIdle
<1>2. /\ \A s \in Session : raw[s] = << >> /\ pending[s] = {}
      /\ \A s \in Session, p \in WatchedPath : drained[s][p].n = 0
      /\ changes = 0 /\ batches = << >> /\ \A p \in WatchedPath : seen[p] = 0
  BY DEF Init
<1>3. RawOrdered
  BY <1>2 DEF RawOrdered
<1>4. SentOrdered
  BY <1>2 DEF SentOrdered
<1> QED BY <1>1, <1>3, <1>4 DEF InOrder

\* Every session numbers its changes with the same counter, so the raw channels
\* are ordered in every step.
LEMMA ChangeOrder == Inv /\ InOrder /\ Change => InOrder'
<1> SUFFICES ASSUME Inv, InOrder, Change PROVE InOrder'
  OBVIOUS
<1>1. UNCHANGED <<running, active, sessions, pending, tpc, batches, drained, seen, unread>>
  BY DEF Change
<1>2. changes \in Nat /\ changes' = changes + 1 /\ changes + 1 \in 1..MaxEvents
  <2>1. changes \in 0..MaxEvents /\ changes < MaxEvents /\ changes' = changes + 1
    BY DEF Inv, TypeOK, Change
  <2> QED BY <2>1, DebounceAssumption
<1>3. active \in Session /\ active <= sessions
  <2>1. active # 0 /\ sessions \in 0..MaxWatch /\ active \in 0..sessions
    BY DEF Change, Inv, TypeOK
  <2> QED BY <2>1, WatcherAssumption DEF Session
<1>4. PICK e \in FsEvent :
        /\ e.n = changes + 1
        /\ raw' = raw \/ raw' = [raw EXCEPT ![active] = Append(@, e)]
  <2>1. PICK kind \in {"created", "modified", "deleted", "rename both", "rename half"},
             p, q \in WatchedPath :
          LET e == Converted(changes + 1, kind, p, q)
          IN  raw' = raw \/ raw' = [raw EXCEPT ![active] = Append(@, e)]
    BY DEF Change
  <2>2. /\ Converted(changes + 1, kind, p, q) \in FsEvent
        /\ Converted(changes + 1, kind, p, q).n = changes + 1
    <3>1. PICK n \in 1..MaxEvents : n = changes + 1
      BY <1>2
    <3>2. Converted(n, kind, p, q) \in FsEvent /\ Converted(n, kind, p, q).n = n
      BY ConvertedFacts
    <3> QED BY <3>1, <3>2
  <2> QED BY <2>1, <2>2
<1>5. \A s \in Session : s > sessions => raw'[s] = raw[s]
  BY <1>3, <1>4, WatcherAssumption DEF Inv, TypeOK, Session
<1>6. LaterIdle'
  BY <1>1, <1>5 DEF InOrder, LaterIdle
<1>7. RawOrdered'
  <2> SUFFICES ASSUME NEW s \in Session
               PROVE  /\ \A p \in WatchedPath : drained[s][p].n <= changes'
                      /\ \A i \in 1..Len(raw'[s]) :
                           /\ raw'[s][i].n <= changes'
                           /\ \A p \in WatchedPath : drained[s][p].n < raw'[s][i].n
                           /\ \A j \in 1..Len(raw'[s]) : i < j => raw'[s][i].n < raw'[s][j].n
    BY <1>1 DEF RawOrdered
  <2>1. /\ \A p \in WatchedPath : drained[s][p].n <= changes /\ drained[s][p].n \in Nat
        /\ raw[s] \in Seq(FsEvent)
        /\ \A i \in 1..Len(raw[s]) : raw[s][i].n <= changes /\ raw[s][i].n \in Nat
    <3>1. /\ drained[s] \in [WatchedPath -> [n : 0..MaxEvents, age : 0..Debounce]]
          /\ raw[s] \in Seq(FsEvent)
      BY DEF Inv, TypeOK
    <3>2. \A i \in 1..Len(raw[s]) : raw[s][i].n \in 1..MaxEvents
      <4>1. \A i \in 1..Len(raw[s]) : raw[s][i] \in FsEvent
        BY <3>1
      <4> QED BY <4>1 DEF FsEvent
    <3>3. \A p \in WatchedPath : drained[s][p].n \in 0..MaxEvents
      BY <3>1
    <3> QED BY <3>1, <3>2, <3>3, DebounceAssumption DEF InOrder, RawOrdered
  <2>2. \A p \in WatchedPath : drained[s][p].n <= changes'
    BY <2>1, <1>2
  <2>3. CASE raw'[s] = raw[s]
    BY <2>1, <2>2, <2>3, <1>2 DEF InOrder, RawOrdered
  <2>4. CASE raw'[s] = Append(raw[s], e)
    <3>1. /\ Len(raw'[s]) = Len(raw[s]) + 1 /\ raw'[s][Len(raw[s]) + 1] = e
          /\ \A i \in 1..Len(raw[s]) : raw'[s][i] = raw[s][i]
      BY <2>1, <2>4
    <3>2. Len(raw[s]) \in Nat
      BY <2>1
    <3> DEFINE L == Len(raw[s])
    <3>3. \A i \in 1..L + 1 : i \in 1..L \/ i = L + 1
      BY <3>2
    <3>4. \A i \in 1..L + 1 : raw'[s][i].n <= changes'
      <4>1. \A i \in 1..L : raw'[s][i].n <= changes'
        BY <3>1, <2>1, <1>2
      <4>2. raw'[s][L + 1].n <= changes'
        BY <3>1, <1>2, <1>4
      <4> QED BY <4>1, <4>2, <3>3
    <3>5. \A i \in 1..L + 1 : \A p \in WatchedPath : drained[s][p].n < raw'[s][i].n
      BY <3>1, <3>3, <2>1, <1>2, <1>4 DEF InOrder, RawOrdered
    <3>6. \A i, j \in 1..L + 1 : i < j => raw'[s][i].n < raw'[s][j].n
      BY <3>1, <3>2, <3>3, <2>1, <1>2, <1>4 DEF InOrder, RawOrdered
    <3> QED BY <2>2, <3>1, <3>4, <3>5, <3>6
  <2> QED BY <2>3, <2>4, <1>4 DEF Inv, TypeOK
<1> QED BY <1>1, <1>6, <1>7 DEF InOrder, SentOrdered

LEMMA TickOrder == Inv /\ InOrder /\ Tick => InOrder'
<1> SUFFICES ASSUME Inv, InOrder, Tick PROVE InOrder'
  OBVIOUS
<1>1. /\ UNCHANGED <<running, active, sessions, raw, tpc, batches, changes, seen, overflow, unread>>
      /\ pending' = [s \in Session |-> Older(pending[s])]
  BY DEF Tick
<1>2. \A s \in Session : \A p \in WatchedPath : drained'[s][p].n = drained[s][p].n
  <2> SUFFICES ASSUME NEW s \in Session, NEW p \in WatchedPath
               PROVE  drained'[s][p].n = drained[s][p].n
    OBVIOUS
  <2>1. drained[s][p] \in [n : 0..MaxEvents, age : 0..Debounce]
    BY DEF Inv, TypeOK
  <2>2. drained'[s][p] = [drained[s][p] EXCEPT !.age = IF @ < Debounce THEN @ + 1 ELSE @]
    BY DEF Tick
  <2> QED BY <2>1, <2>2
<1>3. \A s \in Session : /\ pending[s] = {} => pending'[s] = {}
                         /\ \A y \in pending'[s] : \E x \in pending[s] : y.ev = x.ev
  <2> SUFFICES ASSUME NEW s \in Session
               PROVE  /\ pending[s] = {} => pending'[s] = {}
                      /\ \A y \in pending'[s] : \E x \in pending[s] : y.ev = x.ev
    OBVIOUS
  <2>1. pending'[s] = Older(pending[s]) /\ pending[s] \in SUBSET Pending
    BY <1>1 DEF Inv, TypeOK
  <2>2. \A y \in pending'[s] : \E x \in pending[s] : y.ev = x.ev
    BY <2>1, OlderFacts
  <2> QED BY <2>2
<1>4. LaterIdle'
  BY <1>1, <1>3 DEF InOrder, LaterIdle
<1>5. RawOrdered'
  BY <1>1, <1>2 DEF InOrder, RawOrdered
<1>6. SentOrdered => SentOrdered'
  <2> SUFFICES ASSUME SentOrdered PROVE SentOrdered'
    OBVIOUS
  <2>1. \A i \in 1..Len(batches) : batches[i] \subseteq FsEvent
    BY DEF Inv, TypeOK
  <2>2. \A i \in 1..Len(batches) : \A e \in batches[i] : e.path \in WatchedPath
    BY <2>1 DEF FsEvent
  <2>3. \A i \in 1..Len(batches) : \A e \in batches[i] : \A s \in Session :
          \A y \in pending'[s] : y.ev.path = e.path => e.n < y.ev.n
    BY <1>3 DEF SentOrdered
  <2>4. \A i \in 1..Len(batches) : \A e \in batches[i] : \A s \in Session :
          s = 1 => e.n <= drained'[s][e.path].n
    BY <1>2, <2>2 DEF SentOrdered
  <2>5. \A s \in Session : \A y \in pending'[s] : seen[y.ev.path] < y.ev.n
    BY <1>3 DEF SentOrdered
  <2>6. \A p \in WatchedPath : \A s \in Session : s = 1 => seen[p] <= drained'[s][p].n
    BY <1>2 DEF SentOrdered
  <2> QED BY <1>1, <2>3, <2>4, <2>5, <2>6 DEF SentOrdered
<1> QED BY <1>1, <1>4, <1>5, <1>6 DEF InOrder

LEMMA ReceiveOrder == Inv /\ InOrder /\ Receive => InOrder'
<1> SUFFICES ASSUME Inv, InOrder, Receive PROVE InOrder'
  OBVIOUS
<1>1. /\ UNCHANGED <<running, active, sessions, raw, pending, tpc, changes, drained, overflow, unread>>
      /\ batches # << >> /\ batches' = Tail(batches)
      /\ batches \in Seq((SUBSET FsEvent) \ {{}})
  BY DEF Receive, Inv, TypeOK
<1> DEFINE B == batches  L == Len(batches)
<1>2. /\ L \in Nat /\ 1 \in 1..L /\ B[1] = Head(B)
      /\ Len(batches') = L - 1
      /\ \A i \in 1..L - 1 : batches'[i] = B[i + 1] /\ i + 1 \in 1..L
  BY <1>1
<1>3. \A i \in 1..L : \A e \in B[i] : e.path \in WatchedPath /\ e.n \in 1..MaxEvents
  <2>1. \A i \in 1..L : B[i] \subseteq FsEvent
    BY <1>1
  <2> QED BY <2>1 DEF FsEvent
<1>4. \A p \in WatchedPath : \/ seen'[p] = seen[p]
                             \/ \E e \in B[1] : e.path = p /\ seen'[p] = e.n
  <2> SUFFICES ASSUME NEW p \in WatchedPath
               PROVE  seen'[p] = seen[p] \/ \E e \in B[1] : e.path = p /\ seen'[p] = e.n
    OBVIOUS
  <2>1. CASE \E e \in B[1] : e.path = p
    <3>1. seen'[p] = (CHOOSE e \in B[1] : e.path = p).n
      BY <2>1, <1>2 DEF Receive
    <3> QED BY <2>1, <3>1
  <2>2. CASE ~\E e \in B[1] : e.path = p
    BY <2>2, <1>2 DEF Receive
  <2> QED BY <2>1, <2>2
<1>5. LaterIdle' /\ RawOrdered'
  BY <1>1 DEF InOrder, LaterIdle, RawOrdered
<1>6. SentOrdered => SentOrdered'
  <2> SUFFICES ASSUME SentOrdered PROVE SentOrdered'
    OBVIOUS
  <2>1. \A i \in 1..L - 1 : \A e \in batches'[i] :
          /\ e \in B[i + 1] /\ e.path \in WatchedPath /\ i + 1 \in 1..L /\ 1 < i + 1
    BY <1>2, <1>3
  <2>2. \A i \in 1..L - 1 : \A e \in batches'[i] : seen'[e.path] < e.n
    <3> SUFFICES ASSUME NEW i \in 1..L - 1, NEW e \in batches'[i]
                 PROVE  seen'[e.path] < e.n
      OBVIOUS
    <3>1. seen[e.path] < e.n
      BY <2>1 DEF SentOrdered
    <3>2. \A f \in B[1] : f.path = e.path => f.n < e.n
      BY <2>1, <1>2 DEF SentOrdered
    <3> QED BY <3>1, <3>2, <2>1, <1>4
  <2>3. \A i \in 1..L - 1 : \A e \in batches'[i] :
          /\ \A s \in Session : s = 1 => e.n <= drained[s][e.path].n
          /\ \A s \in Session : \A x \in pending[s] : x.ev.path = e.path => e.n < x.ev.n
    BY <2>1 DEF SentOrdered
  <2>4. \A i, j \in 1..L - 1 : \A e \in batches'[i], f \in batches'[j] :
          f.path = e.path => (i < j => e.n < f.n) /\ (i = j => e = f)
    <3> SUFFICES ASSUME NEW i \in 1..L - 1, NEW j \in 1..L - 1, NEW e \in batches'[i],
                        NEW f \in batches'[j], f.path = e.path
                 PROVE  (i < j => e.n < f.n) /\ (i = j => e = f)
      OBVIOUS
    <3>1. /\ i + 1 \in 1..L /\ j + 1 \in 1..L /\ e \in B[i + 1] /\ f \in B[j + 1]
          /\ i < j => i + 1 < j + 1
      BY <2>1
    <3>2. /\ i + 1 < j + 1 => e.n < f.n
          /\ i + 1 = j + 1 => e = f
      BY <3>1 DEF SentOrdered
    <3> QED BY <3>1, <3>2
  <2>5. \A s \in Session : \A x \in pending[s] : seen'[x.ev.path] < x.ev.n
    <3> SUFFICES ASSUME NEW s \in Session, NEW x \in pending[s]
                 PROVE  seen'[x.ev.path] < x.ev.n
      OBVIOUS
    <3>1. x.ev.path \in WatchedPath
      BY PendingFacts DEF Inv, TypeOK
    <3>2. \A e \in B[1] : e.path = x.ev.path => e.n < x.ev.n
      BY <1>2 DEF SentOrdered
    <3> QED BY <1>4, <3>1, <3>2 DEF SentOrdered
  <2>6. \A p \in WatchedPath : \A s \in Session : s = 1 => seen'[p] <= drained[s][p].n
    <3> SUFFICES ASSUME NEW p \in WatchedPath, NEW s \in Session, s = 1
                 PROVE  seen'[p] <= drained[s][p].n
      OBVIOUS
    <3>1. \A e \in B[1] : e.path = p => e.n <= drained[s][p].n
      BY <1>2 DEF SentOrdered
    <3> QED BY <1>4, <3>1 DEF SentOrdered
  <2> QED BY <1>1, <1>2, <2>2, <2>3, <2>4, <2>5, <2>6 DEF SentOrdered
<1> QED BY <1>1, <1>5, <1>6 DEF InOrder

\* What DrainOne does to the numbers the orders speak of.
LEMMA DrainFacts ==
  ASSUME Inv, InOrder, NEW s \in Session, DrainOne(s)
  PROVE  LET e == raw[s][1] IN
         /\ raw[s] # << >> /\ e \in FsEvent /\ e.path \in WatchedPath /\ e.n \in 1..MaxEvents
         /\ Len(raw[s]) \in Nat /\ Len(raw'[s]) = Len(raw[s]) - 1
         /\ \A i \in 1..Len(raw[s]) - 1 : raw'[s][i] = raw[s][i + 1]
         /\ \A t \in Session : t # s =>
              raw'[t] = raw[t] /\ pending'[t] = pending[t] /\ drained'[t] = drained[t]
         /\ \A x \in pending'[s] : x \in pending[s] \/ x.ev = e
         /\ \A p \in WatchedPath :
              \/ drained'[s][p] = drained[s][p]
              \/ p = e.path /\ drained'[s][p].n = e.n
<1>1. /\ raw[s] \in Seq(FsEvent) /\ raw[s] # << >> /\ raw[s][1] = Head(raw[s])
      /\ raw' = [raw EXCEPT ![s] = Tail(@)]
  BY DEF DrainOne, Inv, TypeOK
<1> DEFINE e == raw[s][1]
<1>2. /\ e \in FsEvent /\ Len(raw[s]) \in Nat /\ raw'[s] = Tail(raw[s])
      /\ Len(raw'[s]) = Len(raw[s]) - 1
      /\ \A i \in 1..Len(raw[s]) - 1 : raw'[s][i] = raw[s][i + 1]
  BY <1>1 DEF Inv, TypeOK
<1>3. e.path \in WatchedPath /\ e.n \in 1..MaxEvents
  BY <1>2 DEF FsEvent
<1>4. \/ UNCHANGED <<pending, drained>>
      \/ /\ pending' = [pending EXCEPT ![s] = AddEvent(@, e)]
         /\ drained' = [drained EXCEPT ![s][e.path] = [n |-> e.n, age |-> 0]]
  BY <1>1 DEF DrainOne
<1>5. \A t \in Session : t # s =>
        raw'[t] = raw[t] /\ pending'[t] = pending[t] /\ drained'[t] = drained[t]
  BY <1>1, <1>4 DEF Inv, TypeOK
<1>6. \A x \in pending'[s] : x \in pending[s] \/ x.ev = e
  BY <1>4 DEF Inv, TypeOK, AddEvent, Insert
<1>7. \A p \in WatchedPath : \/ drained'[s][p] = drained[s][p]
                             \/ p = e.path /\ drained'[s][p].n = e.n
  <2>1. CASE UNCHANGED <<pending, drained>>
    BY <2>1
  <2>2. CASE drained' = [drained EXCEPT ![s][e.path] = [n |-> e.n, age |-> 0]]
    <3>1. drained'[s] = [drained[s] EXCEPT ![e.path] = [n |-> e.n, age |-> 0]]
      BY <2>2 DEF Inv, TypeOK
    <3>2. drained[s] \in [WatchedPath -> [n : 0..MaxEvents, age : 0..Debounce]]
      BY DEF Inv, TypeOK
    <3> QED BY <3>1, <3>2, <1>3
  <2> QED BY <2>1, <2>2, <1>4
<1> QED BY <1>1, <1>2, <1>3, <1>5, <1>6, <1>7

LEMMA DrainOneOrder ==
  ASSUME Inv, InOrder, NEW s \in Session, DrainOne(s)
  PROVE  InOrder'
<1> DEFINE e == raw[s][1]
<1>1. UNCHANGED <<running, active, sessions, tpc, batches, changes, seen, overflow>>
  BY DEF DrainOne
<1>2. /\ raw[s] # << >> /\ e \in FsEvent /\ e.path \in WatchedPath /\ e.n \in 1..MaxEvents
      /\ Len(raw[s]) \in Nat /\ Len(raw'[s]) = Len(raw[s]) - 1
      /\ \A i \in 1..Len(raw[s]) - 1 : raw'[s][i] = raw[s][i + 1]
  BY DrainFacts
<1>3. /\ \A t \in Session : t # s =>
           raw'[t] = raw[t] /\ pending'[t] = pending[t] /\ drained'[t] = drained[t]
      /\ \A x \in pending'[s] : x \in pending[s] \/ x.ev = e
      /\ \A p \in WatchedPath :
           \/ drained'[s][p] = drained[s][p]
           \/ p = e.path /\ drained'[s][p].n = e.n
  BY DrainFacts
<1>4. s <= sessions /\ 1 \in 1..Len(raw[s])
  <2>1. tpc[s] = "drain" /\ sessions \in 0..MaxWatch
    BY DEF DrainOne, Inv, TypeOK
  <2>2. ~(s > sessions)
    BY <2>1 DEF InOrder, LaterIdle
  <2>3. raw[s] \in Seq(FsEvent)
    BY DEF Inv, TypeOK
  <2> QED BY <1>2, <2>1, <2>2, <2>3, WatcherAssumption DEF Session
<1>5. /\ e.n <= changes
      /\ \A p \in WatchedPath : drained[s][p].n < e.n
  BY <1>4 DEF InOrder, RawOrdered
<1> HIDE DEF e
<1>6. LaterIdle'
  <2> SUFFICES ASSUME NEW t \in Session, t > sessions
               PROVE  raw'[t] = << >> /\ pending'[t] = {} /\ tpc[t] = "none"
    BY <1>1 DEF LaterIdle
  <2>1. t # s
    BY <1>4, WatcherAssumption DEF Inv, TypeOK, Session
  <2> QED BY <2>1, <1>3 DEF InOrder, LaterIdle
<1>7. RawOrdered'
  <2> SUFFICES ASSUME NEW t \in Session
               PROVE  /\ \A p \in WatchedPath : drained'[t][p].n <= changes
                      /\ \A i \in 1..Len(raw'[t]) :
                           /\ raw'[t][i].n <= changes
                           /\ \A p \in WatchedPath : drained'[t][p].n < raw'[t][i].n
                           /\ \A j \in 1..Len(raw'[t]) : i < j => raw'[t][i].n < raw'[t][j].n
    BY <1>1 DEF RawOrdered
  <2>1. CASE t # s
    BY <2>1, <1>3 DEF InOrder, RawOrdered
  <2>2. CASE t = s
    <3>1. \A p \in WatchedPath : drained'[s][p].n <= changes
      BY <1>3, <1>5 DEF InOrder, RawOrdered
    <3>2. \A i \in 1..Len(raw[s]) - 1 : i + 1 \in 1..Len(raw[s]) /\ 1 < i + 1
      BY <1>2
    <3>3. \A i \in 1..Len(raw[s]) - 1 : raw[s][i + 1].n <= changes /\ e.n < raw[s][i + 1].n
      BY <3>2, <1>4 DEF InOrder, RawOrdered, e
    <3>4. \A i \in 1..Len(raw[s]) - 1 : \A p \in WatchedPath :
            drained'[s][p].n < raw[s][i + 1].n
      <4> SUFFICES ASSUME NEW i \in 1..Len(raw[s]) - 1, NEW p \in WatchedPath
                   PROVE  drained'[s][p].n < raw[s][i + 1].n
        OBVIOUS
      <4>1. drained[s][p].n < raw[s][i + 1].n
        BY <3>2 DEF InOrder, RawOrdered
      <4> QED BY <4>1, <3>3, <1>3
    <3>5. \A i, j \in 1..Len(raw[s]) - 1 : i < j => raw[s][i + 1].n < raw[s][j + 1].n
      <4> SUFFICES ASSUME NEW i \in 1..Len(raw[s]) - 1, NEW j \in 1..Len(raw[s]) - 1, i < j
                   PROVE  raw[s][i + 1].n < raw[s][j + 1].n
        OBVIOUS
      <4>1. i + 1 < j + 1 /\ i + 1 \in 1..Len(raw[s]) /\ j + 1 \in 1..Len(raw[s])
        BY <3>2
      <4> QED BY <4>1 DEF InOrder, RawOrdered
    <3> QED BY <2>2, <3>1, <3>3, <3>4, <3>5, <1>2
  <2> QED BY <2>1, <2>2
<1>8. sessions <= 1 /\ SentOrdered => SentOrdered'
  <2> SUFFICES ASSUME sessions <= 1, SentOrdered PROVE SentOrdered'
    OBVIOUS
  <2>1. s = 1
    BY <1>4, WatcherAssumption DEF Session, Inv, TypeOK
  <2>2. \A i \in 1..Len(batches) : \A f \in batches[i] : f.path \in WatchedPath /\ f.n \in Nat
    <3>1. \A i \in 1..Len(batches) : batches[i] \subseteq FsEvent
      BY DEF Inv, TypeOK
    <3> QED BY <3>1 DEF FsEvent
  <2>3. \A i \in 1..Len(batches) : \A f \in batches[i] :
          f.n <= drained[s][f.path].n /\ f.n < e.n
    <3> SUFFICES ASSUME NEW i \in 1..Len(batches), NEW f \in batches[i]
                 PROVE  f.n <= drained[s][f.path].n /\ f.n < e.n
      OBVIOUS
    <3>1. f.n <= drained[s][f.path].n
      BY <2>1 DEF SentOrdered
    <3>2. drained[s][f.path].n < e.n /\ drained[s][f.path].n \in 0..MaxEvents
      BY <1>5, <2>2 DEF Inv, TypeOK
    <3> QED BY <3>1, <3>2, <2>2, <1>2, DebounceAssumption
  <2>4. \A i \in 1..Len(batches) : \A f \in batches[i] : \A t \in Session :
          t = 1 => f.n <= drained'[t][f.path].n
    <3> SUFFICES ASSUME NEW i \in 1..Len(batches), NEW f \in batches[i]
                 PROVE  f.n <= drained'[s][f.path].n
      BY <2>1
    <3>1. f.n <= drained[s][f.path].n /\ f.n < e.n /\ f.path \in WatchedPath /\ f.n \in Nat
      BY <2>2, <2>3
    <3> QED BY <3>1, <1>2, <1>3
  <2>5. \A i \in 1..Len(batches) : \A f \in batches[i] : \A t \in Session :
          \A x \in pending'[t] : x.ev.path = f.path => f.n < x.ev.n
    BY <2>3, <1>3 DEF SentOrdered
  <2>6. \A p \in WatchedPath : seen[p] <= drained[s][p].n /\ seen[p] < e.n
    <3> SUFFICES ASSUME NEW p \in WatchedPath
                 PROVE  seen[p] <= drained[s][p].n /\ seen[p] < e.n
      OBVIOUS
    <3>1. seen[p] <= drained[s][p].n
      BY <2>1 DEF SentOrdered
    <3>2. drained[s][p].n < e.n /\ drained[s][p].n \in 0..MaxEvents /\ seen[p] \in 0..MaxEvents
      BY <1>5 DEF Inv, TypeOK
    <3> QED BY <3>1, <3>2, <1>2, DebounceAssumption
  <2>7. \A t \in Session : \A x \in pending'[t] : seen[x.ev.path] < x.ev.n
    BY <2>6, <1>2, <1>3 DEF SentOrdered
  <2>8. \A p \in WatchedPath : \A t \in Session : t = 1 => seen[p] <= drained'[t][p].n
    <3> SUFFICES ASSUME NEW p \in WatchedPath
                 PROVE  seen[p] <= drained'[s][p].n
      BY <2>1
    <3>1. seen[p] \in 0..MaxEvents
      BY DEF Inv, TypeOK
    <3> QED BY <3>1, <2>6, <1>2, <1>3, DebounceAssumption
  <2> QED BY <1>1, <2>4, <2>5, <2>7, <2>8 DEF SentOrdered
<1> QED BY <1>1, <1>6, <1>7, <1>8 DEF InOrder

LEMMA SendOrder ==
  ASSUME Inv, InOrder, NEW s \in Session, tpc[s] # "none",
         NEW step \in ThreadStep,
         NEW Out \in SUBSET pending[s], NEW Kept \in SUBSET pending[s],
         Out \cap Kept = {},
         TrySend({x.ev : x \in Out}),
         pending' = [pending EXCEPT ![s] = Kept],
         tpc' = [tpc EXCEPT ![s] = step],
         UNCHANGED <<running, active, sessions, raw, changes, drained, seen, unread>>
  PROVE  InOrder'
<1>1. s <= sessions /\ s \in Nat /\ sessions \in Nat
  <2>1. sessions \in 0..MaxWatch /\ ~(s > sessions)
    BY DEF Inv, TypeOK, InOrder, LaterIdle
  <2> QED BY <2>1, WatcherAssumption DEF Session
<1>2. \A t \in Session : /\ pending'[t] \subseteq pending[t]
                         /\ t # s => pending'[t] = pending[t] /\ tpc'[t] = tpc[t]
  BY DEF Inv, TypeOK
<1>3. LaterIdle'
  <2> SUFFICES ASSUME NEW t \in Session, t > sessions
               PROVE  raw[t] = << >> /\ pending'[t] = {} /\ tpc'[t] = "none"
    BY DEF LaterIdle
  <2>1. t # s
    BY <1>1, WatcherAssumption DEF Session
  <2> QED BY <2>1, <1>2 DEF InOrder, LaterIdle
<1>4. RawOrdered'
  BY DEF InOrder, RawOrdered
<1> DEFINE Evs == {x.ev : x \in Out}  L == Len(batches)
<1>5. pending[s] \in SUBSET Pending /\ pending'[s] = Kept
      /\ \A x, y \in pending[s] : x.ev.path = y.ev.path => x = y
  BY DEF Inv, TypeOK
<1>6. batches \in Seq((SUBSET FsEvent) \ {{}}) /\ L \in Nat
  BY DEF Inv, TypeOK
<1>7. \A x \in Out : /\ x.ev.path \in WatchedPath
                     /\ x.ev.n = drained[s][x.ev.path].n /\ x.ev.n \in Nat
                     /\ \A y \in Kept : y.ev.path # x.ev.path
                     /\ \A y \in Out : y.ev.path = x.ev.path => y = x
  BY <1>5, PendingFacts DEF Inv, NewestWaits
<1>8. sessions <= 1 /\ SentOrdered => SentOrdered'
  <2> SUFFICES ASSUME sessions <= 1, SentOrdered PROVE SentOrdered'
    OBVIOUS
  <2>1. \A t \in Session : \A x \in pending'[t] : seen[x.ev.path] < x.ev.n
    BY <1>2 DEF SentOrdered
  <2>2. \A i \in 1..L : \A e \in batches[i] :
          /\ seen[e.path] < e.n
          /\ \A t \in Session : t = 1 => e.n <= drained[t][e.path].n
          /\ \A t \in Session : \A x \in pending'[t] : x.ev.path = e.path => e.n < x.ev.n
    BY <1>2 DEF SentOrdered
  <2>3. CASE batches' = batches
    BY <2>1, <2>2, <2>3 DEF SentOrdered
  <2>4. CASE batches' = Append(batches, Evs)
    <3>1. /\ Len(batches') = L + 1 /\ batches'[L + 1] = Evs
          /\ \A i \in 1..L : batches'[i] = batches[i]
          /\ \A i \in 1..L + 1 : i \in 1..L \/ i = L + 1
      BY <2>4, <1>6
    <3>2. s = 1 /\ \A t \in Session : t # s => pending'[t] = {}
      <4>1. s = 1
        BY <1>1, WatcherAssumption DEF Session
      <4>2. \A t \in Session : t # s => t > sessions
        BY <4>1, <1>1, WatcherAssumption DEF Session
      <4> QED BY <4>1, <4>2, <1>2 DEF InOrder, LaterIdle
    <3>3. \A e \in Evs :
            /\ seen[e.path] < e.n
            /\ \A t \in Session : t = 1 => e.n <= drained[t][e.path].n
            /\ \A t \in Session : \A x \in pending'[t] : x.ev.path = e.path => e.n < x.ev.n
            /\ \A f \in Evs : f.path = e.path => e = f
      <4> SUFFICES ASSUME NEW x \in Out
                   PROVE  /\ seen[x.ev.path] < x.ev.n
                          /\ \A t \in Session : t = 1 => x.ev.n <= drained[t][x.ev.path].n
                          /\ \A t \in Session : \A y \in pending'[t] :
                               y.ev.path = x.ev.path => x.ev.n < y.ev.n
                          /\ \A f \in Evs : f.path = x.ev.path => x.ev = f
        OBVIOUS
      <4>1. seen[x.ev.path] < x.ev.n
        BY DEF SentOrdered
      <4>2. x.ev.n <= drained[s][x.ev.path].n
        BY <1>7
      <4>3. \A t \in Session : \A y \in pending'[t] : y.ev.path # x.ev.path
        BY <1>5, <1>7, <3>2
      <4> QED BY <4>1, <4>2, <4>3, <3>2, <1>7
    <3>4. \A i \in 1..L : \A e \in batches[i] : \A f \in Evs : f.path = e.path => e.n < f.n
      BY DEF SentOrdered
    <3>5. \A i, j \in 1..L + 1 : \A e \in batches'[i], f \in batches'[j] :
            f.path = e.path => (i < j => e.n < f.n) /\ (i = j => e = f)
      <4> SUFFICES ASSUME NEW i \in 1..L + 1, NEW j \in 1..L + 1, NEW e \in batches'[i],
                          NEW f \in batches'[j], f.path = e.path
                   PROVE  (i < j => e.n < f.n) /\ (i = j => e = f)
        OBVIOUS
      <4>1. CASE i \in 1..L /\ j \in 1..L
        BY <4>1, <3>1 DEF SentOrdered
      <4>2. CASE i \in 1..L /\ j = L + 1
        BY <4>2, <3>1, <3>4, <1>6
      <4>3. CASE i = L + 1 /\ j \in 1..L
        BY <4>3, <1>6
      <4>4. CASE i = L + 1 /\ j = L + 1
        BY <4>4, <3>1, <3>3, <1>6
      <4> QED BY <4>1, <4>2, <4>3, <4>4, <3>1
    <3>6. \A i \in 1..L + 1 : \A e \in batches'[i] :
            /\ seen[e.path] < e.n
            /\ \A t \in Session : t = 1 => e.n <= drained[t][e.path].n
            /\ \A t \in Session : \A x \in pending'[t] : x.ev.path = e.path => e.n < x.ev.n
      BY <3>1, <3>3, <2>2
    <3>7. \A p \in WatchedPath : \A t \in Session : t = 1 => seen[p] <= drained[t][p].n
      BY DEF SentOrdered
    <3> QED BY <2>1, <3>1, <3>5, <3>6, <3>7 DEF SentOrdered
  <2> QED BY <2>3, <2>4, SendFacts, <1>5, PendingFacts DEF Inv, TrySend
<1> QED BY <1>3, <1>4, <1>8 DEF InOrder

LEMMA StepOrder == Inv /\ InOrder /\ [Next]_vars => InOrder'
<1> SUFFICES ASSUME Inv, InOrder, [Next]_vars PROVE InOrder'
  OBVIOUS
<1>1. CASE UNCHANGED vars
  BY <1>1 DEF InOrder, LaterIdle, RawOrdered, SentOrdered, vars
<1>2. CASE Watch
  <2>1. /\ UNCHANGED <<raw, pending, batches, changes, drained, seen, overflow, unread>>
        /\ sessions \in Nat /\ sessions' = sessions + 1
        /\ \A t \in Session : t > sessions + 1 => tpc'[t] = tpc[t]
    BY <1>2, WatcherAssumption DEF Watch, Inv, TypeOK, Session
  <2>2. LaterIdle'
    BY <2>1, WatcherAssumption DEF InOrder, LaterIdle, Session
  <2>3. RawOrdered' /\ (SentOrdered => SentOrdered')
    BY <2>1 DEF InOrder, RawOrdered, SentOrdered
  <2> QED BY <2>1, <2>2, <2>3 DEF InOrder
<1>3. CASE Stop
  BY <1>3 DEF Stop, InOrder, LaterIdle, RawOrdered, SentOrdered
<1>4. ASSUME NEW s \in Session, Thread(s) PROVE InOrder'
  <2>1. ASSUME NEW step \in ThreadStep, tpc[s] # "none", tpc' = [tpc EXCEPT ![s] = step],
               UNCHANGED <<running, active, sessions, raw, pending, batches, changes,
                           drained, seen, overflow, unread>>
        PROVE  InOrder'
    <3>1. LaterIdle'
      BY <2>1 DEF InOrder, LaterIdle, Inv, TypeOK
    <3> QED BY <2>1, <3>1 DEF InOrder, RawOrdered, SentOrdered
  <2>2. CASE Check(s)
    <3>1. PICK step \in {"drain", "final"} : tpc' = [tpc EXCEPT ![s] = step]
      BY <2>2 DEF Check
    <3> QED BY <2>2, <3>1, <2>1 DEF Check, ThreadStep
  <2>3. CASE DrainOne(s)
    BY <2>3, DrainOneOrder
  <2>4. CASE DrainEnd(s)
    BY <2>4, <2>1 DEF DrainEnd, ThreadStep
  <2>5. CASE Flush(s)
    <3>1. /\ Ready(pending[s]) \in SUBSET pending[s]
          /\ pending[s] \ Ready(pending[s]) \in SUBSET pending[s]
          /\ Ready(pending[s]) \cap (pending[s] \ Ready(pending[s])) = {}
      BY DEF Ready
    <3> QED BY <2>5, <3>1, SendOrder DEF Flush, ThreadStep
  <2>6. CASE FinalFlush(s)
    BY <2>6, SendOrder DEF FinalFlush, ThreadStep
  <2> QED BY <1>4, <2>2, <2>3, <2>4, <2>5, <2>6 DEF Thread
<1> QED BY <1>1, <1>2, <1>3, <1>4, ChangeOrder, TickOrder, ReceiveOrder DEF Next

(* What waits in the channel of batches is newer than what the consumer    *)
(* has seen, and the later of two events of a path is in the later batch.  *)
DeliveredInOrder ==
  sessions <= 1 => \A i \in 1..Len(batches) : \A e \in batches[i] :
    /\ e.n > seen[e.path]
    /\ \A j \in 1..Len(batches) : \A f \in batches[j] :
         f.path = e.path /\ f # e => (i < j <=> e.n < f.n)

(* While one thread has run, the consumer learns of the changes of a path  *)
(* in their order and of none twice, through two channels and the map      *)
(* between them (watcher.rs:83-116).                                       *)
THEOREM OrderIsKept == Spec => []DeliveredInOrder
<1>1. Inv /\ InOrder => DeliveredInOrder
  <2> SUFFICES ASSUME Inv, InOrder, sessions <= 1,
                      NEW i \in 1..Len(batches), NEW e \in batches[i]
               PROVE  /\ e.n > seen[e.path]
                      /\ \A j \in 1..Len(batches) : \A f \in batches[j] :
                           f.path = e.path /\ f # e => (i < j <=> e.n < f.n)
    BY DEF DeliveredInOrder
  <2>1. e.n > seen[e.path]
    BY DEF InOrder, SentOrdered
  <2>2. \A j \in 1..Len(batches) : \A f \in batches[j] : f.n \in Nat
    <3>1. \A j \in 1..Len(batches) : batches[j] \subseteq FsEvent
      BY DEF Inv, TypeOK
    <3> QED BY <3>1 DEF FsEvent
  <2>3. ASSUME NEW j \in 1..Len(batches), NEW f \in batches[j],
               f.path = e.path, f # e
        PROVE  i < j <=> e.n < f.n
    <3>1. (i < j => e.n < f.n) /\ (j < i => f.n < e.n) /\ i # j
      BY <2>3 DEF InOrder, SentOrdered
    <3>2. i \in Nat /\ j \in Nat /\ e.n \in Nat /\ f.n \in Nat
      BY <2>2, <2>3
    <3> QED BY <3>1, <3>2
  <2> QED BY <2>1, <2>3
<1> QED BY <1>1, InitInv, StepInv, InitOrder, StepOrder, PTL DEF Spec
-----------------------------------------------------------------------------
(* One watch() call is a mailbox.                                          *)

Newest == [p \in WatchedPath |-> drained[1][p].n]
Letters == [i \in 1..Len(batches) |-> Told(batches[i])]
MailNext == [Mail!Next]_(Mail!vars)

\* A sequence with one member more, and with its first one less.
LEMMA MembersOfSeq ==
  ASSUME NEW S, NEW L \in Seq(S)
  PROVE  L \in [1..Len(L) -> S]
OBVIOUS

LEMMA AppendedIs ==
  ASSUME NEW S, NEW L \in Seq(S), NEW t \in S
  PROVE  Append(L, t) = [i \in 1..Len(L) + 1 |-> IF i = Len(L) + 1 THEN t ELSE L[i]]
<1> DEFINE F == [i \in 1..Len(L) + 1 |-> IF i = Len(L) + 1 THEN t ELSE L[i]]
<1>1. Len(L) \in Nat
  OBVIOUS
<1>2. /\ Append(L, t) \in [1..Len(L) + 1 -> S]
      /\ \A i \in 1..Len(L) + 1 : Append(L, t)[i] = F[i]
  <2>1. Append(L, t) \in Seq(S) /\ Len(Append(L, t)) = Len(L) + 1
    OBVIOUS
  <2>2. \A i \in 1..Len(L) + 1 : Append(L, t)[i] = F[i]
    OBVIOUS
  <2>3. Append(L, t) \in [1..Len(Append(L, t)) -> S]
    BY <2>1, MembersOfSeq
  <2> QED BY <2>1, <2>2, <2>3, Zenon
<1> QED BY <1>2, Zenon

LEMMA TailIs ==
  ASSUME NEW S, NEW L \in Seq(S), L # << >>
  PROVE  Tail(L) = [i \in 1..Len(L) - 1 |-> L[i + 1]]
<1> DEFINE F == [i \in 1..Len(L) - 1 |-> L[i + 1]]
<1>1. /\ Tail(L) \in [1..Len(L) - 1 -> S]
      /\ \A i \in 1..Len(L) - 1 : Tail(L)[i] = F[i]
  <2>1. Tail(L) \in Seq(S) /\ Len(Tail(L)) = Len(L) - 1
    OBVIOUS
  <2>2. \A i \in 1..Len(L) - 1 : Tail(L)[i] = F[i]
    OBVIOUS
  <2>3. Tail(L) \in [1..Len(Tail(L)) -> S]
    BY <2>1, MembersOfSeq
  <2> QED BY <2>1, <2>2, <2>3, Zenon
<1> QED BY <1>1, Zenon

\* The batches on their way, as letters.
LEMMA LettersFacts ==
  ASSUME Inv
  PROVE  /\ Len(batches) \in Nat /\ Letters \in Seq(SUBSET (WatchedPath \X Nat))
         /\ Len(Letters) = Len(batches)
         /\ \A i \in 1..Len(batches) : /\ Letters[i] = Told(batches[i])
                                       /\ \A e \in batches[i] : e \in FsEvent
<1>1. batches \in Seq((SUBSET FsEvent) \ {{}}) /\ Len(batches) \in Nat
  BY DEF Inv, TypeOK
<1>2. \A i \in 1..Len(batches) : batches[i] \in SUBSET FsEvent
  BY <1>1
<1>3. \A e \in FsEvent : <<e.path, e.n>> \in WatchedPath \X Nat
  BY DebounceAssumption DEF FsEvent
<1>4. \A i \in 1..Len(batches) : Told(batches[i]) \in SUBSET (WatchedPath \X Nat)
  BY <1>2, <1>3 DEF Told
<1>5. Letters \in [1..Len(batches) -> SUBSET (WatchedPath \X Nat)]
  BY <1>4 DEF Letters
<1>6. Letters \in Seq(SUBSET (WatchedPath \X Nat)) /\ Len(Letters) = Len(batches)
  BY <1>1, <1>5
<1> QED BY <1>1, <1>2, <1>6 DEF Letters

\* A step that changes neither of the four is a stutter of the mailbox.
LEMMA MailStutters ==
  ASSUME UNCHANGED <<changes, batches, seen>>,
         \A p \in WatchedPath : drained'[1][p].n = drained[1][p].n
  PROVE  MailNext
<1>1. Newest' = Newest /\ Letters' = Letters
  BY DEF Newest, Letters
<1> QED BY <1>1 DEF MailNext, Mail!vars, Newest, Letters

LEMMA MailRaised ==
  ASSUME Inv, Change
  PROVE  MailNext
<1>1. changes' = changes + 1 /\ UNCHANGED <<batches, seen, drained>>
  BY DEF Change
<1>2. Newest' = Newest /\ Letters' = Letters
  BY <1>1 DEF Newest, Letters
<1>3. Mail!Raise
  BY <1>1, <1>2 DEF Mail!Raise, Newest, Letters
<1> QED BY <1>3 DEF MailNext, Mail!Next

\* A drained event is accepted: it is newer than all before it.
LEMMA MailAccepted ==
  ASSUME Inv, InOrder, MaxWatch = 1, NEW s \in Session, DrainOne(s)
  PROVE  MailNext
<1> DEFINE e == Head(raw[s])
<1>1. s = 1 /\ 1 \in Session
  BY DEF Session
<1>2. /\ raw[s] \in Seq(FsEvent) /\ raw[s] # << >>
      /\ 1 \in 1..Len(raw[s]) /\ e = raw[s][1] /\ e \in FsEvent
  BY DEF DrainOne, Inv, TypeOK
<1>3. UNCHANGED <<changes, batches, seen>>
  BY DEF DrainOne
<1>4. CASE e.path \in Ignored
  BY <1>3, <1>4, MailStutters DEF DrainOne
<1>5. CASE e.path \notin Ignored
  <2>1. drained' = [drained EXCEPT ![1][e.path] = [n |-> e.n, age |-> 0]]
    BY <1>1, <1>5 DEF DrainOne
  <2>2. /\ e.path \in WatchedPath /\ e.n \in 1..MaxEvents /\ changes \in Nat
        /\ drained[1] \in [WatchedPath -> [n : 0..MaxEvents, age : 0..Debounce]]
        /\ drained \in [Session -> [WatchedPath -> [n : 0..MaxEvents, age : 0..Debounce]]]
    <3>1. e.path \in WatchedPath /\ e.n \in 1..MaxEvents
      BY <1>2 DEF FsEvent
    <3>2. drained \in [Session -> [WatchedPath -> [n : 0..MaxEvents, age : 0..Debounce]]]
      BY DEF Inv, TypeOK
    <3>3. changes \in Nat
      BY DebounceAssumption DEF Inv, TypeOK
    <3> QED BY <1>1, <3>1, <3>2, <3>3
  <2>3. \A p \in WatchedPath : drained'[1][p].n = IF p = e.path THEN e.n ELSE drained[1][p].n
    BY <1>1, <2>1, <2>2
  <2>4. Newest' = [Newest EXCEPT ![e.path] = e.n]
    BY <2>2, <2>3 DEF Newest
  <2>5. e.n <= changes /\ \A q \in WatchedPath : drained[1][q].n < e.n
    BY <1>1, <1>2 DEF InOrder, RawOrdered
  <2>6. e.n \in 1..changes /\ \A q \in WatchedPath : Newest[q] < e.n
    <3>1. e.n \in 1..changes
      BY <2>2, <2>5, DebounceAssumption
    <3> QED BY <3>1, <2>5 DEF Newest
  <2>7. Letters' = Letters
    BY <1>3 DEF Letters
  <2>8. PICK p \in WatchedPath, n \in 1..changes : p = e.path /\ n = e.n
    BY <2>2, <2>6
  <2>9. Mail!Accept(p, n)
    BY <1>3, <2>4, <2>6, <2>7, <2>8 DEF Mail!Accept, Newest, Letters
  <2> QED BY <2>9 DEF MailNext, Mail!Next
<1> QED BY <1>4, <1>5

\* What a flush sends is the newest the mailbox has of those paths, and none of
\* it is under way already.
LEMMA MailSent ==
  ASSUME Inv, InOrder, MaxWatch = 1, NEW s \in Session, NEW Out \in SUBSET pending[s],
         TrySend({x.ev : x \in Out}), UNCHANGED <<changes, seen, drained>>
  PROVE  MailNext
<1> DEFINE P == {x.ev.path : x \in Out}
           evs == {x.ev : x \in Out}
<1>1. s = 1 /\ 1 \in Session /\ sessions <= 1
  BY DEF Session, Inv, TypeOK
<1>2. SentOrdered
  BY <1>1 DEF InOrder
<1>3. \A x \in Out : /\ x \in pending[s] /\ x.ev.path \in WatchedPath
                    /\ x.ev.n = drained[1][x.ev.path].n
  BY <1>1, PendingFacts DEF Inv, NewestWaits, TypeOK
<1>4. CASE batches' = batches
  BY <1>4, MailStutters
<1>5. CASE evs # {} /\ batches' = Append(batches, evs)
  <2>1. Told(evs) = {<<p, Newest[p]>> : p \in P}
    BY <1>3 DEF Told, Newest
  <2>2. P # {} /\ P \in SUBSET WatchedPath
    BY <1>3, <1>5
  <2>3. Letters' = Append(Letters, Told(evs))
    <3>1. /\ batches \in Seq((SUBSET FsEvent) \ {{}}) /\ Len(batches') = Len(batches) + 1
          /\ \A i \in 1..Len(batches) : batches'[i] = batches[i]
          /\ batches'[Len(batches) + 1] = evs
      BY <1>5 DEF Inv, TypeOK
    <3> DEFINE n == Len(batches)  L == Letters  t == Told(evs)
    <3>2. n \in Nat /\ L \in Seq(SUBSET (WatchedPath \X Nat)) /\ Len(L) = n
          /\ \A i \in 1..n : L[i] = Told(batches[i])
      BY LettersFacts
    <3>3. Letters' = [i \in 1..n + 1 |-> IF i = n + 1 THEN t ELSE L[i]]
      <4>1. \A i \in 1..n + 1 : i = n + 1 \/ i \in 1..n
        BY <3>2
      <4> QED BY <3>1, <3>2, <4>1 DEF Letters, Told
    <3>4. t \in SUBSET (WatchedPath \X Nat)
      <4>1. \A x \in Out : x.ev.n \in 1..MaxEvents
        BY <1>3, PendingFacts DEF Inv, TypeOK
      <4>2. \A x \in Out : x.ev.n \in Nat
        BY <4>1, DebounceAssumption
      <4> QED BY <1>3, <4>2 DEF Told
    <3> HIDE DEF L, t, n
    <3>5. Append(L, t) = [i \in 1..n + 1 |-> IF i = n + 1 THEN t ELSE L[i]]
      BY <3>2, <3>4, AppendedIs
    <3> QED BY <3>3, <3>5 DEF L, t
  <2>4. ASSUME NEW p \in P
        PROVE  /\ seen[p] < Newest[p]
               /\ \A i \in 1..Len(Letters) : \A x \in Letters[i] : x[1] = p => x[2] < Newest[p]
    <3>1. PICK x \in Out : x.ev.path = p
      OBVIOUS
    <3>2. Newest[p] = x.ev.n
      BY <1>3, <3>1 DEF Newest
    <3>3. seen[p] < Newest[p]
      BY <1>2, <1>3, <3>1, <3>2 DEF SentOrdered
    <3>4. ASSUME NEW i \in 1..Len(Letters), NEW y \in Letters[i], y[1] = p
          PROVE  y[2] < Newest[p]
      <4>1. i \in 1..Len(batches) /\ y \in Told(batches[i])
        BY <3>4, LettersFacts
      <4>2. PICK e \in batches[i] : y = <<e.path, e.n>>
        BY <4>1 DEF Told
      <4>3. e.path = p /\ y[2] = e.n
        BY <3>4, <4>2
      <4>4. e.n < x.ev.n
        BY <1>2, <1>3, <3>1, <4>1, <4>3 DEF SentOrdered
      <4> QED BY <3>2, <4>3, <4>4
    <3> QED BY <3>3, <3>4
  <2>5. Newest' = Newest /\ UNCHANGED <<changes, seen>>
    BY DEF Newest
  <2> HIDE DEF P, evs
  <2>6. Mail!Send(P)
    BY <2>1, <2>2, <2>3, <2>4, <2>5 DEF Mail!Send, Mail!Untold, Newest, Letters
  <2> QED BY <2>2, <2>6 DEF MailNext, Mail!Next
<1> QED BY <1>4, <1>5 DEF TrySend

LEMMA MailReceived ==
  ASSUME Inv, InOrder, MaxWatch = 1, Receive
  PROVE  MailNext
<1>1. /\ batches # << >> /\ batches' = Tail(batches) /\ UNCHANGED <<changes, drained>>
      /\ batches \in Seq((SUBSET FsEvent) \ {{}})
  BY DEF Receive, Inv, TypeOK
<1> DEFINE n == Len(batches)  L == Letters
<1>2. n \in Nat /\ L \in Seq(SUBSET (WatchedPath \X Nat)) /\ Len(L) = n
      /\ \A i \in 1..n : L[i] = Told(batches[i])
  BY LettersFacts
<1>3. /\ 1 \in 1..n /\ Head(batches) = batches[1] /\ Len(batches') = n - 1
      /\ \A i \in 1..n - 1 : batches'[i] = batches[i + 1] /\ i + 1 \in 1..n
  BY <1>1
<1>4. Letters' = [i \in 1..n - 1 |-> L[i + 1]]
  BY <1>2, <1>3 DEF Letters, Told
<1>5. L # << >> /\ Tail(L) = [i \in 1..n - 1 |-> L[i + 1]] /\ Head(L) = Told(Head(batches))
  <2>1. L # << >> /\ Head(L) = L[1]
    BY <1>2, <1>3
  <2> HIDE DEF L, n
  <2>2. Tail(L) = [i \in 1..n - 1 |-> L[i + 1]]
    BY <1>2, <2>1, TailIs
  <2> QED BY <2>1, <2>2, <1>2, <1>3
<1>6. ASSUME NEW p \in WatchedPath
      PROVE  seen'[p] = IF \E x \in Head(L) : x[1] = p
                        THEN (CHOOSE x \in Head(L) : x[1] = p)[2] ELSE seen[p]
  <2>1. sessions <= 1 /\ SentOrdered
    BY DEF Session, Inv, TypeOK, InOrder
  <2>2. \A e, f \in batches[1] : e.path = f.path => e = f
    BY <1>3, <2>1 DEF SentOrdered
  <2>3. seen'[p] = IF \E e \in batches[1] : e.path = p
                   THEN (CHOOSE e \in batches[1] : e.path = p).n ELSE seen[p]
    BY <1>3 DEF Receive
  <2>4. Head(L) = {<<e.path, e.n>> : e \in batches[1]}
    BY <1>3, <1>5 DEF Told
  <2> HIDE DEF L, n
  <2>5. CASE \E e \in batches[1] : e.path = p
    <3>1. PICK e \in batches[1] : e.path = p
      BY <2>5
    <3>2. seen'[p] = e.n
      <4>1. (CHOOSE f \in batches[1] : f.path = p) = e
        BY <2>2, <3>1
      <4> QED BY <2>3, <3>1, <4>1
    <3>3. <<e.path, e.n>> \in Head(L) /\ <<e.path, e.n>>[1] = p
      BY <2>4, <3>1
    <3>4. ASSUME NEW x \in Head(L), x[1] = p PROVE x[2] = e.n
      <4>1. PICK f \in batches[1] : x = <<f.path, f.n>>
        BY <2>4
      <4>2. f.path = p /\ x[2] = f.n
        BY <3>4, <4>1
      <4> QED BY <2>2, <3>1, <4>1, <4>2
    <3> QED BY <3>2, <3>3, <3>4
  <2>6. CASE ~\E e \in batches[1] : e.path = p
    <3>1. ~\E x \in Head(L) : x[1] = p
      <4> SUFFICES ASSUME NEW x \in Head(L), x[1] = p PROVE FALSE
        OBVIOUS
      <4>1. PICK f \in batches[1] : x = <<f.path, f.n>>
        BY <2>4
      <4> QED BY <2>6, <4>1
    <3> QED BY <2>3, <2>6, <3>1
  <2> QED BY <2>5, <2>6
<1>7. seen' = [p \in WatchedPath |-> IF \E x \in Head(L) : x[1] = p
                 THEN (CHOOSE x \in Head(L) : x[1] = p)[2] ELSE seen[p]]
  <2>1. seen' = [p \in WatchedPath |-> seen'[p]]
    BY DEF Receive
  <2> HIDE DEF L, n
  <2> QED BY <1>6, <2>1
<1>8. Newest' = Newest
  BY <1>1 DEF Newest
<1>9. Mail!Receive
  BY <1>1, <1>4, <1>5, <1>7, <1>8 DEF Mail!Receive, Newest, Letters
<1> QED BY <1>9 DEF MailNext, Mail!Next

(* One watch() call implements Mailbox: whatever the two channels lose,    *)
(* however changes follow each other while they wait, and whenever the     *)
(* watcher is stopped, of a path only the newest accepted change is sent,  *)
(* never twice and never after a later one (watcher.rs:83-116,             *)
(* debounce.rs:21-48).                                                     *)
THEOREM MailRefined ==
  ASSUME MaxWatch = 1
  PROVE  Spec => MailDelivered
<1>1. Init => Mail!Init
  <2> SUFFICES ASSUME Init PROVE Mail!Init
    OBVIOUS
  <2>1. changes = 0 /\ batches = << >> /\ seen = [p \in WatchedPath |-> 0]
        /\ \A p \in WatchedPath : drained[1][p].n = 0
    BY DEF Init, Session
  <2>2. Newest = [p \in WatchedPath |-> 0]
    BY <2>1 DEF Newest
  <2>3. Letters = << >>
    BY <2>1 DEF Letters
  <2> QED BY <2>1, <2>2, <2>3 DEF Mail!Init, Newest, Letters
<1>2. Inv /\ InOrder /\ [Next]_vars => MailNext
  <2> SUFFICES ASSUME Inv, InOrder, [Next]_vars PROVE MailNext
    OBVIOUS
  <2>1. CASE UNCHANGED vars
    BY <2>1, MailStutters DEF vars
  <2>2. CASE Watch \/ Stop
    BY <2>2, MailStutters DEF Watch, Stop
  <2>3. CASE Change
    BY <2>3, MailRaised
  <2>4. CASE Tick
    <3>1. \A p \in WatchedPath : drained'[1][p].n = drained[1][p].n
      <4>1. 1 \in Session /\ drained \in
              [Session -> [WatchedPath -> [n : 0..MaxEvents, age : 0..Debounce]]]
        BY DEF Session, Inv, TypeOK
      <4> QED BY <2>4, <4>1 DEF Tick
    <3> QED BY <2>4, <3>1, MailStutters DEF Tick
  <2>5. CASE Receive
    BY <2>5, MailReceived
  <2>6. ASSUME NEW s \in Session, Thread(s) PROVE MailNext
    <3>1. CASE Check(s) \/ DrainEnd(s)
      BY <3>1, MailStutters DEF Check, DrainEnd
    <3>2. CASE DrainOne(s)
      BY <3>2, MailAccepted
    <3>3. CASE Flush(s)
      <4>1. Ready(pending[s]) \in SUBSET pending[s]
        BY DEF Ready
      <4> QED BY <3>3, <4>1, MailSent DEF Flush
    <3>4. CASE FinalFlush(s)
      <4>1. pending[s] \in SUBSET pending[s]
        OBVIOUS
      <4> QED BY <3>4, <4>1, MailSent DEF FinalFlush
    <3> QED BY <2>6, <3>1, <3>2, <3>3, <3>4 DEF Thread
  <2> QED BY <2>1, <2>2, <2>3, <2>4, <2>5, <2>6 DEF Next
<1> QED BY <1>1, <1>2, InitInv, StepInv, InitOrder, StepOrder, PTL
    DEF Spec, MailDelivered, Mail!Spec, MailNext
=============================================================================
