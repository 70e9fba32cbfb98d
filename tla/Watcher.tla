------------------------------- MODULE Watcher ------------------------------
(***************************************************************************)
(* FileSystemWatcher (semfs-watch/src/watcher.rs): notify's callback puts  *)
(* converted events into the bounded channel of the current watch() call;  *)
(* the debounce thread of that call drains them through an EventDebouncer  *)
(* and sends batches to the channel all calls share. stop() clears the     *)
(* flag the threads poll and does not wait for them.                       *)
(***************************************************************************)
EXTENDS Debouncer, Sequences

CONSTANTS Ignored,    \* paths that contain an ignored pattern
          RawCap,     \* capacity of the raw channel (10000)
          BatchCap,   \* capacity of the batch channel (1000)
          MaxWatch    \* bound: successful watch() calls

ASSUME WatcherAssumption ==
  /\ Ignored \subseteq WatchedPath
  /\ RawCap \in Nat \ {0} /\ BatchCap \in Nat \ {0} /\ MaxWatch \in Nat

Session == 1..MaxWatch

VARIABLES
  running,    \* the shared AtomicBool
  active,     \* the session whose notify watcher is installed, 0 if none
  sessions,   \* watch() calls so far
  raw,        \* session -> its channel of raw events
  pending,    \* session -> the debouncer of its thread
  tpc,        \* session -> where its debounce thread is
  batches,    \* the shared channel of batches
  changes,    \* file-system changes so far
  \* history
  drained,    \* session -> path -> the newest drained event: number and age
  seen,       \* path -> number of the newest event the consumer received
  unread,     \* path -> number of the newest event add_event handed out
  overflow    \* a try_send found its channel full or without a receiver

vars == <<running, active, sessions, raw, pending, tpc, batches, changes,
          drained, seen, unread, overflow>>

ThreadStep == {"none", "check", "drain", "flush", "final", "done"}

TypeOK ==
  /\ running \in BOOLEAN /\ overflow \in BOOLEAN
  /\ sessions \in 0..MaxWatch /\ active \in 0..sessions
  /\ changes \in 0..MaxEvents
  /\ raw \in [Session -> Seq(FsEvent)]
  /\ \A s \in Session : Len(raw[s]) <= RawCap
  /\ tpc \in [Session -> ThreadStep]
  /\ pending \in [Session -> SUBSET Pending]
  /\ \A s \in Session : \A x, y \in pending[s] : x.ev.path = y.ev.path => x = y
  /\ batches \in Seq((SUBSET FsEvent) \ {{}}) /\ Len(batches) <= BatchCap
  /\ drained \in [Session -> [WatchedPath -> [n : 0..MaxEvents, age : 0..Debounce]]]
  /\ seen \in [WatchedPath -> 0..MaxEvents] /\ unread \in [WatchedPath -> 0..MaxEvents]

Init ==
  /\ running = FALSE /\ active = 0 /\ sessions = 0 /\ changes = 0
  /\ raw = [s \in Session |-> << >>]
  /\ pending = [s \in Session |-> {}]
  /\ tpc = [s \in Session |-> "none"]
  /\ batches = << >>
  /\ drained = [s \in Session |-> [p \in WatchedPath |-> [n |-> 0, age |-> 0]]]
  /\ seen = [p \in WatchedPath |-> 0] /\ unread = [p \in WatchedPath |-> 0]
  /\ overflow = FALSE

-----------------------------------------------------------------------------
\* The watcher is installed and the flag set before the thread is spawned, so
\* a failed spawn leaves both behind with no thread to serve them.
Watch ==
  /\ ~running /\ sessions < MaxWatch
  /\ sessions' = sessions + 1 /\ active' = sessions + 1 /\ running' = TRUE
  /\ \E step \in {"check", "none"} : tpc' = [tpc EXCEPT ![sessions + 1] = step]
  /\ UNCHANGED <<raw, pending, batches, changes, drained, seen, overflow, unread>>

Stop ==
  /\ running
  /\ running' = FALSE /\ active' = 0
  /\ UNCHANGED <<sessions, raw, pending, tpc, batches, changes, drained, seen, overflow, unread>>

\* convert_notify_event: a rename known by both its names is one event, a
\* rename of which one name is known is a modification of that name.
Converted(n, kind, p, q) ==
  CASE kind = "rename both" -> [path |-> q, n |-> n, kind |-> "renamed", from |-> p]
    [] kind = "rename half" -> [path |-> p, n |-> n, kind |-> "modified", from |-> NoPath]
    [] OTHER                -> [path |-> p, n |-> n, kind |-> kind, from |-> NoPath]

\* A change under the watched directory reaches the callback, which drops the
\* event if the raw channel is full, or has no receiver because the thread that
\* owned it never started.
Change ==
  /\ active # 0 /\ changes < MaxEvents
  /\ changes' = changes + 1
  /\ \E kind \in {"created", "modified", "deleted", "rename both", "rename half"},
        p, q \in WatchedPath :
       LET lost == Len(raw[active]) = RawCap \/ tpc[active] = "none"
           e == Converted(changes + 1, kind, p, q)
       IN  /\ kind = "rename both" <=> p # q
           /\ raw' = IF lost THEN raw ELSE [raw EXCEPT ![active] = Append(@, e)]
           /\ overflow' = (overflow \/ lost)
  /\ UNCHANGED <<running, active, sessions, pending, tpc, batches, drained, seen, unread>>

-----------------------------------------------------------------------------
\* One turn of the thread: poll the flag, drain, flush, sleep.
Check(s) ==
  /\ tpc[s] = "check"
  /\ tpc' = [tpc EXCEPT ![s] = IF running THEN "drain" ELSE "final"]
  /\ UNCHANGED <<running, active, sessions, raw, pending, batches, changes,
                 drained, seen, overflow, unread>>

DrainOne(s) ==
  /\ tpc[s] = "drain" /\ raw[s] # << >>
  /\ raw' = [raw EXCEPT ![s] = Tail(@)]
  /\ LET e == Head(raw[s]) IN
       IF e.path \in Ignored THEN UNCHANGED <<pending, drained, unread>>
       ELSE /\ pending' = [pending EXCEPT ![s] = AddEvent(@, e)]
            /\ drained' = [drained EXCEPT ![s][e.path] = [n |-> e.n, age |-> 0]]
            /\ unread' = [p \in WatchedPath |->
                 IF \E x \in HandedOut(pending[s], e) : x.ev.path = p
                 THEN (CHOOSE x \in HandedOut(pending[s], e) : x.ev.path = p).ev.n
                 ELSE unread[p]]
  /\ UNCHANGED <<running, active, sessions, tpc, batches, changes, seen, overflow>>

DrainEnd(s) ==
  /\ tpc[s] = "drain" /\ raw[s] = << >>
  /\ tpc' = [tpc EXCEPT ![s] = "flush"]
  /\ UNCHANGED <<running, active, sessions, raw, pending, batches, changes,
                 drained, seen, overflow, unread>>

\* try_send of a batch: an empty one is not sent, and one that finds the
\* channel full is lost.
TrySend(evs) ==
  /\ batches' = IF evs = {} \/ Len(batches) = BatchCap THEN batches
                ELSE Append(batches, evs)
  /\ overflow' = (overflow \/ (evs # {} /\ Len(batches) = BatchCap))

FlushKeepsPending(s) ==
  /\ tpc[s] = "flush"
  /\ TrySend({x.ev : x \in Ready(pending[s])})
  /\ tpc' = [tpc EXCEPT ![s] = "check"]
  /\ UNCHANGED <<running, active, sessions, raw, pending, changes, drained, seen, unread>>

FlushAll(s) ==
  /\ tpc[s] = "flush"
  /\ TrySend({x.ev : x \in pending[s]})
  /\ pending' = [pending EXCEPT ![s] = {}]
  /\ tpc' = [tpc EXCEPT ![s] = "check"]
  /\ UNCHANGED <<running, active, sessions, raw, changes, drained, seen, unread>>

Flush(s) ==
  /\ tpc[s] = "flush"
  /\ TrySend({x.ev : x \in Ready(pending[s])})
  /\ pending' = [pending EXCEPT ![s] = @ \ Ready(@)]
  /\ tpc' = [tpc EXCEPT ![s] = "check"]
  /\ UNCHANGED <<running, active, sessions, raw, changes, drained, seen, unread>>

FinalFlushSkipped(s) ==
  /\ tpc[s] = "final"
  /\ tpc' = [tpc EXCEPT ![s] = "done"]
  /\ UNCHANGED <<running, active, sessions, raw, pending, batches, changes,
                 drained, seen, overflow, unread>>

FinalFlush(s) ==
  /\ tpc[s] = "final"
  /\ TrySend({x.ev : x \in pending[s]})
  /\ pending' = [pending EXCEPT ![s] = {}]
  /\ tpc' = [tpc EXCEPT ![s] = "done"]
  /\ UNCHANGED <<running, active, sessions, raw, changes, drained, seen, unread>>

-----------------------------------------------------------------------------
\* Time passes for every event that waits.
Tick ==
  /\ \E s \in Session : \/ pending[s] # Older(pending[s])
                        \/ \E p \in WatchedPath : drained[s][p].age < Debounce
  /\ pending' = [s \in Session |-> Older(pending[s])]
  /\ drained' = [s \in Session |-> [p \in WatchedPath |->
                   [drained[s][p] EXCEPT !.age = IF @ < Debounce THEN @ + 1 ELSE @]]]
  /\ UNCHANGED <<running, active, sessions, raw, tpc, batches, changes, seen, overflow, unread>>

\* The holder of receiver() takes a batch.
Receive ==
  /\ batches # << >>
  /\ batches' = Tail(batches)
  /\ seen' = [p \in WatchedPath |->
                IF \E e \in Head(batches) : e.path = p
                THEN (CHOOSE e \in Head(batches) : e.path = p).n ELSE seen[p]]
  /\ UNCHANGED <<running, active, sessions, raw, pending, tpc, changes, drained, overflow, unread>>

Thread(s) == Check(s) \/ DrainOne(s) \/ DrainEnd(s) \/ Flush(s) \/ FinalFlush(s)

Next == Watch \/ Stop \/ Change \/ Tick \/ Receive \/ \E s \in Session : Thread(s)

Spec == Init /\ [][Next]_vars

\* The threads run, the clock advances and the consumer keeps receiving.
FairSpec ==
  Spec /\ WF_vars(Tick) /\ WF_vars(Receive) /\ \A s \in Session : WF_vars(Thread(s))

-----------------------------------------------------------------------------
(* For one watch() call, the two channels and the map between them are one *)
(* mailbox: the consumer learns of the changes of a path in the order they *)
(* happened, of each at most once, and is sent only the newest that the    *)
(* thread knows (watcher.rs:91-110, debounce.rs:21-48).                    *)
Told(batch) == {<<e.path, e.n>> : e \in batch}

Mail == INSTANCE Mailbox WITH
  Path   <- WatchedPath,
  raised <- changes,
  newest <- [p \in WatchedPath |-> drained[1][p].n],
  mail   <- [i \in 1..Len(batches) |-> Told(batches[i])],
  seen   <- seen

MailDelivered == Mail!Spec

Sent == batches' # batches /\ Len(batches') > Len(batches)
SentEvents == batches'[Len(batches')]

(* A batch speaks of the newest state its thread knows: no event is sent   *)
(* once a newer one of the same path has been drained (debounce.rs:21-25). *)
NewestWins ==
  [][Sent => \A s \in Session :
       tpc'[s] # tpc[s] => \A e \in SentEvents : e.n = drained[s][e.path].n]_vars

(* The debouncer does its work: while watching, an event is sent only when *)
(* its path has been quiet for the whole debounce time; stopping is the    *)
(* only exception (debounce.rs:28-48, watcher.rs:103-115).                 *)
Debounced ==
  [][Sent => \A s \in Session :
       tpc[s] = "flush" /\ tpc'[s] # "flush" =>
         \A e \in SentEvents : drained[s][e.path].age >= Debounce]_vars

(* Every change that reaches the thread is delivered, or a later one of its*)
(* path, unless a channel was full, its path is ignored, the watcher was   *)
(* stopped, or add_event handed the event to a caller that does not look:  *)
(* the last change before a silence never is (watcher.rs:91-110).          *)
FirstQueued(p, n) ==
  \E s \in Session : /\ tpc[s] # "none" /\ raw[s] # << >>
                     /\ raw[s][1].path = p /\ raw[s][1].n = n

ChangesDelivered ==
  \A p \in WatchedPath \ Ignored, n \in 1..MaxEvents :
    FirstQueued(p, n) ~>
      (seen[p] >= n \/ (unread[p] >= n /\ n < changes) \/ overflow \/ ~running)

(* A thread that was told to stop ends, and leaves no event behind in its  *)
(* map (watcher.rs:91, 112-115, 126-134).                                  *)
StopEndsThread ==
  \A s \in Session :
    (tpc[s] # "none" /\ ~running) ~> (tpc[s] = "done" /\ pending[s] = {})

=============================================================================
