------------------------------ MODULE Debouncer -----------------------------
(***************************************************************************)
(* EventDebouncer (semfs-watch/src/debounce.rs) and the events it holds    *)
(* (events.rs). The pending map, keyed by FsEvent::path, is a set of       *)
(* records of which no two have the same path; an Instant is an age in     *)
(* ticks, which stops counting once it is beyond the debounce duration.    *)
(***************************************************************************)
EXTENDS Naturals

CONSTANTS WatchedPath,   \* the paths under the watched directory
          NoPath,        \* the `from` of an event that is not a rename
          Debounce,      \* debounce_duration, in ticks
          MaxEvents      \* bound: events the file system raises

ASSUME DebounceAssumption ==
  Debounce \in Nat /\ NoPath \notin WatchedPath /\ MaxEvents \in Nat

\* n numbers the file-system changes; path is where FsEvent::path() points,
\* the new name for a rename.
FsEvent == [path : WatchedPath, n : 1..MaxEvents,
            kind : {"created", "modified", "deleted", "renamed"},
            from : WatchedPath \cup {NoPath}]

Pending == [ev : FsEvent, age : 0..Debounce]

Older(P) == {[x EXCEPT !.age = IF @ < Debounce THEN @ + 1 ELSE @] : x \in P}

\* The keys flush_ready takes out.
Ready(P) == {x \in P : x.age >= Debounce}

KeepsBoth(P, e) == P \cup {[ev |-> e, age |-> 0]}
FirstWins(P, e) ==
  IF \E x \in P : x.ev.path = e.path THEN P ELSE P \cup {[ev |-> e, age |-> 0]}

\* HashMap::insert: the newest event of a path replaces the one before it, and
\* its wait starts again.
Insert(P, e) == {x \in P : x.ev.path # e.path} \cup {[ev |-> e, age |-> 0]}

AddKeepsNothing(P, e) == {}

\* add_event takes the ready events out of the map after the insertion, and
\* returns them to a caller that does not look at them.
HandedOut(P, e) == Ready(Insert(P, e))
AddEvent(P, e) == Insert(P, e) \ HandedOut(P, e)
=============================================================================
