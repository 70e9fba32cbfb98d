---------------------------- MODULE OperationLog ----------------------------
(***************************************************************************)
(* What the write-ahead log promises its callers, seen from outside: an    *)
(* operation is announced once, under an identifier that is never used     *)
(* again; it is settled exactly once, as done or as failed, and keeps that *)
(* verdict; only the record of a done operation may be forgotten.          *)
(***************************************************************************)
EXTENDS Naturals

CONSTANT Op     \* what can be announced

VARIABLES announced,   \* the number of identifiers handed out so far
          record,      \* identifier -> the operation announced under it
          verdict      \* identifier -> "open", "done" or "failed"

vars == <<announced, record, verdict>>

Init == announced = 0 /\ record = << >> /\ verdict = << >>

Announce(op) ==
  /\ announced' = announced + 1
  /\ record' = [i \in DOMAIN record \cup {announced + 1} |->
                  IF i = announced + 1 THEN op ELSE record[i]]
  /\ verdict' = [i \in DOMAIN verdict \cup {announced + 1} |->
                  IF i = announced + 1 THEN "open" ELSE verdict[i]]

Settle(i, v) ==
  /\ verdict[i] = "open"
  /\ verdict' = [verdict EXCEPT ![i] = v]
  /\ UNCHANGED <<announced, record>>

Forget(S) ==
  /\ \A i \in S : verdict[i] = "done"
  /\ record' = [i \in DOMAIN record \ S |-> record[i]]
  /\ verdict' = [i \in DOMAIN verdict \ S |-> verdict[i]]
  /\ UNCHANGED announced

Next ==
  \/ \E op \in Op : Announce(op)
  \/ \E i \in DOMAIN verdict, v \in {"done", "failed"} : Settle(i, v)
  \/ \E S \in SUBSET DOMAIN verdict : Forget(S)

Spec == Init /\ [][Next]_vars
=============================================================================
