------------------------------- MODULE Mailbox ------------------------------
(***************************************************************************)
(* What one watch() promises its consumer, seen from outside: of each path *)
(* the newest change that was accepted is sent, at most once, and what is  *)
(* sent is received in that order. A change need not be accepted, nor sent.*)
(***************************************************************************)
EXTENDS Integers, Sequences

CONSTANT Path

VARIABLES raised,   \* the number of changes so far, which numbers them
          newest,   \* path -> its newest accepted change, 0 if none
          mail,     \* the batches sent and not yet received: paths with numbers
          seen      \* path -> the change the consumer was last told of

vars == <<raised, newest, mail, seen>>

Init ==
  /\ raised = 0 /\ mail = << >>
  /\ newest = [p \in Path |-> 0] /\ seen = [p \in Path |-> 0]

Raise == raised' = raised + 1 /\ UNCHANGED <<newest, mail, seen>>

\* Changes of all paths are accepted in the order they happened.
Accept(p, n) ==
  /\ n \in 1..raised /\ \A q \in Path : newest[q] < n
  /\ newest' = [newest EXCEPT ![p] = n]
  /\ UNCHANGED <<raised, mail, seen>>

Untold(p) ==
  /\ seen[p] < newest[p]
  /\ \A i \in 1..Len(mail) : \A x \in mail[i] : x[1] = p => x[2] < newest[p]

Send(P) ==
  /\ P # {} /\ \A p \in P : Untold(p)
  /\ mail' = Append(mail, {<<p, newest[p]>> : p \in P})
  /\ UNCHANGED <<raised, newest, seen>>

Receive ==
  /\ mail # << >> /\ mail' = Tail(mail)
  /\ seen' = [p \in Path |->
                IF \E x \in Head(mail) : x[1] = p
                THEN (CHOOSE x \in Head(mail) : x[1] = p)[2] ELSE seen[p]]
  /\ UNCHANGED <<raised, newest>>

Next ==
  \/ Raise
  \/ \E p \in Path, n \in 1..raised : Accept(p, n)
  \/ \E P \in SUBSET Path : Send(P)
  \/ Receive

Spec == Init /\ [][Next]_vars
=============================================================================
