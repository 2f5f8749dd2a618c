---------------------------- MODULE MessageChannel ----------------------------
(***************************************************************************)
(* What a message queue promises the threads that use it, whatever way it  *)
(* keeps its messages: every accepted message is delivered once, unaltered *)
(* and in order (an urgent one before all that wait), and no more than     *)
(* Capacity of them are under way.  RtMessageQueue (rtthread/3.0.3/src/    *)
(* ipc.c) is checked to implement it.                                      *)
(***************************************************************************)
EXTENDS Naturals, Sequences, FiniteSets

CONSTANTS Users, Messages, Blank, Capacity

VARIABLES queue,   \* the messages that wait, the next one first
          role,    \* what each user is in the middle of
          hand     \* the message each user sends or receives

Busy == {u \in Users : role[u] # "idle"}

Init ==
    /\ queue = <<>>
    /\ role = [u \in Users |-> "idle"]
    /\ hand = [u \in Users |-> Blank]

Begin(u, m, r) ==
    /\ role[u] = "idle"
    /\ Len(queue) + Cardinality(Busy) < Capacity
    /\ role' = [role EXCEPT ![u] = r]
    /\ hand' = [hand EXCEPT ![u] = m]
    /\ UNCHANGED queue

Publish(u) ==
    /\ \/ role[u] = "sending" /\ queue' = Append(queue, hand[u])
       \/ role[u] = "urgent" /\ queue' = <<hand[u]>> \o queue
    /\ role' = [role EXCEPT ![u] = "idle"]
    /\ hand' = [hand EXCEPT ![u] = Blank]

Take(u) ==
    /\ role[u] = "idle" /\ queue # <<>>
    /\ hand' = [hand EXCEPT ![u] = Head(queue)]
    /\ queue' = Tail(queue)
    /\ role' = [role EXCEPT ![u] = "receiving"]

Release(u) ==
    /\ role[u] = "receiving"
    /\ role' = [role EXCEPT ![u] = "idle"]
    /\ hand' = [hand EXCEPT ![u] = Blank]
    /\ UNCHANGED queue

Clear ==
    /\ queue' = <<>>
    /\ UNCHANGED <<role, hand>>

Next ==
    \/ \E u \in Users :
           \/ \E m \in Messages, r \in {"sending", "urgent"} : Begin(u, m, r)
           \/ Publish(u)
           \/ Take(u)
           \/ Release(u)
    \/ Clear

Spec == Init /\ [][Next]_<<queue, role, hand>>
=============================================================================
