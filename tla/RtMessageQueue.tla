---------------------------- MODULE RtMessageQueue ----------------------------
(***************************************************************************)
(* The message queue of the RT-Thread kernel, rtthread/3.0.3/src/ipc.c,    *)
(* with the threads that send to it and sleep on it.  Its nodes are on one *)
(* of two singly linked lists, free and queued, or in the hand of a thread *)
(* that copies a message with interrupts enabled.                          *)
(*                                                                         *)
(* A stretch of code between rt_hw_interrupt_disable and _enable is one    *)
(* action, and so is each copy: other threads step in around all of them.  *)
(* A sender may as well be an interrupt handler.                           *)
(***************************************************************************)
EXTENDS Naturals, Sequences, FiniteSets

CONSTANTS Nodes,       \* the message nodes of msg_pool; max_msgs of them
          Threads,     \* the threads that use the queue
          Producers,   \* those of them that call rt_mq_send or rt_mq_urgent
          Consumers,   \* those of them that call rt_mq_recv
          Messages,    \* the contents a message may have
          Null,        \* RT_NULL
          InitOrder,   \* the nodes in address order
          Waits        \* the timeouts callers pass to rt_mq_recv

\* The classes of rt_int32_t timeout rt_mq_recv tells apart.
NoWait  == "no_wait"   \* timeout == 0
Timed   == "timed"     \* timeout > 0
Forever == "forever"   \* timeout < 0

Total == Cardinality(Nodes)

ASSUME QueueConstants ==
    /\ IsFiniteSet(Nodes) /\ Cardinality(Nodes) \in Nat \ {0}
    /\ InitOrder \in [1 .. Cardinality(Nodes) -> Nodes]
    /\ \A i, k \in 1 .. Cardinality(Nodes) :
           InitOrder[i] = InitOrder[k] => i = k
    /\ \A n \in Nodes : \E i \in 1 .. Cardinality(Nodes) : InitOrder[i] = n
    /\ Null \notin Nodes \cup Messages
    /\ IsFiniteSet(Threads)
    /\ Producers \subseteq Threads /\ Consumers \subseteq Threads
    /\ Waits \subseteq {NoWait, Timed, Forever}

VARIABLES
    msg_queue_head,    \* mq->msg_queue_head: the next message to deliver
    msg_queue_tail,    \* mq->msg_queue_tail: the last one
    msg_queue_free,    \* mq->msg_queue_free: the first free node
    next,              \* msg->next of every node
    data,              \* the message behind every node's header
    entry,             \* mq->entry: the number of queued messages
    suspend_thread,    \* mq->parent.suspend_thread, the longest sleeper first
    pc,                \* where each thread is in the queue's functions
    timeout,           \* its timeout argument, while the call lasts
    error,             \* thread->error
    msg,               \* its local msg: the node in its hand
    buffer             \* what its buffer argument points to, likewise

listVars == <<msg_queue_head, msg_queue_tail, msg_queue_free, next, entry>>
waitVars == <<suspend_thread, timeout, error>>
vars     == <<listVars, data, waitVars, pc, msg, buffer>>

\* A thread with a node in its hand is at one of these points.
Senders   == {"send", "send_link", "urgent", "urgent_link"}
Receivers == {"recv_copy", "recv_free"}

\* rt_mq_init pushes the nodes on the free list one by one.
Init ==
    /\ msg_queue_head = Null /\ msg_queue_tail = Null
    /\ msg_queue_free = InitOrder[Total]
    /\ next = [n \in Nodes |->
           LET i == CHOOSE k \in 1 .. Total : InitOrder[k] = n
           IN  IF i = 1 THEN Null ELSE InitOrder[i - 1]]
    /\ data = [n \in Nodes |-> Null]
    /\ entry = 0
    /\ suspend_thread = <<>>
    /\ pc = [t \in Threads |-> "caller"]
    /\ timeout = [t \in Threads |-> NoWait]
    /\ error = [t \in Threads |-> "EOK"]
    /\ msg = [t \in Threads |-> Null]
    /\ buffer = [t \in Threads |-> Null]

-----------------------------------------------------------------------------
\* rt_mq_send (call = "send") or rt_mq_urgent of m: take a free node.  With no
\* node free the call returns -RT_EFULL and has changed nothing.
Claim(t, m, call) ==
    /\ pc[t] = "caller"
    /\ msg_queue_free # Null
    /\ msg' = [msg EXCEPT ![t] = msg_queue_free]
    /\ msg_queue_free' = next[msg_queue_free]
    /\ buffer' = [buffer EXCEPT ![t] = m]
    /\ pc' = [pc EXCEPT ![t] = call]
    /\ UNCHANGED <<msg_queue_head, msg_queue_tail, next, entry, data, waitVars>>

\* Fill the node in hand, with interrupts enabled.  rt_mq_urgent sets the
\* link later.
Fill(t) ==
    /\ \/ /\ pc[t] = "send"
          /\ next' = [next EXCEPT ![msg[t]] = Null]
          /\ pc' = [pc EXCEPT ![t] = "send_link"]
       \/ /\ pc[t] = "urgent"
          /\ pc' = [pc EXCEPT ![t] = "urgent_link"]
          /\ UNCHANGED next
    /\ data' = [data EXCEPT ![msg[t]] = buffer[t]]
    /\ UNCHANGED <<msg_queue_head, msg_queue_tail, msg_queue_free, entry,
                   waitVars, msg, buffer>>

\* rt_ipc_list_resume on the first sleeper, if any; t leaves the function.
WakeFirst(t) ==
    \/ /\ suspend_thread # <<>>
       /\ pc' = [pc EXCEPT ![Head(suspend_thread)] = "resumed", ![t] = "caller"]
       /\ suspend_thread' = Tail(suspend_thread)
    \/ /\ suspend_thread = <<>>
       /\ pc' = [pc EXCEPT ![t] = "caller"]
       /\ UNCHANGED suspend_thread

\* Mutant: the newest message goes first.
AppendAtHead(n) ==
    /\ next' = [next EXCEPT ![n] = msg_queue_head]
    /\ msg_queue_head' = n
    /\ msg_queue_tail' = IF msg_queue_tail = Null THEN n ELSE msg_queue_tail

\* Link node n behind the tail of the queue.
AppendNode(n) ==
    /\ next' = IF msg_queue_tail = Null THEN next
               ELSE [next EXCEPT ![msg_queue_tail] = n]
    /\ msg_queue_tail' = n
    /\ msg_queue_head' = IF msg_queue_head = Null THEN n ELSE msg_queue_head

\* Link node n before the head of the queue.
PrependNode(n) ==
    /\ next' = [next EXCEPT ![n] = msg_queue_head]
    /\ msg_queue_head' = n
    /\ msg_queue_tail' = IF msg_queue_tail = Null THEN n ELSE msg_queue_tail

\* Mutant: a sleeper is woken by the first message only.
LinkWakesOnce(t) ==
    /\ \/ pc[t] = "send_link" /\ AppendNode(msg[t])
       \/ pc[t] = "urgent_link" /\ PrependNode(msg[t])
    /\ entry' = entry + 1
    /\ msg' = [msg EXCEPT ![t] = Null]
    /\ \/ entry = 0 /\ WakeFirst(t)
       \/ entry # 0 /\ pc' = [pc EXCEPT ![t] = "caller"]
                    /\ UNCHANGED suspend_thread
    /\ buffer' = [buffer EXCEPT ![t] = Null]
    /\ UNCHANGED <<msg_queue_free, data, timeout, error>>

\* The second critical section of rt_mq_send and rt_mq_urgent.
Link(t) ==
    /\ \/ pc[t] = "send_link" /\ AppendNode(msg[t])
       \/ pc[t] = "urgent_link" /\ PrependNode(msg[t])
    /\ entry' = entry + 1
    /\ msg' = [msg EXCEPT ![t] = Null]
    /\ WakeFirst(t)
    /\ buffer' = [buffer EXCEPT ![t] = Null]
    /\ UNCHANGED <<msg_queue_free, data, timeout, error>>

-----------------------------------------------------------------------------
\* Mutant: the tail still points at the node taken out.
DequeueKeepsTail(t) ==
    /\ msg' = [msg EXCEPT ![t] = msg_queue_head]
    /\ msg_queue_head' = next[msg_queue_head]
    /\ entry' = entry - 1
    /\ pc' = [pc EXCEPT ![t] = "recv_copy"]
    /\ UNCHANGED <<msg_queue_tail, msg_queue_free, next>>

\* Take the head of the queue in hand.
Dequeue(t) ==
    /\ msg' = [msg EXCEPT ![t] = msg_queue_head]
    /\ msg_queue_head' = next[msg_queue_head]
    /\ msg_queue_tail' = IF msg_queue_tail = msg_queue_head THEN Null
                         ELSE msg_queue_tail
    /\ entry' = entry - 1
    /\ pc' = [pc EXCEPT ![t] = "recv_copy"]
    /\ UNCHANGED <<msg_queue_free, next>>

\* Suspend the caller behind the other sleepers: the flag of every queue of the
\* program is RT_IPC_FLAG_FIFO.
Sleep(t) ==
    /\ error' = [error EXCEPT ![t] = "EOK"]
    /\ suspend_thread' = Append(suspend_thread, t)
    /\ pc' = [pc EXCEPT ![t] = "asleep"]

\* rt_mq_recv from the while loop on, with w left to wait.
RecvPass(t, w) ==
    /\ timeout' = [timeout EXCEPT ![t] = IF entry = 0 THEN w ELSE NoWait]
    /\ UNCHANGED <<data, buffer>>
    /\ \/ /\ entry > 0
          /\ Dequeue(t)
          /\ UNCHANGED <<suspend_thread, error>>
       \/ /\ entry = 0 /\ w # NoWait
          /\ Sleep(t)
          /\ UNCHANGED <<listVars, msg>>
       \/ /\ entry = 0 /\ w = NoWait
          /\ error' = [error EXCEPT ![t] = "ETIMEOUT"]
          /\ pc' = [pc EXCEPT ![t] = "caller"]
          /\ UNCHANGED <<listVars, msg, suspend_thread>>

\* rt_mq_recv(mq, w).  The test before the loop lets a caller that will not
\* wait leave without touching thread->error.
Recv(t, w) ==
    /\ pc[t] = "caller"
    /\ entry > 0 \/ w # NoWait
    /\ RecvPass(t, w)

\* The thread runs again after rt_schedule().  With an error it returns it;
\* otherwise it takes the elapsed time off its timeout and looks again.
RecvResumed(t) ==
    /\ pc[t] = "resumed"
    /\ \/ /\ error[t] # "EOK"
          /\ pc' = [pc EXCEPT ![t] = "caller"]
          /\ timeout' = [timeout EXCEPT ![t] = NoWait]
          /\ UNCHANGED <<listVars, data, suspend_thread, error, msg, buffer>>
       \/ /\ error[t] = "EOK"
          /\ \E w \in IF timeout[t] = Timed THEN {Timed, NoWait}
                      ELSE {timeout[t]} : RecvPass(t, w)

\* Mutant: the queue is counted down again when the node is given back.
CopyAndFreeCounts(t) ==
    /\ \/ /\ pc[t] = "recv_copy"
          /\ buffer' = [buffer EXCEPT ![t] = data[msg[t]]]
          /\ pc' = [pc EXCEPT ![t] = "recv_free"]
          /\ UNCHANGED <<next, msg_queue_free, msg, entry>>
       \/ /\ pc[t] = "recv_free"
          /\ next' = [next EXCEPT ![msg[t]] = msg_queue_free]
          /\ msg_queue_free' = msg[t]
          /\ msg' = [msg EXCEPT ![t] = Null]
          /\ entry' = entry - 1
          /\ buffer' = [buffer EXCEPT ![t] = Null]
          /\ pc' = [pc EXCEPT ![t] = "caller"]
    /\ UNCHANGED <<msg_queue_head, msg_queue_tail, data, waitVars>>

\* The end of rt_mq_recv: copy the message out of the node in hand, with
\* interrupts enabled, then put the node on the free list.
CopyAndFree(t) ==
    /\ \/ /\ pc[t] = "recv_copy"
          /\ buffer' = [buffer EXCEPT ![t] = data[msg[t]]]
          /\ pc' = [pc EXCEPT ![t] = "recv_free"]
          /\ UNCHANGED <<next, msg_queue_free, msg>>
       \/ /\ pc[t] = "recv_free"
          /\ next' = [next EXCEPT ![msg[t]] = msg_queue_free]
          /\ msg_queue_free' = msg[t]
          /\ msg' = [msg EXCEPT ![t] = Null]
          /\ buffer' = [buffer EXCEPT ![t] = Null]
          /\ pc' = [pc EXCEPT ![t] = "caller"]
    /\ UNCHANGED <<msg_queue_head, msg_queue_tail, entry, data, waitVars>>

\* The list without its k-th node.
Unlinked(s, k) == [i \in 1 .. Len(s) - 1 |-> IF i < k THEN s[i] ELSE s[i + 1]]

\* The thread timer of a timed wait expires.
Timeout(t) ==
    /\ pc[t] = "asleep" /\ timeout[t] = Timed
    /\ error' = [error EXCEPT ![t] = "ETIMEOUT"]
    /\ \E k \in 1 .. Len(suspend_thread) :
           /\ suspend_thread[k] = t
           /\ suspend_thread' = Unlinked(suspend_thread, k)
    /\ pc' = [pc EXCEPT ![t] = "resumed"]
    /\ UNCHANGED <<listVars, data, timeout, msg, buffer>>

\* Following next from first passes the nodes s[1], ..., s[k] and ends.
IsChain(first, s, k) ==
    /\ first = IF k = 0 THEN Null ELSE s[1]
    /\ \A i \in 1 .. k : next[s[i]] = IF i = k THEN Null ELSE s[i + 1]

\* rt_mq_control(mq, RT_IPC_CMD_RESET): every sleeper is resumed with an error
\* and the queued nodes go one by one on the free list.
Reset ==
    /\ suspend_thread' = <<>>
    /\ error' = [t \in Threads |-> IF pc[t] = "asleep" THEN "ERROR" ELSE error[t]]
    /\ pc' = [t \in Threads |-> IF pc[t] = "asleep" THEN "resumed" ELSE pc[t]]
    /\ \E k \in 0 .. Total : \E s \in [1 .. k -> Nodes] :
           /\ IsChain(msg_queue_head, s, k)
           /\ next' = [n \in Nodes |->
                  IF k > 0 /\ n = s[1] THEN msg_queue_free
                  ELSE IF \E i \in 2 .. k : s[i] = n
                       THEN s[(CHOOSE i \in 2 .. k : s[i] = n) - 1]
                       ELSE next[n]]
           /\ msg_queue_free' = IF k = 0 THEN msg_queue_free ELSE s[k]
           /\ msg_queue_tail' = IF \E i \in 1 .. k : s[i] = msg_queue_tail
                                THEN Null ELSE msg_queue_tail
    /\ msg_queue_head' = Null
    /\ entry' = 0
    /\ UNCHANGED <<data, timeout, msg, buffer>>

Next ==
    \/ \E t \in Producers :
           \/ \E m \in Messages, call \in {"send", "urgent"} : Claim(t, m, call)
           \/ Fill(t)
           \/ Link(t)
    \/ \E t \in Consumers :
           \/ \E w \in Waits : Recv(t, w)
           \/ RecvResumed(t)
           \/ CopyAndFree(t)
           \/ Timeout(t)
    \/ Reset

Spec == Init /\ [][Next]_vars

\* A thread that is in the queue's functions and not asleep gets the processor.
FairSpec ==
    Spec /\ \A t \in Threads :
                WF_vars(Fill(t) \/ Link(t) \/ RecvResumed(t) \/ CopyAndFree(t))
-----------------------------------------------------------------------------
TypeOK ==
    /\ msg_queue_head \in Nodes \cup {Null}
    /\ msg_queue_tail \in Nodes \cup {Null}
    /\ msg_queue_free \in Nodes \cup {Null}
    /\ next \in [Nodes -> Nodes \cup {Null}]
    /\ data \in [Nodes -> Messages \cup {Null}]
    /\ entry \in Nat
    /\ suspend_thread \in Seq(Threads)
    /\ pc \in [Threads -> {"caller", "asleep", "resumed"} \cup Senders \cup Receivers]
    /\ timeout \in [Threads -> {NoWait, Timed, Forever}]
    /\ error \in [Threads -> {"EOK", "ETIMEOUT", "ERROR"}]
    /\ msg \in [Threads -> Nodes \cup {Null}]
    /\ buffer \in [Threads -> Messages \cup {Null}]

InHand(n) == \E t \in Threads : msg[t] = n

\* A node is in the hand of at most one thread, one between its two critical
\* sections.
HandsSound ==
    /\ \A t, u \in Threads : msg[t] = msg[u] /\ t # u => msg[t] = Null
    /\ \A t \in Threads : msg[t] # Null <=> pc[t] \in Senders \cup Receivers

\* The k nodes of f are the free list and those of q the queue; each node is on
\* one of them, once, or else in a hand.
Lists(f, k, q) ==
    /\ \A i, j \in 1 .. k : f[i] = f[j] => i = j
    /\ \A i, j \in 1 .. entry : q[i] = q[j] => i = j
    /\ \A i \in 1 .. k : \A j \in 1 .. entry : f[i] # q[j]
    /\ \A i \in 1 .. k : ~ InHand(f[i])
    /\ \A j \in 1 .. entry : ~ InHand(q[j])
    /\ \A n \in Nodes : \/ InHand(n)
                        \/ \E i \in 1 .. k : f[i] = n
                        \/ \E j \in 1 .. entry : q[j] = n
    /\ IsChain(msg_queue_free, f, k)
    /\ IsChain(msg_queue_head, q, entry)
    /\ msg_queue_tail = IF entry = 0 THEN Null ELSE q[entry]

\* The two lists threaded through the nodes (ipc.c:1949-1959, 1972-1985,
\* 2199-2208, 2219-2220) and the hands of the threads share out the nodes: none
\* is lost and none is in two places, whatever comes between the two critical
\* sections of a call.  entry counts the queued ones and the tail is the last.
NodesSound ==
    /\ HandsSound
    /\ \E k \in 0 .. Total : \E f \in [1 .. k -> Nodes] :
           \E q \in [1 .. entry -> Nodes] : Lists(f, k, q)

\* While a thread sleeps on the queue, every queued message has a resumed thread
\* on its way to it (ipc.c:1988-1990, 2133-2196): neither a timeout, a reset nor
\* a receiver that comes in between eats a wake-up.
NoLostWakeup ==
    suspend_thread # <<>> =>
        Cardinality({t \in Threads : pc[t] = "resumed" /\ error[t] = "EOK"})
            >= entry

\* A queued message never stays beside a sleeping receiver for ever.
MessageReachesReceiver ==
    (entry > 0 /\ suspend_thread # <<>>)
        ~> (entry = 0 \/ suspend_thread = <<>>)

\* The queue as its users see it.
QueuedNodes == CHOOSE q \in [1 .. entry -> Nodes] : IsChain(msg_queue_head, q, entry)

AbstractQueue == [i \in 1 .. entry |-> data[QueuedNodes[i]]]

AbstractRole == [t \in Threads |->
    CASE pc[t] \in {"send", "send_link"}     -> "sending"
      [] pc[t] \in {"urgent", "urgent_link"} -> "urgent"
      [] pc[t] \in Receivers                 -> "receiving"
      [] OTHER                               -> "idle"]

AbstractHand == [t \in Threads |->
    IF pc[t] \in {"send_link", "urgent_link", "recv_copy"} THEN data[msg[t]]
    ELSE buffer[t]]

Abstract == INSTANCE MessageChannel
                WITH Users <- Threads, Blank <- Null, Capacity <- Total,
                     queue <- AbstractQueue, role <- AbstractRole,
                     hand <- AbstractHand

\* Every step of the linked-list queue is a step of MessageChannel: messages are
\* delivered once, unaltered and in the order they were linked.
ImplementsChannel == Abstract!Spec
=============================================================================
