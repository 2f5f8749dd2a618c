------------------------------- MODULE RtEvent -------------------------------
(***************************************************************************)
(* The event object of the RT-Thread kernel, rtthread/3.0.3/src/ipc.c: a   *)
(* set of flags and a first-in first-out list of threads that wait for     *)
(* some (OR) or all (AND) of theirs, clearing them or not.                 *)
(*                                                                         *)
(* rt_event_send walks the waiters with interrupts disabled.  Each turn of *)
(* its loop is a step and walk is its place in the list; nothing else      *)
(* moves while walk is not 0.                                              *)
(*                                                                         *)
(* rt_event_recv is in pieces, because the handlers of the keys call       *)
(* delay_ms, which puts the thread they interrupt to sleep wherever it is, *)
(* with the same timer and the same error number as a timed wait.          *)
(***************************************************************************)
EXTENDS Naturals, Sequences, FiniteSets

CONSTANTS Threads,    \* the threads that may wait
          Flags,      \* the flags of the event
          Wants,      \* what callers pass to rt_event_recv: records of the
                      \* flags, the option and the timeout
          MaxHit      \* bound: calls in progress that keys have hit at once

And == "RT_EVENT_FLAG_AND"
Or  == "RT_EVENT_FLAG_OR"

\* The classes of timeout rt_event_recv tells apart.
NoWait  == "no_wait"
Timed   == "timed"
Forever == "forever"

Requests == [flags : (SUBSET Flags) \ {{}}, mode : {And, Or}, clear : BOOLEAN,
             wait : {NoWait, Timed, Forever}]

ASSUME EventConstants == Wants \subseteq Requests /\ MaxHit \in Nat

\* event_set and event_info of a thread that never called rt_event_recv.
Blank == [flags |-> {}, mode |-> Or, clear |-> FALSE, wait |-> NoWait]

VARIABLES
    set,              \* event->set
    suspend_thread,   \* event->parent.suspend_thread
    request,          \* what each thread last asked rt_event_recv for
    recved,           \* the flags a thread took in its present call
    error,            \* thread->error
    timer,            \* the threads whose thread_timer runs
    pc,               \* where each thread is in rt_event_recv
    hit,              \* history: threads a key delayed in their present call
    walk              \* place of rt_event_send in the list, 0 when not sending

eventVars == <<set, suspend_thread, request, recved, error, timer, pc, hit, walk>>

\* called: error is cleared, interrupts still enabled; suspended: on the list
\* but not yet in rt_schedule; resumed: the error is not yet read.
Places == {"caller", "called", "suspended", "asleep", "resumed"}
Waiting(t) == pc[t] \in {"suspended", "asleep"}

Init ==
    /\ set = {}
    /\ suspend_thread = <<>>
    /\ request = [t \in Threads |-> Blank]
    /\ recved = [t \in Threads |-> {}]
    /\ error = [t \in Threads |-> "EOK"]
    /\ timer = {}
    /\ pc = [t \in Threads |-> "caller"]
    /\ hit = {}
    /\ walk = 0

\* What the flags s hold is what request r waits for.
Met(r, s) == IF r.mode = And THEN r.flags \subseteq s ELSE r.flags \cap s # {}

\* What r receives of s, and what is left in s.
Got(r, s)  == r.flags \cap s
\* Mutant: clears every flag of the event, asked for or not.
LeftNothing(r, s) == IF r.clear THEN {} ELSE s
Left(r, s) == IF r.clear THEN s \ r.flags ELSE s

\* Interrupts are enabled: any thread or interrupt handler may enter.
Enabled == walk = 0

\* rt_event_send: set the flags and start at the first waiter.
Send(flags) ==
    /\ Enabled /\ flags # {}
    /\ set' = set \cup flags
    /\ walk' = IF suspend_thread = <<>> THEN 0 ELSE 1
    /\ UNCHANGED <<suspend_thread, request, recved, error, timer, pc, hit>>

\* Mutant: unlinks the neighbour.
UnlinkedNext(s, k) == [i \in 1 .. Len(s) - 1 |-> IF i < k + 1 THEN s[i] ELSE s[i + 1]]

\* The list without its k-th node.
Unlinked(s, k) == [i \in 1 .. Len(s) - 1 |-> IF i < k THEN s[i] ELSE s[i + 1]]

\* Mutant: the loop ends before the last waiter.
CursorStopsEarly(k, n) == IF k >= n THEN 0 ELSE k

\* The next place to visit, if the list had n nodes: 0 ends the loop.
Cursor(k, n) == IF k > n THEN 0 ELSE k

\* Mutant: the woken thread's timer goes on.
TimerLeft(t) == timer

\* rt_thread_resume stops the timer of the thread it wakes.
TimerStopped(t) == timer \ {t}

\* One turn of the loop in rt_event_send: wake the waiter if its request is
\* met.  An OR request keeps only the flags received, and clears only those.
Visit ==
    /\ walk # 0
    /\ LET t == suspend_thread[walk]
           r == request[t]
           n == Len(suspend_thread)
       IN  \/ /\ Met(r, set)
              /\ recved' = [recved EXCEPT ![t] = Got(r, set)]
              /\ set' = IF r.clear THEN set \ Got(r, set) ELSE set
              /\ suspend_thread' = Unlinked(suspend_thread, walk)
              /\ timer' = TimerStopped(t)
              /\ pc' = [pc EXCEPT ![t] = "resumed"]
              /\ walk' = Cursor(walk, n - 1)
           \/ /\ ~ Met(r, set)
              /\ walk' = Cursor(walk + 1, n)
              /\ UNCHANGED <<recved, set, suspend_thread, timer, pc>>
    /\ UNCHANGED <<request, error, hit>>

\* Thread t, which nothing has put to sleep, is at place p and may go on.
At(t, p) == Enabled /\ pc[t] = p /\ t \notin timer

\* rt_event_recv by thread t clears the error number ...
Call(t, r) ==
    /\ At(t, "caller")
    /\ request' = [request EXCEPT ![t] = r]
    /\ error' = [error EXCEPT ![t] = "EOK"]
    /\ pc' = [pc EXCEPT ![t] = "called"]
    /\ UNCHANGED <<set, suspend_thread, recved, timer, hit, walk>>

\* ... and disables interrupts to take the flags or to join the waiters.
Recv(t) ==
    /\ At(t, "called")
    /\ LET r == request[t] IN
       \/ /\ Met(r, set)
          /\ recved' = [recved EXCEPT ![t] = Got(r, set)]
          /\ set' = Left(r, set)
          /\ pc' = [pc EXCEPT ![t] = "resumed"]
          /\ UNCHANGED <<suspend_thread, error, timer>>
       \/ /\ ~ Met(r, set) /\ r.wait = NoWait
          /\ error' = [error EXCEPT ![t] = "ETIMEOUT"]
          /\ pc' = [pc EXCEPT ![t] = "resumed"]
          /\ UNCHANGED <<set, suspend_thread, recved, timer>>
       \/ /\ ~ Met(r, set) /\ r.wait # NoWait
          /\ suspend_thread' = Append(suspend_thread, t)
          /\ timer' = IF r.wait = Timed THEN timer \cup {t} ELSE timer
          /\ pc' = [pc EXCEPT ![t] = "suspended"]
          /\ UNCHANGED <<set, recved, error>>
    /\ UNCHANGED <<request, hit, walk>>

\* The suspended thread gives up the processor.
Schedule(t) ==
    /\ Enabled /\ pc[t] = "suspended"
    /\ pc' = [pc EXCEPT ![t] = "asleep"]
    /\ UNCHANGED <<set, suspend_thread, request, recved, error, timer, hit, walk>>

\* The thread, whose sleep is over, returns thread->error to its caller.
Return(t) ==
    /\ At(t, "resumed")
    /\ recved' = [recved EXCEPT ![t] = {}]
    /\ hit' = hit \ {t}
    /\ pc' = [pc EXCEPT ![t] = "caller"]
    /\ UNCHANGED <<set, suspend_thread, request, error, timer, walk>>

\* The handler of a key calls delay_ms while t is the running thread, in
\* rt_event_recv or elsewhere.  rt_thread_sleep starts its timer, whatever the
\* thread was doing, and clears a timeout's error at once, in the interrupt.
Delay(t) ==
    /\ Enabled /\ pc[t] # "asleep" /\ (pc[t] = "suspended" \/ t \notin timer)
    /\ timer' = timer \cup {t}
    /\ error' = [error EXCEPT ![t] = IF @ = "ETIMEOUT" THEN "EOK" ELSE @]
    /\ pc' = [pc EXCEPT ![t] = IF @ = "suspended" THEN "asleep" ELSE @]
    /\ hit' = IF pc[t] = "caller" THEN hit ELSE hit \cup {t}
    /\ Cardinality(hit') <= MaxHit
    /\ UNCHANGED <<set, suspend_thread, request, recved, walk>>

\* rt_thread_timeout, in the tick interrupt: the end of a timed wait and of a
\* key's delay alike.
Timeout(t) ==
    /\ Enabled /\ t \in timer
    /\ timer' = timer \ {t}
    /\ error' = [error EXCEPT ![t] = "ETIMEOUT"]
    /\ \/ /\ Waiting(t)
          /\ \E k \in 1 .. Len(suspend_thread) :
                 /\ suspend_thread[k] = t
                 /\ suspend_thread' = Unlinked(suspend_thread, k)
          /\ pc' = [pc EXCEPT ![t] = "resumed"]
       \/ /\ ~ Waiting(t)
          /\ UNCHANGED <<suspend_thread, pc>>
    /\ UNCHANGED <<set, request, recved, hit, walk>>

\* rt_event_control(RT_IPC_CMD_RESET): every waiter returns with an error.
Reset ==
    /\ Enabled
    /\ set' = {}
    /\ suspend_thread' = <<>>
    /\ error' = [t \in Threads |-> IF Waiting(t) THEN "ERROR" ELSE error[t]]
    /\ timer' = {t \in timer : ~ Waiting(t)}
    /\ pc' = [t \in Threads |-> IF Waiting(t) THEN "resumed" ELSE pc[t]]
    /\ UNCHANGED <<request, recved, hit, walk>>

Next ==
    \/ \E flags \in SUBSET Flags : Send(flags)
    \/ Visit
    \/ \E t \in Threads :
           \/ \E r \in Wants : Call(t, r)
           \/ Recv(t)
           \/ Schedule(t)
           \/ Return(t)
           \/ Delay(t)
           \/ Timeout(t)
    \/ Reset

Spec == Init /\ [][Next]_eventVars
-----------------------------------------------------------------------------
TypeOK ==
    /\ set \subseteq Flags
    /\ suspend_thread \in Seq(Threads)
    /\ request \in [Threads -> Requests \cup {Blank}]
    /\ recved \in [Threads -> SUBSET Flags]
    /\ error \in [Threads -> {"EOK", "ETIMEOUT", "ERROR"}]
    /\ timer \subseteq Threads /\ hit \subseteq Threads
    /\ pc \in [Threads -> Places]
    /\ walk \in 0 .. Len(suspend_thread)

\* The waiters are exactly the threads suspended in rt_event_recv, each once: a
\* wake-up, a timeout, the end of a key's delay and a reset all take a thread
\* off the list (ipc.c:1065, 1228, thread.c:728).
WaitersAreAsleep ==
    /\ \A t \in Threads :
           Waiting(t) <=> \E k \in 1 .. Len(suspend_thread) : suspend_thread[k] = t
    /\ \A k, l \in 1 .. Len(suspend_thread) :
           suspend_thread[k] = suspend_thread[l] => k = l

\* Waiters the walk has passed, or all of them between sends.
Passed(k) == k \in 1 .. Len(suspend_thread) /\ (walk = 0 \/ k < walk)

\* No thread sleeps on flags that are there: rt_event_send finds every waiter it
\* could wake although the ones before it clear flags on the way (ipc.c:1028-1070).
NoMissedWakeup ==
    \A k \in 1 .. Len(suspend_thread) :
        Passed(k) => ~ Met(request[suspend_thread[k]], set)

\* A flag leaves the event only into the hands of one thread that asked for it,
\* with clearing, whose call succeeds unless a key hit it; a timeout takes none
\* (ipc.c:1061, 1150).  Only a reset drops flags.
FlagsAreReceived ==
    [][Reset \/ \A f \in set \ set' : \E t \in Threads :
           /\ f \in recved'[t] /\ request'[t].clear
           /\ pc[t] = "called" \/ Waiting(t)
           /\ error'[t] = "EOK" \/ t \in hit]_eventVars

\* A call of rt_event_recv that fails took no flags, whatever the order of the
\* send, the timeout and the reading of thread->error (ipc.c:1185, 1204): only
\* a key that hits the thread on its way can make it lose flags it has taken.
FailsEmptyHanded ==
    \A t \in Threads :
        At(t, "resumed") /\ error[t] # "EOK" => recved[t] = {} \/ t \in hit
=============================================================================
