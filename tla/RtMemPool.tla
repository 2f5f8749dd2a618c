------------------------------ MODULE RtMemPool ------------------------------
(***************************************************************************)
(* The fixed-size memory pool of the RT-Thread kernel, rtthread/3.0.3/src/ *)
(* mempool.c, with the threads that may sleep on it.  The free blocks form *)
(* a singly linked list threaded through the header word of each block;    *)
(* the header of a block in use names its pool.                            *)
(*                                                                         *)
(* A stretch of code between rt_hw_interrupt_disable and _enable is one    *)
(* action; the instants between rt_hw_interrupt_enable and the next        *)
(* disable are where other threads and the tick interrupt step in.         *)
(***************************************************************************)
EXTENDS Naturals, Sequences, FiniteSets

CONSTANTS Blocks,      \* the blocks of the pool; block_total_count of them
          Threads,     \* the threads that call the pool
          Null,        \* RT_NULL
          Mp,          \* the address of the pool itself, kept in a used header
          InitOrder,   \* the blocks in address order, as rt_mp_init links them
          Waits,       \* the waiting times callers pass to rt_mp_alloc
          StaleBound   \* bound: timeouts left uncounted at one time

\* The classes of rt_int32_t waiting time rt_mp_alloc tells apart.
NoWait  == "no_wait"   \* time == 0
Timed   == "timed"     \* time > 0
Forever == "forever"   \* time < 0

ASSUME PoolConstants ==
    /\ IsFiniteSet(Blocks)
    /\ Cardinality(Blocks) \in Nat \ {0}
    /\ InitOrder \in [1 .. Cardinality(Blocks) -> Blocks]
    /\ \A i, k \in 1 .. Cardinality(Blocks) :
           InitOrder[i] = InitOrder[k] => i = k
    /\ \A b \in Blocks : \E i \in 1 .. Cardinality(Blocks) : InitOrder[i] = b
    /\ Null \notin Blocks \cup Threads /\ Mp \notin Blocks /\ Null # Mp
    /\ IsFiniteSet(Threads)
    /\ Waits \subseteq {NoWait, Timed, Forever}

VARIABLES
    block_list,             \* mp->block_list: the first free block
    header,                 \* the word in front of every block
    block_free_count,       \* mp->block_free_count
    suspend_thread,         \* mp->suspend_thread: the waiters, first first
    suspend_thread_count,   \* mp->suspend_thread_count
    pc,                     \* where each thread is in rt_mp_alloc
    time,                   \* its local time argument
    error,                  \* thread->error
    held,                   \* the blocks handed to each thread, not yet freed
    stray                   \* a list head was written to as if a thread

poolVars == <<block_list, header, block_free_count>>
waitVars == <<suspend_thread, suspend_thread_count>>
vars     == <<poolVars, waitVars, pc, time, error, held, stray>>

Total == Cardinality(Blocks)

Init ==
    /\ block_list = InitOrder[1]
    /\ header = [b \in Blocks |->
           LET i == CHOOSE k \in 1 .. Total : InitOrder[k] = b
           IN  IF i = Total THEN Null ELSE InitOrder[i + 1]]
    /\ block_free_count = Total
    /\ suspend_thread = <<>>
    /\ suspend_thread_count = 0
    /\ pc = [t \in Threads |-> "caller"]
    /\ time = [t \in Threads |-> NoWait]
    /\ error = [t \in Threads |-> "EOK"]
    /\ held = [t \in Threads |-> {}]
    /\ stray = FALSE

\* Mutant: the list still starts at the block just handed out.
TakeKeepsFirst(t) ==
    /\ block_free_count' = block_free_count - 1
    /\ held' = [held EXCEPT ![t] = @ \cup {block_list}]
    /\ pc' = [pc EXCEPT ![t] = "caller"]
    /\ UNCHANGED <<block_list, header>>

\* Unlink the first free block and mark it as used by this pool.
TakeFirst(t) ==
    /\ block_free_count' = block_free_count - 1
    /\ block_list' = header[block_list]
    /\ header' = [header EXCEPT ![block_list] = Mp]
    /\ held' = [held EXCEPT ![t] = @ \cup {block_list}]
    /\ pc' = [pc EXCEPT ![t] = "caller"]

\* Mutant: the waiter is not counted.
SleepUncounted(t) ==
    /\ error' = [error EXCEPT ![t] = "EOK"]
    /\ suspend_thread' = <<t>> \o suspend_thread
    /\ pc' = [pc EXCEPT ![t] = "asleep"]
    /\ UNCHANGED suspend_thread_count

\* Suspend the caller.  rt_list_insert_after puts it in FRONT of the waiters.
Sleep(t) ==
    /\ error' = [error EXCEPT ![t] = "EOK"]
    /\ suspend_thread' = <<t>> \o suspend_thread
    /\ suspend_thread_count' = suspend_thread_count + 1
    /\ pc' = [pc EXCEPT ![t] = "asleep"]

\* One pass of the while loop of rt_mp_alloc with w left to wait.
AllocPass(t, w) ==
    /\ time' = [time EXCEPT ![t] = w]
    /\ UNCHANGED stray
    /\ \/ /\ block_free_count > 0
          /\ TakeFirst(t)
          /\ UNCHANGED <<waitVars, error>>
       \/ /\ block_free_count = 0 /\ w # NoWait
          /\ Sleep(t)
          /\ UNCHANGED <<poolVars, held>>
       \/ /\ block_free_count = 0 /\ w = NoWait
          /\ pc' = [pc EXCEPT ![t] = "caller"]
          /\ UNCHANGED <<poolVars, waitVars, error, held>>

\* rt_mp_alloc(mp, w).
Alloc(t, w) ==
    /\ pc[t] = "caller"
    /\ AllocPass(t, w)

\* The thread runs again after rt_schedule().  With an error it returns
\* RT_NULL; otherwise it takes the elapsed time off and tries again.
AllocResumed(t) ==
    /\ pc[t] = "resumed"
    /\ \/ /\ error[t] # "EOK"
          /\ pc' = [pc EXCEPT ![t] = "caller"]
          /\ UNCHANGED <<poolVars, waitVars, time, error, held, stray>>
       \/ /\ error[t] = "EOK"
          /\ \E w \in IF time[t] = Timed THEN {Timed, NoWait} ELSE {time[t]} :
                 AllocPass(t, w)

\* The list without its k-th node.
Unlinked(s, k) == [i \in 1 .. Len(s) - 1 |-> IF i < k THEN s[i] ELSE s[i + 1]]

\* The thread timer started by a timed wait expires: rt_thread_timeout takes
\* the thread off the waiters and leaves the pool's counter as it is.
Timeout(t) ==
    /\ pc[t] = "asleep" /\ time[t] = Timed
    /\ suspend_thread_count < Len(suspend_thread) + StaleBound
    /\ error' = [error EXCEPT ![t] = "ETIMEOUT"]
    /\ \E k \in 1 .. Len(suspend_thread) :
           /\ suspend_thread[k] = t
           /\ suspend_thread' = Unlinked(suspend_thread, k)
    /\ pc' = [pc EXCEPT ![t] = "resumed"]
    /\ UNCHANGED <<poolVars, suspend_thread_count, time, held, stray>>

\* Mutant: the rest of the list is dropped.
LinkFirstLosesRest(b) ==
    /\ block_free_count' = block_free_count + 1
    /\ header' = [header EXCEPT ![b] = Null]
    /\ block_list' = b

\* Put b in front of the free list.
LinkFirst(b) ==
    /\ block_free_count' = block_free_count + 1
    /\ header' = [header EXCEPT ![b] = block_list]
    /\ block_list' = b

\* Mutant: nobody is woken.
WakeNobody == UNCHANGED <<waitVars, error, pc, stray>>

\* Mutant: the count goes down even when it says nobody waits.
WakeUnguarded ==
    \/ /\ suspend_thread = <<>>
       /\ suspend_thread_count' = suspend_thread_count - 1
       /\ UNCHANGED <<suspend_thread, error, pc, stray>>
    \/ /\ suspend_thread # <<>>
       /\ UNCHANGED <<waitVars, error, pc, stray>>

\* Resume the first waiter, if there is one.  A positive count over an empty
\* list makes the code take the list head itself for a thread: it writes an
\* error code behind the pool object and only the count moves.
WakeFirst ==
    \/ /\ suspend_thread_count > 0 /\ suspend_thread # <<>>
       /\ error' = [error EXCEPT ![Head(suspend_thread)] = "EOK"]
       /\ pc' = [pc EXCEPT ![Head(suspend_thread)] = "resumed"]
       /\ suspend_thread' = Tail(suspend_thread)
       /\ suspend_thread_count' = suspend_thread_count - 1
       /\ UNCHANGED stray
    \/ /\ suspend_thread_count > 0 /\ suspend_thread = <<>>
       /\ suspend_thread_count' = suspend_thread_count - 1
       /\ stray' = TRUE
       /\ UNCHANGED <<suspend_thread, error, pc>>
    \/ /\ suspend_thread_count = 0
       /\ UNCHANGED <<waitVars, error, pc, stray>>

\* rt_mp_free(b), by whoever the block was passed on to, a thread or an
\* interrupt handler.
Free(b) ==
    /\ header[b] = Mp
    /\ LinkFirst(b)
    /\ held' = [u \in Threads |-> held[u] \ {b}]
    /\ WakeFirst
    /\ UNCHANGED time

Next ==
    \/ \E t \in Threads :
           \/ \E w \in Waits : Alloc(t, w)
           \/ AllocResumed(t)
           \/ Timeout(t)
    \/ \E b \in Blocks : Free(b)

Spec == Init /\ [][Next]_vars

\* A resumed thread gets the processor, a running one tick after another.
FairSpec == Spec /\ \A t \in Threads : WF_vars(AllocResumed(t))
-----------------------------------------------------------------------------
TypeOK ==
    /\ block_list \in Blocks \cup {Null, Mp}
    /\ header \in [Blocks -> Blocks \cup {Null, Mp}]
    /\ block_free_count \in Nat
    /\ suspend_thread \in Seq(Threads)
    /\ suspend_thread_count \in Nat
    /\ pc \in [Threads -> {"caller", "asleep", "resumed"}]
    /\ time \in [Threads -> {NoWait, Timed, Forever}]
    /\ error \in [Threads -> {"EOK", "ETIMEOUT"}]
    /\ held \in [Threads -> SUBSET Blocks]
    /\ stray \in BOOLEAN

Used(b) == \E t \in Threads : b \in held[t]

\* s lists the free blocks in the order the header words link them, the last
\* one ending the list.
IsFreeList(s) ==
    /\ \A i, k \in 1 .. block_free_count : s[i] = s[k] => i = k
    /\ \A b \in Blocks : Used(b) \/ \E i \in 1 .. block_free_count : s[i] = b
    /\ \A i \in 1 .. block_free_count : ~ Used(s[i])
    /\ block_list = IF block_free_count = 0 THEN Null ELSE s[1]
    /\ \A i \in 1 .. block_free_count :
           header[s[i]] = IF i = block_free_count THEN Null ELSE s[i + 1]

\* The links through the header words (mempool.c:391-398, 432-436) thread all
\* the blocks nobody holds, each once, and block_free_count counts them; the
\* header of a block in use names the pool, which is how rt_mp_free finds it.
FreeListSound ==
    /\ \E s \in [1 .. block_free_count -> Blocks] : IsFreeList(s)
    /\ \A b \in Blocks : Used(b) => header[b] = Mp

\* No block is handed to two callers before it is freed (mempool.c:388-406).
NoDoubleAllocation ==
    \A t, u \in Threads : t # u => held[t] \cap held[u] = {}

\* rt_mp_free wakes as many sleepers as there are blocks for (mempool.c:438-458):
\* while a thread sleeps on the pool, every free block has a resumed thread on
\* its way to it.  Timeouts and barging callers must not eat a wake-up.
NoLostWakeup ==
    suspend_thread # <<>> =>
        Cardinality({t \in Threads : pc[t] = "resumed" /\ error[t] = "EOK"})
            >= block_free_count

\* suspend_thread_count, "numbers of thread pended on this resource" (rtdef.h:754),
\* is what rt_mp_free goes by to find a waiter.  A timeout leaves it too high, but
\* no waiter is ever left uncounted (mempool.c:369, 438, thread.c:728).
PendingIsCounted == suspend_thread_count >= Len(suspend_thread)

\* A free block never stays beside a sleeping thread for ever.
BlockReachesWaiter ==
    (block_free_count > 0 /\ suspend_thread # <<>>)
        ~> (block_free_count = 0 \/ suspend_thread = <<>>)

\* The pool as its callers see it: who was handed each block.
OwnerIn(h) ==
    [b \in Blocks |-> IF \E t \in Threads : b \in h[t]
                      THEN CHOOSE t \in Threads : b \in h[t] ELSE Null]

AbstractOwner == OwnerIn(held)

Abstract == INSTANCE BlockPool
                WITH Holders <- Threads, Pool <- Null, owner <- AbstractOwner

\* Every step of the linked-list pool is a step of BlockPool or changes nothing
\* its callers can see.
ImplementsBlockPool == Abstract!Spec
=============================================================================
