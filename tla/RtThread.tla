------------------------------ MODULE RtThread -------------------------------
(***************************************************************************)
(* The kernel under the threads: ready lists and rt_schedule (scheduler.c),*)
(* suspend, resume, sleep and exit (thread.c), the sorted timer list       *)
(* (timer.c) under a tick that wraps (clock.c), the idle thread that frees *)
(* what ended (idle.c), the semaphore that guards the heap (ipc.c, mem.c), *)
(* and the switch the processor makes later, in PendSV (context_rvds.S).   *)
(*                                                                         *)
(* The kernel's data is one record k; an operator named after a C function *)
(* is what that function makes of it.  What a function does with the       *)
(* interrupts off is one step, and an interrupt may come before the next.  *)
(* A key handler calls delay_ms although it is an interrupt: it puts       *)
(* whatever thread is current to sleep and goes on itself.                 *)
(* rt_timer_check walks the timers with the interrupts off: each turn of   *)
(* its loop is a step, and nothing else moves while k.checking.            *)
(***************************************************************************)
EXTENDS Integers, Sequences, FiniteSets, SequencesExt

CONSTANTS Threads, Idle, Main,  \* main starts the others
          Pollers,              \* the threads that never block (recevDHT11)
          Prio,                 \* current_priority; the least number is best
          Slice,                \* init_tick of a thread
          Periodic, Period,     \* the timer of main.c
          Delays,               \* the ticks a thread asks to sleep for
          Waits,                \* the times given to rt_sem_take
          KeyDelay,             \* the ticks of the handlers' delay_ms
          TickMod,              \* 2^32
          MaxKeys, MaxLate      \* bounds: keys; ticks inside rt_timer_start

RT_WAITING_FOREVER == -1
Half   == (TickMod - 1) \div 2          \* RT_TICK_MAX / 2
Prios  == {Prio[t] : t \in Threads}

ASSUME ThreadConstants ==
    /\ IsFiniteSet(Threads)
    /\ {Idle, Main} \subseteq Threads /\ Idle # Main
    /\ Pollers \subseteq Threads \ {Idle, Main}
    /\ Prio \in [Threads -> Nat]
    /\ \A t \in Threads \ {Idle} : Prio[t] < Prio[Idle]
    /\ Periodic \notin Threads
    /\ {Slice, KeyDelay, Period, TickMod} \cup Delays \subseteq Nat \ {0}
    /\ {MaxKeys, MaxLate} \subseteq Nat
    /\ Waits \subseteq Nat \cup {RT_WAITING_FOREVER}
    \* no two timers are further apart than the comparison can tell
    /\ \A d \in {KeyDelay, Period} \cup Delays \cup Waits :
          d + MaxLate + MaxKeys * KeyDelay < Half

VARIABLES
    k,          \* the kernel's data
    running,    \* the thread on the processor
    pc,         \* where each thread is
    starting,   \* the entry rt_timer_start has yet to insert, if any
    wait,       \* the time each thread gave to rt_sem_take
    todo,       \* the blocks idle still has to free
    keys,       \* keys pressed
    hits        \* history: the waits a key came into

vars == <<k, running, pc, starting, wait, todo, keys, hits>>

Top(q)    == CHOOSE p \in q.group : \A o \in q.group : p <= o
Listed(q) == {e.timer : e \in ToSet(q.timers)}

\* rt_list_remove of the one node whose place is in at, if it is linked.
Removed(s, at) == IF at = {} THEN s ELSE RemoveAt(s, CHOOSE i \in at : TRUE)
Without(s, x)  == Removed(s, {i \in DOMAIN s : s[i] = x})

-----------------------------------------------------------------------------
(* scheduler.c *)

rt_schedule_insert_thread(q, t) ==
    [q EXCEPT !.stat[t] = "ready",
              !.ready[Prio[t]] = Append(@, t),
              !.group = @ \cup {Prio[t]}]

rt_schedule_remove_thread(q, t) ==
    LET left == Without(q.ready[Prio[t]], t)
    IN  [q EXCEPT !.ready[Prio[t]] = left,
                  !.group = IF left = <<>> THEN @ \ {Prio[t]} ELSE @]

\* With no bit set __rt_ffs is 0 and the table is read at -1: the kernel is
\* lost.  The switch itself waits for PendSV, which goes to the last thread
\* asked for.
rt_schedule(q) ==
    IF q.group = {} THEN [q EXCEPT !.lost = TRUE]
    ELSE LET to == Head(q.ready[Top(q)])
         IN  IF to = q.current THEN q
             ELSE [q EXCEPT !.current = to, !.pending = TRUE]

-----------------------------------------------------------------------------
(* timer.c.  An entry of the list is a timer and its timeout_tick; left is  *)
(* history: the ticks it still has to wait, counted without the wrap.       *)

Unlist(q, x) ==
    [q EXCEPT !.timers = Removed(@, {i \in DOMAIN @ : @[i].timer = x})]

rt_timer_stop(q, x) ==
    IF x \notin q.active THEN q
    ELSE [Unlist(q, x) EXCEPT !.active = @ \ {x}]

\* The two halves of rt_timer_start with init_tick = ticks; interrupts are on
\* between them.
TimerOff(q, x) == [Unlist(q, x) EXCEPT !.active = @ \ {x}]
Entry(q, x, ticks) ==
    [timer |-> x, timeout |-> (q.tick + ticks) % TickMod, left |-> ticks]

\* Mutant: the ticks are compared as if they did not wrap.
BeforeNoWrap(e, f) == e.timeout < f.timeout

\* Whether e must come before the listed entry f.
Before(e, f) ==
    LET d == (f.timeout - e.timeout) % TickMod IN d # 0 /\ d < Half

TimerInsert(q, e) ==
    LET later == {i \in DOMAIN q.timers : Before(e, q.timers[i])}
        place == IF later = {} THEN Len(q.timers) + 1
                 ELSE CHOOSE i \in later : \A j \in later : i <= j
    IN  [q EXCEPT !.timers = InsertAt(@, place, e),
                  !.active = @ \cup {e.timer}]

rt_timer_start(q, x, ticks) == TimerInsert(TimerOff(q, x), Entry(q, x, ticks))

-----------------------------------------------------------------------------
(* thread.c and the semaphore of ipc.c *)

rt_thread_suspend(q, t) ==
    IF q.stat[t] # "ready" THEN q
    ELSE rt_timer_stop(rt_schedule_remove_thread(
                          [q EXCEPT !.stat[t] = "suspend"], t), t)

rt_thread_resume(q, t) ==
    IF q.stat[t] # "suspend" THEN q
    ELSE rt_schedule_insert_thread(
            rt_timer_stop([q EXCEPT !.waiters = Without(@, t)], t), t)

rt_thread_yield(q) ==
    LET t == q.current  p == Prio[t]
    IN  IF q.stat[t] = "ready" /\ Len(q.ready[p]) > 1
        THEN rt_schedule([q EXCEPT !.ready[p] = Append(Without(@, t), t)])
        ELSE q

\* Mutant: the thread stays in the list it waited in.
rt_thread_timeoutWaits(q, t) ==
    rt_schedule(rt_schedule_insert_thread(
        [q EXCEPT !.error[t] = "ETIMEOUT"], t))

\* Mutant: the thread is made ready and no switch is asked for.
rt_thread_timeoutSilent(q, t) ==
    rt_schedule_insert_thread(
        [q EXCEPT !.error[t] = "ETIMEOUT", !.waiters = Without(@, t)], t)

rt_thread_timeout(q, t) ==
    rt_schedule(rt_schedule_insert_thread(
        [q EXCEPT !.error[t] = "ETIMEOUT", !.waiters = Without(@, t)], t))

\* The sections of rt_thread_sleep, rt_thread_exit and of rt_sem_take when
\* there is nothing to take.
SleepSection(q, t, ticks) == rt_timer_start(rt_thread_suspend(q, t), t, ticks)

ExitSection(q, t) ==
    LET r == rt_schedule_remove_thread(q, t)
    IN  [Unlist(r, t) EXCEPT !.stat[t] = "close", !.active = @ \ {t},
                             !.defunct = <<t>> \o @]

TakeSection(q, t, time) ==
    LET r == [rt_thread_suspend([q EXCEPT !.error[t] = "EOK"], t)
                 EXCEPT !.waiters = Append(@, t)]
    IN  IF time > 0 THEN rt_timer_start(r, t, time) ELSE r

-----------------------------------------------------------------------------
(* clock.c and rt_timer_check *)

Due(q, e) == (q.tick - e.timeout) % TickMod < Half

\* The function of the periodic timer is in SampleEvents and Acquisition.
Expire(q, x) ==
    IF x # Periodic
    THEN [rt_thread_timeout(Unlist(q, x), x) EXCEPT !.active = @ \ {x}]
    ELSE rt_timer_start(q, x, Period)

\* Whether the loop of rt_timer_check has another turn.
MoreDue(q) == q.timers # <<>> /\ Due(q, Head(q.timers))

\* What the tick's interrupt leaves before its next turn, or at its end.
Turned(q) == [q EXCEPT !.checking = MoreDue(q), !.ticked = q.pending]

\* Mutant: the slice is renewed and the processor kept.
TimeSliceKeeps(q) ==
    LET t == q.current
    IN  [q EXCEPT !.remaining[t] = IF @ > 1 THEN @ - 1 ELSE Slice]

TimeSlice(q) ==
    LET t == q.current
    IN  IF q.remaining[t] > 1 THEN [q EXCEPT !.remaining[t] = @ - 1]
        ELSE rt_thread_yield([q EXCEPT !.remaining[t] = Slice])

OneTickLess(e) == [e EXCEPT !.left = @ - 1]

rt_tick_increase(q) ==
    TimeSlice([q EXCEPT !.tick = (@ + 1) % TickMod,
                        !.timers = [i \in DOMAIN @ |-> OneTickLess(@[i])]])

-----------------------------------------------------------------------------
\* rt_system_scheduler_start has chosen main; only idle is ready besides.
Init ==
    LET up == {Idle, Main}
    IN
    /\ k = [stat      |-> [t \in Threads |->
                             IF t \in up THEN "ready" ELSE "init"],
            error     |-> [t \in Threads |-> "EOK"],
            ready     |-> [p \in Prios |->
                             IF p = Prio[Idle] THEN <<Idle>>
                             ELSE IF p = Prio[Main] THEN <<Main>> ELSE <<>>],
            group     |-> {Prio[t] : t \in up},
            current   |-> Main, pending |-> FALSE, ticked |-> FALSE,
            lost      |-> FALSE, checking |-> FALSE,
            remaining |-> [t \in Threads |-> Slice],
            tick      |-> 0,
            timers    |-> <<>>, active |-> {},
            value     |-> 1, waiters |-> <<>>, granted |-> {},
            defunct   |-> <<>>]
    /\ running = Main
    /\ pc = [t \in Threads |-> "go"]
    /\ starting = <<>>
    /\ wait = [t \in Threads |-> 0]
    /\ todo = 0
    /\ keys = 0
    /\ hits = 0

\* Thread t makes a step of its own.
At(t, label)   == /\ running = t /\ pc[t] = label
                  /\ ~k.pending /\ ~k.lost /\ ~k.checking
Goto(t, label) == pc' = [pc EXCEPT ![t] = label]

\* The labels from which t calls rt_schedule next, and where it comes back.
Resumes == [sleeping |-> "slept", taking |-> "took", leaving |-> "gone",
            waking   |-> "go"]

CallSchedule(t) ==
    /\ pc[t] \in DOMAIN Resumes
    /\ At(t, pc[t])
    /\ k' = rt_schedule(k)
    /\ Goto(t, Resumes[pc[t]])
    /\ UNCHANGED <<running, starting, wait, todo, keys, hits>>

\* Idle and the pollers do not block; main does not before it has started
\* the others, and it is the one thread whose function returns.
AllStarted == \A u \in Threads : k.stat[u] # "init"

Sleep(t, ticks) ==
    /\ t \notin {Idle} \cup Pollers
    /\ t = Main => AllStarted
    /\ At(t, "go")
    /\ k' = SleepSection(k, t, ticks)
    /\ Goto(t, "sleeping")
    /\ UNCHANGED <<running, starting, wait, todo, keys, hits>>

\* The end of rt_thread_sleep.
ClearError(q, t) ==
    [q EXCEPT !.error[t] = IF @ = "ETIMEOUT" THEN "EOK" ELSE @]

Slept(t) ==
    /\ At(t, "slept")
    /\ k' = ClearError(k, t)
    /\ Goto(t, "go")
    /\ UNCHANGED <<running, starting, wait, todo, keys, hits>>

rt_thread_startup(t, u) ==
    /\ t = Main
    /\ At(t, "go")
    /\ k.stat[u] = "init"
    /\ k' = rt_thread_resume([k EXCEPT !.stat[u] = "suspend"], u)
    /\ Goto(t, "waking")
    /\ UNCHANGED <<running, starting, wait, todo, keys, hits>>

StartTimer(t) ==
    /\ t = Main
    /\ At(t, "go")
    /\ Periodic \notin k.active
    /\ k' = TimerOff(k, Periodic)
    /\ starting' = <<Entry(k, Periodic, Period)>>
    /\ Goto(t, "starting")
    /\ UNCHANGED <<running, wait, todo, keys, hits>>

TimerStarted(t) ==
    /\ At(t, "starting")
    /\ k' = TimerInsert(k, Head(starting))
    /\ starting' = <<>>
    /\ Goto(t, "go")
    /\ UNCHANGED <<running, wait, todo, keys, hits>>

rt_thread_exit(t) ==
    /\ t = Main /\ AllStarted
    /\ At(t, "go")
    /\ k' = ExitSection(k, t)
    /\ Goto(t, "leaving")
    /\ UNCHANGED <<running, starting, wait, todo, keys, hits>>

\* rt_malloc and rt_free: take heap_sem, work, release it.  Idle comes here
\* to free what has ended.
rt_sem_take(t, time) ==
    /\ t \notin Pollers
    /\ t = Idle => todo > 0 /\ time = RT_WAITING_FOREVER
    /\ At(t, "go")
    /\ IF k.value > 0
       THEN /\ k' = [k EXCEPT !.value = @ - 1]
            /\ Goto(t, "inside")
            /\ UNCHANGED wait
       ELSE /\ time # 0
            /\ k' = TakeSection(k, t, time)
            /\ Goto(t, "taking")
            /\ wait' = [wait EXCEPT ![t] = time]
    /\ UNCHANGED <<running, starting, todo, keys, hits>>

\* Mutant: the caller never looks at the result.
EntersAlways(t) == TRUE

\* mem.c waits for ever and does not look at the result.
Enters(t) == k.error[t] = "EOK" \/ wait[t] = RT_WAITING_FOREVER

Took(t) ==
    /\ At(t, "took")
    /\ k' = [k EXCEPT !.granted = @ \ {t}]
    /\ Goto(t, IF Enters(t) THEN "inside" ELSE "go")
    /\ wait' = [wait EXCEPT ![t] = 0]
    /\ UNCHANGED <<running, starting, todo, keys, hits>>

rt_sem_release(t) ==
    /\ At(t, "inside")
    /\ IF k.waiters # <<>>
       THEN LET u == Head(k.waiters)
            IN  /\ k' = [rt_thread_resume(k, u) EXCEPT !.granted = @ \cup {u}]
                /\ Goto(t, "waking")
       ELSE k' = [k EXCEPT !.value = @ + 1] /\ Goto(t, "go")
    /\ todo' = IF t = Idle THEN todo - 1 ELSE todo
    /\ UNCHANGED <<running, starting, wait, keys, hits>>

\* The stack and the object of the thread are freed one after the other.
rt_thread_idle_excute ==
    /\ At(Idle, "go") /\ todo = 0
    /\ k.defunct # <<>>
    /\ k' = [k EXCEPT !.defunct = Tail(@)]
    /\ todo' = 2
    /\ UNCHANGED <<running, pc, starting, wait, keys, hits>>

-----------------------------------------------------------------------------
(* Interrupts *)

\* MaxLate: main is not held inside rt_timer_start for 2^31 ticks.
TooLate == /\ starting # <<>> /\ k.stat[Main] = "ready"
           /\ Head(starting).left <= -MaxLate

\* PendSV follows as soon as the interrupt returns: a switch that has seen one
\* tick is made before the next.
SysTick_Handler ==
    /\ ~k.lost /\ ~k.checking /\ ~TooLate /\ ~k.ticked
    /\ k' = Turned(rt_tick_increase(k))
    /\ starting' = [i \in DOMAIN starting |-> OneTickLess(starting[i])]
    /\ UNCHANGED <<running, pc, wait, todo, keys, hits>>

\* One turn of rt_timer_check, and the end of the loop after the last.
rt_timer_check ==
    /\ k.checking
    /\ k' = Turned(Expire(k, Head(k.timers).timer))
    /\ UNCHANGED <<running, pc, starting, wait, todo, keys, hits>>

PendSV_Handler ==
    /\ k.pending /\ ~k.lost /\ ~k.checking
    /\ k' = [k EXCEPT !.pending = FALSE, !.ticked = FALSE]
    /\ running' = k.current
    /\ UNCHANGED <<pc, starting, wait, todo, keys, hits>>

\* rt_thread_sleep of whatever is current.  A thread that has ended is not
\* put to sleep here: its memory is on its way to the heap.
KeyHandler ==
    LET t == k.current
    IN
    /\ ~k.lost /\ ~k.checking /\ keys < MaxKeys
    /\ k.stat[t] # "close"
    /\ k' = ClearError(rt_schedule(SleepSection(k, t, KeyDelay)), t)
    /\ keys' = keys + 1
    /\ hits' = IF pc[t] \in {"taking", "took"} THEN hits + 1 ELSE hits
    /\ UNCHANGED <<running, pc, starting, wait, todo>>

ThreadStep(t) ==
    \/ CallSchedule(t) \/ Slept(t) \/ Took(t) \/ TimerStarted(t)
    \/ rt_thread_exit(t) \/ rt_sem_release(t) \/ StartTimer(t)
    \/ \E d \in Delays : Sleep(t, d)
    \/ \E d \in Waits : rt_sem_take(t, d)
    \/ \E u \in Threads : rt_thread_startup(t, u)

Next ==
    \/ \E t \in Threads : ThreadStep(t)
    \/ rt_thread_idle_excute
    \/ SysTick_Handler \/ rt_timer_check \/ PendSV_Handler \/ KeyHandler

\* Fairness of four actions, with the condition under which each is enabled
\* written out: the clock runs and its interrupt ends, a pending switch is made,
\* and the thread on the processor leaves the kernel function it is in.
Leaves == \E t \in Threads :
             CallSchedule(t) \/ Slept(t) \/ Took(t) \/ TimerStarted(t)

Inside == ~k.pending /\ pc[running] \in DOMAIN Resumes \cup
                                        {"slept", "took", "starting"}

Fairness ==
    /\ []<>(k.lost \/ TooLate \/ k.ticked) \/ []<><<SysTick_Handler>>_vars
    /\ []<>~k.checking \/ []<><<rt_timer_check>>_vars
    /\ []<>(k.lost \/ ~k.pending) \/ []<><<PendSV_Handler>>_vars
    /\ []<>(k.lost \/ ~Inside) \/ []<><<Leaves>>_vars

Spec == Init /\ [][Next]_vars /\ Fairness

-----------------------------------------------------------------------------
(* Properties *)

\* The ready lists hold the READY threads, each once and at its priority, the
\* bitmap names the lists that are not empty, a thread waits for the
\* semaphore only while it is suspended, and a timer is active exactly while
\* it is listed, each once.
ReadySound ==
    /\ \A p \in Prios : ToSet(k.ready[p])
          = {t \in Threads : k.stat[t] = "ready" /\ Prio[t] = p}
    /\ k.group = {p \in Prios : k.ready[p] # <<>>}
    /\ \A t \in ToSet(k.waiters) : k.stat[t] = "suspend"
    /\ k.active = Listed(k)
    /\ \A s \in {k.ready[p] : p \in Prios} \cup {k.waiters,
                                                 k.defunct} : IsInjective(s)
    /\ Cardinality(Listed(k)) = Len(k.timers)

\* Whenever no switch is pending and the running thread is not about to call
\* rt_schedule, it is the first of the best ready priority (rt_schedule:
\* "select one thread with the highest priority level").
HighestRuns ==
    ~k.pending /\ ~k.lost /\ pc[running] \notin DOMAIN Resumes
       => running = k.current /\ running = Head(k.ready[Top(k)])

\* A tick takes away exactly the timers whose time is up, on both sides of
\* the wrap of the tick, and makes the threads that slept on them ready: none
\* runs early, and when rt_timer_check ends no due timer is left behind another.
TimersOnTime ==
    [][LET ticks == k'.tick # k.tick
       IN  /\ ticks => \A e \in ToSet(k.timers) : OneTickLess(e) \in ToSet(k'.timers)
           /\ k.checking => \A e \in ToSet(k.timers) :
                  /\ e.left > 0 => e \in ToSet(k'.timers)
                  /\ e.timer \in Threads =>
                        (k'.stat[e.timer] = "ready" <=> e \notin ToSet(k'.timers))
           /\ (ticks \/ k.checking) /\ ~k'.checking =>
                  \A e \in ToSet(k'.timers) : e.left > 0]_vars

\* The permits of heap_sem: free, held, or on the way to a waiter, there is
\* one, and each key press that comes into a wait can make it one more or one
\* fewer (mem.c ignores that its wait for ever timed out).
PermitsKept ==
    LET held == {t \in Threads : pc[t] = "inside"}
        all  == k.value + Cardinality(held) + Cardinality(k.granted)
    IN  1 - hits <= all /\ all <= 1 + hits

\* A thread that is ready at the best ready priority comes to run, however
\* long the others of its priority compute: the time slice sees to it.
ReadyRuns ==
    \A t \in Threads :
       (k.stat[t] = "ready" /\ Prio[t] = Top(k))
          ~> (running = t \/ k.stat[t] # "ready" \/ Prio[t] # Top(k))

\* There is a thread for rt_schedule to select (scheduler.c: "It will select
\* one thread with the highest priority level, then switch to it").
SchedulerHasThread == ~k.lost
=============================================================================
