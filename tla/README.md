# TLA+ verification of the temperature and humidity acquisition system

The program samples a DHT11 sensor on an STM32F103 under RT-Thread 3.0.3, shows
the values on an LCD, raises an alarm, uploads the values over two serial ports
and keeps the history on an SD card. This directory models the parts of it whose
correctness depends on the order in which threads, interrupts and time-outs come,
checks them with TLC on small instances and proves the kernel services they
stand on, and most of the pipeline's and the menu's safety, for every size, with TLAPS.

Paths below are relative to the repository's `src/`. Line numbers are those of
the source files; most comments in them are GBK encoded.

- [1. The system](#1-the-system)
- [2. Modules](#2-modules)
- [3. Runs](#3-runs)
- [4. Fairness](#4-fairness)
- [5. Proofs](#5-proofs)
- [6. Disagreements found while modelling](#6-disagreements-found-while-modelling)
- [7. What is not modelled](#7-what-is-not-modelled)
- [8. Plan](#8-plan)

## 1. The system

### Application (`User/main.c`, `User/bsp/`)

| part | state | operations | talks to |
|---|---|---|---|
| sampling timer, `timeout1` (main.c) | `tem`, `hum`, the period `samp_freq` (200 ticks of 1 ms) | every period, in the tick interrupt: read the DHT11, send both values to two queues, send FLAG1 | `mq_DHT11_tem`, `mq_DHT11_hum`, `DHT11_data_event` |
| `recevDHT11` (priority 4) | `i`, `j`, `cnt`, `cnt2`, the slot tables `ptr[48]`, `ptr2[48]` | polls both queues; allocates a block of 25 samples, stores into it, announces the slot before it when a new one is begun | pools `tem_mp`, `hum_mp`; the global `index`; FLAG2 of `memlcd_data_event` |
| `lcd_show` (priority 3) | the event flags it received | waits for FLAG2 or FLAG6, draws the menu, passes `index` on | `memlcd_data_event`, `mq_tem_memlcd`, Menu.c |
| `thread_mp_release` (priority 4) | `buf`, the open file | receives a slot number, writes the slot's rows to a file, frees the block, empties the slot | `mq_tem_memlcd`, pools, FATFS |
| `over_temhum` (priority 1) | the LED, the thresholds `tem_flag`, `hum_flag` | waits for FLAG1, compares, drives the LED | `DHT11_data_event` |
| `wifi`, `uart_deal_event` (priority 2) | the transmit buffers | wait for FLAG1 (and FLAG8, the PC's request), print both values | `DHT11_data_event`, USART2/3 |
| keys (`bsp/exti`, `bsp/MENU_KEY`) and menu (`bsp/MENU`) | `choice`, `c_state`, `adjust`, `change_tem/hum/freq` | EXTI handlers move through the menu and send FLAG6; they call `delay_ms`, which sleeps | `memlcd_data_event`, the thresholds, the timer |
| RTC (`bsp/RTC`) | `calendar` | second interrupt converts the counter to a date | the writer formats it |
| DHT11, W25Q flash, SD card, LCD, USART drivers | registers | see section 7 | |

### Kernel (`rtthread/3.0.3/src`)

| part | state | operations the program reaches |
|---|---|---|
| memory pool, `mempool.c` | free list threaded through the blocks, count, waiters and their count | `rt_mp_init`, `rt_mp_alloc`, `rt_mp_free`, a waiter's time-out |
| event, `ipc.c` | the flag set, the waiters with what each asked for | `rt_event_init`, `_send`, `_recv`, the reset, a waiter's time-out |
| message queue, `ipc.c` | two lists of nodes, `entry`, the sleepers | `rt_mq_init`, `_send`, `_recv` (and `_urgent`, the reset and timed waits, which the program does not call) |
| semaphore, `ipc.c` | a count, the waiters | `rt_sem_take`, `rt_sem_release`: the lock of the heap, `heap_sem` |
| timers and clock, `timer.c`, `clock.c` | the list of timers sorted by expiry, the tick, each thread's remaining slice | start (two critical sections), stop, detach, check, the tick interrupt |
| scheduler and threads, `scheduler.c`, `thread.c` | a ready list per priority, the bitmap of those not empty, the current thread, each thread's state and error | `rt_schedule`, startup, suspend, resume, yield, sleep, exit, a thread's time-out |
| idle thread, `idle.c` | the list of ended threads | takes one off and frees its stack and its object |
| processor port, `context_rvds.S` | the switch asked for and not yet made | `rt_hw_context_switch`, `PendSV_Handler` |
| small-memory heap, `mem.c` | a doubly linked list of block headers in address order, the lowest free one | `rt_malloc`, `rt_free`, `rt_realloc` (which lets go of the lock on the way) |

### What is hard about it

- Every kernel call opens and closes interrupts several times. Between two
  critical sections another thread, the tick or a key may do anything; a message
  node is then on no list, a woken thread has not looked yet, a counter and a list
  disagree.
- A time-out takes a waiter off its list between any two of those sections.
- Three threads wait for one flag and each clears it.
- A slot number crosses three threads through a global, an event and a queue, and
  `recevDHT11` and the writer are time-sliced at the same priority.
- The key handlers sleep: `delay_ms` is called from an interrupt without
  `rt_interrupt_enter`, and puts to sleep whichever thread was interrupted.
- Slot numbers wrap at 48, pools end at 32 blocks, queues at 32 and 128 messages,
  the tick at 2^32.
- A thread switch is asked for in one place and made in another, the PendSV
  exception; a tick or a wake-up may come in between and ask for a different one.
- The calendar and the state of the menu are plain globals, written by an
  interrupt and read field by field by a thread.

### What makes each part correct

- Pool: a block is never handed out twice nor lost, the list is the count, and a
  waiter is woken for each free block it is owed.
- Event: nobody sleeps on flags that satisfy it; a cleared flag was received.
- Queue: nodes are neither lost nor shared; messages arrive once, whole and in
  order; no message waits beside a sleeping receiver.
- Fan-out: the alarm is not starved, the PC is answered, the LED follows the
  values.
- Threads and timers: each thread is on the list its state says and on no other, the
  best ready one runs, equals take turns, and a timer expires at its tick, on both
  sides of the wrap.
- Heap: the headers tile the arena, the regions handed out are disjoint, a request
  is refused only for want of room.
- Menu: the screen and the settings catch up with the last key, and a setting only
  takes a value the user has seen.
- Calendar: the date is that of the counter; a time stamp is not ahead of it.
- Pipeline: every complete block is saved once, in order, each row pairing the
  temperature and the humidity of one sample, and its memory comes back.

`PROJECT.json` lists every hazard at its line with the property that covers it
or the reason why none does.

## 2. Modules

```
BlockPool      <--implements-- RtMemPool      <--proofs-- RtMemPool_proof
                               RtEvent        <--proofs-- RtEvent_proof
                                  ^ INSTANCE
                               SampleEvents   <--proofs-- SampleEvents_proof
MessageChannel <--implements-- RtMessageQueue <--proofs-- RtMessageQueue_proof
MemoryRegions  <--implements-- RtSmallMem     <--proofs-- RtSmallMem_proof
                               RtThread       <--proofs-- RtThread_proof
                               Acquisition    <--proofs-- Acquisition_proof
                               Menu           <--proofs-- Menu_proof
                               Rtc
```

**RtMemPool** models `mempool.c`. `block_list` and `header` are the free list
threaded through the word in front of each block; `header[b] = Mp` is a block in
use. `Alloc`, `AllocResumed` and `Free` are the stretches between
`rt_hw_interrupt_disable` and `_enable`, `Timeout` is the thread timer of a
waiter. `stray` records a resume through a list head that is no thread.
**BlockPool** is its specification: a set of free blocks and who holds what.

**RtEvent** models the event half of `ipc.c`. `rt_event_send` runs with
interrupts disabled but visits the waiters one by one; `walk` is its place in the
list and each `Visit` is one turn of its loop, so that a waiter's flags may be
cleared for the next. While `walk` is set nothing else happens. `rt_event_recv` is four
steps: `Call` clears the error number, `Recv` is its critical section (which takes the
flags into `recved`, fails, or joins the list), `Schedule` leaves the processor, `Return`
reads `thread->error`. Between any two a key may call `Delay`, its `delay_ms`: it starts
the thread's own timer and clears a timeout's error at once; `Timeout`, the end of a
timed wait and of a delay alike, sets the error. So a call may fail although it has taken
its flags; `hit` holds the threads this may befall.

**RtMessageQueue** models the message queue. `msg_queue_head`, `_tail` and
`_free` with `next` are the two lists; a node between the two critical sections of
a call is in `msg[t]`, the hand of a thread. `Claim`, `Fill`, `Link` are
`rt_mq_send` and `rt_mq_urgent`; `Recv`, `RecvResumed`, `CopyAndFree` are
`rt_mq_recv`; the copies are steps of their own because interrupts are enabled
during them. **MessageChannel** is its specification: a sequence of messages and
what each user holds.

**SampleEvents** instantiates RtEvent for `DHT11_data_event` and adds the three listeners, the
timer and the request of the PC, with priority 1 preempting 2, and the keys whose delay hits a
listener (`KeyDelay`). `at` is a listener's place in its loop, `pc` that in `rt_event_recv`;
`Woken` goes on only with RT_EOK, as main.c:139, 556 and 607 do. A delay lasts 10 or 20 ms, the
period 200: `sampled` lets one sample come in it. `CheckTem` and `CheckHum` are the two
comparisons of `overtem_entry`; a sample may come between them. `DHT11_Read_Data` leaves the old
values after a bad checksum or from a silent sensor, and the timer announces them all the same.
`bypass` counts the FLAG1s others received since the alarm thread had one, `naps` the keys that
hit it since.

**Acquisition** models the pipeline from the timer to the file. A sample is its
number, so a file says which samples it holds. `recev`, `lcd` and `release` are
the program counters of the three threads, one value per point where another
thread can interfere; `index`, the slot tables, the pools' bytes and the queues are
those of the program. Pools, queues and the event appear as what the kernel
modules promise: the non-blocking calls made here are one critical section as far
as another thread can tell. The wait of `lcd_show` is not: `LcdCall`, `LcdRecv`, `LcdSleep`
and `LcdReturn` are the pieces of RtEvent. `nap` is a thread put to sleep by a key's
`delay_ms`; its end (`NapEnds`) ends a wait as well and sets `lcd_error`, and when
`LcdReturn` finds that set with FLAG2 taken, the block announced is never passed on: `lost`
holds its slot.
`fault` records a store outside the pools. Two facts of the linked image are used
(`Listing/*.map`): `ptr2` follows `ptr`, and `lcd_drawn_hum` precedes it; they
decide what `ptr2[-1]` and `ptr[-1]` are.

**RtThread** models what is under every thread: scheduler.c, thread.c, timer.c,
clock.c, idle.c, the semaphore and the pending switch of the port. The kernel's data
is one record `k`, and an operator with the name of a C function is what that function
makes of it, so that the calls inside an action compose as they do in the code. One
action is one critical section: `pc` is where a thread is between two of them
(`sleeping`, `taking`, `leaving`, `waking` are the points before its `rt_schedule`).
`running` is the thread on the processor, `k.current` the one the scheduler has
chosen; between the two lies PendSV. `starting` is the half-done `rt_timer_start`.
`KeyHandler` is `delay_ms` called from a key interrupt: it puts the current thread to
sleep and goes on in the handler. The handler of the tick ends with `rt_timer_check`, each
turn of whose loop is a step; while `k.checking` is set nothing else moves, as the loop runs
with interrupts disabled. `left` in a timer's entry counts its ticks without
the wrap and is what `TimersOnTime` compares the code's modular comparison with.

**RtSmallMem** models `mem.c`: `mem` maps the offset of each header to its fields.
`rt_malloc` and `rt_free` run under `heap_sem` and are one action each; `rt_realloc`
is three, as the code lets go of the lock before it allocates the new place and
again before it frees the old. **MemoryRegions** is its specification: a set of
disjoint regions.

**Menu** models the four key interrupts, one action each (they have one priority), and
`lcd_show`, one action per access to what the keys change. `deal_key` tests
`c_state` twice, in `DealOk` and `DealNo`, and a key may come between; `Mark`, `MainItem`
and `Apply` are what `key_choice_handle` does with the result; `LcdWave` is the wait of
menu 4. The wait for a key's flag is in the same pieces as in Acquisition; each key handler
begins with the delay, which may hit `lcd_show` (`Hits`), and a bouncing key does nothing else
(`Bounce`). `missed` records that a call failed with a press's FLAG6 in its hand. `shown` is
the number last drawn.

**Rtc** models `rtc.c`. The counter is a day and a second of the day; `RTC_Get` is the
year loop and the month loop with the tables, including the weekday's table read past its
end into the table the linker places behind it. The writer copies one field at a time
while the interrupt rewrites all of them.

Definitions marked `Mutant:` are deliberately wrong variants placed beside the
definition they alter. They are used by no specification; substituting one must
make the property named in `PROJECT.json` fail, which shows that the property can
tell.

## 3. Runs

| run | question | instance | result |
|---|---|---|---|
| `pool` | does the linked pool with sleeping, timed-out and barging threads implement BlockPool and wake whom it owes? | 2 blocks, 3 threads, every kind of wait, at most 2 stale counts | holds |
| `event` | does `rt_event_send` wake everyone it could and lose no flag? | 3 threads (a waiter in the middle of the list), 2 flags, 5 kinds of request, a key's delay in one call at a time | holds |
| `mq` | does the queue keep its nodes, its wake-ups and its order under calls that overlap? | 2 nodes, 3 threads (two senders, two receivers, one of them both), 2 messages | holds |
| `sample` | is the alarm starved, is the PC answered unless a key hits the call that has its request, does a humid room raise the alarm? | the three listeners, one key that hits any of them anywhere; a high temperature, two humidities and a limit between them | holds |
| `acq_early` | is every complete block saved once, in order, with its own humidity, but for those a failed call lost? | 5 slots, 4 blocks of 4 samples, 13 samples, one key, menu 4 closed | holds |
| `acq_long` | what remains true after pools are exhausted, slots wrapped and menu 4 opened? | 3 slots, 2 blocks of 2 samples, 9 samples, one key | holds |
| `threads` | are the kernel's lists sound, does the best thread run, do timers expire on their tick, are the lock's permits kept? | 4 threads of 3 priorities, one that polls; a tick that wraps at 12; sleeps of 1 and 2 ticks; one key | holds |
| `heap` | does the list of headers implement disjoint regions? | 21 words, sizes 1, 5 and 12, two overlapping `rt_realloc` | holds |
| `menu` | do the screen and the settings catch up with the keys? | every order of the four keys, one press of + or -, one delay of `lcd_show` | holds |
| `rtc` | is the calendar the date, and is a stamp sound? | each end of a month from 2022 to 2099, four carries within a day, 3 seconds each | holds |
| `acq_wild` | does every sample go through a slot's pointer? | 4 slots, 3 blocks of 2 | violated |
| `threads_lost` | is there always a thread to switch to? | as `threads`, two keys | violated |

What the passing runs show:

- `PendingIsCounted` (pool): after a time-out the waiter count is too high, never
  too low (`rt_thread_timeout`, thread.c:728, unlinks the waiter and leaves
  `suspend_thread_count`); so `rt_mp_free` never misses a waiter, but it may look for
  one that has gone, and the property bounds the disagreement.
- `NoLostWakeup` and `BlockReachesWaiter` (pool), `NoLostWakeup` and
  `MessageReachesReceiver` (mq): a thread that barges in between a wake-up and the
  woken thread's look, and a time-out that comes at any point, lose nothing.
- `ImplementsBlockPool`, `ImplementsChannel`: the lists behave as a set and as a
  sequence whatever comes between the critical sections.
- `NoMissedWakeup`, `FlagsAreReceived` (event): clearing one waiter's flags before
  looking at the next leaves nobody asleep on flags that are there.
- `FailsEmptyHanded` (event): no order of send, time-out, reset and return makes a call
  fail that has taken flags; only a key in the middle of the call does. The properties of
  the three modules above the event say what such a key costs.
- `AlarmNotStarved` (sample): at most two FLAG1s in a row go to others, since the
  list is first in first out; a key that delays the alarm thread costs it its place,
  and four FLAG1s more.
- `RequestAnswered` (sample): FLAG8 is answered although the others clear the FLAG1 it
  is waited for with, and although delays end waits early; the one exception, `RequestLost`,
  is a key that hits `uart_deal_event` between its wake-up and its return.
- `HumidAlarm` (sample): a humid room raises the alarm again and again.
- `AnnouncementKept`, `FilesAreHistory`, `CompleteBlockSaved` (acq_early): the
  unprotected global `index` is sound, but only because a block takes long to
  fill: with blocks shorter than the delays that can accumulate it would not be. The files
  are the history without the rows of the blocks in `lost`, and nothing else is missing.
- `HumBlocksLost` (acq_early): the writer frees a slot's temperature block and only
  forgets its humidity block (main.c:391-393). Up to the first wrap exactly one humidity
  block is lost per file and none in another way.
- `TemBlockNotShared`, `TemColumnsSound`, `MessageNamesBlock` (acq_long): what
  survives every overflow: no temperature block is in two places, none is saved
  twice or rewritten while it is saved, no message names an emptied slot.
- `ReadySound`, `HighestRuns`, `ReadyRuns` (threads): no order of time-outs, wake-ups,
  pending switches and keys leaves a thread on two lists or a worse thread on the processor,
  and slices let equals run. They are what the application modules assume of the
  scheduler (`Prio4Runs`, `Runs`, the fairness of section 4).
- `TimersOnTime` (threads): the comparison of ticks by their difference keeps the list
  sorted across the wrap. A tick takes one from what every timer has left, a turn of
  `rt_timer_check` takes a timer whose time is up and wakes its thread, and when the loop
  ends no due timer is left; so a timer started late, after a tick has come between the two
  critical sections of `rt_timer_start`, still expires.
- `PermitsKept` (threads): `mem.c` waits for `heap_sem` for ever and ignores the result.
  That is sound except for a key that comes between the waiter's suspension and its
  switch: the key's sleep gives the waiter a time-out. The property bounds the
  permits won or lost by the number of such keys.
- `HeapSound`, `RefusedWhenFull`, `ImplementsRegions` (heap): the second names the two
  exceptions the code makes, a block shrunk below `lfree` (mem.c:494) and an exact fit at
  the end (mem.c:307).
- `MenuSettled`, `OnlyShownApplied`, `ChangeApplied` (menu): the event flag,
  set by each press, is what makes the unprotected globals safe: whatever a redraw misread is
  read again before `lcd_show` sleeps, unless its last call failed with a press's flag
  (`missed`). A value that was not shown is never applied, whatever is missed.
- `CalendarIsDate`, `StampSound` (rtc): the loops of `RTC_Get` give the Gregorian date,
  stated in closed form, but on 31 December of a leap year, where they give month 13. A
  stamp is torn only when a minute passes during its reading, and even then never ahead of
  the clock.

Bounds. The kernel modules have no counter that needs one, except the pool's stale
count (`StaleBound`): each uncounted time-out adds one and the model stops adding at
2, where a list with one waiter and a count of three already shows every
disagreement. Two blocks or nodes are the least with a list that is empty, has one
element and has a middle; three threads give a holder, a sleeper and a thread that
barges in. `MaxSamples` is the length of the history and is chosen so that three
blocks are filled, announced, saved and freed and a fourth is begun (`early`) or so
that slot numbers wrap and pools end (`long`, `wild`). `MaxBacklog = 1` says that
`recevDHT11` is at most one sample behind when the timer expires: it polls, and has
200 ms for a sample. `nap` never passes 2: the keys' `delay_ms` lasts 10 or 20 ms, so
the timer expires at most once in it. The order of the constants is the program's (fewer blocks
than slots, blocks larger than the backlog): the model's blocks hold 4 samples where
the program's hold 25. In the program the first wrap comes after 48 blocks of 25
samples at 0.2 s each, four minutes after the start. `MaxKeys = 1` allows one key press
anywhere in the history.

RtThread: `Slice = 1` makes every tick a chance to yield. `TickMod = 12` stands for 2^32: no two
timers are half of it apart, as the assumption `ThreadConstants` demands and the program's delays
ensure, and the runs go round it as often as they like. The assumption counts `KeyDelay` once for
every key, since each may hold `main` up between the two sections of `rt_timer_start`; the
program's 20 ticks would take 10^8 keys there, without `main` running in between, to come near
2^31. `Waits` has a wait for ever and one that a tick may end; three delays (1, 2 and the key's)
give timers that are equal, earlier and later than those listed. `MaxLate` bounds how many ticks
late `rt_timer_start` may insert: in the program, fewer than 2^31. The keys are the only counter.
RtEvent: `MaxHit = 1` allows one call in progress that a key has hit, again and again in any
thread; it is a bound on calls at once, not on keys. RtSmallMem: 21 words are four smallest
blocks, so that a freed block may have a free neighbour below, above, on both sides or on none;
the sizes are one below the smallest block, one that leaves too little to split, and one that
fills most of the heap. The threads of `rt_realloc` are interchangeable (symmetry). SampleEvents:
`MaxKeys = 1` is one key that hits a listener, anywhere; `MaxBypass = 7` is beyond what it can
make of `bypass` (2 + 4). Menu: `MaxPresses` bounds + and - together, `MaxDelays` the delays that
hit `lcd_show`; KEY0 and WK_UP are unbounded. One delay ends a wait or makes the call after it
fail; the theorems about SampleEvents and Menu hold for any number. That the delays are finitely
many is what lets `ChangeApplied` and `RequestAnswered` hold: a key in each call could fail every
one. Rtc: a run of three seconds crosses midnight at each end of a month, and the other carries at
four moments; the reading of a stamp may start and end anywhere in it.

Deadlock is checked everywhere but in `acq_long` and `acq_wild`, where a store through
`ptr[-1]` may end in a hard fault, and in `threads_lost`, where the processor is gone.

## 4. Fairness

- Pool: weak fairness of `AllocResumed`: a resumed thread is ready, and the scheduler
  runs every ready thread of a priority in turn.
- Queue: weak fairness, per thread, of being in the queue's functions and awake.
  Nothing obliges anybody to call `rt_mq_send` or a timer to expire.
- SampleEvents: no fairness of single steps, but what the program's times ensure: `timeout1`, a
  periodic timer, comes again and again; weak fairness of `Deliver`, the rest of a running
  `rt_event_send`; every delay of 10 or 20 ms ends (`DelaysEnd`); and each of the three
  threads blocks again and again (`PeriodIsLong`): it has 200 ms for two lines of output.
  A blocked thread has left the processor to the others, and one that is woken must have run to
  block again.
- Acquisition: weak fairness of each of the three threads and of the end of a
  `delay_ms`. The two threads of priority 4 have time slices (main.c gives each 20
  ticks), and `lcd_show` above them blocks between flags.
- RtThread: weak fairness of the tick, of the turns of `rt_timer_check`, of PendSV and of the
  running thread's way out of a kernel function, each written with its enabling condition
  (`Fairness`), which TLC evaluates much faster than the general form. Nothing obliges a thread to
  leave its own computation, to sleep or to give the lock back: `ReadyRuns` follows from the slice
  alone. A switch that has seen one tick is made before the next, as PendSV follows the interrupt
  it was asked for in.
- Menu: weak fairness of `lcd_show`, whose priority is above the threads that do not block, of the
  end of a delay, and of the announcement of blocks, which goes on as long as the sensor is
  sampled; it is what brings `lcd_show` back from the wait of menu 4.

No property relies on fairness of a key, of the PC or of the time-out of a timed wait; the end
of a key's delay is the only time-out assumed to come.

## 5. Proofs

All theorems hold for every value of the constants that satisfies the named
assumptions of the modules (`PoolConstants`, `EventConstants`, `QueueConstants` and so on):
finite sets of nodes, blocks and sleeping threads, an initial order that lists each node
once, requests of the form `rt_event_recv` accepts. TLC evaluates those assumptions in the
runs. The theorems of the second part of Acquisition_proof have one more hypothesis,
`EarlyBounds`, which is explained there.

**RtMemPool_proof** (PoolTypes, PoolFreeList, PoolExclusive, PoolRefinement, PoolPendingCounted,
PoolNoLostWakeup). The inductive invariant is `TypeOK /\ FreeListSound /\ NoDoubleAllocation`.
Types alone do not suffice: that `rt_mp_alloc` finds a block when the count is positive follows
from the links. `FreeListSound` says that some sequence without repetition runs from `block_list`
along the headers, has `block_free_count` elements and covers exactly the blocks nobody holds;
each action has a lemma that names the new sequence, the tail after an allocation and the freed
block in front after a free. The refinement maps a free list to the set of its blocks; a step that
only moves waiters is a stutter. The wake-ups have an invariant of their own, `WaitInv`: the list
holds sleeping threads, each once (`SleepersListed`), none is uncounted, and each free block has a
woken thread on its way (`NoLostWakeup`). A call that takes a block takes at most one thread off
the way, a free puts one on it because the count is positive whenever somebody sleeps, and a
time-out concerns sleepers only.

**RtEvent_proof** (EventTypes, EventWaiters, EventNoMissedWakeup, EventFlagsReceived,
EventFailsEmptyHanded). The invariant joins the types with `WaitersAreAsleep` (the list holds
exactly the waiting threads, each once), `NoMissedWakeup` and what is known of error numbers and
timers: a waiter is marked with an error only if a key hit it (`SleepersUnmarked`), a running
timer is a timed wait or a delay that hit the call (`TimersExplained`), a call that has not got
past its wait holds no flags (`NotYetTaken`), and one that fails holds none unless it was hit
(`FailsEmpty`). `NoMissedWakeup` is stated relative to the walk of `rt_event_send`: only the
waiters it has not reached may be satisfied. Passing one preserves it because a woken waiter only
takes flags away.

**RtMessageQueue_proof** (QueueTypes, QueueNodes, QueueNoLostWakeup, QueueRefinement).
The invariant
is `TypeOK /\ NodesSound /\ FilledEnds /\ SleepersAreAsleep`. `FilledEnds` (a node
about to be linked behind the tail has a null link, since only its holder writes
to it) is what makes `rt_mq_send`'s second critical section sound;
`SleepersAreAsleep` says the thread a sender resumes is not at work on a node.
`ListsOf` names the two lists, `ChainUnique` shows there is only one way to follow
the links, so that the reset acts on the same queue the invariant speaks of, and one
lemma per action gives the lists after it. `QueueNoLostWakeup` counts: `Link` adds a
thread to those on their way with each message, a receiver leaves them taking one
message, and a time-out or a reset concerns sleepers only. `QueueRefinement` maps the
links to the sequence of messages in the queue (`QueueIs`: there is one such sequence)
and each thread to the end of the channel it is at. A claim begins a message, linking
publishes it, taking a node off delivers it and freeing the node releases it; the copy
into the node, the sleeps and the time-outs stutter. That a claim never exceeds the
channel's capacity is a count of the nodes (`FreeIsRoom`).

**Menu_proof** (MenuIsSettled, MenuOnlyShown). The invariant is `MenuInv`: the types, that
a sleeping `lcd_show` has no flag pending, `Quiet` and `Noted`. `Quiet` says that as long as
no press waits to be drawn (`Pressed`: its flag is in the event, in the hand of the call about to
return, or lost), everything `lcd_show` has read is still so (`UpToDate`, one
clause for each place it may be at); a key needs no argument beyond that it sets the flag or
wakes `lcd_show` at the start of its loop. `Noted` says that a change noted is the
number shown, except between the two statements that apply it and forget it. The numbers
of presses and of delays are bounded only by the constants.

**RtSmallMem_proof** (HeapInvariance, HeapIsSound, HeapRefusal, HeapRefinement). For any size of
heap, any set of sizes asked for and any number of threads inside `rt_realloc`. The invariant
`HeapInv` says that the headers tile the arena in both directions (`Linked`), that no two free
blocks are neighbours, that `lfree` is a header, that the blocks in use are those handed out, that
`used_mem` counts their words, and that a thread between two stages of `rt_realloc` still has its
old block to itself. `Cut` and `Joined`, the two ways the list changes, keep `Linked` whatever
headers they are given; the rest follows per action. The two searches are recursive functions, of
which the prover knows nothing: `WalkExists` shows that such a function exists because each step
of the search goes up, and `WalkStops` where it ends; both by the least counterexample
(`LeastNatural`). `RefusedWhenFull` is what `WalkStops` says of a search that has run to the end:
nothing from `lfree` up to the last header it looks at is large enough; the two exceptions of the
property are what lies outside that range. The refinement maps the headers in use to the regions
of MemoryRegions; a search that finds nothing stutters.

**SampleEvents_proof** (AlarmHearsSamples). `AlarmNotStarved` is not inductive: it needs `Ahead`,
that the FLAG1s others have received and the waiters in front of `over_temhum` (all waiters, while
it is awake) are at most two and four for each key that has hit it (`Owed`), together; while a key
delays it, a sample that has not come yet is paid for in advance. A wake-up moves one from the
second count to the first. A thread that falls asleep goes behind `over_temhum`, because it only
runs while that sleeps; and a call that finds FLAG1 can only be `over_temhum`'s, because between
two sends FLAG1 is never there while `over_temhum` waits (`AlarmUnmet`, the part of NoMissedWakeup
that this needs). `MaxBypass` may have any value.

**Acquisition_proof** has two parts. The first holds for all constants (PoolInvariance,
TemBlocksApart): `PoolInv` says that whatever is used as a slot number is one and that no
block is on a free list twice, in two slots, or in both. It covers wrapped slot numbers,
exhausted pools, stray stores and menu 4, since none of them takes a block from two places.

The second part (TemBlocksPlaced, HumBlocksCounted, FilesHoldHistory, TemColumnsInOrder,
MessagesNameBlocks, AnnouncementsKept, StoresInSlots) is about the program until its pools are
used up, under `EarlyBounds`: fewer blocks than slots, no more samples than the humidity
pool holds, queues at least as long as the backlog and as the number of blocks, menu 4 closed,
and `mem_slice > (MaxBacklog + 2) * MaxKeys`. The program's constants (48 slots, 32 blocks of 25 samples,
queues of 128 and 32) satisfy it for the first 800 samples and, with a backlog of one
sample, up to eight key presses in that time. That the *total* number of presses is bounded is a
limit of the argument: `TimelyInv` charges each press with the samples its `delay_ms` may
hold up `lcd_show` and never gives them back. Run `acq_early` has the
same shape with one press.

The invariant `EarlyInv` follows a sample through the program. `QueuesInv`: the two queues hold
the samples not read yet, in order. `SlotsInv`: `cnt`, `cnt2`, `i` and `j` are what the
number of samples read makes them, at each point of `recevDHT11`'s loop. `TemInv`, `HumInv`,
`TemData`, `HumData`: the slots not saved have blocks and hold their samples.
`MessagesInv`: each block handed to `lcd_show`'s call (`Handed`) is in exactly one of a file, a
message and `lost`, files and messages in increasing order (`Ordered`), and at most one more
announcement is on its way (`Awakening`). `SavedSlots` are the slots whose file is written; they
need not be a prefix, since a lost block keeps its memory. `FileInv`: what is on the card.
`FilesHoldHistory` so says that exactly the rows of lost blocks are missing. The hinge is
`TimelyInv`: while an announcement is between the event and `mq_tem_memlcd`, `index` is
not written again, because `lcd_show`, of higher priority, is either ready, and then
`recevDHT11` does not run, or put to sleep by a key, and then fewer samples come than a block
holds. Where the pools are used up, `TemColumnsSound` and `MessageNamesBlock` are only
model-checked (`acq_long`). `StoresInSlots` is the counterpart of `acq_wild`: no sample is
stored through `ptr[-1]` before the slots wrap.

**RtThread_proof** (ThreadInvariance, ReadyListsSound, HighestPriorityRuns, NoPermitLost,
TimeInvariance, TimersEndOnTime). For any finite set of threads and any priorities, with idle
the lowest, any width of the clock, any times, any number of keys. The operations of the
kernel are functions of its record; a lemma says of each which fields it changes and how, and
the lemmas about steps, one per action, use only these. Two inductive invariants are needed.

- `ThreadInv`. `KernelInv` is what the lists and the stats say of each other: a ready list
  holds the ready threads of its priority, each once, the bitmap the lists that are
  not empty, the waiters are suspended and the ended closed, and a thread with a timer is
  suspended. `SchedInv` says that the processor is the chosen thread's unless a switch is
  pending, and that the choice is the best unless the running thread is about to call
  `rt_schedule`; an interrupt in that gap makes the choice itself, which is why the gap does no
  harm. It holds while idle has not been suspended (`k.lost`); after that nothing moves.
  `PermInv` is the heap's lock: of those who wait, all but a set S were settled as they
  asked (they sleep in the list with no error, or were given a permit, or their time
  is up and they had asked for a time). S are the waits a key came into. Each member was
  paid for by a key and leaves S with one permit more or less than it should, so that
  the permits stay within the number of such keys (`hits`) of one. `StartInv` and
  `CheckInv` say where `main` and the loop of `rt_timer_check` can be.
- `TimeInv`. The list is sorted by the ticks left without the wrap, each timeout is congruent
  to the clock plus what is left (`Timed`), and only the periodic timer may be late, by at
  most `MaxLate + keys * KeyDelay`. Two such timers compare across the wrap as their ticks
  left do (`BeforeIs`), and a timer is found due exactly when none are left (`DueIs`); both
  need the bound in `ThreadConstants`. That bound once allowed for one key only: the
  proof failed where a second key holds `main` up between the sections of `rt_timer_start`.

Proofs that would be inductions over numbers are made by the least counterexample
(`LeastNatural`, from the well-foundedness of inclusion among finite sets): the library's
induction theorems take the property as an operator argument, which the available provers
cannot instantiate.

Only model-checked: every liveness property (`BlockReachesWaiter`,
`MessageReachesReceiver`, `RequestAnswered`, `HumidAlarm`, `CompleteBlockSaved`, `ChangeApplied`,
`ReadyRuns`; fairness and ENABLED are beyond the prover), and Rtc. `CalendarIsDate` says what
its year and month loops compute, recursive functions of which existence and value would have
to be shown as `WalkExists` and `WalkStops` do for the heap, and then the closed
form of a date by an induction over years; `StampSound` compares dates those loops computed.

## 6. Disagreements found while modelling

Two have a run whose counterexample shows them, and the quoted text in `PROJECT.json`.

- `acq_wild`: once the last slot has its block, `i` is wrapped to 0 and the
  other samples of that block are stored through `ptr[-1]` (main.c:182, 273).
- `threads_lost`: a second key, or the bounce of another, while the first has put
  every thread but idle to sleep suspends idle; `rt_schedule` then finds no thread
  (delay.c:127, scheduler.c:205).

The others are part of the models, and the properties are stated around them:

- `rt_event_recv` can fail with the flags taken. It clears the flags a thread waits for when
  the wait is satisfied, in `rt_event_send` (ipc.c:1062) or at once (ipc.c:1151), and returns
  `thread->error` later (ipc.c:1185, 1204). A key in between puts the thread to sleep
  (delay.c:127), and the end of that sleep sets the error to -RT_ETIMEOUT (thread.c:725). Every
  loop of the program tests for RT_EOK and waits again, so that one key may cost
  - the block announced by FLAG2, which is never saved (main.c:498; `lost` in
    Acquisition: `FilesAreHistory` and `CompleteBlockSaved` say that nothing else is missing);
  - the PC its answer, FLAG1 and FLAG8 being gone (main.c:139; `RequestLost` in SampleEvents is
    the exception of `RequestAnswered`);
  - the drawing of a press before the next key or block, if a second key follows the
    first (main.c:498; `missed` in Menu is the exception of `MenuSettled`);
  - a sample for `over_temhum` or `wifi` (main.c:556, 607; `naps` in `AlarmNotStarved`).
- The README says the timer tells the over-temperature thread of each sample;
  three threads clear one flag, so one of them hears of it (main.c:556; `AlarmNotStarved`
  bounds what is missed).
- The LED lit for the temperature is put out by the humidity comparison that follows
  (main.c:577); `hum_flag` starts at 0 where its comment says 50 (main.c:38).
- The README says a saved block is given back to its pool; the humidity block is not
  (main.c:391-393; `HumBlocksLost`). After 32 blocks no humidity is recorded.
- With menu 4 selected, `lcd_showwave` consumes the FLAG2 of a block, which is then
  never saved (Menu.c:268, main.c:504); `index` is a plain global where its comment
  speaks of a semaphore (main.c:39), which holds up until menu 4 is used.
- The last slot before a wrap is never announced (main.c:245).
- The sampling period set in menu 3 never reaches the timer (Menu.c:157-161 are commented
  out), unless KEY0 leaves the menu while it is drawn; then it is passed where a pointer
  to it is expected (Menu.c:104).
- The count of the pool's waiters is too high after a time-out (thread.c:728;
  `PendingIsCounted`).
- `mem.c` ignores the result of its wait for `heap_sem` (mem.c:304; `PermitsKept`).
- On the last day of a leap year the calendar's loops run past December (rtc.c:200;
  `CalendarIsDate`).
- `recevDHT11` polls and never blocks, so the idle thread, which would free the
  memory of `main`'s thread, never runs.

## 7. What is not modelled

- The results of FATFS calls, which the writer ignores; file names and their byte
  counter; the time string; the arrays that only the drawing reads.
- FLAG5 and `memlcd2_data_event`: no thread waits for them.
- The text sent to the serial ports. `u2_printf` has one buffer for `over_temhum` and
  `wifi`; each fills and sends it within a few of the 200 milliseconds between samples.
- A key while the current thread is in `rt_thread_exit`, closed but not yet switched
  away from: its memory is on the way to the heap. (RtThread leaves this out;
  every other instant may have a key.)
- `rt_enter_critical`, `rt_thread_control`, `_detach`, `_delete` and the soft-timer thread:
  not used by the program or around a single step only.
- `rt_mq_detach`, `_create`, `_delete` and their like for pool and event, and the
  size checks: the program creates its objects once, statically, and never ends them.
- Mutex, mailbox, memheap, slab and signal are not compiled into this build.
- The flash driver and the board library's memory manager: the program calls only the
  initialisation of the first and nothing of the second.
- Drivers whose content is timing on a pin or a register protocol (DHT11 bits, SDIO,
  LCD), vendored code (FATFS, the STM32 library, finsh) and
  generated output.

## 8. Plan

The order follows what the program depends on most. Done: the kernel under the
threads, its objects and its heap; the fan-out of a sample; the pipeline; the
menu; the calendar.

Still worth modelling:

1. The outcomes of FATFS calls in Acquisition (a card that is removed, a full card),
   with the one-byte counter in the file name.
2. The transmit buffer of `u2_printf`, if the sampling period ever becomes settable to
   a few milliseconds.
3. The pools and queues of Acquisition as instances of BlockPool and MessageChannel.

Theorems to come: in Rtc, that the loops go forward in time with the counter, and from
that `StampSound`, by what the interrupt may change between two fields. For Acquisition, a `TimelyInv` that
counts the presses since the announcement instead of all, and `TemColumnsSound` for slots that
have wrapped.

The bounds stay at the least instance in which every action, an empty, a full and a
middle case occur, and each run within a few minutes.
