----------------------------- MODULE Acquisition -----------------------------
(***************************************************************************)
(* The way of a sample through the program, User/main.c: the sampling      *)
(* timer puts temperature and humidity in two message queues, recevDHT11   *)
(* files them in blocks of two memory pools, lcd_show passes each full     *)
(* block on and thread_mp_release writes it to the SD card.                *)
(*                                                                         *)
(* A sample is the number of the timer expiry that took it.  lcd_show      *)
(* (priority 3) runs whenever it is ready; recevDHT11 and                  *)
(* thread_mp_release share priority 4 and are sliced at any point; the     *)
(* timer and the keys interrupt all of them.  A step of a thread ends      *)
(* where another one may touch what it uses next.                          *)
(***************************************************************************)
EXTENDS Integers, Sequences, FiniteSets

CONSTANTS
    SLOTS,        \* entries of ptr and ptr2 (48)
    BLOCKS,       \* blocks of each pool (32)
    mem_slice,    \* samples in a block (25)
    MSGS,         \* capacity of mq_DHT11_tem and mq_DHT11_hum (128)
    LCDMSGS,      \* capacity of mq_tem_memlcd (32)
    MaxSamples,   \* bound: timer expiries
    MaxBacklog,   \* bound: samples queued when the timer expires
    MaxKeys,      \* bound: key presses
    WaveMenu      \* whether the user ever opens menu 4

ASSUME AcquisitionConstants ==
    /\ {SLOTS, BLOCKS, mem_slice, MSGS, LCDMSGS} \subseteq Nat \ {0}
    /\ {MaxSamples, MaxBacklog, MaxKeys} \subseteq Nat
    /\ WaveMenu \in BOOLEAN

Null    == 0            \* RT_NULL; blocks are numbered from 1
lcd_show          == "lcd_show"
recevDHT11        == "recevDHT11"
thread_mp_release == "thread_mp_release"
Nappers == {lcd_show, recevDHT11, thread_mp_release}
Unset   == 0            \* a byte of a pool nobody wrote; samples start at 1
Junk    == -1           \* what a read through RT_NULL returns
Slots   == 0 .. SLOTS - 1
Blocks  == 1 .. BLOCKS
Bytes   == 0 .. mem_slice - 1
FLAG2   == "FLAG2"      \* a block of samples is complete
FLAG6   == "FLAG6"      \* a key was pressed

VARIABLES
    samples,            \* timer expiries so far
    mq_DHT11_tem, mq_DHT11_hum,
    recev,              \* where recevDHT11 is
    tem_get, hum_get, i, j, cnt, cnt2,          \* its locals
    ptr, ptr2,          \* slot -> block of the temperature, humidity pool
    tem_mp, hum_mp,     \* the free lists of the pools
    temmempool, hummempool,                     \* the bytes of the blocks
    index,              \* the global the threads pass a slot number in
    memlcd_data_event,  \* the pending flags of the event
    lcd, lcd_buf,       \* where lcd_show is, and the flags it received
    lcd_error,          \* its thread->error is -RT_ETIMEOUT
    lost,               \* history: the values of index it was to pass on when
                        \* rt_event_recv took FLAG2 and failed
    wave,               \* menu 4 is open: c_state == OK and choice == 4
    keys,               \* key presses so far
    mq_tem_memlcd,
    release, buf, row,  \* where thread_mp_release is, and its locals
    taken,              \* history: the messages it took, except 0
    file,               \* the rows of the open file
    sd,                 \* the files written, in order
    fault,              \* "none", a "wild" store, or a hard "fault"
    nap                 \* threads whose timer a key's delay_ms has started: the
                        \* samples taken since, counted from 1; 0 for the others

sampling == <<samples, mq_DHT11_tem, mq_DHT11_hum>>
locals   == <<tem_get, hum_get, i, j, cnt, cnt2>>
store    == <<ptr, ptr2, tem_mp, hum_mp, temmempool, hummempool>>
lcdVars  == <<memlcd_data_event, lcd, lcd_buf, lcd_error, lost, wave, keys,
              mq_tem_memlcd>>
relVars  == <<release, buf, row, taken, file, sd>>
vars == <<sampling, recev, locals, store, index, lcdVars, relVars, fault, nap>>

Init ==
    /\ samples = 0 /\ mq_DHT11_tem = <<>> /\ mq_DHT11_hum = <<>>
    /\ recev = "hum" /\ tem_get = Unset /\ hum_get = Unset
    /\ i = 0 /\ j = 0 /\ cnt = 0 /\ cnt2 = 0
    /\ ptr = [s \in Slots |-> Null] /\ ptr2 = [s \in Slots |-> Null]
    /\ tem_mp = [b \in Blocks |-> b] /\ hum_mp = [b \in Blocks |-> b]
    /\ temmempool = [b \in Blocks |-> [k \in Bytes |-> Unset]]
    /\ hummempool = [b \in Blocks |-> [k \in Bytes |-> Unset]]
    /\ index = 0
    /\ memlcd_data_event = {} /\ lcd = "loop" /\ lcd_buf = {}
    /\ lcd_error = FALSE /\ lost = {}
    /\ wave = FALSE /\ keys = 0
    /\ mq_tem_memlcd = <<>>
    /\ release = "recv" /\ buf = 0 /\ row = 0
    /\ taken = <<>> /\ file = <<>> /\ sd = <<>>
    /\ fault = "none"
    /\ nap = [t \in Nappers |-> 0]
-----------------------------------------------------------------------------
(* Who may run.                                                            *)

Running == fault # "fault"

Awake(t) == nap[t] = 0

\* lcd_show sleeps in one of its two rt_event_recv calls.
LcdBlocked == lcd \in {"asleep", "asleep_wave"}

LcdRuns == Running /\ Awake(lcd_show)

\* Mutant: lcd_show gets no priority.
Prio4RunsAnytime(t) == Running /\ Awake(t)

\* t, one of the two threads of priority 4, gets the processor.
Prio4Runs(t) == Running /\ Awake(t) /\ (LcdBlocked \/ ~ Awake(lcd_show))

\* Who of the three may be running when an interrupt comes.
Interrupted ==
    IF ~ LcdBlocked /\ Awake(lcd_show) THEN {lcd_show}
    ELSE {t \in {recevDHT11, thread_mp_release} : Awake(t) /\
             (t = thread_mp_release => release # "recv" \/ mq_tem_memlcd # <<>>)}
-----------------------------------------------------------------------------
(* The sampling timer, in the tick interrupt.                              *)

\* rt_mq_send: a message that finds the queue full is dropped.
Sent(q, m, capacity) == IF Len(q) < capacity THEN Append(q, m) ELSE q

\* timeout1.  Its FLAG1 goes to other threads (module SampleEvents).
timeout1 ==
    /\ Running
    /\ samples < MaxSamples /\ Len(mq_DHT11_tem) <= MaxBacklog
    /\ \A t \in Nappers : nap[t] < 2
    /\ samples' = samples + 1
    /\ mq_DHT11_tem' = Sent(mq_DHT11_tem, samples', MSGS)
    /\ mq_DHT11_hum' = Sent(mq_DHT11_hum, samples', MSGS)
    /\ nap' = [t \in Nappers |-> IF Awake(t) THEN 0 ELSE nap[t] + 1]
    /\ UNCHANGED <<recev, locals, store, index, lcdVars, relVars, fault>>
-----------------------------------------------------------------------------
(* The event lcd_show waits on; it is the only waiter.                     *)

\* What lcd_show asks for: in the list of the event it may still be running, on
\* its way to sleep.
Awaited == IF lcd \in {"suspended", "asleep"} THEN {FLAG2, FLAG6}
           ELSE IF lcd \in {"suspended_wave", "asleep_wave"} THEN {FLAG2} ELSE {}

\* Where lcd_show is when a key has started the timers in naps: on its way to
\* sleep it then sleeps.
SentToSleep(naps) ==
    IF naps[lcd_show] = 0 THEN lcd
    ELSE CASE lcd = "suspended"      -> "asleep"
           [] lcd = "suspended_wave" -> "asleep_wave"
           [] OTHER                  -> lcd

\* Mutant: the flag is set and the sleeping waiter not looked for.
EventSendWakesNobody(f, naps) ==
    /\ memlcd_data_event' = memlcd_data_event \cup {f}
    /\ lcd' = SentToSleep(naps) /\ nap' = naps
    /\ UNCHANGED lcd_buf

\* rt_event_send of one flag: a waiter that asked for it takes it, at once, and
\* its timer is stopped; what its rt_event_recv returns is not decided yet.
EventSend(f, naps) ==
    IF f \in Awaited
    THEN /\ lcd' = IF lcd \in {"suspended", "asleep"} THEN "taken" ELSE "drawn"
         /\ lcd_buf' = IF lcd \in {"suspended", "asleep"} THEN {f} ELSE lcd_buf
         /\ nap' = [naps EXCEPT ![lcd_show] = 0]
         /\ UNCHANGED memlcd_data_event
    ELSE /\ memlcd_data_event' = memlcd_data_event \cup {f}
         /\ lcd' = SentToSleep(naps) /\ nap' = naps
         /\ UNCHANGED lcd_buf

\* The key handlers, EXTI0, 2, 3 and 4.  They call delay_ms without
\* rt_interrupt_enter, which puts the thread they interrupted to sleep and clears
\* its error at once; that may also be a thread outside this module.  Unless the
\* contact only bounced, a key may then open or close the wave menu, and sends
\* FLAG6.
Key ==
    /\ Running /\ keys < MaxKeys
    /\ keys' = keys + 1
    /\ \E hit \in {{}} \cup {{t} : t \in Interrupted} :
          LET naps == [t \in Nappers |-> IF t \in hit THEN 1 ELSE nap[t]]
          IN  /\ lcd_error' = (lcd_error /\ lcd_show \notin hit)
              /\ \/ wave' \in {FALSE, WaveMenu} /\ EventSend(FLAG6, naps)
                 \/ /\ nap' = naps /\ lcd' = SentToSleep(naps)
                    /\ UNCHANGED <<wave, memlcd_data_event, lcd_buf>>
    /\ UNCHANGED <<sampling, recev, locals, store, index, lost, mq_tem_memlcd,
                   relVars, fault>>

\* rt_thread_timeout of a thread whose timer was started that way.  If lcd_show
\* waits for flags, that wait is over as well, without any.
NapEnds(t) ==
    /\ Running /\ ~ Awake(t)
    /\ nap' = [nap EXCEPT ![t] = 0]
    /\ lcd_error' = (lcd_error \/ t = lcd_show)
    /\ lcd' = IF t # lcd_show THEN lcd
              ELSE CASE lcd = "asleep"      -> "taken"
                     [] lcd = "asleep_wave" -> "drawn"
                     [] OTHER               -> lcd
    /\ UNCHANGED <<sampling, recev, locals, store, index, memlcd_data_event,
                   lcd_buf, lost, wave, keys, mq_tem_memlcd, relVars, fault>>
-----------------------------------------------------------------------------
(* recevDHT11: the humidity half of its loop, then the temperature half.   *)

\* Top of the loop: wrap the slot numbers, poll mq_DHT11_hum.
RecvHum ==
    /\ Prio4Runs(recevDHT11) /\ recev = "hum"
    /\ i' = i % SLOTS /\ j' = j % SLOTS
    /\ \/ /\ mq_DHT11_hum = <<>>
          /\ recev' = "tem"
          /\ UNCHANGED <<hum_get, mq_DHT11_hum>>
       \/ /\ mq_DHT11_hum # <<>>
          /\ hum_get' = Head(mq_DHT11_hum)
          /\ mq_DHT11_hum' = Tail(mq_DHT11_hum)
          /\ recev' = IF cnt2 % mem_slice = 0 THEN "alloc_hum" ELSE "store_hum"
    /\ UNCHANGED <<samples, mq_DHT11_tem, tem_get, cnt, cnt2, store, index,
                   lcdVars, relVars, fault, nap>>

\* Mutant: the block is handed out and stays on the free list.
AllocHumKeepsFirst ==
    /\ Prio4Runs(recevDHT11) /\ recev = "alloc_hum"
    /\ recev' = "store_hum"
    /\ \/ /\ hum_mp # <<>>
          /\ ptr2' = [ptr2 EXCEPT ![j] = Head(hum_mp)]
          /\ index' = IF j # 0 THEN j ELSE index
          /\ j' = j + 1
       \/ /\ hum_mp = <<>>
          /\ ptr2' = [ptr2 EXCEPT ![j] = Null]
          /\ UNCHANGED <<index, j>>
    /\ UNCHANGED <<sampling, tem_get, hum_get, i, cnt, cnt2, ptr, tem_mp, hum_mp,
                   temmempool, hummempool, lcdVars, relVars, fault, nap>>

\* A new humidity block, announced in index only: nobody waits for the FLAG5
\* sent beside it.
AllocHum ==
    /\ Prio4Runs(recevDHT11) /\ recev = "alloc_hum"
    /\ recev' = "store_hum"
    /\ \/ /\ hum_mp # <<>>
          /\ ptr2' = [ptr2 EXCEPT ![j] = Head(hum_mp)]
          /\ hum_mp' = Tail(hum_mp)
          /\ index' = IF j # 0 THEN j ELSE index
          /\ j' = j + 1
       \/ /\ hum_mp = <<>>
          /\ ptr2' = [ptr2 EXCEPT ![j] = Null]
          /\ UNCHANGED <<hum_mp, index, j>>
    /\ UNCHANGED <<sampling, tem_get, hum_get, i, cnt, cnt2, ptr, tem_mp,
                   temmempool, hummempool, lcdVars, relVars, fault, nap>>

\* ptr2[j-1][cnt2 % mem_slice] = hum_get.  The linker puts ptr2 right behind
\* ptr, so ptr2[-1] is the last entry of ptr.
StoreHum ==
    /\ Prio4Runs(recevDHT11) /\ recev = "store_hum"
    /\ recev' = "tem"
    /\ LET block == IF j = 0 THEN ptr[SLOTS - 1] ELSE ptr2[j - 1]
           byte  == cnt2 % mem_slice
       IN  \/ /\ block = Null
              /\ UNCHANGED <<hummempool, temmempool, cnt2>>
           \/ /\ block # Null /\ j # 0
              /\ hummempool' = [hummempool EXCEPT ![block][byte] = hum_get]
              /\ cnt2' = cnt2 + 1
              /\ UNCHANGED temmempool
           \/ /\ block # Null /\ j = 0
              /\ temmempool' = [temmempool EXCEPT ![block][byte] = hum_get]
              /\ cnt2' = cnt2 + 1
              /\ UNCHANGED hummempool
    /\ UNCHANGED <<sampling, tem_get, hum_get, i, j, cnt, ptr, ptr2, tem_mp,
                   hum_mp, index, lcdVars, relVars, fault, nap>>

\* Poll mq_DHT11_tem.
RecvTem ==
    /\ Prio4Runs(recevDHT11) /\ recev = "tem"
    /\ \/ /\ mq_DHT11_tem = <<>>
          /\ recev' = "hum"
          /\ UNCHANGED <<tem_get, mq_DHT11_tem>>
       \/ /\ mq_DHT11_tem # <<>>
          /\ tem_get' = Head(mq_DHT11_tem)
          /\ mq_DHT11_tem' = Tail(mq_DHT11_tem)
          /\ recev' = IF cnt % mem_slice = 0 THEN "alloc_tem" ELSE "store_tem"
    /\ UNCHANGED <<samples, mq_DHT11_hum, hum_get, i, j, cnt, cnt2, store,
                   index, lcdVars, relVars, fault, nap>>

\* Mutant: announces the new block, which is still being filled.
AllocTemAnnouncesNew ==
    /\ Prio4Runs(recevDHT11) /\ recev = "alloc_tem"
    /\ \/ /\ tem_mp # <<>>
          /\ ptr' = [ptr EXCEPT ![i] = Head(tem_mp)]
          /\ tem_mp' = Tail(tem_mp)
          /\ index' = IF i # 0 THEN i + 1 ELSE index
          /\ recev' = IF i # 0 THEN "send_tem" ELSE "next_tem"
       \/ /\ tem_mp = <<>>
          /\ ptr' = [ptr EXCEPT ![i] = Null]
          /\ recev' = "store_tem"
          /\ UNCHANGED <<tem_mp, index>>
    /\ UNCHANGED <<sampling, locals, ptr2, hum_mp, temmempool, hummempool,
                   lcdVars, relVars, fault, nap>>

\* A new temperature block; from slot 1 on it announces that the slot before
\* it is complete.
AllocTem ==
    /\ Prio4Runs(recevDHT11) /\ recev = "alloc_tem"
    /\ \/ /\ tem_mp # <<>>
          /\ ptr' = [ptr EXCEPT ![i] = Head(tem_mp)]
          /\ tem_mp' = Tail(tem_mp)
          /\ index' = IF i # 0 THEN i ELSE index
          /\ recev' = IF i # 0 THEN "send_tem" ELSE "next_tem"
       \/ /\ tem_mp = <<>>
          /\ ptr' = [ptr EXCEPT ![i] = Null]
          /\ recev' = "store_tem"
          /\ UNCHANGED <<tem_mp, index>>
    /\ UNCHANGED <<sampling, locals, ptr2, hum_mp, temmempool, hummempool,
                   lcdVars, relVars, fault, nap>>

\* rt_event_send(&memlcd_data_event, EVENT_FLAG2): lcd_show preempts if it can.
SendTem ==
    /\ Prio4Runs(recevDHT11) /\ recev = "send_tem"
    /\ EventSend(FLAG2, nap)
    /\ recev' = "next_tem"
    /\ UNCHANGED <<sampling, locals, store, index, lcd_error, lost, wave, keys,
                   mq_tem_memlcd, relVars, fault>>

NextTem ==
    /\ Prio4Runs(recevDHT11) /\ recev = "next_tem"
    /\ i' = i + 1
    /\ recev' = "store_tem"
    /\ UNCHANGED <<sampling, tem_get, hum_get, j, cnt, cnt2, store, index,
                   lcdVars, relVars, fault, nap>>

\* ptr[i-1][cnt % mem_slice] = tem_get.  In front of ptr the linker puts
\* lcd_drawn_hum, whose last samples ptr[-1] takes for an address: four zero
\* bytes are RT_NULL, others lead outside the pools or to a hard fault.
StoreTem ==
    /\ Prio4Runs(recevDHT11) /\ recev = "store_tem"
    /\ recev' = "hum"
    /\ \/ /\ i # 0 /\ ptr[i - 1] # Null
          /\ temmempool' = [temmempool EXCEPT ![ptr[i - 1]][cnt % mem_slice] = tem_get]
          /\ cnt' = cnt + 1
          /\ UNCHANGED fault
       \/ /\ i # 0 /\ ptr[i - 1] = Null
          /\ UNCHANGED <<temmempool, cnt, fault>>
       \/ /\ i = 0
          /\ \/ UNCHANGED <<cnt, fault>>
             \/ cnt' = cnt + 1 /\ fault' \in {"wild", "fault"}
          /\ UNCHANGED temmempool
    /\ UNCHANGED <<sampling, tem_get, hum_get, i, j, cnt2, ptr, ptr2, tem_mp,
                   hum_mp, hummempool, index, lcdVars, relVars, nap>>
-----------------------------------------------------------------------------
(* lcd_show.                                                               *)

\* rt_event_recv for FLAG2 or FLAG6: the error is cleared ...
LcdCall ==
    /\ LcdRuns /\ lcd = "loop"
    /\ lcd' = "called" /\ lcd_error' = FALSE
    /\ UNCHANGED <<sampling, recev, locals, store, index, memlcd_data_event,
                   lcd_buf, lost, wave, keys, mq_tem_memlcd, relVars, fault, nap>>

\* ... the flags are taken, or lcd_show joins the list of the event ...
LcdRecv ==
    /\ LcdRuns /\ lcd = "called"
    /\ lcd' = IF memlcd_data_event # {} THEN "taken" ELSE "suspended"
    /\ lcd_buf' = memlcd_data_event /\ memlcd_data_event' = {}
    /\ UNCHANGED <<sampling, recev, locals, store, index, lcd_error, lost, wave,
                   keys, mq_tem_memlcd, relVars, fault, nap>>

\* ... and leaves the processor.
LcdSleep ==
    /\ Running
    /\ \/ lcd = "suspended" /\ lcd' = "asleep"
       \/ lcd = "suspended_wave" /\ lcd' = "asleep_wave"
    /\ UNCHANGED <<sampling, recev, locals, store, index, memlcd_data_event,
                   lcd_buf, lcd_error, lost, wave, keys, mq_tem_memlcd, relVars,
                   fault, nap>>

\* It returns thread->error, which may be the end of a delay that began after the
\* flags were taken: then lcd_show waits again, and they are lost.
LcdReturn ==
    /\ LcdRuns /\ lcd = "taken"
    /\ \/ ~ lcd_error /\ lcd' = "menu" /\ UNCHANGED lost
       \/ /\ lcd_error /\ lcd' = "loop"
          /\ lost' = IF FLAG2 \in lcd_buf THEN lost \cup {index} ELSE lost
    /\ UNCHANGED <<sampling, recev, locals, store, index, memlcd_data_event,
                   lcd_buf, lcd_error, wave, keys, mq_tem_memlcd, relVars, fault,
                   nap>>

\* key_choice_handle: menu 4 calls lcd_showwave, which waits for FLAG2 itself and
\* only draws or does not draw after it.
LcdMenu ==
    /\ LcdRuns /\ lcd = "menu"
    /\ \/ /\ ~ wave
          /\ lcd' = "drawn"
          /\ UNCHANGED memlcd_data_event
       \/ /\ wave /\ FLAG2 \in memlcd_data_event
          /\ memlcd_data_event' = memlcd_data_event \ {FLAG2}
          /\ lcd' = "drawn"
       \/ /\ wave /\ FLAG2 \notin memlcd_data_event
          /\ lcd' = "suspended_wave"
          /\ UNCHANGED memlcd_data_event
    /\ UNCHANGED <<sampling, recev, locals, store, index, lcd_buf, lcd_error, lost,
                   wave, keys, mq_tem_memlcd, relVars, fault, nap>>

\* Mutant: passes index on for a key, too.
LcdPassAlways ==
    /\ LcdRuns /\ lcd = "drawn"
    /\ lcd' = "loop"
    /\ mq_tem_memlcd' = Sent(mq_tem_memlcd, index, LCDMSGS)
    /\ UNCHANGED <<sampling, recev, locals, store, index, memlcd_data_event,
                   lcd_buf, lcd_error, lost, wave, keys, relVars, fault, nap>>

\* After the menu: index goes to thread_mp_release unless only a key woke us.
LcdPass ==
    /\ LcdRuns /\ lcd = "drawn"
    /\ lcd' = "loop"
    /\ mq_tem_memlcd' = IF lcd_buf = {FLAG6} THEN mq_tem_memlcd
                        ELSE Sent(mq_tem_memlcd, index, LCDMSGS)
    /\ UNCHANGED <<sampling, recev, locals, store, index, memlcd_data_event,
                   lcd_buf, lcd_error, lost, wave, keys, relVars, fault, nap>>
-----------------------------------------------------------------------------
(* thread_mp_release.                                                      *)

\* Mutant: writes out the slot being filled.
RelRecvOffByOne ==
    /\ Prio4Runs(thread_mp_release) /\ release = "recv" /\ mq_tem_memlcd # <<>>
    /\ mq_tem_memlcd' = Tail(mq_tem_memlcd)
    /\ \/ /\ Head(mq_tem_memlcd) >= 1
          /\ buf' = Head(mq_tem_memlcd)
          /\ row' = 0 /\ file' = <<>>
          /\ taken' = Append(taken, Head(mq_tem_memlcd))
          /\ release' = "rows"
       \/ /\ Head(mq_tem_memlcd) = 0
          /\ buf' = 0
          /\ UNCHANGED <<row, file, release, taken>>
    /\ UNCHANGED <<sampling, recev, locals, store, index, memlcd_data_event,
                   lcd, lcd_buf, lcd_error, lost, wave, keys, sd, fault, nap>>

\* rt_mq_recv; from index 1 on the slot before it is written out.  A call that a
\* key's delay ends takes no message and is made again.
RelRecv ==
    /\ Prio4Runs(thread_mp_release) /\ release = "recv" /\ mq_tem_memlcd # <<>>
    /\ mq_tem_memlcd' = Tail(mq_tem_memlcd)
    /\ \/ /\ Head(mq_tem_memlcd) >= 1
          /\ buf' = Head(mq_tem_memlcd) - 1
          /\ row' = 0 /\ file' = <<>>
          /\ taken' = Append(taken, Head(mq_tem_memlcd))
          /\ release' = "rows"
       \/ /\ Head(mq_tem_memlcd) = 0
          /\ buf' = 0
          /\ UNCHANGED <<row, file, release, taken>>
    /\ UNCHANGED <<sampling, recev, locals, store, index, memlcd_data_event,
                   lcd, lcd_buf, lcd_error, lost, wave, keys, sd, fault, nap>>

\* One line of the file: byte row of the slot's two blocks.
RelRow ==
    /\ Prio4Runs(thread_mp_release) /\ release = "rows" /\ row < mem_slice
    /\ LET read(p, pool) == IF p = Null THEN Junk ELSE pool[p][row]
       IN  file' = Append(file, [tem |-> read(ptr[buf], temmempool),
                                 hum |-> read(ptr2[buf], hummempool)])
    /\ row' = row + 1
    /\ UNCHANGED <<sampling, recev, locals, store, index, lcdVars, release,
                   buf, taken, sd, fault, nap>>

\* Mutant: the block is not freed.
RelFreeForgets ==
    /\ Prio4Runs(thread_mp_release) /\ release = "rows" /\ row = mem_slice
    /\ \/ /\ ptr[buf] # Null
          /\ UNCHANGED <<tem_mp, fault>>
       \/ /\ ptr[buf] = Null
          /\ fault' = "fault"
          /\ UNCHANGED tem_mp
    /\ release' = "clear"
    /\ UNCHANGED <<sampling, recev, locals, ptr, ptr2, hum_mp, temmempool,
                   hummempool, index, lcdVars, buf, row, taken, file, sd, nap>>

\* rt_mp_free(ptr[buf]): the temperature block only.
RelFree ==
    /\ Prio4Runs(thread_mp_release) /\ release = "rows" /\ row = mem_slice
    /\ \/ /\ ptr[buf] # Null
          /\ tem_mp' = <<ptr[buf]>> \o tem_mp
          /\ UNCHANGED fault
       \/ /\ ptr[buf] = Null
          /\ fault' = "fault"
          /\ UNCHANGED tem_mp
    /\ release' = "clear"
    /\ UNCHANGED <<sampling, recev, locals, ptr, ptr2, hum_mp, temmempool,
                   hummempool, index, lcdVars, buf, row, taken, file, sd, nap>>

\* Mutant: the slot keeps the freed block.
RelClearKeepsSlot ==
    /\ Prio4Runs(thread_mp_release) /\ release = "clear"
    /\ UNCHANGED <<ptr, ptr2>>
    /\ sd' = Append(sd, file)
    /\ release' = "recv"
    /\ UNCHANGED <<sampling, recev, locals, tem_mp, hum_mp, temmempool,
                   hummempool, index, lcdVars, buf, row, taken, file, fault,
                   nap>>

\* The slot is emptied and the file closed.
RelClear ==
    /\ Prio4Runs(thread_mp_release) /\ release = "clear"
    /\ ptr' = [ptr EXCEPT ![buf] = Null]
    /\ ptr2' = [ptr2 EXCEPT ![buf] = Null]
    /\ sd' = Append(sd, file)
    /\ release' = "recv"
    /\ UNCHANGED <<sampling, recev, locals, tem_mp, hum_mp, temmempool,
                   hummempool, index, lcdVars, buf, row, taken, file, fault,
                   nap>>
-----------------------------------------------------------------------------
RecevStep == RecvHum \/ AllocHum \/ StoreHum \/ RecvTem \/ AllocTem \/ SendTem
                 \/ NextTem \/ StoreTem
LcdStep   == LcdCall \/ LcdRecv \/ LcdSleep \/ LcdReturn \/ LcdMenu \/ LcdPass
RelStep   == RelRecv \/ RelRow \/ RelFree \/ RelClear

Naps == \E t \in Nappers : NapEnds(t)

Next == timeout1 \/ Key \/ Naps \/ RecevStep \/ LcdStep \/ RelStep

Spec == Init /\ [][Next]_vars

\* Priority 4 is time-sliced, so both of its threads get the processor when
\* lcd_show sleeps; lcd_show gets it first.
FairSpec == Spec /\ WF_vars(RecevStep) /\ WF_vars(LcdStep) /\ WF_vars(RelStep)
                 /\ \A t \in Nappers : WF_vars(NapEnds(t))
-----------------------------------------------------------------------------
\* Where block b of a pool is kept: once on its free list, or in one slot.  The
\* slot thread_mp_release has freed but not emptied yet does not count.
Places(b, free, slot, freed) ==
    Cardinality({k \in 1 .. Len(free) : free[k] = b})
        + Cardinality({s \in Slots : slot[s] = b /\ s \notin freed})

Freed == IF release = "clear" THEN {buf} ELSE {}

\* A temperature block on its way from rt_mp_alloc in recevDHT11 to rt_mp_free
\* in thread_mp_release (main.c:238, 391) is never in two places and never lost.
TemBlockHasPlace == \A b \in Blocks : Places(b, tem_mp, ptr, Freed) = 1

\* The weaker half that also holds once slots are reused: no block is in use
\* twice, or in use and free.
TemBlockNotShared == \A b \in Blocks : Places(b, tem_mp, ptr, Freed) <= 1

\* main.c:391-393: saving a slot frees its temperature block and forgets its
\* humidity block.  Until the slots wrap that is the only way a block is lost,
\* and every file costs exactly one.
HumBlocksLost ==
    LET placed(b) == Places(b, hum_mp, ptr2, {})
    IN  /\ \A b \in Blocks : placed(b) <= 1
        /\ Cardinality({b \in Blocks : placed(b) = 0}) = Len(sd)

\* Read file after file, the temperature column is in sampling order: a block is
\* not saved twice, nor while recevDHT11 refills it (main.c:269-275, 380-391).
TemColumnsSound ==
    \A f \in 1 .. Len(sd) :
        /\ \A r \in 2 .. mem_slice : sd[f][r].tem > sd[f][r - 1].tem
        /\ f > 1 => sd[f][1].tem > sd[f - 1][mem_slice].tem

\* Every message to thread_mp_release names a slot whose block is still there,
\* so it never reads through RT_NULL or frees it (main.c:384, 391).
MessageNamesBlock ==
    \A k \in 1 .. Len(mq_tem_memlcd) :
        /\ mq_tem_memlcd[k] >= 1
        /\ LET s == mq_tem_memlcd[k] - 1
           IN  ptr[s] # Null /\ ~ (release # "recv" /\ buf = s)

\* The files are the history of the samples: file f is the block taken[f], whole,
\* each row with temperature and humidity of one sample; the blocks come in order
\* and none twice, and those left out are exactly the ones whose announcement a
\* failing rt_event_recv took (main.c:238-277, 380-394, 498).
FilesAreHistory ==
    \A f \in 1 .. Len(sd) :
        /\ \A r \in 1 .. mem_slice :
              LET s == (taken[f] - 1) * mem_slice + r
              IN  sd[f][r] = [tem |-> s, hum |-> s]
        /\ \A g \in 1 .. f - 1 : taken[g] < taken[f]
        /\ \A b \in 1 .. taken[f] :
              b \in lost <=> \A g \in 1 .. f : taken[g] # b

\* main.c:39 says of index "a semaphore prevents conflicts".  Between the FLAG2
\* that announces a block and the message that passes it on, nobody may change
\* index.
Announced ==
    FLAG2 \in lcd_buf
        /\ lcd \in {"taken", "menu", "suspended_wave", "asleep_wave", "drawn"}
AnnouncementKept == [][Announced => index' = index]_vars

\* main.c:268 "receive a message and save it in the memory pool": no sample is
\* stored through a pointer that is not a slot's.
NoWildStore == fault = "none"

\* A block announced to lcd_show ends up on the card (main.c:250, 513, 394),
\* unless a key hit lcd_show in rt_event_recv and the call failed with the
\* announcement taken (main.c:498, ipc.c:1204).
Saved(s) == \E f \in 1 .. Len(sd) : taken[f] = s
CompleteBlockSaved ==
    \A s \in Slots : (recev = "send_tem" /\ index = s) ~> (Saved(s) \/ s \in lost)
=============================================================================
