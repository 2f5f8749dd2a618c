---------------------------- MODULE SampleEvents ----------------------------
(***************************************************************************)
(* Who hears of a sample, User/main.c: the timer sends FLAG1 of            *)
(* DHT11_data_event, a character from the PC sends FLAG8, and three        *)
(* threads wait for them: over_temhum drives the alarm LED, wifi uploads   *)
(* and uart_deal_event answers the PC.                                     *)
(*                                                                         *)
(* DHT11_data_event is an instance of the kernel's event object, RtEvent.  *)
(* over_temhum has priority 1, the others share priority 2; the timer and  *)
(* the serial port interrupt all of them.  So do the keys: their handlers  *)
(* put the interrupted thread to sleep for 10 or 20 ms (delay_ms), and     *)
(* when that hits rt_event_recv the call may fail with the flags taken.    *)
(***************************************************************************)
EXTENDS Naturals, Sequences, FiniteSets

CONSTANTS
    TEMS, HUMS,   \* what the sensor may read
    LIMITS,       \* thresholds the user may set in the menu; {} if never
    MaxKeys,      \* bound: presses that hit one of the three threads
    MaxBypass     \* bound: deliveries to others that are counted

ASSUME SampleConstants ==
    /\ TEMS \subseteq Nat /\ TEMS # {} /\ HUMS \subseteq Nat /\ HUMS # {}
    /\ LIMITS \subseteq Nat /\ MaxKeys \in Nat /\ MaxBypass \in Nat

FLAG1 == "FLAG1"      \* a sample was taken
FLAG8 == "FLAG8"      \* the PC asks for the values

over_temhum     == "over_temhum"
wifi            == "wifi"
uart_deal_event == "uart_deal_event"
Listeners == {over_temhum, wifi, uart_deal_event}

VARIABLES
    set, suspend_thread, request, recved, error, timer, pc, hit,
    walk,                 \* DHT11_data_event and the timers of its threads
    tem, hum,             \* the last values read
    tem_flag, hum_flag,   \* the thresholds of the alarm
    LED,                  \* 0 lights it
    at,                   \* where each thread is in its loop
    keys,                 \* presses so far that hit one of the threads
    sampled,              \* threads a sample came for while they were delayed
    bypass,               \* FLAG1s received by others since over_temhum had one
    naps                  \* keys that have hit over_temhum since then

eventVars  == <<set, suspend_thread, request, recved, error, timer, pc, hit, walk>>
sensorVars == <<tem, hum>>
limitVars  == <<tem_flag, hum_flag>>
countVars  == <<bypass, naps>>
vars == <<eventVars, sensorVars, limitVars, LED, at, keys, sampled, countVars>>

\* Mutant: wifi and over_temhum take either flag.
WantedEither(t) ==
    [flags |-> {FLAG1, FLAG8},
     mode  |-> IF t = uart_deal_event THEN "RT_EVENT_FLAG_AND" ELSE "RT_EVENT_FLAG_OR",
     clear |-> TRUE,
     wait  |-> "forever"]

\* What each thread asks for; uart_deal_event wants both flags.
Wanted(t) ==
    [flags |-> IF t = uart_deal_event THEN {FLAG1, FLAG8} ELSE {FLAG1},
     mode  |-> IF t = uart_deal_event THEN "RT_EVENT_FLAG_AND" ELSE "RT_EVENT_FLAG_OR",
     clear |-> TRUE,
     wait  |-> "forever"]

DHT11_data_event ==
    INSTANCE RtEvent WITH Threads <- Listeners, Flags <- {FLAG1, FLAG8},
                          Wants <- {Wanted(t) : t \in Listeners},
                          MaxHit <- Cardinality(Listeners)

Init ==
    /\ DHT11_data_event!Init
    /\ tem = 0 /\ hum = 0
    /\ tem_flag = 30 /\ hum_flag = 0
    /\ LED = 0
    /\ at = [t \in Listeners |-> "top"]
    /\ keys = 0 /\ sampled = {}
    /\ bypass = 0 /\ naps = 0
-----------------------------------------------------------------------------
(* Interrupts.                                                             *)

\* Interrupts are enabled.
Interruptible == DHT11_data_event!Enabled

\* A silent sensor or a bad checksum leaves the old values.
DHT11_Read_Data ==
    \/ tem' \in TEMS /\ hum' \in HUMS
    \/ UNCHANGED sensorVars

\* timeout1: read the sensor, tell whoever waits, whatever the reading gave.  The
\* values also go to the message queues of module Acquisition.  It runs every
\* 200 ms: once at most while a key delays a thread.
timeout1 ==
    /\ Interruptible /\ sampled = {}
    /\ DHT11_Read_Data
    /\ DHT11_data_event!Send({FLAG1})
    /\ sampled' = timer
    /\ UNCHANGED <<limitVars, LED, at, keys, countVars>>

\* USART3_IRQHandler: any character is a request.
USART3_IRQHandler ==
    /\ DHT11_data_event!Send({FLAG8})
    /\ UNCHANGED <<sensorVars, limitVars, LED, at, keys, sampled, countVars>>

\* One more FLAG1 that over_temhum did not get, up to the bound.
Bypassed(t) == /\ bypass' = IF t = over_temhum THEN 0
                            ELSE IF bypass < MaxBypass THEN bypass + 1 ELSE bypass
               /\ naps' = IF t = over_temhum THEN 0 ELSE naps

\* The rest of rt_event_send, interrupts still disabled.
Deliver ==
    /\ DHT11_data_event!Visit
    /\ \/ /\ suspend_thread' = suspend_thread
          /\ UNCHANGED countVars
       \/ /\ suspend_thread' # suspend_thread
          /\ Bypassed(suspend_thread[walk])
    /\ sampled' = sampled \cap timer'
    /\ UNCHANGED <<sensorVars, limitVars, LED, at, keys>>

\* The delay of t is over; if t waits, this ends its wait as well.
Timeout(t) ==
    /\ DHT11_data_event!Timeout(t)
    /\ sampled' = sampled \ {t}
    /\ UNCHANGED <<sensorVars, limitVars, LED, at, keys, countVars>>
-----------------------------------------------------------------------------
(* The threads.                                                            *)

\* t waits for an event and nobody has woken it.
Blocked(t) == pc[t] = "asleep"

\* t would run: it has not given up the processor and no key delays it.
Ready(t) == ~ Blocked(t) /\ (t \in timer => pc[t] = "suspended")

\* Mutant: over_temhum gets no priority.
RunsInAnyOrder(t) == /\ Interruptible /\ Ready(t)
                     /\ \A u \in Listeners \ {t} : pc[u] # "suspended"

\* t has the processor: over_temhum preempts the other two, and one on its way
\* to sleep has left it before another runs.
Runs(t) == /\ Interruptible /\ Ready(t)
           /\ t # over_temhum => ~ Ready(over_temhum)
           /\ \A u \in Listeners \ {t} : pc[u] # "suspended"

\* A key interrupts t and delays it.
KeyDelay(t) ==
    /\ Runs(t) /\ keys < MaxKeys
    /\ keys' = keys + 1
    /\ DHT11_data_event!Delay(t)
    /\ naps' = IF t = over_temhum THEN naps + 1 ELSE naps
    /\ UNCHANGED <<sensorVars, limitVars, LED, at, sampled, bypass>>

\* The call of rt_event_recv ...
Wait(t) ==
    /\ Runs(t) /\ at[t] = "top"
    /\ DHT11_data_event!Call(t, Wanted(t))
    /\ at' = [at EXCEPT ![t] = "wait"]
    /\ UNCHANGED <<sensorVars, limitVars, LED, keys, sampled, countVars>>

\* ... its critical section ...
Take(t) ==
    /\ Runs(t)
    /\ DHT11_data_event!Recv(t)
    /\ \/ /\ pc'[t] = "resumed"
          /\ Bypassed(t)
       \/ /\ pc'[t] # "resumed"
          /\ UNCHANGED countVars
    /\ UNCHANGED <<sensorVars, limitVars, LED, at, keys, sampled>>

\* ... the switch to another thread ...
Sleep(t) ==
    /\ DHT11_data_event!Schedule(t)
    /\ UNCHANGED <<sensorVars, limitVars, LED, at, keys, sampled, countVars>>

\* ... and its return: the loops go on only with RT_EOK.
Woken(t) ==
    /\ Runs(t) /\ at[t] = "wait"
    /\ DHT11_data_event!Return(t)
    /\ at' = [at EXCEPT ![t] = IF error[t] = "EOK" THEN "got" ELSE "top"]
    /\ UNCHANGED <<sensorVars, limitVars, LED, keys, sampled, countVars>>

\* wifi and uart_deal_event print both values.
PrintValues(t) ==
    /\ Runs(t) /\ t # over_temhum /\ at[t] = "got"
    /\ at' = [at EXCEPT ![t] = "top"]
    /\ UNCHANGED <<eventVars, sensorVars, limitVars, LED, keys, sampled, countVars>>

\* overtem_entry, the two comparisons: a sample or a key may come in between.
CheckTem ==
    /\ Runs(over_temhum) /\ at[over_temhum] = "got"
    /\ LED' = IF tem > tem_flag THEN 0 ELSE 1
    /\ at' = [at EXCEPT ![over_temhum] = "hum"]
    /\ UNCHANGED <<eventVars, sensorVars, limitVars, keys, sampled, countVars>>

\* Mutant: the comparison the wrong way round.
CheckHumBelow ==
    /\ Runs(over_temhum) /\ at[over_temhum] = "hum"
    /\ LED' = IF hum < hum_flag THEN 0 ELSE 1
    /\ at' = [at EXCEPT ![over_temhum] = "top"]
    /\ UNCHANGED <<eventVars, sensorVars, limitVars, keys, sampled, countVars>>

CheckHum ==
    /\ Runs(over_temhum) /\ at[over_temhum] = "hum"
    /\ LED' = IF hum > hum_flag THEN 0 ELSE 1
    /\ at' = [at EXCEPT ![over_temhum] = "top"]
    /\ UNCHANGED <<eventVars, sensorVars, limitVars, keys, sampled, countVars>>

\* key_choice_handle in lcd_show (priority 3): the user sets a threshold.
SetLimit ==
    /\ Interruptible /\ \A t \in Listeners : ~ Ready(t)
    /\ \/ tem_flag' \in LIMITS /\ UNCHANGED hum_flag
       \/ hum_flag' \in LIMITS /\ UNCHANGED tem_flag
    /\ UNCHANGED <<eventVars, sensorVars, LED, at, keys, sampled, countVars>>
-----------------------------------------------------------------------------
Step(t) == Wait(t) \/ Take(t) \/ Sleep(t) \/ Woken(t) \/ PrintValues(t)

Next ==
    \/ timeout1 \/ USART3_IRQHandler \/ Deliver
    \/ \E t \in Listeners : Step(t) \/ KeyDelay(t) \/ Timeout(t)
    \/ CheckTem \/ CheckHum
    \/ SetLimit

Spec == Init /\ [][Next]_vars

\* A sample is due every samp_freq = 200 ticks of a millisecond and each thread
\* needs a few for its output: none is kept from ever blocking.
PeriodIsLong == \A t \in Listeners : []<>Blocked(t)

\* A key delays a thread for 10 or 20 ms.
DelaysEnd == \A t \in Listeners : []<>(t \notin timer)

\* The timer is periodic whatever the PC sends, and rt_event_send ends.
FairSpec ==
    /\ Spec /\ PeriodIsLong /\ DelaysEnd
    /\ []<><<timeout1>>_vars /\ WF_vars(Deliver)
-----------------------------------------------------------------------------
\* FLAG1 wakes one of the threads and rt_event_send clears it (main.c:556, 607,
\* ipc.c:1061), but the first-in first-out list makes them take turns: between
\* two samples handed to over_temhum the others get at most one each.  A key
\* that delays over_temhum costs it its place: four more at most.
AlarmNotStarved == bypass <= 2 + 4 * naps

\* The call of t has failed with the flags it took: a key hit it between the
\* wake-up and the return of thread->error (ipc.c:1204).
RequestLost(t) ==
    t \in hit /\ pc[t] = "resumed" /\ error[t] # "EOK" /\ FLAG8 \in recved[t]

\* A request of the PC is answered (main.c:139-146) although wifi and
\* over_temhum keep clearing the FLAG1 that uart_deal_event needs as well, and
\* although delays end its waits early: unless a key hits uart_deal_event when
\* it has taken the request and not yet returned from rt_event_recv.
RequestAnswered ==
    (FLAG8 \in set) ~> (at[uart_deal_event] = "got" \/ RequestLost(uart_deal_event))

\* If the humidity stays above its threshold, the alarm comes on again and
\* again, whatever the temperature.
HumidAlarm == <>[](hum > hum_flag) => []<>(LED = 0)
=============================================================================
