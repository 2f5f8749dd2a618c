-------------------------------- MODULE Menu ---------------------------------
(***************************************************************************)
(* The menu: the four key interrupts of User/bsp/MENU_KEY/MENU_KEY.c and   *)
(* the thread lcd_show, which redraws and applies the settings through     *)
(* key_choice_handle (User/bsp/MENU/Menu.c).                               *)
(*                                                                         *)
(* A key handler is one action: the keys share a priority and lcd_show     *)
(* waits for them.  It begins with delay_ms, which puts the running thread *)
(* to sleep and may so hit lcd_show anywhere, rt_event_recv included.      *)
(* lcd_show has a step for each access to what a handler may change:       *)
(* c_state, choice, adjust, the event and its own error number.            *)
(***************************************************************************)
EXTENDS Integers

CONSTANTS MaxPresses,    \* bound: how often + and - are pressed together
          MaxDelays      \* bound: how often a key hits lcd_show

ASSUME MenuConstants == MaxPresses \in Nat /\ MaxDelays \in Nat

OK == 0
NO == 1
MAIN_STA == 0
BRANCH_STA == 1
EVENT_FLAG2 == "flag2"    \* recevDHT11: a block may be shown
EVENT_FLAG6 == "flag6"    \* a key was pressed

\* What the first three menus set, in the order of their rows.
Items == <<"tem", "hum", "freq">>
Item  == {"tem", "hum", "freq"}

\* One press of + or -, and the number of values of the variable.
StepOf(i)  == IF i = "freq" THEN 10 ELSE 1
WidthOf(i) == IF i = "freq" THEN 65536 ELSE 256

Wild == -1    \* a period read from an unrelated address

\* What the locals of lcd_show are once key_choice_handle has returned.
NoMenu == [sta |-> MAIN_STA, loc |-> 0]
NoRow  == [k |-> 1, main |-> TRUE]

VARIABLES
    choice,     \* the row of the main menu
    c_state,    \* OK: inside that menu; NO: in the main menu
    adjust,     \* presses of + less presses of -
    presses,    \* how many, for the bound
    event,      \* the flags pending in memlcd_data_event
    lcd,        \* where lcd_show is
    buf,        \* the flags it has taken
    error,      \* thread->error is not RT_EOK, while a call may still return it
    delayed,    \* its timer runs: a key has put it to sleep
    delays,     \* how often one has, for the bound
    missed,     \* history: its last call failed and lost a key's flag
    menu,       \* the result of deal_key, in key_choice_handle
    row,        \* the item at hand, and whether the main menu handles it
    change,     \* change_tem, change_hum, change_freq
    set,        \* temset, humset, samp_set
    value,      \* tem_flag, hum_flag, samp_freq
    period,     \* the init_tick of DH11_timer
    shown       \* history: the number last drawn for each item

keyVars  == <<choice, c_state, adjust, presses>>
waitVars == <<event, buf, error, delayed, delays, missed>>
itemVars == <<change, set, value, period, shown>>
vars == <<keyVars, waitVars, lcd, menu, row, itemVars>>

\* In rt_event_recv, on the event's list.
Waiting == {"suspended", "asleep"}
Receiving == {"called", "taken"} \cup Waiting    \* ... or elsewhere in it
WaveWaiting == {"wave_suspended", "wave_asleep"}

Init ==
    /\ choice = 1 /\ c_state = NO /\ adjust = 0 /\ presses = 0
    /\ event = {} /\ buf = {}
    /\ error = FALSE /\ delayed = FALSE /\ delays = 0 /\ missed = FALSE
    /\ lcd = "recv"
    /\ menu = NoMenu
    /\ row = NoRow
    /\ change = [i \in Item |-> FALSE]
    /\ set = [i \in Item |-> 0]
    /\ value = [tem |-> 30, hum |-> 0, freq |-> 200]
    /\ period = value.freq
    /\ shown = value

-----------------------------------------------------------------------------
(* The event and the interrupts *)

\* delay_ms in a key's handler when lcd_show is the running thread: its timer
\* starts, a timeout's error is cleared at once, and if it was on its way to
\* sleep it sleeps.  Not so when another thread runs or the tick's handler does.
Hits(hit) ==
    /\ hit => /\ ~delayed /\ lcd \notin {"asleep", "wave_asleep"}
              /\ delays < MaxDelays
    /\ delays' = IF hit THEN delays + 1 ELSE delays
    /\ error' = (error /\ ~hit)

\* What a key that hits lcd_show does to its place.
SentToSleep(hit) ==
    IF hit /\ lcd = "suspended" THEN "asleep"
    ELSE IF hit /\ lcd = "wave_suspended" THEN "wave_asleep" ELSE lcd

\* rt_event_send, after that delay: a waiting lcd_show gets what it waits for and
\* clears it, and its timer is stopped.
EventSend(flag, hit) ==
    /\ CASE lcd \in Waiting ->
                lcd' = "taken" /\ buf' = {flag} /\ event' = {} /\ delayed' = FALSE
         [] lcd \in WaveWaiting /\ flag = EVENT_FLAG2 ->
                lcd' = "recv" /\ delayed' = FALSE /\ UNCHANGED <<buf, event>>
         [] OTHER ->
                /\ lcd' = SentToSleep(hit) /\ delayed' = (delayed \/ hit)
                /\ event' = event \cup {flag} /\ UNCHANGED buf
    /\ UNCHANGED missed

\* The handler of a key that is down: the delay, and the flag at the end.
KeySend == \E hit \in BOOLEAN : Hits(hit) /\ EventSend(EVENT_FLAG6, hit)

\* The handler of a key that is up again after the delay.
Bounce ==
    /\ Hits(TRUE)
    /\ lcd' = SentToSleep(TRUE) /\ delayed' = TRUE
    /\ UNCHANGED <<keyVars, event, buf, missed, menu, row, itemVars>>

\* rt_thread_timeout, at the end of a delay: what lcd_show was waiting for is
\* over as well, without flags.
DelayEnds ==
    /\ delayed
    /\ delayed' = FALSE /\ error' = (lcd \in Receiving)
    /\ CASE lcd = "asleep" -> lcd' = "taken" /\ buf' = {}
         [] lcd = "wave_asleep" -> lcd' = "recv" /\ UNCHANGED buf
         [] OTHER -> UNCHANGED <<lcd, buf>>
    /\ UNCHANGED <<keyVars, event, delays, missed, menu, row, itemVars>>

\* recevDHT11 announces a block.
Announce ==
    /\ EventSend(EVENT_FLAG2, FALSE)
    /\ UNCHANGED <<keyVars, error, delays, menu, row, itemVars>>

\* WK_UP: the next row.  The sixth does not exist.
EXTI0_IRQHandler ==
    /\ choice' = IF choice < 6 THEN choice + 1 ELSE 1
    /\ KeySend
    /\ UNCHANGED <<c_state, adjust, presses, menu, row, itemVars>>

\* KEY0: enter or leave the menu.
EXTI4_IRQHandler ==
    /\ c_state' = 1 - c_state
    /\ KeySend
    /\ UNCHANGED <<choice, adjust, presses, menu, row, itemVars>>

\* Mutant: the redraw is not asked for.
PressSilent(d) ==
    /\ presses < MaxPresses /\ presses' = presses + 1
    /\ adjust' = adjust + d
    /\ UNCHANGED <<choice, c_state, waitVars, lcd, menu, row, itemVars>>

\* + and -, whatever is on the screen.
Press(d) ==
    /\ presses < MaxPresses /\ presses' = presses + 1
    /\ adjust' = adjust + d
    /\ KeySend
    /\ UNCHANGED <<choice, c_state, menu, row, itemVars>>

EXTI2_IRQHandler == Press(1)
EXTI3_IRQHandler == Press(-1)

-----------------------------------------------------------------------------
(* lcd_show *)

\* lcd_show runs, and is at p.
At(p) == lcd = p /\ ~delayed

\* rt_event_recv for FLAG2 or FLAG6, clearing both, waiting forever: the error
\* number is cleared ...
LcdCall ==
    /\ At("recv") /\ lcd' = "called"
    /\ error' = FALSE /\ buf' = {}
    /\ UNCHANGED <<keyVars, event, delayed, delays, missed, menu, row, itemVars>>

\* ... the flags are taken, or lcd_show joins the list ...
LcdRecv ==
    /\ At("called")
    /\ lcd' = IF event = {} THEN "suspended" ELSE "taken"
    /\ buf' = event /\ event' = {}
    /\ UNCHANGED <<keyVars, error, delayed, delays, missed, menu, row, itemVars>>

\* ... and leaves the processor.
LcdSleep ==
    /\ \/ lcd = "suspended" /\ lcd' = "asleep"
       \/ lcd = "wave_suspended" /\ lcd' = "wave_asleep"
    /\ UNCHANGED <<keyVars, waitVars, menu, row, itemVars>>

\* rt_event_recv returns thread->error, and the loop goes on only with RT_EOK.
LcdReturn ==
    /\ At("taken")
    /\ lcd' = IF error THEN "recv" ELSE "deal_ok"
    /\ missed' = (error /\ (missed \/ EVENT_FLAG6 \in buf))
    /\ buf' = {} /\ error' = FALSE
    /\ UNCHANGED <<keyVars, event, delayed, delays, menu, row, itemVars>>

\* deal_key's first test.
DealOk ==
    /\ At("deal_ok")
    /\ menu' = IF c_state = OK THEN [sta |-> BRANCH_STA, loc |-> choice] ELSE NoMenu
    /\ lcd' = "deal_no"
    /\ UNCHANGED <<keyVars, waitVars, row, itemVars>>

\* What deal_key returns after its second test.  If neither test has found its
\* state, the record keeps what was on the stack.
Dealt ==
    IF c_state = NO THEN {[sta |-> MAIN_STA, loc |-> choice]}
    ELSE IF menu # NoMenu THEN {menu}
    ELSE [sta : {MAIN_STA, BRANCH_STA}, loc : 1 .. 6]

\* The second test, and the branch key_choice_handle takes.
DealNo ==
    /\ At("deal_no")
    /\ \E m \in Dealt :
           \/ /\ m.sta = MAIN_STA
              /\ lcd' = "main" /\ row' = [k |-> 1, main |-> TRUE]
           \/ /\ m.sta = BRANCH_STA /\ m.loc \in 1 .. 3
              /\ lcd' = "display" /\ row' = [k |-> m.loc, main |-> FALSE]
           \/ /\ m.sta = BRANCH_STA /\ m.loc = 4
              /\ lcd' = "wave" /\ UNCHANGED row
           \/ /\ m.sta = BRANCH_STA /\ m.loc \in 5 .. 6
              /\ lcd' = "recv" /\ UNCHANGED row
    /\ menu' = NoMenu
    /\ UNCHANGED <<keyVars, waitVars, itemVars>>

\* tem_set_display, hum_set_display, samp_set_display.
SetDisplay ==
    /\ At("display")
    /\ LET i == Items[row.k]
           v == (value[i] + adjust * StepOf(i)) % WidthOf(i)
       IN  /\ set' = [set EXCEPT ![i] = v]
           /\ shown' = [shown EXCEPT ![i] = v]
    /\ lcd' = "mark"
    /\ UNCHANGED <<keyVars, waitVars, menu, row, change, value, period>>

\* The change is noted; the key may meanwhile have left the menu.
Mark ==
    /\ At("mark")
    /\ change' = [change EXCEPT ![Items[row.k]] = TRUE]
    /\ \/ c_state = NO /\ lcd' = "apply" /\ UNCHANGED row
       \/ c_state # NO /\ lcd' = "recv" /\ row' = NoRow
    /\ UNCHANGED <<keyVars, waitVars, menu, set, value, period, shown>>

\* Mutant: every setting is applied, noted or not.
MainItemAlways ==
    /\ At("main")
    /\ lcd' = "apply"
    /\ UNCHANGED <<keyVars, waitVars, menu, row, itemVars>>

\* Mutant: a setting that was not changed ends the handling.
MainItemStops ==
    /\ At("main")
    /\ lcd' = IF change[Items[row.k]] THEN "apply" ELSE "recv"
    /\ UNCHANGED <<keyVars, waitVars, menu, row, itemVars>>

\* In the main menu each setting noted as changed is applied.
MainItem ==
    /\ At("main")
    /\ \/ /\ change[Items[row.k]]
          /\ lcd' = "apply" /\ UNCHANGED row
       \/ /\ ~change[Items[row.k]] /\ row.k < 3
          /\ lcd' = "main" /\ row' = [row EXCEPT !.k = @ + 1]
       \/ /\ ~change[Items[row.k]] /\ row.k = 3
          /\ lcd' = "recv" /\ row' = NoRow
    /\ UNCHANGED <<keyVars, waitVars, menu, itemVars>>

\* tem_flag = temset; temset = 0.
Apply ==
    /\ At("apply")
    /\ value' = [value EXCEPT ![Items[row.k]] = set[Items[row.k]]]
    /\ set' = [set EXCEPT ![Items[row.k]] = 0]
    /\ lcd' = "zero"
    /\ UNCHANGED <<keyVars, waitVars, menu, row, change, period, shown>>

\* adjust = 0; change_tem = 0.  A sampling period applied inside its menu is
\* also handed to the timer, by value where a pointer is expected.
Zero ==
    /\ At("zero")
    /\ adjust' = 0
    /\ change' = [change EXCEPT ![Items[row.k]] = FALSE]
    /\ period' = IF Items[row.k] = "freq" /\ ~row.main THEN Wild ELSE period
    /\ \/ /\ row.main /\ row.k < 3
          /\ lcd' = "main" /\ row' = [row EXCEPT !.k = @ + 1]
       \/ /\ ~(row.main /\ row.k < 3)
          /\ lcd' = "recv" /\ row' = NoRow
    /\ UNCHANGED <<choice, c_state, presses, waitVars, menu, set, value, shown>>

\* lcd_showwave: a second wait, for FLAG2 only.  Nothing but the drawing depends on
\* its result.
LcdWave ==
    /\ At("wave")
    /\ lcd' = IF EVENT_FLAG2 \in event THEN "recv" ELSE "wave_suspended"
    /\ event' = event \ {EVENT_FLAG2}
    /\ UNCHANGED <<keyVars, buf, error, delayed, delays, missed, menu, row, itemVars>>

LcdShow ==
    \/ LcdCall \/ LcdRecv \/ LcdSleep \/ LcdReturn
    \/ DealOk \/ DealNo \/ SetDisplay \/ Mark
    \/ MainItem \/ Apply \/ Zero \/ LcdWave

Keys == EXTI0_IRQHandler \/ EXTI2_IRQHandler \/ EXTI3_IRQHandler
        \/ EXTI4_IRQHandler \/ Bounce

Next == LcdShow \/ Keys \/ DelayEnds \/ Announce

Spec == /\ Init /\ [][Next]_vars
        /\ WF_vars(LcdShow) /\ WF_vars(DelayEnds) /\ WF_vars(Announce)

-----------------------------------------------------------------------------
(* Properties *)

\* When lcd_show sleeps, no key press has been missed: the number on the screen
\* of an open menu is that of the last press, and in the main menu every change
\* has been applied (the event against the redraw, Menu.c:52 and main.c:498).
\* Only if a key hit lcd_show in rt_event_recv, which then failed with the flag
\* of a press already taken (ipc.c:1204), is the screen behind.
MenuSettled ==
    lcd = "asleep" /\ ~missed =>
        IF c_state = NO THEN \A i \in Item : ~change[i]
        ELSE choice \in 1 .. 3 =>
                 LET i == Items[choice]
                 IN  /\ change[i]
                     /\ shown[i] = (value[i] + adjust * StepOf(i)) % WidthOf(i)

\* A threshold or the period only ever takes a value the user has been shown
\* for it, and never the 0 that temset is reset to (Menu.c:134-140).
OnlyShownApplied ==
    [][\A i \in Item : value'[i] # value[i] => value'[i] = shown[i]]_vars

\* Every change is applied once the menu is left, unless it is entered again, even
\* if lcd_show is waiting in the wave display then (Menu.c:134, 268).
ChangeApplied ==
    (c_state = NO /\ \E i \in Item : change[i])
        ~> (c_state = OK \/ \A i \in Item : ~change[i])
=============================================================================
