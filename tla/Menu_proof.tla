----------------------------- MODULE Menu_proof ------------------------------
(***************************************************************************)
(* Proofs about Menu for any number of presses: when lcd_show sleeps it    *)
(* has seen every key, and a setting only takes a number that was shown.   *)
(*                                                                         *)
(* The keys and lcd_show share plain variables.  What makes that sound is  *)
(* the flag each key sends: while it is not pending, what lcd_show has     *)
(* read is still so (Quiet); once it is, lcd_show looks again before it    *)
(* sleeps, and nothing need be known.  The flag is pending in the event,   *)
(* in the hands of a call that is about to return it, or, if that call     *)
(* failed, lost: the menu is behind until the next call succeeds.          *)
(***************************************************************************)
EXTENDS Menu, TLAPS

Labels == {"recv", "called", "suspended", "asleep", "taken", "deal_ok", "deal_no",
           "display", "mark", "main", "apply", "zero", "wave", "wave_suspended",
           "wave_asleep"}

Types ==
    /\ choice \in 1 .. 6
    /\ c_state \in {OK, NO}
    /\ adjust \in Int
    /\ event \subseteq {EVENT_FLAG2, EVENT_FLAG6}
    /\ buf \subseteq {EVENT_FLAG2, EVENT_FLAG6}
    /\ error \in BOOLEAN /\ delayed \in BOOLEAN /\ missed \in BOOLEAN
    /\ lcd \in Labels
    /\ menu \in [sta : {MAIN_STA, BRANCH_STA}, loc : 0 .. 6]
    /\ menu.sta = BRANCH_STA => menu.loc \in 1 .. 6
    /\ row \in [k : 1 .. 3, main : BOOLEAN]
    /\ change \in [Item -> BOOLEAN]
    /\ set \in [Item -> Int]
    /\ value \in [Item -> Int]
    /\ shown \in [Item -> Int]

\* The number the screen of item i should show.
NumberOf(i) == (value[i] + adjust * StepOf(i)) % WidthOf(i)

\* Nothing is left to be done for the menu as it is.
Settled ==
    IF c_state = NO THEN \A i \in Item : ~change[i]
    ELSE choice \in 1 .. 3 => change[Items[choice]]
                              /\ shown[Items[choice]] = NumberOf(Items[choice])

\* The item at hand.
Current == Items[row.k]

\* The items in front of the one at hand have been applied.
AppliedBefore == \A j \in 1 .. 3 : j < row.k => ~change[Items[j]]

\* What lcd_show has read is still so.
UpToDate ==
    /\ lcd \in {"recv", "called", "suspended", "asleep", "taken"} => Settled
    /\ lcd = "deal_no" /\ c_state = OK =>
           menu.sta = BRANCH_STA /\ menu.loc = choice
    /\ lcd \in {"display", "mark"} => c_state = OK /\ choice = row.k
    /\ lcd = "mark" => shown[Current] = NumberOf(Current)
    /\ lcd \in {"main", "apply", "zero"} =>
           row.main /\ c_state = NO /\ AppliedBefore
    /\ lcd \in {"wave", "wave_suspended", "wave_asleep"} => c_state = OK /\ choice = 4

\* A key has been pressed since lcd_show last got its flag.
Pressed ==
    \/ EVENT_FLAG6 \in event
    \/ lcd = "taken" /\ EVENT_FLAG6 \in buf
    \/ missed

Quiet == ~Pressed => UpToDate

\* A change that was noted is the number shown, until it is applied.
Noted ==
    /\ \A i \in Item :
           change[i] /\ ~(lcd = "zero" /\ i = Current) => set[i] = shown[i]
    /\ lcd \in {"mark", "apply"} => set[Current] = shown[Current]

MenuInv ==
    /\ Types
    /\ lcd \in Waiting => event = {}
    /\ Quiet
    /\ Noted

USE DEF OK, NO, MAIN_STA, BRANCH_STA, EVENT_FLAG2, EVENT_FLAG6

\* The three rows and their items.
LEMMA ItemsOf ==
  /\ \A k \in 1 .. 3 : Items[k] \in Item
  /\ \A i \in Item : \E k \in 1 .. 3 : Items[k] = i
  /\ \A j, k \in 1 .. 3 : Items[j] = Items[k] => j = k
BY DEF Items, Item

LEMMA NumberType ==
  ASSUME NEW v \in Int, NEW a \in Int, NEW i \in Item
  PROVE  (v + a * StepOf(i)) % WidthOf(i) \in Int
BY DEF Item, StepOf, WidthOf

LEMMA InitMenu == Init => MenuInv
<1> SUFFICES ASSUME Init PROVE MenuInv
  OBVIOUS
<1>1. Types
  <2>1. /\ value \in [Item -> Int] /\ shown \in [Item -> Int]
        /\ change \in [Item -> BOOLEAN] /\ set \in [Item -> Int]
    BY DEF Init, Item
  <2>2. /\ menu \in [sta : {MAIN_STA, BRANCH_STA}, loc : 0 .. 6]
        /\ menu.sta # BRANCH_STA
        /\ row \in [k : 1 .. 3, main : BOOLEAN]
    BY DEF Init, NoMenu, NoRow
  <2>3. /\ choice \in 1 .. 6 /\ c_state \in {OK, NO} /\ adjust \in Int
        /\ event = {} /\ buf = {} /\ lcd \in Labels
    BY DEF Init, Labels
  <2>4. error \in BOOLEAN /\ delayed \in BOOLEAN /\ missed \in BOOLEAN
    BY Zenon DEF Init
  <2> QED BY <2>1, <2>2, <2>3, <2>4 DEF Types
<1>2. Settled
  BY DEF Init, Settled
<1> QED BY <1>1, <1>2 DEF Init, MenuInv, Quiet, UpToDate, Noted

\* A key leaves everything of lcd_show's alone; its flag is pending then, in
\* the event or in the hands of the call it woke.
LEMMA KeyStep ==
  ASSUME MenuInv, Types', KeySend, UNCHANGED <<row, change, set, shown>>
  PROVE  MenuInv'
<1>1. PICK hit \in BOOLEAN : EventSend(EVENT_FLAG6, hit)
  BY DEF KeySend
<1>2. CASE lcd \in Waiting
  <2>1. lcd' = "taken" /\ buf' = {EVENT_FLAG6} /\ event' = {}
    BY <1>1, <1>2 DEF EventSend
  <2> QED BY <1>2, <2>1 DEF MenuInv, Quiet, Pressed, Noted, Current, Waiting
<1>3. CASE lcd \notin Waiting
  <2>1. /\ EVENT_FLAG6 \in event' /\ lcd' \notin Waiting
        /\ lcd' = lcd \/ (lcd = "wave_suspended" /\ lcd' = "wave_asleep")
    BY <1>1, <1>3 DEF EventSend, SentToSleep, Waiting
  <2> QED BY <1>3, <2>1 DEF MenuInv, Quiet, Pressed, Noted, Current
<1> QED BY <1>2, <1>3

LEMMA SendTypes ==
  ASSUME Types, NEW f \in {EVENT_FLAG2, EVENT_FLAG6}, NEW hit \in BOOLEAN,
         EventSend(f, hit)
  PROVE  /\ lcd' \in Labels /\ event' \subseteq {EVENT_FLAG2, EVENT_FLAG6}
         /\ buf' \subseteq {EVENT_FLAG2, EVENT_FLAG6}
         /\ delayed' \in BOOLEAN /\ missed' \in BOOLEAN
<1>1. CASE lcd \in Waiting
  BY <1>1 DEF Types, EventSend, Labels
<1>2. CASE lcd \in WaveWaiting /\ f = EVENT_FLAG2
  BY <1>2 DEF Types, EventSend, Labels, Waiting, WaveWaiting
<1>3. CASE lcd \notin Waiting /\ ~(lcd \in WaveWaiting /\ f = EVENT_FLAG2)
  <2>1. /\ lcd' = SentToSleep(hit) /\ delayed' = (delayed \/ hit)
        /\ event' = event \cup {f} /\ buf' = buf /\ missed' = missed
    BY <1>3 DEF EventSend
  <2>2. lcd' \in Labels
    BY <2>1 DEF Types, SentToSleep, Labels
  <2> QED BY <2>1, <2>2 DEF Types
<1> QED BY <1>1, <1>2, <1>3

LEMMA KeySendTypes ==
  ASSUME Types, KeySend
  PROVE  /\ lcd' \in Labels /\ event' \subseteq {EVENT_FLAG2, EVENT_FLAG6}
         /\ buf' \subseteq {EVENT_FLAG2, EVENT_FLAG6}
         /\ delayed' \in BOOLEAN /\ missed' \in BOOLEAN /\ error' \in BOOLEAN
BY SendTypes DEF KeySend, Hits

\* What Settled and the rest look at, apart from the place of lcd_show.
LEMMA SameMenu ==
  ASSUME UNCHANGED <<keyVars, menu, row, itemVars>>
  PROVE  /\ Settled' <=> Settled
         /\ Current' = Current
         /\ NumberOf(Current)' = NumberOf(Current)
         /\ AppliedBefore' <=> AppliedBefore
BY DEF Settled, NumberOf, AppliedBefore, Current, keyVars, itemVars

\* A step that moves lcd_show within one call of rt_event_recv, with all
\* presses still pending.
LEMMA WithinCall ==
  ASSUME MenuInv, UNCHANGED <<keyVars, menu, row, itemVars>>,
         \/ lcd' = lcd
         \/ /\ lcd \in {"recv", "called", "suspended", "asleep", "taken"}
            /\ lcd' \in {"recv", "called", "suspended", "asleep", "taken"}
         \/ /\ lcd \in {"wave", "wave_suspended", "wave_asleep"}
            /\ lcd' \in {"recv", "wave_suspended", "wave_asleep"},
         Pressed => Pressed'
  PROVE  Quiet' /\ Noted'
<1>1. CASE lcd' = lcd
  BY <1>1, SameMenu DEF MenuInv, Quiet, UpToDate, Noted, keyVars, itemVars
<1>2. CASE /\ lcd \in {"recv", "called", "suspended", "asleep", "taken"}
           /\ lcd' \in {"recv", "called", "suspended", "asleep", "taken"}
  BY <1>2, SameMenu DEF MenuInv, Quiet, UpToDate, Noted, keyVars, itemVars
<1>3. CASE /\ lcd \in {"wave", "wave_suspended", "wave_asleep"}
           /\ lcd' \in {"recv", "wave_suspended", "wave_asleep"}
  <2>1. ~Pressed' => c_state' = OK /\ choice' = 4
    BY <1>3 DEF MenuInv, Quiet, UpToDate, keyVars
  <2>2. Quiet'
    BY <1>3, <2>1 DEF Quiet, UpToDate, Settled
  <2> QED BY <1>3, <2>2, SameMenu DEF MenuInv, Noted, itemVars
<1> QED BY <1>1, <1>2, <1>3

LEMMA BounceInv == MenuInv /\ Bounce => MenuInv'
<1> SUFFICES ASSUME MenuInv, Bounce PROVE MenuInv'
  OBVIOUS
<1>1. /\ lcd' = SentToSleep(TRUE) /\ delayed' = TRUE /\ error' \in BOOLEAN
      /\ UNCHANGED <<keyVars, event, buf, missed, menu, row, itemVars>>
  BY DEF Bounce, Hits
<1>2. \/ lcd' = lcd
      \/ lcd = "suspended" /\ lcd' = "asleep"
      \/ lcd = "wave_suspended" /\ lcd' = "wave_asleep"
  BY <1>1 DEF SentToSleep
<1>3. Types'
  BY <1>1, <1>2 DEF MenuInv, Types, Labels, keyVars, itemVars
<1>4. lcd' \in Waiting => event' = {}
  BY <1>1, <1>2 DEF MenuInv, Waiting
<1>5. Pressed => Pressed'
  BY <1>1, <1>2 DEF Pressed
<1>6. Quiet' /\ Noted'
  BY <1>1, <1>2, <1>5, WithinCall
<1> QED BY <1>3, <1>4, <1>6 DEF MenuInv

LEMMA KeysInv == MenuInv /\ Keys => MenuInv'
<1> SUFFICES ASSUME MenuInv, Keys PROVE MenuInv'
  OBVIOUS
<1>1. ASSUME EXTI0_IRQHandler PROVE MenuInv'
  <2>1. Types'
    BY <1>1, KeySendTypes DEF EXTI0_IRQHandler, itemVars, MenuInv, Types
  <2> QED BY <1>1, <2>1, KeyStep DEF EXTI0_IRQHandler, itemVars
<1>2. ASSUME EXTI4_IRQHandler PROVE MenuInv'
  <2>1. Types'
    BY <1>2, KeySendTypes DEF EXTI4_IRQHandler, itemVars, MenuInv, Types
  <2> QED BY <1>2, <2>1, KeyStep DEF EXTI4_IRQHandler, itemVars
<1>3. ASSUME NEW d \in {1, -1}, Press(d) PROVE MenuInv'
  <2>1. Types'
    BY <1>3, KeySendTypes DEF Press, itemVars, MenuInv, Types
  <2> QED BY <1>3, <2>1, KeyStep DEF Press, itemVars
<1> QED BY <1>1, <1>2, <1>3, BounceInv DEF Keys, EXTI2_IRQHandler, EXTI3_IRQHandler

LEMMA DelayEndsInv == MenuInv /\ DelayEnds => MenuInv'
<1> SUFFICES ASSUME MenuInv, DelayEnds PROVE MenuInv'
  OBVIOUS
<1>1. /\ delayed' = FALSE /\ error' \in BOOLEAN
      /\ UNCHANGED <<keyVars, event, missed, menu, row, itemVars>>
      /\ \/ lcd = "asleep" /\ lcd' = "taken" /\ buf' = {}
         \/ lcd = "wave_asleep" /\ lcd' = "recv" /\ buf' = buf
         \/ lcd \notin {"asleep", "wave_asleep"} /\ lcd' = lcd /\ buf' = buf
  BY DEF DelayEnds
<1>2. Types'
  BY <1>1 DEF MenuInv, Types, Labels, keyVars, itemVars
<1>3. lcd' \in Waiting => event' = {}
  BY <1>1 DEF MenuInv, Waiting
<1>4. Pressed => Pressed'
  BY <1>1 DEF Pressed
<1>5. Quiet' /\ Noted'
  BY <1>1, <1>4, WithinCall
<1> QED BY <1>2, <1>3, <1>5 DEF MenuInv

LEMMA AnnounceInv == MenuInv /\ Announce => MenuInv'
<1> SUFFICES ASSUME MenuInv, Announce PROVE MenuInv'
  OBVIOUS
<1>1. /\ EventSend(EVENT_FLAG2, FALSE)
      /\ UNCHANGED <<keyVars, error, missed, menu, row, itemVars>>
  BY DEF Announce, EventSend
<1>2. Types'
  BY <1>1, SendTypes DEF keyVars, itemVars, MenuInv, Types
<1>3. \/ lcd \in Waiting /\ lcd' = "taken" /\ event' = {}
      \/ lcd \in WaveWaiting /\ lcd' = "recv" /\ event' = event
      \/ /\ lcd \notin Waiting /\ lcd' = lcd
         /\ event' = event \cup {EVENT_FLAG2} /\ buf' = buf
  BY <1>1 DEF EventSend, SentToSleep
<1>4. lcd' \in Waiting => event' = {}
  BY <1>3 DEF Waiting
<1>5. Pressed => Pressed'
  BY <1>1, <1>3 DEF MenuInv, Pressed, Waiting, WaveWaiting
<1>6. Quiet' /\ Noted'
  BY <1>1, <1>3, <1>5, WithinCall DEF Waiting, WaveWaiting
<1> QED BY <1>2, <1>4, <1>6 DEF MenuInv

LEMMA RecvInv == MenuInv /\ (LcdCall \/ LcdRecv \/ LcdSleep) => MenuInv'
<1>1. ASSUME MenuInv, LcdCall PROVE MenuInv'
  <2>1. /\ lcd = "recv" /\ lcd' = "called" /\ error' = FALSE /\ buf' = {}
        /\ UNCHANGED <<keyVars, event, delayed, missed, menu, row, itemVars>>
    BY <1>1 DEF LcdCall, At
  <2>2. Types'
    BY <1>1, <2>1 DEF MenuInv, Types, Labels, keyVars, itemVars
  <2>3. Pressed => Pressed'
    BY <2>1 DEF Pressed
  <2>4. Quiet' /\ Noted'
    BY <1>1, <2>1, <2>3, WithinCall
  <2> QED BY <2>1, <2>2, <2>4 DEF MenuInv, Waiting
<1>2. ASSUME MenuInv, LcdRecv PROVE MenuInv'
  <2>1. /\ lcd = "called" /\ buf' = event /\ event' = {}
        /\ lcd' = IF event = {} THEN "suspended" ELSE "taken"
        /\ UNCHANGED <<keyVars, error, delayed, missed, menu, row, itemVars>>
    BY <1>2 DEF LcdRecv, At
  <2>2. Types'
    BY <1>2, <2>1 DEF MenuInv, Types, Labels, keyVars, itemVars
  <2>3. Pressed => Pressed'
    BY <2>1 DEF Pressed
  <2>4. Quiet' /\ Noted'
    BY <1>2, <2>1, <2>3, WithinCall
  <2> QED BY <2>1, <2>2, <2>4 DEF MenuInv
<1>3. ASSUME MenuInv, LcdSleep PROVE MenuInv'
  <2>1. /\ \/ lcd = "suspended" /\ lcd' = "asleep"
           \/ lcd = "wave_suspended" /\ lcd' = "wave_asleep"
        /\ UNCHANGED <<keyVars, waitVars, menu, row, itemVars>>
    BY <1>3 DEF LcdSleep
  <2>2. Types'
    BY <1>3, <2>1 DEF MenuInv, Types, Labels, keyVars, itemVars, waitVars
  <2>3. Pressed => Pressed'
    BY <2>1 DEF Pressed, waitVars
  <2>4. Quiet' /\ Noted'
    BY <1>3, <2>1, <2>3, WithinCall
  <2> QED BY <1>3, <2>1, <2>2, <2>4 DEF MenuInv, Waiting, waitVars
<1> QED BY <1>1, <1>2, <1>3

\* A call that fails with a press in its hands leaves it recorded as missed; one
\* that succeeds leads to a redraw, which looks at everything again.
LEMMA ReturnInv == MenuInv /\ LcdReturn => MenuInv'
<1> SUFFICES ASSUME MenuInv, LcdReturn PROVE MenuInv'
  OBVIOUS
<1>1. /\ lcd = "taken" /\ buf' = {} /\ error' = FALSE
      /\ lcd' = IF error THEN "recv" ELSE "deal_ok"
      /\ missed' = (error /\ (missed \/ EVENT_FLAG6 \in buf))
      /\ UNCHANGED <<keyVars, event, delayed, menu, row, itemVars>>
  BY DEF LcdReturn, At
<1>2. Types'
  BY <1>1 DEF MenuInv, Types, Labels, keyVars, itemVars
<1>3. Quiet' /\ Noted'
  <2>1. CASE error
    <3>1. Pressed => Pressed'
      BY <1>1, <2>1 DEF Pressed
    <3> QED BY <1>1, <2>1, <3>1, WithinCall
  <2>2. CASE ~error
    <3>1. Quiet'
      BY <1>1, <2>2 DEF Quiet, UpToDate
    <3> QED BY <1>1, <2>2, <3>1, SameMenu DEF MenuInv, Noted, itemVars
  <2> QED BY <2>1, <2>2
<1> QED BY <1>1, <1>2, <1>3 DEF MenuInv, Waiting

LEMMA DealOkInv == MenuInv /\ DealOk => MenuInv'
<1> SUFFICES ASSUME MenuInv, DealOk PROVE MenuInv'
  OBVIOUS
<1>1. /\ lcd = "deal_ok" /\ lcd' = "deal_no"
      /\ UNCHANGED <<keyVars, waitVars, row, itemVars>>
      /\ menu' \in [sta : {MAIN_STA, BRANCH_STA}, loc : 0 .. 6]
      /\ menu'.sta = BRANCH_STA => menu'.loc \in 1 .. 6
      /\ c_state = OK => menu'.sta = BRANCH_STA /\ menu'.loc = choice
  BY DEF DealOk, At, MenuInv, Types, NoMenu
<1>2. Types'
  BY <1>1 DEF MenuInv, Types, waitVars, Labels, keyVars, itemVars
<1>3. Quiet'
  BY <1>1 DEF Quiet, UpToDate, Pressed, waitVars, keyVars
<1> QED BY <1>1, <1>2, <1>3 DEF MenuInv, Waiting, Noted, Current, itemVars

LEMMA DealNoInv == MenuInv /\ DealNo => MenuInv'
<1> SUFFICES ASSUME MenuInv, DealNo PROVE MenuInv'
  OBVIOUS
<1>0. PICK m \in Dealt :
         \/ m.sta = MAIN_STA /\ lcd' = "main" /\ row' = [k |-> 1, main |-> TRUE]
         \/ /\ m.sta = BRANCH_STA /\ m.loc \in 1 .. 3
            /\ lcd' = "display" /\ row' = [k |-> m.loc, main |-> FALSE]
         \/ m.sta = BRANCH_STA /\ m.loc = 4 /\ lcd' = "wave" /\ row' = row
         \/ m.sta = BRANCH_STA /\ m.loc \in 5 .. 6 /\ lcd' = "recv" /\ row' = row
  BY DEF DealNo
<1>1. /\ lcd = "deal_no" /\ menu' = NoMenu
      /\ UNCHANGED <<keyVars, waitVars, itemVars>>
      /\ \/ m.sta = MAIN_STA /\ lcd' = "main" /\ row' = [k |-> 1, main |-> TRUE]
         \/ /\ m.sta = BRANCH_STA /\ m.loc \in 1 .. 3
            /\ lcd' = "display" /\ row' = [k |-> m.loc, main |-> FALSE]
         \/ m.sta = BRANCH_STA /\ m.loc = 4 /\ lcd' = "wave" /\ row' = row
         \/ m.sta = BRANCH_STA /\ m.loc \in 5 .. 6 /\ lcd' = "recv" /\ row' = row
  BY <1>0 DEF DealNo, At
<1>2. m.sta = MAIN_STA => c_state = NO \/ menu.sta = MAIN_STA
  BY DEF Dealt, NoMenu
<1>3. m.sta = BRANCH_STA => c_state = OK /\ (menu.sta = BRANCH_STA => m = menu)
  BY DEF MenuInv, Types, Dealt, NoMenu
<1>4. ~Pressed' /\ c_state = OK =>
         menu.sta = BRANCH_STA /\ menu.loc = choice
  BY <1>1 DEF MenuInv, Quiet, UpToDate, Pressed, waitVars
<1>5. c_state \in {OK, NO} /\ UNCHANGED <<c_state, choice, event>>
  BY <1>1 DEF MenuInv, Types, waitVars, keyVars
<1>6. Types'
  <2>1. row' \in [k : 1 .. 3, main : BOOLEAN] /\ lcd' \in Labels
    <3>1. lcd' \in Labels
      BY <1>1 DEF Labels
    <3>2. row \in [k : 1 .. 3, main : BOOLEAN]
      BY DEF MenuInv, Types, waitVars
    <3>3. [k |-> 1, main |-> TRUE] \in [k : 1 .. 3, main : BOOLEAN]
      OBVIOUS
    <3>4. \A l \in 1 .. 3 :
             [k |-> l, main |-> FALSE] \in [k : 1 .. 3, main : BOOLEAN]
      OBVIOUS
    <3> QED BY <1>1, <3>1, <3>2, <3>3, <3>4
  <2>2. menu' \in [sta : {MAIN_STA, BRANCH_STA}, loc : 0 .. 6]
        /\ menu'.sta = MAIN_STA
    BY <1>1 DEF NoMenu
  <2> QED BY <1>1, <2>1, <2>2 DEF MenuInv, Types, waitVars, keyVars, itemVars
<1>7. Quiet'
  <2> SUFFICES ASSUME ~Pressed' PROVE UpToDate'
    BY DEF Quiet
  <2>1. CASE m.sta = MAIN_STA /\ lcd' = "main" /\ row' = [k |-> 1, main |-> TRUE]
    BY <1>2, <1>4, <1>5, <2>1 DEF UpToDate, AppliedBefore
  <2>2. CASE /\ m.sta = BRANCH_STA /\ m.loc \in 1 .. 3
             /\ lcd' = "display" /\ row' = [k |-> m.loc, main |-> FALSE]
    BY <1>3, <1>4, <1>5, <2>2 DEF UpToDate
  <2>3. CASE m.sta = BRANCH_STA /\ m.loc = 4 /\ lcd' = "wave"
    BY <1>3, <1>4, <1>5, <2>3 DEF UpToDate
  <2>4. CASE m.sta = BRANCH_STA /\ m.loc \in 5 .. 6 /\ lcd' = "recv"
    BY <1>3, <1>4, <1>5, <2>4 DEF UpToDate, Settled
  <2> QED BY <1>1, <2>1, <2>2, <2>3, <2>4
<1>8. Noted'
  BY <1>1 DEF MenuInv, Noted, itemVars
<1> QED BY <1>1, <1>6, <1>7, <1>8 DEF MenuInv, Waiting

LEMMA SetDisplayInv == MenuInv /\ SetDisplay => MenuInv'
<1> SUFFICES ASSUME MenuInv, SetDisplay PROVE MenuInv'
  OBVIOUS
<1>1. /\ lcd = "display" /\ lcd' = "mark"
      /\ set' = [set EXCEPT ![Current] = NumberOf(Current)]
      /\ shown' = [shown EXCEPT ![Current] = NumberOf(Current)]
      /\ UNCHANGED <<keyVars, waitVars, menu, row, change, value, period>>
  BY DEF SetDisplay, At, Current, NumberOf
<1>2. Current \in Item /\ Current' = Current
  BY <1>1, ItemsOf DEF MenuInv, Types, waitVars, Current
<1>3. NumberOf(Current) \in Int /\ NumberOf(Current)' = NumberOf(Current)
  BY <1>1, <1>2, NumberType DEF NumberOf, MenuInv, Types, keyVars, Current
<1>4. Types'
  BY <1>1, <1>2, <1>3 DEF MenuInv, Types, waitVars, Labels, keyVars
<1>5. set'[Current] = NumberOf(Current) /\ shown'[Current] = NumberOf(Current)
  BY <1>1, <1>2 DEF MenuInv, Types, waitVars
<1>6. \A i \in Item : i # Current => set'[i] = set[i] /\ shown'[i] = shown[i]
  BY <1>1, <1>2 DEF MenuInv, Types, waitVars
<1>7. Quiet'
  BY <1>1, <1>2, <1>3, <1>5 DEF MenuInv, Quiet, UpToDate, Pressed, waitVars, keyVars
<1>8. Noted'
  BY <1>1, <1>2, <1>5, <1>6 DEF MenuInv, Noted
<1> QED BY <1>1, <1>4, <1>7, <1>8 DEF MenuInv, Waiting

LEMMA MarkInv == MenuInv /\ Mark => MenuInv'
<1> SUFFICES ASSUME MenuInv, Mark PROVE MenuInv'
  OBVIOUS
<1>1. /\ lcd = "mark"
      /\ change' = [change EXCEPT ![Current] = TRUE]
      /\ \/ c_state = NO /\ lcd' = "apply" /\ row' = row
         \/ c_state # NO /\ lcd' = "recv" /\ row' = NoRow
      /\ UNCHANGED <<keyVars, waitVars, menu, set, value, period, shown>>
  BY DEF Mark, At, Current
<1>2. Current \in Item
  BY ItemsOf DEF MenuInv, Types, waitVars, Current
<1>3. Types'
  <2>1. change' \in [Item -> BOOLEAN]
    BY <1>1, <1>2 DEF MenuInv, Types, waitVars
  <2>2. NoRow \in [k : 1 .. 3, main : BOOLEAN]
    BY DEF NoRow
  <2>3. row' \in [k : 1 .. 3, main : BOOLEAN]
    BY <1>1, <2>2 DEF MenuInv, Types, waitVars
  <2>4. lcd' \in Labels
    BY <1>1 DEF Labels
  <2> QED BY <1>1, <2>1, <2>3, <2>4 DEF MenuInv, Types, waitVars, keyVars
<1>4. \A i \in Item : change'[i] = (change[i] \/ i = Current)
  BY <1>1, <1>2 DEF MenuInv, Types, waitVars
<1>5. Noted'
  <2>1. set[Current] = shown[Current]
    BY <1>1 DEF MenuInv, Noted
  <2>2. \A i \in Item : change'[i] => set'[i] = shown'[i]
    BY <1>1, <1>4, <2>1 DEF MenuInv, Noted
  <2>3. lcd' = "apply" => Current' = Current
    BY <1>1 DEF Current
  <2> QED BY <1>1, <2>1, <2>2, <2>3 DEF Noted
<1>6. Quiet'
  <2> SUFFICES ASSUME ~Pressed' PROVE UpToDate'
    BY DEF Quiet
  <2>1. c_state = OK /\ choice = row.k /\ shown[Current] = NumberOf(Current)
    BY <1>1 DEF MenuInv, Quiet, UpToDate, Pressed, waitVars
  <2>2. lcd' = "recv"
    BY <1>1, <2>1
  <2>3. Items[choice] = Current
    BY <2>1 DEF Current
  <2>4. change'[Items[choice]]
    BY <1>2, <1>4, <2>3
  <2>5. Settled'
    BY <1>1, <2>1, <2>3, <2>4 DEF Settled, NumberOf, keyVars
  <2> QED BY <2>2, <2>5 DEF UpToDate
<1> QED BY <1>1, <1>3, <1>5, <1>6 DEF MenuInv, Waiting

LEMMA MainItemInv == MenuInv /\ MainItem => MenuInv'
<1> SUFFICES ASSUME MenuInv, MainItem PROVE MenuInv'
  OBVIOUS
<1>1. /\ lcd = "main"
      /\ UNCHANGED <<keyVars, waitVars, menu, itemVars>>
  BY DEF MainItem, At
<1>2. ~Pressed => row.main /\ c_state = NO /\ AppliedBefore
  BY <1>1 DEF MenuInv, Quiet, UpToDate, Pressed, waitVars
<1>3. row \in [k : 1 .. 3, main : BOOLEAN] /\ Current \in Item
  BY ItemsOf DEF MenuInv, Types, waitVars, Current
<1>4. CASE change[Current] /\ lcd' = "apply" /\ row' = row
  <2>1. Types'
    BY <1>1, <1>4 DEF MenuInv, Types, waitVars, Labels, keyVars, itemVars
  <2>2. Quiet'
    BY <1>1, <1>2, <1>4 DEF Quiet, UpToDate, Pressed, waitVars, AppliedBefore, keyVars, itemVars
  <2>3. Noted'
    BY <1>1, <1>3, <1>4 DEF MenuInv, Waiting, Noted, Current, itemVars
  <2> QED BY <1>4, <2>1, <2>2, <2>3 DEF MenuInv, Waiting
<1>5. CASE /\ ~change[Current] /\ row.k < 3
           /\ lcd' = "main" /\ row' = [row EXCEPT !.k = @ + 1]
  <2>1. row' \in [k : 1 .. 3, main : BOOLEAN] /\ row'.k = row.k + 1
        /\ row'.main = row.main
    BY <1>3, <1>5
  <2>2. Types'
    BY <1>1, <1>5, <2>1 DEF MenuInv, Types, waitVars, Labels, keyVars, itemVars
  <2>3. AppliedBefore => AppliedBefore'
    BY <1>1, <1>3, <1>5, <2>1 DEF AppliedBefore, Current, itemVars
  <2>4. Quiet'
    BY <1>1, <1>2, <1>5, <2>1, <2>3 DEF Quiet, UpToDate, Pressed, waitVars, keyVars
  <2>5. Noted'
    BY <1>1, <1>5 DEF MenuInv, Noted, itemVars
  <2> QED BY <1>5, <2>2, <2>4, <2>5 DEF MenuInv, Waiting
<1>6. CASE ~change[Current] /\ row.k = 3 /\ lcd' = "recv" /\ row' = NoRow
  <2>1. Types'
    BY <1>1, <1>6 DEF MenuInv, Types, waitVars, Labels, keyVars, itemVars, NoRow
  <2>2. AppliedBefore => \A i \in Item : ~change[i]
    <3> SUFFICES ASSUME AppliedBefore, NEW i \in Item PROVE ~change[i]
      OBVIOUS
    <3>1. PICK k \in 1 .. 3 : Items[k] = i
      BY ItemsOf
    <3> QED BY <1>3, <1>6, <3>1 DEF AppliedBefore, Current
  <2>3. Quiet'
    BY <1>1, <1>2, <1>6, <2>2 DEF Quiet, UpToDate, Pressed, waitVars, Settled, keyVars, itemVars
  <2>4. Noted'
    BY <1>1, <1>6 DEF MenuInv, Noted, itemVars
  <2> QED BY <1>6, <2>1, <2>3, <2>4 DEF MenuInv, Waiting
<1> QED BY <1>4, <1>5, <1>6 DEF MainItem, At, Current

LEMMA ApplyInv == MenuInv /\ Apply => MenuInv'
<1> SUFFICES ASSUME MenuInv, Apply PROVE MenuInv'
  OBVIOUS
<1>1. /\ lcd = "apply" /\ lcd' = "zero"
      /\ value' = [value EXCEPT ![Current] = set[Current]]
      /\ set' = [set EXCEPT ![Current] = 0]
      /\ UNCHANGED <<keyVars, waitVars, menu, row, change, period, shown>>
  BY DEF Apply, At, Current
<1>2. Current \in Item /\ Current' = Current
  BY <1>1, ItemsOf DEF MenuInv, Types, waitVars, Current
<1>3. Types'
  BY <1>1, <1>2 DEF MenuInv, Types, waitVars, Labels, keyVars
<1>4. Quiet'
  BY <1>1 DEF MenuInv, Quiet, UpToDate, Pressed, waitVars, AppliedBefore, keyVars
<1>5. \A i \in Item : i # Current => set'[i] = set[i]
  BY <1>1, <1>2 DEF MenuInv, Types, waitVars
<1>6. Noted'
  BY <1>1, <1>2, <1>5 DEF MenuInv, Noted
<1> QED BY <1>1, <1>3, <1>4, <1>6 DEF MenuInv, Waiting

LEMMA ZeroInv == MenuInv /\ Zero => MenuInv'
<1> SUFFICES ASSUME MenuInv, Zero PROVE MenuInv'
  OBVIOUS
<1>1. /\ lcd = "zero" /\ adjust' = 0
      /\ change' = [change EXCEPT ![Current] = FALSE]
      /\ UNCHANGED <<choice, c_state, presses, waitVars, menu, set, value, shown>>
  BY DEF Zero, At, Current
<1>2. row \in [k : 1 .. 3, main : BOOLEAN] /\ Current \in Item
  BY ItemsOf DEF MenuInv, Types, waitVars, Current
<1>3. \A i \in Item : change'[i] = (change[i] /\ i # Current)
  BY <1>1, <1>2 DEF MenuInv, Types, waitVars
<1>4. ~Pressed => row.main /\ c_state = NO /\ AppliedBefore
  BY <1>1 DEF MenuInv, Quiet, UpToDate, Pressed, waitVars
<1>5. CASE row.main /\ row.k < 3 /\ lcd' = "main" /\ row' = [row EXCEPT !.k = @ + 1]
  <2>1. row' \in [k : 1 .. 3, main : BOOLEAN] /\ row'.k = row.k + 1
        /\ row'.main = row.main
    <3>1. row' = [k |-> row.k + 1, main |-> row.main]
      BY <1>2, <1>5
    <3>2. row.k + 1 \in 1 .. 3 /\ row.main \in BOOLEAN
      BY <1>2, <1>5
    <3> QED BY <3>1, <3>2
  <2>2. Types'
    BY <1>1, <1>2, <1>5, <2>1 DEF MenuInv, Types, waitVars, Labels
  <2>3. AppliedBefore => AppliedBefore'
    <3> SUFFICES ASSUME AppliedBefore, NEW j \in 1 .. 3, j < row.k + 1
                 PROVE  ~change'[Items[j]]
      BY <2>1 DEF AppliedBefore
    <3>1. Items[j] \in Item
      BY ItemsOf
    <3>2. j = row.k \/ j < row.k
      BY <1>2
    <3> QED BY <1>3, <3>1, <3>2 DEF AppliedBefore, Current
  <2>4. Quiet'
    BY <1>1, <1>4, <1>5, <2>1, <2>3 DEF Quiet, UpToDate, Pressed, waitVars
  <2>5. Noted'
    BY <1>1, <1>3, <1>5 DEF MenuInv, Noted
  <2> QED BY <1>5, <2>2, <2>4, <2>5 DEF MenuInv, Waiting
<1>6. CASE ~(row.main /\ row.k < 3) /\ lcd' = "recv" /\ row' = NoRow
  <2>1. Types'
    BY <1>1, <1>2, <1>6 DEF MenuInv, Types, waitVars, Labels, NoRow
  <2>2. row.main /\ AppliedBefore => \A i \in Item : ~change'[i]
    <3> SUFFICES ASSUME row.main, AppliedBefore, NEW i \in Item PROVE ~change'[i]
      OBVIOUS
    <3>1. PICK k \in 1 .. 3 : Items[k] = i
      BY ItemsOf
    <3>2. k = row.k \/ k < row.k
      BY <1>2, <1>6
    <3> QED BY <1>3, <3>1, <3>2 DEF AppliedBefore, Current
  <2>3. Quiet'
    BY <1>1, <1>4, <1>6, <2>2 DEF Quiet, UpToDate, Pressed, waitVars, Settled
  <2>4. Noted'
    BY <1>1, <1>3, <1>6 DEF MenuInv, Noted
  <2> QED BY <1>6, <2>1, <2>3, <2>4 DEF MenuInv, Waiting
<1> QED BY <1>5, <1>6 DEF Zero, At

LEMMA LcdWaveInv == MenuInv /\ LcdWave => MenuInv'
<1> SUFFICES ASSUME MenuInv, LcdWave PROVE MenuInv'
  OBVIOUS
<1>1. /\ lcd = "wave" /\ event' = event \ {EVENT_FLAG2}
      /\ lcd' \in {"recv", "wave_suspended"}
      /\ UNCHANGED <<keyVars, buf, error, delayed, missed, menu, row, itemVars>>
  BY DEF LcdWave, At
<1>2. Types'
  BY <1>1 DEF MenuInv, Types, Labels, keyVars, itemVars
<1>3. Pressed => Pressed'
  BY <1>1 DEF Pressed
<1>4. Quiet' /\ Noted'
  BY <1>1, <1>3, WithinCall
<1> QED BY <1>1, <1>2, <1>4 DEF MenuInv, Waiting

LEMMA StepMenu == MenuInv /\ [Next]_vars => MenuInv'
<1> SUFFICES ASSUME MenuInv, [Next]_vars PROVE MenuInv'
  OBVIOUS
<1>1. CASE UNCHANGED vars
  <2>1. Types' /\ (lcd' \in Waiting => event' = {}) /\ (Pressed => Pressed')
    BY <1>1 DEF vars, keyVars, waitVars, itemVars, MenuInv, Types, Pressed
  <2> QED BY <1>1, <2>1, WithinCall DEF vars, MenuInv
<1>2. CASE LcdShow
  BY <1>2, RecvInv, ReturnInv, DealOkInv, DealNoInv, SetDisplayInv, MarkInv, MainItemInv,
     ApplyInv, ZeroInv, LcdWaveInv DEF LcdShow
<1> QED BY <1>1, <1>2, KeysInv, DelayEndsInv, AnnounceInv DEF Next

LEMMA MenuInvariance == Spec => []MenuInv
BY InitMenu, StepMenu, PTL DEF Spec

\* When lcd_show sleeps, the screen of an open menu shows the last press and in
\* the main menu every change is applied (Menu.c:52, main.c:498), however many
\* keys come, wherever in the redraw and whatever they put to sleep: unless the
\* last call of rt_event_recv failed and took the flag of a press with it.
THEOREM MenuIsSettled == Spec => []MenuSettled
<1>1. MenuInv => MenuSettled
  BY DEF MenuInv, Quiet, Pressed, UpToDate, Settled, NumberOf, MenuSettled, Waiting
<1> QED BY <1>1, MenuInvariance, PTL

\* A threshold or the period only ever takes a number that was shown for it, and
\* never the 0 that temset is reset to (Menu.c:134-140).
THEOREM MenuOnlyShown == Spec => OnlyShownApplied
<1>1. ASSUME MenuInv, Next
      PROVE  \A i \in Item : value'[i] # value[i] => value'[i] = shown[i]
  <2>1. CASE Apply
    <3>1. /\ value' = [value EXCEPT ![Current] = set[Current]]
          /\ set[Current] = shown[Current]
      BY <1>1, <2>1 DEF Apply, At, Current, MenuInv, Noted
    <3> QED BY <1>1, <3>1 DEF MenuInv, Types
  <2>2. ASSUME value' = value
        PROVE  \A i \in Item : value'[i] # value[i] => value'[i] = shown[i]
    BY <2>2
  <2>3. CASE ~Apply
    BY <1>1, <2>2, <2>3
       DEF Next, LcdShow, Keys, Announce, EXTI0_IRQHandler, EXTI2_IRQHandler,
           EXTI3_IRQHandler, EXTI4_IRQHandler, Press, Bounce, DelayEnds, LcdCall,
           LcdRecv, LcdSleep, LcdReturn, DealOk, DealNo, SetDisplay, Mark,
           MainItem, Zero, LcdWave, itemVars
  <2> QED BY <2>1, <2>3
<1> QED BY <1>1, MenuInvariance, PTL DEF Spec, OnlyShownApplied
=============================================================================
