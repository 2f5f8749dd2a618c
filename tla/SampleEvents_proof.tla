-------------------------- MODULE SampleEvents_proof --------------------------
(***************************************************************************)
(* For every sensor and every threshold: between two samples handed to     *)
(* over_temhum the two other threads receive at most two, and four more    *)
(* for every key that delays over_temhum.                                  *)
(*                                                                         *)
(* The count of those already received and the waiters in front of         *)
(* over_temhum are two at most together, but for the keys (Ahead). It      *)
(* needs to know who sleeps on what (Waiters) and that over_temhum is      *)
(* never passed over by the walk of rt_event_send while FLAG1 is there     *)
(* (AlarmUnmet). A key that hits over_temhum outside the list lets the     *)
(* others take the FLAG1 that is set, the one sample of the delay, and two *)
(* places in the list; one that ends its wait lets them take the places    *)
(* behind it.                                                              *)
(***************************************************************************)
EXTENDS SampleEvents, TLAPS

\* Every thread is in the list s once at most.
Once(s) == \A k, l \in 1 .. Len(s) : s[k] = s[l] => k = l

\* t is in the list s.
Listed(t, s) == \E k \in 1 .. Len(s) : s[k] = t

Types ==
    /\ suspend_thread \in Seq(Listeners)
    /\ walk \in 0 .. Len(suspend_thread)
    /\ request \in [Listeners -> DHT11_data_event!Requests \cup {DHT11_data_event!Blank}]
    /\ pc \in [Listeners -> DHT11_data_event!Places]
    /\ timer \subseteq Listeners /\ sampled \subseteq timer
    /\ bypass \in Nat /\ naps \in Nat

\* The list holds the waiting threads, once each, and a thread in rt_event_recv
\* asks for what its loop asks for.
Waiters ==
    /\ Once(suspend_thread)
    /\ \A t \in Listeners : DHT11_data_event!Waiting(t) <=> Listed(t, suspend_thread)
    /\ \A t \in Listeners : pc[t] # "caller" => request[t] = Wanted(t)

\* The list has over_temhum where the walk has been, or between two sends: then
\* FLAG1 is gone.
AlarmUnmet ==
    \A k \in 1 .. Len(suspend_thread) :
        /\ suspend_thread[k] = over_temhum
        /\ walk = 0 \/ k < walk
        => FLAG1 \notin set

\* What the others have had, with the FLAG1 that any thread may take.
Owed == IF FLAG1 \in set THEN bypass + 1 ELSE bypass

\* What the others have had and may still get before over_temhum does: all who
\* wait before it, or all who wait while it does not; while a key delays it, the
\* FLAG1 that is set and the one of the next sample.
Ahead ==
    /\ \A k \in 1 .. Len(suspend_thread) :
           suspend_thread[k] = over_temhum =>
               /\ bypass + k <= 3 + 4 * naps
               /\ over_temhum \in timer => bypass + k <= 4 * naps - 1
    /\ ~ Listed(over_temhum, suspend_thread) =>
           /\ over_temhum \notin timer => bypass + Len(suspend_thread) <= 2 + 4 * naps
           /\ over_temhum \in timer => Owed <= 4 * naps
           /\ over_temhum \in timer \ sampled => Owed <= 4 * naps - 1

FanInv == Types /\ Waiters /\ AlarmUnmet /\ Ahead
-----------------------------------------------------------------------------
(* The operators of the model.                                             *)

\* What the three ask for: no request is met without FLAG1, and FLAG1 is enough
\* for over_temhum.
LEMMA AllWantFlag1 ==
    ASSUME NEW t \in Listeners, NEW s
    PROVE  /\ DHT11_data_event!Met(Wanted(t), s) => FLAG1 \in s
           /\ DHT11_data_event!Met(Wanted(over_temhum), s) <=> FLAG1 \in s
           /\ Wanted(t).clear /\ Wanted(t).wait = "forever"
           /\ FLAG1 \in Wanted(t).flags
           /\ Wanted(t) \in DHT11_data_event!Requests
<1>1. over_temhum # uart_deal_event /\ FLAG1 # FLAG8
  BY DEF over_temhum, uart_deal_event, FLAG1, FLAG8
<1>2. /\ Wanted(t).flags = IF t = uart_deal_event THEN {FLAG1, FLAG8} ELSE {FLAG1}
      /\ Wanted(t).mode = IF t = uart_deal_event THEN "RT_EVENT_FLAG_AND" ELSE "RT_EVENT_FLAG_OR"
      /\ Wanted(t).clear /\ Wanted(t).wait = "forever"
  BY DEF Wanted
<1>3. Wanted(over_temhum).flags = {FLAG1} /\ Wanted(over_temhum).mode = "RT_EVENT_FLAG_OR"
  BY <1>1 DEF Wanted
<1>4. DHT11_data_event!Met(Wanted(t), s) => FLAG1 \in s
  BY <1>2 DEF DHT11_data_event!Met, DHT11_data_event!And
<1>5. DHT11_data_event!Met(Wanted(over_temhum), s) <=> FLAG1 \in s
  BY <1>3 DEF DHT11_data_event!Met, DHT11_data_event!And
<1>6. Wanted(t) \in DHT11_data_event!Requests
  <2>. DEFINE f == IF t = uart_deal_event THEN {FLAG1, FLAG8} ELSE {FLAG1}
              m == IF t = uart_deal_event THEN "RT_EVENT_FLAG_AND" ELSE "RT_EVENT_FLAG_OR"
  <2>1. f \in (SUBSET {FLAG1, FLAG8}) \ {{}}
    <3>1. FLAG1 \in f /\ f \subseteq {FLAG1, FLAG8}
      OBVIOUS
    <3>. QED
      BY <3>1
  <2>2. m \in {"RT_EVENT_FLAG_AND", "RT_EVENT_FLAG_OR"}
    OBVIOUS
  <2>3. Wanted(t) = [flags |-> f, mode |-> m, clear |-> TRUE, wait |-> "forever"]
    BY DEF Wanted
  <2>. HIDE DEF f, m
  <2>. QED
    BY <2>1, <2>2, <2>3
    DEF DHT11_data_event!Requests, DHT11_data_event!And, DHT11_data_event!Or,
        DHT11_data_event!NoWait, DHT11_data_event!Timed, DHT11_data_event!Forever
<1>. QED
  BY <1>2, <1>4, <1>5, <1>6

\* The list without its k-th thread.
LEMMA UnlinkedIs ==
    ASSUME NEW s \in Seq(Listeners), NEW k \in 1 .. Len(s), NEW u,
           u = DHT11_data_event!Unlinked(s, k)
    PROVE  /\ u \in Seq(Listeners) /\ Len(u) = Len(s) - 1
           /\ \A i \in 1 .. Len(u) : u[i] = IF i < k THEN s[i] ELSE s[i + 1]
<1>1. Len(s) \in Nat /\ Len(s) >= 1
  OBVIOUS
<1>2. \A i \in 1 .. Len(s) - 1 : (IF i < k THEN s[i] ELSE s[i + 1]) \in Listeners
  BY <1>1
<1>3. u \in [1 .. Len(s) - 1 -> Listeners]
  BY <1>2 DEF DHT11_data_event!Unlinked
<1>. QED
  BY <1>1, <1>3 DEF DHT11_data_event!Unlinked

\* ... loses that one and no other.
LEMMA UnlinkedKeeps ==
    ASSUME NEW s \in Seq(Listeners), NEW k \in 1 .. Len(s), Once(s), NEW u,
           u = DHT11_data_event!Unlinked(s, k)
    PROVE  /\ Once(u)
           /\ \A t : Listed(t, u) <=> (t # s[k] /\ Listed(t, s))
<1>1. Len(s) \in Nat /\ Len(u) = Len(s) - 1
  BY UnlinkedIs
<1>2. \A i \in 1 .. Len(u) : u[i] = IF i < k THEN s[i] ELSE s[i + 1]
  BY UnlinkedIs
<1>3. ASSUME NEW i \in 1 .. Len(s), i # k
      PROVE  \E j \in 1 .. Len(u) : u[j] = s[i]
  <2>1. CASE i < k
    BY <1>1, <1>2, <2>1
  <2>2. CASE i > k
    <3>1. i - 1 \in 1 .. Len(u) /\ ~ (i - 1 < k) /\ (i - 1) + 1 = i
      BY <1>1, <2>2
    <3>. QED
      BY <1>2, <3>1
  <2>. QED
    BY <1>3, <2>1, <2>2
<1>4. Once(u)
  BY <1>1, <1>2 DEF Once
<1>5. \A i \in 1 .. Len(u) : u[i] # s[k] /\ \E j \in 1 .. Len(s) : s[j] = u[i]
  BY <1>1, <1>2 DEF Once
<1>6. ASSUME NEW t, Listed(t, u) PROVE t # s[k] /\ Listed(t, s)
  BY <1>5, <1>6 DEF Listed
<1>7. ASSUME NEW t, t # s[k], Listed(t, s) PROVE Listed(t, u)
  BY <1>3, <1>7 DEF Listed
<1>. QED
  BY <1>4, <1>6, <1>7

\* There are two others: a list without over_temhum is no longer than that.
LEMMA TwoOthers ==
    ASSUME NEW s \in Seq(Listeners), Once(s), ~ Listed(over_temhum, s)
    PROVE  Len(s) <= 2
<1>. SUFFICES ASSUME Len(s) >= 3 PROVE FALSE
  OBVIOUS
<1>1. 1 \in 1 .. Len(s) /\ 2 \in 1 .. Len(s) /\ 3 \in 1 .. Len(s)
  OBVIOUS
<1>2. \A k \in {1, 2, 3} : s[k] = wifi \/ s[k] = uart_deal_event
  BY <1>1 DEF Listed, Listeners
<1>3. s[1] # s[2] /\ s[1] # s[3] /\ s[2] # s[3]
  BY <1>1 DEF Once
<1>. QED
  BY <1>2, <1>3
-----------------------------------------------------------------------------
(* The steps.                                                              *)

LEMMA FanInit == Init => FanInv
<1>. SUFFICES ASSUME Init PROVE FanInv
  OBVIOUS
<1>1. /\ suspend_thread = <<>> /\ walk = 0 /\ bypass = 0 /\ naps = 0
      /\ timer = {} /\ sampled = {}
      /\ request = [t \in Listeners |-> DHT11_data_event!Blank]
      /\ pc = [t \in Listeners |-> "caller"]
  BY DEF Init, DHT11_data_event!Init
<1>2. Types
  BY <1>1 DEF Types, DHT11_data_event!Places
<1>3. Waiters
  BY <1>1 DEF Waiters, Once, Listed, DHT11_data_event!Waiting
<1>4. AlarmUnmet /\ Ahead
  BY <1>1 DEF AlarmUnmet, Ahead
<1>. QED
  BY <1>2, <1>3, <1>4 DEF FanInv

\* A send begins its walk at the first waiter, so no waiter counts as passed;
\* without waiters there is nothing to say.  One sample comes in a delay.
LEMMA FanSend ==
    ASSUME FanInv, NEW f, DHT11_data_event!Send(f), UNCHANGED countVars,
           \/ FLAG1 \notin f /\ sampled' = sampled
           \/ sampled = {} /\ sampled' = timer
    PROVE  FanInv'
<1>. USE DEF FanInv, countVars
<1>1. /\ walk' = IF suspend_thread = <<>> THEN 0 ELSE 1
      /\ set' = set \cup f
      /\ UNCHANGED <<suspend_thread, request, pc, timer>>
  BY DEF DHT11_data_event!Send
<1>2. Types'
  <2>1. Len(suspend_thread) \in Nat /\ suspend_thread # <<>> => Len(suspend_thread) >= 1
    BY DEF Types
  <2>. QED
    BY <1>1, <2>1 DEF Types
<1>3. Waiters'
  BY <1>1 DEF Waiters, DHT11_data_event!Waiting
<1>4. AlarmUnmet'
  <2>1. ASSUME NEW k \in 1 .. Len(suspend_thread) PROVE walk' = 1 /\ ~ (k < 1)
    BY <1>1, <2>1
  <2>. QED
    BY <1>1, <2>1 DEF AlarmUnmet
<1>5. Ahead'
  <2>1. bypass \in Nat /\ naps \in Nat
    BY DEF Types
  <2>2. CASE FLAG1 \notin f /\ sampled' = sampled
    <3>1. Owed' = Owed
      BY <1>1, <2>2 DEF Owed
    <3>. QED
      BY <1>1, <2>2, <3>1 DEF Ahead
  <2>3. CASE sampled = {} /\ sampled' = timer
    <3>1. over_temhum \notin timer' \ sampled'
      BY <1>1, <2>3
    <3>2. over_temhum \in timer => over_temhum \in timer \ sampled
      BY <2>3
    <3>3. ASSUME ~ Listed(over_temhum, suspend_thread), over_temhum \in timer
          PROVE  Owed' <= 4 * naps
      <4>1. Owed <= 4 * naps - 1
        BY <3>2, <3>3 DEF Ahead
      <4>2. bypass <= 4 * naps - 1
        BY <2>1, <4>1 DEF Owed
      <4>3. bypass <= 4 * naps /\ bypass + 1 <= 4 * naps
        BY <2>1, <4>2
      <4>. QED
        BY <4>3 DEF Owed
    <3>. QED
      BY <1>1, <3>1, <3>3 DEF Ahead
  <2>. QED
    BY <2>2, <2>3
<1>. QED
  BY <1>2, <1>3, <1>4, <1>5

\* A visit that wakes nobody.  It may pass over_temhum, and does only without FLAG1.
LEMMA FanPass ==
    ASSUME FanInv, walk # 0, UNCHANGED <<set, suspend_thread, request, pc, timer, countVars>>,
           sampled' = sampled \cap timer,
           ~ DHT11_data_event!Met(request[suspend_thread[walk]], set),
           walk' = DHT11_data_event!Cursor(walk + 1, Len(suspend_thread))
    PROVE  FanInv'
<1>. USE DEF FanInv, countVars
<1>0. sampled' = sampled
  BY DEF Types
<1>1. walk \in 1 .. Len(suspend_thread) /\ Len(suspend_thread) \in Nat
  BY DEF Types
<1>2. walk' \in 0 .. Len(suspend_thread)
      /\ \A k \in 1 .. Len(suspend_thread) : (walk' = 0 \/ k < walk') => k <= walk
  BY <1>1 DEF DHT11_data_event!Cursor
<1>3. suspend_thread[walk] = over_temhum => FLAG1 \notin set
  <2>. SUFFICES ASSUME suspend_thread[walk] = over_temhum PROVE FLAG1 \notin set
    OBVIOUS
  <2>1. over_temhum \in Listeners /\ Listed(over_temhum, suspend_thread)
    BY <1>1 DEF Listed, Listeners
  <2>2. request[over_temhum] = Wanted(over_temhum)
    BY <2>1 DEF Waiters, DHT11_data_event!Waiting
  <2>. QED
    BY <2>1, <2>2, AllWantFlag1
<1>4. AlarmUnmet'
  BY <1>1, <1>2, <1>3 DEF AlarmUnmet
<1>5. Types' /\ Waiters' /\ Ahead'
  BY <1>0, <1>2 DEF Types, Waiters, Ahead, Owed, DHT11_data_event!Waiting
<1>. QED
  BY <1>4, <1>5

\* A visit that wakes t.  If that is not over_temhum, it stood in front of it: behind
\* it there is no FLAG1 left.
LEMMA FanWake ==
    ASSUME FanInv, walk # 0, UNCHANGED request, NEW t, t = suspend_thread[walk],
           DHT11_data_event!Met(request[t], set),
           set' = IF request[t].clear
                  THEN set \ DHT11_data_event!Got(request[t], set) ELSE set,
           suspend_thread' = DHT11_data_event!Unlinked(suspend_thread, walk),
           timer' = timer \ {t}, sampled' = sampled \cap timer',
           pc' = [pc EXCEPT ![t] = "resumed"],
           walk' = DHT11_data_event!Cursor(walk, Len(suspend_thread) - 1),
           Bypassed(t)
    PROVE  FanInv'
<1>. USE DEF FanInv
<1>. DEFINE s == suspend_thread
            n == Len(suspend_thread)
            u == suspend_thread'
<1>1. walk \in 1 .. n /\ n \in Nat /\ s \in Seq(Listeners) /\ t \in Listeners
  BY DEF Types
<1>2. /\ u \in Seq(Listeners) /\ Len(u) = n - 1
      /\ \A i \in 1 .. Len(u) : u[i] = IF i < walk THEN s[i] ELSE s[i + 1]
  BY <1>1, UnlinkedIs
<1>3. Once(u) /\ \A x : Listed(x, u) <=> (x # t /\ Listed(x, s))
  <2>1. Once(s)
    BY DEF Waiters
  <2>. QED
    BY <1>1, <2>1, UnlinkedKeeps
<1>4. Listed(t, s) /\ request[t] = Wanted(t)
  BY <1>1 DEF Waiters, Listed, DHT11_data_event!Waiting
<1>5. FLAG1 \in set
  BY <1>1, <1>4, AllWantFlag1
<1>6. \A k \in 1 .. n : s[k] = over_temhum => k >= walk
  BY <1>1, <1>5 DEF AlarmUnmet
<1>7. /\ bypass' \in Nat /\ naps' \in Nat /\ bypass \in Nat /\ naps \in Nat
      /\ t = over_temhum => bypass' = 0 /\ naps' = 0
      /\ t # over_temhum => bypass' <= bypass + 1 /\ naps' = naps
  BY SampleConstants DEF Bypassed, Types
<1>8. walk' \in 0 .. Len(u)
  BY <1>1, <1>2 DEF DHT11_data_event!Cursor
<1>9. Types'
  <2>1. pc' \in [Listeners -> DHT11_data_event!Places]
    BY <1>1 DEF Types, DHT11_data_event!Places
  <2>. QED
    BY <1>1, <1>2, <1>7, <1>8, <2>1 DEF Types
<1>10. Waiters'
  <2>1. ASSUME NEW x \in Listeners
        PROVE  /\ (pc'[x] \in {"suspended", "asleep"}) <=> Listed(x, u)
               /\ pc'[x] # "caller" => request'[x] = Wanted(x)
    <3>1. CASE x = t
      BY <1>1, <1>3, <1>4, <3>1 DEF Types
    <3>2. CASE x # t
      <4>1. pc'[x] = pc[x]
        BY <3>2 DEF Types
      <4>. QED
        BY <1>3, <3>2, <4>1 DEF Waiters, DHT11_data_event!Waiting
    <3>. QED
      BY <3>1, <3>2
  <2>. QED
    BY <1>3, <2>1 DEF Waiters, DHT11_data_event!Waiting
<1>11. FLAG1 \notin set'
  <2>1. request[t].clear /\ FLAG1 \in DHT11_data_event!Got(request[t], set)
    BY <1>1, <1>4, <1>5, AllWantFlag1 DEF DHT11_data_event!Got
  <2>. QED
    BY <2>1
<1>12. AlarmUnmet'
  BY <1>11 DEF AlarmUnmet
<1>13. Ahead'
  <2>0. Owed = bypass + 1 /\ Owed' = bypass'
    BY <1>5, <1>11 DEF Owed
  <2>1. CASE t = over_temhum
    <3>1. ~ Listed(over_temhum, u) /\ over_temhum \notin timer'
      BY <1>3, <2>1
    <3>2. Len(u) <= 2
      BY <1>2, <1>3, <3>1, TwoOthers
    <3>. QED
      BY <1>2, <1>7, <2>1, <3>1, <3>2 DEF Ahead, Listed
  <2>2. CASE t # over_temhum
    <3>0. /\ over_temhum \in timer' <=> over_temhum \in timer
          /\ over_temhum \in sampled' <=> over_temhum \in sampled
      BY <2>2 DEF Types
    <3>1. ASSUME NEW k \in 1 .. Len(u), u[k] = over_temhum
          PROVE  /\ bypass' + k <= 3 + 4 * naps'
                 /\ over_temhum \in timer' => bypass' + k <= 4 * naps' - 1
      <4>1. k + 1 \in 1 .. n
        BY <1>1, <1>2
      <4>2. s[k + 1] = over_temhum
        BY <1>1, <1>2, <1>6, <3>1, <4>1
      <4>3. /\ bypass + (k + 1) <= 3 + 4 * naps
            /\ over_temhum \in timer => bypass + (k + 1) <= 4 * naps - 1
        BY <4>1, <4>2 DEF Ahead
      <4>4. naps' = naps /\ bypass' <= bypass + 1 /\ bypass' \in Nat
        BY <1>7, <2>2
      <4>5. bypass \in Nat /\ naps \in Nat /\ k \in Nat
        BY <1>1, <1>2, <1>7
      <4>6. bypass' + k <= bypass + (k + 1) /\ bypass' + k \in Nat
        <5>1. \A b, c, l \in Nat : c <= b + 1 => c + l <= b + (l + 1) /\ c + l \in Nat
          OBVIOUS
        <5>. QED
          BY ONLY <4>4, <4>5, <5>1
      <4>7. /\ bypass' + k <= 3 + 4 * naps
            /\ over_temhum \in timer => bypass' + k <= 4 * naps - 1
        <5>1. \A b, c, m \in Nat :
                 c <= b => /\ (b <= 3 + 4 * m => c <= 3 + 4 * m)
                           /\ (b <= 4 * m - 1 => c <= 4 * m - 1)
          OBVIOUS
        <5>. QED
          BY ONLY <4>3, <4>5, <4>6, <5>1
      <4>. QED
        BY <3>0, <4>4, <4>7
    <3>2. ASSUME ~ Listed(over_temhum, u), over_temhum \notin timer'
          PROVE  bypass' + Len(u) <= 2 + 4 * naps'
      <4>1. bypass + n <= 2 + 4 * naps
        BY <1>3, <2>2, <3>0, <3>2 DEF Ahead
      <4>2. bypass' <= bypass + 1 /\ naps' = naps /\ bypass' \in Nat /\ bypass \in Nat
        BY <1>7, <2>2
      <4>3. Len(u) = n - 1 /\ n \in Nat /\ naps \in Nat
        BY <1>1, <1>2, <1>7
      <4>4. \A b, c, l, m \in Nat : c <= b + 1 /\ b + l <= 2 + 4 * m
                                   => c + (l - 1) <= 2 + 4 * m
        OBVIOUS
      <4>. QED
        BY ONLY <4>1, <4>2, <4>3, <4>4
    <3>3. ASSUME ~ Listed(over_temhum, u), over_temhum \in timer'
          PROVE  /\ Owed' <= 4 * naps'
                 /\ over_temhum \notin sampled' => Owed' <= 4 * naps' - 1
      <4>1. /\ Owed <= 4 * naps
            /\ over_temhum \notin sampled => Owed <= 4 * naps - 1
        BY <1>3, <2>2, <3>0, <3>3 DEF Ahead
      <4>2. Owed' <= Owed /\ naps' = naps /\ Owed' \in Nat /\ Owed \in Nat /\ naps \in Nat
        BY <1>7, <2>0, <2>2
      <4>3. \A o, q, m \in Nat : q <= o => /\ (o <= 4 * m => q <= 4 * m)
                                         /\ (o <= 4 * m - 1 => q <= 4 * m - 1)
        OBVIOUS
      <4>. QED
        BY ONLY <3>0, <4>1, <4>2, <4>3
    <3>. QED
      BY <3>1, <3>2, <3>3 DEF Ahead
  <2>. QED
    BY <2>1, <2>2
<1>. QED
  BY <1>9, <1>10, <1>12, <1>13

\* The call of rt_event_recv.
LEMMA FanCall ==
    ASSUME FanInv, NEW t \in Listeners, pc[t] = "caller",
           request' = [request EXCEPT ![t] = Wanted(t)],
           pc' = [pc EXCEPT ![t] = "called"],
           UNCHANGED <<set, suspend_thread, walk, timer, sampled, countVars>>
    PROVE  FanInv'
<1>. USE DEF FanInv, countVars
<1>1. Types'
  BY AllWantFlag1 DEF Types, DHT11_data_event!Places
<1>2. Waiters'
  <2>1. ASSUME NEW x \in Listeners
        PROVE  /\ (pc'[x] \in {"suspended", "asleep"}) <=> (pc[x] \in {"suspended", "asleep"})
               /\ pc'[x] # "caller" => request'[x] = Wanted(x)
    BY DEF Types, Waiters
  <2>. QED
    BY <2>1 DEF Waiters, DHT11_data_event!Waiting
<1>3. AlarmUnmet' /\ Ahead'
  BY DEF AlarmUnmet, Ahead, Owed
<1>. QED
  BY <1>1, <1>2, <1>3

\* Another thread runs only while over_temhum waits or a key delays it.
Waits(t) == t # over_temhum =>
                Listed(over_temhum, suspend_thread) \/ over_temhum \in timer

\* A critical section that finds its flags: over_temhum's own, or another's while a
\* key delays over_temhum, as FLAG1 is not there while it sleeps between two sends.
LEMMA FanServed ==
    ASSUME FanInv, walk = 0, NEW t \in Listeners, pc[t] = "called", t \notin timer,
           Waits(t), DHT11_data_event!Met(Wanted(t), set),
           set' = DHT11_data_event!Left(Wanted(t), set),
           pc' = [pc EXCEPT ![t] = "resumed"],
           UNCHANGED <<request, suspend_thread, walk, timer, sampled>>, Bypassed(t)
    PROVE  FanInv'
<1>. USE DEF FanInv
<1>1. FLAG1 \in set /\ FLAG1 \notin set'
  <2>1. Wanted(t).clear /\ FLAG1 \in Wanted(t).flags
    BY AllWantFlag1
  <2>. QED
    BY <2>1, AllWantFlag1 DEF DHT11_data_event!Left
<1>2. Owed = bypass + 1 /\ Owed' = bypass'
  BY <1>1 DEF Owed
<1>3. ~ Listed(over_temhum, suspend_thread)
  BY <1>1 DEF AlarmUnmet, Listed
<1>5. /\ bypass' \in Nat /\ naps' \in Nat /\ bypass \in Nat /\ naps \in Nat
      /\ t = over_temhum => bypass' = 0 /\ naps' = 0
      /\ t # over_temhum => bypass' <= bypass + 1 /\ naps' = naps
  BY SampleConstants DEF Bypassed, Types
<1>6. Types'
  BY <1>5 DEF Types, DHT11_data_event!Places
<1>7. Waiters'
  <2>1. ASSUME NEW x \in Listeners
        PROVE  /\ (pc'[x] \in {"suspended", "asleep"}) <=> (pc[x] \in {"suspended", "asleep"})
               /\ pc'[x] # "caller" => request'[x] = Wanted(x)
    BY DEF Types, Waiters
  <2>. QED
    BY <2>1 DEF Waiters, DHT11_data_event!Waiting
<1>8. AlarmUnmet'
  BY <1>3 DEF AlarmUnmet, Listed
<1>9. Len(suspend_thread) <= 2 /\ Len(suspend_thread) \in Nat
  BY <1>3, TwoOthers DEF Types, Waiters
<1>11. Ahead'
  <2>1. CASE t = over_temhum
    BY <1>3, <1>5, <1>9, <2>1 DEF Ahead, Listed
  <2>2. CASE t # over_temhum
    <3>1. over_temhum \in timer
      BY <1>3, <2>2 DEF Waits
    <3>2. /\ Owed' <= 4 * naps'
          /\ over_temhum \notin sampled => Owed' <= 4 * naps' - 1
      <4>1. /\ Owed <= 4 * naps
            /\ over_temhum \notin sampled => Owed <= 4 * naps - 1
        BY <1>3, <3>1 DEF Ahead
      <4>2. Owed' <= Owed /\ naps' = naps
        BY <1>2, <1>5, <2>2
      <4>3. Owed \in Nat /\ Owed' \in Nat
        BY <1>2, <1>5
      <4>. QED
        BY <1>5, <4>1, <4>2, <4>3
    <3>. QED
      BY <1>3, <3>1, <3>2 DEF Ahead, Listed
  <2>. QED
    BY <2>1, <2>2
<1>. QED
  BY <1>6, <1>7, <1>8, <1>11

\* One that joins the waiters.  over_temhum goes behind those who wait already; the
\* others go behind over_temhum, unless a key delays it.
LEMMA FanSleep ==
    ASSUME FanInv, walk = 0, NEW t \in Listeners, pc[t] = "called", t \notin timer,
           Waits(t), ~ DHT11_data_event!Met(Wanted(t), set),
           suspend_thread' = Append(suspend_thread, t),
           pc' = [pc EXCEPT ![t] = "suspended"],
           UNCHANGED <<set, request, walk, timer, sampled, countVars>>
    PROVE  FanInv'
<1>. USE DEF FanInv, countVars
<1>. DEFINE s == suspend_thread
            n == Len(suspend_thread)
            u == suspend_thread'
<1>1. n \in Nat /\ s \in Seq(Listeners)
  BY DEF Types
<1>2. /\ u \in Seq(Listeners) /\ Len(u) = n + 1 /\ u[n + 1] = t
      /\ \A i \in 1 .. n : u[i] = s[i]
  BY <1>1
<1>3. ~ Listed(t, s)
  BY DEF Waiters, DHT11_data_event!Waiting
<1>4. \A x : Listed(x, u) <=> (x = t \/ Listed(x, s))
  <2>1. ASSUME NEW x, Listed(x, u) PROVE x = t \/ Listed(x, s)
    BY <1>1, <1>2, <2>1 DEF Listed
  <2>2. Listed(t, u)
    <3>1. n + 1 \in 1 .. Len(u)
      BY <1>1, <1>2
    <3>. QED
      BY <1>2, <3>1 DEF Listed
  <2>3. ASSUME NEW x, Listed(x, s) PROVE Listed(x, u)
    BY <1>1, <1>2, <2>3 DEF Listed
  <2>. QED
    BY <2>1, <2>2, <2>3
<1>5. Once(u)
  <2>1. Once(s)
    BY DEF Waiters
  <2>2. \A i \in 1 .. n : s[i] # t
    BY <1>3 DEF Listed
  <2>. QED
    BY <1>1, <1>2, <2>1, <2>2 DEF Once
<1>6. Types'
  <2>2. walk' \in 0 .. Len(u)
    BY <1>1, <1>2
  <2>3. pc' \in [Listeners -> DHT11_data_event!Places]
    BY DEF Types, DHT11_data_event!Places
  <2>. QED
    BY <1>2, <2>2, <2>3 DEF Types
<1>7. Waiters'
  <2>1. ASSUME NEW x \in Listeners
        PROVE  /\ (pc'[x] \in {"suspended", "asleep"}) <=> Listed(x, u)
               /\ pc'[x] # "caller" => request'[x] = Wanted(x)
    <3>1. CASE x = t
      BY <1>4, <3>1 DEF Types, Waiters
    <3>2. CASE x # t
      <4>1. pc'[x] = pc[x]
        BY <3>2 DEF Types
      <4>. QED
        BY <1>4, <3>2, <4>1 DEF Waiters, DHT11_data_event!Waiting
    <3>. QED
      BY <3>1, <3>2
  <2>. QED
    BY <1>5, <2>1 DEF Waiters, DHT11_data_event!Waiting
<1>8. AlarmUnmet'
  <2>1. ASSUME NEW k \in 1 .. Len(u), u[k] = over_temhum PROVE FLAG1 \notin set
    <3>1. CASE k = n + 1
      BY <1>2, <2>1, <3>1, AllWantFlag1
    <3>2. CASE k # n + 1
      BY <1>1, <1>2, <2>1, <3>2 DEF AlarmUnmet
    <3>. QED
      BY <3>1, <3>2
  <2>. QED
    BY <2>1 DEF AlarmUnmet
<1>9. Ahead'
  <2>1. over_temhum \in Listeners /\ bypass \in Nat /\ naps \in Nat
    BY DEF Listeners, Types
  <2>2. Owed' = Owed
    BY DEF Owed
  <2>3. ASSUME NEW k \in 1 .. Len(u), u[k] = over_temhum
        PROVE  /\ bypass + k <= 3 + 4 * naps
               /\ over_temhum \in timer => bypass + k <= 4 * naps - 1
    <3>1. CASE k = n + 1
      <4>1. t = over_temhum
        BY <1>2, <2>3, <3>1
      <4>2. bypass + n <= 2 + 4 * naps
        BY <1>3, <4>1 DEF Ahead
      <4>. QED
        BY <1>1, <2>1, <3>1, <4>1, <4>2
    <3>2. CASE k # n + 1
      BY <1>1, <1>2, <2>3, <3>2 DEF Ahead
    <3>. QED
      BY <3>1, <3>2
  <2>4. ASSUME ~ Listed(over_temhum, u)
        PROVE  /\ over_temhum \in timer
               /\ Owed <= 4 * naps
               /\ over_temhum \in timer \ sampled => Owed <= 4 * naps - 1
    <3>1. t # over_temhum /\ ~ Listed(over_temhum, s)
      BY <1>4, <2>4
    <3>2. over_temhum \in timer
      BY <3>1 DEF Waits
    <3>. QED
      BY <3>1, <3>2 DEF Ahead
  <2>. QED
    BY <2>2, <2>3, <2>4 DEF Ahead
<1>. QED
  BY <1>6, <1>7, <1>8, <1>9

\* A woken thread returns, or a suspended one is switched from: the list stays.
LEMMA FanMove ==
    ASSUME FanInv, NEW t \in Listeners,
           \/ pc[t] = "resumed" /\ pc' = [pc EXCEPT ![t] = "caller"]
           \/ pc[t] = "suspended" /\ pc' = [pc EXCEPT ![t] = "asleep"],
           UNCHANGED <<set, suspend_thread, request, walk, timer, sampled, countVars>>
    PROVE  FanInv'
<1>. USE DEF FanInv, countVars
<1>1. \A x \in Listeners :
          /\ pc'[x] \in {"suspended", "asleep"} <=> pc[x] \in {"suspended", "asleep"}
          /\ pc'[x] # "caller" => pc[x] # "caller"
  BY DEF Types
<1>2. Waiters'
  BY <1>1 DEF Waiters, DHT11_data_event!Waiting
<1>3. Types' /\ AlarmUnmet' /\ Ahead'
  BY DEF Types, AlarmUnmet, Ahead, Owed, DHT11_data_event!Places
<1>. QED
  BY <1>2, <1>3

\* A key delays t: if over_temhum, that allows the others four more.
LEMMA FanDelay ==
    ASSUME FanInv, NEW t \in Listeners, pc[t] # "asleep",
           pc[t] = "suspended" \/ t \notin timer,
           timer' = timer \cup {t},
           pc' = [pc EXCEPT ![t] = IF pc[t] = "suspended" THEN "asleep" ELSE pc[t]],
           naps' = IF t = over_temhum THEN naps + 1 ELSE naps,
           UNCHANGED <<set, suspend_thread, request, walk, sampled, bypass>>
    PROVE  FanInv'
<1>. USE DEF FanInv
<1>0. naps \in Nat /\ bypass \in Nat /\ Len(suspend_thread) \in Nat
  BY DEF Types
<1>1. \A x \in Listeners :
          /\ pc'[x] \in {"suspended", "asleep"} <=> pc[x] \in {"suspended", "asleep"}
          /\ pc'[x] # "caller" => pc[x] # "caller"
  BY DEF Types
<1>2. Waiters'
  BY <1>1 DEF Waiters, DHT11_data_event!Waiting
<1>3. Types'
  <2>1. pc' \in [Listeners -> DHT11_data_event!Places]
    BY DEF Types, DHT11_data_event!Places
  <2>2. timer' \subseteq Listeners /\ sampled' \subseteq timer' /\ naps' \in Nat
    BY <1>0 DEF Types
  <2>. QED
    BY <2>1, <2>2 DEF Types
<1>4. AlarmUnmet'
  BY DEF AlarmUnmet
<1>5. Ahead'
  <2>0. Owed' = Owed /\ Owed \in Nat /\ Owed <= bypass + 1
    BY <1>0 DEF Owed
  <2>1. CASE t # over_temhum
    <3>1. over_temhum \in timer' <=> over_temhum \in timer
      BY <2>1
    <3>. QED
      BY <2>0, <2>1, <3>1 DEF Ahead
  <2>2. CASE t = over_temhum
    <3>1. naps' = naps + 1
      BY <2>2
    <3>2. \A k \in 1 .. Len(suspend_thread) :
              suspend_thread[k] = over_temhum => bypass + k <= 4 * naps' - 1
      <4>. SUFFICES ASSUME NEW k \in 1 .. Len(suspend_thread),
                           suspend_thread[k] = over_temhum
                    PROVE  bypass + k <= 4 * naps' - 1
        OBVIOUS
      <4>1. bypass + k <= 3 + 4 * naps
        BY DEF Ahead
      <4>. QED
        BY ONLY <1>0, <3>1, <4>1, k \in Nat
    <3>3. ~ Listed(over_temhum, suspend_thread) => Owed <= 4 * naps' - 1
      <4>. SUFFICES ASSUME ~ Listed(over_temhum, suspend_thread)
                    PROVE  Owed <= 4 * naps' - 1
        OBVIOUS
      <4>1. over_temhum \notin timer
        BY <2>2 DEF Waiters, DHT11_data_event!Waiting
      <4>2. bypass + Len(suspend_thread) <= 2 + 4 * naps
        BY <4>1 DEF Ahead
      <4>. QED
        BY <1>0, <2>0, <3>1, <4>2
    <3>4. over_temhum \in timer'
      BY <2>2
    <3>5. \A k \in 1 .. Len(suspend_thread) :
              suspend_thread[k] = over_temhum => bypass + k <= 3 + 4 * naps'
      BY <1>0, <3>1, <3>2
    <3>6. ~ Listed(over_temhum, suspend_thread) => Owed <= 4 * naps'
      BY <1>0, <2>0, <3>1, <3>3
    <3>. QED
      BY <2>0, <3>2, <3>3, <3>4, <3>5, <3>6 DEF Ahead
  <2>. QED
    BY <2>1, <2>2
<1>. QED
  BY <1>2, <1>3, <1>4, <1>5

\* A delay is over and t, which was waiting, leaves the list with an error.
LEMMA FanExpire ==
    ASSUME FanInv, walk = 0, NEW t \in timer, NEW k \in 1 .. Len(suspend_thread),
           suspend_thread[k] = t,
           suspend_thread' = DHT11_data_event!Unlinked(suspend_thread, k),
           timer' = timer \ {t}, sampled' = sampled \ {t},
           pc' = [pc EXCEPT ![t] = "resumed"],
           UNCHANGED <<set, request, walk, countVars>>
    PROVE  FanInv'
<1>. USE DEF FanInv, countVars
<1>. DEFINE s == suspend_thread
            n == Len(suspend_thread)
            u == suspend_thread'
<1>1. n \in Nat /\ s \in Seq(Listeners) /\ t \in Listeners /\ bypass \in Nat /\ naps \in Nat
  BY DEF Types
<1>2. /\ u \in Seq(Listeners) /\ Len(u) = n - 1
      /\ \A i \in 1 .. Len(u) : u[i] = IF i < k THEN s[i] ELSE s[i + 1]
  BY <1>1, UnlinkedIs
<1>3. Once(u) /\ \A x : Listed(x, u) <=> (x # t /\ Listed(x, s))
  <2>1. Once(s)
    BY DEF Waiters
  <2>. QED
    BY <1>1, <2>1, UnlinkedKeeps
<1>4. Listed(t, s) /\ request[t] = Wanted(t)
  BY <1>1 DEF Waiters, Listed, DHT11_data_event!Waiting
<1>5. Types'
  <2>1. pc' \in [Listeners -> DHT11_data_event!Places]
    BY <1>1 DEF Types, DHT11_data_event!Places
  <2>2. walk' \in 0 .. Len(u)
    BY <1>1, <1>2
  <2>. QED
    BY <1>1, <1>2, <2>1, <2>2 DEF Types
<1>6. Waiters'
  <2>1. ASSUME NEW x \in Listeners
        PROVE  /\ (pc'[x] \in {"suspended", "asleep"}) <=> Listed(x, u)
               /\ pc'[x] # "caller" => request'[x] = Wanted(x)
    <3>1. CASE x = t
      BY <1>1, <1>3, <1>4, <3>1 DEF Types
    <3>2. CASE x # t
      <4>1. pc'[x] = pc[x]
        BY <3>2 DEF Types
      <4>. QED
        BY <1>3, <3>2, <4>1 DEF Waiters, DHT11_data_event!Waiting
    <3>. QED
      BY <3>1, <3>2
  <2>. QED
    BY <1>3, <2>1 DEF Waiters, DHT11_data_event!Waiting
<1>7. AlarmUnmet'
  <2>1. ASSUME NEW j \in 1 .. Len(u), u[j] = over_temhum PROVE FLAG1 \notin set
    <3>1. Listed(over_temhum, s)
      BY <1>3, <2>1 DEF Listed
    <3>. QED
      BY <3>1 DEF AlarmUnmet, Listed
  <2>. QED
    BY <2>1 DEF AlarmUnmet
<1>8. Ahead'
  <2>0. Owed' = Owed
    BY DEF Owed
  <2>1. CASE t = over_temhum
    <3>1. ~ Listed(over_temhum, u) /\ over_temhum \notin timer'
      BY <1>3, <2>1
    <3>2. Len(u) <= 2
      BY <1>2, <1>3, <3>1, TwoOthers
    <3>3. bypass + k <= 4 * naps - 1
      BY <2>1 DEF Ahead
    <3>4. bypass + Len(u) <= 2 + 4 * naps
      BY <1>1, <1>2, <3>2, <3>3
    <3>. QED
      BY <3>1, <3>4 DEF Ahead, Listed
  <2>2. CASE t # over_temhum
    <3>0. /\ over_temhum \in timer' <=> over_temhum \in timer
          /\ over_temhum \in sampled' <=> over_temhum \in sampled
      BY <2>2
    <3>1. ASSUME NEW j \in 1 .. Len(u), u[j] = over_temhum
          PROVE  /\ bypass + j <= 3 + 4 * naps
                 /\ over_temhum \in timer => bypass + j <= 4 * naps - 1
      <4>1. PICK i \in 1 .. n : s[i] = over_temhum /\ j <= i
        <5>1. CASE j < k
          BY <1>1, <1>2, <3>1, <5>1
        <5>2. CASE ~ (j < k)
          <6>1. j + 1 \in 1 .. n /\ s[j + 1] = over_temhum
            BY <1>1, <1>2, <3>1, <5>2
          <6>. QED
            BY <1>1, <6>1
        <5>. QED
          BY <5>1, <5>2
      <4>2. /\ bypass + i <= 3 + 4 * naps
            /\ over_temhum \in timer => bypass + i <= 4 * naps - 1
        BY <4>1 DEF Ahead
      <4>. QED
        BY <1>1, <4>1, <4>2
    <3>2. ASSUME ~ Listed(over_temhum, u)
          PROVE  ~ Listed(over_temhum, s)
      BY <1>3, <2>2, <3>2
    <3>3. ~ Listed(over_temhum, u) /\ over_temhum \notin timer
          => bypass + Len(u) <= 2 + 4 * naps
      <4>1. ~ Listed(over_temhum, s) /\ over_temhum \notin timer
            => bypass + n <= 2 + 4 * naps
        BY DEF Ahead
      <4>. QED
        BY <1>1, <1>2, <3>2, <4>1
    <3>. QED
      BY <2>0, <3>0, <3>1, <3>2, <3>3 DEF Ahead
  <2>. QED
    BY <2>1, <2>2
<1>. QED
  BY <1>5, <1>6, <1>7, <1>8

\* A delay outside the list is over.
LEMMA FanWakeUp ==
    ASSUME FanInv, NEW t \in timer, ~ DHT11_data_event!Waiting(t),
           timer' = timer \ {t}, sampled' = sampled \ {t},
           UNCHANGED <<set, suspend_thread, request, pc, walk, countVars>>
    PROVE  FanInv'
<1>. USE DEF FanInv, countVars
<1>0. t \in Listeners /\ naps \in Nat /\ bypass \in Nat /\ Len(suspend_thread) \in Nat
  BY DEF Types
<1>1. Types' /\ Waiters' /\ AlarmUnmet'
  BY DEF Types, Waiters, AlarmUnmet, DHT11_data_event!Waiting
<1>2. Owed' = Owed /\ Owed \in Nat /\ bypass <= Owed
  BY <1>0 DEF Owed
<1>3. Ahead'
  <2>1. CASE t = over_temhum
    <3>1. ~ Listed(over_temhum, suspend_thread) /\ over_temhum \notin timer'
      BY <1>0, <2>1 DEF Waiters
    <3>2. Len(suspend_thread) <= 2
      BY <3>1, TwoOthers DEF Types, Waiters
    <3>3. Owed <= 4 * naps
      BY <2>1, <3>1 DEF Ahead
    <3>4. bypass + Len(suspend_thread) <= 2 + 4 * naps
      BY <1>0, <1>2, <3>2, <3>3
    <3>. QED
      BY <3>1, <3>4 DEF Ahead, Listed
  <2>2. CASE t # over_temhum
    <3>1. /\ over_temhum \in timer' <=> over_temhum \in timer
          /\ over_temhum \in sampled' <=> over_temhum \in sampled
      BY <2>2
    <3>. QED
      BY <1>2, <3>1 DEF Ahead
  <2>. QED
    BY <2>1, <2>2
<1>. QED
  BY <1>1, <1>3

LEMMA FanStep == FanInv /\ [Next]_vars => FanInv'
<1>. SUFFICES ASSUME FanInv, [Next]_vars PROVE FanInv'
  OBVIOUS
<1>. USE DEF countVars
<1>1. CASE timeout1
  BY <1>1, FanSend DEF timeout1
<1>2. CASE USART3_IRQHandler
  <2>1. FLAG1 \notin {FLAG8}
    BY DEF FLAG1, FLAG8
  <2>. QED
    BY <1>2, <2>1, FanSend DEF USART3_IRQHandler
<1>3. CASE Deliver
  <2>. DEFINE t == suspend_thread[walk]
  <2>1. walk # 0 /\ UNCHANGED request /\ sampled' = sampled \cap timer'
    BY <1>3 DEF Deliver, DHT11_data_event!Visit
  <2>2. CASE DHT11_data_event!Met(request[t], set)
    <3>1. /\ suspend_thread' = DHT11_data_event!Unlinked(suspend_thread, walk)
          /\ set' = IF request[t].clear
                    THEN set \ DHT11_data_event!Got(request[t], set) ELSE set
          /\ timer' = timer \ {t}
          /\ pc' = [pc EXCEPT ![t] = "resumed"]
          /\ walk' = DHT11_data_event!Cursor(walk, Len(suspend_thread) - 1)
      BY <1>3, <2>2 DEF Deliver, DHT11_data_event!Visit, DHT11_data_event!TimerStopped
    <3>2. suspend_thread' # suspend_thread
      <4>1. suspend_thread \in Seq(Listeners) /\ walk \in 1 .. Len(suspend_thread)
        BY <2>1 DEF FanInv, Types
      <4>2. Len(suspend_thread') = Len(suspend_thread) - 1
        BY <3>1, <4>1, UnlinkedIs
      <4>. QED
        BY <4>1, <4>2
    <3>3. Bypassed(t)
      BY <1>3, <3>2 DEF Deliver
    <3>. HIDE DEF t
    <3>4. t = suspend_thread[walk]
      BY DEF t
    <3>. QED
      BY <2>1, <2>2, <3>1, <3>3, <3>4, FanWake
  <2>3. CASE ~ DHT11_data_event!Met(request[t], set)
    <3>1. /\ walk' = DHT11_data_event!Cursor(walk + 1, Len(suspend_thread))
          /\ UNCHANGED <<set, suspend_thread, timer, pc>>
      BY <1>3, <2>3 DEF Deliver, DHT11_data_event!Visit
    <3>2. UNCHANGED countVars
      BY <1>3, <3>1 DEF Deliver
    <3>. QED
      BY <2>1, <2>3, <3>1, <3>2, FanPass
  <2>. QED
    BY <2>2, <2>3
<1>4. ASSUME NEW t \in Listeners, Wait(t) PROVE FanInv'
  BY <1>4, FanCall DEF Wait, DHT11_data_event!Call, DHT11_data_event!At
<1>5. ASSUME NEW t \in Listeners, Take(t) PROVE FanInv'
  <2>1. /\ walk = 0 /\ pc[t] = "called" /\ t \notin timer
        /\ UNCHANGED <<walk, request, sampled>>
    BY <1>5 DEF Take, DHT11_data_event!Recv, DHT11_data_event!At, DHT11_data_event!Enabled
  <2>2. Waits(t)
    <3>. SUFFICES ASSUME t # over_temhum
                  PROVE  Listed(over_temhum, suspend_thread) \/ over_temhum \in timer
      BY DEF Waits
    <3>1. ~ Ready(over_temhum) /\ over_temhum \in Listeners
      BY <1>5 DEF Take, Runs, Listeners
    <3>. QED
      BY <3>1 DEF Ready, Blocked, FanInv, Waiters, DHT11_data_event!Waiting
  <2>3. request[t] = Wanted(t)
    BY <2>1 DEF FanInv, Waiters
  <2>4. CASE DHT11_data_event!Met(Wanted(t), set)
    <3>1. /\ set' = DHT11_data_event!Left(Wanted(t), set)
          /\ pc' = [pc EXCEPT ![t] = "resumed"]
          /\ UNCHANGED <<suspend_thread, timer>>
      BY <1>5, <2>3, <2>4 DEF Take, DHT11_data_event!Recv
    <3>2. pc'[t] = "resumed"
      BY <3>1 DEF FanInv, Types
    <3>3. Bypassed(t)
      BY <1>5, <3>2 DEF Take
    <3>. QED
      BY <2>1, <2>2, <2>4, <3>1, <3>3, FanServed
  <2>5. CASE ~ DHT11_data_event!Met(Wanted(t), set)
    <3>0. Wanted(t).wait # DHT11_data_event!NoWait /\ Wanted(t).wait # DHT11_data_event!Timed
      BY AllWantFlag1 DEF DHT11_data_event!NoWait, DHT11_data_event!Timed
    <3>1. /\ suspend_thread' = Append(suspend_thread, t)
          /\ pc' = [pc EXCEPT ![t] = "suspended"]
          /\ UNCHANGED <<set, timer>>
      BY <1>5, <2>3, <2>5, <3>0 DEF Take, DHT11_data_event!Recv
    <3>2. pc'[t] # "resumed"
      BY <3>1 DEF FanInv, Types
    <3>3. UNCHANGED countVars
      BY <1>5, <3>2 DEF Take
    <3>. QED
      BY <2>1, <2>2, <2>5, <3>1, <3>3, FanSleep
  <2>. QED
    BY <2>4, <2>5
<1>6. ASSUME NEW t \in Listeners, Sleep(t) PROVE FanInv'
  BY <1>6, FanMove DEF Sleep, DHT11_data_event!Schedule
<1>7. ASSUME NEW t \in Listeners, Woken(t) PROVE FanInv'
  BY <1>7, FanMove DEF Woken, DHT11_data_event!Return, DHT11_data_event!At
<1>8. ASSUME NEW t \in Listeners, KeyDelay(t) PROVE FanInv'
  BY <1>8, FanDelay DEF KeyDelay, DHT11_data_event!Delay
<1>9. ASSUME NEW t \in Listeners, Timeout(t) PROVE FanInv'
  <2>1. /\ walk = 0 /\ t \in timer /\ timer' = timer \ {t} /\ sampled' = sampled \ {t}
        /\ UNCHANGED <<set, request, walk, countVars>>
    BY <1>9 DEF Timeout, DHT11_data_event!Timeout, DHT11_data_event!Enabled
  <2>2. CASE DHT11_data_event!Waiting(t)
    <3>1. PICK k \in 1 .. Len(suspend_thread) :
              /\ suspend_thread[k] = t
              /\ suspend_thread' = DHT11_data_event!Unlinked(suspend_thread, k)
      BY <1>9, <2>2 DEF Timeout, DHT11_data_event!Timeout
    <3>2. pc' = [pc EXCEPT ![t] = "resumed"]
      BY <1>9, <2>2 DEF Timeout, DHT11_data_event!Timeout
    <3>. QED
      BY <2>1, <3>1, <3>2, FanExpire
  <2>3. CASE ~ DHT11_data_event!Waiting(t)
    <3>1. UNCHANGED <<suspend_thread, pc>>
      BY <1>9, <2>3 DEF Timeout, DHT11_data_event!Timeout
    <3>. QED
      BY <2>1, <2>3, <3>1, FanWakeUp
  <2>. QED
    BY <2>2, <2>3
<1>10. ASSUME UNCHANGED <<eventVars, sampled, countVars>> PROVE FanInv'
  BY <1>10 DEF FanInv, Types, Waiters, AlarmUnmet, Ahead, Owed, eventVars,
               DHT11_data_event!Waiting
<1>11. ASSUME NEW t \in Listeners, PrintValues(t) PROVE FanInv'
  BY <1>10, <1>11 DEF PrintValues
<1>12. CASE CheckTem \/ CheckHum \/ SetLimit \/ UNCHANGED vars
  BY <1>10, <1>12 DEF CheckTem, CheckHum, SetLimit, vars
<1>. QED
  BY <1>1, <1>2, <1>3, <1>4, <1>5, <1>6, <1>7, <1>8, <1>9, <1>11, <1>12 DEF Next, Step
-----------------------------------------------------------------------------
(* The theorem.                                                            *)

LEMMA FanInvariance == Spec => []FanInv
  BY FanInit, FanStep, PTL DEF Spec

LEMMA AheadBounds == FanInv => AlarmNotStarved
<1>. SUFFICES ASSUME FanInv PROVE bypass <= 2 + 4 * naps
  BY DEF AlarmNotStarved
<1>1. bypass \in Nat /\ naps \in Nat /\ Len(suspend_thread) \in Nat
  BY DEF FanInv, Types
<1>2. CASE Listed(over_temhum, suspend_thread)
  BY <1>1, <1>2 DEF FanInv, Ahead, Listed
<1>3. CASE ~ Listed(over_temhum, suspend_thread) /\ over_temhum \notin timer
  BY <1>1, <1>3 DEF FanInv, Ahead
<1>4. CASE ~ Listed(over_temhum, suspend_thread) /\ over_temhum \in timer
  BY <1>1, <1>4 DEF FanInv, Ahead, Owed
<1>. QED
  BY <1>2, <1>3, <1>4

\* FLAG1 is cleared by whoever receives it (main.c:556, 607), yet between two samples
\* handed to over_temhum the others receive at most two, and four more for each key
\* that delays over_temhum (delay.c:127), however often and whenever the timer and the
\* PC send and whatever the sensor reads.
THEOREM AlarmHearsSamples == Spec => []AlarmNotStarved
  BY FanInvariance, AheadBounds, PTL
================================================================================
