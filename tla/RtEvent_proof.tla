---------------------------- MODULE RtEvent_proof ----------------------------
(***************************************************************************)
(* For every set of threads and flags and every kind of call, with keys    *)
(* that delay threads anywhere in rt_event_recv: the types, the waiter     *)
(* list, the absence of missed wake-ups, the error numbers of threads no   *)
(* key has hit and the timers and flags of each call are inductive.        *)
(***************************************************************************)
EXTENDS RtEvent, TLAPS

\* thread->error is cleared on entry (ipc.c:1117) and set only by what ends the
\* sleep, unless a key hits the call.
SleepersUnmarked ==
    \A t \in Threads : pc[t] = "called" \/ Waiting(t) => error[t] = "EOK" \/ t \in hit

\* The timer of a thread in rt_event_recv runs for its timed wait, or because
\* a key has hit the call.
TimersExplained ==
    \A t \in timer :
        pc[t] = "caller" \/ t \in hit \/ (Waiting(t) /\ request[t].wait = Timed)

\* A thread that has not got through the critical section, or waits, has taken
\* no flags in its call.
NotYetTaken == \A t \in Threads : pc[t] # "resumed" => recved[t] = {}

\* FailsEmptyHanded, also while rt_event_send walks the list.
FailsEmpty ==
    \A t \in Threads : pc[t] = "resumed" /\ error[t] # "EOK" => recved[t] = {} \/ t \in hit

IInv == /\ TypeOK /\ WaitersAreAsleep /\ NoMissedWakeup
        /\ SleepersUnmarked /\ TimersExplained /\ NotYetTaken /\ FailsEmpty

\* Every waiting thread appears once in the list s.
Once(s) == \A k, l \in 1 .. Len(s) : s[k] = s[l] => k = l
-----------------------------------------------------------------------------
(* The operators of the model.                                             *)

\* Taking out the k-th node keeps the others, in order.
LEMMA UnlinkedSeq ==
    ASSUME NEW S, NEW s \in Seq(S), NEW k \in 1 .. Len(s)
    PROVE  /\ Unlinked(s, k) \in Seq(S)
           /\ Len(Unlinked(s, k)) = Len(s) - 1
           /\ \A i \in 1 .. Len(s) - 1 :
                  Unlinked(s, k)[i] = IF i < k THEN s[i] ELSE s[i + 1]
<1>1. Len(s) \in Nat /\ Len(s) >= 1
  OBVIOUS
<1>2. \A i \in 1 .. Len(s) - 1 : (IF i < k THEN s[i] ELSE s[i + 1]) \in S
  BY <1>1
<1>3. Unlinked(s, k) \in [1 .. Len(s) - 1 -> S]
  BY <1>2 DEF Unlinked
<1>. QED
  BY <1>1, <1>3 DEF Unlinked

\* ... so the list loses exactly the k-th thread.
LEMMA UnlinkedMembers ==
    ASSUME NEW S, NEW s \in Seq(S), NEW k \in 1 .. Len(s), Once(s)
    PROVE  /\ Once(Unlinked(s, k))
           /\ \A t : (\E i \in 1 .. Len(Unlinked(s, k)) : Unlinked(s, k)[i] = t)
                  <=> (t # s[k] /\ \E i \in 1 .. Len(s) : s[i] = t)
<1>. DEFINE u == Unlinked(s, k)
<1>1. Len(s) \in Nat /\ Len(u) = Len(s) - 1
  BY UnlinkedSeq
<1>2. \A i \in 1 .. Len(u) : u[i] = IF i < k THEN s[i] ELSE s[i + 1]
  BY UnlinkedSeq
<1>3. ASSUME NEW i \in 1 .. Len(s), i # k
      PROVE  \E j \in 1 .. Len(u) : u[j] = s[i]
  <2>1. CASE i < k
    BY <1>1, <1>2, <2>1
  <2>2. CASE i > k
    <3>1. i - 1 \in 1 .. Len(u) /\ ~ (i - 1 < k) /\ (i - 1) + 1 = i
      BY <1>1, <2>2
    <3>. QED
      BY <1>2, <3>1
  <2>. QED
    BY <1>3, <2>1, <2>2
<1>4. Once(u)
  BY <1>1, <1>2 DEF Once
<1>5. \A i \in 1 .. Len(u) : u[i] # s[k] /\ \E j \in 1 .. Len(s) : s[j] = u[i]
  BY <1>1, <1>2 DEF Once
<1>. QED
  BY <1>3, <1>4, <1>5

\* With fewer flags a request is no better met.
LEMMA MetMonotone ==
    ASSUME NEW r \in Requests, NEW s, NEW S, S \subseteq s, ~ Met(r, s)
    PROVE  ~ Met(r, S)
  BY DEF Met
-----------------------------------------------------------------------------
(* Types.                                                                  *)

LEMMA TypeInit == Init => TypeOK
<1>. SUFFICES ASSUME Init PROVE TypeOK
  OBVIOUS
<1>1. suspend_thread = <<>> /\ walk = 0
  BY DEF Init
<1>2. suspend_thread \in Seq(Threads) /\ walk \in 0 .. Len(suspend_thread)
  BY <1>1
<1>. QED
  BY <1>2 DEF Init, TypeOK, Places

LEMMA TypeStep == TypeOK /\ [Next]_eventVars => TypeOK'
<1>. SUFFICES ASSUME TypeOK, [Next]_eventVars PROVE TypeOK'
  OBVIOUS
<1>. USE DEF TypeOK
<1>0. Len(suspend_thread) \in Nat
  OBVIOUS
<1>1. ASSUME NEW flags \in SUBSET Flags, Send(flags) PROVE TypeOK'
  <2>1. walk' \in 0 .. Len(suspend_thread)
    BY <1>0, <1>1 DEF Send
  <2>. QED
    BY <1>1, <2>1 DEF Send
<1>2. CASE Visit
  <2>. DEFINE t == suspend_thread[walk]
  <2>1. walk \in 1 .. Len(suspend_thread) /\ t \in Threads
    BY <1>0, <1>2 DEF Visit
  <2>2. Got(request[t], set) \subseteq Flags
    BY DEF Got
  <2>3. CASE Met(request[t], set)
    <3>1. /\ recved' = [recved EXCEPT ![t] = Got(request[t], set)]
          /\ set' = IF request[t].clear THEN set \ Got(request[t], set) ELSE set
          /\ suspend_thread' = Unlinked(suspend_thread, walk)
          /\ timer' = timer \ {t}
          /\ pc' = [pc EXCEPT ![t] = "resumed"]
          /\ walk' = Cursor(walk, Len(suspend_thread) - 1)
          /\ UNCHANGED <<request, error, hit>>
      BY <1>2, <2>3 DEF Visit, TimerStopped
    <3>2. /\ suspend_thread' \in Seq(Threads)
          /\ Len(suspend_thread') = Len(suspend_thread) - 1
      BY <2>1, <3>1, UnlinkedSeq
    <3>3. walk' \in 0 .. Len(suspend_thread')
      BY <1>0, <2>1, <3>1, <3>2 DEF Cursor
    <3>4. pc' \in [Threads -> Places]
      BY <2>1, <3>1 DEF Places
    <3>5. recved' \in [Threads -> SUBSET Flags] /\ set' \subseteq Flags
      BY <2>1, <2>2, <3>1
    <3>6. timer' \subseteq Threads
      BY <3>1
    <3>. QED
      BY <3>1, <3>2, <3>3, <3>4, <3>5, <3>6
  <2>4. CASE ~ Met(request[t], set)
    <3>1. /\ walk' = Cursor(walk + 1, Len(suspend_thread))
          /\ UNCHANGED <<recved, set, suspend_thread, timer, pc, request, error, hit>>
      BY <1>2, <2>4 DEF Visit
    <3>2. walk' \in 0 .. Len(suspend_thread)
      BY <1>0, <2>1, <3>1 DEF Cursor
    <3>. QED
      BY <3>1, <3>2
  <2>. QED
    BY <2>3, <2>4
<1>3. ASSUME NEW t \in Threads, NEW r \in Wants, Call(t, r) PROVE TypeOK'
  <2>1. r \in Requests
    BY EventConstants
  <2>2. request' \in [Threads -> Requests \cup {Blank}]
    BY <1>3, <2>1 DEF Call
  <2>3. error' \in [Threads -> {"EOK", "ETIMEOUT", "ERROR"}]
    BY <1>3 DEF Call
  <2>4. pc' \in [Threads -> Places]
    BY <1>3 DEF Call, Places
  <2>. QED
    BY <1>3, <2>2, <2>3, <2>4 DEF Call
<1>4. ASSUME NEW t \in Threads, Recv(t) PROVE TypeOK'
  <2>1. Got(request[t], set) \subseteq Flags /\ Left(request[t], set) \subseteq Flags
    BY DEF Got, Left
  <2>2. set' \subseteq Flags /\ recved' \in [Threads -> SUBSET Flags]
    BY <1>4, <2>1 DEF Recv
  <2>3. error' \in [Threads -> {"EOK", "ETIMEOUT", "ERROR"}]
    BY <1>4 DEF Recv
  <2>4. pc' \in [Threads -> Places]
    BY <1>4 DEF Recv, Places
  <2>5. suspend_thread' \in {suspend_thread, Append(suspend_thread, t)}
    BY <1>4 DEF Recv
  <2>6. suspend_thread' \in Seq(Threads)
    BY <2>5
  <2>7. timer' \subseteq Threads /\ walk' = 0 /\ UNCHANGED <<request, hit>>
    BY <1>4 DEF Recv, At, Enabled
  <2>. QED
    BY <2>2, <2>3, <2>4, <2>6, <2>7
<1>5. ASSUME NEW t \in Threads, Schedule(t) PROVE TypeOK'
  BY <1>5 DEF Schedule, Places
<1>6. ASSUME NEW t \in Threads, Return(t) PROVE TypeOK'
  BY <1>6 DEF Return, Places
<1>7. ASSUME NEW t \in Threads, Delay(t) PROVE TypeOK'
  <2>1. error' \in [Threads -> {"EOK", "ETIMEOUT", "ERROR"}]
    BY <1>7 DEF Delay
  <2>2. pc' \in [Threads -> Places]
    BY <1>7 DEF Delay, Places
  <2>. QED
    BY <1>7, <2>1, <2>2 DEF Delay
<1>8. ASSUME NEW t \in Threads, Timeout(t) PROVE TypeOK'
  <2>1. suspend_thread' \in Seq(Threads) /\ walk' = 0
    <3>1. CASE Waiting(t)
      BY <1>8, <3>1, UnlinkedSeq DEF Timeout, Enabled
    <3>2. CASE ~ Waiting(t)
      BY <1>8, <3>2 DEF Timeout, Enabled
    <3>. QED
      BY <3>1, <3>2
  <2>2. /\ error' \in [Threads -> {"EOK", "ETIMEOUT", "ERROR"}]
        /\ pc' \in [Threads -> Places]
        /\ timer' \subseteq Threads
        /\ UNCHANGED <<set, request, recved, hit>>
    BY <1>8 DEF Timeout, Places
  <2>. QED
    BY <2>1, <2>2
<1>9. CASE Reset
  <2>1. suspend_thread' \in Seq(Threads) /\ walk' = 0
    BY <1>9 DEF Reset, Enabled
  <2>2. /\ error' \in [Threads -> {"EOK", "ETIMEOUT", "ERROR"}]
        /\ pc' \in [Threads -> Places]
        /\ timer' \subseteq Threads
        /\ set' = {} /\ UNCHANGED <<request, recved, hit>>
    BY <1>9 DEF Reset, Places
  <2>. QED
    BY <2>1, <2>2
<1>10. CASE UNCHANGED eventVars
  BY <1>10 DEF eventVars
<1>. QED
  BY <1>1, <1>2, <1>3, <1>4, <1>5, <1>6, <1>7, <1>8, <1>9, <1>10 DEF Next
-----------------------------------------------------------------------------
(* The waiter list.                                                        *)

LEMMA WaitersStep ==
    TypeOK /\ WaitersAreAsleep /\ [Next]_eventVars => WaitersAreAsleep'
<1>. SUFFICES ASSUME TypeOK, WaitersAreAsleep, [Next]_eventVars
              PROVE  WaitersAreAsleep'
  OBVIOUS
<1>. DEFINE Listed(t, s) == \E k \in 1 .. Len(s) : s[k] = t
<1>0. /\ suspend_thread \in Seq(Threads) /\ Len(suspend_thread) \in Nat
      /\ \A k \in 1 .. Len(suspend_thread) : suspend_thread[k] \in Threads
      /\ pc \in [Threads -> Places]
      /\ walk \in 0 .. Len(suspend_thread)
  BY DEF TypeOK
<1>. USE DEF Waiting
<1>a. \A t \in Threads : Waiting(t) <=> Listed(t, suspend_thread)
  BY DEF WaitersAreAsleep
<1>b. Once(suspend_thread)
  BY DEF WaitersAreAsleep, Once
<1>c. SUFFICES /\ \A t \in Threads : Waiting(t)' <=> Listed(t, suspend_thread')
               /\ Once(suspend_thread')
  BY DEF WaitersAreAsleep, Once
\* A waiter unlinked and marked as resumed, by a send or by its timeout.
<1>u. ASSUME NEW k \in 1 .. Len(suspend_thread),
             suspend_thread' = Unlinked(suspend_thread, k),
             pc' = [pc EXCEPT ![suspend_thread[k]] = "resumed"]
      PROVE  /\ \A t \in Threads : Waiting(t)' <=> Listed(t, suspend_thread')
             /\ Once(suspend_thread')
  <2>1. /\ Once(suspend_thread')
        /\ \A t : Listed(t, suspend_thread')
                    <=> (t # suspend_thread[k] /\ Listed(t, suspend_thread))
    <3>. DEFINE s == suspend_thread
    <3>1. s \in Seq(Threads) /\ k \in 1 .. Len(s) /\ Once(s)
      BY <1>0, <1>b
    <3>. HIDE DEF s
    <3>2. /\ Once(Unlinked(s, k))
          /\ \A t : (\E i \in 1 .. Len(Unlinked(s, k)) : Unlinked(s, k)[i] = t)
                 <=> (t # s[k] /\ \E i \in 1 .. Len(s) : s[i] = t)
      BY <3>1, UnlinkedMembers
    <3>3. suspend_thread' = Unlinked(s, k)
      BY <1>u DEF s
    <3>. QED
      BY <3>2, <3>3 DEF s
  <2>2. ASSUME NEW t \in Threads
        PROVE  Waiting(t)' <=> (t # suspend_thread[k] /\ Waiting(t))
    BY <1>0, <1>u
  <2>. QED
    BY <1>a, <2>1, <2>2
<1>v. ASSUME UNCHANGED <<suspend_thread, pc>>
      PROVE  /\ \A t \in Threads : Waiting(t)' <=> Listed(t, suspend_thread')
             /\ Once(suspend_thread')
  BY <1>a, <1>b, <1>v
<1>1. ASSUME NEW flags \in SUBSET Flags, Send(flags) PROVE UNCHANGED <<suspend_thread, pc>>
  BY <1>1 DEF Send
<1>2. CASE Visit
  <2>1. walk \in 1 .. Len(suspend_thread)
    BY <1>0, <1>2 DEF Visit
  <2>. QED
    BY <1>2, <1>u, <1>v, <2>1 DEF Visit
<1>3. ASSUME NEW t \in Threads, NEW r \in Wants, Call(t, r)
      PROVE  /\ \A q \in Threads : Waiting(q)' <=> Listed(q, suspend_thread')
             /\ Once(suspend_thread')
  <2>1. /\ pc[t] = "caller" /\ pc' = [pc EXCEPT ![t] = "called"]
        /\ suspend_thread' = suspend_thread
    BY <1>3 DEF Call, At
  <2>2. \A q \in Threads : Waiting(q)' <=> Waiting(q)
    BY <1>0, <2>1
  <2>. QED
    BY <1>a, <1>b, <2>1, <2>2
<1>4. ASSUME NEW t \in Threads, Recv(t)
      PROVE  /\ \A q \in Threads : Waiting(q)' <=> Listed(q, suspend_thread')
             /\ Once(suspend_thread')
  <2>0. pc[t] = "called"
    BY <1>4 DEF Recv, At
  <2>1. CASE suspend_thread' = suspend_thread /\ pc' = [pc EXCEPT ![t] = "resumed"]
    <3>1. \A q \in Threads : Waiting(q)' <=> Waiting(q)
      BY <1>0, <2>0, <2>1
    <3>. QED
      BY <1>a, <1>b, <2>1, <3>1
  <2>2. CASE /\ suspend_thread' = Append(suspend_thread, t)
             /\ pc' = [pc EXCEPT ![t] = "suspended"]
    <3>1. ~ Listed(t, suspend_thread)
      BY <1>a, <2>0
    <3>2. /\ Len(suspend_thread') = Len(suspend_thread) + 1
          /\ \A k \in 1 .. Len(suspend_thread) : suspend_thread'[k] = suspend_thread[k]
          /\ suspend_thread'[Len(suspend_thread) + 1] = t
      BY <1>0, <2>2
    <3>3. \A q \in Threads : Listed(q, suspend_thread') <=> q = t \/ Listed(q, suspend_thread)
      <4>. TAKE q \in Threads
      <4>1. ASSUME NEW k \in 1 .. Len(suspend_thread'), suspend_thread'[k] = q
            PROVE  q = t \/ Listed(q, suspend_thread)
        <5>1. k \in 1 .. Len(suspend_thread) \/ k = Len(suspend_thread) + 1
          BY <1>0, <3>2
        <5>. QED
          BY <3>2, <4>1, <5>1
      <4>2. Len(suspend_thread) + 1 \in 1 .. Len(suspend_thread')
        BY <1>0, <3>2
      <4>3. \A k \in 1 .. Len(suspend_thread) : k \in 1 .. Len(suspend_thread')
        BY <1>0, <3>2
      <4>. QED
        BY <3>2, <4>1, <4>2, <4>3
    <3>4. Once(suspend_thread')
      BY <1>0, <1>b, <3>1, <3>2 DEF Once
    <3>. QED
      BY <1>0, <1>a, <2>2, <3>3, <3>4
  <2>. QED
    BY <1>4, <2>1, <2>2 DEF Recv
<1>5. ASSUME NEW t \in Threads, Schedule(t) \/ Delay(t) \/ Return(t)
      PROVE  /\ \A q \in Threads : Waiting(q)' <=> Listed(q, suspend_thread')
             /\ Once(suspend_thread')
  <2>1. suspend_thread' = suspend_thread
    BY <1>5 DEF Schedule, Delay, Return
  <2>2. CASE Schedule(t) \/ Return(t)
    BY <1>0, <1>a, <1>b, <2>1, <2>2 DEF Schedule, Return, At
  <2>3. CASE Delay(t)
    <3>1. pc' = [pc EXCEPT ![t] = IF pc[t] = "suspended" THEN "asleep" ELSE pc[t]]
      BY <2>3 DEF Delay
    <3>2. \A q \in Threads : Waiting(q)' <=> Waiting(q)
      BY <1>0, <3>1
    <3>. QED
      BY <1>a, <1>b, <2>1, <3>2
  <2>. QED
    BY <1>5, <2>2, <2>3
<1>6. ASSUME NEW t \in Threads, Timeout(t)
      PROVE  /\ \A q \in Threads : Waiting(q)' <=> Listed(q, suspend_thread')
             /\ Once(suspend_thread')
  <2>1. CASE UNCHANGED <<suspend_thread, pc>>
    BY <1>v, <2>1
  <2>2. CASE ~ UNCHANGED <<suspend_thread, pc>>
    <3>1. PICK k \in 1 .. Len(suspend_thread) :
              suspend_thread[k] = t /\ suspend_thread' = Unlinked(suspend_thread, k)
      BY <1>6, <2>2 DEF Timeout
    <3>2. pc' = [pc EXCEPT ![suspend_thread[k]] = "resumed"]
      BY <1>6, <2>2, <3>1 DEF Timeout
    <3>. QED
      BY <1>u, <3>1, <3>2
  <2>. QED
    BY <2>1, <2>2
<1>7. CASE Reset
  <2>1. suspend_thread' = <<>> /\ Len(suspend_thread') = 0
    BY <1>7 DEF Reset
  <2>2. \A t \in Threads : ~ Waiting(t)'
    BY <1>0, <1>7 DEF Reset
  <2>. QED
    BY <2>1, <2>2 DEF Once
<1>8. CASE UNCHANGED eventVars
  BY <1>8, <1>v DEF eventVars
<1>. QED
  BY <1>1, <1>2, <1>3, <1>4, <1>5, <1>6, <1>7, <1>8, <1>v DEF Next
-----------------------------------------------------------------------------
(* Missed wake-ups.                                                        *)

LEMMA WakeupStep == IInv /\ [Next]_eventVars => NoMissedWakeup'
<1>. SUFFICES ASSUME IInv, [Next]_eventVars PROVE NoMissedWakeup'
  OBVIOUS
<1>. USE DEF IInv
<1>0. /\ suspend_thread \in Seq(Threads) /\ Len(suspend_thread) \in Nat
      /\ walk \in 0 .. Len(suspend_thread)
  BY DEF TypeOK
<1>a. \A k \in 1 .. Len(suspend_thread) :
          walk = 0 \/ k < walk => ~ Met(request[suspend_thread[k]], set)
  BY DEF NoMissedWakeup, Passed
<1>b. ~ Met(Blank, set')
  BY DEF Met, Blank, And, Or
<1>c. \A k \in 1 .. Len(suspend_thread) : request[suspend_thread[k]] \in Requests \cup {Blank}
  BY <1>0 DEF TypeOK
\* Taking flags away and threads out of the list wakes nobody.
<1>d. ASSUME NEW k \in 1 .. Len(suspend_thread), set' \subseteq set,
             ~ Met(request[suspend_thread[k]], set)
      PROVE  ~ Met(request[suspend_thread[k]], set')
  BY <1>b, <1>c, <1>d, MetMonotone DEF Met
<1>. SUFFICES ASSUME NEW k \in 1 .. Len(suspend_thread'), walk' = 0 \/ k < walk'
              PROVE  ~ Met(request'[suspend_thread'[k]], set')
  BY DEF NoMissedWakeup, Passed
<1>1. ASSUME NEW flags \in SUBSET Flags, Send(flags) PROVE FALSE
  <2>1. CASE suspend_thread = <<>>
    BY <1>1, <2>1 DEF Send
  <2>2. CASE suspend_thread # <<>>
    <3>1. walk' = 1 /\ suspend_thread' = suspend_thread
      BY <1>1, <2>2 DEF Send
    <3>. QED
      BY <1>0, <3>1
  <2>. QED
    BY <2>1, <2>2
<1>2. CASE Visit
  <2>. DEFINE r == request[suspend_thread[walk]]
  <2>0. walk \in 1 .. Len(suspend_thread) /\ request' = request
    BY <1>0, <1>2 DEF Visit
  <2>1. CASE Met(r, set)
    <3>1. /\ set' \subseteq set
          /\ suspend_thread' = Unlinked(suspend_thread, walk)
          /\ walk' = Cursor(walk, Len(suspend_thread) - 1)
      BY <1>2, <2>1 DEF Visit
    <3>2. /\ Len(suspend_thread') = Len(suspend_thread) - 1
          /\ suspend_thread'[k] = IF k < walk THEN suspend_thread[k]
                                              ELSE suspend_thread[k + 1]
      BY <1>0, <2>0, <3>1, UnlinkedSeq
    <3>3. k < walk
      BY <1>0, <2>0, <3>1, <3>2 DEF Cursor
    <3>4. k \in 1 .. Len(suspend_thread) /\ suspend_thread'[k] = suspend_thread[k]
      BY <1>0, <3>2, <3>3
    <3>. QED
      BY <1>a, <1>d, <2>0, <3>1, <3>3, <3>4
  <2>2. CASE ~ Met(r, set)
    <3>1. /\ set' = set /\ suspend_thread' = suspend_thread
          /\ walk' = Cursor(walk + 1, Len(suspend_thread))
      BY <1>2, <2>2 DEF Visit
    <3>2. k < walk \/ k = walk
      BY <1>0, <2>0, <3>1 DEF Cursor
    <3>. QED
      BY <1>a, <2>0, <2>2, <3>1, <3>2
  <2>. QED
    BY <2>1, <2>2
<1>3. ASSUME NEW t \in Threads, NEW q \in Wants, Call(t, q)
      PROVE  ~ Met(request'[suspend_thread'[k]], set')
  <2>0. /\ walk = 0 /\ pc[t] = "caller"
        /\ request' = [request EXCEPT ![t] = q]
        /\ UNCHANGED <<suspend_thread, set>>
    BY <1>3 DEF Call, At, Enabled
  <2>1. \A l \in 1 .. Len(suspend_thread) :
            suspend_thread[l] \in Threads \ {t}
    BY <1>0, <2>0 DEF WaitersAreAsleep, Waiting
  <2>2. \A l \in 1 .. Len(suspend_thread) :
            request'[suspend_thread[l]] = request[suspend_thread[l]]
    BY <2>0, <2>1 DEF TypeOK
  <2>. QED
    BY <1>a, <2>0, <2>2
<1>4. ASSUME NEW t \in Threads, Recv(t)
      PROVE  ~ Met(request'[suspend_thread'[k]], set')
  <2>. DEFINE q == request[t]
  <2>0. walk = 0 /\ request' = request
    BY <1>4 DEF Recv, At, Enabled
  <2>3. CASE suspend_thread' = suspend_thread /\ set' \subseteq set
    BY <1>a, <1>d, <2>0, <2>3
  <2>4. CASE /\ suspend_thread' = Append(suspend_thread, t)
             /\ set' = set /\ ~ Met(q, set)
    <3>1. k \in 1 .. Len(suspend_thread) \/ k = Len(suspend_thread) + 1
      BY <1>0, <2>4
    <3>2. CASE k \in 1 .. Len(suspend_thread)
      <4>1. suspend_thread'[k] = suspend_thread[k]
        BY <1>0, <2>4, <3>2
      <4>. QED
        BY <1>a, <2>0, <2>4, <3>2, <4>1
    <3>3. CASE k = Len(suspend_thread) + 1
      <4>1. suspend_thread'[k] = t
        BY <1>0, <2>4, <3>3
      <4>. QED
        BY <2>0, <2>4, <4>1
    <3>. QED
      BY <3>1, <3>2, <3>3
  <2>5. Left(q, set) \subseteq set
    BY DEF Left
  <2>. QED
    BY <1>4, <2>3, <2>4, <2>5 DEF Recv
\* Steps between sends that only shorten the list or leave it alone.
<1>5. ASSUME NEW t \in Threads, Schedule(t) \/ Delay(t) \/ Return(t)
      PROVE  ~ Met(request'[suspend_thread'[k]], set')
  BY <1>5, <1>a DEF Schedule, Delay, Return, At, Enabled
<1>6. ASSUME NEW t \in Threads, Timeout(t)
      PROVE  ~ Met(request'[suspend_thread'[k]], set')
  <2>0. walk = 0 /\ request' = request /\ set' = set
    BY <1>6 DEF Timeout, Enabled
  <2>1. CASE suspend_thread' = suspend_thread
    BY <1>a, <2>0, <2>1
  <2>2. CASE suspend_thread' # suspend_thread
    <3>1. PICK l \in 1 .. Len(suspend_thread) :
              suspend_thread' = Unlinked(suspend_thread, l)
      BY <1>6, <2>2 DEF Timeout
    <3>3. /\ Len(suspend_thread') = Len(suspend_thread) - 1
          /\ suspend_thread'[k] = IF k < l THEN suspend_thread[k]
                                           ELSE suspend_thread[k + 1]
      BY <1>0, <3>1, UnlinkedSeq
    <3>4. \E i \in 1 .. Len(suspend_thread) : suspend_thread'[k] = suspend_thread[i]
      BY <1>0, <3>3
    <3>. QED
      BY <1>a, <2>0, <3>4
  <2>. QED
    BY <2>1, <2>2
<1>7. CASE Reset
  BY <1>7 DEF Reset
<1>8. CASE UNCHANGED eventVars
  BY <1>8, <1>a DEF eventVars
<1>. QED
  BY <1>1, <1>2, <1>3, <1>4, <1>5, <1>6, <1>7, <1>8 DEF Next
-----------------------------------------------------------------------------
(* Error numbers and received flags.                                       *)

CallInv == SleepersUnmarked /\ TimersExplained /\ NotYetTaken /\ FailsEmpty

LEMMA CallStep ==
    TypeOK /\ WaitersAreAsleep /\ CallInv /\ [Next]_eventVars => CallInv'
<1>. SUFFICES ASSUME TypeOK, WaitersAreAsleep, CallInv, [Next]_eventVars PROVE CallInv'
  OBVIOUS
<1>. USE DEF CallInv, SleepersUnmarked, TimersExplained, NotYetTaken, FailsEmpty, Waiting
<1>0. /\ pc \in [Threads -> Places] /\ recved \in [Threads -> SUBSET Flags]
      /\ error \in [Threads -> {"EOK", "ETIMEOUT", "ERROR"}]
      /\ request \in [Threads -> Requests \cup {Blank}]
      /\ timer \subseteq Threads /\ hit \subseteq Threads
  BY DEF TypeOK
<1>1. ASSUME NEW flags \in SUBSET Flags, Send(flags) PROVE CallInv'
  BY <1>1 DEF Send
<1>2. CASE Visit
  <2>. DEFINE t == suspend_thread[walk]
  <2>0. t \in Threads /\ Waiting(t)
    BY <1>2 DEF Visit, WaitersAreAsleep, TypeOK
  <2>1. CASE UNCHANGED <<recved, timer, pc>>
    BY <1>2, <2>1 DEF Visit
  <2>2. CASE ~ UNCHANGED <<recved, timer, pc>>
    <3>1. /\ pc' = [pc EXCEPT ![t] = "resumed"] /\ timer' = timer \ {t}
          /\ recved' = [recved EXCEPT ![t] = Got(request[t], set)]
          /\ UNCHANGED <<request, error, hit>>
      BY <1>2, <2>2 DEF Visit, TimerStopped
    <3>2. \A q \in Threads \ {t} : pc'[q] = pc[q] /\ recved'[q] = recved[q]
      BY <1>0, <3>1
    <3>3. pc'[t] = "resumed" /\ (error[t] = "EOK" \/ t \in hit)
      BY <1>0, <2>0, <3>1
    <3>. HIDE DEF t
    <3>. QED
      BY <2>0, <3>1, <3>2, <3>3
  <2>. QED
    BY <2>1, <2>2
<1>3. ASSUME NEW t \in Threads, NEW r \in Wants, Call(t, r) PROVE CallInv'
  <2>1. /\ pc[t] = "caller" /\ t \notin timer
        /\ pc' = [pc EXCEPT ![t] = "called"] /\ error' = [error EXCEPT ![t] = "EOK"]
        /\ request' = [request EXCEPT ![t] = r] /\ UNCHANGED <<recved, timer, hit>>
    BY <1>3 DEF Call, At
  <2>2. \A q \in Threads \ {t} :
            pc'[q] = pc[q] /\ error'[q] = error[q] /\ request'[q] = request[q]
    BY <1>0, <2>1
  <2>3. pc'[t] = "called" /\ error'[t] = "EOK"
    BY <1>0, <2>1
  <2>. QED
    BY <1>0, <2>1, <2>2, <2>3
<1>4. ASSUME NEW t \in Threads, Recv(t) PROVE CallInv'
  <2>1. /\ pc[t] = "called" /\ t \notin timer /\ UNCHANGED <<request, hit>>
        /\ error[t] = "EOK" \/ t \in hit
        /\ recved[t] = {}
    BY <1>4 DEF Recv, At
  <2>2. CASE /\ pc' = [pc EXCEPT ![t] = "resumed"]
             /\ recved' = [recved EXCEPT ![t] = Got(request[t], set)]
             /\ UNCHANGED <<error, timer>>
    <3>1. \A q \in Threads \ {t} : pc'[q] = pc[q] /\ recved'[q] = recved[q]
      BY <1>0, <2>2
    <3>2. pc'[t] = "resumed"
      BY <1>0, <2>2
    <3>. QED
      BY <1>0, <2>1, <2>2, <3>1, <3>2
  <2>3. CASE /\ pc' = [pc EXCEPT ![t] = "resumed"]
             /\ error' = [error EXCEPT ![t] = "ETIMEOUT"]
             /\ UNCHANGED <<recved, timer>>
    <3>1. \A q \in Threads \ {t} : pc'[q] = pc[q] /\ error'[q] = error[q]
      BY <1>0, <2>3
    <3>2. pc'[t] = "resumed" /\ recved'[t] = {}
      BY <1>0, <2>1, <2>3
    <3>. QED
      BY <1>0, <2>1, <2>3, <3>1, <3>2
  <2>4. CASE /\ pc' = [pc EXCEPT ![t] = "suspended"]
             /\ timer' = IF request[t].wait = Timed THEN timer \cup {t} ELSE timer
             /\ UNCHANGED <<error, recved>>
    <3>1. \A q \in Threads \ {t} : pc'[q] = pc[q]
      BY <1>0, <2>4
    <3>2. pc'[t] = "suspended"
      BY <1>0, <2>4
    <3>. QED
      BY <1>0, <2>1, <2>4, <3>1, <3>2
  <2>. QED
    BY <1>4, <2>2, <2>3, <2>4 DEF Recv
<1>5. ASSUME NEW t \in Threads, Schedule(t) PROVE CallInv'
  BY <1>0, <1>5 DEF Schedule
<1>6. ASSUME NEW t \in Threads, Return(t) PROVE CallInv'
  <2>1. /\ t \notin timer /\ hit' = hit \ {t}
        /\ pc' = [pc EXCEPT ![t] = "caller"] /\ recved' = [recved EXCEPT ![t] = {}]
        /\ UNCHANGED <<request, error, timer>>
    BY <1>6 DEF Return, At
  <2>2. \A q \in Threads \ {t} : pc'[q] = pc[q] /\ recved'[q] = recved[q]
    BY <1>0, <2>1
  <2>3. pc'[t] = "caller" /\ recved'[t] = {}
    BY <1>0, <2>1
  <2>. QED
    BY <1>0, <2>1, <2>2, <2>3
<1>7. ASSUME NEW t \in Threads, Delay(t) PROVE CallInv'
  <2>1. /\ timer' = timer \cup {t}
        /\ hit' = IF pc[t] = "caller" THEN hit ELSE hit \cup {t}
        /\ pc' = [pc EXCEPT ![t] = IF pc[t] = "suspended" THEN "asleep" ELSE pc[t]]
        /\ error' = [error EXCEPT ![t] = IF error[t] = "ETIMEOUT" THEN "EOK" ELSE error[t]]
        /\ UNCHANGED <<request, recved>>
    BY <1>7 DEF Delay
  <2>2. \A q \in Threads \ {t} : pc'[q] = pc[q] /\ error'[q] = error[q]
    BY <1>0, <2>1
  <2>3. /\ pc'[t] = "resumed" <=> pc[t] = "resumed"
        /\ pc'[t] = "caller" <=> pc[t] = "caller"
    BY <1>0, <2>1
  <2>. QED
    BY <1>0, <2>1, <2>2, <2>3
<1>8. ASSUME NEW t \in Threads, Timeout(t) PROVE CallInv'
  <2>1. /\ t \in timer /\ timer' = timer \ {t}
        /\ error' = [error EXCEPT ![t] = "ETIMEOUT"]
        /\ UNCHANGED <<request, recved, hit>>
    BY <1>8 DEF Timeout
  <2>2. \A q \in Threads \ {t} : pc'[q] = pc[q] /\ error'[q] = error[q]
    BY <1>0, <1>8, <2>1 DEF Timeout
  <2>3. CASE Waiting(t)
    <3>1. pc' = [pc EXCEPT ![t] = "resumed"]
      BY <1>8, <2>3 DEF Timeout
    <3>2. pc'[t] = "resumed" /\ recved'[t] = {}
      BY <1>0, <2>1, <2>3, <3>1
    <3>. QED
      BY <1>0, <2>1, <2>2, <3>2
  <2>4. CASE ~ Waiting(t)
    <3>1. pc' = pc /\ (pc[t] = "caller" \/ t \in hit)
      BY <1>8, <2>1, <2>4 DEF Timeout
    <3>. QED
      BY <1>0, <2>1, <2>2, <3>1
  <2>. QED
    BY <2>3, <2>4
<1>9. CASE Reset
  BY <1>0, <1>9 DEF Reset
<1>10. CASE UNCHANGED eventVars
  BY <1>10 DEF eventVars
<1>. QED
  BY <1>1, <1>2, <1>3, <1>4, <1>5, <1>6, <1>7, <1>8, <1>9, <1>10 DEF Next

\* What a step clears, its thread t receives.
Taken(t) == /\ set \ set' \subseteq recved'[t]
            /\ request'[t].clear
            /\ pc[t] = "called" \/ Waiting(t)
            /\ error'[t] = "EOK" \/ t \in hit

LEMMA ClearedIsTaken ==
    IInv /\ [Next]_eventVars => Reset \/ set \subseteq set' \/ \E t \in Threads : Taken(t)
<1>. SUFFICES ASSUME IInv, Next, ~ (set \subseteq set'), ~ Reset
              PROVE  \E t \in Threads : Taken(t)
  BY DEF eventVars
<1>. USE DEF IInv
<1>0. /\ recved \in [Threads -> SUBSET Flags]
      /\ error \in [Threads -> {"EOK", "ETIMEOUT", "ERROR"}]
      /\ request \in [Threads -> Requests \cup {Blank}]
      /\ suspend_thread \in Seq(Threads) /\ walk \in 0 .. Len(suspend_thread)
  BY DEF TypeOK
<1>1. CASE Visit
  <2>. DEFINE t == suspend_thread[walk]
  <2>1. t \in Threads /\ Waiting(t) /\ (error[t] = "EOK" \/ t \in hit)
    BY <1>0, <1>1 DEF Visit, WaitersAreAsleep, SleepersUnmarked
  <2>2. /\ recved' = [recved EXCEPT ![t] = Got(request[t], set)]
        /\ set' = IF request[t].clear THEN set \ Got(request[t], set) ELSE set
        /\ UNCHANGED <<request, error>>
    BY <1>1 DEF Visit
  <2>3. request[t].clear /\ set \ set' \subseteq Got(request[t], set)
    BY <2>2
  <2>4. recved'[t] = Got(request[t], set)
    BY <1>0, <2>1, <2>2
  <2>. QED
    BY <2>1, <2>2, <2>3, <2>4 DEF Taken
<1>2. ASSUME NEW t \in Threads, Recv(t) PROVE Taken(t)
  <2>1. /\ pc[t] = "called" /\ UNCHANGED <<request, error>>
        /\ recved' = [recved EXCEPT ![t] = Got(request[t], set)]
        /\ set' = Left(request[t], set)
    BY <1>2 DEF Recv, At
  <2>2. recved'[t] = Got(request[t], set) /\ (error[t] = "EOK" \/ t \in hit)
    BY <1>0, <2>1 DEF SleepersUnmarked
  <2>3. request[t].clear /\ set \ set' \subseteq Got(request[t], set)
    BY <2>1 DEF Left, Got
  <2>. QED
    BY <2>1, <2>2, <2>3 DEF Taken
<1>. QED
  BY <1>1, <1>2 DEF Next, Send, Call, Schedule, Return, Delay, Timeout
-----------------------------------------------------------------------------
(* The theorems.                                                           *)

LEMMA EventInvariance == Spec => []IInv
<1>1. Init => IInv
  <2>1. Init => WaitersAreAsleep /\ NoMissedWakeup
    BY DEF Init, WaitersAreAsleep, NoMissedWakeup, Passed, Waiting
  <2>2. Init => SleepersUnmarked /\ TimersExplained /\ NotYetTaken /\ FailsEmpty
    BY DEF Init, SleepersUnmarked, TimersExplained, NotYetTaken, FailsEmpty, Waiting
  <2>. QED
    BY <2>1, <2>2, TypeInit DEF IInv
<1>2. IInv /\ [Next]_eventVars => IInv'
  BY TypeStep, WaitersStep, WakeupStep, CallStep DEF IInv, CallInv
<1>. QED
  BY <1>1, <1>2, PTL DEF Spec

\* The event's variables keep their types: in particular rt_event_send's walk
\* never leaves the list it unlinks from (ipc.c:1027-1070).
THEOREM EventTypes == Spec => []TypeOK
  BY EventInvariance, PTL DEF IInv

\* A thread is on suspend_thread, once, exactly while it is suspended in
\* rt_event_recv (ipc.c:1065, 1165, 1228, thread.c:728), wherever keys hit it.
THEOREM EventWaiters == Spec => []WaitersAreAsleep
  BY EventInvariance, PTL DEF IInv

\* rt_event_send wakes every waiter it can: between sends nobody sleeps on
\* flags that are set (ipc.c:1028-1070).
THEOREM EventNoMissedWakeup == Spec => []NoMissedWakeup
  BY EventInvariance, PTL DEF IInv

\* A flag is cleared only by the one call that receives it, which succeeds or
\* was hit by a key; a timed-out or woken thread takes none (ipc.c:1061, 1150).
THEOREM EventFlagsReceived == Spec => FlagsAreReceived
<1>. DEFINE Received == \A f \in set \ set' : \E t \in Threads :
                /\ f \in recved'[t] /\ request'[t].clear
                /\ pc[t] = "called" \/ Waiting(t)
                /\ error'[t] = "EOK" \/ t \in hit
<1>1. IInv /\ [Next]_eventVars => [Reset \/ Received]_eventVars
  <2>. SUFFICES ASSUME IInv, [Next]_eventVars, ~ Reset PROVE Received
    OBVIOUS
  <2>1. set \subseteq set' \/ \E t \in Threads : Taken(t)
    BY ClearedIsTaken
  <2>. QED
    BY <2>1 DEF Taken
<1>. QED
  BY <1>1, EventInvariance, PTL DEF Spec, FlagsAreReceived

\* For any number of threads and of keys: rt_event_recv returns an error with
\* flags in hand only when a key hit the call (ipc.c:1185, 1204).
THEOREM EventFailsEmptyHanded == Spec => []FailsEmptyHanded
<1>1. IInv => FailsEmptyHanded
  BY DEF IInv, FailsEmpty, FailsEmptyHanded, At
<1>. QED
  BY <1>1, EventInvariance, PTL
=============================================================================
