------------------------- MODULE RtMessageQueue_proof -------------------------
(***************************************************************************)
(* Proofs about RtMessageQueue for every number of nodes, threads and      *)
(* messages: the types are kept, the free list, the queue and the hands of *)
(* the threads share out the nodes, no wake-up is lost, and the two lists  *)
(* implement MessageChannel.                                               *)
(*                                                                         *)
(* The types alone are not inductive: that rt_mq_recv finds a node at the  *)
(* head when entry is positive follows from the links, so NodesSound goes  *)
(* with them.  NodesSound in turn needs to know that a node about to be    *)
(* linked behind the tail ends the list: rt_mq_send has cleared its link   *)
(* with interrupts enabled, and nobody else writes to a node in hand; and  *)
(* that the thread a sender wakes is asleep, not at work on a node.        *)
(***************************************************************************)
EXTENDS RtMessageQueue, FiniteSetTheorems, TLAPS

\* The induction theorems of the library take the property as an operator; a
\* proof by induction is written here as one by the least counterexample, and
\* the principle comes from the well-foundedness of inclusion among finite sets.

\* The numbers before n, a finite set that grows with n.
Below(n) == 0 .. n - 1

\* Every non-empty set of natural numbers has a least element.
THEOREM LeastNatural ==
  ASSUME NEW T \in SUBSET Nat, T # {}
  PROVE  \E n \in T : \A m \in T : n <= m
<1> DEFINE F == {Below(n) : n \in T}
<1>1. F \subseteq FiniteSubsetsOf(Nat)
  <2>1. ASSUME NEW n \in T
        PROVE  Below(n) \in SUBSET Nat /\ IsFiniteSet(Below(n))
    BY FS_Interval DEF Below
  <2> QED BY <2>1 DEF FiniteSubsetsOf
<1>2. F # {}
  OBVIOUS
<1>3. \E x \in F : \A y \in F : <<y, x>> \notin StrictSubsetOrdering(Nat)
  <2>1. IsWellFoundedOn(StrictSubsetOrdering(Nat), FiniteSubsetsOf(Nat))
    BY FS_StrictSubsetOrderingWellFounded
  <2> HIDE DEF F
  <2> QED BY <1>1, <1>2, <2>1, WFMin
<1>4. PICK n \in T :
          \A m \in T : <<Below(m), Below(n)>> \notin StrictSubsetOrdering(Nat)
  BY <1>3
<1>5. ASSUME NEW m \in T, m < n
      PROVE  FALSE
  <2>1. m \in Below(n) /\ m \notin Below(m) /\ Below(m) \subseteq Below(n)
    BY <1>5 DEF Below
  <2>2. Below(m) \in SUBSET Nat /\ Below(n) \in SUBSET Nat
    BY DEF Below
  <2> HIDE DEF F
  <2> QED BY <1>4, <2>1, <2>2 DEF StrictSubsetOrdering
<1> QED BY <1>5

FilledEnds == \A t \in Threads : pc[t] = "send_link" => next[msg[t]] = Null

SleepersAreAsleep ==
    /\ \A i \in 1 .. Len(suspend_thread) : pc[suspend_thread[i]] = "asleep"
    /\ \A i, j \in 1 .. Len(suspend_thread) :
           suspend_thread[i] = suspend_thread[j] => i = j

\* The inductive invariant.
QueueInv == TypeOK /\ NodesSound /\ FilledEnds /\ SleepersAreAsleep

Walk(k) == [1 .. k -> Nodes]

LEMMA TotalPositive == Total \in Nat \ {0}
  BY QueueConstants DEF Total

\* The links determine the list: two walks along next from the same node are
\* the same walk.
LEMMA ChainUnique ==
  ASSUME next \in [Nodes -> Nodes \cup {Null}], NEW first,
         NEW k \in Nat, NEW s \in Walk(k), IsChain(first, s, k),
         NEW j \in Nat, NEW r \in Walk(j), IsChain(first, r, j)
  PROVE  k = j /\ s = r
<1> DEFINE T == {i \in Nat : i \in 1 .. k /\ i \in 1 .. j /\ s[i] # r[i]}
<1>1. T = {}
  <2>1. SUFFICES ASSUME T # {} PROVE FALSE
    OBVIOUS
  <2>2. T \in SUBSET Nat
    OBVIOUS
  <2>3. PICK i \in T : \A m \in T : i <= m
    <3> HIDE DEF T
    <3> QED BY <2>1, <2>2, LeastNatural
  <2>4. i \in 1 .. k /\ i \in 1 .. j /\ s[i] # r[i]
    BY <2>3
  <2>5. CASE i = 1
    BY <2>4, <2>5 DEF IsChain
  <2>6. CASE i # 1
    <3>1. i - 1 \in 1 .. k /\ i - 1 \in 1 .. j /\ i - 1 # k /\ i - 1 # j
      BY <2>4, <2>6
    <3>2. s[i - 1] = r[i - 1]
      BY <2>3, <3>1
    <3>3. next[s[i - 1]] = s[i - 1 + 1] /\ next[r[i - 1]] = r[i - 1 + 1]
      BY <3>1 DEF IsChain
    <3>4. i - 1 + 1 = i
      BY <2>4
    <3> QED BY <2>4, <3>2, <3>3, <3>4
  <2> QED BY <2>5, <2>6
<1>2. \A i \in 1 .. k : i \in 1 .. j => s[i] = r[i]
  BY <1>1
<1>3. ~ k < j
  <2>1. SUFFICES ASSUME k < j PROVE FALSE
    OBVIOUS
  <2>2. CASE k = 0
    BY <2>1, <2>2, QueueConstants DEF IsChain, Walk
  <2>3. CASE k # 0
    <3>1. k \in 1 .. k /\ k \in 1 .. j /\ k + 1 \in 1 .. j /\ k # j
      BY <2>1, <2>3
    <3>2. next[s[k]] = Null /\ next[r[k]] = r[k + 1] /\ s[k] = r[k]
      BY <1>2, <3>1 DEF IsChain
    <3> QED BY <3>1, <3>2, QueueConstants DEF Walk
  <2> QED BY <2>2, <2>3
<1>4. ~ j < k
  <2>1. SUFFICES ASSUME j < k PROVE FALSE
    OBVIOUS
  <2>2. CASE j = 0
    BY <2>1, <2>2, QueueConstants DEF IsChain, Walk
  <2>3. CASE j # 0
    <3>1. j \in 1 .. j /\ j \in 1 .. k /\ j + 1 \in 1 .. k /\ k # j
      BY <2>1, <2>3
    <3>2. next[r[j]] = Null /\ next[s[j]] = s[j + 1] /\ s[j] = r[j]
      BY <1>2, <3>1 DEF IsChain
    <3> QED BY <3>1, <3>2, QueueConstants DEF Walk
  <2> QED BY <2>2, <2>3
<1>5. k = j
  BY <1>3, <1>4
<1> QED BY <1>2, <1>5 DEF Walk

\* A list without repetition is no longer than there are nodes.
LEMMA WalkBounded ==
  ASSUME NEW k \in Nat, NEW f \in Walk(k),
         \A i, j \in 1 .. k : f[i] = f[j] => i = j
  PROVE  k \in 0 .. Total
<1>1. IsFiniteSet(1 .. k) /\ Cardinality(1 .. k) = k
  BY FS_Interval
<1>2. f \in Injection(1 .. k, Nodes)
  BY DEF Walk, Injection, IsInjective
<1>3. Cardinality(1 .. k) <= Cardinality(Nodes)
  BY <1>2, FS_Injection, QueueConstants
<1> QED BY <1>1, <1>3, TotalPositive DEF Total

\* What the invariant says of the lists, with the numbers in Nat.
LEMMA ListsOf ==
  ASSUME QueueInv
  PROVE  \E k \in Nat : \E f \in Walk(k), q \in Walk(entry) : Lists(f, k, q)
BY TotalPositive DEF QueueInv, NodesSound, Walk

\* And the way back, for the state after a step.
LEMMA SoundNext ==
  ASSUME NEW k \in Nat, NEW f \in Walk(k), entry' \in Nat,
         NEW q \in [1 .. entry' -> Nodes], Lists(f, k, q)', HandsSound'
  PROVE  NodesSound'
<1>1. k \in 0 .. Total
  BY WalkBounded DEF Lists
<1> QED BY <1>1 DEF NodesSound, Walk

\* rt_mq_init leaves every node on the free list, the last one first.
LEMMA InitInv == Init => QueueInv
<1> SUFFICES ASSUME Init PROVE QueueInv
  OBVIOUS
<1> USE TotalPositive
<1>1. ASSUME NEW i \in 1 .. Total
      PROVE  next[InitOrder[i]] = IF i = 1 THEN Null ELSE InitOrder[i - 1]
  <2> DEFINE Place(n) == CHOOSE k \in 1 .. Total : InitOrder[k] = n
  <2>1. Place(InitOrder[i]) = i
    BY QueueConstants DEF Total
  <2>2. InitOrder[i] \in Nodes
    BY QueueConstants DEF Total
  <2>3. next = [n \in Nodes |-> IF Place(n) = 1 THEN Null
                               ELSE InitOrder[Place(n) - 1]]
    BY DEF Init
  <2> HIDE DEF Place
  <2> QED BY <2>1, <2>2, <2>3
<1>2. \A n \in Nodes : \E i \in 1 .. Total : InitOrder[i] = n
  BY QueueConstants DEF Total
<1>3. InitOrder \in Walk(Total)
  BY QueueConstants DEF Total, Walk
<1>4. TypeOK
  <2>1. next = [n \in Nodes |-> next[n]]
    BY DEF Init
  <2>2. ASSUME NEW n \in Nodes PROVE next[n] \in Nodes \cup {Null}
    <3>1. PICK i \in 1 .. Total : InitOrder[i] = n
      BY <1>2
    <3> QED BY <3>1, <1>1, <1>3 DEF Walk
  <2>3. next \in [Nodes -> Nodes \cup {Null}]
    BY <2>1, <2>2
  <2>4. msg_queue_free \in Nodes
    BY <1>3 DEF Init, Walk
  <2>5. suspend_thread \in Seq(Threads)
    BY DEF Init
  <2> QED BY <2>3, <2>4, <2>5 DEF Init, TypeOK
<1>5. HandsSound /\ FilledEnds
  BY QueueConstants DEF Init, HandsSound, FilledEnds, Senders, Receivers
<1> DEFINE f == [i \in 1 .. Total |-> InitOrder[Total + 1 - i]]
           q == [i \in 1 .. 0 |-> InitOrder[1]]
<1>6. f \in [1 .. Total -> Nodes] /\ q \in [1 .. entry -> Nodes]
  BY <1>3 DEF Init, Walk
<1>7. Lists(f, Total, q)
  <2>1. \A n \in Nodes : ~ InHand(n)
    BY QueueConstants DEF Init, InHand
  <2>2. \A i, j \in 1 .. Total : f[i] = f[j] => i = j
    BY QueueConstants DEF Total
  <2>3. ASSUME NEW n \in Nodes
        PROVE  \E i \in 1 .. Total : f[i] = n
    <3>1. PICK i \in 1 .. Total : InitOrder[i] = n
      BY <1>2
    <3>2. Total + 1 - i \in 1 .. Total /\ Total + 1 - (Total + 1 - i) = i
      OBVIOUS
    <3> QED BY <3>1, <3>2
  <2>4. IsChain(msg_queue_free, f, Total)
    <3>1. msg_queue_free = f[1]
      BY DEF Init
    <3>2. ASSUME NEW i \in 1 .. Total
          PROVE  next[f[i]] = IF i = Total THEN Null ELSE f[i + 1]
      <4>1. Total + 1 - i \in 1 .. Total
        OBVIOUS
      <4> QED BY <4>1, <1>1
    <3> HIDE DEF f
    <3> QED BY <3>1, <3>2 DEF IsChain
  <2>5. IsChain(msg_queue_head, q, entry) /\ msg_queue_tail = Null /\ entry = 0
    BY DEF Init, IsChain
  <2> HIDE DEF f, q
  <2> QED BY <1>6, <2>1, <2>2, <2>3, <2>4, <2>5 DEF Lists
<1> HIDE DEF f, q
<1>8. SleepersAreAsleep
  BY DEF Init, SleepersAreAsleep
<1>9. NodesSound
  <2>1. Total \in 0 .. Total
    OBVIOUS
  <2> QED BY <1>5, <1>6, <1>7, <2>1 DEF NodesSound
<1> QED BY <1>4, <1>5, <1>9, <1>8 DEF QueueInv

\* A step that touches neither list nor a hand.
LEMMA ListsUntouched ==
  ASSUME QueueInv, UNCHANGED <<listVars, msg>>,
         \A t \in Threads : pc'[t] = pc[t] \/
             {pc[t], pc'[t]} \subseteq {"caller", "asleep", "resumed"}
  PROVE  NodesSound' /\ FilledEnds'
<1> USE DEF QueueInv, listVars
<1>1. PICK k \in Nat : \E f \in Walk(k), q \in Walk(entry) : Lists(f, k, q)
  BY ListsOf
<1>2. PICK f \in Walk(k), q \in Walk(entry) : Lists(f, k, q)
  BY <1>1
<1>3. HandsSound' /\ FilledEnds'
  BY DEF NodesSound, HandsSound, FilledEnds, Senders, Receivers
<1>4. Lists(f, k, q)'
  BY <1>2 DEF Lists, IsChain, InHand
<1> QED BY <1>2, <1>3, <1>4, SoundNext DEF Walk, TypeOK

\* rt_mq_send and rt_mq_urgent take the first free node in hand.
LEMMA ClaimInv ==
  ASSUME QueueInv, NEW t \in Threads, NEW m \in Messages,
         NEW call \in {"send", "urgent"}, Claim(t, m, call)
  PROVE  QueueInv'
<1> USE DEF QueueInv
<1>1. PICK k \in Nat : \E f \in Walk(k), q \in Walk(entry) : Lists(f, k, q)
  BY ListsOf
<1>2. PICK f \in Walk(k), q \in Walk(entry) : Lists(f, k, q)
  BY <1>1
<1> DEFINE r == [i \in 1 .. k - 1 |-> f[i + 1]]
<1>3. k # 0 /\ 1 \in 1 .. k /\ msg_queue_free = f[1] /\ f[1] \in Nodes
  BY <1>2 DEF Lists, IsChain, Walk, Claim
<1>4. /\ msg' = [msg EXCEPT ![t] = f[1]]
      /\ msg_queue_free' = next[f[1]]
      /\ pc' = [pc EXCEPT ![t] = call]
      /\ UNCHANGED <<msg_queue_head, msg_queue_tail, next, entry>>
  BY <1>3 DEF Claim
<1>5. pc[t] = "caller" /\ msg[t] = Null
  BY DEF Claim, NodesSound, HandsSound, Senders, Receivers, TypeOK
<1>6. \A n \in Nodes : InHand(n)' <=> InHand(n) \/ n = f[1]
  BY <1>3, <1>4, <1>5, QueueConstants DEF InHand, TypeOK
<1>7. TypeOK'
  BY <1>3 DEF Claim, TypeOK, Senders, waitVars
<1>8. HandsSound' /\ FilledEnds'
  <2>1. ~ InHand(f[1])
    BY <1>2, <1>3 DEF Lists
  <2>2. HandsSound'
    BY <1>3, <1>4, <1>5, <2>1, QueueConstants
    DEF NodesSound, HandsSound, Senders, Receivers, InHand, TypeOK
  <2>3. FilledEnds'
    BY <1>4 DEF FilledEnds, TypeOK
  <2> QED BY <2>2, <2>3
<1>9. SleepersAreAsleep'
  BY <1>4, <1>5 DEF Claim, waitVars, SleepersAreAsleep, TypeOK
<1>10. r \in Walk(k - 1) /\ q \in [1 .. entry' -> Nodes] /\ k - 1 \in Nat
  BY <1>3, <1>4 DEF Walk
<1>11. Lists(r, k - 1, q)'
  <2>1. \A i \in 1 .. k - 1 : i + 1 \in 1 .. k /\ r[i] = f[i + 1]
    OBVIOUS
  <2>2. \A i \in 1 .. k - 1 : r[i] \in Nodes /\ r[i] # f[1]
    BY <1>2, <1>3, <2>1 DEF Lists, Walk
  <2>3. \A j \in 1 .. entry : q[j] \in Nodes /\ q[j] # f[1]
    BY <1>2, <1>3 DEF Lists, Walk
  <2>4. ASSUME NEW n \in Nodes, n # f[1], NEW i \in 1 .. k, f[i] = n
        PROVE  \E j \in 1 .. k - 1 : r[j] = n
    <3>1. i # 1 /\ i - 1 \in 1 .. k - 1 /\ r[i - 1] = n
      BY <2>4
    <3> QED BY <3>1
  <2>5. IsChain(msg_queue_free, r, k - 1)'
    BY <1>2, <1>3, <1>4, <2>1 DEF Lists, IsChain
  <2> HIDE DEF r
  <2> QED BY <1>2, <1>3, <1>4, <1>6, <2>1, <2>2, <2>3, <2>4, <2>5
          DEF Lists, IsChain
<1> HIDE DEF r
<1>12. entry' \in Nat
  BY <1>7 DEF TypeOK
<1> QED BY <1>7, <1>8, <1>10, <1>11, <1>12, <1>9, SoundNext

\* Writing to a node in hand leaves both lists alone.
LEMMA FillInv ==
  ASSUME QueueInv, NEW t \in Threads, Fill(t)
  PROVE  QueueInv'
<1> USE DEF QueueInv
<1>1. PICK k \in Nat : \E f \in Walk(k), q \in Walk(entry) : Lists(f, k, q)
  BY ListsOf
<1>2. PICK f \in Walk(k), q \in Walk(entry) : Lists(f, k, q)
  BY <1>1
<1>3. msg[t] \in Nodes /\ InHand(msg[t]) /\ pc[t] \in {"send", "urgent"}
  BY DEF Fill, NodesSound, HandsSound, Senders, InHand, TypeOK
<1>4. /\ UNCHANGED <<msg_queue_head, msg_queue_tail, msg_queue_free, entry, msg>>
      /\ pc' = [pc EXCEPT ![t] = IF pc[t] = "send" THEN "send_link"
                                 ELSE "urgent_link"]
      /\ next' = IF pc[t] = "send" THEN [next EXCEPT ![msg[t]] = Null] ELSE next
  BY DEF Fill
<1>5. TypeOK'
  BY <1>3, <1>4 DEF Fill, TypeOK, Senders, waitVars
<1>6. HandsSound'
  BY <1>3, <1>4 DEF NodesSound, HandsSound, Senders, Receivers, TypeOK
<1>7. FilledEnds'
  BY <1>3, <1>4 DEF FilledEnds, TypeOK
<1>8. Lists(f, k, q)'
  <2>1. \A i \in 1 .. k : f[i] \in Nodes /\ f[i] # msg[t] /\ next'[f[i]] = next[f[i]]
    BY <1>2, <1>3, <1>4 DEF Lists, TypeOK, Walk
  <2>2. \A j \in 1 .. entry : q[j] \in Nodes /\ q[j] # msg[t] /\ next'[q[j]] = next[q[j]]
    BY <1>2, <1>3, <1>4 DEF Lists, TypeOK, Walk
  <2> QED BY <1>2, <1>4, <2>1, <2>2 DEF Lists, IsChain, InHand
<1>9. SleepersAreAsleep'
  BY <1>3, <1>4 DEF Fill, waitVars, SleepersAreAsleep, TypeOK
<1> QED BY <1>2, <1>4, <1>5, <1>6, <1>7, <1>8, <1>9, SoundNext DEF Walk, TypeOK

\* What Link does beside the links.
LEMMA LinkFrame ==
  ASSUME QueueInv, NEW t \in Threads, Link(t)
  PROVE  /\ msg[t] \in Nodes /\ InHand(msg[t])
         /\ \A n \in Nodes : InHand(n)' <=> InHand(n) /\ n # msg[t]
         /\ HandsSound'
         /\ pc' \in [Threads -> {"caller", "asleep", "resumed"}
                                \cup Senders \cup Receivers]
         /\ suspend_thread' \in Seq(Threads)
         /\ SleepersAreAsleep'
         /\ \A u \in Threads : pc'[u] = "send_link" => u # t /\ pc[u] = "send_link"
<1> USE DEF QueueInv
<1>1. /\ msg[t] \in Nodes /\ InHand(msg[t]) /\ pc[t] \in Senders
      /\ msg' = [msg EXCEPT ![t] = Null]
  BY DEF Link, NodesSound, HandsSound, Senders, InHand, TypeOK
<1>2. \A n \in Nodes : InHand(n)' <=> InHand(n) /\ n # msg[t]
  BY <1>1, QueueConstants DEF NodesSound, HandsSound, InHand, TypeOK
<1>3. CASE suspend_thread # <<>>
  <2> DEFINE h == Head(suspend_thread)
  <2>1. h \in Threads /\ Tail(suspend_thread) \in Seq(Threads)
    BY <1>3 DEF TypeOK
  <2>2. /\ pc' = [pc EXCEPT ![h] = "resumed", ![t] = "caller"]
        /\ suspend_thread' = Tail(suspend_thread)
    BY <1>3 DEF Link, WakeFirst
  <2>3. pc[h] = "asleep" /\ h = suspend_thread[1]
    BY <1>3 DEF SleepersAreAsleep, TypeOK
  <2>4. SleepersAreAsleep'
    <3>1. Len(suspend_thread) \in Nat /\ Len(suspend_thread) # 0
      BY <1>3 DEF TypeOK
    <3>2. /\ Len(Tail(suspend_thread)) = Len(suspend_thread) - 1
          /\ \A i \in 1 .. Len(suspend_thread) - 1 :
                 Tail(suspend_thread)[i] = suspend_thread[i + 1]
      BY <1>3 DEF TypeOK
    <3>3. \A i \in 1 .. Len(suspend_thread) - 1 :
              /\ i + 1 \in 1 .. Len(suspend_thread) /\ 1 \in 1 .. Len(suspend_thread)
              /\ suspend_thread[i + 1] \in Threads
              /\ suspend_thread[i + 1] # h /\ suspend_thread[i + 1] # t
      BY <1>1, <2>3, <3>1 DEF SleepersAreAsleep, TypeOK, Senders
    <3> HIDE DEF h
    <3> QED BY <2>1, <2>2, <3>1, <3>2, <3>3 DEF SleepersAreAsleep, TypeOK
  <2> HIDE DEF h
  <2> QED BY <1>1, <1>2, <2>1, <2>2, <2>3, <2>4, ZenonT(60)
          DEF NodesSound, HandsSound, Senders, Receivers, TypeOK
<1>4. CASE suspend_thread = <<>>
  <2>1. pc' = [pc EXCEPT ![t] = "caller"] /\ suspend_thread' = suspend_thread
    BY <1>4 DEF Link, WakeFirst
  <2>2. SleepersAreAsleep'
    BY <1>4, <2>1 DEF SleepersAreAsleep
  <2> QED BY <1>1, <1>2, <2>1, <2>2
          DEF NodesSound, HandsSound, Senders, Receivers, TypeOK
<1> QED BY <1>3, <1>4

\* rt_mq_send links the node in hand behind the tail.
LEMMA AppendInv ==
  ASSUME QueueInv, NEW t \in Threads, Link(t), pc[t] = "send_link"
  PROVE  /\ NodesSound'
         /\ next' \in [Nodes -> Nodes \cup {Null}]
         /\ \A u \in Threads : u # t => next'[msg[u]] = next[msg[u]] \/ msg[u] = Null
         /\ \E q \in Walk(entry), r \in [1 .. entry' -> Nodes] :
                /\ IsChain(msg_queue_head, q, entry)
                /\ IsChain(msg_queue_head, r, entry)'
                /\ \A i \in 1 .. entry : r[i] = q[i]
                /\ r[entry + 1] = msg[t]
<1> USE DEF QueueInv
<1>1. PICK k \in Nat : \E f \in Walk(k), q \in Walk(entry) : Lists(f, k, q)
  BY ListsOf
<1>2. PICK f \in Walk(k), q \in Walk(entry) : Lists(f, k, q)
  BY <1>1
<1>3. PICK e \in Nat : e = entry
  BY DEF TypeOK
<1>4. PICK n \in Nodes : n = msg[t]
  BY LinkFrame
<1> USE <1>3, <1>4
<1> DEFINE r == [i \in 1 .. e + 1 |-> IF i = e + 1 THEN n ELSE q[i]]
<1>5. /\ n \in Nodes /\ InHand(n) /\ next[n] = Null
      /\ \A c \in Nodes : InHand(c)' <=> InHand(c) /\ c # n
      /\ HandsSound'
  BY LinkFrame DEF FilledEnds
<1>6. /\ AppendNode(n) /\ entry' = e + 1 /\ msg_queue_free' = msg_queue_free
      /\ entry \in Nat
  BY DEF Link, Senders, TypeOK
<1>7. /\ \A i \in 1 .. k : f[i] \in Nodes /\ f[i] # n
      /\ \A j \in 1 .. e : q[j] \in Nodes /\ q[j] # n
  BY <1>2, <1>5 DEF Lists, Walk
<1>8. CASE e = 0
  <2>1. next' = next /\ msg_queue_tail' = n /\ msg_queue_head' = n
    BY <1>2, <1>6, <1>8 DEF AppendNode, Lists, IsChain
  <2>2. r \in [1 .. e + 1 -> Nodes] /\ \A i \in 1 .. e + 1 : i = 1 /\ r[i] = n
    BY <1>5, <1>6, <1>8
  <2>3. Lists(f, k, r)'
    <3> HIDE DEF r
    <3> QED BY <1>2, <1>5, <1>6, <1>7, <1>8, <2>1, <2>2 DEF Lists, IsChain
  <2>4. entry' \in Nat /\ r \in [1 .. entry' -> Nodes]
    BY <1>6, <2>2
  <2>5. NodesSound'
    <3> HIDE DEF r
    <3> QED BY <1>5, <2>3, <2>4, SoundNext
  <2>6. /\ IsChain(msg_queue_head, q, entry) /\ IsChain(msg_queue_head, r, entry)'
        /\ \A i \in 1 .. e : r[i] = q[i]
        /\ r[e + 1] = n
    <3> HIDE DEF r
    <3> QED BY <1>2, <1>8, <2>2, <2>3 DEF Lists
  <2> HIDE DEF r
  <2> QED BY <1>2, <2>1, <2>4, <2>5, <2>6 DEF TypeOK
<1>9. CASE e # 0
  <2>1. /\ e \in 1 .. e /\ msg_queue_tail = q[e] /\ q[e] \in Nodes
        /\ q[e] # n /\ 1 \in 1 .. e /\ msg_queue_head = q[1]
    BY <1>2, <1>6, <1>7, <1>9 DEF Lists, IsChain
  <2>2. /\ next' = [next EXCEPT ![q[e]] = n]
        /\ msg_queue_tail' = n /\ msg_queue_head' = q[1]
    <3>1. q[e] # Null /\ q[1] # Null
      BY <1>7, <2>1, QueueConstants
    <3> QED BY <2>1, <3>1, <1>6 DEF AppendNode
  <2>3. /\ r \in [1 .. e + 1 -> Nodes] /\ r[e + 1] = n
        /\ \A i \in 1 .. e : i \in 1 .. e + 1 /\ r[i] = q[i]
        /\ \A i \in 1 .. e + 1 : (i \in 1 .. e) \/ (i = e + 1)
        /\ e + 1 \in 1 .. e + 1
    BY <1>5, <1>6, <1>7
  <2> HIDE DEF r
  <2>4. IsChain(msg_queue_head, r, entry)'
    <3>1. ASSUME NEW i \in 1 .. e, i # e
          PROVE  next'[r[i]] = r[i + 1]
      <4>1. i + 1 \in 1 .. e /\ q[i] # q[e]
        BY <1>2, <1>6, <2>1, <3>1 DEF Lists
      <4> QED BY <1>2, <1>7, <2>2, <2>3, <3>1, <4>1 DEF Lists, IsChain, TypeOK
    <3>2. next'[r[e]] = n /\ next'[n] = Null
      BY <1>5, <2>1, <2>2, <2>3 DEF TypeOK
    <3> QED BY <1>6, <2>1, <2>2, <2>3, <3>1, <3>2 DEF IsChain
  <2>5. IsChain(msg_queue_free, f, k)'
    <3>1. \A i \in 1 .. k : f[i] # q[e]
      BY <1>2, <2>1 DEF Lists
    <3> QED BY <1>2, <1>6, <1>7, <2>2, <3>1 DEF Lists, IsChain, TypeOK
  <2>6. Lists(f, k, r)'
    BY <1>2, <1>5, <1>6, <1>7, <2>2, <2>3, <2>4, <2>5 DEF Lists
  <2>7. next' \in [Nodes -> Nodes \cup {Null}]
    BY <1>5, <2>2 DEF TypeOK
  <2>8. \A u \in Threads : msg[u] # q[e]
    BY <1>2, <2>1 DEF Lists, InHand
  <2>9. NodesSound'
    BY <1>2, <1>5, <1>6, <2>3, <2>6, SoundNext
  <2>10. \A u \in Threads : u # t => next'[msg[u]] = next[msg[u]] \/ msg[u] = Null
    BY <2>2, <2>8 DEF TypeOK
  <2>11. r \in [1 .. entry' -> Nodes] /\ IsChain(msg_queue_head, q, entry)
    BY <1>2, <1>6, <2>3 DEF Lists
  <2> QED BY <1>2, <2>3, <2>4, <2>7, <2>9, <2>10, <2>11
<1> QED BY <1>8, <1>9

\* rt_mq_urgent links it before the head.
LEMMA PrependInv ==
  ASSUME QueueInv, NEW t \in Threads, Link(t), pc[t] = "urgent_link"
  PROVE  /\ NodesSound'
         /\ next' \in [Nodes -> Nodes \cup {Null}]
         /\ \A u \in Threads : u # t => next'[msg[u]] = next[msg[u]] \/ msg[u] = Null
         /\ \E q \in Walk(entry), r \in [1 .. entry' -> Nodes] :
                /\ IsChain(msg_queue_head, q, entry)
                /\ IsChain(msg_queue_head, r, entry)'
                /\ \A i \in 1 .. entry : r[i + 1] = q[i]
                /\ r[1] = msg[t]
<1> USE DEF QueueInv
<1>1. PICK k \in Nat : \E f \in Walk(k), q \in Walk(entry) : Lists(f, k, q)
  BY ListsOf
<1>2. PICK f \in Walk(k), q \in Walk(entry) : Lists(f, k, q)
  BY <1>1
<1>3. PICK e \in Nat : e = entry
  BY DEF TypeOK
<1>4. PICK n \in Nodes : n = msg[t]
  BY LinkFrame
<1> USE <1>3, <1>4
<1> DEFINE r == [i \in 1 .. e + 1 |-> IF i = 1 THEN n ELSE q[i - 1]]
<1>5. /\ InHand(n)
      /\ \A c \in Nodes : InHand(c)' <=> InHand(c) /\ c # n
      /\ HandsSound'
  BY LinkFrame
<1>6. /\ next' = [next EXCEPT ![n] = msg_queue_head]
      /\ msg_queue_head' = n
      /\ msg_queue_tail' = IF msg_queue_tail = Null THEN n ELSE msg_queue_tail
      /\ entry' = e + 1 /\ msg_queue_free' = msg_queue_free
  BY DEF Link, PrependNode
<1>7. /\ \A i \in 1 .. k : f[i] \in Nodes /\ f[i] # n
      /\ \A j \in 1 .. e : q[j] \in Nodes /\ q[j] # n
  BY <1>2, <1>5 DEF Lists, Walk
<1>8. /\ r \in [1 .. e + 1 -> Nodes] /\ r[1] = n /\ 1 \in 1 .. e + 1
      /\ \A i \in 1 .. e : i + 1 \in 1 .. e + 1 /\ r[i + 1] = q[i]
      /\ \A i \in 1 .. e + 1 : i # 1 => i - 1 \in 1 .. e /\ r[i] = q[i - 1]
  BY <1>7
<1> HIDE DEF r
<1>9. \A i, j \in 1 .. e + 1 : r[i] = r[j] => i = j
  BY <1>2, <1>7, <1>8 DEF Lists
<1>10. IsChain(msg_queue_head, r, entry)'
  <2>1. next'[r[1]] = IF 1 = e + 1 THEN Null ELSE r[1 + 1]
    <3>1. next'[n] = msg_queue_head
      BY <1>6 DEF TypeOK
    <3>2. CASE e = 0
      BY <1>2, <1>8, <3>1, <3>2 DEF Lists, IsChain
    <3>3. CASE e # 0
      <4>1. 1 \in 1 .. e /\ msg_queue_head = q[1] /\ r[1 + 1] = q[1] /\ 1 # e + 1
        BY <1>2, <1>8, <3>3 DEF Lists, IsChain
      <4> QED BY <1>8, <3>1, <4>1
    <3> QED BY <3>2, <3>3
  <2>2. ASSUME NEW i \in 1 .. e + 1, i # 1
        PROVE  next'[r[i]] = IF i = e + 1 THEN Null ELSE r[i + 1]
    <3>1. PICK j \in 1 .. e : j = i - 1 /\ r[i] = q[j] /\ q[j] # n /\ q[j] \in Nodes
      BY <1>7, <1>8, <2>2
    <3>2. next'[r[i]] = IF j = e THEN Null ELSE q[j + 1]
      BY <1>2, <1>6, <3>1 DEF Lists, IsChain, TypeOK
    <3>3. j # e => j + 1 \in 1 .. e /\ r[i + 1] = q[j + 1]
      BY <1>8, <3>1
    <3> QED BY <3>1, <3>2, <3>3
  <2>3. \A i \in 1 .. e + 1 : next'[r[i]] = IF i = e + 1 THEN Null ELSE r[i + 1]
    BY <2>1, <2>2
  <2>4. entry' = e + 1 /\ e + 1 # 0 /\ msg_queue_head' = r[1]
    BY <1>6, <1>8
  <2> QED BY <2>3, <2>4 DEF IsChain
<1>11. IsChain(msg_queue_free, f, k)'
  BY <1>2, <1>6, <1>7 DEF Lists, IsChain, TypeOK
<1>12. msg_queue_tail' = r[e + 1]
  <2>1. CASE e = 0
    BY <1>2, <1>6, <1>8, <2>1 DEF Lists
  <2>2. CASE e # 0
    <3>1. e \in 1 .. e /\ msg_queue_tail = q[e] /\ r[e + 1] = q[e] /\ q[e] # Null
      BY <1>2, <1>7, <1>8, <2>2, QueueConstants DEF Lists
    <3> QED BY <1>6, <3>1
  <2> QED BY <2>1, <2>2
<1>13. Lists(f, k, r)'
  <2>1. \A i \in 1 .. k : \A j \in 1 .. e + 1 : f[i] # r[j]
    BY <1>2, <1>7, <1>8 DEF Lists
  <2>2. \A j \in 1 .. e + 1 : r[j] \in Nodes /\ ~ InHand(r[j])'
    BY <1>2, <1>5, <1>7, <1>8 DEF Lists
  <2>3. ASSUME NEW c \in Nodes
        PROVE  \/ InHand(c)'
               \/ \E i \in 1 .. k : f[i] = c
               \/ \E j \in 1 .. e + 1 : r[j] = c
    <3>1. ASSUME NEW j \in 1 .. e, q[j] = c
          PROVE  \E i \in 1 .. e + 1 : r[i] = c
      <4>1. j + 1 \in 1 .. e + 1 /\ r[j + 1] = c
        BY <1>8, <3>1
      <4> QED BY <4>1
    <3>2. c = n => \E j \in 1 .. e + 1 : r[j] = c
      BY <1>8
    <3>3. \/ InHand(c)
          \/ \E i \in 1 .. k : f[i] = c
          \/ \E j \in 1 .. e : q[j] = c
      BY <1>2 DEF Lists
    <3> QED BY <1>5, <3>1, <3>2, <3>3
  <2> QED BY <1>2, <1>5, <1>6, <1>7, <1>9, <1>10, <1>11, <1>12, <2>1, <2>2, <2>3
          DEF Lists
<1>14. entry' \in Nat /\ r \in [1 .. entry' -> Nodes]
  BY <1>6, <1>8
<1>15. NodesSound'
  BY <1>2, <1>5, <1>13, <1>14, SoundNext
<1>16. \A u \in Threads : u # t => msg[u] # n
  BY QueueConstants DEF NodesSound, HandsSound
<1>17. IsChain(msg_queue_head, q, entry)
  BY <1>2 DEF Lists
<1>18. /\ next' \in [Nodes -> Nodes \cup {Null}]
       /\ \A u \in Threads : u # t => next'[msg[u]] = next[msg[u]] \/ msg[u] = Null
  BY <1>6, <1>16 DEF TypeOK
<1> QED BY <1>2, <1>8, <1>10, <1>14, <1>15, <1>17, <1>18

\* The second critical section of a send.
LEMMA LinkInv ==
  ASSUME QueueInv, NEW t \in Threads, Link(t)
  PROVE  QueueInv'
<1> USE DEF QueueInv
<1>1. /\ NodesSound'
      /\ next' \in [Nodes -> Nodes \cup {Null}]
      /\ \A u \in Threads : u # t => next'[msg[u]] = next[msg[u]] \/ msg[u] = Null
  BY AppendInv, PrependInv DEF Link
<1>2. /\ msg[t] \in Nodes
      /\ pc' \in [Threads -> {"caller", "asleep", "resumed"}
                             \cup Senders \cup Receivers]
      /\ suspend_thread' \in Seq(Threads)
      /\ SleepersAreAsleep'
      /\ \A u \in Threads : pc'[u] = "send_link" => u # t /\ pc[u] = "send_link"
  BY LinkFrame
<1>3. msg' = [msg EXCEPT ![t] = Null]
  BY DEF Link
<1>4. TypeOK'
  <2>1. msg_queue_head' \in Nodes \cup {Null} /\ msg_queue_tail' \in Nodes \cup {Null}
    BY <1>2 DEF Link, AppendNode, PrependNode, TypeOK
  <2>2. /\ entry' \in Nat
        /\ buffer' \in [Threads -> Messages \cup {Null}]
        /\ UNCHANGED <<msg_queue_free, data, timeout, error>>
    BY DEF Link, TypeOK
  <2> QED BY <1>1, <1>2, <1>3, <2>1, <2>2 DEF TypeOK
<1>5. FilledEnds'
  <2>1. ASSUME NEW u \in Threads, pc'[u] = "send_link" PROVE next'[msg'[u]] = Null
    <3>1. u # t /\ pc[u] = "send_link" /\ msg'[u] = msg[u]
      BY <1>2, <1>3, <2>1 DEF TypeOK
    <3>2. msg[u] # Null /\ next[msg[u]] = Null
      BY <3>1 DEF FilledEnds, NodesSound, HandsSound, Senders
    <3> QED BY <1>1, <3>1, <3>2
  <2> QED BY <2>1 DEF FilledEnds
<1> QED BY <1>1, <1>2, <1>4, <1>5

\* rt_mq_recv takes the head of the queue in hand.
LEMMA DequeueInv ==
  ASSUME QueueInv, NEW t \in Threads, entry > 0, Dequeue(t),
         pc[t] \in {"caller", "resumed"}, UNCHANGED suspend_thread
  PROVE  /\ NodesSound' /\ FilledEnds' /\ SleepersAreAsleep'
         /\ msg_queue_head' \in Nodes \cup {Null}
         /\ msg_queue_tail' \in Nodes \cup {Null}
         /\ entry' \in Nat
         /\ msg' \in [Threads -> Nodes \cup {Null}]
         /\ \E q \in Walk(entry), r \in [1 .. entry' -> Nodes] :
                /\ IsChain(msg_queue_head, q, entry)
                /\ IsChain(msg_queue_head, r, entry)'
                /\ \A i \in 1 .. entry' : r[i] = q[i + 1]
                /\ q[1] = msg'[t]
<1> USE DEF QueueInv
<1>1. PICK k \in Nat : \E f \in Walk(k), q \in Walk(entry) : Lists(f, k, q)
  BY ListsOf
<1>2. PICK f \in Walk(k), q \in Walk(entry) : Lists(f, k, q)
  BY <1>1
<1>3. PICK e \in Nat : e = entry
  BY DEF TypeOK
<1> USE <1>3
<1> DEFINE r == [i \in 1 .. e - 1 |-> q[i + 1]]
<1>4. /\ e - 1 \in Nat /\ 1 \in 1 .. e /\ e \in 1 .. e
      /\ q[1] \in Nodes /\ msg_queue_head = q[1] /\ msg_queue_tail = q[e]
      /\ ~ InHand(q[1])
  BY <1>2 DEF Lists, IsChain, Walk
<1>5. pc[t] \notin Senders \cup Receivers /\ msg[t] = Null
  BY DEF NodesSound, HandsSound, Senders, Receivers
<1>6. /\ msg' = [msg EXCEPT ![t] = q[1]]
      /\ msg_queue_head' = next[q[1]]
      /\ msg_queue_tail' = IF q[e] = q[1] THEN Null ELSE msg_queue_tail
      /\ entry' = e - 1
      /\ pc' = [pc EXCEPT ![t] = "recv_copy"]
      /\ UNCHANGED <<msg_queue_free, next>>
  BY <1>4 DEF Dequeue
<1>7. \A c \in Nodes : InHand(c)' <=> InHand(c) \/ c = q[1]
  BY <1>4, <1>5, <1>6, QueueConstants DEF InHand, TypeOK
<1>8. /\ r \in [1 .. e - 1 -> Nodes]
      /\ \A i \in 1 .. e - 1 : i + 1 \in 1 .. e /\ i + 1 # 1 /\ r[i] = q[i + 1]
      /\ \A i \in 1 .. e : i # 1 => i - 1 \in 1 .. e - 1 /\ r[i - 1] = q[i]
  BY <1>2, <1>4 DEF Walk
<1> HIDE DEF r
<1>9. HandsSound'
  BY <1>4, <1>5, <1>6, QueueConstants
  DEF NodesSound, HandsSound, Senders, Receivers, InHand, TypeOK
<1>10. ASSUME NEW i \in 1 .. e - 1
       PROVE  r[i] \in Nodes /\ r[i] # q[1]
  <2>1. PICK j \in 1 .. e : j # 1 /\ r[i] = q[j]
    BY <1>8
  <2> QED BY <1>2, <1>4, <1>8, <2>1 DEF Lists
<1>11. IsChain(msg_queue_head, r, entry)'
  <2>1. ASSUME NEW i \in 1 .. e - 1
        PROVE  next[r[i]] = IF i = e - 1 THEN Null ELSE r[i + 1]
    <3>1. PICK j \in 1 .. e : j = i + 1 /\ r[i] = q[j]
      BY <1>8
    <3>2. next[r[i]] = IF j = e THEN Null ELSE q[j + 1]
      BY <1>2, <3>1 DEF Lists, IsChain
    <3>3. i # e - 1 => i + 1 \in 1 .. e - 1 /\ r[i + 1] = q[j + 1]
      BY <1>8, <3>1
    <3> QED BY <3>1, <3>2, <3>3
  <2>2. next[q[1]] = IF e - 1 = 0 THEN Null ELSE r[1]
    <3>1. next[q[1]] = IF 1 = e THEN Null ELSE q[1 + 1]
      BY <1>2, <1>4 DEF Lists, IsChain
    <3>2. e # 1 => 1 \in 1 .. e - 1 /\ r[1] = q[1 + 1]
      BY <1>4, <1>8
    <3> QED BY <1>4, <3>1, <3>2
  <2> QED BY <1>6, <2>1, <2>2 DEF IsChain
<1>12. IsChain(msg_queue_free, f, k)'
  BY <1>2, <1>6 DEF Lists, IsChain
<1>13. msg_queue_tail' = IF e - 1 = 0 THEN Null ELSE r[e - 1]
  <2>1. CASE e = 1
    BY <1>6, <2>1
  <2>2. CASE e # 1
    <3>1. q[e] # q[1] /\ r[e - 1] = q[e]
      BY <1>2, <1>4, <1>8, <2>2 DEF Lists
    <3> QED BY <1>4, <1>6, <2>2, <3>1
  <2> QED BY <2>1, <2>2
<1>14. Lists(f, k, r)'
  <2>1. \A i, j \in 1 .. e - 1 : r[i] = r[j] => i = j
    BY <1>2, <1>4, <1>8 DEF Lists
  <2>2. \A i \in 1 .. k : f[i] \in Nodes /\ f[i] # q[1] /\ ~ InHand(f[i])
    BY <1>2, <1>4 DEF Lists, Walk
  <2>3. \A i \in 1 .. k : \A j \in 1 .. e - 1 : f[i] # r[j]
    BY <1>2, <1>8 DEF Lists
  <2>4. \A j \in 1 .. e - 1 : ~ InHand(r[j])
    BY <1>2, <1>8 DEF Lists
  <2>5. ASSUME NEW c \in Nodes
        PROVE  \/ InHand(c)'
               \/ \E i \in 1 .. k : f[i] = c
               \/ \E j \in 1 .. e - 1 : r[j] = c
    <3>1. ASSUME NEW j \in 1 .. e, q[j] = c
          PROVE  c = q[1] \/ \E i \in 1 .. e - 1 : r[i] = c
      <4>1. j # 1 => j - 1 \in 1 .. e - 1 /\ r[j - 1] = c
        BY <1>8, <3>1
      <4> QED BY <3>1, <4>1
    <3>2. \/ InHand(c)
          \/ \E i \in 1 .. k : f[i] = c
          \/ \E j \in 1 .. e : q[j] = c
      BY <1>2 DEF Lists
    <3> QED BY <1>7, <3>1, <3>2
  <2>6. \A i \in 1 .. k : ~ InHand(f[i])'
    BY <1>7, <2>2
  <2>7. \A j \in 1 .. e - 1 : ~ InHand(r[j])'
    BY <1>7, <1>10, <2>4
  <2> QED BY <1>2, <1>6, <1>11, <1>12, <1>13, <2>1, <2>3, <2>5, <2>6, <2>7
          DEF Lists
<1>15. NodesSound'
  <2>1. entry' \in Nat /\ r \in [1 .. entry' -> Nodes]
    BY <1>4, <1>6, <1>8
  <2> QED BY <1>2, <1>9, <1>14, <2>1, SoundNext
<1>16. FilledEnds'
  BY <1>5, <1>6 DEF FilledEnds, TypeOK
<1>17. SleepersAreAsleep'
  BY <1>6 DEF SleepersAreAsleep, TypeOK
<1>18. /\ msg_queue_head' \in Nodes \cup {Null}
       /\ msg_queue_tail' \in Nodes \cup {Null}
       /\ msg' \in [Threads -> Nodes \cup {Null}]
  BY <1>4, <1>6 DEF TypeOK
<1>19. /\ entry' = e - 1 /\ r \in [1 .. entry' -> Nodes]
       /\ \A i \in 1 .. entry' : r[i] = q[i + 1]
       /\ IsChain(msg_queue_head, q, entry) /\ q[1] = msg'[t]
  BY <1>2, <1>6, <1>8 DEF Lists, TypeOK
<1> QED BY <1>2, <1>4, <1>11, <1>15, <1>16, <1>17, <1>18, <1>19

\* One turn of the loop of rt_mq_recv.
LEMMA RecvPassInv ==
  ASSUME QueueInv, NEW t \in Threads, NEW w \in {NoWait, Timed, Forever},
         pc[t] \in {"caller", "resumed"}, RecvPass(t, w)
  PROVE  QueueInv'
<1> USE DEF QueueInv
<1>1. CASE entry > 0 /\ Dequeue(t) /\ UNCHANGED <<suspend_thread, error>>
  <2>1. /\ NodesSound' /\ FilledEnds' /\ SleepersAreAsleep'
        /\ msg_queue_head' \in Nodes \cup {Null}
        /\ msg_queue_tail' \in Nodes \cup {Null}
        /\ entry' \in Nat
        /\ msg' \in [Threads -> Nodes \cup {Null}]
    BY <1>1, DequeueInv
  <2>2. TypeOK'
    BY <1>1, <2>1 DEF RecvPass, Dequeue, TypeOK, Receivers
  <2> QED BY <2>1, <2>2
<1>2. CASE entry = 0 /\ w # NoWait /\ Sleep(t) /\ UNCHANGED <<listVars, msg>>
  <2>1. /\ pc' = [pc EXCEPT ![t] = "asleep"]
        /\ suspend_thread' = Append(suspend_thread, t)
        /\ error' = [error EXCEPT ![t] = "EOK"]
        /\ timeout' = [timeout EXCEPT ![t] = w]
    BY <1>2 DEF RecvPass, Sleep
  <2>2. TypeOK'
    BY <1>2, <2>1 DEF RecvPass, TypeOK, listVars
  <2>3. NodesSound' /\ FilledEnds'
    BY <1>2, <2>1, ListsUntouched DEF TypeOK
  <2>4. SleepersAreAsleep'
    <3>1. PICK n \in Nat : n = Len(suspend_thread)
      BY DEF TypeOK
    <3>2. /\ Len(suspend_thread') = n + 1 /\ suspend_thread'[n + 1] = t
          /\ \A i \in 1 .. n : suspend_thread'[i] = suspend_thread[i]
      BY <2>1, <3>1 DEF TypeOK
    <3>3. \A i \in 1 .. n : suspend_thread[i] \in Threads /\ suspend_thread[i] # t
      BY <3>1 DEF SleepersAreAsleep, TypeOK
    <3>4. \A i \in 1 .. n + 1 : i \in 1 .. n \/ i = n + 1
      OBVIOUS
    <3>5. \A i \in 1 .. n + 1 : pc'[suspend_thread'[i]] = "asleep"
      BY <2>1, <3>1, <3>2, <3>3, <3>4 DEF SleepersAreAsleep, TypeOK
    <3>6. \A i, j \in 1 .. n + 1 :
              suspend_thread'[i] = suspend_thread'[j] => i = j
      BY <3>1, <3>2, <3>3, <3>4 DEF SleepersAreAsleep
    <3> QED BY <3>2, <3>5, <3>6 DEF SleepersAreAsleep
  <2> QED BY <2>2, <2>3, <2>4
<1>3. CASE /\ entry = 0 /\ error' = [error EXCEPT ![t] = "ETIMEOUT"]
           /\ pc' = [pc EXCEPT ![t] = "caller"]
           /\ UNCHANGED <<listVars, msg, suspend_thread>>
  <2>1. TypeOK'
    BY <1>3 DEF RecvPass, TypeOK, listVars
  <2>2. NodesSound' /\ FilledEnds'
    BY <1>3, ListsUntouched DEF TypeOK
  <2>3. SleepersAreAsleep'
    BY <1>3 DEF SleepersAreAsleep, TypeOK
  <2> QED BY <2>1, <2>2, <2>3
<1> QED BY <1>1, <1>2, <1>3 DEF RecvPass

LEMMA RecvResumedInv ==
  ASSUME QueueInv, NEW t \in Threads, RecvResumed(t)
  PROVE  QueueInv'
<1> USE DEF QueueInv
<1>1. pc[t] = "resumed"
  BY DEF RecvResumed
<1>2. CASE /\ pc' = [pc EXCEPT ![t] = "caller"]
           /\ timeout' = [timeout EXCEPT ![t] = NoWait]
           /\ UNCHANGED <<listVars, data, suspend_thread, error, msg, buffer>>
  <2>1. TypeOK'
    BY <1>2 DEF TypeOK, listVars
  <2>2. NodesSound' /\ FilledEnds'
    BY <1>1, <1>2, ListsUntouched DEF TypeOK
  <2>3. SleepersAreAsleep'
    BY <1>1, <1>2 DEF SleepersAreAsleep, TypeOK
  <2> QED BY <2>1, <2>2, <2>3
<1>3. ASSUME NEW w \in {Timed, NoWait} \cup {timeout[t]}, RecvPass(t, w)
      PROVE  QueueInv'
  <2>1. w \in {NoWait, Timed, Forever}
    BY DEF TypeOK
  <2> QED BY <1>1, <1>3, <2>1, RecvPassInv
<1> QED BY <1>2, <1>3 DEF RecvResumed

\* rt_mq_recv copies the message and puts the node in front of the free list.
LEMMA CopyAndFreeInv ==
  ASSUME QueueInv, NEW t \in Threads, CopyAndFree(t)
  PROVE  QueueInv'
<1> USE DEF QueueInv
<1>1. PICK k \in Nat : \E f \in Walk(k), q \in Walk(entry) : Lists(f, k, q)
  BY ListsOf
<1>2. PICK f \in Walk(k), q \in Walk(entry) : Lists(f, k, q)
  BY <1>1
<1>3. PICK n \in Nodes : n = msg[t] /\ InHand(n)
  BY DEF CopyAndFree, NodesSound, HandsSound, Receivers, InHand, TypeOK
<1>4. SleepersAreAsleep'
  BY DEF CopyAndFree, waitVars, SleepersAreAsleep, TypeOK
<1>5. CASE pc[t] = "recv_copy"
  <2>1. /\ pc' = [pc EXCEPT ![t] = "recv_free"]
        /\ buffer' = [buffer EXCEPT ![t] = data[msg[t]]]
        /\ UNCHANGED <<listVars, data, waitVars, msg>>
    BY <1>5 DEF CopyAndFree, listVars
  <2>2. TypeOK'
    BY <1>3, <2>1 DEF TypeOK, listVars, waitVars, Receivers
  <2>3. HandsSound' /\ FilledEnds'
    BY <1>5, <2>1 DEF NodesSound, HandsSound, FilledEnds, Receivers, TypeOK, listVars
  <2>4. Lists(f, k, q)'
    BY <1>2, <2>1 DEF Lists, IsChain, InHand, listVars
  <2> QED BY <1>2, <1>4, <2>1, <2>2, <2>3, <2>4, SoundNext DEF Walk, TypeOK, listVars
<1>6. CASE pc[t] = "recv_free"
  <2> DEFINE r == [i \in 1 .. k + 1 |-> IF i = 1 THEN n ELSE f[i - 1]]
  <2>1. /\ pc' = [pc EXCEPT ![t] = "caller"]
        /\ next' = [next EXCEPT ![n] = msg_queue_free]
        /\ msg_queue_free' = n
        /\ msg' = [msg EXCEPT ![t] = Null]
        /\ buffer' = [buffer EXCEPT ![t] = Null]
        /\ UNCHANGED <<msg_queue_head, msg_queue_tail, entry, data, waitVars>>
    BY <1>3, <1>6 DEF CopyAndFree
  <2>2. TypeOK'
    BY <1>3, <2>1 DEF TypeOK, waitVars
  <2>3. \A c \in Nodes : InHand(c)' <=> InHand(c) /\ c # n
    BY <1>3, <2>1, QueueConstants DEF NodesSound, HandsSound, InHand, TypeOK
  <2>4. HandsSound'
    BY <1>3, <2>1 DEF NodesSound, HandsSound, Senders, Receivers, TypeOK
  <2>5. FilledEnds'
    <3>1. \A u \in Threads : u # t => msg[u] # n
      BY <1>3, QueueConstants DEF NodesSound, HandsSound
    <3>2. \A u \in Threads : pc[u] = "send_link" => msg[u] \in Nodes
      BY DEF NodesSound, HandsSound, Senders, TypeOK
    <3> QED BY <2>1, <3>1, <3>2 DEF FilledEnds, TypeOK
  <2>6. /\ \A i \in 1 .. k : f[i] \in Nodes /\ f[i] # n
        /\ \A j \in 1 .. entry : q[j] \in Nodes /\ q[j] # n
    BY <1>2, <1>3 DEF Lists, Walk
  <2>7. /\ r \in Walk(k + 1) /\ r[1] = n /\ 1 \in 1 .. k + 1
        /\ \A i \in 1 .. k : i + 1 \in 1 .. k + 1 /\ r[i + 1] = f[i]
        /\ \A i \in 1 .. k + 1 : i # 1 => i - 1 \in 1 .. k /\ r[i] = f[i - 1]
    BY <2>6 DEF Walk
  <2> HIDE DEF r
  <2>8. IsChain(msg_queue_free, r, k + 1)'
    <3>1. next'[r[1]] = IF 1 = k + 1 THEN Null ELSE r[1 + 1]
      <4>1. next'[n] = msg_queue_free
        BY <2>1 DEF TypeOK
      <4>2. CASE k = 0
        BY <1>2, <2>7, <4>1, <4>2 DEF Lists, IsChain
      <4>3. CASE k # 0
        <5>1. 1 \in 1 .. k /\ msg_queue_free = f[1] /\ r[1 + 1] = f[1] /\ 1 # k + 1
          BY <1>2, <2>7, <4>3 DEF Lists, IsChain
        <5> QED BY <2>7, <4>1, <5>1
      <4> QED BY <4>2, <4>3
    <3>2. ASSUME NEW i \in 1 .. k + 1, i # 1
          PROVE  next'[r[i]] = IF i = k + 1 THEN Null ELSE r[i + 1]
      <4>1. PICK j \in 1 .. k : j = i - 1 /\ r[i] = f[j] /\ f[j] # n /\ f[j] \in Nodes
        BY <2>6, <2>7, <3>2
      <4>2. next'[r[i]] = IF j = k THEN Null ELSE f[j + 1]
        BY <1>2, <2>1, <4>1 DEF Lists, IsChain, TypeOK
      <4>3. j # k => j + 1 \in 1 .. k /\ r[i + 1] = f[j + 1]
        BY <2>7, <4>1
      <4> QED BY <4>1, <4>2, <4>3
    <3>3. \A i \in 1 .. k + 1 : next'[r[i]] = IF i = k + 1 THEN Null ELSE r[i + 1]
      BY <3>1, <3>2
    <3>4. k + 1 # 0 /\ msg_queue_free' = r[1]
      BY <2>1, <2>7
    <3> QED BY <3>3, <3>4 DEF IsChain
  <2>9. IsChain(msg_queue_head, q, entry)'
    BY <1>2, <2>1, <2>6 DEF Lists, IsChain, TypeOK
  <2>10. Lists(r, k + 1, q)'
    <3>1. \A i, j \in 1 .. k + 1 : r[i] = r[j] => i = j
      BY <1>2, <2>6, <2>7 DEF Lists
    <3>2. \A i \in 1 .. k + 1 : \A j \in 1 .. entry : r[i] # q[j]
      BY <1>2, <2>6, <2>7 DEF Lists
    <3>3. \A i \in 1 .. k + 1 : r[i] \in Nodes /\ ~ InHand(r[i])'
      BY <1>2, <2>3, <2>6, <2>7 DEF Lists
    <3>4. \A j \in 1 .. entry : ~ InHand(q[j])'
      BY <1>2, <2>3, <2>6 DEF Lists
    <3>5. ASSUME NEW c \in Nodes
          PROVE  \/ InHand(c)'
                 \/ \E i \in 1 .. k + 1 : r[i] = c
                 \/ \E j \in 1 .. entry : q[j] = c
      <4>1. ASSUME NEW j \in 1 .. k, f[j] = c
            PROVE  \E i \in 1 .. k + 1 : r[i] = c
        <5>1. j + 1 \in 1 .. k + 1 /\ r[j + 1] = c
          BY <2>7, <4>1
        <5> QED BY <5>1
      <4>2. c = n => \E i \in 1 .. k + 1 : r[i] = c
        BY <2>7
      <4>3. \/ InHand(c)
            \/ \E i \in 1 .. k : f[i] = c
            \/ \E j \in 1 .. entry : q[j] = c
        BY <1>2 DEF Lists
      <4> QED BY <2>3, <4>1, <4>2, <4>3
    <3> QED BY <1>2, <2>1, <2>8, <2>9, <3>1, <3>2, <3>3, <3>4, <3>5 DEF Lists
  <2>11. k + 1 \in Nat /\ entry' \in Nat /\ q \in [1 .. entry' -> Nodes]
    BY <1>2, <2>1 DEF TypeOK, Walk
  <2>12. NodesSound'
    BY <2>4, <2>7, <2>10, <2>11, SoundNext
  <2> QED BY <1>4, <2>2, <2>5, <2>12
<1> QED BY <1>5, <1>6 DEF CopyAndFree

\* A timeout takes a sleeper off the waiting list.
LEMMA TimeoutInv ==
  ASSUME QueueInv, NEW t \in Threads, Timeout(t)
  PROVE  QueueInv'
<1> USE DEF QueueInv
<1>1. PICK n \in Nat : n = Len(suspend_thread)
  BY DEF TypeOK
<1>2. PICK k \in 1 .. n : /\ suspend_thread[k] = t
                         /\ suspend_thread' = Unlinked(suspend_thread, k)
  BY <1>1 DEF Timeout
<1>3. /\ pc[t] = "asleep"
      /\ pc' = [pc EXCEPT ![t] = "resumed"]
      /\ error' = [error EXCEPT ![t] = "ETIMEOUT"]
      /\ UNCHANGED <<listVars, data, timeout, msg, buffer>>
  BY DEF Timeout
<1> DEFINE s == suspend_thread'
<1>4. /\ s \in [1 .. n - 1 -> Threads] /\ n - 1 \in Nat
      /\ \A i \in 1 .. n - 1 : s[i] = IF i < k THEN suspend_thread[i]
                                     ELSE suspend_thread[i + 1]
  BY <1>1, <1>2 DEF Unlinked, TypeOK
<1> HIDE DEF s
<1>5. s \in Seq(Threads) /\ Len(s) = n - 1
  BY <1>4
<1>6. TypeOK'
  BY <1>3, <1>5 DEF TypeOK, listVars, s
<1>7. NodesSound' /\ FilledEnds'
  BY <1>3, ListsUntouched DEF TypeOK
<1>8. SleepersAreAsleep'
  <2>1. ASSUME NEW i \in 1 .. n - 1
        PROVE  \E j \in 1 .. n : /\ j # k /\ s[i] = suspend_thread[j]
                                 /\ j = IF i < k THEN i ELSE i + 1
    <3>1. CASE i < k
      BY <1>4, <3>1
    <3>2. CASE ~ i < k
      <4>1. i + 1 \in 1 .. n /\ i + 1 # k
        BY <3>2
      <4> QED BY <1>4, <3>2, <4>1
    <3> QED BY <3>1, <3>2
  <2>2. \A i \in 1 .. n - 1 : pc'[s[i]] = "asleep"
    BY <1>1, <1>2, <1>3, <1>4, <2>1 DEF SleepersAreAsleep, TypeOK
  <2>3. \A i, j \in 1 .. n - 1 : s[i] = s[j] => i = j
    <3>1. SUFFICES ASSUME NEW i \in 1 .. n - 1, NEW j \in 1 .. n - 1, s[i] = s[j]
                   PROVE  i = j
      OBVIOUS
    <3>2. PICK a \in 1 .. n : s[i] = suspend_thread[a] /\ a = IF i < k THEN i ELSE i + 1
      BY <2>1
    <3>3. PICK b \in 1 .. n : s[j] = suspend_thread[b] /\ b = IF j < k THEN j ELSE j + 1
      BY <2>1
    <3>4. a = b
      BY <1>1, <3>1, <3>2, <3>3 DEF SleepersAreAsleep
    <3> QED BY <3>2, <3>3, <3>4
  <2> QED BY <1>5, <2>2, <2>3 DEF SleepersAreAsleep, s
<1> QED BY <1>6, <1>7, <1>8

\* The reset turns the queue round and puts it in front of the free list.
LEMMA ResetInv ==
  ASSUME QueueInv, Reset
  PROVE  QueueInv'
<1> USE DEF QueueInv
<1>1. PICK k \in Nat : \E f \in Walk(k), q \in Walk(entry) : Lists(f, k, q)
  BY ListsOf
<1>2. PICK f \in Walk(k), q \in Walk(entry) : Lists(f, k, q)
  BY <1>1
<1>3. PICK e \in Nat : e = entry
  BY DEF TypeOK
<1> USE <1>3
<1> DEFINE Place(n) == CHOOSE i \in 2 .. e : q[i] = n
<1>4. /\ next' = [n \in Nodes |->
             IF e > 0 /\ n = q[1] THEN msg_queue_free
             ELSE IF \E i \in 2 .. e : q[i] = n THEN q[Place(n) - 1] ELSE next[n]]
      /\ msg_queue_free' = IF e = 0 THEN msg_queue_free ELSE q[e]
      /\ msg_queue_tail' = IF \E i \in 1 .. e : q[i] = msg_queue_tail
                           THEN Null ELSE msg_queue_tail
  <2>1. PICK j \in 0 .. Total : \E s \in [1 .. j -> Nodes] :
           /\ IsChain(msg_queue_head, s, j)
           /\ next' = [n \in Nodes |->
                  IF j > 0 /\ n = s[1] THEN msg_queue_free
                  ELSE IF \E i \in 2 .. j : s[i] = n
                       THEN s[(CHOOSE i \in 2 .. j : s[i] = n) - 1]
                       ELSE next[n]]
           /\ msg_queue_free' = IF j = 0 THEN msg_queue_free ELSE s[j]
           /\ msg_queue_tail' = IF \E i \in 1 .. j : s[i] = msg_queue_tail
                                THEN Null ELSE msg_queue_tail
    BY DEF Reset
  <2>2. PICK s \in [1 .. j -> Nodes] :
           /\ IsChain(msg_queue_head, s, j)
           /\ next' = [n \in Nodes |->
                  IF j > 0 /\ n = s[1] THEN msg_queue_free
                  ELSE IF \E i \in 2 .. j : s[i] = n
                       THEN s[(CHOOSE i \in 2 .. j : s[i] = n) - 1]
                       ELSE next[n]]
           /\ msg_queue_free' = IF j = 0 THEN msg_queue_free ELSE s[j]
           /\ msg_queue_tail' = IF \E i \in 1 .. j : s[i] = msg_queue_tail
                                THEN Null ELSE msg_queue_tail
    BY <2>1
  <2>3. s = q /\ j = e
    <3>1. /\ j \in Nat /\ s \in Walk(j) /\ q \in Walk(e)
          /\ IsChain(msg_queue_head, q, e)
          /\ next \in [Nodes -> Nodes \cup {Null}]
      BY <1>2, TotalPositive DEF Lists, Walk, TypeOK
    <3> QED BY <2>2, <3>1, ChainUnique
  <2> QED BY <2>2, <2>3
<1> HIDE DEF Place
<1>5. /\ suspend_thread' = <<>> /\ msg_queue_head' = Null /\ entry' = 0
      /\ error' = [t \in Threads |-> IF pc[t] = "asleep" THEN "ERROR" ELSE error[t]]
      /\ pc' = [t \in Threads |-> IF pc[t] = "asleep" THEN "resumed" ELSE pc[t]]
      /\ UNCHANGED <<data, timeout, msg, buffer>>
  BY DEF Reset
<1>6. /\ \A i \in 1 .. k : f[i] \in Nodes
      /\ \A j \in 1 .. e : q[j] \in Nodes
      /\ \A i \in 1 .. k : \A j \in 1 .. e : f[i] # q[j]
      /\ \A i, j \in 1 .. e : q[i] = q[j] => i = j
  BY <1>2 DEF Lists, Walk
<1>7. /\ \A n \in Nodes : (\A j \in 1 .. e : q[j] # n) => next'[n] = next[n]
      /\ e # 0 => next'[q[1]] = msg_queue_free
      /\ \A j \in 2 .. e : next'[q[j]] = q[j - 1]
  <2>1. ASSUME NEW n \in Nodes, \A j \in 1 .. e : q[j] # n
        PROVE  next'[n] = next[n]
    <3>1. /\ ~ (e > 0 /\ n = q[1])
          /\ ~ \E i \in 2 .. e : q[i] = n
      BY <2>1
    <3> QED BY <1>4, <3>1
  <2>2. ASSUME e # 0 PROVE next'[q[1]] = msg_queue_free
    <3>1. 1 \in 1 .. e /\ q[1] \in Nodes
      BY <1>6, <2>2
    <3> QED BY <1>4, <2>2, <3>1
  <2>3. ASSUME NEW j \in 2 .. e PROVE next'[q[j]] = q[j - 1]
    <3>1. j \in 1 .. e /\ 1 \in 1 .. e /\ q[j] # q[1] /\ q[j] \in Nodes
      BY <1>6
    <3>2. Place(q[j]) = j
      BY <1>6 DEF Place
    <3> QED BY <1>4, <3>1, <3>2
  <2> QED BY <2>1, <2>2, <2>3
<1> DEFINE r == [i \in 1 .. e + k |-> IF i <= e THEN q[e + 1 - i] ELSE f[i - e]]
           z == [i \in 1 .. 0 |-> Null]
<1>8. /\ r \in Walk(e + k) /\ e + k \in Nat
      /\ \A j \in 1 .. e : e + 1 - j \in 1 .. e + k /\ r[e + 1 - j] = q[j]
      /\ \A i \in 1 .. k : e + i \in 1 .. e + k /\ r[e + i] = f[i]
      /\ \A i \in 1 .. e + k : \/ i <= e /\ e + 1 - i \in 1 .. e /\ r[i] = q[e + 1 - i]
                               \/ i > e /\ i - e \in 1 .. k /\ r[i] = f[i - e]
  <2>1. ASSUME NEW i \in 1 .. e + k
        PROVE  \/ i <= e /\ e + 1 - i \in 1 .. e /\ r[i] = q[e + 1 - i]
               \/ i > e /\ i - e \in 1 .. k /\ r[i] = f[i - e]
    OBVIOUS
  <2>2. ASSUME NEW j \in 1 .. e
        PROVE  e + 1 - j \in 1 .. e + k /\ r[e + 1 - j] = q[j]
    <3>1. e + 1 - j \in 1 .. e + k /\ e + 1 - j <= e /\ e + 1 - (e + 1 - j) = j
      OBVIOUS
    <3> QED BY <3>1
  <2>3. ASSUME NEW i \in 1 .. k
        PROVE  e + i \in 1 .. e + k /\ r[e + i] = f[i]
    <3>1. e + i \in 1 .. e + k /\ ~ e + i <= e /\ e + i - e = i
      OBVIOUS
    <3> QED BY <3>1
  <2>4. r \in Walk(e + k)
    BY <1>6, <2>1 DEF Walk
  <2> QED BY <2>1, <2>2, <2>3, <2>4, SMTT(30)
<1>9. z \in [1 .. 0 -> Nodes]
  OBVIOUS
<1> HIDE DEF r, z
<1>10. next' \in [Nodes -> Nodes \cup {Null}]
  <2>1. ASSUME NEW n \in Nodes PROVE next'[n] \in Nodes \cup {Null}
    <3>1. CASE \A j \in 1 .. e : q[j] # n
      BY <1>7, <3>1 DEF TypeOK
    <3>2. ASSUME NEW j \in 1 .. e, q[j] = n PROVE next'[n] \in Nodes \cup {Null}
      <4>1. CASE j = 1
        BY <1>7, <3>2, <4>1 DEF TypeOK
      <4>2. CASE j # 1
        <5>1. j \in 2 .. e /\ j - 1 \in 1 .. e
          BY <4>2
        <5> QED BY <1>6, <1>7, <3>2, <5>1
      <4> QED BY <4>1, <4>2
    <3> QED BY <3>1, <3>2
  <2>2. next' = [n \in Nodes |-> next'[n]]
    BY <1>4
  <2> QED BY <2>1, <2>2
<1>11. msg_queue_tail' = Null
  <2>1. CASE e = 0
    BY <1>2, <1>4, <2>1 DEF Lists
  <2>2. CASE e # 0
    <3>1. e \in 1 .. e /\ msg_queue_tail = q[e]
      BY <1>2, <2>2 DEF Lists
    <3> QED BY <1>4, <3>1
  <2> QED BY <2>1, <2>2
<1>12. IsChain(msg_queue_free, r, e + k)'
  <2>1. msg_queue_free' = IF e + k = 0 THEN Null ELSE r[1]
    <3>1. CASE e = 0
      <4>1. k # 0 => 1 \in 1 .. k /\ r[1] = f[1]
        BY <1>8, <3>1
      <4> QED BY <1>2, <1>4, <3>1, <4>1 DEF Lists, IsChain
    <3>2. CASE e # 0
      <4>1. e \in 1 .. e /\ e + 1 - e = 1 /\ r[e + 1 - e] = q[e]
        BY <1>8, <3>2
      <4> QED BY <1>4, <3>2, <4>1
    <3> QED BY <3>1, <3>2
  <2>2. ASSUME NEW i \in 1 .. e + k
        PROVE  next'[r[i]] = IF i = e + k THEN Null ELSE r[i + 1]
    <3>1. CASE i < e
      <4>1. PICK j \in 2 .. e : j = e + 1 - i
        BY <3>1
      <4>2. j - 1 \in 1 .. e /\ e + 1 - (j - 1) = i + 1 /\ i # e + k
        BY <3>1, <4>1
      <4>3. r[i] = q[j] /\ r[i + 1] = q[j - 1]
        BY <1>8, <3>1, <4>1, <4>2
      <4> QED BY <1>7, <4>2, <4>3
    <3>2. CASE i = e
      <4>1. 1 \in 1 .. e /\ e + 1 - 1 = i /\ r[i] = q[1] /\ next'[q[1]] = msg_queue_free
        BY <1>7, <1>8, <3>2
      <4>2. k # 0 => 1 \in 1 .. k /\ r[i + 1] = f[1] /\ i # e + k
        BY <1>8, <3>2
      <4>3. msg_queue_free = IF k = 0 THEN Null ELSE f[1]
        BY <1>2 DEF Lists, IsChain
      <4> QED BY <3>2, <4>1, <4>2, <4>3
    <3>3. CASE i > e
      <4>1. PICK j \in 1 .. k : j = i - e /\ r[i] = f[j]
        BY <1>8, <3>3
      <4>2. next'[f[j]] = next[f[j]]
        BY <1>6, <1>7
      <4>3. next[f[j]] = IF j = k THEN Null ELSE f[j + 1]
        BY <1>2 DEF Lists, IsChain
      <4>4. j # k => j + 1 \in 1 .. k /\ r[i + 1] = f[j + 1]
        <5>1. j # k => j + 1 \in 1 .. k /\ e + (j + 1) = i + 1
          BY <4>1
        <5> QED BY <1>8, <5>1
      <4> QED BY <4>1, <4>2, <4>3, <4>4
    <3> QED BY <3>1, <3>2, <3>3
  <2> QED BY <2>1, <2>2 DEF IsChain
<1>13. Lists(r, e + k, z)'
  <2>1. \A i, j \in 1 .. e + k : r[i] = r[j] => i = j
    <3>1. SUFFICES ASSUME NEW i \in 1 .. e + k, NEW j \in 1 .. e + k, r[i] = r[j]
                   PROVE  i = j
      OBVIOUS
    <3>2. CASE i <= e /\ j <= e
      <4>1. e + 1 - i \in 1 .. e /\ e + 1 - j \in 1 .. e /\ q[e + 1 - i] = q[e + 1 - j]
        BY <1>8, <3>1, <3>2
      <4>2. e + 1 - i = e + 1 - j
        BY <1>6, <4>1
      <4> QED BY <4>2
    <3>3. CASE i > e /\ j > e
      <4>1. i - e \in 1 .. k /\ j - e \in 1 .. k /\ f[i - e] = f[j - e]
        BY <1>8, <3>1, <3>3
      <4>2. i - e = j - e
        BY <1>2, <4>1 DEF Lists
      <4> QED BY <4>2
    <3>4. CASE i <= e /\ j > e
      BY <1>6, <1>8, <3>1, <3>4
    <3>5. CASE i > e /\ j <= e
      BY <1>6, <1>8, <3>1, <3>5
    <3> QED BY <3>2, <3>3, <3>4, <3>5
  <2>2. \A i \in 1 .. e + k : ~ InHand(r[i])
    BY <1>2, <1>8 DEF Lists
  <2>3. ASSUME NEW c \in Nodes
        PROVE  InHand(c) \/ \E i \in 1 .. e + k : r[i] = c
    <3>1. ASSUME NEW j \in 1 .. e, q[j] = c PROVE \E i \in 1 .. e + k : r[i] = c
      BY <1>8, <3>1
    <3>2. ASSUME NEW j \in 1 .. k, f[j] = c PROVE \E i \in 1 .. e + k : r[i] = c
      BY <1>8, <3>2
    <3> QED BY <1>2, <3>1, <3>2 DEF Lists
  <2>4. \A n \in Nodes : InHand(n)' <=> InHand(n)
    BY <1>5 DEF InHand
  <2>5. \A i \in 1 .. e + k : r[i] \in Nodes
    BY <1>8 DEF Walk
  <2>6. IsChain(msg_queue_head, z, entry)'
    BY <1>5 DEF IsChain
  <2> QED BY <1>5, <1>11, <1>12, <2>1, <2>2, <2>3, <2>4, <2>5, <2>6 DEF Lists
<1>14. TypeOK'
  <2>1. msg_queue_free' \in Nodes \cup {Null}
    <3>1. e # 0 => e \in 1 .. e
      OBVIOUS
    <3> QED BY <1>4, <1>6, <3>1 DEF TypeOK
  <2>2. /\ pc' \in [Threads -> {"caller", "asleep", "resumed"} \cup Senders \cup Receivers]
        /\ error' \in [Threads -> {"EOK", "ETIMEOUT", "ERROR"}]
    BY <1>5 DEF TypeOK
  <2>3. suspend_thread' \in Seq(Threads)
    BY <1>5
  <2> QED BY <1>5, <1>10, <1>11, <2>1, <2>2, <2>3 DEF TypeOK
<1>15. HandsSound'
  BY <1>5 DEF NodesSound, HandsSound, Senders, Receivers, TypeOK
<1>16. NodesSound'
  <2>1. entry' \in Nat /\ z \in [1 .. entry' -> Nodes]
    BY <1>5, <1>9
  <2> QED BY <1>8, <1>13, <1>15, <2>1, SoundNext
<1>17. FilledEnds'
  <2>1. ASSUME NEW t \in Threads, pc'[t] = "send_link" PROVE next'[msg'[t]] = Null
    <3>1. pc[t] = "send_link" /\ msg'[t] = msg[t]
      BY <1>5, <2>1 DEF TypeOK
    <3>2. msg[t] \in Nodes /\ InHand(msg[t]) /\ next[msg[t]] = Null
      BY <3>1 DEF FilledEnds, NodesSound, HandsSound, Senders, InHand, TypeOK
    <3>3. \A j \in 1 .. e : q[j] # msg[t]
      BY <1>2, <3>2 DEF Lists
    <3> QED BY <1>7, <3>1, <3>2, <3>3
  <2> QED BY <2>1 DEF FilledEnds
<1>18. SleepersAreAsleep'
  BY <1>5 DEF SleepersAreAsleep
<1> QED BY <1>14, <1>16, <1>17, <1>18

LEMMA NextInv == QueueInv /\ [Next]_vars => QueueInv'
<1> SUFFICES ASSUME QueueInv, [Next]_vars PROVE QueueInv'
  OBVIOUS
<1>1. CASE UNCHANGED vars
  <2>1. NodesSound' /\ FilledEnds'
    BY <1>1, ListsUntouched DEF vars
  <2>2. TypeOK' /\ SleepersAreAsleep'
    BY <1>1 DEF vars, listVars, waitVars, QueueInv, TypeOK, SleepersAreAsleep
  <2> QED BY <2>1, <2>2 DEF QueueInv
<1>2. ASSUME NEW t \in Producers, NEW m \in Messages,
             NEW call \in {"send", "urgent"}, Claim(t, m, call)
      PROVE  QueueInv'
  BY <1>2, ClaimInv, QueueConstants
<1>3. ASSUME NEW t \in Producers, Fill(t) \/ Link(t)
      PROVE  QueueInv'
  BY <1>3, FillInv, LinkInv, QueueConstants
<1>4. ASSUME NEW t \in Consumers, NEW w \in Waits, Recv(t, w)
      PROVE  QueueInv'
  <2>1. w \in {NoWait, Timed, Forever} /\ t \in Threads
    BY QueueConstants
  <2> QED BY <1>4, <2>1, RecvPassInv DEF Recv
<1>5. ASSUME NEW t \in Consumers, RecvResumed(t) \/ CopyAndFree(t) \/ Timeout(t)
      PROVE  QueueInv'
  BY <1>5, RecvResumedInv, CopyAndFreeInv, TimeoutInv, QueueConstants
<1>6. CASE Reset
  BY <1>6, ResetInv
<1> QED BY <1>1, <1>2, <1>3, <1>4, <1>5, <1>6 DEF Next

THEOREM QueueInvariant == Spec => []QueueInv
<1> QED BY InitInv, NextInv, PTL DEF Spec

\* The variables of the message queue keep their types, whatever the number of
\* nodes and threads and however their calls to rt_mq_send, rt_mq_urgent,
\* rt_mq_recv and rt_mq_control are interleaved.
THEOREM QueueTypes == Spec => []TypeOK
<1>1. QueueInv => TypeOK
  BY DEF QueueInv
<1> QED BY <1>1, QueueInvariant, PTL

\* Every node is on the free list, in the queue or in the hand of one thread, the
\* links thread exactly those lists, entry counts the queue and msg_queue_tail
\* ends it (ipc.c:1930-2284).
THEOREM QueueNodes == Spec => []NodesSound
<1>1. QueueInv => NodesSound
  BY DEF QueueInv
<1> QED BY <1>1, QueueInvariant, PTL

-----------------------------------------------------------------------------
\* The threads a message has woken and that have not looked at the queue since.
OnTheirWay == {t \in Threads : pc[t] = "resumed" /\ error[t] = "EOK"}

\* Only a time-out or a reset puts an error in a thread that waits.
SleepersUnmarked == \A t \in Threads : pc[t] = "asleep" => error[t] = "EOK"

WakeInv == NoLostWakeup /\ SleepersUnmarked

LEMMA OnTheirWayFinite ==
  /\ IsFiniteSet(OnTheirWay)
  /\ Cardinality(OnTheirWay) \in Nat /\ Cardinality(OnTheirWay') \in Nat
<1>1. /\ IsFiniteSet(Threads)
      /\ OnTheirWay \subseteq Threads /\ OnTheirWay' \subseteq Threads
  BY QueueConstants DEF OnTheirWay
<1> QED BY <1>1, FS_Subset, FS_CardinalityType

\* A step that leaves the threads on their way alone and queues nothing.
LEMMA WakeFrame ==
  ASSUME QueueInv, QueueInv', WakeInv, OnTheirWay' = OnTheirWay, entry' <= entry,
         suspend_thread' # <<>> => suspend_thread # <<>>
  PROVE  NoLostWakeup'
<1>1. entry \in Nat /\ entry' \in Nat
  BY DEF QueueInv, TypeOK
<1>2. suspend_thread # <<>> => Cardinality(OnTheirWay) >= entry
  BY DEF WakeInv, NoLostWakeup, OnTheirWay
<1>3. suspend_thread' # <<>> => Cardinality(OnTheirWay') >= entry'
  BY <1>1, <1>2, OnTheirWayFinite
<1> QED BY <1>3 DEF NoLostWakeup, OnTheirWay

\* A message that finds a sleeper sends it on its way.
LEMMA LinkWakes ==
  ASSUME NEW t \in Threads, QueueInv, QueueInv', WakeInv, Link(t)
  PROVE  WakeInv'
<1>1. /\ pc[t] \in {"send_link", "urgent_link"} /\ entry' = entry + 1
      /\ WakeFirst(t) /\ error' = error /\ entry \in Nat
  BY DEF Link, QueueInv, TypeOK
<1>2. CASE suspend_thread = <<>>
  <2>1. suspend_thread' = <<>> /\ pc' = [pc EXCEPT ![t] = "caller"]
    BY <1>1, <1>2 DEF WakeFirst
  <2> QED BY <1>1, <2>1 DEF WakeInv, NoLostWakeup, SleepersUnmarked, QueueInv, TypeOK
<1>3. CASE suspend_thread # <<>>
  <2>1. PICK h \in Threads : /\ pc[h] = "asleep"
                             /\ pc' = [pc EXCEPT ![h] = "resumed", ![t] = "caller"]
    <3>1. /\ suspend_thread \in Seq(Threads) /\ Len(suspend_thread) \in Nat
          /\ 1 \in 1 .. Len(suspend_thread) /\ Head(suspend_thread) = suspend_thread[1]
      BY <1>3 DEF QueueInv, TypeOK
    <3>2. Head(suspend_thread) \in Threads /\ pc[Head(suspend_thread)] = "asleep"
      BY <3>1 DEF QueueInv, SleepersAreAsleep
    <3> QED BY <1>1, <1>3, <3>2 DEF WakeFirst
  <2>2. h # t /\ h \notin OnTheirWay /\ OnTheirWay' = OnTheirWay \cup {h}
    BY <1>1, <2>1 DEF OnTheirWay, QueueInv, TypeOK, WakeInv, SleepersUnmarked
  <2>3. Cardinality(OnTheirWay') = Cardinality(OnTheirWay) + 1
    BY <2>2, OnTheirWayFinite, FS_AddElement
  <2>4. Cardinality(OnTheirWay) >= entry
    BY <1>3 DEF WakeInv, NoLostWakeup, OnTheirWay
  <2>5. Cardinality(OnTheirWay') >= entry'
    BY <1>1, <2>3, <2>4, OnTheirWayFinite
  <2>6. SleepersUnmarked'
    BY <1>1, <2>1 DEF QueueInv, TypeOK, WakeInv, SleepersUnmarked
  <2> QED BY <2>5, <2>6 DEF WakeInv, NoLostWakeup, OnTheirWay
<1> QED BY <1>2, <1>3

\* A receiver that looks at the queue takes a message with it, if there is one.
LEMMA RecvPassWakes ==
  ASSUME NEW t \in Threads, NEW w \in {NoWait, Timed, Forever}, RecvPass(t, w),
         pc[t] = "caller" \/ t \in OnTheirWay, QueueInv, QueueInv', WakeInv
  PROVE  WakeInv'
<1>1. entry \in Nat /\ pc[t] # "asleep"
  BY DEF QueueInv, TypeOK, OnTheirWay
<1>2. CASE entry > 0 /\ Dequeue(t) /\ UNCHANGED <<suspend_thread, error>>
  <2>1. /\ entry' = entry - 1 /\ pc' = [pc EXCEPT ![t] = "recv_copy"]
        /\ error' = error /\ suspend_thread' = suspend_thread
    BY <1>2 DEF Dequeue
  <2>2. OnTheirWay' = OnTheirWay \ {t}
    BY <2>1 DEF OnTheirWay, QueueInv, TypeOK
  <2>3. Cardinality(OnTheirWay') >= Cardinality(OnTheirWay) - 1
    BY <2>2, OnTheirWayFinite, FS_RemoveElement
  <2>4. suspend_thread' # <<>> => Cardinality(OnTheirWay') >= entry'
    <3>1. suspend_thread # <<>> => Cardinality(OnTheirWay) >= entry
      BY DEF WakeInv, NoLostWakeup, OnTheirWay
    <3> QED BY <1>1, <2>1, <2>3, <3>1, OnTheirWayFinite
  <2>5. SleepersUnmarked'
    BY <2>1 DEF QueueInv, TypeOK, WakeInv, SleepersUnmarked
  <2> QED BY <2>4, <2>5 DEF WakeInv, NoLostWakeup, OnTheirWay
<1>3. CASE entry = 0 /\ entry' = 0 /\ \/ Sleep(t)
                                      \/ /\ error' = [error EXCEPT ![t] = "ETIMEOUT"]
                                         /\ pc' = [pc EXCEPT ![t] = "caller"]
  <2>1. Cardinality(OnTheirWay') \in Nat
    BY OnTheirWayFinite
  <2>2. NoLostWakeup'
    BY <1>3, <2>1 DEF NoLostWakeup, OnTheirWay
  <2>3. SleepersUnmarked'
    BY <1>3 DEF Sleep, QueueInv, TypeOK, WakeInv, SleepersUnmarked
  <2> QED BY <2>2, <2>3 DEF WakeInv
<1> QED BY <1>2, <1>3 DEF RecvPass, listVars

LEMMA NextWakes == QueueInv /\ QueueInv' /\ WakeInv /\ [Next]_vars => WakeInv'
<1> SUFFICES ASSUME QueueInv, QueueInv', WakeInv, [Next]_vars
             PROVE  WakeInv'
  OBVIOUS
<1>0. /\ pc \in [Threads -> {"caller", "asleep", "resumed"} \cup Senders \cup Receivers]
      /\ error \in [Threads -> {"EOK", "ETIMEOUT", "ERROR"}] /\ entry \in Nat
  BY DEF QueueInv, TypeOK
<1>1. CASE UNCHANGED vars
  BY <1>1 DEF vars, listVars, waitVars, WakeInv, NoLostWakeup, SleepersUnmarked
<1>2. ASSUME NEW t \in Threads, NEW p, pc[t] \notin {"asleep", "resumed"},
             p \notin {"asleep", "resumed"}, pc' = [pc EXCEPT ![t] = p],
             UNCHANGED <<entry, suspend_thread, error>>
      PROVE  WakeInv'
  <2>1. OnTheirWay' = OnTheirWay /\ SleepersUnmarked'
    BY <1>0, <1>2 DEF OnTheirWay, WakeInv, SleepersUnmarked
  <2>2. entry' <= entry /\ (suspend_thread' # <<>> => suspend_thread # <<>>)
    BY <1>0, <1>2
  <2> QED BY <2>1, <2>2, WakeFrame DEF WakeInv
<1>3. ASSUME NEW t \in Producers, NEW m \in Messages,
             NEW call \in {"send", "urgent"}, Claim(t, m, call)
      PROVE  WakeInv'
  BY <1>2, <1>3, QueueConstants DEF Claim, waitVars
<1>4. ASSUME NEW t \in Producers, Fill(t)
      PROVE  WakeInv'
  <2>1. t \in Threads
    BY QueueConstants
  <2>2. /\ pc[t] \in {"send", "urgent"} /\ UNCHANGED <<entry, suspend_thread, error>>
        /\ \/ pc' = [pc EXCEPT ![t] = "send_link"]
           \/ pc' = [pc EXCEPT ![t] = "urgent_link"]
    BY <1>4 DEF Fill, waitVars
  <2> QED BY <1>2, <2>1, <2>2
<1>5. ASSUME NEW t \in Producers, Link(t)
      PROVE  WakeInv'
  BY <1>5, LinkWakes, QueueConstants
<1>6. ASSUME NEW t \in Consumers, NEW w \in Waits, Recv(t, w)
      PROVE  WakeInv'
  <2>1. w \in {NoWait, Timed, Forever} /\ t \in Threads
    BY QueueConstants
  <2> QED BY <1>6, <2>1, RecvPassWakes DEF Recv
<1>7. ASSUME NEW t \in Consumers, RecvResumed(t)
      PROVE  WakeInv'
  <2>1. t \in Threads /\ pc[t] = "resumed"
    BY <1>7, QueueConstants DEF RecvResumed
  <2>2. CASE error[t] = "EOK"
    <3>1. PICK w \in IF timeout[t] = Timed THEN {Timed, NoWait} ELSE {timeout[t]} :
              RecvPass(t, w)
      BY <1>7, <2>2 DEF RecvResumed
    <3>2. w \in {NoWait, Timed, Forever}
      BY <2>1, <3>1 DEF QueueInv, TypeOK
    <3> QED BY <2>1, <2>2, <3>1, <3>2, RecvPassWakes DEF OnTheirWay
  <2>3. CASE error[t] # "EOK"
    <3>1. /\ pc' = [pc EXCEPT ![t] = "caller"]
          /\ UNCHANGED <<entry, suspend_thread, error>>
      BY <1>7, <2>3 DEF RecvResumed, listVars
    <3>2. OnTheirWay' = OnTheirWay /\ SleepersUnmarked'
      BY <1>0, <2>1, <2>3, <3>1 DEF OnTheirWay, WakeInv, SleepersUnmarked
    <3>3. entry' <= entry /\ (suspend_thread' # <<>> => suspend_thread # <<>>)
      BY <1>0, <3>1
    <3> QED BY <3>2, <3>3, WakeFrame DEF WakeInv
  <2> QED BY <2>2, <2>3
<1>8. ASSUME NEW t \in Consumers, CopyAndFree(t)
      PROVE  WakeInv'
  <2>1. t \in Threads
    BY QueueConstants
  <2>2. /\ pc[t] \in {"recv_copy", "recv_free"}
        /\ UNCHANGED <<entry, suspend_thread, error>>
        /\ \/ pc' = [pc EXCEPT ![t] = "recv_free"]
           \/ pc' = [pc EXCEPT ![t] = "caller"]
    BY <1>8 DEF CopyAndFree, waitVars
  <2> QED BY <1>2, <2>1, <2>2
<1>9. ASSUME NEW t \in Consumers, Timeout(t)
      PROVE  WakeInv'
  <2>1. /\ t \in Threads /\ pc[t] = "asleep" /\ entry' = entry
        /\ error' = [error EXCEPT ![t] = "ETIMEOUT"]
        /\ pc' = [pc EXCEPT ![t] = "resumed"]
    BY <1>9, QueueConstants DEF Timeout, listVars
  <2>2. suspend_thread # <<>>
    BY <1>9 DEF Timeout
  <2>3. OnTheirWay' = OnTheirWay /\ SleepersUnmarked'
    BY <1>0, <2>1 DEF OnTheirWay, WakeInv, SleepersUnmarked
  <2>4. entry' <= entry
    BY <1>0, <2>1
  <2> QED BY <2>2, <2>3, <2>4, WakeFrame DEF WakeInv
<1>10. CASE Reset
  <2>1. /\ suspend_thread' = <<>>
        /\ pc' = [t \in Threads |-> IF pc[t] = "asleep" THEN "resumed" ELSE pc[t]]
    BY <1>10 DEF Reset
  <2>2. \A t \in Threads : pc'[t] # "asleep"
    BY <2>1
  <2> QED BY <2>1, <2>2 DEF WakeInv, NoLostWakeup, SleepersUnmarked
<1> QED BY <1>1, <1>3, <1>4, <1>5, <1>6, <1>7, <1>8, <1>9, <1>10 DEF Next

\* While a thread sleeps on the queue there is a resumed thread on its way for
\* every queued message: no time-out, reset or receiver that barges in makes
\* rt_mq_send's wake-up (ipc.c:1988-1997) go to nobody.
THEOREM QueueNoLostWakeup == Spec => []NoLostWakeup
<1>1. Init => WakeInv
  BY DEF Init, WakeInv, NoLostWakeup, SleepersUnmarked
<1>2. WakeInv => NoLostWakeup
  BY DEF WakeInv
<1> QED BY <1>1, <1>2, NextWakes, QueueInvariant, PTL DEF Spec

-----------------------------------------------------------------------------

\* The links determine the queue MessageChannel sees.
LEMMA QueueIs ==
  QueueInv => \A q \in Walk(entry) : IsChain(msg_queue_head, q, entry) => QueuedNodes = q
<1> SUFFICES ASSUME QueueInv, NEW q \in Walk(entry), IsChain(msg_queue_head, q, entry)
             PROVE  QueuedNodes = q
  OBVIOUS
<1>1. /\ QueuedNodes \in Walk(entry)
      /\ IsChain(msg_queue_head, QueuedNodes, entry)
  BY DEF QueuedNodes, Walk
<1>2. /\ next \in [Nodes -> Nodes \cup {Null}] /\ entry \in Nat
  BY DEF QueueInv, TypeOK
<1> QED BY <1>1, <1>2, ChainUnique

LEMMA QueueIsNext ==
  ASSUME QueueInv', NEW r \in [1 .. entry' -> Nodes], IsChain(msg_queue_head, r, entry)'
  PROVE  AbstractQueue' = [i \in 1 .. entry' |-> data'[r[i]]]
<1>1. (QueueInv => \A q \in Walk(entry) :
                       IsChain(msg_queue_head, q, entry) => QueuedNodes = q)'
  BY QueueIs, PTL
<1>2. QueuedNodes' = r
  BY <1>1 DEF Walk
<1> QED BY <1>2 DEF AbstractQueue

\* A step that leaves the links and the contents of the queued nodes alone.
LEMMA QueueKept ==
  ASSUME QueueInv, QueueInv', NEW q \in Walk(entry), IsChain(msg_queue_head, q, entry),
         msg_queue_head' = msg_queue_head, entry' = entry,
         \A i \in 1 .. entry : next'[q[i]] = next[q[i]] /\ data'[q[i]] = data[q[i]]
  PROVE  AbstractQueue' = AbstractQueue
<1>1. AbstractQueue = [i \in 1 .. entry |-> data[q[i]]]
  BY QueueIs DEF AbstractQueue
<1>2. q \in [1 .. entry' -> Nodes] /\ IsChain(msg_queue_head, q, entry)'
  BY DEF Walk, IsChain
<1>3. AbstractQueue' = [i \in 1 .. entry' |-> data'[q[i]]]
  BY <1>2, QueueIsNext
<1> QED BY <1>1, <1>3

LEMMA QueueType ==
  ASSUME QueueInv
  PROVE  AbstractQueue \in Seq(Messages \cup {Null}) /\ Len(AbstractQueue) = entry
<1>1. PICK k \in Nat : \E f \in Walk(k), q \in Walk(entry) : Lists(f, k, q)
  BY ListsOf
<1>2. PICK f \in Walk(k), q \in Walk(entry) : Lists(f, k, q)
  BY <1>1
<1>3. AbstractQueue = [i \in 1 .. entry |-> data[q[i]]]
  BY <1>2, QueueIs DEF AbstractQueue, Lists
<1>4. \A i \in 1 .. entry : data[q[i]] \in Messages \cup {Null}
  BY <1>2 DEF Walk, QueueInv, TypeOK
<1>5. entry \in Nat
  BY DEF QueueInv, TypeOK
<1> QED BY <1>3, <1>4, <1>5

\* The threads with a node in their hand.
Holders == {t \in Threads : pc[t] \in Senders \cup Receivers}

LEMMA FreeIsRoom ==
  ASSUME QueueInv, msg_queue_free # Null
  PROVE  entry + Cardinality(Holders) < Total
<1> USE DEF QueueInv
<1>1. PICK k \in Nat : \E f \in Walk(k), q \in Walk(entry) : Lists(f, k, q)
  BY ListsOf
<1>2. PICK f \in Walk(k), q \in Walk(entry) : Lists(f, k, q)
  BY <1>1
<1>3. PICK e \in Nat : e = entry
  BY DEF TypeOK
<1> USE <1>3
<1> DEFINE Q == {q[i] : i \in 1 .. e}
           H == {msg[t] : t \in Holders}
<1>4. 1 \in 1 .. k /\ f[1] \in Nodes
  BY <1>2 DEF Lists, IsChain, Walk
<1>5. IsFiniteSet(Q) /\ Cardinality(Q) = e
  <2>1. q \in Bijection(1 .. e, Q)
    BY <1>2 DEF Lists, Walk, Bijection, Injection, Surjection, IsInjective
  <2>2. IsFiniteSet(1 .. e) /\ Cardinality(1 .. e) = e
    BY FS_Interval
  <2> HIDE DEF Q
  <2>3. ExistsBijection(1 .. e, Q)
    BY <2>1 DEF ExistsBijection
  <2> QED BY <2>2, <2>3, FS_Bijection
<1>6. IsFiniteSet(H) /\ Cardinality(H) = Cardinality(Holders)
  <2> DEFINE g == [t \in Holders |-> msg[t]]
  <2>1. \A t, u \in Holders : msg[t] = msg[u] => t = u
    BY DEF Holders, NodesSound, HandsSound
  <2>2. g \in Bijection(Holders, H)
    BY <2>1 DEF Bijection, Injection, Surjection, IsInjective
  <2>3. IsFiniteSet(Holders)
    <3>1. Holders \in SUBSET Threads
      BY DEF Holders
    <3> QED BY <3>1, FS_Subset, QueueConstants
  <2> HIDE DEF g, H
  <2>4. ExistsBijection(Holders, H)
    BY <2>2 DEF ExistsBijection
  <2> QED BY <2>3, <2>4, FS_Bijection
<1>7. \A h \in H : h \in Nodes /\ InHand(h)
  BY DEF Holders, NodesSound, HandsSound, InHand, TypeOK
<1>8. /\ Q \subseteq Nodes \ {f[1]} /\ H \subseteq Nodes \ {f[1]}
      /\ Q \cap H = {}
  <2>1. \A i \in 1 .. e : q[i] \in Nodes /\ q[i] # f[1] /\ ~ InHand(q[i])
    BY <1>2, <1>4 DEF Lists, Walk
  <2>2. \A c \in Q : c \in Nodes /\ c # f[1] /\ ~ InHand(c)
    BY <2>1
  <2>3. ~ InHand(f[1])
    BY <1>2, <1>4 DEF Lists
  <2> HIDE DEF Q, H
  <2> QED BY <1>7, <2>2, <2>3
<1> HIDE DEF Q, H
<1>9. /\ IsFiniteSet(Nodes \ {f[1]})
      /\ Cardinality(Nodes \ {f[1]}) = Total - 1
  BY <1>4, FS_RemoveElement, QueueConstants DEF Total
<1>10. Cardinality(Q \cup H) = e + Cardinality(Holders)
  <2>1. Cardinality(Q \cup H) = Cardinality(Q) + Cardinality(H) - Cardinality(Q \cap H)
    BY <1>5, <1>6, FS_Union
  <2>2. Cardinality(Q \cap H) = 0
    BY <1>8, FS_EmptySet
  <2>3. Cardinality(H) \in Nat
    BY <1>6, FS_CardinalityType
  <2> QED BY <1>5, <1>6, <2>1, <2>2, <2>3
<1>11. Cardinality(Q \cup H) <= Total - 1
  BY <1>8, <1>9, FS_Subset
<1>12. Cardinality(Holders) \in Nat
  BY <1>6, FS_CardinalityType
<1> QED BY <1>10, <1>11, <1>12, TotalPositive

\* What a thread's place in the code is to a user of the channel.
RoleOf(p) ==
    CASE p \in {"send", "send_link"}     -> "sending"
      [] p \in {"urgent", "urgent_link"} -> "urgent"
      [] p \in Receivers                 -> "receiving"
      [] OTHER                           -> "idle"

LEMMA Roles ==
  /\ AbstractRole = [t \in Threads |-> RoleOf(pc[t])]
  /\ AbstractRole' = [t \in Threads |-> RoleOf(pc'[t])]
BY DEF AbstractRole, RoleOf

LEMMA RoleValues ==
  /\ \A p \in {"send", "send_link"} : RoleOf(p) = "sending"
  /\ \A p \in {"urgent", "urgent_link"} : RoleOf(p) = "urgent"
  /\ \A p \in Receivers : RoleOf(p) = "receiving"
  /\ \A p \in {"caller", "asleep", "resumed"} : RoleOf(p) = "idle"
BY DEF RoleOf, Receivers

\* A step that moves t, and of the others only those who hold nothing.
LEMMA UserChange ==
  ASSUME QueueInv, NEW t \in Threads,
         \A u \in Threads : u # t =>
             \/ pc'[u] = pc[u]
             \/ {pc[u], pc'[u]} \subseteq {"caller", "asleep", "resumed"},
         \A u \in Threads : u # t =>
             /\ msg'[u] = msg[u] /\ buffer'[u] = buffer[u]
             /\ msg[u] \in Nodes => data'[msg[u]] = data[msg[u]]
  PROVE  /\ AbstractRole' = [AbstractRole EXCEPT ![t] = RoleOf(pc'[t])]
         /\ AbstractHand' = [AbstractHand EXCEPT ![t] =
                IF pc'[t] \in {"send_link", "urgent_link", "recv_copy"}
                THEN data'[msg'[t]] ELSE buffer'[t]]
<1>1. AbstractRole' = [AbstractRole EXCEPT ![t] = RoleOf(pc'[t])]
  <2>1. \A u \in Threads : u # t => RoleOf(pc'[u]) = RoleOf(pc[u])
    BY RoleValues
  <2> QED BY <2>1, Roles
<1>2. ASSUME NEW u \in Threads, u # t
      PROVE  AbstractHand'[u] = AbstractHand[u]
  <2>1. CASE pc[u] \in {"send_link", "urgent_link", "recv_copy"}
    <3>1. msg[u] \in Nodes /\ pc'[u] = pc[u]
      BY <1>2, <2>1, SMTT(30) DEF QueueInv, NodesSound, HandsSound, Senders, Receivers, TypeOK
    <3> QED BY <1>2, <2>1, <3>1 DEF AbstractHand
  <2>2. CASE pc[u] \notin {"send_link", "urgent_link", "recv_copy"}
    BY <1>2, <2>2 DEF AbstractHand
  <2> QED BY <2>1, <2>2
<1>3. AbstractHand'[t] = IF pc'[t] \in {"send_link", "urgent_link", "recv_copy"}
                         THEN data'[msg'[t]] ELSE buffer'[t]
  BY DEF AbstractHand
<1>4. /\ AbstractHand = [u \in Threads |-> AbstractHand[u]]
      /\ AbstractHand' = [u \in Threads |-> AbstractHand'[u]]
  BY DEF AbstractHand
<1> QED BY <1>1, <1>2, <1>3, <1>4

\* ... and leaves it as it was to a user of the channel.
LEMMA UserKept ==
  ASSUME QueueInv, NEW t \in Threads,
         \A u \in Threads : u # t =>
             \/ pc'[u] = pc[u]
             \/ {pc[u], pc'[u]} \subseteq {"caller", "asleep", "resumed"},
         \A u \in Threads : u # t =>
             /\ msg'[u] = msg[u] /\ buffer'[u] = buffer[u]
             /\ msg[u] \in Nodes => data'[msg[u]] = data[msg[u]],
         RoleOf(pc'[t]) = RoleOf(pc[t]),
         (IF pc'[t] \in {"send_link", "urgent_link", "recv_copy"}
          THEN data'[msg'[t]] ELSE buffer'[t])
            = IF pc[t] \in {"send_link", "urgent_link", "recv_copy"}
              THEN data[msg[t]] ELSE buffer[t]
  PROVE  AbstractRole' = AbstractRole /\ AbstractHand' = AbstractHand
<1>1. AbstractRole[t] = RoleOf(pc[t])
  BY Roles
<1>2. AbstractHand[t] = IF pc[t] \in {"send_link", "urgent_link", "recv_copy"}
                        THEN data[msg[t]] ELSE buffer[t]
  BY DEF AbstractHand
<1>3. /\ AbstractRole = [AbstractRole EXCEPT ![t] = AbstractRole[t]]
      /\ AbstractHand = [AbstractHand EXCEPT ![t] = AbstractHand[t]]
  BY Roles DEF AbstractHand
<1> QED BY <1>1, <1>2, <1>3, UserChange

ChannelVars == <<AbstractQueue, AbstractRole, AbstractHand>>

LEMMA ClaimBegins ==
  ASSUME QueueInv, QueueInv', NEW t \in Threads, NEW m \in Messages,
         NEW call \in {"send", "urgent"}, Claim(t, m, call)
  PROVE  Abstract!Next
<1>1. /\ pc' = [pc EXCEPT ![t] = call] /\ buffer' = [buffer EXCEPT ![t] = m]
      /\ msg' = [msg EXCEPT ![t] = msg_queue_free]
      /\ pc[t] = "caller" /\ msg_queue_free # Null
      /\ UNCHANGED <<msg_queue_head, next, entry, data>>
  BY DEF Claim
<1>2. AbstractQueue' = AbstractQueue
  BY <1>1 DEF AbstractQueue, QueuedNodes, IsChain
<1>3. /\ pc'[t] = call /\ buffer'[t] = m
      /\ \A u \in Threads : u # t => /\ pc'[u] = pc[u]
                                     /\ msg'[u] = msg[u] /\ buffer'[u] = buffer[u]
  BY <1>1 DEF QueueInv, TypeOK
<1>4. /\ AbstractRole' = [AbstractRole EXCEPT ![t] = RoleOf(call)]
      /\ AbstractHand' = [AbstractHand EXCEPT ![t] = m]
  BY <1>1, <1>3, UserChange
<1>5. AbstractRole[t] = "idle" /\ RoleOf(call) \in {"sending", "urgent"}
  BY <1>1, Roles, RoleValues
<1>6. Len(AbstractQueue) + Cardinality(Abstract!Busy) < Total
  <2>1. Abstract!Busy = Holders
    <3>1. ASSUME NEW u \in Threads
          PROVE  AbstractRole[u] # "idle" <=> pc[u] \in Senders \cup Receivers
      BY Roles DEF RoleOf, Senders, Receivers
    <3> QED BY <3>1 DEF Abstract!Busy, Holders
  <2> QED BY <1>1, <2>1, FreeIsRoom, QueueType
<1>7. Abstract!Cardinality(Abstract!Busy) = Cardinality(Abstract!Busy)
  BY DEF Abstract!Cardinality, Cardinality, Abstract!IsFiniteSet, IsFiniteSet
<1>8. Abstract!Begin(t, m, RoleOf(call))
  BY <1>2, <1>4, <1>5, <1>6, <1>7 DEF Abstract!Begin
<1> QED BY <1>5, <1>8 DEF Abstract!Next

\* Filling a node in hand is nobody else's business.
LEMMA FillStutters ==
  ASSUME QueueInv, QueueInv', NEW t \in Threads, Fill(t)
  PROVE  UNCHANGED ChannelVars
<1> USE DEF QueueInv
<1>1. PICK k \in Nat : \E f \in Walk(k), q \in Walk(entry) : Lists(f, k, q)
  BY ListsOf
<1>2. PICK f \in Walk(k), q \in Walk(entry) : Lists(f, k, q)
  BY <1>1
<1>3. PICK n \in Nodes : n = msg[t] /\ InHand(n)
  BY DEF Fill, NodesSound, HandsSound, Senders, InHand, TypeOK
<1>4. /\ data' = [data EXCEPT ![n] = buffer[t]]
      /\ next' \in {next, [next EXCEPT ![n] = Null]}
      /\ UNCHANGED <<msg_queue_head, entry, msg, buffer>>
      /\ \/ pc[t] = "send" /\ pc' = [pc EXCEPT ![t] = "send_link"]
         \/ pc[t] = "urgent" /\ pc' = [pc EXCEPT ![t] = "urgent_link"]
  BY <1>3 DEF Fill
<1>5. \A i \in 1 .. entry : q[i] \in Nodes /\ q[i] # n
  BY <1>2, <1>3 DEF Lists, Walk
<1>6. \A i \in 1 .. entry : next'[q[i]] = next[q[i]] /\ data'[q[i]] = data[q[i]]
  BY <1>4, <1>5 DEF TypeOK
<1>7. AbstractQueue' = AbstractQueue
  BY <1>2, <1>4, <1>6, QueueKept DEF Lists
<1>8. \A u \in Threads : u # t => /\ pc'[u] = pc[u]
                                  /\ msg[u] # n
                                  /\ msg[u] \in Nodes => data'[msg[u]] = data[msg[u]]
  BY <1>3, <1>4, QueueConstants DEF NodesSound, HandsSound, TypeOK
<1>9. RoleOf(pc'[t]) = RoleOf(pc[t])
  BY <1>4, RoleValues DEF TypeOK
<1>10. /\ pc'[t] \in {"send_link", "urgent_link"} /\ data'[msg'[t]] = buffer[t]
       /\ pc[t] \notin {"send_link", "urgent_link", "recv_copy"}
  BY <1>3, <1>4 DEF TypeOK
<1>11. AbstractRole' = AbstractRole /\ AbstractHand' = AbstractHand
  BY <1>4, <1>8, <1>9, <1>10, UserKept
<1> QED BY <1>7, <1>11 DEF ChannelVars

\* Giving the node back releases the receiver; copying it out is invisible.
LEMMA CopyAndFreeReleases ==
  ASSUME QueueInv, QueueInv', NEW t \in Threads, CopyAndFree(t)
  PROVE  Abstract!Next \/ UNCHANGED ChannelVars
<1> USE DEF QueueInv
<1>1. PICK k \in Nat : \E f \in Walk(k), q \in Walk(entry) : Lists(f, k, q)
  BY ListsOf
<1>2. PICK f \in Walk(k), q \in Walk(entry) : Lists(f, k, q)
  BY <1>1
<1>3. PICK n \in Nodes : n = msg[t] /\ InHand(n)
  BY DEF CopyAndFree, NodesSound, HandsSound, Receivers, InHand, TypeOK
<1>4. UNCHANGED <<msg_queue_head, entry, data>>
  BY DEF CopyAndFree
<1>5. \A i \in 1 .. entry : q[i] \in Nodes /\ q[i] # n
  BY <1>2, <1>3 DEF Lists, Walk
<1>6. CASE pc[t] = "recv_copy"
  <2>1. /\ pc' = [pc EXCEPT ![t] = "recv_free"]
        /\ buffer' = [buffer EXCEPT ![t] = data[n]]
        /\ UNCHANGED <<next, msg>>
    BY <1>3, <1>6 DEF CopyAndFree
  <2>2. AbstractQueue' = AbstractQueue
    BY <1>4, <2>1 DEF AbstractQueue, QueuedNodes, IsChain
  <2>3. /\ pc'[t] = "recv_free" /\ buffer'[t] = data[n]
        /\ \A u \in Threads : u # t => pc'[u] = pc[u] /\ buffer'[u] = buffer[u]
    BY <2>1 DEF TypeOK
  <2>4. RoleOf(pc'[t]) = RoleOf(pc[t])
    BY <1>6, <2>3, RoleValues DEF Receivers
  <2>5. AbstractRole' = AbstractRole /\ AbstractHand' = AbstractHand
    BY <1>3, <1>4, <1>6, <2>1, <2>3, <2>4, UserKept
  <2> QED BY <2>2, <2>5 DEF ChannelVars
<1>7. CASE pc[t] = "recv_free"
  <2>1. /\ pc' = [pc EXCEPT ![t] = "caller"]
        /\ buffer' = [buffer EXCEPT ![t] = Null] /\ msg' = [msg EXCEPT ![t] = Null]
        /\ next' = [next EXCEPT ![n] = msg_queue_free]
    BY <1>3, <1>7 DEF CopyAndFree
  <2>2. \A i \in 1 .. entry : next'[q[i]] = next[q[i]] /\ data'[q[i]] = data[q[i]]
    BY <1>4, <1>5, <2>1 DEF TypeOK
  <2>3. AbstractQueue' = AbstractQueue
    BY <1>2, <1>4, <2>2, QueueKept DEF Lists
  <2>4. /\ pc'[t] = "caller" /\ buffer'[t] = Null
        /\ \A u \in Threads : u # t => /\ pc'[u] = pc[u] /\ buffer'[u] = buffer[u]
                                       /\ msg'[u] = msg[u]
    BY <2>1 DEF TypeOK
  <2>5. /\ AbstractRole' = [AbstractRole EXCEPT ![t] = "idle"]
        /\ AbstractHand' = [AbstractHand EXCEPT ![t] = Null]
    BY <1>4, <2>4, UserChange, RoleValues
  <2>6. AbstractRole[t] = "receiving"
    BY <1>7, Roles, RoleValues DEF Receivers
  <2>7. Abstract!Release(t)
    BY <2>3, <2>5, <2>6 DEF Abstract!Release
  <2> QED BY <2>7 DEF Abstract!Next
<1> QED BY <1>6, <1>7 DEF CopyAndFree

\* The second critical section of a send publishes the message.
LEMMA LinkPublishes ==
  ASSUME QueueInv, QueueInv', NEW t \in Threads, Link(t)
  PROVE  Abstract!Next
<1> USE DEF QueueInv
<1>1. PICK e \in Nat : e = entry
  BY DEF TypeOK
<1>2. PICK n \in Nodes : n = msg[t]
  BY LinkFrame
<1> USE <1>1, <1>2
<1>3. /\ entry' = e + 1 /\ data' = data
      /\ msg' = [msg EXCEPT ![t] = Null] /\ buffer' = [buffer EXCEPT ![t] = Null]
      /\ pc[t] \in {"send_link", "urgent_link"}
  BY DEF Link
<1>4. /\ pc'[t] = "caller"
      /\ \A u \in Threads : u # t =>
             pc'[u] = pc[u] \/ {pc[u], pc'[u]} \subseteq {"caller", "asleep", "resumed"}
  <2>1. CASE suspend_thread = <<>>
    BY <2>1 DEF Link, WakeFirst, TypeOK
  <2>2. CASE suspend_thread # <<>>
    <3>1. PICK h \in Threads : /\ pc[h] = "asleep"
                               /\ pc' = [pc EXCEPT ![h] = "resumed", ![t] = "caller"]
      <4>1. /\ suspend_thread \in Seq(Threads) /\ Len(suspend_thread) \in Nat
            /\ 1 \in 1 .. Len(suspend_thread) /\ Head(suspend_thread) = suspend_thread[1]
        BY <2>2 DEF TypeOK
      <4>2. Head(suspend_thread) \in Threads /\ pc[Head(suspend_thread)] = "asleep"
        BY <4>1 DEF SleepersAreAsleep
      <4> QED BY <2>2, <4>2 DEF Link, WakeFirst
    <3> QED BY <1>3, <3>1 DEF TypeOK
  <2> QED BY <2>1, <2>2
<1>5. /\ AbstractRole' = [AbstractRole EXCEPT ![t] = "idle"]
      /\ AbstractHand' = [AbstractHand EXCEPT ![t] = Null]
  <2>1. /\ buffer'[t] = Null
        /\ \A u \in Threads : u # t => buffer'[u] = buffer[u] /\ msg'[u] = msg[u]
    BY <1>3 DEF TypeOK
  <2> QED BY <1>3, <1>4, <2>1, UserChange, RoleValues
<1>6. AbstractHand[t] = data[n] /\ data[n] \in Messages \cup {Null}
  BY <1>3 DEF AbstractHand, TypeOK
<1>7. AbstractQueue \in Seq(Messages \cup {Null}) /\ Len(AbstractQueue) = e
  BY QueueType
<1>8. CASE pc[t] = "send_link"
  <2>1. PICK q \in Walk(e), r \in [1 .. e + 1 -> Nodes] :
               /\ IsChain(msg_queue_head, q, entry)
               /\ IsChain(msg_queue_head, r, entry)'
               /\ \A i \in 1 .. e : r[i] = q[i]
               /\ r[e + 1] = n
    BY <1>3, <1>8, AppendInv
  <2>2. AbstractQueue = [i \in 1 .. e |-> data[q[i]]]
    BY <2>1, QueueIs DEF AbstractQueue
  <2>3. AbstractQueue' = [i \in 1 .. e + 1 |-> data[r[i]]]
    BY <1>3, <2>1, QueueIsNext
  <2>4. AbstractQueue' = Append(AbstractQueue, data[n])
    BY <1>6, <1>7, <2>1, <2>2, <2>3
  <2>5. AbstractRole[t] = "sending"
    BY <1>8, Roles, RoleValues
  <2>6. Abstract!Publish(t)
    BY <1>5, <1>6, <2>4, <2>5 DEF Abstract!Publish
  <2> QED BY <2>6 DEF Abstract!Next
<1>9. CASE pc[t] = "urgent_link"
  <2>1. PICK q \in Walk(e), r \in [1 .. e + 1 -> Nodes] :
               /\ IsChain(msg_queue_head, q, entry)
               /\ IsChain(msg_queue_head, r, entry)'
               /\ \A i \in 1 .. e : r[i + 1] = q[i]
               /\ r[1] = n
    BY <1>3, <1>9, PrependInv
  <2>2. AbstractQueue = [i \in 1 .. e |-> data[q[i]]]
    BY <2>1, QueueIs DEF AbstractQueue
  <2>3. AbstractQueue' = [i \in 1 .. e + 1 |-> data[r[i]]]
    BY <1>3, <2>1, QueueIsNext
  <2>4. AbstractQueue' = <<data[n]>> \o AbstractQueue
    <3>1. \A i \in 1 .. e + 1 : i # 1 => i - 1 \in 1 .. e /\ r[i] = q[i - 1]
      BY <2>1
    <3> QED BY <1>6, <1>7, <2>1, <2>2, <2>3, <3>1
  <2>5. AbstractRole[t] = "urgent"
    BY <1>9, Roles, RoleValues
  <2>6. Abstract!Publish(t)
    BY <1>5, <1>6, <2>4, <2>5 DEF Abstract!Publish
  <2> QED BY <2>6 DEF Abstract!Next
<1> QED BY <1>3, <1>8, <1>9

\* A receiver takes the first message, sleeps or returns.
LEMMA RecvPassTakes ==
  ASSUME QueueInv, QueueInv', NEW t \in Threads, NEW w \in {NoWait, Timed, Forever},
         pc[t] \in {"caller", "resumed"}, RecvPass(t, w)
  PROVE  Abstract!Next \/ UNCHANGED ChannelVars
<1> USE DEF QueueInv
<1>1. PICK e \in Nat : e = entry
  BY DEF TypeOK
<1> USE <1>1
<1>2. data' = data /\ buffer' = buffer
  BY DEF RecvPass
<1>3. CASE entry > 0 /\ Dequeue(t) /\ UNCHANGED <<suspend_thread, error>>
  <2>1. PICK q \in Walk(e), r \in [1 .. e - 1 -> Nodes] :
               /\ IsChain(msg_queue_head, q, entry)
               /\ IsChain(msg_queue_head, r, entry)'
               /\ \A i \in 1 .. e - 1 : r[i] = q[i + 1]
               /\ q[1] = msg'[t]
    BY <1>3, DequeueInv DEF Dequeue
  <2>2. /\ entry' = e - 1 /\ e - 1 \in Nat /\ pc' = [pc EXCEPT ![t] = "recv_copy"]
        /\ \A u \in Threads : u # t => msg'[u] = msg[u]
    BY <1>3 DEF Dequeue, TypeOK
  <2>3. AbstractQueue = [i \in 1 .. e |-> data[q[i]]]
    BY <2>1, QueueIs DEF AbstractQueue
  <2>4. AbstractQueue' = [i \in 1 .. e - 1 |-> data[r[i]]]
    BY <1>2, <2>1, <2>2, QueueIsNext
  <2>5. AbstractQueue \in Seq(Messages \cup {Null}) /\ Len(AbstractQueue) = e
    BY QueueType
  <2>6. /\ AbstractQueue # <<>> /\ Head(AbstractQueue) = data[q[1]]
        /\ AbstractQueue' = Tail(AbstractQueue)
    BY <2>1, <2>2, <2>3, <2>4, <2>5
  <2>7. /\ AbstractRole' = [AbstractRole EXCEPT ![t] = "receiving"]
        /\ AbstractHand' = [AbstractHand EXCEPT ![t] = data[q[1]]]
    <3>1. pc'[t] = "recv_copy" /\ \A u \in Threads : u # t => pc'[u] = pc[u]
      BY <2>2 DEF TypeOK
    <3>2. RoleOf("recv_copy") = "receiving"
      BY RoleValues DEF Receivers
    <3> QED BY <1>2, <2>1, <2>2, <3>1, <3>2, UserChange
  <2>8. AbstractRole[t] = "idle"
    BY Roles, RoleValues
  <2>9. Abstract!Take(t)
    BY <2>6, <2>7, <2>8 DEF Abstract!Take
  <2> QED BY <2>9 DEF Abstract!Next
<1>4. ASSUME NEW p \in {"asleep", "caller"}, pc' = [pc EXCEPT ![t] = p],
             UNCHANGED <<listVars, msg>>
      PROVE  UNCHANGED ChannelVars
  <2>1. AbstractQueue' = AbstractQueue
    BY <1>2, <1>4 DEF AbstractQueue, QueuedNodes, IsChain, listVars
  <2>2. pc'[t] = p /\ \A u \in Threads : u # t => pc'[u] = pc[u]
    BY <1>4 DEF TypeOK
  <2>3. AbstractRole' = AbstractRole /\ AbstractHand' = AbstractHand
    BY <1>2, <1>4, <2>2, UserKept, RoleValues
  <2> QED BY <2>1, <2>3 DEF ChannelVars
<1> QED BY <1>3, <1>4 DEF RecvPass, Sleep

LEMMA StepRefines == QueueInv /\ QueueInv' /\ [Next]_vars => [Abstract!Next]_ChannelVars
<1> SUFFICES ASSUME QueueInv, QueueInv', [Next]_vars
             PROVE  Abstract!Next \/ UNCHANGED ChannelVars
  OBVIOUS
<1>1. ASSUME NEW t \in Threads, NEW p \in {"caller", "resumed"},
             pc[t] \in {"asleep", "resumed"}, pc' = [pc EXCEPT ![t] = p],
             UNCHANGED <<listVars, data, msg, buffer>>
      PROVE  UNCHANGED ChannelVars
  <2>1. AbstractQueue' = AbstractQueue
    BY <1>1 DEF AbstractQueue, QueuedNodes, IsChain, listVars
  <2>2. pc'[t] = p /\ \A u \in Threads : u # t => pc'[u] = pc[u]
    BY <1>1 DEF QueueInv, TypeOK
  <2>3. AbstractRole' = AbstractRole /\ AbstractHand' = AbstractHand
    BY <1>1, <2>2, UserKept, RoleValues
  <2> QED BY <2>1, <2>3 DEF ChannelVars
<1>2. CASE UNCHANGED vars
  BY <1>2 DEF vars, listVars, ChannelVars, AbstractQueue, QueuedNodes, IsChain,
              AbstractRole, AbstractHand
<1>3. ASSUME NEW t \in Producers, NEW m \in Messages,
             NEW call \in {"send", "urgent"}, Claim(t, m, call)
      PROVE  Abstract!Next
  BY <1>3, ClaimBegins, QueueConstants
<1>4. ASSUME NEW t \in Producers, Fill(t) \/ Link(t)
      PROVE  Abstract!Next \/ UNCHANGED ChannelVars
  BY <1>4, FillStutters, LinkPublishes, QueueConstants
<1>5. ASSUME NEW t \in Consumers, NEW w \in Waits, Recv(t, w)
      PROVE  Abstract!Next \/ UNCHANGED ChannelVars
  <2>1. w \in {NoWait, Timed, Forever} /\ t \in Threads
    BY QueueConstants
  <2> QED BY <1>5, <2>1, RecvPassTakes DEF Recv
<1>6. ASSUME NEW t \in Consumers, RecvResumed(t)
      PROVE  Abstract!Next \/ UNCHANGED ChannelVars
  <2>1. t \in Threads /\ pc[t] = "resumed"
    BY <1>6, QueueConstants DEF RecvResumed
  <2>2. CASE error[t] = "EOK"
    <3>1. PICK w \in IF timeout[t] = Timed THEN {Timed, NoWait} ELSE {timeout[t]} :
              RecvPass(t, w)
      BY <1>6, <2>2 DEF RecvResumed
    <3>2. w \in {NoWait, Timed, Forever}
      BY <2>1, <3>1 DEF QueueInv, TypeOK
    <3> QED BY <2>1, <3>1, <3>2, RecvPassTakes
  <2>3. CASE error[t] # "EOK"
    BY <1>1, <1>6, <2>1, <2>3 DEF RecvResumed
  <2> QED BY <2>2, <2>3
<1>7. ASSUME NEW t \in Consumers, CopyAndFree(t)
      PROVE  Abstract!Next \/ UNCHANGED ChannelVars
  BY <1>7, CopyAndFreeReleases, QueueConstants
<1>8. ASSUME NEW t \in Consumers, Timeout(t)
      PROVE  UNCHANGED ChannelVars
  BY <1>1, <1>8, QueueConstants DEF Timeout
<1>9. CASE Reset
  <2>1. /\ entry' = 0 /\ UNCHANGED <<data, msg, buffer>>
        /\ pc' = [t \in Threads |-> IF pc[t] = "asleep" THEN "resumed" ELSE pc[t]]
    BY <1>9 DEF Reset
  <2>2. AbstractQueue' = <<>>
    BY <2>1 DEF AbstractQueue
  <2>3. AbstractRole' = AbstractRole
    <3>1. \A t \in Threads : RoleOf(pc'[t]) = RoleOf(pc[t])
      BY <2>1, RoleValues
    <3> QED BY <3>1, Roles
  <2>4. AbstractHand' = AbstractHand
    <3>1. ASSUME NEW t \in Threads
          PROVE  /\ pc[t] # "asleep" => pc'[t] = pc[t]
                 /\ pc[t] = "asleep" => pc'[t] = "resumed"
      BY <2>1
    <3>2. ASSUME NEW t \in Threads
          PROVE  (IF pc'[t] \in {"send_link", "urgent_link", "recv_copy"}
                  THEN data'[msg'[t]] ELSE buffer'[t])
                 = IF pc[t] \in {"send_link", "urgent_link", "recv_copy"}
                   THEN data[msg[t]] ELSE buffer[t]
      <4>1. /\ data'[msg'[t]] = data[msg[t]]
            /\ buffer'[t] = buffer[t]
        BY <2>1
      <4> QED BY <3>1, <4>1
    <3> QED BY <3>2 DEF AbstractHand
  <2>5. Abstract!Clear
    BY <2>2, <2>3, <2>4 DEF Abstract!Clear
  <2> QED BY <2>5 DEF Abstract!Next
<1> QED BY <1>2, <1>3, <1>4, <1>5, <1>6, <1>7, <1>8, <1>9 DEF Next

\* The queue of ipc.c, two linked lists that every call lets go of half-way, is a
\* MessageChannel: what is sent arrives once, unaltered and in order, and no
\* more than max_msgs messages are under way.
THEOREM QueueRefinement == Spec => ImplementsChannel
<1>1. Init => Abstract!Init
  BY DEF Init, Abstract!Init, AbstractQueue, AbstractRole, AbstractHand, Receivers
<1> QED BY <1>1, StepRefines, QueueInvariant, PTL
        DEF Spec, ImplementsChannel, Abstract!Spec, ChannelVars
=============================================================================
