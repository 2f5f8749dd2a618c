---------------------------- MODULE RtThread_proof ----------------------------
(***************************************************************************)
(* Proofs about RtThread for every set of threads and priorities, every    *)
(* width of the clock and any number of keys: the ready lists, the bitmap  *)
(* and the timers say what the stats say, the best ready thread runs, no   *)
(* permit is made or lost, and the timers end on time across the wrap.     *)
(*                                                                         *)
(* ThreadInv is the inductive invariant.  Its parts need one another:      *)
(*   KernelInv  the lists of the kernel and the stats agree: without it    *)
(*              removing a thread could empty a list the bitmap keeps;     *)
(*   SchedInv   the choice is the best, or the running thread is on its    *)
(*              way to rt_schedule: that is why interrupts between the     *)
(*              section and the call do no harm;                           *)
(*   PcInv, StartInv, CheckInv  where a thread that was not started, main  *)
(*              in rt_timer_start and rt_timer_check in its loop can be;   *)
(*   WaitInv, PermInv  who waits was settled as it asked, but for the set  *)
(*              S of waits a key came into, each of which was paid by one  *)
(*              key and is off by at most one permit.                      *)
(* TimeInv adds the time: the list is sorted by the ticks left, a timeout  *)
(* is congruent to what is left from now on, and only the periodic timer   *)
(* is late, by Late ticks at most: MaxLate, and KeyDelay for every key     *)
(* that kept main between the halves of rt_timer_start.                    *)
(*                                                                         *)
(* The operations of the kernel are functions of its record: a lemma says  *)
(* of each what it does to which fields (q before, r after), and the       *)
(* lemmas about steps, one for each action, use only these.                *)
(***************************************************************************)
EXTENDS RtThread, SequenceTheorems, FiniteSetTheorems, TLAPS

-----------------------------------------------------------------------------
(* Numbers *)

\* The induction theorems of the library take the property as an operator; a
\* proof by induction is written here as one by the least counterexample, and
\* the principle comes from the well-foundedness of inclusion among finite sets.

\* The numbers before n, a finite set that grows with n.
Below(n) == 0 .. n - 1

\* Every non-empty set of natural numbers has a least element.
THEOREM LeastNatural ==
  ASSUME NEW T \in SUBSET Nat, T # {}
  PROVE  \E n \in T : \A m \in T : n <= m
<1> DEFINE F == {Below(n) : n \in T}
<1>1. F \subseteq FiniteSubsetsOf(Nat)
  <2>1. ASSUME NEW n \in T
        PROVE  Below(n) \in SUBSET Nat /\ IsFiniteSet(Below(n))
    BY FS_Interval DEF Below
  <2> QED BY <2>1 DEF FiniteSubsetsOf
<1>2. F # {}
  OBVIOUS
<1>3. \E x \in F : \A y \in F : <<y, x>> \notin StrictSubsetOrdering(Nat)
  <2>1. IsWellFoundedOn(StrictSubsetOrdering(Nat), FiniteSubsetsOf(Nat))
    BY FS_StrictSubsetOrderingWellFounded
  <2> HIDE DEF F
  <2> QED BY <1>1, <1>2, <2>1, WFMin
<1>4. PICK n \in T :
          \A m \in T : <<Below(m), Below(n)>> \notin StrictSubsetOrdering(Nat)
  BY <1>3
<1>5. ASSUME NEW m \in T, m < n
      PROVE  FALSE
  <2>1. m \in Below(n) /\ m \notin Below(m) /\ Below(m) \subseteq Below(n)
    BY <1>5 DEF Below
  <2>2. Below(m) \in SUBSET Nat /\ Below(n) \in SUBSET Nat
    BY DEF Below
  <2> HIDE DEF F
  <2> QED BY <1>4, <2>1, <2>2 DEF StrictSubsetOrdering
<1> QED BY <1>5

-----------------------------------------------------------------------------
(* Sequences *)

\* The sequence s lists the set S, each element once.
Lists(s, S) == IsInjective(s) /\ ToSet(s) = S

\* What a sequence lists.
LEMMA ToSetSeq ==
  ASSUME NEW S, NEW s \in Seq(S)
  PROVE  /\ ToSet(s) = {s[i] : i \in 1 .. Len(s)}
         /\ ToSet(s) \subseteq S
BY DEF ToSet

\* RemoveAt closes the gap.
LEMMA RemoveAtIs ==
  ASSUME NEW S, NEW s \in Seq(S), NEW n \in 1 .. Len(s)
  PROVE  /\ RemoveAt(s, n) \in Seq(S)
         /\ Len(RemoveAt(s, n)) = Len(s) - 1
         /\ \A i \in 1 .. Len(s) - 1 :
               RemoveAt(s, n)[i] = IF i < n THEN s[i] ELSE s[i + 1]
<1> DEFINE a == SubSeq(s, 1, n - 1)
           b == SubSeq(s, n + 1, Len(s))
<1>1. /\ a \in Seq(S) /\ Len(a) = n - 1
      /\ \A i \in 1 .. n - 1 : a[i] = s[i]
  <2>1. \A i \in 1 .. n - 1 : s[i] \in S
    OBVIOUS
  <2> QED BY <2>1, SubSeqProperties
<1>2. /\ b \in Seq(S) /\ Len(b) = Len(s) - n
      /\ \A i \in 1 .. Len(s) - n : b[i] = s[n + i]
  <2>1. \A i \in n + 1 .. Len(s) : s[i] \in S
    OBVIOUS
  <2>2. /\ SubSeq(s, n + 1, Len(s)) \in Seq(S)
        /\ Len(SubSeq(s, n + 1, Len(s)))
              = IF n + 1 <= Len(s) THEN Len(s) - (n + 1) + 1 ELSE 0
        /\ \A i \in 1 .. Len(s) - (n + 1) + 1 :
              SubSeq(s, n + 1, Len(s))[i] = s[(n + 1) + i - 1]
    BY <2>1, SubSeqProperties
  <2> QED BY <2>2
<1> HIDE DEF a, b
<1>3. /\ a \o b \in Seq(S)
      /\ Len(a \o b) = Len(a) + Len(b)
      /\ \A i \in 1 .. Len(a) + Len(b) :
            (a \o b)[i] = IF i <= Len(a) THEN a[i] ELSE b[i - Len(a)]
  BY <1>1, <1>2, ConcatProperties
<1>4. RemoveAt(s, n) = a \o b
  BY DEF RemoveAt, a, b
<1>5. ASSUME NEW i \in 1 .. Len(s) - 1
      PROVE  (a \o b)[i] = IF i < n THEN s[i] ELSE s[i + 1]
  <2>1. CASE i < n
    BY <2>1, <1>1, <1>2, <1>3
  <2>2. CASE ~(i < n)
    <3>1. i - Len(a) \in 1 .. Len(s) - n /\ ~(i <= Len(a))
      BY <2>2, <1>1
    <3>2. (a \o b)[i] = b[i - Len(a)]
      BY <3>1, <1>1, <1>2, <1>3, SMTT(30)
    <3>3. n + (i - Len(a)) = i + 1 /\ ~(i < n)
      BY <1>1, <2>2
    <3>4. b[i - Len(a)] = s[n + (i - Len(a))]
      BY <3>1, <1>2
    <3> QED BY <3>2, <3>3, <3>4
  <2> QED BY <2>1, <2>2
<1>6. Len(a) + Len(b) = Len(s) - 1
  BY <1>1, <1>2
<1> QED BY <1>3, <1>4, <1>5, <1>6

\* InsertAt makes room.
LEMMA InsertAtIs ==
  ASSUME NEW S, NEW s \in Seq(S), NEW n \in 1 .. Len(s) + 1, NEW e \in S
  PROVE  /\ InsertAt(s, n, e) \in Seq(S)
         /\ Len(InsertAt(s, n, e)) = Len(s) + 1
         /\ \A i \in 1 .. Len(s) + 1 :
               InsertAt(s, n, e)[i]
                  = IF i < n THEN s[i] ELSE IF i = n THEN e ELSE s[i - 1]
<1> DEFINE a == SubSeq(s, 1, n - 1)
           b == SubSeq(s, n, Len(s))
           c == Append(a, e)
<1>1. /\ a \in Seq(S) /\ Len(a) = n - 1
      /\ \A i \in 1 .. n - 1 : a[i] = s[i]
  <2>1. \A i \in 1 .. n - 1 : s[i] \in S
    OBVIOUS
  <2> QED BY <2>1, SubSeqProperties
<1>2. /\ b \in Seq(S) /\ Len(b) = Len(s) - n + 1
      /\ \A i \in 1 .. Len(s) - n + 1 : b[i] = s[n + i - 1]
  <2>1. \A i \in n .. Len(s) : s[i] \in S
    OBVIOUS
  <2> QED BY <2>1, SubSeqProperties
<1> HIDE DEF a, b
<1>3. /\ c \in Seq(S) /\ Len(c) = n
      /\ \A i \in 1 .. n : c[i] = IF i < n THEN s[i] ELSE e
  <2>1. /\ Append(a, e) \in Seq(S) /\ Len(Append(a, e)) = Len(a) + 1
        /\ \A i \in 1 .. Len(a) : Append(a, e)[i] = a[i]
        /\ Append(a, e)[Len(a) + 1] = e
    BY <1>1, AppendProperties
  <2> QED BY <1>1, <2>1
<1>4. InsertAt(s, n, e) = c \o b
  <2>1. Append(a, e) = a \o <<e>>
    BY <1>1, AppendIsConcat
  <2> QED BY <2>1 DEF InsertAt, a, b
<1> HIDE DEF c
<1>5. /\ c \o b \in Seq(S)
      /\ Len(c \o b) = Len(c) + Len(b)
      /\ \A i \in 1 .. Len(c) + Len(b) :
            (c \o b)[i] = IF i <= Len(c) THEN c[i] ELSE b[i - Len(c)]
  BY <1>2, <1>3, ConcatProperties
<1>6. ASSUME NEW i \in 1 .. Len(s) + 1
      PROVE  (c \o b)[i]
                = IF i < n THEN s[i] ELSE IF i = n THEN e ELSE s[i - 1]
  <2>1. CASE i <= n
    BY <2>1, <1>2, <1>3, <1>5
  <2>2. CASE ~(i <= n)
    <3>1. i - Len(c) \in 1 .. Len(s) - n + 1 /\ ~(i <= Len(c))
      BY <2>2, <1>3
    <3>2. (c \o b)[i] = b[i - Len(c)]
      BY <3>1, <1>2, <1>3, <1>5
    <3>3. n + (i - Len(c)) - 1 = i - 1 /\ ~(i < n) /\ i # n
      BY <1>3, <2>2
    <3>4. b[i - Len(c)] = s[n + (i - Len(c)) - 1]
      BY <3>1, <1>2
    <3> QED BY <3>2, <3>3, <3>4
  <2> QED BY <2>1, <2>2
<1>7. Len(c) + Len(b) = Len(s) + 1
  BY <1>2, <1>3
<1> QED BY <1>4, <1>5, <1>6, <1>7

\* Removing the place of the one element, if any: the others keep their order.
LEMMA RemovedIs ==
  ASSUME NEW S, NEW s \in Seq(S), NEW at \in SUBSET (1 .. Len(s)),
         \A i, j \in at : i = j
  PROVE  /\ Removed(s, at) \in Seq(S)
         /\ ToSet(Removed(s, at)) = {s[i] : i \in (1 .. Len(s)) \ at}
         /\ \E f \in [1 .. Len(Removed(s, at)) -> (1 .. Len(s)) \ at] :
               /\ \A i \in 1 .. Len(Removed(s, at)) : Removed(s, at)[i] = s[f[i]]
               /\ \A i, j \in 1 .. Len(Removed(s, at)) : i < j => f[i] < f[j]
<1>1. CASE at = {}
  <2>1. Removed(s, at) = s
    BY <1>1 DEF Removed
  <2> DEFINE f == [i \in 1 .. Len(s) |-> i]
  <2>2. f \in [1 .. Len(s) -> (1 .. Len(s)) \ at]
    BY <1>1
  <2>3. ToSet(s) = {s[i] : i \in (1 .. Len(s)) \ at}
    BY <1>1 DEF ToSet
  <2>4. /\ \A i \in 1 .. Len(s) : s[i] = s[f[i]]
        /\ \A i, j \in 1 .. Len(s) : i < j => f[i] < f[j]
    OBVIOUS
  <2> HIDE DEF f
  <2> QED BY <2>1, <2>2, <2>3, <2>4
<1>2. CASE at # {}
  <2>1. PICK n \in at : at = {n}
    BY <1>2
  <2>2. Removed(s, at) = RemoveAt(s, n)
    BY <2>1 DEF Removed
  <2> DEFINE r == RemoveAt(s, n)
             f == [i \in 1 .. Len(s) - 1 |-> IF i < n THEN i ELSE i + 1]
  <2>3. /\ r \in Seq(S) /\ Len(r) = Len(s) - 1
        /\ \A i \in 1 .. Len(s) - 1 : r[i] = IF i < n THEN s[i] ELSE s[i + 1]
    BY <2>1, RemoveAtIs
  <2> HIDE DEF r
  <2>4. f \in [1 .. Len(s) - 1 -> (1 .. Len(s)) \ at]
    BY <2>1
  <2>5. \A i \in 1 .. Len(s) - 1 : r[i] = s[f[i]]
    BY <2>3
  <2>6. \A i, j \in 1 .. Len(s) - 1 : i < j => f[i] < f[j]
    BY <2>1
  <2>7. ToSet(r) = {s[i] : i \in (1 .. Len(s)) \ at}
    <3>1. ASSUME NEW i \in (1 .. Len(s)) \ at
          PROVE  \E j \in 1 .. Len(r) : r[j] = s[i]
      <4>1. CASE i < n
        BY <4>1, <2>1, <2>3
      <4>2. CASE i > n
        <5>1. i - 1 \in 1 .. Len(s) - 1 /\ ~(i - 1 < n) /\ (i - 1) + 1 = i
          BY <4>2, <2>1
        <5>2. r[i - 1] = s[(i - 1) + 1]
          BY <5>1, <2>3
        <5> QED BY <5>1, <5>2, <2>3
      <4> QED BY <4>1, <4>2, <2>1
    <3>2. \A j \in 1 .. Len(r) : r[j] \in {s[i] : i \in (1 .. Len(s)) \ at}
      BY <2>3, <2>4, <2>5
    <3>3. ToSet(r) = {r[i] : i \in 1 .. Len(r)}
      BY <2>3 DEF ToSet
    <3> QED BY <3>1, <3>2, <3>3
  <2> HIDE DEF f
  <2> QED BY <2>2, <2>3, <2>4, <2>5, <2>6, <2>7 DEF r
<1> QED BY <1>1, <1>2

\* Without takes out the one place of x.
LEMMA WithoutIs ==
  ASSUME NEW S, NEW s \in Seq(S), IsInjective(s), NEW x
  PROVE  /\ Without(s, x) \in Seq(S)
         /\ Lists(Without(s, x), ToSet(s) \ {x})
<1> DEFINE at == {i \in DOMAIN s : s[i] = x}
<1>1. at \in SUBSET (1 .. Len(s)) /\ \A i, j \in at : i = j
  BY DEF IsInjective
<1>2. Without(s, x) = Removed(s, at)
  BY DEF Without
<1>3. {s[i] : i \in (1 .. Len(s)) \ at} = ToSet(s) \ {x}
  BY DEF ToSet
<1> HIDE DEF at
<1> DEFINE r == Removed(s, at)
<1>4. /\ r \in Seq(S)
      /\ ToSet(r) = {s[i] : i \in (1 .. Len(s)) \ at}
      /\ \E f \in [1 .. Len(r) -> (1 .. Len(s)) \ at] :
               /\ \A i \in 1 .. Len(r) : r[i] = s[f[i]]
               /\ \A i, j \in 1 .. Len(r) : i < j => f[i] < f[j]
  BY <1>1, RemovedIs
<1> HIDE DEF r
<1>5. IsInjective(r)
  <2>1. PICK f \in [1 .. Len(r) -> (1 .. Len(s)) \ at] :
               /\ \A i \in 1 .. Len(r) : r[i] = s[f[i]]
               /\ \A i, j \in 1 .. Len(r) : i < j => f[i] < f[j]
    BY <1>4
  <2>2. SUFFICES ASSUME NEW i \in 1 .. Len(r), NEW j \in 1 .. Len(r),
                        r[i] = r[j], i < j
                 PROVE  FALSE
    BY <1>4 DEF IsInjective
  <2>3. f[i] \in 1 .. Len(s) /\ f[j] \in 1 .. Len(s) /\ f[i] < f[j]
    BY <2>1, <2>2
  <2>4. s[f[i]] = s[f[j]]
    BY <2>1, <2>2
  <2> QED BY <2>3, <2>4 DEF IsInjective
<1> QED BY <1>2, <1>3, <1>4, <1>5 DEF Lists, r

\* Appending what is not listed yet.
LEMMA AppendLists ==
  ASSUME NEW S, NEW s \in Seq(S), NEW T, Lists(s, T), NEW x \in S \ T
  PROVE  Append(s, x) \in Seq(S) /\ Lists(Append(s, x), T \cup {x})
<1> DEFINE r == Append(s, x)
<1>1. /\ r \in Seq(S) /\ Len(r) = Len(s) + 1
      /\ \A i \in 1 .. Len(s) : r[i] = s[i]
      /\ r[Len(s) + 1] = x
  BY AppendProperties
<1> HIDE DEF r
<1>2. ToSet(s) = {s[i] : i \in 1 .. Len(s)} /\ ToSet(r) = {r[i] : i \in 1 .. Len(r)}
  BY <1>1, ToSetSeq
<1>3. ToSet(r) = T \cup {x}
  BY <1>1, <1>2 DEF Lists
<1>4. \A i \in 1 .. Len(s) : s[i] # x
  BY <1>2 DEF Lists
<1>5. IsInjective(r)
  BY <1>1, <1>4 DEF IsInjective, Lists
<1> QED BY <1>1, <1>3, <1>5 DEF Lists, r

\* Putting in front what is not listed yet.
LEMMA PrependLists ==
  ASSUME NEW S, NEW s \in Seq(S), NEW T, Lists(s, T), NEW x \in S \ T
  PROVE  <<x>> \o s \in Seq(S) /\ Lists(<<x>> \o s, T \cup {x})
<1> DEFINE r == <<x>> \o s
<1>1. /\ r \in Seq(S) /\ Len(r) = Len(s) + 1
      /\ \A i \in 1 .. Len(s) : r[i + 1] = s[i]
      /\ r[1] = x
  OBVIOUS
<1> HIDE DEF r
<1>2. ToSet(s) = {s[i] : i \in 1 .. Len(s)} /\ ToSet(r) = {r[i] : i \in 1 .. Len(r)}
  BY <1>1, ToSetSeq
<1>3. \A i \in 1 .. Len(r) : r[i] = IF i = 1 THEN x ELSE s[i - 1]
  <2>1. ASSUME NEW i \in 1 .. Len(r), i # 1
        PROVE  r[i] = s[i - 1]
    <3>1. i - 1 \in 1 .. Len(s) /\ (i - 1) + 1 = i
      BY <1>1, <2>1
    <3> QED BY <3>1, <1>1
  <2> QED BY <1>1, <2>1
<1>4. ToSet(r) = T \cup {x}
  <2>1. ToSet(r) \subseteq T \cup {x}
    BY <1>1, <1>2, <1>3 DEF Lists
  <2>2. \A i \in 1 .. Len(s) : i + 1 \in 1 .. Len(r) /\ r[i + 1] = s[i]
    BY <1>1
  <2>3. 1 \in 1 .. Len(r)
    BY <1>1
  <2>4. T \cup {x} \subseteq ToSet(r)
    BY <1>1, <1>2, <2>2, <2>3 DEF Lists
  <2> QED BY <2>1, <2>4
<1>5. \A i \in 1 .. Len(s) : s[i] # x
  BY <1>2 DEF Lists
<1>6. IsInjective(r)
  <2>1. ASSUME NEW i \in 1 .. Len(r), NEW j \in 1 .. Len(r), r[i] = r[j]
        PROVE  i = j
    <3>1. CASE i = 1 \/ j = 1
      BY <1>1, <1>3, <1>5, <2>1, <3>1
    <3>2. CASE i # 1 /\ j # 1
      <4>1. i - 1 \in 1 .. Len(s) /\ j - 1 \in 1 .. Len(s) /\ s[i - 1] = s[j - 1]
        BY <1>1, <1>3, <2>1, <3>2
      <4> QED BY <4>1 DEF IsInjective, Lists
    <3> QED BY <3>1, <3>2
  <2> QED BY <1>1, <2>1 DEF IsInjective
<1> QED BY <1>1, <1>4, <1>6 DEF Lists, r

\* The tail lists a part, each element once.
LEMMA TailLists ==
  ASSUME NEW S, NEW s \in Seq(S), IsInjective(s), s # <<>>
  PROVE  /\ Tail(s) \in Seq(S) /\ IsInjective(Tail(s))
         /\ ToSet(Tail(s)) \subseteq ToSet(s)
<1> DEFINE r == Tail(s)
<1>1. /\ r \in Seq(S) /\ Len(r) = Len(s) - 1
      /\ \A i \in 1 .. Len(r) : r[i] = s[i + 1]
  BY HeadTailProperties
<1> HIDE DEF r
<1>2. ToSet(s) = {s[i] : i \in 1 .. Len(s)} /\ ToSet(r) = {r[i] : i \in 1 .. Len(r)}
  BY <1>1, ToSetSeq
<1>3. \A i \in 1 .. Len(r) : i + 1 \in 1 .. Len(s)
  BY <1>1
<1> QED BY <1>1, <1>2, <1>3 DEF IsInjective, r

\* Only the empty sequence lists nothing.
LEMMA EmptyToSet ==
  ASSUME NEW S, NEW s \in Seq(S)
  PROVE  /\ s = <<>> <=> ToSet(s) = {}
         /\ s # <<>> => Head(s) \in ToSet(s) /\ 1 \in DOMAIN s /\ Head(s) = s[1]
<1>1. s # <<>> => 1 \in DOMAIN s /\ Head(s) = s[1]
  OBVIOUS
<1>2. Len(s) \in Nat /\ (s = <<>> <=> Len(s) = 0)
  BY EmptySeq
<1>3. s # <<>> => 1 \in 1 .. Len(s)
  BY <1>2
<1>4. ToSet(s) = {s[i] : i \in 1 .. Len(s)}
  BY DEF ToSet
<1> QED BY <1>1, <1>2, <1>3, <1>4

-----------------------------------------------------------------------------
(* The invariants of the kernel, and the ready lists *)

\* What a thread's stat, a thread's error and an entry of the timer list may be.
Stats   == {"init", "ready", "suspend", "close"}
Errors  == {"EOK", "ETIMEOUT"}
Timers  == Threads \cup {Periodic}
Entries == [timer : Timers, timeout : Int, left : Int]

Kernels ==
    [stat : [Threads -> Stats], error : [Threads -> Errors],
     ready : [Prios -> Seq(Threads)], group : SUBSET Prios,
     current : Threads, pending : BOOLEAN, ticked : BOOLEAN,
     lost : BOOLEAN, checking : BOOLEAN, remaining : [Threads -> Int],
     tick : Int, timers : Seq(Entries), active : SUBSET Timers,
     value : Nat, waiters : Seq(Threads), granted : SUBSET Threads,
     defunct : Seq(Threads)]
Labels == DOMAIN Resumes \cup {"go", "slept", "took", "gone", "inside", "starting"}
Having(q, stat) == {t \in Threads : q.stat[t] = stat}

ReadyInv(q) ==
    /\ \A p \in Prios : Lists(q.ready[p], {t \in Having(q, "ready") : Prio[t] = p})
    /\ q.group = {p \in Prios : q.ready[p] # <<>>}
WaitersInv(q) == IsInjective(q.waiters) /\ ToSet(q.waiters) \subseteq Having(q, "suspend")
DefunctInv(q) == IsInjective(q.defunct) /\ ToSet(q.defunct) \subseteq Having(q, "close")

\* No timer is in the list twice.
OneEach(s) == \A i, j \in DOMAIN s : s[i].timer = s[j].timer => i = j

TimersInv(q) ==
    /\ OneEach(q.timers) /\ q.active = Listed(q)
    /\ q.active \cap Threads \subseteq Having(q, "suspend")

KernelInv(q) ==
    q \in Kernels /\ ReadyInv(q) /\ WaitersInv(q) /\ DefunctInv(q) /\ TimersInv(q)

\* There are finitely many priorities, numbers all.
LEMMA PriosAreNat == /\ Prio \in [Threads -> Prios]
                     /\ Prios \subseteq Nat /\ IsFiniteSet(Prios)
<1>1. Prios \subseteq Nat /\ Prio \in [Threads -> Prios]
  BY ThreadConstants DEF Prios
<1>2. Prio \in Surjection(Threads, Prios)
  BY <1>1 DEF Surjection, Prios
<1> QED BY <1>1, <1>2, ThreadConstants, FS_Surjection

\* From q to r: the stat of t becomes v, and t leaves or joins its ready list.
StatIs(q, r, t, v) == r.stat = [q.stat EXCEPT ![t] = v]

ReadyLess(q, r, t) ==
    LET left == Without(q.ready[Prio[t]], t)
    IN  /\ r.ready = [q.ready EXCEPT ![Prio[t]] = left]
        /\ r.group = IF left = <<>> THEN q.group \ {Prio[t]} ELSE q.group

ReadyMore(q, r, t) ==
    /\ r.ready = [q.ready EXCEPT ![Prio[t]] = Append(@, t)]
    /\ r.group = q.group \cup {Prio[t]}

\* A thread that becomes ready.
LEMMA ReadyAdded ==
  ASSUME NEW q \in Kernels, ReadyInv(q), NEW t \in Threads, q.stat[t] # "ready",
         NEW r,
         StatIs(q, r, t, "ready"), ReadyMore(q, r, t)
  PROVE  r.ready \in [Prios -> Seq(Threads)] /\ r.group \in SUBSET Prios /\ ReadyInv(r)
<1>1. /\ q.stat \in [Threads -> Stats] /\ q.ready \in [Prios -> Seq(Threads)]
      /\ q.group \in SUBSET Prios
  BY DEF Kernels
<1>0. /\ r.stat = [q.stat EXCEPT ![t] = "ready"]
      /\ r.ready = [q.ready EXCEPT ![Prio[t]] = Append(@, t)]
      /\ r.group = q.group \cup {Prio[t]}
  BY DEF StatIs, ReadyMore
<1>2. Prio[t] \in Prios
  BY PriosAreNat
<1> DEFINE P == Prio[t]
           T(p) == {u \in Having(q, "ready") : Prio[u] = p}
<1>3. \A p \in Prios : Lists(q.ready[p], T(p))
  BY DEF ReadyInv
<1>4. t \in Threads \ T(P)
  BY DEF Having
<1>5. /\ Append(q.ready[P], t) \in Seq(Threads)
      /\ Lists(Append(q.ready[P], t), T(P) \cup {t})
  <2>1. q.ready[P] \in Seq(Threads) /\ Lists(q.ready[P], T(P))
    BY <1>1, <1>2, <1>3
  <2> HIDE DEF T, P
  <2> QED BY <2>1, <1>4, AppendLists
<1>6. Append(q.ready[P], t) # <<>>
  <2>1. q.ready[P] \in Seq(Threads)
    BY <1>1, <1>2
  <2> QED BY <2>1, AppendProperties
<1>7. r.ready \in [Prios -> Seq(Threads)]
  BY <1>0, <1>1, <1>2, <1>5
<1>8. \A p \in Prios : {u \in Having(r, "ready") : Prio[u] = p}
                          = IF p = P THEN T(P) \cup {t} ELSE T(p)
  BY <1>0, <1>1 DEF Having
<1>9. \A p \in Prios : r.ready[p] = IF p = P THEN Append(q.ready[P], t) ELSE q.ready[p]
  BY <1>0, <1>1
<1> HIDE DEF T
<1>10. r.group = {p \in Prios : r.ready[p] # <<>>}
  BY <1>0, <1>1, <1>2, <1>6, <1>9 DEF ReadyInv
<1>11. \A p \in Prios : Lists(r.ready[p], {u \in Having(r, "ready") : Prio[u] = p})
  BY <1>3, <1>5, <1>8, <1>9
<1> QED BY <1>0, <1>1, <1>2, <1>7, <1>10, <1>11 DEF ReadyInv

\* A thread that no longer is.
LEMMA ReadyRemoved ==
  ASSUME NEW q \in Kernels, ReadyInv(q), NEW t \in Threads,
         NEW v \in Stats \ {"ready"},
         NEW r, StatIs(q, r, t, v), ReadyLess(q, r, t)
  PROVE  r.ready \in [Prios -> Seq(Threads)] /\ r.group \in SUBSET Prios /\ ReadyInv(r)
<1>1. /\ q.stat \in [Threads -> Stats] /\ q.ready \in [Prios -> Seq(Threads)]
      /\ q.group \in SUBSET Prios
  BY DEF Kernels
<1> DEFINE left == Without(q.ready[Prio[t]], t)
<1>0. /\ r.stat = [q.stat EXCEPT ![t] = v]
      /\ r.ready = [q.ready EXCEPT ![Prio[t]] = left]
      /\ r.group = IF left = <<>> THEN q.group \ {Prio[t]} ELSE q.group
  BY DEF StatIs, ReadyLess
<1>a. left = Without(q.ready[Prio[t]], t)
  OBVIOUS
<1> HIDE DEF left
<1>2. Prio[t] \in Prios
  BY PriosAreNat
<1> DEFINE P == Prio[t]
           T(p) == {u \in Having(q, "ready") : Prio[u] = p}
<1>3. \A p \in Prios : Lists(q.ready[p], T(p))
  BY DEF ReadyInv
<1>5. left \in Seq(Threads) /\ Lists(left, T(P) \ {t})
  <2>1. /\ q.ready[P] \in Seq(Threads) /\ IsInjective(q.ready[P])
        /\ ToSet(q.ready[P]) = T(P)
    BY <1>1, <1>2, <1>3 DEF Lists
  <2> HIDE DEF T, P
  <2>2. left = Without(q.ready[P], t)
    BY <1>a DEF P
  <2>3. /\ Without(q.ready[P], t) \in Seq(Threads)
        /\ Lists(Without(q.ready[P], t), ToSet(q.ready[P]) \ {t})
    BY <2>1, WithoutIs
  <2> QED BY <2>1, <2>2, <2>3
<1>7. r.ready \in [Prios -> Seq(Threads)]
  BY <1>0, <1>1, <1>2, <1>5
<1>8. \A p \in Prios : {u \in Having(r, "ready") : Prio[u] = p}
                          = IF p = P THEN T(P) \ {t} ELSE T(p)
  BY <1>0, <1>1 DEF Having
<1>9. \A p \in Prios : r.ready[p] = IF p = P THEN left ELSE q.ready[p]
  BY <1>0, <1>1
<1> HIDE DEF T
<1>10. r.group = {p \in Prios : r.ready[p] # <<>>}
  <2>1. q.group = {p \in Prios : q.ready[p] # <<>>}
    BY DEF ReadyInv
  <2>2. q.ready[P] = <<>> => left = <<>>
    <3>1. ASSUME q.ready[P] = <<>> PROVE ToSet(left) = {}
      <4>1. ToSet(q.ready[P]) = {}
        BY <3>1 DEF ToSet
      <4> QED BY <4>1, <1>2, <1>3, <1>5 DEF Lists
    <3> QED BY <3>1, <1>5, EmptyToSet
  <2> QED BY <1>0, <1>2, <1>9, <2>1, <2>2
<1>11. \A p \in Prios : Lists(r.ready[p], {u \in Having(r, "ready") : Prio[u] = p})
  BY <1>3, <1>5, <1>8, <1>9
<1> QED BY <1>0, <1>1, <1>2, <1>7, <1>10, <1>11 DEF ReadyInv

-----------------------------------------------------------------------------
(* The list of timers *)

\* The list is in the order of the ticks left.
Sorted(s) == \A i, j \in DOMAIN s : i < j => s[i].left <= s[j].left

\* Taking the entry of x out of the list of timers.
LEMMA TakenOut ==
  ASSUME NEW s \in Seq(Entries), OneEach(s), NEW x,
         NEW at \in SUBSET (1 .. Len(s)),
         \A i \in 1 .. Len(s) : i \in at <=> s[i].timer = x,
         NEW r, r = Removed(s, at)
  PROVE  /\ r \in Seq(Entries) /\ OneEach(r)
         /\ ToSet(r) = {e \in ToSet(s) : e.timer # x}
         /\ Sorted(s) => Sorted(r)
<1>1. at \in SUBSET (1 .. Len(s)) /\ \A i, j \in at : i = j
  BY DEF OneEach
<1>3. {s[i] : i \in (1 .. Len(s)) \ at} = {e \in ToSet(s) : e.timer # x}
  BY DEF ToSet
<1>2. r = Removed(s, at)
  OBVIOUS
<1>4. /\ r \in Seq(Entries)
      /\ ToSet(r) = {s[i] : i \in (1 .. Len(s)) \ at}
      /\ \E f \in [1 .. Len(r) -> (1 .. Len(s)) \ at] :
               /\ \A i \in 1 .. Len(r) : r[i] = s[f[i]]
               /\ \A i, j \in 1 .. Len(r) : i < j => f[i] < f[j]
  <2>1. /\ Removed(s, at) \in Seq(Entries)
        /\ ToSet(Removed(s, at)) = {s[i] : i \in (1 .. Len(s)) \ at}
        /\ \E f \in [1 .. Len(Removed(s, at)) -> (1 .. Len(s)) \ at] :
               /\ \A i \in 1 .. Len(Removed(s, at)) : Removed(s, at)[i] = s[f[i]]
               /\ \A i, j \in 1 .. Len(Removed(s, at)) : i < j => f[i] < f[j]
    BY <1>1, RemovedIs
  <2> QED BY ONLY <1>2, <2>1
<1>5. PICK f \in [1 .. Len(r) -> (1 .. Len(s)) \ at] :
               /\ \A i \in 1 .. Len(r) : r[i] = s[f[i]]
               /\ \A i, j \in 1 .. Len(r) : i < j => f[i] < f[j]
  BY <1>4
<1>6. \A i, j \in 1 .. Len(r) : i < j =>
         /\ f[i] \in 1 .. Len(s) /\ f[j] \in 1 .. Len(s) /\ f[i] < f[j]
         /\ r[i] = s[f[i]] /\ r[j] = s[f[j]]
  BY <1>5
<1>7. OneEach(r)
  <2>1. SUFFICES ASSUME NEW i \in 1 .. Len(r), NEW j \in 1 .. Len(r),
                        r[i].timer = r[j].timer, i < j
                 PROVE  FALSE
    BY <1>4, SMTT(30) DEF OneEach
  <2> QED BY <1>6, <2>1 DEF OneEach
<1>8. Sorted(s) => Sorted(r)
  <2>1. SUFFICES ASSUME Sorted(s), NEW i \in 1 .. Len(r), NEW j \in 1 .. Len(r), i < j
                 PROVE  r[i].left <= r[j].left
    BY <1>4, SMTT(30) DEF Sorted
  <2> QED BY <1>6, <2>1 DEF Sorted
<1> QED BY <1>3, <1>4, <1>7, <1>8

\* The place TimerInsert chooses.
LEMMA PlaceIs ==
  ASSUME NEW n \in Nat, NEW later \in SUBSET (1 .. n),
         NEW place,
         place = IF later = {} THEN n + 1
                 ELSE CHOOSE i \in later : \A j \in later : i <= j
  PROVE  /\ place \in 1 .. n + 1
         /\ \A i \in 1 .. place - 1 : i \notin later
         /\ place \in 1 .. n => place \in later
<1>1. CASE later = {}
  BY <1>1
<1>2. CASE later # {}
  <2>1. \E i \in later : \A j \in later : i <= j
    <3>1. later \in SUBSET Nat
      OBVIOUS
    <3> QED BY <1>2, <3>1, LeastNatural
  <2>2. place \in later /\ \A j \in later : place <= j
    BY <1>2, <2>1
  <2>3. place \in 1 .. n
    BY <2>2
  <2>4. \A i \in 1 .. place - 1 : i \notin later
    BY ONLY <2>2, <2>3, n \in Nat
  <2> QED BY ONLY <2>2, <2>3, <2>4, n \in Nat
<1> QED BY <1>1, <1>2

\* Putting an entry into the list of timers; the list stays sorted if Before
\* tells rightly which of two timers ends first.
LEMMA PutIn ==
  ASSUME NEW q \in Kernels, OneEach(q.timers),
         NEW e \in Entries, e.timer \notin Listed(q),
         NEW r, r = TimerInsert(q, e).timers
  PROVE  /\ r \in Seq(Entries) /\ OneEach(r)
         /\ ToSet(r) = ToSet(q.timers) \cup {e}
         /\ (/\ Sorted(q.timers)
             /\ \A f \in ToSet(q.timers) : Before(e, f) <=> e.left < f.left) => Sorted(r)
<1> DEFINE s == q.timers
           later == {i \in DOMAIN q.timers : Before(e, q.timers[i])}
           place == IF later = {} THEN Len(q.timers) + 1
                    ELSE CHOOSE i \in later : \A j \in later : i <= j
<1>1. s \in Seq(Entries) /\ DOMAIN s = 1 .. Len(s) /\ Len(s) \in Nat
  BY DEF Kernels
<1>2. r = InsertAt(s, place, e)
  BY DEF TimerInsert, Kernels
<1>3. later \in SUBSET (1 .. Len(s))
  BY <1>1
<1>4. \A i \in 1 .. Len(s) : i \in later <=> Before(e, s[i])
  BY <1>1
<1> HIDE DEF later
<1>5. /\ place \in 1 .. Len(s) + 1
      /\ \A i \in 1 .. place - 1 : i \notin later
      /\ place \in 1 .. Len(s) => place \in later
  <2>1. Len(s) \in Nat
    BY <1>1
  <2> HIDE DEF s
  <2>2. place = IF later = {} THEN Len(s) + 1
                ELSE CHOOSE i \in later : \A j \in later : i <= j
    BY DEF s
  <2> HIDE DEF place
  <2> QED BY ONLY <1>3, <2>1, <2>2, PlaceIs
<1>6. \A i \in 1 .. Len(s) : s[i].timer # e.timer /\ s[i] \in ToSet(s) /\ s[i] \in Entries
  BY <1>1 DEF Listed, ToSet
<1>7. OneEach(s)
  OBVIOUS
<1>8. ToSet(q.timers) = ToSet(s)
  OBVIOUS
<1> HIDE DEF s, place
<1>9. /\ r \in Seq(Entries)
      /\ Len(r) = Len(s) + 1
      /\ \A i \in 1 .. Len(s) + 1 :
            r[i] = IF i < place THEN s[i] ELSE IF i = place THEN e ELSE s[i - 1]
  <2>1. /\ InsertAt(s, place, e) \in Seq(Entries)
        /\ Len(InsertAt(s, place, e)) = Len(s) + 1
        /\ \A i \in 1 .. Len(s) + 1 :
              InsertAt(s, place, e)[i]
                 = IF i < place THEN s[i] ELSE IF i = place THEN e ELSE s[i - 1]
    BY <1>1, <1>5, InsertAtIs, SMTT(30)
  <2> QED BY ONLY <1>2, <2>1
<1>10. /\ \A i \in 1 .. Len(s) + 1 : i < place => i \in 1 .. Len(s) /\ r[i] = s[i]
       /\ \A i \in 1 .. Len(s) + 1 : i > place => i - 1 \in 1 .. Len(s) /\ r[i] = s[i - 1]
       /\ r[place] = e
       /\ DOMAIN r = 1 .. Len(s) + 1
  <2>1. ASSUME NEW i \in 1 .. Len(s) + 1, i > place
        PROVE  i - 1 \in 1 .. Len(s) /\ r[i] = s[i - 1]
    BY <1>1, <1>5, <1>9, <2>1
  <2>2. ASSUME NEW i \in 1 .. Len(s) + 1, i < place
        PROVE  i \in 1 .. Len(s) /\ r[i] = s[i]
    BY <1>1, <1>5, <1>9, <2>2
  <2>3. r[place] = e /\ DOMAIN r = 1 .. Len(s) + 1
    BY <1>1, <1>5, <1>9
  <2> QED BY <2>1, <2>2, <2>3
<1>11. ToSet(r) = ToSet(s) \cup {e}
  <2>1. \A i \in 1 .. Len(s) + 1 : r[i] \in ToSet(s) \cup {e}
    BY <1>1, <1>5, <1>6, <1>10
  <2>2. ASSUME NEW i \in 1 .. Len(s)
        PROVE  \E j \in 1 .. Len(s) + 1 : r[j] = s[i]
    <3>1. CASE i < place
      BY <3>1, <1>1, <1>10
    <3>2. CASE ~(i < place)
      <4>1. i + 1 \in 1 .. Len(s) + 1 /\ i + 1 > place /\ (i + 1) - 1 = i
        BY <3>2, <1>1, <1>5
      <4>2. r[i + 1] = s[(i + 1) - 1]
        BY <4>1, <1>10
      <4> QED BY <4>1, <4>2
    <3> QED BY <3>1, <3>2
  <2>3. ToSet(r) = {r[i] : i \in 1 .. Len(s) + 1} /\ ToSet(s) = {s[i] : i \in 1 .. Len(s)}
    BY <1>1, <1>10 DEF ToSet
  <2>4. ToSet(r) \subseteq ToSet(s) \cup {e}
    BY <2>1, <2>3
  <2>5. ToSet(s) \subseteq ToSet(r)
    BY <2>2, <2>3
  <2>6. e \in ToSet(r)
    <3>1. place \in 1 .. Len(s) + 1 /\ r[place] = e
      BY <1>1, <1>5, <1>10
    <3> QED BY <3>1, <2>3
  <2> QED BY <2>4, <2>5, <2>6
<1>12. OneEach(r)
  <2>1. SUFFICES ASSUME NEW i \in 1 .. Len(s) + 1, NEW j \in 1 .. Len(s) + 1,
                        r[i].timer = r[j].timer, i < j
                 PROVE  FALSE
    BY <1>1, <1>10 DEF OneEach
  <2>2. CASE j < place
    BY <1>1, <1>5, <1>7, <1>10, <2>1, <2>2 DEF OneEach
  <2>3. CASE j = place
    BY <1>1, <1>5, <1>6, <1>10, <2>1, <2>3
  <2>4. CASE j > place /\ i < place
    <3>1. r[i] = s[i] /\ r[j] = s[j - 1] /\ i \in 1 .. Len(s) /\ j - 1 \in 1 .. Len(s)
      BY <1>10, <2>4
    <3>2. i # j - 1
      BY <1>1, <1>5, <2>1, <2>4
    <3> QED BY <1>1, <1>7, <2>1, <3>1, <3>2 DEF OneEach
  <2>5. CASE j > place /\ i = place
    BY <1>1, <1>5, <1>6, <1>10, <2>1, <2>5
  <2>6. CASE j > place /\ i > place
    <3>1. /\ r[i] = s[i - 1] /\ r[j] = s[j - 1]
          /\ i - 1 \in 1 .. Len(s) /\ j - 1 \in 1 .. Len(s) /\ i - 1 # j - 1
      BY <1>10, <2>1, <2>6
    <3> QED BY <1>1, <1>7, <2>1, <3>1 DEF OneEach
  <2> QED BY <1>1, <1>5, <2>2, <2>3, <2>4, <2>5, <2>6
<1>13. ASSUME Sorted(s), \A f \in ToSet(s) : Before(e, f) <=> e.left < f.left
       PROVE  Sorted(r)
  <2>1. SUFFICES ASSUME NEW i \in 1 .. Len(s) + 1, NEW j \in 1 .. Len(s) + 1, i < j
                 PROVE  r[i].left <= r[j].left
    BY <1>1, <1>10 DEF Sorted
  <2>2. /\ \A n \in 1 .. Len(s) : s[n].left \in Int
        /\ e.left \in Int
    BY <1>6 DEF Entries
  <2>3. \A n \in 1 .. Len(s) : n < place => s[n].left <= e.left
    <3>1. SUFFICES ASSUME NEW n \in 1 .. Len(s), n < place
                   PROVE  s[n].left <= e.left
      OBVIOUS
    <3>2. ~ Before(e, s[n])
      BY <3>1, <1>1, <1>4, <1>5
    <3>3. ~ (e.left < s[n].left)
      BY <1>6, <1>13, <3>2
    <3> QED BY <2>2, <3>3
  <2>4. \A n \in 1 .. Len(s) : n >= place => e.left <= s[n].left
    <3>1. SUFFICES ASSUME NEW n \in 1 .. Len(s), n >= place
                   PROVE  e.left <= s[n].left
      OBVIOUS
    <3>2. place \in 1 .. Len(s) /\ Before(e, s[place])
      BY <3>1, <1>1, <1>4, <1>5
    <3>3. e.left < s[place].left
      BY <1>6, <1>13, <3>2
    <3>4. s[place].left <= s[n].left
      <4>1. CASE n = place
        BY <4>1, <2>2, <3>2
      <4>2. CASE n > place
        BY <4>2, <1>1, <1>13, <3>1, <3>2 DEF Sorted
      <4> QED BY <4>1, <4>2, <3>1, <3>2
    <3> QED BY <2>2, <3>2, <3>3, <3>4
  <2>5. CASE j < place
    <3>1. r[i] = s[i] /\ r[j] = s[j] /\ i \in 1 .. Len(s) /\ j \in 1 .. Len(s)
      BY <1>1, <1>5, <1>10, <2>1, <2>5
    <3> QED BY <1>1, <1>13, <2>1, <3>1 DEF Sorted
  <2>6. CASE j = place
    <3>1. r[i] = s[i] /\ r[j] = e /\ i \in 1 .. Len(s) /\ i < place
      BY <1>1, <1>5, <1>10, <2>1, <2>6
    <3> QED BY <2>3, <3>1
  <2>7. CASE j > place /\ i < place
    <3>1. r[i] = s[i] /\ r[j] = s[j - 1] /\ i \in 1 .. Len(s) /\ j - 1 \in 1 .. Len(s)
      BY <1>10, <2>7
    <3>2. i < j - 1 \/ i = j - 1
      BY <2>1
    <3> QED BY <1>1, <1>13, <2>2, <3>1, <3>2 DEF Sorted
  <2>8. CASE j > place /\ i = place
    <3>1. r[i] = e /\ r[j] = s[j - 1] /\ j - 1 \in 1 .. Len(s) /\ j - 1 >= place
      BY <1>5, <1>10, <2>8
    <3> QED BY <2>4, <3>1
  <2>9. CASE j > place /\ i > place
    <3>1. /\ r[i] = s[i - 1] /\ r[j] = s[j - 1]
          /\ i - 1 \in 1 .. Len(s) /\ j - 1 \in 1 .. Len(s) /\ i - 1 < j - 1
      BY <1>10, <2>1, <2>9
    <3> QED BY <1>1, <1>13, <3>1 DEF Sorted
  <2> QED BY <1>1, <1>5, <2>5, <2>6, <2>7, <2>8, <2>9
<1> QED BY <1>8, <1>9, <1>11, <1>12, <1>13 DEF s

-----------------------------------------------------------------------------
(* The operations of the kernel: rt_schedule *)

\* What the operations on the lists leave alone.
Frame(q, r) ==
    /\ r.tick = q.tick /\ r.ticked = q.ticked /\ r.checking = q.checking
    /\ r.remaining = q.remaining
    /\ r.value = q.value /\ r.granted = q.granted
SameChoice(q, r) == r.current = q.current /\ r.pending = q.pending /\ r.lost = q.lost

SameLists(q, r) ==
    /\ r.stat = q.stat /\ r.ready = q.ready /\ r.group = q.group
    /\ r.timers = q.timers /\ r.active = q.active
    /\ r.waiters = q.waiters /\ r.defunct = q.defunct

\* The scheduler's choice is the first of the best ready threads.
Best(q) == q.group # {} /\ q.current = Head(q.ready[Top(q)])

\* What does not touch the lists keeps the kernel in order.
LEMMA SameListsKeep ==
  ASSUME NEW q, KernelInv(q), NEW r \in Kernels, SameLists(q, r)
  PROVE  KernelInv(r)
BY ZenonT(40) DEF KernelInv, SameLists, ReadyInv, WaitersInv, DefunctInv, TimersInv, Having, Listed

\* The highest priority with a ready thread, and the first of its list.
LEMMA TopIs ==
  ASSUME NEW q \in Kernels, ReadyInv(q), q.group # {}
  PROVE  /\ Top(q) \in q.group /\ \A p \in q.group : Top(q) <= p
         /\ Head(q.ready[Top(q)]) \in Threads
         /\ q.stat[Head(q.ready[Top(q)])] = "ready"
         /\ Prio[Head(q.ready[Top(q)])] = Top(q)
<1>1. q.group \in SUBSET Prios /\ q.ready \in [Prios -> Seq(Threads)]
  BY DEF Kernels
<1>2. q.group \in SUBSET Nat
  BY <1>1, PriosAreNat
<1>3. \E p \in q.group : \A o \in q.group : p <= o
  BY <1>2, LeastNatural
<1>4. Top(q) \in q.group /\ \A o \in q.group : Top(q) <= o
  BY <1>3 DEF Top
<1>5. q.ready[Top(q)] \in Seq(Threads) /\ q.ready[Top(q)] # <<>>
  BY <1>1, <1>4 DEF ReadyInv
<1>6. Head(q.ready[Top(q)]) \in ToSet(q.ready[Top(q)])
  BY <1>5, EmptyToSet
<1>7. ToSet(q.ready[Top(q)]) = {t \in Having(q, "ready") : Prio[t] = Top(q)}
  BY <1>1, <1>4 DEF ReadyInv, Lists
<1> QED BY <1>4, <1>6, <1>7 DEF Having

\* Whom the scheduler chose is ready.
LEMMA BestIsReady ==
  ASSUME NEW q \in Kernels, ReadyInv(q), Best(q)
  PROVE  /\ q.current \in Threads /\ q.stat[q.current] = "ready"
         /\ Prio[q.current] \in q.group /\ q.current \in ToSet(q.ready[Prio[q.current]])
<1>1. /\ Top(q) \in q.group
      /\ Head(q.ready[Top(q)]) \in Threads
      /\ q.stat[Head(q.ready[Top(q)])] = "ready"
      /\ Prio[Head(q.ready[Top(q)])] = Top(q)
  BY TopIs DEF Best
<1>2. ToSet(q.ready[Top(q)]) = {t \in Having(q, "ready") : Prio[t] = Top(q)}
  BY <1>1 DEF ReadyInv, Lists, Kernels
<1> QED BY <1>1, <1>2 DEF Best, Having

\* rt_schedule chooses the best, if anybody is ready, and asks for a switch
\* unless the processor is its own already.
LEMMA ScheduleIs ==
  ASSUME NEW q \in Kernels, ReadyInv(q), NEW r, r = rt_schedule(q)
  PROVE  /\ r \in Kernels /\ SameLists(q, r) /\ Frame(q, r) /\ r.error = q.error
         /\ q.group = {} => r.lost /\ r.current = q.current /\ r.pending = q.pending
         /\ q.group # {} => /\ Best(r) /\ r.lost = q.lost
                            /\ \/ r.pending = TRUE
                               \/ r.pending = q.pending /\ r.current = q.current
<1>1. CASE q.group = {}
  <2>1. r = [q EXCEPT !.lost = TRUE]
    BY <1>1 DEF rt_schedule
  <2>2. r \in Kernels
    BY <2>1 DEF Kernels
  <2>3. SameLists(q, r) /\ Frame(q, r) /\ r.error = q.error
    BY <2>1 DEF Kernels, SameLists, Frame
  <2>4. r.lost /\ r.current = q.current /\ r.pending = q.pending
    BY <2>1 DEF Kernels
  <2> QED BY <1>1, <2>2, <2>3, <2>4
<1>2. CASE q.group # {}
  <2> DEFINE to == Head(q.ready[Top(q)])
  <2>1. to \in Threads
    BY <1>2, TopIs
  <2>2. r = IF to = q.current THEN q ELSE [q EXCEPT !.current = to, !.pending = TRUE]
    BY <1>2 DEF rt_schedule
  <2> HIDE DEF to
  <2>3. r \in Kernels
    <3>1. q \in Kernels /\ to \in Threads
      BY <2>1
    <3>2. CASE to = q.current
      BY <2>2, <3>1, <3>2
    <3>3. CASE to # q.current
      <4>1. r = [q EXCEPT !.current = to, !.pending = TRUE]
        BY <2>2, <3>3
      <4> QED BY ONLY <3>1, <4>1 DEF Kernels
    <3> QED BY <3>2, <3>3
  <2>4. SameLists(q, r) /\ Frame(q, r) /\ r.error = q.error
    BY <2>2 DEF Kernels, SameLists, Frame
  <2>5. r.lost = q.lost /\ r.current = to
    BY <2>2 DEF Kernels
  <2>6. \/ r.pending = TRUE
        \/ r.pending = q.pending /\ r.current = q.current
    BY <2>2 DEF Kernels
  <2>7. Best(r)
    BY <1>2, <2>4, <2>5 DEF Best, SameLists, to, Top
  <2> QED BY <1>2, <2>3, <2>4, <2>5, <2>6, <2>7
<1> QED BY <1>1, <1>2

-----------------------------------------------------------------------------
(* Starting and stopping timers *)

\* The timers of q without that of x.
TimersLess(q, r, x) ==
    /\ r.active = q.active \ {x}
    /\ ToSet(r.timers) = {e \in ToSet(q.timers) : e.timer # x}
    /\ Sorted(q.timers) => Sorted(r.timers)

\* Stopping a timer.
LEMMA UnlistIs ==
  ASSUME NEW q \in Kernels, OneEach(q.timers), NEW x, NEW r, r = Unlist(q, x)
  PROVE  /\ r \in Kernels /\ OneEach(r.timers)
         /\ ToSet(r.timers) = {e \in ToSet(q.timers) : e.timer # x}
         /\ Listed(r) = Listed(q) \ {x}
         /\ Sorted(q.timers) => Sorted(r.timers)
         /\ Frame(q, r) /\ SameChoice(q, r) /\ r.error = q.error
         /\ r.stat = q.stat /\ r.ready = q.ready /\ r.group = q.group
         /\ r.waiters = q.waiters /\ r.defunct = q.defunct /\ r.active = q.active
<1> DEFINE at == {i \in DOMAIN q.timers : q.timers[i].timer = x}
           s  == Removed(q.timers, at)
<1>1. q.timers \in Seq(Entries)
  BY DEF Kernels
<1>0. /\ at \in SUBSET (1 .. Len(q.timers))
      /\ \A i \in 1 .. Len(q.timers) : i \in at <=> q.timers[i].timer = x
  BY <1>1
<1>3. r = [q EXCEPT !.timers = s]
  BY DEF Unlist
<1> HIDE DEF at
<1>2. /\ s \in Seq(Entries) /\ OneEach(s)
      /\ ToSet(s) = {e \in ToSet(q.timers) : e.timer # x}
      /\ Sorted(q.timers) => Sorted(s)
  BY <1>0, <1>1, TakenOut
<1> HIDE DEF s
<1>4. r.timers = s
  BY <1>3 DEF Kernels
<1>5. r \in Kernels
  BY <1>2, <1>3 DEF Kernels
<1>6. /\ Frame(q, r) /\ SameChoice(q, r) /\ r.error = q.error
      /\ r.stat = q.stat /\ r.ready = q.ready /\ r.group = q.group
      /\ r.waiters = q.waiters /\ r.defunct = q.defunct /\ r.active = q.active
  BY <1>3 DEF Kernels, Frame, SameChoice
<1>7. Listed(r) = Listed(q) \ {x}
  BY <1>2, <1>4 DEF Listed
<1> QED BY <1>2, <1>4, <1>5, <1>6, <1>7

\* rt_timer_stop takes a timer out of the list, listed or not.
LEMMA StopIs ==
  ASSUME NEW q \in Kernels, OneEach(q.timers), q.active = Listed(q), NEW x,
         NEW r, r = rt_timer_stop(q, x) \/ r = TimerOff(q, x)
  PROVE  /\ r \in Kernels /\ OneEach(r.timers) /\ r.active = Listed(r)
         /\ TimersLess(q, r, x)
         /\ Frame(q, r) /\ SameChoice(q, r) /\ r.error = q.error
         /\ r.stat = q.stat /\ r.ready = q.ready /\ r.group = q.group
         /\ r.waiters = q.waiters /\ r.defunct = q.defunct
<1>1. CASE r = q /\ x \notin q.active
  <2>1. \A e \in ToSet(q.timers) : e.timer # x
    BY <1>1 DEF Listed
  <2> QED BY <1>1, <2>1 DEF TimersLess, Frame, SameChoice
<1>2. CASE r = [Unlist(q, x) EXCEPT !.active = @ \ {x}]
  <2> DEFINE u == Unlist(q, x)
  <2>1. /\ u \in Kernels /\ OneEach(u.timers)
        /\ ToSet(u.timers) = {e \in ToSet(q.timers) : e.timer # x}
        /\ Listed(u) = Listed(q) \ {x}
        /\ Sorted(q.timers) => Sorted(u.timers)
        /\ Frame(q, u) /\ SameChoice(q, u) /\ u.error = q.error
        /\ u.stat = q.stat /\ u.ready = q.ready /\ u.group = q.group
        /\ u.waiters = q.waiters /\ u.defunct = q.defunct /\ u.active = q.active
    BY UnlistIs
  <2>2. r = [u EXCEPT !.active = u.active \ {x}]
    BY <1>2
  <2> HIDE DEF u
  <2>3. r \in Kernels
    BY <2>1, <2>2 DEF Kernels
  <2>4. r.timers = u.timers /\ r.active = q.active \ {x}
    BY <2>1, <2>2 DEF Kernels
  <2>5. /\ Frame(u, r) /\ SameChoice(u, r) /\ r.error = u.error
        /\ r.stat = u.stat /\ r.ready = u.ready /\ r.group = u.group
        /\ r.waiters = u.waiters /\ r.defunct = u.defunct
    BY <2>1, <2>2 DEF Kernels, Frame, SameChoice
  <2>6. Frame(q, r) /\ SameChoice(q, r)
    BY <2>1, <2>5 DEF Frame, SameChoice
  <2>7. r.active = Listed(r)
    BY <2>1, <2>4 DEF Listed
  <2> QED BY <2>1, <2>3, <2>4, <2>5, <2>6, <2>7 DEF TimersLess
<1> QED BY <1>1, <1>2 DEF rt_timer_stop, TimerOff

\* Inserting the entry of a timer that is not active.
LEMMA TimerInsertIs ==
  ASSUME NEW q \in Kernels, OneEach(q.timers), q.active = Listed(q),
         NEW e \in Entries, e.timer \notin q.active,
         NEW r, r = TimerInsert(q, e)
  PROVE  /\ r \in Kernels /\ OneEach(r.timers) /\ r.active = Listed(r)
         /\ r.active = q.active \cup {e.timer}
         /\ ToSet(r.timers) = ToSet(q.timers) \cup {e}
         /\ (/\ Sorted(q.timers)
             /\ \A f \in ToSet(q.timers) : Before(e, f) <=> e.left < f.left)
               => Sorted(r.timers)
         /\ Frame(q, r) /\ SameChoice(q, r) /\ r.error = q.error
         /\ r.stat = q.stat /\ r.ready = q.ready /\ r.group = q.group
         /\ r.waiters = q.waiters /\ r.defunct = q.defunct
<1> DEFINE s == TimerInsert(q, e).timers
<1>1. e.timer \in Timers
  BY DEF Entries
<1>2. /\ s \in Seq(Entries) /\ OneEach(s)
      /\ ToSet(s) = ToSet(q.timers) \cup {e}
      /\ (/\ Sorted(q.timers)
          /\ \A f \in ToSet(q.timers) : Before(e, f) <=> e.left < f.left) => Sorted(s)
  BY PutIn
<1>3. r = [q EXCEPT !.timers = s, !.active = q.active \cup {e.timer}]
  BY DEF TimerInsert, Kernels
<1>4. r.timers = s
  OBVIOUS
<1> HIDE DEF s
<1>5. r \in Kernels
  <2>1. q.active \cup {e.timer} \in SUBSET Timers
    BY <1>1 DEF Kernels
  <2> QED BY ONLY <1>2, <1>3, <2>1, q \in Kernels DEF Kernels
<1>6. /\ Frame(q, r) /\ SameChoice(q, r) /\ r.error = q.error
      /\ r.stat = q.stat /\ r.ready = q.ready /\ r.group = q.group
      /\ r.waiters = q.waiters /\ r.defunct = q.defunct
      /\ r.active = q.active \cup {e.timer}
  BY <1>3 DEF Kernels, Frame, SameChoice
<1>7. r.active = Listed(r)
  BY <1>2, <1>4, <1>6 DEF Listed
<1> QED BY <1>2, <1>4, <1>5, <1>6, <1>7

-----------------------------------------------------------------------------
(* Suspending *)

\* The lists of waiters, of the ended and of the timers, after t was suspended.
LEMMA RestSuspended ==
  ASSUME NEW q \in Kernels, WaitersInv(q), DefunctInv(q), TimersInv(q),
         NEW t \in Threads, q.stat[t] # "close",
         NEW r, StatIs(q, r, t, "suspend"),
         r.waiters = q.waiters, r.defunct = q.defunct,
         r.timers = q.timers, r.active = q.active
  PROVE  WaitersInv(r) /\ DefunctInv(r) /\ TimersInv(r)
<1>1. /\ Having(q, "suspend") \subseteq Having(r, "suspend")
      /\ Having(r, "close") = Having(q, "close")
  BY DEF Having, Kernels, StatIs
<1> QED BY <1>1 DEF WaitersInv, DefunctInv, TimersInv, Listed

\* rt_schedule_remove_thread.
LEMMA RemoveThreadIs ==
  ASSUME NEW q \in Kernels, NEW t \in Threads, IsInjective(q.ready[Prio[t]]),
         NEW r, r = rt_schedule_remove_thread(q, t)
  PROVE  /\ r \in Kernels
         /\ ReadyLess(q, r, t)
         /\ Frame(q, r) /\ SameChoice(q, r) /\ r.error = q.error
         /\ r.stat = q.stat /\ r.timers = q.timers /\ r.active = q.active
         /\ r.waiters = q.waiters /\ r.defunct = q.defunct
<1> DEFINE left == Without(q.ready[Prio[t]], t)
<1>1. Prio[t] \in Prios
  BY PriosAreNat
<1>2. left \in Seq(Threads)
  <2>1. q.ready[Prio[t]] \in Seq(Threads)
    BY <1>1 DEF Kernels
  <2>2. Without(q.ready[Prio[t]], t) \in Seq(Threads)
    BY <2>1, WithoutIs
  <2> QED BY <2>2
<1>3. r = [q EXCEPT !.ready = [q.ready EXCEPT ![Prio[t]] = left],
                    !.group = IF left = <<>> THEN q.group \ {Prio[t]} ELSE q.group]
  BY DEF rt_schedule_remove_thread, Kernels
<1> HIDE DEF left
<1>4. r \in Kernels
  <2>1. [q.ready EXCEPT ![Prio[t]] = left] \in [Prios -> Seq(Threads)]
    BY <1>2 DEF Kernels
  <2>2. (IF left = <<>> THEN q.group \ {Prio[t]} ELSE q.group) \in SUBSET Prios
    BY DEF Kernels
  <2> QED BY ONLY <1>3, <2>1, <2>2, q \in Kernels DEF Kernels
<1>5. ReadyLess(q, r, t)
  <2>1. /\ r.ready = [q.ready EXCEPT ![Prio[t]] = left]
        /\ r.group = IF left = <<>> THEN q.group \ {Prio[t]} ELSE q.group
    BY ONLY <1>3, q \in Kernels DEF Kernels
  <2> QED BY <2>1 DEF ReadyLess, left
<1>6. /\ Frame(q, r) /\ SameChoice(q, r) /\ r.error = q.error
      /\ r.stat = q.stat /\ r.timers = q.timers /\ r.active = q.active
      /\ r.waiters = q.waiters /\ r.defunct = q.defunct
  BY ONLY <1>3, q \in Kernels DEF Kernels, Frame, SameChoice
<1> QED BY <1>4, <1>5, <1>6

\* rt_schedule_insert_thread.
LEMMA InsertThreadIs ==
  ASSUME NEW q \in Kernels, NEW t \in Threads,
         NEW r, r = rt_schedule_insert_thread(q, t)
  PROVE  /\ r \in Kernels
         /\ StatIs(q, r, t, "ready") /\ ReadyMore(q, r, t)
         /\ Frame(q, r) /\ SameChoice(q, r) /\ r.error = q.error
         /\ r.timers = q.timers /\ r.active = q.active
         /\ r.waiters = q.waiters /\ r.defunct = q.defunct
<1>1. Prio[t] \in Prios
  BY PriosAreNat
<1>2. Append(q.ready[Prio[t]], t) \in Seq(Threads)
  BY <1>1, AppendProperties DEF Kernels
<1>3. r = [q EXCEPT !.stat = [q.stat EXCEPT ![t] = "ready"],
                    !.ready = [q.ready EXCEPT ![Prio[t]] = Append(q.ready[Prio[t]], t)],
                    !.group = q.group \cup {Prio[t]}]
  BY DEF rt_schedule_insert_thread, Kernels
<1>4. r \in Kernels
  <2>1. [q.ready EXCEPT ![Prio[t]] = Append(q.ready[Prio[t]], t)] \in [Prios -> Seq(Threads)]
    BY <1>2 DEF Kernels
  <2>2. q.group \cup {Prio[t]} \in SUBSET Prios
    BY <1>1 DEF Kernels
  <2>3. [q.stat EXCEPT ![t] = "ready"] \in [Threads -> Stats]
    BY DEF Kernels, Stats
  <2> QED BY ONLY <1>3, <2>1, <2>2, <2>3, q \in Kernels DEF Kernels
<1>5. StatIs(q, r, t, "ready") /\ ReadyMore(q, r, t)
  BY ONLY <1>3, q \in Kernels DEF Kernels, StatIs, ReadyMore
<1>6. /\ Frame(q, r) /\ SameChoice(q, r) /\ r.error = q.error
      /\ r.timers = q.timers /\ r.active = q.active
      /\ r.waiters = q.waiters /\ r.defunct = q.defunct
  BY ONLY <1>3, q \in Kernels DEF Kernels, Frame, SameChoice
<1> QED BY <1>4, <1>5, <1>6

\* A ready thread is suspended.
LEMMA SuspendIs ==
  ASSUME NEW q, KernelInv(q), NEW t \in Threads, q.stat[t] = "ready",
         NEW r, r = rt_thread_suspend(q, t)
  PROVE  /\ KernelInv(r)
         /\ Frame(q, r) /\ SameChoice(q, r) /\ r.error = q.error
         /\ StatIs(q, r, t, "suspend")
         /\ r.timers = q.timers /\ r.active = q.active
         /\ r.waiters = q.waiters /\ r.defunct = q.defunct
<1> DEFINE m == [q EXCEPT !.stat = [q.stat EXCEPT ![t] = "suspend"]]
           s == rt_schedule_remove_thread(m, t)
<1>0. /\ q \in Kernels /\ ReadyInv(q) /\ WaitersInv(q) /\ DefunctInv(q) /\ TimersInv(q)
  BY DEF KernelInv
<1>1. IsInjective(q.ready[Prio[t]])
  BY <1>0, PriosAreNat DEF ReadyInv, Lists
<1>2. /\ m \in Kernels /\ m.ready = q.ready /\ m.group = q.group
      /\ Frame(q, m) /\ SameChoice(q, m) /\ m.error = q.error
      /\ m.timers = q.timers /\ m.active = q.active
      /\ m.waiters = q.waiters /\ m.defunct = q.defunct
      /\ StatIs(q, m, t, "suspend")
  <2>1. [q.stat EXCEPT ![t] = "suspend"] \in [Threads -> Stats]
    BY <1>0 DEF Kernels, Stats
  <2> QED BY ONLY <1>0, <2>1 DEF Kernels, Frame, SameChoice, StatIs
<1>3. r = rt_timer_stop(s, t)
  <2>1. m = [q EXCEPT !.stat[t] = "suspend"]
    BY <1>0 DEF Kernels
  <2> QED BY <2>1 DEF rt_thread_suspend
<1> HIDE DEF m
<1>4. /\ s \in Kernels /\ ReadyLess(m, s, t)
      /\ Frame(m, s) /\ SameChoice(m, s) /\ s.error = m.error
      /\ s.stat = m.stat /\ s.timers = m.timers /\ s.active = m.active
      /\ s.waiters = m.waiters /\ s.defunct = m.defunct
  <2>1. IsInjective(m.ready[Prio[t]])
    BY <1>1, <1>2
  <2>2. s = rt_schedule_remove_thread(m, t)
    BY DEF s
  <2> HIDE DEF s
  <2> QED BY <1>2, <2>1, <2>2, RemoveThreadIs
<1> HIDE DEF s
<1>5. r = s
  <2>1. t \notin s.active
    BY <1>0, <1>2, <1>4 DEF TimersInv, Having
  <2> QED BY <1>3, <2>1 DEF rt_timer_stop
<1>6. /\ Frame(q, r) /\ SameChoice(q, r) /\ r.error = q.error
      /\ StatIs(q, r, t, "suspend")
      /\ r.timers = q.timers /\ r.active = q.active
      /\ r.waiters = q.waiters /\ r.defunct = q.defunct
  BY <1>2, <1>4, <1>5 DEF Frame, SameChoice, StatIs
<1>7. ReadyInv(r)
  <2>1. "suspend" \in Stats \ {"ready"}
    BY DEF Stats
  <2>2. ReadyLess(q, r, t)
    BY <1>2, <1>4, <1>5 DEF ReadyLess
  <2> QED BY <1>0, <1>6, <2>1, <2>2, ReadyRemoved
<1>8. WaitersInv(r) /\ DefunctInv(r) /\ TimersInv(r)
  BY <1>0, <1>6, RestSuspended
<1> QED BY <1>4, <1>5, <1>6, <1>7, <1>8 DEF KernelInv

-----------------------------------------------------------------------------
(* Resuming, sleeping *)

\* t leaves the waiters.
WaitersLess(q, r, t) ==
    r.waiters \in Seq(Threads) /\ Lists(r.waiters, ToSet(q.waiters) \ {t})

\* The lists of waiters, of the ended and of the timers, after t was made ready.
LEMMA RestReadied ==
  ASSUME NEW q \in Kernels, WaitersInv(q), DefunctInv(q), TimersInv(q),
         NEW t \in Threads, q.stat[t] = "suspend",
         NEW r, StatIs(q, r, t, "ready"), WaitersLess(q, r, t),
         r.defunct = q.defunct,
         OneEach(r.timers), r.active = Listed(r), r.active = q.active \ {t}
  PROVE  WaitersInv(r) /\ DefunctInv(r) /\ TimersInv(r)
<1>1. /\ Having(q, "suspend") \ {t} \subseteq Having(r, "suspend")
      /\ Having(r, "close") = Having(q, "close")
  BY DEF Having, Kernels, StatIs
<1>2. WaitersInv(r)
  BY <1>1 DEF WaitersInv, WaitersLess, Lists
<1>3. DefunctInv(r) /\ TimersInv(r)
  BY <1>1 DEF DefunctInv, TimersInv
<1> QED BY <1>2, <1>3

\* A suspended thread is made ready.
LEMMA ResumeIs ==
  ASSUME NEW q, KernelInv(q), NEW t \in Threads, q.stat[t] = "suspend",
         NEW r, r = rt_thread_resume(q, t)
  PROVE  /\ KernelInv(r)
         /\ Frame(q, r) /\ SameChoice(q, r) /\ r.error = q.error
         /\ StatIs(q, r, t, "ready") /\ ReadyMore(q, r, t)
         /\ WaitersLess(q, r, t) /\ TimersLess(q, r, t)
         /\ r.defunct = q.defunct
<1> DEFINE w == Without(q.waiters, t)
           m == [q EXCEPT !.waiters = w]
           s == rt_timer_stop(m, t)
<1>0. /\ q \in Kernels /\ ReadyInv(q) /\ WaitersInv(q) /\ DefunctInv(q) /\ TimersInv(q)
  BY DEF KernelInv
<1>1. w \in Seq(Threads) /\ Lists(w, ToSet(q.waiters) \ {t})
  <2>1. q.waiters \in Seq(Threads) /\ IsInjective(q.waiters)
    BY <1>0 DEF Kernels, WaitersInv
  <2> QED BY <2>1, WithoutIs
<1>2. r = rt_schedule_insert_thread(s, t)
  BY <1>0 DEF rt_thread_resume, Kernels
<1> HIDE DEF w
<1>3. /\ m \in Kernels /\ Frame(q, m) /\ SameChoice(q, m) /\ m.error = q.error
      /\ m.stat = q.stat /\ m.ready = q.ready /\ m.group = q.group
      /\ m.timers = q.timers /\ m.active = q.active
      /\ m.waiters = w /\ m.defunct = q.defunct
  BY ONLY <1>0, <1>1 DEF Kernels, Frame, SameChoice
<1> HIDE DEF m
<1>4. /\ s \in Kernels /\ OneEach(s.timers) /\ s.active = Listed(s)
      /\ TimersLess(m, s, t)
      /\ Frame(m, s) /\ SameChoice(m, s) /\ s.error = m.error
      /\ s.stat = m.stat /\ s.ready = m.ready /\ s.group = m.group
      /\ s.waiters = m.waiters /\ s.defunct = m.defunct
  <2>1. OneEach(m.timers) /\ m.active = Listed(m)
    BY <1>0, <1>3 DEF TimersInv, Listed
  <2> QED BY <1>3, <2>1, StopIs
<1> HIDE DEF s
<1>5. /\ r \in Kernels
      /\ StatIs(s, r, t, "ready") /\ ReadyMore(s, r, t)
      /\ Frame(s, r) /\ SameChoice(s, r) /\ r.error = s.error
      /\ r.timers = s.timers /\ r.active = s.active
      /\ r.waiters = s.waiters /\ r.defunct = s.defunct
  BY <1>2, <1>4, InsertThreadIs
<1>6. /\ Frame(q, r) /\ SameChoice(q, r) /\ r.error = q.error
      /\ r.defunct = q.defunct /\ r.waiters = w
  BY <1>3, <1>4, <1>5 DEF Frame, SameChoice
<1>7. StatIs(q, r, t, "ready") /\ ReadyMore(q, r, t) /\ WaitersLess(q, r, t)
  BY <1>1, <1>3, <1>4, <1>5, <1>6 DEF StatIs, ReadyMore, WaitersLess
<1>8. TimersLess(q, r, t) /\ OneEach(r.timers) /\ r.active = Listed(r)
  BY <1>3, <1>4, <1>5 DEF TimersLess, Listed
<1>9. ReadyInv(r)
  BY <1>0, <1>7, ReadyAdded
<1>10. r.active = q.active \ {t}
  BY <1>8 DEF TimersLess
<1>11. WaitersInv(r) /\ DefunctInv(r) /\ TimersInv(r)
  BY <1>0, <1>6, <1>7, <1>8, <1>10, RestReadied
<1> QED BY <1>5, <1>6, <1>7, <1>8, <1>9, <1>11 DEF KernelInv

\* What starting the timer x does to the list: x waits for ticks from now, and
\* the order of the others is kept if e is put where its ticks belong.
TimerMore(q, r, x, e) ==
    /\ r.active = q.active \cup {x}
    /\ ToSet(r.timers) = {f \in ToSet(q.timers) : f.timer # x} \cup {e}
    /\ (/\ Sorted(q.timers)
        /\ \A f \in ToSet(q.timers) : Before(e, f) <=> e.left < f.left)
          => Sorted(r.timers)

\* The entry rt_timer_start makes.
LEMMA EntryIs ==
  ASSUME NEW q \in Kernels, NEW x \in Timers, NEW ticks \in Int,
         NEW e, e = Entry(q, x, ticks)
  PROVE  /\ e \in Entries /\ e.timer = x /\ e.left = ticks
         /\ e.timeout = (q.tick + ticks) % TickMod
<1>1. q.tick + ticks \in Int /\ TickMod \in Nat \ {0}
  BY ThreadConstants DEF Kernels
<1> QED BY <1>1 DEF Entry, Entries

\* rt_timer_start stops the timer and inserts it again, whether it was active
\* or not.
LEMMA StartIs ==
  ASSUME NEW q, KernelInv(q), NEW x \in Timers, NEW ticks \in Int,
         x \in Threads => q.stat[x] = "suspend",
         NEW e, e = Entry(q, x, ticks),
         NEW r, r = rt_timer_start(q, x, ticks)
  PROVE  /\ KernelInv(r) /\ TimerMore(q, r, x, e)
         /\ Frame(q, r) /\ SameChoice(q, r) /\ r.error = q.error
         /\ r.stat = q.stat /\ r.ready = q.ready /\ r.group = q.group
         /\ r.waiters = q.waiters /\ r.defunct = q.defunct
<1> DEFINE m == TimerOff(q, x)
<1>0. /\ q \in Kernels /\ ReadyInv(q) /\ WaitersInv(q) /\ DefunctInv(q) /\ TimersInv(q)
  BY DEF KernelInv
<1>1. /\ m \in Kernels /\ OneEach(m.timers) /\ m.active = Listed(m)
      /\ TimersLess(q, m, x)
      /\ Frame(q, m) /\ SameChoice(q, m) /\ m.error = q.error
      /\ m.stat = q.stat /\ m.ready = q.ready /\ m.group = q.group
      /\ m.waiters = q.waiters /\ m.defunct = q.defunct
  <2>1. m = rt_timer_stop(q, x) \/ m = TimerOff(q, x)
    OBVIOUS
  <2> HIDE DEF m
  <2>2. OneEach(q.timers) /\ q.active = Listed(q)
    BY <1>0 DEF TimersInv
  <2> QED BY <1>0, <2>1, <2>2, StopIs
<1>2. r = TimerInsert(m, e)
  BY DEF rt_timer_start
<1> HIDE DEF m
<1>3. e \in Entries /\ e.timer = x
  BY <1>0, EntryIs
<1>4. e.timer \notin m.active
  BY <1>1, <1>3 DEF TimersLess
<1>5. /\ r \in Kernels /\ OneEach(r.timers) /\ r.active = Listed(r)
      /\ r.active = m.active \cup {e.timer}
      /\ ToSet(r.timers) = ToSet(m.timers) \cup {e}
      /\ (/\ Sorted(m.timers)
          /\ \A f \in ToSet(m.timers) : Before(e, f) <=> e.left < f.left)
               => Sorted(r.timers)
      /\ Frame(m, r) /\ SameChoice(m, r) /\ r.error = m.error
      /\ r.stat = m.stat /\ r.ready = m.ready /\ r.group = m.group
      /\ r.waiters = m.waiters /\ r.defunct = m.defunct
  BY <1>1, <1>2, <1>3, <1>4, TimerInsertIs
<1>6. TimerMore(q, r, x, e)
  BY <1>1, <1>3, <1>5 DEF TimerMore, TimersLess
<1>7. /\ Frame(q, r) /\ SameChoice(q, r) /\ r.error = q.error
      /\ r.stat = q.stat /\ r.ready = q.ready /\ r.group = q.group
      /\ r.waiters = q.waiters /\ r.defunct = q.defunct
  BY <1>1, <1>5 DEF Frame, SameChoice
<1>8. ReadyInv(r) /\ WaitersInv(r) /\ DefunctInv(r)
  BY <1>0, <1>7 DEF ReadyInv, WaitersInv, DefunctInv, Having
<1>9. TimersInv(r)
  BY <1>0, <1>5, <1>6, <1>7 DEF TimersInv, TimerMore, Having
<1> QED BY <1>5, <1>6, <1>7, <1>8, <1>9 DEF KernelInv

\* rt_thread_sleep of a thread that is ready, or already suspended.
LEMMA SleepIs ==
  ASSUME NEW q, KernelInv(q), NEW t \in Threads, q.stat[t] \in {"ready", "suspend"},
         NEW ticks \in Int, NEW e, e = Entry(q, t, ticks),
         NEW r, r = SleepSection(q, t, ticks)
  PROVE  /\ KernelInv(r) /\ TimerMore(q, r, t, e) /\ StatIs(q, r, t, "suspend")
         /\ Frame(q, r) /\ SameChoice(q, r) /\ r.error = q.error
         /\ r.waiters = q.waiters /\ r.defunct = q.defunct
<1> DEFINE m == rt_thread_suspend(q, t)
<1>0. q \in Kernels
  BY DEF KernelInv
<1>1. /\ KernelInv(m)
      /\ Frame(q, m) /\ SameChoice(q, m) /\ m.error = q.error
      /\ StatIs(q, m, t, "suspend")
      /\ m.timers = q.timers /\ m.active = q.active
      /\ m.waiters = q.waiters /\ m.defunct = q.defunct
  <2>1. CASE q.stat[t] = "ready"
    <3>1. m = rt_thread_suspend(q, t)
      OBVIOUS
    <3> HIDE DEF m
    <3> QED BY <2>1, <3>1, SuspendIs
  <2>2. CASE q.stat[t] = "suspend"
    <3>1. m = q
      BY <2>2 DEF rt_thread_suspend
    <3>2. q.stat = [q.stat EXCEPT ![t] = "suspend"]
      BY <1>0, <2>2 DEF Kernels
    <3> QED BY <3>1, <3>2 DEF Frame, SameChoice, StatIs
  <2> QED BY <2>1, <2>2
<1>2. r = rt_timer_start(m, t, ticks)
  BY DEF SleepSection
<1> HIDE DEF m
<1>3. e = Entry(m, t, ticks)
  BY <1>1 DEF Entry, Frame
<1>4. t \in Timers /\ m.stat[t] = "suspend"
  BY <1>0, <1>1 DEF Timers, StatIs, Kernels
<1>5. /\ KernelInv(r) /\ TimerMore(m, r, t, e)
      /\ Frame(m, r) /\ SameChoice(m, r) /\ r.error = m.error
      /\ r.stat = m.stat /\ r.ready = m.ready /\ r.group = m.group
      /\ r.waiters = m.waiters /\ r.defunct = m.defunct
  BY <1>1, <1>2, <1>3, <1>4, StartIs
<1>6. TimerMore(q, r, t, e)
  BY <1>1, <1>5 DEF TimerMore
<1> QED BY <1>1, <1>5, <1>6 DEF Frame, SameChoice, StatIs

-----------------------------------------------------------------------------
(* Waiting and ending *)

\* The error of t becomes v.
ErrorIs(q, r, t, v) == r.error = [q.error EXCEPT ![t] = v]
WithError(q, t, v)  == [q EXCEPT !.error[t] = v]

\* Setting a thread's error.
LEMMA ErrorSet ==
  ASSUME NEW q, KernelInv(q), NEW t \in Threads, NEW v \in Errors,
         NEW r, r = WithError(q, t, v)
  PROVE  /\ KernelInv(r) /\ SameLists(q, r) /\ Frame(q, r) /\ SameChoice(q, r)
         /\ ErrorIs(q, r, t, v)
<1>0. q \in Kernels
  BY DEF KernelInv
<1>1. [q.error EXCEPT ![t] = v] \in [Threads -> Errors]
  BY <1>0 DEF Kernels
<1>2. r \in Kernels /\ ErrorIs(q, r, t, v)
  BY <1>0, <1>1 DEF Kernels, WithError, ErrorIs
<1>3. SameLists(q, r) /\ Frame(q, r) /\ SameChoice(q, r)
  BY <1>0 DEF WithError, Kernels, SameLists, Frame, SameChoice
<1> QED BY <1>2, <1>3, SameListsKeep

\* t joins the waiters, its error cleared, with a timer if it does not wait
\* for ever.
LEMMA TakeIs ==
  ASSUME NEW q, KernelInv(q), NEW t \in Threads, q.stat[t] = "ready",
         NEW time \in Int, NEW e, e = Entry(q, t, time),
         NEW r, r = TakeSection(q, t, time)
  PROVE  /\ KernelInv(r) /\ StatIs(q, r, t, "suspend")
         /\ time > 0 => TimerMore(q, r, t, e)
         /\ ~(time > 0) => r.timers = q.timers /\ r.active = q.active
         /\ Frame(q, r) /\ SameChoice(q, r)
         /\ ErrorIs(q, r, t, "EOK")
         /\ ToSet(r.waiters) = ToSet(q.waiters) \cup {t} /\ r.defunct = q.defunct
<1> DEFINE a == WithError(q, t, "EOK")
           b == rt_thread_suspend(a, t)
           w == Append(b.waiters, t)
           c == [b EXCEPT !.waiters = w]
<1>0. q \in Kernels
  BY DEF KernelInv
<1>1. r = IF time > 0 THEN rt_timer_start(c, t, time) ELSE c
  <2>1. a = [q EXCEPT !.error[t] = "EOK"]
    BY DEF WithError
  <2>2. c = [b EXCEPT !.waiters = Append(@, t)]
    OBVIOUS
  <2> HIDE DEF a, c
  <2> QED BY <2>1, <2>2 DEF TakeSection
<1> HIDE DEF c
<1>2. /\ KernelInv(a) /\ SameLists(q, a) /\ Frame(q, a) /\ SameChoice(q, a)
      /\ ErrorIs(q, a, t, "EOK")
  <2>1. "EOK" \in Errors /\ a = WithError(q, t, "EOK")
    BY DEF Errors
  <2> HIDE DEF a
  <2>2. KernelInv(q)
    OBVIOUS
  <2> QED BY <2>1, <2>2, ErrorSet
<1> HIDE DEF a
<1>3. /\ KernelInv(b)
      /\ Frame(a, b) /\ SameChoice(a, b) /\ b.error = a.error
      /\ StatIs(a, b, t, "suspend")
      /\ b.timers = a.timers /\ b.active = a.active
      /\ b.waiters = a.waiters /\ b.defunct = a.defunct
  <2>1. b = rt_thread_suspend(a, t) /\ a.stat[t] = "ready"
    BY <1>2 DEF SameLists
  <2> HIDE DEF b
  <2> QED BY <1>2, <2>1, SuspendIs
<1> HIDE DEF b
<1>4. b \in Kernels /\ ReadyInv(b) /\ WaitersInv(b) /\ DefunctInv(b) /\ TimersInv(b)
  BY <1>3 DEF KernelInv
<1>5. w \in Seq(Threads) /\ Lists(w, ToSet(b.waiters) \cup {t})
  <2>1. b.waiters \in Seq(Threads) /\ Lists(b.waiters, ToSet(b.waiters))
    BY <1>4 DEF Kernels, WaitersInv, Lists
  <2>2. t \in Threads \ ToSet(b.waiters)
    <3>1. ToSet(q.waiters) \subseteq Having(q, "suspend")
      BY DEF KernelInv, WaitersInv
    <3>2. t \notin ToSet(q.waiters)
      BY <3>1 DEF Having
    <3> QED BY <1>2, <1>3, <3>2 DEF SameLists
  <2> QED BY <2>1, <2>2, AppendLists
<1> HIDE DEF w
<1>6. /\ c \in Kernels /\ c.waiters = w
      /\ Frame(b, c) /\ SameChoice(b, c) /\ c.error = b.error
      /\ c.stat = b.stat /\ c.ready = b.ready /\ c.group = b.group
      /\ c.timers = b.timers /\ c.active = b.active /\ c.defunct = b.defunct
  BY ONLY <1>4, <1>5 DEF Kernels, c, Frame, SameChoice
<1>7. c.stat[t] = "suspend" /\ StatIs(q, c, t, "suspend")
  BY <1>0, <1>2, <1>3, <1>6 DEF StatIs, SameLists, Kernels
<1>8. KernelInv(c)
  <2>1. ReadyInv(c) /\ DefunctInv(c) /\ TimersInv(c)
    BY <1>4, <1>6 DEF ReadyInv, DefunctInv, TimersInv, Having, Listed
  <2>2. WaitersInv(c)
    BY <1>4, <1>5, <1>6, <1>7 DEF WaitersInv, Having, Lists
  <2> QED BY <1>6, <2>1, <2>2 DEF KernelInv
<1>9. /\ Frame(q, c) /\ SameChoice(q, c)
      /\ ErrorIs(q, c, t, "EOK")
      /\ ToSet(c.waiters) = ToSet(q.waiters) \cup {t} /\ c.defunct = q.defunct
      /\ c.timers = q.timers /\ c.active = q.active
  BY <1>2, <1>3, <1>5, <1>6 DEF Frame, SameChoice, SameLists, Lists, ErrorIs
<1>10. CASE time > 0
  <2>1. t \in Timers /\ e = Entry(c, t, time)
    BY <1>9 DEF Timers, Entry, Frame
  <2>2. r = rt_timer_start(c, t, time)
    BY <1>1, <1>10
  <2>3. /\ KernelInv(r) /\ TimerMore(c, r, t, e)
        /\ Frame(c, r) /\ SameChoice(c, r) /\ r.error = c.error
        /\ r.stat = c.stat /\ r.ready = c.ready /\ r.group = c.group
        /\ r.waiters = c.waiters /\ r.defunct = c.defunct
    BY <1>7, <1>8, <2>1, <2>2, StartIs
  <2>4. TimerMore(q, r, t, e)
    BY <1>9, <2>3 DEF TimerMore
  <2> QED BY <1>7, <1>9, <1>10, <2>3, <2>4 DEF Frame, SameChoice, StatIs, ErrorIs
<1>11. CASE ~(time > 0)
  BY <1>1, <1>7, <1>8, <1>9, <1>11
<1> QED BY <1>10, <1>11

\* A ready thread ends.
LEMMA ExitIs ==
  ASSUME NEW q, KernelInv(q), NEW t \in Threads, q.stat[t] = "ready",
         NEW r, r = ExitSection(q, t)
  PROVE  /\ KernelInv(r) /\ StatIs(q, r, t, "close") /\ TimersLess(q, r, t)
         /\ Frame(q, r) /\ SameChoice(q, r) /\ r.error = q.error
         /\ r.waiters = q.waiters
<1> DEFINE a == rt_schedule_remove_thread(q, t)
           b == Unlist(a, t)
           d == <<t>> \o b.defunct
<1>0. /\ q \in Kernels /\ ReadyInv(q) /\ WaitersInv(q) /\ DefunctInv(q) /\ TimersInv(q)
  BY DEF KernelInv
<1>1. r = [b EXCEPT !.stat = [b.stat EXCEPT ![t] = "close"],
                    !.active = b.active \ {t}, !.defunct = d]
  BY DEF ExitSection
<1>2. /\ a \in Kernels /\ ReadyLess(q, a, t)
      /\ Frame(q, a) /\ SameChoice(q, a) /\ a.error = q.error
      /\ a.stat = q.stat /\ a.timers = q.timers /\ a.active = q.active
      /\ a.waiters = q.waiters /\ a.defunct = q.defunct
  <2>1. IsInjective(q.ready[Prio[t]]) /\ a = rt_schedule_remove_thread(q, t)
    BY <1>0, PriosAreNat DEF ReadyInv, Lists
  <2> HIDE DEF a
  <2> QED BY <1>0, <2>1, RemoveThreadIs
<1> HIDE DEF a
<1>3. /\ b \in Kernels /\ OneEach(b.timers)
      /\ ToSet(b.timers) = {e \in ToSet(a.timers) : e.timer # t}
      /\ Listed(b) = Listed(a) \ {t}
      /\ Sorted(a.timers) => Sorted(b.timers)
      /\ Frame(a, b) /\ SameChoice(a, b) /\ b.error = a.error
      /\ b.stat = a.stat /\ b.ready = a.ready /\ b.group = a.group
      /\ b.waiters = a.waiters /\ b.defunct = a.defunct /\ b.active = a.active
  <2>1. b = Unlist(a, t) /\ OneEach(a.timers)
    BY <1>0, <1>2 DEF TimersInv
  <2> HIDE DEF b
  <2> QED BY <1>2, <2>1, UnlistIs
<1> HIDE DEF b
<1>4. d \in Seq(Threads) /\ Lists(d, ToSet(b.defunct) \cup {t})
  <2>1. b.defunct \in Seq(Threads) /\ Lists(b.defunct, ToSet(b.defunct))
    BY <1>0, <1>2, <1>3 DEF Kernels, DefunctInv, Lists
  <2>2. t \in Threads \ ToSet(b.defunct)
    BY <1>0, <1>2, <1>3 DEF DefunctInv, Having
  <2> QED BY <2>1, <2>2, PrependLists
<1> HIDE DEF d
<1>5. /\ r \in Kernels /\ r.stat = [b.stat EXCEPT ![t] = "close"]
      /\ r.active = b.active \ {t} /\ r.defunct = d
  <2>1. [b.stat EXCEPT ![t] = "close"] \in [Threads -> Stats]
    BY <1>3 DEF Kernels, Stats
  <2> QED BY ONLY <1>1, <1>3, <1>4, <2>1 DEF Kernels
<1>6. /\ Frame(b, r) /\ SameChoice(b, r) /\ r.error = b.error
      /\ r.ready = b.ready /\ r.group = b.group
      /\ r.timers = b.timers /\ r.waiters = b.waiters
  BY ONLY <1>1, <1>3 DEF Kernels, Frame, SameChoice
<1>7. /\ StatIs(q, r, t, "close") /\ TimersLess(q, r, t) /\ ReadyLess(q, r, t)
      /\ Frame(q, r) /\ SameChoice(q, r) /\ r.error = q.error
      /\ r.waiters = q.waiters
  BY <1>2, <1>3, <1>5, <1>6
     DEF StatIs, TimersLess, ReadyLess, Frame, SameChoice
<1>8. ReadyInv(r)
  <2>1. "close" \in Stats \ {"ready"}
    BY DEF Stats
  <2> QED BY <1>0, <1>7, <2>1, ReadyRemoved
<1>9. /\ Having(r, "suspend") = Having(q, "suspend")
      /\ Having(r, "close") = Having(q, "close") \cup {t}
  BY <1>0, <1>7 DEF Having, StatIs, Kernels
<1>10. WaitersInv(r) /\ DefunctInv(r)
  BY <1>0, <1>2, <1>3, <1>4, <1>5, <1>7, <1>9 DEF WaitersInv, DefunctInv, Lists
<1>11. TimersInv(r)
  BY <1>0, <1>2, <1>3, <1>5, <1>6, <1>9 DEF TimersInv, Listed
<1> QED BY <1>5, <1>7, <1>8, <1>10, <1>11 DEF KernelInv

-----------------------------------------------------------------------------
(* Timing out, yielding *)

\* A listed timer of a thread runs out: the thread is made ready, and the
\* scheduler chooses.
LEMMA ExpireIs ==
  ASSUME NEW q, KernelInv(q), NEW x \in Threads, x \in q.active,
         NEW r, r = Expire(q, x)
  PROVE  /\ KernelInv(r)
         /\ Frame(q, r) /\ ErrorIs(q, r, x, "ETIMEOUT")
         /\ StatIs(q, r, x, "ready")
         /\ WaitersLess(q, r, x) /\ TimersLess(q, r, x)
         /\ r.defunct = q.defunct
         /\ Best(r) /\ r.lost = q.lost
         /\ \/ r.pending = TRUE
            \/ r.pending = q.pending /\ r.current = q.current
<1> DEFINE u == Unlist(q, x)
           a == WithError(u, x, "ETIMEOUT")
           w == Without(a.waiters, x)
           b == [a EXCEPT !.waiters = w]
           c == rt_schedule_insert_thread(b, x)
           d == rt_schedule(c)
<1>0. /\ q \in Kernels /\ ReadyInv(q) /\ WaitersInv(q) /\ DefunctInv(q) /\ TimersInv(q)
  BY DEF KernelInv
<1>1. x # Periodic /\ q.stat[x] = "suspend"
  BY <1>0, ThreadConstants DEF TimersInv, Having
<1>2. /\ u \in Kernels /\ OneEach(u.timers)
      /\ ToSet(u.timers) = {e \in ToSet(q.timers) : e.timer # x}
      /\ Listed(u) = Listed(q) \ {x}
      /\ Sorted(q.timers) => Sorted(u.timers)
      /\ Frame(q, u) /\ SameChoice(q, u) /\ u.error = q.error
      /\ u.stat = q.stat /\ u.ready = q.ready /\ u.group = q.group
      /\ u.waiters = q.waiters /\ u.defunct = q.defunct /\ u.active = q.active
  <2>1. u = Unlist(q, x) /\ OneEach(q.timers)
    BY <1>0 DEF TimersInv
  <2> HIDE DEF u
  <2> QED BY <1>0, <2>1, UnlistIs
<1>3. r = [d EXCEPT !.active = d.active \ {x}]
  <2> HIDE DEF u
  <2>1. b = [u EXCEPT !.error[x] = "ETIMEOUT", !.waiters = Without(@, x)]
    BY <1>2 DEF WithError, Kernels
  <2> HIDE DEF b
  <2>2. d = rt_thread_timeout(u, x)
    BY <2>1 DEF rt_thread_timeout
  <2> HIDE DEF d
  <2> QED BY <1>1, <2>2 DEF Expire, u
<1> HIDE DEF u
<1>4. /\ a \in Kernels /\ SameLists(u, a) /\ Frame(u, a) /\ SameChoice(u, a)
      /\ ErrorIs(u, a, x, "ETIMEOUT")
  <2>1. [u.error EXCEPT ![x] = "ETIMEOUT"] \in [Threads -> Errors]
    BY <1>2 DEF Kernels, Errors
  <2>2. a = [u EXCEPT !.error = [u.error EXCEPT ![x] = "ETIMEOUT"]]
    BY <1>2 DEF WithError, Kernels
  <2> QED BY ONLY <1>2, <2>1, <2>2
             DEF Kernels, SameLists, Frame, SameChoice, ErrorIs
<1> HIDE DEF a
<1>5. w \in Seq(Threads) /\ Lists(w, ToSet(a.waiters) \ {x})
  <2>1. a.waiters \in Seq(Threads) /\ IsInjective(a.waiters)
    BY <1>0, <1>2, <1>4 DEF Kernels, WaitersInv, SameLists
  <2> QED BY <2>1, WithoutIs
<1> HIDE DEF w
<1>6. /\ b \in Kernels /\ Frame(a, b) /\ SameChoice(a, b) /\ b.error = a.error
      /\ b.stat = a.stat /\ b.ready = a.ready /\ b.group = a.group
      /\ b.timers = a.timers /\ b.active = a.active
      /\ b.waiters = w /\ b.defunct = a.defunct
  BY ONLY <1>4, <1>5 DEF Kernels, Frame, SameChoice, b
<1> HIDE DEF b
<1>7. /\ c \in Kernels
      /\ StatIs(b, c, x, "ready") /\ ReadyMore(b, c, x)
      /\ Frame(b, c) /\ SameChoice(b, c) /\ c.error = b.error
      /\ c.timers = b.timers /\ c.active = b.active
      /\ c.waiters = b.waiters /\ c.defunct = b.defunct
  <2>1. c = rt_schedule_insert_thread(b, x)
    OBVIOUS
  <2> HIDE DEF c
  <2> QED BY <1>6, <2>1, InsertThreadIs
<1> HIDE DEF c
<1>8. StatIs(q, c, x, "ready") /\ ReadyMore(q, c, x)
  BY <1>2, <1>4, <1>6, <1>7 DEF StatIs, ReadyMore, SameLists
<1>9. ReadyInv(c)
  BY <1>0, <1>1, <1>8, ReadyAdded
<1>10. c.group # {}
  BY <1>8 DEF ReadyMore
<1>11. /\ d \in Kernels /\ SameLists(c, d) /\ Frame(c, d) /\ d.error = c.error
       /\ Best(d) /\ d.lost = c.lost
       /\ \/ d.pending = TRUE
          \/ d.pending = c.pending /\ d.current = c.current
  <2>1. d = rt_schedule(c)
    OBVIOUS
  <2> HIDE DEF d
  <2> QED BY <1>7, <1>9, <1>10, <2>1, ScheduleIs
<1> HIDE DEF d
<1>12. /\ r \in Kernels /\ Frame(d, r) /\ SameChoice(d, r) /\ r.error = d.error
       /\ r.stat = d.stat /\ r.ready = d.ready /\ r.group = d.group
       /\ r.timers = d.timers /\ r.active = d.active \ {x}
       /\ r.waiters = d.waiters /\ r.defunct = d.defunct
  BY ONLY <1>3, <1>11 DEF Kernels, Frame, SameChoice
<1>13. /\ Frame(q, r) /\ r.defunct = q.defunct /\ r.lost = q.lost
       /\ r.waiters = w /\ q.waiters = a.waiters
  BY <1>2, <1>4, <1>6, <1>7, <1>11, <1>12 DEF Frame, SameChoice, SameLists
<1>14. ErrorIs(q, r, x, "ETIMEOUT") /\ StatIs(q, r, x, "ready") /\ ReadyMore(q, r, x)
  BY <1>2, <1>4, <1>6, <1>7, <1>8, <1>11, <1>12
     DEF ErrorIs, StatIs, ReadyMore, SameLists
<1>15. WaitersLess(q, r, x)
  BY <1>5, <1>13 DEF WaitersLess
<1>16. r.timers = u.timers /\ r.active = q.active \ {x}
  BY <1>2, <1>4, <1>6, <1>7, <1>11, <1>12 DEF SameLists
<1>17. TimersLess(q, r, x) /\ OneEach(r.timers) /\ r.active = Listed(r)
  BY <1>0, <1>2, <1>16 DEF TimersLess, TimersInv, Listed
<1>18. Best(r)
  BY <1>11, <1>12 DEF Best, SameChoice, Top
<1>19. \/ r.pending = TRUE
       \/ r.pending = q.pending /\ r.current = q.current
  BY <1>2, <1>4, <1>6, <1>7, <1>11, <1>12 DEF SameChoice
<1>20. ReadyInv(r)
  BY <1>0, <1>1, <1>14, ReadyAdded
<1>21. WaitersInv(r) /\ DefunctInv(r) /\ TimersInv(r)
  BY <1>0, <1>1, <1>13, <1>14, <1>15, <1>16, <1>17, RestReadied
<1> QED BY <1>12, <1>13, <1>14, <1>15, <1>17, <1>18, <1>19, <1>20, <1>21 DEF KernelInv

\* What rt_thread_yield and the slices of time leave alone.
KeepsLists(q, r) ==
    /\ r.stat = q.stat /\ r.group = q.group
    /\ r.timers = q.timers /\ r.active = q.active
    /\ r.waiters = q.waiters /\ r.defunct = q.defunct /\ r.error = q.error
    /\ r.tick = q.tick /\ r.ticked = q.ticked /\ r.checking = q.checking
    /\ r.value = q.value /\ r.granted = q.granted

\* Either nothing is chosen and the ready lists stay, or the choice is best.
Rescheduled(q, r) ==
    \/ SameChoice(q, r) /\ r.ready = q.ready
    \/ /\ Best(r) /\ r.lost = q.lost
       /\ \/ r.pending = TRUE
          \/ r.pending = q.pending /\ r.current = q.current

\* rt_thread_yield sends the running thread behind those of its priority.
LEMMA YieldIs ==
  ASSUME NEW q, KernelInv(q), NEW r, r = rt_thread_yield(q)
  PROVE  KernelInv(r) /\ KeepsLists(q, r) /\ Rescheduled(q, r)
<1> DEFINE t == q.current
           p == Prio[t]
           w == Without(q.ready[p], t)
           v == Append(w, t)
           m == [q EXCEPT !.ready = [q.ready EXCEPT ![p] = v]]
<1>0. /\ q \in Kernels /\ ReadyInv(q) /\ WaitersInv(q) /\ DefunctInv(q) /\ TimersInv(q)
  BY DEF KernelInv
<1>1. CASE r = q
  BY <1>1 DEF KeepsLists, Rescheduled, SameChoice
<1>2. CASE q.stat[t] = "ready" /\ r = rt_schedule(m)
  <2>1. t \in Threads /\ p \in Prios
    BY <1>0, PriosAreNat DEF Kernels
  <2> HIDE DEF t, p
  <2>2. /\ q.ready[p] \in Seq(Threads) /\ IsInjective(q.ready[p])
        /\ t \in ToSet(q.ready[p])
    <3>1. ToSet(q.ready[p]) = {u \in Having(q, "ready") : Prio[u] = p}
      BY <1>0, <2>1 DEF ReadyInv, Lists
    <3> QED BY <1>0, <1>2, <2>1, <3>1 DEF Kernels, ReadyInv, Lists, Having, p, t
  <2>3. w \in Seq(Threads) /\ Lists(w, ToSet(q.ready[p]) \ {t})
    BY <2>2, WithoutIs
  <2> HIDE DEF w
  <2>4. v \in Seq(Threads) /\ Lists(v, (ToSet(q.ready[p]) \ {t}) \cup {t})
    BY <2>1, <2>3, AppendLists
  <2>5. Lists(v, ToSet(q.ready[p])) /\ v # <<>>
    <3>1. (ToSet(q.ready[p]) \ {t}) \cup {t} = ToSet(q.ready[p])
      BY <2>2
    <3>2. v # <<>>
      BY <2>1, <2>3, AppendProperties
    <3> QED BY <2>4, <3>1, <3>2
  <2> HIDE DEF v
  <2>6. /\ m \in Kernels /\ m.ready = [q.ready EXCEPT ![p] = v]
        /\ KeepsLists(q, m) /\ SameChoice(q, m)
    <3>1. [q.ready EXCEPT ![p] = v] \in [Prios -> Seq(Threads)]
      BY <1>0, <2>4 DEF Kernels
    <3> QED BY ONLY <1>0, <3>1 DEF Kernels, KeepsLists, SameChoice, m
  <2>7. r = rt_schedule(m)
    BY <1>2
  <2> HIDE DEF m
  <2>8. ReadyInv(m)
    <3>1. \A o \in Prios : m.ready[o] = IF o = p THEN v ELSE q.ready[o]
      BY <1>0, <2>1, <2>6 DEF Kernels
    <3>2. Having(m, "ready") = Having(q, "ready")
      BY <2>6 DEF Having, KeepsLists
    <3>3. \A o \in Prios : Lists(q.ready[o], ToSet(q.ready[o]))
      BY <1>0 DEF ReadyInv, Lists
    <3>4. \A o \in Prios : Lists(m.ready[o], {u \in Having(m, "ready") : Prio[u] = o})
      BY <1>0, <2>5, <3>1, <3>2 DEF ReadyInv, Lists
    <3>5. q.ready[p] # <<>>
      BY <2>2, EmptyToSet
    <3>6. m.group = {o \in Prios : m.ready[o] # <<>>}
      BY <1>0, <2>5, <2>6, <3>1, <3>5 DEF ReadyInv, KeepsLists
    <3> QED BY <3>4, <3>6 DEF ReadyInv
  <2>9. m.group # {}
    <3>1. q.ready[p] # <<>>
      BY <2>2, EmptyToSet
    <3> QED BY <1>0, <2>1, <2>6, <3>1 DEF ReadyInv, KeepsLists
  <2>10. /\ r \in Kernels /\ SameLists(m, r) /\ Frame(m, r) /\ r.error = m.error
         /\ Best(r) /\ r.lost = m.lost
         /\ \/ r.pending = TRUE
            \/ r.pending = m.pending /\ r.current = m.current
    BY <2>6, <2>7, <2>8, <2>9, ScheduleIs
  <2>11. KeepsLists(q, r) /\ Rescheduled(q, r)
    BY <2>6, <2>10 DEF KeepsLists, Rescheduled, SameLists, Frame, SameChoice
  <2>12. KernelInv(m)
    BY <1>0, <2>6, <2>8
       DEF KernelInv, KeepsLists, WaitersInv, DefunctInv, TimersInv, Having, Listed
  <2> QED BY <2>10, <2>11, <2>12, SameListsKeep
<1>3. m = [q EXCEPT !.ready[p] = Append(Without(@, t), t)]
  BY <1>0, PriosAreNat DEF Kernels
<1> HIDE DEF m
<1> QED BY <1>1, <1>2, <1>3 DEF rt_thread_yield

-----------------------------------------------------------------------------
(* The tick *)

\* A tick of the clock passes for every timer of the list.
LEMMA LessLeft ==
  ASSUME NEW s \in Seq(Entries), OneEach(s),
         NEW r, r = [i \in DOMAIN s |-> OneTickLess(s[i])]
  PROVE  /\ r \in Seq(Entries) /\ OneEach(r)
         /\ ToSet(r) = {OneTickLess(e) : e \in ToSet(s)}
         /\ {e.timer : e \in ToSet(r)} = {e.timer : e \in ToSet(s)}
         /\ Sorted(s) => Sorted(r)
<1>1. \A e \in Entries : /\ OneTickLess(e) \in Entries
                         /\ OneTickLess(e).timer = e.timer
                         /\ OneTickLess(e).left = e.left - 1
  BY DEF OneTickLess, Entries
<1>2. DOMAIN s = 1 .. Len(s) /\ Len(s) \in Nat /\ \A i \in 1 .. Len(s) : s[i] \in Entries
  OBVIOUS
<1>3. /\ r \in Seq(Entries) /\ DOMAIN r = DOMAIN s
      /\ \A i \in DOMAIN s : r[i] = OneTickLess(s[i])
  BY <1>1, <1>2
<1>4. /\ \A i \in DOMAIN s : r[i].timer = s[i].timer /\ r[i].left = s[i].left - 1
      /\ \A i \in DOMAIN s : s[i].left \in Int
  BY <1>1, <1>2, <1>3 DEF Entries
<1>5. OneEach(r)
  BY <1>3, <1>4 DEF OneEach
<1>6. ToSet(r) = {OneTickLess(e) : e \in ToSet(s)}
  BY <1>3 DEF ToSet
<1>7. {e.timer : e \in ToSet(r)} = {e.timer : e \in ToSet(s)}
  BY <1>3, <1>4 DEF ToSet
<1>8. Sorted(s) => Sorted(r)
  BY <1>2, <1>3, <1>4 DEF Sorted
<1> QED BY <1>3, <1>5, <1>6, <1>7, <1>8

\* What a tick makes of the kernel, rt_timer_check aside.
Clocked(q, r) ==
    /\ r.stat = q.stat /\ r.group = q.group /\ r.active = q.active
    /\ r.waiters = q.waiters /\ r.defunct = q.defunct /\ r.error = q.error
    /\ r.ticked = q.ticked /\ r.checking = q.checking
    /\ r.value = q.value /\ r.granted = q.granted
    /\ r.tick = (q.tick + 1) % TickMod
    /\ ToSet(r.timers) = {OneTickLess(e) : e \in ToSet(q.timers)}
    /\ Sorted(q.timers) => Sorted(r.timers)

\* rt_tick_increase counts the tick and the slice of time.
LEMMA TickIs ==
  ASSUME NEW q, KernelInv(q), NEW r, r = rt_tick_increase(q)
  PROVE  KernelInv(r) /\ Clocked(q, r) /\ Rescheduled(q, r)
<1> DEFINE s == [i \in DOMAIN q.timers |-> OneTickLess(q.timers[i])]
           n == (q.tick + 1) % TickMod
           m == [q EXCEPT !.tick = n, !.timers = s]
           t == m.current
           a == [m EXCEPT !.remaining = [m.remaining EXCEPT ![t] = m.remaining[t] - 1]]
           b == [m EXCEPT !.remaining = [m.remaining EXCEPT ![t] = Slice]]
<1>0. /\ q \in Kernels /\ ReadyInv(q) /\ WaitersInv(q) /\ DefunctInv(q) /\ TimersInv(q)
  BY DEF KernelInv
<1>1. /\ s \in Seq(Entries) /\ OneEach(s)
      /\ ToSet(s) = {OneTickLess(e) : e \in ToSet(q.timers)}
      /\ {e.timer : e \in ToSet(s)} = {e.timer : e \in ToSet(q.timers)}
      /\ Sorted(q.timers) => Sorted(s)
  <2>1. s = [i \in DOMAIN q.timers |-> OneTickLess(q.timers[i])]
    OBVIOUS
  <2>2. q.timers \in Seq(Entries) /\ OneEach(q.timers)
    BY <1>0 DEF Kernels, TimersInv
  <2> HIDE DEF s
  <2> QED BY <2>1, <2>2, LessLeft
<1>2. n \in Int
  <2>1. q.tick + 1 \in Int
    BY <1>0 DEF Kernels
  <2>2. TickMod \in Nat \ {0}
    BY ThreadConstants
  <2> QED BY ONLY <2>1, <2>2
<1>3. r = TimeSlice(m)
  BY <1>0 DEF rt_tick_increase, Kernels
<1> HIDE DEF s, n
<1>4. /\ m \in Kernels /\ m.timers = s /\ m.tick = n
      /\ SameChoice(q, m) /\ m.ready = q.ready
      /\ m.stat = q.stat /\ m.group = q.group /\ m.active = q.active
      /\ m.waiters = q.waiters /\ m.defunct = q.defunct /\ m.error = q.error
      /\ m.ticked = q.ticked /\ m.checking = q.checking
      /\ m.value = q.value /\ m.granted = q.granted
  BY ONLY <1>0, <1>1, <1>2 DEF Kernels, SameChoice
<1> HIDE DEF m
<1>5. KernelInv(m)
  <2>1. ReadyInv(m) /\ WaitersInv(m) /\ DefunctInv(m)
    BY <1>0, <1>4, ZenonT(40) DEF ReadyInv, WaitersInv, DefunctInv, Having
  <2>2. Listed(m) = Listed(q) /\ Having(m, "suspend") = Having(q, "suspend")
    BY <1>1, <1>4 DEF Listed, Having
  <2>3. TimersInv(m)
    BY <1>0, <1>1, <1>4, <2>2 DEF TimersInv
  <2> QED BY <1>4, <2>1, <2>3 DEF KernelInv
<1>6. t \in Threads
  BY <1>4 DEF Kernels
<1>7. IF m.remaining[t] > 1 THEN r = a ELSE r = rt_thread_yield(b)
  <2>1. /\ a = [m EXCEPT !.remaining[t] = @ - 1]
        /\ b = [m EXCEPT !.remaining[t] = Slice]
    BY <1>4 DEF Kernels
  <2> HIDE DEF a, b
  <2> QED BY <1>3, <2>1 DEF TimeSlice
<1>8. \A v \in Int : [m.remaining EXCEPT ![t] = v] \in [Threads -> Int]
  BY <1>4 DEF Kernels
<1>9. ASSUME NEW v \in Int, NEW c, c = [m EXCEPT !.remaining = [m.remaining EXCEPT ![t] = v]]
      PROVE  /\ KernelInv(c) /\ KeepsLists(m, c) /\ SameChoice(m, c)
             /\ c.ready = m.ready
  <2> DEFINE f == [m.remaining EXCEPT ![t] = v]
  <2>1. c = [m EXCEPT !.remaining = f] /\ f \in [Threads -> Int]
    BY <1>8, <1>9
  <2> HIDE DEF f
  <2>2. c \in Kernels /\ KeepsLists(m, c) /\ SameChoice(m, c) /\ c.ready = m.ready
    BY ONLY <1>4, <2>1 DEF Kernels, KeepsLists, SameChoice
  <2>3. SameLists(m, c)
    BY <2>2 DEF KeepsLists, SameLists
  <2> QED BY <1>5, <2>2, <2>3, SameListsKeep
<1>10. /\ KernelInv(a) /\ KeepsLists(m, a) /\ SameChoice(m, a) /\ a.ready = m.ready
       /\ KernelInv(b) /\ KeepsLists(m, b) /\ SameChoice(m, b) /\ b.ready = m.ready
  <2>1. m.remaining[t] - 1 \in Int /\ Slice \in Int
    BY <1>4, <1>6, ThreadConstants DEF Kernels
  <2> QED BY <1>9, <2>1
<1> HIDE DEF a, b, t
<1>11. KernelInv(r) /\ KeepsLists(m, r) /\ Rescheduled(m, r)
  <2>1. CASE r = a
    BY <1>10, <2>1 DEF Rescheduled
  <2>2. CASE r = rt_thread_yield(b)
    <3>1. KernelInv(r) /\ KeepsLists(b, r) /\ Rescheduled(b, r)
      BY <1>10, <2>2, YieldIs
    <3> QED BY <1>10, <3>1 DEF KeepsLists, Rescheduled, SameChoice
  <2> QED BY <1>7, <2>1, <2>2
<1>12. Clocked(q, r)
  BY <1>1, <1>4, <1>11 DEF Clocked, KeepsLists, n
<1>13. Rescheduled(q, r)
  BY <1>4, <1>11 DEF Rescheduled, SameChoice
<1> QED BY <1>11, <1>12, <1>13

\* The end of a turn of rt_timer_check says whether there is another.
LEMMA TurnedIs ==
  ASSUME NEW q, KernelInv(q), NEW r, r = Turned(q)
  PROVE  /\ KernelInv(r) /\ SameLists(q, r) /\ SameChoice(q, r)
         /\ r.error = q.error /\ r.tick = q.tick
         /\ r.value = q.value /\ r.granted = q.granted
         /\ r.checking = MoreDue(q)
<1>0. q \in Kernels
  BY DEF KernelInv
<1>1. MoreDue(q) \in BOOLEAN
  BY DEF MoreDue
<1> DEFINE c == MoreDue(q)
<1>2. r = [q EXCEPT !.checking = c, !.ticked = q.pending]
  BY DEF Turned
<1> HIDE DEF c
<1>3. r \in Kernels
  BY ONLY <1>0, <1>1, <1>2 DEF Kernels, c
<1>4. /\ SameLists(q, r) /\ SameChoice(q, r)
      /\ r.error = q.error /\ r.tick = q.tick
      /\ r.value = q.value /\ r.granted = q.granted
      /\ r.checking = c
  BY ONLY <1>0, <1>2 DEF Kernels, SameLists, SameChoice
<1> QED BY <1>3, <1>4, SameListsKeep DEF c

-----------------------------------------------------------------------------
(* The invariant *)

Types ==
    /\ running \in Threads /\ pc \in [Threads -> Labels]
    /\ wait \in [Threads -> Waits \cup {0}]
    /\ todo \in Int /\ keys \in 0 .. MaxKeys /\ hits \in Nat

\* The processor is the chosen thread's unless a switch is pending, and the
\* choice is the best unless the running thread is about to make it.
SchedInv ==
    ~k.lost => /\ ~k.pending => running = k.current
               /\ \/ Best(k)
                  \/ ~k.pending /\ pc[running] \in DOMAIN Resumes

\* A thread that was not started has not made a step.
PcInv == \A t \in Having(k, "init") : pc[t] = "go"

\* Only main is ever between the halves of rt_timer_start.
StartInv ==
    /\ \A t \in Threads : pc[t] = "starting" => t = Main
    /\ pc[Main] = "starting" =>
          /\ \E e \in Entries : starting = <<e>> /\ e.timer = Periodic
          /\ Periodic \notin k.active
    /\ pc[Main] # "starting" => starting = <<>>
CheckInv == k.checking => MoreDue(k)

\* The permits.
Held    == {t \in Threads : pc[t] = "inside"}
Waiting == {t \in Threads : pc[t] \in {"taking", "took"}}
Permits == k.value + Cardinality(Held) + Cardinality(k.granted)

\* t waits, or was woken by a permit or by its time, as it asked.
Settled(t) ==
    /\ k.stat[t] = "suspend" =>
          /\ t \in ToSet(k.waiters) /\ k.error[t] = "EOK"
          /\ t \in k.active => wait[t] # RT_WAITING_FOREVER
    /\ k.stat[t] = "ready" =>
          IF t \in k.granted THEN k.error[t] = "EOK"
          ELSE k.error[t] = "ETIMEOUT" /\ wait[t] # RT_WAITING_FOREVER

WaitInv ==
    /\ k.granted \subseteq Waiting
    /\ ToSet(k.waiters) \subseteq Waiting \ k.granted
    /\ \A t \in Waiting : k.stat[t] \in {"ready", "suspend"}

\* S are the waits a key came into: what they can add or take is bounded by
\* the keys that did.
PermInv ==
    \E S \in SUBSET Waiting :
        /\ \A t \in Waiting \ S : Settled(t)
        /\ 1 - hits + Cardinality(S) <= Permits
        /\ Permits <= 1 + hits - Cardinality(S)

ThreadInv ==
    /\ KernelInv(k) /\ Types /\ SchedInv /\ PcInv /\ StartInv /\ CheckInv
    /\ WaitInv /\ PermInv
Calling == {"sleeping", "taking", "leaving", "waking"}

\* Where a thread goes on when rt_schedule returns.
LEMMA ResumesIs ==
  /\ DOMAIN Resumes = Calling
  /\ Resumes["sleeping"] = "slept" /\ Resumes["taking"] = "took"
  /\ Resumes["leaving"] = "gone" /\ Resumes["waking"] = "go"
BY DEF Resumes, Calling

\* The labels of a thread.
LEMMA LabelsAre ==
  Labels = {"sleeping", "taking", "leaving", "waking",
            "go", "slept", "took", "gone", "inside", "starting"}
BY ResumesIs DEF Labels, Calling

\* The thread that makes a step outside the sections is the one chosen.
LEMMA RunnerIs ==
  ASSUME KernelInv(k), SchedInv, NEW t \in Threads, At(t, pc[t]),
         pc[t] \notin Calling
  PROVE  /\ k.current = t /\ Best(k) /\ k.stat[t] = "ready"
         /\ t \notin ToSet(k.waiters)
<1>1. Best(k) /\ k.current = t
  BY ResumesIs DEF At, SchedInv
<1>2. k \in Kernels /\ ReadyInv(k) /\ WaitersInv(k)
  BY DEF KernelInv
<1>3. k.stat[t] = "ready"
  BY <1>1, <1>2, BestIsReady
<1> QED BY <1>1, <1>2, <1>3 DEF WaitersInv, Having

\* The scheduler's choice survives a step that moves no ready thread.
LEMMA SchedStays ==
  ASSUME SchedInv, NEW t \in Threads, At(t, pc[t]), pc[t] \notin Calling,
         running' = running, SameChoice(k, k'), k'.ready = k.ready, k'.group = k.group
  PROVE  SchedInv'
<1>1. Best(k) /\ running = k.current
  BY ResumesIs DEF At, SchedInv
<1> QED BY <1>1 DEF SchedInv, Best, SameChoice, Top, At

\* A thread that is about to call rt_schedule may leave the choice to it.
LEMMA SchedCalls ==
  ASSUME SchedInv, NEW t \in Threads, At(t, pc[t]), pc'[t] \in Calling,
         running' = running, SameChoice(k, k')
  PROVE  SchedInv'
<1>1. running = k.current
  BY DEF At, SchedInv
<1> QED BY <1>1, ResumesIs DEF SchedInv, SameChoice, At

\* Who waits as it asked goes on doing so while nobody touches it.
LEMMA SettledStays ==
  ASSUME NEW t \in Threads, Settled(t),
         k'.stat[t] = k.stat[t], k'.error[t] = k.error[t],
         t \in ToSet(k.waiters) => t \in ToSet(k'.waiters),
         t \in k'.active => t \in k.active,
         t \in k'.granted <=> t \in k.granted,
         wait'[t] = wait[t]
  PROVE  Settled(t)'
BY DEF Settled

\* The permits survive a step that leaves waiters, holders and value alone.
LEMMA PermStays ==
  ASSUME PermInv, Waiting' = Waiting, Held' = Held, hits' = hits,
         k'.value = k.value, k'.granted = k.granted,
         \A t \in Waiting : Settled(t) => Settled(t)'
  PROVE  PermInv'
<1>1. PICK S \in SUBSET Waiting :
        /\ \A t \in Waiting \ S : Settled(t)
        /\ 1 - hits + Cardinality(S) <= Permits
        /\ Permits <= 1 + hits - Cardinality(S)
  BY DEF PermInv
<1>2. Permits' = Permits
  BY DEF Permits
<1>3. \A t \in Waiting' \ S : Settled(t)'
  BY <1>1
<1>4. S \in SUBSET Waiting'
  OBVIOUS
<1> QED BY <1>1, <1>2, <1>3, <1>4 DEF PermInv

\* The label of one thread changes: what it is counted among.
LEMMA Counted ==
  ASSUME pc \in [Threads -> Labels], NEW t \in Threads, NEW l \in Labels,
         Goto(t, l)
  PROVE  /\ l = "inside" => Held' = Held \cup {t}
         /\ l # "inside" => Held' = Held \ {t}
         /\ l \in {"taking", "took"} => Waiting' = Waiting \cup {t}
         /\ l \notin {"taking", "took"} => Waiting' = Waiting \ {t}
         /\ t \in Held <=> pc[t] = "inside"
         /\ t \in Waiting <=> pc[t] \in {"taking", "took"}
BY DEF Held, Waiting, Goto

-----------------------------------------------------------------------------
(* The steps of the threads *)

\* The times a timer is started with, and an entry started with one.
Spans == {d \in {KeyDelay, Period} \cup Delays \cup Waits : d > 0}

Fresh(q, e, x) ==
    /\ e.timer = x /\ e.left \in Spans
    /\ e.timeout = (q.tick + e.left) % TickMod

\* The times are the constants.
LEMMA SpansAre ==
  \A d \in Spans : /\ d \in Nat \ {0}
                   /\ d \in {KeyDelay, Period} \cup Delays \cup Waits
<1>1. /\ {KeyDelay, Period} \cup Delays \subseteq Nat \ {0}
      /\ Waits \subseteq Nat \cup {-1}
  BY ThreadConstants DEF RT_WAITING_FOREVER
<1>2. SUFFICES ASSUME NEW d \in Spans
               PROVE  /\ d \in Nat \ {0}
                      /\ d \in {KeyDelay, Period} \cup Delays \cup Waits
  OBVIOUS
<1>3. d \in {KeyDelay, Period} \cup Delays \cup Waits /\ d > 0
  BY DEF Spans
<1>4. CASE d \in {KeyDelay, Period} \cup Delays
  BY <1>1, <1>3, <1>4
<1>5. CASE d \in Waits
  BY ONLY <1>1, <1>3, <1>5
<1> QED BY <1>3, <1>4, <1>5

\* What rt_timer_start makes of a time is a fresh entry.
LEMMA FreshIs ==
  ASSUME NEW q \in Kernels, NEW x \in Timers, NEW d \in Spans, NEW e, e = Entry(q, x, d)
  PROVE  e \in Entries /\ Fresh(q, e, x)
<1>1. d \in Int
  BY SpansAre
<1>2. e \in Entries /\ e.timer = x /\ e.left = d /\ e.timeout = (q.tick + d) % TickMod
  BY <1>1, EntryIs
<1> QED BY <1>2 DEF Fresh

\* The clock stands, and of the timers and the stats those of x may change.
Moves(q, r, x) ==
    /\ r.tick = q.tick /\ r.checking = q.checking
    /\ \A u \in Threads \ {x} : r.stat[u] = q.stat[u]
    /\ \/ r.timers = q.timers
       \/ TimersLess(q, r, x)
       \/ \E e \in Entries : Fresh(q, e, x) /\ TimerMore(q, r, x, e)

\* A step that leaves the clock, and the timers of whoever starts one, alone.
Aside == \E x \in Threads : pc[x] # "starting" /\ Moves(k, k', x)

\* A step outside rt_timer_start that does not activate the periodic timer.
LEMMA StartStays ==
  ASSUME Types, StartInv, NEW t \in Threads, NEW l \in Labels,
         Goto(t, l), pc[t] # "starting", l # "starting",
         starting' = starting, Periodic \in k'.active => Periodic \in k.active
  PROVE  StartInv'
<1>1. \A u \in Threads : pc'[u] = "starting" <=> pc[u] = "starting"
  BY DEF Types, Goto
<1>2. Main \in Threads
  BY ThreadConstants
<1> QED BY <1>1, <1>2 DEF StartInv

\* A step of a thread that was started.
LEMMA PcStays ==
  ASSUME Types, PcInv, NEW t \in Threads, NEW l,
         Goto(t, l), k.stat[t] # "init",
         \A u \in Threads : k'.stat[u] = "init" => k.stat[u] = "init"
  PROVE  PcInv'
BY DEF PcInv, Having, Types, Goto

\* What a step of t keeps when the kernel's permits and waiters stay and t
\* does not come to wait or to hold.
LEMMA PermsAside ==
  ASSUME Types, WaitInv, PermInv, NEW t \in Threads, NEW l \in Labels,
         Goto(t, l),
         \/ pc[t] \notin {"inside", "taking", "took"} /\ l \notin {"inside", "taking", "took"}
         \/ pc[t] = "taking" /\ l = "took",
         hits' = hits, wait' = wait,
         k'.value = k.value, k'.granted = k.granted,
         \A u \in Waiting :
            /\ k'.stat[u] = k.stat[u] /\ k'.error[u] = k.error[u]
            /\ u \in k'.active => u \in k.active,
         ToSet(k'.waiters) = ToSet(k.waiters)
  PROVE  WaitInv' /\ PermInv'
<1>1. Held' = Held /\ Waiting' = Waiting
  <2>1. pc \in [Threads -> Labels]
    BY DEF Types
  <2>2. /\ l # "inside" => Held' = Held \ {t}
        /\ l \in {"taking", "took"} => Waiting' = Waiting \cup {t}
        /\ l \notin {"taking", "took"} => Waiting' = Waiting \ {t}
        /\ t \in Held <=> pc[t] = "inside"
        /\ t \in Waiting <=> pc[t] \in {"taking", "took"}
    BY <2>1, Counted
  <2> QED BY <2>2
<1>2. Waiting \subseteq Threads
  BY DEF Waiting
<1>3. WaitInv'
  BY <1>1 DEF WaitInv
<1>4. \A u \in Waiting : Settled(u) => Settled(u)'
  <2>1. SUFFICES ASSUME NEW u \in Waiting, Settled(u)
                 PROVE  Settled(u)'
    OBVIOUS
  <2>2. /\ u \in Threads
        /\ k'.stat[u] = k.stat[u] /\ k'.error[u] = k.error[u]
        /\ u \in k'.active => u \in k.active
        /\ u \in ToSet(k.waiters) => u \in ToSet(k'.waiters)
        /\ u \in k'.granted <=> u \in k.granted
        /\ wait'[u] = wait[u]
    BY <1>2
  <2> QED BY <2>1, <2>2, SettledStays
<1>5. PermInv'
  BY <1>1, <1>4, PermStays
<1> QED BY <1>3, <1>5

\* Calling rt_schedule after the section.
LEMMA CallScheduleKeeps ==
  ASSUME ThreadInv, NEW t \in Threads, CallSchedule(t)
  PROVE  ThreadInv' /\ Aside
<1>1. /\ pc[t] \in Calling /\ At(t, pc[t]) /\ k' = rt_schedule(k)
      /\ Goto(t, Resumes[pc[t]])
      /\ UNCHANGED <<running, starting, wait, todo, keys, hits>>
  BY ResumesIs DEF CallSchedule
<1>2. /\ KernelInv(k) /\ Types /\ SchedInv /\ PcInv /\ StartInv /\ CheckInv
      /\ WaitInv /\ PermInv
  BY DEF ThreadInv
<1>3. k \in Kernels /\ ReadyInv(k)
  BY <1>2 DEF KernelInv
<1>4. /\ k' \in Kernels /\ SameLists(k, k') /\ Frame(k, k') /\ k'.error = k.error
      /\ k.group = {} => k'.lost /\ k'.current = k.current /\ k'.pending = k.pending
      /\ k.group # {} => /\ Best(k') /\ k'.lost = k.lost
                         /\ \/ k'.pending = TRUE
                            \/ k'.pending = k.pending /\ k'.current = k.current
  BY <1>1, <1>3, ScheduleIs
<1> DEFINE l == Resumes[pc[t]]
<1>5. /\ l \in Labels /\ l \notin {"inside", "taking", "starting"}
      /\ l = "took" <=> pc[t] = "taking"
  BY <1>1, ResumesIs, LabelsAre DEF Calling
<1>6. Goto(t, l)
  BY <1>1
<1> HIDE DEF l
<1>7. KernelInv(k')
  BY <1>2, <1>4, SameListsKeep
<1>8. Types'
  BY <1>1, <1>2, <1>5, <1>6 DEF Types, Goto
<1>9. SchedInv'
  <2>1. running = k.current
    BY <1>1, <1>2 DEF SchedInv, At
  <2> QED BY <1>1, <1>4, <2>1 DEF SchedInv, At
<1>10. k.stat[t] # "init"
  BY <1>1, <1>2 DEF PcInv, Having, Calling
<1>11. PcInv'
  BY <1>2, <1>4, <1>5, <1>6, <1>10, PcStays DEF SameLists
<1>12. StartInv'
  BY <1>1, <1>2, <1>4, <1>5, <1>6, StartStays DEF SameLists, Calling
<1>13. CheckInv'
  BY <1>1, <1>4 DEF CheckInv, Frame, At
<1>14. WaitInv' /\ PermInv'
  <2>1. \/ pc[t] \notin {"inside", "taking", "took"} /\ l \notin {"inside", "taking", "took"}
        \/ pc[t] = "taking" /\ l = "took"
    BY <1>1, <1>5 DEF Calling
  <2>2. /\ k'.value = k.value /\ k'.granted = k.granted
        /\ \A u \in Waiting :
            /\ k'.stat[u] = k.stat[u] /\ k'.error[u] = k.error[u]
            /\ u \in k'.active => u \in k.active
        /\ ToSet(k'.waiters) = ToSet(k.waiters)
    BY <1>4 DEF SameLists, Frame
  <2>3. hits' = hits /\ wait' = wait
    BY <1>1
  <2> QED BY <1>2, <1>5, <1>6, <2>1, <2>2, <2>3, PermsAside
<1>15. Aside
  BY <1>1, <1>4 DEF Aside, Moves, SameLists, Frame, Calling
<1> QED BY <1>7, <1>8, <1>9, <1>11, <1>12, <1>13, <1>14, <1>15 DEF ThreadInv

\* Nobody becomes unstarted, and who waits is left as it is.
OthersStay ==
    \A u \in Threads :
       /\ k'.stat[u] = "init" => k.stat[u] = "init"
       /\ u \in Waiting => /\ k'.stat[u] = k.stat[u] /\ k'.error[u] = k.error[u]
                           /\ u \in k'.active => u \in k.active

\* A step of the running thread t from one label to another that does not
\* touch the semaphore.
LEMMA StepKeeps ==
  ASSUME ThreadInv, NEW t \in Threads, At(t, pc[t]),
         pc[t] \notin Calling \cup {"inside", "took", "starting"},
         NEW l \in Labels \ {"inside", "taking", "took", "starting"},
         Goto(t, l),
         KernelInv(k'), SameChoice(k, k'), Frame(k, k'),
         l \in Calling \/ (k'.ready = k.ready /\ k'.group = k.group),
         OthersStay,
         Periodic \in k'.active => Periodic \in k.active,
         ToSet(k'.waiters) = ToSet(k.waiters),
         UNCHANGED <<running, starting, wait, todo, keys, hits>>
  PROVE  ThreadInv'
<1>2. /\ KernelInv(k) /\ Types /\ SchedInv /\ PcInv /\ StartInv /\ CheckInv
      /\ WaitInv /\ PermInv
  BY DEF ThreadInv
<1>3. /\ k.current = t /\ Best(k) /\ k.stat[t] = "ready"
      /\ t \notin ToSet(k.waiters)
  BY <1>2, RunnerIs
<1>4. pc'[t] = l
  BY <1>2 DEF Types, Goto
<1>5. Types'
  BY <1>2 DEF Types, Goto
<1>6. SchedInv'
  <2>1. CASE l \in Calling
    BY <1>2, <1>4, <2>1, SchedCalls
  <2>2. CASE k'.ready = k.ready /\ k'.group = k.group
    BY <1>2, <2>2, SchedStays
  <2> QED BY <2>1, <2>2
<1>7. PcInv'
  <2>1. \A u \in Threads : k'.stat[u] = "init" => k.stat[u] = "init"
    BY DEF OthersStay
  <2> QED BY <1>2, <1>3, <2>1, PcStays
<1>8. StartInv'
  BY <1>2, StartStays
<1>9. CheckInv'
  BY DEF CheckInv, Frame, At
<1>10. WaitInv' /\ PermInv'
  <2>1. pc[t] # "taking" /\ l \in Labels /\ Waiting \subseteq Threads
    BY DEF Calling, Waiting
  <2>2. pc[t] \notin {"inside", "taking", "took"} /\ l \notin {"inside", "taking", "took"}
    BY <2>1
  <2>3. k'.value = k.value /\ k'.granted = k.granted /\ wait' = wait /\ hits' = hits
    BY DEF Frame
  <2>4. \A u \in Waiting :
            /\ k'.stat[u] = k.stat[u] /\ k'.error[u] = k.error[u]
            /\ u \in k'.active => u \in k.active
    BY <2>1 DEF OthersStay
  <2> QED BY <1>2, <2>1, <2>2, <2>3, <2>4, PermsAside
<1> QED BY <1>5, <1>6, <1>7, <1>8, <1>9, <1>10 DEF ThreadInv

\* rt_thread_sleep of the running thread, or of one a key suspended.
LEMMA SleepKeeps ==
  ASSUME ThreadInv, NEW t \in Threads, NEW d \in Delays, Sleep(t, d)
  PROVE  ThreadInv' /\ Aside
<1>1. /\ At(t, pc[t]) /\ pc[t] = "go" /\ k' = SleepSection(k, t, d)
      /\ Goto(t, "sleeping")
      /\ UNCHANGED <<running, starting, wait, todo, keys, hits>>
  BY DEF Sleep, At
<1>2. KernelInv(k) /\ SchedInv
  BY DEF ThreadInv
<1>3. k.stat[t] = "ready"
  BY <1>1, <1>2, RunnerIs DEF Calling
<1>4. d \in Int
  BY ThreadConstants
<1>5. /\ KernelInv(k') /\ TimerMore(k, k', t, Entry(k, t, d))
      /\ StatIs(k, k', t, "suspend")
      /\ Frame(k, k') /\ SameChoice(k, k') /\ k'.error = k.error
      /\ k'.waiters = k.waiters /\ k'.defunct = k.defunct
  <2> DEFINE e == Entry(k, t, d)
  <2>1. e = Entry(k, t, d) /\ k.stat[t] \in {"ready", "suspend"}
    BY <1>3
  <2> HIDE DEF e
  <2> QED BY <1>1, <1>2, <1>4, <2>1, SleepIs
<1>6. OthersStay
  <2>1. t \notin Waiting /\ k \in Kernels
    BY <1>1, <1>2 DEF Waiting, KernelInv
  <2> QED BY <1>5, <2>1 DEF StatIs, TimerMore, Kernels, OthersStay
<1>7. Periodic \in k'.active => Periodic \in k.active
  BY <1>5, ThreadConstants DEF TimerMore
<1>8. /\ "sleeping" \in Labels \ {"inside", "taking", "took", "starting"}
      /\ "sleeping" \in Calling \/ (k'.ready = k.ready /\ k'.group = k.group)
      /\ pc[t] \notin Calling \cup {"inside", "took", "starting"}
  <2>1. "sleeping" \in Calling
    BY DEF Calling
  <2>2. /\ "sleeping" \in Labels \ {"inside", "taking", "took", "starting"}
        /\ pc[t] \notin Calling \cup {"inside", "took", "starting"}
    BY <1>1, LabelsAre DEF Calling
  <2> QED BY <2>1, <2>2
<1>9. ToSet(k'.waiters) = ToSet(k.waiters)
  BY <1>5
<1>10. Aside
  <2> DEFINE e == Entry(k, t, d)
  <2>1. e = Entry(k, t, d) /\ TimerMore(k, k', t, e)
    BY <1>5
  <2> HIDE DEF e
  <2>2. e \in Entries /\ Fresh(k, e, t)
    <3>1. k \in Kernels /\ t \in Timers /\ d \in Spans
      BY <1>2, ThreadConstants DEF KernelInv, Timers, Spans
    <3> QED BY <2>1, <3>1, FreshIs
  <2>3. /\ k'.tick = k.tick /\ k'.checking = k.checking
        /\ \A u \in Threads \ {t} : k'.stat[u] = k.stat[u]
    BY <1>2, <1>5 DEF Frame, StatIs, KernelInv, Kernels
  <2> QED BY <1>1, <2>1, <2>2, <2>3 DEF Aside, Moves
<1> QED BY <1>1, <1>5, <1>6, <1>7, <1>8, <1>9, <1>10, StepKeeps

\* rt_thread_sleep returns.
LEMMA SleptKeeps ==
  ASSUME ThreadInv, NEW t \in Threads, Slept(t)
  PROVE  ThreadInv' /\ Aside
<1>1. /\ At(t, pc[t]) /\ pc[t] = "slept" /\ k' = ClearError(k, t)
      /\ Goto(t, "go")
      /\ UNCHANGED <<running, starting, wait, todo, keys, hits>>
  BY DEF Slept, At
<1>2. KernelInv(k) /\ k \in Kernels
  BY DEF ThreadInv, KernelInv
<1> DEFINE v == IF k.error[t] = "ETIMEOUT" THEN "EOK" ELSE k.error[t]
<1>3. v \in Errors
  BY <1>2 DEF Kernels, Errors
<1>4. k' = WithError(k, t, v)
  BY <1>1, <1>2 DEF ClearError, WithError, Kernels
<1> HIDE DEF v
<1>5. /\ KernelInv(k') /\ SameLists(k, k') /\ Frame(k, k') /\ SameChoice(k, k')
      /\ ErrorIs(k, k', t, v)
  BY <1>2, <1>3, <1>4, ErrorSet
<1>6. OthersStay
  <2>1. t \notin Waiting
    BY <1>1 DEF Waiting
  <2> QED BY <1>2, <1>5, <2>1 DEF SameLists, ErrorIs, Kernels, OthersStay
<1>7. /\ Periodic \in k'.active => Periodic \in k.active
      /\ ToSet(k'.waiters) = ToSet(k.waiters)
      /\ k'.ready = k.ready /\ k'.group = k.group
  BY <1>5 DEF SameLists
<1>8. /\ "go" \in Labels \ {"inside", "taking", "took", "starting"}
      /\ pc[t] \notin Calling \cup {"inside", "took", "starting"}
  BY <1>1, LabelsAre DEF Calling
<1>9. Aside
  BY <1>1, <1>5 DEF Aside, Moves, SameLists, Frame
<1> QED BY <1>1, <1>5, <1>6, <1>7, <1>8, <1>9, StepKeeps

\* A thread that was not started becomes a suspended one.
LEMMA RaisedIs ==
  ASSUME NEW q, KernelInv(q), NEW u \in Threads, q.stat[u] = "init",
         NEW r, r = [q EXCEPT !.stat[u] = "suspend"]
  PROVE  /\ KernelInv(r) /\ StatIs(q, r, u, "suspend")
         /\ Frame(q, r) /\ SameChoice(q, r) /\ r.error = q.error
         /\ r.ready = q.ready /\ r.group = q.group
         /\ r.timers = q.timers /\ r.active = q.active
         /\ r.waiters = q.waiters /\ r.defunct = q.defunct
<1>0. /\ q \in Kernels /\ ReadyInv(q) /\ WaitersInv(q) /\ DefunctInv(q) /\ TimersInv(q)
  BY DEF KernelInv
<1> DEFINE f == [q.stat EXCEPT ![u] = "suspend"]
<1>1. f \in [Threads -> Stats] /\ r = [q EXCEPT !.stat = f]
  BY <1>0 DEF Kernels, Stats
<1>2. r.stat = f
  BY <1>0, <1>1 DEF Kernels
<1>3. StatIs(q, r, u, "suspend")
  BY <1>2 DEF StatIs
<1> HIDE DEF f
<1>4. /\ r \in Kernels
      /\ Frame(q, r) /\ SameChoice(q, r) /\ r.error = q.error
      /\ r.ready = q.ready /\ r.group = q.group
      /\ r.timers = q.timers /\ r.active = q.active
      /\ r.waiters = q.waiters /\ r.defunct = q.defunct
  BY ONLY <1>0, <1>1 DEF Kernels, Frame, SameChoice
<1>5. ReadyInv(r)
  <2>1. Having(r, "ready") = Having(q, "ready")
    BY <1>0, <1>3 DEF Having, StatIs, Kernels
  <2> QED BY <1>0, <1>4, <2>1 DEF ReadyInv
<1>6. WaitersInv(r) /\ DefunctInv(r) /\ TimersInv(r)
  <2>1. q.stat[u] # "close"
    OBVIOUS
  <2> QED BY <1>0, <1>3, <1>4, <2>1, RestSuspended
<1> QED BY <1>3, <1>4, <1>5, <1>6 DEF KernelInv

\* main starts a thread: rt_thread_resume, and rt_schedule if it runs.
LEMMA StartupKeeps ==
  ASSUME ThreadInv, NEW t \in Threads, NEW u \in Threads, rt_thread_startup(t, u)
  PROVE  ThreadInv' /\ Aside
<1> DEFINE m == [k EXCEPT !.stat[u] = "suspend"]
<1>1. /\ At(t, pc[t]) /\ pc[t] = "go" /\ k.stat[u] = "init"
      /\ k' = rt_thread_resume(m, u)
      /\ Goto(t, "waking")
      /\ UNCHANGED <<running, starting, wait, todo, keys, hits>>
  BY DEF rt_thread_startup, At
<1>2. KernelInv(k) /\ k \in Kernels /\ PcInv
  BY DEF ThreadInv, KernelInv
<1>3. /\ KernelInv(m) /\ StatIs(k, m, u, "suspend")
      /\ Frame(k, m) /\ SameChoice(k, m) /\ m.error = k.error
      /\ m.ready = k.ready /\ m.group = k.group
      /\ m.timers = k.timers /\ m.active = k.active
      /\ m.waiters = k.waiters /\ m.defunct = k.defunct
  <2>1. m = [k EXCEPT !.stat[u] = "suspend"]
    OBVIOUS
  <2> HIDE DEF m
  <2> QED BY <1>1, <1>2, <2>1, RaisedIs
<1> HIDE DEF m
<1>4. m.stat[u] = "suspend"
  BY <1>2, <1>3 DEF StatIs, Kernels
<1>5. /\ KernelInv(k')
      /\ Frame(m, k') /\ SameChoice(m, k') /\ k'.error = m.error
      /\ StatIs(m, k', u, "ready") /\ ReadyMore(m, k', u)
      /\ WaitersLess(m, k', u) /\ TimersLess(m, k', u)
      /\ k'.defunct = m.defunct
  BY <1>1, <1>3, <1>4, ResumeIs
<1>6. Frame(k, k') /\ SameChoice(k, k')
  BY <1>3, <1>5 DEF Frame, SameChoice
<1>7. u \notin Waiting
  BY <1>1, <1>2 DEF PcInv, Having, Waiting
<1>8. OthersStay
  BY <1>2, <1>3, <1>5, <1>7 DEF StatIs, TimersLess, Kernels, OthersStay
<1>9. ToSet(k'.waiters) = ToSet(k.waiters)
  <2>1. u \notin ToSet(k.waiters)
    BY <1>1, <1>2 DEF KernelInv, WaitersInv, Having
  <2> QED BY <1>3, <1>5, <2>1 DEF WaitersLess, Lists
<1>10. Periodic \in k'.active => Periodic \in k.active
  BY <1>3, <1>5 DEF TimersLess
<1>11. /\ "waking" \in Labels \ {"inside", "taking", "took", "starting"}
       /\ "waking" \in Calling \/ (k'.ready = k.ready /\ k'.group = k.group)
       /\ pc[t] \notin Calling \cup {"inside", "took", "starting"}
  <2>1. "waking" \in Calling
    BY DEF Calling
  <2>2. /\ "waking" \in Labels \ {"inside", "taking", "took", "starting"}
        /\ pc[t] \notin Calling \cup {"inside", "took", "starting"}
    BY <1>1, LabelsAre DEF Calling
  <2> QED BY <2>1, <2>2
<1>12. Aside
  <2>1. pc[u] # "starting"
    BY <1>1, <1>2 DEF PcInv, Having
  <2>2. \A x \in Threads \ {u} : k'.stat[x] = k.stat[x]
    BY <1>2, <1>3, <1>5 DEF StatIs, Kernels
  <2>3. TimersLess(k, k', u)
    BY <1>3, <1>5 DEF TimersLess
  <2> QED BY <1>6, <2>1, <2>2, <2>3 DEF Aside, Moves, Frame
<1> QED BY <1>1, <1>5, <1>6, <1>8, <1>9, <1>10, <1>11, <1>12, StepKeeps

\* A thread ends and is queued for the idle thread.
LEMMA ExitKeeps ==
  ASSUME ThreadInv, NEW t \in Threads, rt_thread_exit(t)
  PROVE  ThreadInv' /\ Aside
<1>1. /\ At(t, pc[t]) /\ pc[t] = "go" /\ k' = ExitSection(k, t)
      /\ Goto(t, "leaving")
      /\ UNCHANGED <<running, starting, wait, todo, keys, hits>>
  BY DEF rt_thread_exit, At
<1>2. KernelInv(k) /\ SchedInv /\ k \in Kernels
  BY DEF ThreadInv, KernelInv
<1>3. k.stat[t] = "ready"
  BY <1>1, <1>2, RunnerIs DEF Calling
<1>4. /\ KernelInv(k') /\ StatIs(k, k', t, "close") /\ TimersLess(k, k', t)
      /\ Frame(k, k') /\ SameChoice(k, k') /\ k'.error = k.error
      /\ k'.waiters = k.waiters
  BY <1>1, <1>2, <1>3, ExitIs
<1>5. OthersStay
  <2>1. t \notin Waiting
    BY <1>1 DEF Waiting
  <2> QED BY <1>2, <1>4, <2>1 DEF StatIs, TimersLess, Kernels, OthersStay
<1>6. Periodic \in k'.active => Periodic \in k.active
  BY <1>4 DEF TimersLess
<1>7. /\ "leaving" \in Labels \ {"inside", "taking", "took", "starting"}
      /\ "leaving" \in Calling \/ (k'.ready = k.ready /\ k'.group = k.group)
      /\ pc[t] \notin Calling \cup {"inside", "took", "starting"}
  <2>1. "leaving" \in Calling
    BY DEF Calling
  <2>2. /\ "leaving" \in Labels \ {"inside", "taking", "took", "starting"}
        /\ pc[t] \notin Calling \cup {"inside", "took", "starting"}
    BY <1>1, LabelsAre DEF Calling
  <2> QED BY <2>1, <2>2
<1>8. Aside
  <2>1. \A u \in Threads \ {t} : k'.stat[u] = k.stat[u]
    BY <1>2, <1>4 DEF StatIs, Kernels
  <2> QED BY <1>1, <1>4, <2>1 DEF Aside, Moves, Frame
<1> QED BY <1>1, <1>4, <1>5, <1>6, <1>7, <1>8, StepKeeps

-----------------------------------------------------------------------------
(* The periodic timer, the idle thread *)

\* The half of rt_timer_start that takes the timer out.
LEMMA StartTimerKeeps ==
  ASSUME ThreadInv, NEW t \in Threads, StartTimer(t)
  PROVE  ThreadInv'
<1> DEFINE e == Entry(k, Periodic, Period)
<1>1. /\ At(t, pc[t]) /\ pc[t] = "go" /\ k' = TimerOff(k, Periodic) /\ t = Main
      /\ starting' = <<e>> /\ Periodic \notin k.active
      /\ Goto(t, "starting")
      /\ UNCHANGED <<running, wait, todo, keys, hits>>
  BY DEF StartTimer, At
<1>2. /\ KernelInv(k) /\ Types /\ SchedInv /\ PcInv /\ StartInv /\ WaitInv /\ PermInv
      /\ k \in Kernels /\ ReadyInv(k) /\ WaitersInv(k) /\ DefunctInv(k) /\ TimersInv(k)
  BY DEF ThreadInv, KernelInv
<1>3. e \in Entries /\ e.timer = Periodic
  <2>1. Periodic \in Timers /\ Period \in Int
    BY ThreadConstants DEF Timers
  <2>2. e = Entry(k, Periodic, Period)
    OBVIOUS
  <2> HIDE DEF e
  <2> QED BY <1>2, <2>1, <2>2, EntryIs
<1> HIDE DEF e
<1>4. /\ k' \in Kernels /\ OneEach(k'.timers) /\ k'.active = Listed(k')
      /\ TimersLess(k, k', Periodic)
      /\ Frame(k, k') /\ SameChoice(k, k') /\ k'.error = k.error
      /\ k'.stat = k.stat /\ k'.ready = k.ready /\ k'.group = k.group
      /\ k'.waiters = k.waiters /\ k'.defunct = k.defunct
  <2>1. OneEach(k.timers) /\ k.active = Listed(k)
    BY <1>2 DEF TimersInv
  <2> QED BY <1>1, <1>2, <2>1, StopIs
<1>5. k.stat[t] = "ready"
  BY <1>1, <1>2, RunnerIs DEF Calling
<1>6. KernelInv(k')
  <2>1. ReadyInv(k') /\ WaitersInv(k') /\ DefunctInv(k')
    BY <1>2, <1>4 DEF ReadyInv, WaitersInv, DefunctInv, Having
  <2>2. TimersInv(k')
    BY <1>2, <1>4 DEF TimersInv, TimersLess, Having
  <2> QED BY <1>4, <2>1, <2>2 DEF KernelInv
<1>7. "starting" \in Labels
  BY LabelsAre
<1>8. Types'
  BY <1>1, <1>2, <1>7 DEF Types, Goto
<1>9. SchedInv'
  BY <1>1, <1>2, <1>4, SchedStays DEF Calling
<1>10. PcInv'
  <2>1. \A u \in Threads : k'.stat[u] = "init" => k.stat[u] = "init"
    BY <1>4
  <2> QED BY <1>1, <1>2, <1>5, <2>1, PcStays
<1>11. StartInv'
  <2>1. pc' = [pc EXCEPT ![Main] = "starting"] /\ pc \in [Threads -> Labels]
        /\ Main \in Threads
    BY <1>1, <1>2 DEF Goto, Types
  <2>2. Periodic \notin k'.active
    BY <1>1, <1>4 DEF TimersLess
  <2> QED BY <1>1, <1>2, <1>3, <2>1, <2>2 DEF StartInv
<1>12. CheckInv'
  BY <1>1, <1>4 DEF CheckInv, Frame, At
<1>13. WaitInv' /\ PermInv'
  <2>1. pc[t] \notin {"inside", "taking", "took"} /\ "starting" \notin {"inside", "taking", "took"}
    BY <1>1
  <2>2. k'.value = k.value /\ k'.granted = k.granted /\ wait' = wait /\ hits' = hits
        /\ ToSet(k'.waiters) = ToSet(k.waiters)
    BY <1>1, <1>4 DEF Frame
  <2>3. \A u \in Waiting :
            /\ k'.stat[u] = k.stat[u] /\ k'.error[u] = k.error[u]
            /\ u \in k'.active => u \in k.active
    BY <1>4 DEF TimersLess
  <2> QED BY <1>1, <1>2, <1>7, <2>1, <2>2, <2>3, PermsAside
<1> QED BY <1>6, <1>8, <1>9, <1>10, <1>11, <1>12, <1>13 DEF ThreadInv

\* The half of rt_timer_start that inserts it.
LEMMA TimerStartedKeeps ==
  ASSUME ThreadInv, NEW t \in Threads, TimerStarted(t)
  PROVE  ThreadInv'
<1> DEFINE e == Head(starting)
<1>1. /\ At(t, pc[t]) /\ pc[t] = "starting" /\ k' = TimerInsert(k, e)
      /\ starting' = <<>>
      /\ Goto(t, "go")
      /\ UNCHANGED <<running, wait, todo, keys, hits>>
  BY DEF TimerStarted, At
<1>2. /\ KernelInv(k) /\ Types /\ SchedInv /\ PcInv /\ StartInv /\ WaitInv /\ PermInv
      /\ k \in Kernels /\ ReadyInv(k) /\ WaitersInv(k) /\ DefunctInv(k) /\ TimersInv(k)
  BY DEF ThreadInv, KernelInv
<1>3. /\ t = Main /\ e \in Entries /\ e.timer = Periodic
      /\ Periodic \notin k.active
  BY <1>1, <1>2 DEF StartInv
<1> HIDE DEF e
<1>4. /\ k' \in Kernels /\ OneEach(k'.timers) /\ k'.active = Listed(k')
      /\ k'.active = k.active \cup {Periodic}
      /\ Frame(k, k') /\ SameChoice(k, k') /\ k'.error = k.error
      /\ k'.stat = k.stat /\ k'.ready = k.ready /\ k'.group = k.group
      /\ k'.waiters = k.waiters /\ k'.defunct = k.defunct
  <2>1. OneEach(k.timers) /\ k.active = Listed(k) /\ e.timer \notin k.active
    BY <1>2, <1>3 DEF TimersInv
  <2> QED BY <1>1, <1>2, <1>3, <2>1, TimerInsertIs
<1>5. k.stat[t] = "ready"
  BY <1>1, <1>2, RunnerIs DEF Calling
<1>6. KernelInv(k')
  <2>1. ReadyInv(k') /\ WaitersInv(k') /\ DefunctInv(k')
    BY <1>2, <1>4 DEF ReadyInv, WaitersInv, DefunctInv, Having
  <2>2. TimersInv(k')
    BY <1>2, <1>4, ThreadConstants DEF TimersInv, Having
  <2> QED BY <1>4, <2>1, <2>2 DEF KernelInv
<1>7. "go" \in Labels
  BY LabelsAre
<1>8. Types'
  BY <1>1, <1>2, <1>7 DEF Types, Goto
<1>9. SchedInv'
  BY <1>1, <1>2, <1>4, SchedStays DEF Calling
<1>10. PcInv'
  <2>1. \A u \in Threads : k'.stat[u] = "init" => k.stat[u] = "init"
    BY <1>4
  <2> QED BY <1>1, <1>2, <1>5, <2>1, PcStays
<1>11. StartInv'
  <2>1. pc' = [pc EXCEPT ![Main] = "go"] /\ pc \in [Threads -> Labels]
        /\ Main \in Threads
    BY <1>1, <1>2, <1>3 DEF Goto, Types
  <2> QED BY <1>1, <1>2, <2>1 DEF StartInv
<1>12. CheckInv'
  BY <1>1, <1>4 DEF CheckInv, Frame, At
<1>13. WaitInv' /\ PermInv'
  <2>1. pc[t] \notin {"inside", "taking", "took"} /\ "go" \notin {"inside", "taking", "took"}
    BY <1>1
  <2>2. k'.value = k.value /\ k'.granted = k.granted /\ wait' = wait /\ hits' = hits
        /\ ToSet(k'.waiters) = ToSet(k.waiters)
    BY <1>1, <1>4 DEF Frame
  <2>3. \A u \in Waiting :
            /\ k'.stat[u] = k.stat[u] /\ k'.error[u] = k.error[u]
            /\ u \in k'.active => u \in k.active
    BY <1>4, ThreadConstants DEF Waiting
  <2> QED BY <1>1, <1>2, <1>7, <2>1, <2>2, <2>3, PermsAside
<1> QED BY <1>6, <1>8, <1>9, <1>10, <1>11, <1>12, <1>13 DEF ThreadInv

\* The idle thread deletes an ended thread.
LEMMA IdleKeeps ==
  ASSUME ThreadInv, rt_thread_idle_excute
  PROVE  ThreadInv' /\ Aside
<1>1. /\ At(Idle, pc[Idle]) /\ pc[Idle] = "go" /\ k.defunct # <<>>
      /\ k' = [k EXCEPT !.defunct = Tail(k.defunct)] /\ todo' = 2
      /\ UNCHANGED <<running, pc, starting, wait, keys, hits>>
  BY DEF rt_thread_idle_excute, At
<1>2. /\ KernelInv(k) /\ Types /\ SchedInv /\ PcInv /\ StartInv /\ WaitInv /\ PermInv
      /\ k \in Kernels /\ ReadyInv(k) /\ WaitersInv(k) /\ DefunctInv(k) /\ TimersInv(k)
      /\ Idle \in Threads
  BY ThreadConstants DEF ThreadInv, KernelInv
<1> DEFINE d == Tail(k.defunct)
<1>3. d \in Seq(Threads) /\ IsInjective(d) /\ ToSet(d) \subseteq ToSet(k.defunct)
  <2>1. k.defunct \in Seq(Threads) /\ IsInjective(k.defunct)
    BY <1>2 DEF Kernels, DefunctInv
  <2> QED BY <1>1, <2>1, TailLists
<1>4. k' = [k EXCEPT !.defunct = d]
  BY <1>1
<1> HIDE DEF d
<1>5. /\ k' \in Kernels /\ k'.defunct = d
      /\ Frame(k, k') /\ SameChoice(k, k') /\ k'.error = k.error
      /\ k'.stat = k.stat /\ k'.ready = k.ready /\ k'.group = k.group
      /\ k'.timers = k.timers /\ k'.active = k.active /\ k'.waiters = k.waiters
  BY ONLY <1>2, <1>3, <1>4 DEF Kernels, Frame, SameChoice
<1>6. KernelInv(k')
  <2>1. ReadyInv(k') /\ WaitersInv(k') /\ TimersInv(k')
    BY <1>2, <1>5, ZenonT(40) DEF ReadyInv, WaitersInv, TimersInv, Having, Listed
  <2>2. DefunctInv(k')
    BY <1>2, <1>3, <1>5 DEF DefunctInv, Having
  <2> QED BY <1>5, <2>1, <2>2 DEF KernelInv
<1>7. Types'
  BY <1>1, <1>2 DEF Types
<1>8. SchedInv'
  BY <1>1, <1>2, <1>5, SchedStays DEF Calling
<1>9. PcInv' /\ StartInv' /\ CheckInv'
  BY <1>1, <1>2, <1>5 DEF PcInv, StartInv, CheckInv, Having, Frame, At
<1>10. Waiting' = Waiting /\ Held' = Held
  BY <1>1 DEF Waiting, Held
<1>11. WaitInv'
  BY <1>2, <1>5, <1>10 DEF WaitInv, Frame
<1>12. PermInv'
  <2>1. \A u \in Waiting : Settled(u) => Settled(u)'
    BY <1>1, <1>5 DEF Settled, Frame
  <2>2. hits' = hits /\ k'.value = k.value /\ k'.granted = k.granted
    BY <1>1, <1>5 DEF Frame
  <2> QED BY <1>2, <1>10, <2>1, <2>2, PermStays
<1>13. Aside
  BY <1>1, <1>2, <1>5 DEF Aside, Moves, Frame
<1> QED BY <1>6, <1>7, <1>8, <1>9, <1>11, <1>12, <1>13 DEF ThreadInv

-----------------------------------------------------------------------------
(* The semaphore *)

\* What the permits count is finite.
LEMMA Finites ==
  ASSUME ThreadInv
  PROVE  /\ IsFiniteSet(Held) /\ IsFiniteSet(Waiting) /\ IsFiniteSet(k.granted)
         /\ \A S \in SUBSET Waiting : IsFiniteSet(S)
         /\ Cardinality(Held) \in Nat /\ Cardinality(k.granted) \in Nat
         /\ k.value \in Nat /\ hits \in Nat
<1>1. Held \in SUBSET Threads /\ Waiting \in SUBSET Threads /\ IsFiniteSet(Threads)
  BY ThreadConstants DEF Held, Waiting
<1>2. k.granted \in SUBSET Threads /\ k.value \in Nat /\ hits \in Nat
  BY DEF ThreadInv, KernelInv, Kernels, Types
<1>3. \A S \in SUBSET Threads : IsFiniteSet(S)
  BY <1>1, FS_Subset
<1>4. \A S \in SUBSET Waiting : IsFiniteSet(S)
  BY <1>1, <1>3
<1> QED BY <1>1, <1>2, <1>3, <1>4, FS_CardinalityType

\* The permits survive a step that moves one and brings no unsettled wait.
LEMMA PermMoves ==
  ASSUME PermInv, Waiting \subseteq Waiting', Permits' = Permits, hits' = hits,
         \A t \in Waiting : Settled(t) => Settled(t)',
         \A t \in Waiting' \ Waiting : Settled(t)'
  PROVE  PermInv'
<1>1. PICK S \in SUBSET Waiting :
        /\ \A t \in Waiting \ S : Settled(t)
        /\ 1 - hits + Cardinality(S) <= Permits
        /\ Permits <= 1 + hits - Cardinality(S)
  BY DEF PermInv
<1>2. \A t \in Waiting' \ S : Settled(t)'
  BY <1>1
<1>3. S \in SUBSET Waiting'
  OBVIOUS
<1> QED BY <1>1, <1>2, <1>3 DEF PermInv

\* rt_sem_take with a permit to take.
LEMMA TakesKeeps ==
  ASSUME ThreadInv, NEW t \in Threads, NEW d \in Waits, rt_sem_take(t, d), k.value > 0
  PROVE  ThreadInv' /\ Aside
<1>1. /\ At(t, pc[t]) /\ pc[t] = "go"
      /\ k' = [k EXCEPT !.value = k.value - 1]
      /\ Goto(t, "inside") /\ wait' = wait
      /\ UNCHANGED <<running, starting, todo, keys, hits>>
  BY DEF rt_sem_take, At
<1>2. /\ KernelInv(k) /\ Types /\ SchedInv /\ PcInv /\ StartInv /\ WaitInv /\ PermInv
      /\ k \in Kernels
  BY DEF ThreadInv, KernelInv
<1>3. k.value \in Nat /\ k.value - 1 \in Nat
  BY <1>2 DEF Kernels
<1> DEFINE v == k.value - 1
<1>4. k' = [k EXCEPT !.value = v] /\ v \in Nat
  BY <1>1, <1>3
<1> HIDE DEF v
<1>5. /\ k' \in Kernels /\ k'.value = v /\ SameLists(k, k') /\ SameChoice(k, k')
      /\ k'.error = k.error /\ k'.granted = k.granted /\ k'.checking = k.checking
      /\ k'.tick = k.tick
  BY ONLY <1>2, <1>4 DEF Kernels, SameLists, SameChoice
<1>6. KernelInv(k')
  BY <1>2, <1>5, SameListsKeep
<1>7. "inside" \in Labels
  BY LabelsAre
<1>8. Types'
  BY <1>1, <1>2, <1>7 DEF Types, Goto
<1>9. SchedInv'
  BY <1>1, <1>2, <1>5, SchedStays DEF Calling, SameLists
<1>10. k.stat[t] = "ready"
  BY <1>1, <1>2, RunnerIs DEF Calling
<1>11. PcInv'
  BY <1>1, <1>2, <1>5, <1>10, PcStays DEF SameLists
<1>12. StartInv'
  BY <1>1, <1>2, <1>5, <1>7, StartStays DEF SameLists
<1>13. CheckInv'
  BY <1>1, <1>5 DEF CheckInv, At
<1>14. Waiting' = Waiting /\ Held' = Held \cup {t} /\ t \notin Held
  <2>1. pc \in [Threads -> Labels]
    BY <1>2 DEF Types
  <2> QED BY <1>1, <1>7, <2>1, Counted
<1>15. WaitInv'
  BY <1>2, <1>5, <1>14 DEF WaitInv, SameLists
<1>16. PermInv'
  <2>1. Permits' = Permits
    <3>1. Cardinality(Held') = Cardinality(Held) + 1
      BY <1>14, Finites, FS_AddElement
    <3> QED BY <1>3, <1>5, <3>1, Finites DEF Permits, v
  <2>2. \A u \in Waiting : Settled(u) => Settled(u)'
    BY <1>1, <1>5 DEF Settled, SameLists
  <2> QED BY <1>1, <1>2, <1>14, <2>1, <2>2, PermMoves
<1>17. Aside
  BY <1>1, <1>5 DEF Aside, Moves, SameLists
<1> QED BY <1>6, <1>8, <1>9, <1>11, <1>12, <1>13, <1>15, <1>16, <1>17 DEF ThreadInv

\* rt_sem_take with none.
LEMMA WaitsKeeps ==
  ASSUME ThreadInv, NEW t \in Threads, NEW d \in Waits, rt_sem_take(t, d), ~(k.value > 0)
  PROVE  ThreadInv' /\ Aside
<1>1. /\ At(t, pc[t]) /\ pc[t] = "go" /\ d # 0
      /\ k' = TakeSection(k, t, d)
      /\ Goto(t, "taking") /\ wait' = [wait EXCEPT ![t] = d]
      /\ UNCHANGED <<running, starting, todo, keys, hits>>
  BY DEF rt_sem_take, At
<1>2. /\ KernelInv(k) /\ Types /\ SchedInv /\ PcInv /\ StartInv /\ WaitInv /\ PermInv
      /\ k \in Kernels /\ TimersInv(k) /\ WaitersInv(k)
  BY DEF ThreadInv, KernelInv
<1>3. k.stat[t] = "ready" /\ t \notin k.active /\ t \notin ToSet(k.waiters)
  <2>1. k.stat[t] = "ready" /\ t \notin ToSet(k.waiters)
    BY <1>1, <1>2, RunnerIs DEF Calling
  <2> QED BY <1>2, <2>1 DEF TimersInv, Having
<1>4. d \in Int /\ (d > 0 => d # RT_WAITING_FOREVER)
  BY ThreadConstants DEF RT_WAITING_FOREVER
<1>5. /\ KernelInv(k') /\ StatIs(k, k', t, "suspend")
      /\ d > 0 => TimerMore(k, k', t, Entry(k, t, d))
      /\ ~(d > 0) => k'.timers = k.timers /\ k'.active = k.active
      /\ Frame(k, k') /\ SameChoice(k, k')
      /\ ErrorIs(k, k', t, "EOK")
      /\ ToSet(k'.waiters) = ToSet(k.waiters) \cup {t} /\ k'.defunct = k.defunct
  <2> DEFINE e == Entry(k, t, d)
  <2>1. e = Entry(k, t, d)
    OBVIOUS
  <2> HIDE DEF e
  <2> QED BY <1>1, <1>2, <1>3, <1>4, <2>1, TakeIs
<1>6. k'.active = IF d > 0 THEN k.active \cup {t} ELSE k.active
  BY <1>5 DEF TimerMore
<1>7. "taking" \in Labels
  BY LabelsAre
<1>8. Types'
  BY <1>1, <1>2, <1>7 DEF Types, Goto
<1>9. SchedInv'
  <2>1. pc'[t] = "taking"
    BY <1>1, <1>2 DEF Types, Goto
  <2> QED BY <1>1, <1>2, <1>5, <2>1, SchedCalls DEF Calling
<1>10. PcInv'
  <2>1. \A u \in Threads : k'.stat[u] = "init" => k.stat[u] = "init"
    BY <1>2, <1>5 DEF StatIs, Kernels
  <2> QED BY <1>1, <1>2, <1>3, <2>1, PcStays
<1>11. StartInv'
  <2>1. Periodic \in k'.active => Periodic \in k.active
    BY <1>6, ThreadConstants
  <2> QED BY <1>1, <1>2, <1>7, <2>1, StartStays
<1>12. CheckInv'
  BY <1>1, <1>5 DEF CheckInv, Frame, At
<1>13. Waiting' = Waiting \cup {t} /\ Held' = Held /\ t \notin Waiting
  <2>1. pc \in [Threads -> Labels]
    BY <1>2 DEF Types
  <2> QED BY <1>1, <1>7, <2>1, Counted
<1>14. WaitInv'
  BY <1>2, <1>5, <1>13 DEF WaitInv, Frame, StatIs, Waiting, Kernels
<1>15. PermInv'
  <2>1. Permits' = Permits
    BY <1>5, <1>13 DEF Permits, Frame
  <2>2. \A u \in Waiting : Settled(u) => Settled(u)'
    <3>1. SUFFICES ASSUME NEW u \in Waiting, Settled(u)
                   PROVE  Settled(u)'
      OBVIOUS
    <3>2. u # t /\ u \in Threads
      BY <1>13 DEF Waiting
    <3>3. /\ k'.stat[u] = k.stat[u] /\ k'.error[u] = k.error[u]
          /\ u \in ToSet(k.waiters) => u \in ToSet(k'.waiters)
          /\ u \in k'.active => u \in k.active
          /\ u \in k'.granted <=> u \in k.granted
      BY <1>2, <1>5, <1>6, <3>2 DEF StatIs, ErrorIs, Frame, Kernels
    <3>4. wait'[u] = wait[u]
      BY <1>1, <1>2, <3>2 DEF Types
    <3> QED BY <3>1, <3>2, <3>3, <3>4, SettledStays
  <2>3. Settled(t)'
    <3>1. k'.stat[t] = "suspend" /\ k'.error[t] = "EOK" /\ t \in ToSet(k'.waiters)
      BY <1>2, <1>5 DEF StatIs, ErrorIs, Kernels
    <3>2. wait'[t] = d
      BY <1>1, <1>2 DEF Types
    <3>3. t \in k'.active => wait'[t] # RT_WAITING_FOREVER
      BY <1>3, <1>4, <1>6, <3>2
    <3> QED BY <3>1, <3>3 DEF Settled
  <2> QED BY <1>1, <1>2, <1>13, <2>1, <2>2, <2>3, PermMoves
<1>16. Aside
  <2>1. /\ k'.tick = k.tick /\ k'.checking = k.checking
        /\ \A u \in Threads \ {t} : k'.stat[u] = k.stat[u]
    BY <1>2, <1>5 DEF Frame, StatIs, Kernels
  <2>2. CASE d > 0
    <3> DEFINE e == Entry(k, t, d)
    <3>1. e = Entry(k, t, d) /\ TimerMore(k, k', t, e)
      BY <1>5, <2>2
    <3> HIDE DEF e
    <3>2. e \in Entries /\ Fresh(k, e, t)
      <4>1. k \in Kernels /\ t \in Timers /\ d \in Spans
        BY <1>2, <2>2 DEF Timers, Spans
      <4> QED BY <3>1, <4>1, FreshIs
    <3> QED BY <1>1, <2>1, <3>1, <3>2 DEF Aside, Moves
  <2>3. CASE ~(d > 0)
    BY <1>1, <1>5, <2>1, <2>3 DEF Aside, Moves
  <2> QED BY <2>2, <2>3
<1> QED BY <1>5, <1>8, <1>9, <1>10, <1>11, <1>12, <1>14, <1>15, <1>16 DEF ThreadInv

\* rt_sem_take returns, with its permit or with its time up.
LEMMA TookKeeps ==
  ASSUME ThreadInv, NEW t \in Threads, Took(t)
  PROVE  ThreadInv' /\ Aside
<1> DEFINE l == IF Enters(t) THEN "inside" ELSE "go"
<1>1. /\ At(t, pc[t]) /\ pc[t] = "took"
      /\ k' = [k EXCEPT !.granted = k.granted \ {t}]
      /\ Goto(t, l) /\ wait' = [wait EXCEPT ![t] = 0]
      /\ UNCHANGED <<running, starting, todo, keys, hits>>
  BY DEF Took, At
<1>2. /\ KernelInv(k) /\ Types /\ SchedInv /\ PcInv /\ StartInv /\ WaitInv /\ PermInv
      /\ k \in Kernels
  BY DEF ThreadInv, KernelInv
<1>3. k.stat[t] = "ready" /\ t \notin ToSet(k.waiters)
  BY <1>1, <1>2, RunnerIs DEF Calling
<1> DEFINE g == k.granted \ {t}
<1>4. k' = [k EXCEPT !.granted = g] /\ g \in SUBSET Threads
  BY <1>1, <1>2 DEF Kernels
<1> HIDE DEF g
<1>5. /\ k' \in Kernels /\ k'.granted = g /\ SameLists(k, k') /\ SameChoice(k, k')
      /\ k'.error = k.error /\ k'.value = k.value /\ k'.checking = k.checking
      /\ k'.tick = k.tick
  BY ONLY <1>2, <1>4 DEF Kernels, SameLists, SameChoice
<1>6. KernelInv(k')
  BY <1>2, <1>5, SameListsKeep
<1>7. /\ l \in {"inside", "go"} /\ l \in Labels
      /\ l = "inside" <=> Enters(t)
  BY LabelsAre
<1> HIDE DEF l
<1>8. Types'
  <2>1. 0 \in Waits \cup {0}
    OBVIOUS
  <2> QED BY <1>1, <1>2, <1>7, <2>1 DEF Types, Goto
<1>9. SchedInv'
  BY <1>1, <1>2, <1>5, SchedStays DEF Calling, SameLists
<1>11. PcInv'
  <2>1. \A u \in Threads : k'.stat[u] = "init" => k.stat[u] = "init"
    BY <1>5 DEF SameLists
  <2> QED BY <1>1, <1>2, <1>3, <2>1, PcStays
<1>12. StartInv'
  BY <1>1, <1>2, <1>5, <1>7, StartStays DEF SameLists
<1>13. CheckInv'
  BY <1>1, <1>5 DEF CheckInv, At
<1>14. /\ Waiting' = Waiting \ {t} /\ t \in Waiting /\ t \notin Held
       /\ l = "inside" => Held' = Held \cup {t}
       /\ l = "go" => Held' = Held
  <2>1. pc \in [Threads -> Labels]
    BY <1>2 DEF Types
  <2> QED BY <1>1, <1>7, <2>1, Counted
<1>15. WaitInv'
  BY <1>2, <1>3, <1>5, <1>14 DEF WaitInv, SameLists, g
<1>16. PermInv'
  <2>1. PICK S \in SUBSET Waiting :
          /\ \A u \in Waiting \ S : Settled(u)
          /\ 1 - hits + Cardinality(S) <= Permits
          /\ Permits <= 1 + hits - Cardinality(S)
    BY <1>2 DEF PermInv
  <2> DEFINE R == S \ {t}
  <2>2. \A u \in Waiting' \ R : Settled(u)'
    <3>1. SUFFICES ASSUME NEW u \in Waiting' \ R
                   PROVE  Settled(u)'
      OBVIOUS
    <3>2. u # t /\ u \in Threads /\ Settled(u)
      BY <1>14, <2>1 DEF Waiting
    <3>3. /\ k'.stat[u] = k.stat[u] /\ k'.error[u] = k.error[u]
          /\ u \in ToSet(k.waiters) => u \in ToSet(k'.waiters)
          /\ u \in k'.active => u \in k.active
          /\ u \in k'.granted <=> u \in k.granted
      BY <1>5, <3>2 DEF SameLists, g
    <3>4. wait'[u] = wait[u]
      BY <1>1, <1>2, <3>2 DEF Types
    <3> QED BY <3>2, <3>3, <3>4, SettledStays
  <2>3. /\ IsFiniteSet(S) /\ Cardinality(S) \in Nat
        /\ IsFiniteSet(Held) /\ IsFiniteSet(k.granted)
        /\ Cardinality(Held) \in Nat /\ Cardinality(k.granted) \in Nat
        /\ k.value \in Nat /\ hits \in Nat
    BY Finites, FS_CardinalityType
  <2>4. Cardinality(R) = IF t \in S THEN Cardinality(S) - 1 ELSE Cardinality(S)
    BY <2>3, FS_RemoveElement
  <2>5. Cardinality(g) = IF t \in k.granted THEN Cardinality(k.granted) - 1
                         ELSE Cardinality(k.granted)
    BY <2>3, FS_RemoveElement DEF g
  <2>6. Cardinality(Held') = IF l = "inside" THEN Cardinality(Held) + 1
                             ELSE Cardinality(Held)
    BY <1>7, <1>14, <2>3, FS_AddElement
  <2>7. Permits' = k.value + Cardinality(Held') + Cardinality(g)
    BY <1>5 DEF Permits
  <2>8. t \notin S => (l = "inside" <=> t \in k.granted)
    <3>1. SUFFICES ASSUME t \notin S PROVE l = "inside" <=> t \in k.granted
      OBVIOUS
    <3>2. Settled(t)
      BY <1>14, <2>1, <3>1
    <3> QED BY <1>3, <1>7, <3>2 DEF Settled, Enters
  <2>9. /\ 1 - hits + Cardinality(R) <= Permits'
        /\ Permits' <= 1 + hits - Cardinality(R)
    <3>1. Permits = k.value + Cardinality(Held) + Cardinality(k.granted)
      BY DEF Permits
    <3>2. CASE t \notin S
      <4>1. Permits' = Permits /\ Cardinality(R) = Cardinality(S)
        BY <2>3, <2>4, <2>5, <2>6, <2>7, <2>8, <3>1, <3>2
      <4> QED BY <2>1, <4>1
    <3>3. CASE t \in S
      <4>1. /\ Cardinality(R) = Cardinality(S) - 1
            /\ Permits - 1 <= Permits' /\ Permits' <= Permits + 1
            /\ Permits \in Int /\ Permits' \in Int
        BY <2>3, <2>4, <2>5, <2>6, <2>7, <3>1, <3>3
      <4> QED BY <2>1, <2>3, <4>1
    <3> QED BY <3>2, <3>3
  <2>10. R \in SUBSET Waiting' /\ hits' = hits
    BY <1>1, <1>14
  <2> HIDE DEF R
  <2> QED BY <2>2, <2>9, <2>10 DEF PermInv
<1>17. Aside
  BY <1>1, <1>5 DEF Aside, Moves, SameLists
<1> QED BY <1>6, <1>8, <1>9, <1>11, <1>12, <1>13, <1>15, <1>16, <1>17 DEF ThreadInv

\* rt_sem_release that nobody waits for.
LEMMA FreesKeeps ==
  ASSUME ThreadInv, NEW t \in Threads, rt_sem_release(t), k.waiters = <<>>
  PROVE  ThreadInv' /\ Aside
<1>1. /\ At(t, pc[t]) /\ pc[t] = "inside"
      /\ k' = [k EXCEPT !.value = k.value + 1]
      /\ Goto(t, "go") /\ todo' \in {todo, todo - 1}
      /\ UNCHANGED <<running, starting, wait, keys, hits>>
  BY DEF rt_sem_release, At
<1>2. /\ KernelInv(k) /\ Types /\ SchedInv /\ PcInv /\ StartInv /\ WaitInv /\ PermInv
      /\ k \in Kernels
  BY DEF ThreadInv, KernelInv
<1>3. k.value \in Nat /\ k.value + 1 \in Nat
  BY <1>2 DEF Kernels
<1> DEFINE v == k.value + 1
<1>4. k' = [k EXCEPT !.value = v] /\ v \in Nat
  BY <1>1, <1>3
<1> HIDE DEF v
<1>5. /\ k' \in Kernels /\ k'.value = v /\ SameLists(k, k') /\ SameChoice(k, k')
      /\ k'.error = k.error /\ k'.granted = k.granted /\ k'.checking = k.checking
      /\ k'.tick = k.tick
  BY ONLY <1>2, <1>4 DEF Kernels, SameLists, SameChoice
<1>6. KernelInv(k')
  BY <1>2, <1>5, SameListsKeep
<1>7. "go" \in Labels
  BY LabelsAre
<1>8. Types'
  BY <1>1, <1>2, <1>7 DEF Types, Goto
<1>9. SchedInv'
  BY <1>1, <1>2, <1>5, SchedStays DEF Calling, SameLists
<1>10. k.stat[t] = "ready"
  BY <1>1, <1>2, RunnerIs DEF Calling
<1>11. PcInv'
  BY <1>1, <1>2, <1>5, <1>10, PcStays DEF SameLists
<1>12. StartInv'
  BY <1>1, <1>2, <1>5, <1>7, StartStays DEF SameLists
<1>13. CheckInv'
  BY <1>1, <1>5 DEF CheckInv, At
<1>14. Waiting' = Waiting /\ Held' = Held \ {t} /\ t \in Held
  <2>1. pc \in [Threads -> Labels]
    BY <1>2 DEF Types
  <2> QED BY <1>1, <1>7, <2>1, Counted
<1>15. WaitInv'
  BY <1>2, <1>5, <1>14 DEF WaitInv, SameLists
<1>16. PermInv'
  <2>1. Permits' = Permits
    <3>1. Cardinality(Held') = Cardinality(Held) - 1
      BY <1>14, Finites, FS_RemoveElement
    <3> QED BY <1>3, <1>5, <3>1, Finites DEF Permits, v
  <2>2. \A u \in Waiting : Settled(u) => Settled(u)'
    BY <1>1, <1>5 DEF Settled, SameLists
  <2> QED BY <1>1, <1>2, <1>14, <2>1, <2>2, PermMoves
<1>17. Aside
  BY <1>1, <1>5 DEF Aside, Moves, SameLists
<1> QED BY <1>6, <1>8, <1>9, <1>11, <1>12, <1>13, <1>15, <1>16, <1>17 DEF ThreadInv

\* rt_sem_release that hands its permit to the first waiter.
LEMMA GrantsKeeps ==
  ASSUME ThreadInv, NEW t \in Threads, rt_sem_release(t), k.waiters # <<>>
  PROVE  ThreadInv' /\ Aside
<1> DEFINE u == Head(k.waiters)
           m == rt_thread_resume(k, u)
           g == m.granted \cup {u}
<1>1. /\ At(t, pc[t]) /\ pc[t] = "inside"
      /\ k' = [m EXCEPT !.granted = g]
      /\ Goto(t, "waking") /\ todo' \in {todo, todo - 1}
      /\ UNCHANGED <<running, starting, wait, keys, hits>>
  BY DEF rt_sem_release, At
<1>2. /\ KernelInv(k) /\ Types /\ SchedInv /\ PcInv /\ StartInv /\ WaitInv /\ PermInv
      /\ k \in Kernels /\ WaitersInv(k)
  BY DEF ThreadInv, KernelInv
<1>3. u \in ToSet(k.waiters) /\ u \in Threads
  <2>1. k.waiters \in Seq(Threads)
    BY <1>2 DEF Kernels
  <2>2. 1 \in DOMAIN k.waiters /\ k.waiters[1] = u
    BY <2>1
  <2> QED BY <2>1, <2>2 DEF ToSet
<1>4. /\ k.stat[u] = "suspend" /\ u \in Waiting \ k.granted /\ u # t
      /\ m = rt_thread_resume(k, u)
  BY <1>1, <1>2, <1>3 DEF WaitersInv, Having, WaitInv, Waiting
<1> HIDE DEF u, m
<1>5. /\ KernelInv(m)
      /\ Frame(k, m) /\ SameChoice(k, m) /\ m.error = k.error
      /\ StatIs(k, m, u, "ready")
      /\ WaitersLess(k, m, u) /\ TimersLess(k, m, u)
  BY <1>2, <1>3, <1>4, ResumeIs
<1>6. m \in Kernels /\ g \in SUBSET Threads /\ k' = [m EXCEPT !.granted = g]
      /\ g = k.granted \cup {u}
  BY <1>1, <1>3, <1>5 DEF KernelInv, Kernels, Frame
<1> HIDE DEF g
<1>7. /\ k' \in Kernels /\ k'.granted = g /\ SameLists(m, k') /\ SameChoice(m, k')
      /\ k'.error = m.error /\ k'.value = m.value /\ k'.checking = m.checking
      /\ k'.tick = m.tick
  BY ONLY <1>6 DEF Kernels, SameLists, SameChoice
<1>8. KernelInv(k')
  BY <1>5, <1>7, SameListsKeep
<1>9. SameChoice(k, k') /\ k'.value = k.value /\ k'.checking = k.checking /\ k'.error = k.error
      /\ k'.tick = k.tick
  BY <1>5, <1>7 DEF Frame, SameChoice
<1>10. /\ k'.stat[u] = "ready"
       /\ \A x \in Threads \ {u} : k'.stat[x] = k.stat[x]
       /\ ToSet(k'.waiters) = ToSet(k.waiters) \ {u}
       /\ k'.active = k.active \ {u}
  BY <1>2, <1>3, <1>5, <1>7 DEF Kernels, StatIs, SameLists, WaitersLess, TimersLess, Lists
<1>11. "waking" \in Labels /\ "waking" \in Calling
  BY LabelsAre DEF Calling
<1>12. Types'
  BY <1>1, <1>2, <1>11 DEF Types, Goto
<1>13. SchedInv'
  <2>1. pc'[t] = "waking"
    BY <1>1, <1>2 DEF Types, Goto
  <2> QED BY <1>1, <1>2, <1>9, <1>11, <2>1, SchedCalls
<1>14. PcInv'
  <2>1. k.stat[t] = "ready"
    BY <1>1, <1>2, RunnerIs DEF Calling
  <2>2. \A x \in Threads : k'.stat[x] = "init" => k.stat[x] = "init"
    BY <1>10
  <2> QED BY <1>1, <1>2, <2>1, <2>2, PcStays
<1>15. StartInv'
  BY <1>1, <1>2, <1>10, <1>11, StartStays
<1>16. CheckInv'
  BY <1>1, <1>9 DEF CheckInv, At
<1>17. Waiting' = Waiting /\ Held' = Held \ {t} /\ t \in Held
  <2>1. pc \in [Threads -> Labels]
    BY <1>2 DEF Types
  <2>2. Goto(t, "waking") /\ pc[t] = "inside"
    BY <1>1
  <2> QED BY <1>2, <1>11, <2>1, <2>2, Counted
<1>18. WaitInv'
  BY <1>2, <1>4, <1>6, <1>7, <1>10, <1>17 DEF WaitInv, Waiting
<1>19. PermInv'
  <2>1. Permits' = Permits
    <3>1. Cardinality(Held') = Cardinality(Held) - 1
      BY <1>17, Finites, FS_RemoveElement
    <3>2. Cardinality(g) = Cardinality(k.granted) + 1
      BY <1>4, <1>6, Finites, FS_AddElement
    <3> QED BY <1>7, <1>9, <3>1, <3>2, Finites DEF Permits
  <2>2. \A x \in Waiting : Settled(x) => Settled(x)'
    <3>1. SUFFICES ASSUME NEW x \in Waiting, Settled(x)
                   PROVE  Settled(x)'
      OBVIOUS
    <3>2. CASE x = u
      <4>1. k.error[u] = "EOK"
        BY <1>4, <3>1, <3>2 DEF Settled
      <4>2. k'.error[u] = "EOK" /\ u \in k'.granted
        BY <1>6, <1>7, <1>9, <4>1
      <4> QED BY <1>10, <3>2, <4>2 DEF Settled
    <3>3. CASE x # u
      <4>1. x \in Threads
        BY DEF Waiting
      <4>2. /\ k'.stat[x] = k.stat[x] /\ k'.error[x] = k.error[x]
            /\ x \in ToSet(k.waiters) => x \in ToSet(k'.waiters)
            /\ x \in k'.active => x \in k.active
            /\ x \in k'.granted <=> x \in k.granted
            /\ wait'[x] = wait[x]
        BY <1>1, <1>6, <1>7, <1>9, <1>10, <3>3, <4>1
      <4> QED BY <3>1, <4>1, <4>2, SettledStays
    <3> QED BY <3>2, <3>3
  <2> QED BY <1>1, <1>2, <1>17, <2>1, <2>2, PermMoves
<1>20. Aside
  <2>1. pc[u] # "starting"
    BY <1>4 DEF Waiting
  <2>2. TimersLess(k, k', u)
    BY <1>5, <1>7 DEF TimersLess, SameLists
  <2> QED BY <1>3, <1>9, <1>10, <2>1, <2>2 DEF Aside, Moves
<1> QED BY <1>8, <1>12, <1>13, <1>14, <1>15, <1>16, <1>18, <1>19, <1>20 DEF ThreadInv

-----------------------------------------------------------------------------
(* The interrupts *)

\* What an interrupt changes is the kernel: the threads stay where they are.
LEMMA Elsewhere ==
  ASSUME Types, UNCHANGED <<running, pc, wait, todo, keys, hits>>
  PROVE  Types' /\ Waiting' = Waiting /\ Held' = Held /\ Waiting \subseteq Threads
BY DEF Types, Waiting, Held

\* The tick.
LEMMA SysTickKeeps ==
  ASSUME ThreadInv, SysTick_Handler
  PROVE  ThreadInv'
<1> DEFINE r == rt_tick_increase(k)
<1>1. /\ k' = Turned(r)
      /\ starting' = [i \in DOMAIN starting |-> OneTickLess(starting[i])]
      /\ UNCHANGED <<running, pc, wait, todo, keys, hits>>
  BY DEF SysTick_Handler
<1>2. /\ KernelInv(k) /\ Types /\ SchedInv /\ PcInv /\ StartInv /\ WaitInv /\ PermInv
      /\ k \in Kernels
  BY DEF ThreadInv, KernelInv
<1>3. KernelInv(r) /\ Clocked(k, r) /\ Rescheduled(k, r)
  <2>1. r = rt_tick_increase(k)
    OBVIOUS
  <2> HIDE DEF r
  <2> QED BY <1>2, <2>1, TickIs
<1> HIDE DEF r
<1>4. /\ KernelInv(k') /\ SameLists(r, k') /\ SameChoice(r, k')
      /\ k'.error = r.error /\ k'.tick = r.tick
      /\ k'.value = r.value /\ k'.granted = r.granted
      /\ k'.checking = MoreDue(r)
  BY <1>1, <1>3, TurnedIs
<1>5. Types' /\ Waiting' = Waiting /\ Held' = Held
  BY <1>1, <1>2, Elsewhere
<1>6. /\ k'.stat = k.stat /\ k'.active = k.active /\ k'.waiters = k.waiters
      /\ k'.error = k.error /\ k'.value = k.value /\ k'.granted = k.granted
  BY <1>3, <1>4 DEF Clocked, SameLists
<1>7. SchedInv'
  <2>1. CASE SameChoice(k, r) /\ r.ready = k.ready
    <3>1. SameChoice(k, k') /\ k'.ready = k.ready /\ k'.group = k.group
      BY <1>3, <1>4, <2>1 DEF SameChoice, SameLists, Clocked
    <3> QED BY <1>1, <1>2, <3>1 DEF SchedInv, SameChoice, Best, Top
  <2>2. CASE /\ Best(r) /\ r.lost = k.lost
             /\ \/ r.pending = TRUE
                \/ r.pending = k.pending /\ r.current = k.current
    <3>1. Best(k')
      BY <1>4, <2>2 DEF Best, Top, SameLists, SameChoice
    <3>2. /\ k'.lost = k.lost
          /\ \/ k'.pending = TRUE
             \/ k'.pending = k.pending /\ k'.current = k.current
      BY <1>4, <2>2 DEF SameChoice
    <3> QED BY <1>1, <1>2, <3>1, <3>2 DEF SchedInv
  <2> QED BY <1>3, <2>1, <2>2 DEF Rescheduled
<1>8. PcInv'
  BY <1>1, <1>2, <1>6 DEF PcInv, Having
<1>9. StartInv'
  <2>1. CASE pc[Main] = "starting"
    <3>1. PICK e \in Entries : starting = <<e>> /\ e.timer = Periodic
      BY <1>2, <2>1 DEF StartInv
    <3>2. starting' = <<OneTickLess(e)>>
      BY <1>1, <3>1
    <3>3. OneTickLess(e) \in Entries /\ OneTickLess(e).timer = Periodic
      BY <3>1 DEF OneTickLess, Entries
    <3> QED BY <1>1, <1>2, <1>6, <2>1, <3>2, <3>3 DEF StartInv
  <2>2. CASE pc[Main] # "starting"
    <3>1. starting = <<>>
      BY <1>2, <2>2 DEF StartInv
    <3>2. starting' = <<>>
      BY <1>1, <3>1
    <3> QED BY <1>1, <1>2, <2>2, <3>2 DEF StartInv
  <2> QED BY <2>1, <2>2
<1>10. CheckInv'
  BY <1>4 DEF CheckInv, MoreDue, Due, SameLists
<1>11. WaitInv'
  BY <1>2, <1>5, <1>6 DEF WaitInv
<1>12. PermInv'
  <2>1. \A u \in Waiting : Settled(u) => Settled(u)'
    BY <1>1, <1>6 DEF Settled
  <2> QED BY <1>1, <1>2, <1>5, <1>6, <2>1, PermStays
<1> QED BY <1>4, <1>5, <1>7, <1>8, <1>9, <1>10, <1>11, <1>12 DEF ThreadInv

\* A turn of rt_timer_check that wakes a thread.
LEMMA WakesKeeps ==
  ASSUME ThreadInv, NEW x \in Threads, x \in k.active,
         NEW r, r = Expire(k, x), k' = Turned(r),
         UNCHANGED <<running, pc, starting, wait, todo, keys, hits>>
  PROVE  ThreadInv'
<1>2. /\ KernelInv(k) /\ Types /\ SchedInv /\ PcInv /\ StartInv /\ WaitInv /\ PermInv
      /\ k \in Kernels /\ TimersInv(k)
  BY DEF ThreadInv, KernelInv
<1>3. /\ KernelInv(r)
      /\ Frame(k, r) /\ ErrorIs(k, r, x, "ETIMEOUT")
      /\ StatIs(k, r, x, "ready")
      /\ WaitersLess(k, r, x) /\ TimersLess(k, r, x)
      /\ Best(r) /\ r.lost = k.lost
      /\ \/ r.pending = TRUE
         \/ r.pending = k.pending /\ r.current = k.current
  BY <1>2, ExpireIs
<1>4. /\ KernelInv(k') /\ SameLists(r, k') /\ SameChoice(r, k')
      /\ k'.error = r.error /\ k'.tick = r.tick
      /\ k'.value = r.value /\ k'.granted = r.granted
      /\ k'.checking = MoreDue(r)
  BY <1>3, TurnedIs
<1>5. Types' /\ Waiting' = Waiting /\ Held' = Held /\ Waiting \subseteq Threads
  BY <1>2, Elsewhere
<1>6. /\ k'.value = k.value /\ k'.granted = k.granted
      /\ k'.stat[x] = "ready" /\ k'.error[x] = "ETIMEOUT"
      /\ \A u \in Threads \ {x} : k'.stat[u] = k.stat[u] /\ k'.error[u] = k.error[u]
      /\ ToSet(k'.waiters) = ToSet(k.waiters) \ {x}
      /\ k'.active = k.active \ {x}
  BY <1>2, <1>3, <1>4
     DEF Kernels, Frame, ErrorIs, StatIs, WaitersLess, TimersLess, Lists, SameLists
<1>7. SchedInv'
  <2>1. Best(k')
    BY <1>3, <1>4 DEF Best, Top, SameLists, SameChoice
  <2>2. /\ k'.lost = k.lost
        /\ \/ k'.pending = TRUE
           \/ k'.pending = k.pending /\ k'.current = k.current
    BY <1>3, <1>4 DEF SameChoice
  <2> QED BY <1>2, <2>1, <2>2 DEF SchedInv
<1>8. PcInv'
  BY <1>2, <1>6 DEF PcInv, Having
<1>9. StartInv'
  BY <1>2, <1>6 DEF StartInv
<1>10. CheckInv'
  BY <1>4 DEF CheckInv, MoreDue, Due, SameLists
<1>11. WaitInv'
  BY <1>2, <1>5, <1>6 DEF WaitInv
<1>12. PermInv'
  <2>1. \A u \in Waiting : Settled(u) => Settled(u)'
    <3>1. SUFFICES ASSUME NEW u \in Waiting, Settled(u)
                   PROVE  Settled(u)'
      OBVIOUS
    <3>2. CASE u = x
      <4>1. k.stat[x] = "suspend"
        BY <1>2 DEF TimersInv, Having
      <4>2. x \in ToSet(k.waiters) /\ wait[x] # RT_WAITING_FOREVER
        BY <3>1, <3>2, <4>1 DEF Settled
      <4>3. x \notin k'.granted
        BY <1>2, <1>6, <4>2 DEF WaitInv
      <4> QED BY <1>6, <3>2, <4>2, <4>3 DEF Settled
    <3>3. CASE u # x
      <4>1. u \in Threads
        BY <1>5
      <4>2. /\ k'.stat[u] = k.stat[u] /\ k'.error[u] = k.error[u]
            /\ u \in ToSet(k.waiters) => u \in ToSet(k'.waiters)
            /\ u \in k'.active => u \in k.active
            /\ u \in k'.granted <=> u \in k.granted
        BY <1>6, <3>3, <4>1
      <4> QED BY <3>1, <4>1, <4>2, SettledStays
    <3> QED BY <3>2, <3>3
  <2> QED BY <1>2, <1>5, <1>6, <2>1, PermStays
<1> QED BY <1>4, <1>5, <1>7, <1>8, <1>9, <1>10, <1>11, <1>12 DEF ThreadInv

\* A turn that starts the periodic timer again.
LEMMA RenewsKeeps ==
  ASSUME ThreadInv, Periodic \in k.active,
         NEW r, r = rt_timer_start(k, Periodic, Period), k' = Turned(r),
         UNCHANGED <<running, pc, starting, wait, todo, keys, hits>>
  PROVE  ThreadInv'
<1>2. /\ KernelInv(k) /\ Types /\ SchedInv /\ PcInv /\ StartInv /\ WaitInv /\ PermInv
      /\ k \in Kernels
  BY DEF ThreadInv, KernelInv
<1> DEFINE e == Entry(k, Periodic, Period)
<1>3. /\ KernelInv(r) /\ TimerMore(k, r, Periodic, e)
      /\ Frame(k, r) /\ SameChoice(k, r) /\ r.error = k.error
      /\ r.stat = k.stat /\ r.ready = k.ready /\ r.group = k.group
      /\ r.waiters = k.waiters
  <2>1. Periodic \in Timers /\ Period \in Int /\ Periodic \notin Threads
    BY ThreadConstants DEF Timers
  <2>2. e = Entry(k, Periodic, Period)
    OBVIOUS
  <2> HIDE DEF e
  <2> QED BY <1>2, <2>1, <2>2, StartIs
<1> HIDE DEF e
<1>4. /\ KernelInv(k') /\ SameLists(r, k') /\ SameChoice(r, k')
      /\ k'.error = r.error /\ k'.tick = r.tick
      /\ k'.value = r.value /\ k'.granted = r.granted
      /\ k'.checking = MoreDue(r)
  BY <1>3, TurnedIs
<1>5. Types' /\ Waiting' = Waiting /\ Held' = Held
  BY <1>2, Elsewhere
<1>6. /\ k'.stat = k.stat /\ k'.active = k.active /\ k'.waiters = k.waiters
      /\ k'.error = k.error /\ k'.value = k.value /\ k'.granted = k.granted
  BY <1>3, <1>4 DEF Frame, SameLists, TimerMore
<1>7. SchedInv'
  <2>1. SameChoice(k, k') /\ k'.ready = k.ready /\ k'.group = k.group
    BY <1>3, <1>4 DEF SameChoice, SameLists
  <2> QED BY <1>2, <2>1 DEF SchedInv, SameChoice, Best, Top
<1>8. PcInv'
  BY <1>2, <1>6 DEF PcInv, Having
<1>9. StartInv'
  BY <1>2, <1>6 DEF StartInv
<1>10. CheckInv'
  BY <1>4 DEF CheckInv, MoreDue, Due, SameLists
<1>11. WaitInv'
  BY <1>2, <1>5, <1>6 DEF WaitInv
<1>12. PermInv'
  <2>1. \A u \in Waiting : Settled(u) => Settled(u)'
    BY <1>6 DEF Settled
  <2> QED BY <1>2, <1>5, <1>6, <2>1, PermStays
<1> QED BY <1>4, <1>5, <1>7, <1>8, <1>9, <1>10, <1>11, <1>12 DEF ThreadInv

\* The timer of a turn of rt_timer_check is active.
LEMMA NextTimer ==
  ASSUME ThreadInv, k.checking
  PROVE  /\ Head(k.timers) \in ToSet(k.timers) /\ Head(k.timers) \in Entries
         /\ Head(k.timers) = k.timers[1] /\ Due(k, Head(k.timers))
         /\ Head(k.timers).timer \in k.active
         /\ Head(k.timers).timer \in Threads \cup {Periodic}
<1>1. k.timers \in Seq(Entries) /\ k.timers # <<>> /\ k.active = Listed(k)
      /\ Due(k, Head(k.timers))
  BY DEF ThreadInv, KernelInv, Kernels, TimersInv, CheckInv, MoreDue
<1>2. 1 \in DOMAIN k.timers /\ k.timers[1] = Head(k.timers) /\ k.timers[1] \in Entries
  BY <1>1
<1>3. Head(k.timers) \in ToSet(k.timers)
  BY <1>2 DEF ToSet
<1> QED BY <1>1, <1>2, <1>3 DEF Listed, Entries, Timers

\* A turn of rt_timer_check.
LEMMA CheckKeeps ==
  ASSUME ThreadInv, rt_timer_check
  PROVE  ThreadInv'
<1> DEFINE x == Head(k.timers).timer
           r == Expire(k, x)
<1>1. /\ k.checking /\ k' = Turned(r) /\ r = Expire(k, x)
      /\ UNCHANGED <<running, pc, starting, wait, todo, keys, hits>>
  BY DEF rt_timer_check
<1>2. x \in k.active /\ x \in Threads \cup {Periodic}
  BY <1>1, NextTimer
<1> HIDE DEF x, r
<1>3. CASE x \in Threads
  BY <1>1, <1>2, <1>3, WakesKeeps
<1>4. CASE x = Periodic
  <2>1. r = rt_timer_start(k, Periodic, Period)
    BY <1>1, <1>4 DEF Expire
  <2> QED BY <1>1, <1>2, <1>4, <2>1, RenewsKeeps
<1> QED BY <1>2, <1>3, <1>4

\* The switch: the processor goes to the chosen thread.
LEMMA PendSVKeeps ==
  ASSUME ThreadInv, PendSV_Handler
  PROVE  ThreadInv' /\ Aside
<1>1. /\ k.pending /\ ~k.lost /\ ~k.checking
      /\ k' = [k EXCEPT !.pending = FALSE, !.ticked = FALSE]
      /\ running' = k.current
      /\ UNCHANGED <<pc, starting, wait, todo, keys, hits>>
  BY DEF PendSV_Handler
<1>2. /\ KernelInv(k) /\ Types /\ SchedInv /\ PcInv /\ StartInv /\ WaitInv /\ PermInv
      /\ k \in Kernels
  BY DEF ThreadInv, KernelInv
<1>3. /\ k' \in Kernels /\ SameLists(k, k') /\ k'.error = k.error
      /\ k'.current = k.current /\ k'.pending = FALSE /\ k'.lost = k.lost
      /\ k'.value = k.value /\ k'.granted = k.granted /\ k'.checking = k.checking
      /\ k'.tick = k.tick
  BY ONLY <1>1, <1>2 DEF Kernels, SameLists
<1>4. KernelInv(k')
  BY <1>2, <1>3, SameListsKeep
<1>5. k.current \in Threads
  BY <1>2 DEF Kernels
<1>6. Types' /\ Waiting' = Waiting /\ Held' = Held
  BY <1>1, <1>2, <1>5 DEF Types, Waiting, Held
<1>7. SchedInv'
  <2>1. Best(k)
    BY <1>1, <1>2 DEF SchedInv
  <2>2. Best(k')
    BY <1>3, <2>1 DEF Best, Top, SameLists
  <2> QED BY <1>1, <1>3, <2>2 DEF SchedInv
<1>8. PcInv' /\ StartInv' /\ CheckInv' /\ WaitInv'
  BY <1>1, <1>2, <1>3, <1>6 DEF PcInv, Having, StartInv, CheckInv, WaitInv, SameLists
<1>9. PermInv'
  <2>1. \A u \in Waiting : Settled(u) => Settled(u)'
    BY <1>1, <1>3 DEF Settled, SameLists
  <2> QED BY <1>1, <1>2, <1>3, <1>6, <2>1, PermStays
<1>10. Aside
  <2>1. Idle \in Threads /\ pc[Idle] # "starting"
    BY <1>2, ThreadConstants DEF StartInv
  <2> QED BY <1>3, <2>1 DEF Aside, Moves, SameLists
<1> QED BY <1>4, <1>6, <1>7, <1>8, <1>9, <1>10 DEF ThreadInv

-----------------------------------------------------------------------------
(* The key, and the invariant *)

\* What a key press does to the timers: it starts the one of t.
PutToSleep(t) ==
    /\ t \in Threads /\ Moves(k, k', t) /\ k'.stat[t] = "suspend"
    /\ \E e \in Entries : /\ Fresh(k, e, t) /\ e.left = KeyDelay
                          /\ TimerMore(k, k', t, e)

\* A key: its handler delays, and suspends the thread it interrupted.
LEMMA KeyKeeps ==
  ASSUME ThreadInv, KeyHandler
  PROVE  ThreadInv' /\ PutToSleep(k.current)
<1> DEFINE t == k.current
           m == SleepSection(k, t, KeyDelay)
           a == rt_schedule(m)
           v == IF a.error[t] = "ETIMEOUT" THEN "EOK" ELSE a.error[t]
<1>1. /\ ~k.lost /\ ~k.checking /\ keys < MaxKeys /\ k.stat[t] # "close"
      /\ k' = ClearError(a, t)
      /\ keys' = keys + 1
      /\ hits' = IF pc[t] \in {"taking", "took"} THEN hits + 1 ELSE hits
      /\ UNCHANGED <<running, pc, starting, wait, todo>>
  BY DEF KeyHandler
<1>2. /\ KernelInv(k) /\ Types /\ SchedInv /\ PcInv /\ StartInv /\ WaitInv /\ PermInv
      /\ k \in Kernels /\ ReadyInv(k)
  BY DEF ThreadInv, KernelInv
<1>3. t \in Threads /\ t = k.current
  BY <1>2 DEF Kernels
<1> HIDE DEF t
<1>4. k.stat[t] \in {"ready", "suspend"}
  <2>1. CASE Best(k)
    BY <1>2, <1>3, <2>1, BestIsReady
  <2>2. CASE pc[t] \in DOMAIN Resumes
    <3>1. k.stat[t] # "init"
      BY <1>2, <1>3, <2>2, ResumesIs DEF PcInv, Having, Calling
    <3> QED BY <1>1, <1>2, <1>3, <3>1 DEF Kernels, Stats
  <2> QED BY <1>1, <1>2, <1>3, <2>1, <2>2 DEF SchedInv
<1>5. /\ KernelInv(m) /\ TimerMore(k, m, t, Entry(k, t, KeyDelay))
      /\ StatIs(k, m, t, "suspend")
      /\ Frame(k, m) /\ SameChoice(k, m) /\ m.error = k.error
      /\ m.waiters = k.waiters
  <2> DEFINE e == Entry(k, t, KeyDelay)
  <2>1. e = Entry(k, t, KeyDelay) /\ m = SleepSection(k, t, KeyDelay) /\ KeyDelay \in Int
    BY ThreadConstants
  <2> HIDE DEF e, m
  <2> QED BY <1>2, <1>3, <1>4, <2>1, SleepIs
<1>6. /\ a \in Kernels /\ SameLists(m, a) /\ Frame(m, a) /\ a.error = m.error
      /\ m.group = {} => a.lost
      /\ m.group # {} => /\ Best(a) /\ a.lost = m.lost
                         /\ \/ a.pending = TRUE
                            \/ a.pending = m.pending /\ a.current = m.current
  <2>1. m \in Kernels /\ ReadyInv(m) /\ a = rt_schedule(m)
    BY <1>5 DEF KernelInv
  <2> HIDE DEF a, m
  <2> QED BY <2>1, ScheduleIs
<1> HIDE DEF m
<1>7. KernelInv(a)
  BY <1>5, <1>6, SameListsKeep
<1>8. v \in Errors /\ k' = WithError(a, t, v)
  BY <1>1, <1>3, <1>6 DEF ClearError, WithError, Kernels, Errors
<1> HIDE DEF a, v
<1>9. /\ KernelInv(k') /\ SameLists(a, k') /\ Frame(a, k') /\ SameChoice(a, k')
      /\ ErrorIs(a, k', t, v)
  BY <1>3, <1>7, <1>8, ErrorSet
<1>10. /\ k'.value = k.value /\ k'.granted = k.granted /\ k'.checking = k.checking
       /\ k'.waiters = k.waiters /\ k'.stat[t] = "suspend"
       /\ \A u \in Threads \ {t} : k'.stat[u] = k.stat[u] /\ k'.error[u] = k.error[u]
       /\ k'.active = k.active \cup {t} /\ k'.tick = k.tick
  BY <1>2, <1>3, <1>5, <1>6, <1>9
     DEF Kernels, Frame, SameLists, ErrorIs, StatIs, TimerMore
<1>11. Types' /\ Waiting' = Waiting /\ Held' = Held
  <2>1. keys' \in 0 .. MaxKeys /\ hits' \in Nat
    BY <1>1, <1>2, ThreadConstants DEF Types
  <2> QED BY <1>1, <1>2, <2>1 DEF Types, Waiting, Held
<1>12. SchedInv'
  <2>1. CASE m.group = {}
    BY <1>6, <1>9, <2>1 DEF SchedInv, SameChoice
  <2>2. CASE m.group # {}
    <3>1. /\ k'.lost = k.lost
          /\ \/ k'.pending = TRUE
             \/ k'.pending = k.pending /\ k'.current = k.current
      BY <1>5, <1>6, <1>9, <2>2 DEF SameChoice
    <3>2. Best(k')
      BY <1>6, <1>9, <2>2 DEF Best, Top, SameLists, SameChoice
    <3> QED BY <1>1, <1>2, <3>1, <3>2 DEF SchedInv
  <2> QED BY <2>1, <2>2
<1>13. PcInv'
  BY <1>1, <1>2, <1>10 DEF PcInv, Having
<1>14. StartInv'
  BY <1>1, <1>2, <1>3, <1>10, ThreadConstants DEF StartInv
<1>15. CheckInv'
  BY <1>1, <1>10 DEF CheckInv
<1>16. WaitInv'
  BY <1>2, <1>10, <1>11 DEF WaitInv, Waiting
<1>17. PermInv'
  <2>1. PICK S \in SUBSET Waiting :
          /\ \A u \in Waiting \ S : Settled(u)
          /\ 1 - hits + Cardinality(S) <= Permits
          /\ Permits <= 1 + hits - Cardinality(S)
    BY <1>2 DEF PermInv
  <2> DEFINE R == IF t \in Waiting THEN S \cup {t} ELSE S
  <2>2. R \in SUBSET Waiting' /\ S \subseteq R /\ (t \in Waiting => t \in R)
    BY <1>11
  <2>3. \A u \in Waiting' \ R : Settled(u)'
    <3>1. SUFFICES ASSUME NEW u \in Waiting' \ R
                   PROVE  Settled(u)'
      OBVIOUS
    <3>2. u # t /\ u \in Threads /\ Settled(u)
      BY <1>11, <2>1, <2>2 DEF Waiting
    <3>3. /\ k'.stat[u] = k.stat[u] /\ k'.error[u] = k.error[u]
          /\ u \in ToSet(k.waiters) => u \in ToSet(k'.waiters)
          /\ u \in k'.active => u \in k.active
          /\ u \in k'.granted <=> u \in k.granted
          /\ wait'[u] = wait[u]
      BY <1>1, <1>10, <3>2
    <3> QED BY <3>2, <3>3, SettledStays
  <2>4. /\ IsFiniteSet(S) /\ Cardinality(S) \in Nat /\ hits \in Nat /\ Permits \in Int
        /\ Permits' = Permits
    <3>1. Permits \in Int
      BY Finites DEF Permits
    <3>2. Permits' = Permits
      BY <1>10, <1>11 DEF Permits
    <3> QED BY <3>1, <3>2, Finites, FS_CardinalityType
  <2>5. hits' - Cardinality(R) >= hits - Cardinality(S)
    <3>1. CASE t \in Waiting
      <4>1. hits' = hits + 1
        BY <1>1, <3>1 DEF Waiting
      <4>2. Cardinality(R) = Cardinality(S) \/ Cardinality(R) = Cardinality(S) + 1
        BY <2>4, <3>1, FS_AddElement
      <4> QED BY <2>4, <4>1, <4>2
    <3>2. CASE t \notin Waiting
      <4>1. hits' = hits /\ R = S
        BY <1>1, <1>3, <3>2 DEF Waiting
      <4> QED BY <2>4, <4>1
    <3> QED BY <3>1, <3>2
  <2>6. Cardinality(R) \in Nat /\ hits' \in Nat
    <3>1. IsFiniteSet(R)
      BY <1>11, <2>2, Finites
    <3> QED BY <1>11, <3>1, FS_CardinalityType DEF Types
  <2>7. /\ 1 - hits' + Cardinality(R) <= Permits'
        /\ Permits' <= 1 + hits' - Cardinality(R)
    BY <2>1, <2>4, <2>5, <2>6
  <2> HIDE DEF R
  <2> QED BY <2>2, <2>3, <2>7 DEF PermInv
<1>18. PutToSleep(t)
  <2> DEFINE e == Entry(k, t, KeyDelay)
  <2>1. e = Entry(k, t, KeyDelay) /\ TimerMore(k, m, t, e)
    BY <1>5
  <2> HIDE DEF e
  <2>2. e \in Entries /\ Fresh(k, e, t)
    <3>1. t \in Timers /\ KeyDelay \in Spans
      BY <1>3, ThreadConstants DEF Timers, Spans
    <3> QED BY <1>2, <2>1, <3>1, FreshIs
  <2>3. e.left = KeyDelay
    BY <2>1 DEF Entry
  <2>4. TimerMore(k, k', t, e)
    BY <1>6, <1>9, <2>1 DEF TimerMore, SameLists
  <2> QED BY <1>3, <1>10, <2>2, <2>3, <2>4 DEF PutToSleep, Moves
<1> QED BY <1>3, <1>9, <1>11, <1>12, <1>13, <1>14, <1>15, <1>16, <1>17, <1>18 DEF ThreadInv

\* The state the scheduler's start leaves.
LEMMA InitThread == ASSUME Init PROVE ThreadInv
<1>1. /\ Idle \in Threads /\ Main \in Threads /\ Prio[Main] # Prio[Idle]
      /\ Prio[Main] \in Prios /\ Prio[Idle] \in Prios
      /\ \A t \in {Idle, Main} : t \in Threads
  <2>1. /\ Idle \in Threads /\ Main \in Threads /\ Idle # Main
        /\ Prio \in [Threads -> Nat] /\ Prio[Main] < Prio[Idle]
    BY ThreadConstants
  <2> QED BY <2>1, PriosAreNat
<1>2. /\ k.stat = [t \in Threads |-> IF t \in {Idle, Main} THEN "ready" ELSE "init"]
      /\ k.ready = [p \in Prios |-> IF p = Prio[Idle] THEN <<Idle>>
                                    ELSE IF p = Prio[Main] THEN <<Main>> ELSE <<>>]
      /\ k.group = {Prio[t] : t \in {Idle, Main}}
      /\ k.current = Main /\ k.pending = FALSE /\ k.lost = FALSE /\ k.checking = FALSE
      /\ k.timers = <<>> /\ k.active = {}
      /\ k.value = 1 /\ k.waiters = <<>> /\ k.granted = {} /\ k.defunct = <<>>
      /\ running = Main /\ pc = [t \in Threads |-> "go"] /\ starting = <<>>
      /\ wait = [t \in Threads |-> 0] /\ todo = 0 /\ keys = 0 /\ hits = 0
  BY DEF Init
<1>3. k \in Kernels
  <2>1. /\ k.stat \in [Threads -> Stats] /\ k.group \in SUBSET Prios
        /\ k.ready \in [Prios -> Seq(Threads)]
    BY <1>1, <1>2 DEF Stats
  <2>2. /\ [t \in Threads |-> "EOK"] \in [Threads -> Errors]
        /\ [t \in Threads |-> Slice] \in [Threads -> Int]
    BY ThreadConstants DEF Errors
  <2>3. /\ <<>> \in Seq(Entries) /\ <<>> \in Seq(Threads)
    OBVIOUS
  <2> DEFINE st == k.stat   re == k.ready   gr == k.group
  <2>4. k = [stat |-> st, error |-> [t \in Threads |-> "EOK"], ready |-> re, group |-> gr,
             current   |-> Main, pending |-> FALSE, ticked |-> FALSE,
             lost      |-> FALSE, checking |-> FALSE,
             remaining |-> [t \in Threads |-> Slice],
             tick      |-> 0,
             timers    |-> <<>>, active |-> {},
             value     |-> 1, waiters |-> <<>>, granted |-> {},
             defunct   |-> <<>>]
    BY DEF Init
  <2>5. st \in [Threads -> Stats] /\ gr \in SUBSET Prios /\ re \in [Prios -> Seq(Threads)]
    BY <2>1
  <2> HIDE DEF st, re, gr
  <2> QED BY ONLY <1>1, <2>2, <2>3, <2>4, <2>5 DEF Kernels
<1>4. Having(k, "ready") = {Idle, Main} /\ Having(k, "suspend") = {}
  BY <1>1, <1>2 DEF Having
<1>5. ReadyInv(k)
  <2>1. \A x \in Threads : IsInjective(<<x>>) /\ ToSet(<<x>>) = {x}
    BY DEF IsInjective, ToSet
  <2>2. IsInjective(<<>>) /\ ToSet(<<>>) = {}
    BY DEF IsInjective, ToSet
  <2>3. \A p \in Prios : Lists(k.ready[p], {t \in Having(k, "ready") : Prio[t] = p})
    BY <1>1, <1>2, <1>4, <2>1, <2>2 DEF Lists
  <2>4. k.group = {p \in Prios : k.ready[p] # <<>>}
    BY <1>1, <1>2
  <2> QED BY <2>3, <2>4 DEF ReadyInv
<1>6. WaitersInv(k) /\ DefunctInv(k) /\ TimersInv(k)
  BY <1>2 DEF WaitersInv, DefunctInv, TimersInv, IsInjective, ToSet, OneEach, Listed
<1>7. "go" \in Labels
  BY LabelsAre
<1>8. Types
  BY <1>1, <1>2, <1>7, ThreadConstants DEF Types
<1>9. SchedInv
  <2>1. Top(k) = Prio[Main]
    <3>1. Prio[Main] < Prio[Idle] /\ Prio[Main] \in Nat /\ Prio[Idle] \in Nat
      BY ThreadConstants
    <3>2. k.group = {Prio[Main], Prio[Idle]}
      BY <1>2
    <3> QED BY <3>1, <3>2 DEF Top
  <2>2. k.ready[Prio[Main]] = <<Main>>
    BY <1>1, <1>2
  <2>3. Best(k)
    BY <1>2, <2>1, <2>2 DEF Best
  <2> QED BY <1>2, <2>3 DEF SchedInv
<1>10. PcInv /\ StartInv /\ CheckInv
  BY <1>1, <1>2 DEF PcInv, Having, StartInv, CheckInv
<1>11. Waiting = {} /\ Held = {}
  BY <1>2 DEF Waiting, Held
<1>12. WaitInv
  BY <1>2, <1>11 DEF WaitInv, ToSet
<1>13. PermInv
  <2>1. Cardinality({}) = 0
    BY FS_EmptySet
  <2>2. Permits = 1 /\ {} \in SUBSET Waiting
    BY <1>2, <1>11, <2>1 DEF Permits
  <2> QED BY <1>2, <1>11, <2>1, <2>2 DEF PermInv
<1> QED BY <1>3, <1>5, <1>6, <1>8, <1>9, <1>10, <1>12, <1>13 DEF ThreadInv, KernelInv

\* ThreadInv is inductive.
LEMMA NextKeeps == ASSUME ThreadInv, [Next]_vars PROVE ThreadInv'
<1>1. ASSUME NEW t \in Threads, ThreadStep(t) PROVE ThreadInv'
  <2>1. CASE CallSchedule(t) \/ Slept(t) \/ Took(t) \/ TimerStarted(t)
    BY <2>1, CallScheduleKeeps, SleptKeeps, TookKeeps, TimerStartedKeeps
  <2>2. CASE rt_thread_exit(t) \/ rt_sem_release(t) \/ StartTimer(t)
    BY <2>2, ExitKeeps, FreesKeeps, GrantsKeeps, StartTimerKeeps
  <2>3. CASE \E d \in Delays : Sleep(t, d)
    BY <2>3, SleepKeeps
  <2>4. CASE \E d \in Waits : rt_sem_take(t, d)
    BY <2>4, TakesKeeps, WaitsKeeps
  <2>5. CASE \E u \in Threads : rt_thread_startup(t, u)
    BY <2>5, StartupKeeps
  <2> QED BY <1>1, <2>1, <2>2, <2>3, <2>4, <2>5 DEF ThreadStep
<1>2. CASE rt_thread_idle_excute
  BY <1>2, IdleKeeps
<1>3. CASE SysTick_Handler
  BY <1>3, SysTickKeeps
<1>4. CASE rt_timer_check
  BY <1>4, CheckKeeps
<1>5. CASE PendSV_Handler
  BY <1>5, PendSVKeeps
<1>6. CASE KeyHandler
  BY <1>6, KeyKeeps
<1>7. CASE UNCHANGED vars
  <2>1. k' = k /\ Waiting' = Waiting /\ Held' = Held
        /\ UNCHANGED <<running, pc, starting, wait, todo, keys, hits>>
    BY <1>7 DEF vars, Waiting, Held
  <2>2. Types' /\ SchedInv' /\ PcInv' /\ StartInv' /\ CheckInv' /\ WaitInv'
    BY <2>1 DEF ThreadInv, Types, SchedInv, PcInv, StartInv, CheckInv, WaitInv
  <2>3. PermInv'
    <3>1. PermInv /\ \A t \in Waiting : Settled(t) => Settled(t)'
      BY <2>1 DEF ThreadInv, Settled
    <3> QED BY <2>1, <3>1, PermStays
  <2> QED BY <2>1, <2>2, <2>3 DEF ThreadInv
<1> QED BY <1>1, <1>2, <1>3, <1>4, <1>5, <1>6, <1>7 DEF Next

\* The kernel is in order after every step: the lists and the stats agree, the
\* choice is the best unless a switch or a call of rt_schedule is to come, and
\* the permits differ from one by no more than the keys that came into a wait.
THEOREM ThreadInvariance == Spec => []ThreadInv
<1>1. Init => ThreadInv
  BY InitThread
<1>2. ThreadInv /\ [Next]_vars => ThreadInv'
  BY NextKeeps
<1> QED BY <1>1, <1>2, PTL DEF Spec

\* ReadySound.
LEMMA ListedOnce ==
  ASSUME NEW s \in Seq(Entries), OneEach(s)
  PROVE  Cardinality({e.timer : e \in ToSet(s)}) = Len(s)
<1> DEFINE T == {e.timer : e \in ToSet(s)}
           f == [i \in 1 .. Len(s) |-> s[i].timer]
<1>1. DOMAIN s = 1 .. Len(s) /\ Len(s) \in Nat
  OBVIOUS
<1>2. f \in Bijection(1 .. Len(s), T)
  <2>1. f \in [1 .. Len(s) -> T]
    BY <1>1 DEF ToSet
  <2>2. \A x \in T : \E i \in 1 .. Len(s) : f[i] = x
    BY <1>1 DEF ToSet
  <2>3. \A i, j \in 1 .. Len(s) : f[i] = f[j] => i = j
    BY <1>1 DEF OneEach
  <2> HIDE DEF f, T
  <2> QED BY <2>1, <2>2, <2>3 DEF Bijection, Injection, Surjection, IsInjective
<1>3. IsFiniteSet(1 .. Len(s)) /\ Cardinality(1 .. Len(s)) = Len(s)
  <2>1. Cardinality(1 .. Len(s)) = IF 1 > Len(s) THEN 0 ELSE Len(s) - 1 + 1
    BY <1>1, FS_Interval
  <2> QED BY <1>1, <2>1, FS_Interval, SMTT(30)
<1> HIDE DEF f, T
<1>4. Cardinality(T) = Cardinality(1 .. Len(s))
  BY <1>2, <1>3, FS_Bijection DEF ExistsBijection
<1> QED BY <1>3, <1>4 DEF T

\* The ready lists, their bitmap and the list of timers say what the stats of
\* the threads say, whatever rt_schedule_insert_thread, rt_thread_suspend,
\* rt_thread_timeout and the handlers of interrupts did, and in whatever order.
THEOREM ReadyListsSound == Spec => []ReadySound
<1>1. ThreadInv => ReadySound
  <2>1. SUFFICES ASSUME ThreadInv PROVE ReadySound
    OBVIOUS
  <2>2. /\ k \in Kernels /\ ReadyInv(k) /\ WaitersInv(k) /\ DefunctInv(k) /\ TimersInv(k)
    BY <2>1 DEF ThreadInv, KernelInv
  <2>3. \A p \in Prios : ToSet(k.ready[p])
             = {t \in Threads : k.stat[t] = "ready" /\ Prio[t] = p}
    BY <2>2 DEF ReadyInv, Lists, Having
  <2>4. k.group = {p \in Prios : k.ready[p] # <<>>}
    BY <2>2 DEF ReadyInv
  <2>5. \A t \in ToSet(k.waiters) : k.stat[t] = "suspend"
    BY <2>2 DEF WaitersInv, Having
  <2>6. k.active = Listed(k)
    BY <2>2 DEF TimersInv
  <2>7. \A s \in {k.ready[p] : p \in Prios} \cup {k.waiters, k.defunct} : IsInjective(s)
    BY <2>2 DEF ReadyInv, Lists, WaitersInv, DefunctInv
  <2>8. Cardinality(Listed(k)) = Len(k.timers)
    <3>1. k.timers \in Seq(Entries) /\ OneEach(k.timers)
      BY <2>2 DEF Kernels, TimersInv
    <3> QED BY <3>1, ListedOnce DEF Listed
  <2> QED BY <2>3, <2>4, <2>5, <2>6, <2>7, <2>8 DEF ReadySound
<1> QED BY <1>1, ThreadInvariance, PTL

\* Unless the ready lists were found empty (k.lost), whoever has the processor
\* with no switch pending, and is not about to call rt_schedule, is the first of
\* the highest priority that is ready.
THEOREM HighestPriorityRuns == Spec => []HighestRuns
<1>1. ThreadInv => HighestRuns
  BY DEF ThreadInv, SchedInv, Best, HighestRuns
<1> QED BY <1>1, ThreadInvariance, PTL

\* rt_sem_take, rt_sem_release and rt_thread_timeout neither make nor lose a
\* permit; a delay in the handler of a key, which suspends a thread that waits,
\* makes or loses at most one each time.
THEOREM NoPermitLost == Spec => []PermitsKept
<1>1. ThreadInv => PermitsKept
  <2>1. SUFFICES ASSUME ThreadInv PROVE PermitsKept
    OBVIOUS
  <2>2. PICK S \in SUBSET Waiting :
        /\ 1 - hits + Cardinality(S) <= Permits
        /\ Permits <= 1 + hits - Cardinality(S)
    BY <2>1 DEF ThreadInv, PermInv
  <2>3. Cardinality(S) \in Nat /\ hits \in Nat /\ Permits \in Int
    BY <2>1, Finites, FS_CardinalityType DEF Permits
  <2>4. 1 - hits <= Permits /\ Permits <= 1 + hits
    BY <2>2, <2>3
  <2> QED BY <2>4 DEF PermitsKept, Permits, Held
<1> QED BY <1>1, ThreadInvariance, PTL

-----------------------------------------------------------------------------
(* Time *)

\* A remainder is known by its range.
LEMMA ModIs ==
  ASSUME NEW m \in Nat \ {0}, NEW x \in Int, NEW j \in Int, NEW r \in 0 .. m - 1,
         x = r + j * m
  PROVE  x % m = r
OBVIOUS

\* Every number is its remainder and so many times m.
LEMMA ModSplit ==
  ASSUME NEW m \in Nat \ {0}, NEW x \in Int
  PROVE  /\ x % m \in 0 .. m - 1
         /\ \E j \in Int : x = (x % m) + j * m
<1>1. x % m \in 0 .. m - 1
  OBVIOUS
<1>2. x \div m \in Int /\ x = (x % m) + (x \div m) * m
  OBVIOUS
<1> QED BY <1>1, <1>2

\* Numbers that differ by a multiple of m have the same remainder.
LEMMA ModSame ==
  ASSUME NEW m \in Nat \ {0}, NEW x \in Int, NEW y \in Int, NEW j \in Int, x = y + j * m
  PROVE  x % m = y % m
<1>1. y % m \in 0 .. m - 1
  BY ModSplit
<1>2. PICK i \in Int : y = (y % m) + i * m
  BY ModSplit
<1>3. x = (y % m) + (i + j) * m /\ i + j \in Int
  BY <1>1, <1>2
<1> QED BY ONLY <1>1, <1>3, ModIs, m \in Nat \ {0}, x \in Int

\* Adding before or after the remainder is taken.
LEMMA ModPlus ==
  ASSUME NEW m \in Nat \ {0}, NEW a \in Int, NEW b \in Int
  PROVE  ((a % m) + b) % m = (a + b) % m
<1>1. PICK i \in Int : a = (a % m) + i * m
  BY ModSplit
<1>2. a % m \in Int
  BY ModSplit
<1>3. -i \in Int /\ (a % m) + b = (a + b) + (-i) * m /\ (a % m) + b \in Int /\ a + b \in Int
  BY <1>1, <1>2
<1> QED BY ONLY <1>3, ModSame, m \in Nat \ {0}

\* Subtracting before or after the remainders are taken.
LEMMA ModLess ==
  ASSUME NEW m \in Nat \ {0}, NEW a \in Int, NEW b \in Int
  PROVE  ((a % m) - (b % m)) % m = (a - b) % m
<1>1. PICK i \in Int : a = (a % m) + i * m
  BY ModSplit
<1>2. PICK j \in Int : b = (b % m) + j * m
  BY ModSplit
<1> DEFINE x == (a % m) - (b % m)
           y == a - b
           n == j - i
<1>3. a % m \in Int /\ b % m \in Int
  BY ModSplit
<1>4. n \in Int /\ x \in Int /\ y \in Int /\ x = y + n * m
  BY <1>1, <1>2, <1>3
<1>5. x % m = y % m
  <2> HIDE DEF x, y, n
  <2> QED BY <1>4, ModSame
<1> QED BY <1>5

\* The remainder of a number less than m on either side of zero.
LEMMA ModNear ==
  ASSUME NEW m \in Nat \ {0}, NEW x \in Int, -m <= x, x < m
  PROVE  x % m = IF x < 0 THEN x + m ELSE x
OBVIOUS

\* How far behind the entry of rt_timer_start can be when it is inserted.
Late == MaxLate + keys * KeyDelay

\* The timeout is what is left from now on, without the wrap, and that is in
\* sight of the clock: at most late ticks ago.
Timed(e, tick, late) ==
    /\ e.timeout = (tick + e.left) % TickMod
    /\ -late <= e.left /\ \E d \in Spans : e.left <= d

\* The list is in the order of what is left; a tick may have passed that
\* rt_timer_check has not served yet, and only the periodic timer is ever late.
Early == IF k.checking THEN 1 ELSE 0

ListTime ==
    /\ Sorted(k.timers)
    /\ \A e \in ToSet(k.timers) :
          /\ Timed(e, k.tick, Late + Early)
          /\ e.timer \in Threads => e.left >= 1 - Early

\* While main is between the halves of rt_timer_start it is ready, or a key
\* has put it to sleep for the time the entry may fall behind.
StartTime ==
    starting # <<>> =>
       /\ Timed(Head(starting), k.tick, Late)
       /\ k.stat[Main] \in {"ready", "suspend"}
       /\ k.stat[Main] = "suspend" =>
             \E f \in ToSet(k.timers) :
                f.timer = Main /\ f.left - Late <= Head(starting).left
TimeInv == ListTime /\ StartTime

\* The bound on the clock of ThreadConstants, with the keys pressed so far.
LEMMA BoundIs ==
  ASSUME Types
  PROVE  /\ Late \in Nat /\ Half \in Nat /\ TickMod \in Nat \ {0}
         /\ 2 * Half <= TickMod - 1
         /\ \A d \in Spans : d \in Nat \ {0} /\ d + Late < Half
         /\ Late + 1 < Half
<1>1. /\ keys \in Nat /\ keys <= MaxKeys /\ MaxKeys \in Nat /\ MaxLate \in Nat
      /\ KeyDelay \in Nat \ {0} /\ TickMod \in Nat \ {0}
  BY ThreadConstants DEF Types
<1>2. keys * KeyDelay \in Nat /\ keys * KeyDelay <= MaxKeys * KeyDelay
      /\ MaxKeys * KeyDelay \in Nat
  BY ONLY <1>1
<1> DEFINE n == MaxKeys * KeyDelay
           l == keys * KeyDelay
<1>3. /\ n \in Nat /\ l \in Nat /\ l <= n
      /\ \A d \in {KeyDelay, Period} \cup Delays \cup Waits : d + MaxLate + n < Half
      /\ Late = MaxLate + l
  BY <1>2, ThreadConstants DEF Late
<1> HIDE DEF n, l
<1>4. \A d \in Spans : d \in Nat \ {0} /\ d \in {KeyDelay, Period} \cup Delays \cup Waits
  BY SpansAre
<1>5. Half \in Nat /\ 2 * Half <= TickMod - 1
  BY <1>1 DEF Half
<1>6. \A d \in Spans : d + Late < Half
  BY <1>1, <1>3, <1>4, <1>5
<1>7. KeyDelay \in Spans
  BY <1>1 DEF Spans
<1> QED BY <1>1, <1>3, <1>4, <1>5, <1>6, <1>7

\* The ticks that two timers have left are compared rightly across the wrap.
LEMMA BeforeIs ==
  ASSUME Types, NEW tick \in Int, NEW e \in Entries, NEW f \in Entries,
         Timed(e, tick, Late), Timed(f, tick, Late + 1)
  PROVE  Before(e, f) <=> e.left < f.left
<1>1. /\ Late \in Nat /\ Half \in Nat /\ TickMod \in Nat \ {0}
      /\ 2 * Half <= TickMod - 1
      /\ \A d \in Spans : d \in Nat \ {0} /\ d + Late < Half
  BY BoundIs
<1>2. /\ e.left \in Int /\ f.left \in Int
      /\ tick + e.left \in Int /\ tick + f.left \in Int
  BY DEF Entries
<1>3. -Late <= e.left /\ -(Late + 1) <= f.left /\ e.left + Late < Half /\ f.left + Late < Half
  BY <1>1, <1>2 DEF Timed
<1> DEFINE x == f.left - e.left
<1>4. (f.timeout - e.timeout) % TickMod = x % TickMod
  <2>1. e.timeout = (tick + e.left) % TickMod /\ f.timeout = (tick + f.left) % TickMod
    BY DEF Timed
  <2> DEFINE a == tick + f.left
             b == tick + e.left
  <2>2. ((a % TickMod) - (b % TickMod)) % TickMod = (a - b) % TickMod
    <3> HIDE DEF a, b
    <3>1. a \in Int /\ b \in Int
      BY <1>2 DEF a, b
    <3> QED BY <1>1, <3>1, ModLess
  <2>3. a - b = x
    BY <1>2
  <2> QED BY <2>1, <2>2, <2>3
<1>5. x \in Int /\ -Half <= x /\ x < Half
  BY <1>1, <1>2, <1>3
<1>6. x < 0 <=> f.left < e.left
  BY <1>2
<1>7. x = 0 <=> f.left = e.left
  BY <1>2
<1> HIDE DEF x
<1>8. x % TickMod = IF x < 0 THEN x + TickMod ELSE x
  <2>1. -TickMod <= x /\ x < TickMod
    BY <1>1, <1>5
  <2> QED BY <1>1, <1>5, <2>1, ModNear
<1>9. (x % TickMod # 0 /\ x % TickMod < Half) <=> 0 < x
  BY <1>1, <1>5, <1>8
<1> QED BY <1>2, <1>4, <1>5, <1>6, <1>7, <1>9 DEF Before

\* The time of a listed timer is up when no ticks are left.
LEMMA DueIs ==
  ASSUME Types, NEW q, q.tick \in Int, NEW e \in Entries, Timed(e, q.tick, Late + 1)
  PROVE  Due(q, e) <=> e.left <= 0
<1>1. /\ Late \in Nat /\ Half \in Nat /\ TickMod \in Nat \ {0}
      /\ 2 * Half <= TickMod - 1 /\ Late + 1 < Half
      /\ \A d \in Spans : d \in Nat \ {0} /\ d + Late < Half
  BY BoundIs
<1>2. e.left \in Int /\ q.tick + e.left \in Int
  BY DEF Entries
<1>3. -(Late + 1) <= e.left /\ e.left < Half
  BY <1>1, <1>2 DEF Timed
<1> DEFINE x == -e.left
           a == q.tick
           b == q.tick + e.left
<1>4. (q.tick - e.timeout) % TickMod = x % TickMod
  <2>1. e.timeout = b % TickMod
    BY DEF Timed
  <2>2. (b % TickMod) \in Int
    BY <1>1, <1>2, ModSplit
  <2>3. PICK j \in Int : b = (b % TickMod) + j * TickMod
    BY <1>1, <1>2, ModSplit
  <2> DEFINE y == q.tick - e.timeout
  <2>4. y \in Int /\ x \in Int /\ y = x + j * TickMod
    <3> DEFINE p == j * TickMod
               w == b % TickMod
    <3>1. p \in Int /\ w \in Int /\ b = w + p /\ y = q.tick - w
      BY <1>1, <2>1, <2>2, <2>3
    <3> HIDE DEF p, w
    <3>2. y \in Int /\ x \in Int /\ y = x + p
      BY <1>2, <3>1
    <3> QED BY <3>2 DEF p
  <2>5. y % TickMod = x % TickMod
    <3> HIDE DEF x, y
    <3> QED BY <1>1, <2>4, ModSame
  <2> QED BY <2>5
<1>5. x \in Int /\ -Half < x /\ x < Half /\ (x < 0 <=> 0 < e.left)
  BY <1>1, <1>2, <1>3
<1> HIDE DEF x
<1>6. x % TickMod = IF x < 0 THEN x + TickMod ELSE x
  <2>1. -TickMod <= x /\ x < TickMod
    BY <1>1, <1>5
  <2> QED BY <1>1, <1>5, <2>1, ModNear
<1>7. x % TickMod < Half <=> 0 <= x
  BY <1>1, <1>5, <1>6
<1> QED BY <1>2, <1>4, <1>5, <1>7 DEF Due

\* A tick of the clock takes one from what is left.
LEMMA TimedTick ==
  ASSUME Types, NEW e \in Entries, NEW tick \in Int, NEW l \in Int, NEW n \in Int,
         Timed(e, tick, l), -n <= e.left - 1
  PROVE  Timed(OneTickLess(e), (tick + 1) % TickMod, n)
<1>1. TickMod \in Nat \ {0} /\ \A d \in Spans : d \in Int
  BY BoundIs
<1> DEFINE f == OneTickLess(e)
<1>2. /\ f.timeout = e.timeout /\ f.left = e.left - 1 /\ e.left \in Int
  BY DEF OneTickLess, Entries
<1> DEFINE a == tick + 1
           b == e.left - 1
<1>3. a \in Int /\ b \in Int /\ a + b = tick + e.left
  BY <1>2
<1>4. ((a % TickMod) + b) % TickMod = (a + b) % TickMod
  <2> HIDE DEF a, b
  <2> QED BY <1>1, <1>3, ModPlus
<1>5. f.timeout = (((tick + 1) % TickMod) + f.left) % TickMod
  BY <1>2, <1>3, <1>4 DEF Timed
<1>6. \E d \in Spans : f.left <= d
  BY <1>1, <1>2 DEF Timed
<1>7. -n <= f.left
  BY <1>2
<1> HIDE DEF f
<1>8. Timed(f, (tick + 1) % TickMod, n)
  BY <1>5, <1>6, <1>7 DEF Timed
<1> QED BY <1>8 DEF f

-----------------------------------------------------------------------------
(* What steps do to the timers *)

\* The list of timers is a list of entries.
LEMMA EntriesOf ==
  ASSUME NEW q, KernelInv(q)
  PROVE  /\ ToSet(q.timers) \subseteq Entries /\ q.timers \in Seq(Entries)
         /\ q.tick \in Int /\ \A e \in Entries : e.left \in Int
<1>1. q.timers \in Seq(Entries) /\ q.tick \in Int
  BY DEF KernelInv, Kernels
<1>2. ToSet(q.timers) \subseteq Entries
  BY <1>1 DEF ToSet
<1> QED BY <1>1, <1>2 DEF Entries

\* An entry that is started now has all its time before it.
LEMMA FreshTimed ==
  ASSUME Types, KernelInv(k), NEW e \in Entries, NEW x, Fresh(k, e, x)
  PROVE  Timed(e, k.tick, Late) /\ e.left >= 1 /\ e.timer = x
<1>1. Late \in Nat /\ e.left \in Nat \ {0} /\ e.left \in Spans
  BY BoundIs, SpansAre DEF Fresh
<1> QED BY <1>1 DEF Fresh, Timed

\* What a step outside rt_timer_check keeps that moves the timer of x.
LEMMA TimeMoves ==
  ASSUME ThreadInv, TimeInv, KernelInv(k'), ~k.checking,
         NEW x \in Threads, Moves(k, k', x), starting' = starting,
         Late <= Late', Late' \in Int,
         starting # <<>> /\ x = Main =>
            /\ k'.stat[Main] = "suspend"
            /\ \E f \in ToSet(k'.timers) :
                  f.timer = Main /\ f.left - Late' <= -Late
  PROVE  TimeInv'
<1>1. Types /\ KernelInv(k) /\ ListTime /\ StartTime
  BY DEF ThreadInv, TimeInv
<1>2. /\ ToSet(k.timers) \subseteq Entries /\ ToSet(k'.timers) \subseteq Entries
      /\ k.tick \in Int /\ Late \in Nat /\ \A e \in Entries : e.left \in Int
  BY <1>1, EntriesOf, BoundIs
<1>3. Early = 0 /\ Early' = 0 /\ k'.tick = k.tick /\ k'.checking = k.checking
  BY DEF Early, Moves
<1>4. /\ Sorted(k.timers)
      /\ \A e \in ToSet(k.timers) : /\ Timed(e, k.tick, Late)
                                    /\ e.timer \in Threads => e.left >= 1
  BY <1>1, <1>2, <1>3 DEF ListTime
<1>5. \A e \in Entries : Timed(e, k.tick, Late) => Timed(e, k.tick, Late')
  BY <1>2 DEF Timed
<1>6. /\ Sorted(k'.timers)
      /\ \A e \in ToSet(k'.timers) : /\ Timed(e, k.tick, Late)
                                     /\ e.timer \in Threads => e.left >= 1
  <2>1. CASE k'.timers = k.timers
    BY <1>4, <2>1
  <2>2. CASE TimersLess(k, k', x)
    BY <1>4, <2>2 DEF TimersLess
  <2>3. CASE \E e \in Entries : Fresh(k, e, x) /\ TimerMore(k, k', x, e)
    <3>1. PICK e \in Entries : Fresh(k, e, x) /\ TimerMore(k, k', x, e)
      BY <2>3
    <3>2. Timed(e, k.tick, Late) /\ e.left >= 1
      BY <1>1, <3>1, FreshTimed
    <3>3. \A f \in ToSet(k.timers) : Before(e, f) <=> e.left < f.left
      <4>1. \A f \in ToSet(k.timers) : f \in Entries /\ Timed(f, k.tick, Late + 1)
        BY <1>2, <1>4 DEF Timed
      <4> QED BY <1>1, <1>2, <3>2, <4>1, BeforeIs
    <3> QED BY <1>4, <3>1, <3>2, <3>3 DEF TimerMore
  <2> QED BY <2>1, <2>2, <2>3 DEF Moves
<1>7. ListTime'
  <2>1. \A e \in ToSet(k'.timers) : e \in Entries /\ Timed(e, k'.tick, Late')
    BY <1>2, <1>3, <1>5, <1>6
  <2>2. \A e \in ToSet(k'.timers) : Timed(e, k'.tick, Late' + Early')
    <3>1. \A n \in Int : n + 0 = n
      OBVIOUS
    <3>2. Late' + 0 = Late'
      BY <3>1
    <3> QED BY <1>3, <2>1, <3>2
  <2>3. \A e \in ToSet(k'.timers) : e.timer \in Threads => e.left >= 1 - Early'
    BY <1>2, <1>3, <1>6
  <2> QED BY <1>6, <2>2, <2>3 DEF ListTime
<1>8. StartTime'
  <2>1. SUFFICES ASSUME starting # <<>>
                 PROVE  /\ Timed(Head(starting), k.tick, Late')
                        /\ k'.stat[Main] \in {"ready", "suspend"}
                        /\ k'.stat[Main] = "suspend" =>
                              \E f \in ToSet(k'.timers) :
                                 f.timer = Main /\ f.left - Late' <= Head(starting).left
    BY <1>3 DEF StartTime
  <2> DEFINE h == Head(starting)
  <2>2. h \in Entries /\ Timed(h, k.tick, Late)
    <3>1. StartInv
      BY DEF ThreadInv
    <3>2. h \in Entries
      BY <2>1, <3>1 DEF StartInv
    <3> QED BY <1>1, <2>1, <3>2 DEF StartTime
  <2>3. Timed(h, k.tick, Late') /\ -Late <= h.left /\ h.left \in Int
    BY <1>2, <1>5, <2>2 DEF Timed
  <2>4. /\ k.stat[Main] \in {"ready", "suspend"}
        /\ k.stat[Main] = "suspend" =>
              \E f \in ToSet(k.timers) : f.timer = Main /\ f.left - Late <= h.left
    BY <1>1, <2>1 DEF StartTime
  <2> HIDE DEF h
  <2>5. CASE x = Main
    <3>1. PICK f \in ToSet(k'.timers) : f.timer = Main /\ f.left - Late' <= -Late
      BY <2>1, <2>5
    <3>2. f.left \in Int
      BY <1>2
    <3>3. f.left - Late' <= h.left
      BY <1>2, <2>3, <3>1, <3>2
    <3> QED BY <2>1, <2>3, <2>5, <3>1, <3>3 DEF h
  <2>6. CASE x # Main
    <3>1. k'.stat[Main] = k.stat[Main]
      BY <2>6, ThreadConstants DEF Moves
    <3>2. \A f \in ToSet(k.timers) : f.timer = Main => f \in ToSet(k'.timers)
      BY <2>6 DEF Moves, TimersLess, TimerMore
    <3>3. \A f \in ToSet(k.timers) : f.left - Late <= h.left => f.left - Late' <= h.left
      BY <1>2, <2>3
    <3> QED BY <2>3, <2>4, <3>1, <3>2, <3>3 DEF h
  <2> QED BY <2>5, <2>6
<1> QED BY <1>7, <1>8 DEF TimeInv

\* A step that leaves the clock, and the timer of whoever starts one, alone.
LEMMA AsideTime ==
  ASSUME ThreadInv, TimeInv, ThreadInv', Aside, ~k.checking,
         starting' = starting, keys' = keys
  PROVE  TimeInv'
<1>1. PICK x \in Threads : pc[x] # "starting" /\ Moves(k, k', x)
  BY DEF Aside
<1>2. starting # <<>> => x # Main
  BY <1>1 DEF ThreadInv, StartInv
<1>3. Late' = Late /\ Late \in Nat
  BY BoundIs DEF ThreadInv, Late
<1>4. KernelInv(k')
  BY DEF ThreadInv
<1>5. Late <= Late' /\ Late' \in Int
  BY <1>3
<1> QED BY <1>1, <1>2, <1>4, <1>5, TimeMoves

\* A key starts the timer of the thread it interrupted, with a fresh entry, and
\* keeps main KeyDelay ticks longer between the halves of rt_timer_start.
LEMMA KeyTime ==
  ASSUME ThreadInv, TimeInv, ThreadInv', KeyHandler, PutToSleep(k.current)
  PROVE  TimeInv'
<1> DEFINE t == k.current
<1>1. /\ t \in Threads /\ Moves(k, k', t) /\ k'.stat[t] = "suspend"
      /\ ~k.checking /\ starting' = starting /\ keys' = keys + 1
  BY DEF PutToSleep, KeyHandler
<1>2. PICK e \in Entries : Fresh(k, e, t) /\ e.left = KeyDelay /\ TimerMore(k, k', t, e)
  BY DEF PutToSleep
<1> HIDE DEF t
<1>3. Late' = Late + KeyDelay /\ Late \in Nat /\ KeyDelay \in Nat
  <2>1. keys \in Nat /\ KeyDelay \in Nat /\ MaxLate \in Nat
    BY ThreadConstants DEF ThreadInv, Types
  <2>2. (keys + 1) * KeyDelay = keys * KeyDelay + KeyDelay
    BY <2>1
  <2>3. keys * KeyDelay \in Nat
    BY <2>1
  <2>4. Late' = MaxLate + (keys + 1) * KeyDelay
    BY <1>1 DEF Late
  <2> DEFINE p == keys * KeyDelay
             s == (keys + 1) * KeyDelay
  <2>5. s = p + KeyDelay /\ p \in Nat /\ Late = MaxLate + p /\ Late' = MaxLate + s
    BY <2>2, <2>3, <2>4 DEF Late
  <2> HIDE DEF p, s
  <2> QED BY <2>1, <2>5
<1>4. Late <= Late' /\ Late' \in Int
  BY <1>3
<1>5. t = Main => k'.stat[Main] = "suspend" /\ e \in ToSet(k'.timers) /\ e.timer = Main
  BY <1>1, <1>2 DEF TimerMore, Fresh
<1>6. e.left - Late' <= -Late
  BY <1>2, <1>3
<1>7. KernelInv(k')
  BY DEF ThreadInv
<1> QED BY <1>1, <1>4, <1>5, <1>6, <1>7, TimeMoves

-----------------------------------------------------------------------------
(* rt_timer_start and the end of rt_timer_check *)

\* No timer is late at the start.
LEMMA InitTime == ASSUME Init PROVE TimeInv
<1>1. k.timers = <<>> /\ starting = <<>> /\ ToSet(<<>>) = {}
  BY DEF Init, ToSet
<1> QED BY <1>1 DEF TimeInv, ListTime, StartTime, Sorted

\* The entry of the periodic timer is made.
LEMMA StartTimerTime ==
  ASSUME ThreadInv, TimeInv, NEW t \in Threads, StartTimer(t)
  PROVE  TimeInv' /\ k'.tick = k.tick /\ k'.checking = k.checking
<1> DEFINE e == Entry(k, Periodic, Period)
<1>1. /\ At(t, pc[t]) /\ pc[t] = "go" /\ k' = TimerOff(k, Periodic) /\ t = Main
      /\ starting' = <<e>> /\ keys' = keys /\ e = Entry(k, Periodic, Period)
  BY DEF StartTimer, At
<1>2. /\ KernelInv(k) /\ Types /\ SchedInv /\ ListTime /\ k \in Kernels /\ TimersInv(k)
  BY DEF ThreadInv, KernelInv, TimeInv
<1> HIDE DEF e
<1>3. Fresh(k, e, Periodic) /\ e \in Entries
  <2>1. Periodic \in Timers /\ Period \in Spans
    BY ThreadConstants DEF Timers, Spans
  <2> QED BY <1>1, <1>2, <2>1, FreshIs
<1>4. Timed(e, k.tick, Late)
  BY <1>2, <1>3, FreshTimed
<1>5. /\ TimersLess(k, k', Periodic) /\ Frame(k, k') /\ k'.stat = k.stat
  <2>1. OneEach(k.timers) /\ k.active = Listed(k)
    BY <1>2 DEF TimersInv
  <2> QED BY <1>1, <1>2, <2>1, StopIs
<1>6. k.stat[Main] = "ready"
  BY <1>1, <1>2, RunnerIs DEF Calling
<1>7. Late' = Late /\ Early' = Early /\ k'.tick = k.tick
  BY <1>1, <1>5 DEF Late, Early, Frame
<1>8. ListTime'
  BY <1>2, <1>5, <1>7 DEF ListTime, TimersLess
<1>9. StartTime'
  <2>1. Head(starting') = e
    BY <1>1
  <2> QED BY <1>4, <1>5, <1>6, <1>7, <2>1 DEF StartTime
<1> QED BY <1>5, <1>8, <1>9 DEF TimeInv, Frame

\* It is inserted, as late as main is.
LEMMA TimerStartedTime ==
  ASSUME ThreadInv, TimeInv, NEW t \in Threads, TimerStarted(t)
  PROVE  TimeInv' /\ k'.tick = k.tick /\ k'.checking = k.checking
<1> DEFINE e == Head(starting)
<1>1. /\ ~k.checking /\ pc[t] = "starting" /\ k' = TimerInsert(k, e)
      /\ starting' = <<>> /\ keys' = keys
  BY DEF TimerStarted, At
<1>2. /\ KernelInv(k) /\ Types /\ StartInv /\ ListTime /\ StartTime
      /\ k \in Kernels /\ TimersInv(k)
  BY DEF ThreadInv, KernelInv, TimeInv
<1>3. /\ e \in Entries /\ e.timer = Periodic
      /\ Periodic \notin k.active
  BY <1>1, <1>2 DEF StartInv
<1>4. Timed(e, k.tick, Late)
  <2>1. starting # <<>>
    BY <1>1, <1>2 DEF StartInv
  <2> QED BY <1>2, <2>1 DEF StartTime
<1> HIDE DEF e
<1>5. /\ ToSet(k'.timers) = ToSet(k.timers) \cup {e}
      /\ (/\ Sorted(k.timers)
          /\ \A f \in ToSet(k.timers) : Before(e, f) <=> e.left < f.left)
            => Sorted(k'.timers)
      /\ Frame(k, k')
  <2>1. OneEach(k.timers) /\ k.active = Listed(k) /\ e.timer \notin k.active
    BY <1>2, <1>3 DEF TimersInv
  <2> QED BY <1>1, <1>2, <1>3, <2>1, TimerInsertIs
<1>6. /\ Early = 0 /\ Early' = 0 /\ Late' = Late /\ k'.tick = k.tick
      /\ k'.checking = k.checking /\ Late \in Nat
  BY <1>1, <1>2, <1>5, BoundIs DEF Early, Late, Frame
<1>7. ToSet(k.timers) \subseteq Entries /\ k.tick \in Int /\ \A f \in Entries : f.left \in Int
  BY <1>2, EntriesOf
<1>8. \A f \in ToSet(k.timers) : Timed(f, k.tick, Late)
  BY <1>2, <1>6 DEF ListTime
<1>9. \A f \in ToSet(k.timers) : Before(e, f) <=> e.left < f.left
  <2>1. \A f \in ToSet(k.timers) : f \in Entries /\ Timed(f, k.tick, Late + 1)
    BY <1>6, <1>7, <1>8 DEF Timed
  <2> QED BY <1>2, <1>3, <1>4, <1>7, <2>1, BeforeIs
<1>10. Sorted(k'.timers)
  BY <1>2, <1>5, <1>9 DEF ListTime
<1>11. ListTime'
  <2>1. Late' + Early' = Late /\ Late + Early = Late /\ Early' = Early
    BY <1>6
  <2>2. \A f \in ToSet(k'.timers) : Timed(f, k'.tick, Late' + Early')
    BY <1>4, <1>5, <1>6, <1>8, <2>1
  <2>3. \A f \in ToSet(k'.timers) : f.timer \in Threads => f.left >= 1 - Early'
    BY <1>2, <1>3, <1>5, <2>1, ThreadConstants DEF ListTime
  <2> QED BY <1>10, <2>2, <2>3 DEF ListTime
<1>12. StartTime'
  BY <1>1 DEF StartTime
<1> QED BY <1>6, <1>11, <1>12 DEF TimeInv

\* When the loop of rt_timer_check has no other turn, no timer is due.
LEMMA AllLater ==
  ASSUME Types, NEW q, KernelInv(q), Sorted(q.timers),
         \A e \in ToSet(q.timers) : Timed(e, q.tick, Late + 1),
         ~MoreDue(q)
  PROVE  \A e \in ToSet(q.timers) : e.left > 0
<1>1. SUFFICES ASSUME NEW e \in ToSet(q.timers) PROVE e.left > 0
  OBVIOUS
<1>2. q.timers \in Seq(Entries) /\ ToSet(q.timers) \subseteq Entries /\ q.tick \in Int
  BY EntriesOf
<1>3. PICK i \in DOMAIN q.timers : q.timers[i] = e
  BY DEF ToSet
<1>4. q.timers # <<>> /\ 1 \in DOMAIN q.timers /\ Head(q.timers) = q.timers[1] /\ 1 <= i
      /\ i \in Nat
  BY <1>2, <1>3
<1> DEFINE h == q.timers[1]
<1>5. h \in ToSet(q.timers)
  BY <1>4 DEF ToSet
<1>6. h \in Entries /\ ~Due(q, h) /\ e \in Entries
  BY <1>2, <1>4, <1>5 DEF MoreDue
<1>7. h.left \in Int /\ e.left \in Int
  BY <1>6 DEF Entries
<1>8. h.left <= e.left
  BY <1>3, <1>4, <1>7 DEF Sorted
<1> HIDE DEF h
<1>9. ~(h.left <= 0)
  BY <1>2, <1>5, <1>6, DueIs
<1> QED BY <1>7, <1>8, <1>9

\* What a turn of the loop leaves, or the tick before the first.
LEMMA TurnedTime ==
  ASSUME Types, Types', keys' = keys, NEW q, KernelInv(q), k' = Turned(q),
         Sorted(q.timers),
         \A e \in ToSet(q.timers) : /\ Timed(e, q.tick, Late + 1)
                                    /\ e.timer \in Threads => e.left >= 0
  PROVE  /\ ListTime'
         /\ ~k'.checking => \A e \in ToSet(k'.timers) : e.left > 0
<1>1. /\ SameLists(q, k') /\ k'.tick = q.tick /\ k'.checking = MoreDue(q)
  BY TurnedIs
<1>2. k'.timers = q.timers
  BY <1>1 DEF SameLists
<1>3. ToSet(q.timers) \subseteq Entries /\ \A e \in Entries : e.left \in Int
  BY EntriesOf
<1>4. Late' = Late /\ Late \in Nat
  BY BoundIs DEF Late
<1>5. CASE k'.checking
  <2>1. Early' = 1
    BY <1>5 DEF Early
  <2>2. Late' + Early' = Late + 1 /\ 1 - Early' = 0
    BY <1>4, <2>1
  <2>3. \A e \in ToSet(k'.timers) : /\ Timed(e, k'.tick, Late' + Early')
                                    /\ e.timer \in Threads => e.left >= 1 - Early'
    BY <1>1, <1>2, <2>2
  <2> QED BY <1>2, <1>5, <2>3 DEF ListTime
<1>6. CASE ~k'.checking
  <2>1. \A e \in ToSet(q.timers) : e.left > 0
    BY <1>1, <1>6, AllLater
  <2>2. Early' = 0
    BY <1>6 DEF Early
  <2>3. Late' + Early' = Late /\ 1 - Early' = 1
    BY <1>4, <2>2
  <2>4. \A e \in ToSet(q.timers) : e.left \in Int /\ -Late <= e.left /\ e.left >= 1
    BY <1>3, <1>4, <2>1
  <2>5. \A e \in ToSet(q.timers) : Timed(e, q.tick, Late)
    BY <2>4 DEF Timed
  <2>6. \A e \in ToSet(k'.timers) : /\ Timed(e, k'.tick, Late' + Early')
                                    /\ e.timer \in Threads => e.left >= 1 - Early'
    BY <1>1, <1>2, <2>3, <2>4, <2>5
  <2> QED BY <1>2, <2>1, <2>6 DEF ListTime
<1> QED BY <1>5, <1>6

-----------------------------------------------------------------------------
(* The tick and rt_timer_check on time *)

\* The tick, and the order of what is left across the wrap of the clock.
LEMMA SysTickTime ==
  ASSUME ThreadInv, TimeInv, ThreadInv', SysTick_Handler
  PROVE  /\ TimeInv' /\ ~k.checking
         /\ \A e \in ToSet(k.timers) : OneTickLess(e) \in ToSet(k'.timers)
         /\ ~k'.checking => \A e \in ToSet(k'.timers) : e.left > 0
<1> DEFINE r == rt_tick_increase(k)
<1>1. /\ ~k.checking /\ ~TooLate /\ k' = Turned(r) /\ r = rt_tick_increase(k)
      /\ starting' = [i \in DOMAIN starting |-> OneTickLess(starting[i])]
      /\ keys' = keys
  BY DEF SysTick_Handler
<1>2. /\ KernelInv(k) /\ Types /\ Types' /\ StartInv /\ ListTime /\ StartTime
  BY DEF ThreadInv, TimeInv
<1> HIDE DEF r
<1>3. KernelInv(r) /\ Clocked(k, r)
  BY <1>1, <1>2, TickIs
<1>4. SameLists(r, k') /\ k'.tick = r.tick
  BY <1>1, <1>3, TurnedIs
<1>5. /\ ToSet(k'.timers) = {OneTickLess(e) : e \in ToSet(k.timers)}
      /\ ToSet(r.timers) = {OneTickLess(e) : e \in ToSet(k.timers)}
      /\ k'.stat = k.stat /\ k'.tick = (k.tick + 1) % TickMod /\ r.tick = k'.tick
  BY <1>3, <1>4 DEF Clocked, SameLists
<1>6. /\ ToSet(k.timers) \subseteq Entries /\ k.tick \in Int
      /\ \A e \in Entries : e.left \in Int
  BY <1>2, EntriesOf
<1>7. Late' = Late /\ Late \in Nat /\ Early = 0
  BY <1>1, <1>2, BoundIs DEF Late, Early
<1>8. \A e \in ToSet(k.timers) : /\ Timed(e, k.tick, Late)
                                 /\ e.timer \in Threads => e.left >= 1
  BY <1>2, <1>7 DEF ListTime
<1>9. \A e \in Entries : /\ OneTickLess(e).timer = e.timer
                         /\ OneTickLess(e).left = e.left - 1
  BY DEF OneTickLess, Entries
<1>10. Sorted(r.timers)
  BY <1>2, <1>3 DEF ListTime, Clocked
<1>11. \A e \in ToSet(k.timers) : /\ Timed(OneTickLess(e), r.tick, Late + 1)
                                  /\ e.timer \in Threads => OneTickLess(e).left >= 0
  <2>1. SUFFICES ASSUME NEW e \in ToSet(k.timers)
                 PROVE  /\ Timed(OneTickLess(e), r.tick, Late + 1)
                        /\ e.timer \in Threads => OneTickLess(e).left >= 0
    OBVIOUS
  <2>2. e \in Entries /\ Timed(e, k.tick, Late) /\ e.left \in Int
    BY <1>6, <1>8
  <2>3. -(Late + 1) <= e.left - 1 /\ Late \in Int /\ Late + 1 \in Int
    BY <1>7, <2>2 DEF Timed
  <2>4. Timed(OneTickLess(e), (k.tick + 1) % TickMod, Late + 1)
    BY <1>2, <1>6, <2>2, <2>3, TimedTick
  <2>5. e.timer \in Threads => OneTickLess(e).left >= 0
    BY <1>8, <1>9, <2>2
  <2> QED BY <1>5, <2>4, <2>5
<1>12. \A e \in ToSet(r.timers) : /\ Timed(e, r.tick, Late + 1)
                                  /\ e.timer \in Threads => e.left >= 0
  BY <1>5, <1>6, <1>9, <1>11
<1>13. /\ ListTime'
       /\ ~k'.checking => \A e \in ToSet(k'.timers) : e.left > 0
  BY <1>1, <1>2, <1>3, <1>10, <1>12, TurnedTime
<1>14. StartTime'
  <2>1. SUFFICES ASSUME starting' # <<>>
                 PROVE  /\ Timed(Head(starting'), k'.tick, Late')
                        /\ k'.stat[Main] \in {"ready", "suspend"}
                        /\ k'.stat[Main] = "suspend" =>
                              \E f \in ToSet(k'.timers) :
                                 f.timer = Main /\ f.left - Late' <= Head(starting').left
    BY DEF StartTime
  <2>2. starting # <<>>
    BY <1>1, <2>1
  <2>3. PICK h \in Entries : starting = <<h>>
    BY <1>2, <2>2 DEF StartInv
  <2>4. Head(starting) = h /\ Head(starting') = OneTickLess(h)
    BY <1>1, <2>3
  <2>5. /\ Timed(h, k.tick, Late) /\ k.stat[Main] \in {"ready", "suspend"}
        /\ k.stat[Main] = "suspend" =>
              \E f \in ToSet(k.timers) : f.timer = Main /\ f.left - Late <= h.left
    BY <1>2, <2>2, <2>4 DEF StartTime
  <2>6. h.left \in Int
    BY <1>6
  <2>7. -Late <= h.left - 1
    <3>1. CASE k.stat[Main] = "ready"
      <4>1. ~(h.left <= -MaxLate)
        BY <1>1, <2>2, <2>4, <3>1 DEF TooLate
      <4>2. MaxLate <= Late /\ MaxLate \in Nat
        <5>1. keys \in Nat /\ KeyDelay \in Nat /\ MaxLate \in Nat
          BY <1>2, ThreadConstants DEF Types
        <5>2. keys * KeyDelay \in Nat
          BY <5>1
        <5> QED BY <5>1, <5>2 DEF Late
      <4> QED BY <1>7, <2>6, <4>1, <4>2
    <3>2. CASE k.stat[Main] = "suspend"
      <4>1. PICK f \in ToSet(k.timers) : f.timer = Main /\ f.left - Late <= h.left
        BY <2>5, <3>2
      <4>2. f.left >= 1 /\ f.left \in Int
        BY <1>6, <1>8, <4>1, ThreadConstants
      <4> QED BY <1>7, <2>6, <4>1, <4>2
    <3> QED BY <2>5, <3>1, <3>2
  <2>8. Timed(OneTickLess(h), k'.tick, Late')
    <3>1. Late \in Int
      BY <1>7
    <3>2. Timed(OneTickLess(h), (k.tick + 1) % TickMod, Late)
      BY <1>2, <1>6, <2>5, <2>7, <3>1, TimedTick
    <3> QED BY <1>5, <1>7, <3>2
  <2>9. k.stat[Main] = "suspend" =>
           \E f \in ToSet(k'.timers) :
              f.timer = Main /\ f.left - Late' <= OneTickLess(h).left
    <3>1. SUFFICES ASSUME k.stat[Main] = "suspend"
                   PROVE  \E f \in ToSet(k'.timers) :
                             f.timer = Main /\ f.left - Late' <= OneTickLess(h).left
      OBVIOUS
    <3>2. PICK f \in ToSet(k.timers) : f.timer = Main /\ f.left - Late <= h.left
      BY <2>5, <3>1
    <3>3. f \in Entries /\ f.left \in Int
      BY <1>6
    <3>4. /\ OneTickLess(f).timer = Main
          /\ OneTickLess(f).left - Late <= OneTickLess(h).left
      BY <1>7, <1>9, <2>6, <3>2, <3>3
    <3> QED BY <1>5, <1>7, <3>4
  <2> QED BY <1>5, <2>4, <2>5, <2>8, <2>9
<1> QED BY <1>1, <1>5, <1>13, <1>14 DEF TimeInv

\* A turn of rt_timer_check takes the timer that is due, and no other.
LEMMA CheckTime ==
  ASSUME ThreadInv, TimeInv, ThreadInv', rt_timer_check
  PROVE  /\ TimeInv' /\ k.checking /\ k'.tick = k.tick
         /\ \A e \in ToSet(k.timers) :
               /\ e.left > 0 => e \in ToSet(k'.timers)
               /\ e.timer \in Threads =>
                     (k'.stat[e.timer] = "ready" <=> e \notin ToSet(k'.timers))
         /\ ~k'.checking => \A e \in ToSet(k'.timers) : e.left > 0
<1> DEFINE h == Head(k.timers)
           x == h.timer
           r == Expire(k, x)
<1>1. /\ k.checking /\ k' = Turned(r) /\ r = Expire(k, x)
      /\ starting' = starting /\ keys' = keys
  BY DEF rt_timer_check
<1>2. /\ KernelInv(k) /\ Types /\ Types' /\ ListTime /\ StartTime
      /\ TimersInv(k) /\ k \in Kernels
  BY DEF ThreadInv, TimeInv, KernelInv
<1>3. /\ ToSet(k.timers) \subseteq Entries /\ k.tick \in Int
      /\ \A e \in Entries : e.left \in Int
  BY <1>2, EntriesOf
<1>4. Late' = Late /\ Late \in Nat /\ Early = 1
  BY <1>1, <1>2, BoundIs DEF Late, Early
<1>5. /\ Sorted(k.timers)
      /\ \A e \in ToSet(k.timers) : /\ Timed(e, k.tick, Late + 1)
                                    /\ e.timer \in Threads => e.left >= 0
  BY <1>2, <1>4 DEF ListTime
<1>6. /\ h \in ToSet(k.timers) /\ h \in Entries /\ Due(k, h) /\ x \in k.active
      /\ x \in Threads \cup {Periodic}
  BY <1>1, NextTimer
<1>7. h.left <= 0
  <2> HIDE DEF h
  <2> QED BY <1>2, <1>3, <1>5, <1>6, DueIs
<1>8. \A e \in ToSet(k.timers) : e.timer = x => e = h
  BY <1>2, <1>6 DEF TimersInv, OneEach, ToSet
<1>9. \A e \in ToSet(k.timers) : e.timer \in Threads => k.stat[e.timer] = "suspend"
  BY <1>2 DEF TimersInv, Having, Listed
<1> HIDE DEF h, x, r
<1>10. CASE x \in Threads
  <2>1. /\ KernelInv(r) /\ Frame(k, r) /\ StatIs(k, r, x, "ready") /\ TimersLess(k, r, x)
    BY <1>1, <1>2, <1>6, <1>10, ExpireIs
  <2>2. SameLists(r, k') /\ k'.tick = r.tick
    BY <1>1, <2>1, TurnedIs
  <2>3. /\ ToSet(r.timers) = {e \in ToSet(k.timers) : e.timer # x}
        /\ Sorted(r.timers) /\ r.tick = k.tick
    BY <1>5, <2>1 DEF TimersLess, Frame
  <2>4. \A e \in ToSet(r.timers) : /\ Timed(e, r.tick, Late + 1)
                                   /\ e.timer \in Threads => e.left >= 0
    BY <1>5, <2>3
  <2>5. /\ ListTime'
        /\ ~k'.checking => \A e \in ToSet(k'.timers) : e.left > 0
    BY <1>1, <1>2, <2>1, <2>3, <2>4, TurnedTime
  <2>6. /\ ToSet(k'.timers) = {e \in ToSet(k.timers) : e.timer # x}
        /\ k'.stat[x] = "ready" /\ \A u \in Threads \ {x} : k'.stat[u] = k.stat[u]
        /\ k'.tick = k.tick
    BY <1>2, <1>10, <2>1, <2>2, <2>3 DEF SameLists, StatIs, Kernels
  <2>7. StartTime'
    <3>1. k'.stat[Main] = "suspend" => k.stat[Main] = "suspend" /\ x # Main
      BY <2>6, ThreadConstants
    <3>2. k.stat[Main] \in {"ready", "suspend"} => k'.stat[Main] \in {"ready", "suspend"}
      BY <2>6, ThreadConstants
    <3> QED BY <1>1, <1>2, <1>4, <2>6, <3>1, <3>2 DEF StartTime
  <2>8. \A e \in ToSet(k.timers) :
               /\ e.left > 0 => e \in ToSet(k'.timers)
               /\ e.timer \in Threads =>
                     (k'.stat[e.timer] = "ready" <=> e \notin ToSet(k'.timers))
    <3>1. SUFFICES ASSUME NEW e \in ToSet(k.timers)
                   PROVE  /\ e.left > 0 => e \in ToSet(k'.timers)
                          /\ e.timer \in Threads =>
                               (k'.stat[e.timer] = "ready" <=> e \notin ToSet(k'.timers))
      OBVIOUS
    <3>2. e.left \in Int /\ h.left \in Int
      BY <1>3, <1>6
    <3>3. e.left > 0 => e.timer # x
      BY <1>7, <1>8, <3>2
    <3>4. e \in ToSet(k'.timers) <=> e.timer # x
      BY <2>6
    <3>5. e.timer \in Threads => (k'.stat[e.timer] = "ready" <=> e.timer = x)
      BY <1>9, <2>6
    <3> QED BY <3>3, <3>4, <3>5
  <2> QED BY <1>1, <2>5, <2>6, <2>7, <2>8 DEF TimeInv
<1>11. CASE x = Periodic
  <2> DEFINE n == Entry(k, Periodic, Period)
  <2>1. n = Entry(k, Periodic, Period) /\ Periodic \in Timers /\ Period \in Spans
        /\ Period \in Int /\ Periodic \notin Threads
    BY ThreadConstants DEF Timers, Spans
  <2> HIDE DEF n
  <2>2. Fresh(k, n, Periodic) /\ n \in Entries
    BY <1>2, <2>1, FreshIs
  <2>3. Timed(n, k.tick, Late) /\ n.timer = Periodic
    BY <1>2, <2>2, FreshTimed
  <2>4. r = rt_timer_start(k, Periodic, Period)
    BY <1>1, <1>11 DEF Expire
  <2>5. /\ KernelInv(r) /\ TimerMore(k, r, Periodic, n) /\ Frame(k, r) /\ r.stat = k.stat
    BY <1>2, <2>1, <2>4, StartIs
  <2>6. SameLists(r, k') /\ k'.tick = r.tick
    BY <1>1, <2>5, TurnedIs
  <2>7. \A f \in ToSet(k.timers) : Before(n, f) <=> n.left < f.left
    BY <1>2, <1>3, <1>5, <2>2, <2>3, BeforeIs
  <2>8. /\ ToSet(r.timers) = {e \in ToSet(k.timers) : e.timer # Periodic} \cup {n}
        /\ Sorted(r.timers) /\ r.tick = k.tick
    BY <1>5, <2>5, <2>7 DEF TimerMore, Frame
  <2>9. \A e \in ToSet(r.timers) : /\ Timed(e, r.tick, Late + 1)
                                   /\ e.timer \in Threads => e.left >= 0
    <3>1. Timed(n, r.tick, Late + 1)
      BY <1>3, <1>4, <2>2, <2>3, <2>8 DEF Timed
    <3> QED BY <1>5, <2>1, <2>3, <2>8, <3>1
  <2>10. /\ ListTime'
         /\ ~k'.checking => \A e \in ToSet(k'.timers) : e.left > 0
    BY <1>1, <1>2, <2>5, <2>8, <2>9, TurnedTime
  <2>11. /\ ToSet(k'.timers) = {e \in ToSet(k.timers) : e.timer # Periodic} \cup {n}
         /\ k'.stat = k.stat /\ k'.tick = k.tick
    BY <2>5, <2>6, <2>8 DEF SameLists
  <2>12. StartTime'
    <3>1. \A f \in ToSet(k.timers) : f.timer = Main => f \in ToSet(k'.timers)
      BY <2>1, <2>11, ThreadConstants
    <3> QED BY <1>1, <1>2, <1>4, <2>11, <3>1 DEF StartTime
  <2>13. \A e \in ToSet(k.timers) :
               /\ e.left > 0 => e \in ToSet(k'.timers)
               /\ e.timer \in Threads =>
                     (k'.stat[e.timer] = "ready" <=> e \notin ToSet(k'.timers))
    <3>1. SUFFICES ASSUME NEW e \in ToSet(k.timers)
                   PROVE  /\ e.left > 0 => e \in ToSet(k'.timers)
                          /\ e.timer \in Threads =>
                               (k'.stat[e.timer] = "ready" <=> e \notin ToSet(k'.timers))
      OBVIOUS
    <3>2. e.left \in Int /\ h.left \in Int
      BY <1>3, <1>6
    <3>3. e.left > 0 => e.timer # Periodic
      BY <1>7, <1>8, <1>11, <3>2
    <3>4. e.timer # Periodic => e \in ToSet(k'.timers)
      BY <2>11
    <3>5. e.timer \in Threads => e.timer # Periodic /\ k'.stat[e.timer] # "ready"
      BY <1>9, <2>1, <2>11
    <3> QED BY <3>3, <3>4, <3>5
  <2> QED BY <1>1, <2>10, <2>11, <2>12, <2>13 DEF TimeInv
<1> QED BY <1>6, <1>10, <1>11

\* A step of any other kind leaves the clock alone.
LEMMA OtherTime ==
  ASSUME ThreadInv, TimeInv, ThreadInv', [Next]_vars,
         ~SysTick_Handler, ~rt_timer_check
  PROVE  /\ TimeInv' /\ k'.tick = k.tick
         /\ k.checking => UNCHANGED vars
         /\ k'.checking = k.checking
<1>1. ASSUME Aside, ~k.checking, starting' = starting, keys' = keys
      PROVE  TimeInv' /\ k'.tick = k.tick /\ k'.checking = k.checking /\ ~k.checking
  BY <1>1, AsideTime DEF Aside, Moves
<1>2. ASSUME NEW t \in Threads, ThreadStep(t)
      PROVE  TimeInv' /\ k'.tick = k.tick /\ k'.checking = k.checking /\ ~k.checking
  <2>1. CASE CallSchedule(t)
    BY <1>1, <2>1, CallScheduleKeeps DEF CallSchedule, At
  <2>2. CASE Slept(t)
    BY <1>1, <2>2, SleptKeeps DEF Slept, At
  <2>3. CASE Took(t)
    BY <1>1, <2>3, TookKeeps DEF Took, At
  <2>4. CASE TimerStarted(t)
    BY <2>4, TimerStartedTime DEF TimerStarted, At
  <2>5. CASE rt_thread_exit(t)
    BY <1>1, <2>5, ExitKeeps DEF rt_thread_exit, At
  <2>6. CASE rt_sem_release(t)
    <3>1. Aside
      BY <2>6, FreesKeeps, GrantsKeeps
    <3>2. ~k.checking /\ starting' = starting /\ keys' = keys
      BY <2>6 DEF rt_sem_release, At
    <3> QED BY <1>1, <3>1, <3>2
  <2>7. CASE StartTimer(t)
    BY <2>7, StartTimerTime DEF StartTimer, At
  <2>8. CASE \E d \in Delays : Sleep(t, d)
    BY <1>1, <2>8, SleepKeeps DEF Sleep, At
  <2>9. CASE \E d \in Waits : rt_sem_take(t, d)
    <3>1. Aside
      BY <2>9, TakesKeeps, WaitsKeeps
    <3>2. ~k.checking /\ starting' = starting /\ keys' = keys
      BY <2>9 DEF rt_sem_take, At
    <3> QED BY <1>1, <3>1, <3>2
  <2>10. CASE \E u \in Threads : rt_thread_startup(t, u)
    BY <1>1, <2>10, StartupKeeps DEF rt_thread_startup, At
  <2> QED BY <1>2, <2>1, <2>2, <2>3, <2>4, <2>5, <2>6, <2>7, <2>8, <2>9, <2>10 DEF ThreadStep
<1>3. CASE rt_thread_idle_excute
  BY <1>1, <1>3, IdleKeeps DEF rt_thread_idle_excute, At
<1>4. CASE PendSV_Handler
  BY <1>1, <1>4, PendSVKeeps DEF PendSV_Handler
<1>5. CASE KeyHandler
  <2>1. PutToSleep(k.current) /\ ~k.checking
    BY <1>5, KeyKeeps DEF KeyHandler
  <2> QED BY <1>5, <2>1, KeyTime DEF PutToSleep, Moves
<1>6. CASE UNCHANGED vars
  <2>1. k' = k /\ starting' = starting /\ keys' = keys
    BY <1>6 DEF vars
  <2>2. Late' = Late /\ Early' = Early
    BY <2>1 DEF Late, Early
  <2>3. TimeInv'
    BY <2>1, <2>2 DEF TimeInv, ListTime, StartTime
  <2> QED BY <1>6, <2>1, <2>3
<1> QED BY <1>2, <1>3, <1>4, <1>5, <1>6 DEF Next

\* The list of timers is sorted by the ticks left, and the timeouts say how many
\* these are across the wrap of rt_tick, however late a timer was inserted.
THEOREM TimeInvariance == Spec => [](ThreadInv /\ TimeInv)
<1>1. Init => ThreadInv /\ TimeInv
  BY InitThread, InitTime
<1>2. (ThreadInv /\ TimeInv) /\ [Next]_vars => (ThreadInv /\ TimeInv)'
  <2>1. SUFFICES ASSUME ThreadInv, TimeInv, [Next]_vars PROVE ThreadInv' /\ TimeInv'
    OBVIOUS
  <2>2. ThreadInv'
    BY <2>1, NextKeeps
  <2> QED BY <2>1, <2>2, SysTickTime, CheckTime, OtherTime
<1> QED BY <1>1, <1>2, PTL DEF Spec

\* The handler of the tick takes one tick from every timer; rt_timer_check wakes
\* a thread when, and only when, its time is up, leaves the timers that are not
\* due where they are, and ends with none due, whatever rt_tick wraps to.
THEOREM TimersEndOnTime == Spec => TimersOnTime
<1> DEFINE A == LET ticks == k'.tick # k.tick
       IN  /\ ticks => \A e \in ToSet(k.timers) : OneTickLess(e) \in ToSet(k'.timers)
           /\ k.checking => \A e \in ToSet(k.timers) :
                  /\ e.left > 0 => e \in ToSet(k'.timers)
                  /\ e.timer \in Threads =>
                        (k'.stat[e.timer] = "ready" <=> e \notin ToSet(k'.timers))
           /\ (ticks \/ k.checking) /\ ~k'.checking =>
                  \A e \in ToSet(k'.timers) : e.left > 0
<1>1. ThreadInv /\ TimeInv /\ [Next]_vars => [A]_vars
  <2>1. SUFFICES ASSUME ThreadInv, TimeInv, [Next]_vars, ~UNCHANGED vars PROVE A
    OBVIOUS
  <2>2. ThreadInv'
    BY <2>1, NextKeeps
  <2>3. CASE SysTick_Handler
    BY <2>1, <2>2, <2>3, SysTickTime
  <2>4. CASE rt_timer_check
    BY <2>1, <2>2, <2>4, CheckTime
  <2>5. CASE ~SysTick_Handler /\ ~rt_timer_check
    <3>1. k'.tick = k.tick /\ ~k.checking
      BY <2>1, <2>2, <2>5, OtherTime
    <3> QED BY <3>1
  <2> QED BY <2>3, <2>4, <2>5
<1> QED BY <1>1, TimeInvariance, PTL DEF Spec, TimersOnTime
=============================================================================
