--------------------------- MODULE RtMemPool_proof ---------------------------
(***************************************************************************)
(* Proofs about RtMemPool for every number of blocks and threads and every *)
(* mix of waiting times: the free list stays sound, no block is handed out *)
(* twice, the linked list implements BlockPool, and no wake-up is lost.    *)
(*                                                                         *)
(* The types alone do not carry the argument: that rt_mp_alloc returns an  *)
(* unheld block follows from where the links lead, so the inductive        *)
(* invariant keeps the whole free list (FreeListSound) beside the claim.   *)
(***************************************************************************)
EXTENDS RtMemPool, FiniteSetTheorems, TLAPS

\* The inductive invariant.
PoolInv == TypeOK /\ FreeListSound /\ NoDoubleAllocation

\* The operators TLAPS must see as facts about natural numbers.
LEMMA TotalPositive == Total \in Nat \ {0}
  BY PoolConstants DEF Total

\* Init: rt_mp_init leaves the blocks linked in address order.
LEMMA InitInv == Init => PoolInv
<1> SUFFICES ASSUME Init PROVE PoolInv
  OBVIOUS
<1> USE TotalPositive
<1>1. ASSUME NEW i \in 1 .. Total
      PROVE  header[InitOrder[i]] = IF i = Total THEN Null ELSE InitOrder[i + 1]
  <2>1. (CHOOSE k \in 1 .. Total : InitOrder[k] = InitOrder[i]) = i
    BY PoolConstants DEF Total
  <2> QED BY <2>1, PoolConstants DEF Init, Total
<1>2. \A b \in Blocks : \E i \in 1 .. Total : InitOrder[i] = b
  BY PoolConstants DEF Total
<1>3. TypeOK
  <2>1. header \in [Blocks -> Blocks \cup {Null, Mp}]
    <3>1. DOMAIN header = Blocks /\ header = [b \in Blocks |-> header[b]]
      BY DEF Init
    <3>2. ASSUME NEW b \in Blocks PROVE header[b] \in Blocks \cup {Null, Mp}
      <4>1. PICK i \in 1 .. Total : InitOrder[i] = b
        BY <1>2
      <4> QED BY <4>1, <1>1, PoolConstants DEF Total
    <3> QED BY <3>1, <3>2
  <2>2. block_list \in Blocks
    BY PoolConstants DEF Init, Total
  <2>3. suspend_thread \in Seq(Threads)
    BY DEF Init
  <2>4. /\ pc \in [Threads -> {"caller", "asleep", "resumed"}]
        /\ time \in [Threads -> {NoWait, Timed, Forever}]
        /\ error \in [Threads -> {"EOK", "ETIMEOUT"}]
        /\ held \in [Threads -> SUBSET Blocks]
    BY DEF Init
  <2> QED BY <2>1, <2>2, <2>3, <2>4 DEF Init, TypeOK
<1>4. FreeListSound
  <2>1. \A b \in Blocks : ~ Used(b)
    BY DEF Init, Used
  <2>2. IsFreeList(InitOrder)
    BY <1>1, <1>2, <2>1, PoolConstants DEF IsFreeList, Init, Total
  <2> QED BY <2>1, <2>2, PoolConstants DEF FreeListSound, Init, Total
<1>5. NoDoubleAllocation
  BY DEF Init, NoDoubleAllocation
<1> QED BY <1>3, <1>4, <1>5 DEF PoolInv

\* rt_mp_alloc on a pool with a free block: block_list is a block nobody holds.
LEMMA FirstIsFree ==
  ASSUME PoolInv, block_free_count > 0
  PROVE  block_list \in Blocks /\ ~ Used(block_list)
<1>1. PICK s \in [1 .. block_free_count -> Blocks] : IsFreeList(s)
  BY DEF PoolInv, FreeListSound
<1>2. 1 \in 1 .. block_free_count /\ block_list = s[1]
  BY <1>1 DEF PoolInv, TypeOK, IsFreeList
<1> QED BY <1>1, <1>2 DEF IsFreeList

\* Unlinking the first block keeps the rest of the list.
LEMMA TakeKeepsList ==
  ASSUME PoolInv, block_free_count > 0, NEW t \in Threads, TakeFirst(t)
  PROVE  FreeListSound' /\ NoDoubleAllocation'
<1> USE DEF PoolInv
<1>0. PICK n \in Nat : n = block_free_count
  BY DEF TypeOK
<1>1. PICK s \in [1 .. n -> Blocks] : IsFreeList(s)
  BY <1>0 DEF FreeListSound
<1> DEFINE r == [i \in 1 .. n - 1 |-> s[i + 1]]
<1> USE <1>0
<1>2. n \in Nat /\ n > 0 /\ block_list = s[1] /\ s[1] \in Blocks /\ ~ Used(s[1])
  BY <1>1, FirstIsFree DEF TypeOK, IsFreeList
<1>3. /\ block_free_count' = n - 1
      /\ block_list' = header[s[1]]
      /\ header' = [header EXCEPT ![s[1]] = Mp]
      /\ held' = [held EXCEPT ![t] = @ \cup {s[1]}]
  BY <1>2 DEF TakeFirst
<1>4. \A b \in Blocks : Used(b)' <=> Used(b) \/ b = s[1]
  BY <1>3 DEF Used, TypeOK
<1>5. r \in [1 .. block_free_count' -> Blocks]
  BY <1>2, <1>3
<1>6. IsFreeList(r)'
  <2>1. \A i, k \in 1 .. n - 1 : r[i] = r[k] => i = k
    BY <1>1, <1>2 DEF IsFreeList
  <2>2. ASSUME NEW b \in Blocks, ~ Used(b)'
        PROVE  \E i \in 1 .. n - 1 : r[i] = b
    <3>1. PICK i \in 1 .. n : s[i] = b
      BY <1>1, <1>4, <2>2 DEF IsFreeList
    <3>2. i # 1 /\ i - 1 \in 1 .. n - 1 /\ r[i - 1] = b
      BY <1>2, <1>4, <2>2, <3>1
    <3> QED BY <3>2
  <2>3. \A i \in 1 .. n - 1 : r[i] \in Blocks /\ r[i] # s[1] /\ ~ Used(r[i])'
    BY <1>1, <1>2, <1>4 DEF IsFreeList
  <2>4. block_list' = IF n - 1 = 0 THEN Null ELSE r[1]
    BY <1>1, <1>2, <1>3 DEF IsFreeList
  <2>5. ASSUME NEW i \in 1 .. n - 1
        PROVE  header'[r[i]] = IF i = n - 1 THEN Null ELSE r[i + 1]
    BY <1>1, <1>2, <1>3, <2>3 DEF IsFreeList, TypeOK
  <2> HIDE DEF r
  <2> QED BY <1>2, <1>3, <2>1, <2>2, <2>3, <2>4, <2>5 DEF IsFreeList
<1>7. \A b \in Blocks : Used(b)' => header'[b] = Mp
  BY <1>2, <1>3, <1>4 DEF FreeListSound, TypeOK
<1>8. NoDoubleAllocation'
  BY <1>2, <1>3 DEF NoDoubleAllocation, Used, TypeOK
<1> QED BY <1>5, <1>6, <1>7, <1>8 DEF FreeListSound

\* A block whose header names the pool is in use: free headers hold links.
LEMMA PoolHeaderIsUsed ==
  ASSUME PoolInv, NEW b \in Blocks, header[b] = Mp
  PROVE  Used(b)
<1> USE DEF PoolInv
<1>1. PICK s \in [1 .. block_free_count -> Blocks] : IsFreeList(s)
  BY DEF FreeListSound
<1>2. SUFFICES ASSUME NEW i \in 1 .. block_free_count, s[i] = b
               PROVE  FALSE
  BY <1>1 DEF IsFreeList
<1>3. header[s[i]] \in Blocks \cup {Null}
  BY <1>1 DEF IsFreeList, TypeOK
<1> QED BY <1>2, <1>3, PoolConstants

\* rt_mp_free puts the block in front of the list.
LEMMA FreeKeepsList ==
  ASSUME PoolInv, NEW b \in Blocks, Free(b)
  PROVE  FreeListSound' /\ NoDoubleAllocation'
<1> USE DEF PoolInv
<1>0. PICK n \in Nat : n = block_free_count
  BY DEF TypeOK
<1>1. PICK s \in [1 .. n -> Blocks] : IsFreeList(s)
  BY <1>0 DEF FreeListSound
<1> DEFINE r == [i \in 1 .. n + 1 |-> IF i = 1 THEN b ELSE s[i - 1]]
<1> USE <1>0
<1>2. n \in Nat /\ Used(b)
  BY PoolHeaderIsUsed DEF TypeOK, Free
<1>3. /\ block_free_count' = n + 1
      /\ block_list' = b
      /\ header' = [header EXCEPT ![b] = block_list]
      /\ held' = [u \in Threads |-> held[u] \ {b}]
  BY DEF Free, LinkFirst
<1>4. \A c \in Blocks : Used(c)' <=> Used(c) /\ c # b
  BY <1>3 DEF Used
<1>5. r \in [1 .. block_free_count' -> Blocks]
  BY <1>2, <1>3
<1>6. IsFreeList(r)'
  <2>1. \A i \in 1 .. n : s[i] \in Blocks /\ s[i] # b
    BY <1>1, <1>2 DEF IsFreeList
  <2>2. \A i, k \in 1 .. n + 1 : r[i] = r[k] => i = k
    BY <1>1, <1>2, <2>1 DEF IsFreeList
  <2>3. ASSUME NEW c \in Blocks, ~ Used(c)'
        PROVE  \E i \in 1 .. n + 1 : r[i] = c
    <3>1. CASE c = b
      BY <1>2, <3>1
    <3>2. CASE c # b
      <4>1. PICK i \in 1 .. n : s[i] = c
        BY <1>1, <1>4, <2>3, <3>2 DEF IsFreeList
      <4>2. i + 1 \in 1 .. n + 1 /\ r[i + 1] = c
        BY <1>2, <4>1
      <4> QED BY <4>2
    <3> QED BY <3>1, <3>2
  <2>4. \A i \in 1 .. n + 1 : r[i] \in Blocks /\ ~ Used(r[i])'
    BY <1>1, <1>2, <1>4, <2>1 DEF IsFreeList
  <2>5. block_list' = r[1]
    BY <1>2, <1>3
  <2>6. ASSUME NEW i \in 1 .. n + 1
        PROVE  header'[r[i]] = IF i = n + 1 THEN Null ELSE r[i + 1]
    BY <1>1, <1>2, <1>3, <2>1 DEF IsFreeList, TypeOK
  <2> HIDE DEF r
  <2> QED BY <1>2, <1>3, <2>2, <2>3, <2>4, <2>5, <2>6 DEF IsFreeList
<1>7. \A c \in Blocks : Used(c)' => header'[c] = Mp
  BY <1>3, <1>4 DEF FreeListSound, TypeOK
<1>8. NoDoubleAllocation'
  BY <1>3 DEF NoDoubleAllocation
<1> QED BY <1>5, <1>6, <1>7, <1>8 DEF FreeListSound

LEMMA UnlinkedSeq ==
  ASSUME NEW s \in Seq(Threads), NEW k \in 1 .. Len(s)
  PROVE  Unlinked(s, k) \in Seq(Threads) /\ Len(Unlinked(s, k)) = Len(s) - 1
<1>1. Len(s) \in Nat /\ Len(s) - 1 \in Nat
  OBVIOUS
<1>2. Unlinked(s, k) \in [1 .. Len(s) - 1 -> Threads]
  BY <1>1 DEF Unlinked
<1> QED BY <1>1, <1>2

\* The types, action by action.
LEMMA AllocPassType ==
  ASSUME PoolInv, NEW t \in Threads, NEW w \in {NoWait, Timed, Forever},
         AllocPass(t, w)
  PROVE  TypeOK'
<1> USE DEF PoolInv, TypeOK
<1>1. CASE block_free_count > 0 /\ TakeFirst(t) /\ UNCHANGED <<waitVars, error>>
  BY <1>1, FirstIsFree DEF AllocPass, TakeFirst, waitVars
<1>2. CASE block_free_count = 0 /\ Sleep(t) /\ UNCHANGED <<poolVars, held>>
  <2>1. <<t>> \o suspend_thread \in Seq(Threads)
    OBVIOUS
  <2> QED BY <1>2, <2>1 DEF AllocPass, Sleep, poolVars
<1>3. CASE /\ pc' = [pc EXCEPT ![t] = "caller"]
           /\ UNCHANGED <<poolVars, waitVars, error, held>>
  BY <1>3 DEF AllocPass, poolVars, waitVars
<1> QED BY <1>1, <1>2, <1>3 DEF AllocPass

LEMMA FreeType ==
  ASSUME PoolInv, NEW b \in Blocks, Free(b)
  PROVE  TypeOK'
<1> USE DEF PoolInv, TypeOK
<1>1. /\ block_list' \in Blocks \cup {Null, Mp}
      /\ header' \in [Blocks -> Blocks \cup {Null, Mp}]
      /\ block_free_count' \in Nat
      /\ held' \in [Threads -> SUBSET Blocks]
      /\ time' = time
  BY DEF Free, LinkFirst
<1>2. CASE suspend_thread_count > 0 /\ suspend_thread # <<>>
  <2>1. Head(suspend_thread) \in Threads /\ Tail(suspend_thread) \in Seq(Threads)
    BY <1>2
  <2>2. /\ error' = [error EXCEPT ![Head(suspend_thread)] = "EOK"]
        /\ pc' = [pc EXCEPT ![Head(suspend_thread)] = "resumed"]
        /\ suspend_thread' = Tail(suspend_thread)
        /\ suspend_thread_count' = suspend_thread_count - 1
        /\ stray' = stray
    BY <1>2 DEF Free, WakeFirst
  <2>3. suspend_thread_count - 1 \in Nat
    BY <1>2
  <2> QED BY <1>1, <2>1, <2>2, <2>3
<1>3. CASE suspend_thread_count > 0 /\ suspend_thread = <<>>
  <2>1. /\ suspend_thread_count' = suspend_thread_count - 1
        /\ stray' = TRUE
        /\ UNCHANGED <<suspend_thread, error, pc>>
    BY <1>3 DEF Free, WakeFirst
  <2>2. suspend_thread_count - 1 \in Nat
    BY <1>3
  <2> QED BY <1>1, <2>1, <2>2
<1>4. CASE suspend_thread_count = 0
  BY <1>1, <1>4 DEF Free, WakeFirst, waitVars
<1> QED BY <1>2, <1>3, <1>4

\* A step that moves no block keeps the free list and the holdings.
LEMMA ListUntouched ==
  ASSUME PoolInv, UNCHANGED <<poolVars, held>>
  PROVE  FreeListSound' /\ NoDoubleAllocation'
<1> USE DEF PoolInv, poolVars
<1>1. \A b \in Blocks : Used(b)' <=> Used(b)
  BY DEF Used
<1>2. PICK s \in [1 .. block_free_count -> Blocks] : IsFreeList(s)
  BY DEF FreeListSound
<1>3. IsFreeList(s)'
  BY <1>1, <1>2 DEF IsFreeList, Used
<1>4. \A b \in Blocks : Used(b)' => header'[b] = Mp
  BY <1>1 DEF FreeListSound
<1> QED BY <1>3, <1>4 DEF FreeListSound, NoDoubleAllocation

LEMMA AllocPassInv ==
  ASSUME PoolInv, NEW t \in Threads, NEW w \in {NoWait, Timed, Forever},
         AllocPass(t, w)
  PROVE  PoolInv'
<1>1. CASE block_free_count > 0 /\ TakeFirst(t)
  BY <1>1, AllocPassType, TakeKeepsList DEF PoolInv
<1>2. CASE UNCHANGED <<poolVars, held>>
  BY <1>2, AllocPassType, ListUntouched DEF PoolInv
<1> QED BY <1>1, <1>2 DEF AllocPass

\* Every step of the pool keeps the invariant.
LEMMA StepInv == PoolInv /\ [Next]_vars => PoolInv'
<1> SUFFICES ASSUME PoolInv, [Next]_vars PROVE PoolInv'
  OBVIOUS
<1>1. ASSUME NEW t \in Threads, NEW w \in Waits, Alloc(t, w) PROVE PoolInv'
  BY <1>1, AllocPassInv, PoolConstants DEF Alloc
<1>2. ASSUME NEW t \in Threads, AllocResumed(t) PROVE PoolInv'
  <2>1. CASE error[t] # "EOK"
    <3>1. TypeOK'
      BY <1>2, <2>1 DEF AllocResumed, PoolInv, TypeOK, poolVars, waitVars
    <3> QED BY <1>2, <2>1, <3>1, ListUntouched DEF AllocResumed, PoolInv
  <2>2. CASE error[t] = "EOK"
    <3>1. PICK w \in {NoWait, Timed, Forever} : AllocPass(t, w)
      BY <1>2, <2>2 DEF AllocResumed, PoolInv, TypeOK
    <3> QED BY <3>1, AllocPassInv
  <2> QED BY <2>1, <2>2
<1>3. ASSUME NEW t \in Threads, Timeout(t) PROVE PoolInv'
  <2>1. suspend_thread' \in Seq(Threads)
    BY <1>3, UnlinkedSeq DEF Timeout, PoolInv, TypeOK
  <2>2. TypeOK'
    BY <1>3, <2>1 DEF Timeout, PoolInv, TypeOK, poolVars
  <2> QED BY <1>3, <2>2, ListUntouched DEF Timeout, PoolInv
<1>4. ASSUME NEW b \in Blocks, Free(b) PROVE PoolInv'
  BY <1>4, FreeType, FreeKeepsList DEF PoolInv
<1>5. CASE UNCHANGED vars
  <2>1. TypeOK'
    BY <1>5 DEF vars, poolVars, waitVars, PoolInv, TypeOK
  <2> QED BY <1>5, <2>1, ListUntouched DEF vars, PoolInv
<1> QED BY <1>1, <1>2, <1>3, <1>4, <1>5 DEF Next

\* The pool's inductive invariant holds in every reachable state.
THEOREM PoolInvariance == Spec => []PoolInv
<1>1. Init => PoolInv
  BY InitInv
<1>2. PoolInv /\ [Next]_vars => PoolInv'
  BY StepInv
<1> QED BY <1>1, <1>2, PTL DEF Spec

\* The variables of mempool.c keep their types, whatever the pool's size.
THEOREM PoolTypes == Spec => []TypeOK
<1>1. PoolInv => TypeOK
  BY DEF PoolInv
<1> QED BY <1>1, PoolInvariance, PTL

\* The links threaded through the block headers always list exactly the free
\* blocks, and block_free_count counts them (mempool.c:388-398, 432-436).
THEOREM PoolFreeList == Spec => []FreeListSound
<1>1. PoolInv => FreeListSound
  BY DEF PoolInv
<1> QED BY <1>1, PoolInvariance, PTL

\* rt_mp_alloc never hands out a block somebody still holds.
THEOREM PoolExclusive == Spec => []NoDoubleAllocation
<1>1. PoolInv => NoDoubleAllocation
  BY DEF PoolInv
<1> QED BY <1>1, PoolInvariance, PTL
-----------------------------------------------------------------------------
\* As long as holdings are disjoint, the abstract owner of a block is the one
\* thread that holds it.
LEMMA OwnerOf ==
  ASSUME NEW h \in [Threads -> SUBSET Blocks],
         \A t, u \in Threads : t # u => h[t] \cap h[u] = {},
         NEW b \in Blocks
  PROVE  /\ \A t \in Threads : b \in h[t] => OwnerIn(h)[b] = t
         /\ (\A t \in Threads : b \notin h[t]) => OwnerIn(h)[b] = Null
<1>1. ASSUME NEW t \in Threads, b \in h[t] PROVE OwnerIn(h)[b] = t
  <2>1. \A u \in Threads : b \in h[u] => u = t
    BY <1>1
  <2>2. (CHOOSE u \in Threads : b \in h[u]) = t
    BY <1>1, <2>1
  <2> QED BY <1>1, <2>2 DEF OwnerIn
<1> QED BY <1>1 DEF OwnerIn

LEMMA OwnerFunction ==
  ASSUME NEW h PROVE OwnerIn(h) = [b \in Blocks |-> OwnerIn(h)[b]]
BY DEF OwnerIn

\* Handing out the first free block is Take of that block.
LEMMA TakeRefines ==
  ASSUME PoolInv, PoolInv', block_free_count > 0, NEW t \in Threads, TakeFirst(t)
  PROVE  Abstract!Take(t, block_list)
<1> USE DEF PoolInv
<1> DEFINE b == block_list
<1>1. b \in Blocks /\ ~ Used(b)
  BY FirstIsFree
<1>2. held' = [held EXCEPT ![t] = @ \cup {b}]
  BY DEF TakeFirst
<1>3. AbstractOwner[b] = Null
  BY <1>1, OwnerOf DEF AbstractOwner, Used, TypeOK, NoDoubleAllocation
<1>4. ASSUME NEW c \in Blocks
      PROVE  AbstractOwner'[c] = IF c = b THEN t ELSE AbstractOwner[c]
  <2>1. CASE c = b
    <3>1. c \in held'[t]
      BY <1>2, <2>1 DEF TypeOK
    <3> QED BY <2>1, <3>1, OwnerOf DEF AbstractOwner, TypeOK, NoDoubleAllocation
  <2>2. CASE c # b
    <3>1. \A u \in Threads : c \in held'[u] <=> c \in held[u]
      BY <1>2, <2>2 DEF TypeOK
    <3>2. CASE \E u \in Threads : c \in held[u]
      <4>1. PICK u \in Threads : c \in held[u]
        BY <3>2
      <4>2. OwnerIn(held)[c] = u
        BY <4>1, OwnerOf DEF TypeOK, NoDoubleAllocation
      <4>3. OwnerIn(held')[c] = u
        BY <3>1, <4>1, OwnerOf DEF TypeOK, NoDoubleAllocation
      <4> QED BY <2>2, <4>2, <4>3 DEF AbstractOwner
    <3>3. CASE ~ \E u \in Threads : c \in held[u]
      <4>1. OwnerIn(held)[c] = Null
        BY <3>3, OwnerOf DEF TypeOK, NoDoubleAllocation
      <4>2. OwnerIn(held')[c] = Null
        BY <3>1, <3>3, OwnerOf DEF TypeOK, NoDoubleAllocation
      <4> QED BY <2>2, <4>1, <4>2 DEF AbstractOwner
    <3> QED BY <3>2, <3>3
  <2> QED BY <2>1, <2>2
<1>5. AbstractOwner' = [AbstractOwner EXCEPT ![b] = t]
  BY <1>1, <1>4, OwnerFunction DEF AbstractOwner
<1> QED BY <1>3, <1>5 DEF Abstract!Take

\* rt_mp_free is Give by the thread that held the block.
LEMMA FreeRefines ==
  ASSUME PoolInv, PoolInv', NEW b \in Blocks, Free(b)
  PROVE  \E t \in Threads : Abstract!Give(t, b)
<1> USE DEF PoolInv
<1>1. PICK t \in Threads : b \in held[t]
  BY PoolHeaderIsUsed DEF Free, Used
<1>2. held' = [u \in Threads |-> held[u] \ {b}]
  BY DEF Free, LinkFirst
<1>3. AbstractOwner[b] = t
  BY <1>1, OwnerOf DEF AbstractOwner, TypeOK, NoDoubleAllocation
<1>4. ASSUME NEW c \in Blocks
      PROVE  AbstractOwner'[c] = IF c = b THEN Null ELSE AbstractOwner[c]
  <2>1. CASE c = b
    <3>1. \A u \in Threads : c \notin held'[u]
      BY <1>2, <2>1
    <3> QED BY <2>1, <3>1, OwnerOf DEF AbstractOwner, TypeOK, NoDoubleAllocation
  <2>2. CASE c # b
    <3>1. \A u \in Threads : c \in held'[u] <=> c \in held[u]
      BY <1>2, <2>2
    <3>2. CASE \E u \in Threads : c \in held[u]
      <4>1. PICK u \in Threads : c \in held[u]
        BY <3>2
      <4>2. OwnerIn(held)[c] = u
        BY <4>1, OwnerOf DEF TypeOK, NoDoubleAllocation
      <4>3. OwnerIn(held')[c] = u
        BY <3>1, <4>1, OwnerOf DEF TypeOK, NoDoubleAllocation
      <4> QED BY <2>2, <4>2, <4>3 DEF AbstractOwner
    <3>3. CASE ~ \E u \in Threads : c \in held[u]
      <4>1. OwnerIn(held)[c] = Null
        BY <3>3, OwnerOf DEF TypeOK, NoDoubleAllocation
      <4>2. OwnerIn(held')[c] = Null
        BY <3>1, <3>3, OwnerOf DEF TypeOK, NoDoubleAllocation
      <4> QED BY <2>2, <4>1, <4>2 DEF AbstractOwner
    <3> QED BY <3>2, <3>3
  <2> QED BY <2>1, <2>2
<1>5. AbstractOwner' = [AbstractOwner EXCEPT ![b] = Null]
  BY <1>4, OwnerFunction DEF AbstractOwner
<1> QED BY <1>1, <1>3, <1>5 DEF Abstract!Give

LEMMA StepRefines ==
  PoolInv /\ PoolInv' /\ [Next]_vars => [Abstract!Next]_AbstractOwner
<1> SUFFICES ASSUME PoolInv, PoolInv', [Next]_vars
             PROVE  [Abstract!Next]_AbstractOwner
  OBVIOUS
<1>1. ASSUME NEW t \in Threads, block_free_count > 0, TakeFirst(t)
      PROVE  Abstract!Next
  BY <1>1, TakeRefines, FirstIsFree DEF Abstract!Next
<1>2. ASSUME held' = held PROVE AbstractOwner' = AbstractOwner
  BY <1>2 DEF AbstractOwner
<1>3. ASSUME NEW t \in Threads, NEW w, AllocPass(t, w)
      PROVE  [Abstract!Next]_AbstractOwner
  BY <1>1, <1>2, <1>3 DEF AllocPass
<1>4. ASSUME NEW t \in Threads, AllocResumed(t)
      PROVE  [Abstract!Next]_AbstractOwner
  BY <1>2, <1>3, <1>4 DEF AllocResumed
<1>5. ASSUME NEW t \in Threads, Timeout(t) PROVE AbstractOwner' = AbstractOwner
  BY <1>2, <1>5 DEF Timeout
<1>6. ASSUME NEW b \in Blocks, Free(b) PROVE Abstract!Next
  BY <1>6, FreeRefines DEF Abstract!Next
<1>7. CASE UNCHANGED vars
  BY <1>2, <1>7 DEF vars
<1> QED BY <1>3, <1>4, <1>5, <1>6, <1>7 DEF Next, Alloc

\* The linked-list pool is a BlockPool: every behaviour of mempool.c hands out
\* only pool blocks and takes back only handed-out ones.
THEOREM PoolRefinement == Spec => ImplementsBlockPool
<1>1. Init => Abstract!Init
  BY DEF Init, Abstract!Init, AbstractOwner, OwnerIn
<1> QED BY <1>1, StepRefines, PoolInvariance, PTL
        DEF Spec, ImplementsBlockPool, Abstract!Spec
-----------------------------------------------------------------------------
\* The waiting list holds threads that sleep, each once.
SleepersListed ==
    /\ \A i, k \in 1 .. Len(suspend_thread) :
           suspend_thread[i] = suspend_thread[k] => i = k
    /\ \A i \in 1 .. Len(suspend_thread) : pc[suspend_thread[i]] = "asleep"

\* The woken threads that have yet to look again.
OnTheirWay == {t \in Threads : pc[t] = "resumed" /\ error[t] = "EOK"}

WaitInv ==
    TypeOK /\ SleepersListed /\ PendingIsCounted /\ NoLostWakeup

LEMMA WayFinite ==
  ASSUME NEW p, NEW e
  PROVE  LET S == {t \in Threads : p[t] = "resumed" /\ e[t] = "EOK"}
         IN  IsFiniteSet(S) /\ Cardinality(S) \in Nat
<1> DEFINE S == {t \in Threads : p[t] = "resumed" /\ e[t] = "EOK"}
<1>1. S \in SUBSET Threads
  OBVIOUS
<1> QED BY <1>1, PoolConstants, FS_Subset, FS_CardinalityType

\* With no block free there is no wake-up to be owed.
LEMMA NothingOwed ==
  ASSUME block_free_count' = 0 PROVE NoLostWakeup'
<1>1. Cardinality(OnTheirWay') \in Nat
  BY WayFinite DEF OnTheirWay
<1>2. Cardinality(OnTheirWay') >= block_free_count'
  BY <1>1
<1> QED BY <1>2 DEF NoLostWakeup, OnTheirWay

\* A caller that goes to sleep: it was not in the list, and no block is free.
LEMMA SleepWait ==
  ASSUME WaitInv, TypeOK', NEW t \in Threads, pc[t] # "asleep",
         block_free_count = 0, block_free_count' = 0, Sleep(t)
  PROVE  SleepersListed' /\ PendingIsCounted' /\ NoLostWakeup'
<1> USE DEF WaitInv
<1>1. /\ Len(suspend_thread) \in Nat
      /\ Len(suspend_thread') = Len(suspend_thread) + 1
      /\ \A i \in 1 .. Len(suspend_thread) + 1 :
            suspend_thread'[i] = IF i = 1 THEN t ELSE suspend_thread[i - 1]
  BY DEF Sleep, TypeOK
<1>2. SleepersListed'
  <2>1. \A i \in 1 .. Len(suspend_thread) :
           suspend_thread[i] \in Threads /\ suspend_thread[i] # t
    BY DEF SleepersListed, TypeOK
  <2>2. \A i \in 1 .. Len(suspend_thread') : pc'[suspend_thread'[i]] = "asleep"
    <3> SUFFICES ASSUME NEW i \in 1 .. Len(suspend_thread) + 1
                 PROVE  pc'[suspend_thread'[i]] = "asleep"
      BY <1>1
    <3>1. CASE i = 1
      BY <1>1, <3>1 DEF Sleep, TypeOK
    <3>2. CASE i # 1
      <4>1. i - 1 \in 1 .. Len(suspend_thread)
        BY <1>1, <3>2
      <4> QED BY <1>1, <2>1, <3>2, <4>1 DEF Sleep, TypeOK, SleepersListed
    <3> QED BY <3>1, <3>2
  <2>3. ASSUME NEW i \in 1 .. Len(suspend_thread'),
               NEW k \in 1 .. Len(suspend_thread'),
               suspend_thread'[i] = suspend_thread'[k]
        PROVE  i = k
    <3>1. i # 1 => i - 1 \in 1 .. Len(suspend_thread)
      BY <1>1
    <3>2. k # 1 => k - 1 \in 1 .. Len(suspend_thread)
      BY <1>1
    <3> QED BY <1>1, <2>1, <2>3, <3>1, <3>2 DEF SleepersListed
  <2> QED BY <2>2, <2>3 DEF SleepersListed
<1>3. PendingIsCounted'
  BY <1>1 DEF PendingIsCounted, Sleep, TypeOK
<1>4. NoLostWakeup'
  BY NothingOwed
<1> QED BY <1>2, <1>3, <1>4

\* A thread that leaves with a block takes one wake-up and one block.
LEMMA TakeWait ==
  ASSUME WaitInv, TypeOK', NEW t \in Threads, pc[t] # "asleep",
         block_free_count > 0, TakeFirst(t), UNCHANGED <<waitVars, error>>
  PROVE  SleepersListed' /\ PendingIsCounted' /\ NoLostWakeup'
<1> USE DEF WaitInv
<1>1. SleepersListed' /\ PendingIsCounted'
  BY DEF TakeFirst, waitVars, SleepersListed, PendingIsCounted, TypeOK
<1>2. NoLostWakeup'
  <2>1. OnTheirWay' = OnTheirWay \ {t}
    BY DEF OnTheirWay, TakeFirst, TypeOK
  <2>2. IsFiniteSet(OnTheirWay) /\ Cardinality(OnTheirWay) \in Nat
    BY WayFinite DEF OnTheirWay
  <2>3. Cardinality(OnTheirWay') >= Cardinality(OnTheirWay) - 1
    BY <2>1, <2>2, FS_RemoveElement
  <2>4. Cardinality(OnTheirWay') \in Nat
    BY WayFinite DEF OnTheirWay
  <2>5. block_free_count' = block_free_count - 1
    BY DEF TakeFirst
  <2>6. suspend_thread # <<>> => Cardinality(OnTheirWay) >= block_free_count
    BY DEF NoLostWakeup, OnTheirWay
  <2>7. suspend_thread' # <<>> => Cardinality(OnTheirWay') >= block_free_count'
    BY <2>2, <2>3, <2>4, <2>5, <2>6 DEF waitVars, TypeOK
  <2> QED BY <2>7 DEF NoLostWakeup, OnTheirWay
<1> QED BY <1>1, <1>2

\* The call returns without a block and without having slept.
LEMMA ReturnWait ==
  ASSUME WaitInv, TypeOK', NEW t \in Threads, pc[t] # "asleep",
         pc' = [pc EXCEPT ![t] = "caller"],
         block_free_count' = block_free_count, UNCHANGED <<waitVars, error>>,
         block_free_count = 0 \/ error[t] # "EOK"
  PROVE  SleepersListed' /\ PendingIsCounted' /\ NoLostWakeup'
<1> USE DEF WaitInv
<1>1. SleepersListed' /\ PendingIsCounted'
  BY DEF waitVars, SleepersListed, PendingIsCounted, TypeOK
<1>2. CASE block_free_count = 0
  BY <1>1, <1>2, NothingOwed
<1>3. CASE error[t] # "EOK"
  <2>1. OnTheirWay' = OnTheirWay
    BY <1>3 DEF OnTheirWay, TypeOK
  <2> QED BY <1>1, <2>1 DEF NoLostWakeup, OnTheirWay, waitVars
<1> QED BY <1>1, <1>2, <1>3

LEMMA AllocPassWait ==
  ASSUME WaitInv, TypeOK', NEW t \in Threads, pc[t] # "asleep",
         NEW w, AllocPass(t, w)
  PROVE  SleepersListed' /\ PendingIsCounted' /\ NoLostWakeup'
<1>1. CASE /\ block_free_count > 0 /\ TakeFirst(t)
           /\ UNCHANGED <<waitVars, error>>
  BY <1>1, TakeWait
<1>2. CASE block_free_count = 0 /\ Sleep(t) /\ UNCHANGED <<poolVars, held>>
  BY <1>2, SleepWait DEF poolVars
<1>3. CASE /\ block_free_count = 0 /\ pc' = [pc EXCEPT ![t] = "caller"]
           /\ UNCHANGED <<poolVars, waitVars, error, held>>
  BY <1>3, ReturnWait DEF poolVars
<1> QED BY <1>1, <1>2, <1>3 DEF AllocPass

\* A timeout takes its thread off the list; it was on nobody's account.
LEMMA TimeoutWait ==
  ASSUME WaitInv, TypeOK', NEW t \in Threads, Timeout(t)
  PROVE  SleepersListed' /\ PendingIsCounted' /\ NoLostWakeup'
<1> USE DEF WaitInv
<1>1. PICK k \in 1 .. Len(suspend_thread) :
         suspend_thread[k] = t /\ suspend_thread' = Unlinked(suspend_thread, k)
  BY DEF Timeout
<1>2. /\ Len(suspend_thread) \in Nat
      /\ Len(suspend_thread') = Len(suspend_thread) - 1
      /\ \A i \in 1 .. Len(suspend_thread) - 1 :
            suspend_thread'[i] = IF i < k THEN suspend_thread[i]
                                 ELSE suspend_thread[i + 1]
  <2>1. Len(suspend_thread') = Len(suspend_thread) - 1
    BY <1>1, UnlinkedSeq DEF TypeOK
  <2> QED BY <1>1, <2>1 DEF Unlinked, TypeOK
<1>3. SleepersListed'
  <2> DEFINE old(i) == IF i < k THEN i ELSE i + 1
  <2>1. ASSUME NEW i \in 1 .. Len(suspend_thread')
        PROVE  /\ old(i) \in 1 .. Len(suspend_thread) /\ old(i) # k
               /\ suspend_thread'[i] = suspend_thread[old(i)]
    BY <1>1, <1>2
  <2>2. ASSUME NEW i \in 1 .. Len(suspend_thread')
        PROVE  pc'[suspend_thread'[i]] = "asleep"
    <3>1. /\ suspend_thread[old(i)] \in Threads
          /\ suspend_thread[old(i)] # t
          /\ pc[suspend_thread[old(i)]] = "asleep"
      BY <1>1, <2>1 DEF SleepersListed, TypeOK
    <3>2. pc' = [pc EXCEPT ![t] = "resumed"]
      BY DEF Timeout
    <3> HIDE DEF old
    <3> QED BY <2>1, <3>1, <3>2 DEF TypeOK
  <2>3. ASSUME NEW i \in 1 .. Len(suspend_thread'),
               NEW j \in 1 .. Len(suspend_thread'),
               suspend_thread'[i] = suspend_thread'[j]
        PROVE  i = j
    <3>1. old(i) = old(j)
      <4> HIDE DEF old
      <4> QED BY <2>1, <2>3 DEF SleepersListed
    <3> QED BY <1>1, <1>2, <3>1
  <2> QED BY <2>2, <2>3 DEF SleepersListed
<1>4. PendingIsCounted'
  BY <1>1, <1>2 DEF PendingIsCounted, Timeout, TypeOK
<1>5. NoLostWakeup'
  <2>1. OnTheirWay' = OnTheirWay
    BY DEF OnTheirWay, Timeout, TypeOK
  <2>2. suspend_thread # <<>> /\ block_free_count' = block_free_count
    BY <1>1 DEF Timeout, poolVars, TypeOK
  <2> QED BY <2>1, <2>2 DEF NoLostWakeup, OnTheirWay
<1> QED BY <1>3, <1>4, <1>5

\* rt_mp_free: a block more, and a wake-up more if anybody sleeps, since then
\* the count is positive.
LEMMA FreeWait ==
  ASSUME WaitInv, TypeOK', NEW b \in Blocks, Free(b)
  PROVE  SleepersListed' /\ PendingIsCounted' /\ NoLostWakeup'
<1> USE DEF WaitInv
<1>1. block_free_count' = block_free_count + 1
  BY DEF Free, LinkFirst
<1>2. CASE suspend_thread = <<>>
  <2>1. suspend_thread' = <<>> /\ suspend_thread_count' >= 0
    BY <1>2 DEF Free, WakeFirst, waitVars, TypeOK
  <2> QED BY <2>1 DEF SleepersListed, PendingIsCounted, NoLostWakeup
<1>3. CASE suspend_thread # <<>>
  <2> DEFINE h == Head(suspend_thread)
  <2>1. suspend_thread_count > 0
    BY <1>3 DEF PendingIsCounted, TypeOK
  <2>2. /\ error' = [error EXCEPT ![h] = "EOK"]
        /\ pc' = [pc EXCEPT ![h] = "resumed"]
        /\ suspend_thread' = Tail(suspend_thread)
        /\ suspend_thread_count' = suspend_thread_count - 1
    BY <1>3, <2>1 DEF Free, WakeFirst
  <2>3. /\ Len(suspend_thread) \in Nat /\ Len(suspend_thread) > 0
        /\ h = suspend_thread[1] /\ h \in Threads
        /\ Len(suspend_thread') = Len(suspend_thread) - 1
        /\ \A i \in 1 .. Len(suspend_thread) - 1 :
              suspend_thread'[i] = suspend_thread[i + 1]
    BY <1>3, <2>2 DEF TypeOK
  <2> HIDE DEF h
  <2>4. \A i \in 1 .. Len(suspend_thread) : suspend_thread[i] \in Threads
    BY DEF TypeOK
  <2>5. ASSUME NEW i \in 1 .. Len(suspend_thread')
        PROVE  pc'[suspend_thread'[i]] = "asleep"
    <3>1. i + 1 \in 1 .. Len(suspend_thread)
      BY <2>3
    <3>2. /\ suspend_thread[i + 1] # h /\ suspend_thread[i + 1] \in Threads
          /\ pc[suspend_thread[i + 1]] = "asleep"
      BY <2>3, <2>4, <3>1 DEF SleepersListed
    <3> QED BY <2>2, <2>3, <3>2 DEF TypeOK
  <2>6. ASSUME NEW i \in 1 .. Len(suspend_thread'),
               NEW j \in 1 .. Len(suspend_thread'),
               suspend_thread'[i] = suspend_thread'[j]
        PROVE  i = j
    <3>1. i + 1 \in 1 .. Len(suspend_thread) /\ j + 1 \in 1 .. Len(suspend_thread)
      BY <2>3
    <3>2. i + 1 = j + 1
      BY <2>3, <2>6, <3>1 DEF SleepersListed
    <3> QED BY <3>2
  <2>7. PendingIsCounted'
    BY <2>2, <2>3 DEF PendingIsCounted, TypeOK
  <2>8. NoLostWakeup'
    <3>1. pc[h] = "asleep"
      BY <2>3 DEF SleepersListed
    <3>2. OnTheirWay' = OnTheirWay \cup {h} /\ h \notin OnTheirWay
      BY <2>2, <2>3, <3>1 DEF OnTheirWay, TypeOK
    <3>3. IsFiniteSet(OnTheirWay) /\ Cardinality(OnTheirWay) \in Nat
      BY WayFinite DEF OnTheirWay
    <3>4. Cardinality(OnTheirWay') = Cardinality(OnTheirWay) + 1
      BY <3>2, <3>3, FS_AddElement
    <3>5. Cardinality(OnTheirWay) >= block_free_count
      BY <1>3 DEF NoLostWakeup, OnTheirWay
    <3>6. Cardinality(OnTheirWay') >= block_free_count'
      BY <1>1, <3>3, <3>4, <3>5 DEF TypeOK
    <3> QED BY <3>6 DEF NoLostWakeup, OnTheirWay
  <2>9. SleepersListed'
    BY <2>5, <2>6 DEF SleepersListed
  <2> QED BY <2>7, <2>8, <2>9
<1> QED BY <1>2, <1>3

LEMMA StepWait == WaitInv /\ PoolInv /\ PoolInv' /\ [Next]_vars => WaitInv'
<1> SUFFICES ASSUME WaitInv, PoolInv, PoolInv', [Next]_vars PROVE WaitInv'
  OBVIOUS
<1>0. TypeOK'
  BY DEF PoolInv
<1>1. ASSUME NEW t \in Threads, NEW w \in Waits, Alloc(t, w) PROVE WaitInv'
  BY <1>0, <1>1, AllocPassWait DEF Alloc, WaitInv
<1>2. ASSUME NEW t \in Threads, AllocResumed(t) PROVE WaitInv'
  <2>1. pc[t] # "asleep"
    BY <1>2 DEF AllocResumed
  <2>2. CASE error[t] # "EOK"
    <3>1. /\ pc' = [pc EXCEPT ![t] = "caller"]
          /\ block_free_count' = block_free_count /\ UNCHANGED <<waitVars, error>>
      BY <1>2, <2>2 DEF AllocResumed, poolVars
    <3> QED BY <1>0, <2>1, <2>2, <3>1, ReturnWait DEF WaitInv
  <2>3. CASE error[t] = "EOK"
    BY <1>0, <1>2, <2>1, <2>3, AllocPassWait DEF AllocResumed, WaitInv
  <2> QED BY <2>2, <2>3
<1>3. ASSUME NEW t \in Threads, Timeout(t) PROVE WaitInv'
  BY <1>0, <1>3, TimeoutWait DEF WaitInv
<1>4. ASSUME NEW b \in Blocks, Free(b) PROVE WaitInv'
  BY <1>0, <1>4, FreeWait DEF WaitInv
<1>5. CASE UNCHANGED vars
  BY <1>0, <1>5 DEF vars, poolVars, waitVars, WaitInv, SleepersListed,
                    PendingIsCounted, NoLostWakeup
<1> QED BY <1>1, <1>2, <1>3, <1>4, <1>5 DEF Next

LEMMA WaitInvariance == Spec => []WaitInv
<1>1. Init => WaitInv
  <2> SUFFICES ASSUME Init PROVE WaitInv
    OBVIOUS
  <2>1. TypeOK
    BY InitInv DEF PoolInv
  <2>2. suspend_thread = <<>> /\ suspend_thread_count = 0
    BY DEF Init
  <2> QED BY <2>1, <2>2 DEF WaitInv, SleepersListed, PendingIsCounted,
                            NoLostWakeup
<1> QED BY <1>1, StepWait, PoolInvariance, PTL DEF Spec

\* However the pool is used, suspend_thread_count never runs below the
\* waiters there are (mempool.c:369, 438, thread.c:728).
THEOREM PoolPendingCounted == Spec => []PendingIsCounted
<1>1. WaitInv => PendingIsCounted
  BY DEF WaitInv
<1> QED BY <1>1, WaitInvariance, PTL

\* While a thread sleeps on the pool every free block has a woken thread on its
\* way to it (mempool.c:438-458), for any number of blocks and threads.
THEOREM PoolNoLostWakeup == Spec => []NoLostWakeup
<1>1. WaitInv => NoLostWakeup
  BY DEF WaitInv
<1> QED BY <1>1, WaitInvariance, PTL
=============================================================================
