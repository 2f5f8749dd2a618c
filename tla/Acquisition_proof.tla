-------------------------- MODULE Acquisition_proof --------------------------
(***************************************************************************)
(* What is proved of module Acquisition, in two parts.                     *)
(*                                                                         *)
(* For all constants: PoolInv, that a slot number is a slot wherever it is *)
(* used for one and that no block is in two places, is inductive; hence    *)
(* TemBlockNotShared.                                                      *)
(*                                                                         *)
(* Until the pools are used up (EarlyBounds): EarlyInv is inductive.  Its  *)
(* parts follow a sample through the program: the queues hold the samples  *)
(* not read yet (QueuesInv), the samples read fill the slots in order      *)
(* (SlotsInv, TemInv, HumInv, TemData, HumData), and each announcement     *)
(* becomes a message and then a file, in order, or is lost when the        *)
(* rt_event_recv that took it fails (MessagesInv, FileInv).  The part that *)
(* is about time is TimelyInv: while an announcement is on its way         *)
(* recevDHT11 does not get as far as the next one, because either          *)
(* lcd_show, whose priority is higher, lets it do nothing, or a key's      *)
(* delay_ms has put lcd_show to sleep, which lasts MaxBacklog + 2 samples  *)
(* at most for each key press.                                             *)
(***************************************************************************)
EXTENDS Acquisition, FiniteSetTheorems, TLAPS

(* Block bookkeeping, for all constants. *)

\* No block is on a free list twice, in two slots, or on the list and in a slot.
Exclusive(free, slot, freed) ==
    /\ \A k, l \in 1 .. Len(free) : free[k] = free[l] => k = l
    /\ \A s, t \in Slots \ freed : slot[s] = slot[t] /\ slot[s] # Null => s = t
    /\ \A k \in 1 .. Len(free), s \in Slots \ freed : free[k] # slot[s]

LEMMA Numbers ==
  /\ {SLOTS, BLOCKS, mem_slice, MSGS, LCDMSGS} \subseteq Nat \ {0}
  /\ SLOTS \in Nat \ {0} /\ BLOCKS \in Nat \ {0} /\ mem_slice \in Nat \ {0}
  /\ MSGS \in Nat /\ LCDMSGS \in Nat
  /\ MaxSamples \in Nat /\ MaxBacklog \in Nat /\ MaxKeys \in Nat
  /\ Null \notin Blocks /\ Blocks \subseteq Nat /\ Slots \subseteq Nat
BY AcquisitionConstants DEF Blocks, Slots, Null

LEMMA ExclusiveTake ==
  ASSUME NEW free \in Seq(Blocks), free # <<>>,
         NEW slot \in [Slots -> Blocks \cup {Null}], NEW freed,
         Exclusive(free, slot, freed), NEW s \in Slots,
         NEW f, f = Tail(free), NEW g, g = [slot EXCEPT ![s] = Head(free)]
  PROVE  /\ Exclusive(f, g, freed)
         /\ f \in Seq(Blocks) /\ Head(free) \in Blocks
         /\ Len(f) = Len(free) - 1
         /\ g \in [Slots -> Blocks \cup {Null}]
<1>1. /\ f \in Seq(Blocks) /\ Len(f) = Len(free) - 1 /\ Len(free) \in Nat \ {0}
      /\ Head(free) = free[1] /\ free[1] \in Blocks
      /\ \A k \in 1 .. Len(f) : f[k] = free[k + 1] /\ k + 1 \in 1 .. Len(free)
  OBVIOUS
<1>2. g[s] = free[1] /\ \A t \in Slots \ {s} : g[t] = slot[t]
  BY <1>1
<1>3. 1 \in 1 .. Len(free) /\ \A t \in Slots \ freed : free[1] # slot[t]
  BY <1>1 DEF Exclusive
<1>4. \A k, l \in 1 .. Len(f) : f[k] = f[l] => k = l
  <2> SUFFICES ASSUME NEW k \in 1 .. Len(f), NEW l \in 1 .. Len(f), f[k] = f[l]
               PROVE  k = l
    OBVIOUS
  <2>1. k + 1 = l + 1
    BY <1>1 DEF Exclusive
  <2> QED BY <2>1
<1>5. \A t, u \in Slots \ freed : g[t] = g[u] /\ g[t] # Null => t = u
  BY <1>2, <1>3 DEF Exclusive
<1>6. \A k \in 1 .. Len(f), t \in Slots \ freed : f[k] # g[t]
  <2> SUFFICES ASSUME NEW k \in 1 .. Len(f), NEW t \in Slots \ freed
               PROVE  f[k] # g[t]
    OBVIOUS
  <2>1. k + 1 # 1 /\ k + 1 \in 1 .. Len(free) /\ f[k] = free[k + 1]
    BY <1>1
  <2>2. free[k + 1] # free[1]
    BY <1>3, <2>1 DEF Exclusive
  <2> QED BY <1>2, <2>1, <2>2 DEF Exclusive
<1>7. Exclusive(f, g, freed)
  BY <1>4, <1>5, <1>6 DEF Exclusive
<1>8. g \in [Slots -> Blocks \cup {Null}]
  BY <1>1
<1> QED BY <1>1, <1>7, <1>8

LEMMA ExclusiveGive ==
  ASSUME NEW free \in Seq(Blocks),
         NEW slot \in [Slots -> Blocks \cup {Null}], NEW freed,
         Exclusive(free, slot, freed), NEW s \in Slots \ freed, slot[s] # Null,
         NEW f, f = <<slot[s]>> \o free
  PROVE  /\ Exclusive(f, slot, freed \cup {s})
         /\ f \in Seq(Blocks) /\ Len(f) = Len(free) + 1
<1> DEFINE b == slot[s]
<1>1. b \in Blocks /\ b # Null
  OBVIOUS
<1>2. /\ f \in Seq(Blocks) /\ Len(f) = Len(free) + 1 /\ f[1] = b
      /\ \A k \in 2 .. Len(f) : f[k] = free[k - 1] /\ k - 1 \in 1 .. Len(free)
  BY <1>1
<1> HIDE DEF b
<1>3. \A k \in 1 .. Len(f) : k # 1 => k \in 2 .. Len(f)
  BY <1>2
<1>4. \A k \in 1 .. Len(free) : free[k] # b
  BY DEF Exclusive, b
<1>5. \A k, l \in 1 .. Len(f) : f[k] = f[l] => k = l
  <2> SUFFICES ASSUME NEW k \in 1 .. Len(f), NEW l \in 1 .. Len(f), f[k] = f[l]
               PROVE  k = l
    OBVIOUS
  <2>1. CASE k = 1 \/ l = 1
    BY <1>2, <1>3, <1>4, <2>1
  <2>2. CASE k # 1 /\ l # 1
    <3>1. k - 1 = l - 1
      <4>1. /\ f[k] = free[k - 1] /\ k - 1 \in 1 .. Len(free)
            /\ f[l] = free[l - 1] /\ l - 1 \in 1 .. Len(free)
        BY <1>2, <1>3, <2>2
      <4> QED BY <4>1 DEF Exclusive
    <3> QED BY <3>1
  <2> QED BY <2>1, <2>2
<1>6. \A k \in 1 .. Len(f), t \in Slots \ (freed \cup {s}) : f[k] # slot[t]
  <2> SUFFICES ASSUME NEW k \in 1 .. Len(f), NEW t \in Slots \ (freed \cup {s})
               PROVE  f[k] # slot[t]
    OBVIOUS
  <2>1. CASE k = 1
    BY <1>1, <1>2, <2>1 DEF Exclusive, b
  <2>2. CASE k # 1
    <3>1. f[k] = free[k - 1] /\ k - 1 \in 1 .. Len(free) /\ t \in Slots \ freed
      BY <1>2, <1>3, <2>2
    <3> QED BY <3>1 DEF Exclusive
  <2> QED BY <2>1, <2>2
<1>7. Exclusive(f, slot, freed \cup {s})
  BY <1>5, <1>6 DEF Exclusive
<1> QED BY <1>2, <1>7

LEMMA ExclusiveClear ==
  ASSUME NEW free \in Seq(Blocks), NEW slot \in [Slots -> Blocks \cup {Null}],
         NEW freed, NEW s \in Slots, freed \subseteq {s}, Exclusive(free, slot, freed),
         NEW g, g = [slot EXCEPT ![s] = Null]
  PROVE  Exclusive(free, g, {}) /\ g \in [Slots -> Blocks \cup {Null}]
<1>1. /\ g \in [Slots -> Blocks \cup {Null}] /\ g[s] = Null
      /\ \A t \in Slots \ {s} : g[t] = slot[t] /\ t \notin freed
  OBVIOUS
<1>2. \A k \in 1 .. Len(free) : free[k] # Null
  <2>1. \A k \in 1 .. Len(free) : free[k] \in Blocks
    OBVIOUS
  <2> QED BY <2>1, Numbers
<1>3. Exclusive(free, g, {})
  BY <1>1, <1>2 DEF Exclusive
<1> QED BY <1>1, <1>3

\* A slot that is given nothing.
LEMMA ExclusiveForget ==
  ASSUME NEW free \in Seq(Blocks), NEW slot \in [Slots -> Blocks \cup {Null}],
         NEW freed, NEW s \in Slots, Exclusive(free, slot, freed),
         NEW g, g = [slot EXCEPT ![s] = Null]
  PROVE  Exclusive(free, g, freed) /\ g \in [Slots -> Blocks \cup {Null}]
<1>1. /\ g \in [Slots -> Blocks \cup {Null}] /\ g[s] = Null
      /\ \A t \in Slots \ {s} : g[t] = slot[t]
  OBVIOUS
<1>2. \A k \in 1 .. Len(free) : free[k] # Null
  <2>1. \A k \in 1 .. Len(free) : free[k] \in Blocks
    OBVIOUS
  <2> QED BY <2>1, Numbers
<1>3. Exclusive(free, g, freed)
  BY <1>1, <1>2 DEF Exclusive
<1> QED BY <1>1, <1>3

LEMMA AtMostOne ==
  ASSUME NEW S, \A x, y \in S : x = y
  PROVE  IsFiniteSet(S) /\ Cardinality(S) \in {0, 1} /\ (Cardinality(S) = 0 <=> S = {})
<1>1. CASE S = {}
  BY <1>1, FS_EmptySet
<1>2. CASE S # {}
  <2>1. PICK x \in S : S = {x}
    BY <1>2
  <2>2. IsFiniteSet({x}) /\ Cardinality({x}) = 1
    BY FS_Singleton
  <2> QED BY <1>2, <2>1, <2>2
<1> QED BY <1>1, <1>2

\* A block that is exclusive has at most one place, and none only if it is
\* neither on the list nor in a slot.
LEMMA PlacesOf ==
  ASSUME NEW free, NEW slot, NEW freed, Exclusive(free, slot, freed), NEW b \in Blocks
  PROVE  /\ Places(b, free, slot, freed) \in {0, 1}
         /\ Places(b, free, slot, freed) = 0
                <=> /\ \A k \in 1 .. Len(free) : free[k] # b
                    /\ \A s \in Slots \ freed : slot[s] # b
<1> DEFINE K == {k \in 1 .. Len(free) : free[k] = b}
           T == {s \in Slots : slot[s] = b /\ s \notin freed}
<1>1. \A x, y \in K : x = y
  BY DEF Exclusive
<1>2. \A x, y \in T : x = y
  BY DEF Exclusive, Blocks, Null
<1>3. K = {} \/ T = {}
  BY DEF Exclusive
<1>4. /\ K = {} <=> \A k \in 1 .. Len(free) : free[k] # b
      /\ T = {} <=> \A s \in Slots \ freed : slot[s] # b
  OBVIOUS
<1>5. Places(b, free, slot, freed) = Cardinality(K) + Cardinality(T)
  BY DEF Places
<1> HIDE DEF K, T
<1>6. /\ Cardinality(K) \in {0, 1} /\ (Cardinality(K) = 0 <=> K = {})
      /\ Cardinality(T) \in {0, 1} /\ (Cardinality(T) = 0 <=> T = {})
  BY <1>1, <1>2, AtMostOne
<1>7. /\ Cardinality(K) + Cardinality(T) \in {0, 1}
      /\ Cardinality(K) + Cardinality(T) = 0 <=> K = {} /\ T = {}
  BY <1>3, <1>6
<1> QED BY <1>4, <1>5, <1>7
-----------------------------------------------------------------------------
RecevStates == {"hum", "alloc_hum", "store_hum", "tem", "alloc_tem", "send_tem",
                "next_tem", "store_tem"}

\* A slot number is in range wherever it is used for a slot.
SlotTypes ==
    /\ i \in Nat /\ j \in Nat
    /\ recev \in RecevStates
    /\ recev \notin {"store_tem", "hum"} => i \in Slots
    /\ recev = "alloc_hum" => j \in Slots
    /\ release \in {"recv", "rows", "clear"}
    /\ index \in Slots /\ mq_tem_memlcd \in Seq(Slots) /\ buf \in Slots

PoolTypes ==
    /\ tem_mp \in Seq(Blocks) /\ hum_mp \in Seq(Blocks)
    /\ ptr \in [Slots -> Blocks \cup {Null}] /\ ptr2 \in [Slots -> Blocks \cup {Null}]

PoolInv ==
    /\ SlotTypes /\ PoolTypes
    /\ Exclusive(tem_mp, ptr, Freed)
    /\ Exclusive(hum_mp, ptr2, {})

LEMMA ModSlots == \A x \in Nat : x % SLOTS \in Slots
BY Numbers DEF Slots

LEMMA InitPool == Init => PoolInv
<1> SUFFICES ASSUME Init PROVE PoolInv
  OBVIOUS
<1> USE Numbers DEF Init
<1>1. SlotTypes
  BY DEF SlotTypes, RecevStates, Slots
<1>2. PoolTypes
  <2>1. [b \in Blocks |-> b] \in Seq(Blocks)
    BY DEF Blocks
  <2> QED BY <2>1 DEF PoolTypes
<1>3. Len(tem_mp) = BLOCKS /\ \A k \in 1 .. BLOCKS : tem_mp[k] = k /\ k # Null
  BY DEF Blocks, Null
<1>4. Len(hum_mp) = BLOCKS /\ \A k \in 1 .. BLOCKS : hum_mp[k] = k /\ k # Null
  BY DEF Blocks, Null
<1>5. \A s \in Slots : ptr[s] = Null /\ ptr2[s] = Null
  OBVIOUS
<1>6. Exclusive(tem_mp, ptr, Freed) /\ Exclusive(hum_mp, ptr2, {})
  BY <1>3, <1>4, <1>5 DEF Exclusive
<1> QED BY <1>1, <1>2, <1>6 DEF PoolInv

\* The slots and blocks are as they were.
LEMMA PoolKept ==
  PoolInv /\ UNCHANGED <<tem_mp, hum_mp, ptr, ptr2>> /\ Freed' = Freed /\ SlotTypes'
      => PoolInv'
BY DEF PoolInv, PoolTypes

\* The steps of lcd_show that send no message.
LcdWaits == LcdCall \/ LcdRecv \/ LcdSleep \/ LcdReturn \/ LcdMenu

LEMMA OthersPool ==
  ASSUME PoolInv, timeout1 \/ Key \/ Naps \/ LcdWaits \/ RelRow
  PROVE  PoolInv'
<1>1. UNCHANGED <<i, j, recev, release, index, mq_tem_memlcd, buf,
                  tem_mp, hum_mp, ptr, ptr2>>
  <2>1. CASE timeout1
    BY <2>1 DEF timeout1, locals, store, lcdVars, relVars
  <2>2. CASE Key
    BY <2>2 DEF Key, locals, store, relVars
  <2>3. CASE Naps
    BY <2>3 DEF Naps, NapEnds, locals, store, relVars
  <2>4. CASE LcdWaits
    BY <2>4 DEF LcdWaits, LcdCall, LcdRecv, LcdSleep, LcdReturn, LcdMenu, locals, store, relVars
  <2>5. CASE RelRow
    BY <2>5 DEF RelRow, locals, store, lcdVars
  <2> QED BY <2>1, <2>2, <2>3, <2>4, <2>5
<1>2. SlotTypes'
  BY <1>1 DEF PoolInv, SlotTypes
<1>3. Freed' = Freed
  BY <1>1 DEF Freed
<1> QED BY <1>1, <1>2, <1>3, PoolKept

\* The steps of recevDHT11 that take no block.
LEMMA RecevPool ==
  ASSUME PoolInv, RecvHum \/ StoreHum \/ RecvTem \/ SendTem \/ NextTem \/ StoreTem
  PROVE  PoolInv'
<1>1. UNCHANGED <<release, index, mq_tem_memlcd, buf, tem_mp, hum_mp, ptr, ptr2>>
  <2>1. CASE RecvHum
    BY <2>1 DEF RecvHum, store, lcdVars, relVars
  <2>2. CASE StoreHum
    BY <2>2 DEF StoreHum, lcdVars, relVars
  <2>3. CASE RecvTem
    BY <2>3 DEF RecvTem, store, lcdVars, relVars
  <2>4. CASE SendTem
    BY <2>4 DEF SendTem, store, relVars
  <2>5. CASE NextTem
    BY <2>5 DEF NextTem, store, lcdVars, relVars
  <2>6. CASE StoreTem
    BY <2>6 DEF StoreTem, lcdVars, relVars
  <2> QED BY <2>1, <2>2, <2>3, <2>4, <2>5, <2>6
<1>2. /\ i' \in Nat /\ j' \in Nat /\ recev' \in RecevStates
      /\ recev' \notin {"store_tem", "hum"} => i' \in Slots
      /\ recev' = "alloc_hum" => j' \in Slots
  <2> USE DEF PoolInv, SlotTypes, RecevStates
  <2>1. CASE RecvHum
    <3>1. i' \in Slots /\ j' \in Slots
      BY <2>1, ModSlots DEF RecvHum
    <3>2. recev' \in {"tem", "alloc_hum", "store_hum"}
      BY <2>1 DEF RecvHum
    <3> QED BY <3>1, <3>2, Numbers
  <2>2. CASE StoreHum
    BY <2>2 DEF StoreHum
  <2>3. CASE RecvTem
    BY <2>3 DEF RecvTem, locals
  <2>4. CASE SendTem
    BY <2>4 DEF SendTem, locals
  <2>5. CASE NextTem
    BY <2>5 DEF NextTem
  <2>6. CASE StoreTem
    BY <2>6 DEF StoreTem
  <2> QED BY <2>1, <2>2, <2>3, <2>4, <2>5, <2>6
<1>3. SlotTypes'
  BY <1>1, <1>2 DEF PoolInv, SlotTypes
<1>4. Freed' = Freed
  BY <1>1 DEF Freed
<1> QED BY <1>1, <1>3, <1>4, PoolKept

LEMMA AllocHumPool == ASSUME PoolInv, AllocHum PROVE PoolInv'
<1>1. /\ recev' = "store_hum" /\ UNCHANGED <<i, release, mq_tem_memlcd, buf, tem_mp, ptr>>
      /\ j \in Slots /\ index' \in {index, j} /\ j' \in {j, j + 1}
  BY DEF AllocHum, PoolInv, SlotTypes, relVars, lcdVars
<1>2. SlotTypes'
  <2>1. /\ j' \in Nat /\ index' \in Slots /\ i \in Nat /\ i \in Slots
        /\ recev = "alloc_hum"
    BY <1>1, Numbers DEF PoolInv, SlotTypes, AllocHum
  <2> QED BY <1>1, <2>1 DEF PoolInv, SlotTypes, RecevStates
<1>3. Freed' = Freed
  BY <1>1 DEF Freed
<1>4. /\ Exclusive(hum_mp, ptr2, {}) /\ hum_mp \in Seq(Blocks)
      /\ ptr2 \in [Slots -> Blocks \cup {Null}]
  BY DEF PoolInv, PoolTypes
<1>5. Exclusive(hum_mp', ptr2', {}) /\ hum_mp' \in Seq(Blocks)
      /\ ptr2' \in [Slots -> Blocks \cup {Null}]
  <2>1. CASE hum_mp # <<>>
    <3>1. hum_mp' = Tail(hum_mp) /\ ptr2' = [ptr2 EXCEPT ![j] = Head(hum_mp)]
      BY <2>1 DEF AllocHum
    <3> QED BY <1>1, <1>4, <2>1, <3>1, ExclusiveTake
  <2>2. CASE hum_mp = <<>>
    <3>1. hum_mp' = hum_mp /\ ptr2' = [ptr2 EXCEPT ![j] = Null]
      BY <2>2 DEF AllocHum
    <3> QED BY <1>1, <1>4, <3>1, ExclusiveForget
  <2> QED BY <2>1, <2>2
<1>6. UNCHANGED <<tem_mp, ptr>>
  BY <1>1
<1> QED BY <1>2, <1>3, <1>5, <1>6 DEF PoolInv, PoolTypes

LEMMA AllocTemPool == ASSUME PoolInv, AllocTem PROVE PoolInv'
<1>1. /\ recev' \in {"send_tem", "next_tem", "store_tem"} /\ i \in Slots
      /\ index' \in {index, i}
      /\ UNCHANGED <<i, j, release, mq_tem_memlcd, buf, hum_mp, ptr2>>
  BY DEF AllocTem, PoolInv, SlotTypes, relVars, lcdVars, locals
<1>2. SlotTypes'
  BY <1>1, Numbers DEF PoolInv, SlotTypes, RecevStates
<1>3. Freed' = Freed
  BY <1>1 DEF Freed
<1>4. /\ Exclusive(tem_mp, ptr, Freed) /\ tem_mp \in Seq(Blocks)
      /\ ptr \in [Slots -> Blocks \cup {Null}]
  BY DEF PoolInv, PoolTypes
<1>5. Exclusive(tem_mp', ptr', Freed) /\ tem_mp' \in Seq(Blocks)
      /\ ptr' \in [Slots -> Blocks \cup {Null}]
  <2>1. CASE tem_mp # <<>>
    <3>1. tem_mp' = Tail(tem_mp) /\ ptr' = [ptr EXCEPT ![i] = Head(tem_mp)]
      BY <2>1 DEF AllocTem
    <3> QED BY <1>1, <1>4, <2>1, <3>1, ExclusiveTake
  <2>2. CASE tem_mp = <<>>
    <3>1. tem_mp' = tem_mp /\ ptr' = [ptr EXCEPT ![i] = Null]
      BY <2>2 DEF AllocTem
    <3> QED BY <1>1, <1>4, <3>1, ExclusiveForget
  <2> QED BY <2>1, <2>2
<1>6. UNCHANGED <<hum_mp, ptr2>>
  BY <1>1
<1> QED BY <1>2, <1>3, <1>5, <1>6 DEF PoolInv, PoolTypes

LEMMA LcdPassPool == ASSUME PoolInv, LcdPass PROVE PoolInv'
<1>1. /\ UNCHANGED <<i, j, recev, release, index, buf, tem_mp, hum_mp, ptr, ptr2>>
      /\ mq_tem_memlcd' = mq_tem_memlcd \/ mq_tem_memlcd' = Append(mq_tem_memlcd, index)
  BY DEF LcdPass, Sent, locals, store, relVars
<1>2. SlotTypes'
  BY <1>1 DEF PoolInv, SlotTypes
<1>3. Freed' = Freed
  BY <1>1 DEF Freed
<1> QED BY <1>1, <1>2, <1>3, PoolKept

LEMMA RelRecvPool == ASSUME PoolInv, RelRecv PROVE PoolInv'
<1>1. /\ UNCHANGED <<i, j, recev, index, tem_mp, hum_mp, ptr, ptr2>>
      /\ release = "recv" /\ release' \in {"recv", "rows"}
      /\ mq_tem_memlcd # <<>> /\ mq_tem_memlcd' = Tail(mq_tem_memlcd)
      /\ \/ buf' = 0
         \/ Head(mq_tem_memlcd) >= 1 /\ buf' = Head(mq_tem_memlcd) - 1
  BY DEF RelRecv, locals, store
<1>2. Head(mq_tem_memlcd) \in Slots /\ Tail(mq_tem_memlcd) \in Seq(Slots)
  BY <1>1 DEF PoolInv, SlotTypes
<1>3. buf' \in Slots
  BY <1>1, <1>2, Numbers DEF Slots
<1>4. SlotTypes'
  BY <1>1, <1>2, <1>3 DEF PoolInv, SlotTypes
<1>5. Freed' = Freed
  BY <1>1 DEF Freed
<1> QED BY <1>1, <1>4, <1>5, PoolKept

LEMMA RelFreePool == ASSUME PoolInv, RelFree PROVE PoolInv'
<1>1. /\ UNCHANGED <<i, j, recev, index, mq_tem_memlcd, buf, hum_mp, ptr, ptr2>>
      /\ release = "rows" /\ release' = "clear" /\ buf \in Slots
  BY DEF RelFree, locals, lcdVars, PoolInv, SlotTypes
<1>2. SlotTypes'
  BY <1>1 DEF PoolInv, SlotTypes
<1>3. Freed = {} /\ Freed' = {buf}
  BY <1>1 DEF Freed
<1>4. Exclusive(tem_mp, ptr, {}) /\ tem_mp \in Seq(Blocks) /\ ptr \in [Slots -> Blocks \cup {Null}]
  BY <1>3 DEF PoolInv, PoolTypes
<1>5. Exclusive(tem_mp', ptr, {buf}) /\ tem_mp' \in Seq(Blocks)
  <2>1. CASE ptr[buf] # Null
    <3>1. tem_mp' = <<ptr[buf]>> \o tem_mp /\ {} \cup {buf} = {buf} /\ buf \in Slots \ {}
      BY <1>1, <2>1 DEF RelFree
    <3>2. Exclusive(tem_mp', ptr, {} \cup {buf}) /\ tem_mp' \in Seq(Blocks)
      BY <1>4, <2>1, <3>1, ExclusiveGive
    <3> QED BY <3>1, <3>2
  <2>2. CASE ptr[buf] = Null
    <3>1. tem_mp' = tem_mp
      BY <2>2 DEF RelFree
    <3> QED BY <1>4, <3>1 DEF Exclusive
  <2> QED BY <2>1, <2>2
<1> QED BY <1>1, <1>2, <1>3, <1>5 DEF PoolInv, PoolTypes

LEMMA RelClearPool == ASSUME PoolInv, RelClear PROVE PoolInv'
<1>1. /\ UNCHANGED <<i, j, recev, index, mq_tem_memlcd, buf, hum_mp, tem_mp>>
      /\ release = "clear" /\ release' = "recv" /\ buf \in Slots
      /\ ptr' = [ptr EXCEPT ![buf] = Null] /\ ptr2' = [ptr2 EXCEPT ![buf] = Null]
  BY DEF RelClear, locals, lcdVars, PoolInv, SlotTypes
<1>2. SlotTypes'
  BY <1>1 DEF PoolInv, SlotTypes
<1>3. Freed = {buf} /\ Freed' = {}
  BY <1>1 DEF Freed
<1>4. Exclusive(tem_mp, ptr', {}) /\ ptr' \in [Slots -> Blocks \cup {Null}]
  BY <1>1, <1>3, ExclusiveClear DEF PoolInv, PoolTypes
<1>5. Exclusive(hum_mp, ptr2', {}) /\ ptr2' \in [Slots -> Blocks \cup {Null}]
  BY <1>1, ExclusiveForget DEF PoolInv, PoolTypes
<1> QED BY <1>1, <1>2, <1>3, <1>4, <1>5 DEF PoolInv, PoolTypes

LEMMA StepPool == PoolInv /\ [Next]_vars => PoolInv'
<1> SUFFICES ASSUME PoolInv, [Next]_vars PROVE PoolInv'
  OBVIOUS
<1>1. CASE UNCHANGED vars
  <2>1. UNCHANGED <<i, j, recev, release, index, mq_tem_memlcd, buf,
                    tem_mp, hum_mp, ptr, ptr2>>
    BY <1>1 DEF vars, locals, store, lcdVars, relVars
  <2>2. SlotTypes' /\ Freed' = Freed
    BY <2>1 DEF PoolInv, SlotTypes, Freed
  <2> QED BY <2>1, <2>2, PoolKept
<1>2. CASE RecevStep
  BY <1>2, RecevPool, AllocHumPool, AllocTemPool DEF RecevStep
<1>3. CASE LcdStep
  BY <1>3, OthersPool, LcdPassPool DEF LcdStep, LcdWaits
<1>4. CASE RelStep
  BY <1>4, OthersPool, RelRecvPool, RelFreePool, RelClearPool DEF RelStep
<1> QED BY <1>1, <1>2, <1>3, <1>4, OthersPool DEF Next

THEOREM PoolInvariance == Spec => []PoolInv
<1> QED BY InitPool, StepPool, PTL DEF Spec

\* Whatever the number of slots and blocks, however slots wrap, pools run dry or
\* the threads are delayed: no temperature block is in use twice, or in use and
\* free (main.c:238, 391).
THEOREM TemBlocksApart == Spec => []TemBlockNotShared
<1>1. PoolInv => TemBlockNotShared
  BY PlacesOf DEF PoolInv, TemBlockNotShared
<1> QED BY <1>1, PoolInvariance, PTL
-----------------------------------------------------------------------------
(* Until the pools are used up *)

\* As many samples as the humidity pool has room for: 32 blocks of 25 in the
\* program, where there are 48 slots and queues of 128 and 32 messages.  With a
\* backlog of one sample that allows eight key presses; menu 4 stays closed.
EarlyBounds ==
    /\ BLOCKS < SLOTS
    /\ MaxSamples <= BLOCKS * mem_slice
    /\ MSGS >= MaxBacklog + 2
    /\ LCDMSGS >= BLOCKS
    /\ mem_slice > (MaxBacklog + 2) * MaxKeys
    /\ ~ WaveMenu

\* The samples before slot s.
Start(s) == s * mem_slice
\* The samples k key presses may delay lcd_show by.
Slack(k) == (MaxBacklog + 2) * k

\* Where recevDHT11 has read a sample it has not counted yet, and the samples
\* it has read from each queue.
InTem == recev \in {"alloc_tem", "send_tem", "next_tem", "store_tem"}
InHum == recev \in {"alloc_hum", "store_hum"}
TemRead == IF InTem THEN cnt + 1 ELSE cnt
HumRead == IF InHum THEN cnt2 + 1 ELSE cnt2

\* The slots given a block so far.
TemSlots == IF recev \in {"send_tem", "next_tem"} THEN i + 1 ELSE i
\* The blocks announced so far, in each pool.
TemDone == IF TemSlots = 0 THEN 0 ELSE TemSlots - 1
HumDone == IF j = 0 THEN 0 ELSE j - 1

\* An announcement in the event object, and one lcd_show has received.
Pending == FLAG2 \in memlcd_data_event
Passing == FLAG2 \in lcd_buf /\ lcd \in {"taken", "menu", "drawn"}
\* The announcements on their way, and those that are through with lcd_show.
InFlight == IF recev = "send_tem" \/ Pending \/ Passing THEN 1 ELSE 0
Handed == TemDone - InFlight
\* The slots that have been saved and emptied.
SavedSlots == {s \in Slots : Saved(s + 1)}

Types ==
    /\ samples \in Nat /\ keys \in Nat /\ samples <= MaxSamples /\ keys <= MaxKeys
    /\ cnt \in Nat /\ cnt2 \in Nat /\ i \in Nat /\ j \in Nat
    /\ recev \in RecevStates /\ release \in {"recv", "rows", "clear"}
    /\ lcd \in {"loop", "called", "suspended", "asleep", "taken", "menu", "drawn"}
    /\ lcd_error \in BOOLEAN /\ ~ wave
    /\ memlcd_data_event \subseteq {FLAG2, FLAG6} /\ lcd_buf \subseteq {FLAG2, FLAG6}
    /\ index \in Nat /\ fault = "none"
    /\ nap \in [Nappers -> 0 .. 2]

\* The queue holds the samples up to n that have not been read.
Queued(q, read, n) ==
    /\ q \in Seq(Nat) /\ Len(q) = n - read
    /\ \A k \in 1 .. Len(q) : q[k] = read + k

\* The two queues are at most one sample apart.
QueuesInv ==
    /\ Queued(mq_DHT11_tem, TemRead, samples) /\ Queued(mq_DHT11_hum, HumRead, samples)
    /\ samples - TemRead <= MaxBacklog + 1
    /\ InTem => tem_get = TemRead
    /\ InHum => hum_get = HumRead
    /\ recev = "hum" \/ InTem => HumRead \in {TemRead - 1, TemRead}
    /\ recev = "tem" \/ InHum => HumRead \in {TemRead, TemRead + 1}

\* The last slot given a block is the one being filled.
SlotsInv ==
    /\ recev \in {"alloc_tem", "send_tem", "next_tem"} => cnt = Start(i)
    /\ recev \notin {"alloc_tem", "send_tem", "next_tem"} =>
           \/ i = 0 /\ TemRead = 0
           \/ i > 0 /\ Start(i - 1) < TemRead /\ TemRead <= Start(i)
    /\ recev = "alloc_hum" => cnt2 = Start(j)
    /\ recev # "alloc_hum" =>
           \/ j = 0 /\ HumRead = 0
           \/ j > 0 /\ Start(j - 1) < HumRead /\ HumRead <= Start(j)

\* What recevDHT11 may have read before lcd_show passes the announcement on.
Limit == Start(TemDone) + 1 + Slack(keys)

TimelyInv ==
    /\ nap[lcd_show] # 0 => keys >= 1
    /\ Pending \/ Passing =>
         /\ nap[lcd_show] = 0 => TemRead <= Limit /\ HumRead <= Limit
         /\ nap[lcd_show] # 0 => samples + 2 - nap[lcd_show] <= Limit

\* Who has an announcement: never two of them at once.  A wait that ended without
\* flags ended with an error.
Awakening ==
    /\ lcd \in {"suspended", "asleep"} => memlcd_data_event = {}
    /\ lcd \in {"menu", "drawn"} => lcd_buf # {}
    /\ lcd = "suspended" => nap[lcd_show] = 0 /\ lcd_buf = {}
    /\ lcd = "asleep" => lcd_buf = {}
    /\ lcd = "taken" /\ lcd_buf = {} => lcd_error \/ nap[lcd_show] # 0
    /\ recev = "send_tem" => ~ Pending /\ ~ Passing /\ i # 0
    /\ ~ (Pending /\ Passing)

\* The blocks 1 to n are those in files t, those in messages q and those in l;
\* files and messages are in order.
Ordered(t, q, l, n) ==
    /\ t \in Seq(Nat) /\ q \in Seq(Nat) /\ n \in Nat
    /\ Len(t) + Len(q) <= n
    /\ \A k \in 1 .. Len(t) : 1 <= t[k] /\ t[k] <= n
    /\ \A k \in 1 .. Len(q) : 1 <= q[k] /\ q[k] <= n
    /\ \A k, m \in 1 .. Len(t) : k < m => t[k] < t[m]
    /\ \A k, m \in 1 .. Len(q) : k < m => q[k] < q[m]
    /\ \A k \in 1 .. Len(t), m \in 1 .. Len(q) : t[k] < q[m]
    /\ \A b \in 1 .. n : b \in l <=> /\ \A k \in 1 .. Len(t) : t[k] # b
                                     /\ \A k \in 1 .. Len(q) : q[k] # b
    /\ l \subseteq 1 .. n

\* The announcements lcd_show is through with are lost, in messages or taken; index
\* is the newest announced in either pool.
MessagesInv ==
    /\ Awakening
    /\ Ordered(taken, mq_tem_memlcd, lost, Handed)
    /\ index >= TemDone /\ index >= HumDone /\ index \in {TemDone, HumDone}
    /\ InFlight = 1 => index = TemDone
    /\ release = "recv" => Len(taken) = Len(sd)
    /\ release # "recv" => Len(taken) = Len(sd) + 1 /\ buf = taken[Len(sd) + 1] - 1

\* The temperature blocks given back.
Held == IF release = "clear" THEN Len(sd) + 1 ELSE Len(sd)

\* The slots that have a temperature block are those up to the one being filled
\* that have not been saved; every block is in one of them or free.
TemInv ==
    /\ tem_mp \in Seq(Blocks) /\ ptr \in [Slots -> Blocks \cup {Null}]
    /\ \A s \in Slots : ptr[s] # Null <=> s \notin SavedSlots /\ s < TemSlots
    /\ Exclusive(tem_mp, ptr, Freed)
    /\ \A b \in Blocks : \/ \E k \in 1 .. Len(tem_mp) : tem_mp[k] = b
                         \/ \E s \in Slots \ Freed : ptr[s] = b
    /\ Len(tem_mp) + TemSlots = BLOCKS + Held

\* The same for humidity, except that the blocks of saved slots are lost.
HumInv ==
    /\ hum_mp \in Seq(Blocks) /\ ptr2 \in [Slots -> Blocks \cup {Null}]
    /\ \A s \in Slots : ptr2[s] # Null <=> s \notin SavedSlots /\ s < j
    /\ Exclusive(hum_mp, ptr2, {})
    /\ Len(hum_mp) + j = BLOCKS
    /\ HumBlocksLost

\* The first c samples, as far as slots in S are to keep them.
Keeps(pool, slot, S, c) ==
    \A s \in S, k \in Bytes :
        Start(s) + k < c => pool[slot[s]][k] = Start(s) + k + 1

TemLive == {s \in Slots : s \notin SavedSlots /\ s \notin Freed /\ s < TemSlots}
HumLive == {s \in Slots : s \notin SavedSlots /\ s < j}

TemData ==
    /\ temmempool \in [Blocks -> [Bytes -> Int]]
    /\ Keeps(temmempool, ptr, TemLive, cnt)

HumData ==
    /\ hummempool \in [Blocks -> [Bytes -> Int]]
    /\ Keeps(hummempool, ptr2, HumLive, cnt2)

Line == [tem : Int, hum : Int]

\* A file that is being written agrees with the samples of its block as far as it
\* goes, a file on the card all the way.
FileInv ==
    /\ sd \in Seq(Seq(Line)) /\ file \in Seq(Line)
    /\ release # "recv" =>
         /\ row \in 0 .. mem_slice /\ Len(file) = row
         /\ \A r \in 1 .. row : file[r] = [tem |-> Start(buf) + r, hum |-> Start(buf) + r]
    /\ release = "clear" => row = mem_slice
    /\ \A f \in 1 .. Len(sd), r \in 1 .. mem_slice :
          sd[f][r] = [tem |-> Start(taken[f] - 1) + r, hum |-> Start(taken[f] - 1) + r]

EarlyInv ==
    Types /\ QueuesInv /\ SlotsInv /\ TimelyInv /\ MessagesInv
        /\ TemInv /\ HumInv /\ TemData /\ HumData /\ FileInv
-----------------------------------------------------------------------------
LEMMA StartIs ==
  /\ Start(0) = 0
  /\ \A s \in Int : /\ Start(s) \in Int /\ Start(s + 1) = Start(s) + mem_slice
                    /\ Start(s - 1) = Start(s) - mem_slice
  /\ \A s \in Nat : Start(s) \in Nat
BY Numbers DEF Start

LEMMA StartGrows ==
  ASSUME NEW s \in Int, NEW t \in Int, s < t
  PROVE  Start(s) + mem_slice <= Start(t)
<1>1. t - s - 1 \in Nat /\ mem_slice \in Nat
  BY Numbers
<1>2. \A x, y \in Nat : x * y >= 0
  OBVIOUS
<1>3. (t - s - 1) * mem_slice >= 0
  BY <1>1, <1>2
<1>4. (t - s - 1) * mem_slice = t * mem_slice - s * mem_slice - mem_slice
  BY <1>1
<1> QED BY <1>1, <1>3, <1>4 DEF Start

\* The place of sample number c + 1 in its block.
LEMMA StartMod ==
  ASSUME NEW s \in Nat, NEW c \in Nat, Start(s) <= c, c < Start(s) + mem_slice
  PROVE  c % mem_slice = c - Start(s) /\ c % mem_slice \in Bytes
<1>1. mem_slice \in Nat \ {0} /\ Start(s) \in Nat
  BY Numbers, StartIs
<1> DEFINE q == c \div mem_slice
           r == c % mem_slice
<1>2. q \in Int /\ r \in 0 .. mem_slice - 1 /\ c = mem_slice * q + r
  BY <1>1
<1> HIDE DEF q, r
<1>3. Start(q) = mem_slice * q /\ Start(q) \in Int
  BY <1>1, <1>2 DEF Start
<1>4. ~ (q < s)
  BY <1>1, <1>2, <1>3, StartGrows
<1>5. ~ (s < q)
  BY <1>1, <1>2, <1>3, StartGrows
<1>6. q = s
  BY <1>2, <1>4, <1>5
<1> QED BY <1>1, <1>2, <1>3, <1>6 DEF r, Bytes

LEMMA SlackIs ==
  /\ Slack(0) = 0
  /\ \A k \in Nat : Slack(k) \in Nat /\ Slack(k + 1) = Slack(k) + MaxBacklog + 2
BY Numbers DEF Slack

LEMMA SlackBound ==
  ASSUME EarlyBounds, NEW k \in Nat, k <= MaxKeys
  PROVE  Slack(k) < mem_slice
<1>1. MaxKeys - k \in Nat /\ MaxBacklog + 2 \in Nat /\ mem_slice \in Nat
  BY Numbers
<1>2. \A x, y \in Nat : x * y >= 0
  OBVIOUS
<1>3. (MaxBacklog + 2) * (MaxKeys - k) >= 0
  BY <1>1, <1>2
<1>4. (MaxBacklog + 2) * (MaxKeys - k) = (MaxBacklog + 2) * MaxKeys - Slack(k)
  BY <1>1, Numbers DEF Slack
<1>5. (MaxBacklog + 2) * MaxKeys \in Int /\ Slack(k) \in Int
  BY Numbers DEF Slack
<1> QED BY <1>1, <1>3, <1>4, <1>5 DEF EarlyBounds

LEMMA MaxIsStart == EarlyBounds => MaxSamples <= Start(BLOCKS)
BY DEF EarlyBounds, Start

LEMMA Small == \A x \in Nat : x < SLOTS => x % SLOTS = x
BY Numbers

\* Numbers in order: files among each other, and before the messages.
LEMMA OrderedNumbers ==
  ASSUME NEW t, NEW q, NEW l, NEW n, Ordered(t, q, l, n)
  PROVE  /\ \A k \in 1 .. Len(t) : t[k] \in Nat
         /\ \A k \in 1 .. Len(q) : q[k] \in Nat
         /\ \A k, m \in 1 .. Len(t) : k < m => t[k] < t[m]
         /\ \A k \in 1 .. Len(t), m \in 1 .. Len(q) : t[k] < q[m]
<1>1. t \in Seq(Nat) /\ q \in Seq(Nat)
  BY DEF Ordered
<1>2. \A k \in 1 .. Len(t) : t[k] \in Nat
  BY ONLY <1>1
<1>3. \A k \in 1 .. Len(q) : q[k] \in Nat
  BY ONLY <1>1
<1>4. /\ \A k, m \in 1 .. Len(t) : k < m => t[k] < t[m]
      /\ \A k \in 1 .. Len(t), m \in 1 .. Len(q) : t[k] < q[m]
  BY DEF Ordered
<1> QED BY <1>2, <1>3, <1>4

\* The bounds of the three, with their types.
LEMMA OrderedTypes ==
  ASSUME NEW t, NEW q, NEW l, NEW n, Ordered(t, q, l, n)
  PROVE  /\ t \in Seq(Nat) /\ q \in Seq(Nat) /\ n \in Nat /\ Len(t) \in Nat /\ Len(q) \in Nat
         /\ Len(t) + Len(q) <= n /\ l \subseteq 1 .. n
         /\ \A k \in 1 .. Len(t) : 1 <= t[k] /\ t[k] <= n /\ t[k] \in Nat
         /\ \A k \in 1 .. Len(q) : 1 <= q[k] /\ q[k] <= n /\ q[k] \in Nat
<1>1. /\ t \in Seq(Nat) /\ q \in Seq(Nat) /\ n \in Nat
      /\ Len(t) + Len(q) <= n /\ l \subseteq 1 .. n
      /\ \A k \in 1 .. Len(t) : 1 <= t[k] /\ t[k] <= n
      /\ \A k \in 1 .. Len(q) : 1 <= q[k] /\ q[k] <= n
  BY DEF Ordered
<1>2. Len(t) \in Nat /\ Len(q) \in Nat
  BY ONLY <1>1
<1> QED BY <1>1, <1>2, OrderedNumbers

\* What becomes of block n + 1, and of a message.
LEMMA OrderedPass ==
  ASSUME NEW t, NEW q, NEW l, NEW n, Ordered(t, q, l, n), NEW p, p = Append(q, n + 1)
  PROVE  Ordered(t, p, l, n + 1)
<1>1. /\ t \in Seq(Nat) /\ q \in Seq(Nat) /\ n \in Nat /\ Len(t) \in Nat /\ Len(q) \in Nat
      /\ Len(t) + Len(q) <= n /\ l \subseteq 1 .. n
      /\ \A k \in 1 .. Len(t) : 1 <= t[k] /\ t[k] <= n /\ t[k] \in Nat
      /\ \A k \in 1 .. Len(q) : 1 <= q[k] /\ q[k] <= n /\ q[k] \in Nat
  BY OrderedTypes
<1>2. /\ p \in Seq(Nat) /\ Len(p) = Len(q) + 1 /\ p[Len(q) + 1] = n + 1
      /\ \A k \in 1 .. Len(q) : p[k] = q[k]
      /\ \A k \in 1 .. Len(p) : k = Len(q) + 1 \/ k \in 1 .. Len(q)
  BY <1>1
<1>3. /\ Len(t) + Len(p) <= n + 1 /\ n + 1 \in Nat
      /\ \A k \in 1 .. Len(t) : 1 <= t[k] /\ t[k] <= n + 1
      /\ \A k \in 1 .. Len(p) : 1 <= p[k] /\ p[k] <= n + 1
  BY <1>1, <1>2
<1>4. \A k, m \in 1 .. Len(p) : k < m => p[k] < p[m]
  BY <1>1, <1>2 DEF Ordered
<1>5. \A k \in 1 .. Len(t), m \in 1 .. Len(p) : t[k] < p[m]
  BY <1>1, <1>2 DEF Ordered
<1>6. ASSUME NEW b \in 1 .. n + 1
      PROVE  b \in l <=> /\ \A k \in 1 .. Len(t) : t[k] # b
                         /\ \A k \in 1 .. Len(p) : p[k] # b
  <2>1. CASE b = n + 1
    <3>1. b \notin l /\ p[Len(q) + 1] = b /\ Len(q) + 1 \in 1 .. Len(p)
      BY <1>1, <1>2, <2>1
    <3> QED BY <3>1
  <2>2. CASE b \in 1 .. n
    <3>1. (\A k \in 1 .. Len(p) : p[k] # b) <=> \A k \in 1 .. Len(q) : q[k] # b
      <4>1. p[Len(q) + 1] # b /\ 1 .. Len(q) \subseteq 1 .. Len(p)
        BY <1>1, <1>2, <2>2
      <4> QED BY <1>2, <4>1
    <3> QED BY <2>2, <3>1 DEF Ordered
  <2> QED BY <1>1, <2>1, <2>2
<1>7. l \subseteq 1 .. n + 1
  BY <1>1
<1> QED BY <1>1, <1>2, <1>3, <1>4, <1>5, <1>6, <1>7 DEF Ordered

LEMMA OrderedLose ==
  ASSUME NEW t, NEW q, NEW l, NEW n, Ordered(t, q, l, n)
  PROVE  Ordered(t, q, l \cup {n + 1}, n + 1)
<1>1. /\ t \in Seq(Nat) /\ q \in Seq(Nat) /\ n \in Nat /\ Len(t) \in Nat /\ Len(q) \in Nat
      /\ Len(t) + Len(q) <= n /\ l \subseteq 1 .. n
      /\ \A k \in 1 .. Len(t) : 1 <= t[k] /\ t[k] <= n /\ t[k] \in Nat
      /\ \A k \in 1 .. Len(q) : 1 <= q[k] /\ q[k] <= n /\ q[k] \in Nat
  BY OrderedTypes
<1>2. /\ Len(t) + Len(q) <= n + 1 /\ n + 1 \in Nat /\ l \cup {n + 1} \subseteq 1 .. n + 1
      /\ \A k \in 1 .. Len(t) : 1 <= t[k] /\ t[k] <= n + 1 /\ t[k] # n + 1
      /\ \A k \in 1 .. Len(q) : 1 <= q[k] /\ q[k] <= n + 1 /\ q[k] # n + 1
  BY <1>1
<1>3. ASSUME NEW b \in 1 .. n + 1
      PROVE  b \in l \cup {n + 1} <=> /\ \A k \in 1 .. Len(t) : t[k] # b
                                      /\ \A k \in 1 .. Len(q) : q[k] # b
  <2>1. CASE b = n + 1
    BY <1>2, <2>1
  <2>2. CASE b \in 1 .. n
    <3>1. b # n + 1
      BY <1>1, <2>2
    <3> QED BY <2>2, <3>1 DEF Ordered
  <2> QED BY <1>1, <2>1, <2>2
<1> QED BY <1>1, <1>2, <1>3 DEF Ordered

LEMMA OrderedTake ==
  ASSUME NEW t, NEW q, NEW l, NEW n, Ordered(t, q, l, n), q # <<>>,
         NEW u, u = Append(t, Head(q)), NEW p, p = Tail(q)
  PROVE  Ordered(u, p, l, n)
<1>1. /\ t \in Seq(Nat) /\ q \in Seq(Nat) /\ n \in Nat /\ Len(t) \in Nat /\ Len(q) \in Nat
      /\ Len(t) + Len(q) <= n /\ l \subseteq 1 .. n
      /\ \A k \in 1 .. Len(t) : 1 <= t[k] /\ t[k] <= n /\ t[k] \in Nat
      /\ \A k \in 1 .. Len(q) : 1 <= q[k] /\ q[k] <= n /\ q[k] \in Nat
  BY OrderedTypes
<1>2. Len(q) >= 1 /\ Head(q) = q[1] /\ 1 \in 1 .. Len(q)
  BY <1>1
<1>3. /\ p \in Seq(Nat) /\ Len(p) = Len(q) - 1
      /\ \A k \in 1 .. Len(p) : p[k] = q[k + 1] /\ k + 1 \in 1 .. Len(q) /\ 1 < k + 1
      /\ \A k \in 1 .. Len(q) : k = 1 \/ (k - 1 \in 1 .. Len(p) /\ p[k - 1] = q[k])
  BY <1>1, <1>2
<1>4. /\ u \in Seq(Nat) /\ Len(u) = Len(t) + 1 /\ u[Len(t) + 1] = q[1]
      /\ \A k \in 1 .. Len(t) : u[k] = t[k] /\ k \in 1 .. Len(u)
      /\ \A k \in 1 .. Len(u) : k = Len(t) + 1 \/ k \in 1 .. Len(t)
      /\ Len(t) + 1 \in 1 .. Len(u)
  BY <1>1, <1>2
<1>5. /\ Len(u) + Len(p) <= n
      /\ \A k \in 1 .. Len(u) : 1 <= u[k] /\ u[k] <= n
      /\ \A k \in 1 .. Len(p) : 1 <= p[k] /\ p[k] <= n
  BY <1>1, <1>2, <1>3, <1>4
<1>6. \A k, m \in 1 .. Len(u) : k < m => u[k] < u[m]
  <2> SUFFICES ASSUME NEW k \in 1 .. Len(u), NEW m \in 1 .. Len(u), k < m PROVE u[k] < u[m]
    OBVIOUS
  <2>1. k \in 1 .. Len(t) /\ u[k] = t[k]
    BY <1>1, <1>4
  <2>2. CASE m = Len(t) + 1
    BY <1>2, <1>4, <2>1, <2>2 DEF Ordered
  <2>3. CASE m \in 1 .. Len(t)
    BY <1>4, <2>1, <2>3 DEF Ordered
  <2> QED BY <1>4, <2>2, <2>3
<1>7. \A k, m \in 1 .. Len(p) : k < m => p[k] < p[m]
  <2> SUFFICES ASSUME NEW k \in 1 .. Len(p), NEW m \in 1 .. Len(p), k < m PROVE p[k] < p[m]
    OBVIOUS
  <2>1. k + 1 < m + 1 /\ k + 1 \in 1 .. Len(q) /\ m + 1 \in 1 .. Len(q)
    BY <1>1, <1>3
  <2> QED BY <1>3, <2>1 DEF Ordered
<1>8. \A k \in 1 .. Len(u), m \in 1 .. Len(p) : u[k] < p[m]
  <2> SUFFICES ASSUME NEW k \in 1 .. Len(u), NEW m \in 1 .. Len(p) PROVE u[k] < p[m]
    OBVIOUS
  <2>1. p[m] = q[m + 1] /\ m + 1 \in 1 .. Len(q) /\ 1 < m + 1
    BY <1>3
  <2>2. CASE k = Len(t) + 1
    BY <1>2, <1>4, <2>1, <2>2 DEF Ordered
  <2>3. CASE k \in 1 .. Len(t)
    BY <1>4, <2>1, <2>3 DEF Ordered
  <2> QED BY <1>4, <2>2, <2>3
<1>9. ASSUME NEW b \in 1 .. n
      PROVE  b \in l <=> /\ \A k \in 1 .. Len(u) : u[k] # b
                         /\ \A k \in 1 .. Len(p) : p[k] # b
  <2>1. (\A k \in 1 .. Len(u) : u[k] # b) <=> (\A k \in 1 .. Len(t) : t[k] # b) /\ q[1] # b
    BY <1>4
  <2>2. (\A k \in 1 .. Len(q) : q[k] # b) <=> (\A k \in 1 .. Len(p) : p[k] # b) /\ q[1] # b
    <3>1. ASSUME \A k \in 1 .. Len(p) : p[k] # b, q[1] # b, NEW k \in 1 .. Len(q)
          PROVE  q[k] # b
      <4>1. CASE k = 1
        BY <3>1, <4>1
      <4>2. CASE k - 1 \in 1 .. Len(p) /\ p[k - 1] = q[k]
        BY <3>1, <4>2
      <4> QED BY <1>3, <4>1, <4>2
    <3>2. ASSUME \A k \in 1 .. Len(q) : q[k] # b, NEW k \in 1 .. Len(p)
          PROVE  p[k] # b
      BY <1>3, <3>2
    <3> QED BY <1>2, <3>1, <3>2
  <2>3. b \in l <=> /\ \A k \in 1 .. Len(t) : t[k] # b
                    /\ \A k \in 1 .. Len(q) : q[k] # b
    BY DEF Ordered
  <2> QED BY <2>1, <2>2, <2>3
<1> QED BY <1>1, <1>3, <1>4, <1>5, <1>6, <1>7, <1>8, <1>9 DEF Ordered
-----------------------------------------------------------------------------
\* How far things have come.
Progress ==
    /\ TemRead \in Nat /\ HumRead \in Nat /\ TemRead <= samples /\ HumRead <= samples
    /\ TemSlots \in Nat /\ TemSlots <= BLOCKS /\ j <= BLOCKS
    /\ TemDone \in Nat /\ HumDone \in Nat /\ TemDone <= TemSlots
    /\ recev = "alloc_tem" => i < BLOCKS
    /\ recev = "alloc_hum" => j < BLOCKS
    /\ Start(TemDone) <= cnt /\ Start(TemDone) <= cnt2
    /\ Limit \in Int /\ Limit <= Start(TemDone + 1)
    /\ Pending \/ Passing => TemRead <= Limit /\ HumRead <= Limit /\ HumDone <= TemDone

LEMMA ProgressMade ==
  ASSUME EarlyBounds, Types, QueuesInv, SlotsInv, TimelyInv
  PROVE  Progress
<1>1. /\ samples \in Nat /\ samples <= Start(BLOCKS) /\ cnt \in Nat /\ cnt2 \in Nat
      /\ i \in Nat /\ j \in Nat /\ recev \in RecevStates /\ keys \in Nat
      /\ BLOCKS \in Nat /\ Start(BLOCKS) \in Nat /\ mem_slice \in Nat \ {0}
  BY MaxIsStart, Numbers, StartIs DEF Types
<1>2. /\ TemRead \in Nat /\ HumRead \in Nat /\ TemRead <= samples /\ HumRead <= samples
      /\ TemSlots \in Nat /\ TemDone \in Nat /\ HumDone \in Nat /\ TemDone <= TemSlots
  <2>1. TemRead \in Nat /\ HumRead \in Nat
    BY <1>1 DEF TemRead, HumRead
  <2>2. TemRead <= samples /\ HumRead <= samples
    BY <1>1, <2>1 DEF QueuesInv, Queued
  <2> QED BY <1>1, <2>1, <2>2 DEF TemSlots, TemDone, HumDone
<1>3. /\ recev \in {"alloc_tem", "send_tem", "next_tem"} => i < BLOCKS
      /\ recev \notin {"alloc_tem", "send_tem", "next_tem"} => i <= BLOCKS
  <2>1. CASE recev \in {"alloc_tem", "send_tem", "next_tem"}
    <3>1. cnt = Start(i) /\ TemRead = cnt + 1 /\ Start(i) \in Int
      BY <1>1, <2>1, StartIs DEF SlotsInv, TemRead, InTem
    <3>2. Start(i) < Start(BLOCKS)
      BY <1>1, <1>2, <3>1
    <3> QED BY <1>1, <2>1, <3>1, <3>2, StartGrows
  <2>2. CASE recev \notin {"alloc_tem", "send_tem", "next_tem"} /\ i > 0
    <3>1. Start(i - 1) < Start(BLOCKS) /\ Start(i - 1) \in Int
      BY <1>1, <1>2, <2>2, StartIs DEF SlotsInv
    <3> QED BY <1>1, <2>2, <3>1, StartGrows
  <2> QED BY <1>1, <2>1, <2>2
<1>4. /\ recev = "alloc_hum" => j < BLOCKS
      /\ j <= BLOCKS
  <2>1. CASE recev = "alloc_hum"
    <3>1. cnt2 = Start(j) /\ HumRead = cnt2 + 1 /\ Start(j) \in Int
      BY <1>1, <2>1, StartIs DEF SlotsInv, HumRead, InHum
    <3>2. Start(j) < Start(BLOCKS)
      BY <1>1, <1>2, <3>1
    <3> QED BY <1>1, <3>1, <3>2, StartGrows
  <2>2. CASE recev # "alloc_hum" /\ j > 0
    <3>1. Start(j - 1) < Start(BLOCKS) /\ Start(j - 1) \in Int
      BY <1>1, <1>2, <2>2, StartIs DEF SlotsInv
    <3> QED BY <1>1, <2>2, <3>1, StartGrows
  <2> QED BY <1>1, <2>1, <2>2
<1>5. TemSlots <= BLOCKS
  BY <1>1, <1>3 DEF TemSlots
<1>6. \/ Start(TemDone) <= cnt /\ Start(TemDone) < TemRead
      \/ TemRead = 0 /\ TemDone = 0 /\ Start(TemDone) = 0
  <2>1. CASE recev \in {"send_tem", "next_tem"}
    <3>1. TemDone = i /\ cnt = Start(i) /\ TemRead = cnt + 1
      BY <1>1, <2>1 DEF TemDone, TemSlots, SlotsInv, TemRead, InTem
    <3> QED BY <1>1, <3>1
  <2>2. CASE recev = "alloc_tem"
    <3>1. cnt = Start(i) /\ TemRead = cnt + 1 /\ TemSlots = i
      BY <1>1, <2>2 DEF TemSlots, SlotsInv, TemRead, InTem
    <3>2. CASE i = 0
      BY <1>1, <3>1, <3>2, StartIs DEF TemDone
    <3>3. CASE i > 0
      <4>1. TemDone = i - 1 /\ Start(i - 1) = Start(i) - mem_slice /\ Start(i) \in Int
        BY <1>1, <3>1, <3>3, StartIs DEF TemDone
      <4> QED BY <1>1, <3>1, <4>1
    <3> QED BY <1>1, <3>2, <3>3
  <2>3. CASE recev \notin {"alloc_tem", "send_tem", "next_tem"}
    <3>1. TemSlots = i /\ TemRead <= cnt + 1
      BY <1>1, <2>3 DEF TemSlots, TemRead
    <3>2. CASE i = 0 /\ TemRead = 0
      BY <1>1, <3>1, <3>2, StartIs DEF TemDone
    <3>3. CASE i > 0 /\ Start(i - 1) < TemRead
      <4>1. TemDone = i - 1 /\ Start(i - 1) \in Int
        BY <1>1, <3>1, <3>3, StartIs DEF TemDone
      <4> QED BY <1>1, <1>2, <3>1, <3>3, <4>1
    <3> QED BY <2>3, <3>2, <3>3 DEF SlotsInv
  <2> QED BY <2>1, <2>2, <2>3
<1>7. Start(TemDone) \in Nat
  BY <1>2, StartIs
<1>8. Start(TemDone) <= cnt /\ Start(TemDone) <= cnt2
  <2>1. \/ Start(TemDone) = 0
        \/ /\ Start(TemDone) <= HumRead
           /\ InHum => Start(TemDone) < HumRead
    <3>1. CASE recev = "hum" \/ InTem
      <4>1. HumRead \in {TemRead - 1, TemRead} /\ ~ InHum
        BY <3>1 DEF QueuesInv, InTem, InHum
      <4> QED BY <1>2, <1>6, <1>7, <4>1
    <3>2. CASE recev = "tem" \/ InHum
      <4>1. HumRead \in {TemRead, TemRead + 1}
        BY <3>2 DEF QueuesInv
      <4> QED BY <1>2, <1>6, <1>7, <4>1
    <3> QED BY <1>1, <3>1, <3>2 DEF RecevStates, InTem, InHum
  <2>2. HumRead = IF InHum THEN cnt2 + 1 ELSE cnt2
    BY DEF HumRead
  <2>3. Start(TemDone) <= cnt2
    BY <1>1, <1>7, <2>1, <2>2
  <2> QED BY <1>1, <1>6, <2>3
<1>9. Limit \in Int /\ Limit <= Start(TemDone + 1)
  <2>1. Slack(keys) \in Nat /\ Slack(keys) < mem_slice
    BY <1>1, SlackIs, SlackBound DEF Types
  <2>2. Start(TemDone + 1) = Start(TemDone) + mem_slice
    BY <1>2, StartIs
  <2> QED BY <1>1, <1>7, <2>1, <2>2 DEF Limit
<1>10. Pending \/ Passing => TemRead <= Limit /\ HumRead <= Limit
  <2> SUFFICES ASSUME Pending \/ Passing PROVE TemRead <= Limit /\ HumRead <= Limit
    OBVIOUS
  <2>1. nap[lcd_show] \in 0 .. 2
    BY DEF Types, Nappers
  <2> QED BY <1>1, <1>2, <1>9, <2>1 DEF TimelyInv
<1>11. HumRead <= Start(TemDone + 1) => HumDone <= TemDone
  <2> SUFFICES ASSUME HumRead <= Start(TemDone + 1) PROVE HumDone <= TemDone
    OBVIOUS
  <2>1. TemDone + 1 \in Int /\ Start(TemDone + 1) \in Int
    BY <1>2, StartIs
  <2>2. CASE recev = "alloc_hum"
    <3>0. HumRead = cnt2 + 1 /\ cnt2 = Start(j)
      BY <2>2 DEF SlotsInv, HumRead, InHum
    <3>1. Start(j) < Start(TemDone + 1) /\ Start(j) \in Int
      BY <1>1, <2>1, <3>0, StartIs
    <3>2. j < TemDone + 1
      BY <1>1, <2>1, <3>1, StartGrows
    <3> QED BY <1>1, <1>2, <3>2 DEF HumDone
  <2>3. CASE recev # "alloc_hum" /\ j > 0
    <3>1. Start(j - 1) < Start(TemDone + 1) /\ Start(j - 1) \in Int
      BY <1>1, <1>2, <2>1, <2>3, StartIs DEF SlotsInv
    <3>2. j - 1 < TemDone + 1
      BY <1>1, <2>1, <3>1, StartGrows
    <3> QED BY <1>1, <1>2, <3>2 DEF HumDone
  <2> QED BY <1>1, <1>2, <2>2, <2>3 DEF HumDone
<1>12. Pending \/ Passing => HumRead <= Start(TemDone + 1)
  <2>1. Start(TemDone + 1) \in Int
    BY <1>2, StartIs
  <2> QED BY <1>2, <1>9, <1>10, <2>1
<1> QED BY <1>2, <1>3, <1>4, <1>5, <1>8, <1>9, <1>10, <1>11, <1>12 DEF Progress
-----------------------------------------------------------------------------
(* What the steps do until the pools are used up. *)

\* A block of s slots is full exactly if the next sample starts another.
LEMMA FillMod ==
  ASSUME NEW s \in Nat, NEW c \in Nat,
         \/ s = 0 /\ c = 0
         \/ s > 0 /\ Start(s - 1) < c /\ c <= Start(s)
  PROVE  \/ c % mem_slice = 0 /\ c = Start(s)
         \/ c % mem_slice # 0 /\ s > 0 /\ Start(s - 1) < c /\ c < Start(s)
<1>1. /\ Start(s) \in Nat /\ Start(s - 1) \in Int /\ Start(s) = Start(s - 1) + mem_slice
      /\ mem_slice \in Nat \ {0} /\ Start(0) = 0
  <2>1. s \in Int /\ s - 1 \in Int
    OBVIOUS
  <2>2. Start(s - 1) = Start(s) - mem_slice /\ Start(s) \in Nat /\ mem_slice \in Nat \ {0}
    BY <2>1, StartIs, Numbers
  <2> QED BY <2>1, <2>2, StartIs
<1>2. CASE c = Start(s)
  BY <1>1, <1>2, StartMod
<1>3. CASE c # Start(s)
  <2>1. s > 0 /\ Start(s - 1) < c /\ c < Start(s)
    BY <1>1, <1>3
  <2>2. s - 1 \in Nat /\ Start(s - 1) <= c /\ c < Start(s - 1) + mem_slice
    BY <1>1, <2>1
  <2>3. c % mem_slice = c - Start(s - 1)
    BY <2>2, StartMod
  <2> QED BY <1>1, <1>3, <2>1, <2>3
<1> QED BY <1>2, <1>3

LEMMA Counts ==
  ASSUME EarlyBounds, EarlyInv
  PROVE  /\ Progress /\ Types
         /\ Len(sd) \in Nat /\ Handed \in Nat /\ Handed <= TemDone /\ InFlight \in {0, 1}
         /\ release # "recv" => buf \in Nat /\ buf < Handed
         /\ i <= BLOCKS /\ BLOCKS < SLOTS /\ SLOTS \in Nat /\ BLOCKS \in Nat
         /\ \A s \in Nat : s < BLOCKS => s \in Slots
<1>1. Progress /\ Types
  BY ProgressMade DEF EarlyInv
<1>2. BLOCKS < SLOTS /\ SLOTS \in Nat /\ BLOCKS \in Nat
  BY Numbers DEF EarlyBounds
<1>3. i <= BLOCKS
  BY <1>1, <1>2 DEF Progress, TemSlots, Types
<1>4. Len(sd) \in Nat
  BY DEF EarlyInv, HumInv, HumBlocksLost
<1>5. Ordered(taken, mq_tem_memlcd, lost, Handed)
  BY DEF EarlyInv, MessagesInv
<1>6. InFlight \in {0, 1}
  BY DEF InFlight
<1>7. Handed \in Nat /\ Handed <= TemDone
  <2>1. Handed \in Nat
    BY <1>5 DEF Ordered
  <2>2. TemDone \in Nat /\ Handed = TemDone - InFlight
    BY <1>1 DEF Progress, Handed
  <2> QED BY <1>6, <2>1, <2>2
<1>8. ASSUME release # "recv" PROVE buf \in Nat /\ buf < Handed
  <2>1. Len(taken) = Len(sd) + 1 /\ buf = taken[Len(sd) + 1] - 1
    BY <1>8 DEF EarlyInv, MessagesInv
  <2>2. Len(sd) + 1 \in 1 .. Len(taken)
    BY <1>4, <2>1
  <2>3. 1 <= taken[Len(sd) + 1] /\ taken[Len(sd) + 1] <= Handed /\ taken[Len(sd) + 1] \in Nat
    BY <1>5, <2>2 DEF Ordered
  <2> QED BY <1>7, <2>1, <2>3
<1> QED BY <1>1, <1>2, <1>3, <1>4, <1>6, <1>7, <1>8 DEF Slots

\* The slots saved are not the one being saved, nor in a message.
LEMMA SavedIs ==
  ASSUME EarlyBounds, EarlyInv
  PROVE  /\ SavedSlots \subseteq Slots /\ \A s \in SavedSlots : s < Handed
         /\ \A k \in 1 .. Len(mq_tem_memlcd) : mq_tem_memlcd[k] - 1 \notin SavedSlots
         /\ release # "recv" => buf \in Slots /\ buf \notin SavedSlots
<1>1. /\ Ordered(taken, mq_tem_memlcd, lost, Handed) /\ Len(sd) \in Nat /\ Handed \in Nat
      /\ Handed <= TemDone /\ TemDone \in Nat /\ TemDone <= BLOCKS /\ BLOCKS \in Nat
      /\ Slots \subseteq Nat
  <2>1. TemDone \in Nat /\ TemDone <= TemSlots /\ TemSlots <= BLOCKS /\ TemSlots \in Nat
    BY Counts DEF Progress
  <2> QED BY <2>1, Counts DEF EarlyInv, MessagesInv, Slots
<1>2. Len(taken) \in Nat /\ Len(sd) <= Len(taken) /\ Len(mq_tem_memlcd) \in Nat
  BY <1>1 DEF EarlyInv, MessagesInv, Ordered
<1>3. ASSUME NEW s \in SavedSlots
      PROVE  s \in Nat /\ \E g \in 1 .. Len(sd) : g \in 1 .. Len(taken) /\ taken[g] = s + 1
  <2>1. PICK g \in 1 .. Len(sd) : taken[g] = s + 1
    BY DEF SavedSlots, Saved
  <2>2. g \in 1 .. Len(taken)
    BY <1>1, <1>2
  <2> QED BY <1>1, <2>1, <2>2 DEF SavedSlots
<1>4. ASSUME NEW s \in SavedSlots PROVE s < Handed
  <2>1. PICK g \in 1 .. Len(taken) : taken[g] = s + 1
    BY <1>3
  <2>2. taken[g] <= Handed
    BY <1>1 DEF Ordered
  <2> QED BY <1>1, <1>3, <2>1, <2>2
<1>5. ASSUME NEW k \in 1 .. Len(mq_tem_memlcd), NEW s \in SavedSlots, s = mq_tem_memlcd[k] - 1
      PROVE  FALSE
  <2>1. PICK g \in 1 .. Len(taken) : taken[g] = s + 1
    BY <1>3
  <2>2. taken[g] < mq_tem_memlcd[k] /\ mq_tem_memlcd[k] \in Nat /\ taken[g] \in Nat
    BY <1>1, OrderedNumbers
  <2> QED BY <1>3, <1>5, <2>1, <2>2
<1>6. ASSUME release # "recv" PROVE buf \in Slots
  BY <1>1, <1>6, Counts
<1>7. ASSUME release # "recv", buf \in SavedSlots PROVE FALSE
  <2>1. PICK g \in 1 .. Len(sd) : g \in 1 .. Len(taken) /\ taken[g] = buf + 1
    BY <1>3, <1>7
  <2>2. Len(taken) = Len(sd) + 1 /\ buf = taken[Len(sd) + 1] - 1
    BY <1>7 DEF EarlyInv, MessagesInv
  <2>3. g < Len(sd) + 1 /\ Len(sd) + 1 \in 1 .. Len(taken)
    BY <1>1, <2>1, <2>2
  <2>4. taken[g] < taken[Len(sd) + 1] /\ taken[g] \in Nat /\ taken[Len(sd) + 1] \in Nat
    BY <1>1, <2>1, <2>3 DEF Ordered
  <2> QED BY <2>1, <2>2, <2>4
<1> QED BY <1>4, <1>5, <1>6, <1>7 DEF SavedSlots

LEMMA RecvHumEffect ==
  ASSUME EarlyBounds, EarlyInv, RecvHum
  PROVE  /\ recev = "hum" /\ UNCHANGED <<i, j, cnt, cnt2>>
         /\ \/ recev' = "tem" /\ mq_DHT11_hum = <<>> /\ UNCHANGED <<hum_get, mq_DHT11_hum>>
            \/ /\ mq_DHT11_hum # <<>> /\ hum_get' = Head(mq_DHT11_hum)
               /\ mq_DHT11_hum' = Tail(mq_DHT11_hum)
               /\ \/ recev' = "alloc_hum" /\ cnt2 = Start(j)
                  \/ recev' = "store_hum" /\ j > 0 /\ Start(j - 1) < cnt2 /\ cnt2 < Start(j)
<1>1. i \in Nat /\ j \in Nat /\ i < SLOTS /\ j < SLOTS /\ cnt2 \in Nat
  <2>1. Types /\ Progress /\ i <= BLOCKS /\ BLOCKS < SLOTS /\ SLOTS \in Nat /\ BLOCKS \in Nat
    BY Counts
  <2> QED BY <2>1 DEF Types, Progress
<1>2. i' = i /\ j' = j
  BY <1>1, Small DEF RecvHum
<1>3. recev = "hum" /\ HumRead = cnt2
  BY DEF RecvHum, HumRead, InHum
<1>4. \/ cnt2 % mem_slice = 0 /\ cnt2 = Start(j)
      \/ cnt2 % mem_slice # 0 /\ j > 0 /\ Start(j - 1) < cnt2 /\ cnt2 < Start(j)
  <2>1. \/ j = 0 /\ cnt2 = 0
        \/ j > 0 /\ Start(j - 1) < cnt2 /\ cnt2 <= Start(j)
    BY <1>3 DEF EarlyInv, SlotsInv
  <2> QED BY <1>1, <2>1, FillMod
<1> QED BY <1>2, <1>3, <1>4 DEF RecvHum

LEMMA RecvTemEffect ==
  ASSUME EarlyBounds, EarlyInv, RecvTem
  PROVE  /\ recev = "tem" /\ UNCHANGED <<i, j, cnt, cnt2>>
         /\ \/ recev' = "hum" /\ mq_DHT11_tem = <<>> /\ UNCHANGED <<tem_get, mq_DHT11_tem>>
            \/ /\ mq_DHT11_tem # <<>> /\ tem_get' = Head(mq_DHT11_tem)
               /\ mq_DHT11_tem' = Tail(mq_DHT11_tem)
               /\ \/ recev' = "alloc_tem" /\ cnt = Start(i)
                  \/ recev' = "store_tem" /\ i > 0 /\ Start(i - 1) < cnt /\ cnt < Start(i)
<1>1. i \in Nat /\ cnt \in Nat
  BY Counts DEF Types
<1>2. recev = "tem" /\ TemRead = cnt
  BY DEF RecvTem, TemRead, InTem
<1>3. \/ cnt % mem_slice = 0 /\ cnt = Start(i)
      \/ cnt % mem_slice # 0 /\ i > 0 /\ Start(i - 1) < cnt /\ cnt < Start(i)
  <2>1. \/ i = 0 /\ cnt = 0
        \/ i > 0 /\ Start(i - 1) < cnt /\ cnt <= Start(i)
    BY <1>2 DEF EarlyInv, SlotsInv
  <2> QED BY <1>1, <2>1, FillMod
<1> QED BY <1>2, <1>3 DEF RecvTem

LEMMA AllocHumEffect ==
  ASSUME EarlyBounds, EarlyInv, AllocHum
  PROVE  /\ recev = "alloc_hum" /\ recev' = "store_hum" /\ j \in Slots /\ j' = j + 1
         /\ hum_mp # <<>> /\ hum_mp' = Tail(hum_mp)
         /\ ptr2' = [ptr2 EXCEPT ![j] = Head(hum_mp)]
         /\ index' = IF j # 0 THEN j ELSE index
         /\ UNCHANGED <<i, cnt, cnt2>>
<1>1. recev = "alloc_hum" /\ j \in Nat /\ j < BLOCKS /\ BLOCKS \in Nat
  BY Counts DEF AllocHum, Progress, Types
<1>2. hum_mp # <<>> /\ j \in Slots
  <2>1. hum_mp \in Seq(Blocks) /\ Len(hum_mp) + j = BLOCKS
    BY DEF EarlyInv, HumInv
  <2>2. Len(hum_mp) > 0
    BY <1>1, <2>1
  <2> QED BY <1>1, <2>1, <2>2, Counts
<1> QED BY <1>1, <1>2 DEF AllocHum

LEMMA AllocTemEffect ==
  ASSUME EarlyBounds, EarlyInv, AllocTem
  PROVE  /\ recev = "alloc_tem" /\ recev' = IF i # 0 THEN "send_tem" ELSE "next_tem"
         /\ i \in Slots /\ tem_mp # <<>> /\ tem_mp' = Tail(tem_mp)
         /\ ptr' = [ptr EXCEPT ![i] = Head(tem_mp)]
         /\ index' = IF i # 0 THEN i ELSE index
         /\ UNCHANGED <<i, j, cnt, cnt2>>
<1>1. recev = "alloc_tem" /\ i \in Nat /\ i < BLOCKS /\ BLOCKS \in Nat /\ TemSlots = i
  BY Counts DEF AllocTem, Progress, Types, TemSlots
<1>2. tem_mp # <<>> /\ i \in Slots
  <2>1. tem_mp \in Seq(Blocks) /\ Len(tem_mp) + TemSlots = BLOCKS + Held /\ Held \in Nat
    BY Counts DEF EarlyInv, TemInv, Held
  <2>2. Len(tem_mp) > 0
    BY <1>1, <2>1
  <2> QED BY <1>1, <2>1, <2>2, Counts
<1> QED BY <1>1, <1>2 DEF AllocTem, locals

LEMMA StoreHumEffect ==
  ASSUME EarlyBounds, EarlyInv, StoreHum
  PROVE  /\ recev = "store_hum" /\ recev' = "tem" /\ j > 0 /\ j - 1 \in Slots
         /\ j - 1 \notin SavedSlots /\ ptr2[j - 1] \in Blocks
         /\ Start(j - 1) <= cnt2 /\ cnt2 < Start(j) /\ cnt2 - Start(j - 1) \in Bytes
         /\ hummempool' = [hummempool EXCEPT ![ptr2[j - 1]][cnt2 - Start(j - 1)] = hum_get]
         /\ cnt2' = cnt2 + 1
         /\ UNCHANGED <<i, j, cnt, temmempool>>
<1>1. /\ recev = "store_hum" /\ HumRead = cnt2 + 1 /\ cnt2 \in Nat /\ j \in Nat
      /\ TemDone \in Nat /\ Start(TemDone) <= cnt2 /\ j <= BLOCKS
      /\ Handed \in Nat /\ Handed <= TemDone /\ BLOCKS \in Nat
  BY Counts DEF StoreHum, HumRead, InHum, Types, Progress
<1>2. j > 0 /\ Start(j - 1) < HumRead /\ HumRead <= Start(j)
  BY <1>1 DEF EarlyInv, SlotsInv
<1>3. /\ Start(j) \in Int /\ Start(j - 1) \in Int /\ Start(TemDone) \in Int
      /\ Start(j) = Start(j - 1) + mem_slice /\ mem_slice \in Nat
  <2>1. j \in Int /\ j - 1 \in Int /\ TemDone \in Int
    BY <1>1
  <2>2. Start(j - 1) = Start(j) - mem_slice /\ Start(j) \in Int /\ mem_slice \in Nat
    BY <2>1, StartIs, Numbers
  <2> QED BY <2>1, <2>2, StartIs
<1>4. Start(j - 1) <= cnt2 /\ cnt2 < Start(j)
  BY <1>1, <1>2, <1>3
<1>5. TemDone < j
  <2>1. Start(TemDone) < Start(j)
    BY <1>1, <1>3, <1>4
  <2> QED BY <1>1, <1>3, <2>1, StartGrows
<1>6. j - 1 \in Slots /\ j - 1 \notin SavedSlots
  <2>1. j - 1 \in Slots /\ ~ (j - 1 < Handed)
    BY <1>1, <1>2, <1>5, Counts
  <2> QED BY <2>1, SavedIs
<1>7. ptr2[j - 1] \in Blocks /\ ptr2[j - 1] # Null
  BY <1>1, <1>6 DEF EarlyInv, HumInv
<1>8. cnt2 % mem_slice = cnt2 - Start(j - 1) /\ cnt2 - Start(j - 1) \in Bytes
  <2>1. j - 1 \in Nat
    BY <1>1, <1>2
  <2>2. cnt2 < Start(j - 1) + mem_slice
    BY <1>3, <1>4
  <2> QED BY <1>1, <1>4, <2>1, <2>2, StartMod
<1> QED BY <1>1, <1>2, <1>4, <1>6, <1>7, <1>8 DEF StoreHum

LEMMA StoreTemEffect ==
  ASSUME EarlyBounds, EarlyInv, StoreTem
  PROVE  /\ recev = "store_tem" /\ recev' = "hum" /\ i > 0 /\ i - 1 \in Slots
         /\ i - 1 \notin SavedSlots \cup Freed /\ ptr[i - 1] \in Blocks
         /\ Start(i - 1) <= cnt /\ cnt < Start(i) /\ cnt - Start(i - 1) \in Bytes
         /\ temmempool' = [temmempool EXCEPT ![ptr[i - 1]][cnt - Start(i - 1)] = tem_get]
         /\ cnt' = cnt + 1
         /\ UNCHANGED <<i, j, cnt2, hummempool, fault>>
<1>1. /\ recev = "store_tem" /\ TemRead = cnt + 1 /\ cnt \in Nat /\ i \in Nat
      /\ i <= BLOCKS /\ TemSlots = i
      /\ Handed \in Nat /\ Handed <= TemDone /\ BLOCKS \in Nat
      /\ release # "recv" => buf \in Nat /\ buf < Handed
  BY Counts DEF StoreTem, TemRead, InTem, Types, TemSlots
<1>2. i > 0 /\ Start(i - 1) < TemRead /\ TemRead <= Start(i)
  BY <1>1 DEF EarlyInv, SlotsInv
<1>3. /\ Start(i) \in Int /\ Start(i - 1) \in Int
      /\ Start(i) = Start(i - 1) + mem_slice /\ mem_slice \in Nat
  <2>1. i \in Int /\ i - 1 \in Int
    BY <1>1
  <2>2. Start(i - 1) = Start(i) - mem_slice /\ Start(i) \in Int /\ mem_slice \in Nat
    BY <2>1, StartIs, Numbers
  <2> QED BY <2>1, <2>2
<1>4. Start(i - 1) <= cnt /\ cnt < Start(i)
  BY <1>1, <1>2, <1>3
<1>5. TemDone = i - 1
  BY <1>1, <1>2 DEF TemDone
<1>6. i - 1 \in Slots /\ i - 1 \notin SavedSlots /\ i - 1 \notin Freed
  <2>1. i - 1 \in Slots /\ ~ (i - 1 < Handed)
    BY <1>1, <1>2, <1>5, Counts
  <2>2. i - 1 \notin Freed
    BY <1>1, <2>1 DEF Freed
  <2> QED BY <2>1, <2>2, SavedIs
<1>7. ptr[i - 1] \in Blocks /\ ptr[i - 1] # Null
  BY <1>1, <1>6 DEF EarlyInv, TemInv
<1>8. cnt % mem_slice = cnt - Start(i - 1) /\ cnt - Start(i - 1) \in Bytes
  <2>1. i - 1 \in Nat
    BY <1>1, <1>2
  <2>2. cnt < Start(i - 1) + mem_slice
    BY <1>3, <1>4
  <2> QED BY <1>1, <1>4, <2>1, <2>2, StartMod
<1> QED BY <1>1, <1>2, <1>4, <1>6, <1>7, <1>8 DEF StoreTem

\* What each group of steps leaves alone.
LEMMA OthersLeave ==
  ASSUME timeout1 \/ Key \/ Naps \/ LcdStep \/ RelStep
  PROVE  UNCHANGED <<recev, tem_get, hum_get, i, j, cnt, cnt2, index, hum_mp,
                     temmempool, hummempool>>
<1>1. CASE timeout1
  BY <1>1 DEF timeout1, locals, store
<1>2. CASE Key
  BY <1>2 DEF Key, locals, store
<1>3. CASE Naps
  BY <1>3 DEF Naps, NapEnds, locals, store
<1>4. CASE LcdStep
  BY <1>4 DEF LcdStep, LcdCall, LcdRecv, LcdSleep, LcdReturn, LcdMenu, LcdPass, locals, store
<1>5. CASE RelStep
  BY <1>5 DEF RelStep, RelRecv, RelRow, RelFree, RelClear, locals, store
<1> QED BY <1>1, <1>2, <1>3, <1>4, <1>5

LEMMA InputsLeave ==
  ASSUME timeout1 \/ Key \/ Naps \/ LcdStep
  PROVE  UNCHANGED <<tem_mp, ptr, ptr2, release, buf, row, taken, file, sd, fault>>
<1>1. CASE timeout1
  BY <1>1 DEF timeout1, relVars, store
<1>2. CASE Key
  BY <1>2 DEF Key, relVars, store
<1>3. CASE Naps
  BY <1>3 DEF Naps, NapEnds, relVars, store
<1>4. CASE LcdStep
  BY <1>4 DEF LcdStep, LcdCall, LcdRecv, LcdSleep, LcdReturn, LcdMenu, LcdPass, relVars, store
<1> QED BY <1>1, <1>2, <1>3, <1>4

LEMMA ThreadsLeave ==
  ASSUME RecevStep \/ LcdStep \/ RelStep
  PROVE  UNCHANGED <<samples, keys, wave>> /\ (~ SendTem => UNCHANGED nap)
<1>1. CASE RecevStep
  BY <1>1 DEF RecevStep, RecvHum, AllocHum, StoreHum, RecvTem, AllocTem, SendTem,
              NextTem, StoreTem, sampling, lcdVars
<1>2. CASE LcdStep
  BY <1>2 DEF LcdStep, LcdCall, LcdRecv, LcdSleep, LcdReturn, LcdMenu, LcdPass, sampling
<1>3. CASE RelStep
  BY <1>3 DEF RelStep, RelRecv, RelRow, RelFree, RelClear, sampling, lcdVars
<1> QED BY <1>1, <1>2, <1>3

LEMMA RecevLeaves ==
  ASSUME RecevStep
  PROVE  /\ UNCHANGED <<mq_tem_memlcd, release, buf, row, taken, file, sd, lcd_error, lost>>
         /\ ~ SendTem => UNCHANGED <<memlcd_data_event, lcd, lcd_buf>>
         /\ ~ AllocHum => UNCHANGED <<hum_mp, ptr2>>
         /\ ~ AllocTem => UNCHANGED <<tem_mp, ptr>>
         /\ ~ AllocHum /\ ~ AllocTem => UNCHANGED index
         /\ Awake(lcd_show) => lcd \in {"asleep", "asleep_wave"}
BY DEF RecevStep, RecvHum, AllocHum, StoreHum, RecvTem, AllocTem, SendTem,
       NextTem, StoreTem, sampling, store, lcdVars, relVars, Prio4Runs, LcdBlocked

LEMMA QueuesLeave ==
  ASSUME Next, ~ timeout1
  PROVE  /\ ~ RecvHum => UNCHANGED mq_DHT11_hum
         /\ ~ RecvTem => UNCHANGED mq_DHT11_tem
<1>1. CASE RecevStep
  BY <1>1 DEF RecevStep, RecvHum, AllocHum, StoreHum, RecvTem, AllocTem, SendTem,
              NextTem, StoreTem, sampling
<1>2. CASE LcdStep \/ RelStep
  BY <1>2 DEF LcdStep, LcdCall, LcdRecv, LcdSleep, LcdReturn, LcdMenu, LcdPass, RelStep,
              RelRecv, RelRow, RelFree, RelClear, sampling
<1>3. CASE Key \/ Naps
  BY <1>3 DEF Key, Naps, NapEnds, sampling
<1> QED BY <1>1, <1>2, <1>3 DEF Next

LEMMA AnnouncingLeaves ==
  ASSUME timeout1 \/ RelStep
  PROVE  UNCHANGED <<memlcd_data_event, lcd, lcd_buf, lcd_error, lost, keys, wave>>
<1>1. CASE timeout1
  BY <1>1 DEF timeout1, lcdVars
<1>2. CASE RelStep
  BY <1>2 DEF RelStep, RelRecv, RelRow, RelFree, RelClear, lcdVars
<1> QED BY <1>1, <1>2

LEMMA SendTemEffect ==
  ASSUME EarlyBounds, EarlyInv, SendTem
  PROVE  /\ recev = "send_tem" /\ recev' = "next_tem"
         /\ UNCHANGED <<i, j, cnt, cnt2, tem_get, hum_get, temmempool, hummempool, fault>>
         /\ \/ /\ lcd = "asleep" /\ lcd' = "taken" /\ lcd_buf' = {FLAG2}
               /\ nap' = [nap EXCEPT ![lcd_show] = 0] /\ UNCHANGED memlcd_data_event
            \/ /\ lcd # "asleep" /\ lcd # "suspended" /\ UNCHANGED <<lcd, lcd_buf, nap>>
               /\ memlcd_data_event' = memlcd_data_event \cup {FLAG2}
<1>1. lcd # "asleep_wave" /\ lcd # "suspended_wave"
  BY Counts DEF Types
<1>2. lcd # "suspended"
  <2>1. lcd = "suspended" => nap[lcd_show] = 0
    BY DEF EarlyInv, MessagesInv, Awakening
  <2> QED BY <1>1, <2>1 DEF SendTem, Prio4Runs, LcdBlocked, Awake
<1>3. EventSend(FLAG2, nap)
  BY DEF SendTem
<1>4. CASE lcd = "asleep"
  BY <1>3, <1>4 DEF EventSend, Awaited, SendTem, locals, store
<1>5. CASE lcd # "asleep"
  <2>1. FLAG2 \notin Awaited /\ SentToSleep(nap) = lcd
    BY <1>1, <1>2, <1>5 DEF Awaited, SentToSleep
  <2> QED BY <1>2, <1>3, <1>5, <2>1 DEF EventSend, SendTem, locals, store
<1> QED BY <1>4, <1>5

LEMMA KeyEffect ==
  ASSUME EarlyBounds, EarlyInv, Key
  PROVE  /\ UNCHANGED <<samples, mq_tem_memlcd, lost>> /\ ~ wave' /\ lcd_error' \in BOOLEAN
         /\ keys' = keys + 1 /\ keys < MaxKeys /\ nap' \in [Nappers -> 0 .. 2]
         /\ \/ /\ lcd \in {"suspended", "asleep"} /\ lcd' = "taken" /\ lcd_buf' = {FLAG6}
               /\ UNCHANGED memlcd_data_event /\ nap'[lcd_show] = 0
            \/ /\ lcd \in {"suspended", "asleep"} /\ UNCHANGED <<memlcd_data_event, lcd_buf>>
               /\ lcd' = "asleep" \/ (lcd' = lcd /\ nap'[lcd_show] = 0)
               /\ nap'[lcd_show] = nap[lcd_show] \/ (nap[lcd_show] = 0 /\ nap'[lcd_show] = 1)
            \/ /\ lcd \notin {"suspended", "asleep"} /\ UNCHANGED <<lcd, lcd_buf>>
               /\ memlcd_data_event' \in {memlcd_data_event, memlcd_data_event \cup {FLAG6}}
               /\ \/ nap'[lcd_show] = nap[lcd_show] /\ lcd_error' = lcd_error
                  \/ nap[lcd_show] = 0 /\ nap'[lcd_show] = 1
<1>1. lcd \notin {"asleep_wave", "suspended_wave"} /\ ~ wave /\ WaveMenu = FALSE
      /\ nap \in [Nappers -> 0 .. 2] /\ lcd_error \in BOOLEAN /\ lcd_show \in Nappers
  BY Counts, AcquisitionConstants DEF Types, EarlyBounds, Nappers
<1>2. PICK hit \in {{}} \cup {{t} : t \in Interrupted} :
        LET naps == [t \in Nappers |-> IF t \in hit THEN 1 ELSE nap[t]]
        IN  /\ lcd_error' = (lcd_error /\ lcd_show \notin hit)
            /\ \/ wave' \in {FALSE, WaveMenu} /\ EventSend(FLAG6, naps)
               \/ /\ nap' = naps /\ lcd' = SentToSleep(naps)
                  /\ UNCHANGED <<wave, memlcd_data_event, lcd_buf>>
  BY DEF Key
<1> DEFINE naps == [t \in Nappers |-> IF t \in hit THEN 1 ELSE nap[t]]
<1>3. \A t \in hit : t \in Nappers /\ nap[t] = 0
  BY <1>2 DEF Interrupted, Nappers, Awake
<1>4. /\ naps \in [Nappers -> 0 .. 2] /\ naps[lcd_show] \in 0 .. 2
      /\ \/ lcd_show \notin hit /\ naps[lcd_show] = nap[lcd_show]
         \/ lcd_show \in hit /\ nap[lcd_show] = 0 /\ naps[lcd_show] = 1
  BY <1>1, <1>3
<1>5. /\ lcd_error' = (lcd_error /\ lcd_show \notin hit)
      /\ \/ wave' \in {FALSE, WaveMenu} /\ EventSend(FLAG6, naps)
         \/ /\ nap' = naps /\ lcd' = SentToSleep(naps)
            /\ UNCHANGED <<wave, memlcd_data_event, lcd_buf>>
  BY <1>2
<1> HIDE DEF naps
<1>6. ~ wave'
  BY <1>1, <1>5
<1>7. lcd_error' \in BOOLEAN /\ (lcd_show \notin hit => lcd_error' = lcd_error)
  BY <1>1, <1>5
<1>8. nap' = naps \/ nap' = [naps EXCEPT ![lcd_show] = 0]
  BY <1>5 DEF EventSend
<1>9. nap' \in [Nappers -> 0 .. 2]
  BY <1>1, <1>4, <1>8
<1>10. CASE lcd \in {"suspended", "asleep"}
  <2>1. FLAG6 \in Awaited
    BY <1>10 DEF Awaited
  <2>2. CASE EventSend(FLAG6, naps)
    <3>1. /\ lcd' = "taken" /\ lcd_buf' = {FLAG6} /\ UNCHANGED memlcd_data_event
          /\ nap' = [naps EXCEPT ![lcd_show] = 0]
      BY <1>10, <2>1, <2>2 DEF EventSend
    <3>2. nap'[lcd_show] = 0
      BY <1>1, <1>4, <3>1
    <3> QED BY <1>6, <1>7, <1>9, <1>10, <3>1, <3>2 DEF Key, sampling
  <2>3. CASE ~ EventSend(FLAG6, naps)
    <3>1. nap' = naps /\ lcd' = SentToSleep(naps) /\ UNCHANGED <<memlcd_data_event, lcd_buf>>
      BY <1>5, <2>3
    <3>2. lcd' = "asleep" \/ (lcd' = lcd /\ nap'[lcd_show] = 0)
      BY <1>10, <3>1 DEF SentToSleep
    <3>3. nap'[lcd_show] = nap[lcd_show] \/ (nap[lcd_show] = 0 /\ nap'[lcd_show] = 1)
      BY <1>4, <3>1
    <3> QED BY <1>6, <1>7, <1>9, <1>10, <3>1, <3>2, <3>3 DEF Key, sampling
  <2> QED BY <2>2, <2>3
<1>11. CASE lcd \notin {"suspended", "asleep"}
  <2>1. FLAG6 \notin Awaited /\ SentToSleep(naps) = lcd
    BY <1>1, <1>11 DEF Awaited, SentToSleep
  <2>2. /\ UNCHANGED <<lcd, lcd_buf>> /\ nap' = naps
        /\ memlcd_data_event' \in {memlcd_data_event, memlcd_data_event \cup {FLAG6}}
    BY <1>5, <2>1 DEF EventSend
  <2>3. \/ nap'[lcd_show] = nap[lcd_show] /\ lcd_error' = lcd_error
        \/ nap[lcd_show] = 0 /\ nap'[lcd_show] = 1
    BY <1>4, <1>7, <2>2
  <2> QED BY <1>6, <1>7, <1>9, <1>11, <2>2, <2>3 DEF Key, sampling
<1> QED BY <1>10, <1>11

\* The end of a delay is an error for a waiting lcd_show, which has no flags then.
LEMMA NapsEffect ==
  ASSUME EarlyBounds, EarlyInv, Naps
  PROVE  /\ UNCHANGED <<samples, keys, wave, memlcd_data_event, lcd_buf, lost, mq_tem_memlcd>>
         /\ nap' \in [Nappers -> 0 .. 2] /\ lcd_error' \in BOOLEAN
         /\ \/ nap'[lcd_show] = nap[lcd_show] /\ UNCHANGED <<lcd, lcd_error>>
            \/ /\ nap'[lcd_show] = 0 /\ lcd_error'
               /\ lcd' = lcd \/ (lcd = "asleep" /\ lcd' = "taken" /\ lcd_buf = {})
<1>1. /\ lcd # "asleep_wave" /\ nap \in [Nappers -> 0 .. 2] /\ lcd_show \in Nappers
      /\ lcd_error \in BOOLEAN
  BY Counts DEF Types, Nappers
<1>2. lcd = "asleep" => lcd_buf = {}
  BY DEF EarlyInv, MessagesInv, Awakening
<1>3. PICK t \in Nappers : NapEnds(t)
  BY DEF Naps
<1>4. UNCHANGED <<samples, keys, wave, memlcd_data_event, lcd_buf, lost, mq_tem_memlcd>>
  BY <1>3 DEF NapEnds, sampling
<1>5. nap' = [nap EXCEPT ![t] = 0] /\ lcd_error' = (lcd_error \/ t = lcd_show)
  BY <1>3 DEF NapEnds
<1>6. nap' \in [Nappers -> 0 .. 2]
  BY <1>1, <1>5
<1>7. CASE t = lcd_show
  <2>1. nap'[lcd_show] = 0
    BY <1>1, <1>5, <1>7
  <2>2. lcd_error' /\ lcd_error' \in BOOLEAN
    BY <1>5, <1>7
  <2>3. lcd' = lcd \/ (lcd = "asleep" /\ lcd' = "taken" /\ lcd_buf = {})
    BY <1>1, <1>2, <1>3, <1>7 DEF NapEnds
  <2> QED BY <1>4, <1>6, <2>1, <2>2, <2>3
<1>8. CASE t # lcd_show
  <2>1. nap'[lcd_show] = nap[lcd_show]
    BY <1>1, <1>5, <1>8
  <2>2. lcd_error' = lcd_error
    BY <1>1, <1>5, <1>8
  <2>3. lcd' = lcd
    BY <1>3, <1>8 DEF NapEnds
  <2> QED BY <1>1, <1>4, <1>6, <2>1, <2>2, <2>3
<1> QED BY <1>7, <1>8

\* lcd_show until it has something to pass on.
LEMMA LcdWaitsEffect ==
  ASSUME EarlyBounds, EarlyInv, LcdWaits
  PROVE  /\ UNCHANGED mq_tem_memlcd /\ lcd_error' \in BOOLEAN
         /\ \/ lcd = "loop" /\ lcd' = "called" /\ UNCHANGED <<memlcd_data_event, lcd_buf, lost>>
            \/ /\ lcd = "called" /\ nap[lcd_show] = 0 /\ UNCHANGED lost
               /\ lcd' = IF memlcd_data_event # {} THEN "taken" ELSE "suspended"
               /\ lcd_buf' = memlcd_data_event /\ memlcd_data_event' = {}
            \/ /\ lcd = "suspended" /\ lcd' = "asleep"
               /\ UNCHANGED <<memlcd_data_event, lcd_buf, lost>>
            \/ /\ lcd = "taken" /\ lcd' = "menu" /\ lcd_buf # {}
               /\ UNCHANGED <<memlcd_data_event, lcd_buf, lost>>
            \/ /\ lcd = "taken" /\ lcd' = "loop" /\ UNCHANGED <<memlcd_data_event, lcd_buf>>
               /\ lost' = IF FLAG2 \in lcd_buf THEN lost \cup {index} ELSE lost
            \/ lcd = "menu" /\ lcd' = "drawn" /\ UNCHANGED <<memlcd_data_event, lcd_buf, lost>>
<1>1. lcd_error \in BOOLEAN /\ ~ wave /\ lcd # "suspended_wave"
  BY Counts DEF Types
<1>2. CASE LcdCall
  BY <1>2 DEF LcdCall
<1>3. CASE LcdRecv
  BY <1>1, <1>3 DEF LcdRecv, LcdRuns, Awake
<1>4. CASE LcdSleep
  BY <1>1, <1>4 DEF LcdSleep
<1>5. CASE LcdReturn
  <2>1. lcd = "taken" /\ nap[lcd_show] = 0
    BY <1>5 DEF LcdReturn, LcdRuns, Awake
  <2>2. ~ lcd_error => lcd_buf # {}
    BY <2>1 DEF EarlyInv, MessagesInv, Awakening
  <2> QED BY <1>1, <1>5, <2>1, <2>2 DEF LcdReturn
<1>6. CASE LcdMenu
  BY <1>1, <1>6 DEF LcdMenu
<1> QED BY <1>2, <1>3, <1>4, <1>5, <1>6 DEF LcdWaits

\* lcd_show passes an announcement on, and a key's wake-up not.
LEMMA LcdPassEffect ==
  ASSUME EarlyBounds, EarlyInv, LcdPass
  PROVE  /\ lcd = "drawn" /\ lcd' = "loop"
         /\ UNCHANGED <<memlcd_data_event, lcd_buf, lcd_error, lost>>
         /\ \/ Passing /\ mq_tem_memlcd' = Append(mq_tem_memlcd, index)
            \/ ~ Passing /\ UNCHANGED mq_tem_memlcd
<1>1. lcd = "drawn" /\ lcd' = "loop" /\ UNCHANGED <<memlcd_data_event, lcd_buf, lcd_error, lost>>
  BY DEF LcdPass
<1>2. lcd_buf # {} /\ lcd_buf \subseteq {FLAG2, FLAG6} /\ FLAG2 # FLAG6
  BY <1>1, Counts DEF EarlyInv, MessagesInv, Awakening, Types, FLAG2, FLAG6
<1>3. CASE FLAG2 \in lcd_buf
  <2>1. Passing /\ InFlight = 1
    BY <1>1, <1>3 DEF Passing, InFlight
  <2>2. Ordered(taken, mq_tem_memlcd, lost, Handed)
    BY DEF EarlyInv, MessagesInv
  <2>3. /\ Len(mq_tem_memlcd) \in Nat /\ Len(taken) \in Nat
        /\ Len(taken) + Len(mq_tem_memlcd) <= Handed
    BY <2>2 DEF Ordered
  <2>4. /\ Handed = TemDone - 1 /\ TemDone \in Nat /\ TemDone <= TemSlots /\ TemSlots \in Nat
        /\ TemSlots <= BLOCKS /\ BLOCKS \in Nat
    BY <2>1, Counts DEF Progress, Handed
  <2>5. Len(mq_tem_memlcd) < LCDMSGS
    <3>1. Len(mq_tem_memlcd) < BLOCKS
      BY <2>3, <2>4
    <3> QED BY <2>3, <2>4, <3>1, Numbers DEF EarlyBounds
  <2>6. lcd_buf # {FLAG6}
    BY <1>2, <1>3
  <2> QED BY <1>1, <2>1, <2>5, <2>6 DEF LcdPass, Sent
<1>4. CASE FLAG2 \notin lcd_buf
  BY <1>1, <1>2, <1>4 DEF LcdPass, Passing
<1> QED BY <1>3, <1>4

LEMMA RelRecvEffect ==
  ASSUME EarlyBounds, EarlyInv, RelRecv
  PROVE  /\ release = "recv" /\ release' = "rows" /\ mq_tem_memlcd # <<>>
         /\ mq_tem_memlcd' = Tail(mq_tem_memlcd)
         /\ buf' = Head(mq_tem_memlcd) - 1 /\ row' = 0 /\ file' = <<>>
         /\ taken' = Append(taken, Head(mq_tem_memlcd))
         /\ UNCHANGED <<sd, tem_mp, ptr, ptr2, fault>>
<1>1. release = "recv" /\ mq_tem_memlcd # <<>>
  BY DEF RelRecv
<1>2. Head(mq_tem_memlcd) >= 1 /\ Head(mq_tem_memlcd) # 0
  <2>1. /\ mq_tem_memlcd \in Seq(Nat)
        /\ \A k \in 1 .. Len(mq_tem_memlcd) : 1 <= mq_tem_memlcd[k]
    BY DEF EarlyInv, MessagesInv, Ordered
  <2>2. 1 \in 1 .. Len(mq_tem_memlcd) /\ Head(mq_tem_memlcd) = mq_tem_memlcd[1]
        /\ mq_tem_memlcd[1] \in Nat
    BY <1>1, <2>1
  <2> QED BY <2>1, <2>2
<1> QED BY <1>1, <1>2 DEF RelRecv, store

LEMMA BufHeld ==
  ASSUME EarlyBounds, EarlyInv, release # "recv"
  PROVE  /\ buf \in Slots /\ buf \in Nat /\ buf < TemDone /\ buf < j /\ buf \notin SavedSlots
         /\ Start(buf) + mem_slice <= cnt /\ Start(buf) + mem_slice <= cnt2
         /\ ptr[buf] \in Blocks /\ ptr[buf] # Null /\ ptr2[buf] \in Blocks /\ ptr2[buf] # Null
<1>1. /\ buf \in Nat /\ buf < Handed /\ Handed \in Nat /\ Handed <= TemDone
      /\ TemDone <= TemSlots
      /\ TemDone \in Nat /\ TemSlots \in Nat /\ TemSlots <= BLOCKS /\ BLOCKS \in Nat
      /\ Start(TemDone) <= cnt /\ Start(TemDone) <= cnt2 /\ cnt \in Nat /\ cnt2 \in Nat
      /\ j \in Nat
  BY Counts DEF Progress, Types
<1>2. buf \in Slots /\ buf \notin SavedSlots /\ buf < TemDone
  BY <1>1, SavedIs
<1>3. /\ Start(buf) + mem_slice <= Start(TemDone) /\ Start(buf) \in Nat
      /\ Start(TemDone) \in Nat /\ mem_slice \in Nat \ {0}
  BY <1>1, <1>2, StartGrows, StartIs, Numbers
<1>4. buf < j
  <2>1. cnt2 <= Start(j) /\ Start(j) \in Nat
    <3>1. Start(j) \in Nat /\ Start(0) = 0 /\ (HumRead = cnt2 \/ HumRead = cnt2 + 1)
      BY <1>1, StartIs DEF HumRead
    <3>2. \/ cnt2 = Start(j)
          \/ j = 0 /\ HumRead = 0
          \/ HumRead <= Start(j)
      BY DEF EarlyInv, SlotsInv
    <3> QED BY <1>1, <3>1, <3>2
  <2>2. ~ (j <= buf)
    <3> SUFFICES ASSUME j <= buf PROVE FALSE
      BY <1>1
    <3>1. Start(j) <= Start(buf)
      BY <1>1, <1>3, <2>1, StartGrows
    <3> QED BY <1>1, <1>3, <2>1, <3>1
  <2> QED BY <1>1, <2>2
<1>5. ptr[buf] \in Blocks /\ ptr[buf] # Null
  BY <1>1, <1>2 DEF EarlyInv, TemInv
<1>6. ptr2[buf] \in Blocks /\ ptr2[buf] # Null
  BY <1>1, <1>2, <1>4 DEF EarlyInv, HumInv
<1> QED BY <1>1, <1>2, <1>3, <1>4, <1>5, <1>6

LEMMA RelRowEffect ==
  ASSUME EarlyBounds, EarlyInv, RelRow
  PROVE  /\ release = "rows" /\ release' = "rows" /\ row < mem_slice /\ row' = row + 1
         /\ file' = Append(file, [tem |-> temmempool[ptr[buf]][row],
                                  hum |-> hummempool[ptr2[buf]][row]])
         /\ UNCHANGED <<buf, taken, sd, tem_mp, ptr, ptr2, mq_tem_memlcd, fault>>
<1>1. release = "rows" /\ ptr[buf] # Null /\ ptr2[buf] # Null
  BY BufHeld DEF RelRow
<1> QED BY <1>1 DEF RelRow, store, lcdVars

LEMMA RelFreeEffect ==
  ASSUME EarlyBounds, EarlyInv, RelFree
  PROVE  /\ release = "rows" /\ release' = "clear" /\ row = mem_slice
         /\ tem_mp' = <<ptr[buf]>> \o tem_mp
         /\ UNCHANGED <<buf, row, taken, file, sd, ptr, ptr2, mq_tem_memlcd, fault>>
<1>1. release = "rows" /\ ptr[buf] # Null
  BY BufHeld DEF RelFree
<1> QED BY <1>1 DEF RelFree, lcdVars

LEMMA RelClearEffect ==
  ASSUME RelClear
  PROVE  /\ release = "clear" /\ release' = "recv"
         /\ ptr' = [ptr EXCEPT ![buf] = Null] /\ ptr2' = [ptr2 EXCEPT ![buf] = Null]
         /\ sd' = Append(sd, file)
         /\ UNCHANGED <<buf, row, taken, file, tem_mp, mq_tem_memlcd, fault>>
BY DEF RelClear, lcdVars

\* Only the end of a file adds a saved slot.
LEMMA SavedChange ==
  ASSUME EarlyBounds, EarlyInv, Next
  PROVE  /\ ~ RelClear => UNCHANGED SavedSlots
         /\ RelClear => SavedSlots' = SavedSlots \cup {buf} /\ Len(sd') = Len(sd) + 1
<1>1. /\ Len(sd) \in Nat /\ Len(taken) \in Nat /\ Len(sd) <= Len(taken)
      /\ taken \in Seq(Nat)
  BY Counts DEF EarlyInv, MessagesInv, Ordered
<1>2. CASE ~ RelClear /\ ~ RelRecv
  <2>1. UNCHANGED <<sd, taken>>
    BY <1>2, RecevLeaves, InputsLeave, RelRowEffect, RelFreeEffect DEF Next, RelStep
  <2> QED BY <1>2, <2>1 DEF SavedSlots, Saved
<1>3. CASE RelRecv
  <2>1. taken' = Append(taken, Head(mq_tem_memlcd)) /\ sd' = sd /\ ~ RelClear
    BY <1>3, RelRecvEffect DEF RelClear
  <2>2. \A g \in 1 .. Len(sd) : taken'[g] = taken[g]
    BY <1>1, <2>1
  <2> QED BY <2>1, <2>2 DEF SavedSlots, Saved
<1>4. CASE RelClear
  <2>1. release = "clear" /\ sd' = Append(sd, file) /\ taken' = taken
    BY <1>4, RelClearEffect
  <2>2. Len(sd') = Len(sd) + 1
    BY <2>1 DEF EarlyInv, FileInv
  <2>3. buf = taken[Len(sd) + 1] - 1 /\ buf \in Slots /\ buf \in Nat /\ Len(taken) = Len(sd) + 1
    BY <2>1, BufHeld DEF EarlyInv, MessagesInv
  <2>4. taken[Len(sd) + 1] = buf + 1
    <3>1. taken[Len(sd) + 1] \in Nat
      BY <1>1, <2>3
    <3> QED BY <2>3, <3>1
  <2>5. \A s \in Slots : Saved(s + 1)' <=> Saved(s + 1) \/ s = buf
    <3>1. \A g \in 1 .. Len(sd) + 1 : g = Len(sd) + 1 \/ g \in 1 .. Len(sd)
      BY <1>1
    <3>2. Len(sd) + 1 \in 1 .. Len(sd) + 1 /\ 1 .. Len(sd) \subseteq 1 .. Len(sd) + 1
      BY <1>1
    <3>3. \A s \in Slots : buf + 1 = s + 1 <=> s = buf
      BY <2>3 DEF Slots
    <3> QED BY <2>1, <2>2, <2>4, <3>1, <3>2, <3>3 DEF Saved
  <2> QED BY <1>4, <2>2, <2>3, <2>5 DEF SavedSlots
<1> QED BY <1>2, <1>3, <1>4
-----------------------------------------------------------------------------
(* The parts of the invariant, step by step. *)

\* How far recevDHT11 is after each of its steps.
LEMMA Reads ==
  ASSUME EarlyBounds, EarlyInv, RecevStep
  PROVE  /\ HumRead' = IF RecvHum /\ mq_DHT11_hum # <<>> THEN HumRead + 1 ELSE HumRead
         /\ TemRead' = IF RecvTem /\ mq_DHT11_tem # <<>> THEN TemRead + 1 ELSE TemRead
         /\ TemSlots' = IF AllocTem THEN TemSlots + 1 ELSE TemSlots
<1> USE DEF TemRead, HumRead, TemSlots, InTem, InHum
<1>0. cnt \in Nat /\ cnt2 \in Nat /\ i \in Nat
  BY Counts DEF Types
<1>1. CASE RecvHum
  <2>1. ~ RecvTem /\ ~ AllocTem
    BY <1>1 DEF RecvHum, RecvTem, AllocTem
  <2> QED BY <1>0, <1>1, <2>1, RecvHumEffect
<1>2. CASE AllocHum
  <2>1. ~ RecvHum /\ ~ RecvTem /\ ~ AllocTem
    BY <1>2 DEF AllocHum, RecvHum, RecvTem, AllocTem
  <2> QED BY <1>0, <1>2, <2>1, AllocHumEffect
<1>3. CASE StoreHum
  <2>1. ~ RecvHum /\ ~ RecvTem /\ ~ AllocTem
    BY <1>3 DEF StoreHum, RecvHum, RecvTem, AllocTem
  <2> QED BY <1>0, <1>3, <2>1, StoreHumEffect
<1>4. CASE RecvTem
  <2>1. ~ RecvHum /\ ~ AllocTem
    BY <1>4 DEF RecvTem, RecvHum, AllocTem
  <2> QED BY <1>0, <1>4, <2>1, RecvTemEffect
<1>5. CASE AllocTem
  <2>1. ~ RecvHum /\ ~ RecvTem
    BY <1>5 DEF AllocTem, RecvHum, RecvTem
  <2> QED BY <1>0, <1>5, <2>1, AllocTemEffect
<1>6. CASE SendTem
  <2>1. ~ RecvHum /\ ~ RecvTem /\ ~ AllocTem
    BY <1>6 DEF SendTem, RecvHum, RecvTem, AllocTem
  <2> QED BY <1>0, <1>6, <2>1, SendTemEffect
<1>7. CASE NextTem
  <2>1. ~ RecvHum /\ ~ RecvTem /\ ~ AllocTem
    BY <1>7 DEF NextTem, RecvHum, RecvTem, AllocTem
  <2> QED BY <1>0, <1>7, <2>1 DEF NextTem
<1>8. CASE StoreTem
  <2>1. ~ RecvHum /\ ~ RecvTem /\ ~ AllocTem
    BY <1>8 DEF StoreTem, RecvHum, RecvTem, AllocTem
  <2> QED BY <1>0, <1>8, <2>1, StoreTemEffect
<1> QED BY <1>1, <1>2, <1>3, <1>4, <1>5, <1>6, <1>7, <1>8 DEF RecevStep

LEMMA ReadsKept ==
  ASSUME timeout1 \/ Key \/ Naps \/ LcdStep \/ RelStep
  PROVE  UNCHANGED <<HumRead, TemRead, TemSlots, TemDone, HumDone, InTem, InHum>>
BY OthersLeave DEF HumRead, TemRead, TemSlots, TemDone, HumDone, InTem, InHum

LEMMA TypesStep == ASSUME EarlyBounds, EarlyInv, Next PROVE Types'
<1>0. Types
  BY Counts
<1>1. /\ samples' \in Nat /\ keys' \in Nat /\ samples' <= MaxSamples /\ keys' <= MaxKeys
      /\ ~ wave' /\ nap' \in [Nappers -> 0 .. 2]
  <2>1. CASE timeout1
    <3>1. /\ samples' = samples + 1 /\ samples < MaxSamples /\ UNCHANGED <<keys, wave>>
          /\ nap' = [t \in Nappers |-> IF Awake(t) THEN 0 ELSE nap[t] + 1]
          /\ \A t \in Nappers : nap[t] < 2
      BY <2>1 DEF timeout1, lcdVars
    <3>2. \A t \in Nappers : (IF Awake(t) THEN 0 ELSE nap[t] + 1) \in 0 .. 2
      BY <1>0, <3>1 DEF Types, Awake
    <3> QED BY <1>0, <3>1, <3>2, Numbers DEF Types
  <2>2. CASE Key
    BY <1>0, <2>2, KeyEffect, Numbers DEF Types
  <2>3. CASE Naps
    BY <1>0, <2>3, NapsEffect DEF Types
  <2>4. CASE (RecevStep \/ LcdStep \/ RelStep) /\ ~ SendTem
    BY <1>0, <2>4, ThreadsLeave DEF Types
  <2>5. CASE SendTem
    <3>1. UNCHANGED <<samples, keys, wave>>
      BY <2>5, ThreadsLeave DEF RecevStep
    <3>2. nap' \in {nap, [nap EXCEPT ![lcd_show] = 0]}
      BY <2>5, SendTemEffect
    <3>3. nap' \in [Nappers -> 0 .. 2]
      BY <1>0, <3>2 DEF Types
    <3> QED BY <1>0, <3>1, <3>3 DEF Types
  <2> QED BY <2>1, <2>2, <2>3, <2>4, <2>5 DEF Next
<1>2. /\ cnt' \in Nat /\ cnt2' \in Nat /\ i' \in Nat /\ j' \in Nat
      /\ recev' \in RecevStates /\ index' \in Nat
  <2>1. CASE RecevStep
    <3> USE <1>0 DEF Types, RecevStates
    <3>1. CASE RecvHum
      BY <3>1, RecvHumEffect, RecevLeaves DEF RecevStep, RecvHum, AllocHum, AllocTem
    <3>2. CASE AllocHum
      BY <3>2, AllocHumEffect
    <3>3. CASE StoreHum
      BY <3>3, StoreHumEffect DEF StoreHum
    <3>4. CASE RecvTem
      BY <3>4, RecvTemEffect DEF RecvTem
    <3>5. CASE AllocTem
      BY <3>5, AllocTemEffect
    <3>6. CASE SendTem
      BY <3>6, SendTemEffect DEF SendTem
    <3>7. CASE NextTem
      BY <3>7 DEF NextTem
    <3>8. CASE StoreTem
      BY <3>8, StoreTemEffect DEF StoreTem
    <3> QED BY <2>1, <3>1, <3>2, <3>3, <3>4, <3>5, <3>6, <3>7, <3>8 DEF RecevStep
  <2>2. CASE timeout1 \/ Key \/ Naps \/ LcdStep \/ RelStep
    BY <1>0, <2>2, OthersLeave DEF Types
  <2> QED BY <2>1, <2>2 DEF Next
<1>3. /\ lcd' \in {"loop", "called", "suspended", "asleep", "taken", "menu", "drawn"}
      /\ lcd_error' \in BOOLEAN
      /\ memlcd_data_event' \subseteq {FLAG2, FLAG6} /\ lcd_buf' \subseteq {FLAG2, FLAG6}
  <2>1. CASE SendTem
    BY <1>0, <2>1, SendTemEffect, RecevLeaves DEF Types, RecevStep
  <2>2. CASE RecevStep /\ ~ SendTem
    BY <1>0, <2>2, RecevLeaves DEF Types
  <2>3. CASE Key
    BY <1>0, <2>3, KeyEffect DEF Types
  <2>4. CASE LcdStep
    <3>1. CASE LcdWaits
      BY <1>0, <3>1, LcdWaitsEffect DEF Types
    <3>2. CASE LcdPass
      BY <1>0, <3>2, LcdPassEffect DEF Types
    <3> QED BY <2>4, <3>1, <3>2 DEF LcdStep, LcdWaits
  <2>5. CASE timeout1 \/ RelStep
    BY <1>0, <2>5, AnnouncingLeaves DEF Types
  <2>6. CASE Naps
    BY <1>0, <2>6, NapsEffect DEF Types
  <2> QED BY <2>1, <2>2, <2>3, <2>4, <2>5, <2>6 DEF Next
<1>4. release' \in {"recv", "rows", "clear"}
  <2>1. CASE RelStep
    BY <2>1, RelRecvEffect, RelRowEffect, RelFreeEffect, RelClearEffect DEF RelStep
  <2>2. CASE RecevStep
    BY <1>0, <2>2, RecevLeaves DEF Types
  <2>3. CASE timeout1 \/ Key \/ Naps \/ LcdStep
    BY <1>0, <2>3, InputsLeave DEF Types
  <2> QED BY <2>1, <2>2, <2>3 DEF Next
<1>5. fault' = "none"
  <2>1. CASE RelStep
    BY <1>0, <2>1, RelRecvEffect, RelRowEffect, RelFreeEffect, RelClearEffect DEF RelStep, Types
  <2>2. CASE RecevStep
    <3>1. CASE StoreTem
      BY <1>0, <3>1, StoreTemEffect DEF Types
    <3>2. CASE ~ StoreTem
      BY <1>0, <2>2, <3>2 DEF Types, RecevStep, RecvHum, AllocHum, StoreHum, RecvTem,
                              AllocTem, SendTem, NextTem
    <3> QED BY <3>1, <3>2
  <2>3. CASE timeout1 \/ Key \/ Naps \/ LcdStep
    BY <1>0, <2>3, InputsLeave DEF Types
  <2> QED BY <2>1, <2>2, <2>3 DEF Next
<1> QED BY <1>1, <1>2, <1>3, <1>4, <1>5 DEF Types

LEMMA AppendIs ==
  ASSUME NEW S, NEW q \in Seq(S), NEW e \in S, NEW p, p = Append(q, e)
  PROVE  /\ p \in Seq(S) /\ Len(p) = Len(q) + 1 /\ p[Len(q) + 1] = e /\ Len(q) \in Nat
         /\ \A k \in 1 .. Len(q) : p[k] = q[k]
         /\ \A k \in 1 .. Len(p) : k = Len(q) + 1 \/ k \in 1 .. Len(q)
OBVIOUS

LEMMA QueueAppend ==
  ASSUME NEW q, NEW read \in Nat, NEW n \in Nat, Queued(q, read, n), Len(q) < MSGS,
         NEW p, p = Sent(q, n + 1, MSGS)
  PROVE  Queued(p, read, n + 1)
<1>1. p = Append(q, n + 1) /\ q \in Seq(Nat) /\ Len(q) = n - read /\ Len(q) \in Nat
  BY DEF Sent, Queued
<1>2. \A k \in 1 .. Len(q) : q[k] = read + k
  BY DEF Queued
<1>3. n + 1 \in Nat /\ q \in Seq(Nat) /\ p = Append(q, n + 1)
  BY <1>1
<1>4. /\ p \in Seq(Nat) /\ Len(p) = Len(q) + 1 /\ p[Len(q) + 1] = n + 1
      /\ \A k \in 1 .. Len(q) : p[k] = q[k]
      /\ \A k \in 1 .. Len(p) : k = Len(q) + 1 \/ k \in 1 .. Len(q)
  BY ONLY <1>3, AppendIs
<1>5. ASSUME NEW k \in 1 .. Len(p) PROVE p[k] = read + k
  <2>1. k = Len(q) + 1 \/ k \in 1 .. Len(q)
    BY <1>4
  <2> QED BY <1>1, <1>2, <1>4, <2>1
<1> QED BY <1>1, <1>4, <1>5 DEF Queued

LEMMA QueueTail ==
  ASSUME NEW q, NEW read \in Nat, NEW n \in Nat, Queued(q, read, n), q # <<>>
  PROVE  Queued(Tail(q), read + 1, n) /\ Head(q) = read + 1 /\ read < n
<1>1. q \in Seq(Nat) /\ Len(q) = n - read /\ Len(q) > 0
  BY DEF Queued
<1>2. /\ Tail(q) \in Seq(Nat) /\ Len(Tail(q)) = Len(q) - 1 /\ Head(q) = q[1]
      /\ \A k \in 1 .. Len(Tail(q)) : Tail(q)[k] = q[k + 1] /\ k + 1 \in 1 .. Len(q)
  BY <1>1
<1>3. Head(q) = read + 1
  BY <1>1, <1>2 DEF Queued
<1>4. ASSUME NEW k \in 1 .. Len(Tail(q)) PROVE Tail(q)[k] = (read + 1) + k
  BY <1>1, <1>2 DEF Queued
<1> QED BY <1>1, <1>2, <1>3, <1>4 DEF Queued

LEMMA QueuesStep == ASSUME EarlyBounds, EarlyInv, Next PROVE QueuesInv'
<1>0. /\ Types /\ QueuesInv /\ TemRead \in Nat /\ HumRead \in Nat /\ samples \in Nat
      /\ TemRead <= samples /\ HumRead <= samples /\ MaxBacklog \in Nat /\ recev \in RecevStates
      /\ Queued(mq_DHT11_tem, TemRead, samples) /\ Queued(mq_DHT11_hum, HumRead, samples)
      /\ Len(mq_DHT11_tem) = samples - TemRead /\ Len(mq_DHT11_hum) = samples - HumRead
      /\ samples - TemRead <= MaxBacklog + 1
  BY Counts, Numbers DEF EarlyInv, Progress, QueuesInv, Queued, Types
<1>1. CASE timeout1
  <2>1. /\ samples' = samples + 1 /\ Len(mq_DHT11_tem) <= MaxBacklog
        /\ mq_DHT11_tem' = Sent(mq_DHT11_tem, samples + 1, MSGS)
        /\ mq_DHT11_hum' = Sent(mq_DHT11_hum, samples + 1, MSGS)
    BY <1>1 DEF timeout1
  <2>2. TemRead - 1 <= HumRead
    BY <1>0 DEF QueuesInv, RecevStates, InTem, InHum
  <2>3. Len(mq_DHT11_tem) < MSGS /\ Len(mq_DHT11_hum) < MSGS
    BY <1>0, <2>1, <2>2, Numbers DEF EarlyBounds
  <2>4. Queued(mq_DHT11_tem, TemRead, samples)' /\ Queued(mq_DHT11_hum, HumRead, samples)'
    <3>1. UNCHANGED <<TemRead, HumRead>>
      BY <1>1, ReadsKept
    <3>2. Queued(mq_DHT11_tem', TemRead, samples + 1)
      BY <1>0, <2>1, <2>3, QueueAppend
    <3>3. Queued(mq_DHT11_hum', HumRead, samples + 1)
      BY <1>0, <2>1, <2>3, QueueAppend
    <3> QED BY <2>1, <3>1, <3>2, <3>3
  <2>5. UNCHANGED <<recev, tem_get, hum_get, TemRead, HumRead, InTem, InHum>>
    BY <1>1, OthersLeave, ReadsKept
  <2>6. samples' - TemRead' <= MaxBacklog + 1
    BY <1>0, <2>1, <2>5
  <2> QED BY <1>0, <2>4, <2>5, <2>6 DEF QueuesInv
<1>2. CASE Key \/ Naps \/ LcdStep \/ RelStep
  <2>1. UNCHANGED <<samples, mq_DHT11_tem, mq_DHT11_hum>>
    BY <1>2, KeyEffect, ThreadsLeave, QueuesLeave DEF Key, Naps, NapEnds, sampling, Next,
       LcdStep, LcdCall, LcdRecv, LcdSleep, LcdReturn, LcdMenu, LcdPass, RelStep, RelRecv, RelRow, RelFree, RelClear
  <2>2. UNCHANGED <<recev, tem_get, hum_get, TemRead, HumRead, InTem, InHum>>
    BY <1>2, OthersLeave, ReadsKept
  <2> QED BY <1>0, <2>1, <2>2 DEF QueuesInv, Queued
<1>3. CASE RecvHum
  <2>0. UNCHANGED <<samples, mq_DHT11_tem, tem_get>> /\ recev = "hum" /\ ~ InTem /\ ~ InTem'
    BY <1>3, RecvHumEffect DEF RecvHum, InTem
  <2>1. TemRead' = TemRead
    <3>1. ~ RecvTem
      BY <2>0 DEF RecvTem
    <3> QED BY <1>3, <3>1, Reads DEF RecevStep
  <2>2. HumRead \in {TemRead - 1, TemRead}
    BY <1>0, <2>0 DEF QueuesInv
  <2>3. CASE mq_DHT11_hum = <<>>
    <3>1. recev' = "tem" /\ UNCHANGED <<hum_get, mq_DHT11_hum>> /\ ~ InHum'
      BY <1>3, <2>3, RecvHumEffect DEF InHum
    <3>2. HumRead' = HumRead
      BY <1>3, <2>3, Reads DEF RecevStep
    <3>3. HumRead = TemRead
      BY <1>0, <2>2, <2>3
    <3> QED BY <1>0, <2>0, <2>1, <3>1, <3>2, <3>3 DEF QueuesInv, Queued
  <2>4. CASE mq_DHT11_hum # <<>>
    <3>1. /\ recev' \in {"alloc_hum", "store_hum"} /\ hum_get' = Head(mq_DHT11_hum)
          /\ mq_DHT11_hum' = Tail(mq_DHT11_hum) /\ InHum'
      BY <1>3, <2>4, RecvHumEffect DEF InHum
    <3>2. HumRead' = HumRead + 1
      BY <1>3, <2>4, Reads DEF RecevStep
    <3>3. Queued(Tail(mq_DHT11_hum), HumRead + 1, samples) /\ Head(mq_DHT11_hum) = HumRead + 1
      BY <1>0, <2>4, QueueTail
    <3>4. Queued(mq_DHT11_hum, HumRead, samples)' /\ Queued(mq_DHT11_tem, TemRead, samples)'
      BY <1>0, <2>0, <2>1, <3>1, <3>2, <3>3 DEF Queued
    <3> QED BY <1>0, <2>0, <2>1, <2>2, <3>1, <3>2, <3>3, <3>4 DEF QueuesInv
  <2> QED BY <2>3, <2>4
<1>4. CASE RecvTem
  <2>0. UNCHANGED <<samples, mq_DHT11_hum, hum_get>> /\ recev = "tem" /\ ~ InHum /\ ~ InHum'
    BY <1>4, RecvTemEffect DEF RecvTem, InHum
  <2>1. HumRead' = HumRead
    <3>1. ~ RecvHum
      BY <2>0 DEF RecvHum
    <3> QED BY <1>4, <3>1, Reads DEF RecevStep
  <2>2. HumRead \in {TemRead, TemRead + 1}
    BY <1>0, <2>0 DEF QueuesInv
  <2>3. CASE mq_DHT11_tem = <<>>
    <3>1. recev' = "hum" /\ UNCHANGED <<tem_get, mq_DHT11_tem>> /\ ~ InTem'
      BY <1>4, <2>3, RecvTemEffect DEF InTem
    <3>2. TemRead' = TemRead
      BY <1>4, <2>3, Reads DEF RecevStep
    <3>3. HumRead = TemRead
      BY <1>0, <2>2, <2>3
    <3> QED BY <1>0, <2>0, <2>1, <3>1, <3>2, <3>3 DEF QueuesInv, Queued
  <2>4. CASE mq_DHT11_tem # <<>>
    <3>1. /\ recev' \in {"alloc_tem", "store_tem"} /\ tem_get' = Head(mq_DHT11_tem)
          /\ mq_DHT11_tem' = Tail(mq_DHT11_tem) /\ InTem'
      BY <1>4, <2>4, RecvTemEffect DEF InTem
    <3>2. TemRead' = TemRead + 1
      BY <1>4, <2>4, Reads DEF RecevStep
    <3>3. Queued(Tail(mq_DHT11_tem), TemRead + 1, samples) /\ Head(mq_DHT11_tem) = TemRead + 1
      BY <1>0, <2>4, QueueTail
    <3>4. Queued(mq_DHT11_hum, HumRead, samples)' /\ Queued(mq_DHT11_tem, TemRead, samples)'
      BY <1>0, <2>0, <2>1, <3>1, <3>2, <3>3 DEF Queued
    <3> QED BY <1>0, <2>0, <2>1, <2>2, <3>1, <3>2, <3>3, <3>4 DEF QueuesInv
  <2> QED BY <2>3, <2>4
<1>5. CASE RecevStep /\ ~ RecvHum /\ ~ RecvTem
  <2>1. UNCHANGED <<samples, mq_DHT11_tem, mq_DHT11_hum, TemRead, HumRead>>
    BY <1>5, ThreadsLeave, QueuesLeave, Reads DEF Next, timeout1, RecevStep, AllocHum,
       StoreHum, AllocTem, SendTem, NextTem, StoreTem, sampling
  <2>2. /\ UNCHANGED <<tem_get, hum_get>>
        /\ \/ recev = "alloc_hum" /\ recev' = "store_hum"
           \/ recev = "store_hum" /\ recev' = "tem"
           \/ InTem /\ recev' \in {"send_tem", "next_tem", "store_tem"}
           \/ recev = "store_tem" /\ recev' = "hum"
    BY <1>5 DEF RecevStep, AllocHum, StoreHum, AllocTem, SendTem, NextTem, StoreTem, locals,
       InTem
  <2>3. Queued(mq_DHT11_hum, HumRead, samples)' /\ Queued(mq_DHT11_tem, TemRead, samples)'
    BY <1>0, <2>1 DEF Queued
  <2> USE DEF InTem, InHum
  <2> QED BY <1>0, <2>1, <2>2, <2>3 DEF QueuesInv
<1> QED BY <1>1, <1>2, <1>3, <1>4, <1>5 DEF Next

LEMMA SlotsStep == ASSUME EarlyBounds, EarlyInv, Next PROVE SlotsInv'
<1>0. /\ cnt \in Nat /\ cnt2 \in Nat /\ i \in Nat /\ j \in Nat /\ SlotsInv
      /\ recev \in RecevStates /\ mem_slice \in Nat \ {0}
      /\ Start(i) \in Nat /\ Start(j) \in Nat /\ Start(i + 1) = Start(i) + mem_slice
      /\ Start(j + 1) = Start(j) + mem_slice
  <2>1. /\ cnt \in Nat /\ cnt2 \in Nat /\ i \in Nat /\ j \in Nat /\ SlotsInv
        /\ recev \in RecevStates /\ mem_slice \in Nat \ {0}
    BY Counts, Numbers DEF Types, EarlyInv
  <2>2. i \in Int /\ j \in Int
    BY <2>1
  <2> QED BY <2>1, <2>2, StartIs
<1>1. CASE timeout1 \/ Key \/ Naps \/ LcdStep \/ RelStep
  <2>1. UNCHANGED <<recev, i, j, cnt, cnt2, HumRead, TemRead>>
    BY <1>1, OthersLeave, ReadsKept
  <2> QED BY <1>0, <2>1 DEF SlotsInv
<1>2. CASE RecvHum
  <2>1. recev = "hum" /\ UNCHANGED <<i, j, cnt, cnt2>> /\ HumRead = cnt2 /\ TemRead = cnt
    BY <1>2, RecvHumEffect DEF HumRead, TemRead, InHum, InTem
  <2>2. TemRead' = TemRead
    BY <2>1, <1>2, Reads DEF RecevStep, RecvTem
  <2>3. /\ recev' \in {"tem", "alloc_hum", "store_hum"}
        /\ recev' = "tem" => HumRead' = cnt2
        /\ recev' = "alloc_hum" => cnt2 = Start(j)
        /\ recev' = "store_hum" => /\ HumRead' = cnt2 + 1 /\ j > 0
                                   /\ Start(j - 1) < cnt2 /\ cnt2 < Start(j)
    BY <1>2, <2>1, RecvHumEffect DEF HumRead, InHum
  <2>4. j > 0 => Start(j - 1) \in Int
    BY <1>0, StartIs
  <2>5. /\ recev' \notin {"alloc_tem", "send_tem", "next_tem"}
        /\ \/ i = 0 /\ TemRead = 0
           \/ i > 0 /\ Start(i - 1) < TemRead /\ TemRead <= Start(i)
    BY <1>0, <2>1, <2>3 DEF SlotsInv
  <2>6. recev' = "alloc_hum" => cnt2' = Start(j')
    BY <2>1, <2>3
  <2>7. recev' # "alloc_hum" =>
          \/ j = 0 /\ HumRead' = 0
          \/ j > 0 /\ Start(j - 1) < HumRead' /\ HumRead' <= Start(j)
    <3>1. CASE recev' = "tem"
      BY <1>0, <2>1, <2>3, <3>1 DEF SlotsInv
    <3>2. CASE recev' = "store_hum"
      BY <1>0, <2>1, <2>3, <2>4, <3>2
    <3> QED BY <2>3, <3>1, <3>2
  <2> QED BY <2>1, <2>2, <2>5, <2>6, <2>7 DEF SlotsInv
<1>3. CASE AllocHum
  <2>1. /\ recev = "alloc_hum" /\ recev' = "store_hum" /\ UNCHANGED <<i, cnt, cnt2, TemRead>>
        /\ j' = j + 1 /\ HumRead' = cnt2 + 1
    BY <1>3, AllocHumEffect, Reads DEF HumRead, InHum, RecevStep, RecvTem
  <2>2. cnt2 = Start(j) /\ j' - 1 = j
    BY <1>0, <2>1 DEF SlotsInv
  <2>3. j' > 0 /\ Start(j' - 1) < HumRead' /\ HumRead' <= Start(j')
    BY <1>0, <2>1, <2>2
  <2> QED BY <1>0, <2>1, <2>3 DEF SlotsInv
<1>4. CASE StoreHum
  <2>1. recev = "store_hum" /\ recev' = "tem" /\ UNCHANGED <<i, j, cnt, TemRead, HumRead>>
    BY <1>4, StoreHumEffect, Reads DEF RecevStep, RecvTem, RecvHum
  <2> QED BY <1>0, <2>1 DEF SlotsInv
<1>5. CASE RecvTem
  <2>1. recev = "tem" /\ UNCHANGED <<i, j, cnt, cnt2>> /\ HumRead = cnt2 /\ TemRead = cnt
    BY <1>5, RecvTemEffect DEF HumRead, TemRead, InHum, InTem
  <2>2. HumRead' = HumRead
    BY <2>1, <1>5, Reads DEF RecevStep, RecvHum
  <2>3. /\ recev' \in {"hum", "alloc_tem", "store_tem"}
        /\ recev' = "hum" => TemRead' = cnt
        /\ recev' = "alloc_tem" => cnt = Start(i)
        /\ recev' = "store_tem" => /\ TemRead' = cnt + 1 /\ i > 0
                                   /\ Start(i - 1) < cnt /\ cnt < Start(i)
    BY <1>5, <2>1, RecvTemEffect DEF TemRead, InTem
  <2>4. i > 0 => Start(i - 1) \in Int
    BY <1>0, StartIs
  <2>5. recev' \notin {"alloc_tem", "send_tem", "next_tem"} =>
          \/ i = 0 /\ TemRead' = 0
          \/ i > 0 /\ Start(i - 1) < TemRead' /\ TemRead' <= Start(i)
    <3>1. CASE recev' = "hum"
      BY <1>0, <2>1, <2>3, <3>1 DEF SlotsInv
    <3>2. CASE recev' = "store_tem"
      BY <1>0, <2>1, <2>3, <2>4, <3>2
    <3> QED BY <2>3, <3>1, <3>2
  <2>6. recev' \in {"alloc_tem", "send_tem", "next_tem"} => cnt' = Start(i')
    BY <2>1, <2>3
  <2>7. /\ recev' # "alloc_hum"
        /\ \/ j = 0 /\ HumRead = 0
           \/ j > 0 /\ Start(j - 1) < HumRead /\ HumRead <= Start(j)
    BY <1>0, <2>1, <2>3 DEF SlotsInv
  <2> QED BY <2>1, <2>2, <2>5, <2>6, <2>7 DEF SlotsInv
<1>6. CASE AllocTem \/ SendTem
  <2>1. /\ recev \in {"alloc_tem", "send_tem"} /\ recev' \in {"send_tem", "next_tem"}
        /\ UNCHANGED <<i, j, cnt, cnt2, HumRead, TemRead>>
    BY <1>6, AllocTemEffect, SendTemEffect, Reads DEF RecevStep, RecvTem, RecvHum
  <2> QED BY <1>0, <2>1 DEF SlotsInv
<1>7. CASE NextTem
  <2>1. /\ recev = "next_tem" /\ recev' = "store_tem" /\ i' = i + 1
        /\ UNCHANGED <<j, cnt, cnt2, HumRead>> /\ TemRead' = cnt + 1
    BY <1>7, Reads DEF NextTem, RecevStep, RecvHum, TemRead, InTem
  <2>2. cnt = Start(i) /\ i' - 1 = i
    BY <1>0, <2>1 DEF SlotsInv
  <2>3. i' > 0 /\ Start(i' - 1) < TemRead' /\ TemRead' <= Start(i')
    BY <1>0, <2>1, <2>2
  <2> QED BY <1>0, <2>1, <2>3 DEF SlotsInv
<1>8. CASE StoreTem
  <2>1. recev = "store_tem" /\ recev' = "hum" /\ UNCHANGED <<i, j, cnt2, TemRead, HumRead>>
    BY <1>8, StoreTemEffect, Reads DEF RecevStep, RecvTem, RecvHum
  <2> QED BY <1>0, <2>1 DEF SlotsInv
<1> QED BY <1>1, <1>2, <1>3, <1>4, <1>5, <1>6, <1>7, <1>8 DEF Next, RecevStep

\* recevDHT11 sends no announcement while lcd_show has one, and runs during one
\* only while a key keeps lcd_show asleep.
LEMMA RecevWaits ==
  ASSUME EarlyBounds, EarlyInv, RecevStep, Pending \/ Passing
  PROVE  /\ nap[lcd_show] # 0 /\ ~ SendTem
         /\ AllocTem => i = 0
         /\ UNCHANGED <<Pending, Passing, TemDone, Limit, samples, nap, keys>>
<1>1. lcd # "asleep"
  <2>1. lcd \in {"suspended", "asleep"} => memlcd_data_event = {}
    BY DEF EarlyInv, MessagesInv, Awakening
  <2> QED BY <2>1 DEF Pending, Passing
<1>2. lcd # "asleep_wave"
  BY Counts DEF Types
<1>3. nap[lcd_show] # 0
  BY <1>1, <1>2, RecevLeaves DEF Awake
<1>4. ~ SendTem
  BY DEF SendTem, EarlyInv, MessagesInv, Awakening
<1>5. UNCHANGED <<Pending, Passing, samples, nap, keys>>
  BY <1>4, RecevLeaves, ThreadsLeave DEF Pending, Passing
<1>6. AllocTem => i = 0
  <2> SUFFICES ASSUME AllocTem, i # 0 PROVE FALSE
    OBVIOUS
  <2>1. recev = "alloc_tem" /\ i \in Nat
    BY Counts, AllocTemEffect DEF Types
  <2>2. TemDone = i - 1 /\ TemRead = Start(i) + 1
    BY <2>1 DEF TemDone, TemSlots, TemRead, InTem, EarlyInv, SlotsInv
  <2>3. TemDone + 1 = i /\ Start(i) \in Nat
    BY <2>1, <2>2, StartIs
  <2>4. TemRead <= Limit /\ Limit \in Int /\ Limit <= Start(TemDone + 1)
    BY Counts DEF Progress
  <2> QED BY <2>2, <2>3, <2>4
<1>7. UNCHANGED TemDone
  <2>1. CASE AllocTem
    <3>1. i = 0 /\ TemSlots = 0 /\ TemSlots' = 1
      BY <1>6, <2>1, AllocTemEffect, Reads DEF TemSlots
    <3> QED BY <3>1 DEF TemDone
  <2>2. CASE ~ AllocTem
    <3>1. TemSlots' = TemSlots
      BY <2>2, Reads
    <3> QED BY <3>1 DEF TemDone
  <2> QED BY <2>1, <2>2
<1>8. UNCHANGED Limit
  BY <1>5, <1>7 DEF Limit
<1> QED BY <1>3, <1>4, <1>5, <1>6, <1>7, <1>8

\* The steps that neither bring an announcement nor pass it on.
LEMMA FlightKept ==
  ASSUME EarlyBounds, EarlyInv,
         timeout1 \/ Naps \/ RelStep \/ Key \/ LcdCall \/ LcdSleep \/ LcdMenu
  PROVE  UNCHANGED <<Pending, Passing>>
<1> USE DEF Pending, Passing
<1>1. CASE timeout1 \/ RelStep
  BY <1>1, AnnouncingLeaves
<1>2. CASE Naps
  BY <1>2, NapsEffect
<1>3. CASE Key
  <2>1. FLAG2 # FLAG6
    BY DEF FLAG2, FLAG6
  <2> QED BY <1>3, <2>1, KeyEffect
<1>4. CASE LcdCall
  BY <1>4 DEF LcdCall
<1>5. CASE LcdSleep
  <2>1. lcd # "suspended_wave"
    BY Counts DEF Types
  <2> QED BY <1>5, <2>1 DEF LcdSleep
<1>6. CASE LcdMenu
  <2>1. ~ wave
    BY Counts DEF Types
  <2> QED BY <1>6, <2>1 DEF LcdMenu
<1> QED BY <1>1, <1>2, <1>3, <1>4, <1>5, <1>6

\* An announcement lcd_show has or gets was there before.
LEMMA FlightOnly ==
  ASSUME EarlyBounds, EarlyInv, LcdStep
  PROVE  Pending' \/ Passing' => Pending \/ Passing
<1>1. CASE LcdWaits
  BY <1>1, LcdWaitsEffect DEF Pending, Passing
<1>2. CASE LcdPass
  BY <1>2, LcdPassEffect DEF Pending, Passing
<1> QED BY <1>1, <1>2 DEF LcdStep, LcdWaits

LEMMA TimelyStep == ASSUME EarlyBounds, EarlyInv, Next PROVE TimelyInv'
<1>0. /\ samples \in Nat /\ keys \in Nat /\ nap \in [Nappers -> 0 .. 2]
      /\ nap[lcd_show] \in 0 .. 2 /\ lcd_show \in Nappers
      /\ TemRead \in Nat /\ HumRead \in Nat /\ TemRead <= samples /\ HumRead <= samples
      /\ samples <= TemRead + MaxBacklog + 1 /\ MaxBacklog \in Nat /\ Limit \in Int
      /\ nap[lcd_show] # 0 => keys >= 1
      /\ TemDone \in Nat /\ Start(TemDone) \in Nat
      /\ Slack(keys) \in Nat /\ Slack(keys + 1) = Slack(keys) + MaxBacklog + 2
  <2>1. /\ samples \in Nat /\ keys \in Nat /\ nap \in [Nappers -> 0 .. 2]
        /\ lcd_show \in Nappers
    BY Counts DEF Types, Nappers
  <2>2. /\ TemRead \in Nat /\ HumRead \in Nat /\ TemRead <= samples /\ HumRead <= samples
        /\ Limit \in Int /\ TemDone \in Nat
    BY Counts DEF Progress
  <2>3. samples - TemRead <= MaxBacklog + 1 /\ MaxBacklog \in Nat
    BY Numbers DEF EarlyInv, QueuesInv
  <2>4. nap[lcd_show] # 0 => keys >= 1
    BY DEF EarlyInv, TimelyInv
  <2>5. /\ Start(TemDone) \in Nat /\ Slack(keys) \in Nat
        /\ Slack(keys + 1) = Slack(keys) + MaxBacklog + 2
    BY <2>1, <2>2, StartIs, SlackIs
  <2> QED BY <2>1, <2>2, <2>3, <2>4, <2>5
<1>1. CASE timeout1
  <2>1. UNCHANGED <<TemRead, HumRead, TemDone, Pending, Passing, keys>>
    BY <1>1, ReadsKept, AnnouncingLeaves DEF Pending, Passing
  <2>2. /\ samples' = samples + 1
        /\ nap[lcd_show] = 0 => nap'[lcd_show] = 0
        /\ nap[lcd_show] # 0 => nap'[lcd_show] = nap[lcd_show] + 1
    BY <1>0, <1>1 DEF timeout1, Awake
  <2>3. Limit' = Limit
    BY <2>1 DEF Limit
  <2> QED BY <1>0, <2>1, <2>2, <2>3 DEF TimelyInv, EarlyInv
<1>2. CASE Key
  <2>1. UNCHANGED <<TemRead, HumRead, TemDone, Pending, Passing, samples>> /\ keys' = keys + 1
    BY <1>2, ReadsKept, FlightKept, KeyEffect
  <2>2. /\ \/ nap'[lcd_show] \in {0, nap[lcd_show]}
           \/ nap[lcd_show] = 0 /\ nap'[lcd_show] = 1
        /\ Pending \/ Passing => \/ nap'[lcd_show] = nap[lcd_show]
                                 \/ nap[lcd_show] = 0 /\ nap'[lcd_show] = 1
    <3>1. Pending \/ Passing => lcd \notin {"suspended", "asleep"}
      BY DEF EarlyInv, MessagesInv, Awakening, Pending, Passing
    <3> QED BY <1>2, <3>1, KeyEffect
  <2>3. Limit' = Limit + MaxBacklog + 2
    <3>1. Limit' = Start(TemDone) + 1 + Slack(keys + 1)
      BY <2>1 DEF Limit
    <3> QED BY <1>0, <3>1 DEF Limit
  <2>4. nap'[lcd_show] # 0 => keys' >= 1
    BY <1>0, <2>1, <2>2
  <2>5. ASSUME Pending \/ Passing
        PROVE  /\ nap'[lcd_show] = 0 => TemRead <= Limit' /\ HumRead <= Limit'
               /\ nap'[lcd_show] # 0 => samples + 2 - nap'[lcd_show] <= Limit'
    <3>1. /\ nap[lcd_show] = 0 => TemRead <= Limit /\ HumRead <= Limit
          /\ nap[lcd_show] # 0 => samples + 2 - nap[lcd_show] <= Limit
      BY <2>5 DEF EarlyInv, TimelyInv
    <3>2. CASE nap'[lcd_show] = nap[lcd_show]
      BY <1>0, <2>3, <3>1, <3>2
    <3>3. CASE nap[lcd_show] = 0 /\ nap'[lcd_show] = 1
      BY <1>0, <2>3, <3>1, <3>3
    <3> QED BY <2>2, <2>5, <3>2, <3>3
  <2> QED BY <2>1, <2>4, <2>5 DEF TimelyInv
<1>3. CASE Naps
  <2>1. UNCHANGED <<TemRead, HumRead, TemDone, Pending, Passing, keys, samples>>
    BY <1>3, ReadsKept, FlightKept, NapsEffect
  <2>2. nap'[lcd_show] = nap[lcd_show] \/ nap'[lcd_show] = 0
    BY <1>3, NapsEffect
  <2>3. Limit' = Limit
    BY <2>1 DEF Limit
  <2>4. ASSUME Pending \/ Passing PROVE TemRead <= Limit /\ HumRead <= Limit
    BY <2>4, Counts DEF Progress
  <2> QED BY <1>0, <2>1, <2>2, <2>3, <2>4 DEF TimelyInv, EarlyInv
<1>4. CASE LcdStep \/ RelStep
  <2>1. UNCHANGED <<TemRead, HumRead, TemDone, keys, samples, nap>>
    <3>1. ~ SendTem
      <4>1. recev' = recev
        BY <1>4, OthersLeave
      <4> QED BY <4>1 DEF SendTem
    <3> QED BY <1>4, <3>1, ReadsKept, ThreadsLeave
  <2>2. Limit' = Limit
    BY <2>1 DEF Limit
  <2>3. Pending' \/ Passing' => Pending \/ Passing
    BY <1>4, FlightOnly, FlightKept
  <2> QED BY <1>0, <2>1, <2>2, <2>3 DEF TimelyInv, EarlyInv
<1>5. CASE RecevStep /\ (Pending \/ Passing)
  <2>1. nap[lcd_show] # 0 /\ UNCHANGED <<Pending, Passing, Limit, samples, nap, keys>>
    BY <1>5, RecevWaits
  <2> QED BY <1>0, <1>5, <2>1 DEF TimelyInv, EarlyInv
<1>6. CASE RecevStep /\ ~ Pending /\ ~ Passing /\ ~ SendTem
  <2>1. UNCHANGED <<Pending, Passing, nap, keys>>
    BY <1>6, RecevLeaves, ThreadsLeave DEF Pending, Passing
  <2> QED BY <1>0, <1>6, <2>1 DEF TimelyInv
<1>7. CASE SendTem
  <2>1. /\ UNCHANGED <<TemRead, HumRead, TemSlots, TemDone, samples, keys>>
        /\ nap'[lcd_show] \in {nap[lcd_show], 0}
    <3>1. UNCHANGED <<TemRead, HumRead, TemSlots>>
      BY <1>7, Reads DEF RecevStep, SendTem, RecvHum, RecvTem, AllocTem
    <3>2. nap'[lcd_show] \in {nap[lcd_show], 0}
      BY <1>0, <1>7, SendTemEffect
    <3> QED BY <1>7, <3>1, <3>2, ThreadsLeave DEF TemDone, RecevStep
  <2>2. Limit' = Limit
    BY <2>1 DEF Limit
  <2>3. TemRead = Start(TemDone) + 1 /\ HumRead <= TemRead
    <3>1. recev = "send_tem" /\ i \in Nat
      BY <1>7, Counts DEF SendTem, Types
    <3>2. TemDone = i /\ TemRead = Start(i) + 1
      BY <3>1 DEF TemDone, TemSlots, TemRead, InTem, EarlyInv, SlotsInv
    <3>3. HumRead \in {TemRead - 1, TemRead}
      BY <3>1 DEF EarlyInv, QueuesInv, InTem
    <3> QED BY <1>0, <3>2, <3>3
  <2>4. TemRead <= Limit /\ HumRead <= Limit
    BY <1>0, <2>3 DEF Limit
  <2>5. nap[lcd_show] # 0 => samples + 2 - nap[lcd_show] <= Limit
    <3> SUFFICES ASSUME nap[lcd_show] # 0 PROVE samples + 2 - nap[lcd_show] <= Limit
      OBVIOUS
    <3>1. keys - 1 \in Nat /\ keys - 1 + 1 = keys
      BY <1>0
    <3>2. Slack(keys - 1) \in Nat /\ Slack(keys - 1 + 1) = Slack(keys - 1) + MaxBacklog + 2
      BY <3>1, SlackIs
    <3>3. Slack(keys) >= MaxBacklog + 2
      BY <1>0, <3>1, <3>2
    <3> QED BY <1>0, <2>3, <3>3 DEF Limit
  <2> QED BY <1>0, <2>1, <2>2, <2>4, <2>5 DEF TimelyInv
<1> QED BY <1>1, <1>2, <1>3, <1>4, <1>5, <1>6, <1>7 DEF Next

LEMMA MessagesKept ==
  ASSUME EarlyInv, Awakening', Ordered(taken, mq_tem_memlcd, lost, Handed)',
         UNCHANGED <<TemDone, HumDone, index>>, InFlight' = 1 => InFlight = 1,
         release' = "recv" => Len(taken') = Len(sd'),
         release' # "recv" => Len(taken') = Len(sd') + 1 /\ buf' = taken'[Len(sd') + 1] - 1
  PROVE  MessagesInv'
BY DEF EarlyInv, MessagesInv

\* lcd_show and the keys, as far as announcements go.
LEMMA AwakeningStep ==
  ASSUME EarlyBounds, EarlyInv, Next, ~ AllocTem, ~ SendTem
  PROVE  Awakening'
<1>0. Awakening /\ FLAG2 # FLAG6
  BY DEF EarlyInv, MessagesInv, FLAG2, FLAG6
<1>1. CASE RecevStep
  <2>1. UNCHANGED <<memlcd_data_event, lcd, lcd_buf, lcd_error, nap, Pending, Passing>>
    BY <1>1, RecevLeaves, ThreadsLeave DEF Pending, Passing
  <2>2. recev' # "send_tem"
    BY <1>1 DEF RecevStep, RecvHum, AllocHum, StoreHum, RecvTem, NextTem, StoreTem
  <2> QED BY <1>0, <2>1, <2>2 DEF Awakening
<1>2. CASE RelStep
  <2>1. UNCHANGED <<memlcd_data_event, lcd, lcd_buf, lcd_error, nap, Pending, Passing, recev, i>>
    BY <1>2, OthersLeave, AnnouncingLeaves, ThreadsLeave DEF Pending, Passing
  <2> QED BY <1>0, <2>1 DEF Awakening
<1>3. CASE timeout1
  <2>1. UNCHANGED <<memlcd_data_event, lcd, lcd_buf, lcd_error, Pending, Passing, recev, i>>
    BY <1>3, OthersLeave, AnnouncingLeaves DEF Pending, Passing
  <2>2. nap'[lcd_show] = 0 <=> nap[lcd_show] = 0
    <3>1. nap[lcd_show] \in Nat /\ lcd_show \in Nappers
      BY Counts DEF Types, Nappers
    <3> QED BY <1>3, <3>1 DEF timeout1, Awake
  <2> QED BY <1>0, <2>1, <2>2 DEF Awakening
<1>4. CASE Key
  <2>1. UNCHANGED <<recev, i, Pending, Passing>>
    BY <1>4, OthersLeave, FlightKept
  <2>2. /\ lcd' \in {"suspended", "asleep"} => memlcd_data_event' = {}
        /\ lcd' \in {"menu", "drawn"} => lcd_buf' # {}
    BY <1>0, <1>4, KeyEffect DEF Awakening
  <2>3. /\ lcd' = "suspended" => nap'[lcd_show] = 0 /\ lcd_buf' = {}
        /\ lcd' = "asleep" => lcd_buf' = {}
    BY <1>0, <1>4, KeyEffect DEF Awakening
  <2>4. lcd' = "taken" /\ lcd_buf' = {} => lcd_error' \/ nap'[lcd_show] # 0
    BY <1>0, <1>4, KeyEffect DEF Awakening
  <2> QED BY <1>0, <2>1, <2>2, <2>3, <2>4 DEF Awakening
<1>5. CASE Naps
  <2>1. UNCHANGED <<recev, i, Pending, Passing>>
    BY <1>5, OthersLeave, FlightKept
  <2>2. /\ lcd' \in {"suspended", "asleep"} => memlcd_data_event' = {}
        /\ lcd' \in {"menu", "drawn"} => lcd_buf' # {}
        /\ lcd' = "suspended" => nap'[lcd_show] = 0 /\ lcd_buf' = {}
        /\ lcd' = "asleep" => lcd_buf' = {}
    BY <1>0, <1>5, NapsEffect DEF Awakening
  <2>3. lcd' = "taken" /\ lcd_buf' = {} => lcd_error' \/ nap'[lcd_show] # 0
    BY <1>0, <1>5, NapsEffect DEF Awakening
  <2> QED BY <1>0, <2>1, <2>2, <2>3 DEF Awakening
<1>6. CASE LcdWaits
  <2>1. UNCHANGED <<recev, i>> /\ (Pending' \/ Passing' => Pending \/ Passing)
        /\ ~ (Pending' /\ Passing') /\ nap' = nap
    <3>1. LcdStep
      BY <1>6 DEF LcdStep, LcdWaits
    <3>2. ~ (Pending' /\ Passing')
      BY <1>0, <1>6, LcdWaitsEffect DEF Pending, Passing, Awakening
    <3> QED BY <3>1, <3>2, OthersLeave, FlightOnly, ThreadsLeave
  <2>2. /\ lcd' \in {"suspended", "asleep"} => memlcd_data_event' = {}
        /\ lcd' \in {"menu", "drawn"} => lcd_buf' # {}
        /\ lcd' = "suspended" => nap[lcd_show] = 0 /\ lcd_buf' = {}
        /\ lcd' = "asleep" => lcd_buf' = {}
        /\ lcd' = "taken" => lcd_buf' # {}
    BY <1>0, <1>6, LcdWaitsEffect DEF Awakening
  <2> QED BY <1>0, <2>1, <2>2 DEF Awakening
<1>7. CASE LcdPass
  <2>1. UNCHANGED <<recev, i, Pending>> /\ ~ Passing'
    BY <1>7, OthersLeave, LcdPassEffect DEF LcdStep, Pending, Passing
  <2> QED BY <1>0, <1>7, <2>1, LcdPassEffect DEF Awakening
<1> QED BY <1>1, <1>2, <1>3, <1>4, <1>5, <1>6, <1>7 DEF Next, LcdStep, LcdWaits

\* What lcd_show does with an announcement before it passes it on: nothing, or it
\* loses it.
LEMMA FlightEnds ==
  ASSUME EarlyBounds, EarlyInv, LcdWaits
  PROVE  \/ lost' = lost /\ InFlight' = InFlight
         \/ lost' = lost \cup {index} /\ InFlight = 1 /\ InFlight' = 0
<1>1. recev' = recev
  <2>1. LcdStep
    BY DEF LcdStep, LcdWaits
  <2> QED BY <2>1, OthersLeave
<1>2. Passing => ~ Pending /\ recev # "send_tem"
  BY DEF EarlyInv, MessagesInv, Awakening
<1>3. CASE lcd = "taken" /\ lcd' = "loop" /\ FLAG2 \in lcd_buf
  <2>1. Passing /\ ~ Passing' /\ Pending' = Pending /\ lost' = lost \cup {index}
    BY <1>3, LcdWaitsEffect DEF Passing, Pending
  <2> QED BY <1>1, <1>2, <2>1 DEF InFlight
<1>4. CASE ~ (lcd = "taken" /\ lcd' = "loop" /\ FLAG2 \in lcd_buf)
  <2>1. lost' = lost /\ (Pending' \/ Passing' <=> Pending \/ Passing)
    BY <1>4, LcdWaitsEffect DEF Passing, Pending
  <2> QED BY <1>1, <2>1 DEF InFlight
<1> QED BY <1>3, <1>4

LEMMA MessagesStep == ASSUME EarlyBounds, EarlyInv, Next PROVE MessagesInv'
<1>0. /\ i \in Nat /\ j \in Nat /\ index \in Nat /\ cnt2 \in Nat
      /\ TemDone \in Nat /\ HumDone \in Nat /\ Len(sd) \in Nat /\ Handed \in Nat
      /\ InFlight \in {0, 1} /\ Handed = TemDone - InFlight
      /\ Ordered(taken, mq_tem_memlcd, lost, Handed)
      /\ taken \in Seq(Nat) /\ mq_tem_memlcd \in Seq(Nat)
      /\ index >= TemDone /\ index >= HumDone /\ index \in {TemDone, HumDone}
      /\ InFlight = 1 => index = TemDone
      /\ release = "recv" => Len(taken) = Len(sd)
      /\ release # "recv" => Len(taken) = Len(sd) + 1 /\ buf = taken[Len(sd) + 1] - 1
  <2>1. /\ i \in Nat /\ j \in Nat /\ index \in Nat /\ cnt2 \in Nat
        /\ TemDone \in Nat /\ HumDone \in Nat /\ Len(sd) \in Nat /\ Handed \in Nat
        /\ InFlight \in {0, 1}
    BY Counts DEF Types, Progress
  <2> QED BY <2>1 DEF EarlyInv, MessagesInv, Handed, Ordered
<1>1. CASE timeout1 \/ Naps \/ Key \/ LcdWaits
  <2>0. timeout1 \/ Naps \/ Key \/ LcdStep
    BY <1>1 DEF LcdStep, LcdWaits
  <2>1. UNCHANGED <<TemDone, HumDone, recev, index, release, buf, sd, taken>>
    BY <2>0, OthersLeave, ReadsKept, InputsLeave
  <2>2. mq_tem_memlcd' = mq_tem_memlcd
    BY <1>1, KeyEffect, NapsEffect, LcdWaitsEffect DEF timeout1, lcdVars
  <2>3. Awakening'
    <3>1. AllocTem \/ SendTem => recev' # recev
      BY DEF AllocTem, SendTem
    <3> QED BY <2>0, <2>1, <3>1, AwakeningStep DEF Next
  <2>4. \/ lost' = lost /\ InFlight' = InFlight
        \/ lost' = lost \cup {index} /\ InFlight = 1 /\ InFlight' = 0
    <3>1. CASE LcdWaits
      BY <3>1, FlightEnds
    <3>2. CASE timeout1 \/ Naps \/ Key
      <4>1. lost' = lost
        BY <3>2, AnnouncingLeaves, KeyEffect, NapsEffect
      <4> QED BY <2>1, <3>2, <4>1, FlightKept DEF InFlight
    <3> QED BY <1>1, <3>1, <3>2
  <2>5. CASE lost' = lost /\ InFlight' = InFlight
    <3>1. Handed' = Handed
      BY <2>1, <2>5 DEF Handed
    <3>2. Ordered(taken, mq_tem_memlcd, lost, Handed)'
      BY <1>0, <2>1, <2>2, <2>5, <3>1 DEF Ordered
    <3> QED BY <1>0, <2>1, <2>3, <2>5, <3>2, MessagesKept
  <2>6. CASE lost' = lost \cup {index} /\ InFlight = 1 /\ InFlight' = 0
    <3>1. index = Handed + 1
      BY <1>0, <2>6
    <3>2. Handed' = Handed + 1
      <4>1. Handed' = TemDone - 0
        BY <2>1, <2>6 DEF Handed
      <4> QED BY <1>0, <2>6, <4>1
    <3>3. Ordered(taken, mq_tem_memlcd, lost \cup {Handed + 1}, Handed + 1)
      BY <1>0, OrderedLose
    <3>4. Ordered(taken, mq_tem_memlcd, lost, Handed)'
      BY <2>1, <2>2, <2>6, <3>1, <3>2, <3>3 DEF Ordered
    <3> QED BY <1>0, <2>1, <2>3, <2>6, <3>4, MessagesKept
  <2> QED BY <2>4, <2>5, <2>6
<1>2. CASE LcdPass
  <2>1. UNCHANGED <<TemDone, HumDone, recev, index, release, buf, sd, taken>>
    BY <1>2, OthersLeave, ReadsKept, InputsLeave DEF LcdStep
  <2>2. ~ AllocTem /\ ~ SendTem
    BY <2>1 DEF AllocTem, SendTem
  <2>3. Awakening'
    BY <1>2, <2>2, AwakeningStep DEF Next, LcdStep
  <2>4. Pending' = Pending /\ ~ Passing' /\ lost' = lost
    BY <1>2, LcdPassEffect DEF Pending, Passing
  <2>5. CASE Passing
    <3>1. InFlight = 1 /\ InFlight' = 0 /\ mq_tem_memlcd' = Append(mq_tem_memlcd, index)
      BY <1>2, <2>1, <2>4, <2>5, LcdPassEffect DEF InFlight, EarlyInv, MessagesInv, Awakening
    <3>2. index = Handed + 1
      BY <1>0, <3>1
    <3>3. Handed' = Handed + 1
      <4>1. Handed' = TemDone - 0
        BY <2>1, <3>1 DEF Handed
      <4> QED BY <1>0, <3>1, <4>1
    <3>4. Ordered(taken, mq_tem_memlcd', lost, Handed + 1)
      BY <1>0, <3>1, <3>2, OrderedPass
    <3>5. Ordered(taken, mq_tem_memlcd, lost, Handed)'
      BY <2>1, <2>4, <3>3, <3>4 DEF Ordered
    <3> QED BY <1>0, <2>1, <2>3, <3>1, <3>5, MessagesKept
  <2>6. CASE ~ Passing
    <3>1. InFlight' = InFlight /\ mq_tem_memlcd' = mq_tem_memlcd
      BY <1>2, <2>1, <2>4, <2>6, LcdPassEffect DEF InFlight
    <3>2. Handed' = Handed
      BY <2>1, <3>1 DEF Handed
    <3>3. Ordered(taken, mq_tem_memlcd, lost, Handed)'
      BY <1>0, <2>1, <2>4, <3>1, <3>2 DEF Ordered
    <3> QED BY <1>0, <2>1, <2>3, <3>1, <3>3, MessagesKept
  <2> QED BY <2>5, <2>6
<1>3. CASE RelStep
  <2>1. UNCHANGED <<TemDone, HumDone, recev, index, lost>>
    BY <1>3, OthersLeave, ReadsKept, AnnouncingLeaves
  <2>2. ~ AllocTem /\ ~ SendTem
    BY <2>1 DEF AllocTem, SendTem
  <2>3. Awakening'
    BY <1>3, <2>2, AwakeningStep DEF Next
  <2>4. InFlight' = InFlight /\ Handed' = Handed
    <3>1. InFlight' = InFlight
      BY <1>3, <2>1, FlightKept DEF InFlight
    <3> QED BY <2>1, <3>1 DEF Handed
  <2>5. CASE RelRecv
    <3>1. /\ release = "recv" /\ release' # "recv" /\ mq_tem_memlcd # <<>>
          /\ mq_tem_memlcd' = Tail(mq_tem_memlcd) /\ buf' = Head(mq_tem_memlcd) - 1
          /\ taken' = Append(taken, Head(mq_tem_memlcd)) /\ sd' = sd
      BY <2>5, RelRecvEffect
    <3>2. Ordered(taken', mq_tem_memlcd', lost, Handed)
      BY <1>0, <3>1, OrderedTake
    <3>3. Ordered(taken, mq_tem_memlcd, lost, Handed)'
      BY <2>1, <2>4, <3>2 DEF Ordered
    <3>4. Len(taken') = Len(sd') + 1 /\ taken'[Len(sd') + 1] = Head(mq_tem_memlcd)
      BY <1>0, <3>1
    <3> QED BY <1>0, <2>1, <2>3, <2>4, <3>1, <3>3, <3>4, MessagesKept
  <2>6. CASE RelRow \/ RelFree
    <3>1. /\ release # "recv" /\ release' # "recv"
          /\ UNCHANGED <<buf, taken, sd, mq_tem_memlcd>>
      BY <2>6, RelRowEffect, RelFreeEffect
    <3>2. Ordered(taken, mq_tem_memlcd, lost, Handed)'
      BY <1>0, <2>1, <2>4, <3>1 DEF Ordered
    <3> QED BY <1>0, <2>1, <2>3, <2>4, <3>1, <3>2, MessagesKept
  <2>7. CASE RelClear
    <3>1. Len(sd') = Len(sd) + 1
      BY <2>7, SavedChange
    <3>2. release # "recv" /\ release' = "recv" /\ UNCHANGED <<mq_tem_memlcd, taken>>
      BY <2>7, RelClearEffect
    <3>3. Ordered(taken, mq_tem_memlcd, lost, Handed)'
      BY <1>0, <2>1, <2>4, <3>2 DEF Ordered
    <3> QED BY <1>0, <2>1, <2>3, <2>4, <3>1, <3>2, <3>3, MessagesKept
  <2> QED BY <1>3, <2>5, <2>6, <2>7 DEF RelStep
<1>4. CASE RecevStep
  <2>1. UNCHANGED <<release, buf, sd, mq_tem_memlcd, taken, lost>>
    BY <1>4, RecevLeaves
  <2>0. ASSUME Handed' = Handed PROVE Ordered(taken, mq_tem_memlcd, lost, Handed)'
    BY <1>0, <2>0, <2>1 DEF Ordered
  <2>2. CASE ~ AllocHum /\ ~ AllocTem /\ ~ SendTem
    <3>1. index' = index /\ TemSlots' = TemSlots /\ j' = j
      BY <1>4, <2>2, RecevLeaves, Reads, RecvHumEffect, StoreHumEffect, RecvTemEffect,
         StoreTemEffect DEF RecevStep, NextTem
    <3>2. UNCHANGED <<TemDone, HumDone>>
      BY <3>1 DEF TemDone, HumDone
    <3>3. recev # "send_tem" /\ recev' # "send_tem" /\ UNCHANGED <<Pending, Passing>>
      BY <1>4, <2>2, RecevLeaves DEF RecevStep, RecvHum, StoreHum, RecvTem, NextTem, StoreTem,
         Pending, Passing
    <3>4. InFlight' = InFlight /\ Handed' = Handed
      BY <3>2, <3>3 DEF InFlight, Handed
    <3>5. Awakening'
      BY <1>4, <2>2, AwakeningStep DEF Next
    <3> QED BY <1>0, <2>0, <2>1, <3>1, <3>2, <3>4, <3>5, MessagesKept
  <2>3. CASE AllocHum
    <3>1. /\ recev = "alloc_hum" /\ recev' = "store_hum" /\ j' = j + 1
          /\ index' = IF j # 0 THEN j ELSE index
          /\ UNCHANGED <<TemSlots, TemDone>> /\ ~ AllocTem /\ ~ SendTem
      <4>1. ~ AllocTem /\ ~ SendTem
        BY <2>3 DEF AllocHum, AllocTem, SendTem
      <4> QED BY <1>4, <2>3, <4>1, AllocHumEffect, Reads DEF TemDone
    <3>2. UNCHANGED <<Pending, Passing, InFlight, Handed>>
      BY <1>4, <3>1, RecevLeaves DEF Pending, Passing, InFlight, Handed
    <3>3. HumDone' = j
      BY <1>0, <3>1 DEF HumDone
    <3>4. cnt2 = Start(j) /\ Start(TemDone) <= cnt2
      BY <3>1, Counts DEF EarlyInv, SlotsInv, Progress
    <3>5. TemDone <= j
      <4>1. Start(TemDone) \in Nat /\ Start(j) \in Nat /\ mem_slice \in Nat \ {0}
        BY <1>0, StartIs, Numbers
      <4>2. ~ (j < TemDone)
        BY <1>0, <3>4, <4>1, StartGrows
      <4> QED BY <1>0, <4>2
    <3>6. InFlight = 1 => j <= TemDone
      <4> SUFFICES ASSUME InFlight = 1 PROVE j <= TemDone
        OBVIOUS
      <4>1. Pending \/ Passing
        BY <3>1 DEF InFlight
      <4>2. HumRead <= Limit /\ Limit \in Int /\ Limit <= Start(TemDone + 1)
        BY <4>1, Counts DEF Progress
      <4>3. HumRead = Start(j) + 1 /\ Start(j) \in Nat /\ Start(TemDone + 1) \in Nat
        BY <1>0, <3>1, <3>4, StartIs DEF HumRead, InHum
      <4>4. Start(j) < Start(TemDone + 1)
        BY <4>2, <4>3
      <4>5. ~ (TemDone + 1 <= j)
        <5>1. TemDone + 1 < j => Start(TemDone + 1) + mem_slice <= Start(j)
          BY <1>0, StartGrows
        <5>2. TemDone + 1 = j => Start(TemDone + 1) = Start(j)
          OBVIOUS
        <5>3. mem_slice \in Nat \ {0}
          BY Numbers
        <5> HIDE DEF Start
        <5>4. j \in Nat /\ TemDone \in Nat
          BY <1>0
        <5> QED BY <4>3, <4>4, <5>1, <5>2, <5>3, <5>4
      <4> QED BY <1>0, <4>5
    <3>7. /\ index' >= TemDone /\ index' >= j /\ index' \in {TemDone, j}
          /\ InFlight = 1 => index' = TemDone
      <4>1. CASE j # 0
        BY <1>0, <3>1, <3>5, <3>6, <4>1
      <4>2. CASE j = 0
        <5>1. TemDone = 0 /\ HumDone = 0
          BY <1>0, <3>5, <4>2 DEF HumDone
        <5> QED BY <1>0, <3>1, <4>2, <5>1
      <4> QED BY <4>1, <4>2
    <3>8. Awakening'
      BY <1>4, <3>1, AwakeningStep DEF Next
    <3>9. Ordered(taken, mq_tem_memlcd, lost, Handed)'
      BY <2>0, <3>2
    <3> QED BY <1>0, <2>1, <3>1, <3>2, <3>3, <3>7, <3>8, <3>9 DEF MessagesInv
  <2>4. CASE AllocTem
    <3>1. /\ recev = "alloc_tem" /\ recev' = IF i # 0 THEN "send_tem" ELSE "next_tem"
          /\ index' = IF i # 0 THEN i ELSE index
          /\ UNCHANGED <<i, j, HumDone>> /\ TemSlots = i /\ TemSlots' = i + 1
      BY <1>4, <2>4, AllocTemEffect, Reads DEF TemSlots, HumDone
    <3>2. /\ TemDone' = i /\ TemDone = IF i = 0 THEN 0 ELSE i - 1
      BY <1>0, <3>1 DEF TemDone
    <3>3. UNCHANGED <<memlcd_data_event, lcd, lcd_buf, lcd_error, nap, Pending, Passing>>
      <4>1. ~ SendTem
        BY <3>1 DEF SendTem
      <4> QED BY <1>4, <4>1, RecevLeaves, ThreadsLeave DEF Pending, Passing
    <3>4. i # 0 => ~ Pending /\ ~ Passing
      BY <1>4, <2>4, RecevWaits
    <3>5. InFlight' = IF i # 0 THEN 1 ELSE InFlight
      BY <3>1, <3>3 DEF InFlight
    <3>6. i # 0 => InFlight = 0
      BY <3>1, <3>4 DEF InFlight
    <3>7. Awakening'
      BY <3>1, <3>3, <3>4 DEF EarlyInv, MessagesInv, Awakening
    <3>8. HumDone <= i
      <4>1. TemRead = Start(i) + 1 /\ HumRead \in {TemRead - 1, TemRead} /\ ~ InHum
        BY <3>1 DEF EarlyInv, SlotsInv, QueuesInv, TemRead, InTem, InHum
      <4>2. Start(i) \in Nat /\ mem_slice \in Nat \ {0}
        BY <1>0, StartIs, Numbers
      <4>3. CASE j > 0
        <5>1. Start(j - 1) < HumRead /\ j - 1 \in Nat
          BY <1>0, <3>1, <4>3 DEF EarlyInv, SlotsInv
        <5>2. Start(j - 1) \in Nat
          BY <5>1, StartIs
        <5>3. Start(j - 1) <= Start(i)
          BY <4>1, <4>2, <5>1, <5>2
        <5>4. ~ (i < j - 1)
          BY <1>0, <4>2, <5>1, <5>2, <5>3, StartGrows
        <5> QED BY <1>0, <4>3, <5>4 DEF HumDone
      <4>4. CASE j = 0
        BY <1>0, <4>4 DEF HumDone
      <4> QED BY <1>0, <4>3, <4>4
    <3>9. Ordered(taken, mq_tem_memlcd, lost, Handed)'
      <4>1. CASE i # 0
        <5>1. Handed' = i - 1 /\ Handed = i - 1 - 0
          BY <3>2, <3>5, <3>6, <4>1 DEF Handed
        <5>2. Handed' = Handed
          BY <1>0, <5>1
        <5> QED BY <2>0, <5>2
      <4>2. CASE i = 0
        <5>1. Handed' = Handed
          BY <3>2, <3>5, <4>2 DEF Handed
        <5> QED BY <2>0, <5>1
      <4> QED BY <4>1, <4>2
    <3>10. /\ index' >= i /\ index' >= HumDone /\ index' \in {i, HumDone}
           /\ InFlight' = 1 => index' = i
      <4>1. CASE i # 0
        BY <1>0, <3>1, <3>8, <4>1
      <4>2. CASE i = 0
        BY <1>0, <3>1, <3>2, <3>5, <4>2
      <4> QED BY <4>1, <4>2
    <3> QED BY <1>0, <2>1, <3>1, <3>2, <3>7, <3>9, <3>10 DEF MessagesInv
  <2>5. CASE SendTem
    <3>1. /\ recev = "send_tem" /\ recev' = "next_tem" /\ index' = index
          /\ UNCHANGED <<HumDone, TemSlots, TemDone>>
      <4>1. TemSlots' = TemSlots /\ j' = j
        BY <2>5, <1>4, SendTemEffect, Reads DEF AllocTem, SendTem
      <4> QED BY <2>5, <4>1 DEF SendTem, TemDone, HumDone, store
    <3>2. ~ Pending /\ ~ Passing /\ Awakening /\ InFlight = 1
      BY <3>1 DEF EarlyInv, MessagesInv, Awakening, InFlight
    <3>3. (Pending' /\ ~ Passing') \/ (~ Pending' /\ Passing')
      BY <2>5, <3>2, SendTemEffect DEF Pending, Passing
    <3>4. InFlight' = 1 /\ Handed' = Handed
      BY <3>1, <3>2, <3>3 DEF InFlight, Handed
    <3>5. Awakening'
      <4>1. lcd_error' = lcd_error
        BY <2>5, RecevLeaves DEF RecevStep
      <4>2. CASE lcd = "asleep" /\ lcd' = "taken" /\ lcd_buf' = {FLAG2}
        BY <3>1, <3>3, <4>2 DEF Awakening
      <4>3. CASE lcd # "asleep" /\ lcd # "suspended" /\ UNCHANGED <<lcd, lcd_buf, nap>>
        BY <3>1, <3>2, <3>3, <4>1, <4>3 DEF Awakening
      <4> QED BY <2>5, <4>2, <4>3, SendTemEffect
    <3>6. Ordered(taken, mq_tem_memlcd, lost, Handed)'
      BY <2>0, <3>4
    <3> QED BY <1>0, <2>1, <3>1, <3>2, <3>4, <3>5, <3>6, MessagesKept
  <2> QED BY <2>2, <2>3, <2>4, <2>5
<1> QED BY <1>1, <1>2, <1>3, <1>4 DEF Next, LcdStep, LcdWaits

\* The steps that leave the temperature slots as they are.
LEMMA TemKept ==
  ASSUME EarlyBounds, EarlyInv, Next, ~ AllocTem, ~ RelFree, ~ RelClear
  PROVE  UNCHANGED <<tem_mp, ptr, ptr2, sd, SavedSlots, TemSlots, Freed, Held>> \/ AllocHum
<1> SUFFICES ASSUME ~ AllocHum PROVE UNCHANGED <<tem_mp, ptr, ptr2, sd, SavedSlots, TemSlots, Freed, Held>>
  OBVIOUS
<1>0. SavedSlots' = SavedSlots
  BY SavedChange
<1>1. CASE RecevStep
  <2>1. TemSlots' = TemSlots
    BY <1>1, Reads
  <2> QED BY <1>0, <1>1, <2>1, RecevLeaves DEF Freed, Held
<1>2. CASE timeout1 \/ Key \/ Naps \/ LcdStep
  BY <1>0, <1>2, InputsLeave, ReadsKept DEF Freed, Held
<1>3. CASE RelRecv \/ RelRow
  <2>1. TemSlots' = TemSlots
    BY <1>3, ReadsKept DEF RelStep
  <2> QED BY <1>0, <1>3, <2>1, RelRecvEffect, RelRowEffect DEF Freed, Held
<1> QED BY <1>1, <1>2, <1>3 DEF Next, RelStep

\* The slot of a new block was empty.
LEMMA TemSlotFree ==
  ASSUME EarlyBounds, EarlyInv, AllocTem
  PROVE  /\ i \in Slots /\ i \notin Freed /\ ptr[i] = Null /\ TemSlots = i /\ TemSlots' = i + 1
         /\ i \notin SavedSlots /\ UNCHANGED <<sd, release, buf, SavedSlots, Freed, Held>>
<1>1. i \in Slots /\ TemSlots = i /\ TemSlots' = i + 1 /\ i \in Nat
  BY AllocTemEffect, Reads, Counts DEF RecevStep, TemSlots, Types
<1>2. ptr[i] = Null
  BY <1>1 DEF EarlyInv, TemInv
<1>3. i \notin Freed
  BY <1>2, BufHeld DEF Freed
<1>4. i \notin SavedSlots
  <2>1. Handed \in Nat /\ Handed <= TemDone /\ TemDone \in Nat /\ TemDone <= TemSlots
    BY Counts DEF Progress
  <2>2. ~ (i < Handed)
    BY <1>1, <2>1
  <2> QED BY <2>2, SavedIs
<1>5. SavedSlots' = SavedSlots
  BY SavedChange DEF Next, RecevStep, AllocTem, RelClear
<1> QED BY <1>1, <1>2, <1>3, <1>4, <1>5, RecevLeaves DEF RecevStep, Freed, Held

LEMMA TemStep == ASSUME EarlyBounds, EarlyInv, Next PROVE TemInv'
<1>0. /\ tem_mp \in Seq(Blocks) /\ ptr \in [Slots -> Blocks \cup {Null}]
      /\ \A s \in Slots : ptr[s] # Null <=> s \notin SavedSlots /\ s < TemSlots
      /\ Exclusive(tem_mp, ptr, Freed)
      /\ \A b \in Blocks : \/ \E k \in 1 .. Len(tem_mp) : tem_mp[k] = b
                           \/ \E s \in Slots \ Freed : ptr[s] = b
      /\ Len(tem_mp) + TemSlots = BLOCKS + Held
  BY DEF EarlyInv, TemInv
<1>00. /\ Len(sd) \in Nat /\ Len(tem_mp) \in Nat /\ Held \in Nat /\ TemSlots \in Nat
       /\ BLOCKS \in Nat /\ Slots \subseteq Nat /\ Null \notin Blocks
  BY <1>0, Counts, Numbers DEF Held, Progress
<1>1. CASE UNCHANGED <<tem_mp, ptr, SavedSlots, TemSlots, Freed, Held>>
  BY <1>0, <1>1 DEF TemInv
<1>2. CASE AllocHum
  <2>1. ~ AllocTem
    BY <1>2 DEF AllocHum, AllocTem
  <2>2. SavedSlots' = SavedSlots
    BY <1>2, SavedChange DEF AllocHum, RelClear
  <2>3. UNCHANGED <<tem_mp, ptr, TemSlots, Freed, Held>>
    BY <1>2, <2>1, RecevLeaves, Reads DEF RecevStep, Freed, Held
  <2> QED BY <1>1, <2>2, <2>3
<1>3. CASE AllocTem
  <2>1. /\ i \in Slots /\ i \notin Freed /\ ptr[i] = Null /\ TemSlots = i /\ TemSlots' = i + 1
        /\ i \notin SavedSlots /\ UNCHANGED <<SavedSlots, Freed, Held>>
    BY <1>3, TemSlotFree
  <2>2. /\ tem_mp # <<>> /\ tem_mp' = Tail(tem_mp) /\ ptr' = [ptr EXCEPT ![i] = Head(tem_mp)]
    BY <1>3, AllocTemEffect
  <2>3. /\ Exclusive(tem_mp', ptr', Freed) /\ tem_mp' \in Seq(Blocks) /\ Head(tem_mp) \in Blocks
        /\ Len(tem_mp') = Len(tem_mp) - 1 /\ ptr' \in [Slots -> Blocks \cup {Null}]
    <3>1. /\ Exclusive(tem_mp, ptr, Freed) /\ tem_mp \in Seq(Blocks)
          /\ ptr \in [Slots -> Blocks \cup {Null}] /\ i \in Slots
      BY <1>0, <2>1
    <3> QED BY <2>2, <3>1, ExclusiveTake, ZenonT(60)
  <2>4. ptr'[i] = Head(tem_mp) /\ \A s \in Slots \ {i} : ptr'[s] = ptr[s]
    BY <1>0, <2>1, <2>2
  <2>5. \A s \in Slots : ptr'[s] # Null <=> s \notin SavedSlots /\ s < TemSlots'
    <3>1. \A s \in Slots \ {i} : s < TemSlots' <=> s < TemSlots
      BY <1>00, <2>1
    <3>2. ptr'[i] # Null /\ i < TemSlots'
      BY <1>00, <2>1, <2>3, <2>4
    <3> QED BY <1>0, <2>1, <2>4, <3>1, <3>2
  <2>6. \A b \in Blocks : \/ \E k \in 1 .. Len(tem_mp') : tem_mp'[k] = b
                          \/ \E s \in Slots \ Freed : ptr'[s] = b
    <3> SUFFICES ASSUME NEW b \in Blocks
                 PROVE  \/ \E k \in 1 .. Len(tem_mp') : tem_mp'[k] = b
                        \/ \E s \in Slots \ Freed : ptr'[s] = b
      OBVIOUS
    <3>1. CASE \E s \in Slots \ Freed : ptr[s] = b
      <4>1. PICK s \in Slots \ Freed : ptr[s] = b
        BY <3>1
      <4>2. s # i
        BY <1>00, <2>1, <4>1
      <4> QED BY <2>4, <4>1, <4>2
    <3>2. CASE \E k \in 1 .. Len(tem_mp) : tem_mp[k] = b
      <4>1. PICK k \in 1 .. Len(tem_mp) : tem_mp[k] = b
        BY <3>2
      <4>2. CASE k = 1
        <5>1. Head(tem_mp) = b
          BY <1>0, <4>1, <4>2
        <5> QED BY <2>1, <2>4, <5>1
      <4>3. CASE k # 1
        <5>1. k - 1 \in 1 .. Len(tem_mp') /\ tem_mp'[k - 1] = tem_mp[k]
          BY <1>0, <2>2, <4>1, <4>3
        <5> QED BY <4>1, <5>1
      <4> QED BY <4>2, <4>3
    <3> QED BY <1>0, <3>1, <3>2
  <2>7. Len(tem_mp') + TemSlots' = BLOCKS + Held
    <3>1. \A k, m, t, u, b, h \in Int : k = m - 1 /\ t = u + 1 /\ m + u = b + h => k + t = b + h
      OBVIOUS
    <3>2. /\ Len(tem_mp') = Len(tem_mp) - 1 /\ TemSlots' = TemSlots + 1
          /\ Len(tem_mp) + TemSlots = BLOCKS + Held
      BY <1>0, <2>1, <2>3
    <3>3. /\ Len(tem_mp) \in Int /\ TemSlots \in Int /\ BLOCKS \in Int /\ Held \in Int
          /\ Len(tem_mp') \in Int /\ TemSlots' \in Int
      BY <1>00, <3>2
    <3> QED BY ONLY <3>1, <3>2, <3>3
  <2> QED BY <2>1, <2>3, <2>5, <2>6, <2>7 DEF TemInv
<1>4. CASE RelFree
  <2>1. /\ release = "rows" /\ release' = "clear" /\ tem_mp' = <<ptr[buf]>> \o tem_mp
        /\ UNCHANGED <<buf, sd, ptr, TemSlots, SavedSlots>>
    BY <1>4, RelFreeEffect, ReadsKept, SavedChange DEF RelStep, RelFree, RelClear
  <2>2. buf \in Slots /\ ptr[buf] # Null /\ Freed = {} /\ Freed' = {buf}
    BY <2>1, BufHeld DEF Freed
  <2>3. Exclusive(tem_mp', ptr, {buf}) /\ tem_mp' \in Seq(Blocks) /\ Len(tem_mp') = Len(tem_mp) + 1
    <3>1. /\ {} \cup {buf} = {buf} /\ buf \in Slots \ {} /\ Exclusive(tem_mp, ptr, {})
          /\ tem_mp \in Seq(Blocks) /\ ptr \in [Slots -> Blocks \cup {Null}]
          /\ ptr[buf] # Null /\ tem_mp' = <<ptr[buf]>> \o tem_mp
      BY <1>0, <2>1, <2>2
    <3>2. /\ Exclusive(tem_mp', ptr, {} \cup {buf}) /\ tem_mp' \in Seq(Blocks)
          /\ Len(tem_mp') = Len(tem_mp) + 1
      BY <3>1, ExclusiveGive
    <3> QED BY <3>1, <3>2
  <2>4. Held' = Held + 1
    BY <2>1 DEF Held
  <2>5. \A b \in Blocks : \/ \E k \in 1 .. Len(tem_mp') : tem_mp'[k] = b
                          \/ \E s \in Slots \ {buf} : ptr[s] = b
    <3> SUFFICES ASSUME NEW b \in Blocks
                 PROVE  \/ \E k \in 1 .. Len(tem_mp') : tem_mp'[k] = b
                        \/ \E s \in Slots \ {buf} : ptr[s] = b
      OBVIOUS
    <3>1. CASE \E s \in Slots : ptr[s] = b
      <4>1. PICK s \in Slots : ptr[s] = b
        BY <3>1
      <4>2. CASE s = buf
        <5>1. 1 \in 1 .. Len(tem_mp') /\ tem_mp'[1] = ptr[buf]
          BY <1>0, <1>00, <2>1, <2>2, <2>3
        <5> QED BY <4>1, <4>2, <5>1
      <4> QED BY <4>1, <4>2
    <3>2. CASE \E k \in 1 .. Len(tem_mp) : tem_mp[k] = b
      <4>1. PICK k \in 1 .. Len(tem_mp) : tem_mp[k] = b
        BY <3>2
      <4>2. k + 1 \in 1 .. Len(tem_mp') /\ tem_mp'[k + 1] = tem_mp[k]
        BY <1>0, <2>1, <2>3, <4>1
      <4> QED BY <4>1, <4>2
    <3> QED BY <1>0, <2>2, <3>1, <3>2
  <2>6. Len(tem_mp') + TemSlots' = BLOCKS + Held'
    BY <1>0, <1>00, <2>1, <2>3, <2>4
  <2> QED BY <1>0, <2>1, <2>2, <2>3, <2>5, <2>6 DEF TemInv
<1>5. CASE RelClear
  <2>1. /\ release = "clear" /\ release' = "recv" /\ ptr' = [ptr EXCEPT ![buf] = Null]
        /\ sd' = Append(sd, file) /\ UNCHANGED <<tem_mp, TemSlots>>
    BY <1>5, RelClearEffect, ReadsKept DEF RelStep
  <2>2. Len(sd') = Len(sd) + 1 /\ SavedSlots' = SavedSlots \cup {buf}
    BY <1>5, SavedChange
  <2>3. Held' = Held /\ Freed = {buf} /\ Freed' = {} /\ buf \in Slots
    BY <2>1, <2>2, BufHeld DEF Held, Freed
  <2>4. Exclusive(tem_mp, ptr', {}) /\ ptr' \in [Slots -> Blocks \cup {Null}]
    BY <1>0, <2>1, <2>3, ExclusiveClear
  <2>5. ptr'[buf] = Null /\ \A s \in Slots \ {buf} : ptr'[s] = ptr[s]
    BY <1>0, <2>1, <2>3
  <2>6. \A s \in Slots : ptr'[s] # Null <=> s \notin SavedSlots' /\ s < TemSlots
    BY <1>0, <2>2, <2>3, <2>5
  <2>7. \A b \in Blocks : \/ \E k \in 1 .. Len(tem_mp) : tem_mp[k] = b
                          \/ \E s \in Slots : ptr'[s] = b
    BY <1>0, <2>3, <2>5
  <2> QED BY <1>0, <2>1, <2>3, <2>4, <2>6, <2>7 DEF TemInv
<1>6. CASE ~ AllocTem /\ ~ RelFree /\ ~ RelClear /\ ~ AllocHum
  BY <1>1, <1>6, TemKept
<1> QED BY <1>2, <1>3, <1>4, <1>5, <1>6

\* The blocks of a pool in no place.
Lost(free, slot) ==
    {b \in Blocks : /\ \A k \in 1 .. Len(free) : free[k] # b
                    /\ \A s \in Slots : slot[s] # b}

LEMMA LostIs ==
  ASSUME NEW free, NEW slot, Exclusive(free, slot, {})
  PROVE  /\ {b \in Blocks : Places(b, free, slot, {}) = 0} = Lost(free, slot)
         /\ \A b \in Blocks : Places(b, free, slot, {}) <= 1
<1>1. \A b \in Blocks : /\ Places(b, free, slot, {}) \in {0, 1}
                        /\ Places(b, free, slot, {}) = 0 <=> b \in Lost(free, slot)
  <2> SUFFICES ASSUME NEW b \in Blocks
               PROVE  /\ Places(b, free, slot, {}) \in {0, 1}
                      /\ Places(b, free, slot, {}) = 0 <=> b \in Lost(free, slot)
    OBVIOUS
  <2>1. /\ Places(b, free, slot, {}) \in {0, 1}
        /\ Places(b, free, slot, {}) = 0
                <=> /\ \A k \in 1 .. Len(free) : free[k] # b
                    /\ \A s \in Slots \ {} : slot[s] # b
    BY PlacesOf
  <2> QED BY <2>1 DEF Lost
<1>2. Lost(free, slot) \subseteq Blocks
  BY DEF Lost
<1> QED BY <1>1, <1>2

LEMMA HumStep == ASSUME EarlyBounds, EarlyInv, Next PROVE HumInv'
<1>0. /\ hum_mp \in Seq(Blocks) /\ ptr2 \in [Slots -> Blocks \cup {Null}]
      /\ \A s \in Slots : ptr2[s] # Null <=> s \notin SavedSlots /\ s < j
      /\ Exclusive(hum_mp, ptr2, {})
      /\ Len(hum_mp) + j = BLOCKS
      /\ HumBlocksLost
  BY DEF EarlyInv, HumInv
<1>00. /\ Len(sd) \in Nat /\ Len(hum_mp) \in Nat /\ j \in Nat
       /\ BLOCKS \in Nat /\ Slots \subseteq Nat /\ Null \notin Blocks
  BY <1>0, Counts, Numbers DEF Types
<1>01. Cardinality(Lost(hum_mp, ptr2)) = Len(sd)
  BY <1>0, LostIs DEF HumBlocksLost
<1>1. CASE UNCHANGED <<hum_mp, ptr2, sd, j, SavedSlots>>
  BY <1>0, <1>1 DEF HumInv, HumBlocksLost
<1>2. CASE AllocHum
  <2>1. /\ j \in Slots /\ j' = j + 1 /\ hum_mp # <<>> /\ hum_mp' = Tail(hum_mp)
        /\ ptr2' = [ptr2 EXCEPT ![j] = Head(hum_mp)] /\ UNCHANGED <<sd, SavedSlots>>
    BY <1>2, AllocHumEffect, RecevLeaves, SavedChange DEF RecevStep, AllocHum, RelClear
  <2>2. ptr2[j] = Null
    BY <1>0, <1>00, <2>1
  <2>3. /\ Exclusive(hum_mp', ptr2', {}) /\ hum_mp' \in Seq(Blocks) /\ Head(hum_mp) \in Blocks
        /\ Len(hum_mp') = Len(hum_mp) - 1 /\ ptr2' \in [Slots -> Blocks \cup {Null}]
    <3>1. /\ Exclusive(hum_mp, ptr2, {}) /\ hum_mp \in Seq(Blocks)
          /\ ptr2 \in [Slots -> Blocks \cup {Null}]
      BY <1>0
    <3>2. /\ j \in Slots /\ hum_mp # <<>> /\ hum_mp' = Tail(hum_mp)
          /\ ptr2' = [ptr2 EXCEPT ![j] = Head(hum_mp)]
      BY <2>1
    <3> QED BY <3>1, <3>2, ExclusiveTake, ZenonT(60)
  <2>4. ptr2'[j] = Head(hum_mp) /\ \A s \in Slots \ {j} : ptr2'[s] = ptr2[s]
    BY <1>0, <2>1
  <2>5. j \notin SavedSlots
    <3>1. /\ cnt2 = Start(j) /\ Start(TemDone) <= cnt2 /\ TemDone \in Nat
          /\ Handed \in Nat /\ Handed <= TemDone
      BY <1>2, AllocHumEffect, Counts DEF EarlyInv, SlotsInv, Progress
    <3>2. Start(TemDone) \in Nat /\ Start(j) \in Nat /\ mem_slice \in Nat \ {0}
      BY <1>00, <3>1, StartIs, Numbers
    <3>3. ~ (j < TemDone)
      BY <1>00, <3>1, <3>2, StartGrows
    <3>4. ~ (j < Handed)
      BY <1>00, <3>1, <3>3
    <3> QED BY <3>4, SavedIs
  <2>6. \A s \in Slots : ptr2'[s] # Null <=> s \notin SavedSlots /\ s < j'
    <3>1. \A s \in Slots \ {j} : s < j' <=> s < j
      BY <1>00, <2>1
    <3>2. ptr2'[j] # Null /\ j < j'
      BY <1>00, <2>1, <2>3, <2>4
    <3> QED BY <1>0, <2>1, <2>4, <2>5, <3>1, <3>2
  <2>7. Lost(hum_mp', ptr2') = Lost(hum_mp, ptr2)
    <3>1. /\ Len(hum_mp) >= 1 /\ Head(hum_mp) = hum_mp[1]
          /\ \A k \in 1 .. Len(hum_mp') : hum_mp'[k] = hum_mp[k + 1] /\ k + 1 \in 1 .. Len(hum_mp)
          /\ \A k \in 2 .. Len(hum_mp) : hum_mp'[k - 1] = hum_mp[k] /\ k - 1 \in 1 .. Len(hum_mp')
      BY <1>0, <2>1, <2>3
    <3>2. ASSUME NEW b \in Blocks
          PROVE  b \in Lost(hum_mp', ptr2') <=> b \in Lost(hum_mp, ptr2)
      <4>1. (\E k \in 1 .. Len(hum_mp) : hum_mp[k] = b)
               <=> b = Head(hum_mp) \/ \E k \in 1 .. Len(hum_mp') : hum_mp'[k] = b
        <5>1. ASSUME NEW k \in 1 .. Len(hum_mp), hum_mp[k] = b
              PROVE  b = Head(hum_mp) \/ \E l \in 1 .. Len(hum_mp') : hum_mp'[l] = b
          <6>1. k = 1 \/ k \in 2 .. Len(hum_mp)
            OBVIOUS
          <6> QED BY <3>1, <5>1, <6>1
        <5>2. 1 \in 1 .. Len(hum_mp)
          BY <1>00, <3>1
        <5> QED BY <3>1, <5>1, <5>2
      <4>2. (\E s \in Slots : ptr2'[s] = b) <=> b = Head(hum_mp) \/ \E s \in Slots : ptr2[s] = b
        BY <1>00, <2>1, <2>2, <2>4
      <4> QED BY <4>1, <4>2 DEF Lost
    <3>3. Lost(hum_mp', ptr2') \subseteq Blocks /\ Lost(hum_mp, ptr2) \subseteq Blocks
      BY DEF Lost
    <3> QED BY <3>2, <3>3
  <2>8. HumBlocksLost'
    <3>1. /\ {b \in Blocks : Places(b, hum_mp', ptr2', {}) = 0} = Lost(hum_mp', ptr2')
          /\ \A b \in Blocks : Places(b, hum_mp', ptr2', {}) <= 1
      BY <2>3, LostIs
    <3> QED BY <1>01, <2>1, <2>7, <3>1 DEF HumBlocksLost
  <2>9. Len(hum_mp') + j' = BLOCKS
    BY <1>0, <1>00, <2>1, <2>3
  <2> QED BY <2>1, <2>3, <2>6, <2>8, <2>9 DEF HumInv
<1>3. CASE RelClear
  <2>1. /\ release = "clear" /\ ptr2' = [ptr2 EXCEPT ![buf] = Null]
        /\ sd' = Append(sd, file) /\ UNCHANGED <<hum_mp, j>>
    BY <1>3, RelClearEffect, OthersLeave DEF RelStep
  <2>2. Len(sd') = Len(sd) + 1 /\ SavedSlots' = SavedSlots \cup {buf}
    BY <1>3, SavedChange
  <2>3. buf \in Slots /\ ptr2[buf] \in Blocks
    BY <2>1, BufHeld
  <2>4. Exclusive(hum_mp, ptr2', {}) /\ ptr2' \in [Slots -> Blocks \cup {Null}]
    BY <1>0, <2>1, <2>3, ExclusiveForget
  <2>5. ptr2'[buf] = Null /\ \A s \in Slots \ {buf} : ptr2'[s] = ptr2[s]
    BY <1>0, <2>1, <2>3
  <2>6. \A s \in Slots : ptr2'[s] # Null <=> s \notin SavedSlots' /\ s < j
    BY <1>0, <2>2, <2>3, <2>5
  <2> DEFINE b == ptr2[buf]
             S == Lost(hum_mp, ptr2)
  <2>7. Lost(hum_mp, ptr2') = S \cup {b} /\ b \notin S
    <3>1. \A k \in 1 .. Len(hum_mp) : hum_mp[k] # b
      BY <1>0, <2>3 DEF Exclusive
    <3>2. \A s \in Slots \ {buf} : ptr2[s] # b
      BY <1>0, <1>00, <2>3 DEF Exclusive
    <3> QED BY <1>00, <2>3, <2>5, <3>1, <3>2 DEF Lost
  <2>8. IsFiniteSet(S)
    <3>1. IsFiniteSet(1 .. BLOCKS)
      BY <1>00, FS_Interval
    <3>2. S \subseteq 1 .. BLOCKS
      BY DEF Lost, Blocks
    <3> QED BY <3>1, <3>2, FS_Subset
  <2>9. Cardinality(Lost(hum_mp, ptr2')) = Len(sd')
    <3> HIDE DEF S, b
    <3>1. Cardinality(S \cup {b}) = Cardinality(S) + 1
      BY <2>7, <2>8, FS_AddElement
    <3>2. Cardinality(S) = Len(sd)
      BY <1>01 DEF S
    <3> QED BY <2>2, <2>7, <3>1, <3>2
  <2>10. HumBlocksLost'
    <3>1. /\ {c \in Blocks : Places(c, hum_mp, ptr2', {}) = 0} = Lost(hum_mp, ptr2')
          /\ \A c \in Blocks : Places(c, hum_mp, ptr2', {}) <= 1
      BY <2>4, LostIs
    <3> QED BY <2>1, <2>9, <3>1 DEF HumBlocksLost
  <2> QED BY <1>0, <2>1, <2>4, <2>6, <2>10 DEF HumInv
<1>4. CASE ~ AllocHum /\ ~ RelClear
  <2>0. SavedSlots' = SavedSlots
    BY <1>4, SavedChange
  <2>1. CASE RecevStep
    <3>1. UNCHANGED <<hum_mp, ptr2, sd>>
      BY <1>4, <2>1, RecevLeaves
    <3>2. UNCHANGED j
      BY <1>4, <2>1, RecvHumEffect, StoreHumEffect, RecvTemEffect, StoreTemEffect,
         AllocTemEffect, SendTemEffect DEF RecevStep, NextTem
    <3> QED BY <1>1, <2>0, <3>1, <3>2
  <2>2. CASE timeout1 \/ Key \/ Naps \/ LcdStep
    BY <1>1, <2>0, <2>2, OthersLeave, InputsLeave
  <2>3. CASE RelRecv \/ RelRow \/ RelFree
    BY <1>1, <2>0, <2>3, OthersLeave, RelRecvEffect, RelRowEffect, RelFreeEffect DEF RelStep
  <2> QED BY <1>4, <2>1, <2>2, <2>3 DEF Next, RelStep
<1> QED BY <1>2, <1>3, <1>4

\* Sample c + 1 has one place: slot s, byte k.
LEMMA OnePlace ==
  ASSUME NEW s \in Nat, NEW t \in Nat, NEW k \in Bytes, NEW l \in Bytes,
         Start(s) + k = Start(t) + l
  PROVE  s = t /\ k = l
<1>1. /\ Start(s) \in Nat /\ Start(t) \in Nat /\ mem_slice \in Nat \ {0}
      /\ k \in Nat /\ k < mem_slice /\ l \in Nat /\ l < mem_slice
  BY StartIs, Numbers DEF Bytes
<1>2. ~ (s < t)
  BY <1>1, StartGrows
<1>3. ~ (t < s)
  BY <1>1, StartGrows
<1>4. s = t
  BY <1>2, <1>3
<1> QED BY <1>1, <1>4

\* new is pool with value v in byte d of block b.
Stored(new, pool, b, d, v) ==
    /\ new \in [Blocks -> [Bytes -> Int]]
    /\ new[b][d] = v
    /\ \A k \in Bytes \ {d} : new[b][k] = pool[b][k]
    /\ \A e \in Blocks \ {b} : new[e] = pool[e]

LEMMA StoreIs ==
  ASSUME NEW pool \in [Blocks -> [Bytes -> Int]], NEW b \in Blocks, NEW d \in Bytes,
         NEW v \in Int, NEW new, new = [pool EXCEPT ![b][d] = v]
  PROVE  Stored(new, pool, b, d, v)
BY DEF Stored

\* Byte d of the block b of slot s comes next, and nothing else is in the way.
NextByte(pool, slot, S, s, b, d, c, v) ==
    /\ pool \in [Blocks -> [Bytes -> Int]] /\ S \subseteq Nat /\ s \in S
    /\ c \in Nat /\ v = c + 1 /\ d \in Bytes /\ Start(s) + d = c
    /\ b \in Blocks /\ slot[s] = b
    /\ \A t \in S : slot[t] \in Blocks /\ (t # s => slot[t] # b)
    /\ Keeps(pool, slot, S, c)

\* A store of sample c + 1 in its place.
LEMMA StoreOne ==
  ASSUME NEW pool, NEW slot, NEW S, NEW s, NEW b, NEW d, NEW c, NEW v,
         NextByte(pool, slot, S, s, b, d, c, v),
         NEW new, Stored(new, pool, b, d, v)
  PROVE  new \in [Blocks -> [Bytes -> Int]] /\ Keeps(new, slot, S, v)
<1> USE DEF NextByte
<1>1. /\ new \in [Blocks -> [Bytes -> Int]]
      /\ new[b][d] = v
      /\ \A k \in Bytes \ {d} : new[b][k] = pool[b][k]
      /\ \A e \in Blocks \ {b} : new[e] = pool[e]
  BY DEF Stored
<1>2. ASSUME NEW t \in S, NEW k \in Bytes, Start(t) + k < v
      PROVE  new[slot[t]][k] = Start(t) + k + 1
  <2>1. t \in Nat /\ s \in Nat /\ k \in Nat /\ slot[t] \in Blocks
    BY Numbers DEF Bytes
  <2>2. Start(t) \in Nat
    BY <2>1, StartIs
  <2>3. CASE Start(t) + k = c
    <3>1. t = s /\ k = d
      BY <2>1, <2>3, OnePlace
    <3> QED BY <1>1, <2>3, <3>1
  <2>4. CASE Start(t) + k # c
    <3>1. Start(t) + k < c
      BY <1>2, <2>1, <2>2, <2>4
    <3>2. pool[slot[t]][k] = Start(t) + k + 1
      BY <3>1 DEF Keeps
    <3>3. CASE t = s
      <4>1. k # d
        BY <2>4, <3>3
      <4> QED BY <1>1, <3>2, <3>3, <4>1
    <3>4. CASE t # s
      BY <1>1, <2>1, <3>2, <3>4
    <3> QED BY <3>3, <3>4
  <2> QED BY <2>3, <2>4
<1> QED BY <1>1, <1>2 DEF Keeps

\* Other slots, or fewer.
LEMMA KeepsFewer ==
  ASSUME NEW pool, NEW slot, NEW S, NEW c, Keeps(pool, slot, S, c),
         NEW new, NEW T, \A s \in T : s \in S /\ new[s] = slot[s]
  PROVE  Keeps(pool, new, T, c)
BY DEF Keeps

LEMMA TemDataStep == ASSUME EarlyBounds, EarlyInv, Next PROVE TemData'
<1>0. /\ temmempool \in [Blocks -> [Bytes -> Int]] /\ Keeps(temmempool, ptr, TemLive, cnt)
      /\ TemSlots \in Nat /\ cnt \in Nat /\ i \in Nat
      /\ Slots \subseteq Nat /\ ptr \in [Slots -> Blocks \cup {Null}]
  BY Counts, Numbers DEF EarlyInv, TemData, TemInv, Types, Progress, Slots
<1>1. CASE UNCHANGED <<temmempool, ptr, cnt, TemSlots, Freed, SavedSlots>>
  BY <1>1 DEF EarlyInv, TemData, TemLive
<1>2. CASE StoreTem
  <2>1. /\ recev = "store_tem" /\ i > 0 /\ i - 1 \in Slots /\ i - 1 \notin SavedSlots \cup Freed
        /\ ptr[i - 1] \in Blocks
        /\ Start(i - 1) <= cnt /\ cnt - Start(i - 1) \in Bytes /\ cnt' = cnt + 1
        /\ temmempool' = [temmempool EXCEPT ![ptr[i - 1]][cnt - Start(i - 1)] = tem_get]
    BY <1>2, StoreTemEffect
  <2>2. TemSlots = i /\ tem_get = cnt + 1 /\ i - 1 \in Nat
    BY <1>0, <2>1 DEF TemSlots, EarlyInv, QueuesInv, TemRead, InTem
  <2>3. UNCHANGED <<ptr, TemSlots, Freed, SavedSlots>>
    <3>1. ~ AllocTem
      BY <2>1 DEF AllocTem
    <3>2. ~ RelClear
      <4>1. recev' # recev
        BY <1>2, StoreTemEffect
      <4> QED BY <4>1, OthersLeave DEF RelStep
    <3> QED BY <1>2, <3>1, <3>2, RecevLeaves, Reads, SavedChange DEF RecevStep, Freed
  <2>4. TemLive' = TemLive
    BY <2>3 DEF TemLive
  <2>5. /\ i - 1 \in TemLive
        /\ \A t \in TemLive : ptr[t] \in Blocks /\ (t # i - 1 => ptr[t] # ptr[i - 1])
    <3>1. i - 1 \in TemLive
      BY <1>0, <2>1, <2>2 DEF TemLive
    <3>2. ASSUME NEW t \in TemLive
          PROVE  ptr[t] \in Blocks /\ (t # i - 1 => ptr[t] # ptr[i - 1])
      <4>1. t \in Slots /\ t \notin Freed /\ ptr[t] # Null
        BY DEF TemLive, EarlyInv, TemInv
      <4>2. ptr[t] \in Blocks
        BY <1>0, <4>1
      <4> QED BY <2>1, <4>1, <4>2 DEF EarlyInv, TemInv, Exclusive
    <3> QED BY <3>1, <3>2
  <2>6. ASSUME NEW d, d = cnt - Start(i - 1), NEW b, b = ptr[i - 1],
               NEW s, s = i - 1, NEW v, v = cnt + 1
        PROVE  /\ temmempool' \in [Blocks -> [Bytes -> Int]]
               /\ Keeps(temmempool', ptr, TemLive, v)
    <3>1. Start(s) + d = cnt /\ d \in Bytes /\ b \in Blocks /\ ptr[s] = b
      <4>1. Start(i - 1) \in Nat
        BY <2>2, StartIs
      <4> QED BY <1>0, <2>1, <2>6, <4>1
    <3>2. Stored(temmempool', temmempool, b, d, v)
      <4>1. v \in Int /\ temmempool' = [temmempool EXCEPT ![b][d] = v]
        BY <1>0, <2>1, <2>2, <2>6
      <4> QED BY <1>0, <3>1, <4>1, StoreIs
    <3>3. \A t \in TemLive : ptr[t] \in Blocks /\ (t # s => ptr[t] # b)
      BY <2>5, <2>6
    <3>4. TemLive \subseteq Nat /\ s \in TemLive
      BY <1>0, <2>5, <2>6 DEF TemLive
    <3>5. /\ temmempool \in [Blocks -> [Bytes -> Int]] /\ Keeps(temmempool, ptr, TemLive, cnt)
          /\ cnt \in Nat /\ v = cnt + 1
      BY <1>0, <2>6
    <3>6. NextByte(temmempool, ptr, TemLive, s, b, d, cnt, v)
      BY <3>1, <3>3, <3>4, <3>5 DEF NextByte
    <3> QED BY ONLY <3>2, <3>6, StoreOne
  <2> QED BY <2>1, <2>3, <2>4, <2>6 DEF TemData
<1>3. CASE AllocTem
  <2>1. /\ TemSlots = i /\ TemSlots' = i + 1 /\ i \in Slots
        /\ UNCHANGED <<temmempool, cnt, Freed, SavedSlots>>
        /\ ptr' = [ptr EXCEPT ![i] = Head(tem_mp)]
    BY <1>3, TemSlotFree, AllocTemEffect DEF AllocTem
  <2>2. cnt = Start(i) /\ Start(i) \in Nat
    BY <1>0, <1>3, AllocTemEffect, StartIs DEF EarlyInv, SlotsInv
  <2>3. \A s \in Slots \ {i} : ptr'[s] = ptr[s]
    BY <1>0, <2>1
  <2>4. ASSUME NEW s \in TemLive', NEW k \in Bytes, Start(s) + k < cnt
        PROVE  temmempool[ptr'[s]][k] = Start(s) + k + 1
    <3>1. /\ s \in Slots /\ s \in Nat /\ s \notin SavedSlots /\ s \notin Freed
          /\ s < i + 1 /\ k \in Nat
      BY <1>0, <2>1, Numbers DEF TemLive, Bytes
    <3>2. s # i
      BY <2>2, <2>4, <3>1
    <3>3. s < TemSlots
      BY <1>0, <2>1, <3>1, <3>2
    <3>4. s \in TemLive
      BY <3>1, <3>3 DEF TemLive
    <3> QED BY <1>0, <2>3, <2>4, <3>1, <3>2, <3>4 DEF Keeps
  <2> QED BY <1>0, <2>1, <2>4 DEF TemData, Keeps
<1>4. CASE RelStep
  <2>1. UNCHANGED <<temmempool, cnt, TemSlots>>
    BY <1>4, OthersLeave, ReadsKept
  <2>2. ASSUME NEW s \in TemLive' PROVE s \in TemLive /\ ptr'[s] = ptr[s]
    <3>1. CASE RelClear
      <4>1. /\ ptr' = [ptr EXCEPT ![buf] = Null] /\ Freed = {buf}
            /\ SavedSlots' = SavedSlots \cup {buf}
        BY <3>1, RelClearEffect, SavedChange DEF Freed
      <4>2. s \in Slots /\ s \notin SavedSlots /\ s # buf /\ s < TemSlots
        BY <2>1, <4>1 DEF TemLive
      <4> QED BY <1>0, <4>1, <4>2 DEF TemLive
    <3>2. CASE ~ RelClear
      <4>1. ptr' = ptr /\ SavedSlots' = SavedSlots /\ (Freed' = Freed \/ Freed = {})
        BY <1>4, <3>2, SavedChange, RelRecvEffect, RelRowEffect, RelFreeEffect
           DEF RelStep, Freed
      <4> QED BY <2>1, <4>1 DEF TemLive
    <3> QED BY <3>1, <3>2
  <2>3. Keeps(temmempool, ptr', TemLive', cnt)
    BY <1>0, <2>2, KeepsFewer
  <2> QED BY <1>0, <2>1, <2>3 DEF TemData
<1>5. CASE RecevStep /\ ~ StoreTem /\ ~ AllocTem
  <2>1. UNCHANGED <<ptr, TemSlots, Freed>>
    BY <1>5, RecevLeaves, Reads DEF Freed
  <2>2. UNCHANGED <<temmempool, cnt>>
    BY <1>5, StoreHumEffect, SendTemEffect DEF RecevStep, RecvHum, AllocHum, RecvTem, NextTem, store
  <2>3. SavedSlots' = SavedSlots
    BY <1>5, RecevLeaves DEF SavedSlots, Saved
  <2> QED BY <1>1, <2>1, <2>2, <2>3
<1>6. CASE timeout1 \/ Key \/ Naps \/ LcdStep
  <2>1. UNCHANGED <<ptr, sd, taken, release, buf>>
    BY <1>6, InputsLeave
  <2>2. UNCHANGED <<Freed, SavedSlots>>
    BY <2>1 DEF Freed, SavedSlots, Saved
  <2> QED BY <1>1, <1>6, <2>1, <2>2, OthersLeave, ReadsKept
<1> QED BY <1>2, <1>3, <1>4, <1>5, <1>6 DEF Next

LEMMA HumDataStep == ASSUME EarlyBounds, EarlyInv, Next PROVE HumData'
<1>0. /\ hummempool \in [Blocks -> [Bytes -> Int]] /\ Keeps(hummempool, ptr2, HumLive, cnt2)
      /\ cnt2 \in Nat /\ j \in Nat
      /\ Slots \subseteq Nat /\ ptr2 \in [Slots -> Blocks \cup {Null}]
  BY Counts, Numbers DEF EarlyInv, HumData, HumInv, Types, Slots
<1>1. CASE UNCHANGED <<hummempool, ptr2, cnt2, j, SavedSlots>>
  BY <1>1 DEF EarlyInv, HumData, HumLive
<1>2. CASE StoreHum
  <2>1. /\ recev = "store_hum" /\ j > 0 /\ j - 1 \in Slots /\ j - 1 \notin SavedSlots
        /\ ptr2[j - 1] \in Blocks
        /\ Start(j - 1) <= cnt2 /\ cnt2 - Start(j - 1) \in Bytes /\ cnt2' = cnt2 + 1
        /\ hummempool' = [hummempool EXCEPT ![ptr2[j - 1]][cnt2 - Start(j - 1)] = hum_get]
        /\ UNCHANGED j
    BY <1>2, StoreHumEffect
  <2>2. hum_get = cnt2 + 1 /\ j - 1 \in Nat
    BY <1>0, <2>1 DEF EarlyInv, QueuesInv, HumRead, InHum
  <2>3. UNCHANGED <<ptr2, SavedSlots>>
    <3>1. ~ AllocHum
      BY <2>1 DEF AllocHum
    <3>2. UNCHANGED <<ptr2, sd, taken>>
      BY <1>2, <3>1, RecevLeaves DEF RecevStep
    <3> QED BY <3>2 DEF SavedSlots, Saved
  <2>4. HumLive' = HumLive
    BY <2>1, <2>3 DEF HumLive
  <2>5. /\ j - 1 \in HumLive
        /\ \A t \in HumLive : ptr2[t] \in Blocks /\ (t # j - 1 => ptr2[t] # ptr2[j - 1])
    <3>1. j - 1 \in HumLive
      BY <1>0, <2>1, <2>2 DEF HumLive
    <3>2. ASSUME NEW t \in HumLive
          PROVE  ptr2[t] \in Blocks /\ (t # j - 1 => ptr2[t] # ptr2[j - 1])
      <4>1. t \in Slots /\ ptr2[t] # Null
        BY DEF HumLive, EarlyInv, HumInv
      <4>2. ptr2[t] \in Blocks
        BY <1>0, <4>1
      <4> QED BY <2>1, <4>1, <4>2 DEF EarlyInv, HumInv, Exclusive
    <3> QED BY <3>1, <3>2
  <2>6. ASSUME NEW d, d = cnt2 - Start(j - 1), NEW b, b = ptr2[j - 1],
               NEW s, s = j - 1, NEW v, v = cnt2 + 1
        PROVE  /\ hummempool' \in [Blocks -> [Bytes -> Int]]
               /\ Keeps(hummempool', ptr2, HumLive, v)
    <3>1. Start(s) + d = cnt2 /\ d \in Bytes /\ b \in Blocks /\ ptr2[s] = b
      <4>1. Start(j - 1) \in Nat
        BY <2>2, StartIs
      <4> QED BY <1>0, <2>1, <2>6, <4>1
    <3>2. Stored(hummempool', hummempool, b, d, v)
      <4>1. v \in Int /\ hummempool' = [hummempool EXCEPT ![b][d] = v]
        BY <1>0, <2>1, <2>2, <2>6
      <4> QED BY <1>0, <3>1, <4>1, StoreIs
    <3>3. \A t \in HumLive : ptr2[t] \in Blocks /\ (t # s => ptr2[t] # b)
      BY <2>5, <2>6
    <3>4. HumLive \subseteq Nat /\ s \in HumLive
      BY <1>0, <2>5, <2>6 DEF HumLive
    <3>5. /\ hummempool \in [Blocks -> [Bytes -> Int]] /\ Keeps(hummempool, ptr2, HumLive, cnt2)
          /\ cnt2 \in Nat /\ v = cnt2 + 1
      BY <1>0, <2>6
    <3>6. NextByte(hummempool, ptr2, HumLive, s, b, d, cnt2, v)
      BY <3>1, <3>3, <3>4, <3>5 DEF NextByte
    <3> QED BY ONLY <3>2, <3>6, StoreOne
  <2> QED BY <2>1, <2>3, <2>4, <2>6 DEF HumData
<1>3. CASE AllocHum
  <2>1. /\ j' = j + 1 /\ j \in Slots /\ UNCHANGED <<hummempool, cnt2, sd, taken>>
        /\ ptr2' = [ptr2 EXCEPT ![j] = Head(hum_mp)]
    BY <1>3, AllocHumEffect, RecevLeaves DEF AllocHum, RecevStep
  <2>2. cnt2 = Start(j) /\ Start(j) \in Nat /\ SavedSlots' = SavedSlots
    BY <1>0, <1>3, <2>1, AllocHumEffect, StartIs DEF EarlyInv, SlotsInv, SavedSlots, Saved
  <2>3. \A s \in Slots \ {j} : ptr2'[s] = ptr2[s]
    BY <1>0, <2>1
  <2>4. ASSUME NEW s \in HumLive', NEW k \in Bytes, Start(s) + k < cnt2
        PROVE  hummempool[ptr2'[s]][k] = Start(s) + k + 1
    <3>1. s \in Slots /\ s \in Nat /\ s \notin SavedSlots /\ s < j + 1 /\ k \in Nat
      BY <1>0, <2>1, <2>2, Numbers DEF HumLive, Bytes
    <3>2. s # j
      BY <2>2, <2>4, <3>1
    <3>3. s \in HumLive
      BY <1>0, <3>1, <3>2 DEF HumLive
    <3> QED BY <1>0, <2>3, <2>4, <3>1, <3>2, <3>3 DEF Keeps
  <2> QED BY <1>0, <2>1, <2>4 DEF HumData, Keeps
<1>4. CASE RelClear
  <2>1. /\ UNCHANGED <<hummempool, cnt2, j>> /\ ptr2' = [ptr2 EXCEPT ![buf] = Null]
        /\ SavedSlots' = SavedSlots \cup {buf}
    BY <1>4, OthersLeave, RelClearEffect, SavedChange DEF RelStep
  <2>2. \A s \in HumLive' : s \in HumLive /\ ptr2'[s] = ptr2[s]
    BY <1>0, <2>1 DEF HumLive
  <2>3. Keeps(hummempool, ptr2', HumLive', cnt2)
    BY <1>0, <2>2, KeepsFewer
  <2> QED BY <1>0, <2>1, <2>3 DEF HumData
<1>5. CASE RecevStep /\ ~ StoreHum /\ ~ AllocHum
  <2>1. UNCHANGED <<ptr2, sd, taken>>
    BY <1>5, RecevLeaves
  <2>2. UNCHANGED <<hummempool, cnt2, j>>
    BY <1>5, RecvHumEffect, RecvTemEffect, StoreTemEffect, AllocTemEffect, SendTemEffect
       DEF RecevStep, RecvHum, RecvTem, AllocTem, NextTem, store
  <2>3. SavedSlots' = SavedSlots
    BY <2>1 DEF SavedSlots, Saved
  <2> QED BY <1>1, <2>1, <2>2, <2>3
<1>6. CASE timeout1 \/ Key \/ Naps \/ LcdStep
  <2>1. UNCHANGED <<ptr2, sd, taken>>
    BY <1>6, InputsLeave
  <2>2. SavedSlots' = SavedSlots
    BY <2>1 DEF SavedSlots, Saved
  <2> QED BY <1>1, <1>6, <2>1, <2>2, OthersLeave
<1>7. CASE RelRecv \/ RelRow \/ RelFree
  <2>1. SavedSlots' = SavedSlots
    <3>1. ~ RelClear
      BY <1>7 DEF RelRecv, RelRow, RelFree, RelClear
    <3> QED BY <3>1, SavedChange
  <2> QED BY <1>1, <1>7, <2>1, OthersLeave, RelRecvEffect, RelRowEffect, RelFreeEffect DEF RelStep
<1> QED BY <1>2, <1>3, <1>4, <1>5, <1>6, <1>7 DEF Next, RelStep

LEMMA FileStep == ASSUME EarlyBounds, EarlyInv, Next PROVE FileInv'
<1>0. /\ sd \in Seq(Seq(Line)) /\ file \in Seq(Line) /\ Len(sd) \in Nat
      /\ FileInv /\ mem_slice \in Nat \ {0}
      /\ taken \in Seq(Nat) /\ Len(taken) \in Nat /\ Len(sd) <= Len(taken)
      /\ \A f \in 1 .. Len(sd), r \in 1 .. mem_slice :
            sd[f][r] = [tem |-> Start(taken[f] - 1) + r, hum |-> Start(taken[f] - 1) + r]
  <2>1. /\ FileInv /\ sd \in Seq(Seq(Line)) /\ file \in Seq(Line) /\ Len(sd) \in Nat
        /\ mem_slice \in Nat \ {0}
    BY Counts, Numbers DEF EarlyInv, FileInv
  <2>2. /\ taken \in Seq(Nat) /\ Len(taken) \in Nat
    BY DEF EarlyInv, MessagesInv, Ordered
  <2>3. Len(sd) <= Len(taken)
    BY <2>1, <2>2 DEF EarlyInv, MessagesInv
  <2> QED BY <2>1, <2>2, <2>3 DEF FileInv
<1>1. CASE UNCHANGED <<sd, file, row, release, buf, taken>>
  BY <1>0, <1>1 DEF FileInv
<1>2. CASE RelRecv
  <2>1. /\ release' = "rows" /\ row' = 0 /\ file' = <<>> /\ sd' = sd
        /\ taken' = Append(taken, Head(mq_tem_memlcd))
    BY <1>2, RelRecvEffect
  <2>2. \A f \in 1 .. Len(sd) : taken'[f] = taken[f]
    BY <1>0, <2>1
  <2>3. 0 \in 0 .. mem_slice /\ <<>> \in Seq(Line) /\ Len(<<>>) = 0 /\ 1 .. 0 = {}
    BY <1>0
  <2> QED BY <1>0, <2>1, <2>2, <2>3 DEF FileInv
<1>3. CASE RelRow
  <2>1. /\ release = "rows" /\ release' = "rows" /\ row < mem_slice /\ row' = row + 1
        /\ file' = Append(file, [tem |-> temmempool[ptr[buf]][row],
                                 hum |-> hummempool[ptr2[buf]][row]])
        /\ UNCHANGED <<sd, buf, taken>>
    BY <1>3, RelRowEffect
  <2>2. /\ row \in Nat /\ row \in Bytes /\ Len(file) = row
        /\ \A r \in 1 .. row :
              file[r] = [tem |-> Start(buf) + r, hum |-> Start(buf) + r]
    BY <1>0, <2>1 DEF FileInv, Bytes
  <2>3. /\ buf \in Slots /\ buf \in Nat /\ buf < j /\ buf < TemDone /\ buf \notin SavedSlots
        /\ Start(buf) + mem_slice <= cnt /\ Start(buf) + mem_slice <= cnt2
        /\ Start(buf) \in Nat /\ cnt \in Nat /\ cnt2 \in Nat
    BY <2>1, BufHeld, StartIs, Counts DEF Types
  <2>4. temmempool[ptr[buf]][row] = Start(buf) + (row + 1)
    <3>1. TemDone <= TemSlots /\ TemSlots \in Nat /\ TemDone \in Nat
      BY Counts DEF Progress
    <3>2. buf \in TemLive /\ Start(buf) + row < cnt
      BY <1>0, <2>1, <2>2, <2>3, <3>1 DEF TemLive, Freed
    <3>3. temmempool[ptr[buf]][row] = Start(buf) + row + 1
      <4>1. \A g \in TemLive, k \in Bytes :
               Start(g) + k < cnt => temmempool[ptr[g]][k] = Start(g) + k + 1
        BY DEF EarlyInv, TemData, Keeps
      <4> QED BY ONLY <2>2, <3>2, <4>1
    <3> QED BY <2>2, <2>3, <3>3
  <2>5. hummempool[ptr2[buf]][row] = Start(buf) + (row + 1)
    <3>1. buf \in HumLive /\ Start(buf) + row < cnt2
      BY <1>0, <2>1, <2>2, <2>3 DEF HumLive
    <3>2. hummempool[ptr2[buf]][row] = Start(buf) + row + 1
      BY <2>2, <3>1 DEF EarlyInv, HumData, Keeps
    <3> QED BY <2>2, <2>3, <3>2
  <2> DEFINE line == [tem |-> Start(buf) + (row + 1), hum |-> Start(buf) + (row + 1)]
  <2>6. file' = Append(file, line) /\ line \in Line
    BY <2>1, <2>2, <2>3, <2>4, <2>5 DEF Line
  <2> HIDE DEF line
  <2>7. /\ file' \in Seq(Line) /\ Len(file') = row + 1 /\ file'[row + 1] = line
        /\ \A k \in 1 .. row : file'[k] = file[k]
        /\ \A k \in 1 .. Len(file') : k = row + 1 \/ k \in 1 .. row
    BY <1>0, <2>2, <2>6, AppendIs
  <2>8. \A r \in 1 .. row' :
           file'[r] = [tem |-> Start(buf) + r, hum |-> Start(buf) + r]
    <3> SUFFICES ASSUME NEW r \in 1 .. row'
                 PROVE  file'[r] = [tem |-> Start(buf) + r, hum |-> Start(buf) + r]
      OBVIOUS
    <3>1. r = row + 1 \/ r \in 1 .. row
      BY <2>1, <2>7
    <3>2. CASE r = row + 1
      BY <2>7, <3>2 DEF line
    <3>3. CASE r \in 1 .. row
      BY <2>2, <2>7, <3>3
    <3> QED BY <3>1, <3>2, <3>3
  <2>9. row' \in 0 .. mem_slice
    BY <1>0, <2>1, <2>2
  <2> QED BY <1>0, <2>1, <2>7, <2>8, <2>9 DEF FileInv
<1>4. CASE RelFree
  <2>1. /\ release = "rows" /\ release' = "clear" /\ row = mem_slice
        /\ UNCHANGED <<row, file, sd, buf, taken>>
    BY <1>4, RelFreeEffect
  <2> QED BY <1>0, <2>1 DEF FileInv
<1>5. CASE RelClear
  <2>1. /\ release = "clear" /\ release' = "recv" /\ sd' = Append(sd, file) /\ file' = file
        /\ taken' = taken
    BY <1>5, RelClearEffect
  <2>2. \A r \in 1 .. mem_slice :
           file[r] = [tem |-> Start(buf) + r, hum |-> Start(buf) + r]
    BY <1>0, <2>1 DEF FileInv
  <2>3. /\ sd' \in Seq(Seq(Line)) /\ Len(sd') = Len(sd) + 1 /\ sd'[Len(sd) + 1] = file
        /\ \A k \in 1 .. Len(sd) : sd'[k] = sd[k]
        /\ \A k \in 1 .. Len(sd') : k = Len(sd) + 1 \/ k \in 1 .. Len(sd)
    BY <1>0, <2>1, AppendIs
  <2>4. taken[Len(sd) + 1] - 1 = buf
    BY <2>1 DEF EarlyInv, MessagesInv
  <2>5. ASSUME NEW f \in 1 .. Len(sd'), NEW r \in 1 .. mem_slice
        PROVE  sd'[f][r] = [tem |-> Start(taken[f] - 1) + r, hum |-> Start(taken[f] - 1) + r]
    <3>1. CASE f = Len(sd) + 1
      BY <2>2, <2>3, <2>4, <3>1
    <3>2. CASE f \in 1 .. Len(sd)
      BY <1>0, <2>3, <3>2
    <3> QED BY <2>3, <3>1, <3>2
  <2> QED BY <1>0, <2>1, <2>3, <2>5 DEF FileInv
<1>6. CASE RecevStep
  BY <1>1, <1>6, RecevLeaves
<1>7. CASE timeout1 \/ Key \/ Naps \/ LcdStep
  BY <1>1, <1>7, InputsLeave
<1> QED BY <1>2, <1>3, <1>4, <1>5, <1>6, <1>7 DEF Next, RelStep
-----------------------------------------------------------------------------
LEMMA EarlyInit == ASSUME EarlyBounds, Init PROVE EarlyInv
<1> USE DEF Init
<1>1. /\ InTem = FALSE /\ InHum = FALSE /\ TemRead = 0 /\ HumRead = 0 /\ TemSlots = 0
      /\ TemDone = 0 /\ HumDone = 0 /\ Pending = FALSE /\ Passing = FALSE /\ InFlight = 0
      /\ Len(sd) = 0 /\ Handed = 0 /\ Held = 0 /\ Freed = {} /\ SavedSlots = {}
      /\ TemLive = {} /\ HumLive = {}
  <2>1. /\ InTem = FALSE /\ InHum = FALSE /\ TemRead = 0 /\ HumRead = 0 /\ TemSlots = 0
        /\ HumDone = 0 /\ Pending = FALSE /\ Passing = FALSE /\ InFlight = 0
        /\ Len(sd) = 0 /\ Held = 0 /\ Freed = {}
    BY DEF InTem, InHum, TemRead, HumRead, TemSlots, HumDone, Pending, Passing, InFlight,
           Held, Freed
  <2>2. TemDone = 0
    BY <2>1 DEF TemDone
  <2>3. Handed = 0
    BY <2>1, <2>2 DEF Handed
  <2>4. SavedSlots = {}
    BY <2>1 DEF SavedSlots, Saved
  <2>5. TemLive = {} /\ HumLive = {}
    <3>1. \A s \in Slots : ~ (s < 0)
      BY Numbers
    <3>2. j = 0
      OBVIOUS
    <3> HIDE DEF Init
    <3> QED BY <2>1, <3>1, <3>2 DEF TemLive, HumLive
  <2> QED BY <2>1, <2>2, <2>3, <2>4, <2>5
<1>2. Types
  <2>1. nap \in [Nappers -> 0 .. 2]
    OBVIOUS
  <2>2. lcd_error \in BOOLEAN /\ ~ wave
    OBVIOUS
  <2>3. samples <= MaxSamples /\ keys <= MaxKeys
    BY Numbers
  <2> QED BY <2>1, <2>2, <2>3 DEF Types, RecevStates
<1>3. QueuesInv
  <2>1. Queued(<<>>, 0, 0)
    BY DEF Queued
  <2> QED BY <1>1, <2>1, Numbers DEF QueuesInv
<1>4. SlotsInv
  BY <1>1 DEF SlotsInv
<1>5. TimelyInv
  BY <1>1 DEF TimelyInv, Nappers
<1>6. MessagesInv
  <2>1. Ordered(<<>>, <<>>, {}, 0)
    BY DEF Ordered
  <2>2. Awakening
    BY <1>1 DEF Awakening
  <2> QED BY <1>1, <2>1, <2>2 DEF MessagesInv
<1>7. /\ tem_mp \in Seq(Blocks) /\ hum_mp \in Seq(Blocks)
      /\ Len(tem_mp) = BLOCKS /\ Len(hum_mp) = BLOCKS
      /\ \A b \in Blocks : b \in 1 .. BLOCKS /\ tem_mp[b] = b /\ hum_mp[b] = b
      /\ \A s \in Slots : ptr[s] = Null /\ ptr2[s] = Null
  <2>1. [b \in Blocks |-> b] \in Seq(Blocks) /\ Len([b \in Blocks |-> b]) = BLOCKS
    BY Numbers DEF Blocks
  <2> QED BY <2>1 DEF Blocks
<1>8. Exclusive(tem_mp, ptr, {}) /\ Exclusive(hum_mp, ptr2, {})
  BY <1>1, InitPool DEF PoolInv
<1>9. TemInv
  <2>1. \A s \in Slots : ptr[s] # Null <=> s \notin SavedSlots /\ s < TemSlots
    BY <1>1, <1>7, Numbers
  <2>2. \A b \in Blocks : b \in 1 .. Len(tem_mp) /\ tem_mp[b] = b
    BY <1>7
  <2>3. Len(tem_mp) + TemSlots = BLOCKS + Held
    BY <1>1, <1>7, Numbers
  <2>4. ptr \in [Slots -> Blocks \cup {Null}] /\ tem_mp \in Seq(Blocks)
    BY <1>7
  <2> HIDE DEF Init
  <2> QED BY <1>1, <1>8, <2>1, <2>2, <2>3, <2>4 DEF TemInv
<1>10. HumInv
  <2>1. Lost(hum_mp, ptr2) = {}
    BY <1>7 DEF Lost
  <2>2. Cardinality(Lost(hum_mp, ptr2)) = 0
    BY <2>1, FS_EmptySet
  <2>3. HumBlocksLost
    BY <1>1, <1>8, <2>2, LostIs DEF HumBlocksLost
  <2>4. \A s \in Slots : ptr2[s] # Null <=> s \notin SavedSlots /\ s < j
    BY <1>1, <1>7, Numbers
  <2> QED BY <1>7, <1>8, <2>3, <2>4, Numbers DEF HumInv
<1>11. TemData /\ HumData
  BY <1>1, Numbers DEF TemData, HumData, Keeps, Unset
<1>12. FileInv
  BY <1>1 DEF FileInv
<1> QED BY <1>2, <1>3, <1>4, <1>5, <1>6, <1>9, <1>10, <1>11, <1>12 DEF EarlyInv

LEMMA EarlyStutter == ASSUME EarlyInv, UNCHANGED vars PROVE EarlyInv'
<1>1. UNCHANGED <<sampling, recev, locals, store, index, lcdVars, relVars, fault, nap>>
  BY DEF vars
<1>2. /\ UNCHANGED <<samples, mq_DHT11_tem, mq_DHT11_hum, recev, tem_get, hum_get, i, j, cnt, cnt2>>
      /\ UNCHANGED <<ptr, ptr2, tem_mp, hum_mp, temmempool, hummempool, index>>
      /\ UNCHANGED <<memlcd_data_event, lcd, lcd_buf, lcd_error, lost, wave, keys, mq_tem_memlcd>>
      /\ UNCHANGED <<release, buf, row, taken, file, sd, fault, nap>>
  BY <1>1 DEF sampling, locals, store, lcdVars, relVars
<1>3. UNCHANGED <<InTem, InHum, TemRead, HumRead, TemSlots, TemDone, HumDone, Pending, Passing,
                  InFlight, Handed, SavedSlots, Held, Freed, TemLive, HumLive, Limit>>
  BY <1>2 DEF InTem, InHum, TemRead, HumRead, TemSlots, TemDone, HumDone, Pending, Passing,
              InFlight, Handed, SavedSlots, Saved, Held, Freed, TemLive, HumLive, Limit
<1>4. Types' /\ QueuesInv' /\ SlotsInv'
  BY <1>2, <1>3 DEF EarlyInv, Types, QueuesInv, SlotsInv
<1>5. TimelyInv' /\ MessagesInv'
  BY <1>2, <1>3 DEF EarlyInv, TimelyInv, MessagesInv, Awakening
<1>6. TemInv' /\ TemData' /\ HumData'
  BY <1>2, <1>3 DEF EarlyInv, TemInv, TemData, HumData
<1>7. HumInv' /\ FileInv'
  BY <1>2, <1>3 DEF EarlyInv, HumInv, HumBlocksLost, FileInv
<1> QED BY <1>4, <1>5, <1>6, <1>7 DEF EarlyInv

LEMMA EarlyStep == ASSUME EarlyBounds, EarlyInv, Next PROVE EarlyInv'
BY TypesStep, QueuesStep, SlotsStep, TimelyStep, MessagesStep, TemStep, HumStep,
   TemDataStep, HumDataStep, FileStep DEF EarlyInv

\* The parts together, as long as the pools have blocks.
THEOREM EarlyInvariance == ASSUME EarlyBounds PROVE Spec => []EarlyInv
<1>1. Init => EarlyInv
  BY EarlyInit
<1>2. EarlyInv /\ [Next]_vars => EarlyInv'
  BY EarlyStep, EarlyStutter
<1> QED BY <1>1, <1>2, PTL DEF Spec

\* Until the pools are used up every temperature block is in exactly one place:
\* none is lost between rt_mp_alloc and rt_mp_free (main.c:238, 391).
THEOREM TemBlocksPlaced == ASSUME EarlyBounds PROVE Spec => []TemBlockHasPlace
<1>1. EarlyInv => TemBlockHasPlace
  <2> SUFFICES ASSUME EarlyInv, NEW b \in Blocks PROVE Places(b, tem_mp, ptr, Freed) = 1
    BY DEF TemBlockHasPlace
  <2>1. /\ Exclusive(tem_mp, ptr, Freed)
        /\ \/ \E k \in 1 .. Len(tem_mp) : tem_mp[k] = b
           \/ \E s \in Slots \ Freed : ptr[s] = b
    BY DEF EarlyInv, TemInv
  <2> QED BY <2>1, PlacesOf
<1> QED BY <1>1, EarlyInvariance, PTL

\* Every file costs one humidity block, and nothing else costs any
\* (main.c:391-393).
THEOREM HumBlocksCounted == ASSUME EarlyBounds PROVE Spec => []HumBlocksLost
<1>1. EarlyInv => HumBlocksLost
  BY DEF EarlyInv, HumInv
<1> QED BY <1>1, EarlyInvariance, PTL

\* Row by row the files are the samples, in order and none twice, however the
\* threads of equal priority are sliced and whichever thread a key puts to sleep.
\* A block up to the last one saved is missing exactly if rt_event_recv failed
\* with its announcement (main.c:238-277, 380-394, 498).
THEOREM FilesHoldHistory == ASSUME EarlyBounds PROVE Spec => []FilesAreHistory
<1>1. EarlyInv => FilesAreHistory
  <2> SUFFICES ASSUME EarlyInv, NEW f \in 1 .. Len(sd)
               PROVE  /\ \A r \in 1 .. mem_slice :
                            LET s == (taken[f] - 1) * mem_slice + r
                            IN  sd[f][r] = [tem |-> s, hum |-> s]
                      /\ \A g \in 1 .. f - 1 : taken[g] < taken[f]
                      /\ \A b \in 1 .. taken[f] :
                            b \in lost <=> \A g \in 1 .. f : taken[g] # b
    BY DEF FilesAreHistory
  <2>1. /\ Ordered(taken, mq_tem_memlcd, lost, Handed) /\ Len(sd) \in Nat
        /\ Len(taken) \in Nat /\ Len(sd) <= Len(taken)
    <3>1. Ordered(taken, mq_tem_memlcd, lost, Handed) /\ sd \in Seq(Seq(Line))
      BY DEF EarlyInv, MessagesInv, FileInv
    <3>2. Len(sd) \in Nat /\ Len(taken) \in Nat
      BY <3>1, OrderedTypes
    <3>3. Len(taken) = Len(sd) \/ Len(taken) = Len(sd) + 1
      BY DEF EarlyInv, MessagesInv
    <3> QED BY <3>1, <3>2, <3>3
  <2>2. /\ f \in 1 .. Len(taken) /\ f \in Nat /\ 1 .. f \subseteq 1 .. Len(taken)
        /\ 1 .. f - 1 \subseteq 1 .. Len(taken)
    BY <2>1
  <2>3. \A r \in 1 .. mem_slice :
           LET s == (taken[f] - 1) * mem_slice + r
           IN  sd[f][r] = [tem |-> s, hum |-> s]
    BY DEF EarlyInv, FileInv, Start
  <2>4. \A g \in 1 .. f - 1 : taken[g] < taken[f]
    <3> SUFFICES ASSUME NEW g \in 1 .. f - 1 PROVE taken[g] < taken[f]
      OBVIOUS
    <3>1. g \in 1 .. Len(taken) /\ g < f
      BY <2>2
    <3> QED BY <2>1, <2>2, <3>1 DEF Ordered
  <2>5. ASSUME NEW b \in 1 .. taken[f]
        PROVE  b \in lost <=> \A g \in 1 .. f : taken[g] # b
    <3>1. /\ taken[f] \in Nat /\ taken[f] <= Handed /\ Handed \in Nat
          /\ b \in 1 .. Handed /\ b <= taken[f] /\ b \in Nat
      <4>1. taken[f] \in Nat /\ taken[f] <= Handed /\ Handed \in Nat
        BY <2>1, <2>2 DEF Ordered
      <4> QED BY <4>1
    <3>2. b \in lost <=> /\ \A g \in 1 .. Len(taken) : taken[g] # b
                         /\ \A k \in 1 .. Len(mq_tem_memlcd) : mq_tem_memlcd[k] # b
      BY <2>1, <3>1 DEF Ordered
    <3>3. \A k \in 1 .. Len(mq_tem_memlcd) : mq_tem_memlcd[k] # b
      <4> SUFFICES ASSUME NEW k \in 1 .. Len(mq_tem_memlcd) PROVE mq_tem_memlcd[k] # b
        OBVIOUS
      <4>1. taken[f] < mq_tem_memlcd[k] /\ mq_tem_memlcd[k] \in Nat
        BY <2>1, <2>2, OrderedNumbers
      <4> QED BY <3>1, <4>1
    <3>4. ASSUME NEW g \in 1 .. Len(taken), g \notin 1 .. f PROVE taken[g] # b
      <4>1. f < g
        BY <2>2, <3>4
      <4>2. taken[f] < taken[g] /\ taken[g] \in Nat
        BY <2>1, <2>2, <4>1, OrderedNumbers
      <4> QED BY <3>1, <4>2
    <3> QED BY <2>2, <3>2, <3>3, <3>4
  <2> QED BY <2>3, <2>4, <2>5
<1> QED BY <1>1, EarlyInvariance, PTL

\* The column of temperatures never goes back, within a file and from one file to
\* the next (main.c:269-275, 380-391).
THEOREM TemColumnsInOrder == ASSUME EarlyBounds PROVE Spec => []TemColumnsSound
<1>1. EarlyInv => TemColumnsSound
  <2> SUFFICES ASSUME EarlyInv, NEW f \in 1 .. Len(sd)
               PROVE  /\ \A r \in 2 .. mem_slice : sd[f][r].tem > sd[f][r - 1].tem
                      /\ f > 1 => sd[f][1].tem > sd[f - 1][mem_slice].tem
    BY DEF TemColumnsSound
  <2>1. /\ mem_slice \in Nat \ {0} /\ f \in Nat /\ Len(sd) \in Nat
        /\ Ordered(taken, mq_tem_memlcd, lost, Handed)
        /\ Len(taken) \in Nat /\ Len(sd) <= Len(taken)
    BY Numbers, Counts DEF EarlyInv, MessagesInv, Ordered
  <2>2. ASSUME NEW e \in 1 .. Len(sd)
        PROVE  /\ taken[e] - 1 \in Int /\ Start(taken[e] - 1) \in Int
               /\ \A r \in 1 .. mem_slice : sd[e][r].tem = Start(taken[e] - 1) + r
    <3>1. taken[e] \in Nat
      <4>1. taken \in Seq(Nat) /\ e \in 1 .. Len(taken)
        BY <2>1 DEF Ordered
      <4> QED BY <4>1
    <3>2. taken[e] - 1 \in Int /\ Start(taken[e] - 1) \in Int
      <4>1. taken[e] - 1 \in Int
        BY <3>1
      <4> QED BY <4>1, StartIs
    <3>3. \A r \in 1 .. mem_slice :
             sd[e][r] = [tem |-> Start(taken[e] - 1) + r, hum |-> Start(taken[e] - 1) + r]
      BY DEF EarlyInv, FileInv
    <3>4. ASSUME NEW r \in 1 .. mem_slice, NEW v, v = Start(taken[e] - 1) + r
          PROVE  sd[e][r].tem = v
      <4>1. sd[e][r] = [tem |-> v, hum |-> v]
        BY <3>3, <3>4
      <4> QED BY <4>1
    <3> QED BY <3>2, <3>4
  <2>3. ASSUME NEW r \in 2 .. mem_slice PROVE sd[f][r].tem > sd[f][r - 1].tem
    <3>1. r \in 1 .. mem_slice /\ r - 1 \in 1 .. mem_slice /\ r \in Int
      BY <2>1
    <3>2. /\ Start(taken[f] - 1) \in Int
          /\ sd[f][r].tem = Start(taken[f] - 1) + r
          /\ sd[f][r - 1].tem = Start(taken[f] - 1) + (r - 1)
      BY <2>2, <3>1
    <3>3. \A x \in Int : x + r > x + (r - 1)
      BY <3>1
    <3> QED BY <3>2, <3>3
  <2>4. ASSUME f > 1 PROVE sd[f][1].tem > sd[f - 1][mem_slice].tem
    <3>1. /\ f - 1 \in 1 .. Len(sd) /\ 1 \in 1 .. mem_slice /\ mem_slice \in 1 .. mem_slice
          /\ f \in 1 .. Len(taken) /\ f - 1 \in 1 .. Len(taken) /\ f - 1 < f
      BY <2>1, <2>4
    <3>2. taken[f - 1] < taken[f] /\ taken[f - 1] \in Nat /\ taken[f] \in Nat
      <4>1. /\ \A k \in 1 .. Len(taken) : taken[k] \in Nat
            /\ \A k, m \in 1 .. Len(taken) : k < m => taken[k] < taken[m]
        BY <2>1, OrderedNumbers
      <4> QED BY ONLY <3>1, <4>1
    <3>3. Start(taken[f - 1] - 1) + mem_slice <= Start(taken[f] - 1)
      BY <3>2, StartGrows
    <3>4. /\ sd[f][1].tem = Start(taken[f] - 1) + 1 /\ Start(taken[f] - 1) \in Int
          /\ sd[f - 1][mem_slice].tem = Start(taken[f - 1] - 1) + mem_slice
          /\ Start(taken[f - 1] - 1) \in Int
      BY <2>2, <3>1
    <3>5. \A x, y, z \in Int : x + z <= y => y + 1 > x + z
      OBVIOUS
    <3> QED BY <2>1, <3>3, <3>4, <3>5
  <2> QED BY <2>3, <2>4
<1> QED BY <1>1, EarlyInvariance, PTL

\* A message to thread_mp_release names a block that is there and that it is not
\* saving already (main.c:384, 391).
THEOREM MessagesNameBlocks == ASSUME EarlyBounds PROVE Spec => []MessageNamesBlock
<1>1. EarlyInv => MessageNamesBlock
  <2> SUFFICES ASSUME EarlyInv, NEW k \in 1 .. Len(mq_tem_memlcd)
               PROVE  /\ mq_tem_memlcd[k] >= 1
                      /\ ptr[mq_tem_memlcd[k] - 1] # Null
                      /\ ~ (release # "recv" /\ buf = mq_tem_memlcd[k] - 1)
    BY DEF MessageNamesBlock
  <2>1. Ordered(taken, mq_tem_memlcd, lost, Handed) /\ Len(sd) \in Nat
    BY Counts DEF EarlyInv, MessagesInv
  <2>2. /\ mq_tem_memlcd[k] \in Nat /\ 1 <= mq_tem_memlcd[k] /\ mq_tem_memlcd[k] <= Handed
        /\ Handed \in Nat
    BY <2>1 DEF Ordered
  <2>3. /\ Handed <= TemDone /\ TemDone \in Nat /\ TemDone <= TemSlots /\ TemSlots \in Nat
        /\ TemSlots <= BLOCKS /\ BLOCKS \in Nat
    BY Counts DEF Progress
  <2>4. /\ mq_tem_memlcd[k] - 1 \in Nat /\ mq_tem_memlcd[k] - 1 < TemSlots
        /\ mq_tem_memlcd[k] - 1 < BLOCKS
    BY <2>2, <2>3
  <2>5. mq_tem_memlcd[k] - 1 \in Slots /\ mq_tem_memlcd[k] - 1 \notin SavedSlots
    BY <2>4, Counts, SavedIs
  <2>6. ptr[mq_tem_memlcd[k] - 1] # Null
    BY <2>4, <2>5 DEF EarlyInv, TemInv
  <2>7. ASSUME release # "recv" PROVE buf # mq_tem_memlcd[k] - 1
    <3>1. Len(taken) = Len(sd) + 1 /\ buf = taken[Len(sd) + 1] - 1
      BY <2>7 DEF EarlyInv, MessagesInv
    <3>2. Len(sd) + 1 \in 1 .. Len(taken)
      BY <2>1, <3>1
    <3>3. taken[Len(sd) + 1] < mq_tem_memlcd[k] /\ taken[Len(sd) + 1] \in Nat
      BY <2>1, <3>2 DEF Ordered
    <3> QED BY <2>2, <3>1, <3>3
  <2> QED BY <2>2, <2>6, <2>7
<1> QED BY <1>1, EarlyInvariance, PTL

\* No sample is stored in front of the slots (main.c:268-275).
THEOREM StoresInSlots == ASSUME EarlyBounds PROVE Spec => []NoWildStore
<1>1. EarlyInv => NoWildStore
  BY DEF EarlyInv, Types, NoWildStore
<1> QED BY <1>1, EarlyInvariance, PTL

\* Once lcd_show has taken an announcement, index is not changed until it has
\* passed it on (main.c:39, 250, 513).
THEOREM AnnouncementsKept == ASSUME EarlyBounds PROVE Spec => AnnouncementKept
<1>1. ASSUME EarlyInv, EarlyInv', Next, Announced PROVE index' = index
  <2>1. Passing /\ InFlight = 1 /\ index = TemDone
    <3>1. lcd \notin {"suspended_wave", "asleep_wave"}
      BY <1>1, Counts DEF Types
    <3>2. Passing
      BY <1>1, <3>1 DEF Announced, Passing
    <3>3. InFlight = 1
      BY <3>2 DEF InFlight
    <3> QED BY <1>1, <3>2, <3>3 DEF EarlyInv, MessagesInv
  <2>2. CASE RecevStep
    <3>1. Passing' /\ TemDone' = TemDone
      BY <1>1, <2>1, <2>2, RecevWaits
    <3>2. InFlight' = 1
      BY <3>1 DEF InFlight
    <3> QED BY <1>1, <2>1, <3>1, <3>2 DEF EarlyInv, MessagesInv
  <2>3. CASE ~ RecevStep
    BY <1>1, <2>3, OthersLeave DEF Next
  <2> QED BY <2>2, <2>3
<1>2. EarlyInv /\ EarlyInv' /\ [Next]_vars => [Announced => index' = index]_vars
  BY <1>1
<1> QED BY <1>2, EarlyInvariance, PTL DEF Spec, AnnouncementKept
=============================================================================
