-------------------------- MODULE RtSmallMem_proof ---------------------------
(***************************************************************************)
(* Proofs about the kernel heap (RtSmallMem), for every size of heap, every *)
(* set of sizes asked for and any number of threads in rt_realloc.         *)
(*                                                                         *)
(* HeapInv is the inductive invariant: the headers tile the arena both ways *)
(* (Linked), no two free blocks are neighbours (NoFreePair), lfree is a    *)
(* header that exists (StartIn), the blocks in use are those handed out    *)
(* (Handed), used_mem counts their words (Counted), and each mover's old   *)
(* block is in use and its alone (Movers).  Cut, Joined and plug_holes are *)
(* first shown to keep Linked whatever headers they are given; the two     *)
(* searches are recursive functions, which exist because every step goes   *)
(* up (WalkExists) and stop where the code stops (WalkStops).              *)
(***************************************************************************)
EXTENDS RtSmallMem, FiniteSetTheorems, TLAPS

\* The induction theorems of the library take the property as an operator; a
\* proof by induction is written here as one by the least counterexample, and
\* the principle comes from the well-foundedness of inclusion among finite sets.

\* The numbers before n, a finite set that grows with n.
Below(n) == 0 .. n - 1

\* Every non-empty set of natural numbers has a least element.
THEOREM LeastNatural ==
  ASSUME NEW T \in SUBSET Nat, T # {}
  PROVE  \E n \in T : \A m \in T : n <= m
<1> DEFINE F == {Below(n) : n \in T}
<1>1. F \subseteq FiniteSubsetsOf(Nat)
  <2>1. ASSUME NEW n \in T
        PROVE  Below(n) \in SUBSET Nat /\ IsFiniteSet(Below(n))
    BY FS_Interval DEF Below
  <2> QED BY <2>1 DEF FiniteSubsetsOf
<1>2. F # {}
  OBVIOUS
<1>3. \E x \in F : \A y \in F : <<y, x>> \notin StrictSubsetOrdering(Nat)
  <2>1. IsWellFoundedOn(StrictSubsetOrdering(Nat), FiniteSubsetsOf(Nat))
    BY FS_StrictSubsetOrderingWellFounded
  <2> HIDE DEF F
  <2> QED BY <1>1, <1>2, <2>1, WFMin
<1>4. PICK n \in T :
          \A m \in T : <<Below(m), Below(n)>> \notin StrictSubsetOrdering(Nat)
  BY <1>3
<1>5. ASSUME NEW m \in T, m < n
      PROVE  FALSE
  <2>1. m \in Below(n) /\ m \notin Below(m) /\ Below(m) \subseteq Below(n)
    BY <1>5 DEF Below
  <2>2. Below(m) \in SUBSET Nat /\ Below(n) \in SUBSET Nat
    BY DEF Below
  <2> HIDE DEF F
  <2> QED BY <1>4, <2>1, <2>2 DEF StrictSubsetOrdering
<1> QED BY <1>5

Header == [used : BOOLEAN, next : Int, prev : Int]

\* The headers of h tile the arena in address order, both ways.
Linked(h) ==
    /\ DOMAIN h \subseteq 0 .. heap_end /\ {0, heap_end} \subseteq DOMAIN h
    /\ h \in [DOMAIN h -> Header]
    /\ h[heap_end].used /\ h[heap_end].next = heap_end
    /\ h[0].prev = 0
    /\ \A b \in DOMAIN h \ {heap_end} :
           /\ h[b].next \in DOMAIN h /\ h[b].next > b + SIZEOF_STRUCT_MEM
           /\ \A x \in DOMAIN h : x <= b \/ h[b].next <= x
           /\ b # 0 => h[b].prev \in DOMAIN h /\ h[h[b].prev].next = b

LEMMA HeapEnd == heap_end \in Nat /\ heap_end > 6
BY HeapConstants DEF heap_end, SIZEOF_STRUCT_MEM, MIN_SIZE_ALIGNED

\* g is h with a new, free header b2 between b and the block behind it.
Splits(g, h, b, b2) ==
    /\ DOMAIN g = DOMAIN h \cup {b2}
    /\ g \in [DOMAIN g -> Header]
    /\ g[b2] = [used |-> FALSE, next |-> h[b].next, prev |-> b]
    /\ g[b].next = b2 /\ g[b].prev = h[b].prev /\ g[b].used = h[b].used
    /\ \A x \in DOMAIN h \ {b} :
          /\ g[x].used = h[x].used /\ g[x].next = h[x].next
          /\ g[x].prev = IF x = h[b].next /\ x # heap_end THEN b2 ELSE h[x].prev

LEMMA CutIs ==
  ASSUME NEW h, Linked(h), NEW b \in DOMAIN h \ {heap_end}, NEW size \in Nat,
         b + SIZEOF_STRUCT_MEM + size \notin DOMAIN h
  PROVE  Splits(Cut(h, b, size), h, b, b + SIZEOF_STRUCT_MEM + size)
<1> DEFINE b2 == b + SIZEOF_STRUCT_MEM + size
           last == h[b].next
           h1 == [h EXCEPT ![b].next = b2]
           new == [used |-> FALSE, next |-> last, prev |-> b]
           h2 == Put(h1, b2, new)
           g == Cut(h, b, size)
<1>0. b2 \notin DOMAIN h
  OBVIOUS
<1>1. /\ h \in [DOMAIN h -> Header] /\ b \in Int /\ last \in DOMAIN h /\ b2 \in Int
      /\ last \in Int /\ last # b
  BY HeapEnd DEF Linked, SIZEOF_STRUCT_MEM
<1>2. g = IF last # heap_end THEN [h2 EXCEPT ![last].prev = b2] ELSE h2
  BY DEF Cut
<1> HIDE DEF b2, last, g
<1>3. /\ h1 \in [DOMAIN h -> Header]
      /\ h1[b].next = b2 /\ h1[b].used = h[b].used /\ h1[b].prev = h[b].prev
      /\ \A x \in DOMAIN h \ {b} : h1[x] = h[x]
  BY <1>1 DEF Header
<1> HIDE DEF h1
<1>4. /\ new \in Header
      /\ new.used = FALSE /\ new.next = last /\ new.prev = b
  BY <1>1 DEF Header
<1> HIDE DEF new
<1>5. /\ h2 \in [DOMAIN h \cup {b2} -> Header]
      /\ h2[b2] = new
      /\ \A x \in DOMAIN h : h2[x] = h1[x]
  BY <1>0, <1>3, <1>4 DEF Put
<1> HIDE DEF h2
<1>6. CASE last = heap_end
  <2>1. g = h2
    BY <1>2, <1>6
  <2>2. Splits(g, h, b, b2)
    BY <1>1, <1>3, <1>4, <1>5, <1>6, <2>1 DEF Splits, new, last
  <2> QED BY <2>2 DEF g, b2
<1>7. CASE last # heap_end
  <2>1. g = [h2 EXCEPT ![last].prev = b2]
    BY <1>2, <1>7
  <2>2. g \in [DOMAIN h \cup {b2} -> Header]
    BY <1>1, <1>5, <2>1 DEF Header
  <2>3. /\ g[last].used = h2[last].used /\ g[last].next = h2[last].next
        /\ g[last].prev = b2
    BY <1>1, <1>5, <2>1 DEF Header
  <2>4. \A x \in DOMAIN h \cup {b2} : x # last => g[x] = h2[x]
    BY <1>5, <2>1
  <2>5. last # b2
    BY <1>1, <1>0
  <2>6. g[b2] = [used |-> FALSE, next |-> h[b].next, prev |-> b]
    BY <1>4, <1>5, <2>4, <2>5 DEF new, last
  <2>7. Splits(g, h, b, b2)
    BY <1>1, <1>3, <1>5, <1>7, <2>2, <2>3, <2>4, <2>6 DEF last, Splits
  <2> QED BY <2>7 DEF g, b2
<1> QED BY <1>6, <1>7

\* A block that is cut leaves the headers linked.
LEMMA CutLinked ==
  ASSUME NEW h, Linked(h), NEW b \in DOMAIN h \ {heap_end}, NEW size \in Nat \ {0},
         b + 2 * SIZEOF_STRUCT_MEM + size < h[b].next
  PROVE  /\ b + SIZEOF_STRUCT_MEM + size \notin DOMAIN h
         /\ Linked(Cut(h, b, size))
<1> DEFINE b2 == b + SIZEOF_STRUCT_MEM + size
           g == Cut(h, b, size)
<1>1. /\ b \in Int /\ b2 \in Int /\ b < b2 /\ h[b].next \in DOMAIN h
      /\ DOMAIN h \subseteq Int /\ b2 < h[b].next
      /\ b2 + SIZEOF_STRUCT_MEM < h[b].next /\ b + SIZEOF_STRUCT_MEM < b2
      /\ \A x \in DOMAIN h : x <= b \/ h[b].next <= x
  BY HeapEnd DEF Linked, SIZEOF_STRUCT_MEM
<1>2. b2 \notin DOMAIN h
  BY <1>1
<1>3. Splits(g, h, b, b2)
  BY <1>2, CutIs
<1> HIDE DEF g, b2
<1> USE DEF Splits
<1>4. DOMAIN g \subseteq 0 .. heap_end /\ {0, heap_end} \subseteq DOMAIN g
  BY <1>1, <1>3, HeapEnd DEF Linked
<1>5. g[heap_end].used /\ g[heap_end].next = heap_end
  BY <1>3 DEF Linked
<1>6. g[0].prev = 0
  BY <1>1, <1>3, HeapEnd DEF Linked
<1>7. ASSUME NEW x \in DOMAIN g \ {heap_end}
      PROVE  /\ g[x].next \in DOMAIN g /\ g[x].next > x + SIZEOF_STRUCT_MEM
             /\ \A y \in DOMAIN g : y <= x \/ g[x].next <= y
             /\ x # 0 => g[x].prev \in DOMAIN g /\ g[g[x].prev].next = x
  <2>1. CASE x = b2
    BY <1>1, <1>3, <2>1 DEF Linked
  <2>2. CASE x = b
    <3>1. x # 0 => h[x].prev \in DOMAIN h /\ h[h[x].prev].next = x /\ h[x].prev # b
      BY <1>1, <2>2 DEF Linked
    <3> QED BY <1>1, <1>3, <2>2, <3>1 DEF Linked
  <2>3. CASE x # b2 /\ x # b
    <3>1. x \in DOMAIN h \ {heap_end, b} /\ x \in Int
      BY <1>1, <1>3, <2>3
    <3>2. /\ h[x].next \in DOMAIN h /\ h[x].next > x + SIZEOF_STRUCT_MEM
          /\ \A y \in DOMAIN h : y <= x \/ h[x].next <= y
          /\ x # 0 => h[x].prev \in DOMAIN h /\ h[h[x].prev].next = x
      BY <3>1 DEF Linked
    <3>3. g[x].next = h[x].next
      BY <1>3, <3>1
    <3>4. \A y \in DOMAIN g : y <= x \/ g[x].next <= y
      <4>1. b2 <= x \/ g[x].next <= b2
        BY <1>1, <3>1, <3>2, <3>3
      <4> QED BY <1>3, <3>2, <3>3, <4>1
    <3>5. CASE x = h[b].next
      BY <1>3, <3>1, <3>2, <3>3, <3>4, <3>5
    <3>6. CASE x # h[b].next
      <4>1. g[x].prev = h[x].prev
        BY <1>3, <3>1, <3>6
      <4>2. x # 0 => h[x].prev # b /\ g[h[x].prev].next = x
        BY <1>3, <3>2, <3>6
      <4> QED BY <1>3, <3>2, <3>3, <3>4, <4>1, <4>2
    <3> QED BY <3>5, <3>6
  <2> QED BY <2>1, <2>2, <2>3
<1>8. Linked(g)
  BY <1>3, <1>4, <1>5, <1>6, <1>7 DEF Linked
<1> QED BY <1>2, <1>8 DEF g, b2

\* g is h without the header n, which b has swallowed.
Swallows(g, h, b, n) ==
    /\ DOMAIN g = DOMAIN h \ {n}
    /\ g \in [DOMAIN g -> Header]
    /\ n \in DOMAIN h \ {heap_end} /\ n # b /\ h[n].next \notin {b, n}
    /\ g[b].next = h[n].next /\ g[b].prev = h[b].prev /\ g[b].used = h[b].used
    /\ \A x \in DOMAIN h \ {b, n} :
          /\ g[x].used = h[x].used /\ g[x].next = h[x].next
          /\ g[x].prev = IF x = h[n].next THEN b ELSE h[x].prev

LEMMA JoinedIs ==
  ASSUME NEW h, Linked(h), NEW b \in DOMAIN h \ {heap_end}, h[b].next # heap_end
  PROVE  Swallows(Joined(h, b), h, b, h[b].next)
<1> DEFINE n == h[b].next
           m == h[n].next
           g == Joined(h, b)
           h2 == [h EXCEPT ![b].next = m, ![m].prev = b]
<1>1. /\ h \in [DOMAIN h -> Header] /\ b \in Int /\ n \in DOMAIN h \ {heap_end}
      /\ n \in Int /\ m \in DOMAIN h /\ m \in Int /\ m > n /\ n > b
  BY HeapEnd DEF Linked, SIZEOF_STRUCT_MEM
<1>2. g = [x \in DOMAIN h2 \ {n} |-> h2[x]]
  BY DEF Joined
<1> HIDE DEF n, m, g
<1>3. /\ h2 \in [DOMAIN h -> Header]
      /\ h2[b].next = m /\ h2[b].prev = h[b].prev /\ h2[b].used = h[b].used
      /\ h2[m].next = h[m].next /\ h2[m].prev = b /\ h2[m].used = h[m].used
      /\ \A x \in DOMAIN h \ {b, m} : h2[x] = h[x]
  <2> DEFINE h1 == [h EXCEPT ![b].next = m]
  <2>1. /\ h1 \in [DOMAIN h -> Header]
        /\ h1[b].next = m /\ h1[b].prev = h[b].prev /\ h1[b].used = h[b].used
        /\ \A x \in DOMAIN h \ {b} : h1[x] = h[x]
    BY <1>1 DEF Header
  <2>2. h2 = [h1 EXCEPT ![m].prev = b]
    OBVIOUS
  <2> HIDE DEF h1, h2
  <2> QED BY <1>1, <2>1, <2>2 DEF Header
<1> HIDE DEF h2
<1>4. DOMAIN h2 = DOMAIN h
  BY <1>3
<1>5. DOMAIN g = DOMAIN h \ {n} /\ \A x \in DOMAIN h \ {n} : g[x] = h2[x]
  BY <1>2, <1>4
<1>6. g \in [DOMAIN g -> Header]
  BY <1>2, <1>3, <1>4
<1>7. h[n].next = m
  BY DEF m
<1>8. b # n /\ b \in DOMAIN h \ {n} /\ m \in DOMAIN h \ {n} /\ m # b
  BY <1>1
<1>9. Swallows(g, h, b, n)
  BY <1>1, <1>3, <1>5, <1>6, <1>7, <1>8 DEF Swallows
<1> QED BY <1>9 DEF n, g

\* Two blocks that are joined leave the headers linked.
LEMMA JoinedLinked ==
  ASSUME NEW h, Linked(h), NEW b \in DOMAIN h \ {heap_end}, h[b].next # heap_end
  PROVE  Linked(Joined(h, b))
<1> DEFINE n == h[b].next
           g == Joined(h, b)
<1>1. Swallows(g, h, b, n)
  BY JoinedIs
<1> HIDE DEF g
<1> USE DEF Swallows
<1>2. /\ DOMAIN h \subseteq Int /\ n > b + SIZEOF_STRUCT_MEM /\ b \in Int /\ n \in Int
      /\ h[n].next \in DOMAIN h /\ h[n].next > n + SIZEOF_STRUCT_MEM
      /\ \A x \in DOMAIN h : x <= b \/ n <= x
      /\ \A x \in DOMAIN h : x <= n \/ h[n].next <= x
      /\ b # 0 => h[b].prev \in DOMAIN h /\ h[h[b].prev].next = b
      /\ b >= 0
  BY <1>1, HeapEnd DEF Linked
<1> HIDE DEF n
<1>3. DOMAIN g \subseteq 0 .. heap_end /\ {0, heap_end} \subseteq DOMAIN g
  BY <1>1, <1>2, HeapEnd DEF Linked, SIZEOF_STRUCT_MEM
<1>4. g[heap_end].used /\ g[heap_end].next = heap_end
  BY <1>1, <1>3 DEF Linked
<1>5. g[0].prev = 0
  <2>1. h[n].next # 0 /\ n # 0 /\ h[0].prev = 0
    BY <1>2 DEF SIZEOF_STRUCT_MEM, Linked
  <2> QED BY <1>1, <1>3, <2>1
<1>6. ASSUME NEW x \in DOMAIN g \ {heap_end}
      PROVE  /\ g[x].next \in DOMAIN g /\ g[x].next > x + SIZEOF_STRUCT_MEM
             /\ \A y \in DOMAIN g : y <= x \/ g[x].next <= y
             /\ x # 0 => g[x].prev \in DOMAIN g /\ g[g[x].prev].next = x
  <2>1. CASE x = b
    <3>1. g[x].next \in DOMAIN g /\ g[x].next > x + SIZEOF_STRUCT_MEM
      BY <1>1, <1>2, <2>1 DEF SIZEOF_STRUCT_MEM
    <3>2. \A y \in DOMAIN g : y <= x \/ g[x].next <= y
      BY <1>1, <1>2, <2>1
    <3>3. b # 0 => h[b].prev # n /\ h[b].prev # b
      BY <1>1, <1>2 DEF n
    <3> QED BY <1>1, <1>2, <2>1, <3>1, <3>2, <3>3
  <2>2. CASE x # b
    <3>1. x \in DOMAIN h \ {b, n, heap_end} /\ x \in Int
      BY <1>1, <1>2, <2>2
    <3>2. /\ h[x].next \in DOMAIN h /\ h[x].next > x + SIZEOF_STRUCT_MEM
          /\ \A y \in DOMAIN h : y <= x \/ h[x].next <= y
          /\ x # 0 => h[x].prev \in DOMAIN h /\ h[h[x].prev].next = x
      BY <3>1 DEF Linked
    <3>3. h[x].next # n
      BY <1>2, <3>1, <3>2 DEF SIZEOF_STRUCT_MEM
    <3>4. x # 0 => h[x].prev # b
      BY <3>1, <3>2 DEF n
    <3>5. CASE x = h[n].next
      BY <1>1, <3>1, <3>2, <3>3, <3>5
    <3>6. CASE x # h[n].next
      <4>1. x # 0 => h[x].prev # n
        BY <3>2, <3>6
      <4> QED BY <1>1, <3>1, <3>2, <3>3, <3>4, <3>6, <4>1
    <3> QED BY <3>5, <3>6
  <2> QED BY <2>1, <2>2
<1> QED BY <1>1, <1>3, <1>4, <1>5, <1>6 DEF Linked, g
-----------------------------------------------------------------------------
(* plug_holes. *)

NoFreePair(h) == \A x \in DOMAIN h : ~h[x].used => h[h[x].next].used

\* Only b may be free beside a free block.
FreePairsAt(h, b) ==
    \A x \in DOMAIN h : ~h[x].used /\ x # b /\ h[x].next # b => h[h[x].next].used

\* A place to start a search for a free block.
StartIn(h, lf) == lf \in DOMAIN h /\ (lf = heap_end \/ ~h[lf].used)

\* g is h with some free blocks joined.
KeepsUsed(g, h) ==
    /\ DOMAIN g \subseteq DOMAIN h
    /\ \A x \in DOMAIN g : g[x].used = h[x].used
    /\ \A x \in DOMAIN h : h[x].used => x \in DOMAIN g /\ g[x].next = h[x].next

LEMMA PlugForward ==
  ASSUME NEW h, Linked(h), NEW b \in DOMAIN h \ {heap_end}, ~h[b].used,
         FreePairsAt(h, b), NEW lf, StartIn(h, lf), NEW n, n = h[b].next, ~h[n].used,
         NEW g, g = Joined(h, b)
  PROVE  /\ Linked(g) /\ b \in DOMAIN g \ {heap_end} /\ ~g[b].used
         /\ FreePairsAt(g, b) /\ g[g[b].next].used
         /\ StartIn(g, IF lf = n THEN b ELSE lf) /\ KeepsUsed(g, h)
<1>1. n # heap_end /\ n \in DOMAIN h
  BY DEF Linked
<1>2. Swallows(g, h, b, n) /\ Linked(g)
  BY <1>1, JoinedIs, JoinedLinked
<1>3. h[n].next \in DOMAIN h /\ h[h[n].next].used
  BY <1>1, <1>2 DEF FreePairsAt, Swallows, Linked
<1>4. KeepsUsed(g, h)
  BY <1>2, <1>1 DEF KeepsUsed, Swallows
<1>5. FreePairsAt(g, b)
  <2> SUFFICES ASSUME NEW x \in DOMAIN g, ~g[x].used, x # b, g[x].next # b
               PROVE  g[g[x].next].used
    BY DEF FreePairsAt
  <2>1. x \in DOMAIN h /\ x # n /\ ~h[x].used /\ g[x].next = h[x].next
    BY <1>2 DEF Swallows
  <2>2. h[h[x].next].used /\ h[x].next \in DOMAIN h
    BY <2>1 DEF FreePairsAt, Linked
  <2> QED BY <1>4, <2>1, <2>2 DEF KeepsUsed
<1> QED BY <1>1, <1>2, <1>3, <1>4, <1>5 DEF KeepsUsed, Swallows, StartIn

LEMMA PlugBackward ==
  ASSUME NEW h, Linked(h), NEW b \in DOMAIN h \ {heap_end}, ~h[b].used,
         FreePairsAt(h, b), h[h[b].next].used, NEW lf, StartIn(h, lf),
         NEW p, p = h[b].prev, p # b, ~h[p].used,
         NEW g, g = Joined(h, p)
  PROVE  /\ Linked(g) /\ NoFreePair(g)
         /\ StartIn(g, IF lf = b THEN p ELSE lf) /\ KeepsUsed(g, h)
<1>1. p \in DOMAIN h \ {heap_end} /\ h[p].next = b
  BY DEF Linked
<1>2. Swallows(g, h, p, b) /\ Linked(g)
  BY <1>1, JoinedIs, JoinedLinked
<1>3. KeepsUsed(g, h)
  BY <1>2 DEF KeepsUsed, Swallows
<1>4. NoFreePair(g)
  <2> SUFFICES ASSUME NEW x \in DOMAIN g, ~g[x].used
               PROVE  g[g[x].next].used
    BY DEF NoFreePair
  <2>1. h[b].next \in DOMAIN h
    BY DEF Linked
  <2>2. CASE x = p
    BY <1>2, <1>3, <2>1, <2>2 DEF Swallows, KeepsUsed
  <2>3. CASE x # p
    <3>1. x \in DOMAIN h /\ x # b /\ ~h[x].used /\ g[x].next = h[x].next
      BY <1>2, <2>3 DEF Swallows
    <3>2. x # heap_end /\ h[x].next \in DOMAIN h
      BY <3>1 DEF Linked
    <3>3. h[x].next # b
      <4> SUFFICES ASSUME h[x].next = b PROVE FALSE
        OBVIOUS
      <4>1. /\ x \in Int /\ p \in Int /\ b \in Int
            /\ x < b /\ p < b /\ (x <= p \/ b <= x) /\ (p <= x \/ b <= p)
        BY <1>1, <3>1, <3>2, HeapEnd DEF Linked, SIZEOF_STRUCT_MEM
      <4> QED BY <2>3, <4>1
    <3>4. h[h[x].next].used
      BY <3>1, <3>3 DEF FreePairsAt
    <3> QED BY <1>3, <3>1, <3>2, <3>4 DEF KeepsUsed
  <2> QED BY <2>2, <2>3
<1> QED BY <1>1, <1>2, <1>3, <1>4 DEF KeepsUsed, Swallows, StartIn

\* plug_holes(b) removes the last free neighbours and no block in use, and
\* leaves lfree on a header that still exists.
LEMMA PlugHoles ==
  ASSUME NEW h, Linked(h), NEW b \in DOMAIN h \ {heap_end}, ~h[b].used,
         FreePairsAt(h, b), NEW lf, StartIn(h, lf),
         NEW r, r = plug_holes(h, lf, b)
  PROVE  /\ Linked(r.mem) /\ NoFreePair(r.mem)
         /\ StartIn(r.mem, r.lfree) /\ KeepsUsed(r.mem, h)
<1> DEFINE n   == h[b].next
           fwd == ~h[n].used
           h1  == IF fwd THEN Joined(h, b) ELSE h
           lf1 == IF fwd /\ lf = n THEN b ELSE lf
           p   == h1[b].prev
           bwd == p # b /\ ~h1[p].used
           h2  == IF bwd THEN Joined(h1, p) ELSE h1
           lf2 == IF bwd /\ lf1 = b THEN p ELSE lf1
<1>1. r.mem = h2 /\ r.lfree = lf2
  BY DEF plug_holes
<1>2. /\ Linked(h1) /\ b \in DOMAIN h1 \ {heap_end} /\ ~h1[b].used
      /\ FreePairsAt(h1, b) /\ h1[h1[b].next].used
      /\ StartIn(h1, lf1) /\ KeepsUsed(h1, h)
  <2>1. CASE fwd
    BY <2>1, PlugForward
  <2>2. CASE ~fwd
    BY <2>2 DEF KeepsUsed
  <2> QED BY <2>1, <2>2
<1> HIDE DEF h1, lf1
<1>3. /\ Linked(h2) /\ NoFreePair(h2)
      /\ StartIn(h2, lf2) /\ KeepsUsed(h2, h1)
  <2>1. CASE bwd
    BY <1>2, <2>1, PlugBackward
  <2>2. CASE ~bwd
    <3>1. NoFreePair(h1)
      <4> SUFFICES ASSUME NEW x \in DOMAIN h1, ~h1[x].used
                   PROVE  h1[h1[x].next].used
        BY DEF NoFreePair
      <4>1. CASE x = b
        BY <1>2, <4>1
      <4>2. CASE h1[x].next = b
        <5>1. x # heap_end /\ x \in Int /\ b \in Int /\ x >= 0 /\ x < b
          BY <1>2, <4>2, HeapEnd DEF Linked, SIZEOF_STRUCT_MEM
        <5>2. p \in DOMAIN h1 /\ h1[p].next = b /\ p # heap_end
          BY <1>2, <5>1 DEF Linked
        <5>3. /\ p \in Int /\ p < b
              /\ (x <= p \/ b <= x) /\ (p <= x \/ b <= p)
          BY <1>2, <4>2, <5>1, <5>2, HeapEnd DEF Linked, SIZEOF_STRUCT_MEM
        <5>4. p = x
          BY <5>1, <5>3
        <5> QED BY <2>2, <5>1, <5>4
      <4>3. CASE x # b /\ h1[x].next # b
        BY <1>2, <4>3 DEF FreePairsAt
      <4> QED BY <4>1, <4>2, <4>3
    <3> QED BY <1>2, <2>2, <3>1 DEF KeepsUsed
  <2> QED BY <2>1, <2>2
<1> HIDE DEF h2, lf2
<1> QED BY <1>1, <1>2, <1>3 DEF KeepsUsed
-----------------------------------------------------------------------------
(* The searches.  Each is a recursive function over the headers that goes on *)
(* at a higher address; that such a function exists is proved by going down  *)
(* from heap_end.                                                            *)

\* f is the result of a search that goes from p to nxt[p] and ends with val[p]
\* at the p in stop.
Searches(f, D, nxt, stop, val) ==
    \A p \in D : f[p] = IF p \in stop THEN val[p] ELSE f[nxt[p]]

LEMMA WalkExists ==
  ASSUME NEW D, D \subseteq 0 .. heap_end, NEW nxt \in [D -> D],
         NEW stop, NEW val \in [D -> Int],
         \A p \in D : p \notin stop => nxt[p] > p
  PROVE  \E f \in [D -> Int] : Searches(f, D, nxt, stop, val)
<1> DEFINE SolvedFrom(f, n) ==
               \A p \in D : p >= n => f[p] = IF p \in stop THEN val[p] ELSE f[nxt[p]]
           T == {n \in Nat : \E f \in [D -> Int] : SolvedFrom(f, n)}
<1>0. \A p \in D : p \in Int /\ p >= 0 /\ p <= heap_end /\ nxt[p] \in D
  BY HeapEnd
<1>1. heap_end + 1 \in T
  <2>1. [p \in D |-> 0] \in [D -> Int] /\ SolvedFrom([p \in D |-> 0], heap_end + 1)
    BY HeapEnd
  <2> QED BY <2>1, HeapEnd
<1>2. PICK n \in T : \A m \in T : n <= m
  <2>1. T \in SUBSET Nat /\ T # {}
    BY <1>1
  <2> HIDE DEF T
  <2> QED BY <2>1, LeastNatural
<1>3. PICK f \in [D -> Int] : SolvedFrom(f, n)
  BY <1>2
<1>4. CASE n = 0
  BY <1>0, <1>3, <1>4 DEF Searches
<1>5. CASE n # 0
  <2>1. n - 1 \in Nat /\ n - 1 \notin T
    BY <1>2, <1>5
  <2>2. CASE n - 1 \notin D
    <3>1. SolvedFrom(f, n - 1)
      BY <1>3, <2>1, <2>2, HeapEnd
    <3> QED BY <2>1, <3>1
  <2>3. CASE n - 1 \in D
    <3> DEFINE q == n - 1
               v == IF q \in stop THEN val[q] ELSE f[nxt[q]]
               g == [f EXCEPT ![q] = v]
    <3>1. v \in Int /\ q \in D /\ q \in Int
      BY <1>0, <2>1, <2>3
    <3>2. g \in [D -> Int] /\ g[q] = v /\ \A p \in D : p # q => g[p] = f[p]
      BY <3>1
    <3> HIDE DEF g, v
    <3>3. SolvedFrom(g, q)
      <4> SUFFICES ASSUME NEW p \in D, p >= q
                   PROVE  g[p] = IF p \in stop THEN val[p] ELSE g[nxt[p]]
        OBVIOUS
      <4>1. p \in Int /\ nxt[p] \in D /\ nxt[p] \in Int
        BY <1>0
      <4>2. p \notin stop => g[nxt[p]] = f[nxt[p]]
        BY <3>1, <3>2, <4>1
      <4>3. CASE p = q
        BY <3>2, <4>2, <4>3 DEF v
      <4>4. CASE p # q
        <5>1. p >= n
          BY <4>1, <4>4, <1>2
        <5> QED BY <1>3, <3>2, <4>2, <4>4, <5>1
      <4> QED BY <4>3, <4>4
    <3> QED BY <2>1, <3>2, <3>3
  <2> QED BY <2>2, <2>3
<1> QED BY <1>4, <1>5

\* Such a search stops where it says, at or behind its start, and passes nothing
\* that would have stopped it.
LEMMA WalkStops ==
  ASSUME NEW D, D \subseteq 0 .. heap_end, NEW nxt \in [D -> D],
         NEW stop, NEW val \in [D -> Int],
         \A p \in D : p \notin stop => nxt[p] > p /\ \A x \in D : x <= p \/ nxt[p] <= x,
         NEW f, Searches(f, D, nxt, stop, val),
         NEW s \in D
  PROVE  \E q \in D : /\ q \in stop /\ q >= s /\ f[s] = val[q]
                      /\ \A x \in D : s <= x /\ x < q => x \notin stop
<1> DEFINE Reaches(p, q) == /\ q \in stop /\ q >= p /\ f[p] = val[q]
                            /\ \A x \in D : p <= x /\ x < q => x \notin stop
           T == {n \in 0 .. heap_end :
                   heap_end - n \in D /\ ~ \E q \in D : Reaches(heap_end - n, q)}
<1>0. \A p \in D : p \in Int /\ p \in 0 .. heap_end /\ nxt[p] \in D
  BY HeapEnd
<1>1. T = {}
  <2> SUFFICES ASSUME T # {} PROVE FALSE
    OBVIOUS
  <2>1. PICK n \in T : \A m \in T : n <= m
    <3>1. T \in SUBSET Nat
      BY HeapEnd
    <3> HIDE DEF T
    <3> QED BY <3>1, LeastNatural
  <2> DEFINE p == heap_end - n
  <2>2. /\ p \in D /\ p \in Int /\ ~ \E q \in D : Reaches(p, q)
        /\ n \in 0 .. heap_end
    BY <2>1, HeapEnd
  <2>3. p \notin stop
    BY <1>0, <2>2 DEF Searches
  <2>4. /\ nxt[p] \in D /\ nxt[p] > p /\ f[p] = f[nxt[p]]
        /\ \A x \in D : x <= p \/ nxt[p] <= x
    BY <2>2, <2>3 DEF Searches
  <2>5. nxt[p] \in Int /\ D \subseteq Int /\ nxt[p] \in 0 .. heap_end
    BY <1>0, <2>4
  <2>6. \E q \in D : Reaches(nxt[p], q)
    <3>1. heap_end - nxt[p] \in 0 .. heap_end /\ heap_end - nxt[p] < n
          /\ heap_end - (heap_end - nxt[p]) = nxt[p]
      BY <2>2, <2>4, <2>5, HeapEnd
    <3>2. heap_end - nxt[p] \notin T
      BY <2>1, <2>2, <3>1, HeapEnd
    <3> QED BY <2>4, <3>1, <3>2
  <2>7. PICK q \in D : Reaches(nxt[p], q)
    BY <2>6
  <2>8. Reaches(p, q)
    BY <2>2, <2>3, <2>4, <2>5, <2>7
  <2> QED BY <2>2, <2>8
<1>2. heap_end - s \in 0 .. heap_end /\ heap_end - (heap_end - s) = s
  BY HeapEnd
<1>3. heap_end - s \notin T
  BY <1>1
<1> QED BY <1>2, <1>3

\* rt_malloc's search finds a free block with room, or there is none that it
\* looks at: none from lfree up to the last few words.
LEMMA FirstFitFinds ==
  ASSUME Linked(mem), lfree \in DOMAIN mem, NEW size \in Nat,
         NEW b, b = FirstFit(size)
  PROVE  \/ /\ b = NoBlock
            /\ \A x \in DOMAIN mem : \/ x < lfree \/ x >= mem_size_aligned - size
                                     \/ mem[x].used \/ Room(x) < size
         \/ b \in DOMAIN mem \ {heap_end} /\ ~mem[b].used /\ Room(b) >= size
<1> DEFINE D == DOMAIN mem
           ends(p) == ~(p < mem_size_aligned - size)
           fits(p) == ~mem[p].used /\ Room(p) >= size
           nxt == [p \in D |-> mem[p].next]
           stop == {p \in D : ends(p) \/ fits(p)}
           val == [p \in D |-> IF ends(p) THEN NoBlock ELSE p]
           Step(W) == [p \in DOMAIN mem |->
                         IF ~(p < mem_size_aligned - size) THEN NoBlock
                         ELSE IF ~mem[p].used /\ Room(p) >= size THEN p
                         ELSE W[mem[p].next]]
           Walk == CHOOSE W : W = Step(W)
<1>1. b = Walk[lfree]
  BY DEF FirstFit
<1>2. /\ D \subseteq 0 .. heap_end /\ nxt \in [D -> D] 
      /\ val \in [D -> Int]
  <2>1. D \subseteq 0 .. heap_end /\ \A p \in D : mem[p].next \in D /\ p \in Int
    BY HeapEnd DEF Linked
  <2> QED BY <2>1 DEF NoBlock
<1>3. \A p \in D : p \in Int /\ p >= 0
  BY <1>2, HeapEnd
<1>4. mem_size_aligned \in Nat /\ heap_end = mem_size_aligned + 3
  BY HeapConstants DEF heap_end, SIZEOF_STRUCT_MEM
<1>5. \A p \in D : p \notin stop => nxt[p] > p /\ \A x \in D : x <= p \/ nxt[p] <= x
  <2> SUFFICES ASSUME NEW p \in D, p \notin stop
               PROVE  nxt[p] > p /\ \A x \in D : x <= p \/ nxt[p] <= x
    OBVIOUS
  <2>1. p # heap_end
    BY <1>3, <1>4
  <2>2. mem[p].next \in D
    BY <2>1 DEF Linked
  <2>3. nxt[p] \in Int
    BY <1>3, <2>2
  <2>4. mem[p].next > p + SIZEOF_STRUCT_MEM
        /\ \A x \in DOMAIN mem : x <= p \/ mem[p].next <= x
    BY <2>1 DEF Linked
  <2> QED BY <1>3, <2>3, <2>4 DEF SIZEOF_STRUCT_MEM
<1> HIDE DEF Walk
<1>6. Walk = Step(Walk)
  <2>1. \E f \in [D -> Int] : Searches(f, D, nxt, stop, val)
    <3>1. \A p \in D : p \notin stop => nxt[p] > p
      BY <1>5
    <3> HIDE DEF nxt, stop, val, D
    <3> QED BY <1>2, <3>1, WalkExists
  <2>2. PICK f \in [D -> Int] : Searches(f, D, nxt, stop, val)
    BY <2>1
  <2>3. f = Step(f)
    BY <2>2 DEF Searches
  <2>4. \E W : W = Step(W)
    BY <2>3
  <2> HIDE DEF Step
  <2> QED BY <2>4 DEF Walk
<1>7. Searches(Walk, D, nxt, stop, val)
  BY <1>6 DEF Searches
<1>8. PICK q \in D : /\ q \in stop /\ q >= lfree /\ Walk[lfree] = val[q]
                     /\ \A x \in D : lfree <= x /\ x < q => x \notin stop
  <2> HIDE DEF nxt, stop, val, D
  <2> QED BY <1>2, <1>5, <1>7, WalkStops DEF D
<1>11. \A x \in D : Room(x) \in Int
  BY <1>3, <1>4 DEF Linked, Header, Room, SIZEOF_STRUCT_MEM
<1>9. CASE ends(q)
  <2>1. b = NoBlock
    BY <1>1, <1>8, <1>9
  <2>2. ASSUME NEW x \in D
        PROVE  x < lfree \/ x >= mem_size_aligned - size \/ ~fits(x)
    BY <1>3, <1>4, <1>8, <1>9
  <2> QED BY <1>11, <2>1, <2>2
<1>10. CASE ~ends(q)
  <2>1. b = q /\ fits(q)
    BY <1>1, <1>8, <1>10
  <2>2. q # heap_end
    BY <1>3, <1>4, <1>10
  <2> QED BY <2>1, <2>2
<1> QED BY <1>9, <1>10

\* The search for the next free block finds one or ends at heap_end.
LEMMA NextFreeFinds ==
  ASSUME NEW h, Linked(h), NEW p \in DOMAIN h
  PROVE  StartIn(h, NextFree(h, p))
<1> DEFINE D == DOMAIN h
           nxt == [q \in D |-> h[q].next]
           stop == {q \in D : ~h[q].used \/ q = heap_end}
           val == [q \in D |-> q]
           Step(W) == [q \in DOMAIN h |->
                         IF h[q].used /\ q # heap_end THEN W[h[q].next] ELSE q]
           Walk == CHOOSE W : W = Step(W)
<1>1. NextFree(h, p) = Walk[p]
  BY DEF NextFree
<1>2. /\ D \subseteq 0 .. heap_end /\ nxt \in [D -> D] /\ val \in [D -> Int]
  <2>1. D \subseteq 0 .. heap_end /\ \A q \in D : h[q].next \in D /\ q \in Int
    BY HeapEnd DEF Linked
  <2> QED BY <2>1
<1>3. \A q \in D : q \notin stop => nxt[q] > q /\ \A x \in D : x <= q \/ nxt[q] <= x
  <2> SUFFICES ASSUME NEW q \in D, q \notin stop
               PROVE  nxt[q] > q /\ \A x \in D : x <= q \/ nxt[q] <= x
    OBVIOUS
  <2>1. q # heap_end /\ q \in Int /\ nxt[q] \in Int
    BY <1>2, HeapEnd
  <2>2. h[q].next > q + SIZEOF_STRUCT_MEM /\ \A x \in D : x <= q \/ h[q].next <= x
    BY <2>1 DEF Linked
  <2> QED BY <2>1, <2>2 DEF SIZEOF_STRUCT_MEM
<1> HIDE DEF Walk
<1>4. Walk = Step(Walk)
  <2>1. \E f \in [D -> Int] : Searches(f, D, nxt, stop, val)
    <3>1. \A q \in D : q \notin stop => nxt[q] > q
      BY <1>3
    <3> HIDE DEF nxt, stop, val, D
    <3> QED BY <1>2, <3>1, WalkExists
  <2>2. PICK f \in [D -> Int] : Searches(f, D, nxt, stop, val)
    BY <2>1
  <2>3. f = Step(f)
    BY <2>2 DEF Searches
  <2>4. \E W : W = Step(W)
    BY <2>3
  <2> HIDE DEF Step
  <2> QED BY <2>4 DEF Walk
<1>5. Searches(Walk, D, nxt, stop, val)
  BY <1>4 DEF Searches
<1>6. PICK q \in D : q \in stop /\ Walk[p] = val[q]
  <2> HIDE DEF nxt, stop, val, D
  <2> QED BY <1>2, <1>3, <1>5, WalkStops DEF D
<1> QED BY <1>1, <1>6 DEF StartIn
-----------------------------------------------------------------------------
(* The words in use. *)

BlocksWords(h, S) == UNION {b .. h[b].next - 1 : b \in S}

\* The blocks of U are those of S and b, and their words so many more.
AddsBlock(h, S, U, b) ==
    /\ Cardinality(BlocksWords(h, S)) \in Nat
    /\ Cardinality(BlocksWords(h, U))
       = Cardinality(BlocksWords(h, S)) + (h[b].next - b)

LEMMA WordsOfOneMore ==
  ASSUME NEW h, Linked(h), NEW b \in DOMAIN h \ {heap_end},
         NEW S, S \subseteq DOMAIN h \ {heap_end}, b \notin S,
         NEW U, U = S \cup {b}
  PROVE  AddsBlock(h, S, U, b)
<1> DEFINE W == BlocksWords(h, S)
           V == b .. h[b].next - 1
<1>1. \A x \in DOMAIN h \ {heap_end} :
         /\ x \in Int /\ x >= 0 /\ h[x].next \in Int /\ h[x].next > x
         /\ h[x].next <= heap_end
         /\ \A y \in DOMAIN h : y <= x \/ h[x].next <= y
  BY HeapEnd DEF Linked, SIZEOF_STRUCT_MEM
<1>2. IsFiniteSet(W)
  <2>1. W \subseteq 0 .. heap_end
    BY <1>1, HeapEnd DEF BlocksWords
  <2>2. IsFiniteSet(0 .. heap_end)
    BY FS_Interval, HeapEnd
  <2> QED BY <2>1, <2>2, FS_Subset
<1>3. IsFiniteSet(V) /\ Cardinality(V) = h[b].next - b
  <2>1. b \in Int /\ h[b].next - 1 \in Int
    BY <1>1
  <2> DEFINE e == h[b].next - 1
  <2>2. h[b].next - b = e - b + 1 /\ ~(b > e)
    BY <1>1, <2>1
  <2> HIDE DEF e
  <2>3. IsFiniteSet(b .. e) /\ Cardinality(b .. e) = IF b > e THEN 0 ELSE e - b + 1
    BY <2>1, FS_Interval DEF e
  <2> QED BY <2>2, <2>3 DEF e
<1>4. W \cap V = {}
  <2> SUFFICES ASSUME NEW w \in W, w \in V PROVE FALSE
    OBVIOUS
  <2>1. PICK x \in S : w \in x .. h[x].next - 1
    BY DEF BlocksWords
  <2>2. x \in DOMAIN h \ {heap_end} /\ x # b
    OBVIOUS
  <2>3. /\ x \in Int /\ b \in Int /\ h[x].next \in Int /\ h[b].next \in Int
        /\ b <= x \/ h[x].next <= b
        /\ x <= b \/ h[b].next <= x
    BY <1>1, <2>2
  <2> QED BY <2>1, <2>2, <2>3
<1>5. BlocksWords(h, U) = W \cup V
  BY DEF BlocksWords
<1>6. Cardinality(W) \in Nat
  BY <1>2, FS_CardinalityType
<1>7. Cardinality(W \cup V) = Cardinality(W) + Cardinality(V) - Cardinality(W \cap V)
  BY <1>2, <1>3, FS_Union
<1>8. Cardinality({}) = 0
  BY FS_EmptySet
<1> HIDE DEF W, V
<1>9. Cardinality(V) \in Nat
  BY <1>3, FS_CardinalityType
<1>10. Cardinality(W \cap V) = 0
  BY <1>4, <1>8
<1>11. Cardinality(BlocksWords(h, U)) = Cardinality(W \cup V)
  BY <1>5
<1>12. Cardinality(W \cup V) = Cardinality(W) + (h[b].next - b)
  BY <1>3, <1>6, <1>7, <1>9, <1>10
<1> QED BY <1>6, <1>11, <1>12 DEF W, AddsBlock

LEMMA SameWords ==
  ASSUME NEW g, NEW h, NEW S, \A b \in S : g[b].next = h[b].next
  PROVE  BlocksWords(g, S) = BlocksWords(h, S)
BY DEF BlocksWords

\* g is h with the block b marked used or free.
Marks(g, h, b, v) ==
    /\ DOMAIN g = DOMAIN h /\ g[b].used = v
    /\ \A x \in DOMAIN h : /\ g[x].next = h[x].next /\ g[x].prev = h[x].prev
                           /\ x # b => g[x].used = h[x].used

LEMMA MarkLinked ==
  ASSUME NEW h, Linked(h), NEW b \in DOMAIN h \ {heap_end}, NEW v \in BOOLEAN,
         NEW g, g = [h EXCEPT ![b].used = v]
  PROVE  Linked(g) /\ Marks(g, h, b, v)
<1>1. h \in [DOMAIN h -> Header]
  BY DEF Linked
<1>2. Marks(g, h, b, v) /\ g \in [DOMAIN h -> Header]
  BY <1>1 DEF Header, Marks
<1>3. Linked(g)
  BY <1>2 DEF Linked, Marks
<1> QED BY <1>2, <1>3
-----------------------------------------------------------------------------
(* The invariant. *)

\* The blocks in use are those handed out, each with the room asked for.
Handed ==
    /\ DOMAIN asked = {b \in DOMAIN mem : mem[b].used} \ {heap_end}
    /\ asked \in [DOMAIN asked -> Nat \ {0}]
    /\ \A b \in DOMAIN asked : Room(b) >= asked[b]

Counted == used_mem = Cardinality(BlocksWords(mem, DOMAIN asked))

HeapCore ==
    Linked(mem) /\ NoFreePair(mem) /\ StartIn(mem, lfree) /\ Handed /\ Counted

\* A block that is being moved is in use, and by one mover only.
Movers ==
    /\ moving \in [Clients -> [old : Int, size : Nat, new : Int]]
    /\ \A c \in Clients :
          /\ moving[c].old = NoBlock => moving[c].new = NoBlock
          /\ moving[c].old # NoBlock =>
                /\ moving[c].old \in DOMAIN asked /\ moving[c].size \in Sizes
                /\ \A d \in Clients \ {c} : moving[d].old # moving[c].old

HeapInv == HeapCore /\ Movers

LEMMA BlocksOf ==
  ASSUME HeapCore
  PROVE  /\ \A b \in DOMAIN mem : b \in Int /\ b >= 0
         /\ \A b \in DOMAIN mem \ {heap_end} :
               mem[b].next \in Int /\ b + SIZEOF_STRUCT_MEM < mem[b].next
         /\ DOMAIN asked \subseteq DOMAIN mem \ {heap_end}
         /\ \A b \in DOMAIN asked : b # NoBlock
BY HeapEnd DEF HeapCore, Linked, Handed, NoBlock, SIZEOF_STRUCT_MEM

LEMMA InitHeap == Init => HeapInv
<1> SUFFICES ASSUME Init PROVE HeapInv
  OBVIOUS
<1>1. /\ DOMAIN mem = {0, heap_end} /\ heap_end # 0
      /\ ~mem[0].used /\ mem[0].next = heap_end /\ mem[0].prev = 0
      /\ mem[heap_end].used /\ mem[heap_end].next = heap_end
      /\ mem \in [{0, heap_end} -> Header]
  <2>1. mem = [b \in {0, heap_end} |->
                 [used |-> b = heap_end, next |-> heap_end, prev |-> b]]
    BY DEF Init
  <2>2. mem[0] = [used |-> 0 = heap_end, next |-> heap_end, prev |-> 0]
    BY <2>1
  <2>3. mem[heap_end] = [used |-> TRUE, next |-> heap_end, prev |-> heap_end]
    BY <2>1
  <2>4. mem \in [{0, heap_end} -> Header]
    BY <2>1, HeapEnd DEF Header
  <2>5. mem[0].used = (0 = heap_end) /\ 0 # heap_end
    BY <2>2, HeapEnd
  <2> QED BY <2>1, <2>2, <2>3, <2>4, <2>5
<1>2. Linked(mem)
  BY <1>1, HeapEnd DEF Linked, SIZEOF_STRUCT_MEM
<1>3. NoFreePair(mem) /\ StartIn(mem, lfree)
  BY <1>1 DEF NoFreePair, StartIn, Init
<1>4. DOMAIN asked = {} /\ asked \in [{} -> Nat \ {0}]
  BY DEF Init
<1>5. Handed
  BY <1>1, <1>4 DEF Handed
<1>6. Counted
  <2>1. BlocksWords(mem, DOMAIN asked) = {}
    BY <1>4 DEF BlocksWords
  <2> QED BY <2>1, FS_EmptySet DEF Counted, Init
<1>7. Movers
  BY DEF Movers, Init, Idle, NoBlock
<1> QED BY <1>2, <1>3, <1>5, <1>6, <1>7 DEF HeapInv, HeapCore

LEMMA SizeOf ==
  ASSUME NEW n \in Sizes
  PROVE  /\ AtLeastMin(n) \in Nat \ {0} /\ AtLeastMin(n) >= n /\ n \in Nat \ {0}
BY HeapConstants DEF AtLeastMin, MIN_SIZE_ALIGNED

\* rt_malloc, once it has found a block.
LEMMA TakeCore ==
  ASSUME HeapCore, NEW n \in Sizes, NEW b, b = FirstFit(AtLeastMin(n)), b # NoBlock,
         Take(b, n), asked' = Put(asked, b, n)
  PROVE  HeapCore' /\ b \notin DOMAIN asked
<1> DEFINE size  == AtLeastMin(n)
           b2    == b + SIZEOF_STRUCT_MEM + size
           split == SplitFits(Room(b), size)
           h     == IF split THEN Cut(mem, b, size) ELSE mem
<1>1. /\ mem' = [h EXCEPT ![b].used = TRUE]
      /\ lfree' = IF b = lfree THEN NextFree(mem', lfree) ELSE lfree
      /\ used_mem' = used_mem + mem'[b].next - b
  BY DEF Take
<1>2. size \in Nat \ {0} /\ size >= n /\ n \in Nat \ {0}
  BY SizeOf
<1>3. b \in DOMAIN mem \ {heap_end} /\ ~mem[b].used /\ Room(b) >= size
  BY <1>2, FirstFitFinds DEF HeapCore, StartIn
<1>4. /\ Linked(mem) /\ b \in Int /\ mem[b].next \in DOMAIN mem
      /\ mem[b].next \in Int /\ \A x \in DOMAIN mem : x \in Int
  BY <1>3, BlocksOf DEF HeapCore, Linked
<1>5. split => /\ Splits(h, mem, b, b2) /\ b2 \notin DOMAIN mem /\ b2 \in Int
  <2> SUFFICES ASSUME split PROVE Splits(h, mem, b, b2) /\ b2 \notin DOMAIN mem /\ b2 \in Int
    OBVIOUS
  <2>1. b + 2 * SIZEOF_STRUCT_MEM + size < mem[b].next
    BY <1>2, <1>4 DEF SplitFits, Room, SIZEOF_STRUCT_MEM, MIN_SIZE_ALIGNED
  <2>2. b + SIZEOF_STRUCT_MEM + size \notin DOMAIN mem
    BY <1>2, <1>3, <1>4, <2>1, CutLinked
  <2> QED BY <1>2, <1>3, <1>4, <2>2, CutIs DEF SIZEOF_STRUCT_MEM
<1>6. Linked(h)
  <2>1. split => b + 2 * SIZEOF_STRUCT_MEM + size < mem[b].next
    BY <1>2, <1>4 DEF SplitFits, Room, SIZEOF_STRUCT_MEM, MIN_SIZE_ALIGNED
  <2> QED BY <1>2, <1>3, <1>4, <2>1, CutLinked
<1> HIDE DEF size, h, split
<1>7. /\ b \in DOMAIN h \ {heap_end} /\ DOMAIN mem \subseteq DOMAIN h
      /\ \A x \in DOMAIN mem \ {b} : h[x].used = mem[x].used /\ h[x].next = mem[x].next
      /\ \A x \in DOMAIN h \ DOMAIN mem : x = b2 /\ split
      /\ h[b].next = IF split THEN b2 ELSE mem[b].next
  <2>1. CASE split
    BY <1>3, <1>5, <2>1 DEF Splits
  <2>2. CASE ~split
    BY <1>3, <2>2 DEF h
  <2> QED BY <2>1, <2>2
<1>8. /\ Linked(mem') /\ DOMAIN mem' = DOMAIN h /\ mem'[b].used
      /\ \A x \in DOMAIN h : /\ mem'[x].next = h[x].next
                             /\ x # b => mem'[x].used = h[x].used
  <2>1. mem' = [h EXCEPT ![b].used = TRUE]
    BY <1>1
  <2>2. Linked(mem') /\ Marks(mem', h, b, TRUE)
    BY <1>6, <1>7, <2>1, MarkLinked
  <2> QED BY <2>2 DEF Marks
<1>9. split => mem'[b2] = h[b2] /\ h[b2] = [used |-> FALSE, next |-> mem[b].next, prev |-> b]
               /\ b2 \in DOMAIN h /\ b2 # b /\ b2 # heap_end
  <2>1. split => b2 \in DOMAIN h /\ b2 # b /\ b2 # heap_end
                 /\ h[b2] = [used |-> FALSE, next |-> mem[b].next, prev |-> b]
    BY <1>3, <1>5 DEF Splits, HeapCore, Linked
  <2> QED BY <1>1, <2>1
<1>10. \A x \in DOMAIN mem : x # b =>
           mem'[x].used = mem[x].used /\ mem'[x].next = mem[x].next
  BY <1>7, <1>8
<1>11. NoFreePair(mem')
  <2> SUFFICES ASSUME NEW x \in DOMAIN mem', ~mem'[x].used PROVE mem'[mem'[x].next].used
    BY DEF NoFreePair
  <2>1. mem[mem[b].next].used /\ mem[b].next # b
    BY <1>3 DEF HeapCore, NoFreePair
  <2>2. CASE x \in DOMAIN mem
    <3>1. x # b /\ ~mem[x].used /\ mem'[x].next = mem[x].next
      BY <1>8, <1>10, <2>2
    <3>2. mem[mem[x].next].used /\ mem[x].next \in DOMAIN mem
      BY <2>2, <3>1 DEF HeapCore, NoFreePair, Linked
    <3> QED BY <1>8, <1>10, <3>1, <3>2
  <2>3. CASE x \notin DOMAIN mem
    <3>1. x = b2 /\ split
      BY <1>7, <1>8, <2>3
    <3> QED BY <1>4, <1>9, <1>10, <2>1, <3>1
  <2> QED BY <2>2, <2>3
<1>12. StartIn(mem', lfree')
  <2>1. CASE b = lfree
    BY <1>1, <1>7, <1>8, <2>1, NextFreeFinds
  <2>2. CASE b # lfree
    BY <1>1, <1>7, <1>8, <1>10, <2>2 DEF HeapCore, StartIn
  <2> QED BY <2>1, <2>2
<1>13. /\ b \notin DOMAIN asked /\ DOMAIN asked' = DOMAIN asked \cup {b} /\ asked'[b] = n
       /\ \A x \in DOMAIN asked : asked'[x] = asked[x]
       /\ asked' = [x \in DOMAIN asked \cup {b} |-> IF x = b THEN n ELSE asked[x]]
  BY <1>3 DEF HeapCore, Handed, Put
<1>14. Handed'
  <2>1. DOMAIN asked' = {x \in DOMAIN mem' : mem'[x].used} \ {heap_end}
    BY <1>3, <1>7, <1>8, <1>9, <1>10, <1>13 DEF HeapCore, Handed
  <2>2. asked' \in [DOMAIN asked' -> Nat \ {0}]
    BY <1>2, <1>13 DEF HeapCore, Handed
  <2>3. ASSUME NEW x \in DOMAIN asked' PROVE Room(x)' >= asked'[x]
    <3>1. CASE x = b
      BY <1>2, <1>3, <1>4, <1>7, <1>8, <1>13, <3>1 DEF Room, SIZEOF_STRUCT_MEM
    <3>2. CASE x # b
      BY <1>10, <1>13, <3>2, BlocksOf DEF HeapCore, Handed, Room
    <3> QED BY <3>1, <3>2
  <2> QED BY <2>1, <2>2, <2>3 DEF Handed
<1>15. Counted'
  <2>1. BlocksWords(mem', DOMAIN asked) = BlocksWords(mem, DOMAIN asked)
    BY <1>10, <1>13, BlocksOf, SameWords
  <2>2. DOMAIN asked \subseteq DOMAIN mem' \ {heap_end} /\ b \in DOMAIN mem' \ {heap_end}
    BY <1>7, <1>8, BlocksOf
  <2>3. AddsBlock(mem', DOMAIN asked, DOMAIN asked', b)
    BY <1>8, <1>13, <2>2, WordsOfOneMore
  <2>4. mem'[b].next \in Int
    BY <1>4, <1>5, <1>7, <1>8
  <2> QED BY <1>1, <1>4, <2>1, <2>3, <2>4 DEF HeapCore, Counted, AddsBlock
<1> QED BY <1>8, <1>11, <1>12, <1>13, <1>14, <1>15 DEF HeapCore

\* Blocks that keep their ends after the heap has joined free ones.
LEMMA KeptWords ==
  ASSUME NEW g, NEW h, KeepsUsed(g, h), NEW S, \A x \in S : x \in DOMAIN h /\ h[x].used
  PROVE  BlocksWords(g, S) = BlocksWords(h, S)
<1>1. \A x \in S : g[x].next = h[x].next
  BY DEF KeepsUsed
<1> QED BY <1>1, SameWords

\* rt_free, and the end of rt_realloc.
LEMMA ReleaseCore ==
  ASSUME HeapCore, NEW b \in DOMAIN asked, Release(b), asked' = Without(b)
  PROVE  HeapCore'
<1> DEFINE h  == [mem EXCEPT ![b].used = FALSE]
           lf == IF b < lfree THEN b ELSE lfree
           r  == plug_holes(h, lf, b)
           S  == DOMAIN asked \ {b}
<1>1. mem' = r.mem /\ lfree' = r.lfree /\ used_mem' = used_mem - (mem[b].next - b)
  BY DEF Release
<1>2. /\ b \in DOMAIN mem \ {heap_end} /\ mem[b].used /\ Linked(mem) /\ NoFreePair(mem)
      /\ StartIn(mem, lfree) /\ Handed
  BY DEF HeapCore, Handed
<1>3. Linked(h) /\ Marks(h, mem, b, FALSE)
  BY <1>2, MarkLinked
<1> HIDE DEF h
<1>4. b \in DOMAIN h \ {heap_end} /\ ~h[b].used
  BY <1>2, <1>3 DEF Marks
<1>5. FreePairsAt(h, b)
  <2> SUFFICES ASSUME NEW x \in DOMAIN h, ~h[x].used, x # b, h[x].next # b
               PROVE  h[h[x].next].used
    BY DEF FreePairsAt
  <2>1. x \in DOMAIN mem /\ ~mem[x].used /\ h[x].next = mem[x].next
    BY <1>3 DEF Marks
  <2>2. mem[x].next \in DOMAIN mem /\ mem[mem[x].next].used
    BY <1>2, <2>1 DEF NoFreePair, Linked
  <2> QED BY <1>3, <2>1, <2>2 DEF Marks
<1>6. StartIn(h, lf)
  <2>1. CASE b < lfree
    BY <1>4, <2>1 DEF StartIn
  <2>2. CASE ~(b < lfree)
    <3>1. lf = lfree
      BY <2>2
    <3>2. lfree = b \/ lfree # b
      OBVIOUS
    <3> QED BY <1>2, <1>3, <1>4, <3>1 DEF StartIn, Marks
  <2> QED BY <2>1, <2>2
<1> HIDE DEF lf
<1>7. /\ Linked(r.mem) /\ NoFreePair(r.mem)
      /\ StartIn(r.mem, r.lfree) /\ KeepsUsed(r.mem, h)
  BY <1>3, <1>4, <1>5, <1>6, PlugHoles
<1> HIDE DEF r
<1>8. Linked(mem') /\ NoFreePair(mem') /\ StartIn(mem', lfree') /\ KeepsUsed(mem', h)
  BY <1>1, <1>7
<1>9. asked' = [x \in S |-> asked[x]] /\ DOMAIN asked' = S
  BY DEF Without
<1>10. \A x \in S : /\ x \in DOMAIN h /\ h[x].used /\ x \in DOMAIN mem' /\ mem'[x].used
                    /\ mem'[x].next = mem[x].next /\ h[x].next = mem[x].next
  BY <1>2, <1>3, <1>8 DEF Marks, KeepsUsed, Handed
<1>11. Handed'
  <2>1. DOMAIN asked' = {x \in DOMAIN mem' : mem'[x].used} \ {heap_end}
    <3>1. \A x \in DOMAIN mem' : x \in DOMAIN h /\ mem'[x].used = h[x].used
      BY <1>8 DEF KeepsUsed
    <3>2. \A x \in DOMAIN h : x # b => x \in DOMAIN mem /\ h[x].used = mem[x].used
      BY <1>3 DEF Marks
    <3> QED BY <1>2, <1>4, <1>9, <1>10, <3>1, <3>2 DEF Handed
  <2>2. asked' \in [DOMAIN asked' -> Nat \ {0}]
    BY <1>2, <1>9 DEF Handed
  <2>3. ASSUME NEW x \in DOMAIN asked' PROVE Room(x)' >= asked'[x]
    BY <1>2, <1>9, <1>10 DEF Handed, Room
  <2> QED BY <2>1, <2>2, <2>3 DEF Handed
<1>12. Counted'
  <2>1. BlocksWords(mem', DOMAIN asked') = BlocksWords(mem, S)
    BY <1>9, <1>10, SameWords
  <2>2. AddsBlock(mem, S, DOMAIN asked, b)
    <3>1. S \subseteq DOMAIN mem \ {heap_end} /\ b \notin S /\ DOMAIN asked = S \cup {b}
      BY <1>2 DEF Handed
    <3> HIDE DEF S
    <3> QED BY <1>2, <3>1, WordsOfOneMore
  <2>3. b \in Int /\ mem[b].next \in Int
    BY <1>2, BlocksOf
  <2> QED BY <1>1, <2>1, <2>2, <2>3 DEF HeapCore, Counted, AddsBlock
<1> QED BY <1>8, <1>11, <1>12 DEF HeapCore

\* rt_realloc to a smaller size, in place.
LEMMA ShrinkCore ==
  ASSUME HeapCore, NEW b \in DOMAIN asked, NEW n \in Sizes,
         n + SIZEOF_STRUCT_MEM + MIN_SIZE_ALIGNED < Room(b), Shrink(b, n)
  PROVE  HeapCore' /\ asked' = [asked EXCEPT ![b] = n]
<1> DEFINE b2 == b + SIZEOF_STRUCT_MEM + n
           h  == Cut(mem, b, n)
           r  == plug_holes(h, lfree, b2)
           S  == DOMAIN asked \ {b}
<1>1. /\ mem' = r.mem /\ lfree' = r.lfree /\ used_mem' = used_mem - (Room(b) - n)
      /\ asked' = [asked EXCEPT ![b] = n]
  BY DEF Shrink
<1>2. /\ b \in DOMAIN mem \ {heap_end} /\ mem[b].used /\ Linked(mem) /\ NoFreePair(mem)
      /\ StartIn(mem, lfree) /\ Handed
  BY DEF HeapCore, Handed
<1>3. n \in Nat \ {0} /\ b \in Int /\ mem[b].next \in Int /\ mem[b].next \in DOMAIN mem
  BY <1>2, SizeOf, BlocksOf DEF Linked
<1>4. b + 2 * SIZEOF_STRUCT_MEM + n < mem[b].next
  BY <1>3 DEF Room, SIZEOF_STRUCT_MEM, MIN_SIZE_ALIGNED
<1>5. b2 \notin DOMAIN mem /\ Linked(h)
  BY <1>2, <1>3, <1>4, CutLinked
<1>6. Splits(h, mem, b, b2)
  BY <1>2, <1>3, <1>5, CutIs
<1> HIDE DEF h
<1>7. /\ b2 \in DOMAIN h \ {heap_end} /\ ~h[b2].used /\ b2 # b /\ b2 \in Int
      /\ h[b].used /\ h[b].next = b2 /\ b \in DOMAIN h
      /\ DOMAIN h = DOMAIN mem \cup {b2}
      /\ \A x \in DOMAIN mem : x # b2 /\ h[x].used = mem[x].used
                               /\ (x # b => h[x].next = mem[x].next)
  <2>1. b2 # heap_end /\ b2 \in Int
    BY <1>3, <1>5, <1>2 DEF Linked, SIZEOF_STRUCT_MEM
  <2>2. h[b2] = [used |-> FALSE, next |-> mem[b].next, prev |-> b]
    BY <1>6 DEF Splits
  <2>3. ~h[b2].used
    BY <2>2
  <2> HIDE DEF b2
  <2> QED BY <1>2, <1>5, <1>6, <2>1, <2>3 DEF Splits
<1>8. FreePairsAt(h, b2)
  <2> SUFFICES ASSUME NEW x \in DOMAIN h, ~h[x].used, x # b2, h[x].next # b2
               PROVE  h[h[x].next].used
    BY DEF FreePairsAt
  <2>1. x \in DOMAIN mem /\ ~mem[x].used /\ x # b /\ h[x].next = mem[x].next
    BY <1>7
  <2>2. mem[x].next \in DOMAIN mem /\ mem[mem[x].next].used
    BY <1>2, <2>1 DEF NoFreePair, Linked
  <2> QED BY <1>7, <2>1, <2>2
<1>9. StartIn(h, lfree)
  BY <1>2, <1>7 DEF StartIn
<1>10. /\ Linked(r.mem) /\ NoFreePair(r.mem)
       /\ StartIn(r.mem, r.lfree) /\ KeepsUsed(r.mem, h)
  <2> HIDE DEF b2
  <2> QED BY <1>5, <1>7, <1>8, <1>9, PlugHoles
<1> HIDE DEF r, b2
<1>11. Linked(mem') /\ NoFreePair(mem') /\ StartIn(mem', lfree') /\ KeepsUsed(mem', h)
  BY <1>1, <1>10
<1>12. asked \in [DOMAIN asked -> Nat \ {0}] /\ DOMAIN asked' = DOMAIN asked
       /\ asked'[b] = n /\ \A x \in S : asked'[x] = asked[x]
  BY <1>1, <1>2 DEF Handed
<1>13. \A x \in DOMAIN asked : /\ x \in DOMAIN mem /\ x \in DOMAIN h /\ h[x].used
                               /\ x \in DOMAIN mem' /\ mem'[x].used
                               /\ mem'[x].next = h[x].next
                               /\ x # heap_end
  BY <1>2, <1>7, <1>11 DEF KeepsUsed, Handed
<1>14. /\ mem'[b].next = b2
       /\ \A x \in S : mem'[x].next = mem[x].next
  BY <1>7, <1>13
<1>15. Handed'
  <2>1. DOMAIN asked' = {x \in DOMAIN mem' : mem'[x].used} \ {heap_end}
    <3>1. \A x \in DOMAIN mem' : x \in DOMAIN h /\ mem'[x].used = h[x].used
      BY <1>11 DEF KeepsUsed
    <3> QED BY <1>2, <1>7, <1>12, <1>13, <3>1 DEF Handed
  <2>2. asked' \in [DOMAIN asked' -> Nat \ {0}]
    BY <1>1, <1>3, <1>12
  <2>3. ASSUME NEW x \in DOMAIN asked' PROVE Room(x)' >= asked'[x]
    <3>1. CASE x = b
      BY <1>3, <1>12, <1>14, <3>1 DEF Room, b2, SIZEOF_STRUCT_MEM
    <3>2. CASE x # b
      BY <1>2, <1>12, <1>14, <3>2 DEF Room, Handed
    <3> QED BY <3>1, <3>2
  <2> QED BY <2>1, <2>2, <2>3 DEF Handed
<1>16. Counted'
  <2>1. BlocksWords(mem', S) = BlocksWords(mem, S)
    BY <1>14, SameWords
  <2>2. AddsBlock(mem, S, DOMAIN asked, b) /\ AddsBlock(mem', S, DOMAIN asked', b)
    <3>1. /\ S \subseteq DOMAIN mem \ {heap_end} /\ S \subseteq DOMAIN mem' \ {heap_end}
          /\ b \notin S /\ DOMAIN asked = S \cup {b} /\ DOMAIN asked' = S \cup {b}
          /\ b \in DOMAIN mem' \ {heap_end}
      BY <1>12, <1>13
    <3> HIDE DEF S
    <3> QED BY <1>2, <1>11, <3>1, WordsOfOneMore
  <2>3. used_mem' = used_mem - (mem[b].next - b2)
    BY <1>1, <1>3 DEF Room, b2, SIZEOF_STRUCT_MEM
  <2>4. b2 \in Int
    BY <1>7
  <2> HIDE DEF S
  <2> QED BY <1>3, <1>14, <2>1, <2>2, <2>3, <2>4 DEF HeapCore, Counted, AddsBlock
<1> QED BY <1>1, <1>11, <1>15, <1>16 DEF HeapCore
-----------------------------------------------------------------------------
(* The steps. *)

LEMMA RefusalSound ==
  ASSUME HeapCore, NEW n \in Sizes, FirstFit(AtLeastMin(n)) = NoBlock,
         refused' = n, UNCHANGED <<mem, lfree>>
  PROVE  RefusedWhenFull'
<1> DEFINE size == AtLeastMin(n)
<1>1. size \in Nat \ {0}
  BY SizeOf
<1> HIDE DEF size
<1>2. \A x \in DOMAIN mem : x < lfree \/ x >= mem_size_aligned - size
                            \/ mem[x].used \/ Room(x) < size
  <2>1. Linked(mem) /\ lfree \in DOMAIN mem /\ NoBlock \notin DOMAIN mem
    BY BlocksOf DEF HeapCore, StartIn, NoBlock
  <2>2. NoBlock = FirstFit(size)
    BY DEF size
  <2> QED BY <1>1, <2>1, <2>2, FirstFitFinds
<1>3. ASSUME NEW x \in Free
      PROVE  \/ Room(x) < size
             \/ x < lfree
             \/ mem[x].next = heap_end /\ Room(x) = size
  <2>1. x \in DOMAIN mem \ {heap_end} /\ ~mem[x].used
    BY DEF Free, HeapCore, Linked
  <2>2. mem[x].next \in Int /\ mem[x].next <= heap_end /\ x \in Int /\ lfree \in Int
    BY <2>1, HeapEnd DEF HeapCore, Linked, StartIn
  <2>3. mem_size_aligned \in Int /\ heap_end = mem_size_aligned + 3
    BY HeapConstants DEF heap_end, SIZEOF_STRUCT_MEM
  <2> QED BY <1>1, <1>2, <2>1, <2>2, <2>3 DEF Room, SIZEOF_STRUCT_MEM
<1>4. Free' = Free /\ \A x : Room(x)' = Room(x)
  BY DEF Free, Room
<1> QED BY <1>3, <1>4 DEF RefusedWhenFull, size

LEMMA NothingRefused == refused' = 0 => RefusedWhenFull'
BY DEF RefusedWhenFull

LEMMA CoreKept == HeapCore /\ UNCHANGED <<mem, lfree, used_mem, asked>> => HeapCore'
BY DEF HeapCore, Handed, Counted, Room

\* A block that no mover holds can change hands; the movers' stay in use.
LEMMA MoversKept ==
  ASSUME Movers, UNCHANGED moving,
         \A c \in Clients : moving[c].old \in DOMAIN asked => moving[c].old \in DOMAIN asked'
  PROVE  Movers'
BY DEF Movers

LEMMA MallocStep ==
  ASSUME HeapInv, NEW n \in Sizes, rt_malloc(n)
  PROVE  HeapInv' /\ RefusedWhenFull'
<1> DEFINE b == FirstFit(AtLeastMin(n))
<1>1. CASE b = NoBlock
  <2>1. refused' = n /\ UNCHANGED <<mem, lfree, used_mem, asked, moving>>
    BY <1>1 DEF rt_malloc
  <2>2. HeapCore' /\ Movers'
    BY <2>1, CoreKept, MoversKept DEF HeapInv
  <2> QED BY <1>1, <2>1, <2>2, RefusalSound DEF HeapInv
<1>2. CASE b # NoBlock
  <2>1. Take(b, n) /\ asked' = Put(asked, b, n) /\ refused' = 0 /\ UNCHANGED moving
    BY <1>2 DEF rt_malloc
  <2>2. HeapCore'
    BY <1>2, <2>1, TakeCore DEF HeapInv
  <2>3. DOMAIN asked \subseteq DOMAIN asked'
    BY <2>1 DEF Put
  <2>4. Movers'
    BY <2>1, <2>3, MoversKept DEF HeapInv
  <2> QED BY <2>1, <2>2, <2>4, NothingRefused DEF HeapInv
<1> QED BY <1>1, <1>2

LEMMA FreeStep ==
  ASSUME HeapInv, NEW b \in DOMAIN asked, rt_free(b)
  PROVE  HeapInv' /\ RefusedWhenFull'
<1>1. /\ \A c \in Clients : b # moving[c].old
      /\ Release(b) /\ asked' = Without(b) /\ refused' = 0 /\ UNCHANGED moving
  BY DEF rt_free, AtRest
<1>2. HeapCore'
  BY <1>1, ReleaseCore DEF HeapInv
<1>3. DOMAIN asked' = DOMAIN asked \ {b}
  BY <1>1 DEF Without
<1>4. Movers'
  BY <1>1, <1>3, MoversKept DEF HeapInv
<1> QED BY <1>1, <1>2, <1>4, NothingRefused DEF HeapInv

LEMMA ReallocStep ==
  ASSUME HeapInv, NEW c \in Clients, NEW b \in DOMAIN asked, NEW n \in Sizes,
         rt_realloc(c, b, n)
  PROVE  HeapInv' /\ RefusedWhenFull'
<1>1. /\ moving[c] = Idle /\ \A d \in Clients : b # moving[d].old
      /\ refused' = 0
  BY DEF rt_realloc, AtRest
<1>2. HeapCore /\ Movers
  BY DEF HeapInv
<1>3. CASE /\ n = Room(b)
           /\ asked' = [asked EXCEPT ![b] = n]
           /\ UNCHANGED <<mem, lfree, used_mem, moving>>
  <2>1. DOMAIN asked' = DOMAIN asked /\ asked' \in [DOMAIN asked -> Nat \ {0}]
    BY <1>2, <1>3, SizeOf DEF HeapCore, Handed
  <2>2. Handed'
    <3>1. \A x \in DOMAIN asked : Room(x)' = Room(x) /\ asked'[x] = IF x = b THEN n ELSE asked[x]
      BY <1>3 DEF Room
    <3>2. \A x \in DOMAIN asked : Room(x) >= asked[x]
      BY <1>2 DEF HeapCore, Handed
    <3>3. \A x \in DOMAIN asked : Room(x)' >= asked'[x]
      BY <1>3, <3>1, <3>2, SizeOf
    <3> QED BY <1>2, <1>3, <2>1, <3>3 DEF HeapCore, Handed
  <2>3. HeapCore'
    BY <1>2, <1>3, <2>1, <2>2 DEF HeapCore, Counted
  <2>4. Movers'
    BY <1>2, <1>3, <2>1, MoversKept
  <2> QED BY <1>1, <2>3, <2>4, NothingRefused DEF HeapInv
<1>4. CASE /\ n + SIZEOF_STRUCT_MEM + MIN_SIZE_ALIGNED < Room(b)
           /\ Shrink(b, n)
           /\ UNCHANGED moving
  <2>1. HeapCore' /\ asked' = [asked EXCEPT ![b] = n]
    BY <1>2, <1>4, ShrinkCore
  <2>2. DOMAIN asked' = DOMAIN asked
    BY <2>1
  <2>3. Movers'
    BY <1>2, <1>4, <2>2, MoversKept
  <2> QED BY <1>1, <2>1, <2>3, NothingRefused DEF HeapInv
<1>5. CASE /\ moving' = [moving EXCEPT ![c] =
                  [old |-> b, size |-> n, new |-> NoBlock]]
           /\ UNCHANGED <<mem, lfree, used_mem, asked>>
  <2>1. HeapCore'
    BY <1>2, <1>5, CoreKept
  <2>2. b \in Int /\ b # NoBlock /\ n \in Nat
    BY <1>2, BlocksOf, SizeOf
  <2>3. /\ moving' \in [Clients -> [old : Int, size : Nat, new : Int]]
        /\ moving'[c].old = b /\ moving'[c].size = n /\ moving'[c].new = NoBlock
        /\ \A d \in Clients \ {c} : moving'[d] = moving[d]
    BY <1>2, <1>5, <2>2 DEF Movers, NoBlock
  <2>4. Movers'
    BY <1>1, <1>2, <1>5, <2>2, <2>3 DEF Movers
  <2> QED BY <1>1, <2>1, <2>4, NothingRefused DEF HeapInv
<1> QED BY <1>3, <1>4, <1>5 DEF rt_realloc

LEMMA MoveAllocStep ==
  ASSUME HeapInv, NEW c \in Clients, MoveAlloc(c)
  PROVE  HeapInv' /\ RefusedWhenFull'
<1> DEFINE n == moving[c].size
           b == FirstFit(AtLeastMin(n))
<1>1. HeapCore /\ Movers /\ moving[c].old # NoBlock /\ n \in Sizes
  BY DEF HeapInv, MoveAlloc, Movers
<1>2. CASE b = NoBlock
  <2>1. /\ refused' = n /\ moving' = [moving EXCEPT ![c] = Idle]
        /\ UNCHANGED <<mem, lfree, used_mem, asked>>
    BY <1>2 DEF MoveAlloc
  <2>2. /\ moving' \in [Clients -> [old : Int, size : Nat, new : Int]]
        /\ moving'[c].old = NoBlock /\ moving'[c].new = NoBlock
        /\ \A d \in Clients \ {c} : moving'[d] = moving[d]
    BY <1>1, <2>1 DEF Movers, Idle, NoBlock
  <2>3. Movers'
    BY <1>1, <2>1, <2>2 DEF Movers
  <2>4. HeapCore'
    BY <1>1, <2>1, CoreKept
  <2> HIDE DEF n
  <2>5. RefusedWhenFull'
    BY <1>1, <1>2, <2>1, RefusalSound
  <2> QED BY <2>3, <2>4, <2>5 DEF HeapInv
<1>3. CASE b # NoBlock
  <2>1. /\ Take(b, n) /\ asked' = Put(asked, b, n) /\ refused' = 0
        /\ moving' = [moving EXCEPT ![c].new = b]
    BY <1>3 DEF MoveAlloc
  <2>2. HeapCore' /\ b \in Int
    <3> HIDE DEF n
    <3>1. HeapCore'
      BY <1>1, <1>3, <2>1, TakeCore
    <3>2. b \in DOMAIN mem
      BY <1>1, <1>3, SizeOf, FirstFitFinds DEF HeapCore, StartIn
    <3> QED BY <1>1, <3>1, <3>2, BlocksOf
  <2>3. DOMAIN asked \subseteq DOMAIN asked'
    BY <2>1 DEF Put
  <2>4. /\ moving' \in [Clients -> [old : Int, size : Nat, new : Int]]
        /\ moving'[c].old = moving[c].old /\ moving'[c].size = moving[c].size
        /\ \A d \in Clients \ {c} : moving'[d] = moving[d]
    BY <1>1, <2>1, <2>2 DEF Movers
  <2>5. Movers'
    BY <1>1, <2>3, <2>4 DEF Movers
  <2> QED BY <2>1, <2>2, <2>5, NothingRefused DEF HeapInv
<1> QED BY <1>2, <1>3

LEMMA MoveFreeStep ==
  ASSUME HeapInv, NEW c \in Clients, MoveFree(c)
  PROVE  HeapInv' /\ RefusedWhenFull'
<1> DEFINE b == moving[c].old
<1>1. HeapCore /\ Movers /\ b \in DOMAIN asked
  BY DEF HeapInv, MoveFree, Movers
<1>2. /\ Release(b) /\ asked' = Without(b) /\ refused' = 0
      /\ moving' = [moving EXCEPT ![c] = Idle]
  BY DEF MoveFree
<1>3. HeapCore'
  <2> HIDE DEF b
  <2> QED BY <1>1, <1>2, ReleaseCore
<1>4. DOMAIN asked' = DOMAIN asked \ {b}
  BY <1>2 DEF Without
<1>5. /\ moving' \in [Clients -> [old : Int, size : Nat, new : Int]]
      /\ moving'[c].old = NoBlock /\ moving'[c].new = NoBlock
      /\ \A d \in Clients \ {c} : moving'[d] = moving[d]
  BY <1>1, <1>2 DEF Movers, Idle, NoBlock
<1>6. b # NoBlock
  BY DEF MoveFree, HeapInv, Movers
<1>7. Movers'
  BY <1>1, <1>4, <1>5, <1>6 DEF Movers
<1> QED BY <1>2, <1>3, <1>7, NothingRefused DEF HeapInv

LEMMA HeapStep ==
  HeapInv /\ RefusedWhenFull /\ [Next]_vars => HeapInv' /\ RefusedWhenFull'
<1> SUFFICES ASSUME HeapInv, RefusedWhenFull, [Next]_vars
             PROVE  HeapInv' /\ RefusedWhenFull'
  OBVIOUS
<1>1. CASE UNCHANGED vars
  <2>1. HeapCore' /\ Movers'
    BY <1>1, CoreKept, MoversKept DEF vars, HeapInv
  <2>2. RefusedWhenFull'
    BY <1>1 DEF vars, RefusedWhenFull, Free, Room
  <2> QED BY <2>1, <2>2 DEF HeapInv
<1>2. CASE Next
  BY <1>2, MallocStep, FreeStep, ReallocStep, MoveAllocStep, MoveFreeStep DEF Next
<1> QED BY <1>1, <1>2

\* The heap's inductive invariant holds in every reachable state.
THEOREM HeapInvariance == Spec => [](HeapInv /\ RefusedWhenFull)
<1>1. Init => HeapInv /\ RefusedWhenFull
  BY InitHeap DEF Init, RefusedWhenFull
<1> QED BY <1>1, HeapStep, PTL DEF Spec

\* For any size of heap, whatever any number of threads allocate, free, shrink
\* or move: the list of headers stays whole, no free neighbours remain, the
\* blocks in use are those handed out, and used_mem counts their words.
THEOREM HeapIsSound == Spec => []HeapSound
<1>1. HeapInv => HeapSound
  <2> SUFFICES ASSUME HeapInv PROVE HeapSound
    OBVIOUS
  <2>1. HeapCore
    BY DEF HeapInv
  <2>2. Tiled
    <3>1. {0, heap_end} \subseteq DOMAIN mem
      BY <2>1 DEF HeapCore, Linked
    <3>2. ASSUME NEW b \in DOMAIN mem \ {heap_end}
          PROVE  /\ mem[b].next \in DOMAIN mem /\ mem[b].next > b
                 /\ \A x \in DOMAIN mem : ~(b < x /\ x < mem[b].next)
                 /\ b # 0 => mem[mem[b].prev].next = b
                 /\ Room(b) >= 1
      <4>1. b \in Int /\ mem[b].next \in Int /\ \A x \in DOMAIN mem : x \in Int
        BY <2>1, BlocksOf
      <4> QED BY <2>1, <4>1 DEF HeapCore, Linked, Room, SIZEOF_STRUCT_MEM
    <3> QED BY <3>1, <3>2 DEF Tiled
  <2>3. NoFreeNeighbours /\ UsedAreAsked /\ LfreeSound
    BY <2>1 DEF HeapCore, NoFreeNeighbours, NoFreePair, Free, UsedAreAsked, Handed,
                LfreeSound, StartIn
  <2>4. UsedIsSum
    <3>1. UNION {BlockWords(b) : b \in DOMAIN asked} = BlocksWords(mem, DOMAIN asked)
      BY DEF BlockWords, BlocksWords
    <3> QED BY <2>1, <3>1 DEF HeapCore, Counted, UsedIsSum
  <2> QED BY <2>2, <2>3, <2>4 DEF HeapSound
<1> QED BY <1>1, HeapInvariance, PTL

\* rt_malloc and rt_realloc return RT_NULL only when no free block is large
\* enough, but for the two places the search of mem.c:306-307 does not look.
THEOREM HeapRefusal == Spec => []RefusedWhenFull
BY HeapInvariance, PTL
-----------------------------------------------------------------------------
(* The heap is a set of disjoint regions. *)

Region(b, n) == [at |-> b + SIZEOF_STRUCT_MEM, size |-> n]
Live(f)      == {Region(b, f[b]) : b \in DOMAIN f}
InArena(r)   == r.size > 0 /\ Regions!Words(r) \subseteq SIZEOF_STRUCT_MEM .. heap_end - 1

\* The regions that f says are in use lie in the arena, and apart.
Disjoint(f) ==
    /\ DOMAIN f \subseteq Int
    /\ \A b \in DOMAIN f : InArena(Region(b, f[b]))
    /\ \A b, d \in DOMAIN f : b # d => Regions!Apart(Region(b, f[b]), Region(d, f[d]))

LEMMA RegionsDisjoint == HeapCore => Disjoint(asked)
<1> SUFFICES ASSUME HeapCore PROVE Disjoint(asked)
  OBVIOUS
<1>1. ASSUME NEW b \in DOMAIN asked
      PROVE  /\ b \in DOMAIN mem \ {heap_end} /\ b \in Int /\ b >= 0 /\ mem[b].next \in Int
             /\ mem[b].next <= heap_end /\ asked[b] \in Nat \ {0}
             /\ b + SIZEOF_STRUCT_MEM + asked[b] <= mem[b].next
  <2>1. b \in DOMAIN mem \ {heap_end} /\ b \in Int /\ b >= 0 /\ mem[b].next \in Int
        /\ asked[b] \in Nat \ {0} /\ Room(b) >= asked[b]
    BY BlocksOf DEF HeapCore, Handed
  <2>2. mem[b].next \in DOMAIN mem /\ mem[b].next <= heap_end
    BY <2>1, HeapEnd DEF HeapCore, Linked
  <2> QED BY <2>1, <2>2 DEF Room, SIZEOF_STRUCT_MEM
<1>2. ASSUME NEW b \in DOMAIN asked
      PROVE  InArena(Region(b, asked[b]))
  BY <1>1, HeapEnd DEF InArena, Region, Regions!Words, SIZEOF_STRUCT_MEM
<1>3. ASSUME NEW b \in DOMAIN asked, NEW d \in DOMAIN asked, b # d
      PROVE  Regions!Apart(Region(b, asked[b]), Region(d, asked[d]))
  <2>1. (b <= d \/ mem[d].next <= b) /\ (d <= b \/ mem[b].next <= d)
    BY <1>1 DEF HeapCore, Linked
  <2>2. b + SIZEOF_STRUCT_MEM + asked[b] <= d \/ d + SIZEOF_STRUCT_MEM + asked[d] <= b
    BY <1>1, <1>3, <2>1 DEF SIZEOF_STRUCT_MEM
  <2> QED BY <1>1, <2>2 DEF Regions!Apart, Regions!Words, Region, SIZEOF_STRUCT_MEM
<1>4. DOMAIN asked \subseteq Int
  BY <1>1
<1> QED BY <1>2, <1>3, <1>4 DEF Disjoint

LEMMA GrabRefines ==
  ASSUME NEW b, NEW n, b \notin DOMAIN asked, asked' = Put(asked, b, n), Disjoint(asked')
  PROVE  Regions!Next
<1> DEFINE r == Region(b, n)
<1>1. /\ DOMAIN asked' = DOMAIN asked \cup {b} /\ asked'[b] = n
      /\ \A x \in DOMAIN asked : x # b /\ asked'[x] = asked[x]
  BY DEF Put
<1>2. Live(asked') = Live(asked) \cup {r}
  BY <1>1 DEF Live
<1>3. InArena(r) /\ \A s \in Live(asked) : Regions!Apart(r, s)
  BY <1>1 DEF Disjoint, Live
<1>4. r \in Live(asked')
  BY <1>2
<1> HIDE DEF r
<1>5. Regions!Grab(r)
  BY <1>2, <1>3 DEF Regions!Grab, InArena, Live, Region
<1>6. \E q \in Live(asked') : Regions!Grab(q)
  BY <1>4, <1>5
<1> QED BY <1>6 DEF Regions!Next, Live, Region

LEMMA DropRefines ==
  ASSUME NEW b \in DOMAIN asked, asked' = Without(b), Disjoint(asked)
  PROVE  Regions!Next
<1>1. /\ DOMAIN asked' = DOMAIN asked \ {b}
      /\ \A x \in DOMAIN asked \ {b} : asked'[x] = asked[x]
  BY DEF Without
<1>2. PICK r : r = Region(b, asked[b])
  OBVIOUS
<1>3. \A x \in DOMAIN asked \ {b} : Region(x, asked[x]) # r
  BY <1>2 DEF Region, Disjoint, SIZEOF_STRUCT_MEM
<1>4. r \in Live(asked)
  BY <1>2 DEF Live
<1>5. Live(asked') = Live(asked) \ {r}
  BY <1>1, <1>2, <1>3 DEF Live
<1>6. Regions!Drop(r)
  BY <1>4, <1>5 DEF Regions!Drop, Live, Region
<1>7. \E q \in Live(asked) : Regions!Drop(q)
  BY <1>4, <1>6
<1> QED BY <1>7 DEF Regions!Next, Live, Region

LEMMA ResizeRefines ==
  ASSUME NEW b \in DOMAIN asked, NEW n, asked' = [asked EXCEPT ![b] = n],
         Disjoint(asked), Disjoint(asked')
  PROVE  Regions!Next
<1> DEFINE r == Region(b, asked[b])
           s == Region(b, n)
<1>1. /\ DOMAIN asked' = DOMAIN asked /\ asked'[b] = n
      /\ \A x \in DOMAIN asked \ {b} : asked'[x] = asked[x]
  OBVIOUS
<1>2. \A x \in DOMAIN asked \ {b} : Region(x, asked[x]) # r
  BY DEF Region, Disjoint, SIZEOF_STRUCT_MEM
<1>3. r \in Live(asked) /\ s \in Live(asked')
  BY <1>1 DEF Live
<1>4. Live(asked) \ {r} = {Region(x, asked[x]) : x \in DOMAIN asked \ {b}}
  <2>1. r = Region(b, asked[b])
    OBVIOUS
  <2> HIDE DEF r
  <2> QED BY <1>2, <2>1 DEF Live
<1>5. Live(asked') = (Live(asked) \ {r}) \cup {s}
  <2> HIDE DEF r
  <2> QED BY <1>1, <1>4 DEF Live
<1>6. InArena(s) /\ \A q \in Live(asked) \ {r} : Regions!Apart(s, q)
  <2> HIDE DEF r
  <2> QED BY <1>1, <1>4 DEF Disjoint
<1>7. s = [r EXCEPT !.size = n] /\ s.size = n
  BY DEF Region
<1> HIDE DEF r, s
<1>8. Regions!Resize(r, s.size)
  BY <1>3, <1>5, <1>6, <1>7 DEF Regions!Resize, InArena, Live, Region
<1>9. \E q \in Live(asked), t \in Live(asked') : Regions!Resize(q, t.size)
  BY <1>3, <1>8
<1> QED BY <1>9 DEF Regions!Next, Live, Region

\* Every step of the heap is a step of the regions or leaves them alone.
LEMMA StepRegions ==
  HeapInv /\ Disjoint(asked) /\ Disjoint(asked)' /\ [Next]_vars
      => Regions!Next \/ UNCHANGED Live(asked)
<1> SUFFICES ASSUME HeapInv, Disjoint(asked), Disjoint(asked)', [Next]_vars
             PROVE  Regions!Next \/ UNCHANGED Live(asked)
  OBVIOUS
<1>1. Disjoint(asked) /\ Disjoint(asked')
  OBVIOUS
<1>2. CASE UNCHANGED asked
  BY <1>2
<1>3. ASSUME NEW b, NEW n \in Sizes, b = FirstFit(AtLeastMin(n)), b # NoBlock,
             Take(b, n), asked' = Put(asked, b, n)
      PROVE  Regions!Next
  <2>1. b \notin DOMAIN asked
    BY <1>3, TakeCore DEF HeapInv
  <2> QED BY <1>1, <1>3, <2>1, GrabRefines
<1>4. ASSUME NEW n \in Sizes, rt_malloc(n) PROVE Regions!Next \/ UNCHANGED asked
  BY <1>3, <1>4 DEF rt_malloc
<1>5. ASSUME NEW b \in DOMAIN asked, rt_free(b) PROVE Regions!Next
  BY <1>1, <1>5, DropRefines DEF rt_free
<1>6. ASSUME NEW c \in Clients, NEW b \in DOMAIN asked, NEW n \in Sizes, rt_realloc(c, b, n)
      PROVE  Regions!Next \/ UNCHANGED asked
  <2>1. asked' = [asked EXCEPT ![b] = n] \/ UNCHANGED asked
    BY <1>6 DEF rt_realloc, Shrink
  <2> QED BY <1>1, <2>1, ResizeRefines
<1>7. ASSUME NEW c \in Clients, MoveAlloc(c) PROVE Regions!Next \/ UNCHANGED asked
  <2>1. moving[c].size \in Sizes
    BY <1>7 DEF MoveAlloc, HeapInv, Movers
  <2> QED BY <1>3, <1>7, <2>1 DEF MoveAlloc
<1>8. ASSUME NEW c \in Clients, MoveFree(c) PROVE Regions!Next
  <2>1. moving[c].old \in DOMAIN asked /\ asked' = Without(moving[c].old)
    BY <1>8 DEF MoveFree, HeapInv, Movers
  <2> QED BY <1>1, <2>1, DropRefines
<1>9. CASE UNCHANGED vars
  BY <1>2, <1>9 DEF vars
<1> QED BY <1>2, <1>4, <1>5, <1>6, <1>7, <1>8, <1>9 DEF Next

\* Two callers never hold the same word: every behaviour of rt_malloc, rt_free
\* and rt_realloc is one of a set of disjoint regions of the arena.
THEOREM HeapRefinement == Spec => ImplementsRegions
<1>1. Init => Regions!Init
  BY DEF Init, Regions!Init
<1>2. HeapInv /\ Disjoint(asked) /\ Disjoint(asked)' /\ [Next]_vars =>
          [Regions!Next]_({[at |-> b + SIZEOF_STRUCT_MEM, size |-> asked[b]] :
                              b \in DOMAIN asked})
  BY StepRegions DEF Live, Region
<1>3. HeapInv => Disjoint(asked)
  BY RegionsDisjoint DEF HeapInv
<1> QED BY <1>1, <1>2, <1>3, HeapInvariance, PTL
        DEF Spec, ImplementsRegions, Regions!Spec
=============================================================================
