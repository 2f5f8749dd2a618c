----------------------------- MODULE RtSmallMem ------------------------------
(***************************************************************************)
(* The kernel heap, rtthread/3.0.3/src/mem.c.  A block starts with a       *)
(* header; the headers are linked both ways in the order of their          *)
(* addresses and the last, heap_end, is never free.  Addresses and sizes   *)
(* are offsets from heap_ptr in words of four bytes (RT_ALIGN_SIZE).       *)
(*                                                                         *)
(* rt_malloc and rt_free hold heap_sem throughout and are one action each; *)
(* rt_realloc lets go of it before it moves a block.                       *)
(***************************************************************************)
EXTENDS Integers, FiniteSets

CONSTANTS mem_size_aligned,    \* words for data if the heap is one block
          Sizes,               \* the sizes in words that callers ask for
          Clients              \* the threads in rt_realloc

SIZEOF_STRUCT_MEM == 3         \* twelve bytes
MIN_SIZE_ALIGNED  == 3         \* MIN_SIZE is twelve bytes too

ASSUME HeapConstants ==
    /\ mem_size_aligned \in Nat /\ mem_size_aligned > MIN_SIZE_ALIGNED
    /\ Sizes \subseteq Nat \ {0}
    /\ \A n \in Sizes : n <= mem_size_aligned

VARIABLES
    mem,        \* the headers: offset -> [used, next, prev]
    lfree,      \* the offset the search starts at
    used_mem,   \* words in use, with their headers
    asked,      \* the sizes of the blocks handed out: offset -> size
    moving,     \* each client's rt_realloc: the block it moves, and to where
    refused     \* history: the size the last step returned RT_NULL for, or 0

vars == <<mem, lfree, used_mem, asked, moving, refused>>

heap_end == mem_size_aligned + SIZEOF_STRUCT_MEM
Room(b)  == mem[b].next - (b + SIZEOF_STRUCT_MEM)    \* the user data size
NoBlock  == -1
Idle     == [old |-> NoBlock, size |-> 0, new |-> NoBlock]

\* f with x mapped to v.
Put(f, x, v) == [y \in DOMAIN f \cup {x} |-> IF y = x THEN v ELSE f[y]]

\* rt_system_heap_init.
Init ==
    /\ mem = [b \in {0, heap_end} |->
                [used |-> b = heap_end, next |-> heap_end, prev |-> b]]
    /\ lfree = 0
    /\ used_mem = 0
    /\ asked = <<>>
    /\ moving = [c \in Clients |-> Idle]
    /\ refused = 0

-----------------------------------------------------------------------------
(* The list of headers *)

\* A second header and MIN_SIZE words of data fit behind size words.
SplitFits(room, size) == room >= size + SIZEOF_STRUCT_MEM + MIN_SIZE_ALIGNED

\* h with block b cut after size words of data; the rest is free.  The prev of
\* heap_end is not kept.
Cut(h, b, size) ==
    LET b2   == b + SIZEOF_STRUCT_MEM + size
        last == h[b].next
        h2   == Put([h EXCEPT ![b].next = b2], b2,
                    [used |-> FALSE, next |-> last, prev |-> b])
    IN  IF last # heap_end THEN [h2 EXCEPT ![last].prev = b2] ELSE h2

\* h with block b and the one behind it joined; the header between is gone.
Joined(h, b) ==
    LET n  == h[b].next
        h2 == [h EXCEPT ![b].next = h[n].next, ![h[n].next].prev = b]
    IN  [x \in DOMAIN h \ {n} |-> h2[x]]

\* Mutant: lfree is left on a header that joining removes.
plug_holesKeepsLfree(h, lf, b) ==
    LET n  == h[b].next
        h1 == IF h[n].used THEN h ELSE Joined(h, b)
        p  == h1[b].prev
        h2 == IF p = b \/ h1[p].used THEN h1 ELSE Joined(h1, p)
    IN  [mem |-> h2, lfree |-> lf]

\* plug_holes(b): join the free block b with a free block behind it and with a
\* free block before it; lfree follows.  heap_end is used, so it is not joined.
plug_holes(h, lf, b) ==
    LET n   == h[b].next
        fwd == ~h[n].used
        h1  == IF fwd THEN Joined(h, b) ELSE h
        lf1 == IF fwd /\ lf = n THEN b ELSE lf
        p   == h1[b].prev
        bwd == p # b /\ ~h1[p].used
    IN  [mem   |-> IF bwd THEN Joined(h1, p) ELSE h1,
         lfree |-> IF bwd /\ lf1 = b THEN p ELSE lf1]

\* Mutant: the first free block is taken, whatever its room.
FirstFitAnySize(size) ==
    LET Walk[p \in DOMAIN mem] ==
            IF ~(p < mem_size_aligned - size) THEN NoBlock
            ELSE IF ~mem[p].used THEN p
            ELSE Walk[mem[p].next]
    IN  Walk[lfree]

\* Mutant: a block that fits exactly is passed over.
FirstFitStrict(size) ==
    LET Walk[p \in DOMAIN mem] ==
            IF ~(p < mem_size_aligned - size) THEN NoBlock
            ELSE IF ~mem[p].used /\ Room(p) > size THEN p
            ELSE Walk[mem[p].next]
    IN  Walk[lfree]

\* The search of rt_malloc, from lfree upwards: the first free block with room.
FirstFit(size) ==
    LET Walk[p \in DOMAIN mem] ==
            IF ~(p < mem_size_aligned - size) THEN NoBlock
            ELSE IF ~mem[p].used /\ Room(p) >= size THEN p
            ELSE Walk[mem[p].next]
    IN  Walk[lfree]

\* The next free block at or above p, or heap_end.
NextFree(h, p) ==
    LET Walk[q \in DOMAIN h] ==
            IF h[q].used /\ q # heap_end THEN Walk[h[q].next] ELSE q
    IN  Walk[p]

AtLeastMin(size) == IF size < MIN_SIZE_ALIGNED THEN MIN_SIZE_ALIGNED ELSE size

\* rt_malloc takes block b for a caller that asked for n words.
Take(b, n) ==
    LET size  == AtLeastMin(n)
        split == SplitFits(Room(b), size)
        h     == [(IF split THEN Cut(mem, b, size) ELSE mem)
                     EXCEPT ![b].used = TRUE]
    IN  /\ mem' = h
        /\ lfree' = IF b = lfree THEN NextFree(h, lfree) ELSE lfree
        /\ used_mem' = used_mem + h[b].next - b

\* rt_free(b), once it holds heap_sem.
Release(b) ==
    LET h  == [mem EXCEPT ![b].used = FALSE]
        lf == IF b < lfree THEN b ELSE lfree
        r  == plug_holes(h, lf, b)
    IN  /\ mem' = r.mem
        /\ lfree' = r.lfree
        /\ used_mem' = used_mem - (mem[b].next - b)

Without(b) == [x \in DOMAIN asked \ {b} |-> asked[x]]

\* A block that is being moved, and the one it moves to, are the mover's.
AtRest(b) == /\ b \in DOMAIN asked
             /\ \A c \in Clients : b \notin {moving[c].old, moving[c].new}

-----------------------------------------------------------------------------
(* The functions *)

rt_malloc(n) ==
    /\ LET b == FirstFit(AtLeastMin(n))
       IN  IF b = NoBlock
           THEN /\ refused' = n
                /\ UNCHANGED <<mem, lfree, used_mem, asked>>
           ELSE /\ Take(b, n)
                /\ asked' = Put(asked, b, n)
                /\ refused' = 0
    /\ UNCHANGED moving

rt_free(b) ==
    /\ AtRest(b)
    /\ Release(b)
    /\ asked' = Without(b)
    /\ refused' = 0
    /\ UNCHANGED moving

\* rt_realloc to a size that leaves room for another block: b stays and its
\* end is freed.  lfree is not lowered.
Shrink(b, n) ==
    LET r == plug_holes(Cut(mem, b, n), lfree, b + SIZEOF_STRUCT_MEM + n)
    IN  /\ mem' = r.mem
        /\ lfree' = r.lfree
        /\ used_mem' = used_mem - (Room(b) - n)
        /\ asked' = [asked EXCEPT ![b] = n]

\* rt_realloc(b, n) under heap_sem: the same size, smaller, or to be moved.
rt_realloc(c, b, n) ==
    /\ moving[c] = Idle /\ AtRest(b)
    /\ refused' = 0
    /\ \/ /\ n = Room(b)
          /\ asked' = [asked EXCEPT ![b] = n]
          /\ UNCHANGED <<mem, lfree, used_mem, moving>>
       \/ /\ n + SIZEOF_STRUCT_MEM + MIN_SIZE_ALIGNED < Room(b)
          /\ Shrink(b, n)
          /\ UNCHANGED moving
       \/ /\ n # Room(b)
          /\ n + SIZEOF_STRUCT_MEM + MIN_SIZE_ALIGNED >= Room(b)
          /\ moving' = [moving EXCEPT ![c] =
                 [old |-> b, size |-> n, new |-> NoBlock]]
          /\ UNCHANGED <<mem, lfree, used_mem, asked>>

\* heap_sem was released: a new block is allocated, or RT_NULL is returned and
\* the old one kept.
MoveAlloc(c) ==
    /\ moving[c].old # NoBlock /\ moving[c].new = NoBlock
    /\ LET n == moving[c].size
           b == FirstFit(AtLeastMin(n))
       IN  IF b = NoBlock
           THEN /\ refused' = n
                /\ moving' = [moving EXCEPT ![c] = Idle]
                /\ UNCHANGED <<mem, lfree, used_mem, asked>>
           ELSE /\ Take(b, n)
                /\ asked' = Put(asked, b, n)
                /\ moving' = [moving EXCEPT ![c].new = b]
                /\ refused' = 0

\* The contents are copied and the old block is freed.
MoveFree(c) ==
    /\ moving[c].new # NoBlock
    /\ Release(moving[c].old)
    /\ asked' = Without(moving[c].old)
    /\ moving' = [moving EXCEPT ![c] = Idle]
    /\ refused' = 0

Next ==
    \/ \E n \in Sizes : rt_malloc(n)
    \/ \E b \in DOMAIN asked : rt_free(b)
    \/ \E c \in Clients, b \in DOMAIN asked, n \in Sizes : rt_realloc(c, b, n)
    \/ \E c \in Clients : MoveAlloc(c) \/ MoveFree(c)

Spec == Init /\ [][Next]_vars

-----------------------------------------------------------------------------
(* Properties *)

Free == {b \in DOMAIN mem : ~mem[b].used}

\* The headers tile the arena in address order, both ways (mem.c:157-195).
Tiled ==
    /\ {0, heap_end} \subseteq DOMAIN mem
    /\ \A b \in DOMAIN mem \ {heap_end} :
           /\ mem[b].next \in DOMAIN mem /\ mem[b].next > b
           /\ \A x \in DOMAIN mem : ~(b < x /\ x < mem[b].next)
           /\ b # 0 => mem[mem[b].prev].next = b
           /\ Room(b) >= 1

\* Two free blocks are never neighbours, so memory does not fragment for good.
NoFreeNeighbours == \A b \in Free : mem[b].next \notin Free

\* The blocks in use are those handed out, each with the room asked for.
UsedAreAsked ==
    /\ DOMAIN asked = {b \in DOMAIN mem : mem[b].used} \ {heap_end}
    /\ \A b \in DOMAIN asked : Room(b) >= asked[b]

\* lfree is a header that still exists, of a free block unless none is above.
LfreeSound == lfree = heap_end \/ lfree \in Free

\* used_mem, what list_mem reports, is the words the blocks in use take.
BlockWords(b) == b .. mem[b].next - 1
UsedIsSum ==
    used_mem = Cardinality(UNION {BlockWords(b) : b \in DOMAIN asked})

\* Whatever is allocated, freed, shrunk or moved, and however two threads'
\* rt_realloc overlap, the heap's list stays whole (mem.c:157, 273, 422, 549).
HeapSound ==
    Tiled /\ NoFreeNeighbours /\ UsedAreAsked /\ LfreeSound /\ UsedIsSum

\* rt_malloc only fails for want of a block, with two exceptions: a block freed
\* by shrinking below lfree is not seen (mem.c:306, 494), and neither is one at
\* the very end that fits exactly (mem.c:307).
RefusedWhenFull ==
    refused # 0 =>
        \A b \in Free :
            \/ Room(b) < AtLeastMin(refused)
            \/ b < lfree
            \/ mem[b].next = heap_end /\ Room(b) = AtLeastMin(refused)

Regions == INSTANCE MemoryRegions WITH
    Arena <- SIZEOF_STRUCT_MEM .. heap_end - 1,
    live  <- {[at |-> b + SIZEOF_STRUCT_MEM, size |-> asked[b]] :
                  b \in DOMAIN asked}

\* The heap implements a set of disjoint regions.
ImplementsRegions == Regions!Spec
=============================================================================
