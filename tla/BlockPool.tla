------------------------------ MODULE BlockPool ------------------------------
(***************************************************************************)
(* What a fixed-size block allocator promises its callers, whatever way it *)
(* keeps the free blocks: a block goes from the pool to exactly one holder *)
(* and comes back from that holder.  RtMemPool (rtthread/3.0.3/src/        *)
(* mempool.c) is checked and proved to implement it.                       *)
(***************************************************************************)
CONSTANTS Blocks,   \* the blocks the pool was cut into
          Holders,  \* whoever may hold a block
          Pool      \* the owner of a free block, not one of Holders

VARIABLE owner      \* owner[b]: who has block b

Init == owner = [b \in Blocks |-> Pool]

Take(h, b) ==
    /\ owner[b] = Pool
    /\ owner' = [owner EXCEPT ![b] = h]

Give(h, b) ==
    /\ owner[b] = h
    /\ owner' = [owner EXCEPT ![b] = Pool]

Next == \E h \in Holders, b \in Blocks : Take(h, b) \/ Give(h, b)

Spec == Init /\ [][Next]_owner
=============================================================================
