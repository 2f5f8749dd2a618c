---------------------------- MODULE MemoryRegions ----------------------------
(***************************************************************************)
(* What a heap promises: the regions in use are disjoint parts of the      *)
(* arena, and each stays where it is, untouched, until its owner gives it  *)
(* back or resizes it.                                                     *)
(***************************************************************************)
EXTENDS Integers

CONSTANT Arena    \* the words of the heap

VARIABLE live     \* the regions in use: [at, size]

Words(r) == r.at .. r.at + r.size - 1

Apart(r, s) == Words(r) \cap Words(s) = {}

Init == live = {}

Grab(r) ==
    /\ r.size > 0 /\ Words(r) \subseteq Arena
    /\ \A s \in live : Apart(r, s)
    /\ live' = live \cup {r}

Drop(r) ==
    /\ r \in live
    /\ live' = live \ {r}

\* A region may shrink or grow where it is.
Resize(r, n) ==
    /\ r \in live /\ n > 0
    /\ LET s == [r EXCEPT !.size = n]
       IN  /\ Words(s) \subseteq Arena
           /\ \A q \in live \ {r} : Apart(s, q)
           /\ live' = (live \ {r}) \cup {s}

Next ==
    \/ \E r \in live' : Grab(r)
    \/ \E r \in live : Drop(r)
    \/ \E r \in live, s \in live' : Resize(r, s.size)

Spec == Init /\ [][Next]_live
=============================================================================
