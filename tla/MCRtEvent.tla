------------------------------ MODULE MCRtEvent ------------------------------
(***************************************************************************)
(* Three threads, so that a waiter in the middle of the list can be woken, *)
(* and two flags, so that one waiter can clear what another waits for.     *)
(***************************************************************************)
EXTENDS RtEvent, TLC

CONSTANTS a, b

\* The calls of main.c (OR and AND, clearing, forever) and every option the
\* kernel tells apart, once.
MCWants == {
    [flags |-> {a},    mode |-> Or,  clear |-> TRUE,  wait |-> Forever],
    [flags |-> {a, b}, mode |-> And, clear |-> TRUE,  wait |-> Forever],
    [flags |-> {a, b}, mode |-> Or,  clear |-> TRUE,  wait |-> Timed],
    [flags |-> {b},    mode |-> Or,  clear |-> FALSE, wait |-> Timed],
    [flags |-> {b},    mode |-> And, clear |-> TRUE,  wait |-> NoWait]}

MCSymmetry == Permutations(Threads)
=============================================================================
