----------------------------- MODULE MCRtMemPool -----------------------------
(***************************************************************************)
(* Two blocks and three threads: the smallest pool on which a second       *)
(* waiter, a barging caller and a block freed twice over can all occur.    *)
(***************************************************************************)
EXTENDS RtMemPool

CONSTANTS b1, b2

MCInitOrder == <<b1, b2>>
MCAllWaits  == {NoWait, Timed, Forever}
=============================================================================
