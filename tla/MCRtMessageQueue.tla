--------------------------- MODULE MCRtMessageQueue ---------------------------
(***************************************************************************)
(* Two nodes and three threads: a full and an empty queue, two calls that  *)
(* overlap between their critical sections, and a sleeper beside them.     *)
(***************************************************************************)
EXTENDS RtMessageQueue

CONSTANTS n1, n2

MCInitOrder == <<n1, n2>>
MCAllWaits  == {NoWait, Timed, Forever}
=============================================================================
