--------------------------- MODULE MCSampleEvents ---------------------------
(***************************************************************************)
(* The event fan-out.  One key that delays a thread is enough for a        *)
(* request to be lost and for the alarm thread to lose its place; the      *)
(* bound on bypass is beyond what that can make of it (2 + 4).             *)
(***************************************************************************)
EXTENDS SampleEvents
=============================================================================
