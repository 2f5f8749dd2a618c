---------------------------- MODULE MCAcquisition ----------------------------
(***************************************************************************)
(* The pipeline with small blocks, which keep the order of the program's   *)
(* constants: fewer blocks than slots, and, where files are compared with  *)
(* the samples, blocks that hold more samples than can arrive while a      *)
(* thread is kept from running (four; the program's hold 25). "early" ends *)
(* before the humidity pool is used up. "long" has blocks of two samples   *)
(* and goes on until the slot numbers have wrapped.                        *)
(***************************************************************************)
EXTENDS Acquisition
=============================================================================
