----------------------------- MODULE MCRtThread ------------------------------
(* Main is best, a worker and the poller share a priority, idle is last. *)
EXTENDS RtThread
CONSTANTS worker, poller
Prios4 == [t \in Threads |-> CASE t = Main -> 1 [] t = Idle -> 3 [] OTHER -> 2]
Delays12 == {1, 2}
WaitsAll == {RT_WAITING_FOREVER, 1}
=============================================================================
