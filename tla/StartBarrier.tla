---------------------------- MODULE StartBarrier ----------------------------
(***************************************************************************)
(* What setting up a network promises: no process starts before every      *)
(* process has arrived.  A process may give up at any time instead.        *)
(***************************************************************************)
CONSTANT Processes

VARIABLES arrived, started
barrierVars == <<arrived, started>>

BarrierInit == arrived = {} /\ started = {}
Arrive(p) == arrived' = arrived \cup {p} /\ UNCHANGED started
Start(p) ==
  /\ arrived = Processes
  /\ started' = started \cup {p}
  /\ UNCHANGED arrived
GiveUp(p) == started' = started \ {p} /\ UNCHANGED arrived
BarrierNext == \E p \in Processes : Arrive(p) \/ Start(p) \/ GiveUp(p)
BarrierSpec == BarrierInit /\ [][BarrierNext]_barrierVars

=============================================================================
