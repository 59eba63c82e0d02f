------------------------------ MODULE Workdir ------------------------------
(***************************************************************************)
(* A working directory that is used by hand: one process at a time, any    *)
(* task for any circuit or the aggregation server, in any order, with any  *)
(* of them dying at any point.                                             *)
(***************************************************************************)
EXTENDS AggregationServer

vars == <<taskVars, server>>

\* The shape of the directory and of what a process knows.
TypeOK == TaskTypeOK /\ ServerTypeOK

Init == TaskInit /\ ServerInit

Busy == TaskRuns \/ ServerRuns

Next ==
  \/ (TaskStep \/ Die) /\ UNCHANGED server
  \/ (ServerTurn \/ ServerDies) /\ UNCHANGED taskVars
  \/ /\ ~ Busy
     /\ \E i \in TaskId, c \in Circuit : Launch(i, c)
     /\ UNCHANGED server
  \/ /\ ~ Busy
     /\ \E n \in 0 .. LastTask + 1 : StartServer(n)
     /\ UNCHANGED taskVars

Spec == Init /\ [][Next]_vars

=============================================================================
