---------------------------- MODULE IdealRounds ----------------------------
(***************************************************************************)
(* What a proof session promises, without a network: a fixed program of    *)
(* stages, each running one king round on every stream of the stage.  A    *)
(* round combines the shares that all the parties made for that very       *)
(* round, and a party leaves a stage only once all the rounds of the stage *)
(* have been combined.                                                     *)
(***************************************************************************)
EXTENDS Integers, Sequences

CONSTANTS
  N,        \* number of parties; party 0 is the king
  Sid,      \* the stream identifiers
  Stages    \* the program: a sequence of [sids, kind] records

VARIABLES
  finished, \* finished[p]: how many stages party p has completed
  used      \* the shares that went into the combined rounds

ideal == <<finished, used>>

Party == 0 .. N-1
StageNo == 1 .. Len(Stages)

Init ==
  /\ finished = [p \in Party |-> 0]
  /\ used = {}

\* The king's answer of round (k, s), from everybody's share of stage k.
Combine(k, s) ==
  /\ s \in Stages[k].sids
  /\ \A p \in Party : finished[p] >= k - 1
  /\ ~ \E x \in used : x.stage = k /\ x.sid = s
  /\ used' = used \cup
       {[stage |-> k, sid |-> s, from |-> p, tag |-> k] : p \in Party}
  /\ UNCHANGED finished

Finish(p) ==
  LET k == finished[p] + 1 IN
  /\ k \in StageNo
  /\ \A s \in Stages[k].sids : \E x \in used : x.stage = k /\ x.sid = s
  /\ finished' = [finished EXCEPT ![p] = k]
  /\ UNCHANGED used

Next ==
  \/ \E k \in StageNo, s \in Sid : Combine(k, s)
  \/ \E p \in Party : Finish(p)

Spec == Init /\ [][Next]_ideal /\ WF_ideal(Next)

=============================================================================
