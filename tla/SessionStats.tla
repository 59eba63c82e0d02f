---------------------------- MODULE SessionStats ----------------------------
(***************************************************************************)
(* The payload counters that the parties of a proof session share, and the *)
(* snapshot of them that each party returns.  A party adds to its counter  *)
(* only after the frame has been flushed, so a frame may be read, and even *)
(* answered, before it is counted; the snapshot is taken after the         *)
(* completion barrier.  Sizes are left out: one unit is one frame.         *)
(***************************************************************************)
EXTENDS ProofSession, FiniteSetsExt

\* A stream identifier is a byte.
ASSUME SidAssumption == IsFiniteSet(Sid)

VARIABLES
  sent,      \* NetworkByteCounters.sent, one counter per party
  received,  \* NetworkByteCounters.received
  uncounted, \* the <<party, sid>> whose flushed frame is not yet counted
  snapshot   \* snapshot[p]: the totals p returned, or NoSnapshot

counters == <<sent, received, uncounted, snapshot>>
statsVars == <<vars, counters>>

NoSnapshot == [sent |-> -1, received |-> -1]

StatsInit ==
  /\ Init
  /\ sent = [p \in Party |-> 0]
  /\ received = [p \in Party |-> 0]
  /\ uncounted = {}
  /\ snapshot = [p \in Party |-> NoSnapshot]

Total(counter) == MapThenSumSet(LAMBDA x : counter[x], DOMAIN counter)

\* send_to: the flush, then the count, then the return to the caller.
Flush(p, s) ==
  /\ uncounted' = uncounted \cup {<<p, s>>}
  /\ UNCHANGED <<sent, received, snapshot>>

CountSent(p, s) ==
  /\ <<p, s>> \in uncounted
  /\ uncounted' = uncounted \ {<<p, s>>}
  /\ sent' = [sent EXCEPT ![p] = @ + 1]
  /\ UNCHANGED <<vars, received, snapshot>>

\* recv_from: nothing is awaited between the frame and its count.
CountReceived(p) ==
  /\ received' = [received EXCEPT ![p] = @ + 1]
  /\ UNCHANGED <<sent, uncounted, snapshot>>

\* communication_stats, before the party returns.
TakeSnapshot(p) ==
  /\ snapshot' = [snapshot EXCEPT ![p] =
       [sent |-> Total(sent), received |-> Total(received)]]
  /\ UNCHANGED <<sent, received, uncounted>>

\* The task of p is inside send_to on s.
Sending(p, s) == <<p, s>> \in uncounted

StatsPartyStep(p) ==
  \/ \E s \in Sid : p \in Client /\ ClientSend(p, s) /\ Flush(p, s)
  \/ \E s \in Sid :
       p \in Client /\ ~ Sending(p, s) /\ ClientReceive(p, s) /\ CountReceived(p)
  \/ \E s \in Sid : CountSent(p, s)
  \/ (\A s \in Sid : ~ Sending(p, s)) /\ Advance(p) /\ UNCHANGED counters
  \/ Return(p) /\ TakeSnapshot(p)

StatsKingStep(s) ==
  \/ \E c \in Client : KingReceive(c, s) /\ CountReceived(King)
  \/ Collecting(s) /\ CombineFull(s) /\ UNCHANGED counters
  \/ Collecting(s) /\ CombinePartial(s) /\ UNCHANGED counters
  \/ ~ Sending(King, s) /\ KingReply(s) /\ Flush(King, s)

StatsNext ==
  \/ \E p \in Party : StatsPartyStep(p)
  \/ \E s \in Sid : StatsKingStep(s)
  \/ Over /\ UNCHANGED counters

StatsFairness ==
  /\ \A p \in Party : WF_statsVars(StatsPartyStep(p))
  /\ \A s \in Sid : WF_statsVars(StatsKingStep(s))

StatsSpec == StatsInit /\ [][StatsNext]_statsVars /\ StatsFairness

-----------------------------------------------------------------------------
Rounds == {r \in StageNo \X Sid : r[2] \in Stages[r[1]].sids}

\* The late shares that the king has left in the streams.
Unread == Total([cs \in Client \X Sid |-> Len(up[cs[1]][cs[2]])])

\* The last party's snapshot is recorded as the traffic of the session.  Each
\* party's snapshot is the whole of it, one frame each way between the king
\* and every client for every round, and the frames received are those sent
\* except late shares nobody reads: although a frame is counted only after it
\* may have been read and answered, the barrier lets no snapshot miss one.
SnapshotIsAllTraffic ==
  \A p \in Party : snapshot[p] # NoSnapshot =>
    /\ snapshot[p].sent = 2 * (N - 1) * Cardinality(Rounds)
    /\ snapshot[p].received = snapshot[p].sent - Unread

-----------------------------------------------------------------------------
(***************************************************************************)
(* The inductive invariant behind it: every counter is the number of the   *)
(* frames it stands for.  A frame that is flushed and not yet counted is   *)
(* one of the round its party is in, so nothing is uncounted at the        *)
(* barrier.                                                                *)
(***************************************************************************)
CountersType ==
  /\ sent \in [Party -> Nat]
  /\ received \in [Party -> Nat]
  /\ uncounted \subseteq Party \X Sid
  /\ snapshot \in [Party -> [sent : Int, received : Int]]

UncountedInv ==
  \A p \in Party, s \in Sid : Sending(p, s) =>
    /\ Uses(p, s)
    /\ p # King => phase[p][s] = "await"
    /\ p = King => phase[King][s] \in {"reply", "done"} /\ answerTo[s] \in 2 .. N

\* The rounds whose share c has sent, has sent and counted, and whose answer
\* it has read.
Past(c, r) == r[1] < stage[c]
Shared(c) == {r \in Rounds : Past(c, r) \/ (r[1] = stage[c] /\ Sent(c, r[2]))}
Counted(c) ==
  {r \in Rounds : \/ Past(c, r)
                  \/ r[1] = stage[c] /\ Sent(c, r[2]) /\ ~ Sending(c, r[2])}
Read(c) == {r \in Rounds : Past(c, r) \/ (r[1] = stage[c] /\ Got(c, r[2]))}

\* The answers that the king has counted, and the shares that were sent.
Answers ==
  {a \in Rounds \X Client :
     /\ Answered(a[1][1], a[1][2], a[2])
     /\ ~ (a[1][1] = stage[King] /\ Sending(King, a[1][2]) /\ answerTo[a[1][2]] = a[2] + 1)}
Shares == {a \in Rounds \X Client : a[1] \in Shared(a[2])}

CountersInv ==
  /\ \A c \in Client : sent[c] = Cardinality(Counted(c)) /\ received[c] = Cardinality(Read(c))
  /\ sent[King] = Cardinality(Answers)
  /\ received[King] + Unread = Cardinality(Shares)

SnapshotInv == \A p \in Party : snapshot[p] # NoSnapshot => status[p] = "returned"

StatsInv ==
  /\ CountersType
  /\ UncountedInv
  /\ CountersInv
  /\ SnapshotInv
  /\ SnapshotIsAllTraffic

=============================================================================
