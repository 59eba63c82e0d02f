---------------------------- MODULE ProofSession ----------------------------
(***************************************************************************)
(* One distributed proof: N parties run the same program of stages over    *)
(* multiplexed FIFO streams to party 0, the king.  A stage runs one king   *)
(* round on each of its streams concurrently (tokio::try_join!): a client  *)
(* sends its share and then waits, without a timeout, for the answer; the  *)
(* king collects the shares until all are there or its timeout fires,      *)
(* combines them and answers the clients one by one.                       *)
(*                                                                         *)
(* A message is abstracted to its tag, the stage it was made for.  The     *)
(* code sends no such tag: no guard below reads it, except that the bytes  *)
(* of one kind of message may not decode as another kind.                  *)
(***************************************************************************)
EXTENDS Integers, Sequences, FiniteSets

CONSTANTS
  N,        \* number of parties
  Sid,      \* the stream identifiers
  Stages,   \* the program: a sequence of [sids, kind] records
  T,        \* corruption threshold, the threshold argument of every round
  Slow      \* the clients that may need longer than the king's timeout

Party == 0 .. N-1
King == 0
Client == 1 .. N-1
StageNo == 1 .. Len(Stages)
AfterLast == Len(Stages) + 1
Payload == {"vec", "g1", "g2"}

ASSUME NAssumption == N \in Nat /\ N >= 2
ASSUME StagesAssumption ==
  /\ Stages \in Seq([sids : SUBSET Sid, kind : Payload])
  /\ \A k \in StageNo : Stages[k].sids # {}
ASSUME TAssumption == T \in Nat
ASSUME SlowAssumption == Slow \subseteq Client

VARIABLES
  stage,    \* stage[p]: the stage p runs; AfterLast: p is at the barrier
  phase,    \* phase[p][s]: where p is in its round on stream s
  up,       \* up[c][s]: frames from client c that the king has not read
  down,     \* down[c][s]: frames from the king that c has not read
  store,    \* results_store of every round so far, as a set of entries
  answerTo, \* answerTo[s]: the next client the king answers on s
  status    \* status[p]: running, returned or panicked

vars == <<stage, phase, up, down, store, answerTo, status>>

Phase == {"idle", "send", "await", "collect", "reply", "done"}
Entry == [stage : StageNo, sid : Sid, from : Party, tag : StageNo]

TypeOK ==
  /\ stage \in [Party -> 1 .. AfterLast]
  /\ phase \in [Party -> [Sid -> Phase]]
  /\ up \in [Client -> [Sid -> Seq(StageNo)]]
  /\ down \in [Client -> [Sid -> Seq(StageNo)]]
  /\ store \subseteq Entry
  /\ answerTo \in [Sid -> 1 .. N]
  /\ status \in [Party -> {"running", "returned", "panicked"}]

-----------------------------------------------------------------------------
\* Variant: clients that wait for the answer before they send.
EnterAwaiting(p, k) ==
  [s \in Sid |->
     IF k \in StageNo /\ s \in Stages[k].sids
     THEN IF p = King THEN "collect" ELSE "await"
     ELSE "idle"]

\* The phases a party starts stage k with.
Enter(p, k) ==
  [s \in Sid |->
     IF k \in StageNo /\ s \in Stages[k].sids
     THEN IF p = King THEN "collect" ELSE "send"
     ELSE "idle"]

\* Does p run a round on s now?
Active(p, s) ==
  /\ status[p] = "running"
  /\ stage[p] \in StageNo
  /\ s \in Stages[stage[p]].sids

\* The entries of the round (k, s).
Round(k, s) == {x \in store : x.stage = k /\ x.sid = s}

\* The clients whose share of the round the king has.
Holders(k, s) == {x.from : x \in Round(k, s)}

\* Do the bytes made for stage j deserialise as the type of stage k?  A
\* vector starts with a length no curve point encodes, a G2 point is longer
\* than a G1 point, and only a prefix of the bytes is read.
MustDecode(j, k) == Stages[j].kind = Stages[k].kind
MayDecode(j, k) ==
  \/ MustDecode(j, k)
  \/ <<Stages[j].kind, Stages[k].kind>> \in
       {<<"vec", "g1">>, <<"vec", "g2">>, <<"g2", "g1">>}

Init ==
  /\ stage = [p \in Party |-> 1]
  /\ phase = [p \in Party |-> Enter(p, 1)]
  /\ up = [c \in Client |-> [s \in Sid |-> <<>>]]
  /\ down = [c \in Client |-> [s \in Sid |-> <<>>]]
  /\ store = {}
  /\ answerTo = [s \in Sid |-> 1]
  /\ status = [p \in Party |-> "running"]

-----------------------------------------------------------------------------
(***************************************************************************)
(* Variants of definitions below, each with one plausible bug.  No run     *)
(* uses them: a property is worth its run if it fails when the variant     *)
(* takes the place of the definition.                                      *)
(***************************************************************************)
\* A timeout that does not wait for anybody.
AnyMissing(k, s) == ~ Client \subseteq Holders(k, s)

\* A client that does not wait for the king's answer.
ClientSendOnly(c, s) ==
  /\ Active(c, s)
  /\ phase[c][s] = "send"
  /\ up' = [up EXCEPT ![c][s] = Append(@, stage[c])]
  /\ phase' = [phase EXCEPT ![c][s] = "done"]
  /\ UNCHANGED <<stage, down, store, answerTo, status>>

\* A king that skips to the newest frame of a stream.
KingReceiveNewest(c, s) ==
  /\ Active(King, s)
  /\ phase[King][s] = "collect"
  /\ c \notin Holders(stage[King], s)
  /\ up[c][s] # <<>>
  /\ up' = [up EXCEPT ![c][s] = <<>>]
  /\ store' = store \cup
       {[stage |-> stage[King], sid |-> s, from |-> c,
         tag |-> up[c][s][Len(up[c][s])]]}
  /\ UNCHANGED <<stage, phase, down, answerTo, status>>

\* The king's answers with the copies and the last client given.
Answering(s, copies, last) ==
  LET c == answerTo[s] IN
  /\ Active(King, s)
  /\ phase[King][s] = "reply"
  /\ c \in Client
  /\ down' = [down EXCEPT ![c][s] = @ \o [i \in 1 .. copies |-> stage[King]]]
  /\ answerTo' = [answerTo EXCEPT ![s] = c + 1]
  /\ phase' = [phase EXCEPT ![King][s] = IF c = last THEN "done" ELSE @]
  /\ UNCHANGED <<stage, up, store, status>>
KingReplyTwice(s) == Answering(s, 2, N-1)
KingReplyShort(s) == Answering(s, 1, N-2)

\* select! in the place of try_join!.
AdvanceOnFirst(p) ==
  /\ status[p] = "running"
  /\ stage[p] \in StageNo
  /\ \E s \in Stages[stage[p]].sids : phase[p][s] = "done"
  /\ stage' = [stage EXCEPT ![p] = @ + 1]
  /\ phase' = [phase EXCEPT ![p] = Enter(p, stage[p] + 1)]
  /\ UNCHANGED <<up, down, store, answerTo, status>>

\* A return without the barrier.
ReturnAtOnce(p) ==
  /\ status[p] = "running"
  /\ stage[p] = AfterLast
  /\ status' = [status EXCEPT ![p] = "returned"]
  /\ UNCHANGED <<stage, phase, up, down, store, answerTo>>

-----------------------------------------------------------------------------
\* A client's half of client_send_or_king_receive.
ClientSend(c, s) ==
  /\ Active(c, s)
  /\ phase[c][s] = "send"
  /\ up' = [up EXCEPT ![c][s] = Append(@, stage[c])]
  /\ phase' = [phase EXCEPT ![c][s] = "await"]
  /\ UNCHANGED <<stage, down, store, answerTo, status>>

\* A client's half of client_receive_or_king_send: the next frame of the
\* stream is taken for the answer.
ClientReceive(c, s) ==
  /\ Active(c, s)
  /\ phase[c][s] = "await"
  /\ down[c][s] # <<>>
  /\ down' = [down EXCEPT ![c][s] = Tail(@)]
  /\ phase' = [phase EXCEPT ![c][s] = "done"]
  /\ status' = [status EXCEPT ![c] =
       IF MustDecode(Head(down[c][s]), stage[c]) THEN @ ELSE "panicked"]
  /\ UNCHANGED <<stage, up, store, answerTo>>

\* One of the king's concurrent recv_from calls completes.
KingReceive(c, s) ==
  LET k == stage[King] IN
  /\ Active(King, s)
  /\ phase[King][s] = "collect"
  /\ c \notin Holders(k, s)
  /\ up[c][s] # <<>>
  /\ up' = [up EXCEPT ![c][s] = Tail(@)]
  /\ store' = store \cup
       {[stage |-> k, sid |-> s, from |-> c, tag |-> Head(up[c][s])]}
  /\ UNCHANGED <<stage, phase, down, answerTo, status>>

\* The entries of the round once the king has added its own.
Collected(k, s) ==
  Round(k, s) \cup {[stage |-> k, sid |-> s, from |-> King, tag |-> k]}

\* The king waits for shares of the round on s.
Collecting(s) == Active(King, s) /\ phase[King][s] = "collect"

\* Every party's bytes are there: one that does not decode fails the round.
CombineFull(s) ==
  LET k == stage[King] IN
  /\ Client \subseteq Holders(k, s)
  /\ store' = store \cup Collected(k, s)
  /\ \/ /\ \A x \in Collected(k, s) : MayDecode(x.tag, k)
        /\ phase' = [phase EXCEPT ![King][s] = "reply"]
        /\ answerTo' = [answerTo EXCEPT ![s] = 1]
        /\ UNCHANGED status
     \/ /\ \E x \in Collected(k, s) : ~ MustDecode(x.tag, k)
        /\ status' = [status EXCEPT ![King] = "panicked"]
        /\ UNCHANGED <<phase, answerTo>>
  /\ UNCHANGED <<stage, up, down>>

\* The timeout of the king's round: only a slow client can be missing.
TimeoutFires(k, s) ==
  /\ ~ Client \subseteq Holders(k, s)
  /\ Client \ Holders(k, s) \subseteq Slow

\* The timeout fires first: what does not decode is dropped, and fewer than
\* T remaining shares fail the round.
CombinePartial(s) ==
  LET k == stage[King] IN
  /\ TimeoutFires(k, s)
  /\ \E kept \in SUBSET Collected(k, s) :
       /\ \A x \in Collected(k, s) :
            /\ MustDecode(x.tag, k) => x \in kept
            /\ x \in kept => MayDecode(x.tag, k)
       /\ store' = (store \ Round(k, s)) \cup kept
       /\ IF Cardinality(kept) < T
          THEN /\ status' = [status EXCEPT ![King] = "panicked"]
               /\ UNCHANGED <<phase, answerTo>>
          ELSE /\ phase' = [phase EXCEPT ![King][s] = "reply"]
               /\ answerTo' = [answerTo EXCEPT ![s] = 1]
               /\ UNCHANGED status
  /\ UNCHANGED <<stage, up, down>>

\* The round ends with everybody's share, or by its timeout.
Combine(s) == Collecting(s) /\ (CombineFull(s) \/ CombinePartial(s))

\* The king's half of client_receive_or_king_send, one client at a time.
KingReply(s) ==
  LET c == answerTo[s] IN
  /\ Active(King, s)
  /\ phase[King][s] = "reply"
  /\ c \in Client
  /\ down' = [down EXCEPT ![c][s] = Append(@, stage[King])]
  /\ answerTo' = [answerTo EXCEPT ![s] = c + 1]
  /\ phase' = [phase EXCEPT ![King][s] = IF c = N-1 THEN "done" ELSE @]
  /\ UNCHANGED <<stage, up, store, status>>

\* try_join! resolves: the party goes on to its next stage, or to the barrier.
Advance(p) ==
  LET k == stage[p] IN
  /\ status[p] = "running"
  /\ k \in StageNo
  /\ \A s \in Stages[k].sids : phase[p][s] = "done"
  /\ stage' = [stage EXCEPT ![p] = k + 1]
  /\ phase' = [phase EXCEPT ![p] = Enter(p, k + 1)]
  /\ UNCHANGED <<up, down, store, answerTo, status>>

\* local_completion_barrier lets everybody go, and the party returns.
Return(p) ==
  /\ status[p] = "running"
  /\ \A q \in Party : stage[q] = AfterLast
  /\ status' = [status EXCEPT ![p] = "returned"]
  /\ UNCHANGED <<stage, phase, up, down, store, answerTo>>

Panicked == \E p \in Party : status[p] = "panicked"
AllReturned == \A p \in Party : status[p] = "returned"

\* The session is over: every party returned, or a party's panic has been
\* propagated to the task that joins them.
Over ==
  /\ Panicked \/ AllReturned
  /\ UNCHANGED vars

PartyStep(p) ==
  \/ \E s \in Sid : p \in Client /\ (ClientSend(p, s) \/ ClientReceive(p, s))
  \/ Advance(p)
  \/ Return(p)

KingStep(s) ==
  \/ \E c \in Client : KingReceive(c, s)
  \/ Combine(s)
  \/ KingReply(s)

Next ==
  \/ \E p \in Party : PartyStep(p)
  \/ \E s \in Sid : KingStep(s)
  \/ Over

\* The runtime keeps polling every party's task and every future the king
\* joins; nothing is assumed about which of them goes first.
Fairness ==
  /\ \A p \in Party : WF_vars(PartyStep(p))
  /\ \A s \in Sid : WF_vars(KingStep(s))

Spec == Init /\ [][Next]_vars /\ Fairness

-----------------------------------------------------------------------------
\* Has the king combined the round (k, s)?
Combined(k, s) ==
  \/ k < stage[King]
  \/ k = stage[King] /\ phase[King][s] \in {"reply", "done"}

\* No frame carries its round, so the streams alone must keep the parties in
\* step: whatever other parties are late, the share that the king takes from
\* a party that meets the timeout was made for the very round he is in.
ShareAlignment ==
  \A x \in store : x.from \in Client \ Slow => x.tag = x.stage

\* A client that waits for its answer without a timeout never takes the
\* answer of another stage for it, even when it is stages behind the king.
AnswerAlignment ==
  \A c \in Client, s \in Sid :
    Active(c, s) /\ phase[c][s] \in {"send", "await"} /\ down[c][s] # <<>>
      => Head(down[c][s]) = stage[c]

\* A late share stays in the stream, and nothing ever drains it: once the
\* king has taken a stale share from a party, all he takes later from that
\* party on that stream is stale too.
OnceStaleAlwaysStale ==
  \A x, y \in store :
    /\ x.from = y.from /\ x.sid = y.sid
    /\ x.tag < x.stage /\ x.stage < y.stage
    => y.tag < y.stage

\* The streams are used in lock step, one frame each way at most, by every
\* party that meets the timeout: neither buffer can fill up.
BoundedStreams ==
  \A c \in Client \ Slow, s \in Sid : Len(up[c][s]) + Len(down[c][s]) <= 1

\* A session that completes leaves no frame behind for a party that kept up,
\* although the stages reuse the streams, so closing the connections at the
\* return loses nothing.
NothingLeftBehind ==
  (\E p \in Party : status[p] = "returned") =>
    \A c \in Client, s \in Sid :
      /\ down[c][s] = <<>>
      /\ c \notin Slow => up[c][s] = <<>>

\* A round that the king fails, by his threshold or by bytes that do not
\* decode, holds everybody: no party gets past the stage, even when its other
\* rounds were answered.
FailedStageHolds ==
  status[King] = "panicked" => \A p \in Party : stage[p] <= stage[King]

\* With nobody late every party returns: no order of the concurrent rounds
\* of a stage, or of parties that are in different stages, blocks a session.
EverybodyReturns == <>AllReturned

\* Even with late parties a session ends, by its return or by a panic: no
\* client is left waiting on a stream the king has given up on.
SessionEnds == <>(AllReturned \/ Panicked)

\* With nobody late the session implements the synchronous rounds: the king
\* combines everybody's share of the round, and nobody runs ahead of it.
Ideal == INSTANCE IdealRounds WITH
  finished <- [p \in Party |-> stage[p] - 1],
  used <- {x \in store : Combined(x.stage, x.sid)}

ImplementsIdealRounds == Ideal!Spec

\* The safety half of it: every step is a step of the rounds, or none of theirs.
RefinesIdealRounds == Ideal!Init /\ [][Ideal!Next]_(Ideal!ideal)

\* The assertion of lagrange_unpack (secret-sharing/src/pss.rs:203): the king
\* interpolates only when he has more than 2(t + l - 1) shares.  L is the
\* packing factor.
EnoughShares(L) ==
  \A k \in StageNo, s \in Sid :
    Round(k, s) # {} /\ Combined(k, s)
      => Cardinality(Round(k, s)) > 2 * (T + L - 1)

\* The shares that some round lacked, or that came too late for it.
Dropped ==
  {c \in Client :
     \E k \in StageNo, s \in Sid :
       s \in Stages[k].sids /\ Combined(k, s) /\ c \notin Holders(k, s)}

\* The dropout tolerance of the packed sharing (secret-sharing/src/pss.rs:12):
\* with at most one party dropping out the rounds still combine shares of one
\* and the same sharing.
OneDropoutTolerated ==
  Cardinality(Dropped) <= 1 =>
    \A x \in store : Combined(x.stage, x.sid) => x.tag = x.stage

-----------------------------------------------------------------------------
(***************************************************************************)
(* The inductive invariant behind ShareAlignment: for a client that meets  *)
(* the timeout, the two sides of each stream are never more than one frame *)
(* and one stage apart.                                                    *)
(***************************************************************************)
Punctual == Client \ Slow

\* Progress of c in the round of its current stage on s.
Sent(c, s) == phase[c][s] \in {"await", "done"}
Got(c, s) == phase[c][s] = "done"

\* Has the king taken c's share of the round (k, s)?  Has he answered it?
Taken(k, s, c) == c \in Holders(k, s)
Answered(k, s, c) ==
  \/ k < stage[King]
  \/ /\ k = stage[King]
     /\ \/ phase[King][s] = "done"
        \/ phase[King][s] = "reply" /\ c < answerTo[s]

\* Does p's current stage use s?
Uses(p, s) == stage[p] \in StageNo /\ s \in Stages[stage[p]].sids

PhaseInv ==
  \A p \in Party, s \in Sid :
    Uses(p, s) =>
      phase[p][s] \in IF p = King THEN {"collect", "reply", "done"}
                                 ELSE {"send", "await", "done"}

StreamInv ==
  \A c \in Punctual, s \in Sid :
    /\ up[c][s] = IF Uses(c, s) /\ Sent(c, s) /\ ~ Taken(stage[c], s, c)
                  THEN <<stage[c]>> ELSE <<>>
    /\ down[c][s] = IF Uses(c, s) /\ Answered(stage[c], s, c) /\ ~ Got(c, s)
                    THEN <<stage[c]>> ELSE <<>>

StoreInv ==
  \A x \in store : x.from \in Punctual =>
    /\ x.tag = x.stage
    /\ x.sid \in Stages[x.stage].sids
    /\ x.stage <= stage[x.from]
    /\ x.stage = stage[x.from] => Sent(x.from, x.sid)

CombinedInv ==
  \A k \in StageNo : \A s \in Stages[k].sids, c \in Punctual :
    Combined(k, s) => Taken(k, s, c)

AnswerInv ==
  \A k \in StageNo : \A s \in Stages[k].sids, c \in Punctual :
    k < stage[c] \/ (k = stage[c] /\ Got(c, s)) => Answered(k, s, c)

IInv ==
  /\ TypeOK
  /\ PhaseInv
  /\ StreamInv
  /\ StoreInv
  /\ CombinedInv
  /\ AnswerInv

-----------------------------------------------------------------------------
(***************************************************************************)
(* The inductive invariant behind AnswerAlignment, FailedStageHolds and    *)
(* NothingLeftBehind, about all clients, late ones included: what is in a  *)
(* client's stream are the answers it has still to read, in order.         *)
(***************************************************************************)
\* The rounds on s that the king has answered c and that c has not read.
Pending(c, s) ==
  {k \in StageNo :
     /\ s \in Stages[k].sids
     /\ Answered(k, s, c)
     /\ stage[c] < k \/ (stage[c] = k /\ ~ Got(c, s))}

PendingInv ==
  \A c \in Client, s \in Sid :
    /\ \A i \in 1 .. Len(down[c][s]) : down[c][s][i] \in Pending(c, s)
    /\ \A k \in Pending(c, s) : \E i \in 1 .. Len(down[c][s]) : down[c][s][i] = k
    /\ \A i, j \in 1 .. Len(down[c][s]) : i < j => down[c][s][i] < down[c][s][j]

AnsweredInv ==
  \A k \in StageNo : \A s \in Stages[k].sids, c \in Client :
    k < stage[c] \/ (k = stage[c] /\ Got(c, s)) => Answered(k, s, c)

\* The king fails while he collects, and nobody returns before the last stage.
PanicInv ==
  status[King] = "panicked" =>
    /\ stage[King] \in StageNo
    /\ \E s \in Stages[stage[King]].sids : phase[King][s] = "collect"
ReturnInv ==
  (\E p \in Party : status[p] = "returned") => \A q \in Party : stage[q] = AfterLast

AInv ==
  /\ PendingInv
  /\ AnsweredInv
  /\ PanicInv
  /\ ReturnInv

-----------------------------------------------------------------------------
(***************************************************************************)
(* The inductive invariant behind OnceStaleAlwaysStale, about all clients: *)
(* the king reads a client's shares in the order of the stages, one a      *)
(* round at most, so he never makes up for a round that took a stale one.  *)
(***************************************************************************)
\* The stages whose share on s the king has still to read from c.
ToRead(c, s) ==
  {k \in StageNo :
     /\ s \in Stages[k].sids
     /\ \/ \E i \in 1 .. Len(up[c][s]) : up[c][s][i] = k
        \/ stage[c] < k
        \/ stage[c] = k /\ ~ Sent(c, s)}

\* May the king still take a share of the round (k, s) from c?
MayTake(k, s, c) ==
  /\ status[King] = "running"
  /\ \/ stage[King] < k
     \/ stage[King] = k /\ phase[King][s] = "collect" /\ ~ Taken(k, s, c)

FramesInv ==
  \A c \in Client, s \in Sid :
    /\ \A i \in 1 .. Len(up[c][s]) :
         /\ up[c][s][i] \in ToRead(c, s)
         /\ up[c][s][i] <= stage[c]
         /\ up[c][s][i] = stage[c] => Sent(c, s)
    /\ \A i, j \in 1 .. Len(up[c][s]) : i < j => up[c][s][i] < up[c][s][j]
    /\ \A j \in ToRead(c, s), k \in StageNo :
         j < k /\ s \in Stages[k].sids => k \in ToRead(c, s)

EntryInv ==
  \A x \in store :
    /\ x.stage <= stage[King]
    /\ x.sid \in Stages[x.stage].sids
    /\ x.from = King => x.tag = x.stage

LagInv ==
  \A x \in store, k \in StageNo :
    /\ x.from \in Client /\ x.tag < x.stage /\ x.stage < k
    /\ x.sid \in Stages[k].sids
    /\ MayTake(k, x.sid, x.from)
    => \E j \in ToRead(x.from, x.sid) : j < k

OrderInv ==
  /\ FramesInv
  /\ EntryInv
  /\ LagInv
  /\ OnceStaleAlwaysStale

=============================================================================
