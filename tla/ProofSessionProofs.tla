------------------------- MODULE ProofSessionProofs -------------------------
(***************************************************************************)
(* What holds of every proof session, for every number of parties, every   *)
(* program of stages and every set of late parties.                        *)
(***************************************************************************)
EXTENDS ProofSession, TLAPS

\* Who the parties are.
LEMMA PartyFacts ==
  /\ N \in Nat /\ N >= 2
  /\ King \in Party
  /\ Client \subseteq Party
  /\ \A c \in Client : c # King /\ c \in Int
  /\ \A p \in Party : p # King => p \in Client
  BY NAssumption DEF Party, King, Client

\* Numbers and streams of the stages.
LEMMA StageFacts ==
  /\ Len(Stages) \in Nat
  /\ \A k \in StageNo : /\ k \in Nat
                        /\ Stages[k].sids \subseteq Sid
                        /\ Stages[k].sids # {}
  /\ AfterLast \notin StageNo
  /\ \A k \in 1 .. AfterLast : k # AfterLast => k \in StageNo
  /\ \A k \in StageNo : k + 1 \in 1 .. AfterLast
  /\ 1 \in 1 .. AfterLast
  <1>1. Stages \in Seq([sids : SUBSET Sid, kind : Payload])
    BY StagesAssumption
  <1>2. Len(Stages) \in Nat
    BY <1>1
  <1>3. \A k \in StageNo : Stages[k] \in [sids : SUBSET Sid, kind : Payload]
    <2>1. ASSUME NEW S, NEW q \in Seq(S), NEW k \in 1 .. Len(q)
          PROVE  q[k] \in S
      OBVIOUS
    <2>. QED
      BY <1>1, <2>1 DEF StageNo
  <1>. QED
    BY <1>2, <1>3, StagesAssumption DEF StageNo, AfterLast

\* What a party starts a stage with.
LEMMA EnterType ==
  ASSUME NEW p, NEW k
  PROVE  Enter(p, k) \in [Sid -> Phase]
  BY DEF Enter, Phase

\* The initial state is well typed.
LEMMA InitTypeOK == Init => TypeOK
  <1>. SUFFICES ASSUME Init PROVE TypeOK
    OBVIOUS
  <1>1. stage \in [Party -> 1 .. AfterLast]
    BY StageFacts DEF Init
  <1>2. phase \in [Party -> [Sid -> Phase]]
    BY EnterType DEF Init
  <1>3. /\ up \in [Client -> [Sid -> Seq(StageNo)]]
        /\ down \in [Client -> [Sid -> Seq(StageNo)]]
    BY DEF Init
  <1>4. answerTo \in [Sid -> 1 .. N]
    BY PartyFacts DEF Init
  <1>. QED
    BY <1>1, <1>2, <1>3, <1>4 DEF Init, TypeOK

\* Every step keeps the state well typed.
LEMMA NextTypeOK == TypeOK /\ [Next]_vars => TypeOK'
  <1>. SUFFICES ASSUME TypeOK, [Next]_vars PROVE TypeOK'
    OBVIOUS
  <1>. USE PartyFacts
  <1>1. ASSUME NEW c \in Client, NEW s \in Sid, ClientSend(c, s)
        PROVE  TypeOK'
    <2>1. stage[c] \in StageNo
      BY <1>1 DEF ClientSend, Active
    <2>2. up' \in [Client -> [Sid -> Seq(StageNo)]]
      BY <1>1, <2>1 DEF ClientSend, TypeOK
    <2>3. phase' \in [Party -> [Sid -> Phase]]
      BY <1>1 DEF ClientSend, TypeOK, Phase
    <2>. QED
      BY <1>1, <2>2, <2>3 DEF ClientSend, TypeOK
  <1>2. ASSUME NEW c \in Client, NEW s \in Sid, ClientReceive(c, s)
        PROVE  TypeOK'
    <2>1. down' \in [Client -> [Sid -> Seq(StageNo)]]
      BY <1>2 DEF ClientReceive, TypeOK
    <2>2. phase' \in [Party -> [Sid -> Phase]]
      BY <1>2 DEF ClientReceive, TypeOK, Phase
    <2>3. status' \in [Party -> {"running", "returned", "panicked"}]
      BY <1>2 DEF ClientReceive, TypeOK
    <2>. QED
      BY <1>2, <2>1, <2>2, <2>3 DEF ClientReceive, TypeOK
  <1>3. ASSUME NEW c \in Client, NEW s \in Sid, KingReceive(c, s)
        PROVE  TypeOK'
    <2>1. stage[King] \in StageNo
      BY <1>3 DEF KingReceive, Active
    <2>2. up[c][s] \in Seq(StageNo) /\ up[c][s] # <<>>
      BY <1>3 DEF KingReceive, TypeOK
    <2>3. Head(up[c][s]) \in StageNo /\ Tail(up[c][s]) \in Seq(StageNo)
      BY <2>2
    <2>4. up' \in [Client -> [Sid -> Seq(StageNo)]]
      BY <1>3, <2>3 DEF KingReceive, TypeOK
    <2>5. store' \subseteq Entry
      BY <1>3, <2>1, <2>3 DEF KingReceive, TypeOK, Entry
    <2>. QED
      BY <1>3, <2>4, <2>5 DEF KingReceive, TypeOK
  <1>4. ASSUME NEW s \in Sid, NEW k \in StageNo
        PROVE  Collected(k, s) \subseteq Entry
    BY DEF Collected, Round, TypeOK, Entry
  <1>5. ASSUME NEW s \in Sid, Collecting(s), CombineFull(s)
        PROVE  TypeOK'
    <2>1. stage[King] \in StageNo
      BY <1>5 DEF CombineFull, Collecting, Active
    <2>2. store' \subseteq Entry
      BY <1>4, <1>5, <2>1 DEF CombineFull, TypeOK
    <2>a. \/ phase' = phase /\ answerTo' = answerTo
          \/ /\ phase' = [phase EXCEPT ![King][s] = "reply"]
             /\ answerTo' = [answerTo EXCEPT ![s] = 1]
      BY <1>5 DEF CombineFull
    <2>b. [phase EXCEPT ![King][s] = "reply"] \in [Party -> [Sid -> Phase]]
      BY DEF TypeOK, Phase
    <2>c. [answerTo EXCEPT ![s] = 1] \in [Sid -> 1 .. N]
      BY DEF TypeOK
    <2>3. phase' \in [Party -> [Sid -> Phase]]
      BY <2>a, <2>b, Zenon DEF TypeOK
    <2>4. answerTo' \in [Sid -> 1 .. N]
      BY <2>a, <2>c, Zenon DEF TypeOK
    <2>5. status' \in [Party -> {"running", "returned", "panicked"}]
      BY <1>5 DEF CombineFull, TypeOK
    <2>. QED
      BY <1>5, <2>2, <2>3, <2>4, <2>5 DEF CombineFull, TypeOK
  <1>6. ASSUME NEW s \in Sid, Collecting(s), CombinePartial(s)
        PROVE  TypeOK'
    <2>1. stage[King] \in StageNo
      BY <1>6 DEF CombinePartial, Collecting, Active
    <2>2. store' \subseteq Entry
      BY <1>4, <1>6, <2>1 DEF CombinePartial, TypeOK
    <2>a. \/ phase' = phase /\ answerTo' = answerTo
          \/ /\ phase' = [phase EXCEPT ![King][s] = "reply"]
             /\ answerTo' = [answerTo EXCEPT ![s] = 1]
      BY <1>6 DEF CombinePartial
    <2>b. [phase EXCEPT ![King][s] = "reply"] \in [Party -> [Sid -> Phase]]
      BY DEF TypeOK, Phase
    <2>c. [answerTo EXCEPT ![s] = 1] \in [Sid -> 1 .. N]
      BY DEF TypeOK
    <2>3. phase' \in [Party -> [Sid -> Phase]]
      BY <2>a, <2>b, Zenon DEF TypeOK
    <2>4. answerTo' \in [Sid -> 1 .. N]
      BY <2>a, <2>c, Zenon DEF TypeOK
    <2>5. status' \in [Party -> {"running", "returned", "panicked"}]
      BY <1>6 DEF CombinePartial, TypeOK
    <2>. QED
      BY <1>6, <2>2, <2>3, <2>4, <2>5 DEF CombinePartial, TypeOK
  <1>7. ASSUME NEW s \in Sid, KingReply(s)
        PROVE  TypeOK'
    <2>1. stage[King] \in StageNo
      BY <1>7 DEF KingReply, Active
    <2>2. down' \in [Client -> [Sid -> Seq(StageNo)]]
      BY <1>7, <2>1 DEF KingReply, TypeOK
    <2>3. phase' \in [Party -> [Sid -> Phase]]
      BY <1>7 DEF KingReply, TypeOK, Phase
    <2>4. answerTo' \in [Sid -> 1 .. N]
      BY <1>7 DEF KingReply, TypeOK, Client
    <2>. QED
      BY <1>7, <2>2, <2>3, <2>4 DEF KingReply, TypeOK
  <1>8. ASSUME NEW p \in Party, Advance(p)
        PROVE  TypeOK'
    <2>1. stage' \in [Party -> 1 .. AfterLast]
      BY <1>8, StageFacts DEF Advance, TypeOK
    <2>2. phase' \in [Party -> [Sid -> Phase]]
      BY <1>8, EnterType DEF Advance, TypeOK
    <2>. QED
      BY <1>8, <2>1, <2>2 DEF Advance, TypeOK
  <1>9. ASSUME NEW p \in Party, Return(p)
        PROVE  TypeOK'
    BY <1>9 DEF Return, TypeOK
  <1>10. CASE UNCHANGED vars
    BY <1>10 DEF vars, TypeOK
  <1>. QED
    BY <1>1, <1>2, <1>3, <1>5, <1>6, <1>7, <1>8, <1>9, <1>10
       DEF Next, PartyStep, KingStep, Combine, Over

\* The variables keep the types that the rest of the proof relies on.
THEOREM TypeCorrect == Spec => []TypeOK
  BY InitTypeOK, NextTypeOK, PTL DEF Spec

LEMMA TailOfOne ==
  ASSUME NEW v
  PROVE  Tail(<<v>>) = <<>>
  OBVIOUS

-----------------------------------------------------------------------------
\* A round that the king has answered had the client's share, which the
\* client therefore had sent.
LEMMA AnsweredTaken ==
  ASSUME IInv, NEW k \in StageNo, NEW s \in Stages[k].sids,
         NEW c \in Punctual, Answered(k, s, c)
  PROVE  Combined(k, s) /\ Taken(k, s, c)
  BY DEF IInv, CombinedInv, Answered, Combined

LEMMA TakenSent ==
  ASSUME IInv, NEW k \in StageNo, NEW s \in Stages[k].sids,
         NEW c \in Punctual, Taken(k, s, c)
  PROVE  k <= stage[c] /\ (k = stage[c] => Sent(c, s))
  BY DEF IInv, StoreInv, Taken, Holders, Round

\* Before anything is sent the invariant holds.
LEMMA InitIInv == Init => IInv
  <1>. SUFFICES ASSUME Init PROVE IInv
    OBVIOUS
  <1>. USE PartyFacts
  <1>1. TypeOK
    BY InitTypeOK
  <1>2. PhaseInv
    BY DEF PhaseInv, Uses, Init, Enter
  <1>3. StreamInv
    <2>. SUFFICES ASSUME NEW c \in Punctual, NEW s \in Sid, Uses(c, s)
                  PROVE  ~ Sent(c, s) /\ ~ Answered(stage[c], s, c)
      BY DEF StreamInv, Init, Punctual
    <2>. QED
      BY DEF Uses, Sent, Answered, Init, Enter, Punctual, King
  <1>4. StoreInv
    BY DEF StoreInv, Init
  <1>5. CombinedInv
    BY StageFacts DEF CombinedInv, Combined, Init, Enter, StageNo
  <1>6. AnswerInv
    BY StageFacts DEF AnswerInv, Got, Init, Enter, StageNo, Punctual
  <1>. QED
    BY <1>1, <1>2, <1>3, <1>4, <1>5, <1>6 DEF IInv

\* A client's send puts the frame of its stage on an empty stream.
LEMMA ClientSendIInv ==
  ASSUME IInv, TypeOK', NEW c \in Client, NEW s \in Sid, ClientSend(c, s)
  PROVE  IInv'
  <1>. USE PartyFacts DEF IInv
  <1>0. /\ phase' = [phase EXCEPT ![c][s] = "await"]
        /\ up' = [up EXCEPT ![c][s] = Append(@, stage[c])]
        /\ phase[c][s] = "send"
        /\ UNCHANGED <<stage, down, store, answerTo>>
    BY DEF ClientSend
  <1>1. \A p \in Party, r \in Sid : (p # c \/ r # s) => phase'[p][r] = phase[p][r]
    BY <1>0 DEF TypeOK
  <1>2. phase'[c][s] = "await"
    BY <1>0 DEF TypeOK
  <1>a. \A r \in Sid : \A k, d :
          /\ Combined(k, r)' <=> Combined(k, r)
          /\ Taken(k, r, d)' <=> Taken(k, r, d)
          /\ Answered(k, r, d)' <=> Answered(k, r, d)
    <2>1. \A r \in Sid : phase'[King][r] = phase[King][r]
      BY <1>1
    <2>. QED
      BY <1>0, <2>1 DEF Combined, Taken, Holders, Round, Answered
  <1>b. \A d \in Client, r \in Sid :
          /\ Got(d, r)' <=> Got(d, r)
          /\ Sent(d, r)' <=> Sent(d, r) \/ (d = c /\ r = s)
    BY <1>0, <1>1, <1>2 DEF Got, Sent
  <1>3. PhaseInv'
    BY <1>0, <1>1, <1>2 DEF PhaseInv, Uses
  <1>4. StreamInv'
    <2>1. stage[c] \in StageNo /\ Uses(c, s)
      BY DEF ClientSend, Active, Uses
    <2>2. ASSUME c \in Punctual
          PROVE  up[c][s] = <<>> /\ ~ Taken(stage[c], s, c)
      BY <1>0, <2>1, <2>2, TakenSent DEF StreamInv, Sent, Uses
    <2>. SUFFICES ASSUME NEW d \in Punctual, NEW r \in Sid
                  PROVE  /\ up'[d][r] = IF Uses(d, r) /\ Sent(d, r)' /\ ~ Taken(stage[d], r, d)
                                        THEN <<stage[d]>> ELSE <<>>
                         /\ down[d][r] = IF Uses(d, r) /\ Answered(stage[d], r, d) /\ ~ Got(d, r)
                                         THEN <<stage[d]>> ELSE <<>>
      BY <1>0, <1>a, <1>b DEF StreamInv, Punctual, Uses
    <2>3. CASE d = c /\ r = s
      BY <1>0, <1>b, <2>1, <2>2, <2>3 DEF StreamInv, TypeOK, Punctual
    <2>4. CASE d # c \/ r # s
      BY <1>0, <1>b, <2>4 DEF StreamInv, TypeOK, Punctual
    <2>. QED
      BY <2>3, <2>4
  <1>5. StoreInv'
    BY <1>0, <1>b DEF StoreInv, TypeOK, Entry, Punctual
  <1>6. CombinedInv'
    BY <1>0, <1>a, StageFacts DEF CombinedInv
  <1>7. AnswerInv'
    BY <1>0, <1>a, <1>b, StageFacts DEF AnswerInv, Punctual
  <1>. QED
    BY <1>3, <1>4, <1>5, <1>6, <1>7

\* A client's receive takes the only frame of its stream, the answer of its
\* own stage.
LEMMA ClientReceiveIInv ==
  ASSUME IInv, TypeOK', NEW c \in Client, NEW s \in Sid, ClientReceive(c, s)
  PROVE  IInv'
  <1>. USE PartyFacts DEF IInv
  <1>0. /\ phase' = [phase EXCEPT ![c][s] = "done"]
        /\ down' = [down EXCEPT ![c][s] = Tail(@)]
        /\ phase[c][s] = "await"
        /\ down[c][s] # <<>>
        /\ UNCHANGED <<stage, up, store, answerTo>>
    BY DEF ClientReceive
  <1>1. \A p \in Party, r \in Sid : (p # c \/ r # s) => phase'[p][r] = phase[p][r]
    BY <1>0 DEF TypeOK
  <1>2. phase'[c][s] = "done"
    BY <1>0 DEF TypeOK
  <1>a. \A r \in Sid : \A k, d :
          /\ Combined(k, r)' <=> Combined(k, r)
          /\ Taken(k, r, d)' <=> Taken(k, r, d)
          /\ Answered(k, r, d)' <=> Answered(k, r, d)
    <2>1. \A r \in Sid : phase'[King][r] = phase[King][r]
      BY <1>1
    <2>. QED
      BY <1>0, <2>1 DEF Combined, Taken, Holders, Round, Answered
  <1>b. \A d \in Client, r \in Sid :
          /\ Got(d, r)' <=> Got(d, r) \/ (d = c /\ r = s)
          /\ Sent(d, r)' <=> Sent(d, r)
    BY <1>0, <1>1, <1>2 DEF Got, Sent
  <1>c. ASSUME c \in Punctual
        PROVE  /\ Uses(c, s)
               /\ Answered(stage[c], s, c)
               /\ down[c][s] = <<stage[c]>>
    BY <1>0, <1>c DEF StreamInv
  <1>3. PhaseInv'
    BY <1>0, <1>1, <1>2 DEF PhaseInv, Uses
  <1>4. StreamInv'
    <2>. SUFFICES ASSUME NEW d \in Punctual, NEW r \in Sid
                  PROVE  /\ up[d][r] = IF Uses(d, r) /\ Sent(d, r) /\ ~ Taken(stage[d], r, d)
                                       THEN <<stage[d]>> ELSE <<>>
                         /\ down'[d][r] = IF Uses(d, r) /\ Answered(stage[d], r, d) /\ ~ Got(d, r)'
                                          THEN <<stage[d]>> ELSE <<>>
      BY <1>0, <1>a, <1>b DEF StreamInv, Punctual, Uses
    <2>1. CASE d = c /\ r = s
      <3>1. down'[d][r] = Tail(down[c][s])
        BY <1>0, <2>1 DEF TypeOK
      <3>2. down'[d][r] = <<>>
        BY <1>c, <2>1, <3>1, TailOfOne
      <3>. QED
        BY <1>b, <2>1, <3>2 DEF StreamInv, Punctual
    <2>2. CASE d # c \/ r # s
      BY <1>0, <1>b, <2>2 DEF StreamInv, TypeOK, Punctual
    <2>. QED
      BY <2>1, <2>2
  <1>5. StoreInv'
    BY <1>0, <1>b DEF StoreInv, TypeOK, Entry, Punctual
  <1>6. CombinedInv'
    BY <1>0, <1>a, StageFacts DEF CombinedInv
  <1>7. AnswerInv'
    BY <1>0, <1>a, <1>b, <1>c, StageFacts DEF AnswerInv, Punctual
  <1>. QED
    BY <1>3, <1>4, <1>5, <1>6, <1>7

\* The king takes the share of the round he is in: a client behind him would
\* hold up the round before, a client ahead of him has been answered.
LEMMA KingReceiveAligned ==
  ASSUME IInv, NEW c \in Punctual, NEW s \in Sid, KingReceive(c, s)
  PROVE  /\ Uses(c, s) /\ Sent(c, s) /\ ~ Taken(stage[c], s, c)
         /\ up[c][s] = <<stage[c]>>
         /\ stage[c] = stage[King]
  <1>. USE PartyFacts DEF IInv
  <1>1. /\ Uses(c, s) /\ Sent(c, s) /\ ~ Taken(stage[c], s, c)
        /\ up[c][s] = <<stage[c]>>
    BY DEF KingReceive, StreamInv
  <1>2. /\ stage[King] \in StageNo /\ s \in Stages[stage[King]].sids
        /\ phase[King][s] = "collect"
    BY DEF KingReceive, Active
  <1>3. stage[c] \in StageNo /\ s \in Stages[stage[c]].sids
    BY <1>1 DEF Uses
  <1>4. ~ stage[c] < stage[King]
    BY <1>1, <1>3 DEF CombinedInv, Combined
  <1>5. ~ stage[King] < stage[c]
    BY <1>2 DEF AnswerInv, Answered, StageNo
  <1>. QED
    BY <1>1, <1>2, <1>3, <1>4, <1>5 DEF StageNo

LEMMA KingReceiveIInv ==
  ASSUME IInv, TypeOK', NEW c \in Client, NEW s \in Sid, KingReceive(c, s)
  PROVE  IInv'
  <1>. USE PartyFacts DEF IInv
  <1>. DEFINE k == stage[King]
              e == [stage |-> k, sid |-> s, from |-> c, tag |-> Head(up[c][s])]
  <1>0. /\ up' = [up EXCEPT ![c][s] = Tail(@)]
        /\ store' = store \cup {e}
        /\ UNCHANGED <<stage, phase, down, answerTo>>
        /\ k \in StageNo /\ s \in Stages[k].sids
        /\ up[c][s] # <<>>
    BY DEF KingReceive, Active
  <1>a. \A r, j, d :
          /\ Combined(j, r)' <=> Combined(j, r)
          /\ Taken(j, r, d)' <=> Taken(j, r, d) \/ (j = k /\ r = s /\ d = c)
          /\ Answered(j, r, d)' <=> Answered(j, r, d)
          /\ Got(d, r)' <=> Got(d, r)
          /\ Sent(d, r)' <=> Sent(d, r)
          /\ Uses(d, r)' <=> Uses(d, r)
    <2>1. \A r, j, d : Taken(j, r, d)' <=> Taken(j, r, d) \/ (j = k /\ r = s /\ d = c)
      <3>1. e.stage = k /\ e.sid = s /\ e.from = c
        OBVIOUS
      <3>. QED
        BY <1>0, <3>1 DEF Taken, Holders, Round
    <2>. QED
      BY <1>0, <2>1 DEF Combined, Answered, Got, Sent, Uses
  <1>b. ASSUME c \in Punctual
        PROVE  /\ Uses(c, s) /\ Sent(c, s)
               /\ up[c][s] = <<k>>
               /\ stage[c] = k
    BY <1>b, KingReceiveAligned
  <1>3. PhaseInv'
    BY <1>0 DEF PhaseInv, Uses
  <1>4. StreamInv'
    <2>. SUFFICES ASSUME NEW d \in Punctual, NEW r \in Sid
                  PROVE  up'[d][r] =
                           IF /\ Uses(d, r) /\ Sent(d, r)
                              /\ ~ (Taken(stage[d], r, d) \/ (stage[d] = k /\ r = s /\ d = c))
                           THEN <<stage[d]>> ELSE <<>>
      BY <1>0, <1>a DEF StreamInv
    <2>1. CASE d = c /\ r = s
      <3>1. up'[d][r] = Tail(up[c][s])
        BY <1>0, <2>1 DEF TypeOK
      <3>2. up'[d][r] = <<>>
        BY <1>b, <2>1, <3>1, TailOfOne
      <3>. QED
        BY <1>b, <2>1, <3>2
    <2>2. CASE d # c \/ r # s
      <3>1. up'[d][r] = up[d][r]
        BY <1>0, <2>2 DEF TypeOK, Punctual
      <3>. QED
        BY <2>2, <3>1 DEF StreamInv
    <2>. QED
      BY <2>1, <2>2
  <1>5. StoreInv'
    <2>. SUFFICES ASSUME NEW x \in store', x.from \in Punctual
                  PROVE  /\ x.tag = x.stage
                         /\ x.sid \in Stages[x.stage].sids
                         /\ x.stage <= stage[x.from]
                         /\ x.stage = stage[x.from] => Sent(x.from, x.sid)
      BY <1>0, <1>a DEF StoreInv
    <2>1. CASE x \in store
      BY <2>1 DEF StoreInv
    <2>2. CASE x = e
      BY <1>0, <1>b, <2>2 DEF StageNo
    <2>. QED
      BY <1>0, <2>1, <2>2
  <1>6. CombinedInv'
    BY <1>0, <1>a DEF CombinedInv
  <1>7. AnswerInv'
    BY <1>0, <1>a DEF AnswerInv
  <1>. QED
    BY <1>3, <1>4, <1>5, <1>6, <1>7

\* What the two outcomes of a collection have in common: the entries of the
\* punctual clients stay, and the round is combined only if it has them all.
LEMMA CombineIInv ==
  ASSUME IInv, TypeOK', NEW s \in Sid,
         UNCHANGED <<stage, up, down>>,
         stage[King] \in StageNo, s \in Stages[stage[King]].sids,
         phase[King][s] = "collect",
         \/ UNCHANGED <<phase, answerTo>>
         \/ /\ phase' = [phase EXCEPT ![King][s] = "reply"]
            /\ answerTo' = [answerTo EXCEPT ![s] = 1],
         \A c \in Punctual : Taken(stage[King], s, c),
         \A x : x.from \in Punctual => (x \in store' <=> x \in store)
  PROVE  IInv'
  <1>. USE PartyFacts DEF IInv
  <1>1. \A p \in Party, r \in Sid :
          \/ phase'[p][r] = phase[p][r]
          \/ p = King /\ r = s /\ phase'[p][r] = "reply" /\ answerTo'[r] = 1
    BY DEF TypeOK
  <1>2. \A r \in Sid : r # s => answerTo'[r] = answerTo[r]
    BY DEF TypeOK
  <1>3. \A r \in Sid : phase'[King][r] = phase[King][r] => answerTo'[r] = answerTo[r]
    BY DEF TypeOK
  <1>a. \A r \in Sid : \A j : Combined(j, r)' =>
          Combined(j, r) \/ (j = stage[King] /\ r = s)
    BY <1>1 DEF Combined
  <1>b. \A j, r : \A d \in Punctual : Taken(j, r, d)' <=> Taken(j, r, d)
    BY DEF Taken, Holders, Round
  <1>c. \A j : \A r \in Sid, d \in Client : Answered(j, r, d)' <=> Answered(j, r, d)
    <2>1. ASSUME NEW r \in Sid, NEW d \in Client
          PROVE  /\ phase'[King][r] = "done" <=> phase[King][r] = "done"
                 /\ phase'[King][r] = "reply" /\ d < answerTo'[r]
                      <=> phase[King][r] = "reply" /\ d < answerTo[r]
      BY <1>1, <1>3 DEF Client
    <2>. QED
      BY <2>1 DEF Answered
  <1>d. \A r \in Sid, d \in Client :
          /\ Got(d, r)' <=> Got(d, r)
          /\ Sent(d, r)' <=> Sent(d, r)
          /\ Uses(d, r)' <=> Uses(d, r)
    BY <1>1 DEF Got, Sent, Uses
  <1>4. PhaseInv'
    BY <1>1 DEF PhaseInv, Uses
  <1>5. StreamInv'
    <2>. SUFFICES ASSUME NEW d \in Punctual, NEW r \in Sid
                  PROVE  /\ up[d][r] = IF Uses(d, r) /\ Sent(d, r) /\ ~ Taken(stage[d], r, d)
                                       THEN <<stage[d]>> ELSE <<>>
                         /\ down[d][r] = IF Uses(d, r) /\ Answered(stage[d], r, d) /\ ~ Got(d, r)
                                         THEN <<stage[d]>> ELSE <<>>
      BY <1>b, <1>c, <1>d DEF StreamInv, Punctual
    <2>. QED
      BY DEF StreamInv
  <1>6. StoreInv'
    <2>. SUFFICES ASSUME NEW x \in store', x.from \in Punctual
                  PROVE  /\ x.tag = x.stage
                         /\ x.sid \in Stages[x.stage].sids
                         /\ x.stage <= stage[x.from]
                         /\ x.stage = stage[x.from] => Sent(x.from, x.sid)'
      BY DEF StoreInv
    <2>1. x \in store /\ x.sid \in Sid
      BY DEF TypeOK, Entry
    <2>. QED
      BY <1>d, <2>1 DEF StoreInv, Punctual
  <1>7. CombinedInv'
    BY <1>a, <1>b, StageFacts DEF CombinedInv
  <1>8. AnswerInv'
    BY <1>c, <1>d, StageFacts DEF AnswerInv, Punctual
  <1>. QED
    BY <1>4, <1>5, <1>6, <1>7, <1>8

LEMMA CombineFullIInv ==
  ASSUME IInv, TypeOK', NEW s \in Sid, Collecting(s), CombineFull(s)
  PROVE  IInv'
  <1>. DEFINE k == stage[King]
  <1>1. /\ k \in StageNo /\ s \in Stages[k].sids
        /\ phase[King][s] = "collect"
        /\ Client \subseteq Holders(k, s)
        /\ store' = store \cup Collected(k, s)
        /\ UNCHANGED <<stage, up, down>>
    BY DEF CombineFull, Collecting, Active
  <1>2. \/ UNCHANGED <<phase, answerTo>>
        \/ /\ phase' = [phase EXCEPT ![King][s] = "reply"]
           /\ answerTo' = [answerTo EXCEPT ![s] = 1]
    BY DEF CombineFull
  <1>3. \A c \in Punctual : Taken(k, s, c)
    BY <1>1 DEF Taken, Punctual
  <1>4. \A x : x.from \in Punctual => (x \in store' <=> x \in store)
    BY <1>1, PartyFacts DEF Collected, Round, Punctual
  <1>. QED
    BY <1>1, <1>2, <1>3, <1>4, CombineIInv

LEMMA CombinePartialIInv ==
  ASSUME IInv, TypeOK', NEW s \in Sid, Collecting(s), CombinePartial(s)
  PROVE  IInv'
  <1>. DEFINE k == stage[King]
  <1>1. /\ k \in StageNo /\ s \in Stages[k].sids
        /\ phase[King][s] = "collect"
        /\ Client \ Holders(k, s) \subseteq Slow
        /\ UNCHANGED <<stage, up, down>>
    BY DEF CombinePartial, TimeoutFires, Collecting, Active
  <1>2. \/ UNCHANGED <<phase, answerTo>>
        \/ /\ phase' = [phase EXCEPT ![King][s] = "reply"]
           /\ answerTo' = [answerTo EXCEPT ![s] = 1]
    BY DEF CombinePartial
  <1>3. \A c \in Punctual : Taken(k, s, c)
    BY <1>1 DEF Taken, Punctual
  <1>4. PICK kept \in SUBSET Collected(k, s) :
          /\ \A x \in Collected(k, s) : MustDecode(x.tag, k) => x \in kept
          /\ store' = (store \ Round(k, s)) \cup kept
    BY DEF CombinePartial
  <1>5. ASSUME NEW x, x.from \in Punctual
        PROVE  x \in store' <=> x \in store
    <2>1. ASSUME x \in Round(k, s) PROVE x \in kept
      <3>1. x.tag = k
        BY <1>5, <2>1 DEF IInv, StoreInv, Round
      <3>2. x \in Collected(k, s)
        BY <2>1 DEF Collected
      <3>. QED
        BY <1>4, <3>1, <3>2 DEF MustDecode
    <2>2. ASSUME x \in kept PROVE x \in store
      BY <1>4, <1>5, <2>2, PartyFacts DEF Collected, Round, Punctual
    <2>. QED
      BY <1>4, <2>1, <2>2 DEF Round
  <1>. QED
    BY <1>1, <1>2, <1>3, <1>5, CombineIInv

\* The king answers a punctual client while it waits in the same stage.
LEMMA KingReplyIInv ==
  ASSUME IInv, TypeOK', NEW s \in Sid, KingReply(s)
  PROVE  IInv'
  <1>. USE PartyFacts DEF IInv
  <1>. DEFINE k == stage[King]
              c == answerTo[s]
  <1>0. /\ k \in StageNo /\ s \in Stages[k].sids
        /\ phase[King][s] = "reply"
        /\ c \in Client
        /\ down' = [down EXCEPT ![c][s] = Append(@, k)]
        /\ answerTo' = [answerTo EXCEPT ![s] = c + 1]
        /\ phase' = [phase EXCEPT ![King][s] = IF c = N-1 THEN "done" ELSE @]
        /\ UNCHANGED <<stage, up, store>>
    BY DEF KingReply, Active
  <1>1. \A p \in Party, r \in Sid :
          (p # King \/ r # s) => phase'[p][r] = phase[p][r]
    BY <1>0 DEF TypeOK
  <1>2. /\ phase'[King][s] = IF c = N-1 THEN "done" ELSE "reply"
        /\ answerTo'[s] = c + 1
    BY <1>0 DEF TypeOK
  <1>3. \A r \in Sid : r # s => answerTo'[r] = answerTo[r]
    BY <1>0 DEF TypeOK
  <1>a. \A r \in Sid : \A j : Combined(j, r)' <=> Combined(j, r)
    BY <1>0, <1>1, <1>2 DEF Combined
  <1>b. \A j, r, d : Taken(j, r, d)' <=> Taken(j, r, d)
    BY <1>0 DEF Taken, Holders, Round
  <1>c. \A j : \A r \in Sid, d \in Client :
          Answered(j, r, d)' <=> Answered(j, r, d) \/ (j = k /\ r = s /\ d = c)
    <2>. TAKE j
    <2>. TAKE r \in Sid, d \in Client
    <2>1. CASE r = s
      BY <1>0, <1>2, <2>1 DEF Answered, Client
    <2>2. CASE r # s
      BY <1>0, <1>1, <1>3, <2>2 DEF Answered
    <2>. QED
      BY <2>1, <2>2
  <1>d. \A r \in Sid, d \in Client :
          /\ Got(d, r)' <=> Got(d, r)
          /\ Sent(d, r)' <=> Sent(d, r)
          /\ Uses(d, r)' <=> Uses(d, r)
    BY <1>0, <1>1 DEF Got, Sent, Uses
  <1>e. ASSUME c \in Punctual
        PROVE  /\ stage[c] = k /\ Uses(c, s)
               /\ ~ Got(c, s) /\ down[c][s] = <<>>
    <2>1. Combined(k, s) /\ ~ Answered(k, s, c)
      BY <1>0 DEF Combined, Answered, StageNo, Client
    <2>2. k <= stage[c]
      BY <1>0, <1>e, <2>1, TakenSent DEF CombinedInv
    <2>3. ~ k < stage[c] /\ (k = stage[c] => ~ Got(c, s))
      BY <1>0, <1>e, <2>1 DEF AnswerInv
    <2>4. stage[c] = k
      BY <2>2, <2>3, <1>0 DEF TypeOK, StageNo
    <2>. QED
      BY <1>0, <1>e, <2>1, <2>3, <2>4 DEF StreamInv, Uses
  <1>4. PhaseInv'
    BY <1>0, <1>1, <1>2 DEF PhaseInv, Uses
  <1>5. StreamInv'
    <2>. SUFFICES ASSUME NEW d \in Punctual, NEW r \in Sid
                  PROVE  down'[d][r] =
                           IF /\ Uses(d, r) /\ ~ Got(d, r)
                              /\ Answered(stage[d], r, d) \/ (stage[d] = k /\ r = s /\ d = c)
                           THEN <<stage[d]>> ELSE <<>>
      BY <1>0, <1>b, <1>c, <1>d DEF StreamInv, Punctual
    <2>1. CASE d = c /\ r = s
      <3>1. down'[d][r] = Append(down[c][s], k)
        BY <1>0, <2>1 DEF TypeOK
      <3>. QED
        BY <1>e, <2>1, <3>1
    <2>2. CASE d # c \/ r # s
      <3>1. down'[d][r] = down[d][r]
        BY <1>0, <2>2 DEF TypeOK, Punctual
      <3>. QED
        BY <2>2, <3>1 DEF StreamInv
    <2>. QED
      BY <2>1, <2>2
  <1>6. StoreInv'
    <2>1. \A x \in store : x.sid \in Sid
      BY DEF TypeOK, Entry
    <2>. QED
      BY <1>0, <1>d, <2>1 DEF StoreInv, Punctual
  <1>7. CombinedInv'
    BY <1>a, <1>b, StageFacts DEF CombinedInv
  <1>8. AnswerInv'
    BY <1>0, <1>c, <1>d, StageFacts DEF AnswerInv, Punctual
  <1>. QED
    BY <1>4, <1>5, <1>6, <1>7, <1>8

\* A client that goes on has been answered on every stream of its stage, so
\* its streams are empty and the king waits for its next share.
LEMMA ClientAdvanceIInv ==
  ASSUME IInv, TypeOK', NEW c \in Client, Advance(c)
  PROVE  IInv'
  <1>. USE PartyFacts DEF IInv
  <1>. DEFINE m == stage[c]
  <1>0. /\ m \in StageNo
        /\ \A s \in Stages[m].sids : phase[c][s] = "done"
        /\ stage' = [stage EXCEPT ![c] = m + 1]
        /\ phase' = [phase EXCEPT ![c] = Enter(c, m + 1)]
        /\ UNCHANGED <<up, down, store, answerTo>>
    BY DEF Advance
  <1>1. \A p \in Party : p # c => stage'[p] = stage[p] /\ phase'[p] = phase[p]
    BY <1>0 DEF TypeOK
  <1>2. stage'[c] = m + 1 /\ phase'[c] = Enter(c, m + 1)
    BY <1>0 DEF TypeOK
  <1>3. \A s \in Sid : Uses(c, s)' => phase'[c][s] = "send"
    BY <1>2 DEF Uses, Enter
  <1>a. \A r, j, d :
          /\ Combined(j, r)' <=> Combined(j, r)
          /\ Taken(j, r, d)' <=> Taken(j, r, d)
          /\ Answered(j, r, d)' <=> Answered(j, r, d)
    BY <1>0, <1>1 DEF Combined, Taken, Holders, Round, Answered
  <1>b. \A s \in Sid, d \in Client : d # c =>
          /\ Got(d, s)' <=> Got(d, s)
          /\ Sent(d, s)' <=> Sent(d, s)
          /\ Uses(d, s)' <=> Uses(d, s)
    BY <1>1 DEF Got, Sent, Uses
  <1>4. PhaseInv'
    <2>. SUFFICES ASSUME NEW p \in Party, NEW s \in Sid, Uses(p, s)'
                  PROVE  phase'[p][s] \in IF p = King THEN {"collect", "reply", "done"}
                                                     ELSE {"send", "await", "done"}
      BY DEF PhaseInv
    <2>1. CASE p = c
      BY <1>3, <2>1
    <2>2. CASE p # c
      BY <1>1, <2>2 DEF PhaseInv, Uses
    <2>. QED
      BY <2>1, <2>2
  <1>5. StreamInv'
    <2>. SUFFICES ASSUME NEW d \in Punctual, NEW s \in Sid
                  PROVE  /\ up[d][s] = IF Uses(d, s)' /\ Sent(d, s)' /\ ~ Taken(stage'[d], s, d)
                                       THEN <<stage'[d]>> ELSE <<>>
                         /\ down[d][s] = IF Uses(d, s)' /\ Answered(stage'[d], s, d) /\ ~ Got(d, s)'
                                         THEN <<stage'[d]>> ELSE <<>>
      BY <1>0, <1>a DEF StreamInv
    <2>1. CASE d # c
      BY <1>1, <1>b, <2>1 DEF StreamInv, Punctual
    <2>2. CASE d = c
      <3>1. up[d][s] = <<>> /\ down[d][s] = <<>>
        <4>1. CASE s \in Stages[m].sids
          <5>1. Got(c, s) /\ Answered(m, s, c)
            BY <1>0, <2>2, <4>1 DEF Got, AnswerInv
          <5>2. Taken(m, s, c)
            BY <1>0, <2>2, <4>1, <5>1, AnsweredTaken
          <5>. QED
            BY <2>2, <5>1, <5>2 DEF StreamInv
        <4>2. CASE s \notin Stages[m].sids
          BY <2>2, <4>2 DEF StreamInv, Uses
        <4>. QED
          BY <4>1, <4>2
      <3>2. ASSUME Uses(c, s)' PROVE ~ Answered(m + 1, s, c)
        <4>1. m + 1 \in StageNo /\ s \in Stages[m + 1].sids
          BY <1>2, <3>2 DEF Uses
        <4>2. ASSUME Answered(m + 1, s, c) PROVE FALSE
          BY <1>0, <2>2, <4>1, <4>2, AnsweredTaken, TakenSent DEF StageNo
        <4>. QED
          BY <4>2
      <3>. QED
        BY <1>2, <1>3, <2>2, <3>1, <3>2 DEF Sent
    <2>. QED
      BY <2>1, <2>2
  <1>6. StoreInv'
    <2>. SUFFICES ASSUME NEW x \in store, x.from \in Punctual
                  PROVE  /\ x.tag = x.stage
                         /\ x.sid \in Stages[x.stage].sids
                         /\ x.stage <= stage'[x.from]
                         /\ x.stage = stage'[x.from] => Sent(x.from, x.sid)'
      BY <1>0 DEF StoreInv
    <2>1. x.sid \in Sid /\ x.stage \in StageNo
      BY DEF TypeOK, Entry
    <2>2. CASE x.from = c
      BY <1>0, <1>2, <2>1, <2>2 DEF StoreInv, StageNo
    <2>3. CASE x.from # c
      BY <1>1, <1>b, <2>1, <2>3 DEF StoreInv, Punctual
    <2>. QED
      BY <2>2, <2>3
  <1>7. CombinedInv'
    BY <1>a DEF CombinedInv
  <1>8. AnswerInv'
    <2>. SUFFICES ASSUME NEW k \in StageNo, NEW s \in Stages[k].sids, NEW d \in Punctual,
                         k < stage'[d] \/ (k = stage'[d] /\ Got(d, s)')
                  PROVE  Answered(k, s, d)
      BY <1>a DEF AnswerInv
    <2>0. s \in Sid
      BY StageFacts
    <2>1. CASE d # c
      BY <1>1, <1>b, <2>0, <2>1 DEF AnswerInv, Punctual
    <2>2. CASE d = c
      <3>1. ~ (k = stage'[d] /\ Got(d, s)')
        BY <1>2, <1>3, <2>0, <2>2 DEF Got, Uses
      <3>2. k < m \/ k = m
        BY <1>0, <1>2, <2>2, <3>1 DEF StageNo
      <3>. QED
        BY <1>0, <2>2, <3>2 DEF AnswerInv, Got
    <2>. QED
      BY <2>1, <2>2
  <1>. QED
    BY <1>4, <1>5, <1>6, <1>7, <1>8

\* The king goes on when all the rounds of his stage are answered.
LEMMA KingAdvanceIInv ==
  ASSUME IInv, TypeOK', Advance(King)
  PROVE  IInv'
  <1>. USE PartyFacts DEF IInv
  <1>. DEFINE k == stage[King]
  <1>0. /\ k \in StageNo
        /\ \A s \in Stages[k].sids : phase[King][s] = "done"
        /\ stage' = [stage EXCEPT ![King] = k + 1]
        /\ phase' = [phase EXCEPT ![King] = Enter(King, k + 1)]
        /\ UNCHANGED <<up, down, store, answerTo>>
    BY DEF Advance
  <1>1. \A p \in Client : stage'[p] = stage[p] /\ phase'[p] = phase[p]
    BY <1>0 DEF TypeOK
  <1>2. stage'[King] = k + 1 /\ phase'[King] = Enter(King, k + 1)
    BY <1>0 DEF TypeOK
  <1>a. \A j \in StageNo : \A s \in Stages[j].sids : \A d :
          /\ Combined(j, s)' <=> Combined(j, s)
          /\ Taken(j, s, d)' <=> Taken(j, s, d)
          /\ Answered(j, s, d)' <=> Answered(j, s, d)
    <2>. TAKE j \in StageNo
    <2>. TAKE s \in Stages[j].sids
    <2>. TAKE d
    <2>0. s \in Sid
      BY StageFacts
    <2>1. j = k + 1 => phase'[King][s] = "collect"
      BY <1>2, <2>0 DEF Enter
    <2>2. j < k + 1 <=> (j < k \/ j = k)
      BY <1>0 DEF StageNo
    <2>. QED
      BY <1>0, <1>2, <2>1, <2>2
         DEF Combined, Taken, Holders, Round, Answered, StageNo
  <1>b. \A s \in Sid, d \in Client :
          /\ Got(d, s)' <=> Got(d, s)
          /\ Sent(d, s)' <=> Sent(d, s)
          /\ Uses(d, s)' <=> Uses(d, s)
    BY <1>1 DEF Got, Sent, Uses
  <1>4. PhaseInv'
    <2>. SUFFICES ASSUME NEW p \in Party, NEW s \in Sid, Uses(p, s)'
                  PROVE  phase'[p][s] \in IF p = King THEN {"collect", "reply", "done"}
                                                     ELSE {"send", "await", "done"}
      BY DEF PhaseInv
    <2>1. CASE p = King
      BY <1>2, <2>1 DEF Enter, Uses
    <2>2. CASE p # King
      BY <1>1, <2>2 DEF PhaseInv, Uses
    <2>. QED
      BY <2>1, <2>2
  <1>5. StreamInv'
    <2>. SUFFICES ASSUME NEW d \in Punctual, NEW s \in Sid
                  PROVE  /\ up[d][s] = IF Uses(d, s) /\ Sent(d, s) /\ ~ Taken(stage[d], s, d)
                                       THEN <<stage[d]>> ELSE <<>>
                         /\ down[d][s] = IF Uses(d, s) /\ Answered(stage[d], s, d) /\ ~ Got(d, s)
                                         THEN <<stage[d]>> ELSE <<>>
      BY <1>0, <1>1, <1>a, <1>b DEF StreamInv, Punctual, Uses
    <2>. QED
      BY DEF StreamInv
  <1>6. StoreInv'
    <2>1. \A x \in store : x.sid \in Sid
      BY DEF TypeOK, Entry
    <2>. QED
      BY <1>0, <1>1, <1>b, <2>1 DEF StoreInv, Punctual
  <1>7. CombinedInv'
    BY <1>a DEF CombinedInv
  <1>8. AnswerInv'
    BY <1>1, <1>a, <1>b, StageFacts DEF AnswerInv, Punctual
  <1>. QED
    BY <1>4, <1>5, <1>6, <1>7, <1>8

\* What only ends a party's task, or nothing, keeps the invariant.
LEMMA IdleIInv ==
  ASSUME IInv, TypeOK', UNCHANGED <<stage, phase, up, down, store, answerTo>>
  PROVE  IInv'
  BY DEF IInv, PhaseInv, StreamInv, StoreInv, CombinedInv, AnswerInv,
         Uses, Sent, Got, Taken, Holders, Round, Answered, Combined

LEMMA NextIInv == IInv /\ [Next]_vars => IInv'
  <1>. SUFFICES ASSUME IInv, [Next]_vars PROVE IInv'
    OBVIOUS
  <1>0. TypeOK'
    BY NextTypeOK DEF IInv
  <1>1. ASSUME NEW p \in Party, PartyStep(p) PROVE IInv'
    <2>1. CASE \E s \in Sid : p \in Client /\ ClientSend(p, s)
      BY <1>0, <2>1, ClientSendIInv
    <2>2. CASE \E s \in Sid : p \in Client /\ ClientReceive(p, s)
      BY <1>0, <2>2, ClientReceiveIInv
    <2>3. CASE Advance(p)
      BY <1>0, <2>3, ClientAdvanceIInv, KingAdvanceIInv, PartyFacts
    <2>4. CASE Return(p)
      BY <1>0, <2>4, IdleIInv DEF Return
    <2>. QED
      BY <1>1, <2>1, <2>2, <2>3, <2>4 DEF PartyStep
  <1>2. ASSUME NEW s \in Sid, KingStep(s) PROVE IInv'
    BY <1>0, <1>2, KingReceiveIInv, CombineFullIInv, CombinePartialIInv,
       KingReplyIInv DEF KingStep, Combine
  <1>3. CASE UNCHANGED vars
    BY <1>0, <1>3, IdleIInv DEF vars
  <1>. QED
    BY <1>1, <1>2, <1>3 DEF Next, Over

\* The streams of every punctual client stay in lock step with the king.
THEOREM LockStep == Spec => []IInv
  BY InitIInv, NextIInv, PTL DEF Spec

\* Whatever other parties are late and however many rounds run at once, the
\* king combines a punctual party's share only in the round it was made for.
THEOREM SharesAligned == Spec => []ShareAlignment
  <1>1. IInv => ShareAlignment
    BY DEF IInv, StoreInv, ShareAlignment, Punctual
  <1>. QED
    BY <1>1, LockStep, PTL

\* At most one frame of a punctual party is in flight on each stream.
THEOREM StreamsBounded == Spec => []BoundedStreams
  <1>1. ASSUME IInv PROVE BoundedStreams
    <2>. SUFFICES ASSUME NEW c \in Punctual, NEW s \in Sid
                  PROVE  Len(up[c][s]) + Len(down[c][s]) <= 1
      BY DEF BoundedStreams, Punctual
    <2>1. up[c][s] = <<>> \/ down[c][s] = <<>>
      BY <1>1, AnsweredTaken DEF IInv, StreamInv, Uses
    <2>2. up[c][s] = <<>> \/ up[c][s] = <<stage[c]>>
      BY <1>1 DEF IInv, StreamInv
    <2>3. down[c][s] = <<>> \/ down[c][s] = <<stage[c]>>
      BY <1>1 DEF IInv, StreamInv
    <2>4. Len(up[c][s]) + Len(down[c][s]) <= 1
      <3>. DEFINE a == up[c][s]
                  b == down[c][s]
      <3>1. a = <<>> \/ b = <<>>
        BY <2>1
      <3>2. a = <<>> \/ a = <<stage[c]>>
        BY <2>2
      <3>3. b = <<>> \/ b = <<stage[c]>>
        BY <2>3
      <3>. HIDE DEF a, b
      <3>4. Len(a) + Len(b) <= 1
        <4>1. CASE a = <<>> /\ b = <<>>
          BY <4>1
        <4>2. CASE a = <<>> /\ b = <<stage[c]>>
          BY <4>2
        <4>3. CASE a = <<stage[c]>> /\ b = <<>>
          BY <4>3
        <4>. QED
          BY <3>1, <3>2, <3>3, <4>1, <4>2, <4>3
      <3>. QED
        BY <3>4 DEF a, b
    <2>. QED
      BY <2>4
  <1>. QED
    BY <1>1, LockStep, PTL

=============================================================================
