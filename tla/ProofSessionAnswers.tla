------------------------ MODULE ProofSessionAnswers ------------------------
(***************************************************************************)
(* What holds of the answers of every proof session, for every client,     *)
(* also one that the king's timeout left behind; what the timeout does to  *)
(* a client that it left behind; and what the rounds of a session amount   *)
(* to when it leaves nobody behind.                                        *)
(***************************************************************************)
EXTENDS ProofSessionProofs

\* The first answer in the stream of a client that waits is the one of its
\* own stage: a later round is answered only after that one.
LEMMA HeadIsStage ==
  ASSUME TypeOK, AInv, NEW c \in Client, NEW s \in Sid,
         Uses(c, s), ~ Got(c, s), down[c][s] # <<>>
  PROVE  /\ Head(down[c][s]) = stage[c]
         /\ Answered(stage[c], s, c)
  <1>. USE PartyFacts
  <1>. DEFINE q == down[c][s]
              m == stage[c]
  <1>1. q \in Seq(StageNo) /\ q # <<>>
    BY DEF TypeOK
  <1>2. Len(q) \in Nat /\ 1 \in 1 .. Len(q) /\ Head(q) = q[1]
    BY <1>1
  <1>3. /\ q[1] \in Pending(c, s)
        /\ \A k \in Pending(c, s) : \E i \in 1 .. Len(q) : q[i] = k
        /\ \A i, j \in 1 .. Len(q) : i < j => q[i] < q[j]
    BY <1>2 DEF AInv, PendingInv
  <1>4. m \in StageNo /\ s \in Stages[m].sids
    BY DEF Uses
  <1>5. q[1] \in StageNo /\ Answered(q[1], s, c) /\ m <= q[1]
    BY <1>3, <1>4 DEF Pending, StageNo
  <1>6. Answered(m, s, c)
    <2>1. CASE m = q[1]
      BY <1>5, <2>1
    <2>2. CASE m < q[1]
      <3>1. stage[King] \in 1 .. AfterLast
        BY DEF TypeOK
      <3>2. m < stage[King]
        BY <1>4, <1>5, <2>2, <3>1, StageFacts DEF Answered, StageNo, AfterLast
      <3>. QED
        BY <3>2 DEF Answered
    <2>. QED
      BY <1>4, <1>5, <2>1, <2>2 DEF StageNo
  <1>7. m \in Pending(c, s)
    BY <1>4, <1>6 DEF Pending
  <1>8. PICK i \in 1 .. Len(q) : q[i] = m
    BY <1>3, <1>7
  <1>9. i = 1
    <2>1. ~ 1 < i
      BY <1>2, <1>3, <1>4, <1>5, <1>8 DEF StageNo
    <2>. QED
      BY <1>2, <1>8, <2>1
  <1>. QED
    BY <1>2, <1>6, <1>8, <1>9

\* Before anything is sent there are no answers.
LEMMA InitAInv == Init => AInv
  <1>. SUFFICES ASSUME Init PROVE AInv
    OBVIOUS
  <1>. USE PartyFacts
  <1>1. \A c \in Client, s \in Sid : \A k \in StageNo :
          s \in Stages[k].sids => ~ Answered(k, s, c)
    BY StageFacts DEF Init, Enter, Answered, StageNo
  <1>2. PendingInv
    <2>1. \A c \in Client, s \in Sid : down[c][s] = <<>> /\ Pending(c, s) = {}
      BY <1>1 DEF Init, Pending
    <2>. QED
      BY <2>1 DEF PendingInv
  <1>3. AnsweredInv
    BY StageFacts DEF AnsweredInv, Init, Got, Enter, StageNo
  <1>. QED
    BY <1>2, <1>3 DEF AInv, PanicInv, ReturnInv, Init

\* The invariant speaks of the rounds that were answered, of what the clients
\* have read, and of where everybody is.
LEMMA SameAInv ==
  ASSUME AInv, PanicInv', ReturnInv', UNCHANGED <<stage, down>>,
         \A c \in Client, s \in Sid : Got(c, s)' <=> Got(c, s),
         \A k \in StageNo : \A s \in Stages[k].sids, c \in Client :
           Answered(k, s, c)' <=> Answered(k, s, c)
  PROVE  AInv'
  <1>1. \A c \in Client, s \in Sid : Pending(c, s)' = Pending(c, s)
    BY DEF Pending
  <1>2. PendingInv'
    <2>. SUFFICES ASSUME NEW c \in Client, NEW s \in Sid
                  PROVE  /\ \A i \in 1 .. Len(down'[c][s]) : down'[c][s][i] \in Pending(c, s)'
                         /\ \A k \in Pending(c, s)' : \E i \in 1 .. Len(down'[c][s]) : down'[c][s][i] = k
                         /\ \A i, j \in 1 .. Len(down'[c][s]) : i < j => down'[c][s][i] < down'[c][s][j]
      BY DEF PendingInv
    <2>1. Pending(c, s)' = Pending(c, s) /\ down' = down
      BY <1>1
    <2>2. /\ \A i \in 1 .. Len(down[c][s]) : down[c][s][i] \in Pending(c, s)
          /\ \A k \in Pending(c, s) : \E i \in 1 .. Len(down[c][s]) : down[c][s][i] = k
          /\ \A i, j \in 1 .. Len(down[c][s]) : i < j => down[c][s][i] < down[c][s][j]
      BY DEF AInv, PendingInv
    <2>. QED
      BY <2>1, <2>2
  <1>3. AnsweredInv'
    BY StageFacts DEF AInv, AnsweredInv
  <1>. QED
    BY <1>2, <1>3 DEF AInv

\* A client's send disturbs nothing of it.
LEMMA ClientSendAInv ==
  ASSUME TypeOK, AInv, NEW c \in Client, NEW s \in Sid, ClientSend(c, s)
  PROVE  AInv'
  <1>. USE PartyFacts
  <1>0. /\ phase' = [phase EXCEPT ![c][s] = "await"]
        /\ phase[c][s] = "send"
        /\ UNCHANGED <<stage, down, answerTo, status>>
    BY DEF ClientSend
  <1>1. \A r \in Sid : phase'[King][r] = phase[King][r]
    BY <1>0 DEF TypeOK
  <1>2. \A d \in Client, r \in Sid : Got(d, r)' <=> Got(d, r)
    BY <1>0 DEF TypeOK, Got
  <1>3. \A k \in StageNo : \A r \in Stages[k].sids, d \in Client :
          Answered(k, r, d)' <=> Answered(k, r, d)
    BY <1>0, <1>1, StageFacts DEF Answered
  <1>4. PanicInv' /\ ReturnInv'
    BY <1>0, <1>1, StageFacts DEF AInv, PanicInv, ReturnInv
  <1>. QED
    BY <1>0, <1>2, <1>3, <1>4, SameAInv

\* A client's receive takes the answer of its own stage.
LEMMA ClientReceiveAInv ==
  ASSUME TypeOK, AInv, NEW c \in Client, NEW s \in Sid, ClientReceive(c, s)
  PROVE  AInv'
  <1>. USE PartyFacts
  <1>. DEFINE m == stage[c]
              q == down[c][s]
  <1>0. /\ phase' = [phase EXCEPT ![c][s] = "done"]
        /\ down' = [down EXCEPT ![c][s] = Tail(@)]
        /\ phase[c][s] = "await"
        /\ q # <<>>
        /\ UNCHANGED <<stage, answerTo>>
        /\ status'[King] = status[King]
        /\ \A p \in Party : status'[p] = "returned" => status[p] = "returned"
    BY DEF ClientReceive, TypeOK
  <1>1. \A r \in Sid : phase'[King][r] = phase[King][r]
    BY <1>0 DEF TypeOK
  <1>2. \A d \in Client, r \in Sid : Got(d, r)' <=> Got(d, r) \/ (d = c /\ r = s)
    BY <1>0 DEF TypeOK, Got
  <1>3. \A k, r, d : r \in Sid => (Answered(k, r, d)' <=> Answered(k, r, d))
    BY <1>0, <1>1 DEF Answered
  <1>4. Uses(c, s) /\ ~ Got(c, s)
    BY <1>0 DEF ClientReceive, Active, Uses, Got
  <1>5. Head(q) = m /\ Answered(m, s, c)
    BY <1>0, <1>4, HeadIsStage
  <1>6. m \in StageNo /\ s \in Stages[m].sids
    BY <1>4 DEF Uses
  <1>7. PendingInv'
    <2>. SUFFICES ASSUME NEW d \in Client, NEW r \in Sid
                  PROVE  /\ \A i \in 1 .. Len(down'[d][r]) : down'[d][r][i] \in Pending(d, r)'
                         /\ \A k \in Pending(d, r)' : \E i \in 1 .. Len(down'[d][r]) : down'[d][r][i] = k
                         /\ \A i, j \in 1 .. Len(down'[d][r]) : i < j => down'[d][r][i] < down'[d][r][j]
      BY DEF PendingInv
    <2>1. CASE d # c \/ r # s
      <3>1. down'[d][r] = down[d][r]
        BY <1>0, <2>1 DEF TypeOK
      <3>2. Pending(d, r)' = Pending(d, r)
        BY <1>0, <1>2, <1>3, <2>1 DEF Pending
      <3>. QED
        BY <3>1, <3>2 DEF AInv, PendingInv
    <2>2. CASE d = c /\ r = s
      <3>1. q \in Seq(StageNo)
        BY DEF TypeOK
      <3>2. down'[d][r] = Tail(q)
        BY <1>0, <2>2 DEF TypeOK
      <3>3. /\ Len(q) \in Nat /\ Len(q) >= 1
            /\ Len(Tail(q)) = Len(q) - 1
            /\ \A i \in 1 .. Len(Tail(q)) : Tail(q)[i] = q[i + 1] /\ i + 1 \in 1 .. Len(q)
            /\ q[1] = m
        BY <1>0, <1>5, <3>1
      <3>4. /\ \A i \in 1 .. Len(q) : q[i] \in Pending(c, s)
            /\ \A k \in Pending(c, s) : \E i \in 1 .. Len(q) : q[i] = k
            /\ \A i, j \in 1 .. Len(q) : i < j => q[i] < q[j]
        BY DEF AInv, PendingInv
      <3>5. \A k : k \in Pending(c, s)' <=> k \in Pending(c, s) /\ k # m
        BY <1>0, <1>2, <1>3, <1>6 DEF Pending, StageNo
      <3>6. \A i \in 1 .. Len(Tail(q)) : Tail(q)[i] \in Pending(c, s)'
        <4>. TAKE i \in 1 .. Len(Tail(q))
        <4>1. q[1] < q[i + 1] /\ q[i + 1] \in Pending(c, s)
          BY <3>3, <3>4
        <4>. QED
          BY <1>6, <3>3, <3>5, <4>1 DEF StageNo
      <3>7. \A k \in Pending(c, s)' : \E i \in 1 .. Len(Tail(q)) : Tail(q)[i] = k
        <4>. TAKE k \in Pending(c, s)'
        <4>1. PICK i \in 1 .. Len(q) : q[i] = k
          BY <3>4, <3>5
        <4>2. i # 1 /\ i - 1 \in 1 .. Len(Tail(q)) /\ (i - 1) + 1 = i
          BY <3>3, <3>5, <4>1
        <4>. QED
          BY <3>3, <4>1, <4>2
      <3>8. \A i, j \in 1 .. Len(Tail(q)) : i < j => Tail(q)[i] < Tail(q)[j]
        BY <3>3, <3>4
      <3>. QED
        BY <2>2, <3>2, <3>6, <3>7, <3>8
    <2>. QED
      BY <2>1, <2>2
  <1>8. AnsweredInv'
    BY <1>0, <1>2, <1>3, <1>5, StageFacts DEF AInv, AnsweredInv
  <1>9. PanicInv' /\ ReturnInv'
    BY <1>0, <1>1, StageFacts DEF AInv, PanicInv, ReturnInv
  <1>. QED
    BY <1>7, <1>8, <1>9 DEF AInv

\* Receiving and combining shares answers nobody.
LEMMA KingReceiveAInv ==
  ASSUME TypeOK, AInv, NEW c \in Client, NEW s \in Sid, KingReceive(c, s)
  PROVE  AInv'
  <1>1. UNCHANGED <<stage, phase, down, answerTo, status>>
    BY DEF KingReceive
  <1>. QED
    BY <1>1, SameAInv DEF AInv, PanicInv, ReturnInv, Got, Answered

LEMMA CombineAInv ==
  ASSUME TypeOK, AInv, NEW s \in Sid,
         Active(King, s), phase[King][s] = "collect",
         UNCHANGED <<stage, down>>,
         \/ /\ UNCHANGED <<phase, answerTo>>
            /\ status' = [status EXCEPT ![King] = "panicked"]
         \/ /\ phase' = [phase EXCEPT ![King][s] = "reply"]
            /\ answerTo' = [answerTo EXCEPT ![s] = 1]
            /\ UNCHANGED status
  PROVE  AInv'
  <1>. USE PartyFacts
  <1>0. /\ stage[King] \in StageNo /\ s \in Stages[stage[King]].sids
        /\ status[King] = "running"
    BY DEF Active
  <1>1. CASE /\ UNCHANGED <<phase, answerTo>>
             /\ status' = [status EXCEPT ![King] = "panicked"]
    <2>1. PanicInv'
      BY <1>0, <1>1 DEF PanicInv
    <2>2. ReturnInv'
      BY <1>1 DEF AInv, ReturnInv, TypeOK
    <2>. QED
      BY <1>1, <2>1, <2>2, SameAInv DEF Got, Answered
  <1>2. CASE /\ phase' = [phase EXCEPT ![King][s] = "reply"]
             /\ answerTo' = [answerTo EXCEPT ![s] = 1]
             /\ UNCHANGED status
    <2>1. /\ \A r \in Sid : r # s => /\ phase'[King][r] = phase[King][r]
                                     /\ answerTo'[r] = answerTo[r]
          /\ phase'[King][s] = "reply" /\ answerTo'[s] = 1
          /\ \A d \in Client, r \in Sid : phase'[d][r] = phase[d][r]
      BY <1>2 DEF TypeOK
    <2>2. \A d \in Client, r \in Sid : Got(d, r)' <=> Got(d, r)
      BY <2>1 DEF Got
    <2>3. \A k \in StageNo : \A r \in Stages[k].sids, d \in Client :
            Answered(k, r, d)' <=> Answered(k, r, d)
      <3>. TAKE k \in StageNo
      <3>. TAKE r \in Stages[k].sids, d \in Client
      <3>0. r \in Sid
        BY StageFacts
      <3>1. CASE r = s
        BY <2>1, <3>1 DEF Answered, Client
      <3>2. CASE r # s
        BY <2>1, <3>0, <3>2 DEF Answered
      <3>. QED
        BY <3>1, <3>2
    <2>4. PanicInv' /\ ReturnInv'
      BY <1>0, <1>2 DEF AInv, PanicInv, ReturnInv
    <2>. QED
      BY <2>2, <2>3, <2>4, SameAInv
  <1>. QED
    BY <1>1, <1>2

LEMMA CombineFullAInv ==
  ASSUME TypeOK, AInv, NEW s \in Sid, Collecting(s), CombineFull(s)
  PROVE  AInv'
  <1>1. /\ Active(King, s)
        /\ phase[King][s] = "collect"
        /\ UNCHANGED <<stage, down>>
        /\ \/ /\ UNCHANGED <<phase, answerTo>>
              /\ status' = [status EXCEPT ![King] = "panicked"]
           \/ /\ phase' = [phase EXCEPT ![King][s] = "reply"]
              /\ answerTo' = [answerTo EXCEPT ![s] = 1]
              /\ UNCHANGED status
    BY DEF CombineFull, Collecting
  <1>. QED
    BY <1>1, CombineAInv

LEMMA CombinePartialAInv ==
  ASSUME TypeOK, AInv, NEW s \in Sid, Collecting(s), CombinePartial(s)
  PROVE  AInv'
  <1>1. /\ Active(King, s)
        /\ phase[King][s] = "collect"
        /\ UNCHANGED <<stage, down>>
        /\ \/ /\ UNCHANGED <<phase, answerTo>>
              /\ status' = [status EXCEPT ![King] = "panicked"]
           \/ /\ phase' = [phase EXCEPT ![King][s] = "reply"]
              /\ answerTo' = [answerTo EXCEPT ![s] = 1]
              /\ UNCHANGED status
    BY DEF CombinePartial, Collecting
  <1>. QED
    BY <1>1, CombineAInv

\* The king's answer is the newest of the answers that the client has to read:
\* it has not read it, and was not answered a later round.
LEMMA KingReplyAInv ==
  ASSUME TypeOK, AInv, NEW s \in Sid, KingReply(s)
  PROVE  AInv'
  <1>. USE PartyFacts
  <1>a. PICK c \in Client : c = answerTo[s]
    BY DEF KingReply
  <1>. DEFINE k == stage[King]
              q == down[c][s]
  <1>0. /\ k \in StageNo /\ s \in Stages[k].sids
        /\ phase[King][s] = "reply"
        /\ c = answerTo[s]
        /\ down' = [down EXCEPT ![c][s] = Append(@, k)]
        /\ answerTo' = [answerTo EXCEPT ![s] = c + 1]
        /\ phase' = [phase EXCEPT ![King][s] = IF c = N-1 THEN "done" ELSE @]
        /\ status[King] = "running"
        /\ UNCHANGED <<stage, status>>
    BY <1>a DEF KingReply, Active
  <1>1. \A p \in Party, r \in Sid :
          (p # King \/ r # s) => phase'[p][r] = phase[p][r]
    BY <1>0 DEF TypeOK
  <1>2. /\ phase'[King][s] = IF c = N-1 THEN "done" ELSE "reply"
        /\ answerTo'[s] = c + 1
        /\ \A r \in Sid : r # s => answerTo'[r] = answerTo[r]
    BY <1>0 DEF TypeOK
  <1>3. \A j : \A r \in Sid, d \in Client :
          Answered(j, r, d)' <=> Answered(j, r, d) \/ (j = k /\ r = s /\ d = c)
    <2>. TAKE j
    <2>. TAKE r \in Sid, d \in Client
    <2>1. CASE r = s
      BY <1>0, <1>2, <2>1 DEF Answered, Client
    <2>2. CASE r # s
      BY <1>0, <1>1, <1>2, <2>2 DEF Answered
    <2>. QED
      BY <2>1, <2>2
  <1>4. \A d \in Client, r \in Sid : Got(d, r)' <=> Got(d, r)
    BY <1>1 DEF Got
  <1>5. ~ Answered(k, s, c)
    BY <1>0 DEF Answered, StageNo, Client
  <1>6. stage[c] < k \/ (stage[c] = k /\ ~ Got(c, s))
    <2>1. ~ (k < stage[c]) /\ ~ (k = stage[c] /\ Got(c, s))
      BY <1>0, <1>5 DEF AInv, AnsweredInv
    <2>2. stage[c] \in Nat /\ k \in Nat
      BY <1>0, StageFacts DEF TypeOK
    <2>. QED
      BY <2>1, <2>2
  <1>7. PendingInv'
    <2>. SUFFICES ASSUME NEW d \in Client, NEW r \in Sid
                  PROVE  /\ \A i \in 1 .. Len(down'[d][r]) : down'[d][r][i] \in Pending(d, r)'
                         /\ \A j \in Pending(d, r)' : \E i \in 1 .. Len(down'[d][r]) : down'[d][r][i] = j
                         /\ \A i, j \in 1 .. Len(down'[d][r]) : i < j => down'[d][r][i] < down'[d][r][j]
      BY DEF PendingInv
    <2>1. CASE d # c \/ r # s
      <3>1. down'[d][r] = down[d][r]
        BY <1>0, <2>1 DEF TypeOK
      <3>2. Pending(d, r)' = Pending(d, r)
        BY <1>0, <1>3, <1>4, <2>1 DEF Pending
      <3>. QED
        BY <3>1, <3>2 DEF AInv, PendingInv
    <2>2. CASE d = c /\ r = s
      <3>1. q \in Seq(StageNo)
        BY <1>0 DEF TypeOK
      <3>2. down'[d][r] = Append(q, k)
        BY <1>0, <2>2 DEF TypeOK
      <3>3. /\ Len(q) \in Nat
            /\ Len(Append(q, k)) = Len(q) + 1
            /\ \A i \in 1 .. Len(q) : Append(q, k)[i] = q[i]
            /\ Append(q, k)[Len(q) + 1] = k
        BY <3>1
      <3>4. /\ \A i \in 1 .. Len(q) : q[i] \in Pending(c, s)
            /\ \A j \in Pending(c, s) : \E i \in 1 .. Len(q) : q[i] = j
            /\ \A i, j \in 1 .. Len(q) : i < j => q[i] < q[j]
        BY <1>0 DEF AInv, PendingInv
      <3>5. \A j : j \in Pending(c, s)' <=> j \in Pending(c, s) \/ j = k
        BY <1>0, <1>3, <1>4, <1>6 DEF Pending
      <3>6. \A j \in Pending(c, s) : j \in Nat /\ j < k
        <4>. TAKE j \in Pending(c, s)
        <4>1. j \in StageNo /\ Answered(j, s, c)
          BY DEF Pending
        <4>2. j # k
          BY <1>5, <4>1
        <4>. QED
          BY <1>0, <4>1, <4>2, StageFacts DEF Answered
      <3>. HIDE DEF k, q
      <3>7. \A i \in 1 .. Len(Append(q, k)) : Append(q, k)[i] \in Pending(c, s)'
        BY <3>3, <3>4, <3>5
      <3>8. \A j \in Pending(c, s)' : \E i \in 1 .. Len(Append(q, k)) : Append(q, k)[i] = j
        <4>. TAKE j \in Pending(c, s)'
        <4>1. CASE j = k
          BY <3>3, <4>1
        <4>2. CASE j \in Pending(c, s)
          <5>1. PICK i \in 1 .. Len(q) : q[i] = j
            BY <3>4, <4>2
          <5>. QED
            BY <3>3, <5>1
        <4>. QED
          BY <3>5, <4>1, <4>2
      <3>9. \A i, j \in 1 .. Len(Append(q, k)) : i < j => Append(q, k)[i] < Append(q, k)[j]
        <4>. TAKE i, j \in 1 .. Len(Append(q, k))
        <4>. HAVE i < j
        <4>1. i \in 1 .. Len(q)
          BY <3>3
        <4>2. CASE j \in 1 .. Len(q)
          BY <3>3, <3>4, <4>1, <4>2
        <4>3. CASE j = Len(q) + 1
          BY <3>3, <3>4, <3>6, <4>1, <4>3
        <4>. QED
          BY <3>3, <4>2, <4>3
      <3>. QED
        BY <2>2, <3>2, <3>7, <3>8, <3>9
    <2>. QED
      BY <2>1, <2>2
  <1>8. AnsweredInv'
    BY <1>0, <1>3, <1>4, StageFacts DEF AInv, AnsweredInv
  <1>9. PanicInv' /\ ReturnInv'
    BY <1>0 DEF AInv, PanicInv, ReturnInv
  <1>. QED
    BY <1>7, <1>8, <1>9 DEF AInv

\* A client that goes on has read the answers of its stage, and no other.
LEMMA ClientAdvanceAInv ==
  ASSUME TypeOK, AInv, NEW c \in Client, Advance(c)
  PROVE  AInv'
  <1>. USE PartyFacts
  <1>. DEFINE m == stage[c]
  <1>0. /\ m \in StageNo
        /\ \A s \in Stages[m].sids : phase[c][s] = "done"
        /\ stage' = [stage EXCEPT ![c] = m + 1]
        /\ phase' = [phase EXCEPT ![c] = Enter(c, m + 1)]
        /\ UNCHANGED <<down, answerTo, status>>
    BY DEF Advance
  <1>1. \A p \in Party : p # c => stage'[p] = stage[p] /\ phase'[p] = phase[p]
    BY <1>0 DEF TypeOK
  <1>2. stage'[c] = m + 1 /\ phase'[c] = Enter(c, m + 1)
    BY <1>0 DEF TypeOK
  <1>3. \A s \in Sid : ~ Got(c, s)'
    BY <1>2 DEF Got, Enter
  <1>4. \A k, s, d : Answered(k, s, d)' <=> Answered(k, s, d)
    BY <1>0, <1>1 DEF Answered
  <1>5. \A d \in Client, s \in Sid : d # c => (Got(d, s)' <=> Got(d, s))
    BY <1>1 DEF Got
  <1>6. \A d \in Client, s \in Sid : Pending(d, s)' = Pending(d, s)
    <2>. TAKE d \in Client, s \in Sid
    <2>1. CASE d # c
      BY <1>1, <1>4, <1>5, <2>1 DEF Pending
    <2>2. CASE d = c
      <3>1. \A k \in StageNo : s \in Stages[k].sids =>
              (m + 1 < k \/ (m + 1 = k /\ ~ Got(c, s)') <=> m < k \/ (m = k /\ ~ Got(c, s)))
        <4>. TAKE k \in StageNo
        <4>. HAVE s \in Stages[k].sids
        <4>1. m = k => Got(c, s)
          BY <1>0 DEF Got
        <4>2. m \in Nat /\ k \in Nat
          BY <1>0, StageFacts
        <4>. QED
          BY <1>3, <4>1, <4>2
      <3>. QED
        BY <1>2, <1>4, <2>2, <3>1 DEF Pending
    <2>. QED
      BY <2>1, <2>2
  <1>7. PendingInv'
    BY <1>0, <1>6 DEF AInv, PendingInv
  <1>8. AnsweredInv'
    <2>. SUFFICES ASSUME NEW k \in StageNo, NEW s \in Stages[k].sids, NEW d \in Client,
                         k < stage'[d] \/ (k = stage'[d] /\ Got(d, s)')
                  PROVE  Answered(k, s, d)
      BY <1>4 DEF AnsweredInv
    <2>0. s \in Sid
      BY StageFacts
    <2>1. CASE d # c
      BY <1>1, <1>5, <2>0, <2>1 DEF AInv, AnsweredInv
    <2>2. CASE d = c
      <3>1. k < m + 1
        BY <1>2, <1>3, <2>0, <2>2
      <3>2. k < m \/ k = m
        BY <1>0, <3>1, StageFacts
      <3>. QED
        BY <1>0, <2>2, <3>2 DEF AInv, AnsweredInv, Got
    <2>. QED
      BY <2>1, <2>2
  <1>9. PanicInv'
    BY <1>0, <1>1 DEF AInv, PanicInv
  <1>10. ReturnInv'
    BY <1>0, StageFacts DEF AInv, ReturnInv
  <1>. QED
    BY <1>7, <1>8, <1>9, <1>10 DEF AInv

\* The king goes on when his rounds are answered, which stay answered.
LEMMA KingAdvanceAInv ==
  ASSUME TypeOK, AInv, Advance(King)
  PROVE  AInv'
  <1>. USE PartyFacts
  <1>. DEFINE k == stage[King]
  <1>0. /\ k \in StageNo
        /\ \A s \in Stages[k].sids : phase[King][s] = "done"
        /\ stage' = [stage EXCEPT ![King] = k + 1]
        /\ phase' = [phase EXCEPT ![King] = Enter(King, k + 1)]
        /\ status[King] = "running"
        /\ UNCHANGED <<down, answerTo, status>>
    BY DEF Advance
  <1>1. \A p \in Client : stage'[p] = stage[p] /\ phase'[p] = phase[p]
    BY <1>0 DEF TypeOK
  <1>2. stage'[King] = k + 1 /\ phase'[King] = Enter(King, k + 1)
    BY <1>0 DEF TypeOK
  <1>3. \A j \in StageNo : \A s \in Stages[j].sids : \A d :
          Answered(j, s, d)' <=> Answered(j, s, d)
    <2>. TAKE j \in StageNo
    <2>. TAKE s \in Stages[j].sids
    <2>. TAKE d
    <2>0. s \in Sid
      BY StageFacts
    <2>1. j = k + 1 => phase'[King][s] = "collect"
      BY <1>2, <2>0 DEF Enter
    <2>2. j < k + 1 <=> (j < k \/ j = k)
      BY <1>0 DEF StageNo
    <2>. QED
      BY <1>0, <1>2, <2>1, <2>2 DEF Answered, StageNo
  <1>4. \A d \in Client, s \in Sid : Got(d, s)' <=> Got(d, s)
    BY <1>1 DEF Got
  <1>5. \A d \in Client, s \in Sid : Pending(d, s)' = Pending(d, s)
    BY <1>1, <1>3, <1>4 DEF Pending
  <1>6. PendingInv'
    BY <1>0, <1>5 DEF AInv, PendingInv
  <1>7. AnsweredInv'
    BY <1>1, <1>3, <1>4, StageFacts DEF AInv, AnsweredInv
  <1>8. PanicInv' /\ ReturnInv'
    BY <1>0, StageFacts DEF AInv, PanicInv, ReturnInv
  <1>. QED
    BY <1>6, <1>7, <1>8 DEF AInv

\* A party returns when all are at the barrier.
LEMMA ReturnAInv ==
  ASSUME TypeOK, AInv, NEW p \in Party, Return(p)
  PROVE  AInv'
  <1>1. /\ \A q \in Party : stage[q] = AfterLast
        /\ status' = [status EXCEPT ![p] = "returned"]
        /\ UNCHANGED <<stage, phase, down, answerTo>>
    BY DEF Return
  <1>2. PanicInv' /\ ReturnInv'
    BY <1>1, PartyFacts DEF AInv, PanicInv, ReturnInv, TypeOK
  <1>. QED
    BY <1>1, <1>2, SameAInv DEF Got, Answered

LEMMA NextAInv == TypeOK /\ AInv /\ [Next]_vars => AInv'
  <1>. SUFFICES ASSUME TypeOK, AInv, [Next]_vars PROVE AInv'
    OBVIOUS
  <1>1. ASSUME NEW p \in Party, PartyStep(p) PROVE AInv'
    <2>1. CASE \E s \in Sid : p \in Client /\ ClientSend(p, s)
      BY <2>1, ClientSendAInv
    <2>2. CASE \E s \in Sid : p \in Client /\ ClientReceive(p, s)
      BY <2>2, ClientReceiveAInv
    <2>3. CASE Advance(p)
      BY <2>3, ClientAdvanceAInv, KingAdvanceAInv, PartyFacts
    <2>4. CASE Return(p)
      BY <2>4, ReturnAInv
    <2>. QED
      BY <1>1, <2>1, <2>2, <2>3, <2>4 DEF PartyStep
  <1>2. ASSUME NEW s \in Sid, KingStep(s) PROVE AInv'
    BY <1>2, KingReceiveAInv, CombineFullAInv, CombinePartialAInv, KingReplyAInv DEF KingStep, Combine
  <1>3. CASE UNCHANGED vars
    BY <1>3, SameAInv DEF vars, AInv, PanicInv, ReturnInv, Got, Answered
  <1>. QED
    BY <1>1, <1>2, <1>3 DEF Next, Over

\* What is in a client's stream is what it was answered and has not read, in
\* order, for every client of every session.
THEOREM AnswersInOrder == Spec => []AInv
  BY TypeCorrect, InitAInv, NextAInv, PTL DEF Spec

\* A waiting client's next frame is the answer of the round it waits for, also
\* when it is stages behind the king.
THEOREM AnswersAligned == Spec => []AnswerAlignment
  <1>1. ASSUME TypeOK, AInv PROVE AnswerAlignment
    <2>. SUFFICES ASSUME NEW c \in Client, NEW s \in Sid, Active(c, s),
                         phase[c][s] \in {"send", "await"}, down[c][s] # <<>>
                  PROVE  Head(down[c][s]) = stage[c]
      BY DEF AnswerAlignment
    <2>1. Uses(c, s) /\ ~ Got(c, s)
      BY DEF Active, Uses, Got
    <2>. QED
      BY <1>1, <2>1, HeadIsStage
  <1>. QED
    BY <1>1, TypeCorrect, AnswersInOrder, PTL

\* When the king fails a round nobody is past its stage: the round that failed
\* has answered nobody.
THEOREM FailuresHold == Spec => []FailedStageHolds
  <1>1. ASSUME TypeOK, AInv PROVE FailedStageHolds
    <2>. SUFFICES ASSUME status[King] = "panicked", NEW p \in Party
                  PROVE  stage[p] <= stage[King]
      BY DEF FailedStageHolds
    <2>0. stage[p] \in Nat /\ stage[King] \in Nat
      BY <1>1, PartyFacts, StageFacts DEF TypeOK, AfterLast
    <2>1. stage[King] \in StageNo
      BY <1>1 DEF AInv, PanicInv
    <2>2. PICK s \in Stages[stage[King]].sids : phase[King][s] = "collect"
      BY <1>1 DEF AInv, PanicInv
    <2>3. ASSUME stage[King] < stage[p] PROVE FALSE
      <3>1. p \in Client
        BY <2>0, <2>3, PartyFacts
      <3>2. Answered(stage[King], s, p)
        BY <1>1, <2>1, <2>3, <3>1 DEF AInv, AnsweredInv
      <3>. QED
        BY <2>0, <2>2, <3>2 DEF Answered
    <2>. QED
      BY <2>0, <2>3
  <1>. QED
    BY <1>1, TypeCorrect, AnswersInOrder, PTL

\* When a party returns, nothing is left for any client to read, and nothing
\* of a punctual client for the king.
THEOREM StreamsDrained == Spec => []NothingLeftBehind
  <1>1. ASSUME IInv, AInv PROVE NothingLeftBehind
    <2>. SUFFICES ASSUME \E p \in Party : status[p] = "returned",
                         NEW c \in Client, NEW s \in Sid
                  PROVE  /\ down[c][s] = <<>>
                         /\ c \notin Slow => up[c][s] = <<>>
      BY DEF NothingLeftBehind
    <2>1. stage[c] = AfterLast
      BY <1>1, PartyFacts DEF AInv, ReturnInv
    <2>2. Pending(c, s) = {}
      BY <2>1, StageFacts DEF Pending, StageNo, AfterLast
    <2>3. down[c][s] = <<>>
      <3>1. down[c][s] \in Seq(StageNo)
        BY <1>1 DEF IInv, TypeOK
      <3>2. \A i \in 1 .. Len(down[c][s]) : FALSE
        BY <1>1, <2>2 DEF AInv, PendingInv
      <3>. QED
        BY <3>1, <3>2
    <2>4. c \notin Slow => up[c][s] = <<>>
      BY <1>1, <2>1, StageFacts DEF IInv, StreamInv, Punctual, Uses
    <2>. QED
      BY <2>3, <2>4
  <1>. QED
    BY <1>1, LockStep, AnswersInOrder, PTL


-----------------------------------------------------------------------------
\* What is to be read are numbers of stages that use the stream.
LEMMA ToReadType ==
  ASSUME TypeOK, NEW c \in Client, NEW s \in Sid
  PROVE  /\ stage[c] \in Nat
         /\ \A k \in StageNo : k \in Nat
         /\ \A j \in ToRead(c, s) : j \in StageNo /\ j \in Nat /\ s \in Stages[j].sids
  <1>1. stage[c] \in 1 .. AfterLast
    BY PartyFacts DEF TypeOK
  <1>. QED
    BY <1>1, StageFacts DEF ToRead

\* The first frame of a stream was made for the first of the stages whose
\* share is still to be read.
LEMMA HeadIsFirst ==
  ASSUME TypeOK, FramesInv, NEW c \in Client, NEW s \in Sid, up[c][s] # <<>>
  PROVE  /\ Head(up[c][s]) \in ToRead(c, s)
         /\ \A j \in ToRead(c, s) : Head(up[c][s]) <= j
  <1>. USE PartyFacts
  <1>. DEFINE q == up[c][s]
  <1>1. q \in Seq(StageNo) /\ q # <<>>
    BY DEF TypeOK
  <1>2. Len(q) \in Nat /\ 1 \in 1 .. Len(q) /\ Head(q) = q[1]
    BY <1>1
  <1>3. /\ \A i \in 1 .. Len(q) : /\ q[i] \in ToRead(c, s)
                                  /\ q[i] <= stage[c]
                                  /\ q[i] = stage[c] => Sent(c, s)
        /\ \A i, j \in 1 .. Len(q) : i < j => q[i] < q[j]
    BY DEF FramesInv
  <1>4. q[1] \in StageNo /\ stage[c] \in Nat
    BY <1>2, <1>3, StageFacts DEF ToRead, TypeOK
  <1>5. ASSUME NEW j \in ToRead(c, s) PROVE q[1] <= j
    <2>0. j \in Nat /\ q[1] \in Nat
      BY <1>4, StageFacts DEF ToRead
    <2>1. CASE \E i \in 1 .. Len(q) : q[i] = j
      <3>1. PICK i \in 1 .. Len(q) : q[i] = j
        BY <2>1
      <3>2. i = 1 \/ 1 < i
        BY <1>2
      <3>3. q[1] = j \/ q[1] < j
        BY <1>2, <1>3, <3>1, <3>2
      <3>. QED
        BY <2>0, <3>3
    <2>2. CASE stage[c] < j \/ (stage[c] = j /\ ~ Sent(c, s))
      BY <1>2, <1>3, <1>4, <2>0, <2>2
    <2>. QED
      BY <2>1, <2>2 DEF ToRead
  <1>. QED
    BY <1>2, <1>3, <1>5

\* Before anything is sent every share of every round is to be read.
LEMMA InitOrderInv == Init => OrderInv
  <1>. SUFFICES ASSUME Init PROVE OrderInv
    OBVIOUS
  <1>. USE PartyFacts
  <1>1. EntryInv /\ LagInv /\ OnceStaleAlwaysStale
    BY DEF Init, EntryInv, LagInv, OnceStaleAlwaysStale
  <1>2. ASSUME NEW c \in Client, NEW s \in Sid
        PROVE  up[c][s] = <<>> /\ stage[c] = 1 /\ ~ Sent(c, s)
    BY DEF Init, Sent, Enter
  <1>3. FramesInv
    <2>1. ASSUME NEW c \in Client, NEW s \in Sid, NEW k \in StageNo, s \in Stages[k].sids
          PROVE  k \in ToRead(c, s)
      BY <1>2, <2>1 DEF ToRead, StageNo
    <2>. QED
      BY <1>2, <2>1 DEF FramesInv
  <1>. QED
    BY <1>1, <1>3 DEF OrderInv

\* What the invariant says of the shares the king has taken stays true as
\* long as he takes no other share of a client and no share becomes unread.
LEMMA SameLag ==
  ASSUME OrderInv, TypeOK, TypeOK', FramesInv', EntryInv',
         \A c \in Client, s \in Sid : ToRead(c, s)' = ToRead(c, s),
         \A x \in store' : x \in store \/ x.from = King,
         \A k \in StageNo : \A s \in Stages[k].sids, c \in Client :
           MayTake(k, s, c)' => MayTake(k, s, c)
  PROVE  OrderInv'
  <1>1. LagInv'
    <2>. SUFFICES ASSUME NEW x \in store', NEW k \in StageNo,
                         x.from \in Client, x.tag < x.stage, x.stage < k,
                         x.sid \in Stages[k].sids, MayTake(k, x.sid, x.from)'
                  PROVE  \E j \in ToRead(x.from, x.sid)' : j < k
      BY DEF LagInv
    <2>1. x \in Entry
      BY DEF TypeOK
    <2>2. x.sid \in Sid /\ x.stage \in Nat
      BY <2>1, StageFacts DEF Entry
    <2>3. x \in store
      BY PartyFacts
    <2>4. \E j \in ToRead(x.from, x.sid) : j < k
      BY <2>3 DEF OrderInv, LagInv
    <2>. QED
      BY <2>2, <2>4
  <1>2. OnceStaleAlwaysStale'
    <2>. SUFFICES ASSUME NEW x \in store', NEW y \in store',
                         x.from = y.from, x.sid = y.sid,
                         x.tag < x.stage, x.stage < y.stage
                  PROVE  y.tag < y.stage
      BY DEF OnceStaleAlwaysStale
    <2>1. x \in Entry
      BY DEF TypeOK
    <2>2. x.stage \in Nat
      BY <2>1, StageFacts DEF Entry
    <2>3. x.from = King => x.tag = x.stage
      BY DEF EntryInv
    <2>4. x \in store /\ y \in store
      BY <2>2, <2>3
    <2>. QED
      BY <2>4 DEF OrderInv, OnceStaleAlwaysStale
  <1>. QED
    BY <1>1, <1>2 DEF OrderInv

\* A step that leaves the uplinks, the store and the king alone.
LEMMA KeepsFrames ==
  ASSUME OrderInv, UNCHANGED <<stage, up>>,
         \A c \in Client, s \in Sid : Sent(c, s)' <=> Sent(c, s)
  PROVE  FramesInv' /\ \A c \in Client, s \in Sid : ToRead(c, s)' = ToRead(c, s)
  <1>1. \A c \in Client, s \in Sid : ToRead(c, s)' = ToRead(c, s)
    BY DEF ToRead
  <1>. QED
    BY <1>1 DEF OrderInv, FramesInv

\* A client's share is the last of the shares in the stream.
LEMMA ClientSendOrderInv ==
  ASSUME OrderInv, TypeOK, TypeOK', NEW c \in Client, NEW s \in Sid, ClientSend(c, s)
  PROVE  OrderInv'
  <1>. USE PartyFacts
  <1>. DEFINE q == up[c][s]
              m == stage[c]
  <1>0. /\ m \in StageNo /\ s \in Stages[m].sids
        /\ phase[c][s] = "send"
        /\ up' = [up EXCEPT ![c][s] = Append(@, m)]
        /\ phase' = [phase EXCEPT ![c][s] = "await"]
        /\ UNCHANGED <<stage, store, status>>
    BY DEF ClientSend, Active
  <1>1. /\ ~ Sent(c, s) /\ Sent(c, s)'
        /\ \A d \in Client, r \in Sid : d # c \/ r # s => (Sent(d, r)' <=> Sent(d, r))
    <2>1. /\ phase'[c][s] = "await"
          /\ \A d \in Client, r \in Sid : d # c \/ r # s => phase'[d][r] = phase[d][r]
      BY <1>0 DEF TypeOK
    <2>. QED
      BY <1>0, <2>1 DEF Sent
  <1>2. /\ up'[c][s] = Append(q, m)
        /\ \A d \in Client, r \in Sid : d # c \/ r # s => up'[d][r] = up[d][r]
    BY <1>0 DEF TypeOK
  <1>3. /\ q \in Seq(StageNo) /\ Len(q) \in Nat
        /\ Len(Append(q, m)) = Len(q) + 1
        /\ \A i \in 1 .. Len(q) : Append(q, m)[i] = q[i] /\ i \in 1 .. Len(q) + 1
        /\ Append(q, m)[Len(q) + 1] = m
        /\ \A i \in 1 .. Len(q) + 1 : i \in 1 .. Len(q) \/ i = Len(q) + 1
    <2>1. q \in Seq(StageNo)
      BY DEF TypeOK
    <2>. QED
      BY <1>0, <2>1
  <1>4. \A d \in Client, r \in Sid : ToRead(d, r)' = ToRead(d, r)
    <2>. TAKE d \in Client, r \in Sid
    <2>1. CASE d # c \/ r # s
      BY <1>0, <1>1, <1>2, <2>1 DEF ToRead
    <2>2. CASE d = c /\ r = s
      <3>1. \A k : (\E i \in 1 .. Len(up'[c][s]) : up'[c][s][i] = k)
                     <=> (\E i \in 1 .. Len(q) : q[i] = k) \/ k = m
        <4>. HIDE DEF q, m
        <4>1. \A k : (\E i \in 1 .. Len(q) + 1 : Append(q, m)[i] = k)
                       <=> (\E i \in 1 .. Len(q) : q[i] = k) \/ k = m
          BY <1>3
        <4>. QED
          BY <1>2, <1>3, <4>1
      <3>2. m \in Nat /\ \A k \in StageNo : k \in Nat
        BY <1>0, StageFacts
      <3>3. \A k \in StageNo :
              (\E i \in 1 .. Len(up'[c][s]) : up'[c][s][i] = k)
                \/ m < k \/ (m = k /\ ~ Sent(c, s)')
              <=> (\E i \in 1 .. Len(q) : q[i] = k) \/ m < k \/ (m = k /\ ~ Sent(c, s))
        BY <1>1, <3>1, <3>2
      <3>. QED
        BY <1>0, <2>2, <3>3 DEF ToRead
    <2>. QED
      BY <2>1, <2>2
  <1>5. FramesInv'
    <2>. SUFFICES ASSUME NEW d \in Client, NEW r \in Sid
                  PROVE  /\ \A i \in 1 .. Len(up'[d][r]) :
                              /\ up'[d][r][i] \in ToRead(d, r)'
                              /\ up'[d][r][i] <= stage'[d]
                              /\ up'[d][r][i] = stage'[d] => Sent(d, r)'
                         /\ \A i, j \in 1 .. Len(up'[d][r]) : i < j => up'[d][r][i] < up'[d][r][j]
                         /\ \A j \in ToRead(d, r)', k \in StageNo :
                              j < k /\ r \in Stages[k].sids => k \in ToRead(d, r)'
      BY DEF FramesInv
    <2>0. /\ \A i \in 1 .. Len(up[d][r]) : /\ up[d][r][i] \in ToRead(d, r)
                                           /\ up[d][r][i] <= stage[d]
                                           /\ up[d][r][i] = stage[d] => Sent(d, r)
          /\ \A i, j \in 1 .. Len(up[d][r]) : i < j => up[d][r][i] < up[d][r][j]
          /\ \A j \in ToRead(d, r), k \in StageNo :
               j < k /\ r \in Stages[k].sids => k \in ToRead(d, r)
      BY DEF OrderInv, FramesInv
    <2>1. CASE d # c \/ r # s
      <3>1. up'[d][r] = up[d][r] /\ ToRead(d, r)' = ToRead(d, r) /\ stage' = stage
        BY <1>0, <1>2, <1>4, <2>1
      <3>. QED
        BY <1>1, <2>0, <2>1, <3>1
    <2>2. CASE d = c /\ r = s
      <3>1. \A i \in 1 .. Len(q) : q[i] \in Nat /\ q[i] < m /\ q[i] \in ToRead(c, s)
        <4>. TAKE i \in 1 .. Len(q)
        <4>1. /\ q[i] \in ToRead(c, s) /\ q[i] <= m
              /\ q[i] = m => Sent(c, s)
          BY <2>0, <2>2
        <4>2. q[i] \in Nat /\ m \in Nat
          BY <1>0, <4>1, StageFacts DEF ToRead
        <4>. QED
          BY <1>1, <4>1, <4>2
      <3>2. m \in Nat /\ m \in ToRead(c, s)
        BY <1>0, <1>1, StageFacts DEF ToRead
      <3>3. \A i, j \in 1 .. Len(q) : i < j => q[i] < q[j]
        BY <2>0, <2>2
      <3>4. up'[d][r] = Append(q, m) /\ ToRead(d, r)' = ToRead(c, s) /\ stage'[d] = m
        BY <1>0, <1>2, <1>4, <2>2
      <3>. HIDE DEF q, m
      <3>5. \A i \in 1 .. Len(q) + 1 :
              /\ Append(q, m)[i] \in ToRead(c, s)
              /\ Append(q, m)[i] <= m
        BY <1>3, <3>1, <3>2
      <3>6. \A i, j \in 1 .. Len(q) + 1 : i < j => Append(q, m)[i] < Append(q, m)[j]
        BY <1>3, <3>1, <3>2, <3>3
      <3>. QED
        BY <1>1, <1>3, <2>0, <2>2, <3>4, <3>5, <3>6
    <2>. QED
      BY <2>1, <2>2
  <1>6. EntryInv'
    BY <1>0 DEF OrderInv, EntryInv
  <1>7. \A k \in StageNo : \A r \in Stages[k].sids, d \in Client :
          MayTake(k, r, d)' => MayTake(k, r, d)
    <2>1. \A r \in Sid : phase'[King][r] = phase[King][r]
      BY <1>0 DEF TypeOK
    <2>. QED
      BY <1>0, <2>1, StageFacts DEF MayTake, Taken, Holders, Round
  <1>. QED
    BY <1>0, <1>4, <1>5, <1>6, <1>7, SameLag

\* Answers change nothing on the way up.
LEMMA ClientReceiveOrderInv ==
  ASSUME OrderInv, TypeOK, TypeOK', NEW c \in Client, NEW s \in Sid, ClientReceive(c, s)
  PROVE  OrderInv'
  <1>. USE PartyFacts
  <1>0. /\ phase' = [phase EXCEPT ![c][s] = "done"]
        /\ phase[c][s] = "await"
        /\ UNCHANGED <<stage, up, store>>
        /\ status'[King] = status[King]
    BY DEF ClientReceive, TypeOK
  <1>1. \A d \in Client, r \in Sid : Sent(d, r)' <=> Sent(d, r)
    BY <1>0 DEF Sent, TypeOK
  <1>2. \A r \in Sid : phase'[King][r] = phase[King][r]
    BY <1>0 DEF TypeOK
  <1>3. \A k \in StageNo : \A r \in Stages[k].sids, d \in Client :
          MayTake(k, r, d)' => MayTake(k, r, d)
    BY <1>0, <1>2, StageFacts DEF MayTake, Taken, Holders, Round
  <1>4. EntryInv'
    BY <1>0 DEF OrderInv, EntryInv
  <1>. QED
    BY <1>0, <1>1, <1>3, <1>4, KeepsFrames, SameLag

\* The king takes the first of the shares he has still to read: the next one
\* was made for his round or for an earlier one if this one was stale.
LEMMA KingReceiveOrderInv ==
  ASSUME OrderInv, TypeOK, TypeOK', NEW c \in Client, NEW s \in Sid, KingReceive(c, s)
  PROVE  OrderInv'
  <1>. USE PartyFacts
  <1>. DEFINE q == up[c][s]
              k == stage[King]
              e == [stage |-> k, sid |-> s, from |-> c, tag |-> Head(q)]
  <1>0. /\ k \in StageNo /\ s \in Stages[k].sids
        /\ status[King] = "running" /\ phase[King][s] = "collect"
        /\ ~ Taken(k, s, c)
        /\ q # <<>>
        /\ up' = [up EXCEPT ![c][s] = Tail(@)]
        /\ store' = store \cup {e}
        /\ UNCHANGED <<stage, phase, status>>
    BY DEF KingReceive, Active, Taken
  <1>1. /\ Head(q) \in ToRead(c, s)
        /\ \A j \in ToRead(c, s) : Head(q) <= j
    BY <1>0, HeadIsFirst DEF OrderInv
  <1>2. /\ up'[c][s] = Tail(q)
        /\ \A d \in Client, r \in Sid : d # c \/ r # s => up'[d][r] = up[d][r]
    BY <1>0 DEF TypeOK
  <1>3. /\ Len(q) \in Nat /\ 1 \in 1 .. Len(q) /\ q[1] = Head(q)
        /\ Len(Tail(q)) = Len(q) - 1
        /\ \A i \in 1 .. Len(Tail(q)) : Tail(q)[i] = q[i + 1] /\ i + 1 \in 1 .. Len(q)
        /\ \A i \in 1 .. Len(q) : 
             i # 1 => i - 1 \in 1 .. Len(Tail(q)) /\ Tail(q)[i - 1] = q[i]
    <2>1. q \in Seq(StageNo) /\ q # <<>>
      BY <1>0 DEF TypeOK
    <2>. HIDE DEF q
    <2>2. Len(q) \in Nat /\ 1 \in 1 .. Len(q) /\ q[1] = Head(q)
      BY <2>1
    <2>3. /\ Len(Tail(q)) = Len(q) - 1
          /\ \A i \in 1 .. Len(q) - 1 : Tail(q)[i] = q[i + 1]
      BY <2>1
    <2>4. \A i \in 1 .. Len(q) : i # 1 => i - 1 \in 1 .. Len(q) - 1 /\ (i - 1) + 1 = i
      BY <2>2
    <2>. QED
      BY <2>2, <2>3, <2>4
  <1>4. /\ \A i \in 1 .. Len(q) : /\ q[i] \in ToRead(c, s)
                                  /\ q[i] <= stage[c]
                                  /\ q[i] = stage[c] => Sent(c, s)
        /\ \A i, j \in 1 .. Len(q) : i < j => q[i] < q[j]
        /\ \A j \in ToRead(c, s), n \in StageNo :
             j < n /\ s \in Stages[n].sids => n \in ToRead(c, s)
    BY DEF OrderInv, FramesInv
  <1>5. \A d \in Client, r \in Sid : Sent(d, r)' <=> Sent(d, r)
    BY <1>0 DEF Sent
  <1>6. \A n : n \in ToRead(c, s)' <=> n \in ToRead(c, s) /\ n # Head(q)
    <2>0. /\ Head(q) \in Nat /\ stage[c] \in Nat /\ \A n \in StageNo : n \in Nat
          /\ q[1] = Head(q) /\ q[1] <= stage[c] /\ (q[1] = stage[c] => Sent(c, s))
          /\ \A i \in 1 .. Len(Tail(q)) : Tail(q)[i] # Head(q)
      <3>1. Head(q) \in Nat /\ stage[c] \in Nat /\ \A n \in StageNo : n \in Nat
        BY <1>1, ToReadType
      <3>2. q[1] = Head(q) /\ q[1] <= stage[c] /\ (q[1] = stage[c] => Sent(c, s))
        BY <1>3, <1>4
      <3>3. ASSUME NEW i \in 1 .. Len(Tail(q)) PROVE Tail(q)[i] # Head(q)
        <4>1. q[1] < q[i + 1] /\ Tail(q)[i] = q[i + 1]
          BY <1>3, <1>4
        <4>. QED
          BY <3>1, <3>2, <4>1
      <3>. QED
        BY <3>1, <3>2, <3>3
    <2>1. \A n : (\E i \in 1 .. Len(Tail(q)) : Tail(q)[i] = n)
                   <=> (\E i \in 1 .. Len(q) : q[i] = n) /\ n # Head(q)
      <3>. HIDE DEF q
      <3>. QED
        BY <1>3, <2>0
    <2>2. \A n \in StageNo :
            (\E i \in 1 .. Len(up'[c][s]) : up'[c][s][i] = n)
              \/ stage[c] < n \/ (stage[c] = n /\ ~ Sent(c, s))
            <=> /\ \/ \E i \in 1 .. Len(q) : q[i] = n
                   \/ stage[c] < n
                   \/ stage[c] = n /\ ~ Sent(c, s)
                /\ n # Head(q)
      BY <1>2, <2>0, <2>1
    <2>. QED
      BY <1>0, <1>5, <2>2 DEF ToRead
  <1>7. \A d \in Client, r \in Sid : d # c \/ r # s => ToRead(d, r)' = ToRead(d, r)
    BY <1>0, <1>2, <1>5 DEF ToRead
  <1>8. FramesInv'
    <2>. SUFFICES ASSUME NEW d \in Client, NEW r \in Sid
                  PROVE  /\ \A i \in 1 .. Len(up'[d][r]) :
                              /\ up'[d][r][i] \in ToRead(d, r)'
                              /\ up'[d][r][i] <= stage'[d]
                              /\ up'[d][r][i] = stage'[d] => Sent(d, r)'
                         /\ \A i, j \in 1 .. Len(up'[d][r]) : i < j => up'[d][r][i] < up'[d][r][j]
                         /\ \A j \in ToRead(d, r)', n \in StageNo :
                              j < n /\ r \in Stages[n].sids => n \in ToRead(d, r)'
      BY DEF FramesInv
    <2>1. CASE d # c \/ r # s
      <3>0. /\ \A i \in 1 .. Len(up[d][r]) : /\ up[d][r][i] \in ToRead(d, r)
                                             /\ up[d][r][i] <= stage[d]
                                             /\ up[d][r][i] = stage[d] => Sent(d, r)
            /\ \A i, j \in 1 .. Len(up[d][r]) : i < j => up[d][r][i] < up[d][r][j]
            /\ \A j \in ToRead(d, r), n \in StageNo :
                 j < n /\ r \in Stages[n].sids => n \in ToRead(d, r)
        BY DEF OrderInv, FramesInv
      <3>1. up'[d][r] = up[d][r] /\ ToRead(d, r)' = ToRead(d, r) /\ stage' = stage
        BY <1>0, <1>2, <1>7, <2>1
      <3>. QED
        BY <1>5, <3>0, <3>1
    <2>2. CASE d = c /\ r = s
      <3>1. \A i \in 1 .. Len(Tail(q)) :
              /\ Tail(q)[i] \in ToRead(c, s)'
              /\ Tail(q)[i] <= stage[c]
              /\ Tail(q)[i] = stage[c] => Sent(c, s)
        <4>. TAKE i \in 1 .. Len(Tail(q))
        <4>1. Tail(q)[i] = q[i + 1] /\ i + 1 \in 1 .. Len(q) /\ q[1] < q[i + 1]
          BY <1>3, <1>4
        <4>2. Head(q) \in Nat /\ q[1] = Head(q)
          BY <1>1, <1>3, ToReadType
        <4>. QED
          BY <1>4, <1>6, <4>1, <4>2
      <3>2. \A i, j \in 1 .. Len(Tail(q)) : i < j => Tail(q)[i] < Tail(q)[j]
        BY <1>3, <1>4
      <3>3. \A j \in ToRead(c, s)', n \in StageNo :
              j < n /\ s \in Stages[n].sids => n \in ToRead(c, s)'
        <4>. TAKE j \in ToRead(c, s)', n \in StageNo
        <4>. HAVE j < n /\ s \in Stages[n].sids
        <4>1. j \in ToRead(c, s) /\ Head(q) <= j
          BY <1>1, <1>6
        <4>2. n \in ToRead(c, s) /\ n # Head(q)
          <5>1. j \in Nat /\ n \in Nat /\ Head(q) \in Nat
            BY <1>1, <4>1, ToReadType
          <5>. QED
            BY <1>4, <4>1, <5>1
        <4>. QED
          BY <1>6, <4>2
      <3>. QED
        BY <1>0, <1>2, <1>5, <2>2, <3>1, <3>2, <3>3
    <2>. QED
      BY <2>1, <2>2
  <1>9. EntryInv'
    <2>1. k <= k
      BY <1>0, StageFacts
    <2>. QED
      BY <1>0, <2>1 DEF OrderInv, EntryInv
  <1>10. Head(q) < k => k \in ToRead(c, s)'
    <2>1. Head(q) \in Nat /\ k \in Nat
      BY <1>0, <1>1, ToReadType
    <2>. QED
      BY <1>0, <1>1, <1>4, <1>6, <2>1
  <1>11. LagInv'
    <2>. SUFFICES ASSUME NEW x \in store', NEW n \in StageNo,
                         x.from \in Client, x.tag < x.stage, x.stage < n,
                         x.sid \in Stages[n].sids, MayTake(n, x.sid, x.from)'
                  PROVE  \E j \in ToRead(x.from, x.sid)' : j < n
      BY DEF LagInv
    <2>0. x.sid \in Sid /\ n \in Nat /\ k \in Nat
      BY <1>0, StageFacts
    <2>1. CASE x = e
      BY <1>10, <2>1
    <2>2. CASE x \in store /\ (x.from # c \/ x.sid # s)
      <3>1. MayTake(n, x.sid, x.from)
        BY <1>0, <2>2 DEF MayTake, Taken, Holders, Round
      <3>2. \E j \in ToRead(x.from, x.sid) : j < n
        BY <2>2, <3>1 DEF OrderInv, LagInv
      <3>. QED
        BY <1>7, <2>0, <2>2, <3>2
    <2>3. CASE x \in store /\ x.from = c /\ x.sid = s
      <3>1. MayTake(n, s, c)
        BY <1>0, <2>3 DEF MayTake, Taken, Holders, Round
      <3>2. \E j \in ToRead(c, s) : j < n
        BY <2>3, <3>1 DEF OrderInv, LagInv
      <3>3. k < n
        <4>1. Taken(k, s, c)'
          BY <1>0 DEF Taken, Holders, Round
        <4>. QED
          BY <1>0, <2>3, <4>1 DEF MayTake
      <3>4. CASE x.stage < k
        <4>1. MayTake(k, s, c)
          BY <1>0 DEF MayTake
        <4>2. \E j \in ToRead(c, s) : j < k
          BY <1>0, <2>3, <3>4, <4>1 DEF OrderInv, LagInv
        <4>3. Head(q) < k
          BY <1>1, <2>0, <4>2, ToReadType
        <4>. QED
          BY <1>10, <2>3, <3>3, <4>3
      <3>5. CASE ~ (x.stage < k)
        <4>1. x.stage <= k /\ x \in Entry /\ x.stage \in Nat
          BY <2>3, StageFacts DEF OrderInv, EntryInv, TypeOK, Entry
        <4>2. x.stage = k
          BY <2>0, <3>5, <4>1
        <4>3. x.from \in Holders(k, s)
          BY <2>3, <4>2 DEF Holders, Round
        <4>. QED
          BY <1>0, <2>3, <4>3 DEF Taken
      <3>. QED
        BY <3>4, <3>5
    <2>. QED
      BY <1>0, <2>1, <2>2, <2>3
  <1>12. OnceStaleAlwaysStale'
    <2>. SUFFICES ASSUME NEW x \in store', NEW y \in store',
                         x.from = y.from, x.sid = y.sid,
                         x.tag < x.stage, x.stage < y.stage
                  PROVE  y.tag < y.stage
      BY DEF OnceStaleAlwaysStale
    <2>0. x \in Entry /\ y \in Entry /\ x.stage \in Nat /\ y.stage \in Nat /\ k \in Nat
      BY <1>0, StageFacts DEF TypeOK, Entry
    <2>1. x.stage <= k /\ y.stage <= k
      BY <1>0, <1>9 DEF EntryInv
    <2>2. x # e
      BY <2>0, <2>1
    <2>3. CASE y # e
      BY <1>0, <2>2, <2>3 DEF OrderInv, OnceStaleAlwaysStale
    <2>4. CASE y = e
      <3>1. MayTake(k, s, c)
        BY <1>0 DEF MayTake
      <3>2. \E j \in ToRead(c, s) : j < k
        BY <1>0, <2>2, <2>4, <3>1 DEF OrderInv, LagInv
      <3>3. Head(q) < k
        BY <1>1, <2>0, <3>2, ToReadType
      <3>. QED
        BY <2>4, <3>3
    <2>. QED
      BY <2>3, <2>4
  <1>. QED
    BY <1>8, <1>9, <1>11, <1>12 DEF OrderInv

\* A combined round takes no more shares, nor does a king who gave up, and
\* the only share that is added is the king's own.
LEMMA CombineOrderInv ==
  ASSUME OrderInv, TypeOK, TypeOK', NEW s \in Sid,
         Active(King, s), phase[King][s] = "collect",
         UNCHANGED <<stage, up>>,
         \A x \in store' : x \in store \/ (x.from = King /\ x.stage = stage[King] /\ x.sid = s /\ x.tag = x.stage),
         \A x \in store : x \in store' \/ (x.stage = stage[King] /\ x.sid = s),
         \/ /\ UNCHANGED phase
            /\ status' = [status EXCEPT ![King] = "panicked"]
         \/ /\ phase' = [phase EXCEPT ![King][s] = "reply"]
            /\ UNCHANGED status
  PROVE  OrderInv'
  <1>. USE PartyFacts
  <1>. DEFINE k == stage[King]
  <1>0. /\ k \in StageNo /\ k \in Nat /\ s \in Stages[k].sids
        /\ \A n \in StageNo : n \in Nat
    BY StageFacts DEF Active
  <1>1. \A d \in Client, r \in Sid : Sent(d, r)' <=> Sent(d, r)
    BY DEF Sent, TypeOK
  <1>2. EntryInv'
    BY <1>0 DEF OrderInv, EntryInv
  <1>3. ASSUME NEW n \in StageNo, NEW r \in Stages[n].sids, NEW d \in Client, MayTake(n, r, d)'
        PROVE  MayTake(n, r, d)
    <2>0. r \in Sid
      BY StageFacts
    <2>1. status'[King] = "running"
      BY <1>3 DEF MayTake
    <2>2. /\ phase' = [phase EXCEPT ![King][s] = "reply"]
          /\ UNCHANGED status
      BY <2>1 DEF TypeOK
    <2>3. /\ phase'[King][s] = "reply"
          /\ \A u \in Sid : u # s => phase'[King][u] = phase[King][u]
      BY <2>2 DEF TypeOK
    <2>4. CASE k < n
      BY <2>1, <2>2, <2>4 DEF MayTake
    <2>5. CASE k = n /\ phase'[King][r] = "collect" /\ ~ Taken(n, r, d)'
      <3>1. r # s /\ phase[King][r] = "collect"
        BY <2>0, <2>3, <2>5
      <3>2. ~ Taken(n, r, d)
        BY <2>5, <3>1 DEF Taken, Holders, Round
      <3>. QED
        BY <2>1, <2>2, <2>5, <3>1, <3>2 DEF MayTake
    <2>. QED
      BY <1>3, <2>4, <2>5 DEF MayTake
  <1>. QED
    BY <1>1, <1>2, <1>3, KeepsFrames, SameLag

LEMMA CombineFullOrderInv ==
  ASSUME OrderInv, TypeOK, TypeOK', NEW s \in Sid, Collecting(s), CombineFull(s)
  PROVE  OrderInv'
  <1>1. /\ Active(King, s) /\ phase[King][s] = "collect"
        /\ UNCHANGED <<stage, up>>
        /\ store' = store \cup Collected(stage[King], s)
        /\ \/ /\ UNCHANGED phase
              /\ status' = [status EXCEPT ![King] = "panicked"]
           \/ /\ phase' = [phase EXCEPT ![King][s] = "reply"]
              /\ UNCHANGED status
    BY DEF Collecting, CombineFull
  <1>2. \A x \in store' :
          x \in store \/ (x.from = King /\ x.stage = stage[King] /\ x.sid = s /\ x.tag = x.stage)
    BY <1>1 DEF Collected, Round
  <1>. QED
    BY <1>1, <1>2, CombineOrderInv

LEMMA CombinePartialOrderInv ==
  ASSUME OrderInv, TypeOK, TypeOK', NEW s \in Sid, Collecting(s), CombinePartial(s)
  PROVE  OrderInv'
  <1>1. PICK kept \in SUBSET Collected(stage[King], s) :
          /\ store' = (store \ Round(stage[King], s)) \cup kept
          /\ \/ /\ UNCHANGED phase
                /\ status' = [status EXCEPT ![King] = "panicked"]
             \/ /\ phase' = [phase EXCEPT ![King][s] = "reply"]
                /\ UNCHANGED status
    BY DEF CombinePartial
  <1>2. /\ Active(King, s) /\ phase[King][s] = "collect"
        /\ UNCHANGED <<stage, up>>
    BY DEF Collecting, CombinePartial
  <1>3. \A x \in store' :
          x \in store \/ (x.from = King /\ x.stage = stage[King] /\ x.sid = s /\ x.tag = x.stage)
    BY <1>1 DEF Collected, Round
  <1>4. \A x \in store : x \in store' \/ (x.stage = stage[King] /\ x.sid = s)
    BY <1>1 DEF Round
  <1>. QED
    BY <1>1, <1>2, <1>3, <1>4, CombineOrderInv

LEMMA KingReplyOrderInv ==
  ASSUME OrderInv, TypeOK, TypeOK', NEW s \in Sid, KingReply(s)
  PROVE  OrderInv'
  <1>. USE PartyFacts
  <1>0. /\ phase[King][s] = "reply"
        /\ phase' = [phase EXCEPT ![King][s] = IF answerTo[s] = N-1 THEN "done" ELSE @]
        /\ UNCHANGED <<stage, up, store, status>>
    BY DEF KingReply
  <1>1. \A d \in Client, r \in Sid : Sent(d, r)' <=> Sent(d, r)
    BY <1>0 DEF Sent, TypeOK
  <1>2. \A r \in Sid : phase'[King][r] = "collect" => phase[King][r] = "collect"
    BY <1>0 DEF TypeOK
  <1>3. \A k \in StageNo : \A r \in Stages[k].sids, d \in Client :
          MayTake(k, r, d)' => MayTake(k, r, d)
    BY <1>0, <1>2, StageFacts DEF MayTake, Taken, Holders, Round
  <1>4. EntryInv'
    BY <1>0 DEF OrderInv, EntryInv
  <1>. QED
    BY <1>0, <1>1, <1>3, <1>4, KeepsFrames, SameLag

\* A client that goes on has sent all the shares of the stage, and none yet of
\* the next one.
LEMMA ClientAdvanceOrderInv ==
  ASSUME OrderInv, TypeOK, TypeOK', NEW c \in Client, Advance(c)
  PROVE  OrderInv'
  <1>. USE PartyFacts
  <1>. DEFINE m == stage[c]
  <1>0. /\ m \in StageNo
        /\ \A s \in Stages[m].sids : phase[c][s] = "done"
        /\ stage' = [stage EXCEPT ![c] = m + 1]
        /\ phase' = [phase EXCEPT ![c] = Enter(c, m + 1)]
        /\ UNCHANGED <<up, store, status>>
    BY DEF Advance
  <1>1. \A p \in Party : p # c => stage'[p] = stage[p] /\ phase'[p] = phase[p]
    BY <1>0 DEF TypeOK
  <1>2. stage'[c] = m + 1 /\ phase'[c] = Enter(c, m + 1)
    BY <1>0 DEF TypeOK
  <1>3. \A s \in Sid : ~ Sent(c, s)'
    BY <1>2 DEF Sent, Enter
  <1>4. \A d \in Client, s \in Sid : d # c => (Sent(d, s)' <=> Sent(d, s))
    BY <1>1 DEF Sent
  <1>5. m \in Nat /\ \A k \in StageNo : k \in Nat
    BY <1>0, StageFacts
  <1>6. \A d \in Client, s \in Sid : ToRead(d, s)' = ToRead(d, s)
    <2>. TAKE d \in Client, s \in Sid
    <2>1. CASE d # c
      BY <1>0, <1>1, <1>4, <2>1 DEF ToRead
    <2>2. CASE d = c
      <3>1. \A k \in StageNo : s \in Stages[k].sids =>
              ( m + 1 < k \/ (m + 1 = k /\ ~ Sent(c, s)')
                <=> m < k \/ (m = k /\ ~ Sent(c, s)) )
        <4>. TAKE k \in StageNo
        <4>. HAVE s \in Stages[k].sids
        <4>1. m = k => Sent(c, s)
          BY <1>0 DEF Sent
        <4>. QED
          BY <1>3, <1>5, <4>1
      <3>. QED
        BY <1>0, <1>2, <2>2, <3>1 DEF ToRead
    <2>. QED
      BY <2>1, <2>2
  <1>7. FramesInv'
    <2>. SUFFICES ASSUME NEW d \in Client, NEW s \in Sid
                  PROVE  /\ \A i \in 1 .. Len(up[d][s]) :
                              /\ up[d][s][i] \in ToRead(d, s)
                              /\ up[d][s][i] <= stage'[d]
                              /\ up[d][s][i] = stage'[d] => Sent(d, s)'
                         /\ \A i, j \in 1 .. Len(up[d][s]) : i < j => up[d][s][i] < up[d][s][j]
                         /\ \A j \in ToRead(d, s), k \in StageNo :
                              j < k /\ s \in Stages[k].sids => k \in ToRead(d, s)
      BY <1>0, <1>6 DEF FramesInv
    <2>0. /\ \A i \in 1 .. Len(up[d][s]) : /\ up[d][s][i] \in ToRead(d, s)
                                           /\ up[d][s][i] <= stage[d]
                                           /\ up[d][s][i] = stage[d] => Sent(d, s)
          /\ \A i, j \in 1 .. Len(up[d][s]) : i < j => up[d][s][i] < up[d][s][j]
          /\ \A j \in ToRead(d, s), k \in StageNo :
               j < k /\ s \in Stages[k].sids => k \in ToRead(d, s)
      BY DEF OrderInv, FramesInv
    <2>1. CASE d # c
      BY <1>1, <1>4, <2>0, <2>1
    <2>2. CASE d = c
      <3>1. ASSUME NEW i \in 1 .. Len(up[d][s])
            PROVE  up[d][s][i] <= m + 1 /\ up[d][s][i] # m + 1
        <4>1. up[d][s][i] \in ToRead(d, s) /\ up[d][s][i] <= m
          BY <2>0, <2>2
        <4>2. up[d][s][i] \in Nat
          BY <4>1, ToReadType
        <4>. QED
          BY <1>5, <4>1, <4>2
      <3>. QED
        BY <1>2, <2>0, <2>2, <3>1
    <2>. QED
      BY <2>1, <2>2
  <1>8. EntryInv'
    BY <1>0, <1>1 DEF OrderInv, EntryInv
  <1>9. \A k \in StageNo : \A r \in Stages[k].sids, d \in Client :
          MayTake(k, r, d)' => MayTake(k, r, d)
    BY <1>0, <1>1 DEF MayTake, Taken, Holders, Round
  <1>. QED
    BY <1>0, <1>6, <1>7, <1>8, <1>9, SameLag

LEMMA KingAdvanceOrderInv ==
  ASSUME OrderInv, TypeOK, TypeOK', Advance(King)
  PROVE  OrderInv'
  <1>. USE PartyFacts
  <1>. DEFINE k == stage[King]
  <1>0. /\ k \in StageNo
        /\ stage' = [stage EXCEPT ![King] = k + 1]
        /\ phase' = [phase EXCEPT ![King] = Enter(King, k + 1)]
        /\ UNCHANGED <<up, store, status>>
    BY DEF Advance
  <1>1. \A d \in Client : stage'[d] = stage[d] /\ phase'[d] = phase[d]
    BY <1>0 DEF TypeOK
  <1>2. stage'[King] = k + 1 /\ k \in Nat
    BY <1>0, StageFacts DEF TypeOK
  <1>3. \A d \in Client, s \in Sid : Sent(d, s)' <=> Sent(d, s)
    BY <1>1 DEF Sent
  <1>4. \A d \in Client, s \in Sid : ToRead(d, s)' = ToRead(d, s)
    BY <1>0, <1>1, <1>3 DEF ToRead
  <1>5. FramesInv'
    BY <1>0, <1>1, <1>3, <1>4 DEF OrderInv, FramesInv
  <1>6. EntryInv'
    <2>. SUFFICES ASSUME NEW x \in store
                  PROVE  /\ x.stage <= stage'[King]
                         /\ x.sid \in Stages[x.stage].sids
                         /\ x.from = King => x.tag = x.stage
      BY <1>0 DEF EntryInv
    <2>1. x.stage \in Nat
      BY StageFacts DEF TypeOK, Entry
    <2>. QED
      BY <1>2, <2>1 DEF OrderInv, EntryInv
  <1>7. ASSUME NEW n \in StageNo, NEW r \in Stages[n].sids, NEW d \in Client, MayTake(n, r, d)'
        PROVE  MayTake(n, r, d)
    <2>1. n \in Nat /\ (k + 1 < n \/ k + 1 = n)
      BY <1>2, <1>7, StageFacts DEF MayTake
    <2>2. k < n
      BY <1>2, <2>1
    <2>. QED
      BY <1>0, <1>7, <2>2 DEF MayTake
  <1>. QED
    BY <1>0, <1>4, <1>5, <1>6, <1>7, SameLag

LEMMA IdleOrderInv ==
  ASSUME OrderInv, TypeOK, TypeOK', UNCHANGED <<stage, phase, up, store>>,
         status'[King] = "running" => status[King] = "running"
  PROVE  OrderInv'
  <1>1. \A d \in Client, r \in Sid : Sent(d, r)' <=> Sent(d, r)
    BY DEF Sent
  <1>2. EntryInv'
    BY DEF OrderInv, EntryInv
  <1>3. \A k \in StageNo : \A r \in Stages[k].sids, d \in Client :
          MayTake(k, r, d)' => MayTake(k, r, d)
    BY DEF MayTake, Taken, Holders, Round
  <1>. QED
    BY <1>1, <1>2, <1>3, KeepsFrames, SameLag

LEMMA NextOrderInv == OrderInv /\ TypeOK /\ [Next]_vars => OrderInv'
  <1>. SUFFICES ASSUME OrderInv, TypeOK, [Next]_vars PROVE OrderInv'
    OBVIOUS
  <1>0. TypeOK'
    BY NextTypeOK
  <1>1. ASSUME NEW p \in Party, PartyStep(p) PROVE OrderInv'
    <2>1. CASE \E s \in Sid : p \in Client /\ ClientSend(p, s)
      BY <1>0, <2>1, ClientSendOrderInv
    <2>2. CASE \E s \in Sid : p \in Client /\ ClientReceive(p, s)
      BY <1>0, <2>2, ClientReceiveOrderInv
    <2>3. CASE Advance(p)
      BY <1>0, <2>3, ClientAdvanceOrderInv, KingAdvanceOrderInv, PartyFacts
    <2>4. CASE Return(p)
      <3>1. status'[King] = "running" => status[King] = "running"
        BY <2>4, PartyFacts DEF Return, TypeOK
      <3>. QED
        BY <1>0, <2>4, <3>1, IdleOrderInv DEF Return
    <2>. QED
      BY <1>1, <2>1, <2>2, <2>3, <2>4 DEF PartyStep
  <1>2. ASSUME NEW s \in Sid, KingStep(s) PROVE OrderInv'
    BY <1>0, <1>2, KingReceiveOrderInv, CombineFullOrderInv, CombinePartialOrderInv,
       KingReplyOrderInv DEF KingStep, Combine
  <1>3. CASE UNCHANGED vars
    BY <1>0, <1>3, IdleOrderInv DEF vars
  <1>. QED
    BY <1>1, <1>2, <1>3 DEF Next, Over

\* The king reads every client's shares in the order of the stages.
THEOREM SharesInOrder == Spec => []OrderInv
  BY InitOrderInv, NextOrderInv, TypeCorrect, PTL DEF Spec

\* A party that was late once stays a round behind on that stream for the
\* rest of the session.
THEOREM StaleForEver == Spec => []OnceStaleAlwaysStale
  <1>1. OrderInv => OnceStaleAlwaysStale
    BY DEF OrderInv
  <1>. QED
    BY <1>1, SharesInOrder, PTL

-----------------------------------------------------------------------------
(***************************************************************************)
(* When every client meets the timeout, a session is the synchronous       *)
(* program of rounds: each step of the parties is a step of IdealRounds,   *)
(* or one that the rounds do not see.                                      *)
(***************************************************************************)

\* What the ideal rounds see of a session.
finished == [p \in Party |-> stage[p] - 1]
used == {x \in store : Combined(x.stage, x.sid)}

\* The ideal module's names for them.
LEMMA IdealNames ==
  /\ Ideal!Party = Party
  /\ Ideal!StageNo = StageNo
  /\ Ideal!ideal = <<finished, used>>
  BY DEF Ideal!Party, Party, Ideal!StageNo, StageNo, Ideal!ideal, finished, used

\* Nobody is late: every client is punctual.
LEMMA AllPunctual ==
  ASSUME Slow = {}
  PROVE  Punctual = Client /\ \E c : c \in Client
  <1>1. 1 \in Client
    BY NAssumption DEF Client
  <1>. QED
    BY <1>1 DEF Punctual

\* The session starts where the rounds start.
LEMMA InitIsIdeal == Init => Ideal!Init
  <1>. SUFFICES ASSUME Init PROVE Ideal!Init
    OBVIOUS
  <1>1. finished = [p \in Party |-> 0]
    BY DEF Init, finished
  <1>2. used = {}
    BY DEF Init, used
  <1>. QED
    BY <1>1, <1>2, IdealNames DEF Ideal!Init, finished, used

\* A step that neither combines a round nor moves a party on is not seen.
LEMMA Unseen ==
  ASSUME TypeOK, UNCHANGED <<stage, store>>,
         \A k \in StageNo, s \in Sid : Combined(k, s)' <=> Combined(k, s)
  PROVE  UNCHANGED <<finished, used>>
  <1>1. finished' = finished
    BY DEF finished
  <1>2. \A x \in store : x.stage \in StageNo /\ x.sid \in Sid
    BY DEF TypeOK, Entry
  <1>. QED
    BY <1>1, <1>2 DEF used

\* The king has not combined the round that he collects.
LEMMA Uncombined ==
  ASSUME TypeOK, NEW s \in Sid, Active(King, s), phase[King][s] = "collect"
  PROVE  ~ Combined(stage[King], s)
  BY StageFacts DEF Active, Combined

LEMMA ClientSendUnseen ==
  ASSUME TypeOK, NEW c \in Client, NEW s \in Sid, ClientSend(c, s)
  PROVE  UNCHANGED <<finished, used>>
  <1>1. /\ UNCHANGED <<stage, store>>
        /\ \A r \in Sid : phase'[King][r] = phase[King][r]
    BY PartyFacts DEF ClientSend, TypeOK
  <1>. QED
    BY <1>1, Unseen DEF Combined

LEMMA ClientReceiveUnseen ==
  ASSUME TypeOK, NEW c \in Client, NEW s \in Sid, ClientReceive(c, s)
  PROVE  UNCHANGED <<finished, used>>
  <1>1. /\ UNCHANGED <<stage, store>>
        /\ \A r \in Sid : phase'[King][r] = phase[King][r]
    BY PartyFacts DEF ClientReceive, TypeOK
  <1>. QED
    BY <1>1, Unseen DEF Combined

LEMMA KingReplyUnseen ==
  ASSUME TypeOK, NEW s \in Sid, KingReply(s)
  PROVE  UNCHANGED <<finished, used>>
  <1>1. /\ UNCHANGED <<stage, store>>
        /\ phase[King][s] = "reply" /\ phase'[King][s] \in {"reply", "done"}
        /\ \A r \in Sid : r # s => phase'[King][r] = phase[King][r]
    BY PartyFacts DEF KingReply, TypeOK
  <1>. QED
    BY <1>1, Unseen DEF Combined

\* A share in the king's hands is in no combined round yet.
LEMMA KingReceiveUnseen ==
  ASSUME TypeOK, NEW c \in Client, NEW s \in Sid, KingReceive(c, s)
  PROVE  UNCHANGED <<finished, used>>
  <1>. DEFINE e == [stage |-> stage[King], sid |-> s, from |-> c, tag |-> Head(up[c][s])]
  <1>1. /\ UNCHANGED <<stage, phase>>
        /\ store' = store \cup {e}
        /\ ~ Combined(stage[King], s)
    BY Uncombined DEF KingReceive
  <1>2. \A k, r : Combined(k, r)' <=> Combined(k, r)
    BY <1>1 DEF Combined
  <1>3. e.stage = stage[King] /\ e.sid = s
    OBVIOUS
  <1>4. ~ Combined(e.stage, e.sid)
    BY <1>1, <1>3
  <1>. HIDE DEF e
  <1>5. used' = used
    BY <1>1, <1>2, <1>4 DEF used
  <1>. QED
    BY <1>1, <1>5 DEF finished

\* With everybody's share there the round is the ideal one, unless it fails,
\* which combines nothing.
LEMMA CombineFullIsIdeal ==
  ASSUME Slow = {}, IInv, OrderInv, NEW s \in Sid, Collecting(s), CombineFull(s)
  PROVE  Ideal!Next \/ UNCHANGED <<finished, used>>
  <1>. USE PartyFacts
  <1>. DEFINE all(j) == {[stage |-> j, sid |-> s, from |-> p, tag |-> j] : p \in Party}
  <1>0. PICK k \in StageNo : k = stage[King]
    BY DEF Collecting, Active
  <1>1. /\ s \in Stages[k].sids
        /\ phase[King][s] = "collect"
        /\ Client \subseteq Holders(k, s)
        /\ store' = store \cup Collected(k, s)
        /\ UNCHANGED stage
        /\ ~ Combined(k, s)
    BY <1>0, Uncombined DEF IInv, CombineFull, Collecting, Active
  <1>2. \A x \in Round(k, s) :
          x = [stage |-> k, sid |-> s, from |-> x.from, tag |-> k] /\ x.from \in Party
    <2>. SUFFICES ASSUME NEW x \in Round(k, s)
                  PROVE  x = [stage |-> k, sid |-> s, from |-> x.from, tag |-> k] /\ x.from \in Party
      OBVIOUS
    <2>1. x \in store /\ x.stage = k /\ x.sid = s
      BY DEF Round
    <2>2. x \in Entry
      BY <2>1 DEF IInv, TypeOK
    <2>3. CASE x.from = King
      BY <2>1, <2>2, <2>3 DEF OrderInv, EntryInv, Entry
    <2>4. CASE x.from \in Client
      BY <2>1, <2>2, <2>4, AllPunctual DEF IInv, StoreInv, Entry
    <2>. QED
      BY <2>2, <2>3, <2>4 DEF Entry
  <1>3. Collected(k, s) = all(k)
    <2>1. ASSUME NEW x \in Collected(k, s) PROVE x \in all(k)
      BY <1>2, <2>1 DEF Collected
    <2>2. ASSUME NEW p \in Party
          PROVE  [stage |-> k, sid |-> s, from |-> p, tag |-> k] \in Collected(k, s)
      <3>1. CASE p = King
        BY <3>1 DEF Collected
      <3>2. CASE p \in Client
        <4>1. PICK x \in Round(k, s) : x.from = p
          BY <1>1, <3>2 DEF Holders
        <4>. QED
          BY <1>2, <4>1 DEF Collected
      <3>. QED
        BY <3>1, <3>2
    <2>. QED
      BY <2>1, <2>2
  <1>4. \A p \in Party : stage[p] >= k
    <2>. TAKE p \in Party
    <2>1. CASE p = King
      BY <1>0, <2>1, StageFacts
    <2>2. CASE p \in Client
      <3>1. Taken(k, s, p)
        BY <1>1, <2>2 DEF Taken
      <3>2. k <= stage[p]
        BY <1>1, <2>2, <3>1, AllPunctual, TakenSent
      <3>3. stage[p] \in Nat /\ k \in Nat
        BY StageFacts DEF IInv, TypeOK
      <3>. QED
        BY <3>2, <3>3
    <2>. QED
      BY <2>1, <2>2
  <1>5. CASE UNCHANGED phase
    <2>1. \A j, r : Combined(j, r)' <=> Combined(j, r)
      BY <1>1, <1>5 DEF Combined
    <2>2. \A x \in Collected(k, s) : x.stage = k /\ x.sid = s
      BY <1>3
    <2>3. used' = used
      BY <1>1, <2>1, <2>2 DEF used
    <2>. QED
      BY <1>1, <2>3 DEF finished
  <1>6. CASE phase' = [phase EXCEPT ![King][s] = "reply"]
    <2>1. \A r \in Sid : phase'[King][r] = IF r = s THEN "reply" ELSE phase[King][r]
      BY <1>6 DEF IInv, TypeOK
    <2>2. \A j, r : r \in Sid => (Combined(j, r)' <=> Combined(j, r) \/ (j = k /\ r = s))
      BY <1>0, <1>1, <2>1 DEF Combined
    <2>3. \A x \in Collected(k, s) : x.stage = k /\ x.sid = s
      BY <1>3
    <2>4. \A x \in store : x.sid \in Sid
      BY DEF IInv, TypeOK, Entry
    <2>5. used' = used \cup all(k)
      <3>1. used' = used \cup Collected(k, s)
        BY <1>1, <2>2, <2>3, <2>4 DEF used, Collected, Round
      <3>. QED
        BY <1>3, <3>1
    <2>6. ~ \E x \in used : x.stage = k /\ x.sid = s
      BY <1>1 DEF used
    <2>7. finished' = finished /\ \A p \in Party : finished[p] >= k - 1
      BY <1>1, <1>4, StageFacts DEF finished, IInv, TypeOK
    <2>8. Ideal!Combine(k, s)
      BY <1>1, <2>5, <2>6, <2>7, IdealNames DEF Ideal!Combine, finished, used
    <2>. QED
      BY <2>8, IdealNames DEF Ideal!Next
  <1>. QED
    BY <1>5, <1>6 DEF CombineFull

\* Nobody is late, so no timeout fires.
LEMMA NoTimeout ==
  ASSUME Slow = {}, NEW s \in Sid, CombinePartial(s)
  PROVE  FALSE
  BY DEF CombinePartial, TimeoutFires

\* A party that goes on finishes its stage, whose rounds are all combined:
\* the king saw to them, and a client waited for their answers.
LEMMA AdvanceIsIdeal ==
  ASSUME Slow = {}, IInv, OrderInv, NEW p \in Party, Advance(p)
  PROVE  Ideal!Next
  <1>. USE PartyFacts
  <1>0. PICK k \in StageNo : k = stage[p]
    BY DEF Advance
  <1>1. /\ \A s \in Stages[k].sids : phase[p][s] = "done"
        /\ stage' = [stage EXCEPT ![p] = k + 1]
        /\ phase' = [phase EXCEPT ![p] = Enter(p, k + 1)]
        /\ UNCHANGED store
    BY <1>0 DEF Advance
  <1>2. \A s \in Stages[k].sids : Combined(k, s)
    <2>. TAKE s \in Stages[k].sids
    <2>1. CASE p = King
      BY <1>0, <1>1, <2>1 DEF Combined
    <2>2. CASE p \in Client
      <3>1. Answered(k, s, p)
        BY <1>0, <1>1, <2>2, AllPunctual DEF IInv, AnswerInv, Got
      <3>. QED
        BY <2>2, <3>1, AllPunctual, AnsweredTaken
    <2>. QED
      BY <2>1, <2>2
  <1>3. \A s \in Stages[k].sids : \E x \in used : x.stage = k /\ x.sid = s
    <2>. TAKE s \in Stages[k].sids
    <2>1. PICK c : c \in Punctual
      BY AllPunctual
    <2>2. Taken(k, s, c)
      BY <1>2, <2>1 DEF IInv, CombinedInv
    <2>. QED
      BY <1>2, <2>2 DEF Taken, Holders, Round, used
  <1>4. used' = used
    <2>. SUFFICES ASSUME NEW x \in store
                  PROVE  Combined(x.stage, x.sid)' <=> Combined(x.stage, x.sid)
      BY <1>1 DEF used
    <2>1. x.stage \in StageNo /\ x.stage \in Nat /\ x.sid \in Sid
      BY StageFacts DEF IInv, TypeOK, Entry
    <2>2. CASE p # King
      <3>1. stage'[King] = stage[King] /\ phase'[King] = phase[King]
        BY <1>1, <2>2 DEF IInv, TypeOK
      <3>. QED
        BY <3>1 DEF Combined
    <2>3. CASE p = King
      <3>1. stage'[King] = k + 1 /\ phase'[King] = Enter(King, k + 1) /\ k \in Nat
        BY <1>1, <2>3, StageFacts DEF IInv, TypeOK
      <3>2. phase'[King][x.sid] \notin {"reply", "done"}
        BY <2>1, <3>1 DEF Enter
      <3>3. Combined(x.stage, x.sid)' <=> x.stage < k + 1
        BY <3>1, <3>2 DEF Combined
      <3>4. Combined(x.stage, x.sid) <=> x.stage < k \/ x.stage = k
        <4>1. x.stage = k => x.sid \in Stages[k].sids
          BY DEF OrderInv, EntryInv
        <4>. QED
          BY <1>0, <1>2, <2>3, <4>1 DEF Combined
      <3>. QED
        BY <2>1, <3>1, <3>3, <3>4
    <2>. QED
      BY <2>2, <2>3
  <1>5. /\ finished[p] = k - 1 /\ (k - 1) + 1 = k
        /\ finished' = [finished EXCEPT ![p] = k]
    <2>1. k \in Nat /\ \A q \in Party : stage[q] \in Nat
      BY StageFacts DEF IInv, TypeOK
    <2>2. stage'[p] = k + 1 /\ \A q \in Party : q # p => stage'[q] = stage[q]
      BY <1>1 DEF IInv, TypeOK
    <2>3. finished[p] = k - 1 /\ (k - 1) + 1 = k
      BY <1>0, <2>1 DEF finished
    <2>4. finished' = [q \in Party |-> IF q = p THEN k ELSE stage[q] - 1]
      <3>1. \A q \in Party : stage'[q] - 1 = IF q = p THEN k ELSE stage[q] - 1
        BY <2>1, <2>2
      <3>. QED
        BY <3>1 DEF finished
    <2>. QED
      BY <2>3, <2>4 DEF finished
  <1>6. Ideal!Finish(p)
    BY <1>3, <1>4, <1>5, IdealNames DEF Ideal!Finish, finished, used
  <1>. QED
    BY <1>6, IdealNames DEF Ideal!Next

\* Every step of a punctual session is a step of the ideal rounds, or unseen.
LEMMA NextIsIdeal ==
  ASSUME Slow = {}, IInv, OrderInv, [Next]_vars
  PROVE  [Ideal!Next]_(Ideal!ideal)
  <1>. SUFFICES Ideal!Next \/ UNCHANGED <<finished, used>>
    BY IdealNames DEF Ideal!ideal, finished, used
  <1>0. TypeOK
    BY DEF IInv
  <1>1. ASSUME NEW p \in Party, PartyStep(p)
        PROVE  Ideal!Next \/ UNCHANGED <<finished, used>>
    <2>1. CASE \E s \in Sid : p \in Client /\ ClientSend(p, s)
      BY <1>0, <2>1, ClientSendUnseen
    <2>2. CASE \E s \in Sid : p \in Client /\ ClientReceive(p, s)
      BY <1>0, <2>2, ClientReceiveUnseen
    <2>3. CASE Advance(p)
      BY <2>3, AdvanceIsIdeal
    <2>4. CASE Return(p)
      BY <2>4 DEF Return, finished, used, Combined
    <2>. QED
      BY <1>1, <2>1, <2>2, <2>3, <2>4 DEF PartyStep
  <1>2. ASSUME NEW s \in Sid, KingStep(s)
        PROVE  Ideal!Next \/ UNCHANGED <<finished, used>>
    BY <1>0, <1>2, KingReceiveUnseen, CombineFullIsIdeal, NoTimeout,
       KingReplyUnseen DEF KingStep, Combine
  <1>3. CASE UNCHANGED vars
    BY <1>3 DEF vars, finished, used, Combined
  <1>. QED
    BY <1>1, <1>2, <1>3 DEF Next, Over

\* With nobody late a session implements the synchronous rounds.
THEOREM PunctualRoundsAreIdeal ==
  ASSUME Slow = {}
  PROVE  Spec => RefinesIdealRounds
  <1>1. IInv /\ OrderInv /\ [Next]_vars => [Ideal!Next]_(Ideal!ideal)
    BY NextIsIdeal
  <1>. QED
    BY <1>1, InitIsIdeal, LockStep, SharesInOrder, PTL DEF Spec, RefinesIdealRounds

=============================================================================
