------------------------ MODULE SnarkVerifierProofs ------------------------
(***************************************************************************)
(* What holds of the verifier's pool of jobs, for every number of workers, *)
(* every capacity of the channel and whatever the jobs compute; and of the *)
(* transcripts that prover and verifier draw their challenges from.        *)
(***************************************************************************)
EXTENDS SnarkVerifier, WellFoundedInduction, TLAPS

-----------------------------------------------------------------------------
\* The jobs, and the step that spawns each of them.
LEMMA JobNames ==
  Jobs = {"body", "collector", "tipp", "kzg_v", "kzg_w", "check_v1", "check_v2",
          "check_w1", "check_w2", "left", "right", "middle"}
  BY DEF Jobs, Program

Spawner(c) ==
  CASE c \in {"collector", "tipp"} -> <<"body", 1>>
    [] c \in {"left", "right", "middle"} -> <<"body", 3>>
    [] c \in {"kzg_v", "kzg_w"} -> <<"tipp", 2>>
    [] c \in {"check_v1", "check_v2"} -> <<"kzg_v", 1>>
    [] c \in {"check_w1", "check_w2"} -> <<"kzg_w", 1>>
    [] OTHER -> <<"none", 0>>

LEMMA BodySteps ==
  LET p == Program["body"] IN
  /\ Len(p) = 6
  /\ p[1] = Spawn(<<"collector", "tipp">>) /\ p[2] = Do("geometric") /\ p[3] = Spawn(Parts)
  /\ p[4] = Join(Range(Parts)) /\ p[5] = Send("groth16") /\ p[6] = Join({"collector", "tipp"})
  BY DEF Program

LEMMA TippSteps ==
  LET p == Program["tipp"] IN
  /\ Len(p) = 9
  /\ p[1] = Do("replay") /\ p[2] = Spawn(<<"kzg_v", "kzg_w">>) /\ p[3] = Join({"kzg_v", "kzg_w"})
  /\ p[4] = Send("t") /\ p[5] = Send("u") /\ p[6] = Send("ab0") /\ p[7] = Send("ab1")
  /\ p[8] = Send("z") /\ p[9] = Do("final_z")
  BY DEF Program

LEMMA OtherSteps ==
  /\ Program["collector"] = <<Do("collect")>>
  /\ Program["kzg_v"] = <<Spawn(<<"check_v1", "check_v2">>), Join({"check_v1", "check_v2"})>>
  /\ Program["kzg_w"] = <<Spawn(<<"check_w1", "check_w2">>), Join({"check_w1", "check_w2"})>>
  /\ Program["check_v1"] = <<Send("v1")>> /\ Program["check_v2"] = <<Send("v2")>>
  /\ Program["check_w1"] = <<Send("w1")>> /\ Program["check_w2"] = <<Send("w2")>>
  /\ Program["left"] = <<>> /\ Program["right"] = <<>> /\ Program["middle"] = <<>>
  BY DEF Program

\* What a step of each kind is.
LEMMA Operations ==
  /\ \A js : Spawn(js).op = "spawn" /\ Spawn(js).jobs = js
  /\ \A c : Send(c).op = "send" /\ Send(c).check = c
  /\ \A js : Join(js).op = "join" /\ Join(js).jobs = js
  /\ \A x : Do(x).op = x
  BY DEF Spawn, Send, Join, Do

\* The step n of job j, by what it does.
StepIs(j, n) ==
  LET i == Program[j][n] IN
  \/ /\ i.op = "spawn" /\ j \in {"body", "tipp", "kzg_v", "kzg_w"}
     /\ i.jobs \in Seq(Jobs \ {"body"})
     /\ \A c \in Range(i.jobs) : Spawner(c) = <<j, n>>
     /\ \A k, l \in 1 .. Len(i.jobs) : i.jobs[k] = i.jobs[l] => k = l
  \/ i.op = "join" /\ j \in {"body", "tipp", "kzg_v", "kzg_w"}
  \/ i.op = "send" /\ j = "body" /\ n = 5
  \/ i.op = "send" /\ j \in {"tipp", "check_v1", "check_v2", "check_w1", "check_w2"}
  \/ i.op = "final_z" /\ j = "tipp"
  \/ i.op = "replay" /\ j = "tipp"
  \/ i.op = "geometric" /\ j = "body" /\ n = 2
  \/ i.op = "collect" /\ j = "collector" /\ n = 1

LEMMA PairOfJobs ==
  ASSUME NEW a \in Jobs \ {"body"}, NEW b \in Jobs \ {"body"}, a # b
  PROVE  /\ <<a, b>> \in Seq(Jobs \ {"body"})
         /\ Range(<<a, b>>) = {a, b}
         /\ \A k, l \in 1 .. Len(<<a, b>>) : <<a, b>>[k] = <<a, b>>[l] => k = l
  BY DEF Range

LEMMA ThreeParts ==
  /\ Parts \in Seq(Jobs \ {"body"})
  /\ Range(Parts) = {"left", "right", "middle"}
  /\ \A k, l \in 1 .. Len(Parts) : Parts[k] = Parts[l] => k = l
  <1>1. Len(Parts) = 3 /\ Parts[1] = "left" /\ Parts[2] = "right" /\ Parts[3] = "middle"
    BY DEF Parts
  <1>2. Parts \in Seq(Jobs \ {"body"}) /\ DOMAIN Parts = 1 .. 3
    BY JobNames DEF Parts
  <1>3. Range(Parts) = {"left", "right", "middle"}
    BY <1>1, <1>2 DEF Range
  <1>. QED
    BY <1>1, <1>2, <1>3

LEMMA PairSpawned ==
  ASSUME NEW j \in {"body", "tipp", "kzg_v", "kzg_w"}, NEW n,
         NEW a \in Jobs \ {"body"}, NEW b \in Jobs \ {"body"}, a # b,
         Program[j][n] = Spawn(<<a, b>>),
         Spawner(a) = <<j, n>>, Spawner(b) = <<j, n>>
  PROVE  StepIs(j, n)
  <1>1. PICK s : s = <<a, b>>
    OBVIOUS
  <1>2. Program[j][n].op = "spawn" /\ Program[j][n].jobs = s
    BY <1>1, Operations
  <1>3. /\ s \in Seq(Jobs \ {"body"})
        /\ \A k, l \in 1 .. Len(s) : s[k] = s[l] => k = l
    BY <1>1, PairOfJobs
  <1>4. \A c \in Range(s) : Spawner(c) = <<j, n>>
    BY <1>1, PairOfJobs
  <1>. QED
    BY <1>2, <1>3, <1>4 DEF StepIs

LEMMA StepFacts ==
  ASSUME NEW j \in Jobs
  PROVE  /\ Len(Program[j]) \in Nat
         /\ \A n \in 1 .. Len(Program[j]) : StepIs(j, n)
  <1>1. CASE j = "body"
    <2>1. Len(Program[j]) = 6
      BY <1>1, BodySteps
    <2>2. StepIs(j, 1)
      <3>1. Program[j][1] = Spawn(<<"collector", "tipp">>)
        BY <1>1, BodySteps
      <3>2. Spawner("collector") = <<j, 1>> /\ Spawner("tipp") = <<j, 1>>
        BY <1>1 DEF Spawner
      <3>. QED
        BY <1>1, <3>1, <3>2, PairSpawned, JobNames
    <2>3. StepIs(j, 3)
      <3>1. Program[j][3] = Spawn(Parts)
        BY <1>1, BodySteps
      <3>2. \A c \in {"left", "right", "middle"} : Spawner(c) = <<j, 3>>
        BY <1>1 DEF Spawner
      <3>. QED
        BY <1>1, <3>1, <3>2, Operations, ThreeParts DEF StepIs
    <2>4. StepIs(j, 2) /\ StepIs(j, 4) /\ StepIs(j, 5) /\ StepIs(j, 6)
      BY <1>1, BodySteps, Operations DEF StepIs
    <2>. QED
      BY <2>1, <2>2, <2>3, <2>4
  <1>2. CASE j = "tipp"
    <2>1. Len(Program[j]) = 9
      BY <1>2, TippSteps
    <2>2. StepIs(j, 2)
      <3>1. Program[j][2] = Spawn(<<"kzg_v", "kzg_w">>)
        BY <1>2, TippSteps
      <3>2. Spawner("kzg_v") = <<j, 2>> /\ Spawner("kzg_w") = <<j, 2>>
        BY <1>2 DEF Spawner
      <3>. QED
        BY <1>2, <3>1, <3>2, PairSpawned, JobNames
    <2>3. /\ StepIs(j, 1) /\ StepIs(j, 3) /\ StepIs(j, 4) /\ StepIs(j, 5)
          /\ StepIs(j, 6) /\ StepIs(j, 7) /\ StepIs(j, 8) /\ StepIs(j, 9)
      BY <1>2, TippSteps, Operations DEF StepIs
    <2>. QED
      BY <2>1, <2>2, <2>3
  <1>3. CASE j = "kzg_v"
    <2>1. /\ Len(Program[j]) = 2 /\ Program[j][1] = Spawn(<<"check_v1", "check_v2">>)
          /\ Program[j][2] = Join({"check_v1", "check_v2"})
      BY <1>3, OtherSteps
    <2>2. Spawner("check_v1") = <<j, 1>> /\ Spawner("check_v2") = <<j, 1>>
      BY <1>3 DEF Spawner
    <2>3. StepIs(j, 1)
      BY <1>3, <2>1, <2>2, PairSpawned, JobNames
    <2>4. StepIs(j, 2)
      BY <1>3, <2>1, Operations DEF StepIs
    <2>. QED
      BY <2>1, <2>3, <2>4
  <1>4. CASE j = "kzg_w"
    <2>1. /\ Len(Program[j]) = 2 /\ Program[j][1] = Spawn(<<"check_w1", "check_w2">>)
          /\ Program[j][2] = Join({"check_w1", "check_w2"})
      BY <1>4, OtherSteps
    <2>2. Spawner("check_w1") = <<j, 1>> /\ Spawner("check_w2") = <<j, 1>>
      BY <1>4 DEF Spawner
    <2>3. StepIs(j, 1)
      BY <1>4, <2>1, <2>2, PairSpawned, JobNames
    <2>4. StepIs(j, 2)
      BY <1>4, <2>1, Operations DEF StepIs
    <2>. QED
      BY <2>1, <2>3, <2>4
  <1>5. CASE j \in {"collector", "check_v1", "check_v2", "check_w1", "check_w2"}
    <2>1. CASE j = "collector"
      <3>1. Len(Program[j]) = 1 /\ Program[j][1] = Do("collect")
        BY <2>1, OtherSteps
      <3>2. StepIs(j, 1)
        BY <2>1, <3>1, Operations DEF StepIs
      <3>. QED
        BY <3>1, <3>2
    <2>2. CASE j # "collector"
      <3>1. PICK c : Program[j] = <<Send(c)>>
        BY <1>5, <2>2, OtherSteps
      <3>2. Len(Program[j]) = 1 /\ Program[j][1] = Send(c)
        BY <3>1
      <3>3. StepIs(j, 1)
        BY <1>5, <2>2, <3>2, Operations DEF StepIs
      <3>. QED
        BY <3>2, <3>3
    <2>. QED
      BY <2>1, <2>2
  <1>6. CASE j \in {"left", "right", "middle"}
    BY <1>6, OtherSteps
  <1>. QED
    BY <1>1, <1>2, <1>3, <1>4, <1>5, <1>6, JobNames

-----------------------------------------------------------------------------
LEMMA LastElement ==
  ASSUME NEW S, NEW q \in Seq(S), q # <<>>
  PROVE  Len(q) \in Nat /\ Len(q) \in 1 .. Len(q) /\ q[Len(q)] \in S
  OBVIOUS

\* The frame a worker is in.
LEMMA TopFrame ==
  ASSUME PoolTypeOK, NEW w \in Workers, stack[w] # <<>>
  PROVE  /\ Len(stack[w]) \in Nat /\ Len(stack[w]) \in 1 .. Len(stack[w])
         /\ Top(w) = stack[w][Len(stack[w])]
         /\ Top(w).job \in Jobs /\ Top(w).pc \in Nat
         /\ Top(w).pc \in 1 .. Len(Program[Top(w).job]) + 1
         /\ Top(w) = [job |-> Top(w).job, pc |-> Top(w).pc]
  <1>. DEFINE q == stack[w]
  <1>1. q \in Seq([job : Jobs, pc : Nat]) /\ q # <<>>
    BY DEF PoolTypeOK
  <1>2. \A i \in 1 .. Len(q) : q[i].pc \in 1 .. Len(Program[q[i].job]) + 1
    BY DEF PoolTypeOK
  <1>3. Top(w) = q[Len(q)]
    BY DEF Top, Last
  <1>. HIDE DEF q
  <1>4. Len(q) \in Nat /\ Len(q) \in 1 .. Len(q) /\ q[Len(q)] \in [job : Jobs, pc : Nat]
    BY <1>1, LastElement
  <1>. QED
    BY <1>2, <1>3, <1>4 DEF q

\* The step a worker is at.
LEMMA AtStep ==
  ASSUME PoolTypeOK, NEW w \in Workers, NEW op, At(w, op)
  PROVE  /\ stack[w] # <<>>
         /\ Top(w).job \in Jobs
         /\ Top(w).pc \in 1 .. Len(Program[Top(w).job])
         /\ Top(w).pc \in Nat
         /\ Instr(w) = Program[Top(w).job][Top(w).pc]
         /\ Instr(w).op = op
         /\ StepIs(Top(w).job, Top(w).pc)
  <1>1. stack[w] # <<>> /\ ~ Ended(w) /\ Instr(w).op = op
    BY DEF At
  <1>2. Top(w).pc \in 1 .. Len(Program[Top(w).job])
    BY <1>1, TopFrame, StepFacts DEF Ended
  <1>. QED
    BY <1>1, <1>2, TopFrame, StepFacts DEF Instr

\* A worker that goes on in its job.
LEMMA GoToFrames ==
  ASSUME PoolTypeOK, NEW w \in Workers, stack[w] # <<>>, NEW m \in Nat, GoTo(w, m),
         m \in 1 .. Len(Program[Top(w).job]) + 1
  PROVE  /\ stack' \in [Workers -> Seq([job : Jobs, pc : Nat])]
         /\ \A v \in Workers : Len(stack'[v]) = Len(stack[v])
         /\ \A v \in Workers : \A i \in 1 .. Len(stack[v]) :
              /\ stack'[v][i].job = stack[v][i].job
              /\ stack'[v][i].pc = IF v = w /\ i = Len(stack[w]) THEN m ELSE stack[v][i].pc
              /\ stack'[v][i].pc \in 1 .. Len(Program[stack'[v][i].job]) + 1
  <1>. DEFINE q == stack[w]
              F == [job : Jobs, pc : Nat]
  <1>1. stack \in [Workers -> Seq(F)] /\ q \in Seq(F) /\ q # <<>>
    BY DEF PoolTypeOK
  <1>2. stack' = [stack EXCEPT ![w] = [q EXCEPT ![Len(q)] = [q[Len(q)] EXCEPT !.pc = m]]]
    BY DEF GoTo
  <1>3. PICK r : r = [q EXCEPT ![Len(q)] = [q[Len(q)] EXCEPT !.pc = m]]
    OBVIOUS
  <1>4. /\ r \in Seq(F) /\ Len(r) = Len(q)
        /\ \A i \in 1 .. Len(q) : /\ r[i].job = q[i].job
                                 /\ r[i].pc = IF i = Len(q) THEN m ELSE q[i].pc
    <2>. HIDE DEF q
    <2>1. q[Len(q)] \in F /\ Len(q) \in 1 .. Len(q)
      BY <1>1, LastElement
    <2>2. PICK f : f = [q[Len(q)] EXCEPT !.pc = m]
      OBVIOUS
    <2>3. f \in F /\ f.job = q[Len(q)].job /\ f.pc = m
      BY <2>1, <2>2
    <2>. HIDE DEF F
    <2>4. r = [q EXCEPT ![Len(q)] = f]
      BY <1>3, <2>2
    <2>5. r \in Seq(F) /\ Len(r) = Len(q)
      BY <1>1, <2>1, <2>3, <2>4
    <2>6. \A i \in 1 .. Len(q) : r[i] = IF i = Len(q) THEN f ELSE q[i]
      BY <1>1, <2>1, <2>4
    <2>. QED
      BY <2>3, <2>5, <2>6
  <1>5. \A v \in Workers : stack'[v] = IF v = w THEN r ELSE stack[v]
    BY <1>1, <1>2, <1>3
  <1>6. stack' \in [Workers -> Seq(F)]
    <2>. HIDE DEF F, q
    <2>. QED
      BY <1>1, <1>2, <1>3, <1>4
  <1>7. \A v \in Workers : Len(stack'[v]) = Len(stack[v])
    BY <1>4, <1>5
  <1>8. \A v \in Workers : \A i \in 1 .. Len(stack[v]) :
          /\ stack'[v][i].job = stack[v][i].job
          /\ stack'[v][i].pc = IF v = w /\ i = Len(stack[w]) THEN m ELSE stack[v][i].pc
    BY <1>4, <1>5
  <1>9. \A v \in Workers : \A i \in 1 .. Len(stack[v]) :
          stack[v][i].pc \in 1 .. Len(Program[stack[v][i].job]) + 1
    BY DEF PoolTypeOK
  <1>10. Top(w) = q[Len(q)]
    BY DEF Top, Last
  <1>11. ASSUME NEW v \in Workers, NEW i \in 1 .. Len(stack[v])
         PROVE  stack'[v][i].pc \in 1 .. Len(Program[stack'[v][i].job]) + 1
    <2>1. CASE v = w /\ i = Len(q)
      BY <1>8, <1>10, <2>1
    <2>2. CASE ~ (v = w /\ i = Len(q))
      BY <1>8, <1>9, <2>2
    <2>. QED
      BY <2>1, <2>2
  <1>. QED
    BY <1>6, <1>7, <1>8, <1>11

\* The elements of a sequence.
LEMMA InRange ==
  ASSUME NEW S, NEW q \in Seq(S), NEW i \in 1 .. Len(q)
  PROVE  q[i] \in Range(q)
  BY DEF Range

LEMMA FromRange ==
  ASSUME NEW S, NEW q \in Seq(S), NEW x \in Range(q)
  PROVE  \E i \in 1 .. Len(q) : x = q[i]
  BY DEF Range

-----------------------------------------------------------------------------
\* What was decided covers every check: tipp ended, so the jobs that it and
\* its jobs waited for ended too, and the body is past its own check.
LEMMA Covered == PoolInv => AllChecksCount
  <1>. SUFFICES ASSUME PoolInv, verdict \in {"valid", "invalid"}
                PROVE  /\ channel = <<>>
                       /\ \A w \in Workers : ~ At(w, "send") /\ ~ At(w, "final_z")
                       /\ \A w \in Workers : "kzg_v" \notin Range(deque[w]) /\ "kzg_w" \notin Range(deque[w])
                       /\ "tipp" \in finished
    BY DEF AllChecksCount
  <1>1. channel = <<>> /\ ~ SendersOpenBody /\ "tipp" \in finished
    BY DEF PoolInv, DecidedInv, SendersOpen
  <1>2. {"kzg_v", "kzg_w"} \subseteq finished
    <2>1. /\ "tipp" \in Jobs \ {"body"} /\ 3 \in 1 .. Len(Program["tipp"])
          /\ Program["tipp"][3].op = "join" /\ Program["tipp"][3].jobs = {"kzg_v", "kzg_w"}
      BY JobNames, TippSteps, Operations
    <2>2. Past("tipp", 3)
      BY <1>1 DEF Past
    <2>. QED
      BY <2>1, <2>2 DEF PoolInv, JoinInv
  <1>3. {"check_v1", "check_v2"} \subseteq finished
    <2>1. /\ "kzg_v" \in Jobs \ {"body"} /\ Len(Program["kzg_v"]) = 2
          /\ Program["kzg_v"][2] = Join({"check_v1", "check_v2"})
      BY JobNames, OtherSteps
    <2>2. Past("kzg_v", 2)
      BY <1>2 DEF Past
    <2>. QED
      BY <2>1, <2>2, Operations DEF PoolInv, JoinInv
  <1>4. {"check_w1", "check_w2"} \subseteq finished
    <2>1. /\ "kzg_w" \in Jobs \ {"body"} /\ Len(Program["kzg_w"]) = 2
          /\ Program["kzg_w"][2] = Join({"check_w1", "check_w2"})
      BY JobNames, OtherSteps
    <2>2. Past("kzg_w", 2)
      BY <1>2 DEF Past
    <2>. QED
      BY <2>1, <2>2, Operations DEF PoolInv, JoinInv
  <1>5. \A j \in finished : ~ Running(j) /\ ~ Queued(j)
    BY DEF PoolInv, PoolTypeOK, OnePlaceInv
  <1>6. ASSUME NEW w \in Workers, NEW op \in {"send", "final_z"}, At(w, op) PROVE FALSE
    <2>1. /\ stack[w] # <<>> /\ Instr(w).op = op
          /\ Instr(w) = Program[Top(w).job][Top(w).pc]
          /\ StepIs(Top(w).job, Top(w).pc)
      BY <1>6, AtStep DEF PoolInv
    <2>2. /\ Len(stack[w]) \in 1 .. Len(stack[w]) /\ Top(w) = stack[w][Len(stack[w])]
          /\ Running(Top(w).job)
      BY <2>1, TopFrame DEF PoolInv, Running
    <2>3. \/ Top(w).job = "body" /\ Top(w).pc = 5
          \/ Top(w).job \in {"tipp", "check_v1", "check_v2", "check_w1", "check_w2"}
      BY <1>6, <2>1 DEF StepIs
    <2>4. CASE Top(w).job = "body" /\ Top(w).pc = 5
      <3>0. stack[w] \in Seq([job : Jobs, pc : Nat])
        BY DEF PoolInv, PoolTypeOK
      <3>1. Top(w) \in Range(stack[w])
        BY <2>2, <3>0, InRange
      <3>2. Len(Program["body"]) = 6
        BY BodySteps
      <3>. QED
        BY <1>1, <2>4, <3>1, <3>2 DEF SendersOpenBody
    <2>. QED
      BY <1>1, <1>3, <1>4, <1>5, <2>2, <2>3, <2>4
  <1>7. ASSUME NEW w \in Workers, NEW j \in {"kzg_v", "kzg_w"} PROVE j \notin Range(deque[w])
    <2>1. deque[w] \in Seq(Jobs \ {"body"})
      BY DEF PoolInv, PoolTypeOK
    <2>2. SUFFICES ASSUME j \in Range(deque[w]) PROVE FALSE
      OBVIOUS
    <2>3. \E i \in 1 .. Len(deque[w]) : j = deque[w][i]
      BY <2>1, <2>2, FromRange
    <2>. QED
      BY <1>2, <1>5, <2>3 DEF Queued
  <1>. QED
    BY <1>1, <1>6, <1>7

-----------------------------------------------------------------------------
\* A worker that goes on in its job leaves every job where it is.
LEMMA FrameGoesOn ==
  ASSUME PoolInv, NEW w \in Workers, stack[w] # <<>>, NEW m \in Nat, GoTo(w, m),
         m \in 1 .. Len(Program[Top(w).job]) + 1, Top(w).pc < m,
         UNCHANGED finished,
         \/ Top(w).job = "body"
         \/ /\ m = Top(w).pc + 1
            /\ Instr(w).op = "join" => Instr(w).jobs \subseteq finished
  PROVE  /\ stack' \in [Workers -> Seq([job : Jobs, pc : Nat])]
         /\ \A v \in Workers : \A i \in 1 .. Len(stack'[v]) :
              stack'[v][i].pc \in 1 .. Len(Program[stack'[v][i].job]) + 1
         /\ \A u, v \in Workers : \A i \in 1 .. Len(stack'[u]), k \in 1 .. Len(stack'[v]) :
              stack'[u][i].job = stack'[v][k].job => u = v /\ i = k
         /\ \A j : Running(j)' <=> Running(j)
         /\ \A j : \A n \in Nat : Past(j, n) => Past(j, n)'
         /\ \A j, n : j = Top(w).job /\ n = Top(w).pc => Past(j, n)'
         /\ JoinInv'
         /\ SendersOpen' => SendersOpen
  <1>. DEFINE L == Len(stack[w])
  <1>1. /\ stack' \in [Workers -> Seq([job : Jobs, pc : Nat])]
        /\ \A v \in Workers : Len(stack'[v]) = Len(stack[v])
        /\ \A v \in Workers : \A i \in 1 .. Len(stack[v]) :
             /\ stack'[v][i].job = stack[v][i].job
             /\ stack'[v][i].pc = IF v = w /\ i = L THEN m ELSE stack[v][i].pc
             /\ stack'[v][i].pc \in 1 .. Len(Program[stack'[v][i].job]) + 1
    BY GoToFrames DEF PoolInv
  <1>2. /\ L \in 1 .. L /\ Top(w) = stack[w][L] /\ Top(w).job \in Jobs
        /\ Top(w).pc \in Nat
    BY TopFrame DEF PoolInv
  <1>3. \A v \in Workers : \A i \in 1 .. Len(stack[v]) : stack[v][i].pc \in Nat
    BY StepFacts DEF PoolInv, PoolTypeOK
  <1>5. \A j : Running(j)' <=> Running(j)
    <2>1. ASSUME NEW j, Running(j) PROVE Running(j)'
      <3>1. PICK v \in Workers, i \in Int : i \in 1 .. Len(stack[v]) /\ stack[v][i].job = j
        BY <2>1 DEF Running
      <3>2. i \in 1 .. Len(stack'[v]) /\ stack'[v][i].job = j
        BY <1>1, <3>1
      <3>. QED
        BY <3>2 DEF Running
    <2>2. ASSUME NEW j, Running(j)' PROVE Running(j)
      <3>1. PICK v \in Workers, i \in Int : i \in 1 .. Len(stack'[v]) /\ stack'[v][i].job = j
        BY <2>2 DEF Running
      <3>2. i \in 1 .. Len(stack[v]) /\ stack[v][i].job = j
        BY <1>1, <3>1
      <3>. QED
        BY <3>2 DEF Running
    <2>. QED
      BY <2>1, <2>2
  <1>7. ASSUME NEW u \in Workers, NEW v \in Workers,
               NEW i \in 1 .. Len(stack'[u]), NEW k \in 1 .. Len(stack'[v]),
               stack'[u][i].job = stack'[v][k].job
        PROVE  u = v /\ i = k
    <2>1. /\ i \in 1 .. Len(stack[u]) /\ k \in 1 .. Len(stack[v])
          /\ stack[u][i].job = stack[v][k].job
      BY <1>1, <1>7
    <2>. QED
      BY <2>1 DEF PoolInv, OnePlaceInv
  <1>8. ASSUME NEW j, NEW n \in Nat, Past(j, n) PROVE Past(j, n)'
    <2>1. CASE j \in finished
      BY <2>1 DEF Past
    <2>2. CASE \E v \in Workers : \E i \in 1 .. Len(stack[v]) : stack[v][i].job = j /\ n < stack[v][i].pc
      <3>1. PICK v \in Workers, i \in Int :
              i \in 1 .. Len(stack[v]) /\ stack[v][i].job = j /\ n < stack[v][i].pc
        BY <2>2
      <3>2. i \in 1 .. Len(stack'[v]) /\ stack'[v][i].job = j
        BY <1>1, <3>1
      <3>3. stack[v][i].pc \in Nat /\ stack'[v][i].pc >= stack[v][i].pc
        <4>1. stack'[v][i].pc = IF v = w /\ i = L THEN m ELSE stack[v][i].pc
          BY <1>1, <3>1
        <4>2. stack[v][i].pc \in Nat /\ (v = w /\ i = L => stack[v][i].pc = Top(w).pc)
          BY <1>2, <1>3, <3>1
        <4>. HIDE DEF L
        <4>. QED
          BY <1>2, <4>1, <4>2
      <3>4. stack'[v][i].pc \in Nat
        BY <1>1, <1>3, <3>1
      <3>. QED
        BY <3>1, <3>2, <3>3, <3>4 DEF Past
    <2>. QED
      BY <1>8, <2>1, <2>2 DEF Past
  <1>10. JoinInv'
    <2>. SUFFICES ASSUME NEW j \in Jobs \ {"body"}, NEW n \in 1 .. Len(Program[j]),
                         Program[j][n].op = "join", Past(j, n)'
                  PROVE  Program[j][n].jobs \subseteq finished
      BY DEF JoinInv
    <2>0. n \in Nat
      BY StepFacts
    <2>1. CASE Past(j, n)
      BY <2>1 DEF PoolInv, JoinInv
    <2>2. CASE ~ Past(j, n)
      <3>1. PICK v \in Workers, i \in Int :
              i \in 1 .. Len(stack'[v]) /\ stack'[v][i].job = j /\ n < stack'[v][i].pc
        BY <2>2 DEF Past
      <3>2. i \in 1 .. Len(stack[v]) /\ stack[v][i].job = j /\ ~ (n < stack[v][i].pc)
        <4>1. i \in 1 .. Len(stack[v]) /\ stack[v][i].job = j
          BY <1>1, <3>1
        <4>. QED
          BY <2>2, <4>1 DEF Past
      <3>3. v = w /\ i = L
        BY <1>1, <3>1, <3>2
      <3>4. j = Top(w).job /\ n < m /\ ~ (n < Top(w).pc)
        BY <1>1, <1>2, <3>1, <3>2, <3>3
      <3>5. m = Top(w).pc + 1 /\ (Instr(w).op = "join" => Instr(w).jobs \subseteq finished)
        BY <3>4
      <3>6. n = Top(w).pc
        BY <1>2, <2>0, <3>4, <3>5
      <3>. QED
        BY <3>4, <3>5, <3>6 DEF Instr
    <2>. QED
      BY <2>1, <2>2
  <1>12. ASSUME SendersOpen' PROVE SendersOpen
    <2>1. CASE "tipp" \notin finished'
      BY <2>1 DEF SendersOpen
    <2>2. CASE SendersOpenBody'
      <3>0. Len(Program["body"]) = 6
        BY BodySteps
      <3>1. PICK v \in Workers : \E f \in Range(stack'[v]) : f.job = "body" /\ f.pc < 6
        BY <2>2, <3>0 DEF SendersOpenBody
      <3>a. PICK f \in Range(stack'[v]) : f.job = "body" /\ f.pc < 6
        BY <3>1
      <3>2. PICK i \in 1 .. Len(stack'[v]) : f = stack'[v][i]
        <4>1. stack'[v] \in Seq([job : Jobs, pc : Nat])
          BY <1>1
        <4>2. f \in Range(stack'[v])
          BY <3>a
        <4>. QED
          BY <4>1, <4>2, FromRange
      <3>3. /\ i \in 1 .. Len(stack[v]) /\ stack[v][i].job = "body"
        BY <1>1, <3>a, <3>2
      <3>4. stack[v][i].pc < 6
        <4>1. stack'[v][i].pc = IF v = w /\ i = L THEN m ELSE stack[v][i].pc
          BY <1>1, <3>3
        <4>2. v = w /\ i = L => stack[v][i].pc = Top(w).pc
          BY <1>2
        <4>3. stack'[v][i].pc < 6
          BY <3>a, <3>2
        <4>. HIDE DEF L
        <4>. QED
          BY <1>2, <4>1, <4>2, <4>3
      <3>5. stack[v][i] \in Range(stack[v])
        <4>1. stack[v] \in Seq([job : Jobs, pc : Nat])
          BY DEF PoolInv, PoolTypeOK
        <4>. QED
          BY <3>3, <4>1, InRange
      <3>. QED
        BY <3>0, <3>3, <3>4, <3>5 DEF SendersOpen, SendersOpenBody
    <2>. QED
      BY <1>12, <2>1, <2>2 DEF SendersOpen
  <1>13. ASSUME NEW j, NEW n, j = Top(w).job, n = Top(w).pc PROVE Past(j, n)'
    <2>1. /\ L \in 1 .. Len(stack'[w]) /\ stack'[w][L].job = j
          /\ n < stack'[w][L].pc
      BY <1>1, <1>2, <1>13
    <2>. QED
      BY <2>1 DEF Past
  <1>14. \A v \in Workers : \A i \in 1 .. Len(stack'[v]) :
           stack'[v][i].pc \in 1 .. Len(Program[stack'[v][i].job]) + 1
    BY <1>1
  <1>. QED
    BY <1>1, <1>5, <1>7, <1>8, <1>10, <1>12, <1>13, <1>14

-----------------------------------------------------------------------------
\* With the queues as they were, that is all the invariant asks.
LEMMA GoesOn ==
  ASSUME PoolInv, NEW w \in Workers, stack[w] # <<>>, NEW m \in Nat, GoTo(w, m),
         m \in 1 .. Len(Program[Top(w).job]) + 1, Top(w).pc < m,
         UNCHANGED <<deque, finished, phase>>,
         verdict' \in {"none", "panic", "valid", "invalid"},
         \/ Top(w).job = "body"
         \/ /\ m = Top(w).pc + 1
            /\ Instr(w).op = "join" => Instr(w).jobs \subseteq finished
  PROVE  PoolTypeOK' /\ OnePlaceInv' /\ SpawnInv' /\ JoinInv' /\ BeforeInv'
  <1>1. /\ stack' \in [Workers -> Seq([job : Jobs, pc : Nat])]
        /\ \A v \in Workers : \A i \in 1 .. Len(stack'[v]) :
             stack'[v][i].pc \in 1 .. Len(Program[stack'[v][i].job]) + 1
        /\ \A u, v \in Workers : \A i \in 1 .. Len(stack'[u]), k \in 1 .. Len(stack'[v]) :
             stack'[u][i].job = stack'[v][k].job => u = v /\ i = k
        /\ \A j : Running(j)' <=> Running(j)
        /\ \A j : \A n \in Nat : Past(j, n) => Past(j, n)'
        /\ JoinInv'
    BY FrameGoesOn
  <1>2. PoolTypeOK'
    BY <1>1 DEF PoolInv, PoolTypeOK
  <1>3. \A j : Queued(j)' <=> Queued(j)
    BY DEF Queued
  <1>4. OnePlaceInv'
    BY <1>1, <1>3 DEF PoolInv, OnePlaceInv
  <1>5. SpawnInv'
    <2>. SUFFICES ASSUME NEW j \in Jobs, NEW n \in 1 .. Len(Program[j]),
                         Program[j][n].op = "spawn",
                         NEW c \in Range(Program[j][n].jobs), Known(c)'
                  PROVE  Past(j, n)'
      BY DEF SpawnInv
    <2>1. Known(c)
      BY <1>1, <1>3 DEF Known
    <2>2. n \in Nat
      BY StepFacts
    <2>. QED
      BY <1>1, <2>1, <2>2 DEF PoolInv, SpawnInv
  <1>6. BeforeInv'
    BY DEF PoolInv, BeforeInv
  <1>. QED
    BY <1>1, <1>2, <1>4, <1>5, <1>6

\* A step that leaves the verdict, the channel and the senders alone.
LEMMA StillDecided ==
  ASSUME PoolInv, UNCHANGED <<channel, verdict>>,
         SendersOpen' => SendersOpen, Past("collector", 1) => Past("collector", 1)'
  PROVE  DecidedInv'
  BY DEF PoolInv, DecidedInv

\* What the spawners and the joins say still holds after a step that moves no
\* job beyond or back over a step of its own, and forgets no finished job.
LEMMA StillSpawned ==
  ASSUME PoolInv,
         \A j \in Jobs : \A n \in 1 .. Len(Program[j]) : Past(j, n)' <=> Past(j, n),
         \A j \in Jobs : Known(j)' => Known(j),
         finished \subseteq finished'
  PROVE  SpawnInv' /\ JoinInv'
  <1>1. ASSUME NEW j \in Jobs, NEW n \in 1 .. Len(Program[j]), Program[j][n].op = "spawn",
               NEW c \in Range(Program[j][n].jobs), Known(c)'
        PROVE  Past(j, n)'
    <2>1. StepIs(j, n) /\ "spawn" \notin {"join", "send", "final_z", "replay", "geometric", "collect"}
      BY StepFacts
    <2>2. Program[j][n].jobs \in Seq(Jobs \ {"body"})
      BY <1>1, <2>1 DEF StepIs
    <2>3. c \in Jobs
      BY <2>2, FromRange
    <2>4. Known(c)
      BY <1>1, <2>3
    <2>. QED
      BY <1>1, <2>4 DEF PoolInv, SpawnInv
  <1>2. ASSUME NEW j \in Jobs \ {"body"}, NEW n \in 1 .. Len(Program[j]),
               Program[j][n].op = "join", Past(j, n)'
        PROVE  Program[j][n].jobs \subseteq finished'
    BY <1>2 DEF PoolInv, JoinInv
  <1>. QED
    BY <1>1, <1>2 DEF SpawnInv, JoinInv

-----------------------------------------------------------------------------
\* A pool no job was given to.
LEMMA EmptyPool ==
  ASSUME \A w \in Workers : stack[w] = <<>> /\ deque[w] = <<>>, finished = {},
         NEW j, NEW n
  PROVE  ~ Running(j) /\ ~ Queued(j) /\ ~ Past(j, n)
  BY DEF Running, Queued, Past

LEMMA InitPool == Init => PoolInv
  <1>. SUFFICES ASSUME Init PROVE PoolInv
    OBVIOUS
  <1>1. /\ stack = [w \in Workers |-> <<>>] /\ deque = [w \in Workers |-> <<>>]
        /\ finished = {} /\ channel = <<>> /\ verdict = "none"
    BY DEF Init, PoolInit
  <1>2. \A w \in Workers : stack[w] = <<>> /\ deque[w] = <<>>
    BY <1>1
  <1>3. PoolTypeOK
    BY <1>1, <1>2 DEF PoolTypeOK
  <1>4. OnePlaceInv
    BY <1>1, <1>2, EmptyPool DEF OnePlaceInv
  <1>5. SpawnInv /\ JoinInv
    BY <1>1, <1>2, EmptyPool DEF SpawnInv, JoinInv, Known
  <1>. QED
    BY <1>1, <1>2, <1>3, <1>4, <1>5 DEF PoolInv, BeforeInv, DecidedInv

\* The prover works before the pool does.
LEMMA ProverKeepsPool ==
  ASSUME PoolInv, ProverStep, UNCHANGED poolVars
  PROVE  PoolInv'
  <1>1. phase \in {"commit", "fold"}
    BY DEF ProverStep, Refuse, Commit, FoldRound, Open
  <1>2. UNCHANGED <<stack, deque, finished, channel, verdict>>
    BY DEF poolVars
  <1>3. PoolTypeOK'
    BY <1>2 DEF PoolInv, PoolTypeOK
  <1>4. OnePlaceInv'
    BY <1>2 DEF PoolInv, OnePlaceInv, Running, Queued
  <1>5. SpawnInv' /\ JoinInv'
    BY <1>2 DEF PoolInv, SpawnInv, JoinInv, Known, Running, Queued, Past
  <1>6. DecidedInv'
    BY <1>2 DEF PoolInv, DecidedInv, SendersOpen, SendersOpenBody, Past
  <1>7. BeforeInv'
    BY <1>1, <1>2 DEF PoolInv, BeforeInv
  <1>. QED
    BY <1>3, <1>4, <1>5, <1>6, <1>7 DEF PoolInv

\* One worker enters the scope: the body is the one job there is.
LEMMA BeginKeepsPool ==
  ASSUME PoolInv, BeginVerify
  PROVE  PoolInv'
  <1>1. /\ \A w \in Workers : stack[w] = <<>> /\ deque[w] = <<>>
        /\ finished = {} /\ channel = <<>> /\ verdict = "none"
    BY DEF PoolInv, BeforeInv, BeginVerify
  <1>2. UNCHANGED <<deque, finished, channel, verdict>>
    BY DEF BeginVerify
  <1>3. phase' \notin {"commit", "fold", "aggregated"}
    BY DEF BeginVerify
  <1>4. /\ \A w \in Workers : deque'[w] = <<>>
        /\ \A j : ~ Queued(j)'
    BY <1>1, <1>2 DEF Queued
  <1>5. CASE UNCHANGED stack
    <2>1. \A w \in Workers : stack'[w] = <<>>
      BY <1>1, <1>5
    <2>2. \A j, n : ~ Running(j)' /\ ~ Past(j, n)'
      BY <1>1, <1>2, <2>1 DEF Running, Past
    <2>3. PoolTypeOK'
      BY <1>2, <1>5 DEF PoolInv, PoolTypeOK
    <2>4. OnePlaceInv'
      BY <1>4, <2>1, <2>2 DEF OnePlaceInv
    <2>5. SpawnInv' /\ JoinInv'
      BY <1>1, <1>2, <1>4, <2>2 DEF SpawnInv, JoinInv, Known
    <2>. QED
      BY <1>1, <1>2, <1>3, <2>3, <2>4, <2>5 DEF PoolInv, BeforeInv, DecidedInv
  <1>6. ASSUME NEW w \in Workers, stack' = [stack EXCEPT ![w] = <<Frame("body")>>]
        PROVE  PoolInv'
    <2>1. PICK q : q = <<Frame("body")>>
      OBVIOUS
    <2>2. /\ q \in Seq([job : Jobs, pc : Nat]) /\ Len(q) = 1
          /\ \A i \in 1 .. Len(q) : i = 1 /\ q[i].job = "body" /\ q[i].pc = 1
      BY <2>1, JobNames DEF Frame
    <2>3. /\ stack \in [Workers -> Seq([job : Jobs, pc : Nat])]
          /\ deque \in [Workers -> Seq(Jobs \ {"body"})]
      BY DEF PoolInv, PoolTypeOK
    <2>4. /\ stack' \in [Workers -> Seq([job : Jobs, pc : Nat])]
          /\ \A v \in Workers : stack'[v] = IF v = w THEN q ELSE <<>>
      BY <1>1, <1>6, <2>1, <2>2, <2>3
    <2>5. \A v \in Workers : \A i \in 1 .. Len(stack'[v]) :
            v = w /\ i = 1 /\ stack'[v][i].job = "body" /\ stack'[v][i].pc = 1
      <3>. SUFFICES ASSUME NEW v \in Workers, NEW i \in 1 .. Len(stack'[v])
                    PROVE  v = w /\ i = 1 /\ stack'[v][i].job = "body" /\ stack'[v][i].pc = 1
        OBVIOUS
      <3>1. CASE v = w
        <4>1. stack'[v] = q
          BY <2>4, <3>1
        <4>. QED
          BY <2>2, <3>1, <4>1
      <3>2. CASE v # w
        <4>1. stack'[v] = <<>>
          BY <2>4, <3>2
        <4>. QED
          BY <4>1
      <3>. QED
        BY <3>1, <3>2
    <2>6. PoolTypeOK'
      <3>1. \A v \in Workers : \A i \in 1 .. Len(stack'[v]) :
              stack'[v][i].pc \in 1 .. Len(Program[stack'[v][i].job]) + 1
        BY <2>5, BodySteps
      <3>. QED
        BY <1>1, <1>2, <2>3, <2>4, <3>1 DEF PoolTypeOK
    <2>7. /\ \A j : Running(j)' => j = "body"
          /\ \A j : ~ (j \in finished')
      BY <1>1, <1>2, <2>5 DEF Running
    <2>8. OnePlaceInv'
      BY <1>4, <2>5, <2>7 DEF OnePlaceInv
    <2>9. \A j : \A n \in 1 .. Len(Program[j]) : j \in Jobs => ~ Past(j, n)'
      <3>. SUFFICES ASSUME NEW j \in Jobs, NEW n \in 1 .. Len(Program[j]), Past(j, n)'
                    PROVE  FALSE
        OBVIOUS
      <3>1. PICK v \in Workers, i \in Int :
              i \in 1 .. Len(stack'[v]) /\ stack'[v][i].job = j /\ n < stack'[v][i].pc
        BY <2>7 DEF Past
      <3>. QED
        BY <2>5, <3>1, StepFacts
    <2>10. SpawnInv'
      <3>. SUFFICES ASSUME NEW j \in Jobs, NEW n \in 1 .. Len(Program[j]),
                           Program[j][n].op = "spawn",
                           NEW c \in Range(Program[j][n].jobs), Known(c)'
                    PROVE  Past(j, n)'
        BY DEF SpawnInv
      <3>1. c = "body"
        BY <1>4, <2>7 DEF Known
      <3>2. Program[j][n].jobs \in Seq(Jobs \ {"body"})
        BY StepFacts DEF StepIs
      <3>3. c \in Jobs \ {"body"}
        BY <3>2, FromRange
      <3>. QED
        BY <3>1, <3>3
    <2>11. JoinInv'
      BY <2>9 DEF JoinInv
    <2>. QED
      BY <1>1, <1>2, <1>3, <2>6, <2>8, <2>10, <2>11 DEF PoolInv, BeforeInv, DecidedInv
  <1>. QED
    BY <1>5, <1>6 DEF BeginVerify

-----------------------------------------------------------------------------
\* A worker that takes the next step of its job.
LEMMA Advances ==
  ASSUME PoolInv, NEW w \in Workers, NEW op, At(w, op), Advance(w),
         op = "join" => Instr(w).jobs \subseteq finished,
         UNCHANGED <<deque, finished, phase>>,
         verdict' \in {"none", "panic", "valid", "invalid"}
  PROVE  /\ PoolTypeOK' /\ OnePlaceInv' /\ SpawnInv' /\ JoinInv' /\ BeforeInv'
         /\ SendersOpen' => SendersOpen
         /\ \A j : \A n \in Nat : Past(j, n) => Past(j, n)'
         /\ \A j, n : j = Top(w).job /\ n = Top(w).pc => Past(j, n)'
  <1>. DEFINE m == Top(w).pc + 1
  <1>1. /\ stack[w] # <<>> /\ Top(w).job \in Jobs /\ Top(w).pc \in Nat /\ Instr(w).op = op
        /\ Top(w).pc \in 1 .. Len(Program[Top(w).job])
    BY AtStep DEF PoolInv
  <1>2. /\ m \in Nat /\ m \in 1 .. Len(Program[Top(w).job]) + 1 /\ Top(w).pc < m
        /\ m = Top(w).pc + 1
    BY <1>1, StepFacts
  <1>3. GoTo(w, m)
    BY DEF Advance
  <1>4. Instr(w).op = "join" => Instr(w).jobs \subseteq finished
    BY <1>1
  <1>. HIDE DEF m
  <1>5. PoolTypeOK' /\ OnePlaceInv' /\ SpawnInv' /\ JoinInv' /\ BeforeInv'
    BY <1>1, <1>2, <1>3, <1>4, GoesOn
  <1>6. /\ SendersOpen' => SendersOpen
        /\ \A j : \A n \in Nat : Past(j, n) => Past(j, n)'
        /\ \A j, n : j = Top(w).job /\ n = Top(w).pc => Past(j, n)'
    BY <1>1, <1>2, <1>3, <1>4, FrameGoesOn
  <1>. QED
    BY <1>5, <1>6

\* A step that computes, or waits for jobs that ended.
LEMMA QuietStep ==
  ASSUME PoolInv, NEW w \in Workers, NEW op, At(w, op), Advance(w),
         op = "join" => Instr(w).jobs \subseteq finished,
         UNCHANGED <<deque, finished, phase, channel, verdict>>
  PROVE  PoolInv'
  <1>1. verdict' \in {"none", "panic", "valid", "invalid"}
    BY DEF PoolInv, PoolTypeOK
  <1>2. /\ PoolTypeOK' /\ OnePlaceInv' /\ SpawnInv' /\ JoinInv' /\ BeforeInv'
        /\ SendersOpen' => SendersOpen
        /\ \A j : \A n \in Nat : Past(j, n) => Past(j, n)'
    BY <1>1, Advances
  <1>3. DecidedInv'
    BY <1>2, StillDecided
  <1>. QED
    BY <1>2, <1>3 DEF PoolInv

LEMMA ReplayKeepsPool ==
  ASSUME PoolInv, NEW w \in Workers, ReplayTranscript(w)
  PROVE  PoolInv'
  BY QuietStep DEF ReplayTranscript, proverVars

LEMMA JoinKeepsPool ==
  ASSUME PoolInv, NEW w \in Workers, JoinDone(w)
  PROVE  PoolInv'
  BY QuietStep DEF JoinDone, proverVars

\* The panic leaves the join of the three sums out, and decides nothing.
LEMMA SumKeepsPool ==
  ASSUME PoolInv, NEW w \in Workers, SumPowers(w)
  PROVE  PoolInv'
  <1>1. At(w, "geometric") /\ UNCHANGED <<deque, finished, phase, channel>>
    BY DEF SumPowers, proverVars
  <1>2. CASE RShift = 1
    <2>1. GoTo(w, Len(Program["body"])) /\ verdict' = "panic"
      BY <1>2 DEF SumPowers
    <2>2. /\ stack[w] # <<>> /\ Instr(w).op = "geometric" /\ StepIs(Top(w).job, Top(w).pc)
          /\ Instr(w) = Program[Top(w).job][Top(w).pc]
      BY <1>1, AtStep DEF PoolInv
    <2>3. Top(w).job = "body" /\ Top(w).pc = 2
      BY <2>2 DEF StepIs
    <2>4. Len(Program["body"]) = 6
      BY BodySteps
    <2>5. PICK m : m = Len(Program["body"])
      OBVIOUS
    <2>6. /\ m \in Nat /\ m \in 1 .. Len(Program[Top(w).job]) + 1 /\ Top(w).pc < m
          /\ verdict' \in {"none", "panic", "valid", "invalid"}
      BY <2>1, <2>3, <2>4, <2>5
    <2>7. GoTo(w, m)
      BY <2>1, <2>5
    <2>8. PoolTypeOK' /\ OnePlaceInv' /\ SpawnInv' /\ JoinInv' /\ BeforeInv'
      BY <1>1, <2>2, <2>3, <2>6, <2>7, GoesOn
    <2>. QED
      BY <2>1, <2>8 DEF PoolInv, DecidedInv
  <1>3. CASE RShift # 1
    BY <1>1, <1>3, QuietStep DEF SumPowers
  <1>. QED
    BY <1>2, <1>3

\* What is sent is sent before the verdict, or there would be none to send it.
LEMMA SendKeepsPool ==
  ASSUME PoolInv, NEW w \in Workers, SendCheck(w)
  PROVE  PoolInv'
  <1>1. /\ At(w, "send") /\ Advance(w)
        /\ UNCHANGED <<deque, finished, phase, verdict>>
    BY DEF SendCheck, proverVars
  <1>2. verdict \notin {"valid", "invalid"}
    BY <1>1, Covered DEF AllChecksCount
  <1>3. verdict' \in {"none", "panic", "valid", "invalid"}
    BY <1>1 DEF PoolInv, PoolTypeOK
  <1>4. PoolTypeOK' /\ OnePlaceInv' /\ SpawnInv' /\ JoinInv' /\ BeforeInv'
    BY <1>1, <1>3, Advances
  <1>. QED
    BY <1>1, <1>2, <1>4 DEF PoolInv, DecidedInv

LEMMA FinalZKeepsPool ==
  ASSUME PoolInv, NEW w \in Workers, CheckFinalZ(w)
  PROVE  PoolInv'
  <1>1. /\ At(w, "final_z") /\ Advance(w)
        /\ UNCHANGED <<deque, finished, phase, verdict>>
    BY DEF CheckFinalZ, proverVars
  <1>2. verdict \notin {"valid", "invalid"}
    BY <1>1, Covered DEF AllChecksCount
  <1>3. verdict' \in {"none", "panic", "valid", "invalid"}
    BY <1>1 DEF PoolInv, PoolTypeOK
  <1>4. PoolTypeOK' /\ OnePlaceInv' /\ SpawnInv' /\ JoinInv' /\ BeforeInv'
    BY <1>1, <1>3, Advances
  <1>. QED
    BY <1>1, <1>2, <1>4 DEF PoolInv, DecidedInv

\* The collector merges what is in the channel, and decides when it is empty
\* and closed.
LEMMA CollectKeepsPool ==
  ASSUME PoolInv, NEW w \in Workers, Collect(w)
  PROVE  PoolInv'
  <1>1. At(w, "collect") /\ UNCHANGED <<deque, finished, phase>>
    BY DEF Collect, proverVars
  <1>2. CASE channel # <<>> /\ UNCHANGED <<stack, verdict>>
    <2>1. UNCHANGED <<stack, deque, finished, verdict>>
      BY <1>1, <1>2
    <2>2. PoolTypeOK'
      BY <2>1 DEF PoolInv, PoolTypeOK
    <2>3. OnePlaceInv'
      BY <2>1 DEF PoolInv, OnePlaceInv, Running, Queued
    <2>4. SpawnInv' /\ JoinInv'
      <3>1. \A j, n : Past(j, n)' <=> Past(j, n)
        BY <2>1 DEF Past
      <3>2. \A j : Known(j)' <=> Known(j)
        BY <2>1 DEF Known, Running, Queued
      <3>. QED
        BY <2>1, <3>1, <3>2, StillSpawned
    <2>5. BeforeInv' /\ DecidedInv'
      BY <1>1, <1>2 DEF PoolInv, BeforeInv, DecidedInv
    <2>. QED
      BY <2>2, <2>3, <2>4, <2>5 DEF PoolInv
  <1>3. CASE /\ channel = <<>> /\ channel' = channel /\ ~ SendersOpen /\ Advance(w)
             /\ verdict' \in {"panic", "valid", "invalid"}
    <2>1. /\ PoolTypeOK' /\ OnePlaceInv' /\ SpawnInv' /\ JoinInv' /\ BeforeInv'
          /\ SendersOpen' => SendersOpen
          /\ \A j, n : j = Top(w).job /\ n = Top(w).pc => Past(j, n)'
      BY <1>1, <1>3, Advances
    <2>2. /\ Instr(w).op = "collect" /\ StepIs(Top(w).job, Top(w).pc)
          /\ Instr(w) = Program[Top(w).job][Top(w).pc]
      BY <1>1, AtStep DEF PoolInv
    <2>3. Top(w).job = "collector" /\ Top(w).pc = 1
      BY <2>2 DEF StepIs
    <2>. QED
      BY <1>3, <2>1, <2>3 DEF PoolInv, DecidedInv
  <1>. QED
    BY <1>2, <1>3 DEF Collect

-----------------------------------------------------------------------------
LEMMA Appended ==
  ASSUME NEW S, NEW q \in Seq(S), NEW s \in Seq(S)
  PROVE  /\ q \o s \in Seq(S) /\ Len(q) \in Nat /\ Len(s) \in Nat
         /\ \A i \in 1 .. Len(q) : i \in 1 .. Len(q \o s) /\ (q \o s)[i] = q[i]
         /\ \A k \in 1 .. Len(s) :
              Len(q) + k \in 1 .. Len(q \o s) /\ (q \o s)[Len(q) + k] = s[k]
         /\ \A i \in 1 .. Len(q \o s) :
              \/ i \in 1 .. Len(q) /\ (q \o s)[i] = q[i]
              \/ \E k \in 1 .. Len(s) : i = Len(q) + k /\ (q \o s)[i] = s[k]
  <1>1. /\ q \o s \in Seq(S) /\ Len(q) \in Nat /\ Len(s) \in Nat
        /\ Len(q \o s) = Len(q) + Len(s)
    OBVIOUS
  <1>2. \A i \in 1 .. Len(q) : i \in 1 .. Len(q \o s) /\ (q \o s)[i] = q[i]
    BY <1>1
  <1>3. \A k \in 1 .. Len(s) : Len(q) + k \in 1 .. Len(q \o s)
    BY <1>1
  <1>4. \A k \in 1 .. Len(s) : (q \o s)[Len(q) + k] = s[k]
    BY <1>1, <1>3
  <1>5. ASSUME NEW i \in 1 .. Len(q \o s)
        PROVE  \/ i \in 1 .. Len(q) /\ (q \o s)[i] = q[i]
               \/ \E k \in 1 .. Len(s) : i = Len(q) + k /\ (q \o s)[i] = s[k]
    <2>1. CASE i \in 1 .. Len(q)
      BY <1>2, <2>1
    <2>2. CASE i \notin 1 .. Len(q)
      <3>1. i - Len(q) \in 1 .. Len(s) /\ i = Len(q) + (i - Len(q))
        BY <1>1, <2>2
      <3>. QED
        BY <1>4, <3>1
    <2>. QED
      BY <2>1, <2>2
  <1>. QED
    BY <1>1, <1>2, <1>3, <1>4, <1>5

\* The job a worker is in is nowhere else and has not ended, so it is past the
\* steps below its own and no other.
LEMMA TopPast ==
  ASSUME PoolInv, NEW w \in Workers, stack[w] # <<>>
  PROVE  /\ Running(Top(w).job) /\ Top(w).job \notin finished
         /\ \A n \in Nat : Past(Top(w).job, n) <=> n < Top(w).pc
  <1>1. /\ Len(stack[w]) \in Nat /\ Len(stack[w]) \in 1 .. Len(stack[w])
        /\ Top(w) = stack[w][Len(stack[w])] /\ Top(w).job \in Jobs
    BY TopFrame DEF PoolInv
  <1>2. Running(Top(w).job)
    BY <1>1 DEF Running
  <1>3. Top(w).job \notin finished
    BY <1>1, <1>2 DEF PoolInv, OnePlaceInv
  <1>4. ASSUME NEW n \in Nat, n < Top(w).pc PROVE Past(Top(w).job, n)
    BY <1>1, <1>4 DEF Past
  <1>5. ASSUME NEW n \in Nat, Past(Top(w).job, n) PROVE n < Top(w).pc
    <2>1. PICK v \in Workers, i \in Int :
            i \in 1 .. Len(stack[v]) /\ stack[v][i].job = Top(w).job /\ n < stack[v][i].pc
      BY <1>3, <1>5 DEF Past
    <2>2. v = w /\ i = Len(stack[w])
      BY <1>1, <2>1 DEF PoolInv, OnePlaceInv
    <2>. QED
      BY <1>1, <2>1, <2>2
  <1>. QED
    BY <1>2, <1>3, <1>4, <1>5

\* The jobs a step spawns were nowhere before it.
LEMMA SpawnKeepsPool ==
  ASSUME PoolInv, NEW w \in Workers, SpawnJobs(w)
  PROVE  PoolInv'
  <1>. DEFINE J == Jobs \ {"body"}
  <1>1. /\ At(w, "spawn") /\ Advance(w) /\ deque' = [deque EXCEPT ![w] = deque[w] \o Instr(w).jobs]
        /\ UNCHANGED <<finished, phase, channel, verdict>>
    BY DEF SpawnJobs, proverVars
  <1>2. PICK s : s = Instr(w).jobs
    OBVIOUS
  <1>3. PICK j : j = Top(w).job
    OBVIOUS
  <1>4. PICK n : n = Top(w).pc
    OBVIOUS
  <1>5. /\ stack[w] # <<>> /\ j \in Jobs /\ n \in 1 .. Len(Program[j]) /\ n \in Nat
        /\ Instr(w) = Program[j][n] /\ Instr(w).op = "spawn" /\ StepIs(j, n)
    BY <1>1, <1>3, <1>4, AtStep DEF PoolInv
  <1>6. /\ s \in Seq(J)
        /\ \A c \in Range(s) : Spawner(c) = <<j, n>>
        /\ \A k, l \in 1 .. Len(s) : s[k] = s[l] => k = l
    BY <1>2, <1>5 DEF StepIs
  <1>7. \A c \in Range(s) : ~ Known(c)
    <2>1. ~ Past(j, n)
      BY <1>3, <1>4, <1>5, TopPast
    <2>2. ASSUME NEW c \in Range(s), Known(c) PROVE FALSE
      <3>1. Program[j][n].op = "spawn" /\ c \in Range(Program[j][n].jobs)
        BY <1>2, <1>5, <2>2
      <3>. QED
        BY <1>5, <2>1, <2>2, <3>1 DEF PoolInv, SpawnInv
    <2>. QED
      BY <2>2
  <1>8. \A k \in 1 .. Len(s) : s[k] \in Range(s) /\ ~ Queued(s[k]) /\ ~ Running(s[k]) /\ s[k] \notin finished
    BY <1>6, <1>7, InRange DEF Known
  <1>9. deque \in [Workers -> Seq(J)]
    BY DEF PoolInv, PoolTypeOK
  <1>10. /\ deque' \in [Workers -> Seq(J)]
         /\ \A v \in Workers : deque'[v] = IF v = w THEN deque[w] \o s ELSE deque[v]
    <2>1. deque[w] \o s \in Seq(J)
      BY <1>6, <1>9, Appended
    <2>2. deque' = [deque EXCEPT ![w] = deque[w] \o s]
      BY <1>1, <1>2
    <2>. HIDE DEF J
    <2>. QED
      BY <1>9, <2>1, <2>2
  <1>11. /\ Len(deque[w]) \in Nat /\ Len(s) \in Nat
         /\ \A i \in 1 .. Len(deque[w]) : i \in 1 .. Len(deque[w] \o s) /\ (deque[w] \o s)[i] = deque[w][i]
         /\ \A k \in 1 .. Len(s) : /\ Len(deque[w]) + k \in 1 .. Len(deque[w] \o s)
                                  /\ (deque[w] \o s)[Len(deque[w]) + k] = s[k]
         /\ \A i \in 1 .. Len(deque[w] \o s) :
              \/ i \in 1 .. Len(deque[w]) /\ (deque[w] \o s)[i] = deque[w][i]
              \/ \E k \in 1 .. Len(s) : i = Len(deque[w]) + k /\ (deque[w] \o s)[i] = s[k]
    BY <1>6, <1>9, Appended
  <1>12. ASSUME NEW v \in Workers, NEW i \in 1 .. Len(deque'[v])
         PROVE  \/ i \in 1 .. Len(deque[v]) /\ deque'[v][i] = deque[v][i]
                \/ v = w /\ \E k \in 1 .. Len(s) : i = Len(deque[w]) + k /\ deque'[v][i] = s[k]
    <2>1. CASE v = w
      <3>1. deque'[v] = deque[w] \o s
        BY <1>10, <2>1
      <3>. QED
        BY <1>11, <2>1, <3>1
    <2>2. CASE v # w
      BY <1>10, <2>2
    <2>. QED
      BY <2>1, <2>2
  <1>13. /\ stack' \in [Workers -> Seq([job : Jobs, pc : Nat])]
         /\ \A v \in Workers : \A i \in 1 .. Len(stack'[v]) :
              stack'[v][i].pc \in 1 .. Len(Program[stack'[v][i].job]) + 1
         /\ \A u, v \in Workers : \A i \in 1 .. Len(stack'[u]), k \in 1 .. Len(stack'[v]) :
              stack'[u][i].job = stack'[v][k].job => u = v /\ i = k
         /\ \A x : Running(x)' <=> Running(x)
         /\ \A x : \A l \in Nat : Past(x, l) => Past(x, l)'
         /\ Past(j, n)'
         /\ JoinInv'
         /\ SendersOpen' => SendersOpen
    <2>1. PICK m : m = Top(w).pc + 1
      OBVIOUS
    <2>2. GoTo(w, m)
      BY <1>1, <2>1 DEF Advance
    <2>3. /\ m \in Nat /\ m \in 1 .. Len(Program[Top(w).job]) + 1 /\ Top(w).pc < m
          /\ m = Top(w).pc + 1 /\ (Instr(w).op = "join" => Instr(w).jobs \subseteq finished)
      BY <1>3, <1>4, <1>5, <2>1, StepFacts
    <2>. QED
      BY <1>1, <1>3, <1>4, <1>5, <2>2, <2>3, FrameGoesOn
  <1>14. PoolTypeOK'
    BY <1>1, <1>10, <1>13 DEF PoolInv, PoolTypeOK
  <1>15. \A x : Queued(x)' => Queued(x) \/ x \in Range(s)
    <2>1. ASSUME NEW x, Queued(x)' PROVE Queued(x) \/ x \in Range(s)
      <3>1. PICK v \in Workers, i \in Int : i \in 1 .. Len(deque'[v]) /\ deque'[v][i] = x
        BY <2>1 DEF Queued
      <3>2. CASE i \in 1 .. Len(deque[v]) /\ deque'[v][i] = deque[v][i]
        BY <3>1, <3>2 DEF Queued
      <3>3. CASE \E k \in 1 .. Len(s) : deque'[v][i] = s[k]
        BY <1>8, <3>1, <3>3
      <3>. QED
        BY <1>12, <3>1, <3>2, <3>3
    <2>. QED
      BY <2>1
  <1>16. ASSUME NEW u \in Workers, NEW v \in Workers,
                NEW i \in 1 .. Len(deque'[u]), NEW k \in 1 .. Len(deque'[v]),
                deque'[u][i] = deque'[v][k]
         PROVE  u = v /\ i = k
    <2>1. CASE /\ i \in 1 .. Len(deque[u]) /\ deque'[u][i] = deque[u][i]
               /\ k \in 1 .. Len(deque[v]) /\ deque'[v][k] = deque[v][k]
      <3>1. deque[u][i] = deque[v][k]
        BY <1>16, <2>1
      <3>2. \A a, b \in Workers : \A c \in 1 .. Len(deque[a]), d \in 1 .. Len(deque[b]) :
              deque[a][c] = deque[b][d] => a = b /\ c = d
        BY DEF PoolInv, OnePlaceInv
      <3>. QED
        BY <2>1, <3>1, <3>2
    <2>2. CASE /\ i \in 1 .. Len(deque[u]) /\ deque'[u][i] = deque[u][i]
               /\ \E l \in 1 .. Len(s) : deque'[v][k] = s[l]
      BY <1>8, <1>16, <2>2 DEF Queued
    <2>3. CASE /\ k \in 1 .. Len(deque[v]) /\ deque'[v][k] = deque[v][k]
               /\ \E l \in 1 .. Len(s) : deque'[u][i] = s[l]
      BY <1>8, <1>16, <2>3 DEF Queued
    <2>4. CASE /\ u = w /\ \E l \in 1 .. Len(s) : i = Len(deque[w]) + l /\ deque'[u][i] = s[l]
               /\ v = w /\ \E l \in 1 .. Len(s) : k = Len(deque[w]) + l /\ deque'[v][k] = s[l]
      <3>1. PICK l1 \in 1 .. Len(s) : i = Len(deque[w]) + l1 /\ deque'[u][i] = s[l1]
        BY <2>4
      <3>2. PICK l2 \in 1 .. Len(s) : k = Len(deque[w]) + l2 /\ deque'[v][k] = s[l2]
        BY <2>4
      <3>3. l1 = l2
        BY <1>6, <1>16, <3>1, <3>2
      <3>. QED
        BY <2>4, <3>1, <3>2, <3>3
    <2>. QED
      BY <1>12, <2>1, <2>2, <2>3, <2>4
  <1>17. OnePlaceInv'
    <2>1. ASSUME NEW x \in Jobs
          PROVE  /\ ~ (Running(x)' /\ Queued(x)')
                 /\ ~ (Running(x)' /\ x \in finished')
                 /\ ~ (Queued(x)' /\ x \in finished')
      <3>1. /\ ~ (Running(x) /\ Queued(x)) /\ ~ (Running(x) /\ x \in finished)
            /\ ~ (Queued(x) /\ x \in finished)
        BY DEF PoolInv, OnePlaceInv
      <3>2. x \in Range(s) => ~ Running(x) /\ x \notin finished
        BY <1>7 DEF Known
      <3>. QED
        BY <1>1, <1>13, <1>15, <3>1, <3>2
    <2>. QED
      BY <1>13, <1>16, <2>1 DEF OnePlaceInv
  <1>18. SpawnInv'
    <2>. SUFFICES ASSUME NEW x \in Jobs, NEW l \in 1 .. Len(Program[x]),
                         Program[x][l].op = "spawn",
                         NEW c \in Range(Program[x][l].jobs), Known(c)'
                  PROVE  Past(x, l)'
      BY DEF SpawnInv
    <2>0. l \in Nat
      BY StepFacts
    <2>1. CASE Known(c)
      BY <1>13, <2>0, <2>1 DEF PoolInv, SpawnInv
    <2>2. CASE ~ Known(c)
      <3>1. c \in Range(s)
        BY <1>1, <1>13, <1>15, <2>2 DEF Known
      <3>2. Spawner(c) = <<x, l>>
        BY StepFacts DEF StepIs
      <3>3. x = j /\ l = n
        BY <1>6, <3>1, <3>2
      <3>. QED
        BY <1>13, <3>3
    <2>. QED
      BY <2>1, <2>2
  <1>19. BeforeInv'
    BY <1>1, <1>5 DEF PoolInv, BeforeInv
  <1>20. DecidedInv'
    BY <1>1, <1>13, StillDecided
  <1>. QED
    BY <1>13, <1>14, <1>17, <1>18, <1>19, <1>20 DEF PoolInv

-----------------------------------------------------------------------------
LEMMA SubSeqOfSeq ==
  ASSUME NEW S, NEW q \in Seq(S), NEW n \in Nat, n <= Len(q)
  PROVE  /\ SubSeq(q, 1, n) \in Seq(S) /\ Len(SubSeq(q, 1, n)) = n
         /\ \A i \in 1 .. n : SubSeq(q, 1, n)[i] = q[i]
  <1>1. \A i \in 1 .. n : q[i] \in S
    OBVIOUS
  <1>2. Len(SubSeq(q, 1, n)) = n
    OBVIOUS
  <1>3. SubSeq(q, 1, n) \in Seq(S)
    BY <1>1
  <1>4. \A i \in 1 .. n : SubSeq(q, 1, n)[i] = q[i]
    OBVIOUS
  <1>. QED
    BY <1>2, <1>3, <1>4

\* r is q without its element c: d is what was cut in front.
Cut(S, q, r, c, d) ==
  \E e \in 1 .. Len(q) :
    /\ c = q[e] /\ r \in Seq(S)
    /\ \A i \in 1 .. Len(r) : i + d \in 1 .. Len(q) /\ i + d # e /\ r[i] = q[i + d]
    /\ \A k \in 1 .. Len(q) : k # e => k - d \in 1 .. Len(r) /\ r[k - d] = q[k]

\* A sequence less its last or its first element.
LEMMA LessOne ==
  ASSUME NEW S, NEW q \in Seq(S), q # <<>>, NEW r, NEW c, NEW d \in {0, 1},
         \/ d = 0 /\ r = Front(q) /\ c = Last(q)
         \/ d = 1 /\ r = Tail(q) /\ c = Head(q)
  PROVE  Cut(S, q, r, c, d)
  <1>1. Len(q) \in Nat /\ Len(q) >= 1
    OBVIOUS
  <1>2. CASE d = 0 /\ r = Front(q) /\ c = Last(q)
    <2>1. c = q[Len(q)] /\ r = SubSeq(q, 1, Len(q) - 1)
      BY <1>2 DEF Front, Last
    <2>2. /\ r \in Seq(S) /\ Len(r) = Len(q) - 1
          /\ \A i \in 1 .. Len(q) - 1 : r[i] = q[i]
      <3>1. PICK n : n = Len(q) - 1
        OBVIOUS
      <3>2. n \in Nat /\ n <= Len(q)
        BY <1>1, <3>1
      <3>3. /\ SubSeq(q, 1, n) \in Seq(S) /\ Len(SubSeq(q, 1, n)) = n
            /\ \A i \in 1 .. n : SubSeq(q, 1, n)[i] = q[i]
        BY <3>2, SubSeqOfSeq
      <3>. QED
        BY <2>1, <3>1, <3>3
    <2>3. Len(q) \in 1 .. Len(q)
      BY <1>1
    <2>4. \A i \in 1 .. Len(r) : i + d \in 1 .. Len(q) /\ i + d # Len(q) /\ r[i] = q[i + d]
      BY <1>1, <1>2, <2>2
    <2>5. \A k \in 1 .. Len(q) : k # Len(q) => k - d \in 1 .. Len(r) /\ r[k - d] = q[k]
      BY <1>1, <1>2, <2>2
    <2>. QED
      BY <2>1, <2>2, <2>3, <2>4, <2>5 DEF Cut
  <1>3. CASE d = 1 /\ r = Tail(q) /\ c = Head(q)
    <2>1. c = q[1]
      BY <1>3
    <2>2. /\ r \in Seq(S) /\ Len(r) = Len(q) - 1
          /\ \A i \in 1 .. Len(q) - 1 : r[i] = q[i + 1]
      BY <1>1, <1>3
    <2>3. 1 \in 1 .. Len(q)
      BY <1>1
    <2>4. \A i \in 1 .. Len(r) : i + d \in 1 .. Len(q) /\ i + d # 1 /\ r[i] = q[i + d]
      BY <1>1, <1>3, <2>2
    <2>5. \A k \in 1 .. Len(q) : k # 1 => k - d \in 1 .. Len(r) /\ r[k - d] = q[k]
      BY <1>1, <1>3, <2>2
    <2>. QED
      BY <2>1, <2>2, <2>3, <2>4, <2>5 DEF Cut
  <1>. QED
    BY <1>2, <1>3

LEMMA OneMore ==
  ASSUME NEW S, NEW q \in Seq(S), NEW x \in S
  PROVE  /\ Append(q, x) \in Seq(S) /\ Len(q) \in Nat
         /\ Len(Append(q, x)) = Len(q) + 1
         /\ \A i \in 1 .. Len(q) : Append(q, x)[i] = q[i]
         /\ Append(q, x)[Len(q) + 1] = x
  OBVIOUS

\* A job that is taken moves from a queue to the worker that takes it.
LEMMA TakingKeepsPool ==
  ASSUME PoolInv, NEW w \in Workers, NEW v \in Workers, deque[v] # <<>>,
         NEW c, NEW r, NEW d \in {0, 1},
         \/ d = 0 /\ r = Front(deque[v]) /\ c = Last(deque[v])
         \/ d = 1 /\ r = Tail(deque[v]) /\ c = Head(deque[v]),
         stack' = [stack EXCEPT ![w] = Append(stack[w], Frame(c))],
         deque' = [deque EXCEPT ![v] = r],
         UNCHANGED <<finished, phase, channel, verdict>>
  PROVE  PoolInv'
  <1>. DEFINE J == Jobs \ {"body"}
              F == [job : Jobs, pc : Nat]
              q == deque[v]
              p == stack[w]
              s == Append(p, Frame(c))
  <1>1. /\ stack \in [Workers -> Seq(F)] /\ deque \in [Workers -> Seq(J)]
        /\ p \in Seq(F) /\ q \in Seq(J)
    BY DEF PoolInv, PoolTypeOK
  <1>2. PICK e \in 1 .. Len(q) :
          /\ c = q[e] /\ r \in Seq(J)
          /\ \A i \in 1 .. Len(r) : i + d \in 1 .. Len(q) /\ i + d # e /\ r[i] = q[i + d]
          /\ \A k \in 1 .. Len(q) : k # e => k - d \in 1 .. Len(r) /\ r[k - d] = q[k]
    <2>. HIDE DEF J, F, q, p, s
    <2>1. q # <<>>
      BY DEF q
    <2>2. \/ d = 0 /\ r = Front(q) /\ c = Last(q)
          \/ d = 1 /\ r = Tail(q) /\ c = Head(q)
      BY DEF q
    <2>3. q \in Seq(J)
      BY <1>1
    <2>4. Cut(J, q, r, c, d)
      BY <2>1, <2>2, <2>3, LessOne
    <2>. QED
      BY <2>4 DEF Cut
  <1>3. c \in J /\ c \in Jobs
    BY <1>1, <1>2
  <1>4. /\ Queued(c) /\ ~ Running(c) /\ c \notin finished
    <2>1. Queued(c)
      BY <1>2 DEF Queued
    <2>. QED
      BY <1>3, <2>1 DEF PoolInv, OnePlaceInv
  <1>5. Frame(c) \in F /\ Frame(c).job = c /\ Frame(c).pc = 1
    BY <1>3 DEF Frame
  <1>6. /\ s \in Seq(F) /\ Len(p) \in Nat /\ Len(s) = Len(p) + 1
        /\ \A i \in 1 .. Len(p) : s[i] = p[i]
        /\ s[Len(p) + 1].job = c /\ s[Len(p) + 1].pc = 1
    <2>1. PICK x : x = Frame(c)
      OBVIOUS
    <2>2. s = Append(p, x) /\ x \in F /\ x.job = c /\ x.pc = 1
      BY <1>5, <2>1
    <2>. HIDE DEF F, p, s
    <2>3. /\ Append(p, x) \in Seq(F) /\ Len(p) \in Nat /\ Len(Append(p, x)) = Len(p) + 1
          /\ \A i \in 1 .. Len(p) : Append(p, x)[i] = p[i]
          /\ Append(p, x)[Len(p) + 1] = x
      BY <1>1, <2>2, OneMore
    <2>. QED
      BY <2>2, <2>3
  <1>7. /\ stack' \in [Workers -> Seq(F)]
        /\ \A u \in Workers : stack'[u] = IF u = w THEN s ELSE stack[u]
        /\ deque' \in [Workers -> Seq(J)]
        /\ \A u \in Workers : deque'[u] = IF u = v THEN r ELSE deque[u]
    <2>1. stack' = [stack EXCEPT ![w] = s]
      OBVIOUS
    <2>. HIDE DEF J, F, q, p, s
    <2>. QED
      BY <1>1, <1>2, <1>6, <2>1
  \* The frames after the step, and those before it.
  <1>8. ASSUME NEW u \in Workers, NEW i \in 1 .. Len(stack'[u])
        PROVE  \/ i \in 1 .. Len(stack[u]) /\ stack'[u][i] = stack[u][i]
               \/ u = w /\ i = Len(p) + 1 /\ stack'[u][i].job = c /\ stack'[u][i].pc = 1
    <2>1. CASE u = w
      <3>1. stack'[u] = s /\ stack[u] = p
        BY <1>7, <2>1
      <3>2. i \in 1 .. Len(p) + 1
        BY <1>6, <3>1
      <3>. QED
        BY <1>6, <2>1, <3>1, <3>2
    <2>2. CASE u # w
      BY <1>7, <2>2
    <2>. QED
      BY <2>1, <2>2
  <1>9. ASSUME NEW u \in Workers, NEW i \in 1 .. Len(stack[u])
        PROVE  i \in 1 .. Len(stack'[u]) /\ stack'[u][i] = stack[u][i]
    <2>1. CASE u = w
      <3>1. stack'[u] = s /\ stack[u] = p
        BY <1>7, <2>1
      <3>. QED
        BY <1>6, <3>1
    <2>2. CASE u # w
      BY <1>7, <2>2
    <2>. QED
      BY <2>1, <2>2
  <1>10. ASSUME NEW u \in Workers, NEW i \in 1 .. Len(deque'[u])
         PROVE  \/ u # v /\ i \in 1 .. Len(deque[u]) /\ deque'[u][i] = deque[u][i]
                \/ /\ u = v /\ i + d \in 1 .. Len(deque[u]) /\ i + d # e
                   /\ deque'[u][i] = deque[u][i + d]
    <2>1. CASE u = v
      <3>1. deque'[u] = r /\ deque[u] = q
        BY <1>7, <2>1
      <3>. QED
        BY <1>2, <2>1, <3>1
    <2>2. CASE u # v
      BY <1>7, <2>2
    <2>. QED
      BY <2>1, <2>2
  <1>11. \A x : Queued(x)' => Queued(x) /\ x # c
    <2>. SUFFICES ASSUME NEW x, Queued(x)' PROVE Queued(x) /\ x # c
      OBVIOUS
    <2>1. PICK u \in Workers, i \in Int : i \in 1 .. Len(deque'[u]) /\ deque'[u][i] = x
      BY DEF Queued
    <2>2. PICK k \in Int : k \in 1 .. Len(deque[u]) /\ deque[u][k] = x /\ ~ (u = v /\ k = e)
      BY <1>10, <2>1
    <2>3. Queued(x)
      BY <2>2 DEF Queued
    <2>4. x # c
      BY <1>2, <2>2 DEF PoolInv, OnePlaceInv
    <2>. QED
      BY <2>3, <2>4
  <1>12. \A x : Running(x)' => Running(x) \/ x = c
    <2>. SUFFICES ASSUME NEW x, Running(x)', x # c PROVE Running(x)
      OBVIOUS
    <2>1. PICK u \in Workers, i \in Int : i \in 1 .. Len(stack'[u]) /\ stack'[u][i].job = x
      BY DEF Running
    <2>2. i \in 1 .. Len(stack[u]) /\ stack[u][i].job = x
      BY <1>8, <2>1
    <2>. QED
      BY <2>2 DEF Running
  <1>13. ASSUME NEW j, NEW n \in Nat, Past(j, n) PROVE Past(j, n)'
    <2>1. CASE j \in finished
      BY <2>1 DEF Past
    <2>2. CASE \E u \in Workers : \E i \in 1 .. Len(stack[u]) : stack[u][i].job = j /\ n < stack[u][i].pc
      <3>1. PICK u \in Workers, i \in Int :
              i \in 1 .. Len(stack[u]) /\ stack[u][i].job = j /\ n < stack[u][i].pc
        BY <2>2
      <3>2. i \in 1 .. Len(stack'[u]) /\ stack'[u][i].job = j /\ n < stack'[u][i].pc
        BY <1>9, <3>1
      <3>. QED
        BY <3>2 DEF Past
    <2>. QED
      BY <1>13, <2>1, <2>2 DEF Past
  <1>14. ASSUME NEW j, NEW n \in Nat, n >= 1, Past(j, n)' PROVE Past(j, n)
    <2>1. CASE j \in finished
      BY <2>1 DEF Past
    <2>2. CASE j \notin finished
      <3>1. PICK u \in Workers, i \in Int :
              i \in 1 .. Len(stack'[u]) /\ stack'[u][i].job = j /\ n < stack'[u][i].pc
        BY <1>14, <2>2 DEF Past
      <3>2. i \in 1 .. Len(stack[u]) /\ stack'[u][i] = stack[u][i]
        BY <1>8, <1>14, <3>1
      <3>. QED
        BY <3>1, <3>2 DEF Past
    <2>. QED
      BY <2>1, <2>2
  <1>15. PoolTypeOK'
    <2>1. ASSUME NEW u \in Workers, NEW i \in 1 .. Len(stack'[u])
          PROVE  stack'[u][i].pc \in 1 .. Len(Program[stack'[u][i].job]) + 1
      <3>1. CASE i \in 1 .. Len(stack[u]) /\ stack'[u][i] = stack[u][i]
        BY <3>1 DEF PoolInv, PoolTypeOK
      <3>2. CASE stack'[u][i].job = c /\ stack'[u][i].pc = 1
        BY <1>3, <3>2, StepFacts
      <3>. QED
        BY <1>8, <3>1, <3>2
    <2>. QED
      BY <1>7, <2>1 DEF PoolInv, PoolTypeOK
  <1>16. OnePlaceInv'
    <2>1. ASSUME NEW u \in Workers, NEW t \in Workers,
                 NEW i \in 1 .. Len(stack'[u]), NEW k \in 1 .. Len(stack'[t]),
                 stack'[u][i].job = stack'[t][k].job
          PROVE  u = t /\ i = k
      <3>1. CASE /\ i \in 1 .. Len(stack[u]) /\ stack'[u][i] = stack[u][i]
                 /\ k \in 1 .. Len(stack[t]) /\ stack'[t][k] = stack[t][k]
        BY <2>1, <3>1 DEF PoolInv, OnePlaceInv
      <3>2. CASE /\ i \in 1 .. Len(stack[u]) /\ stack'[u][i] = stack[u][i]
                 /\ stack'[t][k].job = c
        BY <1>4, <2>1, <3>2 DEF Running
      <3>3. CASE /\ k \in 1 .. Len(stack[t]) /\ stack'[t][k] = stack[t][k]
                 /\ stack'[u][i].job = c
        BY <1>4, <2>1, <3>3 DEF Running
      <3>4. CASE u = w /\ i = Len(p) + 1 /\ t = w /\ k = Len(p) + 1
        BY <3>4
      <3>. QED
        BY <1>8, <3>1, <3>2, <3>3, <3>4
    <2>2. ASSUME NEW u \in Workers, NEW t \in Workers,
                 NEW i \in 1 .. Len(deque'[u]), NEW k \in 1 .. Len(deque'[t]),
                 deque'[u][i] = deque'[t][k]
          PROVE  u = t /\ i = k
      <3>1. PICK a \in Int : /\ a \in 1 .. Len(deque[u]) /\ deque'[u][i] = deque[u][a]
                            /\ a = IF u = v THEN i + d ELSE i
        <4>1. CASE u = v
          <5>1. i + d \in 1 .. Len(deque[u]) /\ deque'[u][i] = deque[u][i + d]
            BY <1>10, <4>1
          <5>2. i + d \in Int
            BY <5>1
          <5>. QED
            BY <4>1, <5>1, <5>2
        <4>2. CASE u # v
          BY <1>10, <4>2
        <4>. QED
          BY <4>1, <4>2
      <3>2. PICK b \in Int : /\ b \in 1 .. Len(deque[t]) /\ deque'[t][k] = deque[t][b]
                            /\ b = IF t = v THEN k + d ELSE k
        <4>1. CASE t = v
          <5>1. k + d \in 1 .. Len(deque[t]) /\ deque'[t][k] = deque[t][k + d]
            BY <1>10, <4>1
          <5>2. k + d \in Int
            BY <5>1
          <5>. QED
            BY <4>1, <5>1, <5>2
        <4>2. CASE t # v
          BY <1>10, <4>2
        <4>. QED
          BY <4>1, <4>2
      <3>3. deque[u][a] = deque[t][b]
        BY <2>2, <3>1, <3>2
      <3>4. \A x, y \in Workers : \A g \in 1 .. Len(deque[x]), h \in 1 .. Len(deque[y]) :
              deque[x][g] = deque[y][h] => x = y /\ g = h
        BY DEF PoolInv, OnePlaceInv
      <3>5. u = t /\ a = b
        BY <3>1, <3>2, <3>3, <3>4
      <3>. QED
        BY <3>1, <3>2, <3>5
    <2>3. ASSUME NEW x \in Jobs
          PROVE  /\ ~ (Running(x)' /\ Queued(x)')
                 /\ ~ (Running(x)' /\ x \in finished')
                 /\ ~ (Queued(x)' /\ x \in finished')
      <3>1. /\ ~ (Running(x) /\ Queued(x)) /\ ~ (Running(x) /\ x \in finished)
            /\ ~ (Queued(x) /\ x \in finished)
        BY DEF PoolInv, OnePlaceInv
      <3>. QED
        BY <1>4, <1>11, <1>12, <3>1
    <2>. QED
      BY <2>1, <2>2, <2>3 DEF OnePlaceInv
  <1>17. SpawnInv' /\ JoinInv'
    <2>1. \A j \in Jobs : \A n \in 1 .. Len(Program[j]) : Past(j, n)' <=> Past(j, n)
      BY <1>13, <1>14, StepFacts
    <2>2. \A j \in Jobs : Known(j)' => Known(j)
      BY <1>4, <1>11, <1>12 DEF Known
    <2>. QED
      BY <2>1, <2>2, StillSpawned
  <1>18. BeforeInv'
    BY DEF PoolInv, BeforeInv
  <1>19. SendersOpen' => SendersOpen
    <2>. SUFFICES ASSUME SendersOpen' PROVE SendersOpen
      OBVIOUS
    <2>1. CASE "tipp" \notin finished'
      BY <2>1 DEF SendersOpen
    <2>2. CASE SendersOpenBody'
      <3>1. PICK u \in Workers : \E f \in Range(stack'[u]) : f.job = "body" /\ f.pc < Len(Program["body"])
        BY <2>2 DEF SendersOpenBody
      <3>2. PICK f \in Range(stack'[u]) : f.job = "body" /\ f.pc < Len(Program["body"])
        BY <3>1
      <3>3. stack'[u] \in Seq(F) /\ stack[u] \in Seq(F)
        BY <1>1, <1>7
      <3>4. PICK i \in 1 .. Len(stack'[u]) : f = stack'[u][i]
        BY <3>2, <3>3, FromRange
      <3>5. i \in 1 .. Len(stack[u]) /\ f = stack[u][i]
        BY <1>3, <1>8, <3>2, <3>4
      <3>6. f \in Range(stack[u])
        BY <3>3, <3>5, InRange
      <3>. QED
        BY <3>2, <3>6 DEF SendersOpen, SendersOpenBody
    <2>. QED
      BY <2>1, <2>2 DEF SendersOpen
  <1>20. DecidedInv'
    BY <1>13, <1>19, StillDecided
  <1>. QED
    BY <1>15, <1>16, <1>17, <1>18, <1>20 DEF PoolInv

LEMMA TakeKeepsPool ==
  ASSUME PoolInv, NEW w \in Workers, TakeJob(w)
  PROVE  PoolInv'
  <1>1. UNCHANGED <<finished, phase, channel, verdict>>
    BY DEF TakeJob, proverVars
  <1>2. CASE /\ deque[w] # <<>>
             /\ stack' = [stack EXCEPT ![w] = Append(@, Frame(Last(deque[w])))]
             /\ deque' = [deque EXCEPT ![w] = Front(@)]
    <2>0. PICK v \in Workers : v = w
      OBVIOUS
    <2>1. PICK d \in {0, 1} : d = 0
      OBVIOUS
    <2>2. PICK c : c = Last(deque[v])
      OBVIOUS
    <2>3. PICK r : r = Front(deque[v])
      OBVIOUS
    <2>4. stack' = [stack EXCEPT ![w] = Append(stack[w], Frame(c))]
      BY <1>2, <2>0, <2>2
    <2>5. deque[v] # <<>> /\ deque' = [deque EXCEPT ![v] = r]
      BY <1>2, <2>0, <2>3
    <2>. QED
      BY <1>1, <2>1, <2>2, <2>3, <2>4, <2>5, TakingKeepsPool
  <1>3. ASSUME NEW v \in Workers, Steal(w, v) PROVE PoolInv'
    <2>1. PICK d \in {0, 1} : d = 1
      OBVIOUS
    <2>2. PICK c : c = Head(deque[v])
      OBVIOUS
    <2>3. PICK r : r = Tail(deque[v])
      OBVIOUS
    <2>4. deque[v] # <<>> /\ stack' = [stack EXCEPT ![w] = Append(stack[w], Frame(c))]
      BY <1>3, <2>2 DEF Steal
    <2>5. deque' = [deque EXCEPT ![v] = r]
      BY <1>3, <2>3 DEF Steal
    <2>. QED
      BY <1>1, <2>1, <2>2, <2>3, <2>4, <2>5, TakingKeepsPool
  <1>. QED
    BY <1>2, <1>3 DEF TakeJob

-----------------------------------------------------------------------------
\* A job that ends is finished, which is as good as past all of its steps.
LEMMA EndKeepsPool ==
  ASSUME PoolInv, NEW w \in Workers, EndJob(w)
  PROVE  PoolInv'
  <1>. DEFINE F == [job : Jobs, pc : Nat]
              p == stack[w]
              L == Len(stack[w])
  <1>1. /\ stack[w] # <<>> /\ Ended(w) /\ stack' = [stack EXCEPT ![w] = Front(stack[w])]
        /\ finished' = finished \cup {Top(w).job}
        /\ phase' = IF Top(w).job = "body" THEN verdict ELSE phase
        /\ UNCHANGED <<deque, channel, verdict>>
    BY DEF EndJob
  <1>2. PICK j : j = Top(w).job
    OBVIOUS
  <1>3. /\ L \in Nat /\ L \in 1 .. L /\ Top(w) = p[L] /\ p[L].job = j /\ j \in Jobs
        /\ p[L].pc \in Nat /\ Len(Program[j]) < p[L].pc
    <2>1. Len(Program[j]) < Top(w).pc
      BY <1>1, <1>2, TopFrame, StepFacts DEF Ended, PoolInv
    <2>. QED
      BY <1>1, <1>2, <2>1, TopFrame DEF PoolInv
  <1>4. Running(j) /\ j \notin finished /\ finished' = finished \cup {j}
    BY <1>1, <1>2, TopPast
  <1>5. /\ stack \in [Workers -> Seq(F)] /\ p \in Seq(F)
    BY DEF PoolInv, PoolTypeOK
  <1>6. PICK r : r = Front(p)
    OBVIOUS
  <1>7. /\ r \in Seq(F) /\ Len(r) = L - 1
        /\ \A i \in 1 .. Len(r) : i \in 1 .. L /\ i # L /\ r[i] = p[i]
        /\ \A i \in 1 .. L : i # L => i \in 1 .. Len(r)
    <2>1. PICK n : n = L - 1
      OBVIOUS
    <2>2. n \in Nat /\ n <= L
      BY <1>3, <2>1
    <2>3. r = SubSeq(p, 1, n)
      BY <1>6, <2>1 DEF Front
    <2>. HIDE DEF F, p
    <2>4. n <= Len(p)
      BY <2>2 DEF p
    <2>5. /\ SubSeq(p, 1, n) \in Seq(F) /\ Len(SubSeq(p, 1, n)) = n
          /\ \A i \in 1 .. n : SubSeq(p, 1, n)[i] = p[i]
      BY <1>5, <2>2, <2>4, SubSeqOfSeq
    <2>. QED
      BY <1>3, <2>1, <2>2, <2>3, <2>5
  <1>8. /\ stack' \in [Workers -> Seq(F)]
        /\ \A u \in Workers : stack'[u] = IF u = w THEN r ELSE stack[u]
    <2>1. stack' = [stack EXCEPT ![w] = r]
      BY <1>1, <1>6
    <2>. HIDE DEF F, p
    <2>. QED
      BY <1>5, <1>7, <2>1
  \* The frames that are left are where they were.
  <1>9. ASSUME NEW u \in Workers, NEW i \in 1 .. Len(stack'[u])
        PROVE  i \in 1 .. Len(stack[u]) /\ stack'[u][i] = stack[u][i] /\ ~ (u = w /\ i = L)
    <2>1. CASE u = w
      <3>1. stack'[u] = r /\ stack[u] = p
        BY <1>8, <2>1
      <3>. QED
        BY <1>7, <3>1
    <2>2. CASE u # w
      BY <1>8, <2>2
    <2>. QED
      BY <2>1, <2>2
  <1>10. ASSUME NEW u \in Workers, NEW i \in 1 .. Len(stack[u]), ~ (u = w /\ i = L)
         PROVE  i \in 1 .. Len(stack'[u]) /\ stack'[u][i] = stack[u][i]
    <2>1. CASE u = w
      <3>1. stack'[u] = r /\ stack[u] = p
        BY <1>8, <2>1
      <3>. QED
        BY <1>7, <1>10, <2>1, <3>1
    <2>2. CASE u # w
      BY <1>8, <2>2
    <2>. QED
      BY <2>1, <2>2
  <1>11. \A x : Queued(x)' <=> Queued(x)
    BY <1>1 DEF Queued
  <1>12. \A x : Running(x)' => Running(x) /\ x # j
    <2>. SUFFICES ASSUME NEW x, Running(x)' PROVE Running(x) /\ x # j
      OBVIOUS
    <2>1. PICK u \in Workers, i \in Int : i \in 1 .. Len(stack'[u]) /\ stack'[u][i].job = x
      BY DEF Running
    <2>2. i \in 1 .. Len(stack[u]) /\ stack[u][i].job = x /\ ~ (u = w /\ i = L)
      BY <1>9, <2>1
    <2>3. Running(x)
      BY <2>2 DEF Running
    <2>4. x # j
      BY <1>3, <2>2 DEF PoolInv, OnePlaceInv
    <2>. QED
      BY <2>3, <2>4
  <1>13. ASSUME NEW x, NEW n \in Nat, Past(x, n) PROVE Past(x, n)'
    <2>1. CASE x \in finished'
      BY <2>1 DEF Past
    <2>2. CASE x \notin finished'
      <3>1. PICK u \in Workers, i \in Int :
              i \in 1 .. Len(stack[u]) /\ stack[u][i].job = x /\ n < stack[u][i].pc
        BY <1>4, <1>13, <2>2 DEF Past
      <3>2. ~ (u = w /\ i = L)
        BY <1>3, <1>4, <2>2, <3>1
      <3>3. i \in 1 .. Len(stack'[u]) /\ stack'[u][i].job = x /\ n < stack'[u][i].pc
        BY <1>10, <3>1, <3>2
      <3>. QED
        BY <3>3 DEF Past
    <2>. QED
      BY <2>1, <2>2
  <1>14. ASSUME NEW x \in Jobs, NEW n \in 1 .. Len(Program[x]), Past(x, n)' PROVE Past(x, n)
    <2>1. CASE x \in finished
      BY <2>1 DEF Past
    <2>2. CASE x = j
      <3>1. n < p[L].pc /\ L \in 1 .. Len(stack[w]) /\ stack[w][L].job = x
        BY <1>3, <2>2, StepFacts
      <3>. QED
        BY <3>1 DEF Past
    <2>3. CASE x \notin finished /\ x # j
      <3>1. PICK u \in Workers, i \in Int :
              i \in 1 .. Len(stack'[u]) /\ stack'[u][i].job = x /\ n < stack'[u][i].pc
        BY <1>4, <1>14, <2>3 DEF Past
      <3>2. i \in 1 .. Len(stack[u]) /\ stack'[u][i] = stack[u][i]
        BY <1>9, <3>1
      <3>. QED
        BY <3>1, <3>2 DEF Past
    <2>. QED
      BY <2>1, <2>2, <2>3
  <1>15. PoolTypeOK'
    <2>1. ASSUME NEW u \in Workers, NEW i \in 1 .. Len(stack'[u])
          PROVE  stack'[u][i].pc \in 1 .. Len(Program[stack'[u][i].job]) + 1
      <3>1. i \in 1 .. Len(stack[u]) /\ stack'[u][i] = stack[u][i]
        BY <1>9
      <3>. QED
        BY <3>1 DEF PoolInv, PoolTypeOK
    <2>. QED
      BY <1>1, <1>3, <1>4, <1>8, <2>1 DEF PoolInv, PoolTypeOK
  <1>16. OnePlaceInv'
    <2>1. ASSUME NEW u \in Workers, NEW t \in Workers,
                 NEW i \in 1 .. Len(stack'[u]), NEW k \in 1 .. Len(stack'[t]),
                 stack'[u][i].job = stack'[t][k].job
          PROVE  u = t /\ i = k
      <3>1. /\ i \in 1 .. Len(stack[u]) /\ k \in 1 .. Len(stack[t])
            /\ stack[u][i].job = stack[t][k].job
        BY <1>9, <2>1
      <3>. QED
        BY <3>1 DEF PoolInv, OnePlaceInv
    <2>2. ASSUME NEW x \in Jobs
          PROVE  /\ ~ (Running(x)' /\ Queued(x)')
                 /\ ~ (Running(x)' /\ x \in finished')
                 /\ ~ (Queued(x)' /\ x \in finished')
      <3>1. /\ ~ (Running(x) /\ Queued(x)) /\ ~ (Running(x) /\ x \in finished)
            /\ ~ (Queued(x) /\ x \in finished)
        BY DEF PoolInv, OnePlaceInv
      <3>2. x = j => ~ Queued(x)
        BY <1>4, <3>1
      <3>. QED
        BY <1>4, <1>11, <1>12, <3>1, <3>2
    <2>. QED
      BY <1>1, <2>1, <2>2 DEF PoolInv, OnePlaceInv
  <1>17. SpawnInv' /\ JoinInv'
    <2>1. \A x \in Jobs : \A n \in 1 .. Len(Program[x]) : Past(x, n)' <=> Past(x, n)
      BY <1>13, <1>14, StepFacts
    <2>2. \A x \in Jobs : Known(x)' => Known(x)
      BY <1>4, <1>11, <1>12 DEF Known
    <2>. QED
      BY <1>4, <2>1, <2>2, StillSpawned
  <1>18. BeforeInv'
    <2>1. phase \notin {"commit", "fold", "aggregated"}
      BY <1>1 DEF PoolInv, BeforeInv
    <2>2. verdict \notin {"commit", "fold", "aggregated"}
      BY DEF PoolInv, PoolTypeOK
    <2>. QED
      BY <1>1, <2>1, <2>2 DEF BeforeInv
  <1>19. SendersOpen' => SendersOpen
    <2>. SUFFICES ASSUME SendersOpen' PROVE SendersOpen
      OBVIOUS
    <2>1. CASE "tipp" \notin finished'
      BY <1>4, <2>1 DEF SendersOpen
    <2>2. CASE SendersOpenBody'
      <3>1. PICK u \in Workers : \E f \in Range(stack'[u]) : f.job = "body" /\ f.pc < Len(Program["body"])
        BY <2>2 DEF SendersOpenBody
      <3>2. PICK f \in Range(stack'[u]) : f.job = "body" /\ f.pc < Len(Program["body"])
        BY <3>1
      <3>3. stack'[u] \in Seq(F) /\ stack[u] \in Seq(F)
        BY <1>5, <1>8
      <3>4. PICK i \in 1 .. Len(stack'[u]) : f = stack'[u][i]
        BY <3>2, <3>3, FromRange
      <3>5. i \in 1 .. Len(stack[u]) /\ f = stack[u][i]
        BY <1>9, <3>4
      <3>6. f \in Range(stack[u])
        BY <3>3, <3>5, InRange
      <3>. QED
        BY <3>2, <3>6 DEF SendersOpen, SendersOpenBody
    <2>. QED
      BY <2>1, <2>2 DEF SendersOpen
  <1>20. DecidedInv'
    BY <1>1, <1>13, <1>19, StillDecided
  <1>. QED
    BY <1>15, <1>16, <1>17, <1>18, <1>20 DEF PoolInv

-----------------------------------------------------------------------------
LEMMA NextPool ==
  ASSUME PoolInv, [Next]_snarkVars
  PROVE  PoolInv'
  <1>1. CASE ProverStep /\ UNCHANGED poolVars
    BY <1>1, ProverKeepsPool
  <1>2. CASE BeginVerify
    BY <1>2, BeginKeepsPool
  <1>3. ASSUME NEW w \in Workers, PoolStep(w) PROVE PoolInv'
    BY <1>3, SpawnKeepsPool, SumKeepsPool, ReplayKeepsPool, SendKeepsPool, FinalZKeepsPool,
       CollectKeepsPool, JoinKeepsPool, TakeKeepsPool, EndKeepsPool DEF PoolStep
  <1>4. CASE UNCHANGED snarkVars
    <2>1. UNCHANGED <<stack, deque, finished, channel, verdict, phase>>
      BY <1>4 DEF snarkVars, poolVars
    <2>2. PoolTypeOK'
      BY <2>1 DEF PoolInv, PoolTypeOK
    <2>3. OnePlaceInv'
      BY <2>1 DEF PoolInv, OnePlaceInv, Running, Queued
    <2>4. SpawnInv' /\ JoinInv'
      <3>1. \A j, n : Past(j, n)' <=> Past(j, n)
        BY <2>1 DEF Past
      <3>2. \A j : Known(j)' <=> Known(j)
        BY <2>1 DEF Known, Running, Queued
      <3>. QED
        BY <2>1, <3>1, <3>2, StillSpawned
    <2>5. BeforeInv'
      BY <2>1 DEF PoolInv, BeforeInv
    <2>6. DecidedInv'
      BY <2>1 DEF PoolInv, DecidedInv, SendersOpen, SendersOpenBody, Past
    <2>. QED
      BY <2>2, <2>3, <2>4, <2>5, <2>6 DEF PoolInv
  <1>. QED
    BY <1>1, <1>2, <1>3, <1>4 DEF Next

\* However many workers there are and whatever each steals, a job is in one
\* place, is spawned once, and waits for the jobs it spawned.
THEOREM PoolInvariant == Spec => []PoolInv
  <1>1. Init => PoolInv
    BY InitPool
  <1>2. PoolInv /\ [Next]_snarkVars => PoolInv'
    BY NextPool
  <1>. QED
    BY <1>1, <1>2, PTL DEF Spec

\* The verdict covers every check: the channel closes only when no job is left
\* that could send into it (verifier.rs:74).
THEOREM EveryCheckCounts == Spec => []AllChecksCount
  <1>1. PoolInv => AllChecksCount
    BY Covered
  <1>. QED
    BY <1>1, PoolInvariant, PTL


-----------------------------------------------------------------------------
(***************************************************************************)
(* The challenges: the verifier's transcript is the prover's.              *)
(***************************************************************************)

\* Induction over the natural numbers, for a set.
LEMMA NatInduct ==
  ASSUME NEW S, 0 \in S, \A n \in Nat : n \in S => n + 1 \in S
  PROVE  Nat \subseteq S
  <1>. SUFFICES ASSUME Nat \ S # {} PROVE FALSE
    OBVIOUS
  <1>1. PICK m \in Nat \ S : \A n \in Nat \ S : ~ (<<n, m>> \in OpToRel(<, Nat))
    <2>1. IsWellFoundedOn(OpToRel(<, Nat), Nat)
      BY NatLessThanWellFounded
    <2>. QED
      BY <2>1, WFMin
  <1>2. \A n \in Nat \ S : ~ (n < m)
    BY <1>1 DEF OpToRel
  <1>3. m - 1 \in Nat /\ m - 1 < m /\ (m - 1) + 1 = m
    OBVIOUS
  <1>. QED
    BY <1>2, <1>3

\* What a fold of rounds over the first n elements of seq is: a function of
\* the sets of indices that takes the greatest one out at a time.
IsFold(g, base, seq, n) ==
  g = [ks \in SUBSET (1 .. n) |->
         IF ks = {} THEN base ELSE ReplayRound(g[ks \ {Max(ks)}], seq[Max(ks)])]

LEMMA Greatest ==
  ASSUME NEW n \in Nat, NEW ks, ks \subseteq 1 .. n + 1, n + 1 \in ks
  PROVE  Max(ks) = n + 1
  <1>1. n + 1 \in ks /\ \A y \in ks : n + 1 >= y
    OBVIOUS
  <1>2. ASSUME NEW x \in ks, \A y \in ks : x >= y PROVE x = n + 1
    BY <1>2
  <1>. QED
    BY <1>1, <1>2 DEF Max

LEMMA FoldIsDefined ==
  ASSUME NEW base, NEW seq, NEW n \in Nat
  PROVE  \E g : IsFold(g, base, seq, n)
  <1> DEFINE Defined == {m \in Nat : \E g : IsFold(g, base, seq, m)}
  <1>1. 0 \in Defined
    <2>1. SUBSET (1 .. 0) = {{}}
      OBVIOUS
    <2>2. IsFold([ks \in {{}} |-> base], base, seq, 0)
      BY <2>1 DEF IsFold
    <2>. QED
      BY <2>2
  <1>2. ASSUME NEW m \in Nat, m \in Defined PROVE m + 1 \in Defined
    <2>1. PICK g : IsFold(g, base, seq, m)
      BY <1>2
    <2> DEFINE Up == SUBSET (1 .. m + 1)
               h == [ks \in Up |->
                       IF m + 1 \in ks THEN ReplayRound(g[ks \ {m + 1}], seq[m + 1]) ELSE g[ks]]
    <2>2. ASSUME NEW ks \in Up, m + 1 \notin ks
          PROVE  ks \in SUBSET (1 .. m) /\ h[ks] = g[ks]
      <3>1. ks \subseteq 1 .. m
        BY <2>2
      <3>. QED
        BY <2>2, <3>1
    <2>3. ASSUME NEW ks \in Up
          PROVE  h[ks] = IF ks = {} THEN base ELSE ReplayRound(h[ks \ {Max(ks)}], seq[Max(ks)])
      <3>1. CASE m + 1 \in ks
        <4>1. Max(ks) = m + 1 /\ ks # {}
          BY <3>1, Greatest
        <4>2. ks \ {m + 1} \in Up /\ m + 1 \notin ks \ {m + 1}
          OBVIOUS
        <4>3. h[ks \ {m + 1}] = g[ks \ {m + 1}]
          BY <2>2, <4>2
        <4>4. h[ks] = ReplayRound(g[ks \ {m + 1}], seq[m + 1])
          BY <3>1
        <4>. HIDE DEF h, Up
        <4>. QED
          BY <4>1, <4>3, <4>4
      <3>2. CASE m + 1 \notin ks
        <4>1. h[ks] = g[ks] /\ ks \in SUBSET (1 .. m)
          BY <2>2, <3>2
        <4>2. g[ks] = IF ks = {} THEN base ELSE ReplayRound(g[ks \ {Max(ks)}], seq[Max(ks)])
          BY <2>1, <4>1 DEF IsFold
        <4>3. h[ks \ {Max(ks)}] = g[ks \ {Max(ks)}]
          <5>1. ks \ {Max(ks)} \in Up /\ m + 1 \notin ks \ {Max(ks)}
            BY <3>2
          <5>. QED
            BY <2>2, <5>1
        <4>. HIDE DEF h, Up
        <4>. QED
          BY <4>1, <4>2, <4>3
      <3>. QED
        BY <3>1, <3>2
    <2>4. h = [ks \in Up |-> h[ks]]
      OBVIOUS
    <2>5. h = [ks \in Up |->
                 IF ks = {} THEN base ELSE ReplayRound(h[ks \ {Max(ks)}], seq[Max(ks)])]
      <3>. HIDE DEF h, Up
      <3>. QED
        BY <2>3, <2>4
    <2>6. IsFold(h, base, seq, m + 1)
      <3>. HIDE DEF h
      <3>. QED
        BY <2>5 DEF IsFold
    <2>. QED
      <3>. HIDE DEF h
      <3>. QED
        BY <2>6
  <1>. QED
    <2>1. Nat \subseteq Defined
      <3>. HIDE DEF Defined
      <3>. QED
        BY <1>1, <1>2, NatInduct
    <2>. QED
      BY <2>1

Refolded(base, seq) == FoldLeft(ReplayRound, base, seq)

\* Folding the rounds gives the last of the states that lead from one round to
\* the next.
LEMMA FoldFollows ==
  ASSUME NEW base, NEW seq, NEW n \in Nat, DOMAIN seq = 1 .. n,
         NEW s, s[0] = base,
         \A k \in 0 .. n - 1 : s[k + 1] = ReplayRound(s[k], seq[k + 1])
  PROVE  Refolded(base, seq) = s[n]
  <1> DEFINE G == CHOOSE g : IsFold(g, base, seq, n)
  <1>1. Refolded(base, seq) = G[1 .. n]
    BY DEF Refolded, FoldLeft, MapThenFoldSet, IsFold
  <1>2. IsFold(G, base, seq, n)
    BY FoldIsDefined
  <1>. HIDE DEF G
  <1> DEFINE Agree == {k \in Nat : k <= n => G[1 .. k] = s[k]}
  <1>3. 0 \in Agree
    <2>1. 1 .. 0 = {} /\ {} \in SUBSET (1 .. n)
      OBVIOUS
    <2>2. G[{}] = base
      BY <1>2, <2>1 DEF IsFold
    <2>. QED
      BY <2>1, <2>2
  <1>4. ASSUME NEW k \in Nat, k \in Agree PROVE k + 1 \in Agree
    <2>. SUFFICES ASSUME k + 1 <= n PROVE G[1 .. k + 1] = s[k + 1]
      OBVIOUS
    <2>1. k \in 0 .. n - 1 /\ G[1 .. k] = s[k]
      BY <1>4
    <2>2. 1 .. k + 1 \in SUBSET (1 .. n) /\ 1 .. k + 1 # {} /\ k + 1 \in 1 .. k + 1
      <3>1. k + 1 \in 1 .. k + 1
        OBVIOUS
      <3>2. 1 .. k + 1 \subseteq 1 .. n
        OBVIOUS
      <3>. QED
        BY <3>1, <3>2
    <2>3. Max(1 .. k + 1) = k + 1
      BY <2>2, Greatest
    <2>4. (1 .. k + 1) \ {k + 1} = 1 .. k
      OBVIOUS
    <2>5. G[1 .. k + 1] = ReplayRound(G[(1 .. k + 1) \ {Max(1 .. k + 1)}], seq[Max(1 .. k + 1)])
      BY <1>2, <2>2 DEF IsFold
    <2>6. G[1 .. k + 1] = ReplayRound(s[k], seq[k + 1])
      BY <2>1, <2>3, <2>4, <2>5
    <2>. QED
      BY <2>1, <2>6
  <1>5. Nat \subseteq Agree
    <2>. HIDE DEF Agree
    <2>. QED
      BY <1>3, <1>4, NatInduct
  <1>. QED
    BY <1>1, <1>5

-----------------------------------------------------------------------------
\* A sequence of whatever its elements are.
IsSequence(q) == q \in Seq(Range(q))

LEMMA NextElement ==
  ASSUME NEW q, IsSequence(q), NEW x
  PROVE  /\ Len(q) \in Nat /\ DOMAIN q = 1 .. Len(q) /\ (q # <<>> <=> Len(q) > 0)
         /\ IsSequence(Append(q, x)) /\ Append(q, x) # <<>>
         /\ Len(Append(q, x)) = Len(q) + 1
         /\ \A k \in 1 .. Len(q) : Append(q, x)[k] = q[k]
         /\ Append(q, x)[Len(q) + 1] = x
  <1> DEFINE S == Range(q) \cup {x}
  <1>0. q \in Seq(Range(q))
    BY DEF IsSequence
  <1>1. Len(q) \in Nat /\ DOMAIN q = 1 .. Len(q) /\ (q # <<>> <=> Len(q) > 0)
    BY <1>0
  <1>2. q \in Seq(S)
    <2>1. \A k \in 1 .. Len(q) : q[k] \in S
      BY <1>1 DEF Range
    <2>. HIDE DEF S
    <2>. QED
      BY <1>0, <2>1
  <1>. HIDE DEF S
  <1>3. x \in S
    BY DEF S
  <1>4. /\ Append(q, x) \in Seq(S) /\ Len(Append(q, x)) = Len(q) + 1
        /\ \A k \in 1 .. Len(q) : Append(q, x)[k] = q[k]
        /\ Append(q, x)[Len(q) + 1] = x
    BY <1>2, <1>3
  <1>5. IsSequence(Append(q, x))
    <2> DEFINE p == Append(q, x)
    <2>1. p \in Seq(S) /\ \A k \in 1 .. Len(p) : k \in DOMAIN p
      BY <1>4
    <2>2. \A k \in 1 .. Len(p) : p[k] \in Range(p)
      BY <2>1 DEF Range
    <2>. HIDE DEF p
    <2>3. p \in Seq(Range(p))
      BY <2>1, <2>2
    <2>. QED
      BY <2>3 DEF p, IsSequence
  <1>6. Append(q, x) # <<>>
    BY <1>1, <1>4
  <1>. QED
    BY <1>1, <1>4, <1>5, <1>6

First == Drawn(FirstTranscript \o Products(proof), "first-challenge")

\* What the verifier will ask after a round.
Asked(st, rd) == Drawn(st.t \o RoundEntries(Last(st.xinvs), rd), "challenge_i")

\* The verifier, replaying the rounds there are, goes through the states s,
\* and the prover has asked for every challenge that it will ask for.
IsReplay(s, n) ==
  /\ s[0] = [t |-> First, xinvs |-> <<Ask(First)>>]
  /\ \A k \in 0 .. n - 1 : s[k + 1] = ReplayRound(s[k], proof.rounds[k + 2])
  /\ \A k \in 0 .. n : s[k].t \in DOMAIN oracle

Redrawn == IF proof.rounds = <<>> THEN 0 ELSE Len(proof.rounds) - 1

\* Replaying the rounds would end with transcript t and the prover's challenges.
Followed(t) ==
  /\ IsSequence(proof.rounds)
  /\ IsSequence(folding.xinvs) /\ folding.xinvs # <<>>
  /\ \E s : IsReplay(s, Redrawn) /\ s[Redrawn] = [t |-> t, xinvs |-> folding.xinvs]

CommitFields == {"com_ab", "com_c", "ip_ab", "agg_c", "nproofs", "rounds"}

BeginInv ==
  phase \in {"commit", "fold", "refused"} =>
    /\ replayed = <<>>
    /\ \A w \in Workers : stack[w] = <<>> /\ deque[w] = <<>>

CommitInv ==
  phase = "commit" =>
    /\ claim \in Claims
    /\ transcript = Entry("public-inputs", claim.inputs)

FoldInv ==
  phase = "fold" =>
    /\ DOMAIN proof = CommitFields /\ "xinvs" \in DOMAIN folding
    /\ Followed(transcript)
    /\ proof.rounds = <<>> => Len(folding.a) > 1

\* Everything is asked for, and the openings' challenge was the last.
SealInv ==
  phase \notin {"commit", "fold", "refused"} =>
    /\ proof.rounds # <<>>
    /\ \E t : /\ Followed(t)
              /\ transcript = Drawn(t \o FinalKeys(Inverse1(Reverse(folding.xinvs)[1]),
                                                   proof.vkey, proof.wkey), "z-challenge")

TraceInv == BeginInv /\ CommitInv /\ FoldInv /\ SealInv /\ SameChallenges

-----------------------------------------------------------------------------
LEMMA RoundIs ==
  ASSUME NEW st, NEW rd
  PROVE  ReplayRound(st, rd) = [t |-> Asked(st, rd), xinvs |-> Append(st.xinvs, Ask(Asked(st, rd)))]
  BY DEF ReplayRound, Asked

LEMMA InitTrace == Init => TraceInv
  BY DEF Init, SnarkInit, PoolInit, TraceInv, BeginInv, CommitInv, FoldInv, SealInv, SameChallenges

\* What the oracle answered it will answer.
Remembers == \A t \in DOMAIN oracle : t \in DOMAIN oracle' /\ oracle'[t] = oracle[t]

LEMMA NewAnswer ==
  ASSUME NEW t, NEW x, x \in Answers(t), Remember(t, x)
  PROVE  Remembers /\ t \in DOMAIN oracle' /\ oracle'[t] = x
  BY DEF Answers, Remember, Knowing, Extended, Remembers

\* The states a replay goes through do not change as the prover goes on.
LEMMA ReplayKept ==
  ASSUME NEW n \in Nat, NEW s, IsReplay(s, n), Remembers, First' = First,
         \A k \in 2 .. n + 1 : proof'.rounds[k] = proof.rounds[k]
  PROVE  IsReplay(s, n)'
  <1>1. \A k \in 0 .. n : s[k].t \in DOMAIN oracle /\ s[k].t \in DOMAIN oracle'
    BY DEF IsReplay, Remembers
  <1>2. ASSUME NEW t, t \in DOMAIN oracle PROVE Ask(t)' = Ask(t)
    BY <1>2 DEF Ask, Remembers
  <1>3. PICK f : f = First
    OBVIOUS
  <1>4. s[0] = [t |-> f, xinvs |-> <<Ask(f)>>]
    BY <1>3 DEF IsReplay
  <1>5. f \in DOMAIN oracle
    <2>1. s[0].t = f /\ 0 \in 0 .. n
      BY <1>4
    <2>. QED
      BY <1>1, <2>1
  <1>6. s[0] = [t |-> First', xinvs |-> <<Ask(First)'>>]
    <2>1. Ask(f)' = Ask(f)
      BY <1>2, <1>5
    <2>2. Ask(First)' = Ask(f)'
      BY <1>3 DEF Ask
    <2>. QED
      BY <1>3, <1>4, <2>1, <2>2
  <1>7. ASSUME NEW k \in 0 .. n - 1 PROVE s[k + 1] = ReplayRound(s[k], proof.rounds[k + 2])'
    <2>1. PICK rd : rd = proof.rounds[k + 2] /\ rd = proof'.rounds[k + 2]
      BY k + 2 \in 2 .. n + 1
    <2>2. s[k + 1] = [t |-> Asked(s[k], rd), xinvs |-> Append(s[k].xinvs, Ask(Asked(s[k], rd)))]
      BY <2>1, RoundIs DEF IsReplay
    <2>3. Asked(s[k], rd) \in DOMAIN oracle
      <3>1. k + 1 \in 0 .. n /\ s[k + 1].t = Asked(s[k], rd)
        BY <2>2
      <3>. QED
        BY <1>1, <3>1
    <2>4. Ask(Asked(s[k], rd))' = Ask(Asked(s[k], rd))
      <3>1. PICK a : a = Asked(s[k], rd)
        OBVIOUS
      <3>2. Ask(a)' = Ask(a)
        BY <1>2, <2>3, <3>1
      <3>. QED
        BY <3>1, <3>2
    <2>5. ReplayRound(s[k], rd)' = [t |-> Asked(s[k], rd), xinvs |-> Append(s[k].xinvs, Ask(Asked(s[k], rd))')]
      BY DEF ReplayRound, Asked
    <2>. QED
      BY <2>1, <2>2, <2>4, <2>5
  <1>. QED
    BY <1>1, <1>6, <1>7 DEF IsReplay

LEMMA SameHead ==
  ASSUME UNCHANGED claim, proof'.com_ab = proof.com_ab, proof'.com_c = proof.com_c,
         proof'.ip_ab = proof.ip_ab, proof'.agg_c = proof.agg_c
  PROVE  First' = First
  BY DEF First, FirstTranscript, Commitments, Products

\* Steps that neither add a round nor draw a challenge of the recursion.
LEMMA FollowedKept ==
  ASSUME NEW t, Followed(t), Remembers, First' = First,
         proof'.rounds = proof.rounds, folding'.xinvs = folding.xinvs
  PROVE  Followed(t)'
  <1>1. PICK s : IsReplay(s, Redrawn) /\ s[Redrawn] = [t |-> t, xinvs |-> folding.xinvs]
    BY DEF Followed
  <1>2. PICK n : n = Redrawn
    OBVIOUS
  <1>3. n \in Nat
    BY <1>2, NextElement DEF Followed, Redrawn
  <1>4. Redrawn' = n
    BY <1>2 DEF Redrawn
  <1>5. IsReplay(s, n)
    BY <1>1, <1>2
  <1>6. IsReplay(s, n)'
    BY <1>3, <1>5, ReplayKept
  <1>7. IsReplay(s, Redrawn)'
    BY <1>4, <1>6 DEF IsReplay
  <1>8. s[Redrawn'] = [t |-> t, xinvs |-> folding'.xinvs]
    BY <1>1, <1>2, <1>4
  <1>. QED
    BY <1>7, <1>8 DEF Followed, IsSequence

LEMMA RefuseKeepsTrace ==
  ASSUME TraceInv, Refuse, UNCHANGED poolVars
  PROVE  TraceInv'
  BY DEF TraceInv, BeginInv, CommitInv, FoldInv, SealInv, SameChallenges, Refuse, poolVars

\* A sequence of one challenge.
LEMMA OneElement ==
  ASSUME NEW x
  PROVE  IsSequence(<<x>>) /\ <<x>> # <<>>
  <1>1. <<x>> \in Seq({x}) /\ Range(<<x>>) = {x}
    BY DEF Range
  <1>. QED
    BY <1>1 DEF IsSequence

\* The transcripts of r and of the first challenge differ in their lengths.
LEMMA TwoDraws ==
  ASSUME NEW t, NEW p, NEW q
  PROVE  LET tr == Drawn(Entry("public-inputs", t) \o Commitments(p), "r-random-fiatshamir")
         IN  Drawn(tr \o Products(q), "first-challenge") # tr
  <1> DEFINE S == {<<"public-inputs", t>>, <<"AB-commitment", p.com_ab>>, <<"C-commitment", p.com_c>>,
                   <<"r-random-fiatshamir", "drawn">>, <<"inner-product-ab", q.ip_ab>>,
                   <<"comm-c", q.agg_c>>, <<"first-challenge", "drawn">>}
             tr == Drawn(Entry("public-inputs", t) \o Commitments(p), "r-random-fiatshamir")
  <1>1. ASSUME NEW l, NEW v, <<l, v>> \in S
        PROVE  Entry(l, v) \in Seq(S) /\ Len(Entry(l, v)) = 1
    <2>. HIDE DEF S
    <2>. QED
      BY <1>1 DEF Entry
  <1>2. ASSUME NEW u \in Seq(S), NEW v \in Seq(S)
        PROVE  u \o v \in Seq(S) /\ Len(u \o v) = Len(u) + Len(v) /\ Len(u) \in Nat
    <2>. HIDE DEF S
    <2>. QED
      OBVIOUS
  <1>3. /\ Entry("public-inputs", t) \in Seq(S)
        /\ Entry("AB-commitment", p.com_ab) \in Seq(S)
        /\ Entry("C-commitment", p.com_c) \in Seq(S)
        /\ Entry("r-random-fiatshamir", "drawn") \in Seq(S)
        /\ Entry("inner-product-ab", q.ip_ab) \in Seq(S)
        /\ Entry("comm-c", q.agg_c) \in Seq(S)
        /\ Entry("first-challenge", "drawn") \in Seq(S)
        /\ Len(Entry("first-challenge", "drawn")) = 1
    BY <1>1
  <1>. HIDE DEF S
  <1>4. Commitments(p) \in Seq(S) /\ Products(q) \in Seq(S) /\ Len(Products(q)) \in Nat
    BY <1>2, <1>3 DEF Commitments, Products
  <1>5. Entry("public-inputs", t) \o Commitments(p) \in Seq(S)
    BY <1>2, <1>3, <1>4
  <1>6. tr \in Seq(S) /\ Len(tr) \in Nat
    BY <1>2, <1>3, <1>5 DEF Drawn
  <1>. HIDE DEF tr
  <1>7. tr \o Products(q) \in Seq(S) /\ Len(tr \o Products(q)) = Len(tr) + Len(Products(q))
    BY <1>2, <1>4, <1>6
  <1>8. Len(Drawn(tr \o Products(q), "first-challenge")) = Len(tr) + Len(Products(q)) + 1
    <2>1. Len((tr \o Products(q)) \o Entry("first-challenge", "drawn"))
          = Len(tr \o Products(q)) + Len(Entry("first-challenge", "drawn"))
      BY <1>2, <1>3, <1>7
    <2>2. Len(Entry("first-challenge", "drawn")) = 1
      BY <1>3
    <2>. QED
      BY <1>7, <2>1, <2>2 DEF Drawn
  <1>9. Drawn(tr \o Products(q), "first-challenge") # tr
    BY <1>4, <1>6, <1>8
  <1>. QED
    BY <1>9 DEF tr

LEMMA CommitKeepsTrace ==
  ASSUME TraceInv, Commit, UNCHANGED poolVars
  PROVE  TraceInv'
  <1> DEFINE a == [k \in 1 .. Size |-> claim.proofs[k].a]
             b == [k \in 1 .. Size |-> claim.proofs[k].b]
             c == [k \in 1 .. Size |-> claim.proofs[k].c]
             coms == [com_ab |-> CommitPair(VKey(Size), WKey(Size), a, b),
                      com_c |-> CommitSingle(VKey(Size), c)]
             tr == Drawn(transcript \o Commitments(coms), "r-random-fiatshamir")
  <1>1. PICK r \in Answers(tr) :
          LET rs == ScalarPowers(Size, r)
              br == [k \in 1 .. Size |-> (b[k] * rs[k]) % Q]
              products == [ip_ab |-> Inner(a, br), agg_c |-> Inner(c, rs)]
              tx == Drawn(tr \o Products(products), "first-challenge")
          IN \E xinv \in Answers(tx) :
               /\ oracle' = Knowing(tr, r, Knowing(tx, xinv, oracle))
               /\ transcript' = tx
               /\ proof' = Extended(coms, Extended(products, [nproofs |-> Size, rounds |-> <<>>]))
               /\ folding' = [a |-> a, b |-> br, c |-> c, r |-> rs, shift |-> r,
                              vkey |-> VKey(Size),
                              wkey |-> Scale(WKey(Size), [k \in 1 .. Size |-> Inverse1(rs[k])]),
                              xinvs |-> <<xinv>>]
    BY DEF Commit
  <1> DEFINE rs == ScalarPowers(Size, r)
             br == [k \in 1 .. Size |-> (b[k] * rs[k]) % Q]
             products == [ip_ab |-> Inner(a, br), agg_c |-> Inner(c, rs)]
             tx == Drawn(tr \o Products(products), "first-challenge")
  <1>2. PICK xinv :
          /\ oracle' = Knowing(tr, r, Knowing(tx, xinv, oracle))
          /\ transcript' = tx
          /\ proof' = Extended(coms, Extended(products, [nproofs |-> Size, rounds |-> <<>>]))
          /\ folding' = [a |-> a, b |-> br, c |-> c, r |-> rs, shift |-> r,
                         vkey |-> VKey(Size),
                         wkey |-> Scale(WKey(Size), [k \in 1 .. Size |-> Inverse1(rs[k])]),
                         xinvs |-> <<xinv>>]
    <2>. HIDE DEF a, b, c, coms, tr
    <2>. QED
      BY <1>1
  <1>20. folding'.a = a /\ folding'.xinvs = <<xinv>> /\ "xinvs" \in DOMAIN folding'
    <2>. HIDE DEF a, b, c, rs, br
    <2>. QED
      BY <1>2
  <1>3. /\ phase = "commit" /\ phase' = "fold" /\ claim' = claim /\ ~ Refused
        /\ claim \in Claims /\ transcript = Entry("public-inputs", claim.inputs)
        /\ UNCHANGED <<replayed, stack, deque>>
    BY DEF Commit, TraceInv, CommitInv, poolVars
  <1>4. /\ DOMAIN proof' = CommitFields
        /\ proof'.com_ab = coms.com_ab /\ proof'.com_c = coms.com_c
        /\ proof'.ip_ab = products.ip_ab /\ proof'.agg_c = products.agg_c
        /\ proof'.rounds = <<>>
    BY <1>2 DEF Extended, CommitFields
  <1>5. Size \in Nat /\ Size > 1
    BY <1>3, ClaimsAssumption DEF Refused, Size
  <1>6. Len(folding'.a) > 1
    <2>1. Len(a) = Size
      BY <1>5
    <2>. QED
      BY <1>20, <1>5, <2>1
  <1>. HIDE DEF coms, products
  <1>7. FirstTranscript' = tr /\ First' = tx
    BY <1>3, <1>4 DEF FirstTranscript, First, Commitments, Products
  <1>8. tx # tr
    BY <1>3, TwoDraws
  <1>. HIDE DEF tr, tx
  <1>9. tx \in DOMAIN oracle' /\ oracle'[tx] = xinv
    BY <1>2, <1>8 DEF Knowing, Extended
  <1>10. Ask(First)' = xinv
    BY <1>7, <1>9 DEF Ask
  <1>21. PICK s : s = [k \in {0} |-> [t |-> tx, xinvs |-> <<xinv>>]]
    OBVIOUS
  <1>11. IsReplay(s, 0)' /\ Redrawn' = 0
    <2>1. s[0] = [t |-> First', xinvs |-> <<Ask(First)'>>]
      BY <1>7, <1>10, <1>21
    <2>2. s[0].t \in DOMAIN oracle'
      BY <1>9, <1>21
    <2>3. 0 .. 0 - 1 = {} /\ 0 .. 0 = {0}
      OBVIOUS
    <2>. QED
      BY <1>4, <2>1, <2>2, <2>3 DEF IsReplay, Redrawn
  <1>12. s[0] = [t |-> transcript', xinvs |-> folding'.xinvs]
    BY <1>2, <1>20, <1>21
  <1>13. IsSequence(folding.xinvs)' /\ folding'.xinvs # <<>> /\ IsSequence(proof.rounds)'
    <2>1. IsSequence(<<>>)
      BY DEF IsSequence
    <2>. QED
      BY <1>20, <1>4, <2>1, OneElement DEF IsSequence
  <1>14. Followed(transcript)'
    <2>1. IsReplay(s, Redrawn)'
      BY <1>11 DEF IsReplay
    <2>. QED
      BY <1>11, <1>12, <1>13, <2>1 DEF Followed
  <1>. QED
    BY <1>20, <1>3, <1>4, <1>6, <1>14 DEF TraceInv, BeginInv, CommitInv, FoldInv, SealInv, SameChallenges

\* A round whose challenge was already drawn: the transcript is as it was.
LEMMA FirstRound ==
  ASSUME Followed(transcript), proof.rounds = <<>>, NEW rd, proof'.rounds = <<rd>>,
         First' = First, UNCHANGED <<transcript, oracle>>, folding'.xinvs = folding.xinvs
  PROVE  Followed(transcript)'
  <1>1. PICK s : IsReplay(s, 0) /\ s[0] = [t |-> transcript, xinvs |-> folding.xinvs]
    BY DEF Followed, Redrawn
  <1>2. Remembers
    BY DEF Remembers
  <1>3. IsReplay(s, 0)'
    <2>1. 2 .. 0 + 1 = {}
      OBVIOUS
    <2>. QED
      BY <1>1, <1>2, <2>1, ReplayKept
  <1>4. Redrawn' = 0 /\ IsSequence(proof.rounds)'
    <2>1. Len(<<rd>>) = 1 /\ <<rd>> # <<>>
      OBVIOUS
    <2>2. IsSequence(<<rd>>)
      BY OneElement
    <2>. QED
      BY <2>1, <2>2 DEF Redrawn, IsSequence
  <1>5. IsReplay(s, Redrawn)'
    BY <1>3, <1>4 DEF IsReplay
  <1>6. s[Redrawn'] = [t |-> transcript', xinvs |-> folding'.xinvs]
    BY <1>1, <1>4
  <1>. QED
    BY <1>4, <1>5, <1>6 DEF Followed, IsSequence

\* A round that draws a challenge: the verifier will draw the same.
LEMMA LaterRound ==
  ASSUME Followed(transcript), proof.rounds # <<>>, NEW rd, NEW x,
         proof'.rounds = Append(proof.rounds, rd), First' = First, Remembers,
         transcript' = Drawn(transcript \o RoundEntries(Last(folding.xinvs), rd), "challenge_i"),
         transcript' \in DOMAIN oracle', oracle'[transcript'] = x,
         folding'.xinvs = Append(folding.xinvs, x)
  PROVE  Followed(transcript)'
  <1>1. PICK n : n = Redrawn
    OBVIOUS
  <1>2. PICK s : IsReplay(s, n) /\ s[n] = [t |-> transcript, xinvs |-> folding.xinvs]
    BY <1>1 DEF Followed
  <1>3. n \in Nat /\ Len(proof.rounds) = n + 1
    BY <1>1, NextElement DEF Followed, Redrawn
  <1>4. /\ IsSequence(proof.rounds)' /\ IsSequence(folding.xinvs)' /\ folding'.xinvs # <<>>
        /\ proof'.rounds # <<>> /\ Len(proof'.rounds) = n + 2
        /\ \A k \in 1 .. n + 1 : proof'.rounds[k] = proof.rounds[k]
        /\ proof'.rounds[n + 2] = rd
    <2>1. PICK q : q = proof.rounds
      OBVIOUS
    <2>2. IsSequence(q) /\ Len(q) = n + 1 /\ proof'.rounds = Append(q, rd)
      BY <1>3, <2>1 DEF Followed
    <2>3. /\ IsSequence(Append(q, rd)) /\ Append(q, rd) # <<>>
          /\ Len(Append(q, rd)) = (n + 1) + 1
          /\ \A k \in 1 .. n + 1 : Append(q, rd)[k] = q[k]
          /\ Append(q, rd)[(n + 1) + 1] = rd
      BY <2>2, NextElement
    <2>4. (n + 1) + 1 = n + 2
      BY <1>3
    <2>5. PICK y : y = folding.xinvs
      OBVIOUS
    <2>6. IsSequence(y) /\ folding'.xinvs = Append(y, x)
      BY <2>5 DEF Followed
    <2>7. IsSequence(Append(y, x)) /\ Append(y, x) # <<>>
      <3>1. IsSequence(y)
        BY <2>6
      <3>. QED
        BY ONLY <3>1, NextElement
    <2>. QED
      BY <2>1, <2>2, <2>3, <2>4, <2>6, <2>7 DEF IsSequence
  <1>5. Redrawn' = n + 1
    BY <1>3, <1>4 DEF Redrawn
  <1>6. IsReplay(s, n)'
    <2>1. \A k \in 2 .. n + 1 : proof'.rounds[k] = proof.rounds[k]
      BY <1>3, <1>4
    <2>. QED
      BY <1>2, <1>3, <2>1, ReplayKept
  <1>7. PICK t : t = Asked(s[n], rd)
    OBVIOUS
  <1>8. t = transcript'
    BY <1>2, <1>7 DEF Asked
  <1>9. PICK st : st = [t |-> t, xinvs |-> Append(s[n].xinvs, x)]
    OBVIOUS
  <1>10. Ask(t)' = x
    BY <1>8 DEF Ask
  <1>11. ReplayRound(s[n], rd)' = st
    <2>1. ReplayRound(s[n], rd)' = [t |-> Asked(s[n], rd), xinvs |-> Append(s[n].xinvs, Ask(Asked(s[n], rd))')]
      BY DEF ReplayRound, Asked
    <2>2. Ask(Asked(s[n], rd))' = Ask(t)'
      BY <1>7
    <2>. QED
      BY <1>7, <1>9, <1>10, <2>1, <2>2
  <1>12. PICK u : u = [k \in 0 .. n + 1 |-> IF k = n + 1 THEN st ELSE s[k]]
    OBVIOUS
  <1>13. u[n + 1] = st /\ \A k \in 0 .. n : u[k] = s[k]
    BY <1>3, <1>12
  <1>14. IsReplay(u, n + 1)'
    <2>1. u[0] = [t |-> First', xinvs |-> <<Ask(First)'>>]
      BY <1>3, <1>6, <1>13 DEF IsReplay
    <2>2. ASSUME NEW k \in 0 .. n PROVE u[k + 1] = ReplayRound(u[k], proof.rounds[k + 2])'
      <3>1. CASE k = n
        BY <1>4, <1>11, <1>13, <3>1
      <3>2. CASE k # n
        <4>1. k \in 0 .. n - 1 /\ k + 1 \in 0 .. n
          BY <1>3, <3>2
        <4>2. s[k + 1] = ReplayRound(s[k], proof.rounds[k + 2])'
          BY <1>6, <4>1 DEF IsReplay
        <4>. QED
          BY <1>13, <4>1, <4>2
      <3>. QED
        BY <3>1, <3>2
    <2>3. ASSUME NEW k \in 0 .. n + 1 PROVE u[k].t \in DOMAIN oracle'
      <3>1. CASE k = n + 1
        BY <1>8, <1>9, <1>13, <3>1
      <3>2. CASE k # n + 1
        <4>1. k \in 0 .. n
          BY <1>3, <3>2
        <4>. QED
          BY <1>6, <1>13, <4>1 DEF IsReplay
      <3>. QED
        BY <3>1, <3>2
    <2>4. (n + 1) - 1 = n
      BY <1>3
    <2>. QED
      BY <2>1, <2>2, <2>3, <2>4 DEF IsReplay
  <1>15. u[n + 1] = [t |-> transcript', xinvs |-> folding'.xinvs]
    BY <1>2, <1>8, <1>9, <1>13
  <1>16. IsReplay(u, Redrawn)' /\ u[Redrawn'] = [t |-> transcript', xinvs |-> folding'.xinvs]
    BY <1>5, <1>14, <1>15 DEF IsReplay
  <1>. QED
    BY <1>4, <1>16 DEF Followed

LEMMA RoundKeepsTrace ==
  ASSUME TraceInv, FoldRound, UNCHANGED poolVars
  PROVE  TraceInv'
  <1> DEFINE asked(rd) == Drawn(transcript \o RoundEntries(Last(folding.xinvs), rd), "challenge_i")
  <1>1. PICK rd :
          /\ proof' = [proof EXCEPT !.rounds = Append(@, rd)]
          /\ IF proof.rounds = <<>>
             THEN /\ folding' = Folded(folding, folding.xinvs[1])
                  /\ UNCHANGED <<transcript, oracle>>
             ELSE \E xinv \in Answers(asked(rd)) :
                    /\ transcript' = asked(rd)
                    /\ Remember(asked(rd), xinv)
                    /\ folding' = [Folded(folding, xinv) EXCEPT !.xinvs = Append(@, xinv)]
    BY DEF FoldRound
  <1>2. /\ phase = "fold" /\ phase' = "fold" /\ claim' = claim /\ UNCHANGED <<replayed, stack, deque>>
        /\ DOMAIN proof = CommitFields /\ "xinvs" \in DOMAIN folding /\ Followed(transcript)
    BY DEF FoldRound, TraceInv, FoldInv, poolVars
  <1>3. /\ DOMAIN proof' = CommitFields
        /\ proof'.com_ab = proof.com_ab /\ proof'.com_c = proof.com_c
        /\ proof'.ip_ab = proof.ip_ab /\ proof'.agg_c = proof.agg_c
        /\ proof'.rounds = Append(proof.rounds, rd)
    BY <1>1, <1>2 DEF CommitFields
  <1>4. First' = First
    BY <1>2, <1>3, SameHead
  <1>5. proof'.rounds # <<>>
    BY <1>2, <1>3, NextElement DEF Followed
  <1>6. ASSUME NEW x
        PROVE  /\ DOMAIN Folded(folding, x) = DOMAIN folding
               /\ Folded(folding, x).xinvs = folding.xinvs
    BY <1>2 DEF Folded
  <1>7. Followed(transcript)' /\ "xinvs" \in DOMAIN folding'
    <2>1. CASE proof.rounds = <<>>
      <3>1. folding' = Folded(folding, folding.xinvs[1]) /\ UNCHANGED <<transcript, oracle>>
        BY <1>1, <2>1
      <3>2. folding'.xinvs = folding.xinvs /\ "xinvs" \in DOMAIN folding'
        BY <1>2, <1>6, <3>1
      <3>3. proof'.rounds = <<rd>>
        BY <1>3, <2>1
      <3>. QED
        BY <1>2, <1>4, <2>1, <3>1, <3>2, <3>3, FirstRound
    <2>2. CASE proof.rounds # <<>>
      <3>1. PICK x \in Answers(asked(rd)) :
              /\ transcript' = asked(rd)
              /\ Remember(asked(rd), x)
              /\ folding' = [Folded(folding, x) EXCEPT !.xinvs = Append(@, x)]
        BY <1>1, <2>2
      <3>2. folding'.xinvs = Append(folding.xinvs, x) /\ "xinvs" \in DOMAIN folding'
        <4>1. PICK f : f = Folded(folding, x)
          OBVIOUS
        <4>2. "xinvs" \in DOMAIN f /\ f.xinvs = folding.xinvs
          BY <1>2, <1>6, <4>1
        <4>3. folding' = [f EXCEPT !.xinvs = Append(@, x)]
          BY <3>1, <4>1
        <4>. QED
          BY <4>2, <4>3
      <3>3. PICK t : t = asked(rd)
        OBVIOUS
      <3>4. Remembers /\ t \in DOMAIN oracle' /\ oracle'[t] = x
        <4>. HIDE DEF asked
        <4>. QED
          BY <3>1, <3>3, NewAnswer
      <3>. QED
        BY <1>2, <1>3, <1>4, <2>2, <3>1, <3>2, <3>3, <3>4, LaterRound
    <2>. QED
      BY <2>1, <2>2
  <1>. QED
    BY <1>2, <1>3, <1>5, <1>7 DEF TraceInv, BeginInv, CommitInv, FoldInv, SealInv, SameChallenges

LEMMA OpenKeepsTrace ==
  ASSUME TraceInv, Open, UNCHANGED poolVars
  PROVE  TraceInv'
  <1> DEFINE xinvs == Reverse(folding.xinvs)
             xs == [k \in DOMAIN xinvs |-> Inverse1(xinvs[k])]
             vkey == <<folding.vkey[1][1], folding.vkey[2][1]>>
             wkey == <<folding.wkey[1][1], folding.wkey[2][1]>>
             asked == Drawn(transcript \o FinalKeys(xs[1], vkey, wkey), "z-challenge")
  <1>1. PICK z \in Answers(asked) :
          /\ transcript' = asked
          /\ Remember(asked, z)
          /\ proof' = Extended(proof,
               [final_a |-> folding.a[1], final_b |-> folding.b[1], final_c |-> folding.c[1],
                vkey |-> vkey, wkey |-> wkey,
                vopening |-> OpenV(Size, xinvs, z),
                wopening |-> OpenW(Size, xs, Inverse1(folding.shift), z)])
    BY DEF Open
  <1>2. /\ phase = "fold" /\ phase' = "aggregated" /\ UNCHANGED <<claim, folding, replayed>>
        /\ DOMAIN proof = CommitFields /\ Followed(transcript)
        /\ proof.rounds = <<>> => Len(folding.a) > 1
        /\ Len(folding.a) = 1 /\ replayed = <<>>
    BY DEF Open, TraceInv, FoldInv, BeginInv, poolVars
  <1>3. proof.rounds # <<>>
    BY <1>2
  <1>4. /\ proof'.com_ab = proof.com_ab /\ proof'.com_c = proof.com_c
        /\ proof'.ip_ab = proof.ip_ab /\ proof'.agg_c = proof.agg_c
        /\ proof'.rounds = proof.rounds
        /\ proof'.vkey = vkey /\ proof'.wkey = wkey
    <2>. HIDE DEF vkey, wkey, xs, xinvs
    <2>. QED
      BY <1>1, <1>2 DEF Extended, CommitFields
  <1>5. First' = First
    BY <1>2, <1>4, SameHead
  <1>6. Remembers
    <2>1. PICK t : t = asked
      OBVIOUS
    <2>. HIDE DEF asked
    <2>. QED
      BY <1>1, <2>1, NewAnswer
  <1>7. PICK t : t = transcript
    OBVIOUS
  <1>8. Followed(t)'
    <2>1. Followed(t)
      BY <1>2, <1>7
    <2>. QED
      BY <1>2, <1>4, <1>5, <1>6, <2>1, FollowedKept
  <1>9. xs[1] = Inverse1(Reverse(folding.xinvs)[1])
    <2>1. Len(folding.xinvs) \in Nat /\ Len(folding.xinvs) > 0
      BY <1>2, NextElement DEF Followed
    <2>2. 1 \in DOMAIN xinvs
      BY <2>1 DEF Reverse
    <2>. HIDE DEF xinvs
    <2>3. xs[1] = Inverse1(xinvs[1])
      BY <2>2
    <2>. QED
      BY <2>3 DEF xinvs
  <1>10. transcript' = Drawn(t \o FinalKeys(Inverse1(Reverse(folding'.xinvs)[1]),
                                            proof'.vkey, proof'.wkey), "z-challenge")
    <2>. HIDE DEF vkey, wkey, xs, xinvs
    <2>. QED
      BY <1>1, <1>2, <1>4, <1>7, <1>9
  <1>11. SealInv'
    <2>1. proof'.rounds # <<>>
      BY <1>3, <1>4
    <2>. HIDE DEF vkey, wkey, xs, xinvs
    <2>. QED
      BY <1>8, <1>10, <2>1 DEF SealInv
  <1>. QED
    BY <1>2, <1>11 DEF TraceInv, BeginInv, CommitInv, FoldInv, SameChallenges

\* A step after the prover is done that leaves the prover's state alone.
LEMMA SealKept ==
  ASSUME SealInv, phase \notin {"commit", "fold", "refused"},
         UNCHANGED <<claim, transcript, oracle, folding, proof>>
  PROVE  SealInv'
  <1>1. PICK t : /\ Followed(t)
                 /\ transcript = Drawn(t \o FinalKeys(Inverse1(Reverse(folding.xinvs)[1]),
                                                      proof.vkey, proof.wkey), "z-challenge")
    BY DEF SealInv
  <1>2. Remembers /\ First' = First
    BY SameHead DEF Remembers
  <1>3. Followed(t)'
    BY <1>1, <1>2, FollowedKept
  <1>4. proof.rounds # <<>>
    BY DEF SealInv
  <1>. QED
    BY <1>1, <1>3, <1>4 DEF SealInv

LEMMA BeginKeepsTrace ==
  ASSUME TraceInv, BeginVerify
  PROVE  TraceInv'
  <1>1. /\ phase = "aggregated" /\ phase' \notin {"commit", "fold", "refused"}
        /\ UNCHANGED <<claim, transcript, oracle, folding, proof, replayed>>
    BY DEF BeginVerify
  <1>2. SealInv'
    BY <1>1, SealKept DEF TraceInv
  <1>. QED
    BY <1>1, <1>2 DEF TraceInv, BeginInv, CommitInv, FoldInv, SameChallenges

\* A worker has something to do only once verification has begun.
LEMMA WorkBegun ==
  ASSUME TraceInv, NEW w \in Workers, PoolStep(w)
  PROVE  phase \notin {"commit", "fold", "refused"}
  <1>1. stack[w] # <<>> \/ \E v \in Workers : deque[v] # <<>>
    BY DEF PoolStep, SpawnJobs, SumPowers, ReplayTranscript, SendCheck, CheckFinalZ, Collect,
           JoinDone, TakeJob, EndJob, Steal, At
  <1>. QED
    BY <1>1 DEF TraceInv, BeginInv

\* The verifier's transcript, once it has replayed the rounds, is the prover's.
LEMMA ReplayFollows ==
  ASSUME SealInv, phase \notin {"commit", "fold", "refused"}
  PROVE  Gipa.transcript = transcript
  <1>1. PICK t : /\ Followed(t)
                 /\ transcript = Drawn(t \o FinalKeys(Inverse1(Reverse(folding.xinvs)[1]),
                                                      proof.vkey, proof.wkey), "z-challenge")
    BY DEF SealInv
  <1>2. PICK n : n = Redrawn
    OBVIOUS
  <1>3. PICK s : IsReplay(s, n) /\ s[n] = [t |-> t, xinvs |-> folding.xinvs]
    BY <1>1, <1>2 DEF Followed
  <1>4. n \in Nat /\ Len(proof.rounds) = n + 1 /\ proof.rounds \in Seq(Range(proof.rounds))
    BY <1>1, <1>2, NextElement DEF Followed, SealInv, Redrawn, IsSequence
  <1>5. PICK q : q = Tail(proof.rounds)
    OBVIOUS
  <1>6. DOMAIN q = 1 .. n /\ \A k \in 0 .. n - 1 : q[k + 1] = proof.rounds[k + 2]
    <2>1. PICK p, R : p = proof.rounds /\ R = Range(proof.rounds)
      OBVIOUS
    <2>2. p \in Seq(R) /\ Len(p) = n + 1 /\ q = Tail(p)
      BY <1>4, <1>5, <2>1
    <2>3. q \in Seq(R) /\ Len(q) = n
      BY <1>4, <2>2
    <2>4. \A k \in 1 .. n : q[k] = p[k + 1]
      BY <1>4, <2>2
    <2>5. ASSUME NEW k \in 0 .. n - 1 PROVE q[k + 1] = p[k + 2]
      <3>1. k + 1 \in 1 .. n /\ (k + 1) + 1 = k + 2
        BY <1>4
      <3>. QED
        BY <2>4, <3>1
    <2>. QED
      BY <2>1, <2>3, <2>5
  <1>7. \A k \in 0 .. n - 1 : s[k + 1] = ReplayRound(s[k], q[k + 1])
    BY <1>3, <1>6 DEF IsReplay
  <1>8. PICK base : base = s[0]
    OBVIOUS
  <1>9. base = [t |-> First, xinvs |-> <<Ask(First)>>]
    BY <1>3, <1>8 DEF IsReplay
  <1>10. Refolded(base, q) = s[n]
    BY <1>4, <1>6, <1>7, <1>8, FoldFollows
  <1>11. Replay = s[n]
    <2>1. Replay = Refolded([t |-> First, xinvs |-> <<Ask(First)>>], Tail(proof.rounds))
      BY DEF Replay, Refolded, First
    <2>. QED
      BY <1>5, <1>9, <1>10, <2>1
  <1>12. Replay.t = t /\ Replay.xinvs = folding.xinvs
    BY <1>3, <1>11
  <1>13. Gipa.transcript = Drawn(Replay.t \o FinalKeys(Inverse1(Reverse(Replay.xinvs)[1]),
                                                       proof.vkey, proof.wkey), "z-challenge")
    BY DEF Gipa
  <1>. QED
    BY <1>1, <1>12, <1>13

LEMMA WorkKeepsTrace ==
  ASSUME TraceInv, PoolInv, NEW w \in Workers, PoolStep(w)
  PROVE  TraceInv'
  <1>1. phase \notin {"commit", "fold", "refused"}
    BY WorkBegun
  <1>2. /\ UNCHANGED <<claim, transcript, oracle, folding, proof>>
        /\ phase' = phase \/ phase' = verdict
    BY DEF PoolStep, SpawnJobs, SumPowers, ReplayTranscript, SendCheck, CheckFinalZ, Collect,
           JoinDone, TakeJob, EndJob, proverVars
  <1>3. phase' \notin {"commit", "fold", "refused"}
    BY <1>1, <1>2 DEF PoolInv, PoolTypeOK
  <1>4. SealInv'
    BY <1>1, <1>2, SealKept DEF TraceInv
  <1>5. SameChallenges'
    <2>1. CASE replayed' = replayed
      BY <1>2, <2>1 DEF TraceInv, SameChallenges
    <2>2. CASE replayed' = Gipa
      BY <1>1, <1>2, <2>2, ReplayFollows DEF TraceInv, SameChallenges
    <2>3. replayed' = replayed \/ replayed' = Gipa
      BY DEF PoolStep, SpawnJobs, SumPowers, ReplayTranscript, SendCheck, CheckFinalZ, Collect,
             JoinDone, TakeJob, EndJob
    <2>. QED
      BY <2>1, <2>2, <2>3
  <1>. QED
    BY <1>3, <1>4, <1>5 DEF TraceInv, BeginInv, CommitInv, FoldInv

LEMMA StutterKeepsTrace ==
  ASSUME TraceInv, UNCHANGED snarkVars
  PROVE  TraceInv'
  <1>1. UNCHANGED <<claim, transcript, oracle, folding, proof, phase, replayed, stack, deque>>
    BY DEF snarkVars, poolVars
  <1>2. Remembers /\ First' = First
    BY <1>1, SameHead DEF Remembers
  <1>3. FoldInv'
    <2>. SUFFICES ASSUME phase = "fold" PROVE FoldInv'
      BY <1>1 DEF FoldInv
    <2>1. PICK t : t = transcript
      OBVIOUS
    <2>2. Followed(t)
      BY <2>1 DEF TraceInv, FoldInv
    <2>3. Followed(t)'
      BY <1>1, <1>2, <2>2, FollowedKept
    <2>4. Followed(transcript)'
      BY <1>1, <2>1, <2>3 DEF Followed
    <2>. QED
      BY <1>1, <2>4 DEF TraceInv, FoldInv
  <1>4. SealInv'
    <2>. SUFFICES ASSUME phase \notin {"commit", "fold", "refused"} PROVE SealInv'
      BY <1>1 DEF SealInv
    <2>. QED
      BY <1>1, SealKept DEF TraceInv
  <1>. QED
    BY <1>1, <1>3, <1>4 DEF TraceInv, BeginInv, CommitInv, SameChallenges

LEMMA NextTrace ==
  ASSUME TraceInv, PoolInv, [Next]_snarkVars
  PROVE  TraceInv'
  <1>1. CASE ProverStep /\ UNCHANGED poolVars
    BY <1>1, RefuseKeepsTrace, CommitKeepsTrace, RoundKeepsTrace, OpenKeepsTrace DEF ProverStep
  <1>2. CASE BeginVerify
    BY <1>2, BeginKeepsTrace
  <1>3. ASSUME NEW w \in Workers, PoolStep(w) PROVE TraceInv'
    BY <1>3, WorkKeepsTrace
  <1>4. CASE UNCHANGED snarkVars
    BY <1>4, StutterKeepsTrace
  <1>. QED
    BY <1>1, <1>2, <1>3, <1>4 DEF Next

\* The verifier absorbs what the prover absorbed, in the same order: for every
\* claim of two proofs or more, and whatever a challenge turns out to be, the
\* transcript replayed from the proof is the prover's, so that every challenge
\* is the same (prover.rs:70, verifier.rs:61).
THEOREM ChallengesAgree == Spec => []SameChallenges
  <1>1. Init => TraceInv
    BY InitTrace
  <1>2. TraceInv /\ PoolInv /\ PoolInv' /\ [Next]_snarkVars => TraceInv'
    BY NextTrace
  <1>3. TraceInv => SameChallenges
    BY DEF TraceInv
  <1>. QED
    BY <1>1, <1>2, <1>3, PoolInvariant, PTL DEF Spec
===============================================================================
