--------------------------- MODULE SnarkVerifier ---------------------------
(***************************************************************************)
(* The verifier replays the prover's transcript, folds the commitments and *)
(* merges ten pairing checks into one.  The checks are made by jobs of a   *)
(* work-stealing pool, which send them through a bounded channel to a      *)
(* collector, itself a job of the same pool.                               *)
(***************************************************************************)
EXTENDS SnarkPack, FiniteSets

CONSTANTS
  Workers,     \* the threads of the pool
  Capacity,    \* of the channel of checks
  Coeff        \* the nonzero scalar each randomized check is scaled by

Randomized == {"v1", "v2", "w1", "w2", "t", "u", "ab0", "ab1", "z"}
ASSUME CoeffAssumption == Coeff \in [Randomized -> 1 .. Q - 1]

VARIABLES
  replayed,    \* what the verifier derived from the proof
  stack,       \* stack[w]: the jobs worker w is inside of, the running one last
  deque,       \* deque[w]: the jobs w spawned that nobody took
  finished,    \* the jobs that ended
  channel,     \* the checks sent and not yet merged
  merged,      \* [left, right, fixed]: the merged check
  verdict      \* of the merged check, once the channel is closed

poolVars == <<replayed, stack, deque, finished, channel, merged, verdict>>
snarkVars == <<claim, transcript, oracle, folding, proof, phase, poolVars>>

-----------------------------------------------------------------------------
\* The challenge of a transcript: the prover's if it is the prover's.
Ask(t) == IF t \in DOMAIN oracle THEN oracle[t] ELSE Other

FirstTranscript ==
  Drawn(Entry("public-inputs", claim.inputs) \o Commitments(proof), "r-random-fiatshamir")
RShift == Ask(FirstTranscript)

\* Variant: the cross terms of the rounds are not absorbed.
ReplayWithoutTerms(st, rd) ==
  LET t == Drawn(st.t \o Entry("c_inv", Last(st.xinvs)), "challenge_i") IN
  [t |-> t, xinvs |-> Append(st.xinvs, Ask(t))]
\* One more round of challenges, the first having been drawn.
ReplayRound(st, rd) ==
  LET t == Drawn(st.t \o RoundEntries(Last(st.xinvs), rd), "challenge_i") IN
  [t |-> t, xinvs |-> Append(st.xinvs, Ask(t))]

Replay ==
  LET t1 == Drawn(FirstTranscript \o Products(proof), "first-challenge") IN
  FoldLeft(ReplayRound, [t |-> t1, xinvs |-> <<Ask(t1)>>], Tail(proof.rounds))

\* A commitment with its cross terms: the left ones by x, the right by 1/x.
FoldTerms(start, left, right, xinvs) ==
  FoldLeft(LAMBDA s, k : (s + left[k] * Inverse1(xinvs[k]) + right[k] * xinvs[k]) % Q,
           start, [k \in DOMAIN xinvs |-> k])

\* The transcript after the recursion, the commitments of the folded vectors,
\* the scalar that r folds to, and the challenge of the openings.
Gipa ==
  LET rp == Replay
      rds == proof.rounds
      Of(f(_)) == [k \in DOMAIN rds |-> f(rds[k])]
      Fold2(start, l(_), r(_)) == FoldTerms(start, Of(l), Of(r), rp.xinvs)
      xinvs == Reverse(rp.xinvs)
      t == Drawn(rp.t \o FinalKeys(Inverse1(xinvs[1]), proof.vkey, proof.wkey), "z-challenge")
  IN [transcript |-> t, z |-> Ask(t),
      xinvs |-> xinvs, xs |-> [k \in DOMAIN xinvs |-> Inverse1(xinvs[k])],
      tab |-> Fold2(proof.com_ab[1], LAMBDA rd : rd.tab_l[1], LAMBDA rd : rd.tab_r[1]),
      uab |-> Fold2(proof.com_ab[2], LAMBDA rd : rd.tab_l[2], LAMBDA rd : rd.tab_r[2]),
      tc |-> Fold2(proof.com_c[1], LAMBDA rd : rd.tuc_l[1], LAMBDA rd : rd.tuc_r[1]),
      uc |-> Fold2(proof.com_c[2], LAMBDA rd : rd.tuc_l[2], LAMBDA rd : rd.tuc_r[2]),
      zab |-> Fold2(proof.ip_ab, LAMBDA rd : rd.zab_l, LAMBDA rd : rd.zab_r),
      zc |-> Fold2(proof.agg_c, LAMBDA rd : rd.zc_l, LAMBDA rd : rd.zc_r),
      final_r |-> ProductForm(xinvs, RShift, 1)]

-----------------------------------------------------------------------------
\* A check scaled by its own scalar: the sum of the products should be out.
Rand(name, sum, out) ==
  [left |-> (Coeff[name] * sum) % Q, right |-> (Coeff[name] * out) % Q, fixed |-> 0]
Invalid == [left |-> 0, right |-> 1, fixed |-> 2]

\* cf - f(z) is opening * (secret - z).
KzgCheck(name, cf, y, secret, z, opening) ==
  Rand(name, (-1) * (cf - y) + (secret - z) * opening, 0)
KzgV(name, i, secret) ==
  KzgCheck(name, proof.vkey[i], ProductForm(replayed.xinvs, replayed.z, 1), secret,
           replayed.z, proof.vopening[i])
\* The polynomial of w is shifted by z^n and rescaled by 1/r.
KzgW(name, i, secret) ==
  KzgCheck(name, proof.wkey[i],
           ProductForm(replayed.xs, replayed.z, Inverse1(RShift)) * Power(replayed.z, Size),
           secret, replayed.z, proof.wopening[i])

\* Variant: the sum of the powers of r starts at r.
GeometricSumShifted(n, r) == ((Power(r, n + 1) - r) * Inverse1((r - 1) % Q)) % Q
GeometricSum(n, r) == ((Power(r, n) - 1) * Inverse1((r - 1) % Q)) % Q

\* The aggregated Groth16 equation, the one check that is not randomized.
Groth16Check ==
  LET n == Len(claim.inputs)
      rsum == GeometricSum(n, RShift)
      powers == ScalarPowers(n, RShift)
      summed(i) == Inner([j \in 1 .. n |-> claim.inputs[j][i]], powers)
      g_ic == FoldLeft(LAMBDA s, i : s + Vk.abc[i + 1] * summed(i),
                       Vk.abc[1] * rsum, [i \in 1 .. Len(Vk.abc) - 1 |-> i])
  IN [left |-> (Vk.alpha * Vk.beta * rsum + g_ic * Vk.gamma + proof.agg_c * Vk.delta) % Q,
      right |-> proof.ip_ab, fixed |-> 1]

CheckOf(name) ==
  CASE name = "groth16" -> Groth16Check
    [] name = "v1" -> KzgV("v1", 1, SrsAlpha)
    [] name = "v2" -> KzgV("v2", 2, SrsBeta)
    [] name = "w1" -> KzgW("w1", 1, SrsAlpha)
    [] name = "w2" -> KzgW("w2", 2, SrsBeta)
    [] name = "t" -> Rand("t", proof.final_c * proof.vkey[1], replayed.tc)
    [] name = "u" -> Rand("u", proof.final_c * proof.vkey[2], replayed.uc)
    [] name = "ab0" -> Rand("ab0", proof.final_a * proof.vkey[1] + proof.wkey[1] * proof.final_b,
                            replayed.tab)
    [] name = "ab1" -> Rand("ab1", proof.final_a * proof.vkey[2] + proof.wkey[2] * proof.final_b,
                            replayed.uab)
    [] name = "z" -> Rand("z", proof.final_a * proof.final_b, replayed.zab)
    [] name = "invalid" -> Invalid

NoCheck == [left |-> 0, right |-> 0, fixed |-> 0]
Merge(m, p) == [left |-> (m.left + p.left) % Q, right |-> (m.right + p.right) % Q,
                fixed |-> m.fixed + p.fixed]
Verify(m) == m.fixed <= 1 /\ m.left = m.right

-----------------------------------------------------------------------------
\* The jobs.  A step spawns jobs, sends a check, waits for jobs, or computes.
Spawn(jobs) == [op |-> "spawn", jobs |-> jobs]
Send(name) == [op |-> "send", check |-> name]
Join(jobs) == [op |-> "join", jobs |-> jobs]
Do(what) == [op |-> what]

Parts == <<"left", "right", "middle">>
Program ==
  [body |-> <<Spawn(<<"collector", "tipp">>), Do("geometric"), Spawn(Parts), Join(Range(Parts)),
              Send("groth16"), Join({"collector", "tipp"})>>,
   collector |-> <<Do("collect")>>,
   tipp |-> <<Do("replay"), Spawn(<<"kzg_v", "kzg_w">>), Join({"kzg_v", "kzg_w"}),
              Send("t"), Send("u"), Send("ab0"), Send("ab1"), Send("z"), Do("final_z")>>,
   kzg_v |-> <<Spawn(<<"check_v1", "check_v2">>), Join({"check_v1", "check_v2"})>>,
   kzg_w |-> <<Spawn(<<"check_w1", "check_w2">>), Join({"check_w1", "check_w2"})>>,
   check_v1 |-> <<Send("v1")>>, check_v2 |-> <<Send("v2")>>,
   check_w1 |-> <<Send("w1")>>, check_w2 |-> <<Send("w2")>>,
   left |-> <<>>, right |-> <<>>, middle |-> <<>>]
Jobs == DOMAIN Program

Frame(job) == [job |-> job, pc |-> 1]
Top(w) == Last(stack[w])
Ended(w) == Top(w).pc > Len(Program[Top(w).job])
Instr(w) == Program[Top(w).job][Top(w).pc]
At(w, op) == stack[w] # <<>> /\ ~ Ended(w) /\ Instr(w).op = op
GoTo(w, pc) == stack' = [stack EXCEPT ![w][Len(stack[w])].pc = pc]
Advance(w) == GoTo(w, Top(w).pc + 1)

\* The guards of the verifier, then the scope is entered by one worker.
BeginVerify ==
  /\ phase = "aggregated"
  /\ \E w \in Workers :
       IF \E j \in DOMAIN claim.inputs : Len(claim.inputs[j]) + 1 # Len(Vk.abc)
       THEN phase' = "malformed verifying key" /\ UNCHANGED stack
       ELSE IF Len(claim.inputs) # proof.nproofs
       THEN phase' = "inputs do not match" /\ UNCHANGED stack
       ELSE phase' = "verifying" /\ stack' = [stack EXCEPT ![w] = <<Frame("body")>>]
  /\ UNCHANGED <<claim, transcript, oracle, folding, proof>>
  /\ UNCHANGED <<replayed, deque, finished, channel, merged, verdict>>

SpawnJobs(w) ==
  /\ At(w, "spawn")
  /\ deque' = [deque EXCEPT ![w] = @ \o Instr(w).jobs]
  /\ Advance(w)
  /\ UNCHANGED <<proverVars, replayed, finished, channel, merged, verdict>>

\* Dividing by r - 1 panics when r is one: the rest of the body is skipped.
SumPowers(w) ==
  /\ At(w, "geometric")
  /\ IF RShift = 1
     THEN GoTo(w, Len(Program["body"])) /\ verdict' = "panic"
     ELSE Advance(w) /\ UNCHANGED verdict
  /\ UNCHANGED <<proverVars, replayed, deque, finished, channel, merged>>

ReplayTranscript(w) ==
  /\ At(w, "replay")
  /\ replayed' = Gipa
  /\ Advance(w)
  /\ UNCHANGED <<proverVars, deque, finished, channel, merged, verdict>>

\* A send waits for room.
SendCheck(w) ==
  /\ At(w, "send")
  /\ Len(channel) < Capacity
  /\ channel' = Append(channel, Instr(w).check)
  /\ Advance(w)
  /\ UNCHANGED <<proverVars, replayed, deque, finished, merged, verdict>>

\* The one check that needs no pairing is only sent when it fails.
CheckFinalZ(w) ==
  /\ At(w, "final_z")
  /\ IF (proof.final_c * replayed.final_r) % Q = replayed.zc
     THEN UNCHANGED channel
     ELSE /\ Len(channel) < Capacity
          /\ channel' = Append(channel, "invalid")
  /\ Advance(w)
  /\ UNCHANGED <<proverVars, replayed, deque, finished, merged, verdict>>

\* The channel closes when the body and tipp have dropped their senders.
SendersOpenBody == \E w \in Workers : \E f \in Range(stack[w]) :
                      f.job = "body" /\ f.pc < Len(Program["body"])
SendersOpen == SendersOpenBody \/ "tipp" \notin finished

Collect(w) ==
  /\ At(w, "collect")
  /\ \/ /\ channel # <<>>
        /\ merged' = Merge(merged, CheckOf(Head(channel)))
        /\ channel' = Tail(channel)
        /\ UNCHANGED <<stack, verdict>>
     \/ /\ channel = <<>>
        /\ ~ SendersOpen
        /\ verdict' = IF verdict = "panic" THEN verdict
                      ELSE IF Verify(merged) THEN "valid" ELSE "invalid"
        /\ Advance(w)
        /\ UNCHANGED <<channel, merged>>
  /\ UNCHANGED <<proverVars, replayed, deque, finished>>

JoinDone(w) ==
  /\ At(w, "join")
  /\ Instr(w).jobs \subseteq finished
  /\ Advance(w)
  /\ UNCHANGED <<proverVars, replayed, deque, finished, channel, merged, verdict>>

Steal(w, v) ==
  /\ deque[v] # <<>>
  /\ stack' = [stack EXCEPT ![w] = Append(@, Frame(Head(deque[v])))]
  /\ deque' = [deque EXCEPT ![v] = Tail(@)]

\* An idle or a joining worker takes the job it spawned last, or else steals
\* the one another worker spawned first.
\* Variant: a joining worker sleeps until its jobs are done.
WantsWorkIdle(w) == stack[w] = <<>>
WantsWork(w) ==
  stack[w] = <<>> \/ (At(w, "join") /\ ~ (Instr(w).jobs \subseteq finished))
TakeJob(w) ==
  /\ WantsWork(w)
  /\ \/ /\ deque[w] # <<>>
        /\ stack' = [stack EXCEPT ![w] = Append(@, Frame(Last(deque[w])))]
        /\ deque' = [deque EXCEPT ![w] = Front(@)]
     \/ /\ deque[w] = <<>>
        /\ \E v \in Workers : Steal(w, v)
  /\ UNCHANGED <<proverVars, replayed, finished, channel, merged, verdict>>

\* When the body ends so does the scope, and the merged check is the outcome.
EndJob(w) ==
  /\ stack[w] # <<>>
  /\ Ended(w)
  /\ stack' = [stack EXCEPT ![w] = Front(@)]
  /\ finished' = finished \cup {Top(w).job}
  /\ phase' = IF Top(w).job = "body" THEN verdict ELSE phase
  /\ UNCHANGED <<claim, transcript, oracle, folding, proof, replayed, deque, channel, merged, verdict>>

-----------------------------------------------------------------------------
PoolInit ==
  /\ replayed = <<>>
  /\ stack = [w \in Workers |-> <<>>]
  /\ deque = [w \in Workers |-> <<>>]
  /\ finished = {}
  /\ channel = <<>>
  /\ merged = NoCheck
  /\ verdict = "none"
Init == SnarkInit /\ PoolInit

PoolStep(w) ==
  \/ SpawnJobs(w) \/ SumPowers(w) \/ ReplayTranscript(w) \/ SendCheck(w)
  \/ CheckFinalZ(w) \/ Collect(w) \/ JoinDone(w) \/ TakeJob(w) \/ EndJob(w)

Next == \/ ProverStep /\ UNCHANGED poolVars
        \/ BeginVerify
        \/ \E w \in Workers : PoolStep(w)

\* The threads of the pool are scheduled by the operating system.
Fairness == /\ WF_snarkVars(ProverStep /\ UNCHANGED poolVars)
            /\ WF_snarkVars(BeginVerify)
            /\ \A w \in Workers : WF_snarkVars(PoolStep(w))

Spec == Init /\ [][Next]_snarkVars /\ Fairness

-----------------------------------------------------------------------------
\* The Groth16 equation of each proof, combined with the powers of r.
Residue(k) ==
  LET p == claim.proofs[k]
      ic == FoldLeft(LAMBDA s, i : s + Vk.abc[i + 1] * claim.inputs[k][i], Vk.abc[1],
                     [i \in DOMAIN claim.inputs[k] |-> i])
  IN (p.a * p.b - Vk.alpha * Vk.beta - ic * Vk.gamma - p.c * Vk.delta) % Q

\* An aggregate the prover made is accepted exactly when the combination of
\* the proofs' own equations by the powers of r vanishes: folding, openings and
\* merging neither lose a bad proof nor refuse good ones (verifier.rs:189).
AcceptedExactly ==
  phase \in {"valid", "invalid"} =>
    (phase = "valid") =
      (FoldLeft(LAMBDA s, k : (s + Power(RShift, k - 1) * Residue(k)) % Q, 0,
                [k \in 1 .. Size |-> k]) = 0)

\* What the verifier absorbs is what the prover absorbed, in the same order, so
\* that every challenge is the same (prover.rs:70, verifier.rs:61).
SameChallenges == replayed # <<>> => replayed.transcript = transcript

\* The verdict covers every check: nothing is sent or waits to be sent once
\* the collector has decided (verifier.rs:74, the channel closing is the only
\* signal it has).
AllChecksCount ==
  verdict \in {"valid", "invalid"} =>
    /\ channel = <<>>
    /\ \A w \in Workers : ~ At(w, "send") /\ ~ At(w, "final_z")
    /\ \A w \in Workers : "kzg_v" \notin Range(deque[w]) /\ "kzg_w" \notin Range(deque[w])
    /\ "tipp" \in finished

Outcomes == {"refused", "malformed verifying key", "inputs do not match",
             "valid", "invalid", "panic"}

\* Verification ends, whatever job each worker took (verifier.rs:68, "9 places
\* where we send pairing checks").
VerificationEnds == <>(phase \in Outcomes)

-----------------------------------------------------------------------------
(***************************************************************************)
(* The inductive invariant behind AllChecksCount: every job is in one      *)
(* place, its spawner has passed the step that spawned it, and a job that  *)
(* passed a join left no unfinished job behind.  The body alone may skip   *)
(* its join, when dividing by r - 1 panics.                                *)
(***************************************************************************)
Running(j) == \E w \in Workers : \E i \in 1 .. Len(stack[w]) : stack[w][i].job = j
Queued(j) == \E w \in Workers : \E i \in 1 .. Len(deque[w]) : deque[w][i] = j
Known(j) == Running(j) \/ Queued(j) \/ j \in finished

\* Has job j passed its step n?
Past(j, n) ==
  \/ j \in finished
  \/ \E w \in Workers : \E i \in 1 .. Len(stack[w]) : stack[w][i].job = j /\ n < stack[w][i].pc

PoolTypeOK ==
  /\ stack \in [Workers -> Seq([job : Jobs, pc : Nat])]
  /\ \A w \in Workers : \A i \in 1 .. Len(stack[w]) :
       stack[w][i].pc \in 1 .. Len(Program[stack[w][i].job]) + 1
  /\ deque \in [Workers -> Seq(Jobs \ {"body"})]
  /\ finished \subseteq Jobs
  /\ verdict \in {"none", "panic", "valid", "invalid"}

OnePlaceInv ==
  /\ \A v, w \in Workers : \A i \in 1 .. Len(stack[v]), k \in 1 .. Len(stack[w]) :
       stack[v][i].job = stack[w][k].job => v = w /\ i = k
  /\ \A v, w \in Workers : \A i \in 1 .. Len(deque[v]), k \in 1 .. Len(deque[w]) :
       deque[v][i] = deque[w][k] => v = w /\ i = k
  /\ \A j \in Jobs : /\ ~ (Running(j) /\ Queued(j))
                     /\ ~ (Running(j) /\ j \in finished)
                     /\ ~ (Queued(j) /\ j \in finished)

SpawnInv ==
  \A j \in Jobs : \A n \in 1 .. Len(Program[j]) :
    Program[j][n].op = "spawn" =>
      \A c \in Range(Program[j][n].jobs) : Known(c) => Past(j, n)

JoinInv ==
  \A j \in Jobs \ {"body"} : \A n \in 1 .. Len(Program[j]) :
    Program[j][n].op = "join" /\ Past(j, n) => Program[j][n].jobs \subseteq finished

\* Before the verifier begins no job is anywhere.
BeforeInv ==
  phase \in {"commit", "fold", "aggregated"} =>
    /\ \A w \in Workers : stack[w] = <<>> /\ deque[w] = <<>>
    /\ finished = {} /\ channel = <<>> /\ verdict = "none"

DecidedInv ==
  verdict \in {"valid", "invalid"} =>
    /\ channel = <<>>
    /\ ~ SendersOpen
    /\ Past("collector", 1)

PoolInv ==
  /\ PoolTypeOK
  /\ OnePlaceInv
  /\ SpawnInv
  /\ JoinInv
  /\ BeforeInv
  /\ DecidedInv

=============================================================================
