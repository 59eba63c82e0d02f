# A verification development for ZK-PSE

ZK-PSE proves that passwords satisfy a policy: a compiler turns a policy into a
circuit, N parties compute a Groth16 proof of it from packed shares of the
witness (with a *king*, party 0, who collects, combines and answers), and an
aggregator folds the proofs of many tasks into one.  This directory holds TLA+
models of that code, the TLC runs that check them on small instances, and the
TLAPS proofs of what holds for every instance.  Paths below are relative to the
root of the repository.

## 1. The system

### 1.1 Components, their state and their operations

| Component | State | Operations | Talks to |
|---|---|---|---|
| King rounds (`mpc-net/src/lib.rs`, `ser_net.rs`) | `results_store` of a running round | send a share / collect shares with a 30 s timeout; answer the clients one by one / wait for the answer | transport |
| Transport (`mpc-net/src/multi.rs`) | per pair of parties a multiplexed connection with three framed FIFO streams; byte counters shared by all parties | `send_to`, `recv_from`, `simulate_network_round`, `communication_stats` | rounds, proof task |
| Mesh network (`LocalTestNet` in `multi.rs`) | listeners, half-open connections | `connect_to_all`: accept from lower ids, dial higher ids, then a genesis round; `simulate_lossy_network_round` | transport |
| Production network (`mpc-net/src/prod.rs`) | TLS connections of the king | accept, exchange of ids, `Syn` / `SynAck` | transport |
| Packed sharing (`secret-sharing/src/pss.rs`, `utils.rs`, `gao.rs`) | parameters n, l, t and three evaluation domains | `new`, `new_with_params`, `pack`, `det_pack`, `unpack`, `unpack2`, `lagrange_unpack`, Gao decoding | primitives |
| Distributed primitives (`dist-primitives/src`) | masks dealt in advance | `d_fft`, `d_ifft`, `d_msm`, `deg_red`, `d_pp`: one king round each | rounds, sharing |
| Distributed prover (`groth16/src/ext_wit.rs`, `prove.rs`, `qap.rs`, `proving_key.rs`) | shares of the key, the QAP and the witness | `circom_h`, `libsnark_h`, `A`, `BInG1`, `BInG2`, `C` | primitives |
| Proof task (`groth16/examples/regex.rs`) | key and CRS caches with flag files, artefacts of the task | choose parameters and set-up, load or save caches, run the parties, reconstruct, verify, save | all of the above |
| Aggregation server (`groth16/src/aggregation_server.rs`, `standalone_verifier.rs`) | proofs found in a directory | load and sort, check count and ids, verify each, aggregate, verify, write | snarkpack |
| Aggregation (`snarkpack/src`) | SRS, transcript; in the verifier a pool of threads and a channel of checks | commit, GIPA folding, KZG openings; replay, ten pairing checks merged into one | aggregator |
| Regex compiler (`regex/.../compiler/src`) | a graph of states, the transitions to reveal | read the automaton of each part, rename, caret handling, joining of parts, emission of circom | build scripts |
| Lookahead builder (`regex/build_lookahead_circuits.js`) | generated files | splits a policy into lookaheads and a tail, compiles each, joins the outputs | compiler |
| Experiment scripts (`scripts/`) | an output directory with lock, configuration, completion markers | resume, run tasks, aggregate, record | task, aggregator |
| Metrics and benchmarks (`csv_logger.rs`, `password_policy_arkworks_benchmark.rs`) | timers | record, write CSV | none |

### 1.2 What is hard in it

* **Rounds without a number.**  No frame says which round it belongs to.  What
  keeps a stage's share from being taken for another stage's is only the order
  in which the parties write to and read from the streams, with three rounds
  running concurrently on three streams, parties in different stages, and the
  king answering clients one at a time.
* **A timeout that leaves the late frame in the stream.**  The king drops a
  round's missing shares after 30 s; he does not drop the frames.
* **Clients without a timeout.**  A client waits for its answer for ever.
* **Thresholds.**  The rounds are told t; interpolation needs 2(t+l-1)+1.
* **A completion barrier** on which statistics and the closing of connections
  rely, and which nobody reaches when a round fails.
* **Release arithmetic**: `usize` wraps, debug assertions are absent.
* **Files as flags**: caches and completion markers survive crashes of the
  process that was half way through writing them.
* **Set-up in steps**: connections are made one by one, ids are what peers say
  they are, and a peer that is released early already sends on the stream the
  king still synchronises on.
* **A bounded channel inside a pool of threads**: the checks of the aggregate are
  sent by jobs of the pool to a collector that is a job of the same pool.
* **Challenges from a transcript**: prover and verifier must absorb the same data
  in the same order, and fold the same way round.
* **Generated circuits**: the automaton of a regex is renumbered, joined, written
  as gates with one start state that is only left when a run has died, padded with
  zero bytes, and read backwards for what to reveal.

### 1.3 What would make each component correct

* Rounds: a combined round uses exactly the shares made for it; a client gets
  the answer of its own round; a session returns or fails as a whole.
* Statistics: the recorded traffic is all of the traffic.
* Networks: after set-up every party holds one connection to every other, or
  set-up has failed for everybody.
* Sharing: what the constructors accept can be packed, multiplied and unpacked;
  unpacking inverts packing with up to the promised number of dropouts.
* Primitives: shares in, shares of the transform out, masks cancel.
* Proof task: keys and CRS shares that are used together were made together.
* Aggregator: it aggregates exactly the proofs of tasks 0 .. n-1, all valid.
* GIPA: prover and verifier derive the same challenges from the same data.
* Compiler: a circuit accepts what its regex means, and reveals only what the
  public parts of the regex read.
* Policies: what a proof says of a password is true of the password.
* Scripts: a case that is skipped was completed.

## 2. The modules

| Part | Modules | Composed in |
|---|---|---|
| Rounds of a proof | `ProofProgram` (which rounds, on which streams), `ProofSession` (how they run), `IdealRounds` (what they promise), `SessionStats` (the counters) | `MCProofSession`, `MCSessionStats` |
| Arithmetic of a proof | `SharingParams`, `PackedSharing`, `DistPrimitives` (the operators of the primitives), `PrimitiveRounds` (one primitive, step by step), `GaoDecoder`, `DistGroth16` (a whole proof) | `MCSharing` |
| Set-up of networks | `ProdNet`, `StartBarrier` (what it promises), `MeshNet` | `MCSetup` |
| Files | `ProofTask`, `AggregationServer` | `Workdir`, `MCWorkdir` |
| Aggregation | `SnarkPack` (prover), `SnarkVerifier` (verifier and its threads) | `MCSnarkPack` |
| Circuits | `RegexDfa` (graphs), `RegexCircuit` (compiler and circuit), `LookaheadPolicy` (policies over circuits) | `MCRegex` |
| Proofs | `ProofSessionProofs` (shares), `ProofSessionAnswers` (answers, late shares, ideal rounds), `SessionStatsProofs`, `SharingParamsProofs`, `SetupProofs` (both networks), `WorkdirProofs`, `SnarkVerifierProofs`, `RegexProofs` | |

Order and concurrency are in the first, third and fifth rows; the second, fourth
and sixth are about data and about what a sequence of legal steps leaves behind.
`ProofSession` abstracts a share to the round it was made for, `DistGroth16` has
the values of the shares and lets every share arrive: the first says that a round
combines the right shares, the second that the right shares give the right proof.

Definitions named in a comment as a *variant* are plausible bugs; no run uses
them, they only show that a property can fail.

### 2.1 ProofSession and ProofProgram

| TLA+ | Code |
|---|---|
| `Stages`, from `ProofProgram` | the order of awaited sub-protocols in `circom_h`, `A`, `BInG1`, `BInG2`, `C` and `distributed_mpc_proof_generation`, with the streams they run on |
| `stage[p]`, `phase[p][s]` | where party p's task is suspended: which `try_join!`, and in each joined future before or after `send_to`, in `recv_from`, collecting, answering, done |
| `up[c][s]`, `down[c][s]` | the frames in stream s between client c and the king, in each direction |
| `store` | `results_store` of each of the king's rounds (`lib.rs:103`), kept after the round so that properties can speak of it |
| `answerTo[s]` | the loop variable of the king's answers (`lib.rs:159`) |
| `status[p]` | running, returned, or panicked on an `unwrap` |
| `ClientSend`, `ClientReceive` | a client's two halves of a round |
| `KingReceive` | one of the king's concurrent `recv_from` futures; at most one frame per client and round |
| `Combine` | the king's side of a round ends, in one of two ways |
| `CombineFull` | all shares are there: one that does not decode fails the round |
| `CombinePartial` | the timeout: undecodable shares are dropped, fewer than T fail the round |
| `KingReply` | one iteration of the answer loop |
| `Advance` | `try_join!` (or the single `await`) resolves and the next stage starts |
| `Return` | `local_completion_barrier.wait()`, then the return of the task |
| `Over` | everybody returned, or a panic reached `handle.await.unwrap()` |

A message is its tag, the stage it was made for.  The code has no such tag, so
no guard reads it; only properties do, and `MustDecode` / `MayDecode`, which say
whether the bytes of one type of share may deserialise as another type: a
vector, a G1 point and a G2 point differ in length and in their first bytes, and
only a prefix is read.  Where the outcome depends on the bytes the model has
both.  The king's computation on the shares is in `PrimitiveRounds`.

`Slow` is the set of clients that may miss a timeout.  The others are
*punctual*: the 30 s timeout fires only when all the missing shares are those of
slow clients.  This is the model's only assumption about time.

`IdealRounds` is what a session promises: a round combines everybody's share of
that round, nobody leaves a stage before its rounds are combined.  The mapping
takes `finished` to `stage - 1` and `used` to the entries of `store` whose round
is combined.

`SessionStats` extends `ProofSession` with `sent`, `received`, `snapshot` and
`uncounted`, the calls of `send_to` between the flush of a frame and the
`fetch_add`.  The task that is inside such a call does not go on on that stream,
and its stage does not end; everybody else may.

### 2.2 The arithmetic: MCSharing

The field has 17 elements, as in the tests of the sharing: it has subgroups of
every power of two up to 16, which is what n = 8, l = t = 2 and domains of 8 and
16 points need.  A group element is its logarithm, so that a multiple of a point
is a product, and a pairing is one too.

* `SharingParams`: `usize` has `Bits` bits and wraps, `TwoAdicity` bounds the
  subgroups, debug assertions do nothing, as in the release build that the README
  prescribes.  `Choose` is the match in `main` over the optional n.
* `PackedSharing`: packing on the coset of the secrets, unpacking, unpacking of a
  product on the coset of twice the size, and Lagrange interpolation
  (`ZeroRoots`, `SynDiv`) when shares are missing.  `Pack` drops what does not fit
  the domain, as the code does when it packs n copies of r.
* `DistPrimitives`, `PrimitiveRounds`: `fft1` by the parties, `fft2` by the king,
  the bit reversal, the strided packing, the masks and their negation; degree
  reduction, multi-scalar multiplication and partial products likewise.  `Local`,
  `KingRound` and `Unmask` are the three parts of each; the king gets the shares
  of any set in `Received`.
* `GaoDecoder`: the partial extended Euclid and the division after it.
* `DistGroth16`: the QAP of a witness, a proving key as the set-up makes it, the
  packing of both, then the stages of the prover (`Coefficients`, `Evaluations`,
  `CircomH` or `LibsnarkH`, `ComputeA` ... `ComputeC`), with the very operators
  of the primitives, and the equation that the client checks.

### 2.3 The set-up: ProdNet and MeshNet

| TLA+ | Code |
|---|---|
| `kingPc`, `peerPc` | where `ProdNet::new_king` and `new_peer` are |
| `backlog`, `conns`, `peers`, `order` | the connections not accepted yet, those accepted, the map by id, the order in which it is iterated |
| `open[p]` | the TLS connection; what was written before it broke is still read |
| `down`, `up` | the packets of the stream the synchronisation and the first round share |
| `KingReadId` | the id a peer announces replaces the peer that had it |
| `Crash` | a peer process dies, at most `MaxCrashes` of them |
| `meshPc`, `pending`, `streams` | a node of `LocalTestNet`: its server task accepts lower ids, its client task dials higher ones |
| `shares`, `answered` | the shares the king goes on with after the timeout or without one; the clients his loop has answered |
| `KingCollects`, `KingAnswers` | node 0 collects until all are there or the timeout, then answers one client after the other, each send awaited; the first index past the shares (`lib.rs:159`) panics, which unwinds the one task that sets up all the nodes |
| `LastCheck` | a node that has its answer, or the king after his loop, looks for a stream with everybody: ready, or an error that drops the other nodes |

The production network is used by its tests only; the binaries run the in-memory
network.  Worth knowing, and in the model: the king is ready although a peer whose
id was taken a second time was dropped; he waits without a limit for a peer that
never connects; a peer that connects before he listens is refused and does not try
again.

### 2.4 The files: Workdir

| TLA+ | Code |
|---|---|
| `cache` | `proof_data/cache`: `proving_key.bin`, `verifying_key.bin`, `crs_shares_*.bin` and the two flags |
| `proof`, `vkBin` | `regex_proof_<task>.json` and `verification_key.bin` |
| `task` | the process of `regex.rs`: the step it is at, its arguments, the keys and shares it holds |
| `Look`, `Keys`, `Shares` | the reads of the cache, with the fallbacks of each |
| `SaveCache`, `SaveCrs`, `SaveProof`, `SaveVkBin` | the writes, in two steps: the file is created or truncated, then it is whole |
| `GiveUp` | a write that fails: reported, and the rest of that save is skipped |
| `Prove` | the distributed proof and `assert!(verified)` |
| `server` | the process of `aggregation_server.rs` and the proofs it loaded |

A key, a share or a proof is the circuit it belongs to: the set-up is seeded
(`[42u8; 32]`), so it makes the same keys for a circuit every time, and a proof
verifies only if shares, verifying key and circuit agree.  All tasks use one
`n`, `l`, `t`, which name the file of the CRS shares, and `party_id` 0, the only
one that saves proofs.  The server is given `verification_key.bin`, as the
script does.  Its own files are read by nothing in the directory, so their
contents are left out.  One process at a time, any task for any circuit or the
server, in any order, each killed at any step.

### 2.5 The aggregation: SnarkPack and SnarkVerifier

Groups have prime order Q and elements are their logarithms.  The transcript is
the sequence of what was absorbed, and a random oracle (`oracle`) answers each
transcript with any challenge of `Challenges`, the same one for the same
transcript; a transcript the prover never asked is answered `Other`.  `Commit`,
`FoldRound` and `Open` are the prover; `Gipa` replays and folds for the verifier.

The verifier's checks are jobs of a rayon pool.  `Program` says what each job
spawns, sends and joins; `stack[w]` are the jobs thread w is inside of (a thread
that joins runs other jobs on top), `deque[w]` what it spawned, taken from the end
by itself and from the front by others.  A `SendCheck` waits for room in
`channel`; `Collect` merges until the senders are dropped.  `SumPowers` is the
`unwrap` of the inverse of r - 1.

### 2.6 The circuits: RegexDfa, RegexCircuit, LookaheadPolicy

A regex is a sequence of parts with their automata, as regex-automata prints them
(the crate itself is external).  `ProcessCaret` and `CompilePart` are the compiler,
one step per part: `ConvertDfaToGraph` numbers the states in breadth-first order
(the order of the printed labels is left open), `ModifyGraphForCaret` adds the start byte 255,
`RenameStates` and `AddDfa` join the part to the graph.  `GenerateCircuit` takes
any message; `ReadByte` is one row of state signals of the circuit; `Finish` its
outputs.  `LookaheadPolicy` runs one circuit after the other on the same message,
combines them and constrains `expected_match` to a value of its own choice.

What the reference means is stated with the words of the automata (`EndsOf`),
never with the graph.  Four properties hold under conditions that name limits of
the code: `Separable`, because joining parts is not sound when a later part comes
back to its start or something leaves the state the `^` of a group leads to;
`StartIsNoEnd`, because state 0 is always on: a public first part that loops back to
it from an accepting state, as `[a-z]*` does, also reveals the first byte of what
follows it, and a regex that the empty word matches reveals attempts that failed;
`ShortLooks` / `ShortWords`, because a longer attempt swallows the start of a match,
be it that of a shorter word (the automaton of `aaba|b` misses the `b` of `aab`);
texts shorter than the message, because of the end anchor.  The last two are the
findings of section 3.  Also in the code, and outside the model: `find_caret_index`
takes the caret of `[..^..]` for an anchor.  A regex whose automaton is a single
state is a circuit over no states, which circom refuses (`Instantiable`).  In utf8
mode a tail `.*`, and in any mode an upper limit, is no condition at all.

## 3. The runs

| Run | Instance | Shows |
|---|---|---|
| `SessionCircom` | N=4, T=1, 3 streams, all twelve rounds of a Circom proof in their seven stages, nobody slow | every interleaving of the whole program implements the ideal rounds, safety and liveness, with one frame per stream |
| `SessionLate` | N=4, T=1, 2 streams, one slow client, a program with every type of share, with the counters | the inductive invariant; a late party never disturbs the shares of the others; what is stale stays stale; a failed stage holds everybody; the snapshot is all of the traffic; the session ends |
| `SessionEnoughShares` | N=4, T=1, three rounds, two slow clients | violated, see below |
| `SessionOneDropout` | the same | violated, see below |
| `Sharing` | all words of 6 bits for the parameters; 17 elements, n=8, l=t=2, M=8 for the rest | parameters that are accepted reconstruct; every primitive is exact with all shares or all but one; degrees are reduced; proofs of both reductions verify; a round is skipped by everybody or nobody; two wrong shares are corrected |
| `Workdir` | 3 tasks, 2 circuits (symmetric) | what files left by killed or foreign processes can do to later ones |
| `Regex` | messages of 5 bytes over two letters, padding and 255; every trim automaton of two states and some larger ones, one to three parts; policies of up to two lookaheads with every kind of tail | what the circuits accept, reveal and do not drop, and let a proof state |
| `RegexFullTexts` | messages of 4 bytes, the policies | violated, see below |
| `RegexLookaheads` | messages of 5 bytes, the policies | violated, see below |
| `SnarkPack` | 1 to 4 proofs, good and bad, wrong inputs, two threads | accepted exactly when the combination of the equations vanishes; equal transcripts; every check counted; verification ends |
| `SnarkVerifierPool` | the same with one thread | violated, see below |
| `Setup` | 3 peers with ids once or one id twice, 2 crashes; 5 mesh nodes | nobody starts before all arrived, nothing is misread, shares are attributed, the set-up implements the barrier and ends, also when a connection breaks before it is greeted; no mesh is left incomplete |

**Bounds.**  N=4 with T=1 is the smallest packing (l=1): it has a first, a
middle and a last client, which the answer loop distinguishes, and rounds in
which two clients are in different stages from the king and from each other.
Longer programs repeat what the seven stages contain: a joined stage after a
joined stage, a joined one after a single one and the reverse, and every change
of share type.  The state space is finite without any further bound: a session
has a fixed number of rounds.  For `Sharing`, 6 bits hold every relation between
n, l and t at sizes the field has and sizes it has not, and all wrap-arounds; the
real 64 and 28 keep the order Bits > TwoAdicity + 1.  n=8 with l=t=2 is the
smallest instance in which secrets are packed at all, and M=8 gives `fft1` two
rounds and `fft2` one; inputs, masks and random points are a few vectors, as the
operations are linear in them, or bilinear.  For `Workdir`, two circuits are what
a file can be wrong about, and three tasks are what it takes to leave a gap in a
batch of two proofs.  Four proofs are two foldings, the second with a challenge
that depends on the first; in a group of order 7 an unlucky challenge can accept
a bad proof, so `AcceptedExactly` compares with the combined equation and not with
the proofs.  Five bytes hold a word of three, an attempt that overlaps it and
padding.  Three peers are the least in which two share an id and a third does not.

**Fairness.**  Sessions: weak fairness of each party's task and of the king's
round on each stream, as the runtime polls every task that can make progress and
joined futures are polled within their task.  Which of several ready futures goes
first is not assumed; the timeout is fair as it is a timer; nothing is assumed of
`Over`.  Set-up: weak fairness of each process, and of the one task of the mesh;
none of a crash.  Verifier: weak fairness of the prover's step and of each thread,
which the operating system schedules; which job an idle thread steals is free.

**Deadlock** is checked in the session runs and in `Workdir`: a session that
neither returned nor panicked always has a step, and somebody can always start
another process.  The other models end, and say so with a liveness property
(`VerificationEnds`, `ProdEnds`, `MeshEnds`) where ending is in question.

**Findings.**

* `SessionEnoughShares`: the rounds pass t as the threshold, so a timed-out round
  goes on with fewer shares than `lagrange_unpack` asserts.
* `SessionOneDropout`: the dropout tolerance in the documentation of
  `PackedSharingParams` does not survive a second round on the same stream, as
  the late share is taken for the next round's.
* `RegexFullTexts`: the end-anchor check stops one position early, so an anchored
  policy refuses every text that fills the circuit.
* `RegexLookaheads`: a lookahead is not found where a failed attempt at it is under
  way, so a negative lookahead can be proved of a text that contains it.
* `SnarkVerifierPool`: ten checks and a channel of nine: with one thread the
  verifier blocks for ever.  `SnarkPack` shows that two threads are enough.

Further, `PanicsOnlyOverCrs` shows that announced CRS shares that cannot be loaded
are the only panic the cache of one circuit can cause: the message at
`groth16/examples/regex.rs:1249` announces that they are computed again, but the
proving key was not loaded.  `TaskZeroRepairs` shows that running task 0 again
cures it.  The debug assertions of `pss.rs:72` do not hold for an odd l such as 3
given without n, which a release build does not notice (`ImplicitParamsTolerateOne`
says what still holds).  The documentation of `PackedSharingParams` says that the
parameters are checked for n = 2(t + l); `ExplicitParamsReconstruct` shows that
everything `new_with_params` accepts has n at least twice that, for l and t below
half of the range of `usize`.  Beyond it the wrapped assertions accept more: n=8,
l=2^64-1 and t=3 pass all of them.

The genesis round of the mesh is there "to be sure everyone is ready"
(`multi.rs:246`).  With a share missing at the timeout, the first clients are
answered and may be ready while another node is still connecting; then the king
panics at the first index past his shares.  `NoIncompleteMesh` and `MeshEnds` say
what does hold: a client that is ready too early has a king who lacks a share and
is never ready, and `new_local_testnet` panics instead of returning.

`RevealsWhatIsPublic` compares what is revealed with matches that may end anywhere,
also under `$`: the end anchor is checked apart from the run of states, so the bytes
of a match that ends before the text does are revealed too, as byte 0 of `bbbb`
under `(a*b)(b)$` with a public first part.

## 4. The proofs

Every theorem is about the module's specification with its CONSTANTS left open:
any number of parties, nodes, processes or workers, any program of rounds, any
circuits and tasks, any capacity, under no more than the ASSUMEs that the module
names.  What they state was first checked by TLC on the run's instance, and so
were the inductive invariants that the modules define.

| Module | Theorem | States |
|---|---|---|
| `ProofSessionProofs` | `TypeCorrect`, `LockStep`, `SharesAligned`, `StreamsBounded` | `TypeOK`, `IInv`, `ShareAlignment`, `BoundedStreams` always hold |
| `ProofSessionAnswers` | `AnswersInOrder`, `AnswersAligned`, `FailuresHold`, `StreamsDrained` | `AInv`, `AnswerAlignment`, `FailedStageHolds`, `NothingLeftBehind` always hold |
| | `SharesInOrder`, `StaleForEver` | `OrderInv`, `OnceStaleAlwaysStale` always hold |
| | `PunctualRoundsAreIdeal` | if nobody is slow, `RefinesIdealRounds`: every session is one of `IdealRounds` |
| `SessionStatsProofs` | `CountersAreExact`, `SnapshotsAreComplete` | `StatsInv`, `SnapshotIsAllTraffic` always hold |
| `SharingParamsProofs` | `ExplicitParamsAreSound`, `ImplicitParamsAreSound` | `ExplicitParamsReconstruct`, `ImplicitParamsTolerateOne` always hold |
| `SetupProofs` | `SetupInvariant`, `PeersStartTogether`, `NoPacketIsMisread`, `SharesHaveTheirOwner` | `ProdInv`, `StartsTogether`, `NothingIsMisread`, `SharesAreAttributed` always hold |
| | `SetupIsBarrier` | `ImplementsBarrier`: every set-up is one of `StartBarrier` |
| | `MeshInvariant`, `NoMeshIsIncomplete` | `MeshInv`, `NoIncompleteMesh` always hold |
| `WorkdirProofs` | `DirectoryInvariant`, `TypeCorrect`, `TasksFindTheirWay`, `TaskZeroRepairsAll`, `SavedProofsAreValid`, `AggregatesAreUniform` | `DirInv`, `TypeOK`, `PanicsOnlyOverCrs`, `TaskZeroRepairs`, `SavedProofsVerify`, `AggregatesOneCircuit` always hold |
| `SnarkVerifierProofs` | `PoolInvariant`, `EveryCheckCounts` | `PoolInv`, `AllChecksCount` always hold |
| | `ChallengesAgree` | `SameChallenges` always holds |
| `RegexProofs` | `StatesAreNumberedByPosition`, `RowsAreOneRun` | `NumberedByPosition`, `OneRunAtATime` always hold |
| | `AnchoredRegexIsExact`, `ShortWordsFound` | `AnchoredIsExact`, `ShortWordsAreFound` always hold |
| | `MatchesAreSound` | `MatchIsSound` always holds |
| | `StatementsAreTrue` | `StatementIsTrue` always holds |

### 4.1 The rounds of a session

The assumptions are that N is at least two, that a program is a sequence of
stages with a set of streams and a type of share each, and that slow parties are
clients.

*The shares.*  `ShareAlignment` (a share taken from a punctual client has the
tag of the round) is not inductive: nothing in it says what the next frame of a
stream is.  `IInv` says it: for a punctual client c, `up[c][s]` is exactly the
share of c's stage, if c has sent it and the king has not taken it, and is empty
otherwise; `down[c][s]` is exactly the answer of c's stage, if the king has given
it and c has not read it (`StreamInv`).  That this is preserved needs the two
sides to be at most one stage apart, which follows from `CombinedInv` (a combined
round has the shares of all punctual clients), `AnswerInv` (a client that is past
a round was answered) and `StoreInv` (the king has no share a client has not
sent).  The proof has one lemma per action; combining, replying and the two
cases of `Advance` are where the king's and a client's progress meet.

*The answers.*  A late client may be any number of stages behind the king, and
its streams hold any number of frames, so `IInv` says nothing of it.  `AInv` is
about all clients: `down[c][s]` holds exactly the rounds on s that c was answered
and has not read (`Pending`), in increasing order (`PendingInv`), and c has read
no answer that was not given (`AnsweredInv`).  `HeadIsStage` is the heart: the
first frame of a waiting client is that of its own stage, because the king
answers a later round only after he has answered this one.  `PanicInv` says that
the king fails only in a round that he still collects, which therefore has
answered nobody; with `AnsweredInv` nobody is past it.  `ReturnInv` is the
completion barrier: at a return everybody is past the last stage, so `Pending` is
empty for every client.

*Late shares.*  `OnceStaleAlwaysStale` compares two rounds of one stream, so its
invariant has to say which frames a late client's stream holds: `ToRead(c, s)`,
the rounds that c sent on s and the king has not taken.  `OrderInv` says that
`up[c][s]` has them in increasing order (`FramesInv`), that what the king stored
for a round is a round no later than it (`EntryInv`), and that whoever was late
in a round has from then on a frame of an earlier round before any of its own
(`LagInv`).  The king takes at most one frame per round, so the lag never
shrinks.

*The ideal rounds.*  `PunctualRoundsAreIdeal` maps the session to
`IdealRounds`, where a round is one step that combines everybody's shares.  The
king's `Combine` maps to it, a party's `Advance` to `Finish`, and everything else
stutters.  With `Slow = {}` the timeout's combination is the full one because
`CombinedInv` gives it every share.  The fairness of `IdealRounds` is not part of the theorem.

*The counters.*  A frame is counted by a step of its own, after it was flushed:
by then the other side may have read it, and the king may have answered it.
`SnapshotIsAllTraffic` adds up four counters of every party, so its invariant
says what each counter is at any time: a client has counted the rounds whose share
it sent, less the frame it has flushed and not counted yet, and what it received
are the rounds whose answer it read; the king has counted the answers he gave,
less one; and what he received together with what is still unread on the streams
are the shares that were sent (`CountersInv`).  At a return `UncountedInv` says
that nothing is flushed and uncounted, because whoever returns is past every
round, and the sets become all of `Rounds \X Client`.  The sums over the parties
and the streams are folds of the community modules; `SumIsDefined`, `SumAdds` and
`TotalOneChange` prove what is needed of them: that the recursive function inside
the fold exists and that one changed entry changes the total by as much.

### 4.2 The set-up of networks

`ProdInv` follows a process through the set-up: a process is in the backlog or
accepted, never both and never twice (`ConnInv`); the king keeps processes under
the id that they are configured with and walks through all it keeps (`PeersInv`);
whoever was released proves that everybody was accepted (`ReleaseInv`); and what
is on a process's stream is determined by how far the process and the king are
(`StreamInv`, `WrittenInv`), so that a share sent right after the SynAck is never
before it.  The step at which `ReleaseInv` is needed is the first Syn: the king
sends it when it has counted as many connections as there are processes, and
only because no connection is counted twice is that all of them.
`SetupIsBarrier` maps a process that the king accepted to one that arrived and a
process past its SynAck to one that started: accepting is `Arrive`, reading the
Syn is `Start`, which `ReleaseInv` allows, and a crash after it is `GiveUp`.

`MeshInv` counts: the streams of a node towards lower ids are as many as it
accepted, and those to higher ids are the nodes it dialled (`StreamsInv`); a
queue of connections has each node once and none that is already a stream
(`PendingInv`).  A node has joined when it has counted N - 1 of them, and a set of
N - 1 streams among N - 1 other nodes is all of them (`JoinedHaveStreams`), so that
`LastCheck` never fails.  `AnswersInv` is about the king: his shares are of nodes
that have joined, and he answers client k only if he has more than k of them.  To
be ready he has answered the last client, hence has as many shares as there are
nodes, and a set of N nodes among N is all of them (`NodesCounted`).  Clients are
answered one at a time, so the first ones may be ready while others are still
connecting; but then a share is missing, and the king's loop ends in the panic.

### 4.3 The directory

A task or a server may be killed at every file it writes, and the next one finds
what was left.  The properties speak of a task that gets far; `DirInv` says what
is known at each file on the way: where the task holds keys they are its own
circuit's (`HeldInv`), what a task 0 that has not given up has written so far
(`RepairInv`), that announced CRS shares were at least begun (`CrsInv`) and are
the only way to go on without a proving key (`SkipInv`).  For the server the
batch is known to be complete after the check of its ids and to be of one circuit
after the verification (`ServerInv`); that a server reads a directory while tasks
write into it costs nothing, because it keeps a copy.

### 4.4 The pool of the verifier

`AllChecksCount` is about the moment at which the collector sees an empty channel
whose senders are gone.  Why nobody can send later is a fact about all jobs:
`PoolInv` says that every job is in one stack, in one queue or finished, and in
one place of it (`OnePlaceInv`); that a job is known only if the step that spawns
it has been passed (`SpawnInv`), so that a second spawn of the same job cannot
happen; and that a job that passed a join left no unfinished job behind
(`JoinInv`).  From tipp having finished follows that the jobs of the openings
have, and from those that theirs have: nobody is left at a send.  The body is
the exception in `JoinInv`, because the panic of the division skips its join,
and so it is in `SendersOpen` that it must be past its own check.  The proof has
one lemma for a worker that goes on in its job (`FrameGoesOn`) and one each for
spawning, taking and ending a job, the three steps that move jobs.

### 4.5 The transcripts of prover and verifier

`SameChallenges` compares two transcripts that grow in opposite ways: the prover
appends to his own round by round, and the verifier later builds all of his in
one go out of the finished aggregate, by a fold over its rounds.  `TraceInv`
says, while the prover is folding, that there are states of a replay, one per
round done, the next of which is always what `ReplayRound` makes of the last,
and that the last of them is the prover's transcript with his challenges
(`Followed`).  The oracle grows meanwhile, and a replay asks it: so `IsReplay`
also says that everything the replay asks was asked before, and an oracle that
remembers answers the same (`ReplayKept`).  The first round is the exception, as in
the code: its challenge was drawn before the recursion, so it adds a round to the
aggregate and nothing to the transcript (`FirstRound`, `LaterRound`), which is why
the verifier folds over the rounds but the first.  `FoldFollows` shows that the
fold ends in the last of such states.  Nothing is assumed of the arithmetic: what
commitments, products and inverses are does not matter, only that both sides
absorb the same ones in the same order.

### 4.6 The parameters of the sharing

A packing factor and a threshold come from the command line as words, and every
line of the two constructors may wrap.  `WithParamsReconstruct` follows
`new_with_params` line by line for l and t below half of the range: the sum is
then exact, the domain of the sum exists only if it is a subgroup, so that four
times the sum is still within the range (a field's two-adicity is below the width
by two), hence the doubled sum is exact too; the check of 2(l + t) against n then
shows that n/2 - l did not wrap, and with the strict check of the threshold,
between two powers of two, n is at least 4(l + t).  The facts about powers of two
(`PowersFacts`) are proved from their recursive definition, whose existence is
shown first (`PowerOfTwoDef`).  The assumption `MaxLAssumption` for the implicit
constructor says that usize holds the number of parties.

### 4.7 The circuit of a regex

The theorems hold for every sequence of parts with any automata that
regex-automata can print (`Automaton`: finitely many labels, deterministic, no
label with the start byte 255, which no UTF-8 text contains) and for every
policy.  Nothing is said of the order in which the labels of a state are printed,
so the proofs hold for any.

First the breadth-first search: `SearchInv` says that every transition of a
visited state leads to one that is visited or waits, and that the transitions
left and the states that wait are fewer with every turn, so that the search ends
(`BreadthFirstFacts`) and the numbers of a part's states are all defined.
`GoodGraph(g, base)` is what the steps of the compiler hand on: the states are
numbered by position from base on, edges stay inside, and no byte is on two
edges of a state.  There is one lemma for each step: conversion, the start byte,
renaming, and joining (`AddedIsGood`), where dropping the part's first state and
renaming from the last number cancel out, and where the bytes that the old
edges give up (`MergedAreGood`) keep an accepting state deterministic.  `RegexInv`
carries this and the rows: if one state at most is on before a byte, one is on
after it (`OneSuccessor`), be it reached from there or from state 0.

What a circuit accepts is proved for the two kinds of regex that a policy is
compiled to.  `SameGraph` says that the nodes of a graph from some position on are
the states of the automaton, with its accepting states and its bytes; conversion
establishes it and renaming keeps it.

* Between ^ and $: `AnchoredNet` is that graph behind the node of the caret, which
  only the start byte leaves (`JoinedIsAnchored`).  The inductive invariant
  `AnchoredInv` says that the row after j bytes is `Reached`: the states of the
  automaton's run on these bytes, and none once a padding byte was read.  Range
  checks match the bytes of an edge and no other (`MatchedExactly`), and the end
  anchor reads the row at the count of bytes that are not padding, which is the end
  of the text exactly if there is no padding inside (`TextEnds`, `OutIsExact`).
* Without anchors: `SearchedInv` says that the rows are a search (`IsSearch`): what
  is under way goes on, a new attempt starts only where nothing is left, and being
  back in the start is being nowhere.  What is under way began somewhere
  (`SearchIsSound`).  Nothing is lost if the automaton is `Searchable`: some relation
  holds between the state that is under way and each state that an attempt hidden
  behind it would be in, is kept by every byte, and lets no hidden one accept first
  (`SearchIsComplete`).  Automata with `ShortWords` have such a relation, and so has
  a tail `.{N,}`, whose older attempt is always the further one
  (`AtLeastIsSearchable`).

For regexes of any number of parts, `NetSound` says what the nodes of the glued
graph stand for: a relation M between nodes and states of the parts, such that an
accepting node stands for an accepting state of the last part and an edge for a
step, in both cases after any number of parts that the empty word completes
(`Continues`).  Each way the graph grows has its lemma: a first part, a caret alone,
a group `(^|...)` and one more part (`JoinIsSound`, which is where `Separable` is
needed: an edge back to the new part's first state would lead to every accepting
node).  `RowsSound` says that the states that are on after k bytes stand for states
that the parts are in after reading them (`Reading`), for a match that began
somewhere; `SoundInv` carries both, and `MatchIsSound` is what it says of an
accepting state.

`PolicyInv` then follows the wrapper: the circuit under way is that of the next
condition, the message is one for all of them (`MessageInv`), and every output so
far is the truth about its condition, negated or not (`Judged`).

### 4.8 What is left to TLC

* Liveness (`EverybodyReturns`, `SessionEnds`, `ProdEnds`, `MeshEnds`,
  `VerificationEnds`) and the fairness of `ImplementsIdealRounds`: out of the
  prover's reach.
* What transforms, decoders, pairing checks and circuits compute (`PackedSharing`,
  `PrimitiveRounds`, `DistGroth16`, `GaoDecoder`, `AcceptedExactly`): algebra over
  fields, checked over bounded inputs.
* Which bytes a circuit of several parts reveals (`RevealsWhatIsPublic`).

## 5. What is not modelled, and why

* **Soundness of the cryptography.**  Groups and fields are small prime fields,
  group elements their logarithms: the models show that honest computations give
  what they should and that checks compare what they should, not that nobody can
  forge.  Zero knowledge, the generation of the SRS and its serialisation, and
  curve arithmetic are left out.
* **Bytes.**  A frame is a tag; its size and the encoding of its contents appear
  only where one type of share may be read as another.  The TLS handshake and its
  certificates are one step.
* **The regex-automata crate**, its parser and determinisation; characters of more
  than one byte; the wording of the generated circom, and the halo2 and wasm
  outputs of the compiler.
* **Reading of the witness**, the metrics files, and the contents of the
  aggregation server's own files, which nothing in the model reads.  A panic over a
  missing directory is a kill at that step.
* **`standalone_verifier.rs`** reads one aggregate and calls the verifier of
  `SnarkVerifier`; it has no state of its own.
* **The experiment scripts.**  They start tasks and servers one after the other;
  `Workdir` starts them in every order.  Their own lock and completion markers are
  hazards without a property.
* **Metrics and benchmarks** keep timers and counters that nothing depends on.
