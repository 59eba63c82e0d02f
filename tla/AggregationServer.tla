------------------------- MODULE AggregationServer -------------------------
(***************************************************************************)
(* The aggregation server, run in the directory of the proof tasks: it     *)
(* loads the proofs it finds and the verification key, verifies each       *)
(* proof, aggregates them, verifies the aggregate and writes its files,    *)
(* which no process of the directory reads.                                *)
(***************************************************************************)
EXTENDS ProofTask, FiniteSets

VARIABLE server  \* the last run: where it is, its argument, what it loaded

\* A batch is a set of <<task, circuit>> pairs.
Batch == SUBSET (TaskId \X Circuit)
ServerStep == {"load", "verify", "aggregate", "files", "metrics",
               "done", "failed", "died"}

\* expected is 0 when the expected number of proofs is not given.
ServerTypeOK ==
  server \in [at : ServerStep, expected : 0 .. LastTask + 1, batch : Batch]

Exit(at) == [at |-> at, expected |-> 0, batch |-> {}]

ServerInit == server = Exit("died")
ServerRuns == server.at \notin {"done", "failed", "died"}

-----------------------------------------------------------------------------
\* The proofs in the directory.
Found == {i \in TaskId : proof[i] # Absent}
Loaded == {<<i, proof[i]>> : i \in Found}

\* Variant: the number of proofs is compared, their numbers are not.
AcceptableByCount ==
  /\ Found # {}
  /\ \A i \in Found : Whole(proof[i])
  /\ server.expected > 0 => Cardinality(Found) = server.expected
\* A file that does not parse, an empty directory, a wrong number of proofs
\* and a gap in their numbers are all errors.
Acceptable ==
  /\ Found # {}
  /\ \A i \in Found : Whole(proof[i])
  /\ server.expected > 0 => Found = 0 .. server.expected - 1

Load ==
  /\ server.at = "load"
  /\ server' = IF Acceptable
               THEN [server EXCEPT !.at = "verify", !.batch = Loaded]
               ELSE Exit("failed")

\* The verification key loads, and every proof verifies with it.
VerifiesAll == Whole(vkBin) /\ \A x \in server.batch : x[2] = vkBin

Verify ==
  /\ server.at = "verify"
  /\ server' = IF VerifiesAll THEN [server EXCEPT !.at = "aggregate"]
               ELSE Exit("failed")

\* aggregate_proofs refuses other numbers of proofs, setup_fake_srs makes an
\* SRS for any; the aggregate of valid proofs verifies.
PowersOfTwo == {2 ^ k : k \in 1 .. LastTask + 1}
Aggregate ==
  /\ server.at = "aggregate"
  /\ server' = IF Cardinality(server.batch) \in PowersOfTwo
               THEN [server EXCEPT !.at = "files"] ELSE Exit("failed")

\* The files, of which one that cannot be written is an error; the metrics,
\* of which that is only reported.
SaveAll ==
  /\ server.at \in {"files", "metrics"}
  /\ server' = [server EXCEPT !.at = IF @ = "files" THEN "metrics" ELSE "done"]
WriteFails == server.at = "files" /\ server' = Exit("failed")

ServerTurn == Load \/ Verify \/ Aggregate \/ SaveAll \/ WriteFails

ServerDies ==
  /\ ServerRuns
  /\ server' = Exit("died")

\* Somebody starts the server in the directory.
StartServer(n) ==
  /\ ~ ServerRuns
  /\ server' = [Exit("load") EXCEPT !.expected = n]

-----------------------------------------------------------------------------
\* Whatever tasks died or were run for whatever circuit in the directory, an
\* aggregate is made of proofs of one circuit, and of exactly the tasks
\* 0 .. n-1 if n was expected.
AggregatesOneCircuit ==
  server.at \in {"files", "metrics", "done"} =>
    /\ \A x, y \in server.batch : x[2] = y[2]
    /\ server.expected > 0 =>
         {x[1] : x \in server.batch} = 0 .. server.expected - 1

\* The inductive invariant behind it: what is known of the batch grows with
\* the checks that the server has passed.
ServerInv ==
  /\ ServerTypeOK
  /\ server.expected > 0 /\
     server.at \in {"verify", "aggregate", "files", "metrics", "done"} =>
       {x[1] : x \in server.batch} = 0 .. server.expected - 1
  /\ server.at \in {"aggregate", "files", "metrics", "done"} =>
       \A x, y \in server.batch : x[2] = y[2]

=============================================================================
