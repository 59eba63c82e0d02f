----------------------------- MODULE ProofTask -----------------------------
(***************************************************************************)
(* One working directory and the proof tasks that are run in it, one after *)
(* the other: task 0 makes the keys and the CRS shares and caches them,    *)
(* the other tasks use what they find.  A process may die between any two  *)
(* of its steps, and the file it was writing is then partial.  A key or a  *)
(* proof is abstracted to the circuit it is for: the set-up is seeded, so  *)
(* it yields the same keys for a circuit every time.                       *)
(***************************************************************************)
EXTENDS Integers

CONSTANTS
  Circuit, \* the circuits that tasks are run for
  LastTask \* the tasks are 0 .. LastTask

ASSUME LastTaskAssumption == LastTask \in Nat
TaskId == 0 .. LastTask

\* What a file holds: nothing, a part, or what was made for a circuit.
Absent == "absent"
Partial == "partial"
None == "none"
Content == Circuit \cup {Absent, Partial}
Held == Circuit \cup {None}
ASSUME CircuitAssumption == Circuit \cap {Absent, Partial, None} = {}

VARIABLES
  cache, \* proving_key.bin, verifying_key.bin, crs_shares_*.bin and the flags
  proof, \* regex_proof_*.json, by task
  vkBin, \* verification_key.bin, for the aggregator
  task   \* the last task started: where it is, its arguments, what it holds

taskVars == <<cache, proof, vkBin, task>>

\* A step that is named like a file writes it.
Step == {"look", "keys", "pk", "vk", "ready", "shares", "crs", "crsReady",
         "prove", "proof", "vkBin", "done", "panicked", "died"}

TaskTypeOK ==
  /\ cache \in [pk : Content, vk : Content, crs : Content,
                ready : BOOLEAN, crsReady : BOOLEAN]
  /\ proof \in [TaskId -> Content]
  /\ vkBin \in Content
  /\ task \in [at : Step, id : TaskId, circuit : Held,
               sawCrs : BOOLEAN, pk : Held, vk : Held, crs : Held,
               writing : BOOLEAN, gaveUp : BOOLEAN]

EmptyCache == [pk |-> Absent, vk |-> Absent, crs |-> Absent,
               ready |-> FALSE, crsReady |-> FALSE]
NoProofs == [i \in TaskId |-> Absent]

Fresh(i, c) ==
  [at |-> "look", id |-> i, circuit |-> c, sawCrs |-> FALSE,
   pk |-> None, vk |-> None, crs |-> None, writing |-> FALSE, gaveUp |-> FALSE]

\* Of a process that is gone the files alone are left.
Killed == [Fresh(0, None) EXCEPT !.at = "died"]
Panicked == [Fresh(task.id, task.circuit) EXCEPT !.at = "panicked"]

\* No task has run in the directory yet.
TaskInit ==
  /\ cache = EmptyCache
  /\ proof = NoProofs
  /\ vkBin = Absent
  /\ task = Killed

TaskRuns == task.at \notin {"done", "panicked", "died"}

-----------------------------------------------------------------------------
\* Task 0 uses no cache, whatever it finds.
UseCache == task.id > 0 /\ cache.ready
UseCrsCache == task.id > 0 /\ cache.crsReady

Whole(content) == content \in Circuit

\* crs_cache_available, read before the keys.
Look ==
  /\ task.at = "look"
  /\ task' = [task EXCEPT !.at = "keys", !.sawCrs = UseCrsCache]
  /\ UNCHANGED <<cache, proof, vkBin>>

\* With the CRS shares announced only the verifying key is loaded.
OnlyVk == task.sawCrs /\ UseCache /\ Whole(cache.vk)

\* Variant: a directory whose flag vouches for the files.
TrustsFlag == UseCache /\ ~ OnlyVk
\* load_cache, which is the fallback of a failed load of the key alone too.
BothKeys == UseCache /\ ~ OnlyVk /\ Whole(cache.pk) /\ Whole(cache.vk)

\* What is not loaded is made by a set-up, and task 0 caches it.
Keys ==
  /\ task.at = "keys"
  /\ task' = [task EXCEPT
       !.pk = IF OnlyVk THEN None ELSE IF BothKeys THEN cache.pk ELSE task.circuit,
       !.vk = IF OnlyVk \/ BothKeys THEN cache.vk ELSE task.circuit,
       !.sawCrs = FALSE,
       !.at = IF task.id = 0 THEN "pk" ELSE "shares"]
  /\ UNCHANGED <<cache, proof, vkBin>>

\* A write creates or truncates the file first.
WriteCache(f, value, next) ==
  /\ task.at = f
  /\ IF task.writing
     THEN /\ cache' = [cache EXCEPT ![f] = value]
          /\ task' = [task EXCEPT !.writing = FALSE, !.at = next]
     ELSE /\ cache' = [cache EXCEPT ![f] = Partial]
          /\ task' = [task EXCEPT !.writing = TRUE]
  /\ UNCHANGED <<proof, vkBin>>

\* A flag is there as soon as its file is created.
WriteFlag(f, next) ==
  /\ task.at = f
  /\ cache' = [cache EXCEPT ![f] = TRUE]
  /\ task' = [task EXCEPT !.at = next]
  /\ UNCHANGED <<proof, vkBin>>

\* Variant: a cache that is written once.
SaveCacheOnce ==
  \/ ~ cache.ready /\ WriteCache("pk", task.pk, "vk")
  \/ cache.ready /\ task.at = "pk"
     /\ task' = [task EXCEPT !.at = "shares"] /\ UNCHANGED <<cache, proof, vkBin>>
  \/ WriteCache("vk", task.vk, "ready")
  \/ WriteFlag("ready", "shares")
\* save_cache and save_crs_shares_cache.
SaveCache ==
  \/ WriteCache("pk", task.pk, "vk")
  \/ WriteCache("vk", task.vk, "ready")
  \/ WriteFlag("ready", "shares")
SaveCrs ==
  \/ WriteCache("crs", task.crs, "crsReady")
  \/ WriteFlag("crsReady", "prove")

\* The CRS shares: cached, or made from the proving key, which may have been
\* skipped.
Shares ==
  /\ task.at = "shares"
  /\ IF UseCrsCache /\ Whole(cache.crs)
     THEN task' = [task EXCEPT !.crs = cache.crs, !.at = "prove"]
     ELSE IF task.pk = None
     THEN task' = Panicked
     ELSE task' = [task EXCEPT !.crs = task.pk,
                               !.at = IF task.id = 0 THEN "crs" ELSE "prove"]
  /\ UNCHANGED <<cache, proof, vkBin>>

\* Variant: a proof that is saved without having been verified.
ProveUnverified ==
  /\ task.at = "prove"
  /\ task' = [task EXCEPT !.at = "proof"]
  /\ UNCHANGED <<cache, proof, vkBin>>
\* The distributed proof, and its verification with the verifying key.
Prove ==
  /\ task.at = "prove"
  /\ task' = IF task.crs = task.circuit /\ task.vk = task.circuit
             THEN [task EXCEPT !.at = "proof"] ELSE Panicked
  /\ UNCHANGED <<cache, proof, vkBin>>

AfterProof == IF task.id = 0 THEN "vkBin" ELSE "done"

SaveProof ==
  /\ task.at = "proof"
  /\ IF task.writing
     THEN /\ proof' = [proof EXCEPT ![task.id] = task.crs]
          /\ task' = [task EXCEPT !.writing = FALSE, !.at = AfterProof]
     ELSE /\ proof' = [proof EXCEPT ![task.id] = Partial]
          /\ task' = [task EXCEPT !.writing = TRUE]
  /\ UNCHANGED <<cache, vkBin>>

SaveVkBin ==
  /\ task.at = "vkBin"
  /\ IF task.writing
     THEN /\ vkBin' = task.vk
          /\ task' = [task EXCEPT !.writing = FALSE, !.at = "done"]
     ELSE /\ vkBin' = Partial
          /\ task' = [task EXCEPT !.writing = TRUE]
  /\ UNCHANGED <<cache, proof>>

\* A save that fails is reported and the task goes on without it.
GiveUp ==
  /\ task.at \in {"pk", "vk", "ready", "crs", "crsReady", "proof", "vkBin"}
  /\ task' = [task EXCEPT !.writing = FALSE, !.gaveUp = TRUE, !.at =
       CASE task.at \in {"pk", "vk", "ready"} -> "shares"
         [] task.at \in {"crs", "crsReady"} -> "prove"
         [] task.at = "proof" -> AfterProof
         [] task.at = "vkBin" -> "done"]
  /\ UNCHANGED <<cache, proof, vkBin>>

TaskStep ==
  \/ Look \/ Keys \/ SaveCache \/ Shares \/ SaveCrs
  \/ Prove \/ SaveProof \/ SaveVkBin \/ GiveUp

\* The process is killed, or the machine stops.
Die ==
  /\ TaskRuns
  /\ task' = Killed
  /\ UNCHANGED <<cache, proof, vkBin>>

\* Somebody starts a task in the directory.
Launch(i, c) ==
  /\ ~ TaskRuns
  /\ task' = Fresh(i, c)
  /\ UNCHANGED <<cache, proof, vkBin>>

-----------------------------------------------------------------------------
CacheFiles == {"pk", "vk", "crs"}

\* The directory has only been used for the circuit of the task.
OneCircuit == \A f \in CacheFiles : cache[f] \in {Absent, Partial, task.circuit}

\* Whatever was killed in a directory before, a task finds its way: it falls
\* back on whatever the files lack, and in a directory of one circuit it
\* panics only over CRS shares that are announced and were cut short.
PanicsOnlyOverCrs ==
  task.at = "panicked" /\ OneCircuit =>
    task.id > 0 /\ cache.crsReady /\ cache.crs = Partial

\* However the directory was left, by other circuits or by tasks that died, a
\* task 0 that ends with all its files saved repairs it: the keys, the shares
\* and the verification key are all for its circuit.
TaskZeroRepairs ==
  task.at = "done" /\ task.id = 0 /\ ~ task.gaveUp =>
    /\ cache = [pk |-> task.circuit, vk |-> task.circuit, crs |-> task.circuit,
                ready |-> TRUE, crsReady |-> TRUE]
    /\ vkBin = task.circuit /\ proof[0] = task.circuit

\* A proof that the task saves was made with keys of one set-up, that of its
\* circuit, even in a directory with the keys of one circuit and the shares of
\* another: nothing but the verification before the save sees to that.
SavedProofsVerify ==
  task.at = "done" /\ ~ task.gaveUp => proof[task.id] = task.circuit

-----------------------------------------------------------------------------
(***************************************************************************)
(* The inductive invariant behind the three properties: what the files may *)
(* hold, what the process holds at each step and where it comes from, and  *)
(* what a task 0 that has saved everything so far has written.             *)
(***************************************************************************)
\* Announced CRS shares have at least been begun.
CrsInv ==
  cache.crsReady \/ task.at = "crsReady" => cache.crs # Absent

\* Announced shares are what lets a task go without the proving key.
SkipInv ==
  /\ task.at = "keys" /\ task.sawCrs => task.id > 0 /\ cache.crsReady
  /\ task.at = "shares" /\ task.pk = None => task.id > 0 /\ cache.crsReady

HoldsKeys == {"pk", "vk", "ready", "shares", "crs", "crsReady", "prove"}

HeldInv ==
  /\ TaskRuns => task.circuit \in Circuit
  /\ task.at \in {"pk", "vk", "ready", "crs", "crsReady", "vkBin"} => task.id = 0
  /\ task.at \in HoldsKeys =>
       /\ task.id = 0 => task.pk = task.circuit
       /\ OneCircuit => task.pk \in {task.circuit, None}
       /\ task.id = 0 \/ OneCircuit => task.vk = task.circuit
  /\ task.at \in {"crs", "crsReady", "prove"} =>
       (task.id = 0 \/ OneCircuit => task.crs = task.circuit)
  /\ task.at = "proof" => task.crs = task.circuit
  /\ task.at \in {"proof", "vkBin"} => task.vk = task.circuit

AfterVkBin == {"done"}
AfterProofFile == {"vkBin"} \cup AfterVkBin
AfterCrsReady == {"prove", "proof"} \cup AfterProofFile
AfterCrs == {"crsReady"} \cup AfterCrsReady
AfterReady == {"shares", "crs"} \cup AfterCrs
AfterVk == {"ready"} \cup AfterReady
AfterPk == {"vk"} \cup AfterVk

RepairInv ==
  task.id = 0 /\ ~ task.gaveUp =>
    /\ task.at \in AfterPk => cache.pk = task.circuit
    /\ task.at \in AfterVk => cache.vk = task.circuit
    /\ task.at \in AfterReady => cache.ready
    /\ task.at \in AfterCrs => cache.crs = task.circuit
    /\ task.at \in AfterCrsReady => cache.crsReady
    /\ task.at \in AfterVkBin => vkBin = task.circuit

SavedInv ==
  task.at \in AfterProofFile /\ ~ task.gaveUp => proof[task.id] = task.circuit

TaskInv ==
  /\ TaskTypeOK
  /\ CrsInv
  /\ SkipInv
  /\ HeldInv
  /\ RepairInv
  /\ SavedInv
  /\ PanicsOnlyOverCrs

=============================================================================
