--------------------------- MODULE WorkdirProofs ---------------------------
(***************************************************************************)
(* What holds of every working directory, whatever the circuits and the    *)
(* number of tasks, whatever processes were run in it and wherever they    *)
(* died.                                                                   *)
(***************************************************************************)
EXTENDS Workdir, TLAPS

\* The marks of a file are no circuits.
LEMMA Marks ==
  /\ Absent \notin Circuit /\ Partial \notin Circuit /\ None \notin Circuit
  /\ Absent # Partial /\ Absent # None /\ Partial # None
  /\ 0 \in TaskId /\ TaskId \subseteq Nat
  BY CircuitAssumption, LastTaskAssumption DEF Absent, Partial, None, TaskId

\* A task that is not running has no claim on the files but for its outcome.
LEMMA InitTaskInv == TaskInit => TaskInv
  <1>. SUFFICES ASSUME TaskInit PROVE TaskInv
    OBVIOUS
  <1>1. TaskTypeOK
    BY Marks DEF TaskInit, TaskTypeOK, EmptyCache, NoProofs, Killed, Fresh,
                 Content, Held, Step
  <1>. QED
    BY <1>1 DEF TaskInit, TaskInv, CrsInv, SkipInv, HeldInv, HoldsKeys,
       RepairInv, SavedInv, PanicsOnlyOverCrs, EmptyCache, Killed, Fresh,
       TaskRuns, AfterPk, AfterVk, AfterReady, AfterCrs, AfterCrsReady,
       AfterProofFile, AfterVkBin

\* Reading a flag before the keys are read changes no file.
LEMMA LookInv == TaskInv /\ Look => TaskInv'
  <1>. SUFFICES ASSUME TaskInv, Look PROVE TaskInv'
    OBVIOUS
  <1>. USE Marks DEF TaskInv, Look, TaskTypeOK
  <1>1. TaskTypeOK'
    BY DEF Step, UseCrsCache
  <1>2. CrsInv' /\ SkipInv'
    BY DEF CrsInv, SkipInv, UseCrsCache
  <1>3. HeldInv'
    BY DEF HeldInv, HoldsKeys, TaskRuns
  <1>4. RepairInv' /\ SavedInv' /\ PanicsOnlyOverCrs'
    BY DEF RepairInv, SavedInv, PanicsOnlyOverCrs, AfterPk, AfterVk,
       AfterReady, AfterCrs, AfterCrsReady, AfterProofFile, AfterVkBin
  <1>. QED
    BY <1>1, <1>2, <1>3, <1>4

\* The keys are read or made: what was not loaded is the circuit's own.
LEMMA KeysInv == TaskInv /\ Keys => TaskInv'
  <1>. SUFFICES ASSUME TaskInv, Keys PROVE TaskInv'
    OBVIOUS
  <1>. USE Marks DEF TaskInv, Keys, TaskTypeOK, OnlyVk, BothKeys, UseCache, Whole
  <1>0. task.circuit \in Circuit
    BY DEF HeldInv, TaskRuns
  <1>1. TaskTypeOK'
    <2>1. /\ task'.pk \in Held /\ task'.vk \in Held /\ task'.at \in {"pk", "shares"}
          /\ task' = [task EXCEPT !.pk = task'.pk, !.vk = task'.vk,
                                  !.sawCrs = FALSE, !.at = task'.at]
      BY <1>0 DEF Held
    <2>. QED
      BY <2>1 DEF Step
  <1>2. CrsInv' /\ SkipInv'
    BY <1>0 DEF CrsInv, SkipInv
  <1>3. HeldInv'
    BY <1>0 DEF HeldInv, HoldsKeys, TaskRuns, OneCircuit, CacheFiles
  <1>4. RepairInv' /\ SavedInv' /\ PanicsOnlyOverCrs'
    BY DEF RepairInv, SavedInv, PanicsOnlyOverCrs, AfterPk, AfterVk,
       AfterReady, AfterCrs, AfterCrsReady, AfterProofFile, AfterVkBin
  <1>. QED
    BY <1>1, <1>2, <1>3, <1>4

\* The shares are read or made, or the task panics for want of the key.
LEMMA SharesInv == TaskInv /\ Shares => TaskInv'
  <1>. SUFFICES ASSUME TaskInv, Shares PROVE TaskInv'
    OBVIOUS
  <1>. USE Marks DEF TaskInv
  <1>0. /\ task.at = "shares" /\ task.circuit \in Circuit /\ task.id \in TaskId
        /\ cache' = cache /\ proof' = proof /\ vkBin' = vkBin
    BY DEF HeldInv, TaskRuns, TaskTypeOK, Shares
  <1>1. CASE /\ task.id > 0 /\ cache.crsReady /\ cache.crs \in Circuit
           /\ task' = [task EXCEPT !.crs = cache.crs, !.at = "prove"]
    <2>1. TaskTypeOK'
      BY <1>0, <1>1 DEF TaskTypeOK, Content, Held, Step
    <2>2. CrsInv' /\ SkipInv' /\ HeldInv' /\ PanicsOnlyOverCrs'
      BY <1>0, <1>1 DEF CrsInv, SkipInv, HeldInv, HoldsKeys, PanicsOnlyOverCrs,
         OneCircuit, CacheFiles, TaskRuns, TaskTypeOK, Content
    <2>3. RepairInv' /\ SavedInv'
      BY <1>0, <1>1 DEF HeldInv, HoldsKeys, RepairInv, SavedInv, AfterPk, AfterVk,
         AfterReady, AfterCrs, AfterCrsReady, AfterProofFile, AfterVkBin, TaskTypeOK
    <2>. QED
      BY <2>1, <2>2, <2>3
  <1>2. CASE /\ task.id > 0 /\ cache.crsReady /\ cache.crs \notin Circuit
           /\ task' = Panicked
    <2>1. TaskTypeOK'
      BY <1>0, <1>2 DEF TaskTypeOK, Content, Held, Step, Panicked, Fresh
    <2>2. CrsInv' /\ SkipInv' /\ HeldInv' /\ PanicsOnlyOverCrs'
      BY <1>0, <1>2 DEF CrsInv, SkipInv, HeldInv, HoldsKeys, PanicsOnlyOverCrs,
         OneCircuit, CacheFiles, TaskRuns, TaskTypeOK, Content, Panicked, Fresh
    <2>3. RepairInv' /\ SavedInv'
      BY <1>0, <1>2 DEF HeldInv, HoldsKeys, RepairInv, SavedInv, AfterPk, AfterVk,
         AfterReady, AfterCrs, AfterCrsReady, AfterProofFile, AfterVkBin, TaskTypeOK, Panicked, Fresh
    <2>. QED
      BY <2>1, <2>2, <2>3
  <1>3. CASE /\ task.id = 0 /\ task.pk \in Circuit
           /\ task' = [task EXCEPT !.crs = task.pk, !.at = "crs"]
    <2>1. TaskTypeOK'
      BY <1>0, <1>3 DEF TaskTypeOK, Content, Held, Step
    <2>2. CrsInv' /\ SkipInv' /\ HeldInv' /\ PanicsOnlyOverCrs'
      BY <1>0, <1>3 DEF CrsInv, SkipInv, HeldInv, HoldsKeys, PanicsOnlyOverCrs,
         OneCircuit, CacheFiles, TaskRuns, TaskTypeOK, Content
    <2>3. RepairInv' /\ SavedInv'
      BY <1>0, <1>3 DEF HeldInv, HoldsKeys, RepairInv, SavedInv, AfterPk, AfterVk,
         AfterReady, AfterCrs, AfterCrsReady, AfterProofFile, AfterVkBin, TaskTypeOK
    <2>. QED
      BY <2>1, <2>2, <2>3
  <1>4. CASE /\ task.id # 0 /\ task.pk \in Circuit
           /\ task' = [task EXCEPT !.crs = task.pk, !.at = "prove"]
    <2>1. TaskTypeOK'
      BY <1>0, <1>4 DEF TaskTypeOK, Content, Held, Step
    <2>2. CrsInv' /\ SkipInv' /\ HeldInv' /\ PanicsOnlyOverCrs'
      BY <1>0, <1>4 DEF CrsInv, SkipInv, HeldInv, HoldsKeys, PanicsOnlyOverCrs,
         OneCircuit, CacheFiles, TaskRuns, TaskTypeOK, Content
    <2>3. RepairInv' /\ SavedInv'
      BY <1>0, <1>4 DEF HeldInv, HoldsKeys, RepairInv, SavedInv, AfterPk, AfterVk,
         AfterReady, AfterCrs, AfterCrsReady, AfterProofFile, AfterVkBin, TaskTypeOK
    <2>. QED
      BY <2>1, <2>2, <2>3
  <1>. QED
    BY <1>0, <1>1, <1>2, <1>3, <1>4 DEF Shares, UseCrsCache, Whole, SkipInv, TaskTypeOK, Held

\* The verification before the save is what ties the proof to the circuit.
LEMMA ProveInv == TaskInv /\ Prove => TaskInv'
  <1>. SUFFICES ASSUME TaskInv, Prove PROVE TaskInv'
    OBVIOUS
  <1>. USE Marks DEF TaskInv, Prove, TaskTypeOK, Panicked, Fresh
  <1>1. TaskTypeOK'
    BY DEF Step, Held
  <1>2. CrsInv' /\ SkipInv'
    BY DEF CrsInv, SkipInv
  <1>3. HeldInv'
    BY DEF HeldInv, HoldsKeys, TaskRuns, OneCircuit
  <1>4. RepairInv' /\ SavedInv'
    BY DEF RepairInv, SavedInv, AfterPk, AfterVk,
       AfterReady, AfterCrs, AfterCrsReady, AfterProofFile, AfterVkBin
  <1>5. PanicsOnlyOverCrs'
    BY DEF PanicsOnlyOverCrs, HeldInv, HoldsKeys, OneCircuit
  <1>. QED
    BY <1>1, <1>2, <1>3, <1>4, <1>5

\* Only task 0 writes the cache, and only what is its circuit's.
LEMMA SaveCacheInv == TaskInv /\ SaveCache => TaskInv'
  <1>. SUFFICES ASSUME TaskInv, SaveCache PROVE TaskInv'
    OBVIOUS
  <1>. USE Marks DEF TaskInv
  <1>0. /\ task.id = 0 /\ task.circuit \in Circuit
        /\ task.pk = task.circuit /\ task.vk = task.circuit
        /\ proof' = proof /\ vkBin' = vkBin
    BY DEF HeldInv, HoldsKeys, TaskRuns, SaveCache, WriteCache, WriteFlag
  <1>1. CASE /\ task.at = "pk" /\ cache' = [cache EXCEPT !.pk = Partial]
           /\ task' = [task EXCEPT !.writing = TRUE]
    <2>1. TaskTypeOK'
      BY <1>0, <1>1 DEF TaskTypeOK, Content, Held, Step
    <2>2. CrsInv' /\ SkipInv' /\ HeldInv' /\ PanicsOnlyOverCrs'
      BY <1>0, <1>1 DEF CrsInv, SkipInv, HeldInv, HoldsKeys, PanicsOnlyOverCrs,
         OneCircuit, CacheFiles, TaskRuns, TaskTypeOK, Content
    <2>3. RepairInv' /\ SavedInv'
      BY <1>0, <1>1 DEF HeldInv, HoldsKeys, RepairInv, SavedInv, AfterPk, AfterVk,
         AfterReady, AfterCrs, AfterCrsReady, AfterProofFile, AfterVkBin, TaskTypeOK
    <2>. QED
      BY <2>1, <2>2, <2>3
  <1>2. CASE /\ task.at = "pk" /\ cache' = [cache EXCEPT !.pk = task.pk]
           /\ task' = [task EXCEPT !.writing = FALSE, !.at = "vk"]
    <2>1. TaskTypeOK'
      BY <1>0, <1>2 DEF TaskTypeOK, Content, Held, Step
    <2>2. CrsInv' /\ SkipInv' /\ HeldInv' /\ PanicsOnlyOverCrs'
      BY <1>0, <1>2 DEF CrsInv, SkipInv, HeldInv, HoldsKeys, PanicsOnlyOverCrs,
         OneCircuit, CacheFiles, TaskRuns, TaskTypeOK, Content
    <2>3. RepairInv' /\ SavedInv'
      BY <1>0, <1>2 DEF HeldInv, HoldsKeys, RepairInv, SavedInv, AfterPk, AfterVk,
         AfterReady, AfterCrs, AfterCrsReady, AfterProofFile, AfterVkBin, TaskTypeOK
    <2>. QED
      BY <2>1, <2>2, <2>3
  <1>3. CASE /\ task.at = "vk" /\ cache' = [cache EXCEPT !.vk = Partial]
           /\ task' = [task EXCEPT !.writing = TRUE]
    <2>1. TaskTypeOK'
      BY <1>0, <1>3 DEF TaskTypeOK, Content, Held, Step
    <2>2. CrsInv' /\ SkipInv' /\ HeldInv' /\ PanicsOnlyOverCrs'
      BY <1>0, <1>3 DEF CrsInv, SkipInv, HeldInv, HoldsKeys, PanicsOnlyOverCrs,
         OneCircuit, CacheFiles, TaskRuns, TaskTypeOK, Content
    <2>3. RepairInv' /\ SavedInv'
      BY <1>0, <1>3 DEF HeldInv, HoldsKeys, RepairInv, SavedInv, AfterPk, AfterVk,
         AfterReady, AfterCrs, AfterCrsReady, AfterProofFile, AfterVkBin, TaskTypeOK
    <2>. QED
      BY <2>1, <2>2, <2>3
  <1>4. CASE /\ task.at = "vk" /\ cache' = [cache EXCEPT !.vk = task.vk]
           /\ task' = [task EXCEPT !.writing = FALSE, !.at = "ready"]
    <2>1. TaskTypeOK'
      BY <1>0, <1>4 DEF TaskTypeOK, Content, Held, Step
    <2>2. CrsInv' /\ SkipInv' /\ HeldInv' /\ PanicsOnlyOverCrs'
      BY <1>0, <1>4 DEF CrsInv, SkipInv, HeldInv, HoldsKeys, PanicsOnlyOverCrs,
         OneCircuit, CacheFiles, TaskRuns, TaskTypeOK, Content
    <2>3. RepairInv' /\ SavedInv'
      BY <1>0, <1>4 DEF HeldInv, HoldsKeys, RepairInv, SavedInv, AfterPk, AfterVk,
         AfterReady, AfterCrs, AfterCrsReady, AfterProofFile, AfterVkBin, TaskTypeOK
    <2>. QED
      BY <2>1, <2>2, <2>3
  <1>5. CASE /\ task.at = "ready" /\ cache' = [cache EXCEPT !.ready = TRUE]
           /\ task' = [task EXCEPT !.at = "shares"]
    <2>1. TaskTypeOK'
      BY <1>0, <1>5 DEF TaskTypeOK, Content, Held, Step
    <2>2. CrsInv' /\ SkipInv' /\ HeldInv' /\ PanicsOnlyOverCrs'
      BY <1>0, <1>5 DEF CrsInv, SkipInv, HeldInv, HoldsKeys, PanicsOnlyOverCrs,
         OneCircuit, CacheFiles, TaskRuns, TaskTypeOK, Content
    <2>3. RepairInv' /\ SavedInv'
      BY <1>0, <1>5 DEF HeldInv, HoldsKeys, RepairInv, SavedInv, AfterPk, AfterVk,
         AfterReady, AfterCrs, AfterCrsReady, AfterProofFile, AfterVkBin, TaskTypeOK
    <2>. QED
      BY <2>1, <2>2, <2>3
  <1>. QED
    BY <1>0, <1>1, <1>2, <1>3, <1>4, <1>5 DEF SaveCache, WriteCache, WriteFlag

\* The same of the CRS shares, which it made from its own proving key.
LEMMA SaveCrsInv == TaskInv /\ SaveCrs => TaskInv'
  <1>. SUFFICES ASSUME TaskInv, SaveCrs PROVE TaskInv'
    OBVIOUS
  <1>. USE Marks DEF TaskInv
  <1>0. /\ task.id = 0 /\ task.circuit \in Circuit
        /\ task.pk = task.circuit /\ task.vk = task.circuit
        /\ task.crs = task.circuit
        /\ proof' = proof /\ vkBin' = vkBin
    BY DEF HeldInv, HoldsKeys, TaskRuns, SaveCrs, WriteCache, WriteFlag
  <1>1. CASE /\ task.at = "crs" /\ cache' = [cache EXCEPT !.crs = Partial]
           /\ task' = [task EXCEPT !.writing = TRUE]
    <2>1. TaskTypeOK'
      BY <1>0, <1>1 DEF TaskTypeOK, Content, Held, Step
    <2>2. CrsInv' /\ SkipInv' /\ HeldInv' /\ PanicsOnlyOverCrs'
      BY <1>0, <1>1 DEF CrsInv, SkipInv, HeldInv, HoldsKeys, PanicsOnlyOverCrs,
         OneCircuit, CacheFiles, TaskRuns, TaskTypeOK, Content
    <2>3. RepairInv' /\ SavedInv'
      BY <1>0, <1>1 DEF HeldInv, HoldsKeys, RepairInv, SavedInv, AfterPk, AfterVk,
         AfterReady, AfterCrs, AfterCrsReady, AfterProofFile, AfterVkBin, TaskTypeOK
    <2>. QED
      BY <2>1, <2>2, <2>3
  <1>2. CASE /\ task.at = "crs" /\ cache' = [cache EXCEPT !.crs = task.crs]
           /\ task' = [task EXCEPT !.writing = FALSE, !.at = "crsReady"]
    <2>1. TaskTypeOK'
      BY <1>0, <1>2 DEF TaskTypeOK, Content, Held, Step
    <2>2. CrsInv' /\ SkipInv' /\ HeldInv' /\ PanicsOnlyOverCrs'
      BY <1>0, <1>2 DEF CrsInv, SkipInv, HeldInv, HoldsKeys, PanicsOnlyOverCrs,
         OneCircuit, CacheFiles, TaskRuns, TaskTypeOK, Content
    <2>3. RepairInv' /\ SavedInv'
      BY <1>0, <1>2 DEF HeldInv, HoldsKeys, RepairInv, SavedInv, AfterPk, AfterVk,
         AfterReady, AfterCrs, AfterCrsReady, AfterProofFile, AfterVkBin, TaskTypeOK
    <2>. QED
      BY <2>1, <2>2, <2>3
  <1>3. CASE /\ task.at = "crsReady" /\ cache' = [cache EXCEPT !.crsReady = TRUE]
           /\ task' = [task EXCEPT !.at = "prove"]
    <2>1. TaskTypeOK'
      BY <1>0, <1>3 DEF TaskTypeOK, Content, Held, Step
    <2>2. CrsInv' /\ SkipInv' /\ HeldInv' /\ PanicsOnlyOverCrs'
      BY <1>0, <1>3 DEF CrsInv, SkipInv, HeldInv, HoldsKeys, PanicsOnlyOverCrs,
         OneCircuit, CacheFiles, TaskRuns, TaskTypeOK, Content
    <2>3. RepairInv' /\ SavedInv'
      BY <1>0, <1>3 DEF HeldInv, HoldsKeys, RepairInv, SavedInv, AfterPk, AfterVk,
         AfterReady, AfterCrs, AfterCrsReady, AfterProofFile, AfterVkBin, TaskTypeOK
    <2>. QED
      BY <2>1, <2>2, <2>3
  <1>. QED
    BY <1>0, <1>1, <1>2, <1>3 DEF SaveCrs, WriteCache, WriteFlag

\* The proof that is written is the one that was verified.
LEMMA SaveProofInv == TaskInv /\ SaveProof => TaskInv'
  <1>. SUFFICES ASSUME TaskInv, SaveProof PROVE TaskInv'
    OBVIOUS
  <1>. USE Marks DEF TaskInv
  <1>0. /\ task.at = "proof" /\ task.circuit \in Circuit /\ task.id \in TaskId
        /\ task.crs = task.circuit /\ task.vk = task.circuit
        /\ cache' = cache /\ vkBin' = vkBin
    BY DEF HeldInv, TaskRuns, TaskTypeOK, SaveProof
  <1>1. CASE /\ proof' = [proof EXCEPT ![task.id] = Partial]
           /\ task' = [task EXCEPT !.writing = TRUE]
    <2>1. TaskTypeOK'
      BY <1>0, <1>1 DEF TaskTypeOK, Content, Held, Step
    <2>2. CrsInv' /\ SkipInv' /\ HeldInv' /\ PanicsOnlyOverCrs'
      BY <1>0, <1>1 DEF CrsInv, SkipInv, HeldInv, HoldsKeys, PanicsOnlyOverCrs,
         OneCircuit, CacheFiles, TaskRuns, TaskTypeOK, Content
    <2>3. RepairInv' /\ SavedInv'
      BY <1>0, <1>1 DEF HeldInv, HoldsKeys, RepairInv, SavedInv, AfterPk, AfterVk,
         AfterReady, AfterCrs, AfterCrsReady, AfterProofFile, AfterVkBin, TaskTypeOK
    <2>. QED
      BY <2>1, <2>2, <2>3
  <1>2. CASE /\ proof' = [proof EXCEPT ![task.id] = task.circuit] /\ task.id = 0
           /\ task' = [task EXCEPT !.writing = FALSE, !.at = "vkBin"]
    <2>1. TaskTypeOK'
      BY <1>0, <1>2 DEF TaskTypeOK, Content, Held, Step
    <2>2. CrsInv' /\ SkipInv' /\ HeldInv' /\ PanicsOnlyOverCrs'
      BY <1>0, <1>2 DEF CrsInv, SkipInv, HeldInv, HoldsKeys, PanicsOnlyOverCrs,
         OneCircuit, CacheFiles, TaskRuns, TaskTypeOK, Content
    <2>3. RepairInv' /\ SavedInv'
      BY <1>0, <1>2 DEF HeldInv, HoldsKeys, RepairInv, SavedInv, AfterPk, AfterVk,
         AfterReady, AfterCrs, AfterCrsReady, AfterProofFile, AfterVkBin, TaskTypeOK
    <2>. QED
      BY <2>1, <2>2, <2>3
  <1>3. CASE /\ proof' = [proof EXCEPT ![task.id] = task.circuit] /\ task.id # 0
           /\ task' = [task EXCEPT !.writing = FALSE, !.at = "done"]
    <2>1. TaskTypeOK'
      BY <1>0, <1>3 DEF TaskTypeOK, Content, Held, Step
    <2>2. CrsInv' /\ SkipInv' /\ HeldInv' /\ PanicsOnlyOverCrs'
      BY <1>0, <1>3 DEF CrsInv, SkipInv, HeldInv, HoldsKeys, PanicsOnlyOverCrs,
         OneCircuit, CacheFiles, TaskRuns, TaskTypeOK, Content
    <2>3. RepairInv' /\ SavedInv'
      BY <1>0, <1>3 DEF HeldInv, HoldsKeys, RepairInv, SavedInv, AfterPk, AfterVk,
         AfterReady, AfterCrs, AfterCrsReady, AfterProofFile, AfterVkBin, TaskTypeOK
    <2>. QED
      BY <2>1, <2>2, <2>3
  <1>. QED
    BY <1>0, <1>1, <1>2, <1>3 DEF SaveProof, AfterProof

\* The verification key of a task 0 is its circuit's.
LEMMA SaveVkBinInv == TaskInv /\ SaveVkBin => TaskInv'
  <1>. SUFFICES ASSUME TaskInv, SaveVkBin PROVE TaskInv'
    OBVIOUS
  <1>. USE Marks DEF TaskInv, SaveVkBin, TaskTypeOK
  <1>0. task.id = 0 /\ task.circuit \in Circuit /\ task.vk = task.circuit
    BY DEF HeldInv, TaskRuns
  <1>1. TaskTypeOK'
    <2>1. CASE task' = [task EXCEPT !.writing = FALSE, !.at = "done"]
      BY <1>0, <2>1 DEF Step, Content
    <2>2. CASE task' = [task EXCEPT !.writing = TRUE]
      BY <1>0, <2>2 DEF Step, Content
    <2>. QED
      BY <2>1, <2>2
  <1>2. CrsInv' /\ SkipInv'
    BY <1>0 DEF CrsInv, SkipInv
  <1>3. HeldInv'
    BY <1>0 DEF HeldInv, HoldsKeys, TaskRuns
  <1>4. RepairInv'
    BY <1>0 DEF RepairInv, AfterPk, AfterVk,
       AfterReady, AfterCrs, AfterCrsReady, AfterProofFile, AfterVkBin
  <1>5. SavedInv' /\ PanicsOnlyOverCrs'
    BY <1>0 DEF SavedInv, PanicsOnlyOverCrs, AfterProofFile, AfterVkBin
  <1>. QED
    BY <1>1, <1>2, <1>3, <1>4, <1>5

\* A save that is given up makes no claim on the files any more.
LEMMA GiveUpInv == TaskInv /\ GiveUp => TaskInv'
  <1>. SUFFICES ASSUME TaskInv, GiveUp PROVE TaskInv'
    OBVIOUS
  <1>. USE Marks DEF TaskInv, GiveUp, TaskTypeOK, AfterProof
  <1>0. task.circuit \in Circuit
    BY DEF HeldInv, TaskRuns
  <1>1. TaskTypeOK'
    <2>1. /\ task'.at \in {"shares", "prove", "vkBin", "done"}
          /\ task' = [task EXCEPT !.writing = FALSE, !.gaveUp = TRUE, !.at = task'.at]
      OBVIOUS
    <2>. QED
      BY <2>1 DEF Step
  <1>2. CrsInv' /\ SkipInv'
    BY <1>0 DEF CrsInv, SkipInv, HeldInv, HoldsKeys
  <1>3. HeldInv'
    BY <1>0 DEF HeldInv, HoldsKeys, TaskRuns, OneCircuit
  <1>4. RepairInv' /\ SavedInv' /\ PanicsOnlyOverCrs'
    BY DEF RepairInv, SavedInv, PanicsOnlyOverCrs
  <1>. QED
    BY <1>1, <1>2, <1>3, <1>4

\* A crash leaves the files as they are, and nobody to hold anything.
LEMMA DieInv == TaskInv /\ Die => TaskInv'
  <1>. SUFFICES ASSUME TaskInv, Die PROVE TaskInv'
    OBVIOUS
  <1>. USE Marks DEF TaskInv, Die, TaskTypeOK, Killed, Fresh
  <1>1. TaskTypeOK'
    BY DEF Step, Held
  <1>2. CrsInv' /\ SkipInv' /\ HeldInv'
    BY DEF CrsInv, SkipInv, HeldInv, HoldsKeys, TaskRuns
  <1>3. RepairInv' /\ SavedInv' /\ PanicsOnlyOverCrs'
    BY DEF RepairInv, SavedInv, PanicsOnlyOverCrs, AfterPk, AfterVk,
       AfterReady, AfterCrs, AfterCrsReady, AfterProofFile, AfterVkBin
  <1>. QED
    BY <1>1, <1>2, <1>3

\* A task starts with nothing in its hands.
LEMMA LaunchInv ==
  ASSUME TaskInv, NEW i \in TaskId, NEW c \in Circuit, Launch(i, c)
  PROVE  TaskInv'
  <1>. USE Marks DEF TaskInv, Launch, TaskTypeOK, Fresh
  <1>1. TaskTypeOK'
    BY DEF Step, Held
  <1>2. CrsInv' /\ SkipInv' /\ HeldInv'
    BY DEF CrsInv, SkipInv, HeldInv, HoldsKeys, TaskRuns
  <1>3. RepairInv' /\ SavedInv' /\ PanicsOnlyOverCrs'
    BY DEF RepairInv, SavedInv, PanicsOnlyOverCrs, AfterPk, AfterVk,
       AfterReady, AfterCrs, AfterCrsReady, AfterProofFile, AfterVkBin
  <1>. QED
    BY <1>1, <1>2, <1>3

\* The invariant speaks of the directory and the task only.
LEMMA IdleTaskInv == TaskInv /\ UNCHANGED taskVars => TaskInv'
  BY DEF TaskInv, taskVars, TaskTypeOK, CrsInv, SkipInv, HeldInv, OneCircuit,
     RepairInv, SavedInv, PanicsOnlyOverCrs, TaskRuns

-----------------------------------------------------------------------------
\* The server has loaded nothing yet.
LEMMA InitServerInv == ServerInit => ServerInv
  BY LastTaskAssumption
  DEF ServerInit, ServerInv, ServerTypeOK, Exit, ServerStep, Batch

\* The batch holds the proofs that are in the directory, under their tasks.
LEMMA LoadInv == TaskTypeOK /\ ServerInv /\ Load => ServerInv'
  <1>. SUFFICES ASSUME TaskTypeOK, ServerInv, Load PROVE ServerInv'
    OBVIOUS
  <1>1. CASE Acceptable
    <2>1. server' = [server EXCEPT !.at = "verify", !.batch = Loaded]
      BY <1>1 DEF Load
    <2>2. Loaded \in Batch
      BY <1>1 DEF Acceptable, Loaded, Found, Whole, Batch
    <2>3. {x[1] : x \in Loaded} = Found
      <3>1. \A i \in Found : <<i, proof[i]>> \in Loaded /\ <<i, proof[i]>>[1] = i
        BY DEF Loaded
      <3>2. \A x \in Loaded : x[1] \in Found
        BY DEF Loaded
      <3>. QED
        BY <3>1, <3>2
    <2>4. server.expected > 0 => {x[1] : x \in Loaded} = 0 .. server.expected - 1
      BY <1>1, <2>3 DEF Acceptable
    <2>. QED
      BY <2>1, <2>2, <2>4 DEF ServerInv, ServerTypeOK, ServerStep
  <1>2. CASE ~ Acceptable
    BY <1>2, LastTaskAssumption
    DEF Load, ServerInv, ServerTypeOK, Exit, ServerStep, Batch
  <1>. QED
    BY <1>1, <1>2

\* One verification key for all is what makes the batch one of one circuit.
LEMMA VerifyInv == ServerInv /\ Verify => ServerInv'
  <1>. SUFFICES ASSUME ServerInv, Verify PROVE ServerInv'
    OBVIOUS
  <1>1. CASE VerifiesAll
    <2>1. server' = [server EXCEPT !.at = "aggregate"] /\ server.at = "verify"
      BY <1>1 DEF Verify
    <2>2. \A x, y \in server.batch : x[2] = y[2]
      BY <1>1 DEF VerifiesAll
    <2>. QED
      BY <2>1, <2>2 DEF ServerInv, ServerTypeOK, ServerStep
  <1>2. CASE ~ VerifiesAll
    BY <1>2, LastTaskAssumption
    DEF Verify, ServerInv, ServerTypeOK, Exit, ServerStep, Batch
  <1>. QED
    BY <1>1, <1>2

\* The later steps keep the batch or drop it.
LEMMA FilesInv == ServerInv /\ (Aggregate \/ SaveAll \/ WriteFails) => ServerInv'
  <1>. USE LastTaskAssumption DEF ServerInv, ServerTypeOK, Exit, ServerStep, Batch
  <1>1. ASSUME ServerInv, Aggregate PROVE ServerInv'
    <2>1. CASE server' = Exit("failed")
      BY <2>1
    <2>2. CASE server' = [server EXCEPT !.at = "files"]
      BY <1>1, <2>2 DEF Aggregate
    <2>. QED
      BY <1>1, <2>1, <2>2 DEF Aggregate
  <1>2. ASSUME ServerInv, SaveAll PROVE ServerInv'
    <2>1. CASE server' = [server EXCEPT !.at = "metrics"]
      BY <1>2, <2>1 DEF SaveAll
    <2>2. CASE server' = [server EXCEPT !.at = "done"]
      BY <1>2, <2>2 DEF SaveAll
    <2>. QED
      BY <1>2, <2>1, <2>2 DEF SaveAll
  <1>3. ASSUME WriteFails PROVE ServerInv'
    BY <1>3 DEF WriteFails
  <1>. QED
    BY <1>1, <1>2, <1>3

\* A new run knows nothing of the directory.
LEMMA RestartInv ==
  /\ ServerDies => ServerInv'
  /\ \A n \in 0 .. LastTask + 1 : StartServer(n) => ServerInv'
  BY LastTaskAssumption
  DEF ServerDies, StartServer, ServerInv, ServerTypeOK, Exit, ServerStep, Batch

\* Whatever the server does, its batch is what the checks made of it.
LEMMA ServerTurnInv == TaskTypeOK /\ ServerInv /\ ServerTurn => ServerInv'
  BY LoadInv, VerifyInv, FilesInv DEF ServerTurn

\* The server keeps what it loaded: it does not look at the files again.
LEMMA IdleServerInv == ServerInv /\ UNCHANGED server => ServerInv'
  BY DEF ServerInv, ServerTypeOK

-----------------------------------------------------------------------------
\* One process at a time works in the directory: what is known of the other
\* stays known.
DirInv == TaskInv /\ ServerInv

\* Every step of a task keeps the invariant.
LEMMA TaskStepInv == TaskInv /\ TaskStep => TaskInv'
  BY LookInv, KeysInv, SaveCacheInv, SharesInv, SaveCrsInv, ProveInv,
     SaveProofInv, SaveVkBinInv, GiveUpInv DEF TaskStep

\* So does every step in the directory.
LEMMA NextInv == DirInv /\ [Next]_vars => DirInv'
  <1>. SUFFICES ASSUME DirInv, [Next]_vars PROVE DirInv'
    OBVIOUS
  <1>. USE DEF DirInv
  <1>1. CASE (TaskStep \/ Die) /\ UNCHANGED server
    BY <1>1, TaskStepInv, DieInv, IdleServerInv
  <1>2. CASE (ServerTurn \/ ServerDies) /\ UNCHANGED taskVars
    BY <1>2, ServerTurnInv, RestartInv, IdleTaskInv DEF TaskInv
  <1>3. CASE \E i \in TaskId, c \in Circuit : Launch(i, c) /\ UNCHANGED server
    BY <1>3, LaunchInv, IdleServerInv
  <1>4. CASE \E n \in 0 .. LastTask + 1 : StartServer(n) /\ UNCHANGED taskVars
    BY <1>4, RestartInv, IdleTaskInv
  <1>5. CASE UNCHANGED vars
    BY <1>5, IdleTaskInv, IdleServerInv DEF vars
  <1>. QED
    BY <1>1, <1>2, <1>3, <1>4, <1>5 DEF Next

\* It holds of every directory, whoever worked and died in it.
THEOREM DirectoryInvariant == Spec => []DirInv
  <1>1. Init => DirInv
    BY InitTaskInv, InitServerInv DEF Init, DirInv
  <1>. QED
    BY <1>1, NextInv, PTL DEF Spec

\* TypeOK, for any number of tasks and any circuits.
THEOREM TypeCorrect == Spec => []TypeOK
  <1>1. DirInv => TypeOK
    BY DEF DirInv, TaskInv, ServerInv, TypeOK
  <1>. QED
    BY <1>1, DirectoryInvariant, PTL

\* A task that finds a directory of its own circuit, however it was left,
\* panics only over CRS shares that are announced and were cut short.
THEOREM TasksFindTheirWay == Spec => []PanicsOnlyOverCrs
  <1>1. DirInv => PanicsOnlyOverCrs
    BY DEF DirInv, TaskInv
  <1>. QED
    BY <1>1, DirectoryInvariant, PTL

\* A task 0 that saved all it meant to save leaves a directory of its circuit,
\* whatever was in it before.
THEOREM TaskZeroRepairsAll == Spec => []TaskZeroRepairs
  <1>1. ASSUME DirInv, task.at = "done", task.id = 0, ~ task.gaveUp
        PROVE  /\ cache = [pk |-> task.circuit, vk |-> task.circuit,
                           crs |-> task.circuit, ready |-> TRUE, crsReady |-> TRUE]
               /\ vkBin = task.circuit /\ proof[0] = task.circuit
    <2>1. /\ cache.pk = task.circuit /\ cache.vk = task.circuit /\ cache.ready
          /\ cache.crs = task.circuit /\ cache.crsReady /\ vkBin = task.circuit
      BY <1>1 DEF DirInv, TaskInv, RepairInv, AfterPk, AfterVk, AfterReady,
                  AfterCrs, AfterCrsReady, AfterProofFile, AfterVkBin
    <2>2. proof[0] = task.circuit
      BY <1>1 DEF DirInv, TaskInv, SavedInv, AfterProofFile, AfterVkBin
    <2>3. cache \in [pk : Content, vk : Content, crs : Content,
                     ready : BOOLEAN, crsReady : BOOLEAN]
      BY <1>1 DEF DirInv, TaskInv, TaskTypeOK
    <2>. QED
      BY <2>1, <2>2, <2>3
  <1>2. DirInv => TaskZeroRepairs
    BY <1>1 DEF TaskZeroRepairs
  <1>. QED
    BY <1>2, DirectoryInvariant, PTL

\* A proof that a task saved is one for its circuit, though its keys and its
\* shares may have come from files of other circuits.
THEOREM SavedProofsAreValid == Spec => []SavedProofsVerify
  <1>1. DirInv => SavedProofsVerify
    BY DEF DirInv, TaskInv, SavedInv, SavedProofsVerify, AfterProofFile, AfterVkBin
  <1>. QED
    BY <1>1, DirectoryInvariant, PTL

\* An aggregate that the server saves is of proofs of one circuit, and of the
\* tasks that were expected.
THEOREM AggregatesAreUniform == Spec => []AggregatesOneCircuit
  <1>1. DirInv => AggregatesOneCircuit
    BY DEF DirInv, ServerInv, AggregatesOneCircuit
  <1>. QED
    BY <1>1, DirectoryInvariant, PTL

=============================================================================
