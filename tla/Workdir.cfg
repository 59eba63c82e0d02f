CONSTANTS
  Circuit = {c1, c2}
  LastTask = 2
SYMMETRY Circuits
SPECIFICATION Spec
INVARIANTS
  PanicsOnlyOverCrs
  TaskZeroRepairs
  SavedProofsVerify
  AggregatesOneCircuit
