----------------------------- MODULE MCWorkdir -----------------------------
EXTENDS Workdir, TLC

\* The circuits are only compared with one another.
Circuits == Permutations(Circuit)
=============================================================================
