--------------------------- MODULE MCCoverageGate ---------------------------
(* TLC instances of CoverageGate. *)
EXTENDS CoverageGate, TLC

GateSymmetry == Permutations(Runtimes)
=============================================================================
