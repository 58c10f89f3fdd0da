-------------------------- MODULE MCCpuAccounting --------------------------
(* Instances of CpuAccounting for TLC: make and other pids.                  *)
EXTENDS CpuAccounting, TLC
CONSTANTS p1, p2, p3
MCSymmetry == Permutations(Pids \ {Child})
=============================================================================
