--------------------------- MODULE MCPollerElection --------------------------
(* Instances of PollerElection for TLC: workers are model values, given in  *)
(* the cfg files, and interchangeable.                                      *)
EXTENDS PollerElection, TLC

PidSymmetry == Permutations(Pids)
=============================================================================
