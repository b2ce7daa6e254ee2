---------------------------- MODULE MCElection ----------------------------
(* Election for TLC.  Instances, pids and releases are model values;         *)
(* instances and pids are interchangeable.                                   *)
EXTENDS Election, TLC

Symmetry == Permutations(Procs) \cup Permutations(Pids)
=============================================================================
