-------------------------- MODULE MCRegistration --------------------------
(* Chrome and the Brave that reads Chrome's directory on some layouts, one   *)
(* directory named by hand, a CLI and a host repairing beside it.            *)
EXTENDS Registration, TLC

ProcSymmetry == Permutations(Procs)
MCOdd == {[kind |-> "foreign"], [kind |-> "dangling"]}
===========================================================================
