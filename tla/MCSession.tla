----------------------------- MODULE MCSession -----------------------------
(* Session for TLC.  Labels and Callers are sets of model values given in   *)
(* the configurations; labels are interchangeable, and so are callers.      *)
EXTENDS Session, TLC

Symmetry == Permutations(Labels) \cup Permutations(Callers)
=============================================================================
