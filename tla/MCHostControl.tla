--------------------------- MODULE MCHostControl ---------------------------
(* HostControl for TLC: temporal properties only, so no symmetry set.       *)
EXTENDS HostControl, TLC
=============================================================================
