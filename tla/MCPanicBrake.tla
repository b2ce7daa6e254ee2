--------------------------- MODULE MCPanicBrake ---------------------------
(* PanicBrake for TLC.                                                      *)
EXTENDS PanicBrake, TLC
=============================================================================
