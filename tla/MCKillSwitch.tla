--------------------------- MODULE MCKillSwitch ---------------------------
(* KillSwitch for TLC: the configurations check temporal properties, so no  *)
(* symmetry set is declared.                                                *)
EXTENDS KillSwitch, TLC
=============================================================================
