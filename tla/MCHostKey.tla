----------------------------- MODULE MCHostKey -----------------------------
(* HostKey for TLC.  The configuration checks temporal properties, so no    *)
(* symmetry set is declared.                                                *)
EXTENDS HostKey, TLC
=============================================================================
