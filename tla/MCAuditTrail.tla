---------------------------- MODULE MCAuditTrail ----------------------------
(* Two threads of one process, over a file that two short lines fill.       *)
EXTENDS AuditTrail

CONSTANTS t1, t2, broker

MCProcOf == [t \in Writers |-> broker]
=============================================================================
