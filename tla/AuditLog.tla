------------------------------ MODULE AuditLog ------------------------------
(***************************************************************************)
(* What the audit trail promises (audit.rs, module documentation): the     *)
(* records on disk are two generations.  A record joins the newest, or the *)
(* one before it when its writer was slow; history is forgotten one whole  *)
(* generation at a time, and only when a newer generation has filled up.   *)
(***************************************************************************)
EXTENDS Integers

CONSTANTS Cap,       \* AUDIT_MAX_BYTES
          MaxLine,   \* the longest line a record can serialise to
          Records    \* the identities of the records

VARIABLES trail,   \* the records a reader of the disk would find
          fresh,   \* those of the newest generation
          bytes    \* the size of the newest generation

logvars == <<trail, fresh, bytes>>

Init == trail = {} /\ fresh = {} /\ bytes = 0

\* A line joins the newest generation; one that follows a torn line is not readable.
Join == \E new \in SUBSET Records, n \in 1 .. MaxLine :
            /\ bytes' = bytes + n
            /\ fresh' = fresh \cup new /\ trail' = trail \cup new

\* A writer that opened the file before a rotation still reaches the older generation.
Straggle == \E new \in SUBSET Records : trail' = trail \cup new /\ UNCHANGED <<fresh, bytes>>

\* The older generation goes, and only once the newest has no room for another line.
Forget == /\ bytes + MaxLine > Cap
          /\ trail' = fresh /\ fresh' = {} /\ bytes' = 0

Next == Join \/ Straggle \/ Forget

Spec == Init /\ [][Next]_logvars
=============================================================================
