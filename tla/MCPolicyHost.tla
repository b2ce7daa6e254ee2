--------------------------- MODULE MCPolicyHost ---------------------------
(* Two writers over a catalogue of one grant and one re-verification window. *)
EXTENDS PolicyHost, TLC

On == [f \in {"cdpMode"} |-> "on"]
Tight == [f \in {"cdpMode", "hostReverifyMs"} |-> IF f = "cdpMode" THEN "off" ELSE 1]
MCRequests == {On, Tight}
MCGrantsOf == [t \in GatedTools |-> {}]
WriterSymmetry == Permutations(Writers)
===========================================================================
