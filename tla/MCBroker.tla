----------------------------- MODULE MCBroker -----------------------------
(* Broker for TLC.  A signer that matches the own harness and one relay,    *)
(* and a hash that matches the other relay: pairing one of them under the   *)
(* other's name revokes and admits in one write.  The run checks temporal   *)
(* properties, so no symmetry set is declared.                              *)
EXTENDS Broker, TLC

CONSTANTS signer, hash, r1, r2

MCMatches == {<<signer, Own>>, <<signer, r1>>, <<hash, r2>>}
=============================================================================
