----------------------------- MODULE MCPresence -----------------------------
(* Chrome's host and Brave's, or two behind one unlabelled manifest; one       *)
(* authenticator that counts and one that does not.                            *)
EXTENDS Presence

CONSTANTS h1, h2, c1, c2

MCFronts == {[h \in Hosts |-> IF h = h1 THEN "chrome" ELSE "brave"],
             [h \in Hosts |-> "default"]}
=============================================================================
