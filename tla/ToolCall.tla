------------------------------ MODULE ToolCall ------------------------------
(***************************************************************************)
(* What the session promises of a tool call (session.rs, the comments of   *)
(* send, InFlight and CallError).  A call leaves its caller's hands once:  *)
(* refused, and then nothing of it ever reaches a browser, or submitted to *)
(* the one connection it was routed to.  There it starts at most once and  *)
(* nowhere else.  Its result is settled once, by the first delivery, which *)
(* came from that very connection or says that it is gone, or by the       *)
(* deadline; how the operation itself ends is another matter.              *)
(***************************************************************************)
CONSTANTS Callers, Conns, NoConn

VARIABLES gone,     \* the call has left its caller's hands
          route,    \* the connection it is bound to
          queued,   \* the connections on which it is on its way ...
          ongoing,  \* ... and those behind which it runs
          mail,     \* what was delivered and not yet taken
          result

callPromise == <<gone, route, queued, ongoing, mail, result>>

Refusals == {"notConnected", "notFound", "ambiguous", "timeout", "write", "killed"}
NoMail   == [kind |-> "empty", from |-> NoConn]

CallInit ==
    /\ gone = [c \in Callers |-> FALSE]
    /\ route = [c \in Callers |-> NoConn]
    /\ queued = [c \in Callers |-> {}]
    /\ ongoing = [c \in Callers |-> {}]
    /\ mail = [c \in Callers |-> NoMail]
    /\ result = [c \in Callers |-> "none"]

Route(c, g) ==
    /\ ~gone[c] /\ route[c] = NoConn
    /\ route' = [route EXCEPT ![c] = g]
    /\ UNCHANGED <<gone, queued, ongoing, mail, result>>

\* The one step that puts a call on its way.
Submit(c) ==
    /\ ~gone[c] /\ route[c] # NoConn
    /\ gone' = [gone EXCEPT ![c] = TRUE]
    /\ queued' = [queued EXCEPT ![c] = {route[c]}]
    /\ UNCHANGED <<route, ongoing, mail, result>>

\* A refused call is gone too: it will not be submitted.
Refuse(c) ==
    /\ ~gone[c] /\ result[c] = "none"
    /\ gone' = [gone EXCEPT ![c] = TRUE]
    /\ \E why \in Refusals : result' = [result EXCEPT ![c] = why]
    /\ route' = [route EXCEPT ![c] = NoConn]
    /\ mail' = [mail EXCEPT ![c] = NoMail]
    /\ UNCHANGED <<queued, ongoing>>

Start(c, g) ==
    /\ g \in queued[c]
    /\ queued' = [queued EXCEPT ![c] = @ \ {g}]
    /\ ongoing' = [ongoing EXCEPT ![c] = @ \cup {g}]
    /\ UNCHANGED <<gone, route, mail, result>>

\* Requests are lost with their connection; operations end or are cancelled.
Lose ==
    /\ queued' \in [Callers -> SUBSET Conns] /\ ongoing' \in [Callers -> SUBSET Conns]
    /\ \A c \in Callers : queued'[c] \subseteq queued[c] /\ ongoing'[c] \subseteq ongoing[c]
    /\ UNCHANGED <<gone, route, mail, result>>

Open(c) == route[c] # NoConn /\ result[c] = "none" /\ mail[c] = NoMail

Answer(c) ==
    /\ Open(c)
    /\ mail' = [mail EXCEPT ![c] = [kind |-> "reply", from |-> route[c]]]
    /\ UNCHANGED <<gone, route, queued, ongoing, result>>

\* A connection that ends takes all its callers with it at once.
Sever(C) ==
    /\ \A c \in C : Open(c)
    /\ mail' = [c \in Callers |-> IF c \in C THEN [kind |-> "severed", from |-> NoConn] ELSE mail[c]]
    /\ UNCHANGED <<gone, route, queued, ongoing, result>>

Settle(c) ==
    /\ gone[c] /\ result[c] = "none"
    /\ result' = [result EXCEPT ![c] = CASE mail[c].kind = "reply"   -> "reply"
                                         [] mail[c].kind = "severed" -> "disconnected"
                                         [] OTHER                    -> "timeout"]
    /\ mail' = [mail EXCEPT ![c] = NoMail]
    /\ UNCHANGED <<gone, route, queued, ongoing>>

\* The caller has its result and lets go of the connection.
Close(c) ==
    /\ result[c] # "none"
    /\ route' = [route EXCEPT ![c] = NoConn]
    /\ UNCHANGED <<gone, queued, ongoing, mail, result>>

CallNext ==
    \/ \E c \in Callers :
          \/ Submit(c) \/ Refuse(c) \/ Answer(c) \/ Settle(c) \/ Close(c)
          \/ \E g \in Conns : Route(c, g) \/ Start(c, g)
    \/ \E C \in SUBSET Callers : Sever(C)
    \/ Lose

CallSpec == CallInit /\ [][CallNext]_callPromise
=============================================================================
