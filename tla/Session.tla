------------------------------ MODULE Session ------------------------------
(***************************************************************************)
(* The session of the MCP server process (packages/core/src/session.rs):   *)
(* the registry of browser connections keyed by label, the pending-request *)
(* table keyed by request id, one reader thread per connection, and the    *)
(* tool calls that wait for replies.                                       *)
(*                                                                         *)
(* A connection is named by its generation.  Two mutexes guard the state:  *)
(* `conns` (held by a sender from the routing decision to the end of its   *)
(* socket write) and `pending` (held for single steps only).  Every action *)
(* that the code runs under `conns` therefore needs connsLock to be free,  *)
(* while a reader routing a reply needs only `pending` and may run while   *)
(* a sender holds `conns`.                                                 *)
(*                                                                         *)
(* The far end of a connection (native host, service worker) is modelled   *)
(* from port.ts and dispatch.ts: a reply rides the connection its request  *)
(* came on, a cancel reaches the worker through whichever connection holds *)
(* the label.                                                              *)
(***************************************************************************)
EXTENDS Naturals, Sequences, FiniteSets

CONSTANTS
    Labels,       \* browser labels
    Callers,      \* tool calls, each made once
    None,         \* no label / nobody
    MaxBrowsers,  \* session.rs MAX_BROWSERS: cap on distinct labels
    MaxGen,       \* bound on connections ever attached
    MaxId,        \* bound on request ids ever issued
    BufCap,       \* frames a bridge socket holds before a write stalls
    MaxBogus      \* bound on frames a broken extension invents

ASSUME SessionAssumption ==
    /\ MaxBrowsers \in Nat /\ MaxGen \in Nat /\ MaxId \in Nat
    /\ BufCap \in Nat /\ MaxBogus \in Nat
    /\ None \notin Labels /\ None \notin Callers
    /\ IsFiniteSet(Labels)

Gens  == 1..MaxGen
NoGen == 0
Ids   == 1..MaxId
NoId  == 0
Malformed == 0       \* a frame the ParsedResp boundary parse refuses

VARIABLES
    conns,       \* the registry: label -> generation of its Conn
    pending,     \* id -> generation it was sent under (NoGen: no entry)
    connsLock,   \* the caller holding the conns mutex across a write
    nextId, nextGen,
    labelOf,     \* generation -> label, fixed at attach
    superseded,  \* generation -> the generation its attach replaced
    taken,       \* Conns out of the registry whose Drop has not yet run
    shut,        \* connections whose socket this process shut down
    reader,      \* generation -> phase of its reader thread
    hand,        \* caller whose reply the reader is about to send
    alive,       \* connections whose native host process still runs
    toHost, toServer,   \* frames in the two directions of each socket
    running,     \* ops in the service workers: pairs <<id, generation>>
    bogus,       \* frames invented so far
    pc, want, target, reqId, sentOn, chan, outcome

registryVars == <<conns, nextGen, labelOf, superseded, taken, shut>>
readerVars   == <<reader, hand>>
peerVars     == <<alive, toServer, running, bogus>>
callVars     == <<pc, want, target, reqId, sentOn, outcome>>
vars == <<conns, pending, connsLock, nextId, nextGen, labelOf, superseded, taken, shut,
          reader, hand, alive, toHost, toServer, running, bogus,
          pc, want, target, reqId, sentOn, chan, outcome>>

ReaderPhase == {"none", "spawning", "reading", "delivering", "ending", "done"}
CallPhase   == {"idle", "ready", "writing", "waiting",
                "dropping", "cancelling", "done"}
Outcome     == {"none", "reply", "disconnected", "timeout", "write",
                "notConnected", "notFound", "ambiguous", "killed"}
Delivery    == [kind : {"empty", "reply", "severed"}, from : Gens \cup {NoGen}]
Empty       == [kind |-> "empty", from |-> NoGen]
Severed     == [kind |-> "severed", from |-> NoGen]
Reply(g)    == [kind |-> "reply", from |-> g]
Frame       == [kind : {"req", "cancel"}, id : Ids]

Registered  == {l \in Labels : conns[l] # NoGen}
Free        == connsLock = None

\* Mutant: with several browsers connected, an unaddressed call picks one.
MutResolveGuesses(w) ==
    IF w # None THEN {w} \cap Registered ELSE Registered

(***************************************************************************)
(* resolve_target: an addressed label must be registered; without one the  *)
(* sole registered label is taken and several are never guessed among.     *)
(***************************************************************************)
ResolveTarget(w) ==
    IF w # None THEN {w} \cap Registered
    ELSE IF Cardinality(Registered) = 1 THEN Registered ELSE {}

ResolveError(w) ==
    CASE Registered = {}               -> "notConnected"
      [] Registered # {} /\ w # None   -> "notFound"
      [] OTHER                         -> "ambiguous"

\* A send on the mpsc channel of a call: recv runs once, so only the first
\* delivery before it counts; a send after it is never read (an ignored error
\* once the receiver is dropped).
Sent(c, d) == IF chan[c] = Empty /\ pc[c] \in {"writing", "waiting"} THEN d ELSE chan[c]

\* sever_pending_*: wake the callers of the entries bound to a generation of G.
Wake(G) ==
    chan' = [c \in Callers |->
                IF reqId[c] \in Ids /\ pending[reqId[c]] \in G
                THEN Sent(c, Severed) ELSE chan[c]]

Init ==
    /\ conns = [l \in Labels |-> NoGen]
    /\ pending = [i \in Ids |-> NoGen]
    /\ connsLock = None
    /\ nextId = 1 /\ nextGen = 1
    /\ labelOf = [g \in Gens |-> None]
    /\ superseded = [g \in Gens |-> NoGen]
    /\ taken = {} /\ shut = {}
    /\ reader = [g \in Gens |-> "none"]
    /\ hand = [g \in Gens |-> None]
    /\ alive = {}
    /\ toHost = [g \in Gens |-> <<>>]
    /\ toServer = [g \in Gens |-> <<>>]
    /\ running = {}
    /\ bogus = 0
    /\ pc = [c \in Callers |-> "idle"]
    /\ want = [c \in Callers |-> None]
    /\ target = [c \in Callers |-> None]
    /\ reqId = [c \in Callers |-> NoId]
    /\ sentOn = [c \in Callers |-> NoGen]
    /\ chan = [c \in Callers |-> Empty]
    /\ outcome = [c \in Callers |-> "none"]

-----------------------------------------------------------------------------
(* The registry and the reader threads.                                    *)

\* The slots a Conn of label l may be inserted into without growing the set
\* of labels past the cap.
HasRoom(l) == l \in Registered \/ Cardinality(Registered) < MaxBrowsers

\* Mutant: the superseded Conn is never dropped (only its writer is).
MutAttachLeaksSuperseded(l) ==
    /\ Free
    /\ nextGen <= MaxGen
    /\ HasRoom(l)
    /\ conns' = [conns EXCEPT ![l] = nextGen]
    /\ labelOf' = [labelOf EXCEPT ![nextGen] = l]
    /\ reader' = [reader EXCEPT ![nextGen] = "spawning"]
    /\ alive' = alive \cup {nextGen}
    /\ nextGen' = nextGen + 1
    /\ UNCHANGED <<pending, connsLock, nextId, superseded, taken, shut, hand, toHost,
                   toServer, running, bogus, callVars, chan>>

\* attach_authenticated: cap check, generation mint and insert under one lock.
AttachBrowser(l) ==
    /\ Free
    /\ nextGen <= MaxGen
    /\ HasRoom(l)
    /\ conns' = [conns EXCEPT ![l] = nextGen]
    /\ labelOf' = [labelOf EXCEPT ![nextGen] = l]
    /\ superseded' = [superseded EXCEPT ![nextGen] = conns[l]]
    /\ taken' = taken \cup ({conns[l]} \ {NoGen})
    /\ reader' = [reader EXCEPT ![nextGen] = "spawning"]
    /\ alive' = alive \cup {nextGen}
    /\ nextGen' = nextGen + 1
    /\ UNCHANGED <<pending, connsLock, nextId, shut, hand, toHost, toServer, running,
                   bogus, callVars, chan>>

\* Drop for Conn: shut the socket down, outside the lock.
DropConn(g) ==
    /\ g \in taken
    /\ taken' = taken \ {g}
    /\ shut' = shut \cup {g}
    /\ UNCHANGED <<conns, pending, connsLock, nextId, nextGen, labelOf, superseded,
                   readerVars, peerVars, toHost, callVars, chan>>

\* The attach thread drops the superseded Conn before it spawns the reader.
SpawnReader(g) ==
    /\ reader[g] = "spawning"
    /\ superseded[g] \notin taken
    /\ superseded' = [superseded EXCEPT ![g] = NoGen]
    /\ reader' = [reader EXCEPT ![g] = "reading"]
    /\ UNCHANGED <<conns, nextGen, labelOf, taken, shut, pending, connsLock, nextId, hand,
                   peerVars, toHost, callVars, chan>>

\* Mutant: replies are correlated by id alone.
MutMayDeliverById(g, i) == i \in Ids /\ pending[i] # NoGen

\* Which generation a reader of g may take a reply for: its own entries only.
MayDeliver(g, i) == i \in Ids /\ pending[i] = g

\* A reply the reader must end its connection for: not parseable as a
\* response, or answering an id another generation owns.
Violates(g, i) == i = Malformed \/ (i \in Ids /\ pending[i] \notin {g, NoGen})

\* One pass of the reader loop up to the release of the pending mutex.
ReadFrame(g) ==
    /\ reader[g] = "reading"
    /\ toServer[g] # <<>>
    /\ LET i == Head(toServer[g]) IN
        /\ IF MayDeliver(g, i)
           THEN /\ pending' = [pending EXCEPT ![i] = NoGen]
                /\ hand' = [hand EXCEPT ![g] = CHOOSE c \in Callers : reqId[c] = i]
                /\ reader' = [reader EXCEPT ![g] = "delivering"]
           ELSE /\ reader' = [reader EXCEPT ![g] = IF Violates(g, i) THEN "ending" ELSE @]
                /\ UNCHANGED <<pending, hand>>
    /\ toServer' = [toServer EXCEPT ![g] = Tail(@)]
    /\ UNCHANGED <<registryVars, connsLock, nextId, alive, toHost, running, bogus,
                   callVars, chan>>

\* tx.send(Delivery::Reply), after the pending mutex is released.
DeliverReply(g) ==
    /\ reader[g] = "delivering"
    /\ chan' = [chan EXCEPT ![hand[g]] = Sent(hand[g], Reply(g))]
    /\ hand' = [hand EXCEPT ![g] = None]
    /\ reader' = [reader EXCEPT ![g] = "reading"]
    /\ UNCHANGED <<registryVars, pending, connsLock, nextId, peerVars, toHost, callVars>>

\* EOF: this process shut the socket (buffered frames may or may not have been
\* read before), or the host exited and its last frame is consumed.
ReadEof(g) ==
    /\ reader[g] = "reading"
    /\ g \in shut \/ (g \notin alive /\ toServer[g] = <<>>)
    /\ reader' = [reader EXCEPT ![g] = "ending"]
    /\ UNCHANGED <<registryVars, pending, connsLock, nextId, hand, peerVars, toHost,
                   callVars, chan>>

\* Mutant: any ending reader clears its label's slot.
MutShouldClearAlways(g) == conns[labelOf[g]] # NoGen

\* should_clear_conn: a reader clears its label's slot only while it owns it.
ShouldClear(g) == conns[labelOf[g]] = g

\* Mutant: the cleanup of a reader that was superseded wakes nobody.
MutCleanupWakesOwnerOnly(g) ==
    /\ reader[g] = "ending"
    /\ Free
    /\ IF ShouldClear(g)
       THEN /\ taken' = taken \cup {conns[labelOf[g]]}
            /\ conns' = [conns EXCEPT ![labelOf[g]] = NoGen]
            /\ Wake({g})
       ELSE UNCHANGED <<conns, taken, chan>>
    /\ reader' = [reader EXCEPT ![g] = "done"]
    /\ toServer' = [toServer EXCEPT ![g] = <<>>]
    /\ UNCHANGED <<pending, connsLock, nextId, nextGen, labelOf, superseded, shut, hand,
                   alive, running, bogus, toHost, callVars>>

\* The reader's cleanup, conns then pending in one critical section.
ReaderCleanup(g) ==
    /\ reader[g] = "ending"
    /\ Free
    /\ IF ShouldClear(g)
       THEN /\ taken' = taken \cup {conns[labelOf[g]]}
            /\ conns' = [conns EXCEPT ![labelOf[g]] = NoGen]
       ELSE UNCHANGED <<conns, taken>>
    /\ Wake({g})
    /\ reader' = [reader EXCEPT ![g] = "done"]
    /\ toServer' = [toServer EXCEPT ![g] = <<>>]
    /\ UNCHANGED <<pending, connsLock, nextId, nextGen, labelOf, superseded, shut, hand,
                   alive, running, bogus, toHost, callVars>>

\* shutdown_all_browsers: empty the registry and wake every caller.
ShutdownAllBrowsers ==
    /\ Free
    /\ taken' = taken \cup {conns[l] : l \in Registered}
    /\ conns' = [l \in Labels |-> NoGen]
    /\ Wake(Gens)
    /\ UNCHANGED <<pending, connsLock, nextId, nextGen, labelOf, superseded, shut,
                   readerVars, peerVars, toHost, callVars>>

-----------------------------------------------------------------------------
(* The far end of a connection.                                            *)

\* The native host exits (port closed, or EOF on a socket we shut down).
HostExit(g) ==
    /\ g \in alive
    /\ alive' = alive \ {g}
    /\ toHost' = [toHost EXCEPT ![g] = <<>>]
    /\ UNCHANGED <<registryVars, pending, connsLock, nextId, readerVars, toServer, running,
                   bogus, callVars, chan>>

\* The host pumps one frame to the worker: a request starts an op, a cancel
\* aborts the op with that id, whichever connection it came on.
HostForward(g) ==
    /\ g \in alive
    /\ toHost[g] # <<>>
    /\ LET f == Head(toHost[g]) IN
        running' = IF f.kind = "req"
                   THEN running \cup {<<f.id, g>>}
                   ELSE {r \in running : ~(r[1] = f.id /\ labelOf[r[2]] = labelOf[g])}
    /\ toHost' = [toHost EXCEPT ![g] = Tail(@)]
    /\ UNCHANGED <<registryVars, pending, connsLock, nextId, readerVars, alive, toServer,
                   bogus, callVars, chan>>

\* An op ends; its reply rides the connection the request came on, or is
\* dropped when that connection is gone.
WorkerFinish(i, g) ==
    /\ <<i, g>> \in running
    /\ running' = running \ {<<i, g>>}
    /\ toServer' = [toServer EXCEPT ![g] = IF g \in alive \ shut THEN Append(@, i) ELSE @]
    /\ UNCHANGED <<registryVars, pending, connsLock, nextId, readerVars, alive, toHost,
                   bogus, callVars, chan>>

\* A broken extension sends a frame it was never asked for.
BogusFrame(g, i) ==
    /\ bogus < MaxBogus
    /\ g \in alive \ shut
    /\ bogus' = bogus + 1
    /\ toServer' = [toServer EXCEPT ![g] = Append(@, i)]
    /\ UNCHANGED <<registryVars, pending, connsLock, nextId, readerVars, alive, toHost,
                   running, callVars, chan>>

-----------------------------------------------------------------------------
(* A tool call: Session::call, Session::send, InFlight::wait and its Drop. *)

\* call: the wait for a first browser (CONNECT_WAIT, on an empty registry only)
\* just delays the send, so any number of steps may come between the two.
Call(c, w) ==
    /\ pc[c] = "idle"
    /\ want' = [want EXCEPT ![c] = w]
    /\ pc' = [pc EXCEPT ![c] = "ready"]
    /\ UNCHANGED <<registryVars, pending, connsLock, nextId, readerVars, peerVars, toHost,
                   target, reqId, sentOn, chan, outcome>>

\* The call returns and its locals are gone; the request id is remembered only
\* to say what became of it.
Return(c, how) ==
    /\ pc' = [pc EXCEPT ![c] = "done"]
    /\ outcome' = [outcome EXCEPT ![c] = how]
    /\ want' = [want EXCEPT ![c] = None]
    /\ target' = [target EXCEPT ![c] = None]
    /\ sentOn' = [sentOn EXCEPT ![c] = NoGen]
    /\ chan' = [chan EXCEPT ![c] = Empty]

\* send, routing half: a routing error ends the call before anything reaches a
\* browser, and so does a deadline that passed by the time both locks are held.
SendRefused(c) ==
    /\ Free
    /\ pc[c] = "ready"
    /\ nextId <= MaxId
    /\ nextId' = nextId + 1
    /\ Return(c, IF ResolveTarget(want[c]) = {} THEN ResolveError(want[c]) ELSE "timeout")
    /\ UNCHANGED <<registryVars, pending, connsLock, readerVars, peerVars, toHost, reqId>>

\* send, routing half: bind the request to the connection, keep the lock.
SendInsert(c) ==
    /\ Free
    /\ pc[c] = "ready"
    /\ nextId <= MaxId
    /\ \E l \in ResolveTarget(want[c]) :
        /\ target' = [target EXCEPT ![c] = l]
        /\ sentOn' = [sentOn EXCEPT ![c] = conns[l]]
        /\ pending' = [pending EXCEPT ![nextId] = conns[l]]
    /\ reqId' = [reqId EXCEPT ![c] = nextId]
    /\ nextId' = nextId + 1
    /\ connsLock' = c
    /\ pc' = [pc EXCEPT ![c] = "writing"]
    /\ UNCHANGED <<registryVars, readerVars, peerVars, toHost, want, chan, outcome>>

\* send, socket half: the frame fits in the socket buffer ...
SendWrite(c) ==
    /\ pc[c] = "writing"
    /\ sentOn[c] \in alive
    /\ Len(toHost[sentOn[c]]) < BufCap
    /\ toHost' = [toHost EXCEPT ![sentOn[c]] = Append(@, [kind |-> "req", id |-> reqId[c]])]
    /\ connsLock' = None
    /\ pc' = [pc EXCEPT ![c] = "waiting"]
    /\ want' = [want EXCEPT ![c] = None]
    /\ UNCHANGED <<registryVars, pending, nextId, readerVars, peerVars, target, reqId,
                   sentOn, chan, outcome>>

\* ... or the host is gone: nothing reached the extension, the entry goes.
SendWriteFails(c) ==
    /\ pc[c] = "writing"
    /\ sentOn[c] \notin alive
    /\ pending' = [pending EXCEPT ![reqId[c]] = NoGen]
    /\ connsLock' = None
    /\ Return(c, "write")
    /\ UNCHANGED <<registryVars, nextId, readerVars, peerVars, toHost, reqId>>

\* Mutant: a call whose connection ended is sent again.
MutWaitResends(c) ==
    /\ pc[c] = "waiting"
    /\ IF chan[c].kind = "severed"
       THEN /\ pc' = [pc EXCEPT ![c] = "ready"]
            /\ sentOn' = [sentOn EXCEPT ![c] = NoGen]
            /\ target' = [target EXCEPT ![c] = None]
            /\ pending' = [pending EXCEPT ![reqId[c]] = NoGen]
            /\ UNCHANGED outcome
       ELSE /\ pc' = [pc EXCEPT ![c] = "dropping"]
            /\ outcome' = [outcome EXCEPT ![c] = IF chan[c].kind = "reply" THEN "reply" ELSE "timeout"]
            /\ UNCHANGED <<sentOn, target, pending>>
    /\ chan' = [chan EXCEPT ![c] = Empty]
    /\ UNCHANGED <<registryVars, connsLock, nextId, readerVars, peerVars, toHost, want, reqId>>

\* wait: the first delivery, or the deadline, which may pass at any time.
WaitEnds(c) ==
    /\ pc[c] = "waiting"
    /\ outcome' = [outcome EXCEPT ![c] = CASE chan[c].kind = "reply"   -> "reply"
                                           [] chan[c].kind = "severed" -> "disconnected"
                                           [] OTHER                    -> "timeout"]
    /\ pc' = [pc EXCEPT ![c] = "dropping"]
    /\ chan' = [chan EXCEPT ![c] = Empty]
    /\ UNCHANGED <<registryVars, pending, connsLock, nextId, readerVars, peerVars, toHost,
                   want, target, reqId, sentOn>>

\* Drop for InFlight: whether the reply came is what the pending entry says.
StillPending(c) == pending[reqId[c]] # NoGen

\* The cancel goes to whatever connection holds the label now; a label nobody
\* holds has nothing to write to.
DropGuard(c) ==
    /\ Free
    /\ pc[c] = "dropping"
    /\ pending' = [pending EXCEPT ![reqId[c]] = NoGen]
    /\ IF StillPending(c) /\ conns[target[c]] # NoGen
       THEN /\ pc' = [pc EXCEPT ![c] = "cancelling"]
            /\ connsLock' = c
            /\ UNCHANGED <<want, target, sentOn, chan, outcome>>
       ELSE Return(c, outcome[c]) /\ UNCHANGED connsLock
    /\ UNCHANGED <<registryVars, nextId, readerVars, peerVars, toHost, reqId>>

\* Mutant: a failed cancel is retried until the host is back.
MutCancelRetries(c) ==
    /\ pc[c] = "cancelling"
    /\ LET g == conns[target[c]] IN
        /\ g \in alive
        /\ Len(toHost[g]) < BufCap
        /\ toHost' = [toHost EXCEPT ![g] = Append(@, [kind |-> "cancel", id |-> reqId[c]])]
    /\ connsLock' = None
    /\ Return(c, outcome[c])
    /\ UNCHANGED <<registryVars, pending, nextId, readerVars, peerVars, reqId>>

\* Still under the lock: the write goes through, or fails with the host gone.
CancelWrite(c) ==
    /\ pc[c] = "cancelling"
    /\ LET g == conns[target[c]] IN
        IF g \in alive
        THEN /\ Len(toHost[g]) < BufCap
             /\ toHost' = [toHost EXCEPT ![g] = Append(@, [kind |-> "cancel", id |-> reqId[c]])]
        ELSE UNCHANGED toHost
    /\ connsLock' = None
    /\ Return(c, outcome[c])
    /\ UNCHANGED <<registryVars, pending, nextId, readerVars, peerVars, reqId>>

-----------------------------------------------------------------------------
OngoingCall(c) ==
    \/ SendRefused(c) \/ SendInsert(c) \/ SendWrite(c) \/ SendWriteFails(c)
    \/ WaitEnds(c) \/ DropGuard(c) \/ CancelWrite(c)

ReaderStep(g) ==
    \/ DropConn(g) \/ SpawnReader(g)
    \/ ReadFrame(g) \/ DeliverReply(g) \/ ReadEof(g) \/ ReaderCleanup(g)

PeerStep(g) ==
    \/ HostExit(g) \/ HostForward(g)
    \/ \E i \in Ids : WorkerFinish(i, g)
    \/ \E i \in Ids \cup {Malformed} : BogusFrame(g, i)

Next ==
    \/ \E l \in Labels : AttachBrowser(l)
    \/ ShutdownAllBrowsers
    \/ \E g \in Gens : ReaderStep(g) \/ PeerStep(g)
    \/ \E c \in Callers : OngoingCall(c) \/ \E w \in Labels \cup {None} : Call(c, w)

Spec == Init /\ [][Next]_vars

-----------------------------------------------------------------------------
(* Fairness.  Every thread of the server runs: the scheduler is the         *)
(* operating system's, and a mutex is held for one write at most.           *)
(* HostsRead is about other processes: no write of the server has a timeout. *)
ServerFairness ==
    /\ \A g \in Gens : WF_vars(ReaderStep(g))
    /\ \A c \in Callers :
        /\ WF_vars(SendRefused(c) \/ SendInsert(c))
        /\ WF_vars(SendWrite(c) \/ SendWriteFails(c))
        /\ WF_vars(WaitEnds(c)) /\ WF_vars(DropGuard(c)) /\ WF_vars(CancelWrite(c))

HostsRead == \A g \in Gens : WF_vars(HostForward(g))

-----------------------------------------------------------------------------
(* Properties.                                                             *)

RegistryType ==
    /\ conns \in [Labels -> Gens \cup {NoGen}]
    /\ nextGen \in 1..(MaxGen + 1)
    /\ labelOf \in [Gens -> Labels \cup {None}]
    /\ superseded \in [Gens -> Gens \cup {NoGen}]
    /\ taken \in SUBSET Gens /\ shut \in SUBSET Gens

ReaderType ==
    /\ reader \in [Gens -> ReaderPhase]
    /\ hand \in [Gens -> Callers \cup {None}]

WireType ==
    /\ alive \in SUBSET Gens
    /\ toHost \in [Gens -> Seq(Frame)]
    /\ toServer \in [Gens -> Seq(Ids \cup {Malformed})]
    /\ running \in SUBSET (Ids \X Gens)
    /\ bogus \in 0..MaxBogus

CallType ==
    /\ pending \in [Ids -> Gens \cup {NoGen}]
    /\ connsLock \in Callers \cup {None}
    /\ nextId \in 1..(MaxId + 1)
    /\ pc \in [Callers -> CallPhase]
    /\ want \in [Callers -> Labels \cup {None}]
    /\ target \in [Callers -> Labels \cup {None}]
    /\ reqId \in [Callers -> Ids \cup {NoId}]
    /\ sentOn \in [Callers -> Gens \cup {NoGen}]
    /\ chan \in [Callers -> Delivery]
    /\ outcome \in [Callers -> Outcome]

\* Every variable keeps its type; ids and generations stay below their counters.
TypeOK == RegistryType /\ ReaderType /\ WireType /\ CallType

\* A reply a caller receives was read from the very connection its request was
\* written on, whatever ids a broken extension in another browser echoes
\* (the reader's generation check on the pending entry).
ReplyIsolation ==
    \A c \in Callers : chan[c].kind = "reply" => chan[c].from = sentOn[c]

\* A caller that waits with nothing delivered still has someone to wake it: the
\* reader of its connection has not cleaned up yet and its entry is there for
\* that cleanup, or a reader already holds its reply (send holds the registry
\* lock from the routing decision on; cleanup empties the slot and wakes under it).
NoStrandedCaller ==
    \A c \in Callers :
        pc[c] = "waiting" /\ chan[c] = Empty =>
            \/ pending[reqId[c]] = sentOn[c] /\ reader[sentOn[c]] # "done"
            \/ \E g \in Gens : reader[g] = "delivering" /\ hand[g] = c

\* Every connection whose socket is still open is registered under its label or
\* is in the hands of the thread about to drop it: no removed connection stays
\* open (the Conn type's Drop).
NoOrphanSocket ==
    \A g \in Gens : g < nextGen /\ g \notin shut =>
        conns[labelOf[g]] = g \/ g \in taken

\* While a sender writes, the connection it chose still holds the label, and a
\* call that named no browser was not a guess among several.
RouteStable ==
    \A c \in Callers : pc[c] = "writing" =>
        /\ conns[target[c]] = sentOn[c]
        /\ want[c] = None => Registered = {target[c]}

\* The pending table holds exactly the requests some guard still owns, bound to
\* the generation they were written on: no entry leaks past its caller's end.
PendingOwned ==
    \A i \in Ids : pending[i] # NoGen =>
        \E c \in Callers :
            /\ reqId[c] = i /\ sentOn[c] = pending[i]
            /\ pc[c] \in {"writing", "waiting", "dropping"}

\* Concurrent attaches under new labels never pass the cap together.
BrowserCap == Cardinality(Registered) <= MaxBrowsers

\* A reader's cleanup empties a registry slot only when the connection in it is
\* its own: a superseded reader never takes a healthy newer connection with it
\* (the sweep, which empties every slot, is no reader's step).
SlotClearedByOwner ==
    [][\A l \in Labels : conns[l] # NoGen /\ conns'[l] = NoGen =>
            reader[conns[l]] = "ending" \/ reader' = reader]_vars

\* A call as its caller's side of the wire shows it: out of the caller's hands, on the wire of
\* which connections, running behind which.
Req(i)  == [kind |-> "req", id |-> i]
OnWire(g, i) == \E n \in 1 .. Len(toHost[g]) : toHost[g][n] = Req(i)
Gone    == [c \in Callers |-> pc[c] \notin {"idle", "ready", "writing"}]
Queued  == [c \in Callers |-> {g \in Gens : OnWire(g, reqId[c])}]
Ongoing == [c \in Callers |-> {g \in Gens : <<reqId[c], g>> \in running}]

\* Whatever the readers, hosts and other callers do meanwhile, a call is what ToolCall promises: put
\* on a wire once or refused without a trace, run at most once and only behind the connection it
\* was routed to, and answered once, by that connection, its end or the deadline (send, InFlight).
Promised == INSTANCE ToolCall WITH Conns <- Gens, NoConn <- NoGen, gone <- Gone, route <- sentOn,
                                   queued <- Queued, ongoing <- Ongoing, mail <- chan,
                                   result <- outcome
PromiseKept == Promised!CallSpec

\* Every call ends, provided the hosts keep reading their sockets.
CallEnds == \A c \in Callers : (pc[c] # "idle") ~> (pc[c] = "done")
=============================================================================
