------------------------------ MODULE Broker ------------------------------
(***************************************************************************)
(* The broker process (packages/core/src/broker.rs): one MCP server that   *)
(* owns the bridge socket, serves its own stdio harness and the relays of  *)
(* other harnesses, and exits when the last of them is gone.               *)
(*                                                                         *)
(* Each relay connection has a worker thread; the threads share the        *)
(* harness ref-count and its terminal latch, the registry the revocation   *)
(* watcher sweeps, and the trust record on disk, which any other process   *)
(* of the user may rewrite between any two steps.                          *)
(***************************************************************************)
EXTENDS Naturals, FiniteSets

CONSTANTS
    Relays,      \* harnesses that attach through a relay
    Own,         \* the harness that spawned the broker, on its stdio
    Names,       \* the labels clients are paired under
    Anchors,     \* what a ClientEntry pins: an executable hash or a signer
    Matches,     \* pairs <<anchor, harness>>: anchor_matches on the measured
                 \* identity; a harness without an identity matches nothing
    MaxClients,  \* MAX_HARNESS_CLIENTS
    MaxPending   \* MAX_PENDING_ATTACH

ASSUME BrokerAssumption ==
    /\ IsFiniteSet(Relays)
    /\ Own \notin Relays
    /\ Matches \subseteq Anchors \X (Relays \cup {Own})
    /\ MaxClients \in Nat \ {0}
    /\ MaxPending \in Nat

Clients == Relays \cup {Own}

VARIABLES
    record,    \* the trust record's clients: NeverPaired, Paired, or unreadable
    live,      \* CountState.live
    terminal,  \* CountState.terminal
    registry,  \* relays with a slot in the ClientRegistry
    shut,      \* relays whose socket the sweep shut down
    posture,   \* the posture each client was admitted with
    pc,        \* the phase of each relay connection's worker
    own,       \* the phase of the main thread
    watcher    \* the record the watcher read and has not acted on yet

countVars == <<live, terminal>>
vars == <<record, live, terminal, registry, shut, posture, pc, own, watcher>>

Phase == {"away",         \* not connected
          "handshake",    \* accepted; peer checks, handshake, attach frame
          "admitted",     \* decided on a read of the record
          "registered",   \* has its registry slot
          "unwinding",    \* no ref-count slot to be had
          "accepting",    \* has both; the Accepted reply is being written
          "aborting",     \* that write failed
          "serving", "dispatching",
          "leaving",      \* the serve loop ended; the admission drops
          "releasing"}    \* deregistered; the ref-count slot drops
OwnPhase == {"serving", "dispatching", "dropping", "checking", "asleep",
             "latched", "gone"}
Postures == {"none", "unenrolled", "trusted"}

\* A ClientEntry: the name is a label, the anchor is what admission keys on.
Entries == [name : Names, anchor : Anchors]

Records == [kind : {"neverPaired", "unreadable"}, list : {{}}]
             \cup [kind : {"paired"}, list : SUBSET Entries]
Asleep  == [kind |-> "asleep", list |-> {}]     \* the watcher between two ticks

\* PendingSlot: the connections in the handshake/attach phase.
PendingAttach ==
    {c \in Relays : pc[c] \in {"handshake", "admitted", "registered", "unwinding",
                               "accepting", "aborting"}}

\* The outstanding HarnessSlots.
Holders ==
    {c \in Relays : pc[c] \in {"accepting", "aborting", "serving", "dispatching",
                               "leaving", "releasing"}}
      \cup (IF own \in {"serving", "dispatching", "dropping"} THEN {Own} ELSE {})

Served(c) == pc[c] \in {"serving", "dispatching"}
Running   == own # "gone"

-----------------------------------------------------------------------------
(* Admission.                                                              *)

\* TrustState::decide, over a record that could be read.
Decide(r, c) ==
    CASE r.kind = "neverPaired"                      -> "unenrolled"
      [] \E e \in r.list : <<e.anchor, c>> \in Matches -> "trusted"
      [] OTHER                                       -> "refused"

\* refusal, and the fail-closed read before it: a connection is never served
\* under a weaker posture than it was admitted with.
Refuses(r, c, p) ==
    \/ r.kind = "unreadable"
    \/ Decide(r, c) = "refused"
    \/ p = "trusted" /\ Decide(r, c) = "unenrolled"

-----------------------------------------------------------------------------
Init ==
    /\ record \in Records
    /\ record.kind # "unreadable" /\ Decide(record, Own) # "refused"
    /\ live = 1 /\ terminal = FALSE
    /\ registry = {} /\ shut = {}
    /\ posture = [c \in Clients |-> IF c = Own THEN Decide(record, Own) ELSE "none"]
    /\ pc = [c \in Relays |-> "away"]
    /\ own = "serving"
    /\ watcher = Asleep

-----------------------------------------------------------------------------
(* The clients in the record, as the other processes of the user edit them *)
(* (the CLI, a browser's native host).                                     *)

\* Trust::pair: a same-named entry is replaced, with whatever anchor it had.
Paired(r, e) == [kind |-> "paired", list |-> {x \in r.list : x.name # e.name} \cup {e}]

\* Trust::revoke: the list stays paired when it empties, and then admits nobody.
Revoked(r, n) == [r EXCEPT !.list = {x \in @ : x.name # n}]

\* Trust::forget_pairings: a record that was never paired stays so.
Forgotten(r) == [r EXCEPT !.list = {}]

\* mutate_locked: a record that does not read is not written over.
Rewrite(r) ==
    /\ record.kind # "unreadable"
    /\ record' = r
    /\ UNCHANGED <<countVars, registry, shut, posture, pc, own, watcher>>

\* pair_client_with_presence: a refused presence gate writes nothing.
PairClient(e) == Rewrite(Paired(record, e))

\* allowlist::revoke: written only when the named client is there.
RevokeClient(n) == (\E x \in record.list : x.name = n) /\ Rewrite(Revoked(record, n))

\* revoke --all.
ForgetPairings == Rewrite(Forgotten(record))

\* The file is deleted or damaged by hand.
LoseRecord(kind) ==
    /\ record' = [kind |-> kind, list |-> {}]
    /\ UNCHANGED <<countVars, registry, shut, posture, pc, own, watcher>>

-----------------------------------------------------------------------------
(* A relay connection.                                                     *)

Step(c, from, to) == Running /\ pc[c] = from /\ pc' = [pc EXCEPT ![c] = to]

\* accept_loop: over the bound, the connection is dropped at once.
Accept(c) ==
    /\ Cardinality(PendingAttach) < MaxPending
    /\ Step(c, "away", "handshake")
    /\ UNCHANGED <<record, countVars, registry, shut, posture, own, watcher>>

\* admit: uid, attestation, handshake or attach frame fails or times out.
HandshakeFails(c) ==
    /\ Step(c, "handshake", "away")
    /\ UNCHANGED <<record, countVars, registry, shut, posture, own, watcher>>

\* admit_client: one read of the record decides.
DecideRelay(c) ==
    /\ IF record.kind # "unreadable" /\ Decide(record, c) # "refused"
       THEN /\ Step(c, "handshake", "admitted")
            /\ posture' = [posture EXCEPT ![c] = Decide(record, c)]
       ELSE Step(c, "handshake", "away") /\ UNCHANGED posture
    /\ UNCHANGED <<record, countVars, registry, shut, own, watcher>>

Register(c) ==
    /\ Step(c, "admitted", "registered")
    /\ registry' = registry \cup {c}
    /\ UNCHANGED <<record, countVars, shut, posture, own, watcher>>

\* Mutant: only the capacity is checked, not the shutdown latch.
MutCanAcquireIgnoresLatch == live < MaxClients

\* Mutant: the capacity compared with <= in place of <.
MutCanAcquireOffByOne == ~terminal /\ live <= MaxClients

\* try_acquire: refused at capacity and once the broker committed to exit.
CanAcquire == ~terminal /\ live < MaxClients

Acquire(c) ==
    /\ IF CanAcquire
       THEN Step(c, "registered", "accepting") /\ live' = live + 1
       ELSE Step(c, "registered", "unwinding") /\ UNCHANGED live
    /\ UNCHANGED <<record, terminal, registry, shut, posture, own, watcher>>

\* The connection's state is gone with its worker.
Forget(c) ==
    /\ shut' = shut \ {c}
    /\ posture' = [posture EXCEPT ![c] = "none"]

\* The relay is told Unavailable, its registry slot drops, and it dials again.
Unwind(c) ==
    /\ Step(c, "unwinding", "away")
    /\ registry' = registry \ {c}
    /\ Forget(c)
    /\ UNCHANGED <<record, countVars, own, watcher>>

AcceptRelay(c) ==
    /\ Step(c, "accepting", "serving") \/ Step(c, "accepting", "aborting")
    /\ UNCHANGED <<record, countVars, registry, shut, posture, own, watcher>>

\* serve_jsonrpc: a request passes the gate on a fresh read of the record, or
\* the loop ends (gate, rate limit).
Request(c) ==
    /\ IF Refuses(record, c, posture[c])
       THEN Step(c, "serving", "leaving")
       ELSE Step(c, "serving", "dispatching") \/ Step(c, "serving", "leaving")
    /\ UNCHANGED <<record, countVars, registry, shut, posture, own, watcher>>

Answer(c) ==
    /\ Step(c, "dispatching", "serving")
    /\ UNCHANGED <<record, countVars, registry, shut, posture, own, watcher>>

\* EOF: the relay process ended, or the sweep shut the socket down.
RelayEof(c) ==
    /\ Step(c, "serving", "leaving")
    /\ UNCHANGED <<record, countVars, registry, shut, posture, own, watcher>>

\* RelayAdmission drops in field order: the registry slot first ...
Deregister(c) ==
    /\ Step(c, "leaving", "releasing") \/ Step(c, "aborting", "releasing")
    /\ registry' = registry \ {c}
    /\ UNCHANGED <<record, countVars, shut, posture, own, watcher>>

\* Mutant: reaching zero wakes nobody.
MutNotifyNever(n) == own

\* decr: saturating, and at zero the waiter is notified.
NotifyAtZero(n) == IF n = 0 /\ own = "asleep" THEN "checking" ELSE own

\* Mutant: the ref-count slot of a relay is released with its registry slot
\* still held.
MutDecrKeepsRegistry(c) ==
    /\ Step(c, "leaving", "away") \/ Step(c, "releasing", "away")
    /\ live' = IF live > 0 THEN live - 1 ELSE 0
    /\ own' = NotifyAtZero(live')
    /\ Forget(c)
    /\ UNCHANGED <<record, terminal, registry, watcher>>

\* ... then the ref-count slot.
Decr(c) ==
    /\ Step(c, "releasing", "away")
    /\ live' = IF live > 0 THEN live - 1 ELSE 0
    /\ own' = NotifyAtZero(live')
    /\ Forget(c)
    /\ UNCHANGED <<record, terminal, registry, watcher>>

-----------------------------------------------------------------------------
(* The main thread: the own harness, then the wait for the last relay.     *)

OwnStep(from, to) == own = from /\ own' = to

\* The own harness passes the same gate; EOF or a refusal ends its loop.
OwnRequest ==
    /\ \/ OwnStep("serving", "dispatching") /\ ~Refuses(record, Own, posture[Own])
       \/ OwnStep("serving", "dropping")
       \/ OwnStep("dispatching", "serving")
    /\ UNCHANGED <<record, countVars, registry, shut, posture, pc, watcher>>

DropOwnSlot ==
    /\ OwnStep("dropping", "checking")
    /\ live' = IF live > 0 THEN live - 1 ELSE 0
    /\ UNCHANGED <<record, terminal, registry, shut, posture, pc, watcher>>

\* wait_zero, with the state mutex held: latch at zero, else wait.
WaitZero ==
    /\ IF live = 0
       THEN OwnStep("checking", "latched") /\ terminal' = TRUE
       ELSE OwnStep("checking", "asleep") /\ UNCHANGED terminal
    /\ UNCHANGED <<record, live, registry, shut, posture, pc, watcher>>

\* The process exits; its threads and sockets go with it.
Exit ==
    /\ OwnStep("latched", "gone")
    /\ live' = 0 /\ terminal' = FALSE
    /\ registry' = {} /\ shut' = {}
    /\ posture' = [c \in Clients |-> "none"]
    /\ pc' = [c \in Relays |-> "away"]
    /\ watcher' = Asleep
    /\ UNCHANGED record

\* mcp_server::run: the next instance admits its own harness and becomes the
\* broker.
StartBroker ==
    /\ OwnStep("gone", "serving")
    /\ record.kind # "unreadable" /\ Decide(record, Own) # "refused"
    /\ posture' = [posture EXCEPT ![Own] = Decide(record, Own)]
    /\ live' = 1
    /\ UNCHANGED <<record, terminal, registry, shut, pc, watcher>>

-----------------------------------------------------------------------------
(* The watcher thread.                                                     *)

WatchRead ==
    /\ Running /\ watcher = Asleep
    /\ watcher' = record
    /\ UNCHANGED <<record, countVars, registry, shut, posture, pc, own>>

\* Mutant: a tick that cannot read the record leaves the relays alone.
MutSweepFailsOpen ==
    /\ Running /\ watcher # Asleep
    /\ shut' = shut \cup {c \in registry : watcher.kind # "unreadable"
                                           /\ Refuses(watcher, c, posture[c])}
    /\ watcher' = Asleep
    /\ UNCHANGED <<record, countVars, registry, posture, pc, own>>

\* watch_tick: re-decide every registered relay on the record as it was read;
\* the sweep shuts sockets down and removes nothing.
WatchSweep ==
    /\ Running /\ watcher # Asleep
    /\ shut' = shut \cup {c \in registry : Refuses(watcher, c, posture[c])}
    /\ watcher' = Asleep
    /\ UNCHANGED <<record, countVars, registry, posture, pc, own>>

-----------------------------------------------------------------------------
RelayStep(c) ==
    \/ Accept(c) \/ HandshakeFails(c) \/ DecideRelay(c) \/ Register(c) \/ Acquire(c)
    \/ Unwind(c) \/ AcceptRelay(c) \/ Request(c) \/ Answer(c) \/ RelayEof(c)
    \/ Deregister(c) \/ Decr(c)

EditClients ==
    \/ \E e \in Entries : PairClient(e)
    \/ \E n \in Names : RevokeClient(n)
    \/ ForgetPairings

Next ==
    \/ EditClients
    \/ \E kind \in {"neverPaired", "unreadable"} : LoseRecord(kind)
    \/ \E c \in Relays : RelayStep(c)
    \/ OwnRequest \/ DropOwnSlot \/ WaitZero \/ Exit \/ StartBroker
    \/ WatchRead \/ WatchSweep

Spec == Init /\ [][Next]_vars

\* Threads run; a relay's EOF is certain only once its socket is shut down, and
\* nobody is obliged to connect, to send a request or to leave.
Fairness ==
    /\ \A c \in Relays :
        /\ WF_vars(HandshakeFails(c) \/ DecideRelay(c)) /\ WF_vars(Register(c))
        /\ WF_vars(Acquire(c)) /\ WF_vars(Unwind(c)) /\ WF_vars(AcceptRelay(c))
        /\ WF_vars(Answer(c)) /\ WF_vars(c \in shut /\ RelayEof(c))
        /\ WF_vars(Deregister(c)) /\ WF_vars(Decr(c))
    /\ WF_vars(DropOwnSlot) /\ WF_vars(WaitZero) /\ WF_vars(Exit)
    /\ WF_vars(WatchRead) /\ WF_vars(WatchSweep)

FairSpec == Spec /\ Fairness

-----------------------------------------------------------------------------
(* Properties.                                                             *)

\* Every variable keeps its type; no client is ever given the posture "refused".
TypeOK ==
    /\ record \in Records
    /\ live \in Nat /\ terminal \in BOOLEAN
    /\ registry \in SUBSET Relays /\ shut \in SUBSET Relays
    /\ posture \in [Clients -> Postures]
    /\ pc \in [Relays -> Phase]
    /\ own \in OwnPhase
    /\ watcher \in Records \cup {Asleep}

\* The ref-count is the number of outstanding harness slots, whatever order
\* relays attach, fail and leave in, and stays within its cap.
RefCountExact == live = Cardinality(Holders) /\ live <= MaxClients

\* Once the broker has committed to exit nobody holds a slot, so nobody is
\* served by a process about to tear its socket down.
NoneAfterLatch == terminal => Holders = {}

\* The registry holds every relay that is being served, so a revocation reaches
\* it, and no slot of a connection that is over: what is left once the broker
\* latched belongs to admissions that cannot get a ref-count slot any more.
RegistryExact ==
    /\ \A c \in Relays : Served(c) => c \in registry
    /\ registry \subseteq PendingAttach \cup Holders

\* A relay the record has stopped admitting, or admits under a weaker posture
\* only, is not served for ever: it stops being served, or the record changes
\* its mind.  No request from the relay is needed for that.
RevocationReaches ==
    \A c \in Relays :
        (Served(c) /\ Refuses(record, c, posture[c]))
            ~> (~Served(c) \/ ~Refuses(record, c, posture[c]))

\* With its own harness gone and no client left, the broker exits, unless
\* another relay gets in first: no wakeup is lost between decr and wait_zero.
BrokerExits ==
    (own \in {"checking", "asleep"} /\ live = 0) ~> (own = "gone" \/ live # 0)
=============================================================================
