---------------------------- MODULE KillSwitch ----------------------------
(***************************************************************************)
(* The kill switch over the session: the latch in the trust record         *)
(* (kill.rs, trust.rs), the three places of the server process that read   *)
(* it (the tool-call gate of mcp/handler.rs, admit_browser and watch_tick  *)
(* of broker.rs), and the session those act on.                            *)
(*                                                                         *)
(* Each of the three reads the record at one moment and acts on what it    *)
(* read at a later one, with no lock held across: a call that passed the   *)
(* gate may wait for a browser, a browser that passed the check attaches   *)
(* after its Accepted frame is written, the watcher sweeps after its read. *)
(***************************************************************************)
EXTENDS Session

CONSTANT MaxFlips     \* bound on changes of the record

ASSUME KillAssumption == MaxFlips \in Nat

VARIABLES
    record,     \* the kill state the record reads as: off, killed, unreadable
    flips,      \* changes of the record so far
    watcher,    \* the watcher thread: sleeping, or about to sweep the browsers
    admitting,  \* labels past admit_browser's check and not yet attached
    settled     \* history: a sweep ran since the record last read off, with
                \* no admission in flight

killVars == <<record, flips, watcher, admitting, settled>>
allVars  == <<vars, killVars>>

KillInit ==
    /\ Init
    /\ record \in {"off", "killed"}
    /\ flips = 0
    /\ watcher = "sleeping"
    /\ admitting = {}
    /\ settled = FALSE

-----------------------------------------------------------------------------
(* The record.                                                             *)

\* verdict: the switch is off only when the record is readable and says so.
Verdict(r) == r = "off"

SetRecord(r) ==
    /\ flips < MaxFlips
    /\ flips' = flips + 1
    /\ record' = r
    /\ settled' = (settled /\ r # "off")
    /\ UNCHANGED <<vars, watcher, admitting>>

\* set_killed: mutate_locked reads the record first, so neither direction
\* works from an unreadable one.  Nothing else in the program clears the latch.
Engage  == record # "unreadable" /\ SetRecord("killed")
Release == record = "killed" /\ SetRecord("off")

\* The file is damaged, and restored by hand as the recovery docs describe.
Damage  == record # "unreadable" /\ SetRecord("unreadable")
Restore == record = "unreadable" /\ SetRecord("off")

-----------------------------------------------------------------------------
(* The readers of the record.                                              *)

\* execute_tool_call: the gate, then the session call.
GatedCall(c, w) ==
    /\ Verdict(record)
    /\ Call(c, w)
    /\ UNCHANGED killVars

GateRefuses(c) ==
    /\ ~Verdict(record)
    /\ pc[c] = "idle"
    /\ Return(c, "killed")
    /\ UNCHANGED <<registryVars, pending, connsLock, nextId, readerVars, peerVars, toHost,
                   reqId, killVars>>

\* Mutant: the browser leg refuses an engaged switch and lets an unreadable
\* record pass.
MutAdmitUnreadable(l) ==
    /\ record # "killed"
    /\ l \notin admitting
    /\ nextGen + Cardinality(admitting) <= MaxGen
    /\ admitting' = admitting \cup {l}
    /\ UNCHANGED <<vars, record, flips, watcher, settled>>

\* admit_browser: check the switch, answer Accepted; the attach comes later.
AdmitBrowser(l) ==
    /\ Verdict(record)
    /\ l \notin admitting
    /\ nextGen + Cardinality(admitting) <= MaxGen
    /\ admitting' = admitting \cup {l}
    /\ UNCHANGED <<vars, record, flips, watcher, settled>>

\* The admission worker of accept_loop: attach, or drop the peer at the cap.
AttachAdmitted(l) ==
    /\ l \in admitting
    /\ admitting' = admitting \ {l}
    /\ AttachBrowser(l) \/ (Free /\ ~HasRoom(l) /\ UNCHANGED vars)
    /\ UNCHANGED <<record, flips, watcher, settled>>

\* Mutant: an unreadable record ends the tick without touching the browsers.
MutWatchReadFailsOpen ==
    /\ watcher = "sleeping"
    /\ record = "killed"
    /\ watcher' = "sweeping"
    /\ UNCHANGED <<vars, record, flips, admitting, settled>>

\* watch_tick: the read of the record ...
WatchRead ==
    /\ watcher = "sleeping"
    /\ ~Verdict(record)
    /\ watcher' = "sweeping"
    /\ UNCHANGED <<vars, record, flips, admitting, settled>>

\* (With the record readable and off, the tick leaves the browsers alone.)
WatchReadsOff ==
    /\ watcher = "sleeping"
    /\ Verdict(record)
    /\ UNCHANGED allVars

\* ... and the sweep of the browsers, which needs the registry lock.
WatchSweep ==
    /\ watcher = "sweeping"
    /\ ShutdownAllBrowsers
    /\ watcher' = "sleeping"
    /\ settled' = (settled \/ (~Verdict(record) /\ admitting = {}))
    /\ UNCHANGED <<record, flips, admitting>>

-----------------------------------------------------------------------------
SessionStep ==
    /\ \/ \E g \in Gens : ReaderStep(g) \/ PeerStep(g)
       \/ \E c \in Callers : OngoingCall(c)
    /\ UNCHANGED killVars

KillNext ==
    \/ Engage \/ Release \/ Damage \/ Restore
    \/ \E c \in Callers : GateRefuses(c) \/ \E w \in Labels \cup {None} : GatedCall(c, w)
    \/ \E l \in Labels : AdmitBrowser(l) \/ AttachAdmitted(l)
    \/ WatchRead \/ WatchReadsOff \/ WatchSweep
    \/ SessionStep

KillSpec == KillInit /\ [][KillNext]_allVars

\* The threads of the server run; the watcher ticks for ever.
KillFairness ==
    /\ ServerFairness
    /\ \A l \in Labels : WF_allVars(AttachAdmitted(l))
    /\ WF_allVars(WatchRead) /\ WF_allVars(WatchSweep)

\* Hosts keep reading their sockets ...
KillFairSpec == KillSpec /\ KillFairness /\ HostsRead

\* ... or a host may stop reading and stay alive.
StalledHostSpec == KillSpec /\ KillFairness

-----------------------------------------------------------------------------
\* Once a sweep has run under an engaged (or unreadable) record with no attach
\* in flight, no browser is registered and no request can be on its way to one,
\* for as long as the record does not read off again: the check in
\* admit_browser and the sweep of watch_tick leave no way back in.
KillSettles == settled => Registered = {} /\ \A c \in Callers : pc[c] # "writing"

\* A kill that stays engaged severs every browser connection ever attached,
\* one whose admission raced the kill included (watch_tick sweeps every tick,
\* not once per kill).
KillSevers ==
    <>[](~Verdict(record)) => <>[](\A g \in Gens : g < nextGen => g \in shut)
=============================================================================
