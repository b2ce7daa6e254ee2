---------------------------- MODULE PanicBrake ----------------------------
(***************************************************************************)
(* The panic brake of the extension's service worker: the kill mirror and  *)
(* its frame lane (kill.ts), the brake state (brake.ts) and the            *)
(* confirmation lane it latches (confirm/service.ts, messages.ts           *)
(* denyAndKill), with the port coming and going (port.ts).                 *)
(*                                                                         *)
(* The worker is single-threaded: a step here is one turn of its event     *)
(* loop, and every await ends a turn.  Of the native host only what the    *)
(* worker can see is kept (HostControl has the rest): one thread answers   *)
(* frames, another pushes every change of the record, each reads the       *)
(* switch before it takes the pipe, and the process may end at any moment. *)
(***************************************************************************)
EXTENDS Naturals, Sequences, FiniteSets

CONSTANTS
    Confirms,    \* confirmation attempts, each made once
    MaxActs,     \* bound on changes of the record by other surfaces and on frames
                 \* posted from the extension's pages, together
    MaxPanics,   \* bound on deny-and-kill presses
    MaxFaults    \* bound on ends of the host, the port or the worker and on failed
                 \* mirror writes, together

ASSUME BrakeAssumption == MaxActs \in Nat /\ MaxPanics \in Nat /\ MaxFaults \in Nat

VARIABLES
    record,    \* the trust record: alive, killed, unreadable
    news,      \* whether the host's watch has a change to push
    up,        \* whether the host process runs
    toHost,    \* frames in its stdin
    reply,     \* the status its frame thread read and has not written yet
    push,      \* the status its watch thread read and has not written yet
    toWorker,  \* kill_status_result frames on its stdout
    link,      \* port.ts: down or up
    arrivals,  \* brake.ts: kill frames received so far
    brake,     \* brake.ts: the brake's state, with its two watermarks
    panics,    \* brake.ts: the panic epoch
    mirror,    \* the stored kill mirror
    lane,      \* frames received and not yet committed, oldest first
    pc,        \* phase of each confirmation attempt
    epoch,     \* the panic epoch it captured at its decision's start
    queue,     \* attempts behind the lane, oldest first
    crossed,   \* history: attempts a panic landed across
    owed,      \* history: an engage was posted with no killed status on its way to
               \* the worker, and the switch has not been engaged at any time since
    armed,     \* history: a panic latched the brake with no status read or asked for
               \* still on its way, and nothing released the switch since
    acts, faults

hostVars    == <<record, news, up, reply, push>>
pipeVars    == <<toHost, toWorker>>
brakeVars   == <<arrivals, brake, panics>>
mirrorVars  == <<mirror, lane>>
confirmVars == <<pc, epoch, queue, crossed>>
history     == <<owed, armed>>
counters    == <<acts, faults>>
vars == <<hostVars, pipeVars, link, brakeVars, mirrorVars, confirmVars, history, counters>>

Status  == {"alive", "killed", "unknown"}
Request == {"status", "engage", "release"}
Nothing == "none"

NoMark == [set |-> FALSE, at |-> 0]
Mark(n) == [set |-> TRUE, at |-> n]

Clear == [kind |-> "clear", anchor |-> NoMark, engage |-> NoMark]

Init ==
    /\ record \in {"alive", "killed"} /\ news = FALSE
    /\ up = FALSE /\ reply = Nothing /\ push = Nothing
    /\ toHost = <<>> /\ toWorker = <<>>
    /\ link = "down"
    /\ arrivals = 0 /\ brake = Clear /\ panics = 0
    /\ mirror = "absent" /\ lane = <<>>
    /\ pc = [c \in Confirms |-> "idle"]
    /\ epoch = [c \in Confirms |-> 0]
    /\ queue = <<>> /\ crossed = {}
    /\ owed = FALSE /\ armed = FALSE
    /\ acts = 0 /\ faults = 0

-----------------------------------------------------------------------------
(* The record and the host.                                                *)

KillStatus == IF record = "unreadable" THEN "unknown" ELSE record

\* set_killed, or a file replaced: every write is news to the watch of a running
\* host, even one that repeats the state, and ends the histories.
Write(r) ==
    /\ record' = r
    /\ news' = up
    /\ owed' = (owed /\ r # "killed")
    /\ armed' = (armed /\ r # "alive")

\* Another surface engages, releases, damages or (as documented) deletes it.
SurfaceWrites(r) ==
    /\ acts < MaxActs /\ acts' = acts + 1
    /\ r # record
    /\ record = "unreadable" => r = "alive"
    /\ Write(r)
    /\ UNCHANGED <<up, reply, push, pipeVars, link, brakeVars, mirrorVars, confirmVars,
                   faults>>

\* handle_request: a status query, an engage, or the answered presence request
\* of a kill_release.  An unreadable record refuses both directions.
HandleFrame ==
    /\ up /\ toHost # <<>> /\ reply = Nothing
    /\ IF record = "unreadable" \/ Head(toHost) = "status"
       THEN UNCHANGED <<record, news, history>>
       ELSE Write(IF Head(toHost) = "engage" THEN "killed" ELSE "alive")
    /\ reply' = IF record = "unreadable" THEN "unknown" ELSE record'
    /\ toHost' = Tail(toHost)
    /\ UNCHANGED <<up, push, toWorker, link, brakeVars, mirrorVars, confirmVars, counters>>

\* push_kill_status reads the switch ...
WatchRead ==
    /\ up /\ news /\ push = Nothing
    /\ push' = KillStatus
    /\ news' = FALSE
    /\ UNCHANGED <<record, up, reply, pipeVars, link, brakeVars, mirrorVars, confirmVars,
                   history, counters>>

\* ... and each thread writes what it read, in either order.
WriteReply ==
    /\ reply # Nothing
    /\ toWorker' = Append(toWorker, reply) /\ reply' = Nothing
    /\ UNCHANGED <<record, news, up, push, toHost, link, brakeVars, mirrorVars, confirmVars,
                   history, counters>>

WatchWrite ==
    /\ push # Nothing
    /\ toWorker' = Append(toWorker, push) /\ push' = Nothing
    /\ UNCHANGED <<record, news, up, reply, toHost, link, brakeVars, mirrorVars, confirmVars,
                   history, counters>>

\* The process is gone, and with it what it had not read or not written.
Gone ==
    /\ up' = FALSE /\ news' = FALSE
    /\ toHost' = <<>>
    /\ reply' = Nothing /\ push' = Nothing

\* Severed by the broker, a released control plane leaving, a crash.
HostEnds ==
    /\ up /\ faults < MaxFaults /\ faults' = faults + 1
    /\ Gone
    /\ UNCHANGED <<record, toWorker, link, brakeVars, mirrorVars, confirmVars, history, acts>>

-----------------------------------------------------------------------------
(* brake.ts                                                                *)

Latched == brake.kind \in {"braking", "awaiting-release"}
EngageOutstanding == brake.engage.set

\* A frame is evidence only if it arrived after the watermark.
After(n, mark) == mark.set /\ n > mark.at

\* transition, the engage-posted event.
EngagePosted(b) ==
    [b EXCEPT !.kind = IF @ = "clear" THEN "engaged" ELSE @, !.engage = Mark(arrivals)]

\* transition, the panic event: an engage already outstanding is its anchor.
Panicked(b, posted) ==
    IF ~posted /\ ~b.engage.set THEN b
    ELSE [kind   |-> "braking",
          anchor |-> IF b.engage.set THEN b.engage ELSE Mark(arrivals),
          engage |-> IF posted THEN Mark(arrivals) ELSE b.engage]

\* Only a killed frame confirms an engage; unknown advances nothing.
IsConfirmation(state) == state = "killed"

\* Mutant: whatever is not a killed status lifts the latch.
MutIsRelease(state) == state # "killed"

\* Only an alive frame is a release.
IsRelease(state) == state = "alive"

\* transition, the frame event: a status committed to the mirror.
FrameSeen(b, state, n) ==
    CASE b.kind = "engaged" /\ IsConfirmation(state) /\ After(n, b.engage) -> Clear
      [] b.kind = "braking" /\ IsConfirmation(state) /\ After(n, b.anchor) ->
            [b EXCEPT !.kind = "awaiting-release",
                      !.engage = IF After(n, @) THEN NoMark ELSE @]
      [] b.kind = "awaiting-release" /\ IsConfirmation(state) /\ After(n, b.engage) ->
            [b EXCEPT !.engage = NoMark]
      [] b.kind = "awaiting-release" /\ IsRelease(state) /\ After(n, b.anchor) ->
            IF b.engage.set THEN [Clear EXCEPT !.kind = "engaged", !.engage = b.engage]
            ELSE Clear
      [] OTHER -> b

-----------------------------------------------------------------------------
(* The connection: port.ts, and the post of one frame.                     *)

\* Connection.post: a port whose host is gone either takes the frame and loses
\* it, or throws.
CanPost  == link = "up"
CanFail  == link = "down" \/ ~up
Posting(f) == toHost' = IF up THEN Append(toHost, f) ELSE toHost

\* Statuses read from the record that the worker has not received yet, and
\* what may still add to them without a change of the record.
OnItsWay(states) ==
    \/ \E n \in DOMAIN toWorker : toWorker[n] \in states
    \/ reply \in states \/ push \in states

Quiet ==
    /\ ~OnItsWay(Status) /\ lane = <<>> /\ ~news
    /\ \A n \in DOMAIN toHost : toHost[n] # "status"

\* The history of an engage being posted now.
Owing == owed' = (owed \/ (record # "killed" /\ ~OnItsWay({"killed"})))

\* Mutant: the engage of a host that died is not posted again.
MutConnectForgets ==
    /\ link = "down" /\ ~up
    /\ link' = "up" /\ up' = TRUE
    /\ toHost' = <<"status">> /\ toWorker' = <<>>
    /\ news' = (record # "alive")
    /\ UNCHANGED <<record, reply, push, brakeVars, mirrorVars, confirmVars, history, counters>>

\* connectNative: a fresh host, which announces an engaged or unreadable switch;
\* onAttach re-posts an engage nobody confirmed, then the status is queried.
ConnectNative ==
    /\ link = "down" /\ ~up
    /\ link' = "up" /\ up' = TRUE
    /\ toHost' = (IF EngageOutstanding THEN <<"engage">> ELSE <<>>) \o <<"status">>
    /\ toWorker' = <<>>
    /\ news' = (record # "alive")
    /\ brake' = IF EngageOutstanding THEN EngagePosted(brake) ELSE brake
    /\ IF EngageOutstanding THEN Owing ELSE UNCHANGED owed
    /\ UNCHANGED <<record, reply, push, arrivals, panics, mirrorVars, confirmVars, armed,
                   counters>>

\* onNativeDisconnect, once the frames of the dead host are read; or a
\* re-entrant connectNative, which drops a live port with all that is on it.
\* (An engage that the old host still reads then is another surface's.)
Teardown ==
    /\ link = "up"
    /\ \/ ~up /\ toWorker = <<>> /\ UNCHANGED faults
       \/ up /\ faults < MaxFaults /\ faults' = faults + 1
    /\ Gone
    /\ link' = "down"
    /\ toWorker' = <<>>
    /\ UNCHANGED <<record, brakeVars, mirrorVars, confirmVars, history, acts>>

\* The browser ends the worker: all of it but the stored mirror is lost, the
\* brake included.
WorkerRestart ==
    /\ faults < MaxFaults /\ faults' = faults + 1
    /\ Gone
    /\ toWorker' = <<>>
    /\ link' = "down"
    /\ arrivals' = 0 /\ brake' = Clear /\ panics' = 0
    /\ lane' = <<>>
    /\ pc' = [c \in Confirms |-> IF pc[c] \in {"deciding", "queued", "active"}
                                  THEN "denied" ELSE pc[c]]
    /\ queue' = <<>> /\ crossed' = {}
    /\ epoch' = [c \in Confirms |-> 0]
    /\ owed' = FALSE /\ armed' = FALSE
    /\ UNCHANGED <<record, mirror, acts>>

-----------------------------------------------------------------------------
(* The requests of the extension's pages.  (The single-flight slot that may *)
(* refuse one while another is unanswered is left out: a refused request    *)
(* changes nothing.)                                                        *)

PagePosts(f) ==
    /\ CanPost /\ acts < MaxActs
    /\ acts' = acts + 1
    /\ Posting(f)

\* request(kill_status), or the answered presence request of a kill_release.
PageRequest(f) ==
    /\ PagePosts(f)
    /\ UNCHANGED <<hostVars, toWorker, link, brakeVars, mirrorVars, confirmVars, history,
                   faults>>

\* engageKill, from the options page.
EngageKill ==
    /\ PagePosts("engage")
    /\ Owing
    /\ brake' = EngagePosted(brake)
    /\ UNCHANGED <<hostVars, toWorker, link, arrivals, panics, mirrorVars, confirmVars,
                   armed, faults>>

-----------------------------------------------------------------------------
(* The frame lane: handleKillFrame and handleOneKillFrame, one at a time.  *)

\* Stamped on arrival, before the lane.
FrameArrives ==
    /\ link = "up" /\ toWorker # <<>>
    /\ arrivals' = arrivals + 1
    /\ lane' = Append(lane, [state |-> Head(toWorker), seq |-> arrivals + 1])
    /\ toWorker' = Tail(toWorker)
    /\ UNCHANGED <<hostVars, toHost, link, brake, panics, mirror, confirmVars, history,
                   counters>>

\* The storage write throws: the brake hears nothing.
MirrorWriteFails ==
    /\ lane # <<>> /\ faults < MaxFaults
    /\ faults' = faults + 1
    /\ lane' = Tail(lane)
    /\ UNCHANGED <<hostVars, pipeVars, link, brakeVars, mirror, confirmVars, history, acts>>

\* The write at the head of the lane commits and its continuation runs.
CommitFrame ==
    /\ lane # <<>>
    /\ mirror' = Head(lane).state
    /\ brake' = FrameSeen(brake, Head(lane).state, Head(lane).seq)
    /\ lane' = Tail(lane)
    /\ UNCHANGED <<hostVars, pipeVars, link, arrivals, panics, confirmVars, history, counters>>

-----------------------------------------------------------------------------
(* Confirmations.                                                          *)

Active == {c \in Confirms : pc[c] = "active"}

\* A decision starts and captures the panic epoch before its first await.
StartDecision(c) ==
    /\ pc[c] = "idle"
    /\ pc' = [pc EXCEPT ![c] = "deciding"]
    /\ epoch' = [epoch EXCEPT ![c] = panics]
    /\ UNCHANGED <<hostVars, pipeVars, link, brakeVars, mirrorVars, queue, crossed, history,
                   counters>>

\* confirmWithUser: denied at the door while the latch is on.
ConfirmWithUser(c) ==
    /\ pc[c] = "deciding"
    /\ IF Latched
       THEN pc' = [pc EXCEPT ![c] = "denied"] /\ UNCHANGED queue
       ELSE pc' = [pc EXCEPT ![c] = "queued"] /\ queue' = Append(queue, c)
    /\ UNCHANGED <<hostVars, pipeVars, link, brakeVars, mirrorVars, epoch, crossed, history,
                   counters>>

\* Mutant: at the front of the lane only the latch is looked at.
MutMayPresentUnlatched(c) == ~Latched

MayPresent(c) == ~Latched /\ panics = epoch[c]

\* presentOne: unseen denial, or the surface (no provider, or one that throws,
\* denies too).
PresentOne ==
    /\ queue # <<>> /\ Active = {}
    /\ LET c == Head(queue) IN
        \E to \in {"active", "denied"} :
            /\ to = "active" => MayPresent(c)
            /\ pc' = [pc EXCEPT ![c] = to]
    /\ queue' = Tail(queue)
    /\ UNCHANGED <<hostVars, pipeVars, link, brakeVars, mirrorVars, epoch, crossed, history,
                   counters>>

\* The first of: the window's answer, the presence verdict, the surface closed,
\* the deadline.
Settle(c) ==
    /\ pc[c] = "active"
    /\ \E v \in {"allowed", "denied"} : pc' = [pc EXCEPT ![c] = v]
    /\ UNCHANGED <<hostVars, pipeVars, link, brakeVars, mirrorVars, epoch, queue, crossed,
                   history, counters>>

\* denyActiveConfirmation.
Denied == [c \in Confirms |-> IF pc[c] = "active" THEN "denied" ELSE pc[c]]

\* denyAndKill in one turn: deny, post the engage (as a request if the slot is
\* free, bare otherwise), put the brake on.
DenyAndKill(posted) ==
    /\ panics < MaxPanics
    /\ pc' = Denied
    /\ crossed' = crossed \cup {c \in Confirms : pc[c] \in {"deciding", "queued", "active"}}
    /\ IF posted
       THEN /\ CanPost /\ Posting("engage") /\ Owing
       ELSE CanFail /\ UNCHANGED <<toHost, owed>>
    /\ panics' = panics + 1
    /\ brake' = Panicked(brake, posted)
    /\ armed' = IF brake'.kind = "braking" THEN Quiet ELSE armed
    /\ UNCHANGED <<hostVars, toWorker, link, arrivals, mirrorVars, epoch, queue, counters>>

-----------------------------------------------------------------------------
ConfirmStep(c) == StartDecision(c) \/ ConfirmWithUser(c) \/ Settle(c)

Next ==
    \/ \E r \in {"alive", "killed", "unreadable"} : SurfaceWrites(r)
    \/ HandleFrame \/ WriteReply \/ WatchRead \/ WatchWrite \/ HostEnds
    \/ ConnectNative \/ Teardown \/ WorkerRestart
    \/ FrameArrives \/ MirrorWriteFails \/ CommitFrame
    \/ EngageKill \/ \E f \in {"status", "release"} : PageRequest(f)
    \/ PresentOne \/ \E c \in Confirms : ConfirmStep(c)
    \/ \E posted \in BOOLEAN : DenyAndKill(posted)

\* The worker's event loop and the host's frame thread run; a dead port is
\* noticed and the reconnect timer fires.
Fairness ==
    /\ WF_vars(HandleFrame) /\ WF_vars(WriteReply)
    /\ WF_vars(ConnectNative) /\ WF_vars(~up /\ Teardown)
    /\ WF_vars(FrameArrives) /\ WF_vars(CommitFrame)

Spec == Init /\ [][Next]_vars
FairSpec == Spec /\ Fairness

-----------------------------------------------------------------------------
(* Properties.                                                             *)

Marks == [set : BOOLEAN, at : Nat]

\* Every variable keeps its type; watermarks are set exactly where the brake's
\* state has them.
TypeOK ==
    /\ record \in {"alive", "killed", "unreadable"} /\ news \in BOOLEAN /\ up \in BOOLEAN
    /\ toHost \in Seq(Request) /\ toWorker \in Seq(Status)
    /\ reply \in Status \cup {Nothing} /\ push \in Status \cup {Nothing}
    /\ link \in {"down", "up"}
    /\ arrivals \in Nat /\ panics \in 0..MaxPanics
    /\ brake \in [kind : {"clear", "engaged", "braking", "awaiting-release"},
                  anchor : Marks, engage : Marks]
    /\ brake.anchor.set <=> Latched
    /\ brake.kind \in {"engaged", "braking"} => brake.engage.set
    /\ brake.kind = "clear" => brake = Clear
    /\ mirror \in Status \cup {"absent"}
    /\ lane \in Seq([state : Status, seq : Nat])
    /\ pc \in [Confirms -> {"idle", "deciding", "queued", "active", "allowed", "denied"}]
    /\ epoch \in [Confirms -> Nat] /\ queue \in Seq(Confirms)
    /\ crossed \in SUBSET Confirms
    /\ owed \in BOOLEAN /\ armed \in BOOLEAN
    /\ acts \in 0..MaxActs /\ faults \in 0..MaxFaults

\* A panic engages the switch in the end: an engage that reached the pipe is re-posted
\* to the next host until the switch has really been engaged since, through any number
\* of dying hosts, and no stale status passes for its confirmation; only a record that
\* cannot be read stops it.
BrakeLands == owed ~> (~owed \/ record = "unreadable")

\* What the brake owes: an engage that reached the pipe is outstanding, and so re-posted
\* to the next host, until the switch has really been engaged since.
BrakeRemembers == owed => EngageOutstanding

\* After a panic with no status still on its way, confirmations stay latched
\* until somebody releases the switch.
LatchHolds == armed => Latched

\* While the brake waits for a release, the stored mirror keeps the request gate shut.
GateShut == brake.kind = "awaiting-release" => mirror # "alive"

\* A panic holds: no status read before it, no late or failed mirror write, no unreadable
\* record and no dying host lets go of the engage, the latch or the gate.
PanicHolds == BrakeRemembers /\ LatchHolds /\ GateShut

\* No consent surface is up while the latch is on, and a confirmation whose
\* decision a panic landed across is never presented or allowed, even when the
\* latch lifted before its turn came or the panic never reached the pipe.
NoConsentAcrossPanic ==
    /\ Latched => Active = {}
    /\ \A c \in crossed : pc[c] \notin {"active", "allowed"}
=============================================================================
