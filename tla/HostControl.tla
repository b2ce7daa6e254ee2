---------------------------- MODULE HostControl ----------------------------
(***************************************************************************)
(* The control plane of a native host process (native_host.rs): the kill   *)
(* frames its frame thread answers, the watch thread that polls the trust  *)
(* record and pushes transitions, and the two modes it runs in.  A host    *)
(* that starts under an engaged or unreadable switch serves the control    *)
(* plane only, and has to notice the release to make room for one that     *)
(* bridges.                                                                *)
(*                                                                         *)
(* The two threads share the pipe to the worker through a mutex that is    *)
(* held for one frame write: what a frame says was read from the record    *)
(* before the mutex was taken.  The record is a file that other processes  *)
(* rewrite between any two steps.                                          *)
(***************************************************************************)
EXTENDS Naturals, Sequences

CONSTANTS
    MaxFlips,    \* bound on changes of the record by other surfaces
    MaxDeaths,   \* bound on hosts that end for no reason of the record's
    MaxPosts,    \* bound on frames posted for no reason of the worker's own
    PipeCap      \* bound on unread frames in the pipe to the host

ASSUME HostAssumption ==
    MaxFlips \in Nat /\ MaxDeaths \in Nat /\ MaxPosts \in Nat /\ PipeCap \in Nat

VARIABLES
    record,    \* the trust record: the kill latch (or unreadable), kill_epoch, and
               \* which file it is (history: the epochs of a new file start over)
    flips, deaths, posts,
    mode,      \* the host process: none, starting, bridge, plane
    toHost,    \* frames in its stdin
    toWorker,  \* kill_status_result frames on its stdout
    main,      \* the frame thread: idle, draining (an observed release), exiting
    reply,     \* the status it read and has not written yet
    watch,     \* the watch thread: phase, last Watched, release to hand over
    push,      \* the status the watch read and has not written yet
    unkilled   \* unkill_observed

recordVars == <<record, flips>>
mainVars   == <<main, reply>>
watchVars  == <<watch, push>>
boundVars  == <<deaths, posts>>
hostVars   == <<record, flips, deaths, posts, mode, toHost, toWorker, main, reply, watch,
                push, unkilled>>

Status  == {"alive", "killed", "unknown"}
Request == {"status", "engage", "release"}
Nothing == "none"
Up      == mode \in {"bridge", "plane"}

Unstarted == [phase |-> "unstarted", known |-> FALSE, epoch |-> 0, file |-> 0,
              handoff |-> FALSE]

\* kill_status_reply: an unreadable record is reported as no claim at all.
KillStatus == IF record.state = "unreadable" THEN "unknown" ELSE record.state

\* set_killed: the latch and its epoch in one write; an unreadable record
\* refuses both directions.
SetKilled(s) ==
    IF record.state = "unreadable" THEN record
    ELSE [record EXCEPT !.state = s, !.epoch = @ + 1]

HostInit ==
    /\ record \in {[state |-> "alive", epoch |-> 0, file |-> 0],
                   [state |-> "killed", epoch |-> 1, file |-> 0]}
    /\ flips = 0 /\ deaths = 0 /\ posts = 0
    /\ mode = "none"
    /\ toHost = <<>> /\ toWorker = <<>>
    /\ main = "idle" /\ reply = Nothing
    /\ watch = Unstarted /\ push = Nothing
    /\ unkilled = FALSE

-----------------------------------------------------------------------------
(* The record, rewritten by other surfaces.                                *)

Flip(r) ==
    /\ flips < MaxFlips
    /\ flips' = flips + 1
    /\ record' = r
    /\ UNCHANGED <<boundVars, mode, toHost, toWorker, mainVars, watchVars, unkilled>>

SurfaceEngages  == record.state # "unreadable" /\ Flip(SetKilled("killed"))
SurfaceReleases == record.state = "killed" /\ Flip(SetKilled("alive"))

\* The file is damaged; the documented recovery deletes it, which reads as the
\* released bootstrap.
DamageRecord == record.state # "unreadable" /\ Flip([record EXCEPT !.state = "unreadable"])
DeleteRecord == record.state = "unreadable" /\ 
                Flip([state |-> "alive", epoch |-> 0, file |-> record.file + 1])

-----------------------------------------------------------------------------
(* The process.                                                            *)

\* run: the switch is read once and decides the mode.
HostStart ==
    /\ mode = "starting"
    /\ mode' = IF record.state = "alive" THEN "bridge" ELSE "plane"
    /\ UNCHANGED <<recordVars, boundVars, toHost, toWorker, mainVars, watchVars, unkilled>>

\* The process is gone, and with it what it had not read or not written.
Gone ==
    /\ mode' = "none"
    /\ toHost' = <<>>
    /\ main' = "idle" /\ reply' = Nothing
    /\ watch' = Unstarted /\ push' = Nothing
    /\ unkilled' = FALSE

\* The broker severs a bridging host's socket once the switch is engaged.
HostSevered ==
    /\ mode = "bridge" /\ record.state # "alive"
    /\ Gone
    /\ UNCHANGED <<recordVars, boundVars, toWorker>>

\* No broker to dial, a refused attach, a broken pipe, a crash.
HostDies ==
    /\ mode # "none" /\ deaths < MaxDeaths
    /\ Gone
    /\ deaths' = deaths + 1
    /\ UNCHANGED <<recordVars, posts, toWorker>>

-----------------------------------------------------------------------------
(* The frame thread: the stdin loop, or control_plane_loop.                *)

\* handle_request: a status query, an engage, or the answered presence request
\* of a kill_release.
HandleFrame ==
    /\ Up /\ main # "exiting" /\ reply = Nothing
    /\ toHost # <<>>
    /\ LET f == Head(toHost) IN
        /\ record' = CASE f = "engage"  -> SetKilled("killed")
                       [] f = "release" -> SetKilled("alive")
                       [] OTHER         -> record
        /\ reply' = IF record.state = "unreadable" THEN "unknown" ELSE record'.state
    /\ toHost' = Tail(toHost)
    /\ UNCHANGED <<flips, boundVars, mode, toWorker, main, watchVars, unkilled>>

WriteReply ==
    /\ reply # Nothing
    /\ toWorker' = Append(toWorker, reply)
    /\ reply' = Nothing
    /\ UNCHANGED <<recordVars, boundVars, mode, toHost, main, watchVars, unkilled>>

\* control_plane_loop takes the flag and starts draining ...
TakeUnkill ==
    /\ mode = "plane" /\ main = "idle" /\ reply = Nothing
    /\ unkilled
    /\ unkilled' = FALSE
    /\ main' = "draining"
    /\ UNCHANGED <<recordVars, boundVars, mode, toHost, toWorker, reply, watchVars>>

\* ... and drain_then_decide reads the switch once the pipe is quiet.
DecideUnkill ==
    /\ main = "draining" /\ reply = Nothing /\ toHost = <<>>
    /\ main' = IF record.state = "alive" THEN "exiting" ELSE "idle"
    /\ UNCHANGED <<recordVars, boundVars, mode, toHost, toWorker, reply, watchVars, unkilled>>

\* What reached the pipe since then dies with the process.
PlaneExit ==
    /\ main = "exiting"
    /\ Gone
    /\ UNCHANGED <<recordVars, boundVars, toWorker>>

-----------------------------------------------------------------------------
(* The watch thread.                                                       *)

Watched(phase, handoff) ==
    IF record.state = "unreadable" THEN [Unstarted EXCEPT !.phase = phase]
    ELSE [phase |-> phase, known |-> TRUE, epoch |-> record.epoch, file |-> record.file,
          handoff |-> handoff]

\* Mutant: the startup posture says nothing of a switch already engaged.
MutWatchStartQuiet ==
    /\ Up /\ watch.phase = "unstarted"
    /\ watch' = Watched(IF record.state # "unreadable" THEN "sleep" ELSE "read", FALSE)
    /\ UNCHANGED <<recordVars, boundVars, mode, toHost, toWorker, mainVars, push, unkilled>>

\* spawn_trust_watch: bad news is announced at once, a released switch is not.
WatchStart ==
    /\ Up /\ watch.phase = "unstarted"
    /\ watch' = Watched(IF record.state = "alive" THEN "sleep" ELSE "read", FALSE)
    /\ UNCHANGED <<recordVars, boundVars, mode, toHost, toWorker, mainVars, push, unkilled>>

\* Whether a poll has something to push, against the last Watched.
Moved ==
    IF record.state = "unreadable" THEN watch.known
    ELSE ~watch.known \/ watch.epoch # record.epoch

\* Mutant: only a release seen as a transition is handed over, not one found
\* after a gap in which the record could not be read.
MutReleasedAcrossGap == record.state = "alive" /\ watch.known

\* What a poll that found a change hands to the control-plane loop.
Released == record.state = "alive"

\* watch_tick, its read of the record.
WatchTick ==
    /\ watch.phase = "sleep"
    /\ Moved
    /\ watch' = Watched("read", Released)
    /\ UNCHANGED <<recordVars, boundVars, mode, toHost, toWorker, mainVars, push, unkilled>>

\* (A poll that finds nothing new pushes nothing.)
WatchIdle ==
    /\ watch.phase = "sleep"
    /\ ~Moved
    /\ UNCHANGED hostVars

\* push_kill_status reads the switch again ...
WatchRead ==
    /\ watch.phase = "read"
    /\ push' = KillStatus
    /\ watch' = [watch EXCEPT !.phase = "write"]
    /\ UNCHANGED <<recordVars, boundVars, mode, toHost, toWorker, mainVars, unkilled>>

\* ... and writes what it read; the release is handed over after the push.
WatchWrite ==
    /\ watch.phase = "write"
    /\ toWorker' = Append(toWorker, push)
    /\ push' = Nothing
    /\ watch' = [watch EXCEPT !.phase = "sleep", !.handoff = FALSE]
    /\ unkilled' = (unkilled \/ (watch.handoff /\ mode = "plane"))
    /\ UNCHANGED <<recordVars, boundVars, mode, toHost, mainVars>>

-----------------------------------------------------------------------------
SurfaceStep == SurfaceEngages \/ SurfaceReleases \/ DamageRecord \/ DeleteRecord
MainStep    == HandleFrame \/ WriteReply \/ TakeUnkill \/ DecideUnkill \/ PlaneExit
WatchStep   == WatchStart \/ WatchTick \/ WatchIdle \/ WatchRead \/ WatchWrite
HostStep    == HostStart \/ HostSevered \/ HostDies \/ MainStep \/ WatchStep

\* The worker, reduced to what a host sees of it: it connects, queries the
\* status on every connect, posts frames, reads what it is sent.
Connect ==
    /\ mode = "none"
    /\ mode' = "starting"
    /\ toHost' = <<"status">>
    /\ UNCHANGED <<recordVars, boundVars, toWorker, mainVars, watchVars, unkilled>>

Post(f) ==
    /\ mode # "none" /\ Len(toHost) < PipeCap /\ posts < MaxPosts
    /\ posts' = posts + 1
    /\ toHost' = Append(toHost, f)
    /\ UNCHANGED <<recordVars, deaths, mode, toWorker, mainVars, watchVars, unkilled>>

Receive ==
    /\ toWorker # <<>>
    /\ toWorker' = Tail(toWorker)
    /\ UNCHANGED <<recordVars, boundVars, mode, toHost, mainVars, watchVars, unkilled>>

HostNext ==
    \/ SurfaceStep \/ HostStep
    \/ Connect \/ Receive \/ \E f \in Request : Post(f)

\* Both threads run, and the broker's watcher severs what it must (KillSwitch).
HostFairness ==
    /\ WF_hostVars(HostStart) /\ WF_hostVars(HostSevered)
    /\ WF_hostVars(MainStep) /\ WF_hostVars(WatchStep)
    /\ WF_hostVars(Receive)

HostSpec == HostInit /\ [][HostNext]_hostVars /\ HostFairness

-----------------------------------------------------------------------------
(* Properties.                                                             *)

\* Every variable keeps its type; a frame never claims a state for a record
\* that could not be read.
HostTypeOK ==
    /\ record \in [state : {"alive", "killed", "unreadable"}, epoch : Nat, file : Nat]
    /\ flips \in 0..MaxFlips /\ deaths \in 0..MaxDeaths /\ posts \in 0..MaxPosts
    /\ mode \in {"none", "starting", "bridge", "plane"}
    /\ toHost \in Seq(Request) /\ toWorker \in Seq(Status)
    /\ main \in {"idle", "draining", "exiting"}
    /\ reply \in Status \cup {Nothing} /\ push \in Status \cup {Nothing}
    /\ watch \in [phase : {"unstarted", "sleep", "read", "write"}, known : BOOLEAN,
                  epoch : Nat, file : Nat, handoff : BOOLEAN]
    /\ unkilled \in BOOLEAN

\* The record was deleted and written again between two polls and came back to
\* the epoch the watch knows: the poll cannot tell the two files apart.
Aliased == watch.known /\ watch.epoch = record.epoch /\ watch.file # record.file

\* A release that a control-plane host's watch has not seen yet (the record was
\* engaged or unreadable at its last look) ends that host, so that a bridging
\* one can replace it, unless the switch is engaged again first: through the
\* poll, the push, the flag, the drain and the second read of the switch.
ReleaseHandedOver ==
    (mode = "plane" /\ watch.phase = "sleep" /\ record.state = "alive" /\ Moved)
        ~> (mode # "plane" \/ record.state # "alive" \/ Aliased)

\* A host that comes up, or is up, under a switch that is engaged and stays so
\* tells the worker, whether the kill came before the host, between its two
\* first reads of the record, or later.
KillTold ==
    (Up /\ record.state = "killed" /\ (watch.phase = "unstarted" \/ Moved))
        ~> ((toWorker # <<>> /\ toWorker[Len(toWorker)] = "killed")
              \/ record.state # "killed" \/ ~Up \/ Aliased)

=============================================================================
