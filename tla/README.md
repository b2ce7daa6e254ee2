# A TLA+ verification project for genkan (chromium-bridge)

genkan lets an MCP client drive the user's browser. Several processes of one
user take part: MCP server instances (one of them the *broker*, the others
*relays*), one *native host* per browser, and the extension's *service worker*.
They share a runtime directory (socket, lock file, trust record) and talk over a
bridge socket and native-messaging pipes. The models here are of the parts where
these processes and their threads race, die and wait for one another: call
routing, the broker's life and the clients it trusts, its election, the kill
switch from the CLI to the worker's panic brake, the host's signed policy, user
presence, the host's identity key and the extension's pin on it, the audit trail,
and the registration of the host with the browsers.

Paths below are relative to `src/packages/core/src/` (Rust) and
`src/apps/extension/src/lib/background/` (TypeScript).

## Inventory

| Component | State | Operations | What is hard | What makes it correct |
|---|---|---|---|---|
| Session (`session.rs`) | registry label -> connection, pending table id -> (generation, channel), counters | attach, reader loop and cleanup, call/send/wait, guard drop with cancel, sever all | two mutexes, one reader thread per connection, supersession, timeouts racing replies | a reply reaches only its caller, no caller is stranded, nothing leaks |
| Kill switch (`kill.rs`, `trust.rs`, `mcp/handler.rs`, `broker.rs`) | latch and epoch in the trust record | engage, release, gate, admission check, watcher tick | three readers that act later than they read; an unreadable record | a kill severs everything, also what raced it |
| Broker (`broker.rs`) | harness ref-count with terminal latch, relay registry, postures | accept, admit, serve, revoke, leave, exit | admission in steps while the record changes; exit racing an attach; lost wake-ups | exact count, nobody served past the latch, revocation reaches idle relays |
| Election (`mcp_server.rs`, `ipc/lockfile.rs`, `ipc/socket.rs`) | lock file, socket path, run mutex | publish, dial, defer, clean up, remove | crashes between file steps, pid reuse, two releases, owners that cannot be verified | a live broker is the one the files name until a process that cannot verify it supersedes it |
| Native host (`native_host.rs`) | mode, watch cursor, release flag, two pipes | answer kill frames, poll the record, push, drain and leave | two threads read before they take the pipe; releases around unreadable gaps | a release is handed over, a kill is told |
| Panic brake (`brake.ts`, `kill.ts`, `confirm/service.ts`, `messages.ts`, `port.ts`) | brake state with watermarks, mirror, frame lane, confirmation lane | deny-and-kill, engage, frames, reconnect, confirmations | every await; late, stale and lost frames; dying hosts | an engage is not lost, the latch holds, no consent survives a panic |
| Host policy (`policy/store.rs`, `plan.rs`, `mod.rs`) | signed baseline, restriction overlay, history ring, epochs | plan, prompt, grant, restrict, roll back, clear | prompts of any length over a store others write; a lock hold whose steps fail apart | nothing is relaxed without the tap that was shown it, one baseline per revision |
| Presence (`native_host/presence.rs`, `presence/`, `webauthn/`) | one pending slot per host, shared enrollments and sign counters | request, assert, confirm, enroll, forget | answers late, twice, superseded; verify outside the lock, decide inside | one act per attestation, one root of trust, a counter goes back only with a new ceremony |
| Host key and pin (`enclave/`, `native_host.rs`, `enrollment.ts`) | key in a file or a credential store, marker epoch; pin, pending proof, owed deletion | pair, reset, revoke, challenge, approve, unpair, watch | a store that is silent or lies, workers that restart, proofs in flight | a revoked key is gone, an unpaired one does not come back |
| Audit trail (`audit.rs`) | two files, a gap count per process | record, rotate, read a page | no lock around the append, try-lock around the rotation | history goes a whole generation at a time, no record is forgotten or counted twice, nobody blocks |
| Registration (`registration/`, `browsers.rs`, part of `doctor.rs`) | manifests, registry keys, pointers, wrappers | repair, uninstall, look up, diagnose | no lock; crashes between files; directories two browsers share | no manifest is orphaned silently, no browser answers for another, reports are true |
| Exchange slots (`exchange.ts`) | one open request, owed replies | request, claim, time out, detach | late answers | not modelled |
| Dispatch (`dispatch.ts`, `port.ts`) | in-flight table, policy snapshot | run, cancel, re-check | awaits between check and use | not modelled |
| Policy sync (`policy-sync.ts`) | ratchet record, compromise latch | push, verify, store, reset | storage that fails, worker restarts | next module |
| CDP registry (`cdp/registry.ts`) | session per tab | get, tear down | attach against a withdrawn grant | not modelled |
| Handshake, attestation (`ipc/handshake.rs`, `ipc/attest.rs`) | the secret each end read | challenge, verify | both ends read a file that may be replaced in between | part of Election; one step of Broker |
| Tools, wire protocol, CLI text, pages | UI, encodings | | parsing and rendering | not modelled |

Interactions. A relay or a native host dials the socket the lock file names
(Election) and is admitted by the broker (Broker, KillSwitch). Tool calls pass
the kill gate and run through Session to a native host, whose worker answers on
the same connection. The trust record is read by everyone and written under the
run mutex; the broker's watcher and each host's watch poll it every second. The
worker learns of the switch through status frames only (HostControl,
PanicBrake). Every act that grants capability asks for presence (Presence); a
policy grant is then signed by the host key and lands under the runtime lock
(PolicyHost), and the disposal of that key clears the baseline and pushes the
extension's pin out (PolicyHost, HostKey).

PROJECT.json lists the hazards at their lines with the properties that would
catch each going wrong.

## Modules

| Module | Models | Extends |
|---|---|---|
| `ToolCall` | what a call is promised: one wire or a refusal, one run, one answer | |
| `Session` | `session.rs`, with the far end of a connection from `port.ts` and `dispatch.ts`; refines `ToolCall` | (INSTANCE) |
| `KillSwitch` | the record, gate, browser admission and watcher tick, composed with all of Session | `Session` |
| `Broker` | `broker.rs` relays, ref-count, registry, watcher; the client list of `allowlist.rs` and `trust.rs` | |
| `Election` | lock file and socket path, from `mcp_server::run`; a relay's dial and handshake | |
| `HostControl` | one native host's frame and watch threads and its modes | |
| `PanicBrake` | the worker's brake, mirror lane and confirmation lane over a host seen from outside | |
| `PolicyLattice` | the policy as a value: fields, directions, overlay, rollback plan | |
| `PolicyHost` | the store's files, the writers of several processes, the key that signs, its disposal | `PolicyLattice` |
| `Presence` | the hosts' exchange slots over shared enrollments, the verifier, the CLI's forget | |
| `HostKey` | the key's two places, disposals, hosts' proofs and watch, the worker's ceremony | |
| `AuditLog` | what the trail promises: two generations, forgotten whole | |
| `AuditTrail` | `audit.rs` on inodes, threads and a try-lock; refines `AuditLog` | (INSTANCE) |
| `Registration` | the browsers' lookup, `doctor --fix`, the extension's repair, `uninstall` | |
| `SessionProofs` | theorems about Session and KillSwitch | `KillSwitch` |
| `BrokerProofs` | theorems about Broker and Election, the two halves of the broker's life | `Broker`, `Election` |
| `PanicBrakeProofs`, `PolicyHostProofs`, `PresenceProofs`, `HostKeyProofs`, `AuditTrailProofs`, `RegistrationProofs` | theorems | the module named |
| `MC*` | symmetry sets and constants for TLC | the module named |

How state and actions correspond to the code:

* **Session.** A connection is its generation (`Conn.generation`). `conns` and
  `pending` are the two maps; `connsLock` is the `conns` mutex while a sender
  holds it across its blocking write, the one critical section longer than a
  step; every other section under it is one action that needs it free. `pending`
  is taken for single steps only. `chan` is the caller's one-slot channel,
  `taken` the connections out of the registry whose `Drop` (the socket shutdown)
  has not run. `send` is `SendRefused | SendInsert ; SendWrite | SendWriteFails`,
  `InFlight::wait` is `WaitEnds`, `InFlight::drop` is `DropGuard ; CancelWrite`.
  The reader is `SpawnReader`, `ReadFrame ; DeliverReply`, `ReadEof`,
  `ReaderCleanup`. `BogusFrame` is an extension that answers ids it was not sent,
  which the reader's Foreign and Unknown arms expect. Payloads are left out: what
  a frame is about is its id. `ToolCall` sees of all this whether a call has left
  its caller's hands (`Gone`), the connections on whose wire its request is (`Queued`)
  and behind which it runs (`Ongoing`), its route, its channel and its outcome.
* **KillSwitch.** `Verdict` is fail-closed on an unreadable record. Each reader
  is two actions, the read and the act: `GatedCall` then Session's own steps,
  `AdmitBrowser` then `AttachAdmitted`, `WatchRead` then `WatchSweep`.
* **Broker.** A relay's worker thread is the phase `pc[c]`, one action per step
  of `admit_client` at which another thread can interfere (decide on a read of
  the record, register, acquire, reply), then `Request`/`Answer` for a request
  gated on a fresh read, then the drop order of `RelayAdmission`: `Deregister`,
  `Decr`. The main thread is `own`: serve, drop the slot, `WaitZero` (check, sleep,
  latch), `Exit`. A harness's identity is the set of anchors it matches; the list
  is entries of a name and an anchor, and `PairClient`, `RevokeClient` and
  `ForgetPairings` rewrite it as `Trust::pair`, `revoke` and `forget_pairings` do.
* **Election.** One action per file operation between which a crash or another
  process can fall; readers of the lock file do not take the mutex. `by` is what
  the per-run secret in the lock identifies. `runs` is what the other live processes
  run, native hosts and commands of the same binary included: `AttestPid` compares
  images, so these pass it. A measurement or a read of the lock may fail whatever is
  there, and then the live owner is superseded (the last arm of `Judge`); `displaced`
  is a history of the brokers that arm took the files from. A crash frees the mutex, ends the
  connections and leaves the files. A relay's dial is `Connect`, `AttestPeer`, the
  two reads of the secret (`ClientHandshake`, `ServerHandshake`: neither end keeps
  the one it dialed or published with), `VerifyMac`, `Attach`.
* **HostControl.** `HandleFrame` applies and answers a frame, `WriteReply` takes
  the stdout mutex; `WatchTick`, `WatchRead`, `WatchWrite` are the three moments
  of a poll that pushes. `record.file` is history: deleting the record starts its
  epochs again. `TakeUnkill`/`DecideUnkill`/`PlaneExit` are the control-plane
  loop's reaction to the flag.
* **PanicBrake.** An action is one turn of the worker's event loop. `Panicked`,
  `EngagePosted` and `FrameSeen` are the three events of `brake.ts`'s
  `transition`. `lane` is the serialized mirror write, `arrivals` the stamp.
  The host is reduced to what the worker can see: two threads, each reading the
  switch before writing it, over a process that may end at any time. `owed` and
  `armed` are histories that only the properties read.
* **PolicyLattice, PolicyHost.** A policy is a function on the fields, an overlay
  a function on some of them; `FieldRelaxes` is the one comparison every verdict
  reads from. A writer is a process: `job[w]` walks through the reads before the
  prompt, the prompt (`Attest`), then the steps of one lock hold: re-check and
  write (`WriteBaseline`), `BumpPolicyEpoch`, `PushHistory`. `Restrict` is the lane
  without a prompt. `Revoke`, `ClearPush`, `ClearRemove`, `BumpHostKeyEpoch` are the
  steps of a disposal. `Crash` ends any of them. `GateAllows` is the gate every tool
  call passes, over one read of the store. A revision is bounded by `RevMax` as the
  code bounds it by the largest integer JavaScript keeps.
* **Presence.** `pending[h]` is the host's one slot, taken by every request and
  every answer. A challenge is the statement it hashes. `responses` is a set that
  is never consumed, so any answer may come again or late. Verification
  (`PresenceAssert`) reads the record; `AdvanceSignCount` decides again under the
  lock; `Settle` runs the act. What a verifier's check finds is a named flaw. An
  authenticator may create the same credential id again, at any count and for any
  browser; `Enroll` then replaces the enrollment, label and counter, as
  `Trust::enroll` does. `born` is a history of the ceremony an enrollment is from.
* **HostKey.** A key is a number; a file may be `Damaged`, a store may not answer
  (`Fails`) or keep what it said it deleted. A disposal is a lock hold in steps
  that a lookup sees half done. The worker's stored state and its memory are
  separate variables, so a restart between two writes of `approvePending` or
  `revokePin` is a state. The watch compares two readings of a growing epoch:
  `moved` is their difference.
* **AuditTrail, AuditLog.** A file name is an inode; a writer keeps the inode it
  opened. `record` is size check, try-lock, re-check, rename, open, append. The
  gap counter is the set of records it counts. `fate` is a history of what became of
  each record, and of what was counted on it: landed where a reader finds it, told by
  such a line, written where no reader does (spliced onto a torn line, or on an inode
  no name leads to), counted on such a line, gone with its process. The refinement maps the trail to
  the records readable under either name, the newest generation to those under
  the live one. `Cap` and `MaxLine` are sizes in the same unit.
* **Registration.** A path is a scope and an owner. A command is `job[p]` going
  through its targets in any order: judge, directories, wrapper, manifest, key,
  pointers; or judge and remove in the order of `uninstall`. The targets of a
  selection are a set, each registration in it once with the pointers of all its
  browsers. A file is replaced whole or not at all (`Atomic`); a registry value is
  a key created and then set, so it can be left bare (`SetRegistry`, `Torn`). Every
  read may fail: a repair's target then fails untouched, an uninstall refuses what it
  could not read, ours or not, and remembers it (`unread`). Three
  operating systems are three initial values of `os`. Lookups (`Readers`,
  `LaunchPath`) and doctor's verdict (`RegState`, `ManifestOk`) are operators the properties read.

## Runs

| Run | Bounds | Shows |
|---|---|---|
| `session` | 2 labels, 1 call, 2 connections, 2 invented frames | RouteStable, NoStrandedCaller, NoOrphanSocket, SlotClearedByOwner, PromiseKept (refinement of ToolCall; ReplyIsolation is part of it) |
| `kill_switch` | 1 label, 1 call, 2 connections, 2 changes of the record | KillSettles, KillSevers, CallEnds |
| `kill_stalled_host` | 1 connection, 1 change, a host that need not read | KillSevers **violated** |
| `broker` | 2 relays and the own harness, caps of 2, a signer and a hash anchor, 1 name | RefCountExact, NoneAfterLatch, RegistryExact, RevocationReaches, BrokerExits |
| `election` | 3 instances, 3 pids, 2 releases, 2 tries | BrokerNamed |
| `host_control` | 2 changes of the record, 1 death, 1 posted frame | ReleaseHandedOver, KillTold |
| `panic` | 1 confirmation, 1 panic, 1 change or page request, 1 fault | PanicHolds, NoConsentAcrossPanic, BrakeLands |
| `policy_host` | 2 writers, 1 grant and 1 window, a tool with and one without the grant, 2 keys, revisions to 2, 3 writes, 1 fault | StoreSound, RevisionUnique, NoDeadKeyBaseline, NoRelaxWithoutTap, RollbackExact |
| `registration` | Chrome, Brave and 1 named directory, 3 operating systems, 2 processes, 2 commands, 1 fault | LabelHonest, NoOrphan, ReportTrue |
| `audit` | 2 threads, 4 records, 4 inodes, a file one line fills, 2 faults | GapAccounted, PageWhole, KeepsHistory (refinement), RecordReturns |
| `presence` | 2 hosts labelled apart or alike, 2 authenticators of which one counts, 3 requests, 3 answers, 1 forget, 1 fault | OneActPerAttestation, OneRootOfTrust, VouchedByItsOwn, CounterNeverBack |
| `host_key` | 1 host, the CLI, 2 keys, 2 challenges, 1 fault, 1 frame in flight each way | RevokedMeansGone, NoStaleProof, RevokeSettles, DeadKeyNoticed |

Why the bounds are enough for the cases that matter. Two connections give
supersession under one label and foreign replies across two, with a socket buffer
of one frame so that every second write blocks; what the small instance leaves
out in numbers of labels, calls and connections the proofs of Session cover. Two
changes of the record give engage and release, engage and damage, damage and
recovery. Two relays are the smallest number in which one attaches while the last
one leaves, and two anchors let one write revoke one relay and admit the other.
Three instances of two releases give a broker, a displacing newcomer and a relay
that still dials the old lock file. One panic with one fault covers each of: the
host dying around the engage, the port dropped, the worker restarted, the mirror
write failing. Two writers and three writes give a prompt shown on one state and
landing on another, with a rollback after it; a field in each direction of the
lattice is enough because every verdict is a conjunction over the fields. Two
browsers with one that reads the other's directory is the sharing `browsers.rs`
describes, on each layout. Two threads over a file that one line fills rotate
twice in four records, which is when a writer can hold an inode two generations
old. Three pids let a dead broker's be taken by a stranger or by another process of
the binary while two instances race. Two hosts with one label are the unlabelled manifest, with two labels the
normal one. Two keys and two challenges give a proof of the old key that arrives
after the new one is asked for.

Symmetry sets are used where no liveness is checked. Where a configuration does
not check deadlock (`panic`, `policy_host`, `registration`, `audit`, `presence`)
the bounds on requests are used up and the program is at rest.

### Where the code and its documentation disagree

With a run of its own:

* `kill_stalled_host`: "live browser connections are dropped within a second"
  (`kill.rs`). No write to a bridge socket has a timeout and `send` writes with the
  registry mutex held, so a host that is alive and does not read keeps the sweep
  out for good.

Met while modelling, and why the property next to it is worded as it is:

* The loom model's "registry must be empty by the time the broker's teardown
  decision latches": an admission between `register` and `try_acquire` holds a slot
  then. It is refused and unwinds; what the sweep needs, `RegistryExact`, holds and
  is proved.
* "a broker (pid {}) already owns the bridge" (`mcp_server.rs`), and "if another live
  server published since the caller last looked, nothing is touched and `LostRace`
  names it" (`ipc/lockfile.rs`): the pid is attested to run the binary, not to serve. A
  crashed broker's pid that came to be a native host's or a command's is deferred to,
  and the stale-lock cleanup keeps the lock because the pid is alive. With two
  instances and two pids TLC refutes that a `Judge` that defers names a server.
* "a refusal never leaves an artifact of ours behind that the wrapper cleanup would
  then orphan" (`registration/mod.rs`): a manifest of ours that does not answer its read
  is refused, the wrapper it launches is removed, and the command exits 0; one uninstall
  on Linux with one failed read shows it. The warning names the manifest, so
  `ReportTrue` and `NoOrphan` exempt what was reported as unreadable, and nothing else.
* "a failed file write is counted and surfaced on the next successful record"
  (`audit.rs`), "visibly (the `dropped` counter)" (`docs/security/trust-boundaries.md`):
  a write cut short leaves half a line; the next record, which carries the count, is
  appended to it and reported written, and neither it nor its `dropped` field can be
  parsed. One thread and three records show it (`fate` reaches "hidden"). The reader
  does show one UNRECOGNIZED RECORD there. The same loss without a trace is a record,
  or a count on it, appended to an inode that two rotations have unlinked since it was
  opened. `GapAccounted` gives these fates of their own instead of calling them told.
* "a credential re-enrolled under another browser in between must not answer the first
  browser's request" (`presence/request.rs`): the label is judged on a read without the
  lock, and `counter_advance`, under the lock, compares the counter only; TLC finds the
  enrollment in between at the bounds of `presence`. `VouchedByItsOwn` promises the
  admission for an enrollment that no ceremony replaced since the verification.
* "There is no forced takeover of a live owner" (`docs/troubleshooting.md`): a live
  broker of the same release whose measurement fails is superseded like a foreign one;
  `lockfile.rs` says of that arm that the server "keeps its connections and merely
  stops being named". `BrokerNamed` exempts the brokers this arm took the files from.
* Control-plane mode means "the bridge is killed or its state is unreadable"
  (`native_host.rs`): a release between `run`'s read and the watch's first one is
  never an observed transition. `ReleaseHandedOver` starts from an observed one.
* The brake's latch lifts on an alive frame "which only a presence-gated release
  produces" (`brake.ts`): a status read before a kill and written after that kill's
  push lifts it with no release. `PanicHolds` promises the latch for a panic with no
  status still on its way.
* A page of the trail reads two files one after the other; a rotation in between
  moves records past the reader, against "Every line of the trail is one entry".
  `PageWhole` exempts that page only.
* An emptied store is said to void an approval of the presence exchange; an
  approval already granted to a waiting enrollment outlives it. `OneRootOfTrust`
  still holds, because the store decides again under its lock.
* A worker that dies between `clearAll` and `setHostRevokePending` owes no deletion
  any more; one that dies between `setPin` and the cleared flag sends a stale
  `enclave_revoke`, which deletes the new key (it fails closed). `RevokeSettles`
  starts from the stored flag.
* A key reset and paired again within one tick of the watch, or with no host
  running, is never pushed as revoked. `DeadKeyNoticed` is about a key that stays
  gone.
* An absent store allows every tool at the host's gate, as `gating.rs` says, so the
  disposal of the host key, which removes the baseline, opens that gate while the
  extension falls back to its deny baseline. `NoRelaxWithoutTap` names the exception.
* `register` writes the wrapper file without judging what is there; manifests of a
  `--manifest-dir` that is not passed again outlive `uninstall`; a repair racing an
  `uninstall` can leave a manifest without its target, there being no lock.
  `NoOrphan` exempts just these: an uninstall's own reported leftovers and two
  commands at once.
* `set_registry_value` creates a key and then sets its value; a failure or a crash
  in between leaves a bare key, which every later command judges not its own. A
  bare manifest key is replaced by an explicit `--fix`; a bare pointer key is refused by
  every later repair and left by `uninstall`, although `fix` is "Idempotent, so a fresh
  machine gets its first registration and a broken one its repair through this one
  path" (`registration/command.rs`). The refusal is reported, so `ReportTrue` holds.

## Fairness

`ServerFairness`: every thread of the server is scheduled, and a mutex is held
for one write at most, so weak fairness on each thread's step is what the
operating system gives. `HostsRead` is separate, because it is about another
process: the native host's pump reads its socket until EOF. `CallEnds` and
`KillSevers` need it, and `kill_stalled_host` shows what happens without. The
watcher ticks for ever (`loop { sleep; watch_tick }`). In Broker nobody is obliged
to connect, to ask or to leave; only a socket that was shut down is certain to
read EOF. In HostControl both threads run and the worker reads its port; an
environment that stops changing the record is not assumed (the leads-to
properties end when it changes). In PanicBrake the event loop runs, a dead port
raises its disconnect and the reconnect timer fires; deaths are bounded, so a host
that dies every time is excluded.

In AuditTrail only the threads of `Prompt` are scheduled: `RecordReturns` holds for
such a thread with every other one stopped anywhere, the lock in its hand
included, which is the point of the try-lock. In HostKey the threads of the CLI
and the hosts run, a host whose port is gone ends (it reads EOF), the worker is
started again and reconnects (the browser and its alarm do that), and frames are
taken under strong fairness: a port lost again and again makes `TakeFrame`
enabled only now and then, and losses are faults, of which there are finitely
many. PolicyHost, Registration, Presence and Election are checked for safety only:
they wait for people.

## Proofs

For every value of the constants that satisfies the named assumptions
(`SessionAssumption`, `KillAssumption`, `BrokerAssumption`, `ElectionAssumption`,
`BrakeAssumption`, `CatalogueAssumption`, `HostAssumption`, `PresenceAssumption`,
`HostKeyAssumption`, `AuditAssumption`, `RegistrationAssumption`: bounds are naturals,
null values are no member of the sets they stand beside, a browser is not named like a
directory, the sets of labels, relays and hosts are finite, a
thread has a process, a record fits a line; of the policy catalogue, that requests
are overlays, that a tool's grants are among the permissive fields, and that
`cdpMode` is one of those, as `policy/mod.rs` declares it):

* `SessionProofs`, the calls: `SessionTypes`, `SessionReplyIsolation`,
  `SessionPendingOwned`. ReplyIsolation is not inductive: a reader may hold a
  reply it has taken from the table and not yet sent. The invariant adds that ids
  are minted once and belong to one caller (`IdsMinted`, `IdsOwn`), that a started
  call has its id (`Started`), and that a reader's hand is a caller whose request
  went out on that reader's connection (`HandOwn`).
* `SessionProofs`, the promise: `SessionPromiseKept`, `KillSwitchPromiseKept`. Every
  step of the session, and of the session under the kill switch, is a step of
  `ToolCall` or does not show in it. The hard steps are the binding of a call to its
  id, which must not make it look queued or running (`WireMinted`: nothing is on a
  wire under an id still to come), and the host's taking of a request, after which
  the request must be on no wire (`OnceOnWire`: it was there once). `Settles` and
  `MailOpen` tie the result, the route and the channel to the phase of the call.
* `SessionProofs`, the registry: `SessionNoStrandedCaller`, `SessionRouteStable`,
  `SessionNoOrphanSocket`, `SessionBrowserCap`, `SessionSlotClearedByOwner`, from
  the invariant above and `RInv`: a registered generation was attached under that
  label and its reader has not cleaned up (`Born`, `RegisteredOK`); a writing
  caller holds the lock and nobody else does (`LockHeld`), so no registry change
  falls between its route and its write; an entry's generation has a reader that
  still attends to it (`Bound`, `Attended`).
* `SessionProofs`, the kill switch: `KillSwitchKeepsSession` and `KillSwitchSettles`.
  Every step of the composition is a step of the session or the gate's refusal, so
  both invariants above hold with the switch around them. A sweep is final because
  it needs the registry lock, which a sender holds through its write (`LockHeld`),
  and because while settled the record is not off and nobody is between the
  admission check and the attach (`Settled`), so no attach and no route is left.
* `BrokerProofs`: `BrokerTypes`, `BrokerRefCount`, `BrokerNoneAfterLatch`,
  `BrokerRegistry`. The invariant adds which phases have a registry slot
  (`RegistryByPhase`, which is where the drop order matters) and that the main
  thread is past its wait exactly when the latch is set (`LatchOrder`).
* `BrokerProofs`, the election: `ElectionBrokerNamed`, `ElectionOneBroker`.
  The invariant follows the critical sections, which exclude each other (`Guarded`): a
  takeover that judged the lock nobody's, or is past its unlink, faces no broker that
  was not displaced (`Cleared`, because it judged under the mutex what it now unlinks,
  and a serving broker's pid is alive), and what it publishes is the socket it bound (`Listens`). That a late cleanup or an exit spares
  the files of a live broker needs live pids to be distinct (`PidWhileRunning`, `Unique`).
* `PanicBrakeProofs`: `PanicBrakeHolds`, `PanicBrakeConsent`. PanicHolds reads
  histories, so the invariant says what they imply about everything in flight.
  While an engage is owed the record is not killed and no killed status is anywhere
  that arrived after the engage's watermark (`Owes`). After a quiet panic either the
  switch has not moved, and then no status at all was read and the engage is ahead
  of every status query in the host's pipe (`Unread`, `EngageFirst`), or it has, and
  then no alive status was read since (`NoAlive`). The lane is in arrival order and no
  watermark is ahead of the last arrival (`Sorted`, `GoodBrake`), which is why only
  younger frames are left once a panic is confirmed (`Awaiting`). Consent rests on
  `Stale`: an attempt a panic crossed captured an older epoch than the current one.
* `PolicyHostProofs`: `PolicyStoreSound`, `PolicyNoRelax`, `PolicyRollbackExact`,
  `PolicyRevisionUnique`, `PolicyNoDeadKey`. First the lattice, for any catalogue:
  the order is transitive and local to a field, an overlay over a baseline it
  restricts stays below it, a grant stays sound, the two arms of a rollback reach
  their target, and the gate is monotone. Then `Planned`: what a job carries was
  computed over the store it observed, so a commit that finds the same content is as
  good as one decided then. The last two theorems need the key: `KInv` says that
  what is past a lock hold's first step has the lock (`Exclusive`), that a signature
  waiting for its tap is by the key in place or the host-key epoch has moved on
  (`SignsLive`, `EpochSeen`), and that revisions under a live key only climb (`Climbs`),
  all of it conditional on the faults the properties name.
* `HostKeyProofs`: `HostKeyType`, `HostKeyRevokedGone`, `HostKeyNoStaleProof`. A
  disposal's confirmation is true because whoever is past its first step holds the
  lock, the file is gone, and the key it remembers is not the entry it leaves
  (`Exclusive`, `Distinct`, `Remembers`). No stale proof is staged because every
  outstanding challenge is younger than the last revoke (`Young`) and a frame is
  matched against it.
* `AuditTrailProofs`: `AuditTypes`; `AuditKeepsHistory`, that every step of the
  trail is a step of `AuditLog` or none (the refinement); `AuditPageWhole`;
  `AuditGapAccounted`. The refinement's hard step is the rename: a thread decided
  on a size it read before, and the older generation must be replaced by a full
  one. `IInv` says why that holds: whoever is past the re-check holds the lock
  (`Locked`), so the live name has not moved since, and a file only grows, so it is
  still full (`Full`); the two names never share an inode (`Apart`). A page is
  whole because what it has yet to read still holds what it must show
  (`PageCovers`), and
  a record that has met no fate is in one place at a time: the process's counter, the
  claim of a thread about to report it, or its own thread (`Held`, `HeldOnce`,
  `NotForgotten`).
* `PresenceProofs`: `PresenceTypes`, `PresenceOneAct`, `PresenceOneRoot`,
  `PresenceCounter`, `PresenceVouched`. An attestation runs one act because its
  nonce is always in one place (`Held`): in one host's slot, as the request or as
  the approval it became, or in that host's job, and only while no act ran on it;
  every action moves nonces within one host, and an act runs on one the host gives
  up. The counter and the admission rule need more: an answer to an enrollment that
  was already carried out must not write its credential once more, back to its first
  counter, or pass for the ceremony an answer was verified against. `Fresh` rules that
  out: what the record holds and what a verified answer saw is from a ceremony that
  is no longer pending, since nonces are never used twice, so a ceremony enrolls once,
  whatever id it enrolls again. `Sworn` then carries an answer's admission up to the
  write, unless a ceremony has enrolled its credential again.
* `RegistrationProofs`: `RegistrationInvariant`, `RegistrationLabelHonest`,
  `RegistrationNoOrphan`, `RegistrationReportTrue`, for any set of browsers and named
  directories, any number of commands, crashes and entries of other tools. There is
  no lock, so the invariant has two halves. Whoever wrote it, what is ours lies where
  some registration of that scope puts it (`Placed`), a wrapper carries the label its
  name says, and a manifest launches the binary, the wrapper without a label, or the one
  of the only browser that reads it (`Honest`); with it LabelHonest is a case analysis
  of the lookup: a browser that falls through to Chrome's directory is one of its
  `Readers`, so no label was written there. And of a command that has run alone
  (`Solitary`): a repair that met no failure has every registration it serves in order,
  in hand or still to come (`Repaired`), and what is ours in the scope of an uninstall is
  reported as not removed or not read, out of its reach or still to come (`Removed`). ReportTrue and NoOrphan are
  these two at the last step, plus the wrappers, which go only after the manifests.

Only model-checked: liveness, which is outside the proof system's reach under fairness:
KillSevers, CallEnds, RevocationReaches, BrokerExits, ReleaseHandedOver, KillTold,
BrakeLands, RecordReturns, RevokeSettles, DeadKeyNoticed. Every other property of a
passing run is also a theorem.

## Not modelled

Poisoned mutexes (condemned state, every path refuses), the wrap of 64-bit ids
and epochs, read-only queries (`labels`, `route_info`), log lines, the Windows pipe
and process interfaces, a corrupt lock file, timing of poll intervals and
deadlines (a timeout may fire at any moment it is armed), transient read errors of
the record other than its being unreadable, a delete and rewrite of the record
that comes back to a known epoch (exempted by `Aliased`). The audit records other
components write are left out of their actions: `record` never fails its caller
and never waits, which is what `RecordReturns` shows; that is up to the line it also
logs, whose write to a stderr nobody drains may block (`log.rs`) and is left out. A
line that lacks only its newline counts as cut short. In PanicBrake and HostKey the
single-flight slot is left out: a refused request changes nothing, and the panic
path posts with the slot open or not.

In HostKey a port that drops in the middle of an exchange costs a fault, one host
process runs at a time, and the hooks into policy sync and storage hardening are
left out. In Presence cryptography is a verifier that accepts exactly what was
signed for. In PolicyHost the signature is the key that made it. The
extension's own audit ring is not the host's trail and is not modelled. The
file-system permission checks, schema migrations and backups of
`runtime_record.rs` are calls to the operating system. The parts listed as
`not_modelled` in PROJECT.json say why.

## Plan

1. `PolicySync`: the worker's ratchet over storage that fails, with its compromise
   latch and barrier, over `PolicyLattice`, against an abstract ratchet that
   PolicyHost's store also refines.
2. `Exchange` (single-flight slot, claims, owed replies), `Dispatch` (in-flight
   table, cancels, snapshot and re-checks), `CdpRegistry`.
3. Proofs: the safety part of what KillSevers and BrakeLands rest on (what a fair
   step, once possible, is not taken away by).
