------------------------------ MODULE HostKey ------------------------------
(***************************************************************************)
(* The host identity key and the pin on it: the two places the key may     *)
(* live in (enclave/record.rs, enclave/store.rs), the one critical section *)
(* that disposes of it (enclave/cli.rs), the native hosts that prove it,   *)
(* revoke it and watch its marker (native_host.rs), and the extension's    *)
(* enrollment ceremony over one port (enrollment.ts, enclave-pin.ts).      *)
(*                                                                         *)
(* A disposal holds the runtime lock; lookups take no lock, so they see it *)
(* half done.  A host whose port is gone may still be working through the  *)
(* frames it had read.  The worker may die between two storage writes.     *)
(* The host-key epoch only grows, so a watch that compares two readings of *)
(* it is modelled by whether it moved since the last one.                  *)
(***************************************************************************)
EXTENDS Integers, Sequences, FiniteSets

CONSTANTS
    Hosts,       \* native host processes, at most one of them on the port
    None,        \* no host, no actor, no challenge
    Cli,         \* the terminal: pair, pair --reset, revoke --all
    MaxKeys,     \* bound on keys minted
    MaxNonces,   \* bound on challenges issued
    QueueCap,    \* frames a reader is behind by, at most: a writer waits on a full pipe
    MaxFaults    \* bound on calls the credential store or the file system fails, on crashes,
                 \* and on ports lost in the middle of an exchange

ASSUME HostKeyAssumption ==
    /\ IsFiniteSet(Hosts) /\ None \notin Hosts /\ Cli \notin Hosts /\ Cli # None
    /\ MaxKeys \in Nat /\ MaxNonces \in Nat /\ MaxFaults \in Nat
    /\ QueueCap \in Nat \ {0}

Actors == Hosts \cup {Cli}
Damaged == -1     \* a host_key.json that does not load
Places == {"file", "store"}

VARIABLES
    file, entry,      \* the key in host_key.json and in the credential store, 0 for none
    lock,             \* the holder of the runtime lock
    job,              \* what each actor is doing
    bumped,           \* whether the host-key epoch ever moved
    minted,           \* keys minted so far
    faults,           \* the bound's counter
    confirmed         \* history: the keys in use whose disposal was confirmed

VARIABLES
    port,        \* the host the extension is connected to
    inbox, outq, \* frames on their way to each host, and from it
    moved,       \* per host: the epoch moved since its watch last read it
    watch        \* per host: its watch thread

VARIABLES
    pin, pending,  \* stored: the approved key, the proved one awaiting approval
    compromised, paused, revokePending, \* stored marks of the ceremony
    outstanding,   \* worker memory: the challenge awaiting its proof
    lane,          \* worker memory: the transition between two storage writes
    nonces,        \* challenges issued so far
    cut            \* history: the challenges issued when the user last revoked

diskVars == <<file, entry, lock, job, bumped, minted, faults, confirmed>>
hostVars == <<port, inbox, outq, moved, watch>>
pinVars  == <<pin, pending, compromised, paused, revokePending, outstanding, lane, nonces, cut>>
vars     == <<diskVars, hostVars, pinVars>>

NoKey  == [key |-> 0, nonce |-> 0]
Idle   == [pc |-> "idle"]
Revoke == [type |-> "revoke"]
Revoked == [type |-> "revoked"]
Fails(reason) == [type |-> "error", reason |-> reason]

Init ==
    /\ file = 0 /\ entry = 0 /\ lock = None
    /\ job = [a \in Actors |-> Idle]
    /\ bumped = FALSE /\ minted = 0 /\ faults = 0 /\ confirmed = {}
    /\ port = None
    /\ inbox = [h \in Hosts |-> <<>>] /\ outq = [h \in Hosts |-> <<>>]
    /\ moved = [h \in Hosts |-> FALSE] /\ watch = [h \in Hosts |-> "dead"]
    /\ pin = NoKey /\ pending = NoKey
    /\ compromised = FALSE /\ paused = FALSE /\ revokePending = FALSE
    /\ outstanding = None /\ lane = "idle" /\ nonces = 0 /\ cut = 0

Become(a, j) == job' = [job EXCEPT ![a] = j]
Fault        == faults < MaxFaults /\ faults' = faults + 1
NoFault      == faults' = faults

\* write_control_reply: a host's frame reaches the port it serves; for a port that is gone, and
\* from the terminal, it goes nowhere.
Answer(a, f) ==
    IF a # port THEN UNCHANGED outq
    ELSE Len(outq[a]) < QueueCap /\ outq' = [outq EXCEPT ![a] = Append(@, f)]

-----------------------------------------------------------------------------
(* The key: lookup, disposal, mint.                                        *)

InUse == IF file # 0 THEN file ELSE entry

\* EnrollmentKey::lookup: the file when there is one, the credential store otherwise, which may
\* not answer.
Lookup(k) == \/ k = InUse /\ NoFault
             \/ k = Damaged /\ file = 0 /\ Fault

\* host_key.json stops loading.
FileDamaged ==
    /\ file > 0 /\ Fault
    /\ file' = Damaged
    /\ UNCHANGED <<entry, lock, job, bumped, minted, confirmed, hostVars, pinVars>>

\* dispose_locked, EnrollmentKey::revoke: the file goes first, even an unreadable one; a removal
\* that fails ends the disposal with the key in place.
DisposeFile(a) ==
    /\ job[a].pc = "dispose" /\ lock = None
    /\ \/ /\ lock' = a /\ file' = 0 /\ NoFault /\ UNCHANGED outq
          /\ Become(a, [pc |-> "store", then |-> job[a].then, hadFile |-> file # 0,
                        inUse |-> InUse])
       \/ /\ file # 0 /\ Fault
          /\ Become(a, Idle) /\ UNCHANGED <<lock, file>>
          /\ Answer(a, Fails("keychain_error"))
    /\ UNCHANGED <<entry, bumped, minted, confirmed, port, inbox,
                   moved, watch, pinVars>>

DisposedStore(a, cleared) ==
    Become(a, [pc |-> "bump", then |-> job[a].then, gone |-> job[a].hadFile \/ cleared,
               cleared |-> cleared, inUse |-> job[a].inUse])

\* Mutant: the store is taken at its word, without the read-back.
MutDisposeStore(a) ==
    /\ job[a].pc = "store"
    /\ \/ entry' = 0 /\ NoFault
       \/ entry' = entry /\ Fault
    /\ DisposedStore(a, TRUE)
    /\ UNCHANGED <<file, lock, bumped, minted, confirmed, hostVars, pinVars>>

\* store::delete and its read-back: gone only when the store says so.  It may not answer, before the
\* delete or after it, and the entry may survive a delete that reported success.
DisposeStore(a) ==
    /\ job[a].pc = "store"
    /\ \/ entry' = 0 /\ NoFault /\ DisposedStore(a, TRUE)
       \/ entry' \in {0, entry} /\ Fault /\ DisposedStore(a, FALSE)
    /\ UNCHANGED <<file, lock, bumped, minted, confirmed, hostVars, pinVars>>

\* run_pair goes on to the mint, unless the key was to go to a store that did not answer;
\* run_revoke_all and revoke_host_key are done.
AfterDisposal(a) ==
    IF job[a].then = "file" \/ (job[a].then = "store" /\ job[a].cleared)
    THEN [pc |-> "mint", place |-> job[a].then] ELSE Idle

\* The last write of the disposal, the host-key marker every watch keys on.  Its failure loses
\* the notice only.
DisposeBump(a) ==
    /\ job[a].pc = "bump"
    /\ \/ bumped' = TRUE /\ moved' = [h \in Hosts |-> TRUE] /\ NoFault
       \/ Fault /\ UNCHANGED <<bumped, moved>>
    /\ confirmed' = IF job[a].gone /\ job[a].inUse > 0 THEN confirmed \cup {job[a].inUse} ELSE confirmed
    /\ lock' = None
    /\ Become(a, AfterDisposal(a))
    /\ Answer(a, IF job[a].gone THEN Revoked ELSE Fails("keychain_error"))
    /\ UNCHANGED <<file, entry, minted, port, inbox, watch, pinVars>>

\* dispose_locked, step by step.
Dispose(a) == DisposeFile(a) \/ DisposeStore(a) \/ DisposeBump(a)

\* run_revoke_all, and run_pair with --reset, past the typed phrase.
CliDispose(then) ==
    /\ job[Cli].pc = "idle"
    /\ then \in Places => minted < MaxKeys
    /\ Become(Cli, [pc |-> "dispose", then |-> then])
    /\ UNCHANGED <<file, entry, lock, bumped, minted, faults, confirmed,
                   hostVars, pinVars>>

\* run_pair without --reset.
CliPair(place) ==
    /\ job[Cli].pc = "idle" /\ minted < MaxKeys
    /\ Become(Cli, [pc |-> "mint", place |-> place])
    /\ UNCHANGED <<file, entry, lock, bumped, minted, faults, confirmed,
                   hostVars, pinVars>>

\* EnrollmentKey::mint, one lock hold: a key found in either place refuses, and so does a store
\* that does not answer when the key was to go there.
CliMint ==
    /\ job[Cli].pc = "mint" /\ lock = None
    /\ Become(Cli, Idle)
    /\ LET p == job[Cli].place
       IN  \/ /\ file = 0
              /\ IF entry = 0 THEN NoFault ELSE p = "file" /\ Fault
              /\ minted' = minted + 1
              /\ file'  = IF p = "file"  THEN minted' ELSE file
              /\ entry' = IF p = "store" THEN minted' ELSE entry
           \/ /\ IF InUse # 0 THEN NoFault ELSE p = "store" /\ Fault
              /\ UNCHANGED <<minted, file, entry>>
    /\ UNCHANGED <<lock, bumped, confirmed, hostVars, pinVars>>

-----------------------------------------------------------------------------
(* The native host: its main thread and its watch.                         *)

\* challenge_proof: a proof of the key lookup finds, or the reason there is none.
Proof(k, n) == CASE k > 0 -> [type |-> "proof", key |-> k, nonce |-> n]
                 [] k = 0 -> Fails("not_enrolled")
                 [] OTHER -> Fails("keychain_error")

\* handle_request, its two enclave arms: revoke_host_key starts a disposal, respond_to_challenge
\* answers at once.
HostTake(h) ==
    /\ job[h].pc = "idle" /\ inbox[h] # <<>>
    /\ inbox' = [inbox EXCEPT ![h] = Tail(@)]
    /\ LET f == Head(inbox[h])
       IN  \/ /\ f.type = "revoke"
              /\ Become(h, [pc |-> "dispose", then |-> "answer"])
              /\ NoFault /\ UNCHANGED outq
           \/ /\ f.type = "challenge"
              /\ \E k \in {InUse, Damaged} : Lookup(k) /\ Answer(h, Proof(k, f.nonce))
              /\ UNCHANGED job
    /\ UNCHANGED <<file, entry, lock, bumped, minted, confirmed, port, moved, watch, pinVars>>

\* Mutant: the startup posture is not announced, only later moves of the epoch are.
MutWatchRead(h) ==
    /\ watch[h] = "start" \/ (watch[h] = "idle" /\ moved[h])
    /\ moved' = [moved EXCEPT ![h] = FALSE]
    /\ watch' = [watch EXCEPT ![h] = IF bumped /\ watch[h] = "idle" THEN "look" ELSE "idle"]
    /\ UNCHANGED <<diskVars, port, inbox, outq, pinVars>>

\* spawn_trust_watch's startup and watch_tick: read the record, and only on a marker ever set, and
\* moved since the last reading, ask for the key.
WatchRead(h) ==
    /\ watch[h] = "start" \/ (watch[h] = "idle" /\ moved[h])
    /\ moved' = [moved EXCEPT ![h] = FALSE]
    /\ watch' = [watch EXCEPT ![h] = IF bumped THEN "look" ELSE "idle"]
    /\ UNCHANGED <<diskVars, port, inbox, outq, pinVars>>

\* enrollment_key_is_gone: a clean absence is the only one that counts.
WatchLook(h) ==
    /\ watch[h] = "look"
    /\ \E k \in {InUse, Damaged} :
          Lookup(k) /\ watch' = [watch EXCEPT ![h] = IF k = 0 THEN "push" ELSE "idle"]
    /\ UNCHANGED <<file, entry, lock, job, bumped, minted, confirmed, port, inbox, outq, moved, pinVars>>

\* push_revoked.
WatchPush(h) ==
    /\ watch[h] = "push"
    /\ Answer(h, Revoked)
    /\ watch' = [watch EXCEPT ![h] = "idle"]
    /\ UNCHANGED <<diskVars, port, inbox, moved, pinVars>>

\* A host without a port ends, at its end of input or killed in the middle of anything; the
\* operating system frees the lock.
HostEnds(h) ==
    /\ watch[h] # "dead" /\ port # h
    /\ watch' = [watch EXCEPT ![h] = "dead"]
    /\ inbox' = [inbox EXCEPT ![h] = <<>>]
    /\ Become(h, Idle)
    /\ lock' = IF lock = h THEN None ELSE lock
    /\ UNCHANGED <<file, entry, bumped, minted, faults, confirmed,
                   port, outq, moved, pinVars>>

\* The terminal process dies in the middle of anything.
CliDies ==
    /\ job[Cli].pc # "idle" /\ Fault
    /\ Become(Cli, Idle)
    /\ lock' = IF lock = Cli THEN None ELSE lock
    /\ UNCHANGED <<file, entry, bumped, minted, confirmed, hostVars, pinVars>>

-----------------------------------------------------------------------------
(* The extension: the ceremony over the port.                              *)

\* issueChallenge: one outstanding challenge, its nonce fresh and in memory only.
Challenge(mode) ==
    /\ outstanding = None /\ nonces < MaxNonces
    /\ nonces' = nonces + 1
    /\ outstanding' = [nonce |-> nonces', mode |-> mode]

ChallengeFrame == [type |-> "challenge", nonce |-> nonces']

\* Mutant: the request is sent once, by the unpair itself.
MutPendingFrames == <<>>

\* maybeSendPendingHostRevoke.
PendingFrames == IF revokePending THEN <<Revoke>> ELSE <<>>

\* connectNative and onPortConnected: the pending deletion is resent, then the ceremony goes on: a
\* pinned key may be due for its opt-in re-verification, an unpaired one is challenged unless a
\* proof is in hand or the user halted pairing.
Connect(h) ==
    /\ port = None /\ watch[h] = "dead" /\ lane = "idle"
    /\ port' = h
    /\ watch' = [watch EXCEPT ![h] = "start"]
    /\ moved' = [moved EXCEPT ![h] = FALSE]
    /\ \/ /\ inbox' = [inbox EXCEPT ![h] = PendingFrames]
          /\ ~compromised /\ pin = NoKey /\ pending = NoKey /\ ~paused => nonces = MaxNonces
          /\ UNCHANGED <<outstanding, nonces>>
       \/ /\ ~compromised /\ pin # NoKey
          /\ Challenge("verify")
          /\ inbox' = [inbox EXCEPT ![h] = Append(PendingFrames, ChallengeFrame)]
       \/ /\ ~compromised /\ pin = NoKey /\ pending = NoKey /\ ~paused
          /\ Challenge("pair")
          /\ inbox' = [inbox EXCEPT ![h] = Append(PendingFrames, ChallengeFrame)]
    /\ UNCHANGED <<diskVars, outq, pin, pending, compromised, paused, revokePending, lane, cut>>

\* Nothing is on its way over the port.
Quiet == inbox[port] = <<>> /\ outq[port] = <<>> /\ job[port] = Idle /\ watch[port] = "idle" /\ lane = "idle"

\* The port goes, with the worker or without it: the challenge dies with it, and so does the
\* transition a dying worker was in.
Disconnect ==
    /\ port # None
    /\ IF Quiet THEN NoFault ELSE Fault
    /\ port' = None
    /\ outq' = [outq EXCEPT ![port] = <<>>]
    /\ outstanding' = None
    /\ lane' \in {lane, "idle"}
    /\ UNCHANGED <<file, entry, lock, job, bumped, minted, confirmed, inbox, moved, watch, pin, pending, compromised, paused,
                   revokePending, nonces, cut>>

\* The 120 s timer of a challenge.
ChallengeTimeout ==
    /\ outstanding # None
    /\ outstanding' = None
    /\ UNCHANGED <<diskVars, hostVars, pin, pending, compromised, paused, revokePending, lane,
                   nonces, cut>>

\* handleProof.  The challenge is consumed by any proof; in pair mode a proof over its nonce is
\* staged unless a pin or a mark won in the meantime, in verify mode only the pinned key passes.
TakeProof(f) ==
    /\ f.type = "proof"
    /\ outstanding' = None
    /\ LET asked == outstanding
       IN  IF asked = None THEN UNCHANGED <<pending, compromised>>
           ELSE IF asked.mode = "pair"
           THEN /\ pending' = IF f.nonce = asked.nonce /\ pin = NoKey /\ ~compromised
                              THEN [key |-> f.key, nonce |-> f.nonce] ELSE pending
                /\ UNCHANGED compromised
           ELSE /\ compromised' = (compromised \/ (pin # NoKey /\ ~(f.nonce = asked.nonce /\ f.key = pin.key)))
                /\ UNCHANGED pending
    /\ UNCHANGED revokePending

\* handleError: not_enrolled answering a verify challenge is evidence, the rest is shown.
TakeError(f) ==
    /\ f.type = "error"
    /\ outstanding' = None
    /\ compromised' = (compromised \/ (outstanding # None /\ outstanding.mode = "verify" /\ f.reason = "not_enrolled"))
    /\ UNCHANGED <<pending, revokePending>>

\* handleRevoked: the acknowledgement of a deletion, or a notice that fails a pin closed.
TakeRevoked(f) ==
    /\ f.type = "revoked"
    /\ revokePending' = FALSE
    /\ compromised' = (compromised \/ pin # NoKey)
    /\ UNCHANGED <<pending, outstanding>>

\* handleEnclaveFrame, on the transition lane.
TakeFrame ==
    /\ lane = "idle" /\ port # None /\ outq[port] # <<>>
    /\ outq' = [outq EXCEPT ![port] = Tail(@)]
    /\ LET f == Head(outq[port]) IN TakeProof(f) \/ TakeError(f) \/ TakeRevoked(f)
    /\ UNCHANGED <<diskVars, port, inbox, moved, watch, pin, paused, lane, nonces, cut>>

Posting == lane = "idle" /\ port # None /\ Len(inbox[port]) < QueueCap

\* startPairing: the halt and the proof in hand go first, whether or not a challenge can be issued.
StartPairing ==
    /\ lane = "idle" /\ pin = NoKey /\ ~compromised
    /\ paused' = FALSE /\ pending' = NoKey
    /\ \/ /\ Posting /\ Challenge("pair")
          /\ inbox' = [inbox EXCEPT ![port] = Append(@, ChallengeFrame)]
       \/ /\ port = None \/ outstanding # None
          /\ UNCHANGED <<inbox, outstanding, nonces>>
    /\ UNCHANGED <<diskVars, port, outq, moved, watch, pin, compromised, revokePending, lane, cut>>

\* verifyPinnedNow.
VerifyNow ==
    /\ Posting /\ pin # NoKey /\ ~compromised
    /\ Challenge("verify")
    /\ inbox' = [inbox EXCEPT ![port] = Append(@, ChallengeFrame)]
    /\ UNCHANGED <<diskVars, port, outq, moved, watch, pin, pending, compromised, paused,
                   revokePending, lane, cut>>

\* approvePending: the pin is stored first, then the deletion request it supersedes is dropped.
Approve ==
    /\ lane = "idle" /\ pending # NoKey /\ pin = NoKey /\ ~compromised
    /\ pin' = pending
    /\ lane' = "approving"
    /\ UNCHANGED <<diskVars, hostVars, pending, compromised, paused, revokePending, outstanding,
                   nonces, cut>>

Approved ==
    /\ lane = "approving"
    /\ pending' = NoKey
    /\ revokePending' = FALSE
    /\ lane' = "idle"
    /\ UNCHANGED <<diskVars, hostVars, pin, compromised, paused, outstanding, nonces, cut>>

\* rejectPending.
Reject ==
    /\ lane = "idle" /\ pending # NoKey
    /\ pending' = NoKey /\ paused' = TRUE
    /\ UNCHANGED <<diskVars, hostVars, pin, compromised, revokePending, outstanding, lane, nonces, cut>>

\* Bounds on the user: there is something to revoke, and room for the request.
Revocable ==
    /\ lane = "idle"
    /\ pin # NoKey \/ pending # NoKey \/ outstanding # None \/ compromised
    /\ port # None => Len(inbox[port]) < QueueCap

\* Mutant: the unpair leaves the challenge in flight outstanding.
MutRevokePin ==
    /\ Revocable
    /\ pin' = NoKey /\ pending' = NoKey /\ compromised' = FALSE
    /\ cut' = nonces
    /\ lane' = "revoking"
    /\ UNCHANGED <<diskVars, hostVars, paused, revokePending, outstanding, nonces>>

\* revokePin: every ceremony record goes, then the durable request to delete the host's key.
RevokePin ==
    /\ Revocable
    /\ outstanding' = None
    /\ pin' = NoKey /\ pending' = NoKey /\ compromised' = FALSE
    /\ cut' = nonces
    /\ lane' = "revoking"
    /\ UNCHANGED <<diskVars, hostVars, paused, revokePending, nonces>>

RequestDeletion ==
    /\ lane = "revoking"
    /\ paused' = TRUE /\ revokePending' = TRUE
    /\ inbox' = IF port = None THEN inbox ELSE [inbox EXCEPT ![port] = Append(@, Revoke)]
    /\ lane' = "idle"
    /\ UNCHANGED <<diskVars, port, outq, moved, watch, pin, pending, compromised, outstanding,
                   nonces, cut>>

-----------------------------------------------------------------------------

Next ==
    \/ FileDamaged \/ CliMint \/ CliDies
    \/ \E t \in Places \cup {"all"} : CliDispose(t)
    \/ \E p \in Places : CliPair(p)
    \/ \E a \in Actors : Dispose(a)
    \/ \E h \in Hosts : \/ HostTake(h) \/ HostEnds(h) \/ Connect(h)
                        \/ WatchRead(h) \/ WatchLook(h) \/ WatchPush(h)
    \/ Disconnect \/ ChallengeTimeout \/ TakeFrame
    \/ StartPairing \/ VerifyNow \/ Approve \/ Approved \/ Reject
    \/ RevokePin \/ RequestDeletion

Spec == Init /\ [][Next]_vars

\* What the code's scheduling gives: threads and queued transitions run, a host
\* without a port ends, and the worker is respawned, port and all, every few
\* minutes (enrollment.ts: "MV3 respawns the host every few minutes").  The transition lane is
\* first-in first-out, so a frame waiting for it is served however busy the user keeps it.
\* Nothing is assumed of the user or of the terminal.
Fairness ==
    /\ WF_vars(Dispose(Cli) \/ CliMint)
    /\ \A h \in Hosts : /\ WF_vars(HostTake(h) \/ Dispose(h))
                        /\ WF_vars(WatchRead(h) \/ WatchLook(h) \/ WatchPush(h))
                        /\ WF_vars(HostEnds(h))
    /\ SF_vars(TakeFrame) /\ WF_vars(Approved \/ RequestDeletion)
    /\ WF_vars(\E h \in Hosts : Connect(h)) /\ WF_vars(Disconnect)

FairSpec == Spec /\ Fairness

-----------------------------------------------------------------------------
(* Properties.                                                             *)

TypeOK ==
    /\ minted \in Nat /\ file \in {Damaged} \cup 0 .. minted /\ entry \in 0 .. minted
    /\ lock \in Actors \cup {None} /\ port \in Hosts \cup {None}
    /\ confirmed \subseteq 1 .. minted
    /\ {pin, pending} \subseteq [key : 0 .. minted, nonce : 0 .. nonces]
    /\ compromised \in BOOLEAN /\ paused \in BOOLEAN /\ revokePending \in BOOLEAN
    /\ lane \in {"idle", "approving", "revoking"} /\ nonces \in Nat /\ cut \in 0 .. nonces

\* A key whose removal was confirmed, to the terminal or with an enclave_revoked frame, is in
\* neither place any more, however the store answered, whatever was minted since and wherever
\* a process died: EnrollmentKey::revoke confirms only what a read-back showed.
RevokedMeansGone == confirmed \cap {file, entry} = {}

\* What is pinned, or awaits approval, was proved over a challenge issued after the user last
\* revoked: a proof in flight across the revoke never resurrects the pairing, on this port or a
\* later one.
NoStaleProof == \A k \in {pin, pending} : k # NoKey => k.nonce > cut

\* A deletion request the extension owes the host is settled: resent on every connect, past lost
\* ports, dead hosts, failed removals and a store that does not answer.
RevokeSettles == revokePending ~> ~revokePending

\* A pin on a machine whose key is gone, with the epoch recorded, does not stay in force until
\* someone mints a new one: the marker is one reading, so a watch that met a silent store at that
\* reading relies on the next host's.
DeadKeyNoticed ==
    (InUse = 0 /\ bumped /\ pin # NoKey) ~> (InUse # 0 \/ pin = NoKey \/ compromised)

=============================================================================
