----------------------------- MODULE Election -----------------------------
(***************************************************************************)
(* Which server instance is the broker (mcp_server.rs, ipc/lockfile.rs,    *)
(* ipc/socket.rs; the Unix side): several instances start, publish the     *)
(* lock file and the socket or attach to the one that did, exit, and crash *)
(* at any point, with process ids reused.                                  *)
(*                                                                         *)
(* The runtime directory is the shared state: the socket path, the lock    *)
(* file, and the advisory lock on run.mutex, which a crash releases.       *)
(* Readers of the lock file do not take the mutex.                         *)
(***************************************************************************)
EXTENDS Naturals, FiniteSets

CONSTANTS
    Procs,     \* server instances; each may start again as a new process
    Pids,      \* process ids, reused freely
    Builds,    \* images a process runs: the releases of the binary, any other program
    Nobody,    \* no process / no pid / no file
    MaxTries   \* attempts of mcp_server::run (6 in the code)

ASSUME ElectionAssumption ==
    MaxTries \in Nat /\ Nobody \notin Procs /\ Nobody \notin Pids /\ Nobody \notin Builds

VARIABLES
    phase,     \* where each instance is in its run
    pid,       \* its process id (Nobody: not running)
    build,     \* the release it runs
    tries,     \* failed attempts so far
    dialed,    \* pid in the lock file it read before dialing
    peer,      \* the instance at the other end of its connection (Nobody: none, or it is gone)
    secret,    \* the secrets its handshake has read so far, the client's and the server's
    runs,      \* the image of each live process that is no server (Nobody: no such process): a
               \* native host or a command of some release, or an unrelated program
    lock,      \* the lock file: [pid, by], `by` being what the secret identifies
    sock,      \* the instance the socket path is bound to, alive or not
    mutex,     \* holder of run.mutex
    displaced  \* history: live brokers superseded by a process that could not verify them

electionVars == <<phase, pid, build, tries, dialed, peer, secret, runs, lock, sock, mutex, displaced>>
link == <<peer, secret>>
fileVars == <<lock, sock>>
procVars == <<pid, build, runs>>

Phases == {"off", "try", "judge", "unlink", "supersede", "bind", "write", "broker", "dial", "connect",
          "attest", "shake", "attach", "cleanup", "sweep", "retry", "relay", "closing", "remove"}

NoLock == [pid |-> Nobody, by |-> Nobody]
NoSecret == [client |-> Nobody, server |-> Nobody]

Alive(p)      == pid[p] # Nobody
PidIsAlive(i) == (i \in Pids /\ runs[i] # Nobody) \/ \E q \in Procs : pid[q] = i

\* What attest_pid compares, run by p: the pid runs p's own image, as a server or as any other
\* mode of the binary.  The measurement itself may fail, whatever runs there (Judge).
AttestPid(p, i) == (i \in Pids /\ runs[i] = build[p]) \/ \E q \in Procs : pid[q] = i /\ build[q] = build[p]

ElectionInit ==
    /\ phase = [p \in Procs |-> "off"]
    /\ pid = [p \in Procs |-> Nobody]
    /\ build \in [Procs -> Builds]
    /\ tries = [p \in Procs |-> 0]
    /\ dialed = [p \in Procs |-> Nobody]
    /\ peer = [p \in Procs |-> Nobody] /\ secret = [p \in Procs |-> NoSecret]
    /\ runs = [i \in Pids |-> Nobody]
    /\ lock = NoLock /\ sock = Nobody /\ mutex = Nobody
    /\ displaced = {}

Goto(p, from, to) == phase[p] = from /\ phase' = [phase EXCEPT ![p] = to]
AcquireRuntime(p) == mutex = Nobody /\ mutex' = p
ReleaseRuntime(p) == mutex' = Nobody

-----------------------------------------------------------------------------
(* Processes come and go.                                                  *)

Start(p, i) ==
    /\ ~PidIsAlive(i)
    /\ Goto(p, "off", "try")
    /\ pid' = [pid EXCEPT ![p] = i]
    /\ tries' = [tries EXCEPT ![p] = 0]
    /\ UNCHANGED <<build, dialed, link, runs, fileVars, mutex, displaced>>

\* A process that is no server takes a free pid, or ends.
Reuse(i, b) ==
    /\ ~\E q \in Procs : pid[q] = i
    /\ Nobody \in {runs[i], b}
    /\ runs' = [runs EXCEPT ![i] = b]
    /\ UNCHANGED <<phase, pid, build, tries, dialed, link, fileVars, mutex, displaced>>

\* The connection ends: nobody is at its other end, and what the handshake read is forgotten.
HangUp(p) == peer' = [peer EXCEPT ![p] = Nobody] /\ secret' = [secret EXCEPT ![p] = NoSecret]

\* The process is gone: its listener refuses, its connections end, its advisory lock is
\* released, and the files it left stay.
Gone(p) ==
    /\ phase' = [phase EXCEPT ![p] = "off"]
    /\ pid' = [pid EXCEPT ![p] = Nobody]
    /\ tries' = [tries EXCEPT ![p] = 0]
    /\ dialed' = [dialed EXCEPT ![p] = Nobody]
    /\ peer' = [q \in Procs |-> IF q = p \/ peer[q] = p THEN Nobody ELSE peer[q]]
    /\ secret' = [secret EXCEPT ![p] = NoSecret]
    /\ displaced' = displaced \ {p}

Crash(p) ==
    /\ Alive(p)
    /\ Gone(p)
    /\ mutex' = IF mutex = p THEN Nobody ELSE mutex
    /\ UNCHANGED <<build, runs, fileVars>>

-----------------------------------------------------------------------------
(* listen_and_publish: one critical section, a crash possible at each step. *)

LockRuntime(p) ==
    /\ Goto(p, "try", "judge")
    /\ AcquireRuntime(p)
    /\ UNCHANGED <<procVars, tries, dialed, link, fileVars, displaced>>

\* The lock names another live process ...
Claimed(p) == lock.pid \notin {Nobody, pid[p]} /\ PidIsAlive(lock.pid)

\* ... proven to run our own binary: the one case in which we may defer.
Defers(p) == Claimed(p) /\ AttestPid(p, lock.pid)

\* A lock nobody alive claims is cleared.  One of a live process is superseded when that process
\* runs another image, could not be measured, or the lock could not be read at all.
Judge(p) ==
    /\ \/ Defers(p) /\ Goto(p, "judge", "dial") /\ ReleaseRuntime(p)
       \/ Goto(p, "judge", IF Claimed(p) THEN "supersede" ELSE "unlink") /\ UNCHANGED mutex
    /\ UNCHANGED <<procVars, tries, dialed, link, fileVars, displaced>>

\* LockFile::remove, the socket path first; a live broker that is superseded here keeps its
\* connections and is no longer named.
UnlinkSocket(p) ==
    /\ \E from \in {"unlink", "supersede"} : Goto(p, from, "bind")
    /\ sock' = Nobody
    /\ displaced' = displaced \cup {q \in Procs : /\ phase[p] = "supersede" /\ lock.by = q
                                                   /\ phase[q] \in {"broker", "closing"}}
    /\ UNCHANGED <<procVars, tries, dialed, link, lock, mutex>>

\* ... then the lock; listen binds the path afresh.
Bind(p) ==
    /\ Goto(p, "bind", "write")
    /\ lock' = NoLock
    /\ sock' = p
    /\ UNCHANGED <<procVars, tries, dialed, link, mutex, displaced>>

WriteLock(p) ==
    /\ Goto(p, "write", "broker")
    /\ lock' = [pid |-> pid[p], by |-> p]
    /\ ReleaseRuntime(p)
    /\ UNCHANGED <<procVars, tries, dialed, link, sock, displaced>>

-----------------------------------------------------------------------------
(* run_relay after LostRace: connect, attest, handshake, attach.           *)

\* connect reads the lock file without the mutex, and may find none or fail to ...
ReadLock(p) ==
    /\ Goto(p, "dial", "retry") \/ (lock # NoLock /\ Goto(p, "dial", "connect"))
    /\ dialed' = [dialed EXCEPT ![p] = lock.pid]
    /\ UNCHANGED <<procVars, tries, link, fileVars, mutex, displaced>>

\* ... and dials the path: a listener that is alive takes the connection.
Listening == sock # Nobody /\ Alive(sock)

Connect(p) ==
    /\ IF Listening
       THEN Goto(p, "connect", "attest") /\ peer' = [peer EXCEPT ![p] = sock]
       ELSE Goto(p, "connect", "cleanup") /\ peer' = peer
    /\ UNCHANGED <<procVars, tries, dialed, secret, fileVars, mutex, displaced>>

\* RelayOutcome::Denied: the instance exits.
Denied(p) ==
    /\ Gone(p)
    /\ UNCHANGED <<build, runs, fileVars, mutex>>

\* RelayOutcome::Retry.
Broken(p, from) ==
    /\ Goto(p, from, "retry") /\ HangUp(p)
    /\ UNCHANGED <<procVars, tries, dialed, fileVars, mutex, displaced>>

SameRelease(p) == peer[p] # Nobody /\ build[peer[p]] = build[p]

\* attest_peer: the process at the other end runs our release.  One that is gone may have left
\* its pid to anybody, and one that cannot be measured is refused.
AttestPeer(p) ==
    \/ /\ SameRelease(p) /\ Goto(p, "attest", "shake")
       /\ UNCHANGED <<procVars, tries, dialed, link, fileVars, mutex, displaced>>
    \/ phase[p] = "attest" /\ Denied(p)
    \/ peer[p] = Nobody /\ Broken(p, "attest")

\* The server end answers once its accept loop runs, which is after it published.
Accepting(p) == peer[p] # Nobody /\ phase[peer[p]] \in {"broker", "closing", "remove"}

ReadSecret(p, end) ==
    /\ phase[p] = "shake" /\ secret[p][end] = Nobody
    /\ IF lock = NoLock
       THEN Broken(p, "shake")
       ELSE /\ secret' = [secret EXCEPT ![p][end] = lock.by]
            /\ UNCHANGED <<phase, procVars, tries, dialed, peer, fileVars, mutex, displaced>>

\* Each end takes the secret from the lock file as it is by then, the client before it reads the
\* challenge, the server before it sends it.
ClientHandshake(p) == ReadSecret(p, "client")
ServerHandshake(p) == Accepting(p) /\ ReadSecret(p, "server")

\* The MAC over the nonce verifies when both ends read one secret.
MacVerifies(p) == secret[p].client = secret[p].server

\* The response is verified; a MAC that does not verify, a read that timed out and a peer that is
\* gone are one EOF to us.
VerifyMac(p) ==
    \/ /\ Accepting(p) /\ Nobody \notin {secret[p].client, secret[p].server} /\ MacVerifies(p)
       /\ Goto(p, "shake", "attach")
       /\ UNCHANGED <<procVars, tries, dialed, link, fileVars, mutex, displaced>>
    \/ (peer[p] = Nobody \/ Accepting(p)) /\ Broken(p, "shake")

\* The broker admits us, refuses us for good, or is full or closing.
Attach(p) ==
    \/ /\ peer[p] # Nobody /\ phase[peer[p]] = "broker"
       /\ Goto(p, "attach", "relay")
       /\ UNCHANGED <<procVars, tries, dialed, link, fileVars, mutex, displaced>>
    \/ phase[p] = "attach" /\ peer[p] # Nobody /\ Denied(p)
    \/ Broken(p, "attach")

LockForCleanup(p) ==
    /\ Goto(p, "cleanup", "sweep")
    /\ AcquireRuntime(p)
    /\ UNCHANGED <<procVars, tries, dialed, link, fileVars, displaced>>

\* The lock is still the one dialed and its owner is dead (on Unix every lock
\* names the same endpoint, so the pid is what tells two apart).
Stale(p) == lock.pid = dialed[p] /\ ~PidIsAlive(lock.pid)

\* cleanup_stale_lock; a lock it cannot read stays.
CleanupStaleLock(p) ==
    /\ Goto(p, "sweep", "retry")
    /\ (Stale(p) /\ lock' = NoLock /\ sock' = Nobody) \/ UNCHANGED fileVars
    /\ ReleaseRuntime(p)
    /\ UNCHANGED <<procVars, tries, dialed, link, displaced>>

\* The loop of mcp_server::run: sleep and try again, or give up.
Retry(p) ==
    /\ phase[p] = "retry"
    /\ IF tries[p] + 1 < MaxTries
       THEN /\ Goto(p, "retry", "try")
            /\ tries' = [tries EXCEPT ![p] = @ + 1]
            /\ dialed' = [dialed EXCEPT ![p] = Nobody]
            /\ UNCHANGED <<pid, link, displaced>>
       ELSE Gone(p)
    /\ UNCHANGED <<build, runs, fileVars, mutex>>

\* An attached relay ends with its harness or its broker.
RelayExit(p) ==
    /\ phase[p] = "relay"
    /\ Gone(p)
    /\ UNCHANGED <<build, runs, fileVars, mutex>>

-----------------------------------------------------------------------------
(* The broker's exit: wait_zero returned, or SIGTERM.                      *)

BrokerStops(p) ==
    /\ Goto(p, "broker", "closing")
    /\ UNCHANGED <<procVars, tries, dialed, link, fileVars, mutex, displaced>>

LockForRemove(p) ==
    /\ Goto(p, "closing", "remove")
    /\ AcquireRuntime(p)
    /\ UNCHANGED <<procVars, tries, dialed, link, fileVars, displaced>>

\* Mutant: the exiting broker removes the files whoever they name.
MutOwnsAlways(p) == pid[p] # Nobody

Owns(p) == lock.pid = pid[p]

\* remove_if_owned, and the process exits; what it cannot read is left to the next start.
RemoveIfOwned(p) ==
    /\ phase[p] = "remove"
    /\ (Owns(p) /\ lock' = NoLock /\ sock' = Nobody) \/ UNCHANGED fileVars
    /\ Gone(p)
    /\ ReleaseRuntime(p)
    /\ UNCHANGED <<build, runs>>

-----------------------------------------------------------------------------
InstanceStep(p) ==
    \/ LockRuntime(p) \/ Judge(p) \/ UnlinkSocket(p) \/ Bind(p) \/ WriteLock(p)
    \/ ReadLock(p) \/ Connect(p) \/ AttestPeer(p) \/ ClientHandshake(p)
    \/ ServerHandshake(p) \/ VerifyMac(p) \/ Attach(p) \/ LockForCleanup(p) \/ CleanupStaleLock(p)
    \/ Retry(p) \/ RelayExit(p) \/ BrokerStops(p) \/ LockForRemove(p) \/ RemoveIfOwned(p)

ElectionNext ==
    \/ \E p \in Procs : InstanceStep(p) \/ Crash(p) \/ \E i \in Pids : Start(p, i)
    \/ \E i \in Pids, b \in Builds \cup {Nobody} : Reuse(i, b)

ElectionSpec == ElectionInit /\ [][ElectionNext]_electionVars

-----------------------------------------------------------------------------
(* Properties.                                                             *)

\* A live broker is the one the lock file and the socket path name, unless a
\* process that found its pid alive and could not verify it superseded it: no
\* crash, exit, stale cleanup or reused pid, and no takeover that took its lock
\* for a dead process's or its own, takes the files from under it.
BrokerNamed ==
    \A p \in Procs : phase[p] \in {"broker", "closing"} /\ p \notin displaced =>
        lock = [pid |-> pid[p], by |-> p] /\ sock = p
=============================================================================
