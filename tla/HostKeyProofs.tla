--------------------------- MODULE HostKeyProofs ---------------------------
(***************************************************************************)
(* What HostKey promises, for any number of hosts, keys, challenges and    *)
(* faults.                                                                 *)
(*                                                                         *)
(* Two invariants, one per half of the module.  Disk is about the key:     *)
(* whoever is past the first step of a disposal holds the lock, the file   *)
(* is gone, and what it is about to confirm is not the entry it leaves.    *)
(* Ceremony is about the pin: every challenge that is outstanding, and so  *)
(* every proof that can still be staged, is younger than the last revoke.  *)
(***************************************************************************)
EXTENDS HostKey, TLAPS

USE HostKeyAssumption DEF Actors, Damaged

Thens == Places \cup {"all", "answer"}

Jobs == {Idle} \cup [pc : {"dispose"}, then : Thens]
               \cup [pc : {"store"}, then : Thens, hadFile : BOOLEAN, inUse : Int]
               \cup [pc : {"bump"}, then : Thens, gone : BOOLEAN, cleared : BOOLEAN, inUse : Int]
               \cup [pc : {"mint"}, place : Places]

DiskType == /\ minted \in Nat /\ file \in {Damaged} \cup 0 .. minted /\ entry \in 0 .. minted
            /\ lock \in Actors \cup {None} /\ job \in [Actors -> Jobs]
            /\ confirmed \subseteq 1 .. minted

\* A disposal past its first step holds the lock.
Exclusive == \A a \in Actors : job[a].pc \in {"store", "bump"} => lock = a

\* No key is in both places: a mint writes one place, with a key of its own.
Distinct == file > 0 => file # entry

\* What a disposal remembers of the key it found, while it holds the lock: with a file, the key was
\* the file's and not the entry that stays; without one, it was the entry.
Remembers == \A a \in Actors :
    /\ job[a].pc \in {"store", "bump"} => file = 0 /\ job[a].inUse <= minted
    /\ job[a].pc = "store" => IF job[a].hadFile THEN job[a].inUse > 0 => job[a].inUse # entry
                                                ELSE job[a].inUse = entry
    /\ job[a].pc = "bump" /\ job[a].gone /\ job[a].inUse > 0 => job[a].inUse # entry

Disk == DiskType /\ Exclusive /\ Distinct /\ Remembers /\ RevokedMeansGone

LEMMA InitDisk == Init => Disk
BY DEF Init, Disk, DiskType, Exclusive, Distinct, Remembers, RevokedMeansGone, Jobs, Idle

LEMMA IdleJob == Idle \in Jobs /\ Idle.pc = "idle"
BY DEF Jobs, Idle

\* A step of one actor that leaves the key and the lock alone, and starts no disposal's second half.
LEMMA JobMoves ==
    ASSUME Disk, NEW a \in Actors, NEW j \in Jobs, Become(a, j),
           j.pc \notin {"store", "bump"}, UNCHANGED <<file, entry, minted, confirmed>>,
           lock' = lock \/ (lock = a /\ lock' = None)
    PROVE  Disk'
<1>1. DiskType'
  BY DEF Disk, DiskType, Become
<1>2. job'[a] = j /\ \A b \in Actors \ {a} : job'[b] = job[b]
  BY DEF Become, Disk, DiskType
<1>3. Exclusive'
  BY <1>2 DEF Disk, Exclusive
<1>4. Remembers'
  BY <1>2 DEF Disk, Remembers
<1> QED
  BY <1>1, <1>3, <1>4 DEF Disk, Distinct, RevokedMeansGone

LEMMA DisposeFileDisk ==
    ASSUME Disk, NEW a \in Actors, DisposeFile(a)
    PROVE  Disk'
<1> DEFINE j(had) == [pc |-> "store", then |-> job[a].then, hadFile |-> had, inUse |-> InUse]
<1>0. job[a].pc = "dispose" /\ lock = None /\ job[a].then \in Thens
  BY DEF DisposeFile, Disk, DiskType, Jobs, Idle
<1>1. CASE lock' = a /\ file' = 0 /\ Become(a, j(file # 0))
  <2>0. \E had \in BOOLEAN : Become(a, j(had)) /\ (had <=> file # 0)
    <3> HIDE DEF j
    <3>1. (file # 0) \in BOOLEAN
      OBVIOUS
    <3>2. Become(a, j(file # 0))
      BY <1>1
    <3> QED BY <3>1, <3>2, Zenon
  <2>a. PICK had \in BOOLEAN : Become(a, j(had)) /\ (had <=> file # 0)
    BY <2>0
  <2>1. UNCHANGED <<entry, minted, confirmed>>
    BY DEF DisposeFile
  <2>2. InUse \in Int /\ InUse <= minted
    BY DEF InUse, Disk, DiskType
  <2>3. j(had) \in Jobs
    BY <1>0, <2>2 DEF Jobs
  <2>4. DiskType'
    BY <1>1, <2>a, <2>1, <2>3 DEF Disk, DiskType, Become
  <2>5. job'[a] = j(had) /\ \A b \in Actors \ {a} : job'[b] = job[b]
    BY <2>a DEF Become, Disk, DiskType
  <2>6. \A b \in Actors : job[b].pc \notin {"store", "bump"}
    BY <1>0 DEF Disk, Exclusive
  <2>7. Exclusive'
    BY <1>1, <2>5, <2>6 DEF Exclusive
  <2>8. IF file # 0 THEN InUse > 0 => InUse # entry ELSE InUse = entry
    BY DEF InUse, Disk, Distinct
  <2>9. Remembers'
    <3>1. job'[a].pc = "store" /\ job'[a].inUse = InUse /\ job'[a].hadFile = had
      BY <2>5
    <3>2. \A b \in Actors \ {a} : job'[b].pc \notin {"store", "bump"}
      BY <2>5, <2>6
    <3>3. file' = 0 /\ entry' = entry /\ minted' = minted
      BY <1>1, <2>1
    <3> QED BY <2>a, <2>2, <2>8, <3>1, <3>2, <3>3 DEF Remembers
  <2> QED
    BY <1>1, <2>1, <2>4, <2>7, <2>9 DEF Disk, DiskType, Distinct, RevokedMeansGone
<1>2. CASE Become(a, Idle) /\ UNCHANGED <<lock, file>>
  BY <1>2, JobMoves, IdleJob DEF DisposeFile
<1> QED BY <1>1, <1>2 DEF DisposeFile

LEMMA DisposeStoreDisk ==
    ASSUME Disk, NEW a \in Actors, DisposeStore(a)
    PROVE  Disk'
<1> DEFINE j(c) == [pc |-> "bump", then |-> job[a].then, gone |-> job[a].hadFile \/ c,
                    cleared |-> c, inUse |-> job[a].inUse]
<1>0. /\ job[a].then \in Thens /\ job[a].hadFile \in BOOLEAN /\ job[a].inUse \in Int
      /\ job[a].pc = "store" /\ lock = a
  BY DEF DisposeStore, Disk, DiskType, Jobs, Idle, Exclusive
<1>1. UNCHANGED <<file, lock, minted, confirmed>>
  BY DEF DisposeStore
<1>2. PICK c \in BOOLEAN : Become(a, j(c)) /\ IF c THEN entry' = 0 ELSE entry' \in {0, entry}
  BY DEF DisposeStore, DisposedStore
<1>3. j(c) \in Jobs
  BY <1>0 DEF Jobs
<1>4. DiskType'
  BY <1>1, <1>2, <1>3 DEF Disk, DiskType, Become
<1>5. job'[a] = j(c) /\ \A b \in Actors \ {a} : job'[b] = job[b] /\ job[b].pc \notin {"store", "bump"}
  BY <1>0, <1>2 DEF Become, Disk, DiskType, Exclusive
<1>6. Exclusive'
  BY <1>0, <1>1, <1>5 DEF Exclusive
<1>7. Remembers'
  BY <1>0, <1>1, <1>2, <1>5 DEF Remembers, Disk
<1> QED
  BY <1>1, <1>2, <1>4, <1>6, <1>7 DEF Disk, DiskType, Distinct, RevokedMeansGone

LEMMA DisposeBumpDisk ==
    ASSUME Disk, NEW a \in Actors, DisposeBump(a)
    PROVE  Disk'
<1>1. /\ job[a].pc = "bump" /\ job[a].then \in Thens /\ job[a].inUse \in Int
      /\ lock = a /\ lock' = None /\ file = 0
      /\ UNCHANGED <<file, entry, minted>> /\ Become(a, AfterDisposal(a))
  BY DEF DisposeBump, Disk, DiskType, Jobs, Idle, Exclusive, Remembers
<1>2. AfterDisposal(a) \in Jobs /\ AfterDisposal(a).pc \notin {"store", "bump"}
  BY <1>1, IdleJob DEF AfterDisposal, Jobs, Places
<1>3. job'[a] = AfterDisposal(a) /\ \A b \in Actors \ {a} : job'[b] = job[b]
  BY <1>1 DEF Become, Disk, DiskType
<1>4. \A b \in Actors \ {a} : job[b].pc \notin {"store", "bump"}
  BY <1>1 DEF Disk, Exclusive
<1>5. confirmed' \subseteq 1 .. minted /\ confirmed' \cap {file, entry} = {}
  <2>1. CASE job[a].gone /\ job[a].inUse > 0
    <3>1. job[a].inUse \in 1 .. minted /\ job[a].inUse # entry
      BY <1>1, <2>1 DEF Disk, DiskType, Remembers
    <3>2. confirmed' = confirmed \cup {job[a].inUse}
      BY <2>1 DEF DisposeBump
    <3>3. job[a].inUse \notin {file, entry}
      BY <1>1, <3>1
    <3>4. confirmed \subseteq 1 .. minted /\ confirmed \cap {file, entry} = {}
      BY DEF Disk, DiskType, RevokedMeansGone
    <3> QED BY <3>1, <3>2, <3>3, <3>4, Zenon
  <2>2. CASE ~(job[a].gone /\ job[a].inUse > 0)
    BY <2>2 DEF DisposeBump, Disk, DiskType, RevokedMeansGone
  <2> QED BY <2>1, <2>2
<1>6. DiskType'
  BY <1>1, <1>2, <1>5 DEF Disk, DiskType, Become
<1>7. Exclusive' /\ Remembers'
  BY <1>2, <1>3, <1>4 DEF Exclusive, Remembers
<1> QED
  BY <1>1, <1>5, <1>6, <1>7 DEF Disk, Distinct, RevokedMeansGone

\* A mint takes a fresh key while nobody disposes of one.
LEMMA CliMintDisk ==
    ASSUME Disk, CliMint
    PROVE  Disk'
<1>1. /\ job[Cli].pc = "mint" /\ job[Cli].place \in Places /\ lock = None /\ lock' = None
      /\ Become(Cli, Idle) /\ UNCHANGED confirmed
  BY DEF CliMint, Disk, DiskType, Jobs, Idle
<1>2. CASE UNCHANGED <<minted, file, entry>>
  BY <1>1, <1>2, JobMoves, IdleJob
<1>3. CASE /\ minted' = minted + 1 /\ file = 0
           /\ file'  = IF job[Cli].place = "file"  THEN minted' ELSE file
           /\ entry' = IF job[Cli].place = "store" THEN minted' ELSE entry
  <2>1. DiskType'
    BY <1>1, <1>3, IdleJob DEF Disk, DiskType, Become
  <2>2. \A b \in Actors : job'[b].pc \notin {"store", "bump"}
    BY <1>1, IdleJob DEF Become, Disk, DiskType, Exclusive
  <2>3. Exclusive' /\ Remembers'
    BY <2>2 DEF Exclusive, Remembers
  <2>4. minted' \notin confirmed /\ 0 \notin confirmed
    BY <1>3 DEF Disk, DiskType
  <2>5. Distinct' /\ RevokedMeansGone'
    BY <1>1, <1>3, <2>4 DEF Disk, DiskType, Distinct, RevokedMeansGone, Places
  <2> QED BY <2>1, <2>3, <2>5 DEF Disk
<1> QED BY <1>2, <1>3 DEF CliMint

\* A damaged file is no key's: nothing that was confirmed comes back.
LEMMA FileDamagedDisk ==
    ASSUME Disk, FileDamaged
    PROVE  Disk'
<1>1. /\ file > 0 /\ file' = Damaged
      /\ UNCHANGED <<entry, lock, job, minted, confirmed>>
  BY DEF FileDamaged
<1> QED
  BY <1>1 DEF Disk, DiskType, Exclusive, Distinct, Remembers, RevokedMeansGone

LEMMA DiskKept ==
    ASSUME Disk, UNCHANGED <<file, entry, lock, job, minted, confirmed>>
    PROVE  Disk'
BY DEF Disk, DiskType, Exclusive, Distinct, Remembers, RevokedMeansGone

LEMMA NextDisk == Disk /\ [Next]_vars => Disk'
<1> SUFFICES ASSUME Disk, [Next]_vars PROVE Disk'
  OBVIOUS
<1>1. ASSUME NEW t \in Places \cup {"all"}, CliDispose(t) PROVE Disk'
  <2>1. [pc |-> "dispose", then |-> t] \in Jobs
    BY DEF Jobs, Thens
  <2> QED BY <1>1, <2>1, JobMoves DEF CliDispose
<1>2. ASSUME NEW p \in Places, CliPair(p) PROVE Disk'
  <2>1. [pc |-> "mint", place |-> p] \in Jobs
    BY DEF Jobs
  <2> QED BY <1>2, <2>1, JobMoves DEF CliPair
<1>3. ASSUME NEW h \in Hosts, HostTake(h) PROVE Disk'
  <2>0. UNCHANGED <<file, entry, lock, minted, confirmed>>
    BY <1>3 DEF HostTake
  <2>1. [pc |-> "dispose", then |-> "answer"] \in Jobs
    BY DEF Jobs, Thens
  <2>2. CASE Become(h, [pc |-> "dispose", then |-> "answer"])
    BY <2>0, <2>1, <2>2, JobMoves
  <2>3. CASE UNCHANGED job
    BY <2>0, <2>3, DiskKept
  <2> QED BY <1>3, <2>2, <2>3 DEF HostTake
<1>4. ASSUME NEW h \in Hosts, HostEnds(h) PROVE Disk'
  BY <1>4, JobMoves, IdleJob DEF HostEnds
<1>5. CASE CliDies
  BY <1>5, JobMoves, IdleJob DEF CliDies
<1>6. ASSUME NEW h \in Hosts, Connect(h) \/ WatchRead(h) \/ WatchLook(h) \/ WatchPush(h) PROVE Disk'
  BY <1>6, DiskKept DEF Connect, WatchRead, WatchLook, WatchPush, diskVars
<1>7. CASE \/ Disconnect \/ ChallengeTimeout \/ TakeFrame \/ StartPairing \/ VerifyNow \/ Approve
           \/ Approved \/ Reject \/ RevokePin \/ RequestDeletion
  BY <1>7, DiskKept DEF Disconnect, ChallengeTimeout, TakeFrame, StartPairing, VerifyNow, Approve,
     Approved, Reject, RevokePin, RequestDeletion, diskVars
<1>8. CASE UNCHANGED vars
  BY <1>8, DiskKept DEF vars, diskVars
<1>9. ASSUME NEW a \in Actors, Dispose(a) PROVE Disk'
  BY <1>9, DisposeFileDisk, DisposeStoreDisk, DisposeBumpDisk DEF Dispose
<1> QED
  BY <1>1, <1>2, <1>3, <1>4, <1>5, <1>6, <1>7, <1>8, <1>9, CliMintDisk, FileDamagedDisk DEF Next

\* RevokedMeansGone, for any number of hosts, keys and faults: EnrollmentKey::revoke, interleaved
\* with mints, lookups, process deaths and a store that does not answer, never confirms the removal
\* of a key that is still in host_key.json or in the credential store.
THEOREM HostKeyRevokedGone == Spec => []RevokedMeansGone
<1>1. Spec => []Disk
  BY InitDisk, NextDisk, PTL DEF Spec
<1>2. Disk => RevokedMeansGone
  BY DEF Disk
<1> QED BY <1>1, <1>2, PTL

-----------------------------------------------------------------------------
(* The ceremony.                                                           *)

InFrames(n) == {Revoke} \cup [type : {"challenge"}, nonce : 1 .. n]
OutFrames(m, n) == [type : {"proof"}, key : 1 .. m, nonce : 1 .. n]
                     \cup [type : {"error"}, reason : {"keychain_error", "not_enrolled"}]
                     \cup {Revoked}

\* The frames on the wire: a proof is of a minted key, over a nonce that was issued.
Wire == /\ port \in Hosts \cup {None}
        /\ inbox \in [Hosts -> Seq(InFrames(nonces))]
        /\ outq \in [Hosts -> Seq(OutFrames(minted, nonces))]

Keys == [key : 0 .. minted, nonce : 0 .. nonces]

PinType == /\ nonces \in Nat /\ cut \in 0 .. nonces
           /\ pin \in Keys /\ pending \in Keys
           /\ compromised \in BOOLEAN /\ paused \in BOOLEAN /\ revokePending \in BOOLEAN
           /\ lane \in {"idle", "approving", "revoking"}

\* The challenge in memory is younger than the last revoke, which took every older one with it.
Young == outstanding # None =>
            /\ outstanding \in [nonce : 1 .. nonces, mode : {"pair", "verify"}]
            /\ outstanding.nonce > cut

Ceremony == Wire /\ PinType /\ Young /\ NoStaleProof

LEMMA InitCeremony == Init => Ceremony
<1> SUFFICES ASSUME Init PROVE Ceremony
  OBVIOUS
<1>1. Wire
  BY DEF Init, Wire
<1>2. PinType
  <2>1. minted = 0 /\ nonces = 0 /\ pin = NoKey /\ pending = NoKey
    BY DEF Init
  <2>2. NoKey \in Keys
    BY <2>1 DEF Keys, NoKey
  <2>3. compromised \in BOOLEAN /\ paused \in BOOLEAN /\ revokePending \in BOOLEAN
    BY Zenon DEF Init
  <2>4. nonces \in Nat /\ cut \in 0 .. nonces /\ lane = "idle"
    BY DEF Init
  <2> QED BY <2>1, <2>2, <2>3, <2>4, Zenon DEF PinType
<1>3. Young /\ NoStaleProof
  BY DEF Init, Young, NoStaleProof
<1> QED BY <1>1, <1>2, <1>3 DEF Ceremony

LEMMA SeqGrows ==
    ASSUME NEW S, NEW T, S \subseteq T, NEW s \in Seq(S)
    PROVE  s \in Seq(T)
OBVIOUS

LEMMA QueuesGrow ==
    ASSUME NEW S, NEW T, S \subseteq T, NEW q \in [Hosts -> Seq(S)]
    PROVE  q \in [Hosts -> Seq(T)]
BY SeqGrows

LEMMA FramesGrow ==
    ASSUME NEW m \in Nat, NEW n \in Nat, NEW m1 \in Nat, NEW n1 \in Nat, m <= m1, n <= n1
    PROVE  InFrames(n) \subseteq InFrames(n1) /\ OutFrames(m, n) \subseteq OutFrames(m1, n1)
BY DEF InFrames, OutFrames

\* A step that puts no frame of its own on the wire but may take some off, with room for new keys.
LEMMA WireKept ==
    ASSUME NEW m \in Nat, NEW n \in Nat, n <= nonces', m <= minted',
           nonces' \in Nat, minted' \in Nat, port' \in Hosts \cup {None},
           inbox' \in [Hosts -> Seq(InFrames(n))],
           outq' \in [Hosts -> Seq(OutFrames(m, n))]
    PROVE  Wire'
<1>1. InFrames(n) \subseteq InFrames(nonces') /\ OutFrames(m, n) \subseteq OutFrames(minted', nonces')
  BY FramesGrow
<1>2. inbox' \in [Hosts -> Seq(InFrames(nonces'))]
  BY <1>1, QueuesGrow
<1>3. outq' \in [Hosts -> Seq(OutFrames(minted', nonces'))]
  BY <1>1, QueuesGrow
<1> QED BY <1>2, <1>3 DEF Wire

\* An answer reaches the queue of the host that gave it, or nobody.
LEMMA Answered ==
    ASSUME NEW S, outq \in [Hosts -> Seq(S)], port \in Hosts \cup {None},
           NEW a \in Actors, NEW f \in S, Answer(a, f)
    PROVE  outq' \in [Hosts -> Seq(S)]
<1>1. CASE a # port
  BY <1>1 DEF Answer
<1>2. CASE a = port
  <2>1. a \in Hosts
    BY <1>2
  <2>2. Append(outq[a], f) \in Seq(S)
    BY <2>1
  <2> QED BY <1>2, <2>1, <2>2 DEF Answer
<1> QED BY <1>1, <1>2

LEMMA PinTypeGrows ==
    ASSUME PinType, minted \in Nat, minted' \in Nat, minted <= minted', UNCHANGED pinVars
    PROVE  PinType'
<1>1. UNCHANGED <<pin, pending, compromised, paused, revokePending, lane, nonces, cut>>
  BY DEF pinVars
<1>2. pin' \in Keys' /\ pending' \in Keys'
  BY <1>1 DEF PinType, Keys
<1> QED BY <1>1, <1>2 DEF PinType

\* The key's side and the hosts: the pin is not theirs, and what they say is well formed.
LEMMA PinKept ==
    ASSUME Ceremony, DiskType, DiskType', minted <= minted', UNCHANGED pinVars,
           port' \in Hosts \cup {None}, inbox' \in [Hosts -> Seq(InFrames(nonces))],
           outq' \in [Hosts -> Seq(OutFrames(minted, nonces))]
    PROVE  Ceremony'
<1>1. minted \in Nat /\ minted' \in Nat /\ nonces \in Nat /\ nonces' = nonces
  BY DEF Ceremony, DiskType, PinType, pinVars
<1>2. Wire'
  <2>1. nonces <= nonces' /\ nonces' \in Nat
    BY <1>1
  <2> QED BY <1>1, <2>1, WireKept
<1>3. PinType'
  BY <1>1, PinTypeGrows DEF Ceremony
<1>4. Young' /\ NoStaleProof'
  BY DEF Ceremony, Young, NoStaleProof, pinVars
<1> QED BY <1>2, <1>3, <1>4 DEF Ceremony

LEMMA MintedGrows ==
    ASSUME Disk, [Next]_vars
    PROVE  DiskType /\ DiskType' /\ minted \in Nat /\ minted' \in Nat /\ (minted' = minted \/ CliMint)
<1>1. DiskType /\ DiskType' /\ minted \in Nat /\ minted' \in Nat
  BY NextDisk DEF Disk, DiskType
<1>2. minted' = minted \/ CliMint
  BY DEF Next, vars, diskVars, FileDamaged, CliDies, CliDispose, CliPair, Dispose, DisposeFile,
     DisposeStore, DisposeBump, HostTake, HostEnds, Connect, WatchRead, WatchLook, WatchPush,
     Disconnect, ChallengeTimeout, TakeFrame, StartPairing, VerifyNow, Approve, Approved, Reject,
     RevokePin, RequestDeletion
<1> QED BY <1>1, <1>2

\* The steps on the key and in the hosts.
LEMMA HostSideCeremony ==
    ASSUME Disk, Ceremony, [Next]_vars,
           \/ FileDamaged \/ CliMint \/ CliDies
           \/ \E t \in Places \cup {"all"} : CliDispose(t)
           \/ \E p \in Places : CliPair(p)
           \/ \E a \in Actors : Dispose(a)
           \/ \E h \in Hosts : HostTake(h) \/ HostEnds(h) \/ WatchRead(h) \/ WatchLook(h) \/ WatchPush(h)
    PROVE  Ceremony'
<1> DEFINE In == InFrames(nonces)
           Out == OutFrames(minted, nonces)
<1>1. /\ DiskType /\ DiskType' /\ minted \in Nat /\ minted' \in Nat /\ nonces \in Nat
      /\ port \in Hosts \cup {None} /\ inbox \in [Hosts -> Seq(In)] /\ outq \in [Hosts -> Seq(Out)]
  BY MintedGrows DEF Ceremony, Wire, PinType
<1>2. minted <= minted'
  BY <1>1, MintedGrows DEF CliMint
<1>3. Revoked \in Out /\ Fails("keychain_error") \in Out /\ Fails("not_enrolled") \in Out
  BY DEF OutFrames, Fails
<1>4. SUFFICES /\ UNCHANGED pinVars /\ port' \in Hosts \cup {None}
               /\ inbox' \in [Hosts -> Seq(In)] /\ outq' \in [Hosts -> Seq(Out)]
  BY <1>1, <1>2, PinKept
<1> HIDE DEF In, Out
<1>5. CASE FileDamaged \/ CliMint \/ CliDies
  BY <1>1, <1>5 DEF FileDamaged, CliMint, CliDies, hostVars
<1>6. ASSUME NEW t, CliDispose(t) \/ CliPair(t)
      PROVE  UNCHANGED <<pinVars, port, inbox, outq>>
  BY <1>6 DEF CliDispose, CliPair, hostVars
<1>7. ASSUME NEW a \in Actors, DisposeFile(a)
      PROVE  UNCHANGED <<pinVars, port, inbox>> /\ outq' \in [Hosts -> Seq(Out)]
  <2>1. UNCHANGED <<pinVars, port, inbox>>
    BY <1>7 DEF DisposeFile
  <2>2. UNCHANGED outq \/ Answer(a, Fails("keychain_error"))
    BY <1>7 DEF DisposeFile
  <2> QED BY <1>1, <1>3, <2>1, <2>2, Answered
<1>8. ASSUME NEW a \in Actors, DisposeStore(a)
      PROVE  UNCHANGED <<pinVars, port, inbox, outq>>
  BY <1>8 DEF DisposeStore, hostVars
<1>9. ASSUME NEW a \in Actors, DisposeBump(a)
      PROVE  UNCHANGED <<pinVars, port, inbox>> /\ outq' \in [Hosts -> Seq(Out)]
  <2>1. UNCHANGED <<pinVars, port, inbox>>
    BY <1>9 DEF DisposeBump
  <2>2. \E f \in Out : Answer(a, f)
    BY <1>3, <1>9 DEF DisposeBump
  <2> QED BY <1>1, <2>1, <2>2, Answered
<1>10. ASSUME NEW h \in Hosts, HostTake(h)
       PROVE  /\ UNCHANGED <<pinVars, port>>
              /\ inbox' \in [Hosts -> Seq(In)] /\ outq' \in [Hosts -> Seq(Out)]
  <2>1. UNCHANGED <<pinVars, port>> /\ inbox[h] # <<>> /\ inbox' = [inbox EXCEPT ![h] = Tail(@)]
    BY <1>10 DEF HostTake
  <2>2. inbox' \in [Hosts -> Seq(In)]
    BY <1>1, <2>1
  <2>3. Head(inbox[h]) \in In
    BY <1>1, <2>1
  <2>4. CASE UNCHANGED outq
    BY <1>1, <2>1, <2>2, <2>4
  <2>5. ASSUME NEW k \in {InUse, -1}, Head(inbox[h]).type = "challenge",
               Answer(h, Proof(k, Head(inbox[h]).nonce))
        PROVE  outq' \in [Hosts -> Seq(Out)]
    <3>1. Head(inbox[h]).nonce \in 1 .. nonces
      BY <2>3, <2>5 DEF In, InFrames, Revoke
    <3>2. k \in Int /\ k <= minted
      BY <1>1 DEF InUse, DiskType
    <3>3. CASE k > 0
      <4>1. [type |-> "proof", key |-> k, nonce |-> Head(inbox[h]).nonce] \in Out
        BY <3>1, <3>2, <3>3 DEF Out, OutFrames
      <4>2. Proof(k, Head(inbox[h]).nonce) = [type |-> "proof", key |-> k, nonce |-> Head(inbox[h]).nonce]
        BY <3>2, <3>3 DEF Proof
      <4> QED BY <1>1, <2>5, <4>1, <4>2, Answered
    <3>4. CASE k = 0
      <4>1. Proof(k, Head(inbox[h]).nonce) = Fails("not_enrolled")
        BY <3>4 DEF Proof
      <4> QED BY <1>1, <1>3, <2>5, <4>1, Answered
    <3>5. CASE k < 0
      <4>1. Proof(k, Head(inbox[h]).nonce) = Fails("keychain_error")
        BY <3>2, <3>5 DEF Proof
      <4> QED BY <1>1, <1>3, <2>5, <4>1, Answered
    <3> QED BY <3>2, <3>3, <3>4, <3>5
  <2> QED BY <1>10, <2>1, <2>2, <2>4, <2>5 DEF HostTake
<1>11. ASSUME NEW h \in Hosts, HostEnds(h)
       PROVE  UNCHANGED <<pinVars, port, outq>> /\ inbox' \in [Hosts -> Seq(In)]
  BY <1>1, <1>11 DEF HostEnds
<1>12. ASSUME NEW h \in Hosts, WatchRead(h) \/ WatchLook(h)
       PROVE  UNCHANGED <<pinVars, port, inbox, outq>>
  BY <1>12 DEF WatchRead, WatchLook
<1>13. ASSUME NEW h \in Hosts, WatchPush(h)
       PROVE  UNCHANGED <<pinVars, port, inbox>> /\ outq' \in [Hosts -> Seq(Out)]
  <2>1. UNCHANGED <<pinVars, port, inbox>> /\ Answer(h, Revoked)
    BY <1>13 DEF WatchPush
  <2> QED BY <1>1, <1>3, <2>1, Answered
<1> QED
  BY <1>1, <1>5, <1>6, <1>7, <1>8, <1>9, <1>10, <1>11, <1>12, <1>13 DEF Dispose

\* A challenge: the nonce is fresh, so it is younger than any revoke.
LEMMA Challenged ==
    ASSUME PinType, Young, Challenge("pair") \/ Challenge("verify"), UNCHANGED cut
    PROVE  /\ Young' /\ nonces' = nonces + 1 /\ nonces' \in Nat /\ cut' \in 0 .. nonces'
           /\ ChallengeFrame \in InFrames(nonces')
<1>1. /\ nonces \in Nat /\ nonces' = nonces + 1 /\ cut' \in 0 .. nonces
      /\ outstanding' = [nonce |-> nonces', mode |-> "pair"] \/ outstanding' = [nonce |-> nonces', mode |-> "verify"]
  BY DEF Challenge, PinType
<1>2. Young'
  BY <1>1 DEF Young
<1>3. ChallengeFrame \in InFrames(nonces')
  BY <1>1 DEF ChallengeFrame, InFrames
<1> QED BY <1>1, <1>2, <1>3

\* The records stay typed when keys are the old ones, no key or a proof of a minted one.
LEMMA KeysKept ==
    ASSUME PinType, minted \in Nat, UNCHANGED minted, nonces' \in Nat, nonces <= nonces'
    PROVE  /\ pin \in Keys' /\ pending \in Keys' /\ NoKey \in Keys'
           /\ \A m \in 1 .. minted, n \in 1 .. nonces : [key |-> m, nonce |-> n] \in Keys'
BY DEF PinType, Keys, NoKey

LEMMA ConnectCeremony ==
    ASSUME Disk, Ceremony, NEW h \in Hosts, Connect(h)
    PROVE  Ceremony'
<1>1. /\ minted \in Nat /\ minted' = minted /\ port' = h
      /\ UNCHANGED <<outq, pin, pending, compromised, paused, revokePending, lane, cut>>
  BY DEF Connect, Disk, DiskType, diskVars
<1>2. PinType /\ Young /\ NoStaleProof /\ Wire /\ nonces \in Nat
  BY DEF Ceremony, PinType
<1>3. NoStaleProof'
  BY <1>1, <1>2 DEF NoStaleProof
<1>4. \A n \in Nat : PendingFrames \in Seq(InFrames(n))
  <2> SUFFICES ASSUME NEW n \in Nat PROVE PendingFrames \in Seq(InFrames(n))
    OBVIOUS
  <2>1. Revoke \in InFrames(n)
    BY DEF InFrames
  <2>2. <<Revoke>> \in Seq(InFrames(n)) /\ <<>> \in Seq(InFrames(n))
    BY <2>1
  <2> QED BY <2>2, Zenon DEF PendingFrames
<1>5. CASE inbox' = [inbox EXCEPT ![h] = PendingFrames] /\ UNCHANGED <<outstanding, nonces>>
  <2>1. inbox' \in [Hosts -> Seq(InFrames(nonces))]
    BY <1>2, <1>4, <1>5 DEF Wire
  <2>2. Wire'
    BY <1>1, <1>5, <2>1 DEF Ceremony, Wire
  <2>3. PinType' /\ Young'
    BY <1>1, <1>2, <1>5, KeysKept DEF PinType, Young
  <2> QED BY <1>3, <2>2, <2>3 DEF Ceremony
<1>6. CASE /\ Challenge("verify") \/ Challenge("pair")
           /\ inbox' = [inbox EXCEPT ![h] = Append(PendingFrames, ChallengeFrame)]
  <2>1. /\ Young' /\ nonces' = nonces + 1 /\ nonces' \in Nat /\ cut' \in 0 .. nonces'
        /\ ChallengeFrame \in InFrames(nonces')
    BY <1>1, <1>2, <1>6, Challenged
  <2>2. /\ inbox \in [Hosts -> Seq(InFrames(nonces'))]
        /\ outq' \in [Hosts -> Seq(OutFrames(minted', nonces'))]
    BY <1>1, <1>2, <2>1, FramesGrow, QueuesGrow DEF Wire
  <2>3. inbox' \in [Hosts -> Seq(InFrames(nonces'))]
    <3>1. Append(PendingFrames, ChallengeFrame) \in Seq(InFrames(nonces'))
      BY <1>4, <2>1
    <3> QED BY <1>6, <2>2, <3>1
  <2>4. Wire'
    BY <1>1, <2>2, <2>3 DEF Wire
  <2>5. PinType'
    BY <1>1, <1>2, <2>1, KeysKept DEF PinType
  <2> QED BY <1>3, <2>1, <2>4, <2>5 DEF Ceremony
<1> QED BY <1>5, <1>6 DEF Connect

\* startPairing and verifyPinnedNow.
LEMMA AskCeremony ==
    ASSUME Disk, Ceremony, StartPairing \/ VerifyNow, nonces' # nonces
    PROVE  Ceremony'
<1>1. /\ minted \in Nat /\ minted' = minted /\ port \in Hosts /\ port' = port
      /\ Challenge("verify") \/ Challenge("pair")
      /\ inbox' = [inbox EXCEPT ![port] = Append(@, ChallengeFrame)]
      /\ pending' \in {pending, NoKey} /\ paused' \in {paused, FALSE}
      /\ UNCHANGED <<outq, pin, compromised, revokePending, lane, cut>>
  BY DEF StartPairing, VerifyNow, Posting, Ceremony, Wire, Disk, DiskType, diskVars
<1>2. PinType /\ Young /\ NoStaleProof /\ Wire /\ nonces \in Nat
  BY DEF Ceremony, PinType
<1>3. NoStaleProof'
  BY <1>1, <1>2 DEF NoStaleProof
<1>4. /\ Young' /\ nonces' = nonces + 1 /\ nonces' \in Nat /\ cut' \in 0 .. nonces'
      /\ ChallengeFrame \in InFrames(nonces')
  BY <1>1, <1>2, Challenged
<1>5. /\ inbox \in [Hosts -> Seq(InFrames(nonces'))]
      /\ outq' \in [Hosts -> Seq(OutFrames(minted', nonces'))]
  BY <1>1, <1>2, <1>4, FramesGrow, QueuesGrow DEF Wire
<1>6. inbox' \in [Hosts -> Seq(InFrames(nonces'))]
  BY <1>1, <1>4, <1>5
<1>7. Wire'
  BY <1>1, <1>5, <1>6 DEF Wire
<1>8. PinType'
  <2>1. pin' \in Keys' /\ pending' \in Keys'
    BY <1>1, <1>2, <1>4, KeysKept
  <2>2. compromised' \in BOOLEAN /\ paused' \in BOOLEAN /\ revokePending' \in BOOLEAN
    BY <1>1, <1>2, Zenon DEF PinType
  <2> QED BY <1>1, <1>2, <1>4, <2>1, <2>2 DEF PinType
<1> QED BY <1>3, <1>4, <1>7, <1>8 DEF Ceremony

\* startPairing where no challenge can be issued.
LEMMA NotAskedCeremony ==
    ASSUME Disk, Ceremony, StartPairing, nonces' = nonces
    PROVE  Ceremony'
<1>1. PinType /\ Young /\ NoStaleProof /\ Wire /\ nonces \in Nat
  BY DEF Ceremony, PinType
<1>2. /\ minted \in Nat /\ minted' = minted /\ pending' = NoKey /\ paused' = FALSE
      /\ UNCHANGED <<port, outq, pin, compromised, revokePending, lane, cut>>
  BY DEF StartPairing, Disk, DiskType, diskVars
<1>3. UNCHANGED <<inbox, outstanding, nonces>>
  BY <1>1 DEF StartPairing, Challenge
<1>4. Wire'
  BY <1>1, <1>2, <1>3 DEF Wire
<1>5. Young' /\ NoStaleProof'
  BY <1>1, <1>2, <1>3 DEF Young, NoStaleProof
<1>6. PinType'
  <2>1. pin' \in Keys' /\ pending' \in Keys'
    BY <1>1, <1>2, <1>3, KeysKept
  <2>2. compromised' \in BOOLEAN /\ paused' \in BOOLEAN /\ revokePending' \in BOOLEAN
    BY <1>1, <1>2, Zenon DEF PinType
  <2> QED BY <1>1, <1>2, <1>3, <2>1, <2>2 DEF PinType
<1> QED BY <1>4, <1>5, <1>6 DEF Ceremony

\* handleEnclaveFrame: what is staged was proved over the challenge that is outstanding.
LEMMA TakeFrameCeremony ==
    ASSUME Disk, Ceremony, TakeFrame
    PROVE  Ceremony'
<1> DEFINE f == Head(outq[port])
<1>1. /\ minted \in Nat /\ minted' = minted /\ port \in Hosts /\ port' = port
      /\ outq[port] # <<>> /\ outq' = [outq EXCEPT ![port] = Tail(@)]
      /\ TakeProof(f) \/ TakeError(f) \/ TakeRevoked(f)
      /\ UNCHANGED <<inbox, pin, paused, lane, nonces, cut>>
  BY DEF TakeFrame, Ceremony, Wire, Disk, DiskType, diskVars
<1>2. PinType /\ Young /\ NoStaleProof /\ Wire /\ nonces \in Nat
  BY DEF Ceremony, PinType
<1>3. Wire' /\ f \in OutFrames(minted, nonces)
  BY <1>1, <1>2 DEF Wire
<1> HIDE DEF f
<1>4. compromised' \in BOOLEAN /\ revokePending' \in BOOLEAN
  BY <1>1, <1>2 DEF TakeProof, TakeError, TakeRevoked, PinType
<1>5. outstanding' = None \/ outstanding' = outstanding
  BY <1>1 DEF TakeProof, TakeError, TakeRevoked
<1>6. Young'
  BY <1>1, <1>2, <1>5 DEF Young
<1>7. \/ pending' = pending
      \/ /\ f.type = "proof" /\ outstanding # None /\ f.nonce = outstanding.nonce
         /\ pending' = [key |-> f.key, nonce |-> f.nonce]
  BY <1>1 DEF TakeProof, TakeError, TakeRevoked
<1>8. pending' \in Keys' /\ (pending' = pending \/ pending'.nonce > cut)
  <2>1. CASE pending' = pending
    BY <1>1, <1>2, <2>1, KeysKept
  <2>2. CASE /\ f.type = "proof" /\ outstanding # None /\ f.nonce = outstanding.nonce
             /\ pending' = [key |-> f.key, nonce |-> f.nonce]
    <3>1. f.key \in 1 .. minted /\ f.nonce \in 1 .. nonces
      BY <1>3, <2>2 DEF OutFrames, Revoked
    <3>2. pending'.nonce > cut
      BY <1>2, <2>2 DEF Young
    <3> QED BY <1>1, <1>2, <2>2, <3>1, <3>2, KeysKept
  <2> QED BY <1>7, <2>1, <2>2
<1>9. NoStaleProof'
  BY <1>1, <1>2, <1>8 DEF NoStaleProof
<1>10. PinType'
  BY <1>1, <1>2, <1>4, <1>8, KeysKept DEF PinType
<1> QED BY <1>3, <1>6, <1>9, <1>10 DEF Ceremony

\* The rest of the extension: no nonce is issued, and every record is an old one or none.
LEMMA UserCeremony ==
    ASSUME Disk, Ceremony, Disconnect \/ ChallengeTimeout \/ Approve \/ Approved \/ Reject
                           \/ RevokePin \/ RequestDeletion
    PROVE  Ceremony'
<1>1. /\ minted \in Nat /\ minted' = minted /\ nonces \in Nat /\ nonces' = nonces
  BY DEF Disconnect, ChallengeTimeout, Approve, Approved, Reject, RevokePin, RequestDeletion,
     Disk, DiskType, diskVars, Ceremony, PinType
<1>2. PinType /\ Young /\ NoStaleProof /\ Wire
  BY DEF Ceremony
<1>3. Wire'
  <2>1. CASE Disconnect
    BY <1>1, <1>2, <2>1 DEF Disconnect, Wire
  <2>2. CASE ChallengeTimeout \/ Approve \/ Approved \/ Reject \/ RevokePin
    BY <1>1, <1>2, <2>2 DEF ChallengeTimeout, Approve, Approved, Reject, RevokePin, hostVars, Wire
  <2>3. CASE RequestDeletion
    <3>1. Revoke \in InFrames(nonces)
      BY DEF InFrames
    <3> QED BY <1>1, <1>2, <2>3, <3>1 DEF RequestDeletion, Wire
  <2> QED BY <2>1, <2>2, <2>3
<1>4. \/ UNCHANGED cut /\ {pin', pending'} \subseteq {pin, pending, NoKey}
      \/ cut' = nonces /\ pin' = NoKey /\ pending' = NoKey /\ outstanding' = None
  BY DEF Disconnect, ChallengeTimeout, Approve, Approved, Reject, RevokePin, RequestDeletion
<1>5. outstanding' \in {None, outstanding}
  BY DEF Disconnect, ChallengeTimeout, Approve, Approved, Reject, RevokePin, RequestDeletion
<1>6. NoStaleProof'
  BY <1>2, <1>4 DEF NoStaleProof
<1>7. Young'
  BY <1>1, <1>2, <1>4, <1>5 DEF Young
<1>8. cut' \in 0 .. nonces' /\ pin' \in Keys' /\ pending' \in Keys'
  BY <1>1, <1>2, <1>4, KeysKept DEF PinType
<1>9. /\ compromised' \in {compromised, FALSE}
      /\ paused' \in {paused, TRUE} /\ revokePending' \in {revokePending, TRUE, FALSE}
      /\ lane' \in {lane, "idle", "approving", "revoking"}
  BY DEF Disconnect, ChallengeTimeout, Approve, Approved, Reject, RevokePin, RequestDeletion
<1>10. PinType'
  BY <1>1, <1>2, <1>8, <1>9 DEF PinType
<1> QED BY <1>3, <1>6, <1>7, <1>10 DEF Ceremony

LEMMA NextCeremony == Disk /\ Ceremony /\ [Next]_vars => Ceremony'
<1> SUFFICES ASSUME Disk, Ceremony, [Next]_vars PROVE Ceremony'
  OBVIOUS
<1>1. CASE UNCHANGED vars
  BY <1>1 DEF vars, diskVars, hostVars, pinVars, Ceremony, Wire, PinType, Keys, Young, NoStaleProof
<1>2. ASSUME StartPairing \/ VerifyNow PROVE Ceremony'
  <2>1. VerifyNow => nonces' # nonces
    BY DEF VerifyNow, Challenge, Ceremony, PinType
  <2> QED BY <1>2, <2>1, AskCeremony, NotAskedCeremony
<1> QED
  BY <1>1, <1>2, HostSideCeremony, ConnectCeremony, TakeFrameCeremony, UserCeremony DEF Next

LEMMA HostKeyInvariant == Spec => [](Disk /\ Ceremony)
<1>1. Init => Disk /\ Ceremony
  BY InitDisk, InitCeremony
<1>2. Disk /\ Ceremony /\ [Next]_vars => (Disk /\ Ceremony)'
  BY NextDisk, NextCeremony
<1> QED BY <1>1, <1>2, PTL DEF Spec

\* The type invariant, for every value of the constants.
THEOREM HostKeyType == Spec => []TypeOK
<1>1. Disk /\ Ceremony => TypeOK
  BY DEF Disk, DiskType, Ceremony, Wire, PinType, Keys, TypeOK
<1> QED BY <1>1, HostKeyInvariant, PTL

\* NoStaleProof, for any number of hosts, ports and challenges: a proof over a challenge issued
\* before revokePin is never staged or pinned after it, however long it sat in a queue.
THEOREM HostKeyNoStaleProof == Spec => []NoStaleProof
<1>1. Ceremony => NoStaleProof
  BY DEF Ceremony
<1> QED BY <1>1, HostKeyInvariant, PTL

============================================================================
