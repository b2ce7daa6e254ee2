---------------------------- MODULE BrokerProofs ----------------------------
(***************************************************************************)
(* The server process, both sides of it.                                   *)
(*                                                                         *)
(* Broker.tla proved for any finite set of relays, any anchors and matches *)
(* and any capacity: the ref-count is exact, nobody is served by a broker  *)
(* that committed to exit, and the registry the watcher sweeps holds every *)
(* relay being served.                                                     *)
(*                                                                         *)
(* Election.tla, which process that is, proved for any number of server    *)
(* instances, process ids and releases, with crashes and restarts at every *)
(* step.                                                                   *)
(***************************************************************************)
EXTENDS Broker, Election, FiniteSetTheorems, TLAPS

\* The relays between their registration and the drop of their registry slot.
Registering ==
    {"registered", "unwinding", "accepting", "aborting", "serving", "dispatching", "leaving"}

\* The registry is a function of the workers' phases.
RegistryByPhase == registry = {c \in Relays : pc[c] \in Registering}

\* The latch is set only by the main thread on its way out, and a process that
\* is gone has left nothing behind.
LatchOrder ==
    /\ terminal => own = "latched"
    /\ own = "gone" => \A c \in Relays : pc[c] = "away"

IInv == TypeOK /\ RefCountExact /\ NoneAfterLatch /\ RegistryByPhase /\ LatchOrder

USE BrokerAssumption

RelayHolding ==
    {"accepting", "aborting", "serving", "dispatching", "leaving", "releasing"}

\* Holders, one client at a time.
LEMMA HoldersDef ==
    /\ Holders \subseteq Relays \cup {Own}
    /\ \A c \in Relays : c \in Holders <=> pc[c] \in RelayHolding
    /\ Own \in Holders <=> own \in {"serving", "dispatching", "dropping"}
    /\ IsFiniteSet(Holders) /\ Cardinality(Holders) \in Nat
<1>1. /\ Holders \subseteq Relays \cup {Own}
      /\ \A c \in Relays : c \in Holders <=> pc[c] \in RelayHolding
      /\ Own \in Holders <=> own \in {"serving", "dispatching", "dropping"}
  BY DEF Holders, RelayHolding
<1>2. IsFiniteSet(Relays \cup {Own})
  BY FS_AddElement
<1>3. IsFiniteSet(Holders)
  BY <1>1, <1>2, FS_Subset
<1> QED BY <1>1, <1>3, FS_CardinalityType

\* A step that changes nobody's being a holder keeps the count.
LEMMA SameHolders ==
    ASSUME \A c \in Relays : pc'[c] \in RelayHolding <=> pc[c] \in RelayHolding,
           own' \in {"serving", "dispatching", "dropping"}
             <=> own \in {"serving", "dispatching", "dropping"}
    PROVE  Holders' = Holders
  BY DEF Holders, RelayHolding

\* The variables the counting argument does not read.
SideType ==
    /\ record \in Records
    /\ shut \in SUBSET Relays
    /\ posture \in [Clients -> Postures]
    /\ watcher \in Records \cup {Asleep}

-----------------------------------------------------------------------------
(* Frames: steps that change nobody's slots.                               *)

\* The trust record, the sweep's shut-downs and the watcher's read are such steps.
LEMMA SideFrame ==
    ASSUME IInv, UNCHANGED <<countVars, registry, pc, own>>, SideType'
    PROVE  IInv'
<1>1. Holders' = Holders
  BY SameHolders
<1> QED BY <1>1 DEF IInv, TypeOK, SideType, RefCountExact, NoneAfterLatch, RegistryByPhase,
                    LatchOrder, countVars

\* So is a relay that moves between two phases with the same slots.
LEMMA PhaseFrame ==
    ASSUME IInv, NEW c \in Relays, NEW from \in Phase, NEW to \in Phase, Step(c, from, to),
           from \in RelayHolding <=> to \in RelayHolding,
           from \in Registering <=> to \in Registering,
           UNCHANGED <<countVars, registry, own>>, SideType'
    PROVE  IInv'
<1>1. pc' = [pc EXCEPT ![c] = to] /\ pc[c] = from /\ own # "gone"
  BY DEF Step, Running
<1>2. pc' \in [Relays -> Phase] /\ pc \in [Relays -> Phase]
  BY <1>1 DEF IInv, TypeOK
<1>3. Holders' = Holders
  BY <1>1, <1>2, SameHolders
<1>4. TypeOK'
  BY <1>2 DEF IInv, TypeOK, SideType, countVars
<1>5. RefCountExact' /\ NoneAfterLatch'
  BY <1>3 DEF IInv, RefCountExact, NoneAfterLatch, countVars
<1>6. RegistryByPhase'
  BY <1>1, <1>2 DEF IInv, RegistryByPhase
<1>7. LatchOrder'
  BY <1>1 DEF IInv, LatchOrder, countVars
<1> QED BY <1>4, <1>5, <1>6, <1>7 DEF IInv

\* What admission decides, when it does not refuse, is a posture.
LEMMA DecidePosture ==
    ASSUME NEW r, NEW c
    PROVE  Decide(r, c) # "refused" => Decide(r, c) \in Postures
  BY DEF Decide, Postures

-----------------------------------------------------------------------------
(* The steps of a relay's worker.                                          *)

\* The steps between two phases with the same slots.
LEMMA QuietRelayIInv ==
    ASSUME IInv, NEW c \in Relays,
           \/ Accept(c) \/ HandshakeFails(c) \/ DecideRelay(c) \/ AcceptRelay(c)
           \/ Request(c) \/ Answer(c) \/ RelayEof(c)
    PROVE  IInv'
<1> USE DEF Phase, RelayHolding, Registering
<1>0. SideType
  BY DEF IInv, TypeOK, SideType
<1>1. CASE DecideRelay(c)
  <2>1. SideType'
    BY <1>0, <1>1, DecidePosture DEF DecideRelay, SideType, Clients
  <2> QED BY <1>1, <2>1, PhaseFrame DEF DecideRelay
<1>2. CASE ~DecideRelay(c)
  <2>1. /\ UNCHANGED <<countVars, registry, own>>
        /\ UNCHANGED <<record, shut, posture, watcher>>
    BY <1>2 DEF Accept, HandshakeFails, AcceptRelay, Request, Answer, RelayEof
  <2>2. SideType'
    BY <1>0, <2>1 DEF SideType
  <2>3. CASE Accept(c)
    BY <2>1, <2>2, <2>3, PhaseFrame DEF Accept
  <2>4. CASE HandshakeFails(c)
    BY <2>1, <2>2, <2>4, PhaseFrame DEF HandshakeFails
  <2>5. CASE AcceptRelay(c)
    BY <2>1, <2>2, <2>5, PhaseFrame DEF AcceptRelay
  <2>6. CASE Request(c)
    BY <2>1, <2>2, <2>6, PhaseFrame DEF Request
  <2>7. CASE Answer(c)
    BY <2>1, <2>2, <2>7, PhaseFrame DEF Answer
  <2>8. CASE RelayEof(c)
    BY <2>1, <2>2, <2>8, PhaseFrame DEF RelayEof
  <2> QED BY <1>2, <2>3, <2>4, <2>5, <2>6, <2>7, <2>8
<1> QED BY <1>1, <1>2

\* Registering and deregistering move the registry with the phase.
LEMMA RegistrySteps ==
    ASSUME IInv, NEW c \in Relays, Register(c) \/ Unwind(c) \/ Deregister(c)
    PROVE  IInv'
<1> USE DEF Phase, RelayHolding, Registering
<1>1. PICK to \in {"registered", "away", "releasing"} :
        /\ pc' = [pc EXCEPT ![c] = to] /\ own # "gone"
        /\ pc[c] \in RelayHolding <=> to \in RelayHolding
        /\ registry' = IF to = "registered" THEN registry \cup {c} ELSE registry \ {c}
  BY DEF Register, Unwind, Deregister, Step, Running
<1>2. UNCHANGED <<record, countVars, own, watcher>>
  BY DEF Register, Unwind, Deregister
<1>3. shut' \in SUBSET Relays /\ posture' \in [Clients -> Postures]
  BY DEF IInv, TypeOK, Register, Unwind, Deregister, Forget, Postures, Clients
<1>4. pc \in [Relays -> Phase] /\ pc' \in [Relays -> Phase]
  BY <1>1 DEF IInv, TypeOK
<1>5. TypeOK'
  BY <1>1, <1>2, <1>3, <1>4 DEF IInv, TypeOK, countVars
<1>6. Holders' = Holders
  BY <1>1, <1>2, <1>4, SameHolders
<1>7. RefCountExact' /\ NoneAfterLatch'
  BY <1>2, <1>6 DEF IInv, RefCountExact, NoneAfterLatch, countVars
<1>8. RegistryByPhase'
  BY <1>1, <1>4 DEF IInv, RegistryByPhase
<1>9. LatchOrder'
  BY <1>1, <1>2 DEF IInv, LatchOrder, countVars
<1> QED BY <1>5, <1>7, <1>8, <1>9 DEF IInv

\* Acquiring counts exactly one new holder, and is impossible after the latch.
LEMMA AcquireIInv ==
    ASSUME IInv, NEW c \in Relays, Acquire(c)
    PROVE  IInv'
<1> USE DEF Phase, RelayHolding, Registering
<1>0. SideType' /\ UNCHANGED <<terminal, registry, own>>
  BY DEF IInv, TypeOK, SideType, Acquire
<1>1. CASE ~CanAcquire
  BY <1>0, <1>1, PhaseFrame DEF Acquire, countVars
<1>2. CASE CanAcquire
  <2>1. /\ pc[c] = "registered" /\ pc' = [pc EXCEPT ![c] = "accepting"]
        /\ own # "gone" /\ ~terminal /\ live < MaxClients /\ live' = live + 1
    BY <1>2 DEF Acquire, Step, Running, CanAcquire
  <2>2. pc \in [Relays -> Phase] /\ pc' \in [Relays -> Phase] /\ live \in Nat
    BY <2>1 DEF IInv, TypeOK
  <2>3. Holders' = Holders \cup {c} /\ c \notin Holders
    <3>1. c \notin Holders
      BY <2>1, HoldersDef
    <3>2. Holders' = Holders \cup {c}
      BY <1>0, <2>1, <2>2 DEF Holders
    <3> QED BY <3>1, <3>2
  <2>4. Cardinality(Holders') = Cardinality(Holders) + 1
    BY <2>3, HoldersDef, FS_AddElement
  <2>5. TypeOK'
    BY <1>0, <2>1, <2>2 DEF IInv, TypeOK, SideType
  <2>6. RefCountExact'
    BY <2>1, <2>2, <2>4 DEF IInv, RefCountExact
  <2>7. NoneAfterLatch' /\ LatchOrder'
    BY <1>0, <2>1 DEF NoneAfterLatch, LatchOrder
  <2>8. RegistryByPhase'
    BY <1>0, <2>1, <2>2 DEF IInv, RegistryByPhase
  <2> QED BY <2>5, <2>6, <2>7, <2>8 DEF IInv
<1> QED BY <1>1, <1>2

\* Releasing a slot takes exactly one holder away; waking the main thread makes
\* it no holder.
LEMMA DecrIInv ==
    ASSUME IInv, NEW c \in Relays, Decr(c)
    PROVE  IInv'
<1> USE DEF Phase, RelayHolding, Registering
<1>1. /\ pc[c] = "releasing" /\ pc' = [pc EXCEPT ![c] = "away"] /\ own # "gone"
      /\ live' = IF live > 0 THEN live - 1 ELSE 0
      /\ own' \in {own, "checking"} /\ (own' # own => own = "asleep")
      /\ UNCHANGED <<record, terminal, registry, watcher>>
  BY DEF Decr, Step, Running, NotifyAtZero
<1>2. shut' \in SUBSET Relays /\ posture' \in [Clients -> Postures]
  BY DEF IInv, TypeOK, Decr, Forget, Postures, Clients
<1>3. pc \in [Relays -> Phase] /\ pc' \in [Relays -> Phase] /\ live \in Nat
  BY <1>1 DEF IInv, TypeOK
<1>4. c \in Holders /\ Holders' = Holders \ {c}
  <2>1. c \in Holders
    BY <1>1, HoldersDef
  <2>2. Holders' = Holders \ {c}
    BY <1>1, <1>3 DEF Holders
  <2> QED BY <2>1, <2>2
<1>5. Cardinality(Holders') = Cardinality(Holders) - 1
  BY <1>4, HoldersDef, FS_RemoveElement
<1>6. Cardinality(Holders) # 0
  BY <1>4, HoldersDef, FS_EmptySet
<1>7. TypeOK'
  BY <1>1, <1>2, <1>3 DEF IInv, TypeOK, OwnPhase
<1>8. RefCountExact'
  BY <1>1, <1>3, <1>5, <1>6 DEF IInv, RefCountExact
<1>9. NoneAfterLatch'
  BY <1>1, <1>4 DEF IInv, NoneAfterLatch
<1>10. LatchOrder'
  BY <1>1 DEF IInv, LatchOrder
<1>11. RegistryByPhase'
  BY <1>1, <1>3 DEF IInv, RegistryByPhase
<1> QED BY <1>7, <1>8, <1>9, <1>10, <1>11 DEF IInv

-----------------------------------------------------------------------------
(* The main thread, the record and the watcher.                            *)

\* The broker starts with one holder, its own harness.
LEMMA InitIInv == Init => IInv
<1> SUFFICES ASSUME Init PROVE IInv
  OBVIOUS
<1>1. TypeOK
  BY DecidePosture DEF Init, TypeOK, Phase, OwnPhase, Clients, Postures
<1>2. Holders = {Own}
  BY DEF Init, Holders
<1>3. RefCountExact
  <2>1. Cardinality(Holders) = 1
    BY <1>2, FS_Singleton
  <2> QED BY <2>1 DEF Init, RefCountExact
<1>4. NoneAfterLatch /\ RegistryByPhase /\ LatchOrder
  BY DEF Init, NoneAfterLatch, RegistryByPhase, LatchOrder, Registering
<1> QED BY <1>1, <1>3, <1>4 DEF IInv

\* Serving the own harness changes no slot.
LEMMA OwnRequestIInv == ASSUME IInv, OwnRequest PROVE IInv'
<1>1. /\ own' \in OwnPhase /\ own # "gone" /\ own' # "gone" /\ own # "latched"
      /\ own \in {"serving", "dispatching", "dropping"}
      /\ own' \in {"serving", "dispatching", "dropping"}
      /\ UNCHANGED <<record, countVars, registry, shut, posture, pc, watcher>>
  BY DEF OwnRequest, OwnStep, OwnPhase
<1>2. Holders' = Holders
  BY <1>1, SameHolders
<1> QED BY <1>1, <1>2 DEF IInv, TypeOK, RefCountExact, NoneAfterLatch, RegistryByPhase,
                          LatchOrder, countVars

\* The own slot is one of the holders.
LEMMA DropOwnSlotIInv == ASSUME IInv, DropOwnSlot PROVE IInv'
<1>1. /\ own = "dropping" /\ own' = "checking"
      /\ live' = IF live > 0 THEN live - 1 ELSE 0
      /\ UNCHANGED <<record, terminal, registry, shut, posture, pc, watcher>>
  BY DEF DropOwnSlot, OwnStep
<1>2. Own \in Holders /\ Holders' = Holders \ {Own}
  BY <1>1 DEF Holders
<1>3. Cardinality(Holders') = Cardinality(Holders) - 1
  BY <1>2, HoldersDef, FS_RemoveElement
<1>4. Cardinality(Holders) # 0 /\ live \in Nat
  BY <1>2, HoldersDef, FS_EmptySet DEF IInv, TypeOK
<1>5. TypeOK'
  BY <1>1, <1>4 DEF IInv, TypeOK, OwnPhase
<1>6. RefCountExact'
  BY <1>1, <1>3, <1>4 DEF IInv, RefCountExact
<1>7. NoneAfterLatch' /\ RegistryByPhase' /\ LatchOrder'
  BY <1>1 DEF IInv, NoneAfterLatch, RegistryByPhase, LatchOrder
<1> QED BY <1>5, <1>6, <1>7 DEF IInv

\* The latch is set at a count of zero, so with no holder left.
LEMMA WaitZeroIInv == ASSUME IInv, WaitZero PROVE IInv'
<1>1. /\ own = "checking" /\ own' \in {"latched", "asleep"}
      /\ own' = "latched" => live = 0 /\ terminal' = TRUE
      /\ own' = "asleep" => UNCHANGED terminal
      /\ UNCHANGED <<record, live, registry, shut, posture, pc, watcher>>
  BY DEF WaitZero, OwnStep
<1>2. Holders' = Holders
  BY <1>1, SameHolders
<1>3. live = 0 => Holders = {}
  BY HoldersDef, FS_EmptySet DEF IInv, RefCountExact
<1>4. TypeOK' /\ RefCountExact' /\ RegistryByPhase'
  BY <1>1, <1>2 DEF IInv, TypeOK, OwnPhase, RefCountExact, RegistryByPhase
<1>5. NoneAfterLatch' /\ LatchOrder'
  BY <1>1, <1>2, <1>3 DEF IInv, NoneAfterLatch, LatchOrder
<1> QED BY <1>4, <1>5 DEF IInv

\* The process goes, and with it every slot.
LEMMA ExitIInv == ASSUME IInv, Exit PROVE IInv'
<1>1. TypeOK'
  BY DEF IInv, TypeOK, Exit, OwnStep, OwnPhase, Phase, Postures
<1>2. Holders' = {}
  BY DEF Exit, OwnStep, Holders
<1>3. RefCountExact'
  BY <1>2, FS_EmptySet DEF Exit, RefCountExact
<1>4. NoneAfterLatch' /\ RegistryByPhase' /\ LatchOrder'
  BY <1>2 DEF Exit, OwnStep, NoneAfterLatch, RegistryByPhase, LatchOrder, Registering
<1> QED BY <1>1, <1>3, <1>4 DEF IInv

\* The next instance starts as the first one did.
LEMMA StartBrokerIInv == ASSUME IInv, StartBroker PROVE IInv'
<1>1. /\ own = "gone" /\ own' = "serving" /\ live' = 1
      /\ UNCHANGED <<record, terminal, registry, shut, pc, watcher>>
  BY DEF StartBroker, OwnStep
<1>2. posture' \in [Clients -> Postures]
  BY DecidePosture DEF IInv, TypeOK, StartBroker, Clients
<1>3. TypeOK'
  BY <1>1, <1>2 DEF IInv, TypeOK, OwnPhase
<1>4. Holders' = {Own}
  BY <1>1 DEF IInv, LatchOrder, Holders
<1>5. RefCountExact'
  BY <1>1, <1>4, FS_Singleton DEF RefCountExact
<1>6. NoneAfterLatch' /\ RegistryByPhase' /\ LatchOrder'
  BY <1>1 DEF IInv, NoneAfterLatch, RegistryByPhase, LatchOrder
<1> QED BY <1>3, <1>5, <1>6 DEF IInv

\* Record and watcher touch no slot.
LEMMA SideIInv ==
    ASSUME IInv,
           \/ EditClients
           \/ \E kind \in {"neverPaired", "unreadable"} : LoseRecord(kind)
           \/ WatchRead \/ WatchSweep
    PROVE  IInv'
<1>1. UNCHANGED <<countVars, registry, pc, own>>
  BY DEF EditClients, PairClient, RevokeClient, ForgetPairings, Rewrite, LoseRecord, WatchRead,
         WatchSweep
<1>2. ASSUME EditClients PROVE SideType'
  <2>1. record \in Records /\ record.kind # "unreadable"
    BY <1>2 DEF IInv, TypeOK, EditClients, PairClient, RevokeClient, ForgetPairings, Rewrite
  <2>2. ASSUME NEW e \in Entries PROVE Paired(record, e) \in Records
    BY <2>1 DEF Records, Paired
  <2>3. ASSUME NEW n \in Names, \E x \in record.list : x.name = n
        PROVE  Revoked(record, n) \in Records
    BY <2>1, <2>3 DEF Records, Revoked
  <2>4. Forgotten(record) \in Records
    BY <2>1 DEF Records, Forgotten
  <2>5. record' \in Records
    BY <1>2, <2>2, <2>3, <2>4
       DEF EditClients, PairClient, RevokeClient, ForgetPairings, Rewrite
  <2> QED BY <1>2, <2>5 DEF IInv, TypeOK, SideType, EditClients, PairClient, RevokeClient,
                            ForgetPairings, Rewrite
<1>3. ASSUME NEW kind \in {"neverPaired", "unreadable"}, LoseRecord(kind) PROVE SideType'
  BY <1>3 DEF IInv, TypeOK, SideType, LoseRecord, Records
<1>4. ASSUME WatchRead PROVE SideType'
  BY <1>4 DEF IInv, TypeOK, SideType, WatchRead
<1>5. ASSUME WatchSweep PROVE SideType'
  BY <1>5 DEF IInv, TypeOK, SideType, WatchSweep
<1>6. SideType'
  BY <1>2, <1>3, <1>4, <1>5
<1> QED BY <1>1, <1>6, SideFrame

-----------------------------------------------------------------------------
\* Every step of the broker preserves the invariant.
LEMMA NextIInv == IInv /\ [Next]_vars => IInv'
<1> SUFFICES ASSUME IInv, [Next]_vars PROVE IInv'
  OBVIOUS
<1>1. CASE \/ EditClients
           \/ \E kind \in {"neverPaired", "unreadable"} : LoseRecord(kind)
           \/ WatchRead \/ WatchSweep
  BY <1>1, SideIInv
<1>2. ASSUME NEW c \in Relays, RelayStep(c) PROVE IInv'
  BY <1>2, QuietRelayIInv, RegistrySteps, AcquireIInv, DecrIInv DEF RelayStep
<1>3. CASE OwnRequest \/ DropOwnSlot \/ WaitZero \/ Exit \/ StartBroker
  BY <1>3, OwnRequestIInv, DropOwnSlotIInv, WaitZeroIInv, ExitIInv, StartBrokerIInv
<1>4. CASE UNCHANGED vars
  BY <1>4, SideFrame DEF vars, countVars, IInv, TypeOK, SideType
<1> QED BY <1>1, <1>2, <1>3, <1>4 DEF Next

\* IInv holds in every reachable state.
LEMMA SpecIInv == Spec => []IInv
  BY InitIInv, NextIInv, PTL DEF Spec

\* The ref-count equals the number of outstanding harness slots and never passes
\* the cap, for any number of relays attaching, failing and leaving in any order
\* (RefCount::try_acquire and HarnessSlot's Drop).
THEOREM BrokerRefCount == Spec => []RefCountExact
<1>1. IInv => RefCountExact
  BY DEF IInv
<1> QED BY <1>1, SpecIInv, PTL

\* No harness, relayed or own, is ever served by a broker that has committed to
\* exit: the count and the latch are read and written under one mutex.
THEOREM BrokerNoneAfterLatch == Spec => []NoneAfterLatch
<1>1. IInv => NoneAfterLatch
  BY DEF IInv
<1> QED BY <1>1, SpecIInv, PTL

\* A relay being served always has a registry slot for the watcher to find, and
\* no slot outlives its connection.
THEOREM BrokerRegistry == Spec => []RegistryExact
<1>1. IInv => RegistryExact
  BY DEF IInv, RegistryByPhase, Registering, RegistryExact, Served, PendingAttach, Holders
<1> QED BY <1>1, SpecIInv, PTL

\* The broker keeps its types: in particular no client it holds a posture for was
\* refused, whatever happened to the trust record meanwhile.
THEOREM BrokerTypes == Spec => []TypeOK
<1>1. IInv => TypeOK
  BY DEF IInv
<1> QED BY <1>1, SpecIInv, PTL

-----------------------------------------------------------------------------
(* The election.  BrokerNamed is not inductive: that a takeover may unlink  *)
(* the files rests on what Judge found under the mutex and on nothing       *)
(* having changed since, and that a late cleanup or an exit leaves the      *)
(* files of a live broker alone rests on live pids being distinct.  The     *)
(* invariant says both, phase by phase of the critical section.             *)

USE ElectionAssumption

\* The phases that hold run.mutex, and those of a broker, one on its way out included.
Crit    == {"judge", "unlink", "supersede", "bind", "write", "sweep", "remove"}
Serving == {"broker", "closing", "remove"}

Types == /\ phase \in [Procs -> Phases] /\ pid \in [Procs -> Pids \cup {Nobody}]
         /\ build \in [Procs -> Builds]

\* A process has a pid exactly while it runs, and no two share one.
PidWhileRunning == \A p \in Procs : phase[p] = "off" <=> pid[p] = Nobody
Unique  == \A p, q \in Procs : pid[p] = pid[q] /\ pid[p] # Nobody => p = q

\* The critical sections exclude each other.
Guarded == \A p \in Procs : phase[p] \in Crit => mutex = p

\* BrokerNamed, up to the removal of the files.
Named ==
    \A p \in Procs : phase[p] \in Serving /\ p \notin displaced =>
        lock.pid = pid[p] /\ lock.by = p /\ sock = p

\* A takeover that judged the lock nobody's faces no broker but displaced ones, and so does every
\* takeover past the unlink.
Cleared ==
    \A p, q \in Procs : phase[p] \in {"unlink", "bind", "write"} /\ phase[q] \in Serving => q \in displaced

\* The socket path is the one about to be published.
Listens == \A p \in Procs : phase[p] = "write" => sock = p

\* The lock file is a record of a pid and a secret.
LockType == lock = [pid |-> lock.pid, by |-> lock.by]

EInv == Types /\ PidWhileRunning /\ Unique /\ Guarded /\ Named /\ Cleared /\ Listens /\ LockType

LEMMA InitEInv == ElectionInit => EInv
<1> SUFFICES ASSUME ElectionInit PROVE EInv
  OBVIOUS
<1>1. Types /\ PidWhileRunning /\ Unique /\ Guarded
  BY DEF ElectionInit, Types, Phases, PidWhileRunning, Unique, Guarded, Crit
<1>2. Named /\ Cleared /\ Listens
  BY DEF ElectionInit, Named, Cleared, Listens, Serving
<1>3. LockType
  BY DEF ElectionInit, LockType, NoLock
<1> QED BY <1>1, <1>2, <1>3 DEF EInv

----------------------------------------------------------------------------
(* What a step may leave alone.                                            *)

LEMMA EInvKept ==
    ASSUME EInv, UNCHANGED <<phase, pid, build, lock, sock, mutex, displaced>>
    PROVE  EInv'
BY DEF EInv, Types, PidWhileRunning, Unique, Guarded, Named, Cleared, Listens, LockType

\* A running instance goes to another phase, with the mutex taken or given back, and touches
\* no file.
LEMMA PhaseStep ==
    ASSUME EInv, NEW p \in Procs, NEW to \in Phases \ {"off", "bind", "write"},
           phase[p] # "off", phase' = [phase EXCEPT ![p] = to],
           UNCHANGED <<pid, build, lock, sock, displaced>>,
           mutex' = mutex \/ mutex = Nobody \/ mutex = p,
           to \in Crit => mutex' = p, to \in Serving => phase[p] \in Serving,
           to = "unlink" => \A q \in Procs : phase[q] \in Serving => q \in displaced
    PROVE  EInv'
<1>1. phase' \in [Procs -> Phases] /\ \A q \in Procs : phase'[q] = IF q = p THEN to ELSE phase[q]
  BY DEF EInv, Types
<1>2. Types' /\ PidWhileRunning' /\ Unique'
  BY <1>1 DEF EInv, Types, PidWhileRunning, Unique
<1>3. Guarded'
  BY <1>1 DEF EInv, Guarded
<1>4. Named'
  BY <1>1 DEF EInv, Named
<1>5. Cleared' /\ Listens' /\ LockType'
  BY <1>1 DEF EInv, Cleared, Listens, LockType, Serving
<1> QED BY <1>2, <1>3, <1>4, <1>5 DEF EInv

\* An instance ends; the files stay, or go with it when no other live broker is named by them.
LEMMA GoneStep ==
    ASSUME EInv, NEW p \in Procs, Gone(p), UNCHANGED build, mutex' = mutex \/ mutex = p,
           \/ UNCHANGED <<lock, sock>>
           \/ /\ lock' = NoLock
              /\ \A q \in Procs \ {p} : phase[q] \in Serving => q \in displaced
              /\ \A q \in Procs \ {p} : phase[q] # "write"
    PROVE  EInv'
<1>1. /\ phase' \in [Procs -> Phases] /\ pid' \in [Procs -> Pids \cup {Nobody}]
      /\ \A q \in Procs : phase'[q] = IF q = p THEN "off" ELSE phase[q]
      /\ \A q \in Procs : pid'[q] = IF q = p THEN Nobody ELSE pid[q]
      /\ displaced' = displaced \ {p}
  BY DEF EInv, Types, Gone, Phases
<1>2. Types' /\ PidWhileRunning' /\ Unique'
  BY <1>1 DEF EInv, Types, PidWhileRunning, Unique
<1>3. Guarded'
  BY <1>1 DEF EInv, Guarded, Crit
<1>4. Named'
  BY <1>1 DEF EInv, Named, Serving
<1>5. Cleared'
  BY <1>1 DEF EInv, Cleared, Serving
<1>6. Listens'
  BY <1>1 DEF EInv, Listens
<1>7. LockType'
  BY DEF EInv, LockType, NoLock
<1> QED BY <1>2, <1>3, <1>4, <1>5, <1>6, <1>7 DEF EInv

----------------------------------------------------------------------------
(* Processes come and go.                                                  *)

LEMMA StartEInv ==
    ASSUME EInv, NEW p \in Procs, NEW i \in Pids, Start(p, i)
    PROVE  EInv'
<1>0. /\ phase[p] = "off" /\ phase' = [phase EXCEPT ![p] = "try"] /\ pid' = [pid EXCEPT ![p] = i]
      /\ UNCHANGED <<build, lock, sock, mutex, displaced>> /\ \A q \in Procs : pid[q] # i
  BY DEF Start, Goto, fileVars, PidIsAlive
<1>1. /\ phase' \in [Procs -> Phases] /\ pid' \in [Procs -> Pids \cup {Nobody}]
      /\ \A q \in Procs : phase'[q] = IF q = p THEN "try" ELSE phase[q]
      /\ \A q \in Procs : pid'[q] = IF q = p THEN i ELSE pid[q]
  BY <1>0 DEF EInv, Types, Phases
<1>2. Types' /\ PidWhileRunning' /\ Unique'
  BY <1>0, <1>1 DEF EInv, Types, PidWhileRunning, Unique
<1>3. Guarded'
  BY <1>0, <1>1 DEF EInv, Guarded, Crit
<1>4. Named' /\ Cleared' /\ Listens' /\ LockType'
  BY <1>0, <1>1 DEF EInv, Named, Cleared, Listens, LockType, Serving
<1> QED BY <1>2, <1>3, <1>4 DEF EInv

LEMMA CrashEInv ==
    ASSUME EInv, NEW p \in Procs, Crash(p)
    PROVE  EInv'
BY GoneStep DEF Crash, fileVars

----------------------------------------------------------------------------
(* The critical sections.                                                  *)

LEMMA JudgeEInv ==
    ASSUME EInv, NEW p \in Procs, LockRuntime(p) \/ Judge(p)
    PROVE  EInv'
<1>1. CASE LockRuntime(p)
  <2>1. /\ phase[p] = "try" /\ phase' = [phase EXCEPT ![p] = "judge"] /\ mutex = Nobody /\ mutex' = p
        /\ UNCHANGED <<pid, build, lock, sock, displaced>>
    BY <1>1 DEF LockRuntime, Goto, AcquireRuntime, procVars, fileVars
  <2>2. "judge" \in Phases \ {"off", "bind", "write"} /\ "judge" \notin Serving
    BY DEF Phases, Serving
  <2> QED BY <2>1, <2>2, PhaseStep
<1>2. CASE Judge(p) /\ phase' = [phase EXCEPT ![p] = "dial"]
  <2>1. phase[p] = "judge" /\ UNCHANGED <<pid, build, lock, sock, displaced>>
    BY <1>2 DEF Judge, Goto, procVars, fileVars
  <2>2. "dial" \in Phases \ {"off", "bind", "write"} /\ "dial" \notin Serving \cup Crit /\ mutex = p
    BY <2>1 DEF Phases, Serving, Crit, EInv, Guarded
  <2> QED BY <1>2, <2>1, <2>2, PhaseStep
<1>3. CASE Judge(p) /\ phase' # [phase EXCEPT ![p] = "dial"]
  <2> DEFINE to == IF Claimed(p) THEN "supersede" ELSE "unlink"
  <2>1. /\ phase[p] = "judge" /\ phase' = [phase EXCEPT ![p] = to] /\ mutex' = mutex
        /\ UNCHANGED <<pid, build, lock, sock, displaced>>
    BY <1>3 DEF Judge, Goto, procVars, fileVars
  <2>2. to \in Phases \ {"off", "bind", "write"} /\ to \notin Serving /\ mutex = p
    BY <2>1 DEF Phases, Serving, Crit, EInv, Guarded
  <2>3. ASSUME NEW q \in Procs, phase[q] \in Serving, q \notin displaced PROVE Claimed(p)
    <3>1. lock.pid = pid[q] /\ q # p /\ pid[q] # Nobody
      BY <2>1, <2>3 DEF EInv, Named, PidWhileRunning, Serving
    <3>2. lock.pid \notin {Nobody, pid[p]}
      BY <3>1 DEF EInv, Unique
    <3>3. PidIsAlive(lock.pid)
      BY <3>1 DEF PidIsAlive
    <3> QED BY <3>2, <3>3 DEF Claimed
  <2>4. to = "unlink" => \A q \in Procs : phase[q] \in Serving => q \in displaced
    BY <2>3
  <2> HIDE DEF to
  <2> QED BY <2>1, <2>2, <2>4, PhaseStep
<1> QED BY <1>1, <1>2, <1>3

\* The unlink: every broker it takes the files from is one it could not verify.
LEMMA UnlinkEInv ==
    ASSUME EInv, NEW p \in Procs, UnlinkSocket(p)
    PROVE  EInv'
<1>0. /\ phase[p] \in {"unlink", "supersede"} /\ phase' = [phase EXCEPT ![p] = "bind"]
      /\ UNCHANGED <<pid, build, lock, mutex>>
      /\ displaced' = displaced \cup {q \in Procs : /\ phase[p] = "supersede" /\ lock.by = q
                                                    /\ phase[q] \in {"broker", "closing"}}
      /\ mutex = p
  BY DEF UnlinkSocket, Goto, procVars, EInv, Guarded, Crit
<1>1. phase' \in [Procs -> Phases] /\ \A q \in Procs : phase'[q] = IF q = p THEN "bind" ELSE phase[q]
  BY <1>0 DEF EInv, Types, Phases
<1>2. Types' /\ PidWhileRunning' /\ Unique' /\ LockType'
  BY <1>0, <1>1 DEF EInv, Types, PidWhileRunning, Unique, LockType
<1>3. Guarded'
  BY <1>0, <1>1 DEF EInv, Guarded, Crit
<1>4. \A q \in Procs \ {p} : phase[q] \notin Crit
  BY <1>0 DEF EInv, Guarded
<1>5. ASSUME NEW q \in Procs, phase'[q] \in Serving PROVE q \in displaced'
  <2>1. q # p /\ phase[q] \in {"broker", "closing"}
    BY <1>1, <1>4, <1>5 DEF Serving, Crit
  <2>2. q \notin displaced => lock.by = q /\ phase[p] = "supersede"
    BY <1>0, <2>1 DEF EInv, Named, Cleared, Serving
  <2> QED BY <1>0, <2>1, <2>2
<1>6. Named' /\ Cleared'
  BY <1>5 DEF Named, Cleared
<1>7. Listens'
  BY <1>1, <1>4 DEF Listens, Crit
<1> QED BY <1>2, <1>3, <1>6, <1>7 DEF EInv

LEMMA BindEInv ==
    ASSUME EInv, NEW p \in Procs, Bind(p)
    PROVE  EInv'
<1>0. /\ phase[p] = "bind" /\ phase' = [phase EXCEPT ![p] = "write"] /\ lock' = NoLock /\ sock' = p
      /\ UNCHANGED <<pid, build, mutex, displaced>> /\ mutex = p
  BY DEF Bind, Goto, procVars, EInv, Guarded, Crit
<1>1. phase' \in [Procs -> Phases] /\ \A q \in Procs : phase'[q] = IF q = p THEN "write" ELSE phase[q]
  BY <1>0 DEF EInv, Types, Phases
<1>2. Types' /\ PidWhileRunning' /\ Unique'
  BY <1>0, <1>1 DEF EInv, Types, PidWhileRunning, Unique
<1>3. Guarded' /\ LockType'
  BY <1>0, <1>1 DEF EInv, Guarded, Crit, LockType, NoLock
<1>4. \A q \in Procs : phase'[q] \in Serving => q \in displaced'
  BY <1>0, <1>1 DEF EInv, Cleared, Serving
<1>5. \A q \in Procs : phase'[q] = "write" => q = p
  BY <1>0, <1>1 DEF EInv, Guarded, Crit
<1>6. Named' /\ Cleared' /\ Listens'
  BY <1>0, <1>4, <1>5 DEF Named, Cleared, Listens
<1> QED BY <1>2, <1>3, <1>6 DEF EInv

LEMMA WriteLockEInv ==
    ASSUME EInv, NEW p \in Procs, WriteLock(p)
    PROVE  EInv'
<1>0. /\ phase[p] = "write" /\ phase' = [phase EXCEPT ![p] = "broker"] /\ lock' = [pid |-> pid[p], by |-> p]
      /\ mutex' = Nobody /\ UNCHANGED <<pid, build, sock, displaced>> /\ mutex = p /\ sock = p
  BY DEF WriteLock, Goto, ReleaseRuntime, procVars, EInv, Guarded, Crit, Listens
<1>1. phase' \in [Procs -> Phases] /\ \A q \in Procs : phase'[q] = IF q = p THEN "broker" ELSE phase[q]
  BY <1>0 DEF EInv, Types, Phases
<1>2. Types' /\ PidWhileRunning' /\ Unique'
  BY <1>0, <1>1 DEF EInv, Types, PidWhileRunning, Unique
<1>3. \A q \in Procs : phase'[q] \notin Crit
  BY <1>0, <1>1 DEF EInv, Guarded, Crit
<1>4. \A q \in Procs : phase'[q] \in Serving => q \in displaced' \/ q = p
  BY <1>0, <1>1 DEF EInv, Cleared
<1>5. Named' /\ LockType'
  BY <1>0, <1>4 DEF Named, LockType
<1>6. Guarded' /\ Cleared' /\ Listens'
  BY <1>3 DEF Guarded, Cleared, Listens, Crit
<1> QED BY <1>2, <1>5, <1>6 DEF EInv

\* A late cleanup: the lock it finds stale names no live process, so no live broker.
LEMMA CleanupEInv ==
    ASSUME EInv, NEW p \in Procs, LockForCleanup(p) \/ CleanupStaleLock(p)
    PROVE  EInv'
<1>1. CASE LockForCleanup(p)
  <2>1. /\ phase[p] = "cleanup" /\ phase' = [phase EXCEPT ![p] = "sweep"] /\ mutex = Nobody /\ mutex' = p
        /\ UNCHANGED <<pid, build, lock, sock, displaced>>
    BY <1>1 DEF LockForCleanup, Goto, AcquireRuntime, procVars, fileVars
  <2>2. "sweep" \in Phases \ {"off", "bind", "write"} /\ "sweep" \notin Serving
    BY DEF Phases, Serving
  <2> QED BY <2>1, <2>2, PhaseStep
<1>2. CASE CleanupStaleLock(p)
  <2>1. /\ phase[p] = "sweep" /\ phase' = [phase EXCEPT ![p] = "retry"] /\ UNCHANGED <<pid, build, displaced>>
        /\ mutex = p /\ mutex' = Nobody
    BY <1>2 DEF CleanupStaleLock, Goto, ReleaseRuntime, procVars, EInv, Guarded, Crit
  <2>2. "retry" \in Phases \ {"off", "bind", "write"} /\ "retry" \notin Serving \cup Crit
    BY DEF Phases, Serving, Crit
  <2>3. CASE UNCHANGED <<lock, sock>>
    BY <2>1, <2>2, <2>3, PhaseStep
  <2>4. CASE Stale(p) /\ lock' = NoLock
    <3>1. lock' = NoLock
      BY <2>4
    <3>2. phase' \in [Procs -> Phases] /\ \A q \in Procs : phase'[q] = IF q = p THEN "retry" ELSE phase[q]
      BY <2>1 DEF EInv, Types, Phases
    <3>3. \A q \in Procs : phase'[q] \notin Crit
      BY <2>1, <2>2, <3>2 DEF EInv, Guarded
    <3>4. \A q \in Procs : phase'[q] \in Serving => q \in displaced
      <4> SUFFICES ASSUME NEW q \in Procs, phase'[q] \in Serving, q \notin displaced PROVE FALSE
        OBVIOUS
      <4>1. lock.pid = pid[q]
        BY <2>2, <3>2 DEF EInv, Named
      <4> QED BY <2>4, <4>1 DEF Stale, PidIsAlive
    <3>5. Types' /\ PidWhileRunning' /\ Unique'
      BY <2>1, <3>2 DEF EInv, Types, PidWhileRunning, Unique
    <3>6. Guarded' /\ Named' /\ Cleared' /\ Listens'
      BY <2>1, <3>3, <3>4 DEF Guarded, Named, Cleared, Listens, Crit
    <3>7. LockType'
      BY <3>1 DEF LockType, NoLock
    <3> QED BY <3>5, <3>6, <3>7 DEF EInv
  <2> QED BY <1>2, <2>3, <2>4 DEF CleanupStaleLock, fileVars
<1> QED BY <1>1, <1>2

\* The exit: a broker that was superseded owns nothing, its pid being nobody else's.
LEMMA ExitEInv ==
    ASSUME EInv, NEW p \in Procs, BrokerStops(p) \/ LockForRemove(p) \/ RemoveIfOwned(p)
    PROVE  EInv'
<1>1. CASE BrokerStops(p)
  <2>1. /\ phase[p] = "broker" /\ phase' = [phase EXCEPT ![p] = "closing"] /\ mutex' = mutex
        /\ UNCHANGED <<pid, build, lock, sock, displaced>>
    BY <1>1 DEF BrokerStops, Goto, procVars, fileVars
  <2>2. "closing" \in Phases \ {"off", "bind", "write"} /\ "closing" \notin Crit /\ phase[p] \in Serving
    BY <2>1 DEF Phases, Serving, Crit
  <2> QED BY <2>1, <2>2, PhaseStep
<1>2. CASE LockForRemove(p)
  <2>1. /\ phase[p] = "closing" /\ phase' = [phase EXCEPT ![p] = "remove"] /\ mutex = Nobody /\ mutex' = p
        /\ UNCHANGED <<pid, build, lock, sock, displaced>>
    BY <1>2 DEF LockForRemove, Goto, AcquireRuntime, procVars, fileVars
  <2>2. "remove" \in Phases \ {"off", "bind", "write"} /\ phase[p] \in Serving
    BY <2>1 DEF Phases, Serving
  <2> QED BY <2>1, <2>2, PhaseStep
<1>3. CASE RemoveIfOwned(p)
  <2>1. phase[p] = "remove" /\ Gone(p) /\ build' = build /\ mutex = p
    BY <1>3 DEF RemoveIfOwned, EInv, Guarded, Crit
  <2>2. \A q \in Procs \ {p} : phase[q] # "write"
    BY <2>1 DEF EInv, Guarded, Crit
  <2>3. CASE Owns(p) /\ lock' = NoLock
    <3>1. lock' = NoLock
      BY <2>3
    <3>2. \A q \in Procs \ {p} : phase[q] \in Serving => q \in displaced
      <4> SUFFICES ASSUME NEW q \in Procs \ {p}, phase[q] \in Serving, q \notin displaced PROVE FALSE
        OBVIOUS
      <4>1. lock.pid = pid[q] /\ pid[q] # Nobody
        BY DEF EInv, Named, PidWhileRunning, Serving
      <4> QED BY <2>3, <4>1 DEF Owns, EInv, Unique
    <3> QED BY <2>1, <2>2, <3>1, <3>2, GoneStep
  <2>4. CASE UNCHANGED <<lock, sock>>
    BY <1>3, <2>1, <2>4, GoneStep DEF RemoveIfOwned
  <2> QED BY <1>3, <2>3, <2>4 DEF RemoveIfOwned, fileVars
<1> QED BY <1>1, <1>2, <1>3

----------------------------------------------------------------------------
(* The relay's steps touch no file.                                        *)

Relaying == {"dial", "connect", "attest", "shake", "attach", "cleanup", "retry", "relay", "try"}

LEMMA RelayPhase ==
    ASSUME EInv, NEW p \in Procs, phase[p] # "off", NEW to \in Relaying, phase' = [phase EXCEPT ![p] = to],
           UNCHANGED <<pid, build, lock, sock, displaced, mutex>>
    PROVE  EInv'
<1>1. to \in Phases \ {"off", "bind", "write"} /\ to \notin Crit \cup Serving /\ to # "unlink"
  BY DEF Relaying, Phases, Crit, Serving
<1> QED BY <1>1, PhaseStep

LEMMA BrokenEInv ==
    ASSUME EInv, NEW p \in Procs, NEW from \in Phases \ {"off"}, Broken(p, from)
    PROVE  EInv'
BY RelayPhase DEF Broken, Goto, procVars, fileVars, Relaying

LEMMA DeniedEInv ==
    ASSUME EInv, NEW p \in Procs, Denied(p)
    PROVE  EInv'
BY GoneStep DEF Denied, fileVars

LEMMA DialEInv ==
    ASSUME EInv, NEW p \in Procs, ReadLock(p) \/ Connect(p)
    PROVE  EInv'
BY RelayPhase DEF ReadLock, Connect, Goto, procVars, fileVars, Relaying

LEMMA HandshakeEInv ==
    ASSUME EInv, NEW p \in Procs, AttestPeer(p) \/ ClientHandshake(p) \/ ServerHandshake(p) \/ VerifyMac(p) \/ Attach(p)
    PROVE  EInv'
<1>1. CASE \E from \in {"attest", "shake", "attach"} : Broken(p, from)
  BY <1>1, BrokenEInv DEF Phases
<1>2. CASE Denied(p)
  BY <1>2, DeniedEInv
<1>3. CASE AttestPeer(p)
  BY <1>1, <1>2, <1>3, RelayPhase DEF AttestPeer, Goto, procVars, fileVars, Relaying
<1>4. CASE ClientHandshake(p) \/ ServerHandshake(p)
  <2>1. PICK end : ReadSecret(p, end)
    BY <1>4 DEF ClientHandshake, ServerHandshake
  <2> QED BY <1>1, <2>1, EInvKept DEF ReadSecret, procVars, fileVars
<1>5. CASE VerifyMac(p)
  BY <1>1, <1>5, RelayPhase DEF VerifyMac, Goto, procVars, fileVars, Relaying
<1>6. CASE Attach(p)
  BY <1>1, <1>2, <1>6, RelayPhase DEF Attach, Goto, procVars, fileVars, Relaying
<1> QED BY <1>3, <1>4, <1>5, <1>6

LEMMA RetryEInv ==
    ASSUME EInv, NEW p \in Procs, Retry(p) \/ RelayExit(p)
    PROVE  EInv'
<1>1. CASE Retry(p) /\ tries[p] + 1 < MaxTries
  BY <1>1, RelayPhase DEF Retry, Goto, fileVars, Relaying
<1>2. CASE (Retry(p) /\ ~(tries[p] + 1 < MaxTries)) \/ RelayExit(p)
  BY <1>2, GoneStep DEF Retry, RelayExit, fileVars
<1> QED BY <1>1, <1>2

----------------------------------------------------------------------------
LEMMA NextEInv ==
    ASSUME EInv, [ElectionNext]_electionVars
    PROVE  EInv'
<1>1. CASE UNCHANGED electionVars
  BY <1>1, EInvKept DEF electionVars
<1>2. ASSUME NEW i \in Pids, NEW b \in Builds \cup {Nobody}, Reuse(i, b) PROVE EInv'
  BY <1>2, EInvKept DEF Reuse, fileVars
<1>3. ASSUME NEW p \in Procs, InstanceStep(p) PROVE EInv'
  BY <1>3, JudgeEInv, UnlinkEInv, BindEInv, WriteLockEInv, DialEInv, HandshakeEInv, CleanupEInv, RetryEInv,
     ExitEInv DEF InstanceStep
<1>4. ASSUME NEW p \in Procs, Crash(p) \/ \E i \in Pids : Start(p, i) PROVE EInv'
  BY <1>4, CrashEInv, StartEInv
<1> QED BY <1>1, <1>2, <1>3, <1>4 DEF ElectionNext

LEMMA SpecEInv == ElectionSpec => []EInv
BY InitEInv, NextEInv, PTL DEF ElectionSpec

\* A live broker is the one the lock file and the socket path name, unless a process that found
\* its pid alive and could not verify it superseded it: no crash, no reused pid, no late cleanup,
\* no exit and no takeover of a lock judged dead or its own takes the files from under it.
THEOREM ElectionBrokerNamed == ElectionSpec => []BrokerNamed
<1>1. EInv => BrokerNamed
  BY DEF EInv, Named, BrokerNamed, LockType, Serving
<1> QED BY <1>1, SpecEInv, PTL

\* Of two instances serving as broker at once, one was superseded alive by a process that could
\* not verify it: no race of starts, exits and crashes makes two brokers by itself.
THEOREM ElectionOneBroker ==
    ElectionSpec => [](\A p, q \in {r \in Procs \ displaced : phase[r] \in {"broker", "closing"}} : p = q)
<1>1. EInv => \A p, q \in {r \in Procs \ displaced : phase[r] \in {"broker", "closing"}} : p = q
  BY DEF EInv, Named, Serving
<1> QED BY <1>1, SpecEInv, PTL
=============================================================================
