--------------------------- MODULE SessionProofs ---------------------------
(***************************************************************************)
(* Session.tla and the kill switch over it (KillSwitch.tla), proved for any *)
(* number of browsers, calls, connections and frames, in four parts.       *)
(*                                                                         *)
(* The calls: the types, that the pending table leaks no entry, and that a *)
(* reply reaches a call only from the connection its request was sent on.  *)
(* The registry: no socket is orphaned, the cap on browsers holds, a       *)
(* routed call writes on the connection that holds the label, and no       *)
(* caller waits without somebody left to wake it.  The kill switch: the    *)
(* session keeps all of that with the switch read around it, and a sweep   *)
(* under an engaged switch is final.  The promise: a call, with the switch *)
(* around it or not, is one of ToolCall.tla.                               *)
(***************************************************************************)
EXTENDS KillSwitch, FiniteSetTheorems, TLAPS

\* Every id in use was minted: nothing is keyed by an id still to come.
IdsMinted == \A c \in Callers : reqId[c] < nextId

\* Two calls never share a request id (next_id's fetch_add).
IdsOwn ==
    \A c, d \in Callers : reqId[c] = reqId[d] /\ reqId[c] # NoId => c = d

\* A call has an id exactly from the routing decision on, and nothing can be in
\* the channel of a call before that.
Started ==
    \A c \in Callers :
        /\ pc[c] \in {"idle", "ready"} => reqId[c] = NoId /\ chan[c] = Empty
        /\ pc[c] \in {"writing", "waiting", "dropping", "cancelling"} => reqId[c] # NoId

\* A reader with a reply in hand took it for a call that had been sent; if that
\* call can still receive, it was sent on this reader's connection.
HandOwn ==
    \A g \in Gens : reader[g] = "delivering" =>
        /\ hand[g] \in Callers
        /\ pc[hand[g]] \notin {"idle", "ready"}
        /\ pc[hand[g]] \in {"writing", "waiting"} => sentOn[hand[g]] = g

CallInv == IdsMinted /\ IdsOwn /\ Started /\ HandOwn /\ PendingOwned /\ ReplyIsolation

IInv == TypeOK /\ CallInv

-----------------------------------------------------------------------------
(* What a step may leave alone.                                            *)

\* A step that keeps every call where it is and hands no reader a reply keeps
\* CallInv, whoever it wakes with Severed.
SeversOnly ==
    \A c \in Callers :
        chan'[c] = chan[c] \/ (pc[c] \in {"writing", "waiting"} /\ chan'[c] = Severed)

TakesNoReply ==
    \A g \in Gens : reader'[g] = "delivering" =>
        reader[g] = "delivering" /\ hand'[g] = hand[g]

\* CallInv reads nothing else: such a step preserves it.
LEMMA CallFrame ==
    ASSUME CallInv, SeversOnly, TakesNoReply,
           UNCHANGED <<pc, reqId, sentOn, pending, nextId>>
    PROVE  CallInv'
<1>1. IdsMinted' /\ IdsOwn' /\ PendingOwned'
  BY DEF CallInv, IdsMinted, IdsOwn, PendingOwned
<1>2. Started'
  BY DEF CallInv, Started, SeversOnly, Severed, Empty
<1>3. HandOwn'
  BY DEF CallInv, HandOwn, TakesNoReply
<1>4. ReplyIsolation'
  BY DEF CallInv, ReplyIsolation, SeversOnly, Severed
<1> QED BY <1>1, <1>2, <1>3, <1>4 DEF CallInv

\* Waking callers writes only to a call that can still receive.
LEMMA WakeFrame ==
    ASSUME CallType, NEW G, Wake(G)
    PROVE  chan' \in [Callers -> Delivery] /\ SeversOnly
  BY DEF Wake, Sent, Severed, CallType, Delivery, SeversOnly, Gens, NoGen

\* Each part of the types reads its own variables only.
LEMMA TypeFrame ==
    /\ RegistryType /\ UNCHANGED registryVars => RegistryType'
    /\ ReaderType /\ UNCHANGED readerVars => ReaderType'
    /\ WireType /\ UNCHANGED <<peerVars, toHost>> => WireType'
    /\ CallType /\ UNCHANGED <<callVars, pending, connsLock, nextId, chan>> => CallType'
  BY DEF RegistryType, ReaderType, WireType, CallType, registryVars, readerVars, peerVars,
         callVars

USE SessionAssumption DEF Gens, NoGen, Ids, NoId, Malformed

-----------------------------------------------------------------------------
\* The initial state has the types and the invariant: no call has started.
LEMMA InitIInv == Init => IInv
  BY DEF Init, IInv, CallInv, TypeOK, RegistryType, ReaderType, WireType, CallType,
         IdsMinted, IdsOwn, Started, HandOwn, PendingOwned, ReplyIsolation, ReaderPhase,
         CallPhase, Outcome, Delivery, Empty

-----------------------------------------------------------------------------
(* The registry and the reader threads.                                    *)

\* A new connection is minted, nobody's call is touched.
LEMMA AttachIInv ==
    ASSUME IInv, NEW l \in Labels, AttachBrowser(l)
    PROVE  IInv'
<1>1. RegistryType'
  <2>1. nextGen \in Gens /\ conns[l] \in Gens \cup {NoGen}
    BY DEF IInv, TypeOK, AttachBrowser, RegistryType
  <2>2. (taken \in SUBSET Gens /\ shut \in SUBSET Gens)'
    BY <2>1 DEF IInv, TypeOK, AttachBrowser, RegistryType
  <2>3. (/\ conns \in [Labels -> Gens \cup {NoGen}]
         /\ labelOf \in [Gens -> Labels \cup {None}]
         /\ superseded \in [Gens -> Gens \cup {NoGen}])'
    BY <2>1 DEF IInv, TypeOK, AttachBrowser, RegistryType
  <2> QED BY <2>1, <2>2, <2>3 DEF RegistryType, AttachBrowser
<1>2. ReaderType'
  BY DEF IInv, TypeOK, AttachBrowser, ReaderType, RegistryType, ReaderPhase
<1>3. WireType'
  BY DEF IInv, TypeOK, AttachBrowser, WireType, RegistryType
<1>4. CallType'
  BY TypeFrame DEF IInv, TypeOK, AttachBrowser
<1>5. SeversOnly /\ TakesNoReply
  BY DEF IInv, TypeOK, RegistryType, ReaderType, AttachBrowser, SeversOnly, TakesNoReply
<1>6. CallInv'
  BY <1>5, CallFrame DEF IInv, AttachBrowser, callVars
<1> QED BY <1>1, <1>2, <1>3, <1>4, <1>6 DEF IInv, TypeOK

\* The sweep wakes every caller and takes nothing from the pending table.
LEMMA ShutdownIInv ==
    ASSUME IInv, ShutdownAllBrowsers
    PROVE  IInv'
<1>1. RegistryType'
  BY DEF IInv, TypeOK, ShutdownAllBrowsers, RegistryType, Registered
<1>2. ReaderType' /\ WireType'
  BY TypeFrame DEF IInv, TypeOK, ShutdownAllBrowsers
<1>3. chan' \in [Callers -> Delivery] /\ SeversOnly
  BY WakeFrame DEF IInv, TypeOK, ShutdownAllBrowsers
<1>4. CallType'
  BY <1>3 DEF IInv, TypeOK, ShutdownAllBrowsers, CallType, callVars
<1>5. TakesNoReply
  BY DEF ShutdownAllBrowsers, readerVars, TakesNoReply
<1>6. CallInv'
  BY <1>3, <1>5, CallFrame DEF IInv, ShutdownAllBrowsers, callVars
<1> QED BY <1>1, <1>2, <1>4, <1>6 DEF IInv, TypeOK

\* A connection is closed: no call sees it before its reader ends.
LEMMA DropConnIInv ==
    ASSUME IInv, NEW g \in Gens, DropConn(g)
    PROVE  IInv'
<1>1. RegistryType'
  BY DEF IInv, TypeOK, DropConn, RegistryType
<1>2. ReaderType' /\ WireType' /\ CallType'
  BY TypeFrame DEF IInv, TypeOK, DropConn
<1>3. SeversOnly /\ TakesNoReply
  BY DEF DropConn, readerVars, SeversOnly, TakesNoReply
<1>4. CallInv'
  BY <1>3, CallFrame DEF IInv, DropConn, callVars
<1> QED BY <1>1, <1>2, <1>4 DEF IInv, TypeOK

\* The reader thread of a connection starts with nothing in hand.
LEMMA SpawnReaderIInv ==
    ASSUME IInv, NEW g \in Gens, SpawnReader(g)
    PROVE  IInv'
<1>1. RegistryType'
  BY DEF IInv, TypeOK, SpawnReader, RegistryType
<1>2. ReaderType'
  BY DEF IInv, TypeOK, SpawnReader, ReaderType, ReaderPhase
<1>3. WireType' /\ CallType'
  BY TypeFrame DEF IInv, TypeOK, SpawnReader
<1>4. SeversOnly /\ TakesNoReply
  BY DEF IInv, TypeOK, ReaderType, SpawnReader, SeversOnly, TakesNoReply
<1>5. CallInv'
  BY <1>4, CallFrame DEF IInv, SpawnReader, callVars
<1> QED BY <1>1, <1>2, <1>3, <1>5 DEF IInv, TypeOK

\* A reader takes an entry out of the pending table only when the entry is bound
\* to its own generation, and the caller it finds there is the one that owns it.
LEMMA ReadFrameIInv ==
    ASSUME IInv, NEW g \in Gens, ReadFrame(g)
    PROVE  IInv'
<1> DEFINE i == Head(toServer[g])
<1>1. i \in Ids \cup {Malformed} /\ Tail(toServer[g]) \in Seq(Ids \cup {Malformed})
  <2>1. toServer[g] \in Seq(Ids \cup {Malformed}) /\ toServer[g] # <<>>
    BY DEF IInv, TypeOK, WireType, ReadFrame
  <2> QED BY <2>1
<1>2. RegistryType'
  BY TypeFrame DEF IInv, TypeOK, ReadFrame
<1>3. WireType'
  <2>1. /\ toServer' = [toServer EXCEPT ![g] = Tail(@)]
        /\ UNCHANGED <<alive, toHost, running, bogus>>
    BY DEF ReadFrame
  <2> QED BY <1>1, <2>1 DEF IInv, TypeOK, WireType
<1>4. CASE MayDeliver(g, i)
  <2>1. PICK c \in Callers : /\ reqId[c] = i /\ sentOn[c] = g
                             /\ pc[c] \in {"writing", "waiting", "dropping"}
    BY <1>4 DEF IInv, CallInv, PendingOwned, MayDeliver
  <2>2. \A d \in Callers : reqId[d] = i => d = c
    BY <1>4, <2>1 DEF IInv, CallInv, IdsOwn, MayDeliver
  <2>3. (CHOOSE d \in Callers : reqId[d] = i) = c
    BY <2>1, <2>2
  <2>4. /\ pending' = [pending EXCEPT ![i] = NoGen]
        /\ hand' = [hand EXCEPT ![g] = c]
        /\ reader' = [reader EXCEPT ![g] = "delivering"]
        /\ UNCHANGED <<connsLock, nextId, pc, want, target, reqId, sentOn, outcome, chan>>
    BY <1>4, <2>3 DEF ReadFrame, callVars
  <2>5. ReaderType'
    BY <2>4 DEF IInv, TypeOK, ReaderType, ReaderPhase
  <2>6. CallType'
    BY <1>4, <2>4 DEF IInv, TypeOK, CallType, MayDeliver
  <2>7. (IdsMinted /\ IdsOwn /\ Started /\ ReplyIsolation)'
    BY <2>4 DEF IInv, CallInv, IdsMinted, IdsOwn, Started, ReplyIsolation
  <2>8. HandOwn'
    BY <2>1, <2>4 DEF IInv, TypeOK, ReaderType, CallInv, HandOwn
  <2>9. PendingOwned'
    BY <2>4 DEF IInv, TypeOK, CallType, CallInv, PendingOwned
  <2> QED BY <1>2, <1>3, <2>5, <2>6, <2>7, <2>8, <2>9 DEF IInv, TypeOK, CallInv
<1>5. CASE ~MayDeliver(g, i)
  <2>1. /\ reader' = [reader EXCEPT ![g] = IF Violates(g, i) THEN "ending" ELSE @]
        /\ UNCHANGED <<hand, pending, connsLock, nextId, callVars, chan>>
    BY <1>5 DEF ReadFrame
  <2>2. ReaderType'
    BY <2>1 DEF IInv, TypeOK, ReaderType, ReaderPhase
  <2>3. CallType'
    BY <2>1, TypeFrame DEF IInv, TypeOK
  <2>4. SeversOnly /\ TakesNoReply
    BY <2>1 DEF IInv, TypeOK, ReaderType, SeversOnly, TakesNoReply
  <2>5. CallInv'
    BY <2>1, <2>4, CallFrame DEF IInv, callVars
  <2> QED BY <1>2, <1>3, <2>2, <2>3, <2>5 DEF IInv, TypeOK
<1> QED BY <1>4, <1>5

\* What the reader has in hand reaches its caller, if that caller still receives.
LEMMA DeliverReplyIInv ==
    ASSUME IInv, NEW g \in Gens, DeliverReply(g)
    PROVE  IInv'
<1>1. hand[g] \in Callers
  BY DEF IInv, CallInv, HandOwn, DeliverReply
<1>2. RegistryType' /\ WireType'
  BY TypeFrame DEF IInv, TypeOK, DeliverReply
<1>3. ReaderType'
  BY DEF IInv, TypeOK, ReaderType, ReaderPhase, DeliverReply
<1>4. CallType'
  BY <1>1 DEF IInv, TypeOK, CallType, DeliverReply, callVars, Sent, Reply, Delivery
<1>5. (IdsMinted /\ IdsOwn /\ PendingOwned)'
  BY DEF IInv, CallInv, IdsMinted, IdsOwn, PendingOwned, DeliverReply, callVars
<1>6. Started'
  BY <1>1 DEF IInv, TypeOK, CallType, CallInv, Started, DeliverReply, callVars, Sent
<1>7. HandOwn'
  BY DEF IInv, TypeOK, ReaderType, CallInv, HandOwn, DeliverReply, callVars
<1>8. ReplyIsolation'
  BY <1>1 DEF IInv, TypeOK, CallType, CallInv, HandOwn, ReplyIsolation, DeliverReply,
              callVars, Sent, Reply
<1> QED BY <1>2, <1>3, <1>4, <1>5, <1>6, <1>7, <1>8 DEF IInv, TypeOK, CallInv

\* End of file changes the reader's phase and nothing else.
LEMMA ReadEofIInv ==
    ASSUME IInv, NEW g \in Gens, ReadEof(g)
    PROVE  IInv'
<1>1. RegistryType' /\ WireType' /\ CallType'
  BY TypeFrame DEF IInv, TypeOK, ReadEof
<1>2. ReaderType'
  BY DEF IInv, TypeOK, ReaderType, ReaderPhase, ReadEof
<1>3. SeversOnly /\ TakesNoReply
  BY DEF IInv, TypeOK, ReaderType, ReadEof, SeversOnly, TakesNoReply
<1>4. CallInv'
  BY <1>3, CallFrame DEF IInv, ReadEof, callVars
<1> QED BY <1>1, <1>2, <1>4 DEF IInv, TypeOK

\* A reader's cleanup wakes the callers of its own entries and leaves the
\* entries to them.
LEMMA ReaderCleanupIInv ==
    ASSUME IInv, NEW g \in Gens, ReaderCleanup(g)
    PROVE  IInv'
<1>1. RegistryType'
  BY DEF IInv, TypeOK, RegistryType, ReaderCleanup, ShouldClear
<1>2. ReaderType'
  BY DEF IInv, TypeOK, ReaderType, ReaderPhase, ReaderCleanup
<1>3. WireType'
  BY DEF IInv, TypeOK, WireType, ReaderCleanup
<1>4. chan' \in [Callers -> Delivery] /\ SeversOnly
  BY WakeFrame DEF IInv, TypeOK, ReaderCleanup
<1>5. CallType'
  BY <1>4 DEF IInv, TypeOK, CallType, ReaderCleanup, callVars
<1>6. TakesNoReply
  BY DEF IInv, TypeOK, ReaderType, ReaderCleanup, TakesNoReply
<1>7. CallInv'
  BY <1>4, <1>6, CallFrame DEF IInv, ReaderCleanup, callVars
<1> QED BY <1>1, <1>2, <1>3, <1>5, <1>7 DEF IInv, TypeOK

-----------------------------------------------------------------------------
(* The far end of a connection.                                            *)

\* Whatever the host, the worker or a broken extension puts on the wire, the
\* calls and the pending table are as they were.
LEMMA PeerIInv ==
    ASSUME IInv, NEW g \in Gens, PeerStep(g)
    PROVE  IInv'
<1>1. UNCHANGED <<registryVars, readerVars, pending, connsLock, nextId, callVars, chan>>
  BY DEF PeerStep, HostExit, HostForward, WorkerFinish, BogusFrame
<1>2. RegistryType' /\ ReaderType' /\ CallType'
  BY <1>1, TypeFrame DEF IInv, TypeOK
<1>3. CallInv'
  BY <1>1, CallFrame DEF IInv, callVars, readerVars, SeversOnly, TakesNoReply
<1>4. ASSUME HostExit(g) PROVE WireType'
  BY <1>4 DEF IInv, TypeOK, WireType, HostExit
<1>5. ASSUME HostForward(g) PROVE WireType'
  <2>1. Head(toHost[g]) \in Frame /\ Tail(toHost[g]) \in Seq(Frame)
    BY <1>5 DEF IInv, TypeOK, WireType, HostForward
  <2>2. running' \in SUBSET (Ids \X Gens)
    BY <1>5, <2>1 DEF IInv, TypeOK, WireType, HostForward, Frame
  <2>3. toHost' = [toHost EXCEPT ![g] = Tail(@)] /\ UNCHANGED <<alive, toServer, bogus>>
    BY <1>5 DEF HostForward
  <2> QED BY <2>1, <2>2, <2>3 DEF IInv, TypeOK, WireType
<1>0. ASSUME NEW i \in Ids \cup {Malformed} PROVE Append(toServer[g], i) \in Seq(Ids \cup {Malformed})
  BY <1>0 DEF IInv, TypeOK, WireType
<1>6. ASSUME NEW i \in Ids, WorkerFinish(i, g) PROVE WireType'
  <2>1. toServer' \in [Gens -> Seq(Ids \cup {Malformed})]
    BY <1>0, <1>6 DEF IInv, TypeOK, WireType, WorkerFinish
  <2>2. running' \in SUBSET (Ids \X Gens) /\ UNCHANGED <<alive, toHost, bogus>>
    BY <1>6 DEF IInv, TypeOK, WireType, WorkerFinish
  <2> QED BY <2>1, <2>2 DEF IInv, TypeOK, WireType
<1>7. ASSUME NEW i \in Ids \cup {Malformed}, BogusFrame(g, i) PROVE WireType'
  <2>1. toServer' \in [Gens -> Seq(Ids \cup {Malformed})]
    BY <1>0, <1>7 DEF IInv, TypeOK, WireType, BogusFrame
  <2>2. bogus' \in 0..MaxBogus /\ UNCHANGED <<alive, toHost, running>>
    BY <1>7, SessionAssumption DEF IInv, TypeOK, WireType, BogusFrame
  <2> QED BY <2>1, <2>2 DEF IInv, TypeOK, WireType
<1>8. WireType'
  BY <1>4, <1>5, <1>6, <1>7 DEF PeerStep
<1> QED BY <1>2, <1>3, <1>8 DEF IInv, TypeOK

-----------------------------------------------------------------------------
(* The calls.                                                              *)

\* A call that has not been sent has no id and an empty channel.
LEMMA CallIInv ==
    ASSUME IInv, NEW c \in Callers, NEW w \in Labels \cup {None}, Call(c, w)
    PROVE  IInv'
<1>1. RegistryType' /\ ReaderType' /\ WireType'
  BY TypeFrame DEF IInv, TypeOK, Call
<1>2. CallType'
  BY DEF IInv, TypeOK, CallType, CallPhase, Call
<1>3. (IdsMinted /\ IdsOwn /\ ReplyIsolation)'
  BY DEF IInv, CallInv, IdsMinted, IdsOwn, ReplyIsolation, Call
<1>4. Started' /\ PendingOwned'
  BY DEF IInv, TypeOK, CallType, CallInv, Started, PendingOwned, Call
<1>5. HandOwn'
  BY DEF IInv, TypeOK, CallType, CallInv, HandOwn, Call, readerVars
<1> QED BY <1>1, <1>2, <1>3, <1>4, <1>5 DEF IInv, TypeOK, CallInv

\* A call that returns with its entry gone leaves CallInv as it was.
LEMMA ReturnFrame ==
    ASSUME IInv, NEW c \in Callers, NEW how \in Outcome, Return(c, how),
           UNCHANGED <<reader, hand, reqId>>,
           nextId' \in Nat, nextId' >= nextId,
           pending' \in [Ids -> Gens \cup {NoGen}],
           \A i \in Ids : pending'[i] # NoGen => pending'[i] = pending[i] /\ reqId[c] # i,
           connsLock' \in Callers \cup {None}, nextId' \in 1..(MaxId + 1)
    PROVE  CallType' /\ CallInv'
<1>1. CallType'
  BY DEF IInv, TypeOK, CallType, CallPhase, Return, Empty, Delivery
<1>2. IdsMinted' /\ IdsOwn'
  <2>1. \A d \in Callers : reqId[d] \in Nat /\ reqId[d] < nextId /\ nextId \in Nat
    BY DEF IInv, TypeOK, CallType, CallInv, IdsMinted
  <2>2. IdsMinted'
    BY <2>1 DEF IdsMinted
  <2> QED BY <2>2 DEF IInv, CallInv, IdsOwn
<1>3. Started' /\ ReplyIsolation'
  BY DEF IInv, TypeOK, CallType, CallInv, Started, ReplyIsolation, Return, Empty
<1>4. HandOwn'
  BY DEF IInv, TypeOK, CallType, CallInv, HandOwn, Return
<1>5. PendingOwned'
  BY DEF IInv, TypeOK, CallType, CallInv, PendingOwned, Return
<1> QED BY <1>1, <1>2, <1>3, <1>4, <1>5 DEF CallInv

\* A refused call returns without an id, and burns one.
LEMMA SendRefusedIInv ==
    ASSUME IInv, NEW c \in Callers, SendRefused(c)
    PROVE  IInv'
<1>1. RegistryType' /\ ReaderType' /\ WireType'
  BY TypeFrame DEF IInv, TypeOK, SendRefused
<1>2. PICK how \in Outcome : Return(c, how)
  BY DEF SendRefused, ResolveError, Outcome
<1>3. \A i \in Ids : reqId[c] # i
  BY DEF SendRefused, IInv, CallInv, Started
<1>4. /\ UNCHANGED <<reader, hand, reqId, pending, connsLock>>
      /\ nextId' = nextId + 1 /\ nextId <= MaxId
  BY DEF SendRefused, readerVars
<1>5. nextId' \in Nat /\ nextId' >= nextId /\ nextId' \in 1..(MaxId + 1)
  BY <1>4 DEF IInv, TypeOK, CallType
<1>6. CallType' /\ CallInv'
  <2>1. pending' \in [Ids -> Gens \cup {NoGen}] /\ connsLock' \in Callers \cup {None}
    BY <1>4 DEF IInv, TypeOK, CallType
  <2>2. \A i \in Ids : pending'[i] # NoGen => pending'[i] = pending[i] /\ reqId[c] # i
    BY <1>3, <1>4
  <2> QED BY <1>2, <1>4, <1>5, <2>1, <2>2, ReturnFrame
<1> QED BY <1>1, <1>6 DEF IInv, TypeOK

\* The new entry is keyed by a fresh id and bound to the connection in the
\* registry at that moment, which is the one the call will write on.
LEMMA SendInsertIInv ==
    ASSUME IInv, NEW c \in Callers, SendInsert(c)
    PROVE  IInv'
<1>1. RegistryType' /\ ReaderType' /\ WireType'
  BY TypeFrame DEF IInv, TypeOK, SendInsert
<1>2. PICK l \in ResolveTarget(want[c]) :
        /\ target' = [target EXCEPT ![c] = l]
        /\ sentOn' = [sentOn EXCEPT ![c] = conns[l]]
        /\ pending' = [pending EXCEPT ![nextId] = conns[l]]
  BY DEF SendInsert
<1>3. l \in Labels /\ conns[l] \in Gens
  BY <1>2 DEF ResolveTarget, Registered, IInv, TypeOK, RegistryType
<1>4. /\ pc[c] = "ready" /\ nextId <= MaxId
      /\ reqId' = [reqId EXCEPT ![c] = nextId]
      /\ nextId' = nextId + 1
      /\ connsLock' = c
      /\ pc' = [pc EXCEPT ![c] = "writing"]
      /\ UNCHANGED <<reader, hand, want, chan, outcome>>
  BY DEF SendInsert, readerVars
<1>5. nextId \in Ids
  BY <1>4 DEF IInv, TypeOK, CallType
<1>6. CallType'
  BY <1>2, <1>3, <1>4, <1>5 DEF IInv, TypeOK, CallType, CallPhase
<1>7. reqId[c] = NoId /\ chan[c] = Empty
  BY <1>4 DEF IInv, CallInv, Started
<1>8. \A d \in Callers : reqId[d] \in Nat /\ reqId[d] < nextId
  BY DEF IInv, TypeOK, CallType, CallInv, IdsMinted
<1>9. IdsMinted'
  BY <1>4, <1>5, <1>8 DEF IInv, TypeOK, CallType, IdsMinted
<1>10. IdsOwn'
  BY <1>4, <1>5, <1>8 DEF IInv, TypeOK, CallType, CallInv, IdsOwn
<1>11. Started'
  BY <1>4, <1>5 DEF IInv, TypeOK, CallType, CallInv, Started
<1>12. HandOwn'
  BY <1>2, <1>4 DEF IInv, TypeOK, CallType, CallInv, HandOwn
<1>13. PendingOwned'
  <2> SUFFICES ASSUME NEW i \in Ids, pending'[i] # NoGen
               PROVE  \E d \in Callers : /\ reqId'[d] = i /\ sentOn'[d] = pending'[i]
                                         /\ pc'[d] \in {"writing", "waiting", "dropping"}
    BY DEF PendingOwned
  <2>1. CASE i = nextId
    BY <1>2, <1>3, <1>4, <1>5, <2>1 DEF IInv, TypeOK, CallType
  <2>2. CASE i # nextId
    <3>1. PICK d \in Callers : /\ reqId[d] = i /\ sentOn[d] = pending[i]
                               /\ pc[d] \in {"writing", "waiting", "dropping"}
      BY <1>2, <1>5, <2>2 DEF IInv, TypeOK, CallType, CallInv, PendingOwned
    <3>2. d # c
      BY <1>4, <3>1
    <3> QED BY <1>2, <1>4, <1>5, <2>2, <3>1, <3>2 DEF IInv, TypeOK, CallType
  <2> QED BY <2>1, <2>2
<1>14. ReplyIsolation'
  BY <1>2, <1>4, <1>7 DEF IInv, TypeOK, CallType, CallInv, ReplyIsolation, Empty
<1> QED BY <1>1, <1>6, <1>9, <1>10, <1>11, <1>12, <1>13, <1>14 DEF IInv, TypeOK, CallInv

\* The frame on the wire carries the call's own id; the call goes on waiting on
\* the connection it chose.
LEMMA SendWriteIInv ==
    ASSUME IInv, NEW c \in Callers, SendWrite(c)
    PROVE  IInv'
<1>1. RegistryType' /\ ReaderType'
  BY TypeFrame DEF IInv, TypeOK, SendWrite
<1>2. reqId[c] \in Ids
  BY DEF IInv, TypeOK, CallType, CallInv, Started, SendWrite
<1>3. WireType'
  <2>1. [kind |-> "req", id |-> reqId[c]] \in Frame
    BY <1>2 DEF Frame
  <2>2. sentOn[c] \in Gens
    BY DEF IInv, TypeOK, WireType, SendWrite
  <2>3. toHost' \in [Gens -> Seq(Frame)]
    BY <2>1, <2>2 DEF IInv, TypeOK, WireType, SendWrite
  <2> QED BY <2>3 DEF IInv, TypeOK, WireType, SendWrite, peerVars
<1>4. CallType'
  BY DEF IInv, TypeOK, CallType, CallPhase, SendWrite
<1>5. (IdsMinted /\ IdsOwn /\ ReplyIsolation)'
  BY DEF IInv, CallInv, IdsMinted, IdsOwn, ReplyIsolation, SendWrite
<1>6. Started' /\ PendingOwned'
  BY DEF IInv, TypeOK, CallType, CallInv, Started, PendingOwned, SendWrite
<1>7. HandOwn'
  BY DEF IInv, TypeOK, CallType, CallInv, HandOwn, SendWrite, readerVars
<1> QED BY <1>1, <1>3, <1>4, <1>5, <1>6, <1>7 DEF IInv, TypeOK, CallInv

\* A failed write takes the call's own entry with it.
LEMMA SendWriteFailsIInv ==
    ASSUME IInv, NEW c \in Callers, SendWriteFails(c)
    PROVE  IInv'
<1>1. RegistryType' /\ ReaderType' /\ WireType'
  BY TypeFrame DEF IInv, TypeOK, SendWriteFails
<1>2. /\ Return(c, "write") /\ UNCHANGED <<reader, hand, reqId, nextId>>
      /\ pending' = [pending EXCEPT ![reqId[c]] = NoGen] /\ connsLock' = None
  BY DEF SendWriteFails, readerVars
<1>3. /\ nextId' \in Nat /\ nextId' >= nextId /\ nextId' \in 1..(MaxId + 1)
      /\ "write" \in Outcome /\ connsLock' \in Callers \cup {None}
  BY <1>2 DEF IInv, TypeOK, CallType, Outcome
<1>4. /\ pending' \in [Ids -> Gens \cup {NoGen}]
      /\ \A i \in Ids : pending'[i] # NoGen => pending'[i] = pending[i] /\ reqId[c] # i
  BY <1>2 DEF IInv, TypeOK, CallType
<1>5. CallType' /\ CallInv'
  BY <1>2, <1>3, <1>4, ReturnFrame
<1> QED BY <1>1, <1>5 DEF IInv, TypeOK

\* A call that stops waiting keeps its entry, and no reply is sent to it any
\* more.
LEMMA WaitEndsIInv ==
    ASSUME IInv, NEW c \in Callers, WaitEnds(c)
    PROVE  IInv'
<1>1. RegistryType' /\ ReaderType' /\ WireType'
  BY TypeFrame DEF IInv, TypeOK, WaitEnds
<1>2. CallType'
  <2>1. \E how \in Outcome : outcome' = [outcome EXCEPT ![c] = how]
    BY DEF WaitEnds, Outcome
  <2> QED BY <2>1 DEF IInv, TypeOK, CallType, CallPhase, Empty, Delivery, WaitEnds
<1>3. (IdsMinted /\ IdsOwn)'
  BY DEF IInv, CallInv, IdsMinted, IdsOwn, WaitEnds
<1>4. Started' /\ PendingOwned'
  BY DEF IInv, TypeOK, CallType, CallInv, Started, PendingOwned, WaitEnds
<1>5. HandOwn'
  BY DEF IInv, TypeOK, CallType, CallInv, HandOwn, WaitEnds, readerVars
<1>6. ReplyIsolation'
  BY DEF IInv, TypeOK, CallType, CallInv, ReplyIsolation, WaitEnds, Empty
<1> QED BY <1>1, <1>2, <1>3, <1>4, <1>5, <1>6 DEF IInv, TypeOK, CallInv

\* Dropping the guard removes the call's own entry, whether it returns at once
\* or has a cancel to write first.
LEMMA DropGuardIInv ==
    ASSUME IInv, NEW c \in Callers, DropGuard(c)
    PROVE  IInv'
<1>1. RegistryType' /\ ReaderType' /\ WireType'
  BY TypeFrame DEF IInv, TypeOK, DropGuard
<1>2. /\ pc[c] = "dropping" /\ pending' = [pending EXCEPT ![reqId[c]] = NoGen]
      /\ UNCHANGED <<reader, hand, reqId, nextId>>
  BY DEF DropGuard, readerVars
<1>3. /\ pending' \in [Ids -> Gens \cup {NoGen}]
      /\ \A i \in Ids : pending'[i] # NoGen => pending'[i] = pending[i] /\ reqId[c] # i
  BY <1>2 DEF IInv, TypeOK, CallType
<1>4. CASE StillPending(c) /\ conns[target[c]] # NoGen
  <2>1. /\ pc' = [pc EXCEPT ![c] = "cancelling"] /\ connsLock' = c
        /\ UNCHANGED <<want, target, sentOn, chan, outcome>>
    BY <1>4 DEF DropGuard
  <2>2. CallType'
    BY <1>2, <1>3, <2>1 DEF IInv, TypeOK, CallType, CallPhase
  <2>3. (IdsMinted /\ IdsOwn /\ ReplyIsolation)'
    BY <1>2, <2>1 DEF IInv, CallInv, IdsMinted, IdsOwn, ReplyIsolation
  <2>4. Started' /\ HandOwn'
    BY <1>2, <2>1 DEF IInv, TypeOK, CallType, CallInv, Started, HandOwn
  <2>5. PendingOwned'
    BY <1>2, <1>3, <2>1 DEF IInv, TypeOK, CallType, CallInv, PendingOwned
  <2> QED BY <1>1, <2>2, <2>3, <2>4, <2>5 DEF IInv, TypeOK, CallInv
<1>5. CASE ~(StillPending(c) /\ conns[target[c]] # NoGen)
  <2>1. Return(c, outcome[c]) /\ UNCHANGED connsLock
    BY <1>5 DEF DropGuard
  <2>2. /\ nextId' \in Nat /\ nextId' >= nextId /\ nextId' \in 1..(MaxId + 1)
        /\ outcome[c] \in Outcome /\ connsLock' \in Callers \cup {None}
    BY <1>2, <2>1 DEF IInv, TypeOK, CallType
  <2>3. CallType' /\ CallInv'
    BY <1>2, <1>3, <2>1, <2>2, ReturnFrame
  <2> QED BY <1>1, <2>3 DEF IInv, TypeOK
<1> QED BY <1>4, <1>5

\* By the time a cancel is written the entry is gone: the call just returns.
LEMMA CancelWriteIInv ==
    ASSUME IInv, NEW c \in Callers, CancelWrite(c)
    PROVE  IInv'
<1> DEFINE g == conns[target[c]]
<1>1. RegistryType' /\ ReaderType'
  BY TypeFrame DEF IInv, TypeOK, CancelWrite
<1>2. /\ pc[c] = "cancelling" /\ Return(c, outcome[c]) /\ connsLock' = None
      /\ UNCHANGED <<reader, hand, reqId, nextId, pending, alive, toServer, running, bogus>>
  BY DEF CancelWrite, readerVars, peerVars
<1>3. reqId[c] \in Ids
  BY <1>2 DEF IInv, TypeOK, CallType, CallInv, Started
<1>4. [kind |-> "cancel", id |-> reqId[c]] \in Frame
  BY <1>3 DEF Frame
<1>5. WireType'
  <2>1. CASE g \in alive
    <3>1. /\ g \in Gens
          /\ toHost' = [toHost EXCEPT
                          ![g] = Append(@, [kind |-> "cancel", id |-> reqId[c]])]
      BY <2>1 DEF IInv, TypeOK, WireType, CancelWrite
    <3>2. toHost' \in [Gens -> Seq(Frame)]
      BY <1>4, <3>1 DEF IInv, TypeOK, WireType
    <3> QED BY <1>2, <3>2 DEF IInv, TypeOK, WireType
  <2>2. CASE g \notin alive
    <3>1. UNCHANGED toHost
      BY <2>2 DEF CancelWrite
    <3> QED BY <1>2, <3>1 DEF IInv, TypeOK, WireType
  <2> QED BY <2>1, <2>2
<1>6. \A i \in Ids : pending[i] # NoGen => reqId[c] # i
  BY <1>2, <1>3 DEF IInv, CallInv, PendingOwned, IdsOwn
<1>7. /\ nextId' \in Nat /\ nextId' >= nextId /\ nextId' \in 1..(MaxId + 1)
      /\ outcome[c] \in Outcome /\ connsLock' \in Callers \cup {None}
      /\ pending' \in [Ids -> Gens \cup {NoGen}]
  BY <1>2 DEF IInv, TypeOK, CallType
<1>8. \A i \in Ids : pending'[i] # NoGen => pending'[i] = pending[i] /\ reqId[c] # i
  BY <1>2, <1>6
<1>9. CallType' /\ CallInv'
  BY <1>2, <1>7, <1>8, ReturnFrame
<1> QED BY <1>1, <1>5, <1>9 DEF IInv, TypeOK

-----------------------------------------------------------------------------
\* Every step of the session preserves the invariant.
LEMMA NextIInv == IInv /\ [Next]_vars => IInv'
<1> SUFFICES ASSUME IInv, [Next]_vars PROVE IInv'
  OBVIOUS
<1>1. ASSUME NEW l \in Labels, AttachBrowser(l) PROVE IInv'
  BY <1>1, AttachIInv
<1>2. CASE ShutdownAllBrowsers
  BY <1>2, ShutdownIInv
<1>3. ASSUME NEW g \in Gens, ReaderStep(g) PROVE IInv'
  BY <1>3, DropConnIInv, SpawnReaderIInv, ReadFrameIInv, DeliverReplyIInv, ReadEofIInv,
     ReaderCleanupIInv DEF ReaderStep
<1>4. ASSUME NEW g \in Gens, PeerStep(g) PROVE IInv'
  BY <1>4, PeerIInv
<1>5. ASSUME NEW c \in Callers, OngoingCall(c) PROVE IInv'
  BY <1>5, SendRefusedIInv, SendInsertIInv, SendWriteIInv, SendWriteFailsIInv,
     WaitEndsIInv, DropGuardIInv, CancelWriteIInv DEF OngoingCall
<1>6. ASSUME NEW c \in Callers, NEW w \in Labels \cup {None}, Call(c, w) PROVE IInv'
  BY <1>6, CallIInv
<1>7. CASE UNCHANGED vars
  <2>1. TypeOK'
    BY <1>7, TypeFrame DEF vars, IInv, TypeOK, registryVars, readerVars, peerVars, callVars
  <2>2. CallInv'
    BY <1>7, CallFrame DEF vars, IInv, SeversOnly, TakesNoReply
  <2> QED BY <2>1, <2>2 DEF IInv
<1> QED BY <1>1, <1>2, <1>3, <1>4, <1>5, <1>6, <1>7 DEF Next

\* IInv holds in every reachable state.
LEMMA SpecIInv == Spec => []IInv
  BY InitIInv, NextIInv, PTL DEF Spec

\* The session keeps its types, whatever the number of browsers and calls: no
\* request is ever written without an id, and no reader delivers to nobody.
THEOREM SessionTypes == Spec => []TypeOK
<1>1. IInv => TypeOK
  BY DEF IInv
<1> QED BY <1>1, SpecIInv, PTL

\* A reply reaches a call only from the connection its request was sent on: the
\* reader loop's generation check suffices, for any frames a broken extension
\* sends and any order of attaches, supersessions, sweeps and cleanups.
THEOREM SessionReplyIsolation == Spec => []ReplyIsolation
<1>1. IInv => ReplyIsolation
  BY DEF IInv, CallInv
<1> QED BY <1>1, SpecIInv, PTL

\* Every entry of the pending table has a live call that will remove it: neither
\* a failed write, a timeout, a severed connection nor a late reply leaks one.
THEOREM SessionPendingOwned == Spec => []PendingOwned
<1>1. IInv => PendingOwned
  BY DEF IInv, CallInv
<1> QED BY <1>1, SpecIInv, PTL

-----------------------------------------------------------------------------
(* The registry.                                                           *)

\* A connection has a label from its attach on, and a thread only from then on.
Born ==
    \A g \in Gens : /\ g < nextGen => labelOf[g] \in Labels
                    /\ g >= nextGen => reader[g] = "none"

\* A registered connection sits under its own label and has a live reader.
RegisteredOK ==
    \A l \in Labels : conns[l] # NoGen =>
        /\ conns[l] < nextGen /\ labelOf[conns[l]] = l
        /\ reader[conns[l]] \notin {"none", "done"}

RegistryInv == Born /\ RegisteredOK /\ NoOrphanSocket /\ BrowserCap

\* A caller in one of its two socket writes holds the registry lock.
LockHeld == \A c \in Callers : pc[c] \in {"writing", "cancelling"} => connsLock = c

RouteInv == LockHeld /\ RouteStable

\* A request that has been routed is bound to a connection.
Bound ==
    \A c \in Callers : pc[c] \in {"writing", "waiting", "dropping"} => sentOn[c] \in Gens

\* NoStrandedCaller, from the routing decision on.
Attended ==
    \A c \in Callers :
        pc[c] \in {"writing", "waiting"} /\ chan[c] = Empty =>
            \/ pending[reqId[c]] = sentOn[c] /\ reader[sentOn[c]] # "done"
            \/ \E g \in Gens : reader[g] = "delivering" /\ hand[g] = c

WaitInv == Bound /\ Attended

RInv == RegistryInv /\ RouteInv /\ WaitInv

-----------------------------------------------------------------------------
(* What a step may leave alone.                                            *)

\* A step that keeps the registry, closes no socket it does not take, and neither
\* starts nor finishes a reader.
LEMMA RegistryFrame ==
    ASSUME RegistryType, RegistryInv, UNCHANGED <<conns, nextGen, labelOf>>,
           shut \subseteq shut', taken \subseteq taken' \cup shut',
           \A g \in Gens : reader'[g] \in {"none", "done"} <=> reader[g] \in {"none", "done"},
           \A g \in Gens : reader[g] = "none" => reader'[g] = "none"
    PROVE  RegistryInv'
<1>1. Born'
  BY DEF RegistryInv, Born
<1>2. RegisteredOK'
  BY DEF RegistryType, RegistryInv, RegisteredOK
<1>3. NoOrphanSocket'
  BY DEF RegistryInv, NoOrphanSocket
<1>4. BrowserCap'
  BY DEF RegistryInv, BrowserCap, Registered
<1> QED BY <1>1, <1>2, <1>3, <1>4 DEF RegistryInv

\* A step of no call, under the lock or not, keeps the routes: while somebody
\* writes the registry stands still.
LEMMA RouteFrame ==
    ASSUME RouteInv, UNCHANGED <<pc, connsLock, target, sentOn, want>>,
           UNCHANGED conns \/ Free
    PROVE  RouteInv'
<1>1. LockHeld'
  BY DEF RouteInv, LockHeld
<1>2. CASE Free
  BY <1>1, <1>2 DEF RouteInv, LockHeld, RouteStable, Free
<1>3. CASE UNCHANGED conns
  BY <1>1, <1>3 DEF RouteInv, RouteStable, Registered
<1> QED BY <1>2, <1>3

\* A step of no call that finishes no reader, takes no reply and empties no
\* channel leaves every caller attended.
LEMMA WaitFrame ==
    ASSUME CallType, WaitInv, UNCHANGED <<pc, reqId, sentOn, pending>>,
           \A c \in Callers : chan'[c] = Empty => chan[c] = Empty,
           \A g \in Gens : /\ reader'[g] = "done" => reader[g] = "done"
                           /\ reader[g] = "delivering" =>
                                reader'[g] = "delivering" /\ hand'[g] = hand[g]
    PROVE  WaitInv'
<1>1. Bound'
  BY DEF WaitInv, Bound
<1>2. Attended'
  <2> SUFFICES ASSUME NEW c \in Callers, pc[c] \in {"writing", "waiting"}, chan'[c] = Empty
               PROVE  \/ pending[reqId[c]] = sentOn[c] /\ reader'[sentOn[c]] # "done"
                      \/ \E g \in Gens : reader'[g] = "delivering" /\ hand'[g] = c
    BY DEF Attended
  <2>1. sentOn[c] \in Gens /\ chan[c] = Empty
    BY DEF WaitInv, Bound
  <2> QED BY <2>1 DEF WaitInv, Attended
<1> QED BY <1>1, <1>2 DEF WaitInv

\* Only one caller at a time is in a socket write.
LEMMA Exclusive ==
    ASSUME RouteInv, NEW c \in Callers, Free \/ connsLock = c
    PROVE  \A d \in Callers : d # c => pc[d] \notin {"writing", "cancelling"}
  BY DEF RouteInv, LockHeld, Free

-----------------------------------------------------------------------------
\* Nothing is registered, nobody calls.
LEMMA InitRInv == Init => RInv
<1> SUFFICES ASSUME Init PROVE RInv
  OBVIOUS
<1>1. Registered = {}
  BY DEF Init, Registered
<1>2. BrowserCap
  BY <1>1, FS_EmptySet DEF BrowserCap
<1>3. Born /\ RegisteredOK /\ NoOrphanSocket
  BY DEF Init, Born, RegisteredOK, NoOrphanSocket
<1>4. RouteInv /\ WaitInv
  BY DEF Init, RouteInv, LockHeld, RouteStable, WaitInv, Bound, Attended
<1> QED BY <1>2, <1>3, <1>4 DEF RInv, RegistryInv

\* The registry is a finite set of labels.
LEMMA RegisteredFinite == IsFiniteSet(Registered) /\ Cardinality(Registered) \in Nat
  BY FS_Subset, FS_CardinalityType DEF Registered

\* The cap is checked and the connection inserted under one lock.
LEMMA AttachRInv ==
    ASSUME IInv, RInv, NEW l \in Labels, AttachBrowser(l)
    PROVE  RInv'
<1>1. /\ nextGen \in Gens /\ nextGen' = nextGen + 1 /\ HasRoom(l) /\ Free
      /\ conns' = [conns EXCEPT ![l] = nextGen]
      /\ labelOf' = [labelOf EXCEPT ![nextGen] = l]
      /\ taken' = taken \cup ({conns[l]} \ {NoGen}) /\ shut' = shut
      /\ reader' = [reader EXCEPT ![nextGen] = "spawning"] /\ hand' = hand
      /\ UNCHANGED <<pc, reqId, sentOn, pending, chan, connsLock, target, want>>
  BY DEF AttachBrowser, IInv, TypeOK, RegistryType, callVars
<1>2. /\ conns \in [Labels -> Gens \cup {NoGen}] /\ labelOf \in [Gens -> Labels \cup {None}]
      /\ reader \in [Gens -> ReaderPhase] /\ CallType
  BY DEF IInv, TypeOK, RegistryType, ReaderType
<1>3. Born'
  BY <1>1, <1>2 DEF RInv, RegistryInv, Born
<1>4. RegisteredOK'
  BY <1>1, <1>2 DEF RInv, RegistryInv, RegisteredOK
<1>5. NoOrphanSocket'
  <2> SUFFICES ASSUME NEW g \in Gens, g < nextGen', g \notin shut
               PROVE  conns'[labelOf'[g]] = g \/ g \in taken'
    BY <1>1 DEF NoOrphanSocket
  <2>1. CASE g = nextGen
    BY <1>1, <1>2, <2>1
  <2>2. CASE g # nextGen
    <3>1. g < nextGen /\ labelOf[g] \in Labels /\ labelOf'[g] = labelOf[g]
      BY <1>1, <1>2, <2>2 DEF RInv, RegistryInv, Born
    <3>2. conns[labelOf[g]] = g \/ g \in taken
      BY <3>1 DEF RInv, RegistryInv, NoOrphanSocket
    <3> QED BY <1>1, <1>2, <3>1, <3>2
  <2> QED BY <2>1, <2>2
<1>6. BrowserCap'
  <2>1. Registered' = Registered \cup {l}
    BY <1>1, <1>2 DEF Registered
  <2>2. Cardinality(Registered \cup {l}) =
          IF l \in Registered THEN Cardinality(Registered) ELSE Cardinality(Registered) + 1
    BY RegisteredFinite, FS_AddElement
  <2>3. Cardinality(Registered \cup {l}) <= MaxBrowsers
    BY <1>1, <2>2, RegisteredFinite DEF HasRoom, RInv, RegistryInv, BrowserCap
  <2> QED BY <2>1, <2>3 DEF BrowserCap
<1>7. RouteInv'
  BY <1>1, RouteFrame DEF RInv
<1>8. reader[nextGen] = "none"
  BY <1>1 DEF RInv, RegistryInv, Born
<1>9. WaitInv'
  BY <1>1, <1>2, <1>8, WaitFrame DEF RInv
<1> QED BY <1>3, <1>4, <1>5, <1>6, <1>7, <1>9 DEF RInv, RegistryInv

\* The sweep empties the registry into the hands of the thread that drops it.
LEMMA ShutdownRInv ==
    ASSUME IInv, RInv, ShutdownAllBrowsers
    PROVE  RInv'
<1>1. /\ Free /\ taken' = taken \cup {conns[l] : l \in Registered}
      /\ conns' = [l \in Labels |-> NoGen] /\ Wake(Gens)
      /\ UNCHANGED <<nextGen, labelOf, shut, reader, hand, pc, reqId, sentOn, pending,
                     connsLock, target, want>>
  BY DEF ShutdownAllBrowsers, readerVars, callVars
<1>2. Born' /\ RegisteredOK'
  BY <1>1 DEF RInv, RegistryInv, Born, RegisteredOK
<1>3. NoOrphanSocket'
  <2> SUFFICES ASSUME NEW g \in Gens, g < nextGen, g \notin shut
               PROVE  g \in taken'
    BY <1>1 DEF NoOrphanSocket
  <2>1. labelOf[g] \in Labels
    BY DEF RInv, RegistryInv, Born
  <2> QED BY <1>1, <2>1 DEF RInv, RegistryInv, NoOrphanSocket, Registered
<1>4. BrowserCap'
  <2>1. Registered' = {}
    BY <1>1 DEF Registered
  <2> QED BY <2>1, FS_EmptySet DEF BrowserCap
<1>5. RouteInv'
  BY <1>1, RouteFrame DEF RInv
<1>6. CallType /\ SeversOnly
  BY <1>1, WakeFrame DEF IInv, TypeOK
<1>7. WaitInv'
  BY <1>1, <1>6, WaitFrame DEF RInv, SeversOnly, Severed, Empty
<1> QED BY <1>2, <1>3, <1>4, <1>5, <1>7 DEF RInv, RegistryInv

\* Dropping a connection, and a reader's start, its end of file and its pass over
\* a frame nobody takes, leave the registry and every caller as they are.
LEMMA QuietReaderRInv ==
    ASSUME IInv, RInv, NEW g \in Gens,
           \/ DropConn(g) \/ SpawnReader(g) \/ ReadEof(g)
           \/ ReadFrame(g) /\ ~MayDeliver(g, Head(toServer[g]))
    PROVE  RInv'
<1>1. /\ UNCHANGED <<conns, nextGen, labelOf, pc, reqId, sentOn, pending, hand, chan,
                     connsLock, target, want>>
      /\ shut \subseteq shut' /\ taken \subseteq taken' \cup shut'
  BY DEF DropConn, SpawnReader, ReadEof, ReadFrame, registryVars, readerVars, callVars
<1>2. \/ reader' = reader
      \/ /\ reader[g] \in {"spawning", "reading"}
         /\ reader' = [reader EXCEPT ![g] = "reading"]
      \/ /\ reader[g] \in {"spawning", "reading"}
         /\ reader' = [reader EXCEPT ![g] = "ending"]
  <2>1. CASE DropConn(g) \/ SpawnReader(g) \/ ReadEof(g)
    BY <2>1 DEF DropConn, SpawnReader, ReadEof, readerVars
  <2>2. CASE ReadFrame(g) /\ ~MayDeliver(g, Head(toServer[g]))
    BY <2>2 DEF ReadFrame
  <2> QED BY <2>1, <2>2
<1>3. /\ \A h \in Gens : reader'[h] \in {"none", "done"} <=> reader[h] \in {"none", "done"}
      /\ \A h \in Gens : reader[h] = "none" => reader'[h] = "none"
      /\ \A h \in Gens : reader'[h] = "done" => reader[h] = "done"
      /\ \A h \in Gens : reader[h] = "delivering" => reader'[h] = "delivering"
  BY <1>2 DEF IInv, TypeOK, ReaderType
<1>4. RegistryInv'
  BY <1>1, <1>3, RegistryFrame DEF RInv, IInv, TypeOK
<1>5. RouteInv'
  BY <1>1, RouteFrame DEF RInv
<1>6. WaitInv'
  BY <1>1, <1>3, WaitFrame DEF RInv, IInv, TypeOK
<1> QED BY <1>4, <1>5, <1>6 DEF RInv

\* A reply that leaves the pending table is in its reader's hand.
LEMMA TakeReplyRInv ==
    ASSUME IInv, RInv, NEW g \in Gens, ReadFrame(g), MayDeliver(g, Head(toServer[g]))
    PROVE  RInv'
<1> DEFINE i == Head(toServer[g])
<1>1. PICK c \in Callers : reqId[c] = i
  BY DEF IInv, CallInv, PendingOwned, MayDeliver
<1>2. \A d \in Callers : reqId[d] = i => d = c
  BY <1>1 DEF IInv, CallInv, IdsOwn, MayDeliver
<1>3. (CHOOSE d \in Callers : reqId[d] = i) = c
  BY <1>1, <1>2
<1>4. /\ reader[g] = "reading"
      /\ pending' = [pending EXCEPT ![i] = NoGen]
      /\ hand' = [hand EXCEPT ![g] = c]
      /\ reader' = [reader EXCEPT ![g] = "delivering"]
      /\ UNCHANGED <<conns, nextGen, labelOf, taken, shut, connsLock, pc, want, target,
                     reqId, sentOn, chan>>
  BY <1>3 DEF ReadFrame, callVars, registryVars
<1>5. RegistryInv'
  <2>1. reader \in [Gens -> ReaderPhase]
    BY DEF IInv, TypeOK, ReaderType
  <2> QED BY <1>4, <2>1, RegistryFrame DEF RInv, IInv, TypeOK
<1>6. RouteInv'
  BY <1>4, RouteFrame DEF RInv
<1>7. Bound'
  BY <1>4 DEF RInv, WaitInv, Bound
<1>8. Attended'
  <2> SUFFICES ASSUME NEW d \in Callers, pc[d] \in {"writing", "waiting"}, chan[d] = Empty
               PROVE  \/ pending'[reqId[d]] = sentOn[d] /\ reader'[sentOn[d]] # "done"
                      \/ \E h \in Gens : reader'[h] = "delivering" /\ hand'[h] = d
    BY <1>4 DEF Attended
  <2>1. hand \in [Gens -> Callers \cup {None}] /\ reader \in [Gens -> ReaderPhase]
    BY DEF IInv, TypeOK, ReaderType
  <2>2. CASE d = c
    BY <1>4, <2>1, <2>2
  <2>3. CASE d # c
    <3>1. /\ reqId[d] \in Ids /\ reqId[d] # i /\ sentOn[d] \in Gens
          /\ pending \in [Ids -> Gens \cup {NoGen}]
      BY <1>2, <2>3 DEF IInv, TypeOK, CallType, CallInv, Started, RInv, WaitInv, Bound
    <3>2. CASE pending[reqId[d]] = sentOn[d] /\ reader[sentOn[d]] # "done"
      BY <1>4, <2>1, <3>1, <3>2
    <3>3. CASE \E h \in Gens : reader[h] = "delivering" /\ hand[h] = d
      BY <1>4, <2>1, <3>3
    <3> QED BY <3>2, <3>3 DEF RInv, WaitInv, Attended
  <2> QED BY <2>2, <2>3
<1> QED BY <1>5, <1>6, <1>7, <1>8 DEF RInv, WaitInv

\* A reply leaves the reader's hand for its caller's channel.
LEMMA DeliverReplyRInv ==
    ASSUME IInv, RInv, NEW g \in Gens, DeliverReply(g)
    PROVE  RInv'
<1>1. /\ reader[g] = "delivering"
      /\ chan' = [chan EXCEPT ![hand[g]] = Sent(hand[g], Reply(g))]
      /\ hand' = [hand EXCEPT ![g] = None]
      /\ reader' = [reader EXCEPT ![g] = "reading"]
      /\ UNCHANGED <<conns, nextGen, labelOf, taken, shut, connsLock, pc, want, target,
                     reqId, sentOn, pending>>
  BY DEF DeliverReply, callVars, registryVars
<1>2. /\ hand \in [Gens -> Callers \cup {None}] /\ reader \in [Gens -> ReaderPhase]
      /\ chan \in [Callers -> Delivery] /\ hand[g] \in Callers
  BY <1>1 DEF IInv, TypeOK, ReaderType, CallType, CallInv, HandOwn
<1>3. RegistryInv'
  BY <1>1, <1>2, RegistryFrame DEF RInv, IInv, TypeOK
<1>4. RouteInv'
  BY <1>1, RouteFrame DEF RInv
<1>5. Bound'
  BY <1>1 DEF RInv, WaitInv, Bound
<1>6. Attended'
  <2> SUFFICES ASSUME NEW d \in Callers, pc[d] \in {"writing", "waiting"}, chan'[d] = Empty
               PROVE  \/ pending[reqId[d]] = sentOn[d] /\ reader'[sentOn[d]] # "done"
                      \/ \E h \in Gens : reader'[h] = "delivering" /\ hand'[h] = d
    BY <1>1 DEF Attended
  <2>1. d # hand[g] /\ chan[d] = Empty
    BY <1>1, <1>2 DEF Sent, Reply, Empty
  <2>2. sentOn[d] \in Gens
    BY DEF RInv, WaitInv, Bound
  <2>3. CASE pending[reqId[d]] = sentOn[d] /\ reader[sentOn[d]] # "done"
    BY <1>1, <1>2, <2>2, <2>3
  <2>4. CASE \E h \in Gens : reader[h] = "delivering" /\ hand[h] = d
    BY <1>1, <1>2, <2>1, <2>4
  <2> QED BY <2>1, <2>3, <2>4 DEF RInv, WaitInv, Attended
<1> QED BY <1>3, <1>4, <1>5, <1>6 DEF RInv, WaitInv

\* A reader that finishes clears the slot it owns and wakes every caller whose
\* entry it was to answer.
LEMMA ReaderCleanupRInv ==
    ASSUME IInv, RInv, NEW g \in Gens, ReaderCleanup(g)
    PROVE  RInv'
<1>1. /\ reader[g] = "ending" /\ Free /\ Wake({g})
      /\ IF conns[labelOf[g]] = g
         THEN /\ taken' = taken \cup {g}
              /\ conns' = [conns EXCEPT ![labelOf[g]] = NoGen]
         ELSE UNCHANGED <<conns, taken>>
      /\ reader' = [reader EXCEPT ![g] = "done"]
      /\ UNCHANGED <<nextGen, labelOf, shut, hand, connsLock, pc, want, target, reqId, sentOn,
                     pending>>
  BY DEF ReaderCleanup, ShouldClear, callVars
<1>2. /\ conns \in [Labels -> Gens \cup {NoGen}] /\ reader \in [Gens -> ReaderPhase]
      /\ CallType /\ nextGen \in Nat
  BY DEF IInv, TypeOK, RegistryType, ReaderType
<1>3. labelOf[g] \in Labels
  BY <1>1, <1>2 DEF RInv, RegistryInv, Born
<1>4. Born'
  BY <1>1, <1>2 DEF RInv, RegistryInv, Born
<1>5. RegisteredOK'
  BY <1>1, <1>2, <1>3 DEF RInv, RegistryInv, RegisteredOK
<1>6. NoOrphanSocket'
  BY <1>1, <1>2, <1>3 DEF RInv, RegistryInv, Born, NoOrphanSocket
<1>7. BrowserCap'
  <2>1. Registered' \subseteq Registered
    BY <1>1, <1>2, <1>3 DEF Registered
  <2>2. Cardinality(Registered') <= Cardinality(Registered) /\ Cardinality(Registered') \in Nat
    BY <2>1, RegisteredFinite, FS_Subset, FS_CardinalityType
  <2> QED BY <2>2, RegisteredFinite DEF RInv, RegistryInv, BrowserCap
<1>8. RouteInv'
  BY <1>1, RouteFrame DEF RInv
<1>9. Bound'
  BY <1>1 DEF RInv, WaitInv, Bound
<1>10. Attended'
  <2> SUFFICES ASSUME NEW d \in Callers, pc[d] \in {"writing", "waiting"}, chan'[d] = Empty
               PROVE  \/ pending[reqId[d]] = sentOn[d] /\ reader'[sentOn[d]] # "done"
                      \/ \E h \in Gens : reader'[h] = "delivering" /\ hand'[h] = d
    BY <1>1 DEF Attended
  <2>1. reqId[d] \in Ids /\ sentOn[d] \in Gens
    BY DEF IInv, TypeOK, CallType, CallInv, Started, RInv, WaitInv, Bound
  <2>2. chan[d] = Empty /\ pending[reqId[d]] # g
    BY <1>1, <2>1 DEF Wake, Sent, Severed, Empty
  <2>3. CASE pending[reqId[d]] = sentOn[d] /\ reader[sentOn[d]] # "done"
    BY <1>1, <1>2, <2>1, <2>2, <2>3
  <2>4. CASE \E h \in Gens : reader[h] = "delivering" /\ hand[h] = d
    BY <1>1, <1>2, <2>4
  <2> QED BY <2>2, <2>3, <2>4 DEF RInv, WaitInv, Attended
<1> QED BY <1>4, <1>5, <1>6, <1>7, <1>8, <1>9, <1>10 DEF RInv, RegistryInv, WaitInv

\* The far end touches neither registry, readers nor calls.
LEMMA PeerRInv ==
    ASSUME IInv, RInv, NEW g \in Gens, PeerStep(g)
    PROVE  RInv'
<1>1. UNCHANGED <<conns, nextGen, labelOf, taken, shut, reader, hand, pc, reqId, sentOn,
                  pending, chan, connsLock, target, want>>
  BY DEF PeerStep, HostExit, HostForward, WorkerFinish, BogusFrame, registryVars, readerVars,
         callVars
<1>2. RegistryInv'
  BY <1>1, RegistryFrame DEF RInv, IInv, TypeOK
<1>3. RouteInv'
  BY <1>1, RouteFrame DEF RInv
<1>4. WaitInv'
  BY <1>1, WaitFrame DEF RInv, IInv, TypeOK
<1> QED BY <1>2, <1>3, <1>4 DEF RInv

-----------------------------------------------------------------------------
(* The calls.                                                              *)

\* Everything a step of call c owes the other callers: it leaves their state and
\* their entries alone, and changes the lock only when it is free or its own.
OthersKept(c) ==
    /\ UNCHANGED <<conns, nextGen, labelOf, taken, shut, reader, hand>>
    /\ \A d \in Callers \ {c} :
        /\ pc'[d] = pc[d] /\ reqId'[d] = reqId[d] /\ sentOn'[d] = sentOn[d]
        /\ chan'[d] = chan[d] /\ target'[d] = target[d] /\ want'[d] = want[d]
    /\ \A i \in Ids : pending'[i] = pending[i] \/ i = reqId'[c]
    /\ connsLock' = connsLock \/ Free \/ connsLock = c

\* With that, what is left to show of a step is about the call itself.
LEMMA CallerFrame ==
    ASSUME IInv, IInv', RInv, NEW c \in Callers, OthersKept(c),
           pc'[c] \in {"writing", "cancelling"} => connsLock' = c,
           pc'[c] = "writing" => /\ conns[target'[c]] = sentOn'[c]
                                 /\ want'[c] = None => Registered = {target'[c]},
           pc'[c] \in {"writing", "waiting", "dropping"} => sentOn'[c] \in Gens,
           pc'[c] \in {"writing", "waiting"} /\ chan'[c] = Empty =>
                \/ pending'[reqId'[c]] = sentOn'[c] /\ reader[sentOn'[c]] # "done"
                \/ \E g \in Gens : reader[g] = "delivering" /\ hand[g] = c
    PROVE  RInv'
<1>1. RegistryInv'
  BY RegistryFrame DEF OthersKept, RInv, IInv, TypeOK
<1>2. LockHeld'
  BY Exclusive DEF OthersKept, RInv, RouteInv, LockHeld
<1>3. RouteStable'
  BY DEF OthersKept, RInv, RouteInv, RouteStable, Registered
<1>4. Bound'
  BY DEF OthersKept, RInv, WaitInv, Bound
<1>5. Attended'
  <2> SUFFICES ASSUME NEW d \in Callers \ {c}, pc[d] \in {"writing", "waiting"},
                      chan[d] = Empty
               PROVE  pending'[reqId[d]] = pending[reqId[d]]
    BY DEF OthersKept, RInv, WaitInv, Attended
  <2>1. reqId[d] \in Ids /\ reqId'[d] = reqId[d]
    BY DEF OthersKept, IInv, TypeOK, CallType, CallInv, Started
  <2>2. reqId[d] # reqId'[c]
    BY <2>1 DEF IInv, CallInv, IdsOwn
  <2> QED BY <2>1, <2>2 DEF OthersKept
<1> QED BY <1>1, <1>2, <1>3, <1>4, <1>5 DEF RInv, RouteInv, WaitInv

\* The returns: a call that is done waits for nobody and holds nothing.
LEMMA ReturnRInv ==
    ASSUME IInv, IInv', RInv, NEW c \in Callers, NEW how, Return(c, how),
           UNCHANGED <<registryVars, readerVars, reqId>>,
           \A i \in Ids : pending'[i] = pending[i] \/ i = reqId[c],
           connsLock' = connsLock \/ Free \/ connsLock = c
    PROVE  RInv'
<1>1. pc \in [Callers -> CallPhase] /\ pc'[c] = "done"
  BY DEF IInv, TypeOK, CallType, Return
<1>2. OthersKept(c)
  BY DEF IInv, TypeOK, CallType, Return, OthersKept, registryVars, readerVars
<1> QED BY <1>1, <1>2, CallerFrame

\* Starting a call, and ending its wait, touch nobody else's routes.
LEMMA CallRInv ==
    ASSUME IInv, IInv', RInv, NEW c \in Callers,
           WaitEnds(c) \/ \E w \in Labels \cup {None} : Call(c, w)
    PROVE  RInv'
<1>1. CASE WaitEnds(c)
  <2>1. /\ pc[c] = "waiting" /\ pc'[c] = "dropping" /\ sentOn' = sentOn
        /\ OthersKept(c)
    BY <1>1 DEF WaitEnds, IInv, TypeOK, CallType, OthersKept, registryVars, readerVars
  <2>2. sentOn'[c] \in Gens
    BY <2>1 DEF RInv, WaitInv, Bound
  <2> QED BY <2>1, <2>2, CallerFrame
<1>2. ASSUME NEW w \in Labels \cup {None}, Call(c, w) PROVE RInv'
  <2>1. pc'[c] = "ready" /\ OthersKept(c)
    BY <1>2 DEF Call, IInv, TypeOK, CallType, OthersKept, registryVars, readerVars
  <2> QED BY <2>1, CallerFrame
<1> QED BY <1>1, <1>2

\* The routing decision and the entry are made under the lock, so the connection
\* chosen is registered, its reader has not cleaned up, and a call that named no
\* browser found exactly one.
LEMMA SendInsertRInv ==
    ASSUME IInv, IInv', RInv, NEW c \in Callers, SendInsert(c)
    PROVE  RInv'
<1>1. PICK l \in ResolveTarget(want[c]) :
        /\ target' = [target EXCEPT ![c] = l]
        /\ sentOn' = [sentOn EXCEPT ![c] = conns[l]]
        /\ pending' = [pending EXCEPT ![nextId] = conns[l]]
  BY DEF SendInsert
<1>2. /\ Free /\ nextId \in Ids
      /\ reqId' = [reqId EXCEPT ![c] = nextId] /\ connsLock' = c
      /\ pc' = [pc EXCEPT ![c] = "writing"]
      /\ UNCHANGED <<registryVars, reader, hand, want, chan>>
  BY DEF SendInsert, readerVars, IInv, TypeOK, CallType
<1>3. l \in Labels /\ conns[l] \in Gens /\ reader[conns[l]] # "done"
  BY <1>1 DEF ResolveTarget, Registered, IInv, TypeOK, RegistryType, RInv, RegistryInv,
              RegisteredOK
<1>4. want[c] = None => Registered = {l}
  <2> SUFFICES ASSUME want[c] = None PROVE Registered = {l}
    OBVIOUS
  <2>1. Cardinality(Registered) = 1 /\ l \in Registered
    BY <1>1 DEF ResolveTarget
  <2>2. \E x : Registered = {x}
    BY <2>1, RegisteredFinite, FS_Singleton
  <2> QED BY <2>1, <2>2
<1>5. /\ pc'[c] = "writing" /\ target'[c] = l /\ sentOn'[c] = conns[l] /\ reqId'[c] = nextId
      /\ pending'[nextId] = conns[l] /\ want'[c] = want[c]
  BY <1>1, <1>2 DEF IInv, TypeOK, CallType
<1>6. OthersKept(c)
  BY <1>1, <1>2 DEF IInv, TypeOK, CallType, OthersKept, registryVars
<1> QED BY <1>2, <1>3, <1>4, <1>5, <1>6, CallerFrame

\* Once written, the request waits on the connection it was routed to.
LEMMA SendWriteRInv ==
    ASSUME IInv, IInv', RInv, NEW c \in Callers, SendWrite(c)
    PROVE  RInv'
<1>1. /\ pc[c] = "writing" /\ pc'[c] = "waiting" /\ connsLock = c
      /\ UNCHANGED <<reader, hand, pending, reqId, sentOn, chan>>
  BY DEF SendWrite, readerVars, IInv, TypeOK, CallType, RInv, RouteInv, LockHeld
<1>2. OthersKept(c)
  BY <1>1 DEF SendWrite, IInv, TypeOK, CallType, OthersKept, registryVars, readerVars
<1>3. sentOn[c] \in Gens
  BY <1>1 DEF RInv, WaitInv, Bound
<1>4. chan[c] = Empty =>
        \/ pending[reqId[c]] = sentOn[c] /\ reader[sentOn[c]] # "done"
        \/ \E g \in Gens : reader[g] = "delivering" /\ hand[g] = c
  BY <1>1 DEF RInv, WaitInv, Attended
<1> QED BY <1>1, <1>2, <1>3, <1>4, CallerFrame

\* Dropping the guard: the call is no longer waiting; a cancel needs the lock.
LEMMA DropGuardRInv ==
    ASSUME IInv, IInv', RInv, NEW c \in Callers, DropGuard(c)
    PROVE  RInv'
<1>1. /\ Free /\ pending' = [pending EXCEPT ![reqId[c]] = NoGen]
      /\ UNCHANGED <<registryVars, readerVars, reqId>>
  BY DEF DropGuard
<1>2. \A i \in Ids : pending'[i] = pending[i] \/ i = reqId[c]
  BY <1>1 DEF IInv, TypeOK, CallType
<1>3. CASE StillPending(c) /\ conns[target[c]] # NoGen
  <2>1. /\ pc' = [pc EXCEPT ![c] = "cancelling"] /\ connsLock' = c
        /\ UNCHANGED <<want, target, sentOn, chan>>
    BY <1>3 DEF DropGuard
  <2>2. pc'[c] = "cancelling"
    BY <2>1 DEF IInv, TypeOK, CallType
  <2>3. OthersKept(c)
    BY <1>1, <1>2, <2>1 DEF IInv, TypeOK, CallType, OthersKept, registryVars, readerVars
  <2> QED BY <2>1, <2>2, <2>3, CallerFrame
<1>4. CASE ~(StillPending(c) /\ conns[target[c]] # NoGen)
  BY <1>1, <1>2, <1>4, ReturnRInv DEF DropGuard
<1> QED BY <1>3, <1>4

\* The three ways a call returns that end a lock or never had one.
LEMMA CallReturnsRInv ==
    ASSUME IInv, IInv', RInv, NEW c \in Callers,
           SendRefused(c) \/ SendWriteFails(c) \/ CancelWrite(c)
    PROVE  RInv'
<1>1. CASE SendRefused(c)
  BY <1>1, ReturnRInv DEF SendRefused
<1>2. CASE SendWriteFails(c)
  <2>1. \A i \in Ids : pending'[i] = pending[i] \/ i = reqId[c]
    BY <1>2 DEF SendWriteFails, IInv, TypeOK, CallType
  <2>2. connsLock = c
    BY <1>2 DEF SendWriteFails, RInv, RouteInv, LockHeld
  <2> QED BY <1>2, <2>1, <2>2, ReturnRInv DEF SendWriteFails
<1>3. CASE CancelWrite(c)
  <2>1. connsLock = c
    BY <1>3 DEF CancelWrite, RInv, RouteInv, LockHeld
  <2> QED BY <1>3, <2>1, ReturnRInv DEF CancelWrite
<1> QED BY <1>1, <1>2, <1>3

-----------------------------------------------------------------------------
\* Every step preserves the registry side of the invariant.
LEMMA NextRInv == IInv /\ IInv' /\ RInv /\ [Next]_vars => RInv'
<1> SUFFICES ASSUME IInv, IInv', RInv, [Next]_vars PROVE RInv'
  OBVIOUS
<1>1. ASSUME NEW l \in Labels, AttachBrowser(l) PROVE RInv'
  BY <1>1, AttachRInv
<1>2. CASE ShutdownAllBrowsers
  BY <1>2, ShutdownRInv
<1>3. ASSUME NEW g \in Gens, ReaderStep(g) PROVE RInv'
  BY <1>3, QuietReaderRInv, TakeReplyRInv, DeliverReplyRInv, ReaderCleanupRInv
     DEF ReaderStep
<1>4. ASSUME NEW g \in Gens, PeerStep(g) PROVE RInv'
  BY <1>4, PeerRInv
<1>5. ASSUME NEW c \in Callers, OngoingCall(c) PROVE RInv'
  BY <1>5, CallReturnsRInv, SendInsertRInv, SendWriteRInv, CallRInv, DropGuardRInv
     DEF OngoingCall
<1>6. ASSUME NEW c \in Callers, NEW w \in Labels \cup {None}, Call(c, w) PROVE RInv'
  BY <1>6, CallRInv
<1>7. CASE UNCHANGED vars
  <2>1. RegistryInv'
    BY <1>7, RegistryFrame DEF vars, RInv, IInv, TypeOK
  <2>2. RouteInv'
    BY <1>7, RouteFrame DEF vars, RInv
  <2>3. WaitInv'
    BY <1>7, WaitFrame DEF vars, RInv, IInv, TypeOK
  <2> QED BY <2>1, <2>2, <2>3 DEF RInv
<1> QED BY <1>1, <1>2, <1>3, <1>4, <1>5, <1>6, <1>7 DEF Next

\* RInv holds in every reachable state.
LEMMA SpecRInv == Spec => []RInv
  BY InitRInv, NextRInv, SpecIInv, PTL DEF Spec

\* No caller waits in vain: as long as nothing was delivered to it, the reader of
\* its connection has yet to clean up with its entry in the table, or holds its
\* reply, for any interleaving of senders, readers, supersessions and sweeps.
THEOREM SessionNoStrandedCaller == Spec => []NoStrandedCaller
<1>1. RInv => NoStrandedCaller
  BY DEF RInv, WaitInv, Attended, NoStrandedCaller
<1> QED BY <1>1, SpecRInv, PTL

\* A call writes on the connection that holds its label, and never guesses: the
\* lock spans the routing decision and the write.
THEOREM SessionRouteStable == Spec => []RouteStable
<1>1. RInv => RouteStable
  BY DEF RInv, RouteInv
<1> QED BY <1>1, SpecRInv, PTL

\* No connection taken out of the registry stays open.
THEOREM SessionNoOrphanSocket == Spec => []NoOrphanSocket
<1>1. RInv => NoOrphanSocket
  BY DEF RInv, RegistryInv
<1> QED BY <1>1, SpecRInv, PTL

\* Any number of concurrent attaches keep the number of browsers within the cap.
THEOREM SessionBrowserCap == Spec => []BrowserCap
<1>1. RInv => BrowserCap
  BY DEF RInv, RegistryInv
<1> QED BY <1>1, SpecRInv, PTL

\* A reader's cleanup never empties the slot of a connection other than its own.
THEOREM SessionSlotClearedByOwner == Spec => SlotClearedByOwner
<1>1. ASSUME IInv, [Next]_vars,
             NEW l \in Labels, conns[l] # NoGen, conns'[l] = NoGen
      PROVE  reader[conns[l]] = "ending" \/ reader' = reader
  <2>1. conns \in [Labels -> Gens \cup {NoGen}] /\ conns' # conns /\ nextGen \in Nat \ {0}
    BY <1>1 DEF IInv, TypeOK, RegistryType
  <2>2. ASSUME NEW k \in Labels, AttachBrowser(k) PROVE FALSE
    BY <1>1, <2>1, <2>2 DEF AttachBrowser
  <2>3. CASE ShutdownAllBrowsers
    BY <2>3 DEF ShutdownAllBrowsers, readerVars
  <2>4. ASSUME NEW g \in Gens, ReaderStep(g) PROVE reader[conns[l]] = "ending"
    <3>1. ReaderCleanup(g)
      <4>1. ~(DropConn(g) \/ SpawnReader(g) \/ DeliverReply(g) \/ ReadEof(g))
        BY <2>1 DEF DropConn, SpawnReader, DeliverReply, ReadEof, registryVars
      <4>2. ~ReadFrame(g)
        BY <2>1 DEF ReadFrame, registryVars
      <4> QED BY <2>4, <4>1, <4>2 DEF ReaderStep
    <3> QED BY <1>1, <2>1, <3>1 DEF ReaderCleanup, ShouldClear
  <2>5. ASSUME NEW g \in Gens, PeerStep(g) PROVE FALSE
    BY <2>1, <2>5 DEF PeerStep, HostExit, HostForward, WorkerFinish, BogusFrame, registryVars
  <2>6. ASSUME NEW c \in Callers,
               OngoingCall(c) \/ \E w \in Labels \cup {None} : Call(c, w)
        PROVE  FALSE
    BY <2>1, <2>6 DEF OngoingCall, SendRefused, SendInsert, SendWrite, SendWriteFails,
                      WaitEnds, DropGuard, CancelWrite, Call, registryVars
  <2>7. CASE UNCHANGED vars
    BY <2>1, <2>7 DEF vars
  <2> QED BY <1>1, <2>2, <2>3, <2>4, <2>5, <2>6, <2>7 DEF Next
<1>2. IInv /\ [Next]_vars =>
        [\A l \in Labels : conns[l] # NoGen /\ conns'[l] = NoGen =>
            reader[conns[l]] = "ending" \/ reader' = reader]_vars
  BY <1>1
<1> QED BY <1>2, SpecIInv, PTL DEF Spec, SlotClearedByOwner

-----------------------------------------------------------------------------
(* The kill switch.                                                        *)

\* The gate's refusal is a return of its own, before the call has an id.
LEMMA GateRefusesIInv ==
    ASSUME IInv, NEW c \in Callers, GateRefuses(c)
    PROVE  IInv'
<1>1. RegistryType' /\ ReaderType' /\ WireType'
  BY TypeFrame DEF IInv, TypeOK, GateRefuses
<1>2. Return(c, "killed") /\ "killed" \in Outcome
  BY DEF GateRefuses, Outcome
<1>3. \A i \in Ids : reqId[c] # i
  BY DEF GateRefuses, IInv, CallInv, Started
<1>4. UNCHANGED <<reader, hand, reqId, pending, connsLock, nextId>>
  BY DEF GateRefuses, readerVars
<1>5. nextId' \in Nat /\ nextId' >= nextId /\ nextId' \in 1..(MaxId + 1)
  BY <1>4 DEF IInv, TypeOK, CallType
<1>6. CallType' /\ CallInv'
  <2>1. pending' \in [Ids -> Gens \cup {NoGen}] /\ connsLock' \in Callers \cup {None}
    BY <1>4 DEF IInv, TypeOK, CallType
  <2>2. \A i \in Ids : pending'[i] # NoGen => pending'[i] = pending[i] /\ reqId[c] # i
    BY <1>3, <1>4
  <2> QED BY <1>2, <1>4, <1>5, <2>1, <2>2, ReturnFrame
<1> QED BY <1>1, <1>6 DEF IInv, TypeOK

LEMMA GateRefusesRInv ==
    ASSUME IInv, IInv', RInv, NEW c \in Callers, GateRefuses(c)
    PROVE  RInv'
BY ReturnRInv DEF GateRefuses

\* Every step with the kill switch around it is a step of the session, or the gate's refusal.
LEMMA KillStepsSession ==
    ASSUME [KillNext]_allVars
    PROVE  [Next]_vars \/ \E c \in Callers : GateRefuses(c)
<1>1. CASE UNCHANGED vars
  BY <1>1
<1>2. CASE Engage \/ Release \/ Damage \/ Restore \/ WatchRead \/ WatchReadsOff \/ UNCHANGED allVars
  BY <1>2 DEF Engage, Release, Damage, Restore, SetRecord, WatchRead, WatchReadsOff, allVars
<1>3. CASE \E c \in Callers, w \in Labels \cup {None} : GatedCall(c, w)
  BY <1>3 DEF GatedCall, Next
<1>4. CASE \E l \in Labels : AdmitBrowser(l) \/ AttachAdmitted(l)
  BY <1>4 DEF AdmitBrowser, AttachAdmitted, Next
<1>5. CASE WatchSweep \/ SessionStep
  BY <1>5 DEF WatchSweep, SessionStep, Next
<1> QED BY <1>1, <1>2, <1>3, <1>4, <1>5 DEF KillNext

LEMMA KillSpecSession == KillSpec => [](IInv /\ RInv)
<1>1. KillInit => IInv /\ RInv
  BY InitIInv, InitRInv DEF KillInit
<1>2. IInv /\ RInv /\ [KillNext]_allVars => (IInv /\ RInv)'
  <2> SUFFICES ASSUME IInv, RInv, [KillNext]_allVars PROVE IInv' /\ RInv'
    OBVIOUS
  <2>1. CASE [Next]_vars
    BY <2>1, NextIInv, NextRInv
  <2>2. CASE \E c \in Callers : GateRefuses(c)
    BY <2>2, GateRefusesIInv, GateRefusesRInv
  <2> QED BY <2>1, <2>2, KillStepsSession
<1> QED BY <1>1, <1>2, PTL DEF KillSpec

\* While settled, the switch is not off and nobody is between the check and the attach.
Settled == settled => ~Verdict(record) /\ admitting = {}

KillInv == Settled /\ KillSettles

\* A step that attaches nothing and routes no call keeps the settled state.
LEMMA SettledFrame ==
    ASSUME KillInv, settled, Registered' \subseteq Registered,
           \A c \in Callers : pc'[c] = "writing" => pc[c] = "writing"
    PROVE  Registered' = {} /\ \A c \in Callers : pc'[c] # "writing"
BY DEF KillInv, KillSettles

\* With no browser registered no call is routed, and no step of the session but an attach adds one.
LEMMA SessionStepSettled ==
    ASSUME IInv, KillInv, settled, SessionStep \/ (\E c \in Callers : GateRefuses(c))
    PROVE  Registered' = {} /\ \A c \in Callers : pc'[c] # "writing"
<1>0. /\ Registered = {} /\ conns \in [Labels -> Gens \cup {NoGen}] /\ pc \in [Callers -> CallPhase]
      /\ \A l \in Labels : conns[l] = NoGen
  BY DEF KillInv, KillSettles, IInv, TypeOK, RegistryType, CallType, Registered
<1>1. ASSUME NEW g \in Gens, ReaderStep(g) \/ PeerStep(g)
      PROVE  pc' = pc /\ Registered' \subseteq Registered
  <2>1. CASE ReaderCleanup(g)
    <3>1. pc' = pc
      BY <2>1 DEF ReaderCleanup, callVars
    <3>2. conns' = conns \/ conns' = [conns EXCEPT ![labelOf[g]] = NoGen]
      BY <2>1 DEF ReaderCleanup
    <3>3. \A l \in Labels : conns'[l] = NoGen
      BY <1>0, <3>2
    <3> QED BY <3>1, <3>3 DEF Registered
  <2>2. CASE DropConn(g) \/ SpawnReader(g) \/ ReadEof(g) \/ DeliverReply(g)
    BY <2>2 DEF DropConn, SpawnReader, ReadEof, DeliverReply, registryVars, callVars, Registered
  <2>3. CASE ReadFrame(g)
    BY <2>3 DEF ReadFrame, registryVars, callVars, Registered
  <2>4. CASE PeerStep(g)
    BY <2>4 DEF PeerStep, HostExit, HostForward, WorkerFinish, BogusFrame, registryVars, callVars, Registered
  <2> QED BY <1>1, <2>1, <2>2, <2>3, <2>4 DEF ReaderStep
<1>2. ASSUME NEW c \in Callers, OngoingCall(c) \/ GateRefuses(c)
      PROVE  conns' = conns /\ \A d \in Callers : pc'[d] = "writing" => pc[d] = "writing"
  <2>1. ~SendInsert(c)
    <3>1. ResolveTarget(want[c]) = {}
      <4>1. Cardinality(Registered) = 0
        BY <1>0, FS_EmptySet
      <4> QED BY <1>0, <4>1 DEF ResolveTarget
    <3> QED BY <3>1 DEF SendInsert
  <2>2. CASE SendRefused(c) \/ SendWriteFails(c) \/ GateRefuses(c)
    BY <1>0, <2>2 DEF SendRefused, SendWriteFails, GateRefuses, Return, registryVars
  <2>3. CASE SendWrite(c) \/ WaitEnds(c)
    BY <1>0, <2>3 DEF SendWrite, WaitEnds, registryVars
  <2>4. CASE DropGuard(c) \/ CancelWrite(c)
    BY <1>0, <2>4 DEF DropGuard, CancelWrite, Return, registryVars
  <2> QED BY <1>2, <2>1, <2>2, <2>3, <2>4 DEF OngoingCall
<1>3. CASE SessionStep
  <2>1. CASE \E g \in Gens : ReaderStep(g) \/ PeerStep(g)
    BY <1>1, <2>1, SettledFrame
  <2>2. CASE \E c \in Callers : OngoingCall(c)
    BY <1>2, <2>2, SettledFrame DEF Registered
  <2> QED BY <1>3, <2>1, <2>2 DEF SessionStep
<1>4. CASE \E c \in Callers : GateRefuses(c)
  BY <1>2, <1>4, SettledFrame DEF Registered
<1> QED BY <1>3, <1>4

\* The sweep: nobody holds the registry lock, so nobody is in a write.
LEMMA SweepSettles ==
    ASSUME IInv, RInv, WatchSweep
    PROVE  Registered' = {} /\ \A c \in Callers : pc'[c] # "writing"
<1>1. Free /\ conns' = [l \in Labels |-> NoGen] /\ pc' = pc
  BY DEF WatchSweep, ShutdownAllBrowsers, callVars
<1>2. \A c \in Callers : pc[c] # "writing"
  BY <1>1 DEF RInv, RouteInv, LockHeld, Free
<1> QED BY <1>1, <1>2 DEF Registered

LEMMA NextKillInv ==
    ASSUME IInv, RInv, KillInv, [KillNext]_allVars
    PROVE  KillInv'
<1>0. Settled /\ KillSettles
  BY DEF KillInv
<1>1. CASE Engage \/ Release \/ Damage \/ Restore
  <2>1. PICK r : SetRecord(r)
    BY <1>1 DEF Engage, Release, Damage, Restore
  <2>2. record' = r /\ (settled' <=> settled /\ r # "off") /\ admitting' = admitting /\ conns' = conns /\ pc' = pc
    BY <2>1 DEF SetRecord, vars
  <2> QED BY <1>0, <2>2 DEF KillInv, Settled, KillSettles, Verdict, Registered
<1>2. CASE WatchRead \/ WatchReadsOff \/ UNCHANGED allVars
  <2>1. UNCHANGED <<record, settled, admitting, conns, pc>>
    BY <1>2 DEF WatchRead, WatchReadsOff, allVars, killVars, vars
  <2> QED BY <1>0, <2>1 DEF KillInv, Settled, KillSettles, Verdict, Registered
<1>3. CASE \E l \in Labels : AdmitBrowser(l) \/ AttachAdmitted(l)
  <2>1. ~settled /\ settled' = settled
    BY <1>0, <1>3 DEF AdmitBrowser, AttachAdmitted, Settled
  <2> QED BY <2>1 DEF KillInv, Settled, KillSettles
<1>4. CASE \E c \in Callers, w \in Labels \cup {None} : GatedCall(c, w)
  <2>1. ~settled /\ settled' = settled
    BY <1>0, <1>4 DEF GatedCall, killVars, Settled
  <2> QED BY <2>1 DEF KillInv, Settled, KillSettles
<1>5. CASE WatchSweep
  <2>1. record' = record /\ admitting' = admitting /\ (settled' <=> settled \/ (~Verdict(record) /\ admitting = {}))
    BY <1>5 DEF WatchSweep
  <2> QED BY <1>0, <1>5, <2>1, SweepSettles DEF KillInv, Settled, KillSettles, Verdict
<1>6. CASE SessionStep \/ \E c \in Callers : GateRefuses(c)
  <2>1. UNCHANGED <<record, settled, admitting>>
    BY <1>6 DEF SessionStep, GateRefuses, killVars
  <2>2. settled => Registered' = {} /\ \A c \in Callers : pc'[c] # "writing"
    BY <1>6, SessionStepSettled
  <2> QED BY <1>0, <2>1, <2>2 DEF KillInv, Settled, KillSettles, Verdict
<1> QED BY <1>1, <1>2, <1>3, <1>4, <1>5, <1>6 DEF KillNext

\* After a sweep under an engaged or unreadable record with no attach in flight, no browser
\* is registered and no request is being written, until the record reads off again: the gate
\* and the admission check let nobody past, and the sweep waited for the sender's lock.
THEOREM KillSwitchSettles == KillSpec => []KillSettles
<1>1. KillInit => KillInv
  BY DEF KillInit, KillInv, Settled, KillSettles
<1>2. KillInv => KillSettles
  BY DEF KillInv
<1> QED BY <1>1, <1>2, NextKillInv, KillSpecSession, PTL DEF KillSpec

\* The session under the kill switch keeps what it promises alone: the gate, the admission
\* check and the watcher's sweep strand no caller, misroute no reply and orphan no socket.
THEOREM KillSwitchKeepsSession ==
    KillSpec => [](ReplyIsolation /\ RouteStable /\ NoStrandedCaller /\ NoOrphanSocket)
<1>1. IInv /\ RInv => ReplyIsolation /\ RouteStable /\ NoStrandedCaller /\ NoOrphanSocket
  BY DEF IInv, CallInv, RInv, RegistryInv, RouteInv, WaitInv, Attended, NoStrandedCaller
<1> QED BY <1>1, KillSpecSession, PTL

-----------------------------------------------------------------------------
(* The promise of a call.                                                  *)

\* Nothing is on a wire or running under an id still to come, and a call that is
\* being written is on none yet.
WireMinted ==
    /\ \A g \in Gens, i \in Ids : OnWire(g, i) => i < nextId
    /\ \A g \in Gens, i \in Ids : <<i, g>> \in running => i < nextId
    /\ \A c \in Callers, g \in Gens :
          pc[c] = "writing" => ~OnWire(g, reqId[c]) /\ <<reqId[c], g>> \notin running

\* A request is on a wire once.
OnceOnWire ==
    \A g \in Gens, i \in Ids : \A m, n \in 1 .. Len(toHost[g]) :
        toHost[g][m] = Req(i) /\ toHost[g][n] = Req(i) => m = n

\* A call has a result exactly when it no longer waits, and a route exactly
\* between the routing decision and its return.
Settles ==
    \A c \in Callers :
        /\ outcome[c] = "none" <=> pc[c] \in {"idle", "ready", "writing", "waiting"}
        /\ pc[c] \in {"idle", "ready"} => sentOn[c] = NoGen
        /\ pc[c] \in {"writing", "waiting"} => sentOn[c] # NoGen

\* Only a call that can still receive has something delivered.
MailOpen == \A c \in Callers : chan[c] # Empty => pc[c] \in {"writing", "waiting"}

PInv == WireMinted /\ OnceOnWire /\ Settles /\ MailOpen

\* What the promise is about stays as it is.
Unseen == UNCHANGED <<Gone, sentOn, Queued, Ongoing, chan, outcome>>

LEMMA PromiseFrame ==
    ASSUME PInv, UNCHANGED <<pc, reqId, sentOn, outcome, toHost, running, nextId>>,
           \A c \in Callers : chan'[c] = chan[c] \/ pc[c] \in {"writing", "waiting"}
    PROVE  PInv' /\ UNCHANGED <<Gone, sentOn, Queued, Ongoing, outcome>>
<1>1. \A g, i : OnWire(g, i)' = OnWire(g, i)
  BY DEF OnWire
<1>2. WireMinted'
  BY <1>1 DEF PInv, WireMinted
<1>3. OnceOnWire' /\ Settles' /\ MailOpen'
  BY DEF PInv, OnceOnWire, Settles, MailOpen
<1>4. UNCHANGED <<Gone, Queued, Ongoing>>
  BY <1>1 DEF Gone, Queued, Ongoing
<1> QED BY <1>2, <1>3, <1>4 DEF PInv

LEMMA InitPInv == Init => PInv /\ Promised!CallInit
<1> SUFFICES ASSUME Init PROVE PInv /\ Promised!CallInit
  OBVIOUS
<1>1. \A g \in Gens : \A i : ~OnWire(g, i)
  BY DEF Init, OnWire
<1>2. PInv
  BY <1>1 DEF Init, PInv, WireMinted, OnceOnWire, Settles, MailOpen
<1>3. Queued = [c \in Callers |-> {}] /\ Ongoing = [c \in Callers |-> {}]
  BY <1>1 DEF Init, Queued, Ongoing
<1>4. Gone = [c \in Callers |-> FALSE]
  BY DEF Init, Gone
<1> QED BY <1>2, <1>3, <1>4 DEF Init, Promised!CallInit, Promised!NoMail, Empty

LEMMA AttachPInv ==
    ASSUME PInv, NEW l \in Labels, AttachBrowser(l)
    PROVE  PInv' /\ Unseen
BY PromiseFrame DEF AttachBrowser, callVars, Unseen

LEMMA QuietReaderPInv ==
    ASSUME PInv, NEW g \in Gens, DropConn(g) \/ SpawnReader(g) \/ ReadFrame(g) \/ ReadEof(g)
    PROVE  PInv' /\ Unseen
<1>1. UNCHANGED <<callVars, chan, toHost, running, nextId>>
  BY DEF DropConn, SpawnReader, ReadFrame, ReadEof, peerVars
<1> QED BY <1>1, PromiseFrame DEF callVars, Unseen

\* Only calls that wait for their first delivery are woken.
LEMMA WakeSevers ==
    ASSUME IInv, PInv, NEW G, Wake(G),
           UNCHANGED <<Gone, sentOn, Queued, Ongoing, outcome>>
    PROVE  Promised!CallNext
<1> DEFINE C == {c \in Callers : chan'[c] # chan[c]}
<1>1. chan' = [c \in Callers |-> IF c \in C THEN Severed ELSE chan[c]]
  BY DEF Wake, Sent
<1>2. \A c \in C : pc[c] \in {"writing", "waiting"} /\ chan[c] = Empty
  BY DEF Wake, Sent
<1>3. \A c \in C : Promised!Open(c)
  BY <1>2 DEF Promised!Open, Promised!NoMail, Empty, PInv, Settles
<1>4. Promised!Sever(C)
  BY <1>1, <1>3 DEF Promised!Sever, Severed
<1> QED BY <1>4 DEF Promised!CallNext

LEMMA ShutdownPInv ==
    ASSUME IInv, PInv, ShutdownAllBrowsers
    PROVE  PInv' /\ Promised!CallNext
<1>1. UNCHANGED <<callVars, toHost, running, nextId>> /\ Wake(Gens)
  BY DEF ShutdownAllBrowsers, peerVars
<1>2. PInv' /\ UNCHANGED <<Gone, sentOn, Queued, Ongoing, outcome>>
  BY <1>1, PromiseFrame DEF callVars, Wake, Sent
<1> QED BY <1>1, <1>2, WakeSevers

LEMMA ReaderCleanupPInv ==
    ASSUME IInv, PInv, NEW g \in Gens, ReaderCleanup(g)
    PROVE  PInv' /\ Promised!CallNext
<1>1. UNCHANGED <<callVars, toHost, running, nextId>> /\ Wake({g})
  BY DEF ReaderCleanup
<1>2. PInv' /\ UNCHANGED <<Gone, sentOn, Queued, Ongoing, outcome>>
  BY <1>1, PromiseFrame DEF callVars, Wake, Sent
<1> QED BY <1>1, <1>2, WakeSevers

\* A reader answers the call it took the entry of, on the connection that call
\* was routed to, or nobody any more.
LEMMA DeliverReplyPInv ==
    ASSUME IInv, PInv, NEW g \in Gens, DeliverReply(g)
    PROVE  PInv' /\ (Promised!CallNext \/ Unseen)
<1>1. UNCHANGED <<callVars, toHost, running, nextId>>
  BY DEF DeliverReply, peerVars
<1> DEFINE c == hand[g]
<1>3. c \in Callers /\ (pc[c] \in {"writing", "waiting"} => sentOn[c] = g)
  BY DEF DeliverReply, IInv, CallInv, HandOwn
<1>4. chan' = [chan EXCEPT ![c] = Sent(c, Reply(g))] /\ chan \in [Callers -> Delivery]
  BY DEF DeliverReply, IInv, TypeOK, CallType
<1>2. PInv' /\ UNCHANGED <<Gone, sentOn, Queued, Ongoing, outcome>>
  <2>1. \A d \in Callers : chan'[d] = chan[d] \/ pc[d] \in {"writing", "waiting"}
    BY <1>3, <1>4 DEF Sent
  <2> QED BY <1>1, <2>1, PromiseFrame DEF callVars
<1>5. CASE chan[c] = Empty /\ pc[c] \in {"writing", "waiting"}
  <2>1. Promised!Open(c)
    BY <1>3, <1>5 DEF Promised!Open, Promised!NoMail, Empty, PInv, Settles
  <2>2. chan' = [chan EXCEPT ![c] = [kind |-> "reply", from |-> sentOn[c]]]
    BY <1>3, <1>4, <1>5 DEF Sent, Reply
  <2>3. Promised!Answer(c)
    BY <1>2, <2>1, <2>2 DEF Promised!Answer
  <2> QED BY <1>2, <1>3, <2>3 DEF Promised!CallNext
<1>6. CASE ~(chan[c] = Empty /\ pc[c] \in {"writing", "waiting"})
  BY <1>2, <1>3, <1>4, <1>6 DEF Sent, Unseen
<1> QED BY <1>5, <1>6

\* Nothing is on a wire or running without an id.
LEMMA NoIdOff ==
    ASSUME IInv PROVE \A g \in Gens : ~OnWire(g, NoId) /\ <<NoId, g>> \notin running
BY DEF IInv, TypeOK, WireType, OnWire, Req, Frame

LEMMA NoIdOffNext ==
    ASSUME IInv' PROVE \A g \in Gens : ~OnWire(g, NoId)' /\ <<NoId, g>> \notin running'
BY DEF IInv, TypeOK, WireType, OnWire, Req, Frame

\* What a host process does to the wires and to the operations behind them.
LEMMA LoseStep ==
    ASSUME PInv, UNCHANGED <<callVars, nextId, chan>>,
           \A g \in Gens, i \in Ids : OnWire(g, i)' => OnWire(g, i),
           \A g \in Gens, i \in Ids : <<i, g>> \in running' => <<i, g>> \in running,
           OnceOnWire', IInv, IInv'
    PROVE  PInv' /\ Promised!CallNext
<1>0. \A c \in Callers : reqId[c] \in Ids \cup {NoId} /\ reqId'[c] = reqId[c]
  BY DEF IInv, TypeOK, CallType, callVars
<1>1. \A g \in Gens : ~OnWire(g, NoId)' /\ <<NoId, g>> \notin running'
  BY NoIdOffNext
<1>2. PInv'
  <2>1. Settles' /\ MailOpen'
    BY DEF PInv, Settles, MailOpen, callVars
  <2>2. WireMinted'
    BY <1>0, <1>1 DEF PInv, WireMinted, callVars
  <2> QED BY <2>1, <2>2 DEF PInv
<1>3. \A c \in Callers : Queued'[c] \subseteq Queued[c] /\ Ongoing'[c] \subseteq Ongoing[c]
  BY <1>0, <1>1 DEF Queued, Ongoing
<1>4. Queued' \in [Callers -> SUBSET Gens] /\ Ongoing' \in [Callers -> SUBSET Gens]
  BY DEF Queued, Ongoing
<1>5. UNCHANGED <<Gone, sentOn, chan, outcome>>
  BY DEF Gone, callVars
<1>6. Promised!Lose
  BY <1>3, <1>4, <1>5 DEF Promised!Lose
<1> QED BY <1>2, <1>6 DEF Promised!CallNext

LEMMA HostExitPInv ==
    ASSUME IInv, IInv', PInv, NEW g \in Gens, HostExit(g)
    PROVE  PInv' /\ Promised!CallNext
<1>1. UNCHANGED <<callVars, nextId, chan, running>> /\ toHost' = [toHost EXCEPT ![g] = <<>>]
  BY DEF HostExit
<1>2. \A h \in Gens : h # g => toHost'[h] = toHost[h]
  BY <1>1 DEF IInv, TypeOK, WireType
<1>3. toHost'[g] = <<>>
  BY <1>1 DEF IInv, TypeOK, WireType
<1>4. \A h \in Gens, i \in Ids : OnWire(h, i)' => OnWire(h, i)
  BY <1>2, <1>3 DEF OnWire
<1>5. OnceOnWire'
  BY <1>2, <1>3 DEF PInv, OnceOnWire
<1> QED BY <1>1, <1>4, <1>5, LoseStep

\* The rest of a queue.
LEMMA TailFrames ==
    ASSUME NEW s \in Seq(Frame), s # <<>>
    PROVE  /\ Tail(s) \in Seq(Frame) /\ Head(s) = s[1] /\ Head(s) \in Frame
           /\ \A n \in 1 .. Len(Tail(s)) : n + 1 \in 1 .. Len(s) /\ Tail(s)[n] = s[n + 1]
           /\ \A n \in 1 .. Len(s) : n # 1 => n - 1 \in 1 .. Len(Tail(s)) /\ Tail(s)[n - 1] = s[n]
<1>1. Len(s) \in Nat /\ Len(s) > 0 /\ Len(Tail(s)) = Len(s) - 1
  OBVIOUS
<1>2. Tail(s) \in Seq(Frame) /\ Head(s) = s[1] /\ Head(s) \in Frame
  OBVIOUS
<1>3. \A n \in 1 .. Len(Tail(s)) : n + 1 \in 1 .. Len(s) /\ Tail(s)[n] = s[n + 1]
  BY <1>1
<1>4. \A n \in 1 .. Len(s) : n # 1 => n - 1 \in 1 .. Len(Tail(s)) /\ Tail(s)[n - 1] = s[n]
  BY <1>1
<1> QED BY <1>2, <1>3, <1>4

\* A host takes the head of its queue: the request it starts is no longer on that
\* wire, and every other one is where it was.
LEMMA HostForwardPInv ==
    ASSUME IInv, IInv', PInv, NEW g \in Gens, HostForward(g)
    PROVE  PInv' /\ (Promised!CallNext \/ Unseen)
<1> DEFINE f == Head(toHost[g])
<1>0. toHost \in [Gens -> Seq(Frame)] /\ toHost[g] \in Seq(Frame) /\ toHost[g] # <<>>
  BY DEF IInv, TypeOK, WireType, HostForward
<1>1. UNCHANGED <<callVars, nextId, chan>> /\ toHost' = [toHost EXCEPT ![g] = Tail(@)]
  BY DEF HostForward
<1>2. \A h \in Gens : h # g => toHost'[h] = toHost[h]
  BY <1>0, <1>1
<1>3. toHost'[g] = Tail(toHost[g])
  BY <1>0, <1>1
<1>4. f \in Frame /\ f = toHost[g][1]
  BY <1>0, TailFrames
<1>5. \A h \in Gens, i \in Ids : OnWire(h, i)' <=> OnWire(h, i) /\ ~(h = g /\ f = Req(i))
  <2> TAKE h \in Gens, i \in Ids
  <2>1. CASE h # g
    BY <1>2, <2>1 DEF OnWire
  <2>2. CASE h = g
    <3>1. ASSUME OnWire(g, i)' PROVE OnWire(g, i) /\ f # Req(i)
      <4>1. PICK n \in 1 .. Len(Tail(toHost[g])) : Tail(toHost[g])[n] = Req(i)
        BY <1>3, <3>1 DEF OnWire, Req
      <4>2. n + 1 \in 1 .. Len(toHost[g]) /\ toHost[g][n + 1] = Req(i) /\ n + 1 # 1
        BY <1>0, <4>1, TailFrames
      <4>3. f = Req(i) => 1 = n + 1
        <5>1. 1 \in 1 .. Len(toHost[g])
          BY <4>2
        <5> QED BY <1>4, <4>2, <5>1 DEF PInv, OnceOnWire
      <4> QED BY <4>2, <4>3 DEF OnWire
    <3>2. ASSUME OnWire(g, i), f # Req(i) PROVE OnWire(g, i)'
      <4>1. PICK n \in 1 .. Len(toHost[g]) : toHost[g][n] = Req(i)
        BY <3>2 DEF OnWire
      <4>2. n # 1
        BY <1>4, <3>2, <4>1
      <4>3. n - 1 \in 1 .. Len(Tail(toHost[g])) /\ Tail(toHost[g])[n - 1] = Req(i)
        BY <1>0, <4>1, <4>2, TailFrames
      <4> QED BY <1>3, <4>3 DEF OnWire, Req
    <3> QED BY <2>2, <3>1, <3>2
  <2> QED BY <2>1, <2>2
<1>6. OnceOnWire'
  <2> SUFFICES ASSUME NEW h \in Gens, NEW i \in Ids, NEW m \in 1 .. Len(toHost'[h]),
                      NEW n \in 1 .. Len(toHost'[h]), toHost'[h][m] = Req(i), toHost'[h][n] = Req(i)
               PROVE  m = n
    BY DEF OnceOnWire, Req
  <2>1. CASE h # g
    BY <1>2, <2>1 DEF PInv, OnceOnWire
  <2>2. CASE h = g
    <3>0. /\ m \in 1 .. Len(Tail(toHost[g])) /\ Tail(toHost[g])[m] = Req(i)
          /\ n \in 1 .. Len(Tail(toHost[g])) /\ Tail(toHost[g])[n] = Req(i)
      BY <1>3, <2>2
    <3>1. /\ m + 1 \in 1 .. Len(toHost[g]) /\ toHost[g][m + 1] = Req(i)
          /\ n + 1 \in 1 .. Len(toHost[g]) /\ toHost[g][n + 1] = Req(i)
      BY <1>0, <3>0, TailFrames
    <3>2. m + 1 = n + 1
      BY <3>1 DEF PInv, OnceOnWire
    <3>3. m \in Int /\ n \in Int
      OBVIOUS
    <3> QED BY <3>2, <3>3
  <2> QED BY <2>1, <2>2
<1>7. CASE f.kind # "req"
  <2>1. \A h \in Gens, i \in Ids : <<i, h>> \in running' => <<i, h>> \in running
    BY <1>7 DEF HostForward
  <2> QED BY <1>1, <1>5, <1>6, <2>1, LoseStep
<1>8. CASE f.kind = "req"
  <2> DEFINE j == f.id
  <2>1. f = Req(j) /\ j \in Ids
    BY <1>4, <1>8 DEF Frame, Req
  <2>2. running' = running \cup {<<j, g>>}
    BY <1>8 DEF HostForward
  <2>3. OnWire(g, j)
    <3>1. 1 \in 1 .. Len(toHost[g])
      BY <1>0
    <3> QED BY <1>4, <2>1, <3>1 DEF OnWire
  <2>4. \A h \in Gens, i \in Ids : OnWire(h, i)' <=> OnWire(h, i) /\ ~(h = g /\ i = j)
    <3>1. \A i \in Ids : f = Req(i) <=> i = j
      <4>1. \A i \in Ids : Req(j) = Req(i) <=> i = j
        BY <2>1 DEF Req
      <4> QED BY <2>1, <4>1
    <3> QED BY <1>5, <3>1
  <2>5. \A c \in Callers : reqId[c] \in Ids \cup {NoId} /\ reqId'[c] = reqId[c]
    BY <1>1 DEF IInv, TypeOK, CallType, callVars
  <2>6. \A h \in Gens : /\ ~OnWire(h, NoId)' /\ <<NoId, h>> \notin running'
                        /\ ~OnWire(h, NoId) /\ <<NoId, h>> \notin running
    BY NoIdOff, NoIdOffNext
  <2>7. PInv'
    <3>1. Settles' /\ MailOpen'
      BY <1>1 DEF PInv, Settles, MailOpen, callVars
    <3>2. WireMinted'
      BY <1>1, <2>2, <2>3, <2>4, <2>5, <2>6 DEF PInv, WireMinted, callVars
    <3> QED BY <1>6, <3>1, <3>2 DEF PInv
  <2>8. UNCHANGED <<Gone, sentOn, chan, outcome>>
    BY <1>1 DEF Gone, callVars
  <2>9. CASE \E c \in Callers : reqId[c] = j
    <3>1. PICK c \in Callers : reqId[c] = j
      BY <2>9
    <3>2. \A d \in Callers : reqId[d] = j => d = c
      BY <2>1, <3>1 DEF IInv, CallInv, IdsOwn
    <3>3. g \in Queued[c]
      BY <2>3, <3>1 DEF Queued
    <3>4. Queued' = [Queued EXCEPT ![c] = @ \ {g}]
      <4>1. \A d \in Callers : Queued'[d] = IF d = c THEN Queued[d] \ {g} ELSE Queued[d]
        BY <2>4, <2>5, <2>6, <3>1, <3>2 DEF Queued
      <4> QED BY <4>1 DEF Queued
    <3>5. Ongoing' = [Ongoing EXCEPT ![c] = @ \cup {g}]
      <4>1. \A d \in Callers : Ongoing'[d] = IF d = c THEN Ongoing[d] \cup {g} ELSE Ongoing[d]
        BY <2>2, <2>5, <3>1, <3>2 DEF Ongoing
      <4> QED BY <4>1 DEF Ongoing
    <3>6. Promised!Start(c, g)
      BY <2>8, <3>3, <3>4, <3>5 DEF Promised!Start
    <3> QED BY <2>7, <3>1, <3>6 DEF Promised!CallNext
  <2>10. CASE ~\E c \in Callers : reqId[c] = j
    <3>1. Queued' = Queued
      BY <2>4, <2>5, <2>6, <2>10 DEF Queued
    <3>2. Ongoing' = Ongoing
      BY <2>2, <2>5, <2>10 DEF Ongoing
    <3> QED BY <2>7, <2>8, <3>1, <3>2 DEF Unseen
  <2> QED BY <2>9, <2>10
<1> QED BY <1>7, <1>8

LEMMA WorkerPInv ==
    ASSUME IInv, IInv', PInv, NEW g \in Gens,
           (\E i \in Ids : WorkerFinish(i, g)) \/ \E i \in Ids \cup {Malformed} : BogusFrame(g, i)
    PROVE  PInv' /\ Promised!CallNext
<1>1. UNCHANGED <<callVars, nextId, chan, toHost>> /\ running' \subseteq running
  BY DEF WorkerFinish, BogusFrame
<1>2. \A h, i : OnWire(h, i)' = OnWire(h, i)
  BY <1>1 DEF OnWire
<1>3. OnceOnWire'
  BY <1>1 DEF PInv, OnceOnWire
<1> QED BY <1>1, <1>2, <1>3, LoseStep

-----------------------------------------------------------------------------
\* A frame joins a queue at its end.
LEMMA AppendFrames ==
    ASSUME NEW s \in Seq(Frame), NEW f \in Frame
    PROVE  /\ \A n \in 1 .. Len(Append(s, f)) : \/ n \in 1 .. Len(s) /\ Append(s, f)[n] = s[n]
                                                \/ n = Len(s) + 1 /\ Append(s, f)[n] = f
           /\ \A n \in 1 .. Len(s) : n \in 1 .. Len(Append(s, f)) /\ Append(s, f)[n] = s[n]
           /\ Len(s) + 1 \in 1 .. Len(Append(s, f)) /\ Append(s, f)[Len(s) + 1] = f
<1>1. Len(s) \in Nat /\ Len(Append(s, f)) = Len(s) + 1
  OBVIOUS
<1> QED BY <1>1

LEMMA AppendOnWire ==
    ASSUME IInv, PInv, NEW g \in Gens, NEW f \in Frame,
           toHost' = [toHost EXCEPT ![g] = Append(@, f)]
    PROVE  /\ \A h \in Gens, i \in Ids : OnWire(h, i)' <=> OnWire(h, i) \/ (h = g /\ f = Req(i))
           /\ (\A i \in Ids : f = Req(i) => ~OnWire(g, i)) => OnceOnWire'
<1>0. toHost \in [Gens -> Seq(Frame)] /\ toHost[g] \in Seq(Frame)
  BY DEF IInv, TypeOK, WireType
<1>1. \A h \in Gens : h # g => toHost'[h] = toHost[h]
  BY <1>0
<1>2. toHost'[g] = Append(toHost[g], f)
  BY <1>0
<1>3. ASSUME NEW h \in Gens, NEW i \in Ids
      PROVE  OnWire(h, i)' <=> OnWire(h, i) \/ (h = g /\ f = Req(i))
  <2>1. CASE h # g
    BY <1>1, <2>1 DEF OnWire
  <2>2. ASSUME OnWire(g, i)' PROVE OnWire(g, i) \/ f = Req(i)
    <3>1. PICK n \in 1 .. Len(Append(toHost[g], f)) : Append(toHost[g], f)[n] = Req(i)
      BY <1>2, <2>2 DEF OnWire, Req
    <3> QED BY <1>0, <3>1, AppendFrames DEF OnWire
  <2>3. ASSUME OnWire(g, i) \/ f = Req(i) PROVE OnWire(g, i)'
    <3>1. \E n \in 1 .. Len(Append(toHost[g], f)) : Append(toHost[g], f)[n] = Req(i)
      BY <1>0, <2>3, AppendFrames DEF OnWire
    <3> QED BY <1>2, <3>1 DEF OnWire, Req
  <2> QED BY <2>1, <2>2, <2>3
<1>4. ASSUME \A i \in Ids : f = Req(i) => ~OnWire(g, i) PROVE OnceOnWire'
  <2> SUFFICES ASSUME NEW h \in Gens, NEW i \in Ids, NEW m \in 1 .. Len(toHost'[h]),
                      NEW n \in 1 .. Len(toHost'[h]), toHost'[h][m] = Req(i), toHost'[h][n] = Req(i)
               PROVE  m = n
    BY DEF OnceOnWire, Req
  <2>1. CASE h # g
    BY <1>1, <2>1 DEF PInv, OnceOnWire
  <2>2. CASE h = g
    <3>1. /\ m \in 1 .. Len(Append(toHost[g], f)) /\ Append(toHost[g], f)[m] = Req(i)
          /\ n \in 1 .. Len(Append(toHost[g], f)) /\ Append(toHost[g], f)[n] = Req(i)
      BY <1>2, <2>2
    <3> DEFINE Is(k) == \/ k \in 1 .. Len(toHost[g]) /\ toHost[g][k] = Req(i)
                        \/ k = Len(toHost[g]) + 1 /\ f = Req(i)
    <3>2. Is(m) /\ Is(n)
      BY <1>0, <3>1, AppendFrames
    <3>3. CASE OnWire(g, i)
      BY <1>4, <3>2, <3>3 DEF PInv, OnceOnWire
    <3>4. CASE ~OnWire(g, i)
      BY <3>2, <3>4 DEF OnWire
    <3> QED BY <3>3, <3>4
  <2> QED BY <2>1, <2>2
<1> QED BY <1>3, <1>4

\* A step of a call that puts no request on a wire and starts none being written.
LEMMA WireKept ==
    ASSUME IInv, IInv', PInv, UNCHANGED <<running, reqId>>, nextId' >= nextId,
           \A g \in Gens, i \in Ids : OnWire(g, i)' = OnWire(g, i), OnceOnWire',
           \A d \in Callers : pc'[d] = "writing" => pc[d] = "writing"
    PROVE  WireMinted' /\ UNCHANGED <<Queued, Ongoing>>
<1>0. \A c \in Callers : reqId[c] \in Ids \cup {NoId}
  BY DEF IInv, TypeOK, CallType
<1>1. \A g \in Gens : ~OnWire(g, NoId) /\ <<NoId, g>> \notin running /\ ~OnWire(g, NoId)'
  BY NoIdOff, NoIdOffNext
<1>3. nextId \in Nat /\ nextId' \in Nat
  BY DEF IInv, TypeOK, CallType
<1>4. WireMinted'
  BY <1>0, <1>1, <1>3 DEF PInv, WireMinted
<1>5. UNCHANGED <<Queued, Ongoing>>
  <2>1. \A c \in Callers, g \in Gens : OnWire(g, reqId[c])' <=> OnWire(g, reqId[c])
    BY <1>0, <1>1
  <2> QED BY <2>1 DEF Queued, Ongoing
<1> QED BY <1>4, <1>5

LEMMA SameWire ==
    ASSUME PInv, toHost' = toHost
    PROVE  OnceOnWire' /\ \A g, i : OnWire(g, i)' = OnWire(g, i)
BY DEF PInv, OnceOnWire, OnWire

\* A call that returns: refused when it was never written, closed when it had its result.
LEMMA ReturnPromise ==
    ASSUME IInv, IInv', PInv, NEW c \in Callers, NEW how, Return(c, how),
           UNCHANGED <<running, reqId>>, nextId' >= nextId,
           \A g \in Gens, i \in Ids : OnWire(g, i)' = OnWire(g, i), OnceOnWire',
           \/ pc[c] \in {"idle", "ready", "writing"} /\ how \in Promised!Refusals
           \/ pc[c] \in {"dropping", "cancelling"} /\ how = outcome[c]
    PROVE  PInv' /\ Promised!CallNext
<1>0. /\ pc \in [Callers -> CallPhase] /\ outcome \in [Callers -> Outcome]
      /\ sentOn \in [Callers -> Gens \cup {NoGen}] /\ chan \in [Callers -> Delivery]
  BY DEF IInv, TypeOK, CallType
<1>1. /\ pc' = [pc EXCEPT ![c] = "done"] /\ outcome' = [outcome EXCEPT ![c] = how]
      /\ sentOn' = [sentOn EXCEPT ![c] = NoGen] /\ chan' = [chan EXCEPT ![c] = Empty]
  BY DEF Return
<1>2. \A d \in Callers : pc'[d] = "writing" => pc[d] = "writing"
  BY <1>0, <1>1
<1>3. WireMinted' /\ UNCHANGED <<Queued, Ongoing>>
  BY <1>2, WireKept
<1>4. how # "none"
  BY DEF PInv, Settles, Promised!Refusals
<1>5. Settles' /\ MailOpen'
  BY <1>0, <1>1, <1>4 DEF PInv, Settles, MailOpen
<1>6. Gone' = [Gone EXCEPT ![c] = TRUE]
  BY <1>0, <1>1 DEF Gone
<1>7. CASE pc[c] \in {"idle", "ready", "writing"} /\ how \in Promised!Refusals
  <2>1. ~Gone[c] /\ outcome[c] = "none"
    BY <1>7 DEF Gone, PInv, Settles
  <2>2. Promised!Refuse(c)
    BY <1>1, <1>3, <1>6, <1>7, <2>1 DEF Promised!Refuse, Promised!NoMail, Empty
  <2> QED BY <1>3, <1>5, <2>2 DEF PInv, Promised!CallNext
<1>8. CASE pc[c] \in {"dropping", "cancelling"} /\ how = outcome[c]
  <2>1. Gone' = Gone /\ outcome' = outcome /\ chan' = chan
    BY <1>0, <1>1, <1>6, <1>8 DEF Gone, PInv, MailOpen
  <2>2. Promised!Close(c)
    BY <1>1, <1>3, <1>4, <1>8, <2>1 DEF Promised!Close
  <2> QED BY <1>3, <1>5, <2>2 DEF PInv, Promised!CallNext
<1> QED BY <1>7, <1>8

LEMMA CallPInv ==
    ASSUME IInv, IInv', PInv, NEW c \in Callers, NEW w, Call(c, w)
    PROVE  PInv' /\ Unseen
<1>0. pc \in [Callers -> CallPhase]
  BY DEF IInv, TypeOK, CallType
<1>1. /\ pc[c] = "idle" /\ pc' = [pc EXCEPT ![c] = "ready"]
      /\ UNCHANGED <<running, reqId, toHost, nextId, sentOn, chan, outcome>>
  BY DEF Call, peerVars
<1>2. OnceOnWire' /\ \A g, i : OnWire(g, i)' = OnWire(g, i)
  BY <1>1, SameWire
<1>3. nextId' >= nextId
  BY <1>1 DEF IInv, TypeOK, CallType
<1>4. \A d \in Callers : pc'[d] = "writing" => pc[d] = "writing"
  BY <1>0, <1>1
<1>5. WireMinted' /\ UNCHANGED <<Queued, Ongoing>>
  BY <1>1, <1>2, <1>3, <1>4, WireKept
<1>6. Settles' /\ MailOpen'
  BY <1>0, <1>1 DEF PInv, Settles, MailOpen
<1>7. Gone' = Gone
  BY <1>0, <1>1 DEF Gone
<1> QED BY <1>1, <1>2, <1>5, <1>6, <1>7 DEF PInv, Unseen

LEMMA SendRefusedPInv ==
    ASSUME IInv, IInv', PInv, NEW c \in Callers, SendRefused(c)
    PROVE  PInv' /\ Promised!CallNext
<1>1. PICK how : Return(c, how) /\ how \in Promised!Refusals
  BY DEF SendRefused, ResolveError, Promised!Refusals
<1>2. pc[c] = "ready" /\ UNCHANGED <<running, reqId, toHost>> /\ nextId' = nextId + 1
  BY DEF SendRefused, peerVars
<1>3. OnceOnWire' /\ \A g, i : OnWire(g, i)' = OnWire(g, i)
  BY <1>2, SameWire
<1>4. nextId' >= nextId
  BY <1>2 DEF IInv, TypeOK, CallType
<1> QED BY <1>1, <1>2, <1>3, <1>4, ReturnPromise

LEMMA SendWriteFailsPInv ==
    ASSUME IInv, IInv', PInv, NEW c \in Callers, SendWriteFails(c)
    PROVE  PInv' /\ Promised!CallNext
<1>1. Return(c, "write") /\ "write" \in Promised!Refusals
  BY DEF SendWriteFails, Promised!Refusals
<1>2. pc[c] = "writing" /\ UNCHANGED <<running, reqId, toHost, nextId>>
  BY DEF SendWriteFails, peerVars
<1>3. OnceOnWire' /\ \A g, i : OnWire(g, i)' = OnWire(g, i)
  BY <1>2, SameWire
<1>4. nextId' >= nextId
  BY <1>2 DEF IInv, TypeOK, CallType
<1> QED BY <1>1, <1>2, <1>3, <1>4, ReturnPromise

\* The fresh id is on no wire, so binding a call to it and to its connection shows
\* as the route alone.
LEMMA SendInsertPInv ==
    ASSUME IInv, IInv', PInv, NEW c \in Callers, SendInsert(c)
    PROVE  PInv' /\ Promised!CallNext
<1>0. /\ pc \in [Callers -> CallPhase] /\ sentOn \in [Callers -> Gens \cup {NoGen}]
      /\ reqId \in [Callers -> Ids \cup {NoId}] /\ nextId \in 1 .. (MaxId + 1)
      /\ conns \in [Labels -> Gens \cup {NoGen}]
  BY DEF IInv, TypeOK, CallType, RegistryType
<1>1. PICK l \in ResolveTarget(want[c]) : sentOn' = [sentOn EXCEPT ![c] = conns[l]]
  BY DEF SendInsert
<1>2. conns[l] \in Gens
  <2>1. l \in Registered
    BY <1>1 DEF ResolveTarget
  <2> QED BY <1>0, <2>1 DEF Registered
<1>3. /\ pc[c] = "ready" /\ pc' = [pc EXCEPT ![c] = "writing"]
      /\ nextId <= MaxId /\ nextId' = nextId + 1 /\ reqId' = [reqId EXCEPT ![c] = nextId]
      /\ UNCHANGED <<running, toHost, chan, outcome>>
  BY DEF SendInsert, peerVars
<1>4. OnceOnWire' /\ \A g, i : OnWire(g, i)' <=> \E n \in 1 .. Len(toHost[g]) : toHost[g][n] = Req(i)'
  BY <1>3 DEF PInv, OnceOnWire, OnWire
<1>5. nextId \in Ids /\ \A g \in Gens : ~OnWire(g, nextId) /\ <<nextId, g>> \notin running
  BY <1>0, <1>3 DEF PInv, WireMinted
<1>6. reqId[c] = NoId
  BY <1>3 DEF IInv, CallInv, Started
<1>7. \A g \in Gens : ~OnWire(g, NoId) /\ <<NoId, g>> \notin running
  BY NoIdOff
<1>8. \A d \in Callers : d # c => reqId'[d] = reqId[d] /\ pc'[d] = pc[d]
  BY <1>0, <1>3
<1>9. reqId'[c] = nextId /\ pc'[c] = "writing"
  BY <1>0, <1>3
<1>10. \A d \in Callers, g \in Gens : OnWire(g, reqId[d])' <=> OnWire(g, reqId[d])
  <2> TAKE d \in Callers, g \in Gens
  <2>1. OnWire(g, reqId[d])' <=> OnWire(g, reqId'[d])
    BY <1>3 DEF OnWire
  <2> QED BY <1>5, <1>6, <1>7, <1>8, <1>9, <2>1
<1>11. Queued' = Queued
  BY <1>10 DEF Queued
<1>12. Ongoing' = Ongoing
  <2>1. \A d \in Callers, g \in Gens : <<reqId'[d], g>> \in running <=> <<reqId[d], g>> \in running
    BY <1>5, <1>6, <1>7, <1>8, <1>9
  <2> QED BY <1>3, <2>1 DEF Ongoing
<1>13. Gone' = Gone
  BY <1>0, <1>3 DEF Gone
<1>14. WireMinted'
  <2>1. \A g, i : OnWire(g, i)' <=> OnWire(g, i)
    BY <1>3 DEF OnWire
  <2>2. \A g \in Gens, i \in Ids : OnWire(g, i)' \/ <<i, g>> \in running' => i < nextId'
    BY <1>0, <1>3, <2>1 DEF PInv, WireMinted
  <2>3. \A d \in Callers, g \in Gens : pc'[d] = "writing" =>
            ~OnWire(g, reqId[d])' /\ <<reqId'[d], g>> \notin running'
    <3> TAKE d \in Callers, g \in Gens
    <3>1. CASE d = c
      <4>1. ~OnWire(g, reqId[c])
        BY <1>6, <1>7
      <4>2. ~OnWire(g, reqId[d])'
        BY <1>10, <3>1, <4>1
      <4>3. <<reqId'[d], g>> \notin running'
        BY <1>3, <1>5, <1>9, <3>1
      <4> QED BY <4>2, <4>3
    <3>2. CASE d # c
      <4>1. pc[d] = "writing" => ~OnWire(g, reqId[d]) /\ <<reqId[d], g>> \notin running
        BY DEF PInv, WireMinted
      <4> QED BY <1>3, <1>8, <1>10, <3>2, <4>1
    <3> QED BY <3>1, <3>2
  <2> QED BY <2>2, <2>3 DEF WireMinted
<1>15. Settles' /\ MailOpen'
  BY <1>0, <1>1, <1>2, <1>3 DEF PInv, Settles, MailOpen
<1>16. ~Gone[c] /\ sentOn[c] = NoGen
  BY <1>3 DEF Gone, PInv, Settles
<1>17. Promised!Route(c, conns[l])
  BY <1>1, <1>3, <1>11, <1>12, <1>13, <1>16 DEF Promised!Route
<1> QED BY <1>2, <1>4, <1>14, <1>15, <1>17 DEF PInv, Promised!CallNext

\* The one step that puts a request on a wire: the one its call is bound to.
LEMMA SendWritePInv ==
    ASSUME IInv, IInv', PInv, NEW c \in Callers, SendWrite(c)
    PROVE  PInv' /\ Promised!CallNext
<1> DEFINE g == sentOn[c]
<1>0. /\ pc \in [Callers -> CallPhase] /\ g \in Gens /\ reqId[c] \in Ids /\ nextId \in Nat
      /\ \A d \in Callers : reqId[d] \in Ids \cup {NoId}
  BY DEF IInv, TypeOK, CallType, WireType, CallInv, Started, SendWrite
<1>1. /\ pc[c] = "writing" /\ pc' = [pc EXCEPT ![c] = "waiting"]
      /\ toHost' = [toHost EXCEPT ![g] = Append(@, Req(reqId[c]))]
      /\ UNCHANGED <<running, reqId, nextId, sentOn, chan, outcome>>
  BY DEF SendWrite, peerVars, Req
<1>2. Req(reqId[c]) \in Frame /\ \A i \in Ids : Req(reqId[c]) = Req(i) <=> i = reqId[c]
  BY <1>0 DEF Req, Frame
<1>3. \A h \in Gens : ~OnWire(h, reqId[c]) /\ <<reqId[c], h>> \notin running
  BY <1>1 DEF PInv, WireMinted
<1>4. /\ \A h \in Gens, i \in Ids : OnWire(h, i)' <=> OnWire(h, i) \/ (h = g /\ i = reqId[c])
      /\ OnceOnWire'
  <2>1. /\ \A h \in Gens, i \in Ids :
              OnWire(h, i)' <=> OnWire(h, i) \/ (h = g /\ Req(reqId[c]) = Req(i))
        /\ (\A i \in Ids : Req(reqId[c]) = Req(i) => ~OnWire(g, i)) => OnceOnWire'
    <3> DEFINE f == Req(reqId[c])
    <3>1. f \in Frame /\ toHost' = [toHost EXCEPT ![g] = Append(@, f)]
      BY <1>1, <1>2
    <3> HIDE DEF f
    <3>2. /\ \A h \in Gens, i \in Ids : OnWire(h, i)' <=> OnWire(h, i) \/ (h = g /\ f = Req(i))
          /\ (\A i \in Ids : f = Req(i) => ~OnWire(g, i)) => OnceOnWire'
      BY <1>0, <3>1, AppendOnWire
    <3> QED BY <3>2 DEF f
  <2>2. \A i \in Ids : Req(reqId[c]) = Req(i) => ~OnWire(g, i)
    BY <1>0, <1>2, <1>3
  <2> QED BY <1>2, <2>1, <2>2
<1>5. \A h \in Gens : ~OnWire(h, NoId) /\ <<NoId, h>> \notin running /\ ~OnWire(h, NoId)'
  BY NoIdOff, NoIdOffNext
<1>6. \A d \in Callers : d # c => reqId[d] # reqId[c] /\ pc'[d] = pc[d]
  BY <1>0, <1>1 DEF IInv, CallInv, IdsOwn
<1>7. \A d \in Callers, h \in Gens :
         OnWire(h, reqId[d])' <=> OnWire(h, reqId[d]) \/ (h = g /\ d = c)
  BY <1>0, <1>1, <1>4, <1>5, <1>6
<1>8. Queued' = [Queued EXCEPT ![c] = {g}]
  <2>1. \A d \in Callers : Queued'[d] = IF d = c THEN {g} ELSE Queued[d]
    BY <1>0, <1>3, <1>7 DEF Queued
  <2> QED BY <2>1 DEF Queued
<1>9. Ongoing' = Ongoing
  BY <1>1 DEF Ongoing
<1>10. Gone' = [Gone EXCEPT ![c] = TRUE] /\ ~Gone[c]
  BY <1>0, <1>1 DEF Gone
<1>11. Promised!Submit(c)
  BY <1>0, <1>1, <1>8, <1>9, <1>10 DEF Promised!Submit
<1>12. WireMinted'
  <2>1. reqId[c] < nextId
    BY DEF IInv, CallInv, IdsMinted
  <2>2. \A h \in Gens, i \in Ids : OnWire(h, i)' \/ <<i, h>> \in running' => i < nextId'
    BY <1>1, <1>4, <2>1 DEF PInv, WireMinted
  <2>3. \A d \in Callers, h \in Gens : pc'[d] = "writing" =>
            ~OnWire(h, reqId[d])' /\ <<reqId'[d], h>> \notin running'
    <3>1. pc'[c] # "writing"
      BY <1>0, <1>1
    <3> QED BY <1>1, <1>6, <1>7, <3>1 DEF PInv, WireMinted
  <2> QED BY <2>2, <2>3 DEF WireMinted
<1>13. Settles' /\ MailOpen'
  BY <1>0, <1>1 DEF PInv, Settles, MailOpen
<1> QED BY <1>4, <1>11, <1>12, <1>13 DEF PInv, Promised!CallNext

LEMMA WaitEndsPInv ==
    ASSUME IInv, IInv', PInv, NEW c \in Callers, WaitEnds(c)
    PROVE  PInv' /\ Promised!CallNext
<1>0. /\ pc \in [Callers -> CallPhase] /\ outcome \in [Callers -> Outcome]
      /\ chan \in [Callers -> Delivery]
  BY DEF IInv, TypeOK, CallType
<1> DEFINE how == CASE chan[c].kind = "reply"   -> "reply"
                    [] chan[c].kind = "severed" -> "disconnected"
                    [] OTHER                    -> "timeout"
<1>1. /\ pc[c] = "waiting" /\ pc' = [pc EXCEPT ![c] = "dropping"]
      /\ outcome' = [outcome EXCEPT ![c] = how] /\ chan' = [chan EXCEPT ![c] = Empty]
      /\ UNCHANGED <<running, reqId, toHost, nextId, sentOn>>
  BY DEF WaitEnds, peerVars
<1>2. OnceOnWire' /\ \A g, i : OnWire(g, i)' = OnWire(g, i)
  BY <1>1, SameWire
<1>3. nextId' >= nextId
  BY <1>1 DEF IInv, TypeOK, CallType
<1>4. \A d \in Callers : pc'[d] = "writing" => pc[d] = "writing"
  BY <1>0, <1>1
<1>5. WireMinted' /\ UNCHANGED <<Queued, Ongoing>>
  BY <1>1, <1>2, <1>3, <1>4, WireKept
<1>6. how # "none"
  OBVIOUS
<1>7. Settles' /\ MailOpen'
  <2> HIDE DEF how
  <2> QED BY <1>0, <1>1, <1>6 DEF PInv, Settles, MailOpen
<1>8. Gone' = Gone /\ Gone[c] /\ outcome[c] = "none"
  BY <1>0, <1>1 DEF Gone, PInv, Settles
<1>9. Promised!Settle(c)
  BY <1>1, <1>5, <1>8 DEF Promised!Settle, Promised!NoMail, Empty
<1> QED BY <1>2, <1>5, <1>7, <1>9 DEF PInv, Promised!CallNext

LEMMA DropGuardPInv ==
    ASSUME IInv, IInv', PInv, NEW c \in Callers, DropGuard(c)
    PROVE  PInv' /\ (Promised!CallNext \/ Unseen)
<1>0. pc \in [Callers -> CallPhase]
  BY DEF IInv, TypeOK, CallType
<1>1. pc[c] = "dropping" /\ UNCHANGED <<running, reqId, toHost, nextId>>
  BY DEF DropGuard, peerVars
<1>2. OnceOnWire' /\ \A g, i : OnWire(g, i)' = OnWire(g, i)
  BY <1>1, SameWire
<1>3. nextId' >= nextId
  BY <1>1 DEF IInv, TypeOK, CallType
<1>4. CASE Return(c, outcome[c])
  BY <1>1, <1>2, <1>3, <1>4, ReturnPromise
<1>5. CASE pc' = [pc EXCEPT ![c] = "cancelling"] /\ UNCHANGED <<sentOn, chan, outcome>>
  <2>1. \A d \in Callers : pc'[d] = "writing" => pc[d] = "writing"
    BY <1>0, <1>5
  <2>2. WireMinted' /\ UNCHANGED <<Queued, Ongoing>>
    BY <1>1, <1>2, <1>3, <2>1, WireKept
  <2>3. Settles' /\ MailOpen'
    BY <1>0, <1>1, <1>5 DEF PInv, Settles, MailOpen
  <2>4. Gone' = Gone
    BY <1>0, <1>1, <1>5 DEF Gone
  <2> QED BY <1>2, <1>5, <2>2, <2>3, <2>4 DEF PInv, Unseen
<1> QED BY <1>4, <1>5 DEF DropGuard

\* A cancel on a wire is not a request.
LEMMA CancelWritePInv ==
    ASSUME IInv, IInv', PInv, NEW c \in Callers, CancelWrite(c)
    PROVE  PInv' /\ Promised!CallNext
<1>1. pc[c] = "cancelling" /\ Return(c, outcome[c]) /\ UNCHANGED <<running, reqId, nextId>>
  BY DEF CancelWrite, peerVars
<1>2. nextId' >= nextId
  BY <1>1 DEF IInv, TypeOK, CallType
<1>3. OnceOnWire' /\ \A h \in Gens, i \in Ids : OnWire(h, i)' <=> OnWire(h, i)
  <2>1. CASE toHost' = toHost
    BY <2>1, SameWire
  <2>2. CASE toHost' # toHost
    <3> DEFINE f == [kind |-> "cancel", id |-> reqId[c]]
               g == conns[target[c]]
    <3>1. g \in Gens /\ toHost' = [toHost EXCEPT ![g] = Append(@, f)]
      BY <2>2 DEF CancelWrite, IInv, TypeOK, WireType
    <3>2. reqId[c] \in Ids
      BY <1>1 DEF IInv, TypeOK, CallType, CallInv, Started
    <3>3. f \in Frame /\ \A i : f # Req(i)
      BY <3>2 DEF Frame, Req
    <3> HIDE DEF f, g
    <3> QED BY <3>1, <3>3, AppendOnWire
  <2> QED BY <2>1, <2>2
<1>4. \A h \in Gens, i \in Ids : OnWire(h, i)' = OnWire(h, i)
  BY <1>3 DEF OnWire
<1> QED BY <1>1, <1>2, <1>3, <1>4, ReturnPromise

-----------------------------------------------------------------------------
\* Every step of the session is one the promise allows, or does not show.
LEMMA StepKeepsPromise ==
    ASSUME IInv, IInv', PInv, [Next]_vars
    PROVE  PInv' /\ (Promised!CallNext \/ Unseen)
<1>1. ASSUME NEW g \in Gens, ReaderStep(g) PROVE PInv' /\ (Promised!CallNext \/ Unseen)
  BY <1>1, QuietReaderPInv, DeliverReplyPInv, ReaderCleanupPInv DEF ReaderStep
<1>2. ASSUME NEW g \in Gens, PeerStep(g) PROVE PInv' /\ (Promised!CallNext \/ Unseen)
  BY <1>2, HostExitPInv, HostForwardPInv, WorkerPInv DEF PeerStep
<1>3. ASSUME NEW c \in Callers, OngoingCall(c) PROVE PInv' /\ (Promised!CallNext \/ Unseen)
  BY <1>3, SendRefusedPInv, SendInsertPInv, SendWritePInv, SendWriteFailsPInv, WaitEndsPInv,
     DropGuardPInv, CancelWritePInv DEF OngoingCall
<1>4. CASE UNCHANGED vars
  BY <1>4, PromiseFrame DEF vars, Unseen
<1> QED BY <1>1, <1>2, <1>3, <1>4, AttachPInv, ShutdownPInv, CallPInv DEF Next

LEMMA UnseenStutters == Unseen => UNCHANGED Promised!callPromise
BY DEF Unseen, Promised!callPromise

\* A call keeps its promise whatever the number of browsers, calls and frames in flight: it is
\* written to one connection at most, runs there at most once, never after it was refused, and is
\* answered once, by that connection, its end or the deadline.
THEOREM SessionPromiseKept == Spec => PromiseKept
<1>1. Init => PInv /\ Promised!CallInit
  BY InitPInv
<1>2. IInv /\ IInv' /\ PInv /\ [Next]_vars
        => PInv' /\ [Promised!CallNext]_(Promised!callPromise)
  BY StepKeepsPromise, UnseenStutters
<1> QED BY <1>1, <1>2, SpecIInv, PTL DEF Spec, PromiseKept, Promised!CallSpec

\* The kill switch breaks no promise: its refusal is one of those that leave no trace, and its
\* sweep severs calls only as a lost connection would.
THEOREM KillSwitchPromiseKept == KillSpec => PromiseKept
<1>1. KillInit => PInv /\ Promised!CallInit
  BY InitPInv DEF KillInit
<1>2. IInv /\ IInv' /\ PInv /\ [KillNext]_allVars
        => PInv' /\ [Promised!CallNext]_(Promised!callPromise)
  <2> SUFFICES ASSUME IInv, IInv', PInv, [KillNext]_allVars
               PROVE  PInv' /\ [Promised!CallNext]_(Promised!callPromise)
    OBVIOUS
  <2>1. CASE [Next]_vars
    BY <2>1, StepKeepsPromise, UnseenStutters
  <2>2. ASSUME NEW c \in Callers, GateRefuses(c)
        PROVE  PInv' /\ Promised!CallNext
    <3>1. /\ Return(c, "killed") /\ "killed" \in Promised!Refusals
          /\ pc[c] = "idle" /\ UNCHANGED <<running, reqId, toHost, nextId>>
      BY <2>2 DEF GateRefuses, peerVars, Promised!Refusals
    <3>2. OnceOnWire' /\ \A g, i : OnWire(g, i)' = OnWire(g, i)
      BY <3>1, SameWire
    <3>3. nextId' >= nextId
      BY <3>1 DEF IInv, TypeOK, CallType
    <3> QED BY <3>1, <3>2, <3>3, ReturnPromise
  <2> QED BY <2>1, <2>2, KillStepsSession
<1> QED BY <1>1, <1>2, KillSpecSession, PTL DEF KillSpec, PromiseKept, Promised!CallSpec

=============================================================================
