-------------------------- MODULE PanicBrakeProofs --------------------------
(***************************************************************************)
(* What PanicBrake promises, for any number of confirmations, panics,      *)
(* requests and faults.                                                    *)
(*                                                                         *)
(* The invariant has four parts.  Order: frames wait in the order they     *)
(* arrived in, no watermark is ahead of the last arrival, and past the     *)
(* confirmation of a panic only frames younger than it are left.  Owes:    *)
(* while an engage is owed nothing that could confirm it exists.  Arms:    *)
(* after a quiet panic, either the switch has not moved and no status at   *)
(* all was read, the engage being first in line, or it has moved and no    *)
(* alive status was read since.  Consent: an attempt a panic landed across *)
(* captured an older panic epoch than the current one.                     *)
(***************************************************************************)
EXTENDS PanicBrake, TLAPS

USE BrakeAssumption

----------------------------------------------------------------------------
(* The brake's transitions.                                                *)

Kinds  == {"clear", "engaged", "braking", "awaiting-release"}
Brakes == [kind : Kinds, anchor : Marks, engage : Marks]
Shut   == {"braking", "awaiting-release"}

\* A brake's watermarks are set where its state needs them, and none is ahead of n.
GoodBrake(b, n) ==
    /\ b \in Brakes
    /\ b.anchor.set <=> b.kind \in Shut
    /\ b.kind \in {"engaged", "braking"} => b.engage.set
    /\ b.kind = "clear" => b = Clear
    /\ b.anchor.at <= n /\ b.engage.at <= n

LEMMA MarkTyped ==
    ASSUME NEW n \in Nat
    PROVE  /\ Mark(n) \in Marks /\ Mark(n).set /\ Mark(n).at = n
           /\ NoMark \in Marks /\ ~NoMark.set /\ NoMark.at = 0
BY DEF Mark, NoMark, Marks

LEMMA ClearGood ==
    ASSUME NEW n \in Nat
    PROVE  GoodBrake(Clear, n) /\ Clear.kind = "clear" /\ Clear.engage = NoMark /\ Clear.anchor = NoMark
BY MarkTyped DEF GoodBrake, Clear, Brakes, Kinds, Shut

LEMMA EngagePostedGood ==
    ASSUME arrivals \in Nat, NEW b, GoodBrake(b, arrivals)
    PROVE  /\ GoodBrake(EngagePosted(b), arrivals)
           /\ EngagePosted(b).engage = Mark(arrivals) /\ EngagePosted(b).anchor = b.anchor
           /\ EngagePosted(b).kind = IF b.kind = "clear" THEN "engaged" ELSE b.kind
<1>1. b \in Brakes
  BY DEF GoodBrake
<1>2. /\ EngagePosted(b).engage = Mark(arrivals) /\ EngagePosted(b).anchor = b.anchor
      /\ EngagePosted(b).kind = IF b.kind = "clear" THEN "engaged" ELSE b.kind
      /\ EngagePosted(b) \in Brakes
  BY <1>1, MarkTyped DEF EngagePosted, Brakes, Kinds
<1>3. arrivals <= arrivals
  OBVIOUS
<1> QED BY <1>2, <1>3, MarkTyped DEF GoodBrake, Shut

LEMMA PanickedGood ==
    ASSUME arrivals \in Nat, NEW b, GoodBrake(b, arrivals), NEW posted \in BOOLEAN
    PROVE  /\ GoodBrake(Panicked(b, posted), arrivals)
           /\ posted => Panicked(b, posted).engage = Mark(arrivals)
           /\ ~posted => Panicked(b, posted).engage = b.engage
           /\ Panicked(b, posted).kind = "braking" \/ (~posted /\ Panicked(b, posted) = b)
<1>1. b \in Brakes /\ b.engage \in Marks /\ arrivals <= arrivals
  BY DEF GoodBrake, Brakes
<1>2. CASE ~posted /\ ~b.engage.set
  BY <1>2 DEF Panicked
<1>3. CASE ~(~posted /\ ~b.engage.set)
  <2> DEFINE p == Panicked(b, posted)
  <2>1. /\ p = [kind |-> "braking",
                anchor |-> IF b.engage.set THEN b.engage ELSE Mark(arrivals),
                engage |-> IF posted THEN Mark(arrivals) ELSE b.engage]
    BY <1>3 DEF Panicked
  <2>2. p.kind = "braking" /\ p.anchor = (IF b.engage.set THEN b.engage ELSE Mark(arrivals))
        /\ p.engage = IF posted THEN Mark(arrivals) ELSE b.engage
    BY <2>1
  <2>3. p \in Brakes
    BY <1>1, <2>1, MarkTyped DEF Brakes, Kinds
  <2> HIDE DEF p
  <2>4. p.anchor.set /\ p.engage.set /\ p.anchor.at <= arrivals /\ p.engage.at <= arrivals
    BY <1>1, <1>3, <2>2, MarkTyped DEF GoodBrake
  <2>5. GoodBrake(p, arrivals)
    BY <2>2, <2>3, <2>4 DEF GoodBrake, Shut
  <2> QED BY <2>2, <2>5 DEF p
<1> QED BY <1>2, <1>3

\* A committed frame: what may change, and on what evidence.
LEMMA FrameSeenGood ==
    ASSUME NEW a \in Nat, NEW b, GoodBrake(b, a), NEW state, NEW n \in Nat
    PROVE  LET r == FrameSeen(b, state, n) IN
           /\ GoodBrake(r, a)
           /\ r.kind \in Shut => b.kind \in Shut /\ r.anchor = b.anchor
           /\ b.kind \in Shut /\ state # "alive" => r.kind \in Shut
           /\ b.engage.set /\ ~(state = "killed" /\ n > b.engage.at) => r.engage = b.engage
           /\ r.kind = "awaiting-release" =>
                 \/ b.kind = "awaiting-release" /\ ~(state = "alive" /\ n > b.anchor.at)
                 \/ b.kind = "braking" /\ state = "killed" /\ n > b.anchor.at
<1> DEFINE r == FrameSeen(b, state, n)
<1>0. b \in Brakes /\ b.kind \in Kinds /\ b.anchor \in Marks /\ b.engage \in Marks
  BY DEF GoodBrake, Brakes
<1>1. CASE b.kind = "engaged" /\ IsConfirmation(state) /\ After(n, b.engage)
  <2>1. r = Clear
    BY <1>1 DEF FrameSeen
  <2> QED BY <1>1, <2>1, ClearGood DEF Shut, IsConfirmation, After
<1>2. CASE b.kind = "braking" /\ IsConfirmation(state) /\ After(n, b.anchor)
  <2>1. r = [b EXCEPT !.kind = "awaiting-release", !.engage = IF After(n, @) THEN NoMark ELSE @]
    BY <1>2 DEF FrameSeen
  <2>2. /\ r \in Brakes /\ r.kind = "awaiting-release" /\ r.anchor = b.anchor
        /\ r.engage = IF After(n, b.engage) THEN NoMark ELSE b.engage
    BY <1>0, <2>1, MarkTyped DEF Brakes, Kinds
  <2> HIDE DEF r
  <2>3. r.engage.at <= a
    BY <2>2, MarkTyped DEF GoodBrake
  <2> QED BY <1>2, <2>2, <2>3 DEF GoodBrake, Shut, IsConfirmation, After, r
<1>3. CASE b.kind = "awaiting-release" /\ IsConfirmation(state) /\ After(n, b.engage)
  <2>1. r = [b EXCEPT !.engage = NoMark]
    BY <1>3 DEF FrameSeen, IsConfirmation, IsRelease
  <2>2. r \in Brakes /\ r.kind = "awaiting-release" /\ r.anchor = b.anchor /\ r.engage = NoMark
    BY <1>0, <1>3, <2>1, MarkTyped DEF Brakes
  <2> HIDE DEF r
  <2>3. r.engage.at <= a
    BY <2>2, MarkTyped
  <2> QED BY <1>3, <2>2, <2>3 DEF GoodBrake, Shut, IsConfirmation, After, r
<1>4. CASE b.kind = "awaiting-release" /\ IsRelease(state) /\ After(n, b.anchor)
  <2>1. r = IF b.engage.set THEN [Clear EXCEPT !.kind = "engaged", !.engage = b.engage] ELSE Clear
    BY <1>4 DEF FrameSeen, IsConfirmation, IsRelease
  <2>2. CASE ~b.engage.set
    BY <1>4, <2>1, <2>2, ClearGood DEF Shut, IsRelease
  <2>3. CASE b.engage.set
    <3>1. /\ r \in Brakes /\ r.kind = "engaged" /\ r.anchor = NoMark /\ r.engage = b.engage
      BY <1>0, <2>1, <2>3, MarkTyped DEF Brakes, Clear, Kinds
    <3> HIDE DEF r
    <3> QED BY <1>4, <2>3, <3>1, MarkTyped DEF GoodBrake, Shut, IsRelease, r
  <2> QED BY <2>2, <2>3
<1>5. CASE r = b /\ ~(b.kind = "awaiting-release" /\ IsRelease(state) /\ After(n, b.anchor))
  BY <1>5 DEF IsRelease, After, GoodBrake, Shut
<1> QED BY <1>1, <1>2, <1>3, <1>4, <1>5 DEF FrameSeen

----------------------------------------------------------------------------
(* Queues.                                                                 *)

LEMMA TailAt ==
    ASSUME NEW S, NEW s \in Seq(S), s # <<>>
    PROVE  /\ Tail(s) \in Seq(S) /\ Head(s) = s[1] /\ 1 \in DOMAIN s /\ Head(s) \in S
           /\ \A i \in DOMAIN Tail(s) : i \in Nat /\ i + 1 \in DOMAIN s /\ Tail(s)[i] = s[i + 1]
           /\ \A i \in DOMAIN s : i = 1 \/ (i - 1 \in DOMAIN Tail(s) /\ Tail(s)[i - 1] = s[i])
OBVIOUS

LEMMA ConcatAt ==
    ASSUME NEW S, NEW s \in Seq(S), NEW t \in Seq(S), s # <<>>
    PROVE  s \o t \in Seq(S) /\ Len(s \o t) = Len(s) + Len(t) /\ (s \o t)[1] = s[1]
OBVIOUS

LEMMA AppendAt ==
    ASSUME NEW S, NEW s \in Seq(S), NEW e \in S
    PROVE  /\ Append(s, e) \in Seq(S)
           /\ \A i \in DOMAIN Append(s, e) :
                 (i \in DOMAIN s /\ Append(s, e)[i] = s[i]) \/ (i = Len(s) + 1 /\ Append(s, e)[i] = e)
           /\ \A i \in DOMAIN s : i \in DOMAIN Append(s, e) /\ Append(s, e)[i] = s[i] /\ i < Len(s) + 1
           /\ Len(s) + 1 \in DOMAIN Append(s, e) /\ Append(s, e)[Len(s) + 1] = e
OBVIOUS

----------------------------------------------------------------------------
(* The invariant.                                                          *)

Frames == [state : Status, seq : Nat]

Types ==
    /\ record \in {"alive", "killed", "unreadable"}
    /\ toHost \in Seq(Request) /\ toWorker \in Seq(Status)
    /\ reply \in Status \cup {Nothing} /\ push \in Status \cup {Nothing}
    /\ lane \in Seq(Frames) /\ arrivals \in Nat
    /\ GoodBrake(brake, arrivals)

\* The lane is in arrival order.
Sorted ==
    /\ \A i \in DOMAIN lane : lane[i].seq <= arrivals
    /\ \A i, j \in DOMAIN lane : i < j => lane[i].seq < lane[j].seq

\* Past the confirmation of a panic, only frames that arrived after it are still to be committed.
Awaiting == brake.kind = "awaiting-release" =>
    /\ mirror # "alive"
    /\ \A i \in DOMAIN lane : lane[i].seq > brake.anchor.at

\* A host that is gone holds nothing.
HostGone ==
    /\ ~up => toHost = <<>> /\ reply = Nothing /\ push = Nothing /\ ~news
    /\ link = "down" => ~up

\* While an engage is owed, no killed status exists that would pass for its confirmation.
Owes == owed =>
    /\ record # "killed" /\ ~OnItsWay({"killed"}) /\ brake.engage.set
    /\ \A i \in DOMAIN lane : lane[i].state = "killed" => lane[i].seq <= brake.engage.at

\* The next frame about the switch that the host handles is the engage.
EngageFirst ==
    \E m \in DOMAIN toHost : toHost[m] = "engage" /\ \A n \in DOMAIN toHost : n <= m => toHost[n] # "status"

Unread == brake.kind = "braking" /\ ~OnItsWay(Status) /\ lane = <<>> /\ ~news /\ (up => EngageFirst)
NoAlive == ~OnItsWay({"alive"}) /\ \A i \in DOMAIN lane : lane[i].state # "alive"

Arms == armed => Latched /\ IF record = "alive" THEN Unread ELSE NoAlive

BInv == Types /\ Sorted /\ Awaiting /\ HostGone /\ Owes /\ Arms

LEMMA InitBInv == Init => BInv
<1> SUFFICES ASSUME Init PROVE BInv
  OBVIOUS
<1>1. GoodBrake(Clear, 0) /\ Clear.kind = "clear"
  BY ClearGood
<1>2. Types
  BY <1>1 DEF Init, Types, Nothing
<1>3. Sorted /\ HostGone
  BY DEF Init, Sorted, HostGone
<1>4. Awaiting
  BY <1>1 DEF Init, Awaiting
<1>5. Owes /\ Arms
  BY DEF Init, Owes, Arms
<1> QED BY <1>2, <1>3, <1>4, <1>5 DEF BInv

\* Steps that leave the invariant's variables alone.
LEMMA BInvKept ==
    ASSUME BInv, UNCHANGED <<hostVars, pipeVars, link, arrivals, brake, mirrorVars, history>>
    PROVE  BInv'
BY DEF BInv, Types, Sorted, Awaiting, HostGone, Owes, Arms, Unread, NoAlive, EngageFirst, OnItsWay, Latched,
   hostVars, pipeVars, mirrorVars, history

\* A write of the record.
LEMMA WriteKeeps ==
    ASSUME BInv, NEW r \in {"alive", "killed", "unreadable"}, Write(r),
           UNCHANGED <<up, reply, push, pipeVars, link, arrivals, brake, mirrorVars>>
    PROVE  BInv'
<1>1. /\ record' = r /\ (news' <=> up) /\ (owed' <=> owed /\ r # "killed") /\ (armed' <=> armed /\ r # "alive")
      /\ UNCHANGED <<up, reply, push, toHost, toWorker, link, arrivals, brake, mirror, lane>>
  BY DEF Write, pipeVars, mirrorVars
<1>2. Types' /\ Sorted' /\ Awaiting'
  BY <1>1 DEF BInv, Types, Sorted, Awaiting
<1>3. HostGone'
  BY <1>1 DEF BInv, HostGone
<1>4. Owes'
  BY <1>1 DEF BInv, Owes, OnItsWay
<1>5. Arms'
  <2>1. ASSUME armed' PROVE Latched' /\ record' # "alive" /\ NoAlive'
    <3>1. armed /\ r # "alive" /\ Latched
      BY <1>1, <2>1 DEF BInv, Arms
    <3>2. NoAlive
      BY <3>1 DEF BInv, Arms, Unread, NoAlive, OnItsWay, Status
    <3> QED BY <1>1, <3>1, <3>2 DEF Latched, NoAlive, OnItsWay
  <2> QED BY <2>1 DEF Arms
<1> QED BY <1>2, <1>3, <1>4, <1>5 DEF BInv

LEMMA HandleFrameKeeps ==
    ASSUME BInv, HandleFrame
    PROVE  BInv'
<1>0. /\ up /\ toHost # <<>> /\ toHost' = Tail(toHost)
      /\ UNCHANGED <<up, push, toWorker, link, arrivals, brake, mirror, lane>>
      /\ toHost \in Seq(Request) /\ record \in {"alive", "killed", "unreadable"}
  BY DEF HandleFrame, brakeVars, mirrorVars, BInv, Types
<1>1. toHost' \in Seq(Request) /\ Head(toHost) \in Request /\ Head(toHost) = toHost[1] /\ 1 \in DOMAIN toHost
  BY <1>0, TailAt
<1>2. \/ /\ record = "unreadable" /\ record' = "unreadable" /\ reply' = "unknown" /\ UNCHANGED history
      \/ /\ record # "unreadable" /\ Head(toHost) = "status" /\ record' = record /\ reply' = record
         /\ UNCHANGED history
      \/ /\ Head(toHost) # "status" /\ record' \in {"alive", "killed"} /\ reply' = record'
         /\ (owed' <=> owed /\ record' # "killed") /\ (armed' <=> armed /\ record' # "alive")
  BY <1>0 DEF HandleFrame, Write
<1>3. Types'
  BY <1>0, <1>1, <1>2 DEF BInv, Types, Status
<1>4. Sorted' /\ Awaiting'
  BY <1>0 DEF BInv, Sorted, Awaiting
<1>5. HostGone'
  BY <1>0 DEF BInv, HostGone
<1>6. Owes'
  <2>1. ASSUME owed' PROVE owed /\ record' # "killed" /\ reply' # "killed"
    BY <1>2, <2>1 DEF history, BInv, Owes
  <2> QED BY <1>0, <2>1 DEF BInv, Owes, OnItsWay
<1>7. Arms'
  <2> SUFFICES ASSUME armed' PROVE Latched' /\ record' # "alive" /\ NoAlive'
    BY DEF Arms
  <2>1. armed /\ Latched
    BY <1>2 DEF history, BInv, Arms
  <2>2. record = "alive" => Head(toHost) # "status"
    BY <1>0, <1>1, <2>1 DEF BInv, Arms, Unread, EngageFirst
  <2>3. record' # "alive" /\ reply' # "alive"
    BY <1>2, <2>2
  <2>4. NoAlive
    BY <2>1 DEF BInv, Arms, Unread, NoAlive, OnItsWay, Status
  <2> QED BY <1>0, <2>1, <2>3, <2>4 DEF Latched, NoAlive, OnItsWay
<1> QED BY <1>3, <1>4, <1>5, <1>6, <1>7 DEF BInv

\* A status moves on towards the worker, or is read while the switch has news.
LEMMA StatusMoves ==
    ASSUME BInv, WatchRead \/ WriteReply \/ WatchWrite
    PROVE  BInv'
<1>0. UNCHANGED <<record, up, toHost, link, arrivals, brake, mirror, lane, owed, armed>>
  BY DEF WatchRead, WriteReply, WatchWrite, pipeVars, brakeVars, mirrorVars, history
<1>1. Sorted' /\ Awaiting'
  BY <1>0 DEF BInv, Sorted, Awaiting
<1>2. CASE WatchRead
  <2>1. /\ up /\ news /\ push' = KillStatus /\ ~news' /\ UNCHANGED <<reply, toWorker>>
    BY <1>2 DEF WatchRead, pipeVars
  <2>2. /\ KillStatus \in Status /\ (record # "killed" => KillStatus # "killed")
        /\ (record # "alive" => KillStatus # "alive")
    BY DEF KillStatus, Status, BInv, Types
  <2>3. Types' /\ HostGone'
    BY <1>0, <2>1, <2>2 DEF BInv, Types, HostGone
  <2>4. Owes'
    BY <1>0, <2>1, <2>2 DEF BInv, Owes, OnItsWay
  <2>5. Arms'
    <3>1. armed => record # "alive"
      BY <2>1 DEF BInv, Arms, Unread
    <3> QED BY <1>0, <2>1, <2>2, <3>1 DEF BInv, Arms, NoAlive, OnItsWay, Latched
  <2> QED BY <1>1, <2>3, <2>4, <2>5 DEF BInv
<1>3. ASSUME NEW x \in Status, toWorker' = Append(toWorker, x), x \in {reply, push},
             reply' \in {reply, Nothing}, push' \in {push, Nothing}, UNCHANGED news
      PROVE  BInv'
  <2>0. toWorker \in Seq(Status)
    BY DEF BInv, Types
  <2>1. Types'
    BY <1>0, <1>3, <2>0 DEF BInv, Types
  <2>2. HostGone'
    BY <1>0, <1>3 DEF BInv, HostGone
  <2>3. \A i \in DOMAIN toWorker' : toWorker'[i] = x \/ \E n \in DOMAIN toWorker : toWorker'[i] = toWorker[n]
    BY <1>3, <2>0, AppendAt
  <2>4. Nothing \notin Status
    BY DEF Nothing, Status
  <2>5. ASSUME NEW S \in SUBSET Status, ~OnItsWay(S) PROVE ~OnItsWay(S)'
    BY <1>3, <2>3, <2>4, <2>5 DEF OnItsWay
  <2>6. Owes'
    <3>1. {"killed"} \in SUBSET Status
      BY DEF Status
    <3> QED BY <1>0, <2>5, <3>1 DEF BInv, Owes
  <2>7. Arms'
    <3>1. {"alive"} \in SUBSET Status /\ Status \in SUBSET Status
      BY DEF Status
    <3>2. Unread => Unread'
      BY <1>0, <1>3, <2>5, <3>1 DEF Unread, EngageFirst
    <3>3. NoAlive => NoAlive'
      BY <1>0, <2>5, <3>1 DEF NoAlive
    <3> QED BY <1>0, <3>2, <3>3 DEF BInv, Arms, Latched
  <2> QED BY <1>1, <2>1, <2>2, <2>6, <2>7 DEF BInv
<1>4. CASE WriteReply
  BY <1>3, <1>4 DEF WriteReply, BInv, Types
<1>5. CASE WatchWrite
  BY <1>3, <1>5 DEF WatchWrite, BInv, Types
<1> QED BY <1>2, <1>4, <1>5

\* The host ends, with the port or without it.
LEMMA GoneKeeps ==
    ASSUME BInv, HostEnds \/ Teardown
    PROVE  BInv'
<1>1. /\ ~up' /\ ~news' /\ toHost' = <<>> /\ reply' = Nothing /\ push' = Nothing
      /\ toWorker' = toWorker \/ toWorker' = <<>>
      /\ UNCHANGED <<record, arrivals, brake, mirror, lane, owed, armed>>
  BY DEF HostEnds, Teardown, Gone, brakeVars, mirrorVars, history
<1>2. Types' /\ Sorted' /\ Awaiting' /\ HostGone'
  <2>1. Types'
    <3>1. toHost' \in Seq(Request)
      BY <1>1
    <3>2. toWorker' \in Seq(Status)
      <4>1. toWorker \in Seq(Status) /\ <<>> \in Seq(Status)
        BY DEF BInv, Types
      <4> QED BY <1>1, <4>1
    <3> QED BY <1>1, <3>1, <3>2 DEF BInv, Types
  <2>2. Sorted' /\ Awaiting'
    BY <1>1 DEF BInv, Sorted, Awaiting
  <2>3. HostGone'
    BY <1>1 DEF HostGone
  <2> QED BY <2>1, <2>2, <2>3
<1>3. Owes'
  BY <1>1 DEF BInv, Owes, OnItsWay, Nothing
<1>4. Unread => Unread'
  BY <1>1 DEF Unread, OnItsWay, Nothing, Status
<1>5. NoAlive => NoAlive'
  BY <1>1 DEF NoAlive, OnItsWay, Nothing
<1>6. Arms'
  BY <1>1, <1>4, <1>5 DEF BInv, Arms, Latched
<1> QED BY <1>2, <1>3, <1>6 DEF BInv

LEMMA WorkerRestartKeeps ==
    ASSUME BInv, WorkerRestart
    PROVE  BInv'
<1>1. /\ ~up' /\ ~news' /\ toHost' = <<>> /\ reply' = Nothing /\ push' = Nothing /\ toWorker' = <<>>
      /\ arrivals' = 0 /\ brake' = Clear /\ lane' = <<>> /\ ~owed' /\ ~armed' /\ record' = record
  BY DEF WorkerRestart, Gone
<1>2. GoodBrake(Clear, 0) /\ Clear.kind = "clear"
  BY ClearGood
<1>3. Types'
  BY <1>1, <1>2 DEF BInv, Types
<1> QED
  BY <1>1, <1>2, <1>3 DEF BInv, Sorted, Awaiting, HostGone, Owes, Arms

\* The history of an engage posted now, whose mark is the last arrival.
LEMMA OwingKeeps ==
    ASSUME BInv, Owing, UNCHANGED <<record, reply, push, arrivals, lane>>,
           toWorker' = toWorker \/ toWorker' = <<>>, brake'.engage = Mark(arrivals)
    PROVE  Owes'
<1>1. ASSUME owed' PROVE record # "killed" /\ ~OnItsWay({"killed"})
  BY <1>1 DEF Owing, BInv, Owes
<1>2. ASSUME ~OnItsWay({"killed"}) PROVE ~OnItsWay({"killed"})'
  BY <1>2 DEF OnItsWay
<1>3. brake'.engage.set /\ \A i \in DOMAIN lane : lane[i].seq <= brake'.engage.at
  BY MarkTyped DEF BInv, Types, Sorted
<1> QED BY <1>1, <1>2, <1>3 DEF Owes

\* A frame posted to the host keeps the engage first in line.
LEMMA PostKeepsFirst ==
    ASSUME toHost \in Seq(Request), NEW f \in Request, Posting(f), EngageFirst
    PROVE  EngageFirst'
<1>1. PICK m \in DOMAIN toHost : toHost[m] = "engage" /\ \A n \in DOMAIN toHost : n <= m => toHost[n] # "status"
  BY DEF EngageFirst
<1>2. CASE up
  <2>1. toHost' = Append(toHost, f)
    BY <1>2 DEF Posting
  <2>2. m \in DOMAIN toHost' /\ toHost'[m] = "engage" /\ m < Len(toHost) + 1
    BY <1>1, <2>1, AppendAt
  <2>3. \A n \in DOMAIN toHost' : n <= m => toHost'[n] # "status"
    <3> SUFFICES ASSUME NEW n \in DOMAIN toHost', n <= m PROVE toHost'[n] # "status"
      OBVIOUS
    <3>1. n # Len(toHost) + 1
      BY <2>2
    <3>2. n \in DOMAIN toHost /\ toHost'[n] = toHost[n]
      BY <2>1, <3>1, AppendAt
    <3> QED BY <1>1, <3>2
  <2> QED BY <2>2, <2>3 DEF EngageFirst
<1>3. CASE ~up
  BY <1>3 DEF Posting, EngageFirst
<1> QED BY <1>2, <1>3

LEMMA ConnectNativeKeeps ==
    ASSUME BInv, ConnectNative
    PROVE  BInv'
<1>0. /\ link = "down" /\ ~up /\ link' = "up" /\ up' /\ toWorker' = <<>> /\ (news' <=> record # "alive")
      /\ UNCHANGED <<record, reply, push, arrivals, mirror, lane, armed>>
      /\ reply = Nothing /\ push = Nothing
      /\ arrivals \in Nat /\ GoodBrake(brake, arrivals)
  BY DEF ConnectNative, mirrorVars, BInv, HostGone, Types
<1>1. CASE brake.engage.set
  <2>1. /\ toHost' \in Seq(Request) /\ Len(toHost') = 2 /\ toHost'[1] = "engage"
        /\ brake' = EngagePosted(brake) /\ Owing
    <3>1. toHost' = <<"engage">> \o <<"status">>
      BY <1>1 DEF ConnectNative, EngageOutstanding
    <3>2. brake' = EngagePosted(brake) /\ Owing
      BY <1>1 DEF ConnectNative, EngageOutstanding
    <3> DEFINE e == <<"engage">>
               q == <<"status">>
    <3>3. e \in Seq(Request) /\ q \in Seq(Request) /\ Len(e) = 1 /\ Len(q) = 1 /\ e[1] = "engage"
      BY DEF Request
    <3>4. toHost' = e \o q
      BY <3>1
    <3> HIDE DEF e, q
    <3>5. toHost' \in Seq(Request) /\ Len(toHost') = 2 /\ toHost'[1] = "engage"
      <4>1. e # <<>>
        BY DEF e
      <4>2. e \o q \in Seq(Request) /\ Len(e \o q) = Len(e) + Len(q) /\ (e \o q)[1] = e[1]
        BY <3>3, <4>1, ConcatAt
      <4> QED BY <3>3, <3>4, <4>2
    <3> QED BY <3>2, <3>5
  <2>2. /\ GoodBrake(brake', arrivals) /\ brake'.engage = Mark(arrivals) /\ brake'.anchor = brake.anchor
        /\ brake'.kind = IF brake.kind = "clear" THEN "engaged" ELSE brake.kind
    BY <1>0, <2>1, EngagePostedGood
  <2>3. Types'
    BY <1>0, <2>1, <2>2 DEF BInv, Types
  <2>4. Sorted' /\ HostGone'
    BY <1>0 DEF BInv, Sorted, HostGone
  <2>5. Awaiting'
    BY <1>0, <2>2 DEF BInv, Awaiting
  <2>6. Owes'
    BY <1>0, <2>1, <2>2, OwingKeeps
  <2>7. EngageFirst'
    <3>1. 1 \in DOMAIN toHost' /\ toHost'[1] = "engage"
      BY <2>1
    <3>2. \A n \in DOMAIN toHost' : n <= 1 => toHost'[n] # "status"
      BY <2>1
    <3> QED BY <3>1, <3>2 DEF EngageFirst
  <2>8. Arms'
    <3>1. ~OnItsWay(Status)' /\ ~OnItsWay({"alive"})'
      BY <1>0 DEF OnItsWay, Nothing, Status
    <3>2. armed => Latched' /\ (record = "alive" => brake'.kind = "braking")
      BY <2>2 DEF BInv, Arms, Latched, Unread
    <3> QED BY <1>0, <2>7, <3>1, <3>2 DEF BInv, Arms, Unread, NoAlive
  <2> QED BY <2>3, <2>4, <2>5, <2>6, <2>8 DEF BInv
<1>2. CASE ~brake.engage.set
  <2>1. toHost' = <<"status">> /\ brake' = brake /\ owed' = owed
    BY <1>2 DEF ConnectNative, EngageOutstanding
  <2>2. Types'
    BY <1>0, <2>1 DEF BInv, Types, Request
  <2>3. Sorted' /\ HostGone' /\ Awaiting'
    BY <1>0, <2>1 DEF BInv, Sorted, HostGone, Awaiting
  <2>4. Owes'
    BY <1>2, <2>1 DEF BInv, Owes
  <2>5. Arms'
    <3>1. armed => record # "alive"
      BY <1>2 DEF BInv, Arms, Unread, Types, GoodBrake
    <3>2. ~OnItsWay({"alive"})'
      BY <1>0 DEF OnItsWay, Nothing
    <3> QED BY <1>0, <2>1, <3>1, <3>2 DEF BInv, Arms, NoAlive, Latched
  <2> QED BY <2>2, <2>3, <2>4, <2>5 DEF BInv
<1> QED BY <1>1, <1>2

\* The requests of the pages: a frame to the host, and for an engage a new mark.
LEMMA PagesKeep ==
    ASSUME BInv, EngageKill \/ \E f \in {"status", "release"} : PageRequest(f)
    PROVE  BInv'
<1>0. /\ UNCHANGED <<record, news, up, reply, push, toWorker, link, arrivals, mirror, lane, armed>>
      /\ arrivals \in Nat /\ GoodBrake(brake, arrivals) /\ toHost \in Seq(Request)
      /\ \E f \in Request : Posting(f)
  BY DEF EngageKill, PageRequest, PagePosts, hostVars, brakeVars, mirrorVars, history, BInv, Types, Request
<1>1. PICK f \in Request : Posting(f)
  BY <1>0
<1>2. toHost' \in Seq(Request) /\ (~up => toHost' = toHost)
  BY <1>0, <1>1 DEF Posting
<1>3. EngageFirst => EngageFirst'
  BY <1>0, <1>1, PostKeepsFirst
<1>4. /\ GoodBrake(brake', arrivals) /\ brake'.anchor = brake.anchor
      /\ brake'.kind = brake.kind \/ (brake.kind = "clear" /\ brake'.kind = "engaged")
      /\ Owes'
  <2>1. CASE EngageKill
    <3>1. brake' = EngagePosted(brake) /\ Owing
      BY <2>1 DEF EngageKill
    <3> QED BY <1>0, <3>1, EngagePostedGood, OwingKeeps
  <2>2. CASE \E g \in {"status", "release"} : PageRequest(g)
    <3>1. brake' = brake /\ owed' = owed
      BY <2>2 DEF PageRequest, brakeVars, history
    <3> QED BY <1>0, <3>1 DEF BInv, Owes, OnItsWay
  <2> QED BY <2>1, <2>2
<1>5. Types' /\ Sorted'
  BY <1>0, <1>2, <1>4 DEF BInv, Types, Sorted
<1>6. Awaiting' /\ HostGone'
  BY <1>0, <1>2, <1>4 DEF BInv, Awaiting, HostGone
<1>7. Arms'
  <2>1. Unread => Unread'
    BY <1>0, <1>3, <1>4 DEF Unread, OnItsWay
  <2>2. NoAlive => NoAlive'
    BY <1>0 DEF NoAlive, OnItsWay
  <2>3. Latched => Latched'
    BY <1>4 DEF Latched
  <2> QED BY <1>0, <2>1, <2>2, <2>3 DEF BInv, Arms
<1> QED BY <1>4, <1>5, <1>6, <1>7 DEF BInv

\* A frame reaches the worker and joins the lane with the next arrival number.
LEMMA FrameArrivesKeeps ==
    ASSUME BInv, FrameArrives
    PROVE  BInv'
<1> DEFINE x == Head(toWorker)
           f == [state |-> x, seq |-> arrivals + 1]
<1>0. /\ toWorker # <<>> /\ toWorker' = Tail(toWorker) /\ arrivals' = arrivals + 1 /\ lane' = Append(lane, f)
      /\ UNCHANGED <<record, news, up, reply, push, toHost, link, brake, mirror, owed, armed>>
      /\ toWorker \in Seq(Status) /\ lane \in Seq(Frames) /\ arrivals \in Nat /\ GoodBrake(brake, arrivals)
  BY DEF FrameArrives, hostVars, history, BInv, Types
<1>1. /\ Tail(toWorker) \in Seq(Status) /\ x \in Status /\ 1 \in DOMAIN toWorker /\ toWorker[1] = x
      /\ \A i \in DOMAIN toWorker' : i + 1 \in DOMAIN toWorker /\ toWorker'[i] = toWorker[i + 1]
  BY <1>0, TailAt
<1>2. f \in Frames /\ f.state = x /\ f.seq = arrivals + 1
  BY <1>0, <1>1 DEF Frames
<1> HIDE DEF f, x
<1>3. /\ lane' \in Seq(Frames)
      /\ \A i \in DOMAIN lane' : (i \in DOMAIN lane /\ lane'[i] = lane[i]) \/ (i = Len(lane) + 1 /\ lane'[i] = f)
      /\ \A i \in DOMAIN lane : i < Len(lane) + 1
  BY <1>0, <1>2, AppendAt
<1>4. ASSUME NEW S, ~OnItsWay(S) PROVE ~OnItsWay(S)' /\ x \notin S
  BY <1>0, <1>1, <1>4 DEF OnItsWay
<1>5. Types'
  <2>1. GoodBrake(brake, arrivals + 1)
    <3>1. brake.anchor.at \in Nat /\ brake.engage.at \in Nat
      BY <1>0 DEF GoodBrake, Brakes, Marks
    <3>2. brake.anchor.at <= arrivals + 1 /\ brake.engage.at <= arrivals + 1
      BY <1>0, <3>1 DEF GoodBrake
    <3> QED BY <1>0, <3>2 DEF GoodBrake
  <2> QED BY <1>0, <1>1, <1>3, <2>1 DEF BInv, Types
<1>6. Sorted'
  <2>1. \A i \in DOMAIN lane : lane[i].seq \in Nat /\ lane[i].seq <= arrivals /\ i \in Nat /\ i <= Len(lane)
    <3>1. \A i \in DOMAIN lane : lane[i] \in Frames /\ i \in Nat /\ i <= Len(lane)
      BY <1>0
    <3> QED BY <3>1 DEF BInv, Sorted, Frames
  <2>2. \A i \in DOMAIN lane' : lane'[i].seq <= arrivals'
    BY <1>0, <1>2, <1>3, <2>1
  <2>3. ASSUME NEW i \in DOMAIN lane', NEW j \in DOMAIN lane', i < j PROVE lane'[i].seq < lane'[j].seq
    <3>1. CASE j \in DOMAIN lane /\ lane'[j] = lane[j]
      <4>1. i \in DOMAIN lane /\ lane'[i] = lane[i]
        BY <1>0, <1>3, <2>1, <2>3, <3>1
      <4> QED BY <2>3, <3>1, <4>1 DEF BInv, Sorted
    <3>2. CASE j = Len(lane) + 1 /\ lane'[j] = f
      <4>1. i \in DOMAIN lane /\ lane'[i] = lane[i]
        BY <1>0, <1>3, <2>3, <3>2
      <4> QED BY <1>0, <1>2, <2>1, <3>2, <4>1
    <3> QED BY <1>3, <3>1, <3>2
  <2> QED BY <2>2, <2>3 DEF Sorted
<1>7. Awaiting'
  <2>1. brake.anchor.at \in Nat /\ brake.anchor.at <= arrivals
    BY <1>0 DEF GoodBrake, Brakes, Marks
  <2>2. f.seq > brake.anchor.at
    BY <1>0, <1>2, <2>1
  <2> QED BY <1>0, <1>3, <2>2 DEF BInv, Awaiting
<1>8. HostGone'
  BY <1>0 DEF BInv, HostGone
<1>9. Owes'
  <2>1. owed => x # "killed" /\ ~OnItsWay({"killed"})'
    BY <1>4 DEF BInv, Owes
  <2> QED BY <1>0, <1>2, <1>3, <2>1 DEF BInv, Owes
<1>10. Arms'
  <2>1. armed => record # "alive"
    BY <1>1, <1>4 DEF BInv, Arms, Unread
  <2>2. NoAlive => NoAlive'
    BY <1>2, <1>3, <1>4 DEF NoAlive
  <2> QED BY <1>0, <2>1, <2>2 DEF BInv, Arms, Latched
<1> QED BY <1>5, <1>6, <1>7, <1>8, <1>9, <1>10 DEF BInv

\* The head of the lane leaves it, committed or not.
LEMMA LaneShrinks ==
    ASSUME BInv, lane # <<>>, lane' = Tail(lane), UNCHANGED arrivals
    PROVE  /\ lane' \in Seq(Frames) /\ Sorted'
           /\ \A i \in DOMAIN lane' : i + 1 \in DOMAIN lane /\ lane'[i] = lane[i + 1]
           /\ 1 \in DOMAIN lane /\ Head(lane) = lane[1] /\ Head(lane) \in Frames
           /\ \A i \in DOMAIN lane' : Head(lane).seq < lane'[i].seq
<1>0. lane \in Seq(Frames)
  BY DEF BInv, Types
<1>1. /\ lane' \in Seq(Frames) /\ Head(lane) = lane[1] /\ 1 \in DOMAIN lane /\ Head(lane) \in Frames
      /\ \A i \in DOMAIN lane' : i \in Nat /\ i + 1 \in DOMAIN lane /\ lane'[i] = lane[i + 1]
  BY <1>0, TailAt
<1>2. \A i \in DOMAIN lane' : 1 < i + 1
  BY <1>1
<1>3. \A i \in DOMAIN lane' : lane[1].seq < lane'[i].seq
  BY <1>1, <1>2 DEF BInv, Sorted
<1>4. \A i \in DOMAIN lane' : lane'[i].seq <= arrivals'
  BY <1>1 DEF BInv, Sorted
<1>5. \A i, j \in DOMAIN lane' : i < j => i + 1 < j + 1
  BY <1>1
<1>6. \A i, j \in DOMAIN lane' : i < j => lane'[i].seq < lane'[j].seq
  BY <1>1, <1>5 DEF BInv, Sorted
<1> QED BY <1>1, <1>3, <1>4, <1>6 DEF Sorted

LEMMA MirrorWriteFailsKeeps ==
    ASSUME BInv, MirrorWriteFails
    PROVE  BInv'
<1>0. /\ lane # <<>> /\ lane' = Tail(lane)
      /\ UNCHANGED <<record, news, up, reply, push, toHost, toWorker, link, arrivals, brake, mirror, owed, armed>>
  BY DEF MirrorWriteFails, hostVars, pipeVars, brakeVars, history
<1>1. /\ lane' \in Seq(Frames) /\ Sorted' /\ 1 \in DOMAIN lane
      /\ \A i \in DOMAIN lane' : i + 1 \in DOMAIN lane /\ lane'[i] = lane[i + 1]
  BY <1>0, LaneShrinks
<1>2. Types' /\ HostGone'
  BY <1>0, <1>1 DEF BInv, Types, HostGone
<1>3. Awaiting' /\ Owes'
  BY <1>0, <1>1 DEF BInv, Awaiting, Owes, OnItsWay
<1>4. Arms'
  <2>1. armed => record # "alive"
    BY <1>0 DEF BInv, Arms, Unread
  <2>2. NoAlive => NoAlive'
    BY <1>0, <1>1 DEF NoAlive, OnItsWay
  <2> QED BY <1>0, <2>1, <2>2 DEF BInv, Arms, Latched
<1> QED BY <1>1, <1>2, <1>3, <1>4 DEF BInv

LEMMA CommitFrameKeeps ==
    ASSUME BInv, CommitFrame
    PROVE  BInv'
<1> DEFINE st == Head(lane).state
           sq == Head(lane).seq
<1>0. /\ lane # <<>> /\ lane' = Tail(lane) /\ mirror' = st /\ brake' = FrameSeen(brake, st, sq)
      /\ UNCHANGED <<record, news, up, reply, push, toHost, toWorker, link, arrivals, owed, armed>>
      /\ arrivals \in Nat /\ GoodBrake(brake, arrivals)
  BY DEF CommitFrame, hostVars, pipeVars, history, BInv, Types
<1>1. /\ lane' \in Seq(Frames) /\ Sorted' /\ 1 \in DOMAIN lane /\ Head(lane) = lane[1] /\ Head(lane) \in Frames
      /\ \A i \in DOMAIN lane' : i + 1 \in DOMAIN lane /\ lane'[i] = lane[i + 1]
      /\ \A i \in DOMAIN lane' : sq < lane'[i].seq
  BY <1>0, LaneShrinks
<1>2. sq \in Nat /\ lane[1].state = st /\ lane[1].seq = sq /\ \A i \in DOMAIN lane' : lane'[i].seq \in Nat
  <2>1. \A i \in DOMAIN lane' : lane'[i] \in Frames
    BY <1>1
  <2> QED BY <1>1, <2>1 DEF Frames
<1> HIDE DEF st, sq
<1>3. /\ GoodBrake(brake', arrivals)
      /\ brake'.kind \in Shut => brake.kind \in Shut /\ brake'.anchor = brake.anchor
      /\ brake.kind \in Shut /\ st # "alive" => brake'.kind \in Shut
      /\ brake.engage.set /\ ~(st = "killed" /\ sq > brake.engage.at) => brake'.engage = brake.engage
      /\ brake'.kind = "awaiting-release" =>
            \/ brake.kind = "awaiting-release" /\ ~(st = "alive" /\ sq > brake.anchor.at)
            \/ brake.kind = "braking" /\ st = "killed" /\ sq > brake.anchor.at
  BY <1>0, <1>2, FrameSeenGood
<1>4. brake.anchor.at \in Nat /\ brake.engage.at \in Nat
  BY <1>0 DEF GoodBrake, Brakes, Marks
<1>5. Types' /\ HostGone'
  BY <1>0, <1>1, <1>3 DEF BInv, Types, HostGone
<1>6. Awaiting'
  <2> SUFFICES ASSUME brake'.kind = "awaiting-release"
               PROVE  mirror' # "alive" /\ \A i \in DOMAIN lane' : lane'[i].seq > brake'.anchor.at
    BY DEF Awaiting
  <2>1. brake'.anchor = brake.anchor
    BY <1>3 DEF Shut
  <2>2. sq > brake.anchor.at
    BY <1>1, <1>2, <1>3 DEF BInv, Awaiting
  <2>3. st # "alive"
    BY <1>3, <2>2
  <2> QED BY <1>0, <1>1, <1>2, <1>4, <2>1, <2>2, <2>3
<1>7. Owes'
  <2> SUFFICES ASSUME owed' PROVE Owes'
    BY DEF Owes
  <2>1. brake.engage.set /\ (st = "killed" => sq <= brake.engage.at)
    BY <1>0, <1>1, <1>2 DEF BInv, Owes
  <2>2. brake'.engage = brake.engage
    BY <1>2, <1>3, <1>4, <2>1
  <2> QED BY <1>0, <1>1, <2>2 DEF BInv, Owes, OnItsWay
<1>8. Arms'
  <2>1. armed => record # "alive" /\ st # "alive" /\ brake.kind \in Shut
    BY <1>0, <1>1, <1>2 DEF BInv, Arms, Unread, NoAlive, Latched, Shut
  <2>2. NoAlive => NoAlive'
    BY <1>0, <1>1 DEF NoAlive, OnItsWay
  <2> QED BY <1>0, <1>3, <2>1, <2>2 DEF BInv, Arms, Latched, Shut
<1> QED BY <1>1, <1>5, <1>6, <1>7, <1>8 DEF BInv

\* A panic: the engage posted or not, the brake put on.
LEMMA DenyAndKillKeeps ==
    ASSUME BInv, NEW posted \in BOOLEAN, DenyAndKill(posted)
    PROVE  BInv'
<1>0. /\ UNCHANGED <<record, news, up, reply, push, toWorker, link, arrivals, mirror, lane>>
      /\ brake' = Panicked(brake, posted)
      /\ armed' = IF brake'.kind = "braking" THEN Quiet ELSE armed
      /\ arrivals \in Nat /\ GoodBrake(brake, arrivals) /\ toHost \in Seq(Request)
  BY DEF DenyAndKill, hostVars, mirrorVars, BInv, Types
<1>1. /\ GoodBrake(brake', arrivals)
      /\ posted => brake'.engage = Mark(arrivals)
      /\ ~posted => brake'.engage = brake.engage
      /\ brake'.kind = "braking" \/ (~posted /\ brake' = brake)
  BY <1>0, PanickedGood
<1>2. /\ posted => Posting("engage") /\ Owing
      /\ ~posted => ~up /\ toHost' = toHost /\ owed' = owed
  BY DEF DenyAndKill, CanFail, BInv, HostGone
<1>3. "engage" \in Request
  BY DEF Request
<1>4. toHost' \in Seq(Request) /\ (~up => toHost' = toHost)
  BY <1>0, <1>2, <1>3 DEF Posting
<1>5. Types' /\ Sorted' /\ HostGone'
  BY <1>0, <1>1, <1>4 DEF BInv, Types, Sorted, HostGone
<1>6. Awaiting'
  BY <1>0, <1>1 DEF BInv, Awaiting
<1>7. Owes'
  <2>1. CASE posted
    BY <1>0, <1>1, <1>2, <2>1, OwingKeeps
  <2>2. CASE ~posted
    BY <1>0, <1>1, <1>2, <2>2 DEF BInv, Owes, OnItsWay
  <2> QED BY <2>1, <2>2
<1>8. Arms'
  <2>1. CASE brake'.kind = "braking"
    <3> SUFFICES ASSUME Quiet PROVE Latched' /\ Unread' /\ NoAlive'
      BY <1>0, <2>1 DEF Arms
    <3>1. up => EngageFirst'
      <4> SUFFICES ASSUME up PROVE EngageFirst'
        OBVIOUS
      <4>1. toHost' = Append(toHost, "engage")
        BY <1>2 DEF Posting
      <4>2. /\ Len(toHost) + 1 \in DOMAIN toHost' /\ toHost'[Len(toHost) + 1] = "engage"
            /\ \A n \in DOMAIN toHost' : toHost'[n] = "engage" \/ (n \in DOMAIN toHost /\ toHost'[n] = toHost[n])
        BY <1>0, <1>3, <4>1, AppendAt
      <4>3. \A n \in DOMAIN toHost' : toHost'[n] # "status"
        BY <4>2 DEF Quiet
      <4> QED BY <4>2, <4>3 DEF EngageFirst
    <3>2. ~OnItsWay(Status)' /\ ~OnItsWay({"alive"})'
      BY <1>0 DEF Quiet, OnItsWay, Status
    <3> QED BY <1>0, <2>1, <3>1, <3>2 DEF Quiet, Unread, NoAlive, Latched
  <2>2. CASE brake'.kind # "braking"
    <3>1. ~posted /\ brake' = brake /\ armed' = armed /\ toHost' = toHost
      BY <1>0, <1>1, <1>2, <2>2
    <3> QED BY <1>0, <3>1 DEF BInv, Arms, Unread, NoAlive, EngageFirst, OnItsWay, Latched
  <2> QED BY <2>1, <2>2
<1> QED BY <1>5, <1>6, <1>7, <1>8 DEF BInv

LEMMA SurfaceWritesKeeps ==
    ASSUME BInv, NEW r \in {"alive", "killed", "unreadable"}, SurfaceWrites(r)
    PROVE  BInv'
BY WriteKeeps DEF SurfaceWrites, brakeVars

LEMMA ConfirmKeeps ==
    ASSUME BInv, PresentOne \/ \E c \in Confirms : ConfirmStep(c)
    PROVE  BInv'
BY BInvKept DEF PresentOne, ConfirmStep, StartDecision, ConfirmWithUser, Settle, brakeVars

LEMMA NextBInv ==
    ASSUME BInv, [Next]_vars
    PROVE  BInv'
<1>1. CASE UNCHANGED vars
  BY <1>1, BInvKept DEF vars, brakeVars
<1>2. CASE \E r \in {"alive", "killed", "unreadable"} : SurfaceWrites(r)
  BY <1>2, SurfaceWritesKeeps
<1>3. CASE HandleFrame \/ WriteReply \/ WatchRead \/ WatchWrite
  BY <1>3, HandleFrameKeeps, StatusMoves
<1>4. CASE HostEnds \/ ConnectNative \/ Teardown \/ WorkerRestart
  BY <1>4, GoneKeeps, ConnectNativeKeeps, WorkerRestartKeeps
<1>5. CASE FrameArrives \/ MirrorWriteFails \/ CommitFrame
  BY <1>5, FrameArrivesKeeps, MirrorWriteFailsKeeps, CommitFrameKeeps
<1>6. CASE EngageKill \/ \E f \in {"status", "release"} : PageRequest(f)
  BY <1>6, PagesKeep
<1>7. CASE PresentOne \/ \E c \in Confirms : ConfirmStep(c)
  BY <1>7, ConfirmKeeps
<1>8. CASE \E posted \in BOOLEAN : DenyAndKill(posted)
  BY <1>8, DenyAndKillKeeps
<1> QED BY <1>1, <1>2, <1>3, <1>4, <1>5, <1>6, <1>7, <1>8 DEF Next

LEMMA BInvImplies == BInv => PanicHolds
BY DEF BInv, PanicHolds, BrakeRemembers, LatchHolds, GateShut, Owes, Arms, Awaiting, EngageOutstanding

\* A panic holds: an engage that reached the pipe stays outstanding until the switch has
\* been engaged since, a quiet panic keeps confirmations latched until somebody releases
\* the switch, and the mirror keeps the gate shut while the brake waits for the release,
\* whatever frames are late, lost or committed out of step and however often the host dies.
THEOREM PanicBrakeHolds == Spec => []PanicHolds
BY InitBInv, NextBInv, BInvImplies, PTL DEF Spec

----------------------------------------------------------------------------
(* Consent.                                                                *)

Phases == {"idle", "deciding", "queued", "active", "allowed", "denied"}

\* An attempt a panic landed across captured an epoch before that panic.
Stale == \A c \in crossed : pc[c] \notin {"active", "allowed", "idle"} /\ epoch[c] < panics

CInv ==
    /\ pc \in [Confirms -> Phases] /\ epoch \in [Confirms -> Nat] /\ panics \in Nat
    /\ queue \in Seq(Confirms) /\ crossed \in SUBSET Confirms
    /\ Latched => Active = {}
    /\ \A c \in Confirms : epoch[c] <= panics
    /\ Stale

LEMMA InitCInv == Init => CInv
<1> SUFFICES ASSUME Init PROVE CInv
  OBVIOUS
<1>1. ~Latched
  BY ClearGood DEF Init, Latched
<1>2. pc \in [Confirms -> Phases] /\ epoch \in [Confirms -> Nat] /\ \A c \in Confirms : epoch[c] = 0
  BY DEF Init, Phases
<1> QED BY <1>1, <1>2 DEF Init, CInv, Stale

\* The latch only comes on by a panic: other steps leave it as it is or lift it.
LEMMA LatchOn ==
    ASSUME BInv, [Next]_vars, Latched'
    PROVE  Latched \/ \E posted \in BOOLEAN : DenyAndKill(posted)
<1>0. arrivals \in Nat /\ GoodBrake(brake, arrivals)
  BY DEF BInv, Types
<1>1. CASE UNCHANGED brake
  BY <1>1 DEF Latched
<1>2. CASE ConnectNative \/ EngageKill
  <2>1. brake' = brake \/ brake' = EngagePosted(brake)
    BY <1>2 DEF ConnectNative, EngageKill
  <2> QED BY <1>0, <1>1, <2>1, EngagePostedGood DEF Latched
<1>3. CASE WorkerRestart
  BY <1>3, ClearGood DEF WorkerRestart, Latched
<1>4. CASE CommitFrame
  <2>1. brake' = FrameSeen(brake, Head(lane).state, Head(lane).seq) /\ lane # <<>> /\ lane \in Seq(Frames)
    BY <1>4 DEF CommitFrame, BInv, Types
  <2>2. Head(lane).seq \in Nat
    <3>1. Head(lane) \in Frames
      BY <2>1, TailAt
    <3> QED BY <3>1 DEF Frames
  <2> QED BY <1>0, <2>1, <2>2, FrameSeenGood DEF Latched, Shut
<1>5. CASE \E posted \in BOOLEAN : DenyAndKill(posted)
  BY <1>5
<1>6. UNCHANGED brake \/ ConnectNative \/ EngageKill \/ WorkerRestart \/ CommitFrame
         \/ \E posted \in BOOLEAN : DenyAndKill(posted)
  BY DEF Next, vars, brakeVars, SurfaceWrites, HandleFrame, WriteReply, WatchRead, WatchWrite, HostEnds, Teardown,
     FrameArrives, MirrorWriteFails, PageRequest, PresentOne, ConfirmStep, StartDecision, ConfirmWithUser, Settle
<1> QED BY <1>1, <1>2, <1>3, <1>4, <1>5, <1>6

\* One attempt moves, to a phase that respects the latch and the panics it saw.
LEMMA AttemptMoves ==
    ASSUME CInv, Latched' => Latched, NEW c \in Confirms, NEW to \in Phases \ {"idle"}, pc' = [pc EXCEPT ![c] = to],
           to = "active" => ~Latched, to \in {"active", "allowed"} => c \notin crossed,
           epoch' = epoch \/ (pc[c] = "idle" /\ epoch' = [epoch EXCEPT ![c] = panics]),
           queue' \in Seq(Confirms), UNCHANGED <<panics, crossed>>
    PROVE  CInv'
<1>1. /\ pc' \in [Confirms -> Phases] /\ epoch' \in [Confirms -> Nat] /\ panics' \in Nat /\ crossed' \in SUBSET Confirms
      /\ \A d \in Confirms : pc'[d] = IF d = c THEN to ELSE pc[d]
      /\ \A d \in Confirms : epoch'[d] = epoch[d] \/ (pc[d] = "idle" /\ epoch'[d] = panics)
  BY DEF CInv
<1>2. Latched' => Active' = {}
  BY <1>1 DEF CInv, Active
<1>3. \A d \in Confirms : epoch'[d] <= panics'
  BY <1>1 DEF CInv
<1>4. Stale'
  <2> SUFFICES ASSUME NEW d \in crossed
               PROVE  pc'[d] \notin {"active", "allowed", "idle"} /\ epoch'[d] < panics'
    BY DEF Stale
  <2>1. d \in Confirms /\ pc[d] \notin {"active", "allowed", "idle"} /\ epoch[d] < panics
    BY DEF CInv, Stale
  <2> QED BY <1>1, <2>1
<1> QED BY <1>1, <1>2, <1>3, <1>4 DEF CInv

LEMMA ConfirmConsent ==
    ASSUME BInv, CInv, PresentOne \/ \E c \in Confirms : ConfirmStep(c)
    PROVE  CInv'
<1>0. UNCHANGED <<brake, panics, crossed>> /\ (Latched' => Latched)
  BY DEF PresentOne, ConfirmStep, StartDecision, ConfirmWithUser, Settle, brakeVars, Latched
<1>1. queue \in Seq(Confirms) /\ \A c \in crossed : pc[c] \notin {"active", "allowed", "idle"} /\ epoch[c] < panics
  BY DEF CInv, Stale
<1>2. {"deciding", "queued", "active", "allowed", "denied"} \subseteq Phases \ {"idle"}
  BY DEF Phases
<1>3. ASSUME NEW c \in Confirms, StartDecision(c) PROVE CInv'
  <2>1. /\ pc[c] = "idle" /\ pc' = [pc EXCEPT ![c] = "deciding"] /\ epoch' = [epoch EXCEPT ![c] = panics]
        /\ queue' = queue
    BY <1>3 DEF StartDecision
  <2> QED BY <1>0, <1>1, <1>2, <2>1, AttemptMoves
<1>4. ASSUME NEW c \in Confirms, ConfirmWithUser(c) PROVE CInv'
  <2>1. \E to \in {"denied", "queued"} : pc' = [pc EXCEPT ![c] = to]
    BY <1>4 DEF ConfirmWithUser
  <2>2. queue' \in Seq(Confirms) /\ epoch' = epoch
    <3>1. queue' = queue \/ queue' = Append(queue, c)
      BY <1>4 DEF ConfirmWithUser
    <3> QED BY <1>1, <1>4, <3>1, AppendAt DEF ConfirmWithUser
  <2>3. PICK to \in {"denied", "queued"} : pc' = [pc EXCEPT ![c] = to]
    BY <2>1
  <2> QED BY <1>0, <1>2, <2>2, <2>3, AttemptMoves
<1>5. ASSUME NEW c \in Confirms, Settle(c) PROVE CInv'
  <2>1. PICK v \in {"allowed", "denied"} : pc' = [pc EXCEPT ![c] = v]
    BY <1>5 DEF Settle
  <2>2. pc[c] = "active" /\ queue' = queue /\ epoch' = epoch /\ c \notin crossed
    BY <1>1, <1>5 DEF Settle
  <2> QED BY <1>0, <1>1, <1>2, <2>1, <2>2, AttemptMoves
<1>6. ASSUME PresentOne PROVE CInv'
  <2>1. queue # <<>> /\ queue' = Tail(queue) /\ epoch' = epoch
    BY <1>6 DEF PresentOne
  <2>2. Head(queue) \in Confirms /\ queue' \in Seq(Confirms)
    BY <1>1, <2>1, TailAt
  <2>3. PICK to \in {"active", "denied"} : (to = "active" => MayPresent(Head(queue))) /\ pc' = [pc EXCEPT ![Head(queue)] = to]
    BY <1>6 DEF PresentOne
  <2>4. to = "active" => ~Latched /\ epoch[Head(queue)] = panics
    BY <2>3 DEF MayPresent
  <2>5. to = "active" => Head(queue) \notin crossed
    <3>1. panics \in Nat
      BY DEF CInv
    <3> QED BY <1>1, <2>4, <3>1
  <2> QED BY <1>0, <1>2, <2>1, <2>2, <2>3, <2>4, <2>5, AttemptMoves
<1> QED BY <1>3, <1>4, <1>5, <1>6 DEF ConfirmStep

LEMMA PanicConsent ==
    ASSUME CInv, NEW posted \in BOOLEAN, DenyAndKill(posted)
    PROVE  CInv'
<1>1. /\ pc' = Denied /\ panics' = panics + 1 /\ epoch' = epoch /\ queue' = queue
      /\ crossed' = crossed \cup {c \in Confirms : pc[c] \in {"deciding", "queued", "active"}}
  BY DEF DenyAndKill
<1>2. /\ pc \in [Confirms -> Phases] /\ epoch \in [Confirms -> Nat] /\ panics \in Nat /\ crossed \in SUBSET Confirms
      /\ \A c \in Confirms : epoch[c] <= panics
  BY DEF CInv
<1>3. /\ pc' \in [Confirms -> Phases]
      /\ \A c \in Confirms : pc'[c] = IF pc[c] = "active" THEN "denied" ELSE pc[c]
  BY <1>1, <1>2 DEF Denied, Phases
<1>4. \A c \in Confirms : epoch'[c] < panics'
  BY <1>1, <1>2
<1>5. Active' = {}
  BY <1>3 DEF Active
<1>6. Stale'
  BY <1>1, <1>3, <1>4 DEF CInv, Stale
<1>7. panics' \in Nat /\ crossed' \in SUBSET Confirms /\ epoch' \in [Confirms -> Nat]
  BY <1>1, <1>2
<1>8. \A c \in Confirms : epoch'[c] <= panics'
  BY <1>1, <1>2
<1> QED BY <1>1, <1>3, <1>5, <1>6, <1>7, <1>8 DEF CInv

LEMMA RestartConsent ==
    ASSUME CInv, WorkerRestart
    PROVE  CInv'
<1>1. /\ pc' = [c \in Confirms |-> IF pc[c] \in {"deciding", "queued", "active"} THEN "denied" ELSE pc[c]]
      /\ panics' = 0 /\ epoch' = [c \in Confirms |-> 0] /\ queue' = <<>> /\ crossed' = {} /\ brake' = Clear
  BY DEF WorkerRestart
<1>2. ~Latched'
  BY <1>1, ClearGood DEF Latched
<1>3. pc' \in [Confirms -> Phases]
  BY <1>1 DEF CInv, Phases
<1> QED BY <1>1, <1>2, <1>3 DEF CInv, Stale

LEMMA NextCInv ==
    ASSUME BInv, CInv, [Next]_vars
    PROVE  CInv'
<1>1. CASE PresentOne \/ \E c \in Confirms : ConfirmStep(c)
  BY <1>1, ConfirmConsent
<1>2. CASE \E posted \in BOOLEAN : DenyAndKill(posted)
  BY <1>2, PanicConsent
<1>3. CASE WorkerRestart
  BY <1>3, RestartConsent
<1>4. CASE UNCHANGED <<confirmVars, panics>> /\ ~\E posted \in BOOLEAN : DenyAndKill(posted)
  <2>1. Latched' => Latched
    BY <1>4, LatchOn
  <2> QED BY <1>4, <2>1 DEF CInv, Stale, Active, confirmVars
<1>5. \/ PresentOne \/ \E c \in Confirms : ConfirmStep(c)
      \/ WorkerRestart \/ UNCHANGED <<confirmVars, panics>>
      \/ \E posted \in BOOLEAN : DenyAndKill(posted)
  BY DEF Next, vars, brakeVars, SurfaceWrites, HandleFrame, WriteReply, WatchRead, WatchWrite, HostEnds, Teardown,
     ConnectNative, FrameArrives, MirrorWriteFails, CommitFrame, EngageKill, PageRequest
<1> QED BY <1>1, <1>2, <1>3, <1>4, <1>5

LEMMA CInvImplies == CInv => NoConsentAcrossPanic
BY DEF CInv, Stale, NoConsentAcrossPanic

\* No consent surface is up while the brake is latched, and a confirmation whose decision
\* a panic landed across is never presented and never allowed: the latch is looked at when
\* the attempt enters the lane and again at its turn, and the epoch it captured before its
\* first await tells a panic in between even when the latch has already been lifted.
THEOREM PanicBrakeConsent == Spec => []NoConsentAcrossPanic
<1>1. Init => BInv /\ CInv
  BY InitBInv, InitCInv
<1>2. BInv /\ CInv /\ [Next]_vars => (BInv /\ CInv)'
  BY NextBInv, NextCInv
<1> QED BY <1>1, <1>2, CInvImplies, PTL DEF Spec

============================================================================
