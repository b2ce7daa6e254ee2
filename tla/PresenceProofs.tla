--------------------------- MODULE PresenceProofs ---------------------------
(***************************************************************************)
(* What Presence promises, for any number of hosts, credentials, requests  *)
(* and answers.                                                            *)
(*                                                                         *)
(* Three invariants carry the proofs.  PType gives every slot, job and     *)
(* answer its shape.  Held says where a nonce can be: at one host, in its  *)
(* slot or in its job, and only while no act ran on it.  Fresh says that a *)
(* pending enrollment is none of those the record or a verified answer     *)
(* comes from, so a ceremony enrolls once, whatever id it enrolls again.   *)
(***************************************************************************)
EXTENDS Presence, TLAPS

USE PresenceAssumption DEF Domains, Acts

Stmts == [domain : Domains, label : Labels, act : Acts, nonce : Nat \ {0}]

Slots == {Free} \cup [kind : {"presence"}, st : Stmts, hint : SUBSET Creds]
                \cup [kind : {"enrollment"}, st : Stmts, authority : {"first_use"}, via : {None},
                      exclude : SUBSET Creds]
                \cup [kind : {"enrollment"}, st : Stmts, authority : {"approved"},
                      via : Nat \ {0}, exclude : SUBSET Creds]
                \cup [kind : {"approved"}, via : Nat \ {0}, old : BOOLEAN]

Jobs == {Resting} \cup [pc : {"advance"}, st : Stmts, cred : Creds, count : Nat, born : Nat]
                  \cup [pc : {"settle"}, st : Stmts, path : Creds \cup {"window"}]

Answers == [kind : {"webauthn.get", "webauthn.create"}, to : Hosts, challenge : Stmts,
            cred : Creds, count : Nat, flaw : Flaws \cup {None}]
           \cup [kind : {"window"}, to : Hosts, challenge : Stmts, cred : {None}, count : {0},
                 flaw : {None}]

Enrollment == [label : Labels, count : Nat, root : BOOLEAN, born : Nat]

\* Every variable has its shape.
PType == /\ enrolled \in [Creds -> Enrollment \cup {None}]
         /\ pending \in [Hosts -> Slots] /\ job \in [Hosts -> Jobs]
         /\ responses \subseteq Answers
         /\ minted \in 0 .. MaxStatements
         /\ ticks \in [Creds -> Nat] /\ runs \in [Nonces -> Nat]

LEMMA InitType == Init => PType
BY DEF Init, PType, Slots, Jobs, Nonces

LEMMA EnrolledType == PType => Enrolled \subseteq Creds /\ \A c \in Enrolled : enrolled[c] \in Enrollment
BY DEF PType, Enrolled

LEMMA StatementType ==
    ASSUME PType, NEW h \in Hosts, NEW d \in Domains, NEW a \in Acts
    PROVE  Statement(d, h, a) \in Stmts
BY DEF PType, Statement, Stmts, Labels

\* What the requests that open a slot put into it.
LEMMA RequestType ==
    ASSUME PType, NEW h \in Hosts, NEW a \in Acts
    PROVE  PresenceRequest(h, a) \in Slots
<1>1. Statement("presence", h, a) \in Stmts
  BY StatementType
<1>2. Enrolled \subseteq Creds /\ EnrolledAs(LabelOf[h]) \subseteq Creds
  BY DEF Enrolled, EnrolledAs
<1> QED
  BY <1>1, <1>2 DEF PresenceRequest, Slots

-----------------------------------------------------------------------------
(* Where a nonce is.                                                       *)

\* The nonce a slot can still turn into an act: the request's own, or the one that approved an
\* enrollment.  0 for none.
NonceOf(p) == IF p.kind = "presence" THEN p.st.nonce
              ELSE IF p.kind = "approved" \/ (p.kind = "enrollment" /\ p.authority = "approved")
                   THEN p.via ELSE 0

\* The nonce a job is working on, 0 for none.
NonceIn(j) == IF j.pc = "idle" THEN 0 ELSE j.st.nonce

SlotNonce(h) == NonceOf(pending[h])
JobNonce(h)  == NonceIn(job[h])

\* A nonce is at one host, in its slot or in its job, and only while no act ran on it.
Held == /\ \A h \in Hosts : SlotNonce(h) \in 0 .. minted /\ JobNonce(h) \in 0 .. minted
        /\ \A h, k \in Hosts : h # k /\ SlotNonce(h) # 0 => SlotNonce(h) # SlotNonce(k)
        /\ \A h, k \in Hosts : h # k /\ JobNonce(h) # 0 => JobNonce(h) # JobNonce(k)
        /\ \A h, k \in Hosts : JobNonce(h) # 0 => JobNonce(h) # SlotNonce(k)
        /\ \A h \in Hosts : /\ SlotNonce(h) # 0 => runs[SlotNonce(h)] = 0
                            /\ JobNonce(h) # 0 => runs[JobNonce(h)] = 0
        /\ \A n \in Nonces : runs[n] \in {0, 1} /\ (n > minted => runs[n] = 0)

\* The one argument behind Held: a step moves nonces of one host only, within that host, adds at
\* most the one it mints, and runs an act only on a nonce it gives up.
LEMMA HeldKept ==
    ASSUME PType, PType', Held, NEW h \in Hosts,
           minted' \in {minted, minted + 1},
           \A k \in Hosts \ {h} : SlotNonce(k)' = SlotNonce(k) /\ JobNonce(k)' = JobNonce(k),
           \/ SlotNonce(h)' \in {0, SlotNonce(h), JobNonce(h)}
           \/ minted' = minted + 1 /\ SlotNonce(h)' = minted',
           JobNonce(h)' \in {0, SlotNonce(h), JobNonce(h)},
           JobNonce(h)' # 0 => JobNonce(h)' # SlotNonce(h)',
           \/ runs' = runs
           \/ \E n \in {SlotNonce(h), JobNonce(h)} :
                 n # 0 /\ n \notin {SlotNonce(h)', JobNonce(h)'} /\ runs' = [runs EXCEPT ![n] = @ + 1]
    PROVE  Held'
<1>0. minted \in 0 .. MaxStatements /\ minted' \in 0 .. MaxStatements /\ runs \in [Nonces -> Nat]
  BY DEF PType
<1>1. \A k \in Hosts : SlotNonce(k)' \in 0 .. minted' /\ JobNonce(k)' \in 0 .. minted'
  BY <1>0 DEF Held
<1>2. \A k, l \in Hosts : k # l /\ SlotNonce(k)' # 0 => SlotNonce(k)' # SlotNonce(l)'
  BY <1>0 DEF Held
<1>3. \A k, l \in Hosts : k # l /\ JobNonce(k)' # 0 => JobNonce(k)' # JobNonce(l)'
  BY <1>0 DEF Held
<1>4. \A k, l \in Hosts : JobNonce(k)' # 0 => JobNonce(k)' # SlotNonce(l)'
  BY <1>0 DEF Held
<1>5. \A k \in Hosts : /\ SlotNonce(k)' # 0 => runs'[SlotNonce(k)'] = 0
                       /\ JobNonce(k)' # 0 => runs'[JobNonce(k)'] = 0
  <2>1. ASSUME NEW k \in Hosts, NEW m \in {SlotNonce(k)', JobNonce(k)'}, m # 0
        PROVE  runs'[m] = 0
    <3>1. m \in Nonces /\ m \in 1 .. minted'
      BY <1>0, <1>1, <2>1 DEF Nonces
    <3>2. runs[m] = 0
      BY <1>0, <2>1, <3>1 DEF Held
    <3>3. CASE runs' = runs
      BY <3>2, <3>3
    <3>4. ASSUME NEW n \in {SlotNonce(h), JobNonce(h)}, n # 0, n \notin {SlotNonce(h)', JobNonce(h)'},
                 runs' = [runs EXCEPT ![n] = @ + 1]
          PROVE  runs'[m] = 0
      <4>1. m # n
        BY <1>0, <2>1, <3>4 DEF Held
      <4> QED BY <1>0, <3>1, <3>2, <3>4, <4>1
    <3> QED BY <3>3, <3>4
  <2> QED BY <2>1
<1>6. \A n \in Nonces : runs'[n] \in {0, 1} /\ (n > minted' => runs'[n] = 0)
  <2>1. CASE runs' = runs
    BY <1>0, <2>1 DEF Held, Nonces
  <2>2. ASSUME NEW n \in {SlotNonce(h), JobNonce(h)}, n # 0, runs' = [runs EXCEPT ![n] = @ + 1]
        PROVE  \A m \in Nonces : runs'[m] \in {0, 1} /\ (m > minted' => runs'[m] = 0)
    <3>1. n \in 1 .. minted /\ runs[n] = 0
      BY <1>0, <2>2 DEF Held
    <3> QED BY <1>0, <2>2, <3>1 DEF Held, Nonces
  <2> QED BY <2>1, <2>2
<1> QED
  BY <1>1, <1>2, <1>3, <1>4, <1>5, <1>6 DEF Held, Nonces

\* The shapes depend on the labels only, and no step relabels a host.
LEMMA SameShapes ==
    ASSUME LabelOf' = LabelOf
    PROVE  /\ Labels' = Labels /\ Stmts' = Stmts /\ Slots' = Slots /\ Jobs' = Jobs
           /\ Answers' = Answers /\ Enrollment' = Enrollment
BY DEF Labels, Stmts, Slots, Jobs, Answers, Enrollment

\* A step that moves host h's slot to p and its job to j, and runs at most an act it gives up.
Moves(h, p, j) ==
    /\ LabelOf' = LabelOf
    /\ pending' = [pending EXCEPT ![h] = p] /\ job' = [job EXCEPT ![h] = j]
    /\ \/ minted' = minted /\ NonceOf(p) \in {0, SlotNonce(h), JobNonce(h)}
       \/ Mint /\ NonceOf(p) \in {0, SlotNonce(h), minted'}
    /\ NonceIn(j) \in {0, SlotNonce(h), JobNonce(h)}
    /\ NonceIn(j) # 0 => NonceIn(j) # NonceOf(p)
    /\ \/ runs' = runs
       \/ \E n \in {SlotNonce(h), JobNonce(h)} : n # 0 /\ n \notin {NonceOf(p), NonceIn(j)} /\ Ran(n)

LEMMA MovesKeep ==
    ASSUME PType, Held, NEW h \in Hosts, NEW p \in Slots, NEW j \in Jobs, Moves(h, p, j),
           enrolled' \in [Creds -> Enrollment \cup {None}], responses' \subseteq Answers,
           ticks' \in [Creds -> Nat]
    PROVE  PType' /\ Held'
<1>1. /\ Slots' = Slots /\ Jobs' = Jobs /\ Answers' = Answers /\ Enrollment' = Enrollment
  BY SameShapes DEF Moves
<1>2. pending' \in [Hosts -> Slots] /\ job' \in [Hosts -> Jobs]
  BY DEF Moves, PType
<1>3. minted' \in 0 .. MaxStatements /\ minted' \in {minted, minted + 1}
  BY DEF Moves, PType, Mint
<1>4. runs' \in [Nonces -> Nat]
  BY DEF Moves, PType, Ran
<1>5. PType'
  BY <1>1, <1>2, <1>3, <1>4 DEF PType, Nonces
<1>6. SlotNonce(h)' = NonceOf(p) /\ JobNonce(h)' = NonceIn(j)
  BY DEF Moves, PType, SlotNonce, JobNonce
<1>7. \A k \in Hosts \ {h} : SlotNonce(k)' = SlotNonce(k) /\ JobNonce(k)' = JobNonce(k)
  BY DEF Moves, PType, SlotNonce, JobNonce
<1>8. \/ SlotNonce(h)' \in {0, SlotNonce(h), JobNonce(h)}
      \/ minted' = minted + 1 /\ SlotNonce(h)' = minted'
  BY <1>6 DEF Moves, Mint
<1>9. JobNonce(h)' \in {0, SlotNonce(h), JobNonce(h)} /\ (JobNonce(h)' # 0 => JobNonce(h)' # SlotNonce(h)')
  BY <1>6 DEF Moves
<1>10. \/ runs' = runs
       \/ \E n \in {SlotNonce(h), JobNonce(h)} :
            n # 0 /\ n \notin {SlotNonce(h)', JobNonce(h)'} /\ runs' = [runs EXCEPT ![n] = @ + 1]
  BY <1>6 DEF Moves, Ran
<1> QED
  BY <1>3, <1>5, <1>7, <1>8, <1>9, <1>10, HeldKept

-----------------------------------------------------------------------------
(* What a slot, a job and an answer hold, read off their shapes.           *)

LEMMA SlotShape ==
    ASSUME PType, NEW h \in Hosts
    PROVE  /\ pending[h] \in Slots /\ pending = [pending EXCEPT ![h] = pending[h]]
           /\ pending[h].kind \in {"none", "presence", "enrollment", "approved"}
           /\ pending[h].kind \in {"presence", "enrollment"} =>
                 pending[h].st \in Stmts /\ pending[h].st.nonce \in Nat \ {0}
           /\ pending[h].kind = "presence" => SlotNonce(h) = pending[h].st.nonce
           /\ pending[h].kind = "approved" => /\ SlotNonce(h) = pending[h].via
                                              /\ pending[h].via \in Nat \ {0}
           /\ pending[h].kind = "enrollment" /\ pending[h].authority = "approved" =>
                 SlotNonce(h) = pending[h].via /\ pending[h].via \in Nat \ {0}
           /\ pending[h].kind = "enrollment" => pending[h].authority \in {"first_use", "approved"}
BY DEF PType, Slots, SlotNonce, NonceOf, Free, Stmts

LEMMA JobShape ==
    ASSUME PType, NEW h \in Hosts
    PROVE  /\ job[h] \in Jobs /\ job = [job EXCEPT ![h] = job[h]]
           /\ job[h].pc \in {"idle", "advance", "settle"}
           /\ job[h].pc = "idle" => job[h] = Resting
           /\ job[h].pc # "idle" => /\ job[h].st \in Stmts /\ job[h].st.nonce \in Nat \ {0}
                                    /\ JobNonce(h) = job[h].st.nonce
           /\ job[h].pc = "advance" => job[h].cred \in Creds /\ job[h].count \in Nat
BY DEF PType, Jobs, JobNonce, NonceIn, Resting, Stmts

LEMMA AnswerShape ==
    ASSUME PType, NEW r \in responses
    PROVE  /\ r.kind \in {"webauthn.get", "webauthn.create", "window"} /\ r.count \in Nat
           /\ r.kind # "window" => r.cred \in Creds
           /\ r.challenge \in Stmts /\ r.challenge.nonce \in Nat \ {0}
BY DEF PType, Answers, Stmts

\* The empty slot and the idle job hold nothing.
LEMMA NothingHeld == /\ Free \in Slots /\ NonceOf(Free) = 0
                     /\ Resting \in Jobs /\ NonceIn(Resting) = 0
BY DEF Slots, Jobs, NonceOf, NonceIn, Free, Resting

-----------------------------------------------------------------------------
(* PType and Held, one lemma per action.                                   *)

LEMMA AskKeeps ==
    ASSUME PType, Held, NEW h \in Hosts, NEW p \in Slots, Asks, Set(h, p),
           \/ minted' = minted /\ NonceOf(p) \in {0, SlotNonce(h)}
           \/ Mint /\ NonceOf(p) \in {0, SlotNonce(h), minted'},
           Ready(h)
    PROVE  PType' /\ Held'
<1>1. job' = [job EXCEPT ![h] = Resting] /\ runs' = runs /\ LabelOf' = LabelOf
  BY JobShape DEF Asks, User, Ready
<1>2. Moves(h, p, Resting)
  BY <1>1, NothingHeld DEF Moves, Set
<1> QED
  BY <1>2, NothingHeld, MovesKeep DEF Asks, User, PType

LEMMA AwaitKeeps ==
    ASSUME PType, Held, NEW h \in Hosts, NEW a \in Acts, Asks, Ready(h), AwaitPresence(h, a)
    PROVE  PType' /\ Held'
<1>1. PresenceRequest(h, a) \in Slots
  BY RequestType
<1>2. NonceOf(PresenceRequest(h, a)) = minted' /\ Mint
  BY DEF NonceOf, PresenceRequest, Statement, AwaitPresence, Mint
<1> QED
  BY <1>1, <1>2, AskKeeps DEF AwaitPresence

LEMMA EnrollBeginKeeps ==
    ASSUME PType, Held, NEW h \in Hosts, EnrollBegin(h)
    PROVE  PType' /\ Held'
<1> USE DEF EnrollBegin
<1> DEFINE E(a, v) == [kind |-> "enrollment", st |-> Statement("enrollment", h, "enroll"),
                       authority |-> a, via |-> v, exclude |-> EnrolledAs(LabelOf[h])]
<1>0. Statement("enrollment", h, "enroll") \in Stmts /\ EnrolledAs(LabelOf[h]) \subseteq Creds
  BY StatementType DEF EnrolledAs, Enrolled
<1>1. CASE StartEnrollment(h, "first_use", None)
  <2>1. E("first_use", None) \in Slots /\ NonceOf(E("first_use", None)) = 0
    BY <1>0 DEF Slots, NonceOf
  <2>2. Mint /\ Set(h, E("first_use", None))
    BY <1>1 DEF StartEnrollment
  <2> QED BY <2>1, <2>2, AskKeeps
<1>2. CASE Approved(h) /\ StartEnrollment(h, "approved", pending[h].via)
  <2>1. pending[h].via \in Nat \ {0} /\ SlotNonce(h) = pending[h].via
    BY <1>2, SlotShape DEF Approved
  <2>2. E("approved", pending[h].via) \in Slots /\ NonceOf(E("approved", pending[h].via)) = SlotNonce(h)
    BY <1>0, <2>1 DEF Slots, NonceOf
  <2>3. Mint /\ Set(h, E("approved", pending[h].via))
    BY <1>2 DEF StartEnrollment
  <2> QED BY <2>2, <2>3, AskKeeps
<1>3. CASE AwaitPresence(h, "enroll")
  BY <1>3, AwaitKeeps
<1>4. CASE Set(h, Free) /\ minted' = minted
  BY <1>4, AskKeeps, NothingHeld
<1> QED
  BY <1>1, <1>2, <1>3, <1>4

LEMMA GrantKeeps ==
    ASSUME PType, Held, NEW h \in Hosts, Grant(h)
    PROVE  PType' /\ Held'
<1>1. CASE AwaitPresence(h, "own")
  BY <1>1, AwaitKeeps DEF Grant
<1>2. CASE Refuse(h)
  BY <1>2, AskKeeps, NothingHeld DEF Grant, Refuse
<1> QED
  BY <1>1, <1>2 DEF Grant

LEMMA PresenceBeginKeeps ==
    ASSUME PType, Held, NEW h \in Hosts, PresenceBegin(h)
    PROVE  PType' /\ Held'
<1>1. CASE AwaitPresence(h, "own")
  BY <1>1, AwaitKeeps DEF PresenceBegin
<1>2. CASE UNCHANGED <<pending, minted>>
  <2>1. Set(h, pending[h]) /\ pending[h] \in Slots /\ NonceOf(pending[h]) = SlotNonce(h)
    BY <1>2, SlotShape DEF Set, SlotNonce
  <2> QED BY <1>2, <2>1, AskKeeps DEF PresenceBegin
<1> QED
  BY <1>1, <1>2 DEF PresenceBegin

LEMMA ApprovalExpiresKeeps ==
    ASSUME PType, Held, NEW h \in Hosts, ApprovalExpires(h)
    PROVE  PType' /\ Held'
<1> DEFINE p == [pending[h] EXCEPT !.old = TRUE]
<1>1. pending[h] \in [kind : {"approved"}, via : Nat \ {0}, old : BOOLEAN]
  BY SlotShape DEF ApprovalExpires, Approved, Slots, Free
<1>2. p \in Slots /\ NonceOf(p) = SlotNonce(h)
  BY <1>1 DEF Slots, NonceOf, SlotNonce
<1>3. job[h] \in Jobs /\ job' = [job EXCEPT ![h] = job[h]] /\ NonceIn(job[h]) = JobNonce(h)
  BY JobShape DEF ApprovalExpires, Asks, JobNonce
<1>4. Moves(h, p, job[h])
  BY <1>2, <1>3 DEF Moves, ApprovalExpires, Asks, User, Set, Held
<1> QED
  BY <1>2, <1>3, <1>4, MovesKeep DEF ApprovalExpires, Asks, User, PType

\* A step that touches no slot, no job and no nonce.
LEMMA StillKeeps ==
    ASSUME PType, Held, UNCHANGED <<LabelOf, pending, job, minted, runs>>,
           enrolled' \in [Creds -> Enrollment \cup {None}], responses' \subseteq Answers,
           ticks' \in [Creds -> Nat]
    PROVE  PType' /\ Held'
<1>1. PType'
  BY SameShapes DEF PType, Nonces
<1>2. Held'
  BY DEF Held, SlotNonce, JobNonce, NonceOf, NonceIn, Nonces
<1> QED BY <1>1, <1>2

LEMMA RespondKeeps ==
    ASSUME PType, Held, NEW r \in Answers, Respond(r), ticks' \in [Creds -> Nat]
    PROVE  PType' /\ Held'
BY StillKeeps DEF Respond, PType

LEMMA TapKeeps ==
    ASSUME PType, Held, NEW h \in Hosts, NEW c \in Creds, NEW f \in Flaws \cup {None}, Tap(h, c, f)
    PROVE  PType' /\ Held' /\ ticks' \in [Creds -> Nat]
<1> DEFINE r == [kind |-> "webauthn.get", to |-> h, challenge |-> pending[h].st, cred |-> c,
                 count |-> ticks'[c], flaw |-> f]
<1>1. ticks' \in [Creds -> Nat]
  BY DEF Tap, PType
<1>2. r \in Answers
  BY <1>1, SlotShape DEF Tap, Answers
<1> QED
  BY <1>1, <1>2, RespondKeeps DEF Tap, PType

LEMMA ConfirmKeeps ==
    ASSUME PType, Held, NEW h \in Hosts, Confirm(h)
    PROVE  PType' /\ Held'
<1> DEFINE r == [kind |-> "window", to |-> h, challenge |-> pending[h].st, cred |-> None,
                 count |-> 0, flaw |-> None]
<1>1. r \in Answers
  BY SlotShape DEF Confirm, Answers
<1> QED
  BY <1>1, RespondKeeps DEF Confirm, PType

LEMMA CreateKeeps ==
    ASSUME PType, Held, NEW h \in Hosts, NEW c \in Creds, NEW f \in Flaws \cup {None}, NEW n \in 0 .. ticks[c],
           Create(h, c, n, f)
    PROVE  PType' /\ Held'
<1> DEFINE r == [kind |-> "webauthn.create", to |-> h, challenge |-> pending[h].st, cred |-> c,
                 count |-> n, flaw |-> f]
<1>1. r \in Answers
  BY SlotShape DEF Create, Answers, PType
<1> QED
  BY <1>1, RespondKeeps DEF Create, PType

\* A host that takes its slot and leaves everything else to its job.
LEMMA TakeKeeps ==
    ASSUME PType, Held, NEW h \in Hosts, NEW j \in Jobs, Ready(h), Set(h, Free), Doing(h, j),
           NonceIn(j) \in {0, SlotNonce(h)}, User, UNCHANGED <<enrolled, minted, runs>>
    PROVE  PType' /\ Held'
<1>1. Moves(h, Free, j)
  BY NothingHeld DEF Moves, User, Set, Doing
<1> QED
  BY <1>1, NothingHeld, MovesKeep DEF User, PType

LEMMA PresenceAssertKeeps ==
    ASSUME PType, Held, NEW h \in Hosts, NEW r \in responses, PresenceAssert(h, r)
    PROVE  PType' /\ Held'
<1> DEFINE j == [pc |-> "advance", st |-> pending[h].st, cred |-> r.cred, count |-> r.count,
                 born |-> enrolled[r.cred].born]
<1>1. CASE pending[h].kind = "presence" /\ r.cred \in Enrolled /\ Doing(h, j)
  <2>0. enrolled[r.cred].born \in Nat
    BY <1>1, EnrolledType DEF Enrollment
  <2>1. j \in Jobs /\ NonceIn(j) = SlotNonce(h)
    BY <1>1, <2>0, SlotShape, AnswerShape DEF Jobs, NonceIn, PresenceAssert
  <2> QED BY <1>1, <2>1, TakeKeeps DEF PresenceAssert
<1>2. CASE job' = job
  <2>1. Doing(h, Resting)
    BY <1>2, JobShape DEF Doing, PresenceAssert, Ready
  <2> QED BY <2>1, NothingHeld, TakeKeeps DEF PresenceAssert
<1> QED
  BY <1>1, <1>2 DEF PresenceAssert, Asserts, Admitted, EnrolledAs

LEMMA PresenceConfirmKeeps ==
    ASSUME PType, Held, NEW h \in Hosts, NEW r \in responses, PresenceConfirm(h, r)
    PROVE  PType' /\ Held'
<1> DEFINE j == Settling(pending[h].st, "window")
<1>1. CASE pending[h].kind = "presence" /\ Doing(h, j)
  <2>1. j \in Jobs /\ NonceIn(j) = SlotNonce(h)
    BY <1>1, SlotShape DEF Jobs, NonceIn, Settling
  <2> QED BY <1>1, <2>1, TakeKeeps DEF PresenceConfirm
<1>2. CASE job' = job
  <2>1. Doing(h, Resting)
    BY <1>2, JobShape DEF Doing, PresenceConfirm, Ready
  <2> QED BY <2>1, NothingHeld, TakeKeeps DEF PresenceConfirm
<1> QED
  BY <1>1, <1>2 DEF PresenceConfirm

LEMMA AdvanceKeeps ==
    ASSUME PType, Held, NEW h \in Hosts, AdvanceSignCount(h)
    PROVE  PType' /\ Held'
<1> DEFINE c == job[h].cred
           s == Settling(job[h].st, c)
<1>0. /\ c \in Creds /\ job[h].count \in Nat /\ job[h].st \in Stmts
      /\ JobNonce(h) = job[h].st.nonce
  BY JobShape DEF AdvanceSignCount
<1>1. /\ pending[h] \in Slots /\ pending' = [pending EXCEPT ![h] = pending[h]]
      /\ NonceOf(pending[h]) = SlotNonce(h)
  BY SlotShape DEF AdvanceSignCount, SlotNonce
<1>2. s \in Jobs /\ NonceIn(s) = JobNonce(h) /\ (NonceIn(s) # 0 => NonceIn(s) # SlotNonce(h))
  BY <1>0 DEF Settling, Jobs, NonceIn, Held
<1>3. CASE CounterAdvance(c, job[h].count) /\ SetSignCount(c, job[h].count) /\ Doing(h, s)
  <2>1. enrolled' \in [Creds -> Enrollment \cup {None}]
    BY <1>0, <1>3 DEF PType, CounterAdvance, SetSignCount, Enrolled, Enrollment
  <2>2. Moves(h, pending[h], s)
    BY <1>1, <1>2, <1>3 DEF Moves, AdvanceSignCount, User, Doing
  <2> QED BY <1>1, <1>2, <2>1, <2>2, MovesKeep DEF AdvanceSignCount, User, PType
<1>4. CASE Doing(h, Resting) /\ enrolled' = enrolled
  <2>1. Moves(h, pending[h], Resting)
    BY <1>1, <1>4, NothingHeld DEF Moves, AdvanceSignCount, User, Doing
  <2> QED BY <1>1, <1>4, <2>1, NothingHeld, MovesKeep DEF AdvanceSignCount, User, PType
<1> QED
  BY <1>3, <1>4 DEF AdvanceSignCount

LEMMA SettleKeeps ==
    ASSUME PType, Held, NEW h \in Hosts, Settle(h)
    PROVE  PType' /\ Held'
<1> DEFINE n == job[h].st.nonce
           p == [kind |-> "approved", via |-> n, old |-> FALSE]
<1>0. n \in Nat \ {0} /\ JobNonce(h) = n /\ n # SlotNonce(h)
  BY JobShape DEF Settle, Held
<1>1. CASE Set(h, p) /\ runs' = runs
  <2>1. p \in Slots /\ NonceOf(p) = JobNonce(h)
    BY <1>0 DEF Slots, NonceOf
  <2>2. Moves(h, p, Resting)
    BY <1>1, <2>1, NothingHeld DEF Moves, Settle, User, Doing, Set
  <2> QED BY <2>1, <2>2, NothingHeld, MovesKeep DEF Settle, User, PType
<1>2. CASE Ran(n) /\ pending' = pending
  <2>1. /\ pending[h] \in Slots /\ pending' = [pending EXCEPT ![h] = pending[h]]
        /\ NonceOf(pending[h]) = SlotNonce(h)
    BY <1>2, SlotShape DEF SlotNonce
  <2>2. Moves(h, pending[h], Resting)
    BY <1>0, <1>2, <2>1, NothingHeld DEF Moves, Settle, User, Doing
  <2> QED BY <2>1, <2>2, NothingHeld, MovesKeep DEF Settle, User, PType
<1> QED
  BY <1>1, <1>2 DEF Settle

LEMMA EnrollFinishKeeps ==
    ASSUME PType, Held, NEW h \in Hosts, NEW r \in responses, EnrollFinish(h, r)
    PROVE  PType' /\ Held'
<1> DEFINE p == pending[h]
           e == [label |-> LabelOf[h], count |-> r.count, root |-> p.authority = "first_use",
                 born |-> p.st.nonce]
<1>1. CASE p.kind = "enrollment" /\ Enroll(r.cred, e)
           /\ IF p.authority = "approved" THEN Ran(p.via) ELSE runs' = runs
  <2>1. e \in Enrollment
    BY <1>1, AnswerShape, SlotShape DEF Enrollment, Labels
  <2>2. enrolled' \in [Creds -> Enrollment \cup {None}]
    BY <1>1, <2>1, AnswerShape DEF PType, Enroll
  <2>3. job' = [job EXCEPT ![h] = Resting]
    BY JobShape DEF EnrollFinish, Ready
  <2>4. p.authority = "approved" => p.via = SlotNonce(h) /\ p.via # 0
    BY <1>1, SlotShape
  <2>5. Moves(h, Free, Resting)
    BY <1>1, <2>3, <2>4, NothingHeld DEF Moves, EnrollFinish, User, Set
  <2> QED BY <2>2, <2>5, NothingHeld, MovesKeep DEF EnrollFinish, User, PType
<1>2. CASE UNCHANGED <<enrolled, runs>>
  <2>1. Doing(h, Resting)
    BY JobShape DEF Doing, EnrollFinish, Ready
  <2> QED BY <1>2, <2>1, NothingHeld, TakeKeeps DEF EnrollFinish
<1> QED
  BY <1>1, <1>2 DEF EnrollFinish

LEMMA ForgetType ==
    ASSUME PType, NEW l, Forget(l)
    PROVE  enrolled' \in [Creds -> Enrollment \cup {None}]
BY DEF PType, Forget, RevokeBrowser

LEMMA BrowserRevokeKeeps ==
    ASSUME PType, Held, NEW h \in Hosts, BrowserRevoke(h)
    PROVE  PType' /\ Held'
<1>0. /\ job[h] \in Jobs /\ job' = [job EXCEPT ![h] = Resting]
  BY JobShape DEF BrowserRevoke, Ready
<1>1. CASE Forget(LabelOf[h]) /\ Set(h, Free)
  <2>1. Moves(h, Free, Resting)
    BY <1>0, <1>1, NothingHeld DEF Moves, BrowserRevoke, User, Set
  <2> QED BY <1>1, <2>1, ForgetType, NothingHeld, MovesKeep DEF BrowserRevoke, User, PType
<1>2. CASE UNCHANGED <<enrolled, pending>>
  BY <1>2, StillKeeps DEF BrowserRevoke, User, PType
<1> QED
  BY <1>1, <1>2 DEF BrowserRevoke

LEMMA CliRevokeKeeps ==
    ASSUME PType, Held, NEW l, CliRevoke(l)
    PROVE  PType' /\ Held'
BY ForgetType, StillKeeps DEF CliRevoke, User, PType

LEMMA ReconnectKeeps ==
    ASSUME PType, Held, NEW h \in Hosts, Reconnect(h)
    PROVE  PType' /\ Held'
<1>1. Moves(h, Free, Resting)
  BY NothingHeld DEF Moves, Reconnect, User, Set, Doing
<1> QED
  BY <1>1, NothingHeld, MovesKeep DEF Reconnect, User, PType

LEMMA NextKeeps ==
    ASSUME PType, Held, [Next]_vars
    PROVE  PType' /\ Held'
<1>1. CASE UNCHANGED vars
  BY <1>1, StillKeeps DEF vars, PType
<1>2. ASSUME NEW h \in Hosts,
             \/ EnrollBegin(h) \/ KillRelease(h) \/ PolicySet(h) \/ PolicyRollback(h) \/ ClientPair(h)
             \/ PresenceBegin(h) \/ ApprovalExpires(h) \/ Confirm(h)
      PROVE  PType' /\ Held'
  BY <1>2, EnrollBeginKeeps, GrantKeeps, PresenceBeginKeeps, ApprovalExpiresKeeps, ConfirmKeeps
     DEF KillRelease, PolicySet, PolicyRollback, ClientPair
<1>3. ASSUME NEW h \in Hosts, NEW c \in Creds, NEW f \in Flaws \cup {None},
             Tap(h, c, f) \/ \E n \in 0 .. ticks[c] : Create(h, c, n, f)
      PROVE  PType' /\ Held'
  BY <1>3, TapKeeps, CreateKeeps
<1>4. ASSUME NEW h \in Hosts, NEW r \in responses,
             PresenceAssert(h, r) \/ PresenceConfirm(h, r) \/ EnrollFinish(h, r)
      PROVE  PType' /\ Held'
  BY <1>4, PresenceAssertKeeps, PresenceConfirmKeeps, EnrollFinishKeeps
<1>5. ASSUME NEW h \in Hosts, AdvanceSignCount(h) \/ Settle(h) \/ BrowserRevoke(h) \/ Reconnect(h)
      PROVE  PType' /\ Held'
  BY <1>5, AdvanceKeeps, SettleKeeps, BrowserRevokeKeeps, ReconnectKeeps
<1>6. ASSUME NEW l \in Labels, CliRevoke(l)
      PROVE  PType' /\ Held'
  BY <1>6, CliRevokeKeeps
<1> QED
  BY <1>1, <1>2, <1>3, <1>4, <1>5, <1>6 DEF Next

LEMMA InitHeld == Init => Held
BY NothingHeld DEF Init, Held, SlotNonce, JobNonce, Nonces

\* A tap or a window vouches for one act only: the answer to a superseded request, an answer
\* delivered twice, and an approval that is spent or expired in its slot run nothing more, for any
\* number of hosts sharing the record.
THEOREM PresenceOneAct == Spec => []OneActPerAttestation
<1>1. Init => PType /\ Held
  BY InitType, InitHeld
<1>2. PType /\ Held /\ [Next]_vars => PType' /\ Held'
  BY NextKeeps
<1>3. PType /\ Held => OneActPerAttestation
  BY DEF Held, OneActPerAttestation
<1> QED
  BY <1>1, <1>2, <1>3, PTL DEF Spec

-----------------------------------------------------------------------------
(* Which ceremonies can still enroll.                                      *)

\* The nonce of the enrollment pending at h, 0 for none.
Enrolling(p)   == IF p.kind = "enrollment" THEN p.st.nonce ELSE 0
EnrollNonce(h) == Enrolling(pending[h])

\* The ceremonies the record's enrollments, and those a verified answer was verified against, come
\* from.
Advancing == {h \in Hosts : job[h].pc = "advance"}
Known     == {enrolled[c].born : c \in Enrolled} \cup {job[h].born : h \in Advancing}

\* A pending enrollment is at one host, and nothing known comes from it.
Fresh == /\ \A h \in Hosts : EnrollNonce(h) \in 0 .. minted
         /\ \A h, k \in Hosts : h # k /\ EnrollNonce(h) # 0 => EnrollNonce(h) # EnrollNonce(k)
         /\ Known \subseteq 1 .. minted
         /\ \A h \in Hosts : EnrollNonce(h) \notin Known

\* A verified answer whose credential's enrollment still stands is still admitted by its request's
\* rule.
Sworn == \A h \in Advancing :
            job[h].cred \in Enrolled /\ enrolled[job[h].cred].born = job[h].born =>
               job[h].cred \in Admitted(job[h].st)

\* A step of the hosts or the CLI that enrolls nothing new: it drops or keeps enrollments, or mints
\* one at host h.
LEMMA FreshKept ==
    ASSUME PType, PType', Fresh, NEW h \in Hosts, NEW p,
           pending' = [pending EXCEPT ![h] = p],
           \/ minted' = minted /\ Enrolling(p) \in {0, EnrollNonce(h)}
           \/ minted' = minted + 1 /\ Enrolling(p) \in {0, EnrollNonce(h), minted'},
           Known' \subseteq Known
    PROVE  Fresh'
<1>0. minted \in Nat /\ EnrollNonce(h) \in 0 .. minted
  BY DEF PType, Fresh
<1>1. EnrollNonce(h)' = Enrolling(p) /\ \A k \in Hosts \ {h} : EnrollNonce(k)' = EnrollNonce(k)
  BY DEF EnrollNonce, PType
<1>2. \A k \in Hosts : EnrollNonce(k)' \in 0 .. minted'
  BY <1>0, <1>1 DEF Fresh
<1>3. \A k, l \in Hosts : k # l /\ EnrollNonce(k)' # 0 => EnrollNonce(k)' # EnrollNonce(l)'
  BY <1>0, <1>1 DEF Fresh
<1>4. Known' \subseteq 1 .. minted'
  BY <1>0 DEF Fresh
<1>5. \A k \in Hosts : EnrollNonce(k)' \notin Known'
  BY <1>0, <1>1 DEF Fresh
<1> QED
  BY <1>2, <1>3, <1>4, <1>5 DEF Fresh

\* An advancing job is the one it was or admitted now, and the enrollment it was verified against
\* keeps its label while it stands.
LEMMA SwornKept ==
    ASSUME PType, PType', Sworn, LabelOf' = LabelOf,
           \A k \in Advancing' : \/ k \in Advancing /\ job'[k] = job[k]
                                 \/ (job[k].cred \in Admitted(job[k].st))',
           \A k \in Advancing : job[k].cred \in Enrolled' /\ enrolled'[job[k].cred].born = job[k].born =>
              /\ job[k].cred \in Enrolled /\ enrolled[job[k].cred].born = job[k].born
              /\ enrolled'[job[k].cred].label = enrolled[job[k].cred].label
    PROVE  Sworn'
<1> SUFFICES ASSUME NEW k \in Advancing', job'[k].cred \in Enrolled', enrolled'[job'[k].cred].born = job'[k].born
             PROVE  (job[k].cred \in Admitted(job[k].st))'
  BY DEF Sworn
<1>1. CASE k \in Advancing /\ job'[k] = job[k]
  <2>1. /\ job[k].cred \in Enrolled /\ enrolled[job[k].cred].born = job[k].born
        /\ enrolled'[job[k].cred].label = enrolled[job[k].cred].label
    BY <1>1
  <2>2. job[k].cred \in Admitted(job[k].st)
    BY <1>1, <2>1 DEF Sworn
  <2> QED BY <1>1, <2>1, <2>2 DEF Admitted, EnrolledAs
<1> QED BY <1>1

\* A step that leaves the record and the advancing jobs alone, or gives a job up.
LEMMA QuietKeeps ==
    ASSUME PType, PType', Fresh, Sworn, NEW h \in Hosts, NEW p, User,
           pending' = [pending EXCEPT ![h] = p], enrolled' = enrolled,
           \/ minted' = minted /\ Enrolling(p) \in {0, EnrollNonce(h)}
           \/ minted' = minted + 1 /\ Enrolling(p) \in {0, EnrollNonce(h), minted'},
           \A k \in Advancing' : k \in Advancing /\ job'[k] = job[k]
    PROVE  Fresh' /\ Sworn'
<1>1. Known' \subseteq Known
  BY DEF Known, Enrolled
<1>2. Fresh'
  BY <1>1, FreshKept DEF User
<1>3. Sworn'
  BY SwornKept DEF User, Enrolled
<1> QED BY <1>2, <1>3

-----------------------------------------------------------------------------
(* Fresh and Sworn, one lemma per kind of action.                          *)

\* The requests: a slot is emptied, aged, or holds the statement just minted.
LEMMA AsksFresh ==
    ASSUME PType, PType', Fresh, Sworn, NEW h \in Hosts,
           \/ EnrollBegin(h) \/ Grant(h) \/ PresenceBegin(h) \/ ApprovalExpires(h)
    PROVE  Fresh' /\ Sworn'
<1>0. /\ Asks /\ User /\ enrolled' = enrolled
      /\ \A k \in Advancing' : k \in Advancing /\ job'[k] = job[k]
  BY DEF EnrollBegin, Grant, PresenceBegin, ApprovalExpires, Asks, Advancing
<1> DEFINE Opens == \E p :
              /\ pending' = [pending EXCEPT ![h] = p]
              /\ \/ minted' = minted /\ Enrolling(p) \in {0, EnrollNonce(h)}
                 \/ minted' = minted + 1 /\ Enrolling(p) \in {0, EnrollNonce(h), minted'}
<1>1. Opens
  <2>1. ASSUME NEW a, AwaitPresence(h, a)
        PROVE  Opens
    <3>1. Enrolling(PresenceRequest(h, a)) = 0
      BY DEF Enrolling, PresenceRequest
    <3> QED BY <2>1, <3>1 DEF AwaitPresence, Mint, Set
  <2>2. ASSUME NEW a, NEW v, StartEnrollment(h, a, v)
        PROVE  Opens
    <3> DEFINE p == [kind |-> "enrollment", st |-> Statement("enrollment", h, "enroll"),
                     authority |-> a, via |-> v, exclude |-> EnrolledAs(LabelOf[h])]
    <3>1. minted' = minted + 1 /\ pending' = [pending EXCEPT ![h] = p]
      BY <2>2 DEF StartEnrollment, Mint, Set
    <3>2. Enrolling(p) = minted'
      BY <3>1 DEF Enrolling, Statement
    <3> QED BY <3>1, <3>2
  <2>3. CASE Set(h, Free) /\ minted' = minted
    <3>1. Enrolling(Free) = 0
      BY DEF Enrolling, Free
    <3> QED BY <2>3, <3>1 DEF Set
  <2>4. CASE UNCHANGED <<pending, minted>>
    BY <2>4, SlotShape DEF EnrollNonce
  <2>5. CASE ApprovalExpires(h)
    <3> DEFINE p == [pending[h] EXCEPT !.old = TRUE]
    <3>1. pending[h] \in [kind : {"approved"}, via : Nat \ {0}, old : BOOLEAN]
      BY <2>5, SlotShape DEF ApprovalExpires, Approved, Slots, Free
    <3>2. Enrolling(p) = 0
      BY <3>1 DEF Enrolling
    <3> QED BY <2>5, <3>2 DEF ApprovalExpires, Set
  <2> QED
    BY <2>1, <2>2, <2>3, <2>4, <2>5 DEF EnrollBegin, Grant, Refuse, PresenceBegin
<1>2. PICK p : /\ pending' = [pending EXCEPT ![h] = p]
               /\ \/ minted' = minted /\ Enrolling(p) \in {0, EnrollNonce(h)}
                  \/ minted' = minted + 1 /\ Enrolling(p) \in {0, EnrollNonce(h), minted'}
  BY <1>1
<1> QED
  BY <1>0, <1>2, QuietKeeps

\* The page answers: the record, the slots and the jobs stay as they are.
LEMMA PageFresh ==
    ASSUME Fresh, Sworn, UNCHANGED <<LabelOf, enrolled, pending, job, minted>>
    PROVE  Fresh' /\ Sworn'
<1>1. Known' = Known /\ Advancing' = Advancing /\ Enrolled' = Enrolled /\ \A k \in Hosts : EnrollNonce(k)' = EnrollNonce(k)
  BY DEF Known, Enrolled, Advancing, EnrollNonce
<1> QED BY <1>1 DEF Fresh, Sworn, Admitted, EnrolledAs

\* Steps of a host that take its slot or give its job up, the record as it was.
LEMMA GiveUpFresh ==
    ASSUME PType, PType', Fresh, Sworn, NEW h \in Hosts,
           \/ \E r \in responses : PresenceConfirm(h, r)
           \/ Settle(h) \/ Reconnect(h)
    PROVE  Fresh' /\ Sworn'
<1>0. /\ User /\ enrolled' = enrolled /\ minted' = minted
  BY DEF PresenceConfirm, Settle, Reconnect
<1>1. \E p : pending' = [pending EXCEPT ![h] = p] /\ Enrolling(p) \in {0, EnrollNonce(h)}
  <2>1. Enrolling(Free) = 0 /\ \A n : Enrolling([kind |-> "approved", via |-> n, old |-> FALSE]) = 0
    BY DEF Enrolling, Free
  <2>2. pending = [pending EXCEPT ![h] = pending[h]]
    BY SlotShape
  <2> QED BY <2>1, <2>2 DEF PresenceConfirm, Settle, Reconnect, Set, EnrollNonce
<1>2. \A k \in Advancing' : k \in Advancing /\ job'[k] = job[k]
  <2>1. job' = job \/ \E j : Doing(h, j) /\ j.pc # "advance"
    BY DEF PresenceConfirm, Settle, Reconnect, Settling, Resting
  <2> QED BY <2>1 DEF Advancing, Doing, PType
<1> QED
  BY <1>0, <1>1, <1>2, QuietKeeps

\* A verified answer names a credential enrolled, and admitted, as the record is read.
LEMMA PresenceAssertFresh ==
    ASSUME PType, PType', Fresh, Sworn, NEW h \in Hosts, NEW r \in responses, PresenceAssert(h, r)
    PROVE  Fresh' /\ Sworn'
<1> DEFINE j == [pc |-> "advance", st |-> pending[h].st, cred |-> r.cred, count |-> r.count,
                 born |-> enrolled[r.cred].born]
<1>0. User /\ enrolled' = enrolled /\ minted' = minted /\ pending' = [pending EXCEPT ![h] = Free]
  BY DEF PresenceAssert, Set
<1>1. Enrolling(Free) = 0
  BY DEF Enrolling, Free
<1>2. CASE job' = job
  <2>1. \A k \in Advancing' : k \in Advancing /\ job'[k] = job[k]
    BY <1>2 DEF Advancing
  <2> QED BY <1>0, <1>1, <2>1, QuietKeeps
<1>3. CASE Asserts(pending[h].st, r) /\ Doing(h, j)
  <2>1. r.cred \in Admitted(pending[h].st) /\ r.cred \in Enrolled
    BY <1>3 DEF Asserts, Admitted, EnrolledAs
  <2>2. job'[h] = j /\ \A k \in Hosts \ {h} : job'[k] = job[k]
    BY <1>3 DEF Doing, PType
  <2>3. Known' \subseteq Known
    BY <1>0, <2>1, <2>2 DEF Known, Advancing, Enrolled
  <2>4. Fresh'
    BY <1>0, <1>1, <2>3, FreshKept DEF User
  <2>5. Enrolled' = Enrolled
    BY <1>0 DEF Enrolled
  <2>6. (job[h].cred \in Admitted(job[h].st))'
    BY <1>0, <2>1, <2>2 DEF Admitted, EnrolledAs, Enrolled
  <2>7. \A k \in Advancing' : \/ k \in Advancing /\ job'[k] = job[k]
                              \/ (job[k].cred \in Admitted(job[k].st))'
    BY <2>2, <2>6 DEF Advancing
  <2>8. Sworn'
    BY <1>0, <2>5, <2>7, SwornKept DEF User
  <2> QED BY <2>4, <2>8
<1> QED BY <1>2, <1>3 DEF PresenceAssert

\* The record forgets enrollments, and keeps the others as they are.
LEMMA ForgetFresh ==
    ASSUME PType, PType', Fresh, Sworn, NEW l, Forget(l), NEW h \in Hosts, NEW p, User,
           minted' = minted, job' = job, pending' = [pending EXCEPT ![h] = p],
           Enrolling(p) \in {0, EnrollNonce(h)}
    PROVE  Fresh' /\ Sworn'
<1>1. \A c \in Enrolled' : c \in Enrolled /\ enrolled'[c] = enrolled[c]
  BY DEF Forget, RevokeBrowser, Enrolled, PType
<1>2. Known' \subseteq Known
  BY <1>1 DEF Known, Advancing
<1>3. Fresh'
  BY <1>2, FreshKept DEF User
<1>4. Sworn'
  BY <1>1, SwornKept DEF User, Advancing
<1> QED BY <1>3, <1>4

\* The counter moves, or nothing does, and the job is no longer advancing.
LEMMA AdvanceFresh ==
    ASSUME PType, PType', Fresh, Sworn, NEW h \in Hosts, AdvanceSignCount(h)
    PROVE  Fresh' /\ Sworn'
<1>0. User /\ minted' = minted /\ pending' = [pending EXCEPT ![h] = pending[h]]
  BY SlotShape DEF AdvanceSignCount
<1>1. job[h].cred \in Creds
  BY JobShape DEF AdvanceSignCount
<1>2. \A c \in Enrolled' : /\ c \in Enrolled /\ enrolled'[c].label = enrolled[c].label
                           /\ enrolled'[c].born = enrolled[c].born
  <2>1. CASE enrolled' = enrolled
    BY <2>1 DEF Enrolled
  <2>2. CASE CounterAdvance(job[h].cred, job[h].count) /\ SetSignCount(job[h].cred, job[h].count)
    BY <1>1, <2>2 DEF CounterAdvance, SetSignCount, Enrolled, PType, Enrollment
  <2> QED BY <2>1, <2>2 DEF AdvanceSignCount
<1>3. \A k \in Advancing' : k \in Advancing /\ job'[k] = job[k]
  <2>1. \E j : Doing(h, j) /\ j.pc # "advance"
    BY DEF AdvanceSignCount, Settling, Resting
  <2> QED BY <2>1 DEF Advancing, Doing, PType
<1>4. Known' \subseteq Known
  BY <1>2, <1>3 DEF Known
<1>5. Fresh'
  BY <1>0, <1>4, FreshKept DEF User, EnrollNonce
<1>6. Sworn'
  BY <1>0, <1>2, <1>3, SwornKept DEF User
<1> QED BY <1>5, <1>6

\* A ceremony enrolls once: what it writes is told from every enrollment a job was verified against.
LEMMA EnrollFinishFresh ==
    ASSUME PType, PType', Fresh, Sworn, NEW h \in Hosts, NEW r \in responses, EnrollFinish(h, r)
    PROVE  Fresh' /\ Sworn'
<1> DEFINE n == pending[h].st.nonce
           e == [label |-> LabelOf[h], count |-> r.count, root |-> pending[h].authority = "first_use",
                 born |-> n]
<1>0. /\ User /\ job' = job /\ minted' = minted /\ pending' = [pending EXCEPT ![h] = Free]
      /\ r.kind = "webauthn.create"
  BY DEF EnrollFinish, Set
<1>1. Enrolling(Free) = 0
  BY DEF Enrolling, Free
<1>2. CASE enrolled' = enrolled
  <2>1. \A k \in Advancing' : k \in Advancing /\ job'[k] = job[k]
    BY <1>0 DEF Advancing
  <2> QED BY <1>0, <1>1, <1>2, <2>1, QuietKeeps
<1>3. CASE pending[h].kind = "enrollment" /\ Enroll(r.cred, e)
  <2>1. n = EnrollNonce(h) /\ n \in 1 .. minted /\ n \notin Known /\ r.cred \in Creds
    BY <1>0, <1>3, SlotShape, AnswerShape DEF EnrollNonce, Enrolling, Fresh, PType
  <2>2. enrolled'[r.cred] = e /\ \A c \in Creds \ {r.cred} : enrolled'[c] = enrolled[c]
    BY <1>3, <2>1 DEF Enroll, PType
  <2>3. Known' \subseteq Known \cup {n}
    BY <1>0, <2>2 DEF Known, Enrolled, Advancing
  <2>4. EnrollNonce(h)' = 0 /\ \A k \in Hosts \ {h} : EnrollNonce(k)' = EnrollNonce(k)
    BY <1>0, <1>1 DEF EnrollNonce, PType
  <2>5. minted \in Nat
    BY DEF PType
  <2>6. \A k \in Hosts : EnrollNonce(k)' \notin Known'
    BY <2>1, <2>3, <2>4, <2>5 DEF Fresh
  <2>7. Fresh'
    <3>1. \A k \in Hosts : EnrollNonce(k)' \in 0 .. minted'
      BY <1>0, <2>4, <2>5 DEF Fresh
    <3>2. \A i, k \in Hosts : i # k /\ EnrollNonce(i)' # 0 => EnrollNonce(i)' # EnrollNonce(k)'
      BY <2>4 DEF Fresh
    <3>3. Known' \subseteq 1 .. minted'
      BY <1>0, <2>1, <2>3 DEF Fresh
    <3> QED BY <2>6, <3>1, <3>2, <3>3 DEF Fresh
  <2>8. \A k \in Advancing : job[k].born # n /\ job[k].cred \in Creds
    BY <2>1, JobShape DEF Known, Advancing
  <2>9. \A k \in Advancing : job[k].cred \in Enrolled' /\ enrolled'[job[k].cred].born = job[k].born =>
            /\ job[k].cred \in Enrolled /\ enrolled[job[k].cred].born = job[k].born
            /\ enrolled'[job[k].cred].label = enrolled[job[k].cred].label
    BY <2>2, <2>8 DEF Enrolled
  <2>10. Sworn'
    BY <1>0, <2>9, SwornKept DEF User, Advancing
  <2> QED BY <2>7, <2>10
<1> QED BY <1>2, <1>3 DEF EnrollFinish

LEMMA RevokeFresh ==
    ASSUME PType, PType', Fresh, Sworn, NEW h \in Hosts, BrowserRevoke(h)
    PROVE  Fresh' /\ Sworn'
<1>1. Enrolling(Free) = 0 /\ User /\ minted' = minted /\ job' = job
  BY DEF Enrolling, Free, BrowserRevoke
<1>2. CASE Forget(LabelOf[h]) /\ Set(h, Free)
  BY <1>1, <1>2, ForgetFresh DEF Set
<1>3. CASE UNCHANGED <<enrolled, pending>>
  <2>1. \A k \in Advancing' : k \in Advancing /\ job'[k] = job[k]
    BY <1>1 DEF Advancing
  <2>2. pending' = [pending EXCEPT ![h] = pending[h]] /\ Enrolling(pending[h]) = EnrollNonce(h)
    BY <1>3, SlotShape DEF EnrollNonce
  <2> QED BY <1>1, <1>3, <2>1, <2>2, QuietKeeps
<1> QED BY <1>2, <1>3 DEF BrowserRevoke

LEMMA CliRevokeFresh ==
    ASSUME PType, PType', Fresh, Sworn, NEW l \in Labels, CliRevoke(l)
    PROVE  Fresh' /\ Sworn'
<1>1. PICK h \in Hosts : l = LabelOf[h]
  BY DEF Labels
<1>2. pending' = [pending EXCEPT ![h] = pending[h]] /\ Enrolling(pending[h]) = EnrollNonce(h)
  BY SlotShape DEF EnrollNonce, CliRevoke
<1> QED
  BY <1>2, ForgetFresh DEF CliRevoke

PInv == PType /\ Held /\ Fresh /\ Sworn

LEMMA InitInv == Init => PInv
<1> SUFFICES ASSUME Init PROVE PInv
  OBVIOUS
<1>1. PType /\ Held
  BY InitType, InitHeld
<1>2. Enrolled = {} /\ Advancing = {} /\ Known = {}
  BY DEF Init, Enrolled, Advancing, Known, Resting
<1>3. \A h \in Hosts : EnrollNonce(h) = 0
  BY DEF Init, EnrollNonce, Enrolling, Free
<1>4. Fresh
  BY <1>2, <1>3 DEF Fresh, Init
<1>5. Sworn
  BY <1>2 DEF Sworn
<1> QED BY <1>1, <1>4, <1>5 DEF PInv

LEMMA NextInv ==
    ASSUME PInv, [Next]_vars
    PROVE  PInv'
<1> USE DEF PInv
<1>0. PType' /\ Held'
  BY NextKeeps
<1>1. CASE UNCHANGED vars
  BY <1>0, <1>1, PageFresh DEF vars
<1>2. ASSUME NEW h \in Hosts,
             \/ EnrollBegin(h) \/ KillRelease(h) \/ PolicySet(h) \/ PolicyRollback(h) \/ ClientPair(h)
             \/ PresenceBegin(h) \/ ApprovalExpires(h)
      PROVE  Fresh' /\ Sworn'
  BY <1>0, <1>2, AsksFresh DEF KillRelease, PolicySet, PolicyRollback, ClientPair
<1>3. ASSUME NEW h \in Hosts,
             \/ Confirm(h)
             \/ \E c \in Creds, f \in Flaws \cup {None} :
                   Tap(h, c, f) \/ \E n \in 0 .. ticks[c] : Create(h, c, n, f)
      PROVE  Fresh' /\ Sworn'
  BY <1>3, PageFresh DEF Confirm, Tap, Create, Respond
<1>4. ASSUME NEW h \in Hosts, NEW r \in responses,
             PresenceAssert(h, r) \/ PresenceConfirm(h, r) \/ EnrollFinish(h, r)
      PROVE  Fresh' /\ Sworn'
  <2>1. CASE PresenceAssert(h, r)
    BY <1>0, <2>1, PresenceAssertFresh
  <2>2. CASE PresenceConfirm(h, r)
    BY <1>0, <2>2, GiveUpFresh
  <2>3. CASE EnrollFinish(h, r)
    BY <1>0, <2>3, EnrollFinishFresh
  <2> QED BY <1>4, <2>1, <2>2, <2>3
<1>5. ASSUME NEW h \in Hosts, AdvanceSignCount(h) \/ Settle(h) \/ BrowserRevoke(h) \/ Reconnect(h)
      PROVE  Fresh' /\ Sworn'
  BY <1>0, <1>5, AdvanceFresh, GiveUpFresh, RevokeFresh
<1>6. ASSUME NEW l \in Labels, CliRevoke(l)
      PROVE  Fresh' /\ Sworn'
  BY <1>0, <1>6, CliRevokeFresh
<1> QED
  BY <1>0, <1>1, <1>2, <1>3, <1>4, <1>5, <1>6 DEF Next

LEMMA PresenceInv == Spec => []PInv
<1>1. Init => PInv
  BY InitInv
<1>2. PInv /\ [Next]_vars => PInv'
  BY NextInv
<1> QED BY <1>1, <1>2, PTL DEF Spec

\* How a step may change the record: it leaves it, forgets enrollments, moves a counter forward, or
\* enrolls a credential by a ceremony the record does not know, on first use only into an empty one.
LEMMA RecordStep ==
    ASSUME PInv, [Next]_vars
    PROVE  \/ enrolled' = enrolled
           \/ \E l : Forget(l)
           \/ \E h \in Hosts : /\ CounterAdvance(job[h].cred, job[h].count)
                               /\ job[h].pc = "advance" /\ SetSignCount(job[h].cred, job[h].count)
           \/ \E c \in Creds, e \in Enrollment :
                 /\ Enroll(c, e) /\ (e.root => Enrolled = {})
                 /\ \A d \in Enrolled : enrolled[d].born # e.born
<1> USE DEF PInv
<1>1. ASSUME NEW h \in Hosts, NEW r \in responses, EnrollFinish(h, r), enrolled' # enrolled
      PROVE  \E c \in Creds, e \in Enrollment : /\ Enroll(c, e) /\ (e.root => Enrolled = {})
                                                /\ \A d \in Enrolled : enrolled[d].born # e.born
  <2> DEFINE e == [label |-> LabelOf[h], count |-> r.count, root |-> pending[h].authority = "first_use",
                   born |-> pending[h].st.nonce]
  <2>1. /\ pending[h].kind = "enrollment" /\ RecordAllowed(pending[h].authority) /\ Enroll(r.cred, e)
    BY <1>1 DEF EnrollFinish
  <2>2. r.cred \in Creds
    BY <1>1, AnswerShape DEF EnrollFinish
  <2>3. e \in Enrollment /\ (e.root => Enrolled = {})
    BY <2>1, AnswerShape, SlotShape DEF Enrollment, Labels, RecordAllowed
  <2>4. \A d \in Enrolled : enrolled[d].born # e.born
    BY <2>1 DEF Fresh, Known, EnrollNonce, Enrolling
  <2> QED BY <2>1, <2>2, <2>3, <2>4
<1>2. ASSUME NEW h \in Hosts, AdvanceSignCount(h), enrolled' # enrolled
      PROVE  /\ CounterAdvance(job[h].cred, job[h].count)
             /\ job[h].pc = "advance" /\ SetSignCount(job[h].cred, job[h].count)
  BY <1>2 DEF AdvanceSignCount
<1>3. CASE enrolled' # enrolled
  <2>1. \/ \E h \in Hosts : (\E r \in responses : EnrollFinish(h, r)) \/ AdvanceSignCount(h)
        \/ \E l : Forget(l)
    BY <1>3 DEF Next, vars, EnrollBegin, KillRelease, PolicySet, PolicyRollback, ClientPair, Grant,
                PresenceBegin, ApprovalExpires, Asks, Confirm, Tap, Create, Respond, PresenceAssert,
                PresenceConfirm, Settle, BrowserRevoke, Reconnect, CliRevoke
  <2> QED BY <1>1, <1>2, <1>3, <2>1
<1> QED BY <1>3

-----------------------------------------------------------------------------
(* The theorems.                                                           *)

\* Every slot, job, enrollment and counter has its type, a statement only of a nonce already minted.
THEOREM PresenceTypes == Spec => []TypeOK
<1>1. PInv => TypeOK
  <2> SUFFICES ASSUME PInv PROVE TypeOK
    OBVIOUS
  <2> USE DEF PInv
  <2>1. \A c \in Enrolled : enrolled[c] \in [label : Labels, count : Nat, root : BOOLEAN, born : 1 .. minted]
    BY EnrolledType DEF Enrollment, Fresh, Known
  <2>2. ASSUME NEW h \in Hosts, pending[h].kind \in {"presence", "enrollment"}
        PROVE  pending[h].st \in Statements
    <3>1. pending[h].st.nonce \in 1 .. minted
      BY <2>2, SlotShape DEF Held, Fresh, EnrollNonce, Enrolling, PType
    <3>2. pending[h].st \in Stmts
      BY <2>2, SlotShape
    <3> QED BY <3>1, <3>2 DEF Stmts, Statements
  <2>3. ASSUME NEW h \in Hosts, pending[h].kind = "approved"
        PROVE  pending[h].via \in 1 .. minted
    BY <2>3, SlotShape DEF Held, PType
  <2>4. ASSUME NEW h \in Hosts, job[h].pc # "idle"
        PROVE  job[h].st \in Statements
    <3>1. job[h].st.nonce \in 1 .. minted
      BY <2>4, JobShape DEF Held, PType
    <3>2. job[h].st \in Stmts
      BY <2>4, JobShape
    <3> QED BY <3>1, <3>2 DEF Stmts, Statements
  <2> QED
    BY <2>1, <2>2, <2>3, <2>4, SlotShape, JobShape DEF TypeOK, PType
<1> QED BY <1>1, PresenceInv, PTL

\* Two hosts that both saw an empty record and both ran the first-use ceremony never both enroll a
\* root: the second write decides again under the lock, for any number of hosts.
THEOREM PresenceOneRoot == Spec => []OneRootOfTrust
<1>1. Init => OneRootOfTrust
  BY DEF Init, OneRootOfTrust, Enrolled
<1>2. PInv /\ OneRootOfTrust /\ [Next]_vars => OneRootOfTrust'
  <2> SUFFICES ASSUME PInv, OneRootOfTrust, [Next]_vars PROVE OneRootOfTrust'
    OBVIOUS
  <2>0. enrolled \in [Creds -> Enrollment \cup {None}]
    BY DEF PInv, PType
  <2>1. CASE enrolled' = enrolled
    BY <2>1 DEF OneRootOfTrust, Enrolled
  <2>2. ASSUME NEW l, Forget(l) PROVE OneRootOfTrust'
    BY <2>0, <2>2 DEF OneRootOfTrust, Enrolled, Forget, RevokeBrowser
  <2>3. ASSUME NEW h \in Hosts, job[h].pc = "advance", CounterAdvance(job[h].cred, job[h].count),
               SetSignCount(job[h].cred, job[h].count)
        PROVE  OneRootOfTrust'
    <3>1. \A c \in Enrolled' : c \in Enrolled /\ enrolled'[c].root = enrolled[c].root
      BY <2>0, <2>3, JobShape DEF PInv, CounterAdvance, SetSignCount, Enrolled, Enrollment
    <3> QED BY <3>1 DEF OneRootOfTrust
  <2>4. ASSUME NEW c \in Creds, NEW e \in Enrollment, Enroll(c, e), e.root => Enrolled = {}
        PROVE  OneRootOfTrust'
    <3>1. Enrolled' \subseteq Enrolled \cup {c} /\ enrolled'[c] = e
      BY <2>0, <2>4 DEF Enroll, Enrolled
    <3>2. \A d \in Enrolled \ {c} : enrolled'[d] = enrolled[d]
      BY <2>0, <2>4 DEF Enroll, Enrolled
    <3> QED BY <2>4, <3>1, <3>2 DEF OneRootOfTrust
  <2> QED BY <2>1, <2>2, <2>3, <2>4, RecordStep
<1> QED BY <1>1, <1>2, PresenceInv, PTL DEF Spec

\* The sign counter of an enrollment never moves back: two hosts may verify against the same stored
\* value and write in either order, answers arrive late and again, and only a ceremony that enrolls
\* the credential again, each ceremony once, sets the counter anew.
THEOREM PresenceCounter == Spec => CounterNeverBack
<1> DEFINE Onward == \A c \in Enrolled : enrolled'[c] # None /\ enrolled'[c].born = enrolled[c].born =>
                        enrolled'[c].count >= enrolled[c].count
<1>1. PInv /\ [Next]_vars => [Onward]_vars
  <2> SUFFICES ASSUME PInv, [Next]_vars PROVE Onward
    OBVIOUS
  <2>0. enrolled \in [Creds -> Enrollment \cup {None}]
    BY DEF PInv, PType
  <2>1. CASE enrolled' = enrolled
    BY <2>0, <2>1 DEF Enrolled, Enrollment
  <2>2. ASSUME NEW l, Forget(l) PROVE Onward
    BY <2>0, <2>2 DEF Enrolled, Forget, RevokeBrowser, Enrollment
  <2>3. ASSUME NEW h \in Hosts, job[h].pc = "advance", CounterAdvance(job[h].cred, job[h].count),
               SetSignCount(job[h].cred, job[h].count)
        PROVE  Onward
    BY <2>0, <2>3, JobShape DEF PInv, CounterAdvance, CounterAdvances, SetSignCount, Enrolled, Enrollment
  <2>4. ASSUME NEW c \in Creds, NEW e \in Enrollment, Enroll(c, e), \A d \in Enrolled : enrolled[d].born # e.born
        PROVE  Onward
    BY <2>0, <2>4 DEF Enroll, Enrolled, Enrollment
  <2> QED BY <2>1, <2>2, <2>3, <2>4, RecordStep
<1> QED BY <1>1, PresenceInv, PTL DEF Spec, CounterNeverBack

\* A window vouches only while the rule admits no credential, and a credential only while it is
\* enrolled and, unless a ceremony enrolled it again since it was verified, admitted by the rule: no
\* other enrollment or revocation between the request, the verification and the write lets another
\* browser's credential, or a window, stand in.
THEOREM PresenceVouched == Spec => VouchedByItsOwn
<1> DEFINE Own(h) == LET c  == job'[h].path
                         st == job'[h].st
                     IN IF c = "window" THEN Admitted(st) = {}
                        ELSE c \in Enrolled /\ (enrolled[c].born = job[h].born => c \in Admitted(st))
           Attests(h) == job[h].pc # "settle" /\ job'[h].pc = "settle"
<1>1. PInv /\ [Next]_vars => [\A h \in Hosts : Attests(h) => Own(h)]_vars
  <2> SUFFICES ASSUME PInv, [Next]_vars, NEW h \in Hosts, Attests(h)
               PROVE  Own(h)
    OBVIOUS
  <2>0. job \in [Hosts -> Jobs] /\ job' # job
    BY DEF PInv, PType
  <2>1. ASSUME NEW k \in Hosts, NEW j, Doing(k, j)
        PROVE  k = h /\ job'[h] = j /\ j.pc = "settle"
    BY <2>0, <2>1 DEF Doing
  <2>2. Resting.pc = "idle" /\ \A c, n, st, b : [pc |-> "advance", st |-> st, cred |-> c, count |-> n, born |-> b].pc # "settle"
    BY DEF Resting
  <2>3. ASSUME NEW k \in Hosts, NEW r \in responses, PresenceConfirm(k, r)
        PROVE  Own(h)
    <3>1. Doing(k, Settling(pending[k].st, "window")) /\ WindowVouches(pending[k].st)
      BY <2>0, <2>3 DEF PresenceConfirm
    <3>2. job'[h] = Settling(pending[k].st, "window")
      BY <2>1, <3>1
    <3> QED BY <3>1, <3>2 DEF Settling, WindowVouches
  <2>4. ASSUME NEW k \in Hosts, AdvanceSignCount(k)
        PROVE  Own(h)
    <3> DEFINE c == job[k].cred
    <3>1. Doing(k, Settling(job[k].st, c)) /\ CounterAdvance(c, job[k].count)
      BY <2>1, <2>2, <2>4 DEF AdvanceSignCount
    <3>2. k = h /\ job'[h] = Settling(job[k].st, c)
      BY <2>1, <3>1
    <3>3. c \in Enrolled /\ (enrolled[c].born = job[k].born => c \in Admitted(job[k].st))
      BY <2>4, <3>1 DEF PInv, Sworn, Advancing, AdvanceSignCount, CounterAdvance
    <3>4. c # "window"
      BY <3>1 DEF CounterAdvance, Enrolled
    <3> QED BY <3>2, <3>3, <3>4 DEF Settling
  <2>5. ASSUME NEW k \in Hosts, NEW r \in responses, PresenceAssert(k, r)
        PROVE  FALSE
    BY <2>0, <2>1, <2>2, <2>5 DEF PresenceAssert
  <2>6. ASSUME NEW k \in Hosts, Settle(k) \/ Reconnect(k)
        PROVE  FALSE
    BY <2>1, <2>2, <2>6 DEF Settle, Reconnect
  <2>7. \E k \in Hosts :    \/ \E r \in responses : PresenceConfirm(k, r) \/ PresenceAssert(k, r)
                            \/ AdvanceSignCount(k) \/ Settle(k) \/ Reconnect(k)
    BY <2>0 DEF Next, vars, EnrollBegin, KillRelease, PolicySet, PolicyRollback, ClientPair, Grant,
                PresenceBegin, ApprovalExpires, Asks, Confirm, Tap, Create, Respond, EnrollFinish,
                BrowserRevoke, CliRevoke
  <2> QED BY <2>3, <2>4, <2>5, <2>6, <2>7
<1> QED BY <1>1, PresenceInv, PTL DEF Spec, VouchedByItsOwn
=============================================================================
