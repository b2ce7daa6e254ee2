------------------------------ MODULE Presence ------------------------------
(***************************************************************************)
(* User presence for acts that grant capability (native_host/presence.rs,  *)
(* presence/request.rs, webauthn/*.rs).  Each browser's native host keeps  *)
(* one pending slot; all hosts and the CLI share the trust record's        *)
(* enrollments and sign counters.  A host reads the record without the     *)
(* lock, verifies, and decides again under the lock, so another host or    *)
(* the CLI may write in between; the page's answers arrive late, again, or *)
(* after a newer request superseded the one they were made for.            *)
(*                                                                         *)
(* A challenge is the statement it hashes, its nonce telling it from every *)
(* other; of the act it names only matters whether it is the browser's own *)
(* or an enrollment.  What a response's bytes say is a record, with the    *)
(* flaw, if any, that one of the verifier's checks finds.                  *)
(***************************************************************************)
EXTENDS Integers, FiniteSets

CONSTANTS Hosts,            \* the native hosts
          Fronts,           \* the ways they front browsers: functions from Hosts to labels
          Creds,            \* credentials, each with an id of its own
          Counting,         \* those whose authenticator keeps a sign counter
          None,
          Flaws,            \* the flaws a response may carry
          MaxStatements,    \* bound: statements minted
          MaxResponses,     \* bound: responses the user makes
          MaxRevokes,       \* bound: browsers forgotten
          MaxFaults         \* bound: failed reads and writes, expiries and reconnects

VARIABLES LabelOf,    \* LabelOf[h]: the browser host h fronts; one shared manifest labels two alike
          enrolled,   \* the trust record: enrolled[c] is None or c's enrollment; `root` and `born`
                      \* are history: enrolled on first use, and the nonce of its ceremony
          pending,    \* pending[h]: the exchange's one slot
          job,        \* job[h]: the answer host h is working on
          minted,     \* statements minted so far: the last nonce
          responses,  \* what the user and the authenticators answered, never consumed
          ticks,      \* ticks[c]: the authenticator's own counter
          runs,       \* runs[n]: acts run on the attestation for nonce n
          revokes, faults

vars == <<LabelOf, enrolled, pending, job, minted, responses, ticks, runs, revokes, faults>>

Labels == {LabelOf[h] : h \in Hosts}
Nonces == 1 .. MaxStatements

\* What a verifier's check may find wrong with a response, one name per check.
Refusals == {"bytes", "rp_id", "user_absent", "backup", "origin", "signature"}

ASSUME PresenceAssumption == /\ Counting \subseteq Creds /\ {None, "window"} \cap Creds = {}
                             /\ \A f \in Fronts : DOMAIN f = Hosts
                             /\ Flaws \subseteq Refusals
                             /\ {MaxStatements, MaxResponses, MaxRevokes, MaxFaults} \subseteq Nat

Free   == [kind |-> "none"]
Resting == [pc |-> "idle"]

Enrolled     == {c \in Creds : enrolled[c] # None}
EnrolledAs(l) == {c \in Enrolled : enrolled[c].label = l}

Init == /\ LabelOf \in Fronts
        /\ enrolled = [c \in Creds |-> None] /\ pending = [h \in Hosts |-> Free]
        /\ job = [h \in Hosts |-> Resting] /\ minted = 0 /\ responses = {}
        /\ ticks = [c \in Creds |-> 0] /\ runs = [n \in Nonces |-> 0]
        /\ revokes = 0 /\ faults = 0

Fault   == faults < MaxFaults /\ faults' = faults + 1
NoFault == faults' = faults
Set(h, p) == pending' = [pending EXCEPT ![h] = p]
User      == UNCHANGED <<LabelOf, responses, ticks>>
Ready(h)  == job[h].pc = "idle"

----------------------------------------------------------------------------
(* Statements and requests.                                                *)

Domains == {"presence", "enrollment"}

\* The acts a statement names: the browser's own ones (releasing the switch, a policy write, a
\* pairing, a page operation on an origin) and enrolling one more credential.
Acts == {"own", "enroll"}

Statement(domain, h, act) ==
    [domain |-> domain, label |-> LabelOf[h], act |-> act, nonce |-> minted + 1]

\* Answerers: the browser's own credentials, or any, for enrolling another one.
Admitted(st) == IF st.act = "enroll" THEN Enrolled ELSE EnrolledAs(st.label)

\* PresenceRequest::new: the hint is what the rule admits now, and never the check.
PresenceRequest(h, act) ==
    [kind |-> "presence", st |-> Statement("presence", h, act),
     hint |-> IF act = "enroll" THEN Enrolled ELSE EnrolledAs(LabelOf[h])]

Mint == minted < MaxStatements /\ minted' = minted + 1

AwaitPresence(h, act) == Mint /\ Set(h, PresenceRequest(h, act)) /\ NoFault

StartEnrollment(h, authority, via) ==
    /\ Mint /\ NoFault
    /\ Set(h, [kind |-> "enrollment", st |-> Statement("enrollment", h, "enroll"),
               authority |-> authority, via |-> via, exclude |-> EnrolledAs(LabelOf[h])])

\* A request the host refuses before it opens: an invalid or over-long field, a plan that needs no
\* tap, a record that does not read.
Refuse(h) == Set(h, Free) /\ minted' = minted /\ NoFault

Asks == UNCHANGED <<enrolled, job, runs, revokes>> /\ User

----------------------------------------------------------------------------
(* The enrollments in the trust record (trust.rs), written under its lock.  *)

\* An earlier enrollment of the same id is replaced, its label and its counter with it.
Enroll(c, e)      == enrolled' = [enrolled EXCEPT ![c] = e]
RevokeBrowser(l)  == enrolled' = [c \in Creds |-> IF c \in EnrolledAs(l) THEN None ELSE enrolled[c]]
SetSignCount(c, n) == enrolled' = [enrolled EXCEPT ![c].count = n]

\* A zero on both sides is an authenticator that does not count.
CounterAdvances(stored, received) == (stored = 0 /\ received = 0) \/ received > stored

\* Trust::counter_advance: still enrolled, and past the counter as stored now.
CounterAdvance(c, n) == c \in Enrolled /\ CounterAdvances(enrolled[c].count, n)

----------------------------------------------------------------------------
(* The requests (native_host/presence.rs).                                 *)

Approved(h) == pending[h].kind = "approved" /\ ~pending[h].old

\* enroll_begin takes the slot.  An empty machine enrolls on first use; a live approval is spent;
\* otherwise an enrolled authenticator is asked to approve.
EnrollBegin(h) ==
    /\ Ready(h) /\ Asks
    /\ \/ /\ Enrolled = {}
          /\ StartEnrollment(h, "first_use", None)
       \/ /\ Enrolled # {} /\ Approved(h)
          /\ StartEnrollment(h, "approved", pending[h].via)
       \/ /\ Enrolled # {} /\ ~Approved(h)
          /\ AwaitPresence(h, "enroll")
       \/ Fault /\ Set(h, Free) /\ minted' = minted

\* An act behind a tap clears whatever was outstanding before it opens its own request, or refuses.
Grant(h) == Ready(h) /\ Asks /\ (AwaitPresence(h, "own") \/ Refuse(h))

KillRelease(h)    == Grant(h)
PolicySet(h)      == Grant(h)
PolicyRollback(h) == Grant(h)
ClientPair(h)     == Grant(h)

\* presence_begin: refused before anything is pending, so an outstanding request stays as it was.
PresenceBegin(h) ==
    Ready(h) /\ Asks /\ (AwaitPresence(h, "own") \/ (Fault /\ UNCHANGED <<pending, minted>>))

\* APPROVAL_TTL passes over an approval nobody used.
ApprovalExpires(h) ==
    /\ Approved(h)
    /\ Set(h, [pending[h] EXCEPT !.old = TRUE])
    /\ Fault /\ Asks /\ minted' = minted

----------------------------------------------------------------------------
(* The page: what the user is shown, and what comes back.                  *)

Respond(r) == /\ Cardinality(responses) < MaxResponses
              /\ responses' = responses \cup {r}
              /\ NoFault /\ UNCHANGED <<LabelOf, enrolled, pending, job, minted, runs, revokes>>

\* The authenticator signs for a credential the request allows; a counting one counts every tap.
Tap(h, c, flaw) ==
    /\ pending[h].kind = "presence" /\ c \in pending[h].hint
    /\ ticks' = [ticks EXCEPT ![c] = IF c \in Counting THEN @ + 1 ELSE 0]
    /\ Respond([kind |-> "webauthn.get", to |-> h, challenge |-> pending[h].st, cred |-> c,
                count |-> ticks'[c], flaw |-> flaw])

\* The confirmation window, where the request allowed no credential; it names the request's nonce.
Confirm(h) ==
    /\ pending[h].kind = "presence" /\ pending[h].hint = {}
    /\ Respond([kind |-> "window", to |-> h, challenge |-> pending[h].st, cred |-> None,
                count |-> 0, flaw |-> None])
    /\ ticks' = ticks

\* The authenticator registers a credential, under an id that may be enrolled already, for this
\* browser or another one (a synced passkey, an authenticator set up again), at any count up to its
\* own.  The request's exclude list is the authenticator's to honour; no host checks it.
Create(h, c, n, flaw) ==
    /\ pending[h].kind = "enrollment"
    /\ Respond([kind |-> "webauthn.create", to |-> h, challenge |-> pending[h].st, cred |-> c,
                count |-> n, flaw |-> flaw])
    /\ ticks' = ticks

----------------------------------------------------------------------------
(* The verifier (webauthn/*.rs).                                           *)

\* AuthenticatorData::parse: length, reserved flags, extensions, the backup pair, trailing bytes.
ParsesAuthData(r) == r.flaw # "bytes"

\* client_data::check: the ceremony, the challenge and the pinned origin.
ClientDataCheck(r, want, st) == r.kind = want /\ r.challenge = st /\ r.flaw # "origin"

\* parse_registration: attestation "none" over sound data, by a present user.
ParseRegistration(st, r) == /\ ClientDataCheck(r, "webauthn.create", st)
                            /\ ParsesAuthData(r) /\ r.flaw \notin {"rp_id", "user_absent"}

VerifyAssertion(e, st, r) ==
    /\ ParsesAuthData(r) /\ r.flaw \notin {"rp_id", "user_absent", "backup"}
    /\ CounterAdvances(e.count, r.count)
    /\ ClientDataCheck(r, "webauthn.get", st)
    /\ r.flaw # "signature"

----------------------------------------------------------------------------
(* The answers.                                                            *)

\* PresenceRequest::assert: the id is enrolled, the rule admits it as enrolled now, and it verifies.
Asserts(st, r) == r.cred \in Admitted(st) /\ VerifyAssertion(enrolled[r.cred], st, r)

\* PresenceRequest::confirm_window: the rule admits no credential as enrolled now.
WindowVouches(st) == Admitted(st) = {}

\* An attestation: the request it closed and the path that vouched.
Settling(st, path) == [pc |-> "settle", st |-> st, path |-> path]
Doing(h, j) == job' = [job EXCEPT ![h] = j]

\* presence_assert takes the slot whatever is in it, and verifies against the record as read now.
PresenceAssert(h, r) ==
    LET p == pending[h]
        good == p.kind = "presence" /\ Asserts(p.st, r)
    IN /\ Ready(h) /\ r.to = h /\ r.kind # "window"
       /\ Set(h, Free)
       /\ \/ /\ good /\ NoFault
             /\ Doing(h, [pc |-> "advance", st |-> p.st, cred |-> r.cred, count |-> r.count,
                          born |-> enrolled[r.cred].born])
          \/ ~good /\ job' = job /\ NoFault
          \/ job' = job /\ Fault
       /\ User /\ UNCHANGED <<enrolled, minted, runs, revokes>>

\* Mutant: the counter is written as verified, without a second look under the lock.
MutAdvanceBlind(h) ==
    /\ job[h].pc = "advance"
    /\ IF job[h].cred \in Enrolled
       THEN /\ SetSignCount(job[h].cred, job[h].count)
            /\ Doing(h, Settling(job[h].st, job[h].cred))
       ELSE Doing(h, Resting) /\ enrolled' = enrolled
    /\ NoFault /\ User /\ UNCHANGED <<pending, minted, runs, revokes>>

\* advance_sign_count: decided again under the lock, and written before the attestation exists.
AdvanceSignCount(h) ==
    LET c == job[h].cred
        good == CounterAdvance(c, job[h].count)
    IN /\ job[h].pc = "advance"
       /\ \/ /\ good /\ NoFault
             /\ SetSignCount(c, job[h].count)
             /\ Doing(h, Settling(job[h].st, c))
          \/ ~good /\ NoFault /\ Doing(h, Resting) /\ enrolled' = enrolled
          \/ Fault /\ Doing(h, Resting) /\ enrolled' = enrolled
       /\ User /\ UNCHANGED <<pending, minted, runs, revokes>>

\* Mutant: the answered request stays in the slot.
MutConfirmKeeps(h, r) ==
    LET p == pending[h]
        good == p.kind = "presence" /\ r.challenge.nonce = p.st.nonce /\ WindowVouches(p.st)
    IN /\ Ready(h) /\ r.to = h /\ r.kind = "window" /\ good
       /\ Doing(h, Settling(p.st, "window")) /\ NoFault
       /\ User /\ UNCHANGED <<enrolled, pending, minted, runs, revokes>>

\* Mutant: the window is judged against the list the request was minted with.
MutConfirmByHint(h, r) ==
    LET p == pending[h] IN
    /\ Ready(h) /\ r.to = h /\ r.kind = "window"
    /\ Set(h, Free)
    /\ IF p.kind = "presence" /\ r.challenge.nonce = p.st.nonce /\ p.hint = {}
       THEN Doing(h, Settling(p.st, "window")) ELSE job' = job
    /\ NoFault /\ User /\ UNCHANGED <<enrolled, minted, runs, revokes>>

\* presence_confirm: the nonce names the request, and the rule admits no credential now.
PresenceConfirm(h, r) ==
    LET p == pending[h]
        good == p.kind = "presence" /\ r.challenge.nonce = p.st.nonce /\ WindowVouches(p.st)
    IN /\ Ready(h) /\ r.to = h /\ r.kind = "window"
       /\ Set(h, Free)
       /\ \/ good /\ Doing(h, Settling(p.st, "window")) /\ NoFault
          \/ ~good /\ job' = job /\ NoFault
          \/ job' = job /\ Fault
       /\ User /\ UNCHANGED <<enrolled, minted, runs, revokes>>

Ran(n) == runs' = [runs EXCEPT ![n] = @ + 1]

\* settle: the attestation is spent on the act its request was minted for; an enrollment's is held.
Settle(h) ==
    /\ job[h].pc = "settle" /\ Doing(h, Resting)
    /\ IF job[h].st.act = "enroll"
       THEN /\ Set(h, [kind |-> "approved", via |-> job[h].st.nonce, old |-> FALSE])
            /\ runs' = runs
       ELSE Ran(job[h].st.nonce) /\ pending' = pending
    /\ NoFault /\ User /\ UNCHANGED <<enrolled, minted, revokes>>

\* Mutant: an empty machine is not looked for again when the first credential is written.
MutRecordUnchecked(authority) == TRUE

\* webauthn::record, under the lock.
RecordAllowed(authority) == authority = "first_use" => Enrolled = {}

\* enroll_finish takes the slot and writes under the authority the ceremony began with.
EnrollFinish(h, r) ==
    LET p == pending[h]
        good == p.kind = "enrollment" /\ ParseRegistration(p.st, r) /\ RecordAllowed(p.authority)
    IN /\ Ready(h) /\ r.to = h /\ r.kind = "webauthn.create"
       /\ Set(h, Free)
       /\ \/ /\ good /\ NoFault
             /\ Enroll(r.cred, [label |-> LabelOf[h], count |-> r.count,
                                root |-> p.authority = "first_use", born |-> p.st.nonce])
             /\ IF p.authority = "approved" THEN Ran(p.via) ELSE runs' = runs
          \/ ~good /\ NoFault /\ UNCHANGED <<enrolled, runs>>
          \/ Fault /\ UNCHANGED <<enrolled, runs>>
       /\ User /\ UNCHANGED <<job, minted, revokes>>

----------------------------------------------------------------------------
(* Forgetting.                                                             *)

\* revoke_browser: the record forgets the label's credentials; with none there it writes nothing.
Forget(l) == EnrolledAs(l) # {} /\ RevokeBrowser(l)

\* browser_revoke: the slot is void once the record forgot this browser; a refusal leaves it.
BrowserRevoke(h) ==
    /\ Ready(h) /\ revokes < MaxRevokes /\ revokes' = revokes + 1
    /\ \/ Forget(LabelOf[h]) /\ Set(h, Free) /\ NoFault
       \/ /\ EnrolledAs(LabelOf[h]) = {} /\ NoFault /\ UNCHANGED <<enrolled, pending>>
       \/ Fault /\ UNCHANGED <<enrolled, pending>>
    /\ User /\ UNCHANGED <<job, minted, runs>>

\* revoke-browser on the CLI: the same write, and no slot of any host moves.
CliRevoke(l) ==
    /\ Forget(l) /\ revokes < MaxRevokes /\ revokes' = revokes + 1
    /\ NoFault /\ User /\ UNCHANGED <<pending, job, minted, runs>>

\* The browser reconnects: a new host process, with an empty slot.
Reconnect(h) ==
    /\ pending[h] # Free \/ ~Ready(h)
    /\ Set(h, Free) /\ Doing(h, Resting)
    /\ Fault /\ User /\ UNCHANGED <<enrolled, minted, runs, revokes>>

Next ==
    \/ \E h \in Hosts :
         \/ EnrollBegin(h) \/ KillRelease(h) \/ PolicySet(h) \/ PolicyRollback(h) \/ ClientPair(h)
         \/ PresenceBegin(h) \/ ApprovalExpires(h) \/ Confirm(h)
         \/ (\E c \in Creds, f \in Flaws \cup {None} :
               Tap(h, c, f) \/ \E n \in 0 .. ticks[c] : Create(h, c, n, f))
         \/ (\E r \in responses : PresenceAssert(h, r) \/ PresenceConfirm(h, r) \/ EnrollFinish(h, r))
         \/ AdvanceSignCount(h) \/ Settle(h) \/ BrowserRevoke(h) \/ Reconnect(h)
    \/ \E l \in Labels : CliRevoke(l)

Spec == Init /\ [][Next]_vars

----------------------------------------------------------------------------
(* Properties.                                                             *)

Statements == [domain : Domains, label : Labels, act : Acts, nonce : 1 .. minted]

TypeOK ==
    /\ \A c \in Enrolled : enrolled[c] \in [label : Labels, count : Nat, root : BOOLEAN, born : 1 .. minted]
    /\ \A h \in Hosts :
         /\ pending[h].kind \in {"none", "presence", "enrollment", "approved"}
         /\ pending[h].kind \in {"presence", "enrollment"} => pending[h].st \in Statements
         /\ pending[h].kind = "approved" => pending[h].via \in 1 .. minted
         /\ job[h].pc \in {"idle", "advance", "settle"}
         /\ job[h].pc # "idle" => job[h].st \in Statements
    /\ minted \in Nat /\ ticks \in [Creds -> Nat]
    /\ runs \in [Nonces -> Nat]

\* One attestation authorizes one act: no answer delivered twice, no superseded request and no
\* approval kept in its slot makes a tap or a window vouch for a second act or enrollment.
OneActPerAttestation == \A n \in Nonces : runs[n] <= 1

\* Two first-use ceremonies never both land: of the credentials enrolled at any time at most one
\* was trusted on first use, every other one was approved by an enrolled authenticator.
OneRootOfTrust ==
    \A c, d \in Enrolled : enrolled[c].root /\ enrolled[d].root => c = d

\* What vouches for an act: a window while the rule admits no credential, and a credential that is
\* enrolled when its counter is written, admitted by the rule unless a ceremony enrolled it again
\* since it was verified.  Whatever else was enrolled or forgotten between the request, its answer
\* and the write, an enrolled browser is never demoted.
VouchedByItsOwn ==
    [][\A h \in Hosts : job[h].pc # "settle" /\ job'[h].pc = "settle" =>
         LET c  == job'[h].path
             st == job'[h].st
         IN IF c = "window" THEN Admitted(st) = {}
            ELSE c \in Enrolled /\ (enrolled[c].born = job[h].born => c \in Admitted(st))]_vars

\* The sign counter of an enrollment never moves backwards, whichever of two hosts verified first
\* and wrote last: only a ceremony that enrolls the credential again, each ceremony once, sets it
\* anew.
CounterNeverBack ==
    [][\A c \in Enrolled : enrolled'[c] # None /\ enrolled'[c].born = enrolled[c].born =>
         enrolled'[c].count >= enrolled[c].count]_vars

=============================================================================
