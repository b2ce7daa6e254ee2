----------------------------- MODULE PolicyHost -----------------------------
(***************************************************************************)
(* The host's policy store and the two lanes that write it (policy/store.rs*)
(* and plan.rs), the host key that signs a grant and its disposal          *)
(* (enclave/key.rs, enclave/cli.rs), and the markers of the trust record   *)
(* the writes move (trust.rs).                                             *)
(*                                                                         *)
(* Every surface that edits the policy is a writer of its own process (a   *)
(* CLI run, a browser's native host): they share the files, the runtime    *)
(* lock and nothing else.  A step of a writer is one read, one write or    *)
(* one locked decision, so that the reads a grant takes before its prompt, *)
(* the prompt, and the steps of one lock hold interleave and crash apart.  *)
(***************************************************************************)
EXTENDS PolicyLattice, Sequences

CONSTANTS Writers,       \* processes that may write the policy
          Requests,      \* overlays a user asks for (policy set, policy restrict)
          GatedTools,    \* tools of the catalogue
          GrantsOf,      \* GrantsOf[t]: the grants tool t names itself
          DebuggerTools, \* those that need the debugger permission
          RingMax,       \* bound: entries under the ring's read cap
          MaxKeys,       \* bound: host keys ever minted
          MaxEpoch,      \* bound: completed disposals
          MaxWrites,     \* bound: store writes, restrictions and grants together
          MaxFaults      \* bound: faults in one run

VARIABLES store,      \* policy.json
          ring,       \* policy-history.json
          keyFile,    \* host_key.json: the key it holds, 0 for none
          keyCred,    \* the credential store's entry: a key, 0 for none
          keys,       \* keys minted so far: the next one is keys + 1
          hkEpoch,    \* trust record: host_key_epoch
          stamped,    \* trust record: policy_epoch moved since the store last changed
          lock,       \* the writer holding the runtime lock
          job,        \* job[w]: what writer w is doing
          writes,     \* store writes so far
          \* what the properties remember
          landed,     \* every baseline ever signed into the store, with its key
          lost        \* the kinds of fault that happened: see Faults

files == <<store, ring, keyFile, keyCred>>
trust == <<hkEpoch, stamped>>
aux   == <<landed, lost>>
vars  == <<files, keys, trust, lock, job, writes, aux>>

ASSUME HostAssumption == /\ "free" \notin Writers /\ "cdpMode" \in TrueFields
                         /\ \A o \in Requests : IsOverlay(o)
                         /\ RingMax \in Nat /\ MaxKeys \in Nat /\ MaxEpoch \in Nat /\ MaxWrites \in Nat
                         /\ MaxFaults \in Nat
                         /\ GrantsOf \in [GatedTools -> SUBSET TrueFields]
                         /\ DebuggerTools \subseteq GatedTools

\* A missed policy-epoch bump, a missed host-key-epoch bump, a baseline that could not be cleared,
\* a disposal or a file pairing the credential store did not answer while it held a key.
Faults == {"notice", "bump", "clear", "unanswered"}
Lose(kinds) == Cardinality(lost) < MaxFaults /\ lost' = lost \cup kinds
NoLock == "free"
Absent == [kind |-> "none"]
Idle   == [pc |-> "idle"]

----------------------------------------------------------------------------
(* Reading the files.  A record that does not load (oversized, a repeated  *)
(* key, off its ladder, not this schema) is "unreadable"; one whose        *)
(* baseline parses but whose overlay relaxes it is "tampered".             *)

Present(doc, key, overlay) == [kind |-> "ok", doc |-> doc, key |-> key, overlay |-> overlay]

Loads(s)       == s.kind # "unreadable"
HasBaseline(s) == s.kind \in {"ok", "tampered"}
Baseline(s)    == s.doc.values

\* The validating read: an error, never the relaxed values, when the overlay relaxes.
EffectiveReads(s) == s.kind = "ok"
Effective(s)      == Fold(Baseline(s), s.overlay)

\* The store as a plan reads it, by content.
Observation(s) == IF HasBaseline(s) THEN [over |-> "store", doc |-> s.doc, overlay |-> s.overlay]
                  ELSE [over |-> "none"]

\* Tool::required_grants: cdpMode is the master grant of every tool that needs the debugger.
RequiredGrants(t) == (IF t \in DebuggerTools THEN {"cdpMode"} ELSE {}) \cup GrantsOf[t]

\* gating::check, the gate of every tool call: no store at all allows, one that does not load or
\* whose overlay relaxes it denies, any other is asked for the grants and the deny list.
GateAllows(t, s) ==
    \/ s.kind = "none"
    \/ /\ EffectiveReads(s)
       /\ \A g \in RequiredGrants(t) : Effective(s)[g] = "on"
       /\ \A f \in ToolFields : t \notin Effective(s)[f]

\* A ring entry's state: the policy it held, published whole or not at all.
EntryEffective(e) == Fold(e.doc.values, e.overlay)

\* Mutant: the revision saturates at the JS-safe bound instead of being refused there.
MutRevisionSaturates(s) ==
    IF ~HasBaseline(s) THEN 1
    ELSE IF s.doc.revision = RevMax THEN RevMax ELSE s.doc.revision + 1

\* The revision one past the observed one; refused, not wrapped, at the bound.
NextRevision(s) == IF HasBaseline(s) THEN s.doc.revision + 1 ELSE 1

\* EnrollmentKey::lookup: the file's presence is the --file-store choice, so it wins.
HostKey == IF keyFile # 0 THEN keyFile ELSE keyCred

Init == /\ store = Absent /\ ring = <<>>
        /\ keyFile = 0 /\ keyCred = 0 /\ keys = 0
        /\ hkEpoch = 0 /\ stamped = TRUE
        /\ lock = NoLock /\ job = [w \in Writers |-> Idle] /\ writes = 0
        /\ landed = {} /\ lost = {}

Become(w, j) == job' = [job EXCEPT ![w] = j]
Done(w)      == Become(w, Idle)

----------------------------------------------------------------------------
(* Planning, before any prompt.                                            *)

\* plan_grant: the overlay folded over the current BASELINE, never the effective policy.
Grant(s, o) == [values |-> Fold(IF HasBaseline(s) THEN Baseline(s) ELSE DefaultValues, o),
                touched |-> TouchedFields(o)]

\* do_set: the plan of an overlay, bound to no store (prepare_grant observes it).
PlanGrant(w, o) ==
    /\ job[w].pc = "idle" /\ writes < MaxWrites
    /\ Loads(store)
    /\ LET g == Grant(store, o) IN
       Become(w, [pc |-> "epoch", values |-> g.values, touched |-> g.touched, hk |-> 0,
                  held |-> FALSE, over |-> Observation(Absent), target |-> DefaultValues])
    /\ UNCHANGED <<files, keys, trust, lock, writes, aux>>

\* find_history_effective refuses a revision the ring holds with differing policies.
Unambiguous(e) == \A i \in DOMAIN ring :
    ring[i].doc.revision = e.doc.revision => SameValues(EntryEffective(ring[i]), EntryEffective(e))

\* run_rollback: the three arms of the plan, the last two bound to the store it was made over.
RollbackJob(plan, over, target) ==
    CASE plan.arm = "no_change" -> [pc |-> "confirm", over |-> over]
      [] plan.arm = "tighten" -> [pc |-> "restrict", overlay |-> plan.overlay, held |-> TRUE,
                                  over |-> over, target |-> target]
      [] plan.arm = "relax" -> [pc |-> "epoch", values |-> plan.values, touched |-> plan.touched,
                                hk |-> 0, held |-> TRUE, over |-> over, target |-> target]

\* rollback_inputs: the ring and the store under one lock hold, then the plan.  byId names the
\* row by its content (the page, --entry); without it the revision must name one policy.
RollbackInputs(w, e, byId) ==
    /\ job[w].pc = "idle" /\ writes < MaxWrites
    /\ lock = NoLock
    /\ byId \/ Unambiguous(e)
    /\ EffectiveReads(store)
    /\ LET target == EntryEffective(e) IN
       Become(w, RollbackJob(PlanRollback(target, Effective(store), Baseline(store)),
                             Observation(store), target))
    /\ UNCHANGED <<files, keys, trust, lock, writes, aux>>

\* confirm_unmoved: "already there" is never reported over a store the plan never saw.
ConfirmUnmoved(w) ==
    /\ job[w].pc = "confirm" /\ lock = NoLock
    /\ Done(w)
    /\ UNCHANGED <<files, keys, trust, lock, writes, aux>>

\* prepare_grant, its first read: the host-key epoch, without the lock.
ReadHostKeyEpoch(w) ==
    /\ job[w].pc = "epoch"
    /\ Become(w, [job[w] EXCEPT !.pc = "prepare", !.hk = hkEpoch])
    /\ UNCHANGED <<files, keys, trust, lock, writes, aux>>

\* The document the key is to sign.
GrantDoc(j, s) == [revision |-> NextRevision(s), touched |-> j.touched, values |-> j.values]

\* The validity preconditions over the store as read now.
Grantable(j, s) ==
    LET base == IF HasBaseline(s) THEN Baseline(s) ELSE DefaultValues
        eff  == IF HasBaseline(s) THEN Effective(s) ELSE DefaultValues
        kept == IF HasBaseline(s) THEN RetainedOverlay(s.overlay, j.touched) ELSE NoOverlay
    IN /\ j.touched # {}
       /\ s.kind \in {"none", "ok"}
       /\ ValidDoc(GrantDoc(j, s))
       /\ \A f \in Fields \ j.touched : ~FieldDiffers(f, j.values, base)
       /\ RelaxesOnly(Fold(j.values, kept), eff, j.touched)

\* prepare_grant, the rest: the store read the user is shown, the document, a rollback's hold
\* to its plan, and the key.  Every refusal leaves the writer idle and the store untouched.
PrepareGrant(w) ==
    /\ job[w].pc = "prepare"
    /\ LET j == job[w] IN
          IF /\ Grantable(j, store)
             /\ j.held => Observation(store) = j.over
             /\ HostKey # 0
          THEN Become(w, [pc |-> "prompt", doc |-> GrantDoc(j, store), key |-> HostKey, hk |-> j.hk,
                          over |-> Observation(store), held |-> j.held, target |-> j.target])
          ELSE Done(w)
    /\ UNCHANGED <<files, keys, trust, lock, writes, aux>>

\* tty_confirm, or the tap: no terminal, another word, an end of input or a refusal drops the grant.
Declined(w) == Done(w)

\* The surface's presence prompt: attested, or refused for good.
Attest(w) ==
    /\ job[w].pc = "prompt"
    /\ \/ Become(w, [job[w] EXCEPT !.pc = "commit"])
       \/ Declined(w)
    /\ UNCHANGED <<files, keys, trust, lock, writes, aux>>

----------------------------------------------------------------------------
(* The locked writes.  The lock is held from the store write to the push.  *)

\* The store write common to both lanes.
Write(next) ==
    /\ store' = next
    /\ stamped' = FALSE
    /\ writes' = writes + 1

Land(w, j, kept) ==
    /\ Write(Present(j.doc, j.key, kept))
    /\ landed' = landed \cup {[key |-> j.key, doc |-> j.doc]}
    /\ lock' = w
    /\ Become(w, [pc |-> "bump", prev |-> store])

\* Mutant: the commit trusts the store it finds, not the one the user was shown.
MutCommitUnobserved(w) ==
    /\ job[w].pc = "commit" /\ lock = NoLock
    /\ LET j == job[w] IN
       IF hkEpoch = j.hk /\ Loads(store)
       THEN Land(w, j, IF HasBaseline(store) THEN RetainedOverlay(store.overlay, j.doc.touched)
                       ELSE NoOverlay)
       ELSE Done(w) /\ UNCHANGED <<store, stamped, writes, landed, lock>>
    /\ UNCHANGED <<ring, keyFile, keyCred, keys, hkEpoch, lost>>

\* Mutant: the commit does not compare the host-key epoch.
MutCommitAnyEpoch(w) ==
    /\ job[w].pc = "commit" /\ lock = NoLock
    /\ LET j == job[w] IN
       IF Loads(store) /\ Observation(store) = j.over
       THEN Land(w, j, IF HasBaseline(store) THEN RetainedOverlay(store.overlay, j.doc.touched)
                       ELSE NoOverlay)
       ELSE Done(w) /\ UNCHANGED <<store, stamped, writes, landed, lock>>
    /\ UNCHANGED <<ring, keyFile, keyCred, keys, hkEpoch, lost>>

\* write_baseline_locked: the observation guard, then the store write.
WriteBaseline(w) ==
    /\ job[w].pc = "commit" /\ lock = NoLock
    /\ LET j == job[w]
           kept == IF HasBaseline(store) THEN RetainedOverlay(store.overlay, j.doc.touched)
                   ELSE NoOverlay
       IN IF hkEpoch = j.hk /\ Loads(store) /\ Observation(store) = j.over
          THEN Land(w, j, kept)
          ELSE Done(w) /\ UNCHANGED <<store, stamped, writes, landed, lock>>
    /\ UNCHANGED <<ring, keyFile, keyCred, keys, hkEpoch, lost>>

\* Mutant: the merged overlay is not compared with the policy in force.
MutRestrictUnchecked(w, o) ==
    LET merged == MergeOverlay(store.overlay, o) IN
    IF EffectiveReads(store) /\ ValidOverlay(merged)
    THEN /\ Write(Present(store.doc, store.key, merged))
         /\ lock' = w
         /\ Become(w, [pc |-> "bump", prev |-> store])
    ELSE Done(w) /\ UNCHANGED <<store, stamped, writes, lock>>

\* restrict_locked over an overlay: the merged result must restrict or hold the current
\* effective policy.  A planned overlay lands only over the store it was planned over.
RestrictLocked(w, o) ==
    LET merged == MergeOverlay(store.overlay, o) IN
    IF /\ EffectiveReads(store)
       /\ ValidOverlay(merged)
       /\ RestrictsOrEqual(Fold(Baseline(store), merged), Effective(store))
    THEN /\ Write(Present(store.doc, store.key, merged))
         /\ lock' = w
         /\ Become(w, [pc |-> "bump", prev |-> store])
    ELSE Done(w) /\ UNCHANGED <<store, stamped, writes, lock>>

\* The free lane: no prompt, refused where there is no baseline to restrict.
Restrict(w, o) ==
    /\ job[w].pc = "idle" /\ writes < MaxWrites /\ lock = NoLock
    /\ store.kind = "ok"
    /\ RestrictLocked(w, o)
    /\ UNCHANGED <<ring, keyFile, keyCred, keys, hkEpoch, landed, lost>>

\* Mutant: the planned overlay lands over whatever store it finds.
MutPlanUnheld(w) ==
    /\ job[w].pc = "restrict" /\ lock = NoLock
    /\ IF EffectiveReads(store)
       THEN RestrictLocked(w, job[w].overlay)
       ELSE Done(w) /\ UNCHANGED <<store, stamped, writes, lock>>
    /\ UNCHANGED <<ring, keyFile, keyCred, keys, hkEpoch, landed, lost>>

\* restrict_planned: a tightening rollback.
RestrictPlanned(w) ==
    /\ job[w].pc = "restrict" /\ lock = NoLock
    /\ IF EffectiveReads(store) /\ Observation(store) = job[w].over
       THEN RestrictLocked(w, job[w].overlay)
       ELSE Done(w) /\ UNCHANGED <<store, stamped, writes, lock>>
    /\ UNCHANGED <<ring, keyFile, keyCred, keys, hkEpoch, landed, lost>>

\* bump_policy_epoch_locked: a change notice, not authority; a failure is logged and dropped.
BumpPolicyEpoch(w) ==
    /\ job[w].pc = "bump"
    /\ \/ stamped' = TRUE /\ lost' = lost
       \/ stamped' = stamped /\ Lose({"notice"})
    /\ Become(w, [job[w] EXCEPT !.pc = "push"])
    /\ UNCHANGED <<files, keys, hkEpoch, lock, writes, landed>>

\* Oldest entries go until the ring fits its read cap.
EvictToFit(r) == IF Len(r) > RingMax THEN SubSeq(r, Len(r) - RingMax + 1, Len(r)) ELSE r
Entry(s) == [doc |-> s.doc, key |-> s.key, overlay |-> s.overlay]

\* push_history_locked: a ring that does not load starts fresh, a failed write is dropped.
Pushed(prev) == IF HasBaseline(prev)
                THEN {EvictToFit(Append(ring, Entry(prev))), <<Entry(prev)>>, ring}
                ELSE {ring}

\* The tail of either write: the superseded record onto the ring, then the lock is released.
PushHistory(w) ==
    /\ job[w].pc = "push"
    /\ ring' \in Pushed(job[w].prev)
    /\ lock' = NoLock
    /\ Done(w)
    /\ UNCHANGED <<store, keyFile, keyCred, keys, trust, writes, aux>>

----------------------------------------------------------------------------
(* The host key.  Disposal and minting clear the baseline under the hold   *)
(* they change the key in.                                                 *)

\* EnrollmentKey::revoke: the file goes; the credential store's entry goes when it answers.
Revoke(w) ==
    /\ job[w].pc = "idle" /\ lock = NoLock /\ hkEpoch < MaxEpoch
    /\ keyFile # 0 \/ keyCred # 0
    /\ lock' = w
    /\ keyFile' = 0
    /\ \/ keyCred' = 0 /\ lost' = lost
       \/ keyCred # 0 /\ keyCred' = keyCred /\ Lose({"unanswered"})
    /\ Become(w, [pc |-> "clear", then |-> "dispose"])
    /\ UNCHANGED <<store, ring, keys, trust, writes, landed>>

\* The absence check of EnrollmentKey::mint, after the typed phrase: a key found in either
\* place refuses; a file pairing goes on past a credential store that does not answer.
MintCheck(w, place) ==
    /\ job[w].pc = "idle" /\ lock = NoLock /\ keys < MaxKeys
    /\ keyFile = 0
    /\ keyCred = 0 \/ place = "file"
    /\ lock' = w
    /\ IF keyCred # 0 THEN Lose({"unanswered"}) ELSE lost' = lost
    /\ Become(w, [pc |-> "clear", then |-> place])
    /\ UNCHANGED <<files, keys, trust, writes, landed>>

\* clear_baseline_locked, its first half: the superseded record goes onto the ring first.  A
\* store that does not load is left in place, logged.
ClearPush(w) ==
    /\ job[w].pc = "clear"
    /\ IF Loads(store)
       THEN ring' \in Pushed(store) /\ lost' = lost
       ELSE ring' = ring /\ lost' = lost \cup {"clear"}
    /\ Become(w, [job[w] EXCEPT !.pc = IF HasBaseline(store) THEN "remove" ELSE "rekey"])
    /\ UNCHANGED <<store, keyFile, keyCred, keys, trust, lock, writes, landed>>

\* The second half: the store file is removed (or cannot be), then the policy epoch moves.
ClearRemove(w) ==
    /\ job[w].pc = "remove"
    /\ \/ store' = Absent /\ lost' = lost /\ stamped' = TRUE
       \/ store' = Absent /\ Lose({"notice"}) /\ stamped' = FALSE
       \/ store' = store /\ Lose({"clear"}) /\ stamped' = stamped
    /\ Become(w, [job[w] EXCEPT !.pc = "rekey"])
    /\ UNCHANGED <<ring, keyFile, keyCred, keys, hkEpoch, lock, writes, landed>>

\* dispose_locked's last step: the host-key epoch, or the failure that only loses the notice.
BumpHostKeyEpoch(w) ==
    /\ job[w].pc = "rekey" /\ job[w].then = "dispose"
    /\ \/ hkEpoch' = hkEpoch + 1 /\ lost' = lost
       \/ hkEpoch' = hkEpoch /\ Lose({"bump"})
    /\ lock' = NoLock
    /\ Done(w)
    /\ UNCHANGED <<files, keys, stamped, writes, landed>>

\* mint's last step: a fresh key into the place the user asked for.
MintKey(w) ==
    /\ job[w].pc = "rekey" /\ job[w].then \in {"file", "cred"}
    /\ keys' = keys + 1
    /\ IF job[w].then = "file" THEN keyFile' = keys' /\ keyCred' = keyCred
                               ELSE keyCred' = keys' /\ keyFile' = keyFile
    /\ lock' = NoLock
    /\ Done(w)
    /\ UNCHANGED <<store, ring, trust, writes, aux>>

----------------------------------------------------------------------------
(* Faults.                                                                 *)

\* A writer dies: the lock it held is released, a disposal's remaining steps never run.
Crash(w) ==
    /\ job[w].pc # "idle"
    /\ Done(w)
    /\ lock' = IF lock = w THEN NoLock ELSE lock
    /\ Lose(CASE job[w].pc = "bump" -> {"notice"}
              [] job[w].pc \in {"clear", "remove", "rekey"} -> {"notice", "bump", "clear"}
              [] OTHER -> {})
    /\ UNCHANGED <<files, keys, trust, writes, landed>>

\* The file is damaged behind the host's back: it stops loading, or its overlay relaxes it.
Damage ==
    /\ store.kind = "ok"
    /\ \E k \in {"unreadable", "tampered"} : store' = [store EXCEPT !.kind = k]
    /\ UNCHANGED <<ring, keyFile, keyCred, keys, trust, lock, job, writes, aux>>

Next ==
    \/ \E w \in Writers :
         \/ \E o \in Requests : PlanGrant(w, o) \/ Restrict(w, o)
         \/ \E i \in DOMAIN ring, byId \in BOOLEAN : RollbackInputs(w, ring[i], byId)
         \/ ConfirmUnmoved(w) \/ ReadHostKeyEpoch(w) \/ PrepareGrant(w) \/ Attest(w)
         \/ WriteBaseline(w) \/ RestrictPlanned(w) \/ BumpPolicyEpoch(w) \/ PushHistory(w)
         \/ Revoke(w) \/ (\E p \in {"file", "cred"} : MintCheck(w, p))
         \/ ClearPush(w) \/ ClearRemove(w) \/ BumpHostKeyEpoch(w) \/ MintKey(w)
         \/ Crash(w)
    \/ Damage

Spec == Init /\ [][Next]_vars

----------------------------------------------------------------------------
(* Properties.                                                             *)

TypeOK ==
    /\ store.kind \in {"none", "ok", "tampered", "unreadable"}
    /\ store.kind # "none" => IsDoc(store.doc) /\ store.key \in 1 .. keys /\ IsOverlay(store.overlay)
    /\ Len(ring) <= RingMax
    /\ {keyFile, keyCred} \subseteq 0 .. keys /\ hkEpoch \in Nat
    /\ lock \in Writers \cup {NoLock}
    /\ lost \subseteq Faults

\* The store a reader finds never relaxes its own signed baseline, whatever grants and
\* restrictions were interleaved: a grant keeps the overlay entries on fields it does not touch
\* and carries their baseline unchanged, so no write can leave effective() refusing its own file.
StoreSound == store.kind = "ok" => RestrictsOrEqual(Effective(store), Baseline(store))

\* The effective policy the machine enforces, the deny baseline where there is no store.
InForce(s) == IF HasBaseline(s) THEN Effective(s) ELSE DefaultValues

\* The landing of an attested grant over the store it was prepared over.
GrantLands(w) == /\ job[w].pc = "commit" /\ job[w].over = Observation(store)
                 /\ HasBaseline(store') /\ store'.doc = job[w].doc

\* A capability is granted by a tap on exactly that field and over exactly the store the user was
\* shown: a step that relaxes the enforced policy on a field is the landing of an attested grant
\* naming the field, prepared over the store it replaces; and a tool the gate refused passes it
\* again only by such a landing, or because the baseline went with its key and no policy is left.
NoRelaxWithoutTap ==
    [][/\ \A f \in Fields :
            store'.kind = "ok" /\ FieldRelaxes(f, InForce(store'), InForce(store)) =>
               \E w \in Writers : GrantLands(w) /\ f \in job[w].doc.touched
       /\ \A t \in GatedTools :
            GateAllows(t, store') /\ ~GateAllows(t, store) =>
               \E w \in Writers : GrantLands(w) \/ (job[w].pc = "remove" /\ store'.kind = "none")]_vars

\* A rollback that lands, lands its target: whether it tightens (a fresh overlay) or relaxes (a
\* fresh signed baseline), the policy in force right after the write is the past one the user
\* chose, however long the prompt took and whatever other surfaces wrote meanwhile.
RollbackExact ==
    [][\A w \in Writers :
         /\ job[w].pc \in {"commit", "restrict"} /\ job[w].held
         /\ job'[w].pc = "bump"
         => SameValues(Effective(store'), job[w].target)]_vars

\* Two different baselines never share a revision under one key (the extension's ratchet refuses
\* the second for good).  The exceptions are named: a disposal the credential store did not answer
\* clears the baseline and leaves the key, and one that missed its epoch bump lets a prompt that
\* outlived it land under the dead key; in both the count starts over.
RevisionUnique == {"unanswered", "bump"} \cap lost = {} =>
    \A a, b \in landed : a.key = b.key /\ a.doc.revision = b.doc.revision => a = b

\* A baseline signed by a dead key is never the current one on a paired machine: with no disposal
\* cut short (its epoch bump and its clear done, the credential store answering), the store found
\* with the lock free and a host key present is signed by that key.
NoDeadKeyBaseline ==
    lock = NoLock /\ HostKey # 0 /\ store.kind = "ok" /\ lost = {} => store.key = HostKey

=============================================================================
