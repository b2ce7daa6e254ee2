-------------------------- MODULE PolicyHostProofs --------------------------
(***************************************************************************)
(* What PolicyHost promises, for any catalogue, any set of writers and     *)
(* requests, and any bounds.                                               *)
(*                                                                         *)
(* The order of the policies first: it is transitive on typed values, and  *)
(* the overlay operators act on it field by field.  Then three invariants. *)
(* Typed: every record has its shape.  Planned: what a job carries was     *)
(* computed over the store it observed, so that a write that finds the     *)
(* same content is as good as one decided then.  Keyed: the lock covers a  *)
(* disposal, and a signature waiting for its tap is by the key in place,   *)
(* or the host-key epoch has moved, unless a named fault lost the notice.  *)
(***************************************************************************)
EXTENDS PolicyHost, TLAPS

USE CatalogueAssumption, HostAssumption

----------------------------------------------------------------------------
(* The lattice.                                                            *)

AnyValue == {"on", "off"} \cup Ms \cup SUBSET Tools
Policies == {v \in [Fields -> AnyValue] : \A f \in Fields : v[f] \in Value(f)}
Overlays == {o \in UNION {[D -> AnyValue] : D \in SUBSET Fields} : \A f \in DOMAIN o : o[f] \in Value(f)}

LEMMA ValueAny == \A f \in Fields : Value(f) \subseteq AnyValue
BY DEF Value, AnyValue, Fields

LEMMA OverlayTyped ==
    ASSUME NEW o, IsOverlay(o)
    PROVE  o \in Overlays
<1>1. DOMAIN o \in SUBSET Fields /\ \A f \in DOMAIN o : o[f] \in Value(f)
  BY DEF IsOverlay
<1>2. o \in [DOMAIN o -> AnyValue]
  BY <1>1, ValueAny DEF IsOverlay
<1> QED BY <1>1, <1>2 DEF Overlays

LEMMA OverlayShape ==
    ASSUME NEW o \in Overlays
    PROVE  DOMAIN o \subseteq Fields /\ \A f \in DOMAIN o : o[f] \in Value(f)
BY DEF Overlays

\* Building an overlay: any function on fields with fitting values.
LEMMA OverlayBuilt ==
    ASSUME NEW D, D \subseteq Fields, NEW o, DOMAIN o = D, o \in [D -> AnyValue],
           \A f \in D : o[f] \in Value(f)
    PROVE  o \in Overlays
BY DEF Overlays

LEMMA NoOverlayTyped == NoOverlay \in Overlays
<1>1. NoOverlay \in [{} -> AnyValue] /\ DOMAIN NoOverlay = {}
  BY DEF NoOverlay
<1> QED BY <1>1 DEF Overlays

LEMMA DefaultTyped == DefaultValues \in Policies
<1>1. \A f \in Fields : DefaultValues[f] \in Value(f)
  BY DEF DefaultValues, Value, Fields, BoolFields, MsFields, Ms
<1>2. DefaultValues \in [Fields -> AnyValue]
  BY <1>1, ValueAny DEF DefaultValues
<1> QED BY <1>1, <1>2 DEF Policies

LEMMA FoldTyped ==
    ASSUME NEW v \in Policies, NEW o \in Overlays
    PROVE  Fold(v, o) \in Policies
<1>1. \A f \in Fields : (IF f \in DOMAIN o THEN o[f] ELSE v[f]) \in Value(f)
  BY OverlayShape DEF Policies
<1>2. Fold(v, o) \in [Fields -> AnyValue]
  BY <1>1, ValueAny DEF Fold
<1> QED BY <1>1, <1>2 DEF Policies, Fold

LEMMA RetainedTyped ==
    ASSUME NEW o \in Overlays, NEW T
    PROVE  RetainedOverlay(o, T) \in Overlays
<1>1. \A f \in DOMAIN o \ T : f \in Fields /\ o[f] \in Value(f) /\ o[f] \in AnyValue
  BY OverlayShape, ValueAny
<1>2. /\ RetainedOverlay(o, T) \in [DOMAIN o \ T -> AnyValue]
      /\ DOMAIN RetainedOverlay(o, T) = DOMAIN o \ T
      /\ \A f \in DOMAIN o \ T : RetainedOverlay(o, T)[f] \in Value(f)
  BY <1>1 DEF RetainedOverlay
<1>3. DOMAIN o \ T \subseteq Fields
  BY <1>1
<1> QED BY <1>2, <1>3, OverlayBuilt

LEMMA MergedTyped ==
    ASSUME NEW o \in Overlays, NEW p \in Overlays
    PROVE  MergeOverlay(o, p) \in Overlays
<1> DEFINE D == DOMAIN o \cup DOMAIN p
           m == MergeOverlay(o, p)
<1>1. D \subseteq Fields
  BY OverlayShape
<1>2. \A f \in D : (IF f \in DOMAIN p THEN p[f] ELSE o[f]) \in Value(f)
  BY OverlayShape
<1>3. DOMAIN m = D /\ \A f \in D : m[f] = IF f \in DOMAIN p THEN p[f] ELSE o[f]
  BY DEF MergeOverlay
<1>4. m \in [D -> AnyValue] /\ \A f \in D : m[f] \in Value(f)
  BY <1>1, <1>2, <1>3, ValueAny DEF MergeOverlay
<1> QED BY <1>1, <1>3, <1>4, OverlayBuilt

LEMMA DiffTyped ==
    ASSUME NEW t \in Policies, NEW c
    PROVE  DiffOverlay(t, c) \in Overlays
<1> DEFINE D == DiffFields(t, c)
           m == DiffOverlay(t, c)
<1>1. D \subseteq Fields
  BY DEF DiffFields
<1>2. DOMAIN m = D /\ \A f \in D : m[f] = t[f]
  BY DEF DiffOverlay
<1>3. m \in [D -> AnyValue] /\ \A f \in D : m[f] \in Value(f)
  BY <1>1, <1>2, ValueAny DEF DiffOverlay, Policies
<1> QED BY <1>1, <1>2, <1>3, OverlayBuilt

LEMMA RelaxedTyped ==
    ASSUME NEW t \in Policies, NEW c, NEW b \in Policies
    PROVE  RelaxedBaseline(t, c, b) \in Policies
<1>1. \A f \in Fields : t[f] \in Value(f) /\ b[f] \in Value(f)
  BY DEF Policies
<1>2. RelaxedBaseline(t, c, b) \in [Fields -> AnyValue]
  BY <1>1, ValueAny DEF RelaxedBaseline
<1> QED BY <1>1, <1>2 DEF Policies, RelaxedBaseline

\* No field relaxes itself: the comparison is strict on every kind of field.
LEMMA FieldStrict ==
    ASSUME NEW f \in Fields, NEW a, NEW b, a[f] = b[f], a[f] \in Value(f)
    PROVE  ~FieldRelaxes(f, a, b)
BY DEF FieldRelaxes, Value, ZeroTopRank, Fields, BoolFields, MsFields, Ms

\* "Not more permissive" is transitive, field by field.
LEMMA FieldTransitive ==
    ASSUME NEW f \in Fields, NEW a \in Policies, NEW b \in Policies, NEW c \in Policies,
           ~FieldRelaxes(f, a, b), ~FieldRelaxes(f, b, c)
    PROVE  ~FieldRelaxes(f, a, c)
<1>1. a[f] \in Value(f) /\ b[f] \in Value(f) /\ c[f] \in Value(f)
  BY DEF Policies
<1> QED
  BY <1>1 DEF FieldRelaxes, Value, ZeroTopRank, Fields, BoolFields, MsFields, Ms

\* The comparison looks at the field it is about, and at nothing else.
LEMMA FieldLocal ==
    ASSUME NEW f \in Fields, NEW a, NEW b, NEW c, NEW d, a[f] = c[f], b[f] = d[f]
    PROVE  FieldRelaxes(f, a, b) <=> FieldRelaxes(f, c, d)
BY DEF FieldRelaxes

LEMMA RestrictsTransitive ==
    ASSUME NEW a \in Policies, NEW b \in Policies, NEW c \in Policies,
           RestrictsOrEqual(a, b), RestrictsOrEqual(b, c)
    PROVE  RestrictsOrEqual(a, c)
BY FieldTransitive DEF RestrictsOrEqual, Relaxes

----------------------------------------------------------------------------
(* Types.                                                                  *)

Docs    == [revision : Nat, touched : SUBSET Fields, values : Policies]
Entries == [doc : Docs, key : Nat, overlay : Overlays]
Stored  == [kind : {"ok", "tampered", "unreadable"}, doc : Docs, key : Nat, overlay : Overlays]
Stores  == {Absent} \cup Stored
Seen    == {[over |-> "none"]} \cup [over : {"store"}, doc : Docs, overlay : Overlays]

Planning  == [pc : {"epoch", "prepare"}, values : Policies, touched : SUBSET Fields, hk : Nat,
              held : BOOLEAN, over : Seen, target : Policies]
Prompting == [pc : {"prompt", "commit"}, doc : Docs, key : Nat, hk : Nat, over : Seen,
              held : BOOLEAN, target : Policies]
Tightening == [pc : {"restrict"}, overlay : Overlays, held : BOOLEAN, over : Seen, target : Policies]
Confirming == [pc : {"confirm"}, over : Seen]
Wrapping   == [pc : {"bump", "push"}, prev : Stores]
Rekeying   == [pc : {"clear", "remove", "rekey"}, then : {"dispose", "file", "cred"}]
Jobs == {Idle} \cup Planning \cup Prompting \cup Tightening \cup Confirming \cup Wrapping \cup Rekeying

Typed == /\ store \in Stores /\ ring \in Seq(Entries) /\ job \in [Writers -> Jobs]
         /\ keys \in Nat /\ keyFile \in 0 .. keys /\ keyCred \in 0 .. keys
         /\ hkEpoch \in Nat /\ lock \in Writers \cup {NoLock}
         /\ landed \subseteq [key : Nat, doc : Docs]

\* What a job is, by its phase.
LEMMA JobShape ==
    ASSUME NEW j \in Jobs
    PROVE  /\ j.pc = "idle" => j = Idle
           /\ j.pc \in {"epoch", "prepare"} => j \in Planning
           /\ j.pc \in {"prompt", "commit"} => j \in Prompting
           /\ j.pc = "restrict" => j \in Tightening
           /\ j.pc = "confirm" => j \in Confirming
           /\ j.pc \in {"bump", "push"} => j \in Wrapping
           /\ j.pc \in {"clear", "remove", "rekey"} => j \in Rekeying
BY DEF Jobs, Idle, Planning, Prompting, Tightening, Confirming, Wrapping, Rekeying

LEMMA JobBuilt == /\ Idle \in Jobs /\ Planning \subseteq Jobs /\ Prompting \subseteq Jobs
                  /\ Tightening \subseteq Jobs /\ Confirming \subseteq Jobs
                  /\ Wrapping \subseteq Jobs /\ Rekeying \subseteq Jobs
BY DEF Jobs

LEMMA IdlePc == Idle.pc = "idle" /\ Absent.kind = "none" /\ Absent \in Stores
BY DEF Idle, Absent, Stores

LEMMA StoreShape ==
    ASSUME NEW s \in Stores
    PROVE  /\ s.kind \in {"none", "ok", "tampered", "unreadable"}
           /\ s.kind = "none" => s = Absent
           /\ s.kind # "none" => s \in Stored
           /\ s.kind # "none" => /\ s.doc \in Docs /\ s.key \in Nat /\ s.overlay \in Overlays
                                 /\ s.doc.values \in Policies /\ s.doc.revision \in Nat
                                 /\ s.doc.touched \subseteq Fields
BY DEF Stores, Absent, Stored, Docs

LEMMA BaselineStored ==
    ASSUME NEW s \in Stores, HasBaseline(s)
    PROVE  /\ s.kind # "none" /\ s \in Stored /\ s.overlay \in Overlays /\ s.doc \in Docs
           /\ Baseline(s) \in Policies /\ Effective(s) \in Policies
BY StoreShape, FoldTyped DEF HasBaseline, Baseline, Effective

LEMMA SeenTyped ==
    ASSUME NEW s \in Stores
    PROVE  /\ Observation(s) \in Seen
           /\ Observation(s).over = "store" <=> HasBaseline(s)
           /\ HasBaseline(s) => Observation(s).doc = s.doc /\ Observation(s).overlay = s.overlay
BY BaselineStored DEF Observation, Seen

LEMMA PresentTyped ==
    ASSUME NEW d \in Docs, NEW k \in Nat, NEW o \in Overlays
    PROVE  /\ Present(d, k, o) \in Stores /\ Present(d, k, o).kind = "ok"
           /\ Present(d, k, o).doc = d /\ Present(d, k, o).key = k /\ Present(d, k, o).overlay = o
BY DEF Present, Stores, Stored

LEMMA EvictTyped ==
    ASSUME NEW r \in Seq(Entries)
    PROVE  EvictToFit(r) \in Seq(Entries)
<1>1. CASE Len(r) > RingMax
  <2>1. \A i \in 1 .. Len(r) : r[i] \in Entries
    OBVIOUS
  <2>2. SubSeq(r, Len(r) - RingMax + 1, Len(r)) \in Seq(Entries)
    BY <1>1, <2>1
  <2> QED BY <1>1, <2>2 DEF EvictToFit
<1>2. CASE ~(Len(r) > RingMax)
  BY <1>2 DEF EvictToFit
<1> QED BY <1>1, <1>2

LEMMA PushedTyped ==
    ASSUME NEW s \in Stores, ring \in Seq(Entries)
    PROVE  Pushed(s) \subseteq Seq(Entries)
<1>1. CASE HasBaseline(s)
  <2>1. Entry(s) \in Entries
    BY <1>1, BaselineStored DEF Entry, Entries, Stored
  <2>2. Append(ring, Entry(s)) \in Seq(Entries) /\ <<Entry(s)>> \in Seq(Entries)
    BY <2>1
  <2> QED BY <1>1, <2>2, EvictTyped DEF Pushed
<1>2. CASE ~HasBaseline(s)
  BY <1>2 DEF Pushed
<1> QED BY <1>1, <1>2

----------------------------------------------------------------------------
(* What a job carries, and the store it was computed over.                 *)

SeenBase(o)    == IF o.over = "store" THEN o.doc.values ELSE DefaultValues
SeenNow(o)     == IF o.over = "store" THEN Fold(o.doc.values, o.overlay) ELSE DefaultValues
SeenKept(o, T) == IF o.over = "store" THEN RetainedOverlay(o.overlay, T) ELSE NoOverlay

\* The relaxing arm of a rollback.
GoesBack(target, over, values, touched) ==
    /\ over.over = "store"
    /\ touched = DiffFields(target, SeenNow(over))
    /\ values = RelaxedBaseline(target, SeenNow(over), SeenBase(over))

Planned(j) ==
    /\ j.pc \in {"epoch", "prepare"} /\ j.held => GoesBack(j.target, j.over, j.values, j.touched)
    /\ j.pc = "restrict" => /\ j.over.over = "store"
                            /\ j.overlay = DiffOverlay(j.target, SeenNow(j.over))
    /\ j.pc \in {"prompt", "commit"} =>
          /\ j.doc.revision = IF j.over.over = "store" THEN j.over.doc.revision + 1 ELSE 1
          /\ \A f \in Fields \ j.doc.touched : ~FieldDiffers(f, j.doc.values, SeenBase(j.over))
          /\ RelaxesOnly(Fold(j.doc.values, SeenKept(j.over, j.doc.touched)), SeenNow(j.over),
                         j.doc.touched)
          /\ j.held => GoesBack(j.target, j.over, j.doc.values, j.doc.touched)

\* StoreSound on whatever parses, so that it survives the file being damaged.
Sound == HasBaseline(store) => RestrictsOrEqual(Effective(store), Baseline(store))

PInv == Typed /\ (\A w \in Writers : Planned(job[w])) /\ Sound

LEMMA PlannedTrivially ==
    ASSUME NEW j, j.pc \notin {"epoch", "prepare", "restrict", "prompt", "commit"}
    PROVE  Planned(j)
BY DEF Planned

LEMMA InitPInv == Init => PInv
<1> SUFFICES ASSUME Init PROVE PInv
  OBVIOUS
<1>1. Typed
  BY IdlePc, JobBuilt DEF Init, Typed, NoLock
<1>2. Sound
  BY IdlePc DEF Init, Sound, HasBaseline
<1>3. \A w \in Writers : Planned(job[w])
  BY IdlePc, PlannedTrivially DEF Init
<1> QED BY <1>1, <1>2, <1>3 DEF PInv

\* One writer moves; the files stay typed and the store sound.
LEMMA WriterMoves ==
    ASSUME PInv, NEW w \in Writers, NEW j \in Jobs, Planned(j), Become(w, j),
           store' \in Stores, Sound', ring' \in Seq(Entries),
           keys' \in Nat, keyFile' \in 0 .. keys', keyCred' \in 0 .. keys', hkEpoch' \in Nat,
           lock' \in Writers \cup {NoLock}, landed' \subseteq [key : Nat, doc : Docs]
    PROVE  PInv' /\ job'[w] = j /\ \A v \in Writers \ {w} : job'[v] = job[v]
<1>1. job \in [Writers -> Jobs] /\ job' = [job EXCEPT ![w] = j]
  BY DEF PInv, Typed, Become
<1>2. job' \in [Writers -> Jobs] /\ job'[w] = j /\ \A v \in Writers \ {w} : job'[v] = job[v]
  BY <1>1
<1>3. Typed'
  BY <1>2 DEF Typed
<1>4. \A v \in Writers : Planned(job'[v])
  BY <1>2 DEF PInv
<1>5. (\A v \in Writers : Planned(job[v]))'
  BY <1>4 DEF Planned
<1> QED BY <1>2, <1>3, <1>5 DEF PInv

\* The same with nothing but the job, and perhaps the lock, touched.
LEMMA OnlyJob ==
    ASSUME PInv, NEW w \in Writers, NEW j \in Jobs, Planned(j), Become(w, j),
           UNCHANGED <<store, ring, keyFile, keyCred, keys, landed>>, hkEpoch' \in Nat,
           lock' \in Writers \cup {NoLock}
    PROVE  PInv'
<1>1. Sound'
  BY DEF PInv, Sound
<1> QED BY <1>1, WriterMoves DEF PInv, Typed

LEMMA IdleJobs == Idle \in Jobs /\ Planned(Idle)
BY JobBuilt, IdlePc, PlannedTrivially

\* Planning.
LEMMA PlanGrantKeeps ==
    ASSUME PInv, NEW w \in Writers, NEW o \in Requests, PlanGrant(w, o)
    PROVE  PInv'
<1> DEFINE v == Grant(store, o).values
           j == [pc |-> "epoch", values |-> v, touched |-> DOMAIN o, hk |-> 0,
                 held |-> FALSE, over |-> Observation(Absent), target |-> DefaultValues]
<1>1. o \in Overlays /\ DOMAIN o \subseteq Fields
  BY OverlayTyped, OverlayShape
<1>2. v \in Policies
  BY <1>1, FoldTyped, DefaultTyped, BaselineStored DEF Grant, PInv, Typed
<1>3. Observation(Absent) \in Seen
  BY SeenTyped, IdlePc
<1>4. j \in Planning /\ Planned(j)
  BY <1>1, <1>2, <1>3, DefaultTyped DEF Planning, Planned
<1>5. Become(w, j) /\ UNCHANGED <<store, ring, keyFile, keyCred, keys, landed, hkEpoch, lock>>
  BY DEF PlanGrant, Grant, TouchedFields, files, trust, aux
<1> QED BY <1>4, <1>5, OnlyJob, JobBuilt DEF PInv, Typed

LEMMA RollbackInputsKeeps ==
    ASSUME PInv, NEW w \in Writers, NEW i \in DOMAIN ring, NEW byId, RollbackInputs(w, ring[i], byId)
    PROVE  PInv'
<1> DEFINE t == EntryEffective(ring[i])
           o == Observation(store)
           b == Baseline(store)
           c == Effective(store)
           plan == PlanRollback(t, c, b)
           j == RollbackJob(plan, o, t)
<1>1. Become(w, j) /\ UNCHANGED <<store, ring, keyFile, keyCred, keys, landed, hkEpoch, lock>>
  BY DEF RollbackInputs, files, trust, aux
<1>2. HasBaseline(store) /\ store \in Stores
  BY DEF RollbackInputs, EffectiveReads, HasBaseline, PInv, Typed
<1>3. t \in Policies
  <2>1. ring[i] \in Entries
    BY DEF PInv, Typed
  <2> QED BY <2>1, FoldTyped DEF EntryEffective, Entries, Docs
<1>4. b \in Policies /\ c \in Policies
  BY <1>2, BaselineStored
<1>5. /\ o \in Seen /\ o.over = "store" /\ SeenNow(o) = c /\ SeenBase(o) = b
  BY <1>2, SeenTyped DEF SeenNow, SeenBase, Effective, Baseline
<1> HIDE DEF t, o, b, c
<1>6. CASE plan = [arm |-> "no_change"]
  <2>1. j = [pc |-> "confirm", over |-> o]
    BY <1>6 DEF RollbackJob
  <2>2. j \in Jobs /\ Planned(j)
    BY <1>5, <2>1, JobBuilt DEF Confirming, Planned
  <2> QED BY <1>1, <2>2, OnlyJob DEF PInv, Typed
<1>7. CASE plan = [arm |-> "tighten", overlay |-> DiffOverlay(t, c)]
  <2>1. j = [pc |-> "restrict", overlay |-> DiffOverlay(t, c), held |-> TRUE, over |-> o, target |-> t]
    BY <1>7 DEF RollbackJob
  <2>2. j \in Tightening
    BY <1>3, <1>5, <2>1, DiffTyped DEF Tightening
  <2>3. Planned(j)
    BY <1>5, <2>1 DEF Planned
  <2> QED BY <1>1, <2>2, <2>3, OnlyJob, JobBuilt DEF PInv, Typed
<1>8. CASE plan = [arm |-> "relax", values |-> RelaxedBaseline(t, c, b), touched |-> DiffFields(t, c)]
  <2>1. j = [pc |-> "epoch", values |-> RelaxedBaseline(t, c, b), touched |-> DiffFields(t, c),
             hk |-> 0, held |-> TRUE, over |-> o, target |-> t]
    BY <1>8 DEF RollbackJob
  <2>2. DiffFields(t, c) \subseteq Fields
    BY DEF DiffFields
  <2>3. j \in Planning
    BY <1>3, <1>4, <1>5, <2>1, <2>2, RelaxedTyped DEF Planning
  <2>4. Planned(j)
    BY <1>5, <2>1 DEF Planned, GoesBack
  <2> QED BY <1>1, <2>3, <2>4, OnlyJob, JobBuilt DEF PInv, Typed
<1> QED BY <1>6, <1>7, <1>8 DEF PlanRollback

LEMMA ReadHostKeyEpochKeeps ==
    ASSUME PInv, NEW w \in Writers, ReadHostKeyEpoch(w)
    PROVE  PInv'
<1> DEFINE j == [job[w] EXCEPT !.pc = "prepare", !.hk = hkEpoch]
<1>1. Become(w, j) /\ UNCHANGED <<store, ring, keyFile, keyCred, keys, landed, hkEpoch, lock>>
  BY DEF ReadHostKeyEpoch, files, trust, aux
<1>2. job[w] \in Planning /\ job[w].pc = "epoch" /\ hkEpoch \in Nat /\ Planned(job[w])
  BY JobShape DEF ReadHostKeyEpoch, PInv, Typed
<1>3. j \in Planning
  BY <1>2 DEF Planning
<1>4. /\ j.pc = "prepare" /\ j.held = job[w].held /\ j.over = job[w].over
      /\ j.values = job[w].values /\ j.touched = job[w].touched /\ j.target = job[w].target
  BY <1>2 DEF Planning
<1>5. Planned(j)
  BY <1>2, <1>4 DEF Planned
<1> QED BY <1>1, <1>3, <1>5, OnlyJob, JobBuilt DEF PInv, Typed

\* What the user is shown: the preconditions hold of the store observed.
LEMMA PrepareGrantKeeps ==
    ASSUME PInv, NEW w \in Writers, PrepareGrant(w)
    PROVE  PInv'
<1> DEFINE p == job[w]
           o == Observation(store)
           d == GrantDoc(p, store)
           j == [pc |-> "prompt", doc |-> d, key |-> HostKey, hk |-> p.hk,
                 over |-> o, held |-> p.held, target |-> p.target]
<1>1. UNCHANGED <<store, ring, keyFile, keyCred, keys, landed, hkEpoch, lock>>
  BY DEF PrepareGrant, files, trust, aux
<1>2. p \in Planning /\ p.pc = "prepare" /\ store \in Stores /\ Planned(p)
  BY JobShape DEF PrepareGrant, PInv, Typed
<1>3. CASE Become(w, Idle)
  BY <1>1, <1>3, OnlyJob, IdleJobs DEF PInv, Typed
<1>4. CASE Grantable(p, store) /\ (p.held => o = p.over) /\ Become(w, j)
  <2>1. /\ p.values \in Policies /\ p.touched \subseteq Fields /\ p.hk \in Nat
        /\ p.held \in BOOLEAN /\ p.target \in Policies
    BY <1>2 DEF Planning
  <2>2. /\ o \in Seen
        /\ o.over = "store" <=> HasBaseline(store)
        /\ HasBaseline(store) => o.doc = store.doc /\ o.overlay = store.overlay
    BY <1>2, SeenTyped
  <2>3. NextRevision(store) \in Nat
    BY <1>2, StoreShape DEF NextRevision, HasBaseline
  <2>4. d \in Docs /\ d.values = p.values /\ d.touched = p.touched /\ d.revision = NextRevision(store)
    BY <2>1, <2>3 DEF GrantDoc, Docs
  <2>5. HostKey \in Nat
    BY DEF HostKey, PInv, Typed
  <2>6. /\ SeenBase(o) = IF HasBaseline(store) THEN Baseline(store) ELSE DefaultValues
        /\ SeenNow(o) = IF HasBaseline(store) THEN Effective(store) ELSE DefaultValues
        /\ SeenKept(o, p.touched) =
               IF HasBaseline(store) THEN RetainedOverlay(store.overlay, p.touched) ELSE NoOverlay
    BY <2>2 DEF SeenBase, SeenNow, SeenKept, Baseline, Effective
  <2>7. /\ \A f \in Fields \ p.touched : ~FieldDiffers(f, p.values, SeenBase(o))
        /\ RelaxesOnly(Fold(p.values, SeenKept(o, p.touched)), SeenNow(o), p.touched)
    BY <1>4, <2>6 DEF Grantable
  <2>8. p.held => GoesBack(p.target, o, p.values, p.touched)
    BY <1>2, <1>4 DEF Planned
  <2>9. d.revision = IF o.over = "store" THEN o.doc.revision + 1 ELSE 1
    BY <2>2, <2>4 DEF NextRevision
  <2> HIDE DEF d, o, p
  <2>10. j \in Prompting
    BY <2>1, <2>2, <2>4, <2>5 DEF Prompting
  <2>11. Planned(j)
    BY <2>4, <2>7, <2>8, <2>9 DEF Planned
  <2> QED BY <1>1, <1>4, <2>10, <2>11, OnlyJob, JobBuilt DEF PInv, Typed
<1> QED BY <1>3, <1>4 DEF PrepareGrant, Done

LEMMA AttestKeeps ==
    ASSUME PInv, NEW w \in Writers, Attest(w)
    PROVE  PInv'
<1> DEFINE j == [job[w] EXCEPT !.pc = "commit"]
<1>1. UNCHANGED <<store, ring, keyFile, keyCred, keys, landed, hkEpoch, lock>>
  BY DEF Attest, files, trust, aux
<1>2. job[w] \in Prompting /\ job[w].pc = "prompt" /\ Planned(job[w])
  BY JobShape DEF Attest, PInv, Typed
<1>3. j \in Prompting
  BY <1>2 DEF Prompting
<1>4. /\ j.pc = "commit" /\ j.doc = job[w].doc /\ j.over = job[w].over
      /\ j.held = job[w].held /\ j.target = job[w].target
  BY <1>2 DEF Prompting
<1>5. Planned(j)
  BY <1>2, <1>4 DEF Planned
<1>6. CASE Become(w, j)
  BY <1>1, <1>3, <1>5, <1>6, OnlyJob, JobBuilt DEF PInv, Typed
<1>7. CASE Become(w, Idle)
  BY <1>1, <1>7, OnlyJob, IdleJobs DEF PInv, Typed
<1> QED BY <1>6, <1>7 DEF Attest, Declined, Done

\* The values of a fold, field by field.
LEMMA FoldAt ==
    ASSUME NEW b, NEW o, NEW f \in Fields
    PROVE  Fold(b, o)[f] = IF f \in DOMAIN o THEN o[f] ELSE b[f]
BY DEF Fold

LEMMA RetainedAt ==
    ASSUME NEW o, NEW T
    PROVE  /\ DOMAIN RetainedOverlay(o, T) = DOMAIN o \ T
           /\ \A f \in DOMAIN o \ T : RetainedOverlay(o, T)[f] = o[f]
BY DEF RetainedOverlay

\* The grant's write leaves a store that does not relax its own baseline: what stays of the overlay
\* is on fields whose signed value did not move.
LEMMA GrantSound ==
    ASSUME NEW b \in Policies, NEW v \in Policies, NEW o \in Overlays, NEW T,
           RestrictsOrEqual(Fold(b, o), b),
           \A f \in Fields \ T : ~FieldDiffers(f, v, b)
    PROVE  RestrictsOrEqual(Fold(v, RetainedOverlay(o, T)), v)
<1> DEFINE k == RetainedOverlay(o, T)
           e == Fold(v, k)
<1>1. k \in Overlays /\ e \in Policies /\ Fold(b, o) \in Policies
  BY RetainedTyped, FoldTyped
<1>2. SUFFICES ASSUME NEW f \in Fields PROVE ~FieldRelaxes(f, e, v)
  BY DEF RestrictsOrEqual, Relaxes
<1>3. CASE f \in DOMAIN k
  <2>1. f \notin T /\ e[f] = Fold(b, o)[f]
    <3>1. f \in DOMAIN o \ T /\ k[f] = o[f]
      BY <1>3, RetainedAt
    <3>2. e[f] = k[f]
      BY <1>3, FoldAt
    <3>3. Fold(b, o)[f] = o[f]
      BY <3>1, FoldAt
    <3> QED BY <3>1, <3>2, <3>3
  <2>2. ~FieldRelaxes(f, e, b)
    <3>1. ~FieldRelaxes(f, Fold(b, o), b)
      BY DEF RestrictsOrEqual, Relaxes
    <3> QED BY <2>1, <3>1, FieldLocal
  <2>3. ~FieldRelaxes(f, b, v)
    BY <2>1 DEF FieldDiffers
  <2> QED BY <1>1, <2>2, <2>3, FieldTransitive
<1>4. CASE f \notin DOMAIN k
  <2>1. e[f] = v[f] /\ e[f] \in Value(f)
    BY <1>1, <1>4, FoldAt DEF Policies
  <2> QED BY <2>1, FieldStrict
<1> QED BY <1>3, <1>4

\* With no overlay the effective policy is the baseline.
LEMMA BareSound ==
    ASSUME NEW v \in Policies
    PROVE  RestrictsOrEqual(Fold(v, NoOverlay), v)
<1>1. SUFFICES ASSUME NEW f \in Fields PROVE ~FieldRelaxes(f, Fold(v, NoOverlay), v)
  BY DEF RestrictsOrEqual, Relaxes
<1>2. Fold(v, NoOverlay)[f] = v[f] /\ v[f] \in Value(f)
  BY FoldAt DEF NoOverlay, Policies
<1> QED BY <1>2, FieldStrict

\* What a landing finds: the store is the one the grant was prepared over.
Lands(w) == /\ job[w].pc = "commit" /\ lock = NoLock /\ hkEpoch = job[w].hk
            /\ Loads(store) /\ Observation(store) = job[w].over
            /\ Land(w, job[w], IF HasBaseline(store)
                               THEN RetainedOverlay(store.overlay, job[w].doc.touched) ELSE NoOverlay)

LEMMA WriteBaselineCases ==
    ASSUME NEW w \in Writers, WriteBaseline(w)
    PROVE  /\ job[w].pc = "commit" /\ UNCHANGED <<ring, keyFile, keyCred, keys, hkEpoch, lost>>
           /\ Lands(w) \/ (Become(w, Idle) /\ UNCHANGED <<store, stamped, writes, landed, lock>>)
BY DEF WriteBaseline, Lands, Done

\* The store a landing leaves, in terms of the job alone.
LEMMA LandedStore ==
    ASSUME PInv, NEW w \in Writers, Lands(w)
    PROVE  LET j == job[w] IN
           /\ j \in Prompting /\ j.doc \in Docs /\ j.doc.values \in Policies /\ j.key \in Nat
           /\ j.over = Observation(store)
           /\ SeenKept(j.over, j.doc.touched) \in Overlays
           /\ store' = Present(j.doc, j.key, SeenKept(j.over, j.doc.touched))
           /\ store' \in Stores /\ store'.kind = "ok" /\ store'.doc = j.doc /\ store'.key = j.key
           /\ store'.overlay = SeenKept(j.over, j.doc.touched)
           /\ store.kind = "none" \/ HasBaseline(store)
           /\ SeenNow(j.over) = InForce(store)
           /\ SeenBase(j.over) = IF HasBaseline(store) THEN Baseline(store) ELSE DefaultValues
<1> DEFINE j == job[w]
<1>1. /\ j.pc = "commit" /\ Loads(store) /\ Observation(store) = j.over
      /\ store' = Present(j.doc, j.key, IF HasBaseline(store)
                          THEN RetainedOverlay(store.overlay, j.doc.touched) ELSE NoOverlay)
  BY DEF Lands, Land, Write
<1>2. store \in Stores /\ j \in Prompting
  BY <1>1, JobShape DEF PInv, Typed
<1>3. j.doc \in Docs /\ j.key \in Nat /\ j.doc.values \in Policies
  BY <1>2 DEF Prompting, Docs
<1>4. store.kind = "none" \/ HasBaseline(store)
  BY <1>1, <1>2, StoreShape DEF Loads, HasBaseline
<1>5. /\ j.over.over = "store" <=> HasBaseline(store)
      /\ HasBaseline(store) => j.over.doc = store.doc /\ j.over.overlay = store.overlay
  BY <1>1, <1>2, SeenTyped
<1>6. SeenKept(j.over, j.doc.touched) =
          IF HasBaseline(store) THEN RetainedOverlay(store.overlay, j.doc.touched) ELSE NoOverlay
  BY <1>5 DEF SeenKept
<1>7. SeenKept(j.over, j.doc.touched) \in Overlays
  BY <1>2, <1>6, BaselineStored, RetainedTyped, NoOverlayTyped
<1>8. /\ store' = Present(j.doc, j.key, SeenKept(j.over, j.doc.touched))
      /\ store' \in Stores /\ store'.kind = "ok" /\ store'.doc = j.doc /\ store'.key = j.key
      /\ store'.overlay = SeenKept(j.over, j.doc.touched)
  BY <1>1, <1>3, <1>6, <1>7, PresentTyped
<1>9. /\ SeenNow(j.over) = InForce(store)
      /\ SeenBase(j.over) = IF HasBaseline(store) THEN Baseline(store) ELSE DefaultValues
  BY <1>5 DEF SeenNow, SeenBase, InForce, Effective, Baseline
<1> QED BY <1>1, <1>2, <1>3, <1>4, <1>7, <1>8, <1>9

LEMMA WriteBaselineKeeps ==
    ASSUME PInv, NEW w \in Writers, WriteBaseline(w)
    PROVE  PInv'
<1> DEFINE j == job[w]
<1>1. UNCHANGED <<ring, keyFile, keyCred, keys, hkEpoch, lost>>
  BY WriteBaselineCases
<1>2. CASE Become(w, Idle) /\ UNCHANGED <<store, stamped, writes, landed, lock>>
  BY <1>1, <1>2, OnlyJob, IdleJobs DEF PInv, Typed
<1>3. CASE Lands(w)
  <2>1. /\ lock' = w /\ landed' = landed \cup {[key |-> j.key, doc |-> j.doc]}
        /\ Become(w, [pc |-> "bump", prev |-> store]) /\ j.pc = "commit"
    BY <1>3 DEF Lands, Land
  <2>2. /\ j.doc \in Docs /\ j.doc.values \in Policies /\ j.key \in Nat
        /\ store' \in Stores /\ store'.kind = "ok" /\ store'.doc = j.doc
        /\ store'.overlay = SeenKept(j.over, j.doc.touched)
        /\ SeenBase(j.over) = IF HasBaseline(store) THEN Baseline(store) ELSE DefaultValues
        /\ j.over = Observation(store)
    BY <1>3, LandedStore
  <2>3. landed' \subseteq [key : Nat, doc : Docs]
    BY <2>1, <2>2 DEF PInv, Typed
  <2>4. [pc |-> "bump", prev |-> store] \in Wrapping /\ Planned([pc |-> "bump", prev |-> store])
    BY DEF Wrapping, PInv, Typed, Planned
  <2>5. RestrictsOrEqual(Fold(j.doc.values, SeenKept(j.over, j.doc.touched)), j.doc.values)
    <3>1. CASE HasBaseline(store)
      <4>1. /\ Baseline(store) \in Policies /\ store.overlay \in Overlays
            /\ RestrictsOrEqual(Fold(Baseline(store), store.overlay), Baseline(store))
        BY <3>1, BaselineStored DEF PInv, Typed, Sound, Effective
      <4>2. \A f \in Fields \ j.doc.touched : ~FieldDiffers(f, j.doc.values, Baseline(store))
        BY <2>1, <2>2, <3>1 DEF PInv, Planned
      <4>3. SeenKept(j.over, j.doc.touched) = RetainedOverlay(store.overlay, j.doc.touched)
        BY <2>2, <3>1, SeenTyped DEF SeenKept, PInv, Typed
      <4> QED BY <2>2, <4>1, <4>2, <4>3, GrantSound
    <3>2. CASE ~HasBaseline(store)
      <4>1. SeenKept(j.over, j.doc.touched) = NoOverlay
        BY <2>2, <3>2, SeenTyped DEF SeenKept, PInv, Typed
      <4> QED BY <2>2, <4>1, BareSound
    <3> QED BY <3>1, <3>2
  <2>6. Sound'
    BY <2>2, <2>5 DEF Sound, Effective, Baseline
  <2> QED BY <1>1, <2>1, <2>2, <2>3, <2>4, <2>6, WriterMoves, JobBuilt DEF PInv, Typed
<1> QED BY <1>2, <1>3, WriteBaselineCases

\* What a restriction that lands finds and leaves.
Tightens(w, o) ==
    LET merged == MergeOverlay(store.overlay, o) IN
    /\ store.kind = "ok"
    /\ RestrictsOrEqual(Fold(Baseline(store), merged), Effective(store))
    /\ Write(Present(store.doc, store.key, merged))
    /\ lock' = w
    /\ Become(w, [pc |-> "bump", prev |-> store])

LEMMA RestrictCases ==
    ASSUME NEW w \in Writers, NEW o, Restrict(w, o)
    PROVE  /\ job[w].pc = "idle" /\ lock = NoLock
           /\ UNCHANGED <<ring, keyFile, keyCred, keys, hkEpoch, landed, lost>>
           /\ Tightens(w, o) \/ (Become(w, Idle) /\ UNCHANGED <<store, stamped, writes, lock>>)
BY DEF Restrict, RestrictLocked, Tightens, EffectiveReads, Done

LEMMA RestrictPlannedCases ==
    ASSUME NEW w \in Writers, RestrictPlanned(w)
    PROVE  /\ job[w].pc = "restrict" /\ lock = NoLock
           /\ UNCHANGED <<ring, keyFile, keyCred, keys, hkEpoch, landed, lost>>
           /\ \/ Tightens(w, job[w].overlay) /\ Observation(store) = job[w].over
              \/ Become(w, Idle) /\ UNCHANGED <<store, stamped, writes, lock>>
BY DEF RestrictPlanned, RestrictLocked, Tightens, EffectiveReads, Done

LEMMA TightenedStore ==
    ASSUME PInv, NEW w \in Writers, NEW o \in Overlays, Tightens(w, o)
    PROVE  LET merged == MergeOverlay(store.overlay, o) IN
           /\ store' = Present(store.doc, store.key, merged) /\ store' \in Stores
           /\ store'.kind = "ok" /\ store'.doc = store.doc /\ store'.key = store.key
           /\ store'.overlay = merged /\ merged \in Overlays
           /\ HasBaseline(store) /\ HasBaseline(store') /\ Baseline(store) \in Policies
           /\ Effective(store) \in Policies /\ Effective(store') \in Policies
           /\ Baseline(store') = Baseline(store)
           /\ Effective(store') = Fold(Baseline(store), merged)
           /\ RestrictsOrEqual(Effective(store'), Effective(store))
<1> DEFINE m == MergeOverlay(store.overlay, o)
<1>1. store' = Present(store.doc, store.key, m) /\ store.kind = "ok" /\ store \in Stores
  BY DEF Tightens, Write, PInv, Typed
<1>2. /\ HasBaseline(store) /\ Baseline(store) \in Policies /\ Effective(store) \in Policies
      /\ store.doc \in Docs /\ store.key \in Nat /\ store.overlay \in Overlays
  BY <1>1, BaselineStored, StoreShape DEF HasBaseline
<1>3. m \in Overlays
  BY <1>2, MergedTyped
<1>4. /\ store' \in Stores /\ store'.kind = "ok" /\ store'.doc = store.doc
      /\ store'.key = store.key /\ store'.overlay = m
  BY <1>1, <1>2, <1>3, PresentTyped
<1>5. HasBaseline(store') /\ Baseline(store') = Baseline(store) /\ Effective(store') = Fold(Baseline(store), m)
  BY <1>4 DEF HasBaseline, Baseline, Effective
<1>6. Effective(store') \in Policies
  BY <1>2, <1>3, <1>5, FoldTyped
<1> QED BY <1>1, <1>2, <1>3, <1>4, <1>5, <1>6 DEF Tightens

LEMMA TightensKeeps ==
    ASSUME PInv, NEW w \in Writers, NEW o \in Overlays, Tightens(w, o),
           UNCHANGED <<ring, keyFile, keyCred, keys, hkEpoch, landed>>
    PROVE  PInv'
<1>1. lock' = w /\ Become(w, [pc |-> "bump", prev |-> store])
  BY DEF Tightens
<1>2. [pc |-> "bump", prev |-> store] \in Wrapping /\ Planned([pc |-> "bump", prev |-> store])
  BY DEF Wrapping, PInv, Typed, Planned
<1>3. Sound'
  <2>1. RestrictsOrEqual(Effective(store), Baseline(store))
    BY TightenedStore DEF PInv, Sound
  <2>2. RestrictsOrEqual(Effective(store'), Baseline(store'))
    BY <2>1, TightenedStore, RestrictsTransitive
  <2> QED BY <2>2 DEF Sound, Effective, Baseline
<1> QED BY <1>1, <1>2, <1>3, TightenedStore, WriterMoves, JobBuilt DEF PInv, Typed

LEMMA TailKeeps ==
    ASSUME PInv, NEW w \in Writers, BumpPolicyEpoch(w) \/ PushHistory(w)
    PROVE  PInv'
<1>1. job[w] \in Wrapping /\ job[w].prev \in Stores
  BY JobShape DEF BumpPolicyEpoch, PushHistory, PInv, Typed, Wrapping
<1>2. CASE BumpPolicyEpoch(w)
  <2> DEFINE j == [job[w] EXCEPT !.pc = "push"]
  <2>1. j \in Wrapping /\ Planned(j)
    BY <1>1 DEF Wrapping, Planned
  <2> QED BY <1>2, <2>1, OnlyJob, JobBuilt DEF BumpPolicyEpoch, files, PInv, Typed
<1>3. CASE PushHistory(w)
  <2>1. /\ Become(w, Idle) /\ UNCHANGED <<store, keyFile, keyCred, keys, hkEpoch, landed>>
        /\ ring' \in Pushed(job[w].prev) /\ lock' = NoLock
    BY <1>3 DEF PushHistory, Done, trust, aux
  <2>2. ring' \in Seq(Entries)
    BY <1>1, <2>1, PushedTyped DEF PInv, Typed
  <2>3. Sound'
    BY <2>1 DEF PInv, Sound
  <2> QED BY <2>1, <2>2, <2>3, WriterMoves, IdleJobs DEF PInv, Typed
<1> QED BY <1>2, <1>3

\* The steps of a disposal and of a mint.
LEMMA RekeyKeeps ==
    ASSUME PInv, NEW w \in Writers,
           \/ Revoke(w) \/ (\E p \in {"file", "cred"} : MintCheck(w, p))
           \/ ClearPush(w) \/ ClearRemove(w) \/ BumpHostKeyEpoch(w) \/ MintKey(w)
    PROVE  PInv'
<1>0. store \in Stores /\ keys \in Nat /\ keyFile \in 0 .. keys /\ keyCred \in 0 .. keys /\ hkEpoch \in Nat
  BY DEF PInv, Typed
<1>1. CASE Revoke(w)
  <2>1. [pc |-> "clear", then |-> "dispose"] \in Rekeying /\ Planned([pc |-> "clear", then |-> "dispose"])
    BY DEF Rekeying, Planned
  <2>2. /\ Become(w, [pc |-> "clear", then |-> "dispose"]) /\ lock' = w
        /\ UNCHANGED <<store, ring, keys, hkEpoch, landed>>
        /\ keyFile' = 0 /\ keyCred' \in {0, keyCred}
    BY <1>1 DEF Revoke, trust
  <2>3. keyFile' \in 0 .. keys' /\ keyCred' \in 0 .. keys' /\ Sound'
    BY <1>0, <2>2 DEF PInv, Sound
  <2> QED BY <2>1, <2>2, <2>3, WriterMoves, JobBuilt DEF PInv, Typed
<1>2. ASSUME NEW p \in {"file", "cred"}, MintCheck(w, p) PROVE PInv'
  <2>1. [pc |-> "clear", then |-> p] \in Rekeying /\ Planned([pc |-> "clear", then |-> p])
    BY DEF Rekeying, Planned
  <2> QED BY <1>2, <2>1, OnlyJob, JobBuilt DEF MintCheck, files, trust, PInv, Typed
<1>3. CASE ClearPush(w)
  <2>1. job[w] \in Rekeying
    BY <1>3, JobShape DEF ClearPush, PInv, Typed
  <2>2. PICK q \in {"remove", "rekey"} : Become(w, [job[w] EXCEPT !.pc = q])
    BY <1>3 DEF ClearPush
  <2>3. [job[w] EXCEPT !.pc = q] \in Rekeying /\ [job[w] EXCEPT !.pc = q].pc = q
    BY <2>1 DEF Rekeying
  <2>4. /\ UNCHANGED <<store, keyFile, keyCred, keys, hkEpoch, landed, lock>>
        /\ ring' = ring \/ ring' \in Pushed(store)
    BY <1>3 DEF ClearPush, trust
  <2>5. ring' \in Seq(Entries) /\ Sound'
    BY <1>0, <2>4, PushedTyped DEF PInv, Typed, Sound
  <2> QED BY <2>2, <2>3, <2>4, <2>5, WriterMoves, JobBuilt, PlannedTrivially DEF PInv, Typed
<1>4. CASE ClearRemove(w)
  <2>1. job[w] \in Rekeying
    BY <1>4, JobShape DEF ClearRemove, PInv, Typed
  <2>2. [job[w] EXCEPT !.pc = "rekey"] \in Rekeying /\ [job[w] EXCEPT !.pc = "rekey"].pc = "rekey"
    BY <2>1 DEF Rekeying
  <2>3. /\ UNCHANGED <<ring, keyFile, keyCred, keys, hkEpoch, landed, lock>>
        /\ Become(w, [job[w] EXCEPT !.pc = "rekey"]) /\ store' \in {store, Absent}
    BY <1>4 DEF ClearRemove
  <2>4. store' \in Stores /\ Sound'
    BY <1>0, <2>3, IdlePc DEF PInv, Sound, HasBaseline
  <2> QED BY <2>2, <2>3, <2>4, WriterMoves, JobBuilt, PlannedTrivially DEF PInv, Typed
<1>5. CASE BumpHostKeyEpoch(w)
  <2>1. /\ Become(w, Idle) /\ UNCHANGED <<store, ring, keyFile, keyCred, keys, landed>>
        /\ hkEpoch' \in {hkEpoch, hkEpoch + 1} /\ lock' = NoLock
    BY <1>5 DEF BumpHostKeyEpoch, Done, files
  <2> QED BY <1>0, <2>1, OnlyJob, IdleJobs
<1>6. CASE MintKey(w)
  <2>1. /\ Become(w, Idle) /\ UNCHANGED <<store, ring, hkEpoch, landed>>
        /\ lock' = NoLock /\ keys' = keys + 1
        /\ keyFile' \in {keyFile, keys + 1} /\ keyCred' \in {keyCred, keys + 1}
    BY <1>6 DEF MintKey, Done, trust, aux
  <2>2. keys' \in Nat /\ keyFile' \in 0 .. keys' /\ keyCred' \in 0 .. keys' /\ Sound'
    BY <1>0, <2>1 DEF PInv, Sound
  <2> QED BY <2>1, <2>2, WriterMoves, IdleJobs DEF PInv, Typed
<1> QED BY <1>1, <1>2, <1>3, <1>4, <1>5, <1>6

LEMMA DamageKeeps ==
    ASSUME PInv, Damage
    PROVE  /\ PInv' /\ store'.kind \in {"unreadable", "tampered"} /\ store.kind = "ok"
           /\ store'.doc = store.doc /\ store'.key = store.key
           /\ UNCHANGED <<ring, keyFile, keyCred, keys, hkEpoch, lock, job, landed, lost>>
<1>1. /\ store.kind = "ok" /\ store \in Stores
      /\ UNCHANGED <<ring, keyFile, keyCred, keys, hkEpoch, lock, job, landed, lost>>
  BY DEF Damage, trust, aux, PInv, Typed
<1>2. PICK k \in {"unreadable", "tampered"} : store' = [store EXCEPT !.kind = k]
  BY DEF Damage
<1>3. store \in Stored
  BY <1>1, StoreShape
<1>4. /\ store' \in Stored /\ store'.doc = store.doc /\ store'.overlay = store.overlay
      /\ store'.key = store.key /\ store'.kind = k
  BY <1>2, <1>3 DEF Stored
<1>5. Sound'
  BY <1>1, <1>4 DEF PInv, Sound, HasBaseline, Effective, Baseline
<1>6. Typed'
  BY <1>1, <1>4 DEF PInv, Typed, Stores
<1> QED BY <1>1, <1>2, <1>4, <1>5, <1>6 DEF PInv

LEMMA NextPInv == PInv /\ [Next]_vars => PInv'
<1> SUFFICES ASSUME PInv, [Next]_vars PROVE PInv'
  OBVIOUS
<1>1. CASE UNCHANGED vars
  BY <1>1 DEF vars, files, trust, aux, PInv, Typed, Sound
<1>2. ASSUME NEW w \in Writers, ConfirmUnmoved(w) PROVE PInv'
  BY <1>2, OnlyJob, IdleJobs DEF ConfirmUnmoved, Done, files, trust, aux, PInv, Typed
<1>3. ASSUME NEW w \in Writers, Crash(w) PROVE PInv'
  BY <1>3, OnlyJob, IdleJobs DEF Crash, Done, files, trust, PInv, Typed
<1>4. ASSUME NEW w \in Writers, NEW o \in Requests, Restrict(w, o) PROVE PInv'
  <2>1. o \in Overlays
    BY OverlayTyped
  <2>2. CASE Tightens(w, o)
    BY <1>4, <2>1, <2>2, TightensKeeps, RestrictCases
  <2>3. CASE Become(w, Idle) /\ UNCHANGED <<store, stamped, writes, lock>>
    BY <1>4, <2>3, OnlyJob, IdleJobs, RestrictCases DEF PInv, Typed
  <2> QED BY <1>4, <2>2, <2>3, RestrictCases
<1>5. ASSUME NEW w \in Writers, RestrictPlanned(w) PROVE PInv'
  <2>1. job[w].overlay \in Overlays
    BY <1>5, RestrictPlannedCases, JobShape DEF PInv, Typed, Tightening
  <2>2. CASE Tightens(w, job[w].overlay)
    BY <1>5, <2>1, <2>2, TightensKeeps, RestrictPlannedCases
  <2>3. CASE Become(w, Idle) /\ UNCHANGED <<store, stamped, writes, lock>>
    BY <1>5, <2>3, OnlyJob, IdleJobs, RestrictPlannedCases DEF PInv, Typed
  <2> QED BY <1>5, <2>2, <2>3, RestrictPlannedCases
<1>6. ASSUME NEW w \in Writers,
             \E i \in DOMAIN ring, byId \in BOOLEAN : RollbackInputs(w, ring[i], byId)
      PROVE  PInv'
  BY <1>6, RollbackInputsKeeps
<1> QED
  BY <1>1, <1>2, <1>3, <1>4, <1>5, <1>6, PlanGrantKeeps, ReadHostKeyEpochKeeps, PrepareGrantKeeps,
     AttestKeeps, WriteBaselineKeeps, TailKeeps, RekeyKeeps, DamageKeeps DEF Next

LEMMA PolicyInvariant == Spec => []PInv
BY InitPInv, NextPInv, PTL DEF Spec

\* StoreSound, for every catalogue and every set of writers: no interleaving of grants,
\* restrictions, rollbacks, disposals, crashes and damage leaves a policy.json whose overlay relaxes
\* its signed baseline, so effective() never refuses a file the host itself wrote.
THEOREM PolicyStoreSound == Spec => []StoreSound
<1>1. PInv => StoreSound
  BY DEF PInv, Sound, StoreSound, HasBaseline
<1> QED BY <1>1, PolicyInvariant, PTL

----------------------------------------------------------------------------
(* The writes of the store, and what each may do to the policy in force.   *)

\* No job that was waiting to write has written.
NoneWrote == \A v \in Writers : job[v].pc \in {"commit", "restrict"} => job'[v].pc # "bump"

LEMMA JobMoved ==
    ASSUME PInv, NEW w \in Writers, NEW j, Become(w, j)
    PROVE  job'[w] = j /\ \A v \in Writers \ {w} : job'[v] = job[v]
BY DEF PInv, Typed, Become

LEMMA NotBumped ==
    ASSUME PInv, NEW w \in Writers, NEW j, Become(w, j),
           j.pc # "bump" \/ job[w].pc \notin {"commit", "restrict"}
    PROVE  NoneWrote
BY JobMoved DEF NoneWrote

\* A step leaves the store alone, or is one of the four that write it.
LEMMA StoreMoves ==
    ASSUME PInv, [Next]_vars
    PROVE  \/ store' = store /\ NoneWrote
           \/ \E w \in Writers : Lands(w)
           \/ \E w \in Writers, o \in Overlays :
                 /\ Tightens(w, o)
                 /\ job[w].pc = "idle" \/ (/\ job[w].pc = "restrict" /\ o = job[w].overlay
                                           /\ Observation(store) = job[w].over)
           \/ \E w \in Writers : job[w].pc = "remove" /\ store' = Absent /\ NoneWrote
           \/ store'.kind \in {"unreadable", "tampered"} /\ NoneWrote
<1> DEFINE Goal == \/ store' = store /\ NoneWrote
                   \/ \E w \in Writers : Lands(w)
                   \/ \E w \in Writers, o \in Overlays :
                         /\ Tightens(w, o)
                         /\ job[w].pc = "idle" \/ (/\ job[w].pc = "restrict" /\ o = job[w].overlay
                                                   /\ Observation(store) = job[w].over)
                   \/ \E w \in Writers : job[w].pc = "remove" /\ store' = Absent /\ NoneWrote
                   \/ store'.kind \in {"unreadable", "tampered"} /\ NoneWrote
<1>1. CASE UNCHANGED vars
  BY <1>1 DEF vars, files, NoneWrote
<1>2. ASSUME NEW w \in Writers, NEW o \in Requests, PlanGrant(w, o) PROVE Goal
  BY <1>2, NotBumped DEF PlanGrant, files
<1>3. ASSUME NEW w \in Writers, NEW o \in Requests, Restrict(w, o) PROVE Goal
  <2>1. o \in Overlays /\ job[w].pc = "idle"
    BY <1>3, OverlayTyped, RestrictCases
  <2>2. CASE Become(w, Idle) /\ UNCHANGED <<store, stamped, writes, lock>>
    BY <2>1, <2>2, NotBumped
  <2> QED BY <1>3, <2>1, <2>2, RestrictCases
<1>4. ASSUME NEW w \in Writers, NEW e, NEW byId, RollbackInputs(w, e, byId) PROVE Goal
  BY <1>4, NotBumped DEF RollbackInputs, files
<1>5. ASSUME NEW w \in Writers, ConfirmUnmoved(w) \/ PrepareGrant(w) \/ BumpPolicyEpoch(w) \/ PushHistory(w)
                                \/ Revoke(w) \/ ClearPush(w) \/ BumpHostKeyEpoch(w) \/ MintKey(w)
      PROVE  Goal
  <2>1. job[w].pc \notin {"commit", "restrict"} /\ store' = store
    BY <1>5 DEF ConfirmUnmoved, PrepareGrant, BumpPolicyEpoch, PushHistory, Revoke, ClearPush,
       BumpHostKeyEpoch, MintKey, files
  <2>2. \E j : Become(w, j)
    BY <1>5 DEF ConfirmUnmoved, PrepareGrant, BumpPolicyEpoch, PushHistory, Revoke, ClearPush,
       BumpHostKeyEpoch, MintKey, Done
  <2> QED BY <2>1, <2>2, NotBumped
<1>6. ASSUME NEW w \in Writers, ReadHostKeyEpoch(w) \/ Attest(w) \/ \E p \in {"file", "cred"} : MintCheck(w, p)
      PROVE  Goal
  <2>1. job[w].pc \notin {"commit", "restrict"} /\ store' = store
    BY <1>6 DEF ReadHostKeyEpoch, Attest, MintCheck, files
  <2>2. \E j : Become(w, j)
    BY <1>6 DEF ReadHostKeyEpoch, Attest, MintCheck, Declined, Done
  <2> QED BY <2>1, <2>2, NotBumped
<1>7. ASSUME NEW w \in Writers, WriteBaseline(w) PROVE Goal
  <2>1. CASE Become(w, Idle) /\ UNCHANGED <<store, stamped, writes, landed, lock>>
    BY <2>1, NotBumped, IdlePc
  <2> QED BY <1>7, <2>1, WriteBaselineCases
<1>8. ASSUME NEW w \in Writers, RestrictPlanned(w) PROVE Goal
  <2>1. job[w].pc = "restrict" /\ job[w].overlay \in Overlays
    BY <1>8, RestrictPlannedCases, JobShape DEF PInv, Typed, Tightening
  <2>2. CASE Become(w, Idle) /\ UNCHANGED <<store, stamped, writes, lock>>
    BY <2>2, NotBumped, IdlePc
  <2> QED BY <1>8, <2>1, <2>2, RestrictPlannedCases
<1>9. ASSUME NEW w \in Writers, ClearRemove(w) PROVE Goal
  <2>1. /\ job[w].pc = "remove" /\ store' \in {store, Absent}
        /\ Become(w, [job[w] EXCEPT !.pc = "rekey"])
    BY <1>9 DEF ClearRemove
  <2> QED BY <2>1, NotBumped
<1>10. ASSUME NEW w \in Writers, Crash(w) PROVE Goal
  BY <1>10, NotBumped, IdlePc DEF Crash, Done, files
<1>11. CASE Damage
  BY <1>11, DamageKeeps DEF NoneWrote
<1>12. ASSUME NEW w \in Writers, \E i \in DOMAIN ring, byId \in BOOLEAN : RollbackInputs(w, ring[i], byId)
       PROVE  Goal
  BY <1>4, <1>12
<1> QED
  BY <1>1, <1>2, <1>3, <1>5, <1>6, <1>7, <1>8, <1>9, <1>10, <1>11, <1>12 DEF Next

\* The policy in force after a landing, field by field.
LEMMA RollbackRelaxes ==
    ASSUME NEW t \in Policies, NEW b \in Policies, NEW o \in Overlays
    PROVE  LET c == Fold(b, o)
               D == DiffFields(t, c)
           IN  SameValues(Fold(RelaxedBaseline(t, c, b), RetainedOverlay(o, D)), t)
<1> DEFINE c == Fold(b, o)
           D == DiffFields(t, c)
           v == RelaxedBaseline(t, c, b)
           k == RetainedOverlay(o, D)
           e == Fold(v, k)
<1>1. SUFFICES ASSUME NEW f \in Fields PROVE ~FieldRelaxes(f, e, t) /\ ~FieldRelaxes(f, t, e)
  BY DEF SameValues, FieldDiffers
<1>2. v[f] = IF f \in D THEN t[f] ELSE b[f]
  BY DEF RelaxedBaseline
<1>3. /\ DOMAIN k = DOMAIN o \ D
      /\ \A g \in DOMAIN o \ D : k[g] = o[g]
  BY RetainedAt
<1>4. /\ e[f] = IF f \in DOMAIN k THEN k[f] ELSE v[f]
      /\ c[f] = IF f \in DOMAIN o THEN o[f] ELSE b[f]
  BY FoldAt
<1>5. t[f] \in Value(f)
  BY DEF Policies
<1> HIDE DEF e, v, k, c
<1>6. CASE f \in D
  <2>1. e[f] = t[f]
    BY <1>2, <1>3, <1>4, <1>6
  <2> QED BY <1>5, <2>1, FieldStrict
<1>7. CASE f \notin D
  <2>1. e[f] = c[f]
    BY <1>2, <1>3, <1>4, <1>7
  <2>2. ~FieldRelaxes(f, c, t) /\ ~FieldRelaxes(f, t, c)
    BY <1>7 DEF DiffFields, FieldDiffers
  <2> QED BY <2>1, <2>2, FieldLocal
<1> QED BY <1>6, <1>7

LEMMA RollbackTightens ==
    ASSUME NEW t \in Policies, NEW b \in Policies, NEW o \in Overlays
    PROVE  SameValues(Fold(b, MergeOverlay(o, DiffOverlay(t, Fold(b, o)))), t)
<1> DEFINE c == Fold(b, o)
           D == DiffFields(t, c)
           d == DiffOverlay(t, c)
           m == MergeOverlay(o, d)
           e == Fold(b, m)
<1>1. SUFFICES ASSUME NEW f \in Fields PROVE ~FieldRelaxes(f, e, t) /\ ~FieldRelaxes(f, t, e)
  BY DEF SameValues, FieldDiffers
<1>2. DOMAIN d = D /\ \A g \in D : d[g] = t[g]
  BY DEF DiffOverlay
<1>3. /\ DOMAIN m = DOMAIN o \cup DOMAIN d
      /\ \A g \in DOMAIN o \cup DOMAIN d : m[g] = IF g \in DOMAIN d THEN d[g] ELSE o[g]
  BY DEF MergeOverlay
<1>4. /\ e[f] = IF f \in DOMAIN m THEN m[f] ELSE b[f]
      /\ c[f] = IF f \in DOMAIN o THEN o[f] ELSE b[f]
  BY FoldAt
<1>5. t[f] \in Value(f)
  BY DEF Policies
<1> HIDE DEF e, m, d, c
<1>6. CASE f \in D
  <2>1. e[f] = t[f]
    BY <1>2, <1>3, <1>4, <1>6
  <2> QED BY <1>5, <2>1, FieldStrict
<1>7. CASE f \notin D
  <2>1. e[f] = c[f]
    BY <1>2, <1>3, <1>4, <1>7
  <2>2. ~FieldRelaxes(f, c, t) /\ ~FieldRelaxes(f, t, c)
    BY <1>7 DEF DiffFields, FieldDiffers
  <2> QED BY <2>1, <2>2, FieldLocal
<1> QED BY <1>6, <1>7

LEMMA RollbackStep ==
    ASSUME PInv, [Next]_vars, NEW v \in Writers,
           job[v].pc \in {"commit", "restrict"}, job[v].held, job'[v].pc = "bump"
    PROVE  SameValues(Effective(store'), job[v].target)
<1>1. ASSUME NEW w \in Writers, Lands(w) PROVE SameValues(Effective(store'), job[v].target)
  <2>1. v = w
    BY <1>1, JobMoved DEF Lands, Land
  <2> DEFINE j == job[w]
             o == j.over
  <2>2. /\ j \in Prompting /\ store'.doc = j.doc /\ store'.overlay = SeenKept(o, j.doc.touched)
        /\ j.pc = "commit" /\ Planned(j)
    BY <1>1, LandedStore DEF Lands, PInv
  <2>3. GoesBack(j.target, o, j.doc.values, j.doc.touched)
    BY <2>1, <2>2 DEF Planned
  <2>4. /\ o.over = "store" /\ o.doc.values \in Policies /\ o.overlay \in Overlays /\ j.target \in Policies
    BY <2>2, <2>3 DEF GoesBack, Prompting, Seen, Docs
  <2> DEFINE c == Fold(o.doc.values, o.overlay)
             D == DiffFields(j.target, c)
  <2>5. Effective(store') = Fold(RelaxedBaseline(j.target, c, o.doc.values), RetainedOverlay(o.overlay, D))
    BY <2>2, <2>3, <2>4 DEF GoesBack, SeenNow, SeenBase, SeenKept, Effective, Baseline
  <2> QED BY <2>1, <2>4, <2>5, RollbackRelaxes
<1>2. ASSUME NEW w \in Writers, NEW o \in Overlays, Tightens(w, o),
             job[w].pc = "idle" \/ (/\ job[w].pc = "restrict" /\ o = job[w].overlay
                                    /\ Observation(store) = job[w].over)
      PROVE  SameValues(Effective(store'), job[v].target)
  <2>1. v = w
    BY <1>2, JobMoved DEF Tightens
  <2>2. /\ job[w].pc = "restrict" /\ o = job[w].overlay /\ Observation(store) = job[w].over
        /\ Planned(job[w]) /\ job[w].target \in Policies
    BY <1>2, <2>1, JobShape DEF PInv, Typed, Tightening
  <2>3. /\ HasBaseline(store) /\ store \in Stores /\ Baseline(store) \in Policies /\ store.overlay \in Overlays
        /\ Effective(store') = Fold(Baseline(store), MergeOverlay(store.overlay, o))
    BY <1>2, TightenedStore, BaselineStored DEF PInv, Typed
  <2>4. SeenNow(job[w].over) = Fold(Baseline(store), store.overlay)
    BY <2>2, <2>3, SeenTyped DEF SeenNow, Baseline
  <2>5. o = DiffOverlay(job[w].target, Fold(Baseline(store), store.overlay))
    BY <2>2, <2>4 DEF Planned
  <2> QED BY <2>1, <2>2, <2>3, <2>5, RollbackTightens
<1>3. ~NoneWrote
  BY DEF NoneWrote
<1> QED BY <1>1, <1>2, <1>3, StoreMoves

\* RollbackExact, for every catalogue, ring and set of writers: a rollback that lands leaves exactly
\* its target in force, on both arms of run_rollback and however the prompt was interleaved.
THEOREM PolicyRollbackExact == Spec => RollbackExact
<1>1. PInv /\ [Next]_vars =>
         [\A w \in Writers :
            /\ job[w].pc \in {"commit", "restrict"} /\ job[w].held
            /\ job'[w].pc = "bump"
            => SameValues(Effective(store'), job[w].target)]_vars
  BY RollbackStep
<1> QED BY <1>1, PolicyInvariant, PTL DEF Spec, RollbackExact

\* A restriction gives no capability back: the gate of any tool call is monotone in the policy.
LEMMA GateMonotone ==
    ASSUME NEW t \in GatedTools, NEW s \in Stores, NEW r \in Stores,
           EffectiveReads(s), EffectiveReads(r), RestrictsOrEqual(Effective(r), Effective(s)),
           GateAllows(t, r)
    PROVE  GateAllows(t, s)
<1>1. Effective(r) \in Policies /\ Effective(s) \in Policies
  BY BaselineStored DEF EffectiveReads, HasBaseline
<1>2. \A f \in Fields : ~FieldRelaxes(f, Effective(r), Effective(s))
  BY DEF RestrictsOrEqual, Relaxes
<1>3. RequiredGrants(t) \subseteq TrueFields
  BY DEF RequiredGrants
<1>4. \A g \in RequiredGrants(t) : Effective(s)[g] = "on"
  <2> SUFFICES ASSUME NEW g \in RequiredGrants(t) PROVE Effective(s)[g] = "on"
    OBVIOUS
  <2>1. g \in Fields /\ g \in TrueFields /\ g \in BoolFields
    BY <1>3 DEF Fields, BoolFields
  <2>2. Effective(s)[g] \in {"on", "off"}
    BY <1>1, <2>1 DEF Policies, Value
  <2>3. Effective(r)[g] = "on"
    BY DEF GateAllows, EffectiveReads
  <2> QED BY <1>2, <2>1, <2>2, <2>3 DEF FieldRelaxes
<1>5. \A f \in ToolFields : t \notin Effective(s)[f]
  <2> SUFFICES ASSUME NEW f \in ToolFields PROVE t \notin Effective(s)[f]
    OBVIOUS
  <2>1. Effective(s)[f] \subseteq Effective(r)[f]
    BY <1>2 DEF FieldRelaxes, Fields
  <2> QED BY <2>1 DEF GateAllows, EffectiveReads
<1> QED BY <1>4, <1>5 DEF GateAllows

LEMMA LandingIsGrant ==
    ASSUME PInv, NEW w \in Writers, Lands(w)
    PROVE  /\ GrantLands(w)
           /\ \A f \in Fields : FieldRelaxes(f, InForce(store'), InForce(store)) => f \in job[w].doc.touched
<1> DEFINE j == job[w]
<1>1. /\ j.pc = "commit" /\ Planned(j) /\ j.over = Observation(store) /\ store'.kind = "ok"
      /\ store'.doc = j.doc /\ store'.overlay = SeenKept(j.over, j.doc.touched)
      /\ SeenNow(j.over) = InForce(store)
  BY LandedStore DEF Lands, PInv
<1>2. GrantLands(w)
  BY <1>1 DEF GrantLands, HasBaseline
<1>3. InForce(store') = Fold(j.doc.values, SeenKept(j.over, j.doc.touched))
  BY <1>1 DEF InForce, HasBaseline, Effective, Baseline
<1> QED BY <1>1, <1>2, <1>3 DEF Planned, RelaxesOnly

LEMMA RelaxStep ==
    ASSUME PInv, [Next]_vars
    PROVE  /\ \A f \in Fields :
                store'.kind = "ok" /\ FieldRelaxes(f, InForce(store'), InForce(store)) =>
                   \E w \in Writers : GrantLands(w) /\ f \in job[w].doc.touched
           /\ \A t \in GatedTools :
                GateAllows(t, store') /\ ~GateAllows(t, store) =>
                   \E w \in Writers : GrantLands(w) \/ (job[w].pc = "remove" /\ store'.kind = "none")
<1> DEFINE A == \A f \in Fields :
                  store'.kind = "ok" /\ FieldRelaxes(f, InForce(store'), InForce(store)) =>
                     \E w \in Writers : GrantLands(w) /\ f \in job[w].doc.touched
           B == \A t \in GatedTools :
                  GateAllows(t, store') /\ ~GateAllows(t, store) =>
                     \E w \in Writers : GrantLands(w) \/ (job[w].pc = "remove" /\ store'.kind = "none")
<1>0. store \in Stores
  BY DEF PInv, Typed
<1>1. CASE store' = store
  <2>1. A
    <3> SUFFICES ASSUME NEW f \in Fields, store.kind = "ok" PROVE ~FieldRelaxes(f, InForce(store), InForce(store))
      BY <1>1
    <3>1. InForce(store)[f] \in Value(f)
      BY <1>0, BaselineStored DEF InForce, HasBaseline, Policies
    <3> QED BY <3>1, FieldStrict
  <2> QED BY <1>1, <2>1
<1>2. ASSUME NEW w \in Writers, Lands(w) PROVE A /\ B
  BY <1>2, LandingIsGrant
<1>3. ASSUME NEW w \in Writers, NEW o \in Overlays, Tightens(w, o) PROVE A /\ B
  <2>1. /\ store' \in Stores /\ store'.kind = "ok" /\ store.kind = "ok"
        /\ HasBaseline(store) /\ HasBaseline(store')
        /\ RestrictsOrEqual(Effective(store'), Effective(store))
    BY <1>3, TightenedStore DEF Tightens
  <2>2. A
    BY <2>1 DEF InForce, RestrictsOrEqual, Relaxes
  <2>3. B
    BY <1>0, <2>1, GateMonotone DEF EffectiveReads
  <2> QED BY <2>2, <2>3
<1>4. ASSUME NEW w \in Writers, job[w].pc = "remove", store' = Absent PROVE A /\ B
  BY <1>4, IdlePc
<1>5. CASE store'.kind \in {"unreadable", "tampered"}
  BY <1>5 DEF GateAllows, EffectiveReads
<1> QED BY <1>1, <1>2, <1>3, <1>4, <1>5, StoreMoves

\* NoRelaxWithoutTap, for every catalogue, tool set and number of writers: a step relaxes the policy
\* in force on a field only as the landing of an attested grant that names the field, over the store
\* that was shown; and opens the gate to a tool only so, or by removing the baseline with its key.
THEOREM PolicyNoRelax == Spec => NoRelaxWithoutTap
<1>1. PInv /\ [Next]_vars =>
        [/\ \A f \in Fields :
              store'.kind = "ok" /\ FieldRelaxes(f, InForce(store'), InForce(store)) =>
                 \E w \in Writers : GrantLands(w) /\ f \in job[w].doc.touched
         /\ \A t \in GatedTools :
              GateAllows(t, store') /\ ~GateAllows(t, store) =>
                 \E w \in Writers : GrantLands(w) \/ (job[w].pc = "remove" /\ store'.kind = "none")]_vars
  BY RelaxStep
<1> QED BY <1>1, PolicyInvariant, PTL DEF Spec, NoRelaxWithoutTap

----------------------------------------------------------------------------
(* The key: the lock covers a disposal, and the epoch tells of it.         *)

Rekey == {"clear", "remove", "rekey"}

\* Whoever is between the first write of a locked section and its last holds the lock.
Exclusive == \A w \in Writers : job[w].pc \in {"bump", "push"} \cup Rekey => lock = w

EpochSeen == \A w \in Writers : job[w].pc \in {"prepare", "prompt", "commit"} => job[w].hk <= hkEpoch

\* No disposal left its key behind or went untold.
Told == {"unanswered", "bump"} \cap lost = {}

Disposing == \E v \in Writers : job[v].pc \in Rekey /\ job[v].then = "dispose"

\* While the baseline is being cleared there is no key.
RekeyEmpty == \A w \in Writers : job[w].pc \in Rekey => keyFile = 0 /\ keyCred = 0

\* A grant whose epoch is current is signed by the key in place, or its disposal is under way.
Live(j) == j.pc \in {"prompt", "commit"} /\ j.hk = hkEpoch => j.key # 0 /\ (HostKey = j.key \/ Disposing)
SignsLive == \A w \in Writers : Live(job[w])

\* The baselines signed by the key in place do not outrun the stored revision.
Climbs == HostKey # 0 => \A a \in landed : a.key = HostKey =>
    store.kind = "unreadable" \/ (HasBaseline(store) /\ a.doc.revision <= store.doc.revision)
Minted == \A a \in landed : a.key \in 1 .. keys
Distinct == \A a, b \in landed : a.key = b.key /\ a.doc.revision = b.doc.revision => a = b

Clearing == \E v \in Writers : job[v].pc \in {"clear", "remove"}

\* With no fault at all, what is stored is signed by the key in place until the clear removes it.
BaseLive == /\ HasBaseline(store) => (HostKey # 0 /\ store.key = HostKey) \/ Clearing
            /\ \A w \in Writers : job[w].pc = "rekey" => store.kind = "none"

KInv == /\ Exclusive /\ EpochSeen
        /\ Told => RekeyEmpty /\ SignsLive /\ Climbs /\ Minted /\ Distinct
        /\ lost = {} => BaseLive

LEMMA InitKInv == Init => KInv
<1> SUFFICES ASSUME Init PROVE KInv
  OBVIOUS
<1>1. \A w \in Writers : job[w].pc = "idle"
  BY IdlePc DEF Init
<1>2. landed = {} /\ store.kind = "none"
  BY IdlePc DEF Init
<1> QED
  BY <1>1, <1>2 DEF KInv, Exclusive, EpochSeen, RekeyEmpty, SignsLive, Live, Climbs, Minted, Distinct,
     BaseLive, HasBaseline, Rekey

LEMMA FaultsStay ==
    ASSUME lost \subseteq lost'
    PROVE  (Told' => Told) /\ (lost' = {} => lost = {})
BY DEF Told

LEMMA SameKey ==
    ASSUME UNCHANGED <<keyFile, keyCred>>
    PROVE  HostKey' = HostKey
BY DEF HostKey

\* A step of one writer outside the disposal that leaves the files and the key alone.
LEMMA QuietKeeps ==
    ASSUME PInv, KInv, NEW w \in Writers, NEW j, Become(w, j),
           job[w].pc \notin Rekey, j.pc \notin Rekey,
           UNCHANGED <<store, keyFile, keyCred, keys, hkEpoch, landed>>, lost \subseteq lost',
           j.pc \in {"bump", "push"} => job[w].pc \in {"bump", "push"} /\ lock' = lock,
           lock' = lock \/ (lock = w /\ lock' = NoLock),
           j.pc \in {"prepare", "prompt", "commit"} => j.hk <= hkEpoch,
           Told => Live(j)
    PROVE  KInv'
<1>1. job'[w] = j /\ \A v \in Writers \ {w} : job'[v] = job[v]
  BY JobMoved
<1>2. Exclusive'
  BY <1>1 DEF KInv, Exclusive
<1>3. EpochSeen'
  BY <1>1 DEF KInv, EpochSeen
<1>4. Disposing => Disposing'
  BY <1>1 DEF Disposing
<1>5. Clearing => Clearing'
  BY <1>1 DEF Clearing, Rekey
<1>6. HostKey' = HostKey
  BY SameKey
<1>7. Told' => RekeyEmpty' /\ SignsLive' /\ Climbs' /\ Minted' /\ Distinct'
  <2> SUFFICES ASSUME Told' PROVE RekeyEmpty' /\ SignsLive' /\ Climbs' /\ Minted' /\ Distinct'
    OBVIOUS
  <2>0. Told /\ RekeyEmpty /\ SignsLive /\ Climbs /\ Minted /\ Distinct
    BY FaultsStay DEF KInv
  <2>1. RekeyEmpty'
    BY <1>1, <2>0 DEF RekeyEmpty
  <2>2. SignsLive'
    BY <1>1, <1>4, <1>6, <2>0 DEF SignsLive, Live
  <2>3. Climbs'
    BY <1>6, <2>0 DEF Climbs, HasBaseline
  <2>4. Minted' /\ Distinct'
    BY <2>0 DEF Minted, Distinct
  <2> QED BY <2>1, <2>2, <2>3, <2>4
<1>8. lost' = {} => BaseLive'
  <2> SUFFICES ASSUME lost' = {} PROVE BaseLive'
    OBVIOUS
  <2>1. BaseLive
    BY FaultsStay DEF KInv
  <2>2. HasBaseline(store') = HasBaseline(store)
    BY DEF HasBaseline
  <2> QED BY <1>1, <1>5, <1>6, <2>1, <2>2 DEF BaseLive, Rekey
<1> QED BY <1>2, <1>3, <1>7, <1>8 DEF KInv

\* With the lock free nobody is in a locked section.
LEMMA LockFree ==
    ASSUME KInv, lock = NoLock
    PROVE  /\ \A v \in Writers : job[v].pc \notin {"bump", "push"} \cup Rekey
           /\ ~Disposing /\ ~Clearing
BY DEF KInv, Exclusive, NoLock, Disposing, Clearing, Rekey

\* The holder of the lock is the only one in a locked section.
LEMMA LockHeld ==
    ASSUME KInv, NEW w \in Writers, lock = w
    PROVE  \A v \in Writers \ {w} : job[v].pc \notin {"bump", "push"} \cup Rekey
BY DEF KInv, Exclusive

\* The landing: the signer is the key in place, and the revision is one past all of its own.
LEMMA LandsKInv ==
    ASSUME PInv, KInv, NEW w \in Writers, Lands(w),
           UNCHANGED <<ring, keyFile, keyCred, keys, hkEpoch, lost>>
    PROVE  KInv'
<1> DEFINE j == job[w]
           n == [key |-> j.key, doc |-> j.doc]
<1>1. /\ j.pc = "commit" /\ lock = NoLock /\ hkEpoch = j.hk /\ lock' = w /\ landed' = landed \cup {n}
      /\ Become(w, [pc |-> "bump", prev |-> store]) /\ Planned(j)
  BY DEF Lands, Land, PInv
<1>2. /\ store' \in Stores /\ store'.kind = "ok" /\ store'.doc = j.doc /\ store'.key = j.key
      /\ j.doc \in Docs /\ j.over = Observation(store)
  BY LandedStore
<1>2a. store.kind = "none" \/ HasBaseline(store)
  BY LandedStore
<1>2b. HasBaseline(store')
  BY LandedStore DEF HasBaseline
<1>3. job'[w].pc = "bump" /\ \A v \in Writers \ {w} : job'[v] = job[v]
  BY <1>1, JobMoved
<1>4. /\ \A v \in Writers : job[v].pc \notin {"bump", "push"} \cup Rekey
      /\ ~Disposing /\ ~Clearing
  BY <1>1, LockFree
<1>5. HostKey' = HostKey
  BY SameKey
<1>6. Exclusive' /\ EpochSeen'
  BY <1>1, <1>3, <1>4 DEF Exclusive, EpochSeen, KInv
<1>7. ASSUME Told' PROVE RekeyEmpty' /\ SignsLive' /\ Climbs' /\ Minted' /\ Distinct'
  <2>0. RekeyEmpty /\ SignsLive /\ Climbs /\ Minted /\ Distinct
    BY <1>7, FaultsStay DEF KInv
  <2>1. j.key # 0 /\ j.key = HostKey
    BY <1>1, <1>4, <2>0 DEF SignsLive, Live
  <2>2. j.doc.revision \in Nat /\ \A a \in landed : a.doc.revision \in Nat
    BY <1>2, LandedStore DEF Docs, PInv, Typed
  <2>3. \A a \in landed : a.key = j.key => a.doc.revision < j.doc.revision
    <3>1. CASE HasBaseline(store)
      <4>1. j.doc.revision = store.doc.revision + 1 /\ store.doc.revision \in Nat
        <5>1. j.over.over = "store" /\ j.over.doc = store.doc
          BY <3>1, LandedStore, SeenTyped DEF PInv, Typed
        <5>2. j.doc.revision = j.over.doc.revision + 1
          BY <1>1, <5>1 DEF Planned
        <5> QED BY <3>1, <5>1, <5>2, BaselineStored, StoreShape DEF PInv, Typed
      <4>2. store.kind # "unreadable"
        BY <3>1 DEF HasBaseline
      <4>3. \A a \in landed : a.key = j.key => a.doc.revision <= store.doc.revision
        BY <2>0, <2>1, <4>2 DEF Climbs
      <4> QED BY <2>2, <4>1, <4>3
    <3>2. CASE ~HasBaseline(store)
      <4>1. store.kind # "unreadable"
        BY <1>2a, <3>2
      <4> QED BY <2>0, <2>1, <3>2, <4>1 DEF Climbs
    <3> QED BY <3>1, <3>2
  <2>4. n.key = j.key /\ n.doc = j.doc
    OBVIOUS
  <2> HIDE DEF n
  <2>5. RekeyEmpty'
    BY <1>3, <1>4 DEF RekeyEmpty, Rekey
  <2>6. SignsLive'
    <3>1. \A v \in Writers \ {w} : Live(job[v])
      BY <2>0 DEF SignsLive
    <3>2. \A v \in Writers : job'[v].pc \in {"prompt", "commit"} /\ job'[v].hk = hkEpoch =>
             job'[v].key # 0 /\ HostKey = job'[v].key
      BY <1>3, <1>4, <3>1 DEF Live
    <3> QED BY <1>5, <3>2 DEF SignsLive, Live
  <2>7. Climbs'
    BY <1>1, <1>2, <1>2b, <1>5, <2>1, <2>2, <2>3, <2>4, LandedStore DEF Climbs
  <2>8. Minted'
    <3>1. j.key \in 1 .. keys
      BY <2>1 DEF HostKey, PInv, Typed
    <3> QED BY <1>1, <2>0, <2>4, <3>1 DEF Minted
  <2>9. Distinct'
    <3>1. \A a \in landed : a.key = n.key => a.doc.revision # n.doc.revision
      BY <2>2, <2>3, <2>4
    <3> QED BY <1>1, <2>0, <3>1, Zenon DEF Distinct
  <2> QED BY <2>5, <2>6, <2>7, <2>8, <2>9
<1>8. ASSUME lost' = {} PROVE BaseLive'
  <2>1. Told
    BY <1>8, FaultsStay DEF Told
  <2>2. j.key # 0 /\ j.key = HostKey
    BY <1>1, <1>4, <2>1 DEF KInv, SignsLive, Live
  <2>3. \A v \in Writers : job'[v].pc # "rekey"
    BY <1>3, <1>4 DEF Rekey
  <2> QED BY <1>5, <2>2, <2>3, LandedStore DEF BaseLive
<1> QED BY <1>6, <1>7, <1>8 DEF KInv

LEMMA TightensKInv ==
    ASSUME PInv, KInv, NEW w \in Writers, NEW o \in Overlays, Tightens(w, o), lock = NoLock,
           UNCHANGED <<keyFile, keyCred, keys, hkEpoch, landed, lost>>
    PROVE  KInv'
<1>1. lock' = w /\ Become(w, [pc |-> "bump", prev |-> store]) /\ store.kind = "ok"
  BY DEF Tightens
<1>2. job'[w].pc = "bump" /\ \A v \in Writers \ {w} : job'[v] = job[v]
  BY <1>1, JobMoved
<1>3. /\ store'.kind = "ok" /\ store'.doc = store.doc /\ store'.key = store.key
      /\ HasBaseline(store) /\ HasBaseline(store')
  BY TightenedStore
<1>4. /\ \A v \in Writers : job[v].pc \notin {"bump", "push"} \cup Rekey
      /\ ~Disposing /\ ~Clearing
  BY LockFree
<1>5. HostKey' = HostKey /\ (Told' => Told) /\ (lost' = {} => lost = {})
  BY SameKey, FaultsStay
<1>6. Exclusive' /\ EpochSeen'
  BY <1>1, <1>2, <1>4 DEF Exclusive, EpochSeen, KInv
<1>7. ASSUME Told' PROVE RekeyEmpty' /\ SignsLive' /\ Climbs' /\ Minted' /\ Distinct'
  <2>0. RekeyEmpty /\ SignsLive /\ Climbs /\ Minted /\ Distinct
    BY <1>5, <1>7 DEF KInv
  <2>1. RekeyEmpty'
    BY <1>2, <1>4 DEF RekeyEmpty, Rekey
  <2>2. SignsLive'
    <3>1. \A v \in Writers : job'[v].pc \in {"prompt", "commit"} /\ job'[v].hk = hkEpoch =>
             job'[v].key # 0 /\ HostKey = job'[v].key
      BY <1>2, <1>4, <2>0 DEF SignsLive, Live
    <3> QED BY <1>5, <3>1 DEF SignsLive, Live
  <2>3. Climbs' /\ Minted' /\ Distinct'
    BY <1>1, <1>3, <1>5, <2>0 DEF Climbs, Minted, Distinct
  <2> QED BY <2>1, <2>2, <2>3
<1>8. ASSUME lost' = {} PROVE BaseLive'
  <2>1. BaseLive
    BY <1>5, <1>8 DEF KInv
  <2>2. \A v \in Writers : job'[v].pc # "rekey"
    BY <1>2, <1>4 DEF Rekey
  <2> QED BY <1>3, <1>4, <1>5, <2>1, <2>2 DEF BaseLive
<1> QED BY <1>6, <1>7, <1>8 DEF KInv

\* A disposal or a mint begins: the lock was free, and unless a fault is named there is no key now.
LEMMA BeginKInv ==
    ASSUME PInv, KInv, NEW w \in Writers, NEW j, Become(w, j), j.pc = "clear", lock = NoLock, lock' = w,
           UNCHANGED <<store, keys, hkEpoch, landed>>, lost \subseteq lost',
           Told' => keyFile' = 0 /\ keyCred' = 0,
           Told' => j.then = "dispose" \/ HostKey = 0
    PROVE  KInv'
<1>1. job'[w] = j /\ \A v \in Writers \ {w} : job'[v] = job[v]
  BY JobMoved
<1>2. /\ \A v \in Writers : job[v].pc \notin {"bump", "push"} \cup Rekey
      /\ ~Disposing
  BY LockFree
<1>3. Exclusive' /\ EpochSeen'
  BY <1>1, <1>2 DEF Exclusive, EpochSeen, KInv
<1>4. ASSUME Told' PROVE RekeyEmpty' /\ SignsLive' /\ Climbs' /\ Minted' /\ Distinct'
  <2>0. RekeyEmpty /\ SignsLive /\ Climbs /\ Minted /\ Distinct
    BY <1>4, FaultsStay DEF KInv
  <2>1. keyFile' = 0 /\ keyCred' = 0 /\ HostKey' = 0
    BY <1>4 DEF HostKey
  <2>2. SignsLive'
    <3>1. \A v \in Writers : job'[v].pc \in {"prompt", "commit"} /\ job'[v].hk = hkEpoch =>
             v # w /\ job'[v].key # 0 /\ HostKey = job'[v].key
      BY <1>1, <1>2, <2>0 DEF SignsLive, Live
    <3>2. CASE j.then = "dispose"
      <4>1. Disposing'
        BY <1>1, <3>2 DEF Disposing, Rekey
      <4> QED BY <3>1, <4>1 DEF SignsLive, Live
    <3>3. CASE HostKey = 0
      BY <3>1, <3>3 DEF SignsLive, Live
    <3> QED BY <1>4, <3>2, <3>3
  <2> QED BY <2>0, <2>1, <2>2 DEF RekeyEmpty, Climbs, Minted, Distinct
<1>5. ASSUME lost' = {} PROVE BaseLive'
  <2>1. Clearing'
    BY <1>1 DEF Clearing
  <2>2. \A v \in Writers : job'[v].pc # "rekey"
    BY <1>1, <1>2 DEF Rekey
  <2> QED BY <2>1, <2>2 DEF BaseLive
<1> QED BY <1>3, <1>4, <1>5 DEF KInv

\* The baseline goes: onto the ring, then out of the store.
LEMMA ClearKInv ==
    ASSUME PInv, KInv, NEW w \in Writers, ClearPush(w) \/ ClearRemove(w)
    PROVE  KInv'
<1> DEFINE q == job'[w].pc
<1>1. /\ job[w].pc \in {"clear", "remove"} /\ job[w] \in Rekeying
      /\ UNCHANGED <<keyFile, keyCred, keys, hkEpoch, lock, landed>> /\ lost \subseteq lost'
  BY JobShape DEF ClearPush, ClearRemove, Lose, trust, PInv, Typed
<1>2. /\ job'[w].then = job[w].then /\ job'[w].pc \in {"remove", "rekey"}
      /\ \A v \in Writers \ {w} : job'[v] = job[v]
  <2>1. PICK r \in {"remove", "rekey"} : Become(w, [job[w] EXCEPT !.pc = r])
    BY DEF ClearPush, ClearRemove
  <2>2. [job[w] EXCEPT !.pc = r].pc = r /\ [job[w] EXCEPT !.pc = r].then = job[w].then
    BY <1>1 DEF Rekeying
  <2> QED BY <2>1, <2>2, JobMoved
<1>3. lock = w /\ \A v \in Writers \ {w} : job[v].pc \notin {"bump", "push"} \cup Rekey
  BY <1>1, LockHeld DEF KInv, Exclusive, Rekey
<1>4. HostKey' = HostKey /\ (Told' => Told) /\ (lost' = {} => lost = {})
  BY <1>1, SameKey, FaultsStay
<1>5. Exclusive' /\ EpochSeen'
  BY <1>1, <1>2, <1>3 DEF Exclusive, EpochSeen, KInv
<1>6. ASSUME Told' PROVE RekeyEmpty' /\ SignsLive' /\ Climbs' /\ Minted' /\ Distinct'
  <2>0. RekeyEmpty /\ SignsLive /\ Minted /\ Distinct
    BY <1>4, <1>6 DEF KInv
  <2>1. keyFile = 0 /\ keyCred = 0 /\ HostKey = 0
    BY <1>1, <2>0 DEF RekeyEmpty, HostKey, Rekey
  <2>2. Disposing => Disposing'
    BY <1>1, <1>2 DEF Disposing, Rekey
  <2>3. SignsLive'
    BY <1>1, <1>2, <1>4, <2>0, <2>2 DEF SignsLive, Live
  <2> QED BY <1>1, <1>4, <2>0, <2>1, <2>3 DEF RekeyEmpty, Climbs, Minted, Distinct
<1>7. ASSUME lost' = {} PROVE BaseLive'
  <2>0. BaseLive /\ store \in Stores
    BY <1>4, <1>7 DEF KInv, PInv, Typed
  <2>1. \A v \in Writers \ {w} : job'[v].pc \notin Rekey
    BY <1>2, <1>3
  <2>2. CASE ClearRemove(w)
    <3>1. store' = Absent
      BY <1>7, <2>2 DEF ClearRemove, Lose
    <3>2. store'.kind = "none" /\ ~HasBaseline(store')
      BY <3>1, IdlePc DEF HasBaseline
    <3> QED BY <3>2 DEF BaseLive
  <2>3. CASE ClearPush(w)
    <3>1. store' = store /\ Loads(store)
      BY <1>7, <2>3 DEF ClearPush
    <3>2. CASE HasBaseline(store)
      <4>1. job'[w].pc = "remove"
        <5>1. Become(w, [job[w] EXCEPT !.pc = "remove"])
          BY <2>3, <3>2 DEF ClearPush
        <5>2. [job[w] EXCEPT !.pc = "remove"].pc = "remove"
          BY <1>1 DEF Rekeying
        <5> QED BY <5>1, <5>2, JobMoved
      <4>2. Clearing'
        BY <4>1 DEF Clearing
      <4> QED BY <2>1, <4>1, <4>2 DEF BaseLive, Rekey
    <3>3. CASE ~HasBaseline(store)
      <4>1. store'.kind = "none" /\ ~HasBaseline(store')
        BY <2>0, <3>1, <3>3, StoreShape DEF Loads, HasBaseline
      <4> QED BY <4>1 DEF BaseLive
    <3> QED BY <3>2, <3>3
  <2> QED BY <2>2, <2>3
<1> QED BY <1>5, <1>6, <1>7 DEF KInv

\* The last step of a disposal or of a mint.
LEMMA EndKInv ==
    ASSUME PInv, KInv, NEW w \in Writers, BumpHostKeyEpoch(w) \/ MintKey(w)
    PROVE  KInv'
<1>1. /\ job[w].pc = "rekey" /\ lock' = NoLock /\ Become(w, Idle)
      /\ UNCHANGED <<store, landed>> /\ lost \subseteq lost'
  BY DEF BumpHostKeyEpoch, MintKey, Done, Lose, files, aux
<1>2. job'[w] = Idle /\ job'[w].pc = "idle" /\ \A v \in Writers \ {w} : job'[v] = job[v]
  BY <1>1, JobMoved, IdlePc
<1>3. lock = w /\ \A v \in Writers \ {w} : job[v].pc \notin {"bump", "push"} \cup Rekey
  BY <1>1, LockHeld DEF KInv, Exclusive, Rekey
<1>4. Exclusive'
  BY <1>2, <1>3 DEF Exclusive, Rekey
<1>5. hkEpoch \in Nat /\ hkEpoch' \in Nat /\ hkEpoch <= hkEpoch'
  BY DEF BumpHostKeyEpoch, MintKey, trust, PInv, Typed
<1>6. \A v \in Writers : job[v].pc \in {"prepare", "prompt", "commit"} => job[v].hk \in Nat
  BY JobShape DEF PInv, Typed, Planning, Prompting
<1>7. EpochSeen'
  <2> SUFFICES ASSUME NEW v \in Writers, job'[v].pc \in {"prepare", "prompt", "commit"}
               PROVE  job'[v].hk <= hkEpoch'
    BY DEF EpochSeen
  <2>1. v # w /\ job'[v] = job[v]
    BY <1>2
  <2>2. job[v].hk <= hkEpoch /\ job[v].hk \in Nat
    BY <1>6, <2>1 DEF KInv, EpochSeen
  <2> QED BY <1>5, <2>1, <2>2
<1>8. ASSUME Told' PROVE RekeyEmpty' /\ SignsLive' /\ Climbs' /\ Minted' /\ Distinct'
  <2>0. RekeyEmpty /\ SignsLive /\ Minted /\ Distinct
    BY <1>1, <1>8, FaultsStay DEF KInv
  <2>1. keyFile = 0 /\ keyCred = 0 /\ HostKey = 0
    BY <1>1, <2>0 DEF RekeyEmpty, HostKey, Rekey
  <2>2. RekeyEmpty'
    BY <1>2, <1>3 DEF RekeyEmpty, Rekey
  <2>3. CASE BumpHostKeyEpoch(w)
    <3>1. hkEpoch' = hkEpoch + 1 /\ UNCHANGED <<keyFile, keyCred, keys>>
      BY <1>8, <2>3 DEF BumpHostKeyEpoch, Lose, Told, files
    <3>2. SignsLive'
      <4> SUFFICES ASSUME NEW v \in Writers, job'[v].pc \in {"prompt", "commit"} PROVE job'[v].hk # hkEpoch'
        BY DEF SignsLive, Live
      <4>1. v # w /\ job'[v] = job[v]
        BY <1>2
      <4>2. job[v].hk <= hkEpoch /\ job[v].hk \in Nat
        BY <1>6, <4>1 DEF KInv, EpochSeen
      <4> QED BY <1>5, <3>1, <4>1, <4>2
    <3>3. HostKey' = 0
      BY <2>1, <3>1 DEF HostKey
    <3> QED BY <1>1, <2>0, <2>2, <3>1, <3>2, <3>3 DEF Climbs, Minted, Distinct
  <2>4. CASE MintKey(w)
    <3>1. job[w].then # "dispose" /\ keys \in Nat /\ keys' = keys + 1 /\ HostKey' = keys + 1 /\ hkEpoch' = hkEpoch
      BY <2>1, <2>4 DEF MintKey, HostKey, trust, PInv, Typed
    <3>2. ~Disposing
      BY <1>3, <3>1 DEF Disposing
    <3>3. SignsLive'
      <4> SUFFICES ASSUME NEW v \in Writers, job'[v].pc \in {"prompt", "commit"} PROVE job'[v].hk # hkEpoch'
        BY DEF SignsLive, Live
      <4>1. v # w /\ job'[v] = job[v]
        BY <1>2
      <4> QED BY <2>0, <2>1, <3>1, <3>2, <4>1 DEF SignsLive, Live
    <3>4. \A a \in landed : a.key \in 1 .. keys /\ a.key # keys + 1
      BY <2>0, <3>1 DEF Minted
    <3>5. Climbs' /\ Minted' /\ Distinct'
      BY <1>1, <2>0, <3>1, <3>4 DEF Climbs, Minted, Distinct
    <3> QED BY <2>2, <3>3, <3>5
  <2> QED BY <2>3, <2>4
<1>9. ASSUME lost' = {} PROVE BaseLive'
  <2>1. BaseLive
    BY <1>1, <1>9, FaultsStay DEF KInv
  <2>2. store'.kind = "none" /\ ~HasBaseline(store')
    BY <1>1, <2>1 DEF BaseLive, HasBaseline
  <2> QED BY <2>2 DEF BaseLive
<1> QED BY <1>4, <1>7, <1>8, <1>9 DEF KInv

LEMMA CrashKInv ==
    ASSUME PInv, KInv, NEW w \in Writers, Crash(w)
    PROVE  KInv'
<1>1. /\ Become(w, Idle) /\ lock' = (IF lock = w THEN NoLock ELSE lock)
      /\ UNCHANGED <<store, keyFile, keyCred, keys, hkEpoch, landed>> /\ lost \subseteq lost'
  BY DEF Crash, Done, Lose, files, trust
<1>2. CASE job[w].pc \notin Rekey
  <2>1. Live(Idle)
    BY IdlePc DEF Live
  <2> QED BY <1>1, <1>2, <2>1, QuietKeeps, IdlePc DEF Rekey
<1>3. CASE job[w].pc \in Rekey
  <2>1. "bump" \in lost'
    BY <1>3 DEF Crash, Lose, Rekey
  <2>2. ~Told' /\ lost' # {}
    BY <2>1 DEF Told
  <2>3. job'[w].pc = "idle" /\ \A v \in Writers \ {w} : job'[v] = job[v]
    BY <1>1, JobMoved, IdlePc
  <2>4. Exclusive' /\ EpochSeen'
    BY <1>1, <2>3 DEF Exclusive, EpochSeen, KInv, Rekey
  <2> QED BY <2>2, <2>4 DEF KInv
<1> QED BY <1>2, <1>3

LEMMA DamageKInv ==
    ASSUME PInv, KInv, Damage
    PROVE  KInv'
<1>1. /\ store'.kind \in {"unreadable", "tampered"} /\ store.kind = "ok"
      /\ store'.doc = store.doc /\ store'.key = store.key
      /\ UNCHANGED <<keyFile, keyCred, keys, hkEpoch, lock, job, landed, lost>>
  BY DamageKeeps
<1>2. HostKey' = HostKey /\ Told' = Told /\ Disposing' = Disposing /\ Clearing' = Clearing
  BY <1>1 DEF HostKey, Told, Disposing, Clearing
<1>3. HasBaseline(store) /\ (store'.kind = "unreadable" \/ HasBaseline(store'))
  BY <1>1 DEF HasBaseline
<1>4. Exclusive' /\ EpochSeen'
  BY <1>1 DEF KInv, Exclusive, EpochSeen
<1>5. ASSUME Told' PROVE RekeyEmpty' /\ SignsLive' /\ Climbs' /\ Minted' /\ Distinct'
  <2>0. RekeyEmpty /\ SignsLive /\ Climbs /\ Minted /\ Distinct
    BY <1>2, <1>5 DEF KInv
  <2>1. RekeyEmpty' /\ SignsLive'
    BY <1>1, <1>2, <2>0 DEF RekeyEmpty, SignsLive, Live
  <2>2. Climbs' /\ Minted' /\ Distinct'
    BY <1>1, <1>2, <1>3, <2>0 DEF Climbs, Minted, Distinct
  <2> QED BY <2>1, <2>2
<1>6. ASSUME lost' = {} PROVE BaseLive'
  <2>1. BaseLive
    BY <1>1, <1>6 DEF KInv
  <2> QED BY <1>1, <1>2, <1>3, <2>1 DEF BaseLive
<1> QED BY <1>4, <1>5, <1>6 DEF KInv

LEMMA NextKInv == PInv /\ KInv /\ [Next]_vars => KInv'
<1> SUFFICES ASSUME PInv, KInv, [Next]_vars PROVE KInv'
  OBVIOUS
<1>0. Idle.pc = "idle" /\ Live(Idle)
  BY IdlePc DEF Live
<1>1. CASE UNCHANGED vars
  <2>1. UNCHANGED <<store, keyFile, keyCred, keys, hkEpoch, lock, job, landed, lost>>
    BY <1>1 DEF vars, files, trust, aux
  <2>2. HostKey' = HostKey /\ Told' = Told /\ Disposing' = Disposing /\ Clearing' = Clearing
    BY <2>1 DEF HostKey, Told, Disposing, Clearing
  <2> QED BY <2>1, <2>2 DEF KInv, Exclusive, EpochSeen, RekeyEmpty, SignsLive, Live, Climbs, Minted,
             Distinct, BaseLive, HasBaseline
<1>2. ASSUME NEW w \in Writers, NEW o \in Requests, PlanGrant(w, o) PROVE KInv'
  <2>1. PICK j : /\ Become(w, j) /\ j.pc = "epoch" /\ job[w].pc = "idle"
                 /\ UNCHANGED <<store, keyFile, keyCred, keys, hkEpoch, landed, lost, lock>>
    BY <1>2 DEF PlanGrant, files, trust, aux
  <2> QED BY <2>1, QuietKeeps DEF Rekey, Live
<1>3. ASSUME NEW w \in Writers, NEW o \in Requests, Restrict(w, o) PROVE KInv'
  <2>1. CASE Tightens(w, o)
    BY <1>3, <2>1, TightensKInv, RestrictCases, OverlayTyped
  <2>2. CASE Become(w, Idle) /\ UNCHANGED <<store, stamped, writes, lock>>
    BY <1>0, <1>3, <2>2, QuietKeeps, RestrictCases DEF Rekey
  <2> QED BY <1>3, <2>1, <2>2, RestrictCases
<1>4. ASSUME NEW w \in Writers, NEW e, NEW byId, RollbackInputs(w, e, byId) PROVE KInv'
  <2> DEFINE j == RollbackJob(PlanRollback(EntryEffective(e), Effective(store), Baseline(store)),
                              Observation(store), EntryEffective(e))
  <2>1. /\ Become(w, j) /\ job[w].pc = "idle"
        /\ UNCHANGED <<store, keyFile, keyCred, keys, hkEpoch, landed, lost, lock>>
    BY <1>4 DEF RollbackInputs, files, trust, aux
  <2>2. j.pc \in {"confirm", "restrict", "epoch"}
    BY DEF RollbackJob, PlanRollback
  <2> HIDE DEF j
  <2> QED BY <2>1, <2>2, QuietKeeps DEF Rekey, Live
<1>5. ASSUME NEW w \in Writers, ConfirmUnmoved(w) PROVE KInv'
  BY <1>0, <1>5, QuietKeeps DEF ConfirmUnmoved, Done, files, trust, aux, Rekey
<1>6. ASSUME NEW w \in Writers, ReadHostKeyEpoch(w) PROVE KInv'
  <2> DEFINE j == [job[w] EXCEPT !.pc = "prepare", !.hk = hkEpoch]
  <2>1. /\ Become(w, j) /\ job[w].pc = "epoch" /\ job[w] \in Planning /\ hkEpoch \in Nat
        /\ UNCHANGED <<store, keyFile, keyCred, keys, hkEpoch, landed, lost, lock>>
    BY <1>6, JobShape DEF ReadHostKeyEpoch, files, trust, aux, PInv, Typed
  <2>2. j.pc = "prepare" /\ j.hk = hkEpoch
    BY <2>1 DEF Planning
  <2> HIDE DEF j
  <2>3. j.hk <= hkEpoch
    BY <2>1, <2>2
  <2> QED BY <2>1, <2>2, <2>3, QuietKeeps DEF Rekey, Live
<1>7. ASSUME NEW w \in Writers, PrepareGrant(w) PROVE KInv'
  <2>1. /\ job[w].pc = "prepare" /\ job[w].hk <= hkEpoch
        /\ UNCHANGED <<store, keyFile, keyCred, keys, hkEpoch, landed, lost, lock>>
    BY <1>7 DEF PrepareGrant, files, trust, aux, KInv, EpochSeen
  <2>2. CASE Become(w, Idle)
    BY <1>0, <2>1, <2>2, QuietKeeps DEF Rekey
  <2>3. CASE ~Become(w, Idle)
    <3>1. PICK j : Become(w, j) /\ j.pc = "prompt" /\ j.hk = job[w].hk /\ j.key = HostKey /\ HostKey # 0
      BY <1>7, <2>3 DEF PrepareGrant, Done
    <3> QED BY <2>1, <3>1, QuietKeeps DEF Rekey, Live
  <2> QED BY <2>2, <2>3
<1>8. ASSUME NEW w \in Writers, Attest(w) PROVE KInv'
  <2> DEFINE j == [job[w] EXCEPT !.pc = "commit"]
  <2>1. /\ job[w].pc = "prompt" /\ job[w] \in Prompting /\ job[w].hk <= hkEpoch /\ (Told => Live(job[w]))
        /\ UNCHANGED <<store, keyFile, keyCred, keys, hkEpoch, landed, lost, lock>>
    BY <1>8, JobShape DEF Attest, files, trust, aux, PInv, Typed, KInv, EpochSeen, SignsLive
  <2>2. j.pc = "commit" /\ j.hk = job[w].hk /\ j.key = job[w].key
    BY <2>1 DEF Prompting
  <2>3. CASE Become(w, Idle)
    BY <1>0, <2>1, <2>3, QuietKeeps DEF Rekey
  <2>4. CASE Become(w, j)
    <3> HIDE DEF j
    <3> QED BY <2>1, <2>2, <2>4, QuietKeeps DEF Rekey, Live
  <2> QED BY <1>8, <2>3, <2>4 DEF Attest, Declined, Done
<1>9. ASSUME NEW w \in Writers, WriteBaseline(w) PROVE KInv'
  <2>1. CASE Lands(w)
    BY <1>9, <2>1, LandsKInv, WriteBaselineCases
  <2>2. CASE Become(w, Idle) /\ UNCHANGED <<store, stamped, writes, landed, lock>>
    BY <1>0, <1>9, <2>2, QuietKeeps, WriteBaselineCases DEF Rekey
  <2> QED BY <1>9, <2>1, <2>2, WriteBaselineCases
<1>10. ASSUME NEW w \in Writers, RestrictPlanned(w) PROVE KInv'
  <2>1. job[w].overlay \in Overlays
    BY <1>10, RestrictPlannedCases, JobShape DEF PInv, Typed, Tightening
  <2>2. CASE Tightens(w, job[w].overlay)
    BY <1>10, <2>1, <2>2, TightensKInv, RestrictPlannedCases
  <2>3. CASE Become(w, Idle) /\ UNCHANGED <<store, stamped, writes, lock>>
    BY <1>0, <1>10, <2>3, QuietKeeps, RestrictPlannedCases DEF Rekey
  <2> QED BY <1>10, <2>2, <2>3, RestrictPlannedCases
<1>11. ASSUME NEW w \in Writers, BumpPolicyEpoch(w) PROVE KInv'
  <2> DEFINE j == [job[w] EXCEPT !.pc = "push"]
  <2>1. /\ Become(w, j) /\ job[w].pc = "bump" /\ job[w] \in Wrapping /\ lost \subseteq lost'
        /\ UNCHANGED <<store, keyFile, keyCred, keys, hkEpoch, landed, lock>>
    BY <1>11, JobShape DEF BumpPolicyEpoch, Lose, files, PInv, Typed
  <2>2. j.pc = "push"
    BY <2>1 DEF Wrapping
  <2> HIDE DEF j
  <2> QED BY <2>1, <2>2, QuietKeeps DEF Rekey, Live
<1>12. ASSUME NEW w \in Writers, PushHistory(w) PROVE KInv'
  <2>1. /\ Become(w, Idle) /\ job[w].pc = "push" /\ lock' = NoLock /\ lock = w
        /\ UNCHANGED <<store, keyFile, keyCred, keys, hkEpoch, landed, lost>>
    BY <1>12 DEF PushHistory, Done, trust, aux, KInv, Exclusive
  <2> QED BY <1>0, <2>1, QuietKeeps DEF Rekey
<1>13. ASSUME NEW w \in Writers, Revoke(w) PROVE KInv'
  <2> DEFINE j == [pc |-> "clear", then |-> "dispose"]
  <2>1. /\ Become(w, j) /\ lock = NoLock /\ lock' = w /\ UNCHANGED <<store, keys, hkEpoch, landed>>
        /\ lost \subseteq lost' /\ keyFile' = 0 /\ (keyCred' = 0 \/ "unanswered" \in lost')
    BY <1>13 DEF Revoke, Lose, trust
  <2>2. j.pc = "clear" /\ j.then = "dispose" /\ (Told' => keyCred' = 0)
    BY <2>1 DEF Told
  <2> HIDE DEF j
  <2> QED BY <2>1, <2>2, BeginKInv
<1>14. ASSUME NEW w \in Writers, NEW p \in {"file", "cred"}, MintCheck(w, p) PROVE KInv'
  <2> DEFINE j == [pc |-> "clear", then |-> p]
  <2>1. /\ Become(w, j) /\ lock = NoLock /\ lock' = w
        /\ UNCHANGED <<store, keys, hkEpoch, landed, keyFile, keyCred>>
        /\ lost \subseteq lost' /\ keyFile = 0 /\ (keyCred = 0 \/ "unanswered" \in lost')
    BY <1>14 DEF MintCheck, Lose, trust, files
  <2>2. j.pc = "clear" /\ (Told' => keyCred = 0 /\ HostKey = 0)
    BY <2>1 DEF Told, HostKey
  <2> HIDE DEF j
  <2> QED BY <2>1, <2>2, BeginKInv
<1>15. ASSUME NEW w \in Writers, \E i \in DOMAIN ring, byId \in BOOLEAN : RollbackInputs(w, ring[i], byId)
       PROVE  KInv'
  BY <1>4, <1>15
<1> QED
  BY <1>1, <1>2, <1>3, <1>5, <1>6, <1>7, <1>8, <1>9, <1>10, <1>11, <1>12, <1>13, <1>14, <1>15,
     ClearKInv, EndKInv, CrashKInv, DamageKInv DEF Next

LEMMA KeyInvariant == Spec => []KInv
<1>1. Init => PInv /\ KInv
  BY InitPInv, InitKInv
<1>2. PInv /\ KInv /\ [Next]_vars => (PInv /\ KInv)'
  BY NextPInv, NextKInv
<1> QED BY <1>1, <1>2, PTL DEF Spec

\* RevisionUnique, for any number of writers, keys and disposals: unless a disposal left its key
\* behind or went untold, no two baselines are signed with one revision under one key.
THEOREM PolicyRevisionUnique == Spec => []RevisionUnique
<1>1. KInv => RevisionUnique
  BY DEF KInv, Told, Distinct, RevisionUnique
<1> QED BY <1>1, KeyInvariant, PTL

\* NoDeadKeyBaseline, for any number of writers, keys and disposals: without faults, the baseline a
\* reader finds with the lock free is signed by the key in place.
THEOREM PolicyNoDeadKey == Spec => []NoDeadKeyBaseline
<1>1. KInv => NoDeadKeyBaseline
  BY LockFree DEF KInv, BaseLive, NoDeadKeyBaseline, HasBaseline
<1> QED BY <1>1, KeyInvariant, PTL

============================================================================
