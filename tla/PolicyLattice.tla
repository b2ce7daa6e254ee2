--------------------------- MODULE PolicyLattice ---------------------------
(***************************************************************************)
(* The host-owned policy as a value (policy/mod.rs, policy/plan.rs): the   *)
(* catalogue of fields with the direction each one grants in, the one      *)
(* comparison every verdict reads from, the restriction overlay folded     *)
(* over the signed baseline, and the plan of a rollback.  Pure: the store  *)
(* that keeps these values is PolicyHost.                                  *)
(*                                                                         *)
(* A policy is a function on Fields, an overlay a function on a subset of  *)
(* them (an absent entry is outside its domain).  The tool list is the set *)
(* it is everywhere in the code.                                           *)
(***************************************************************************)
EXTENDS Integers, FiniteSets

CONSTANTS TrueFields,     \* BoolPole::TruePermissive, the capability grants
          FalseFields,    \* BoolPole::FalsePermissive, the confirmations
          GrowFields,     \* MsOrder::GrowsPermissive
          ZeroTopFields,  \* MsOrder::GrowsPermissiveZeroTop
          ToolFields,     \* Direction::ShrinksPermissiveSet
          Tools,          \* the tool names a deny list may carry
          MsMax,          \* bound: the largest window (Ms is under 2^53)
          RevMax,         \* bound: JS_SAFE_INT_MAX
          ToolsMax        \* bound: DISABLED_TOOLS_MAX_ENTRIES

BoolFields == TrueFields \cup FalseFields
MsFields   == GrowFields \cup ZeroTopFields
Fields     == BoolFields \cup MsFields \cup ToolFields

ASSUME CatalogueAssumption ==
    /\ TrueFields \cap FalseFields = {}
    /\ GrowFields \cap ZeroTopFields = {}
    /\ BoolFields \cap MsFields = {}
    /\ (BoolFields \cup MsFields) \cap ToolFields = {}
    /\ MsMax \in Nat /\ RevMax \in Nat /\ ToolsMax \in Nat

Ms == 0 .. MsMax

\* FieldKind: what a field may hold.
Value(f) == IF f \in BoolFields THEN {"on", "off"}
            ELSE IF f \in MsFields THEN Ms
            ELSE SUBSET Tools

IsValues(v) == /\ v = [f \in Fields |-> v[f]]
               /\ \A f \in Fields : v[f] \in Value(f)

IsOverlay(o) == /\ o = [f \in DOMAIN o |-> o[f]]
                /\ DOMAIN o \subseteq Fields
                /\ \A f \in DOMAIN o : o[f] \in Value(f)

NoOverlay == [f \in {} |-> "off"]

\* A signed document without its bytes: two documents are one when they agree here.
IsDoc(d) == /\ d.revision \in Nat
            /\ d.touched \subseteq Fields
            /\ IsValues(d.values)

\* The deny baseline: every grant off, every confirmation on, no tool denied; the re-verification
\* window 0 (never) is the decided exception, the other windows keep a usability default.
DefaultValues ==
    [f \in Fields |-> IF f \in TrueFields THEN "off"
                      ELSE IF f \in FalseFields THEN "on"
                      ELSE IF f \in ZeroTopFields THEN 0
                      ELSE IF f \in GrowFields THEN MsMax
                      ELSE {}]

----------------------------------------------------------------------------
(* The comparison.                                                         *)

\* 0 means never re-verify, the most permissive window: it ranks above every real one.
ZeroTopRank(ms) == IF ms = 0 THEN MsMax + 1 ELSE ms

\* candidate c moves field f toward its permissive pole relative to the anchor a.
FieldRelaxes(f, c, a) ==
    \/ f \in TrueFields    /\ c[f] = "on"  /\ a[f] = "off"
    \/ f \in FalseFields   /\ c[f] = "off" /\ a[f] = "on"
    \/ f \in GrowFields    /\ c[f] > a[f]
    \/ f \in ZeroTopFields /\ ZeroTopRank(c[f]) > ZeroTopRank(a[f])
    \/ f \in ToolFields    /\ ~(a[f] \subseteq c[f])

FieldDiffers(f, a, b) == FieldRelaxes(f, a, b) \/ FieldRelaxes(f, b, a)

Relaxes(c, a)          == \E f \in Fields : FieldRelaxes(f, c, a)
RestrictsOrEqual(c, a) == ~Relaxes(c, a)

\* PartialEq for PolicyValues: equal under the lattice.
SameValues(a, b) == \A f \in Fields : ~FieldDiffers(f, a, b)

\* Every field c relaxes relative to a is named in touched.
RelaxesOnly(c, a, touched) == \A f \in Fields : FieldRelaxes(f, c, a) => f \in touched

----------------------------------------------------------------------------
(* Overlays.                                                               *)

\* The baseline under the overlay's present entries.
Fold(base, o) == [f \in Fields |-> IF f \in DOMAIN o THEN o[f] ELSE base[f]]

\* The fields an overlay names: what a `policy set` tells the tap it edits.
TouchedFields(o) == DOMAIN o

\* What a grant leaves of the stored overlay: the entries on the fields it did not touch.
RetainedOverlay(o, touched) == [f \in DOMAIN o \ touched |-> o[f]]

\* A present entry of arg wins, an absent one keeps the stored entry.
MergeOverlay(stored, arg) ==
    [f \in DOMAIN stored \cup DOMAIN arg |-> IF f \in DOMAIN arg THEN arg[f] ELSE stored[f]]

ValidTools(v) == \A f \in ToolFields : Cardinality(v[f]) <= ToolsMax

\* PolicyDoc::validate: the revision fits the JS-safe bound and the deny list its own.
ValidDoc(d) == d.revision <= RevMax /\ ValidTools(d.values)

\* restrict_locked's bound on the merged overlay's own deny list.
ValidOverlay(o) == \A f \in ToolFields \cap DOMAIN o : Cardinality(o[f]) <= ToolsMax

----------------------------------------------------------------------------
(* The plan of a rollback: the past effective policy against the current.  *)

DiffFields(target, current)  == {f \in Fields : FieldDiffers(f, target, current)}
DiffOverlay(target, current) == [f \in DiffFields(target, current) |-> target[f]]

\* copy_field over the changed fields: the CURRENT baseline with only those set to the target.
RelaxedBaseline(target, current, baseline) ==
    [f \in Fields |-> IF f \in DiffFields(target, current) THEN target[f] ELSE baseline[f]]

PlanRollback(target, current, baseline) ==
    LET diff == DiffFields(target, current) IN
    IF diff = {} THEN [arm |-> "no_change"]
    ELSE IF RestrictsOrEqual(target, current)
         THEN [arm |-> "tighten", overlay |-> DiffOverlay(target, current)]
         ELSE [arm |-> "relax", values |-> RelaxedBaseline(target, current, baseline),
               touched |-> diff]

============================================================================
