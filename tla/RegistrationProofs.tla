------------------------- MODULE RegistrationProofs -------------------------
(***************************************************************************)
(* Proofs about Registration: no browser announces another's label, no     *)
(* lone command leaves a manifest of ours launching nothing, and what a    *)
(* command reports is what the browsers then find.                         *)
(*                                                                         *)
(* A command is alone or its guarantees are void, so the invariant has two *)
(* halves: what every location of ours looks like whoever wrote it         *)
(* (Placed, Honest), and what a lone command has done and has left to do   *)
(* (Repaired, Removed).                                                    *)
(***************************************************************************)
EXTENDS Registration, TLAPS

Entry(V) == [kind : {"absent", "foreign", "rooted", "bare", "dangling", "blocked"}]
            \cup [kind : {"ours"}, holds : V]

Names       == Browsers \cup Dirs \cup {"store", "none"}
RegShape    == [scope : Scopes, at : Scopes \X Names, keyed : BOOLEAN, own : Names]
TargetShape == [reg : RegShape, label : Browsers \cup {"none"}, ptrs : SUBSET PtrPlaces]

\* What an uninstall may report it could not read.
Readings == {"file", "key", "pointer", "wrapper"} \X (Scopes \X (Names \cup {"all"}))

FixPhases  == {"judge", "dirs", "wrapper", "manifest", "delkey", "key", "pointers", "finish"}
RmPhases   == {"judge", "rmkey", "rmfile", "rmpointers", "finish"}

Jobs == [cmd : {"fix", "uninstall"}, scope : Scopes, replace : BOOLEAN, todo : SUBSET TargetShape,
         now : TargetShape, pc : FixPhases \cup RmPhases, ptrs : SUBSET PtrPlaces,
         rekey : BOOLEAN, bad : BOOLEAN, alone : BOOLEAN, failed : SUBSET Places,
         unread : SUBSET Readings,
         kept : SUBSET WrapPlaces, regs : SUBSET RegShape, dirs : SUBSET Dirs]

SlotsType ==
    /\ file \in [Places -> Entry(WrapPlaces \cup {Exe})]
    /\ key \in [KeyPlaces -> Entry({"manifest"})]
    /\ ptr \in [PtrPlaces -> Entry({"store_url"})]
    /\ wrap \in [WrapPlaces -> Entry(Browsers \cup {"none"})]

TypeOK ==
    /\ os \in {"macos", "linux", "windows"}
    /\ SlotsType
    /\ job \in [Procs -> {Idle} \cup Jobs]
    /\ faults \in Nat

----------------------------------------------------------------------------
(* Whose a location is.  All of it depends on the operating system only.   *)

\* The registrations of a scope's browsers, the directories named by hand, the pointers.
BrowserRegs == [s \in Scopes |-> {RegistrationOf(s, b) : b \in Browsers}]
DirRegs     == [s \in Scopes |-> IF s = "user" THEN {DirRegistration("user", d) : d \in Dirs} ELSE {}]
Regs        == [s \in Scopes |-> BrowserRegs[s] \cup DirRegs[s]]
Ptrs        == [s \in Scopes |-> UNION {Pointers(s, b) : b \in Browsers}]

\* The browsers that alone read their directory.
Sole == [s \in Scopes |-> {b \in Browsers : Label(s, b) = b}]

\* A target's label is none, or the one browser that reads the target's directory.
Targets == [s \in Scopes |->
              {t \in TargetShape : /\ t.reg \in Regs[s] /\ t.ptrs \subseteq Ptrs[s]
                                   /\ t.label = "none" \/ (t.label = t.reg.own /\ t.label \in Sole[s])}]

Placed ==
    /\ \A l \in Places : file[l].kind = "ours" => \E r \in Regs[l[1]] : r.at = l
    /\ \A k \in KeyPlaces : key[k].kind = "ours" => \E r \in BrowserRegs[k[1]] : r.keyed /\ KeyOf(r) = k
    /\ \A l \in PtrPlaces : ptr[l].kind = "ours" => l \in Ptrs[l[1]]

\* A wrapper carries the label its name says; a manifest launches the binary, the wrapper without a
\* label, or the one of the only browser that reads it.
Honest ==
    /\ \A w \in WrapPlaces : wrap[w].kind = "ours" => wrap[w].holds = w[2]
    /\ \A l \in Places : file[l].kind = "ours" =>
          \/ file[l].holds \in {Exe, <<l[1], "none">>}
          \/ file[l].holds = l /\ l[2] \in Sole[l[1]]

----------------------------------------------------------------------------
(* What a command is at.                                                   *)

Between(j) == j.pc \in {"judge", "finish"}

Plan(j) ==
    /\ j.todo \subseteq Targets[j.scope]
    /\ ~Between(j) => j.now \in Targets[j.scope]
    /\ j.pc = "finish" => j.todo = {}
    /\ j.ptrs \subseteq Ptrs[j.scope]
    /\ Between(j) => j.ptrs = {}
    /\ j.pc \in {"delkey", "key", "rmkey"} => j.now.reg.keyed
    /\ j.pc = "wrapper" => ~j.now.reg.keyed
    /\ j.pc \in (IF j.cmd = "fix" THEN FixPhases ELSE RmPhases)
    /\ j.regs \subseteq Regs[j.scope]
    /\ j.failed # {} => j.bad
    /\ \A w \in j.kept : j.bad \/ <<"wrapper", w>> \in j.unread
    /\ j.scope = "user" \/ j.dirs = {}

Solitary(p) == job[p].alone => \A q \in Procs \ {p} : ~Active(q)

FileOK(r) == file[r.at].kind = "ours" /\ Launches(file[r.at].holds)
KeyOK(r)  == r.keyed => key[KeyOf(r)].kind = "ours"

\* A lone repair: what the current target has so far, and that every registration it serves is in
\* order, current or still to come.
Repaired(j) ==
    j.cmd = "fix" /\ j.alone =>
      /\ j.pc = "manifest" /\ ~j.now.reg.keyed => wrap[Wrapper(j.now)].kind # "absent"
      /\ j.pc \in {"delkey", "key", "pointers"} => FileOK(j.now.reg)
      /\ j.pc = "pointers" => KeyOK(j.now.reg)
      /\ ~j.bad => \A r \in j.regs : \/ FileOK(r) /\ KeyOK(r)
                                     \/ \E t \in j.todo : t.reg = r
                                     \/ ~Between(j) /\ j.now.reg = r

\* A lone uninstall: what is ours in its scope is reported, out of its reach or still to come.
FileLeft(j, l) ==
    \/ l \in j.failed \/ <<"file", l>> \in j.unread \/ l[2] \in Dirs \ j.dirs
    \/ \E t \in j.todo : t.reg.at = l
    \/ j.now.reg.at = l /\ (j.pc = "rmfile" \/ (j.pc = "rmkey" /\ j.rekey))
KeyLeft(j, k) ==
    \/ j.bad \/ <<"key", k>> \in j.unread
    \/ \E t \in j.todo : t.reg.keyed /\ KeyOf(t.reg) = k
    \/ j.pc = "rmkey" /\ KeyOf(j.now.reg) = k
PtrLeft(j, l) ==
    \/ j.bad \/ <<"pointer", l>> \in j.unread
    \/ (\E t \in j.todo : l \in t.ptrs) \/ l \in j.ptrs

Removed(j) ==
    j.cmd = "uninstall" /\ j.alone =>
      /\ \A l \in Places : l[1] = j.scope /\ file[l].kind = "ours" => FileLeft(j, l)
      /\ \A k \in KeyPlaces : k[1] = j.scope /\ key[k].kind = "ours" => KeyLeft(j, k)
      /\ \A l \in PtrPlaces : l[1] = j.scope /\ ptr[l].kind = "ours" => PtrLeft(j, l)

JobInv(p) == Active(p) => Plan(job[p]) /\ Solitary(p) /\ Repaired(job[p]) /\ Removed(job[p])

RInv == TypeOK /\ Placed /\ Honest /\ \A p \in Procs : JobInv(p)

----------------------------------------------------------------------------
(* Lemmas about where browsers look.                                       *)

LEMMA Pair ==
    ASSUME NEW S, NEW T, NEW l \in S \X T
    PROVE  l = <<l[1], l[2]>> /\ l[1] \in S /\ l[2] \in T
OBVIOUS

LEMMA LookupFixed ==
    ASSUME os' = os
    PROVE  /\ \A s : ReadsChrome(s)' = ReadsChrome(s)
           /\ \A s, b : RegistrationOf(s, b)' = RegistrationOf(s, b)
           /\ \A s, b : Pointers(s, b)' = Pointers(s, b)
           /\ \A s, b : Label(s, b)' = Label(s, b)
<1>1. \A s : ReadsChrome(s)' = ReadsChrome(s)
  BY DEF ReadsChrome
<1>2. \A s, b : Owner(s, b)' = Owner(s, b)
  BY <1>1 DEF Owner
<1>3. \A s, b : Readers(s, b)' = Readers(s, b)
  BY <1>1 DEF Readers
<1>4. \A s, b : RegistrationOf(s, b)' = RegistrationOf(s, b)
  BY <1>2 DEF RegistrationOf
<1>5. \A s, b : Pointers(s, b)' = Pointers(s, b)
  BY <1>2 DEF Pointers
<1>6. \A s, b : Label(s, b)' = Label(s, b)
  BY <1>2, <1>3 DEF Label
<1> QED BY <1>1, <1>4, <1>5, <1>6

LEMMA PlacesFixed ==
    ASSUME os' = os
    PROVE  /\ BrowserRegs' = BrowserRegs /\ Regs' = Regs /\ Ptrs' = Ptrs /\ Sole' = Sole
           /\ Targets' = Targets
<1>1. BrowserRegs' = BrowserRegs
  BY LookupFixed DEF BrowserRegs
<1>2. Regs' = Regs
  BY <1>1 DEF Regs, DirRegs
<1>3. Ptrs' = Ptrs
  BY LookupFixed DEF Ptrs
<1>4. Sole' = Sole
  BY LookupFixed DEF Sole
<1>5. Targets' = Targets
  BY <1>2, <1>3, <1>4 DEF Targets
<1> QED BY <1>1, <1>2, <1>3, <1>4, <1>5

\* Every registration is a place of its scope; a keyed one is told by its owner.
LEMMA RegFacts ==
    ASSUME TypeOK, NEW s \in Scopes, NEW r \in Regs[s]
    PROVE  /\ r \in RegShape /\ r.scope = s /\ r.at \in Places /\ r.at[1] = s
           /\ r.keyed => r.at = <<s, "store">> /\ r.own \in Browsers /\ r \in BrowserRegs[s]
           /\ ~r.keyed => r.at = <<s, r.own>>
<1>1. \A b \in Browsers : Owner(s, b) \in Browsers
  BY DEF Owner, ReadsChrome, Browsers
<1>2. CASE r \in BrowserRegs[s]
  <2>1. PICK b \in Browsers : r = RegistrationOf(s, b)
    BY <1>2 DEF BrowserRegs
  <2> QED BY <1>1, <1>2, <2>1 DEF RegistrationOf, DirRegistration, RegShape, Names, Places, Scopes
<1>3. CASE r \in DirRegs[s]
  <2>1. s = "user" /\ \E d \in Dirs : r = DirRegistration("user", d)
    BY <1>3 DEF DirRegs
  <2> QED BY <2>1 DEF DirRegistration, RegShape, Names, Places, Scopes
<1> QED BY <1>2, <1>3 DEF Regs

LEMMA KeyedApart ==
    ASSUME TypeOK, NEW s \in Scopes, NEW r \in Regs[s], NEW u \in Regs[s],
           r.keyed, u.keyed, KeyOf(r) = KeyOf(u)
    PROVE  r = u
<1>1. r.own = u.own /\ r.scope = u.scope /\ r.at = u.at
  BY RegFacts DEF KeyOf
<1>2. r \in RegShape /\ u \in RegShape
  BY RegFacts
<1>3. r.keyed = u.keyed
  BY <1>2 DEF RegShape
<1> QED BY <1>1, <1>2, <1>3 DEF RegShape

LEMMA PtrFacts ==
    ASSUME TypeOK, NEW s \in Scopes, NEW l \in Ptrs[s]
    PROVE  l \in PtrPlaces /\ l[1] = s
<1>1. PICK b \in Browsers : l \in Pointers(s, b)
  BY DEF Ptrs
<1>2. Owner(s, b) \in Browsers
  BY DEF Owner, ReadsChrome, Browsers
<1> QED BY <1>1, <1>2 DEF Pointers, PtrPlaces, Scopes, TypeOK

LEMMA TargetFacts ==
    ASSUME TypeOK, NEW s \in Scopes, NEW t \in Targets[s]
    PROVE  /\ t \in TargetShape /\ t.reg \in Regs[s] /\ t.ptrs \subseteq Ptrs[s]
           /\ Wrapper(t) = <<s, t.label>> /\ Wrapper(t) \in WrapPlaces
           /\ t.label = "none" \/ (t.label = t.reg.own /\ t.label \in Sole[s])
<1>1. /\ t \in TargetShape /\ t.reg \in Regs[s] /\ t.ptrs \subseteq Ptrs[s]
      /\ t.label = "none" \/ (t.label = t.reg.own /\ t.label \in Sole[s])
  BY DEF Targets
<1>2. t.reg.scope = s
  BY <1>1, RegFacts
<1>3. t.label \in Browsers \cup {"none"}
  BY <1>1 DEF TargetShape
<1> QED BY <1>1, <1>2, <1>3 DEF Wrapper, WrapPlaces

\* Selections only ever hold such targets.
LEMMA TargetForGood ==
    ASSUME TypeOK, NEW s \in Scopes, NEW b \in Browsers, NEW sel \in SUBSET Browsers
    PROVE  TargetFor(s, b, sel) \in Targets[s]
<1> DEFINE t == TargetFor(s, b, sel)
<1>1. RegistrationOf(s, b) \in Regs[s]
  BY DEF Regs, BrowserRegs
<1>2. t.reg = RegistrationOf(s, b) /\ t.label = Label(s, b)
  BY DEF TargetFor
<1>3. t.ptrs \subseteq Ptrs[s]
  BY DEF TargetFor, Ptrs
<1>4. Ptrs[s] \subseteq PtrPlaces
  BY PtrFacts
<1>5. Label(s, b) \in {b, "none"}
  BY DEF Label
<1>6. t \in TargetShape
  <2>1. RegistrationOf(s, b) \in RegShape
    BY <1>1, RegFacts
  <2> QED BY <1>3, <1>4, <1>5, <2>1 DEF TargetFor, TargetShape
<1>7. Label(s, b) = b => b = t.reg.own
  <2>1. Label(s, b) = b => Owner(s, b) = b
    BY RegistrationAssumption DEF Label
  <2>2. t.reg.own = Owner(s, b)
    BY <1>2 DEF RegistrationOf, DirRegistration
  <2> QED BY <2>1, <2>2
<1>8. t.label = "none" \/ (t.label = t.reg.own /\ t.label \in Sole[s])
  BY <1>2, <1>5, <1>7 DEF Sole
<1>9. t.reg \in Regs[s]
  BY <1>1, <1>2
<1> QED BY <1>3, <1>6, <1>8, <1>9, Zenon DEF Targets

LEMMA ExplicitGood ==
    ASSUME TypeOK, NEW d \in Dirs
    PROVE  ExplicitTarget(d) \in Targets["user"]
<1> DEFINE t == ExplicitTarget(d)
<1>1. t.reg = DirRegistration("user", d) /\ t.label = "none" /\ t.ptrs = {}
  BY DEF ExplicitTarget
<1>2. DirRegistration("user", d) \in Regs["user"]
  BY DEF Regs, DirRegs, Scopes
<1>3. t \in TargetShape
  <2>1. DirRegistration("user", d) \in RegShape
    BY <1>2, RegFacts DEF Scopes
  <2> QED BY <2>1 DEF ExplicitTarget, TargetShape
<1>4. t.reg \in Regs["user"] /\ t.ptrs \subseteq Ptrs["user"] /\ t.label = "none"
  BY <1>1, <1>2
<1>5. "user" \in Scopes
  BY DEF Scopes
<1> QED BY <1>3, <1>4, <1>5, Zenon DEF Targets

----------------------------------------------------------------------------
(* Initially nothing is ours and nobody runs.                              *)

LEMMA PlantedEntries ==
    ASSUME NEW V, NEW P, NEW at, NEW f \in {Clean(P)} \cup Planted(P, at)
    PROVE  f \in [P -> Entry(V)] /\ \A l \in P : f[l].kind # "ours"
<1>1. Absent \in Entry(V) /\ Absent.kind # "ours"
  BY DEF Entry, Absent
<1>2. \A o \in Odd : o \in Entry(V) /\ o.kind # "ours"
  BY RegistrationAssumption DEF Entry
<1>3. CASE f = Clean(P)
  BY <1>1, <1>3 DEF Clean
<1>4. CASE f \in Planted(P, at)
  <2>1. PICK o \in Odd : f = [Clean(P) EXCEPT ![at] = o]
    BY <1>4 DEF Planted
  <2> QED BY <1>1, <1>2, <2>1 DEF Clean
<1> QED BY <1>3, <1>4

LEMMA WrapEntries ==
    ASSUME NEW V, NEW P, NEW at
    PROVE  LET f == [Clean(P) EXCEPT ![at] = [kind |-> "foreign"]]
           IN  f \in [P -> Entry(V)] /\ \A l \in P : f[l].kind # "ours"
BY DEF Clean, Absent, Entry

LEMMA InitRInv == Init => RInv
<1> SUFFICES ASSUME Init PROVE RInv
  OBVIOUS
<1>1. /\ SlotsType
      /\ \A l \in Places : file[l].kind # "ours"
      /\ \A l \in KeyPlaces : key[l].kind # "ours"
      /\ \A l \in PtrPlaces : ptr[l].kind # "ours"
      /\ \A l \in WrapPlaces : wrap[l].kind # "ours"
  <2>1. /\ \E at : file \in {Clean(Places)} \cup Planted(Places, at)
        /\ \E at : key \in {Clean(KeyPlaces)} \cup Planted(KeyPlaces, at)
        /\ \E at : ptr \in {Clean(PtrPlaces)} \cup Planted(PtrPlaces, at)
        /\ \/ wrap = Clean(WrapPlaces)
           \/ \E at : wrap = [Clean(WrapPlaces) EXCEPT ![at] = [kind |-> "foreign"]]
    BY DEF Init
  <2>2. file \in [Places -> Entry(WrapPlaces \cup {Exe})] /\ \A l \in Places : file[l].kind # "ours"
    BY <2>1, PlantedEntries
  <2>3. key \in [KeyPlaces -> Entry({"manifest"})] /\ \A l \in KeyPlaces : key[l].kind # "ours"
    BY <2>1, PlantedEntries
  <2>4. ptr \in [PtrPlaces -> Entry({"store_url"})] /\ \A l \in PtrPlaces : ptr[l].kind # "ours"
    BY <2>1, PlantedEntries
  <2>5. wrap \in [WrapPlaces -> Entry(Browsers \cup {"none"})] /\ \A l \in WrapPlaces : wrap[l].kind # "ours"
    BY <2>1, PlantedEntries, WrapEntries
  <2> QED BY <2>2, <2>3, <2>4, <2>5 DEF SlotsType
<1>2. TypeOK
  BY <1>1, RegistrationAssumption DEF Init, TypeOK
<1>3. Placed /\ Honest
  BY <1>1 DEF Placed, Honest
<1>4. \A p \in Procs : JobInv(p)
  BY DEF Init, JobInv, Active, Idle
<1> QED BY <1>2, <1>3, <1>4 DEF RInv

----------------------------------------------------------------------------
(* A step of one command.  Whoever else runs is not alone, nor is this     *)
(* one, so only its own job and the shared halves are at stake.            *)

LEMMA SlotsKept ==
    ASSUME RInv, os' = os, UNCHANGED slots
    PROVE  SlotsType' /\ Placed' /\ Honest'
<1>1. BrowserRegs' = BrowserRegs /\ Regs' = Regs /\ Ptrs' = Ptrs /\ Sole' = Sole
  BY PlacesFixed
<1>2. file' = file /\ key' = key /\ ptr' = ptr /\ wrap' = wrap
  BY DEF slots
<1> QED BY <1>1, <1>2 DEF RInv, TypeOK, SlotsType, Placed, Honest

LEMMA PlanKept ==
    ASSUME os' = os, NEW q \in Procs, job'[q] = job[q], Plan(job[q])
    PROVE  Plan(job[q])'
<1>1. Regs' = Regs /\ Ptrs' = Ptrs /\ Targets' = Targets
  BY PlacesFixed
<1> QED BY <1>1 DEF Plan, Between

LEMMA CommandStep ==
    ASSUME RInv, NEW p \in Procs, Active(p), os' = os, faults' \in Nat,
           SlotsType', Placed', Honest',
           job' \in [Procs -> {Idle} \cup Jobs],
           \A q \in Procs \ {p} : job'[q] = job[q],
           \/ job'[p] = Idle
           \/ /\ job'[p].alone = job[p].alone
              /\ Plan(job[p])' /\ Repaired(job[p])' /\ Removed(job[p])'
    PROVE  RInv'
<1>1. TypeOK'
  BY DEF RInv, TypeOK
<1>2. ASSUME NEW q \in Procs, q # p, Active(q)' PROVE Plan(job[q])' /\ Solitary(q)' /\ Repaired(job[q])' /\ Removed(job[q])'
  <2>1. job'[q] = job[q] /\ Active(q)
    BY <1>2 DEF Active
  <2>2. ~job[q].alone
    BY <2>1, <1>2 DEF RInv, JobInv, Solitary
  <2>3. Plan(job[q])'
    BY <2>1, PlanKept DEF RInv, JobInv
  <2> QED BY <2>1, <2>2, <2>3 DEF Solitary, Repaired, Removed
<1>3. ASSUME Active(p)' PROVE Plan(job[p])' /\ Solitary(p)' /\ Repaired(job[p])' /\ Removed(job[p])'
  <2>1. job'[p] # Idle
    BY <1>3 DEF Active, Idle
  <2>2. job'[p].alone = job[p].alone /\ Plan(job[p])' /\ Repaired(job[p])' /\ Removed(job[p])'
    BY <2>1
  <2>3. Solitary(p)'
    BY <2>2 DEF RInv, JobInv, Solitary, Active
  <2> QED BY <2>2, <2>3
<1>4. \A q \in Procs : JobInv(q)'
  BY <1>2, <1>3 DEF JobInv
<1> QED BY <1>1, <1>4 DEF RInv

LEMMA Doer ==
    ASSUME RInv, NEW p \in Procs, Active(p)
    PROVE  /\ job[p] \in Jobs /\ Plan(job[p]) /\ Solitary(p) /\ Repaired(job[p]) /\ Removed(job[p])
BY DEF RInv, TypeOK, JobInv, Active, Idle

LEMMA Going ==
    ASSUME RInv, NEW p \in Procs, NEW j \in {Idle} \cup Jobs, Go(p, j)
    PROVE  /\ job' \in [Procs -> {Idle} \cup Jobs] /\ job'[p] = j
           /\ \A q \in Procs \ {p} : job'[q] = job[q]
BY DEF RInv, TypeOK, Go

LEMMA NoTargetShape == NoTarget \in TargetShape
BY DEF NoTarget, ExplicitTarget, DirRegistration, TargetShape, RegShape, Names, Scopes

\* What a job is past its target: only its verdict has changed.
SameTask(j, k) == /\ k.cmd = j.cmd /\ k.scope = j.scope /\ k.alone = j.alone /\ k.failed = j.failed
                  /\ k.unread = j.unread /\ k.kept = j.kept /\ k.regs = j.regs /\ k.dirs = j.dirs

LEMMA PastJob ==
    ASSUME NEW j \in Jobs, NEW b \in BOOLEAN
    PROVE  /\ Past(j, b) \in Jobs /\ SameTask(j, Past(j, b))
           /\ Past(j, b).todo = j.todo /\ Past(j, b).ptrs = {} /\ (Past(j, b).bad <=> j.bad \/ b)
           /\ Past(j, b).pc = IF j.todo = {} THEN "finish" ELSE "judge"
<1>1. (j.bad \/ b) \in BOOLEAN
  OBVIOUS
<1>2. PICK x \in BOOLEAN : x = (j.bad \/ b)
  BY <1>1
<1>3. PICK y \in FixPhases \cup RmPhases : y = IF j.todo = {} THEN "finish" ELSE "judge"
  BY DEF FixPhases, RmPhases
<1>4. Past(j, b) = [j EXCEPT !.pc = y, !.now = NoTarget, !.bad = x, !.ptrs = {}, !.rekey = FALSE]
  BY <1>2, <1>3 DEF Past
<1>5. Past(j, b) \in Jobs
  BY <1>4, NoTargetShape DEF Jobs
<1>6. SameTask(j, Past(j, b)) /\ Past(j, b).todo = j.todo
  BY <1>4 DEF Jobs, SameTask
<1>7. Past(j, b).ptrs = {} /\ Past(j, b).bad = x /\ Past(j, b).pc = y
  BY <1>4 DEF Jobs
<1> QED BY <1>2, <1>3, <1>5, <1>6, <1>7

LEMMA AtJob ==
    ASSUME NEW j \in Jobs, NEW t \in j.todo
    PROVE  /\ At(j, t) \in Jobs /\ SameTask(j, At(j, t)) /\ At(j, t).todo = j.todo \ {t} /\ At(j, t).now = t
           /\ At(j, t).bad = j.bad /\ At(j, t).replace = j.replace
BY DEF Jobs, At, SameTask

\* A command is done with a target: its plan is what is left of it.
LEMMA PastPlan ==
    ASSUME RInv, NEW p \in Procs, Active(p), os' = os, NEW j \in Jobs, NEW b \in BOOLEAN,
           SameTask(job[p], j), j.todo \subseteq job[p].todo, j.bad = job[p].bad, job'[p] = Past(j, b)
    PROVE  Plan(job[p])'
<1>1. Plan(job[p]) /\ job[p] \in Jobs
  BY Doer
<1>2. Regs' = Regs /\ Ptrs' = Ptrs /\ Targets' = Targets
  BY PlacesFixed
<1>3. /\ SameTask(j, job'[p]) /\ job'[p].todo = j.todo /\ job'[p].ptrs = {} /\ (job'[p].bad <=> j.bad \/ b)
      /\ job'[p].pc = IF j.todo = {} THEN "finish" ELSE "judge"
  BY PastJob
<1>4. Between(job[p])'
  BY <1>3 DEF Between
<1> QED BY <1>1, <1>2, <1>3, <1>4 DEF Plan, SameTask, FixPhases, RmPhases

\* A job that only moves on to another phase, or drops a pointer it has written.
LEMMA ToJob ==
    ASSUME NEW j \in Jobs, NEW x \in FixPhases \cup RmPhases
    PROVE  LET k == [j EXCEPT !.pc = x]
           IN  /\ k \in Jobs /\ SameTask(j, k) /\ k.pc = x /\ k.todo = j.todo /\ k.now = j.now
               /\ k.ptrs = j.ptrs /\ k.rekey = j.rekey /\ k.bad = j.bad
BY DEF Jobs, SameTask

LEMMA Moving ==
    ASSUME RInv, NEW p \in Procs, Active(p), NEW x \in FixPhases \cup RmPhases, To(p, x)
    PROVE  /\ job' \in [Procs -> {Idle} \cup Jobs]
           /\ \A q \in Procs \ {p} : job'[q] = job[q]
           /\ SameTask(job[p], job'[p]) /\ job'[p].pc = x /\ job'[p].todo = job[p].todo
           /\ job'[p].now = job[p].now /\ job'[p].ptrs = job[p].ptrs
           /\ job'[p].rekey = job[p].rekey /\ job'[p].bad = job[p].bad
<1>1. [job[p] EXCEPT !.pc = x] \in Jobs /\ job'[p] = [job[p] EXCEPT !.pc = x]
  BY Doer, ToJob, Going DEF To
<1> QED BY <1>1, Doer, ToJob, Going DEF To

LEMMA Passing ==
    ASSUME RInv, NEW p \in Procs, Active(p), NEW b \in BOOLEAN, NextTarget(p, b)
    PROVE  /\ job' \in [Procs -> {Idle} \cup Jobs]
           /\ \A q \in Procs \ {p} : job'[q] = job[q]
           /\ job'[p] = Past(job[p], b)
           /\ SameTask(job[p], job'[p]) /\ job'[p].todo = job[p].todo /\ job'[p].ptrs = {}
           /\ (job'[p].bad <=> job[p].bad \/ b) /\ job'[p].pc = IF job[p].todo = {} THEN "finish" ELSE "judge"
<1>1. job[p] \in Jobs
  BY Doer
<1>2. Past(job[p], b) \in Jobs /\ job'[p] = Past(job[p], b)
  BY <1>1, PastJob, Going DEF NextTarget
<1> QED BY <1>1, <1>2, PastJob, Going DEF NextTarget

\* A target that fails is reported, whatever it had written.
LEMMA FailedTarget ==
    ASSUME RInv, NEW p \in Procs, Active(p), job[p].cmd = "fix", os' = os, faults' \in Nat,
           SlotsType', Placed', Honest', NextTarget(p, TRUE)
    PROVE  RInv'
<1>1. job[p] \in Jobs
  BY Doer
<1>2. Plan(job[p])'
  BY <1>1, Passing, PastPlan DEF SameTask
<1>3. job'[p].cmd = "fix" /\ job'[p].bad /\ job'[p].pc \in {"judge", "finish"} /\ job'[p].alone = job[p].alone
  BY <1>1, Passing DEF SameTask
<1>4. Repaired(job[p])' /\ Removed(job[p])'
  BY <1>3 DEF Repaired, Removed
<1> QED BY <1>2, <1>3, <1>4, Passing, CommandStep

LEMMA Counted == ASSUME RInv, NoFault \/ Fault PROVE faults' \in Nat
BY DEF RInv, TypeOK, NoFault, Fault

----------------------------------------------------------------------------
(* The steps of a repair.                                                  *)

LEMMA JudgeRInv ==
    ASSUME RInv, NEW p \in Procs, Judge(p)
    PROVE  RInv'
<1>1. /\ Active(p) /\ job[p].cmd = "fix" /\ job[p].pc = "judge" /\ os' = os /\ faults' \in Nat
      /\ UNCHANGED slots
  BY Counted DEF Judge, Doing, Active, Quiet
<1>2. job[p] \in Jobs /\ Plan(job[p]) /\ Repaired(job[p])
  BY <1>1, Doer
<1>3. SlotsType' /\ Placed' /\ Honest'
  BY <1>1, SlotsKept
<1>4. PICK t \in job[p].todo :
         \/ Go(p, [At(job[p], t) EXCEPT !.pc = "dirs", !.ptrs = t.ptrs,
                                        !.rekey = t.reg.keyed /\ ~Writable(key[KeyOf(t.reg)])])
         \/ Go(p, Past(At(job[p], t), TRUE))
  BY DEF Judge
<1>5. /\ At(job[p], t) \in Jobs /\ SameTask(job[p], At(job[p], t)) /\ At(job[p], t).todo = job[p].todo \ {t}
      /\ At(job[p], t).now = t /\ At(job[p], t).bad = job[p].bad
  BY <1>2, AtJob
<1>6. job[p].scope \in Scopes /\ t \in Targets[job[p].scope]
  BY <1>2 DEF Jobs, Plan
<1>7. CASE Go(p, [At(job[p], t) EXCEPT !.pc = "dirs", !.ptrs = t.ptrs,
                                       !.rekey = t.reg.keyed /\ ~Writable(key[KeyOf(t.reg)])])
  <2>1. PICK b \in BOOLEAN : b = (t.reg.keyed /\ ~Writable(key[KeyOf(t.reg)]))
    OBVIOUS
  <2> DEFINE j == [At(job[p], t) EXCEPT !.pc = "dirs", !.ptrs = t.ptrs, !.rekey = b]
  <2>2. Go(p, j)
    BY <1>7, <2>1
  <2>3. t.ptrs \in SUBSET PtrPlaces /\ t.ptrs \subseteq Ptrs[job[p].scope]
    BY <1>6, TargetFacts DEF TargetShape, RInv
  <2>4. "dirs" \in FixPhases
    BY DEF FixPhases
  <2>5. j \in Jobs
    BY <1>5, <2>3, <2>4 DEF Jobs
  <2>6. /\ j.pc = "dirs" /\ j.ptrs = t.ptrs /\ j.todo = job[p].todo \ {t} /\ j.now = t /\ j.bad = job[p].bad
        /\ SameTask(job[p], j)
    BY <1>5 DEF Jobs, SameTask
  <2>7. job' \in [Procs -> {Idle} \cup Jobs] /\ job'[p] = j /\ \A q \in Procs \ {p} : job'[q] = job[q]
    BY <2>2, <2>5, Going
  <2> HIDE DEF j
  <2>8. Regs' = Regs /\ Ptrs' = Ptrs /\ Targets' = Targets
    BY <1>1, PlacesFixed
  <2>9. Plan(job[p])'
    BY <1>1, <1>2, <1>6, <2>3, <2>4, <2>6, <2>7, <2>8 DEF Plan, Between, SameTask
  <2>10. Repaired(job[p])' /\ Removed(job[p])'
    BY <1>1, <1>2, <2>6, <2>7 DEF Repaired, Removed, SameTask, Between, FileOK, KeyOK, Launches, slots
  <2> QED BY <1>1, <1>3, <2>6, <2>7, <2>9, <2>10, CommandStep DEF SameTask
<1>8. CASE Go(p, Past(At(job[p], t), TRUE))
  <2>1. Go(p, Past(At(job[p], t), TRUE)) /\ Past(At(job[p], t), TRUE) \in Jobs
    BY <1>5, <1>8, PastJob
  <2>2. /\ job' \in [Procs -> {Idle} \cup Jobs] /\ job'[p] = Past(At(job[p], t), TRUE)
        /\ \A q \in Procs \ {p} : job'[q] = job[q]
    BY <2>1, Going
  <2>3. Plan(job[p])'
    BY <1>1, <1>5, <2>2, PastPlan
  <2>4. /\ job'[p].cmd = "fix" /\ job'[p].bad /\ job'[p].pc \in {"judge", "finish"}
        /\ job'[p].alone = job[p].alone
    <3> DEFINE j == At(job[p], t)
    <3>1. j \in Jobs /\ SameTask(job[p], j)
      BY <1>5
    <3> HIDE DEF j
    <3>2. /\ SameTask(j, Past(j, TRUE)) /\ Past(j, TRUE).bad
          /\ Past(j, TRUE).pc = IF j.todo = {} THEN "finish" ELSE "judge"
      BY <3>1, PastJob
    <3>3. job'[p] = Past(j, TRUE)
      BY <2>2 DEF j
    <3> QED BY <1>1, <3>1, <3>2, <3>3 DEF SameTask
  <2>5. Repaired(job[p])' /\ Removed(job[p])'
    BY <2>4 DEF Repaired, Removed
  <2> QED BY <1>1, <1>3, <2>2, <2>3, <2>4, <2>5, CommandStep
<1> QED BY <1>4, <1>7, <1>8

LEMMA CreateDirsRInv ==
    ASSUME RInv, NEW p \in Procs, CreateDirs(p)
    PROVE  RInv'
<1>1. /\ Active(p) /\ job[p].cmd = "fix" /\ job[p].pc = "dirs" /\ os' = os /\ UNCHANGED slots
  BY DEF CreateDirs, Doing, Active, Quiet
<1>2. job[p] \in Jobs /\ Plan(job[p]) /\ Repaired(job[p])
  BY <1>1, Doer
<1>3. SlotsType' /\ Placed' /\ Honest'
  BY <1>1, SlotsKept
<1>4. CASE To(p, IF Target(p).reg.keyed THEN "manifest" ELSE "wrapper") /\ NoFault
  <2>1. faults' \in Nat
    BY <1>4, Counted
  <2>2. PICK x \in {"manifest", "wrapper"} : x = IF job[p].now.reg.keyed THEN "manifest" ELSE "wrapper"
    OBVIOUS
  <2>3. To(p, x) /\ x \in FixPhases \cup RmPhases
    BY <1>4, <2>2 DEF Target, FixPhases
  <2>4. /\ SameTask(job[p], job'[p]) /\ job'[p].pc = x /\ job'[p].todo = job[p].todo
        /\ job'[p].now = job[p].now /\ job'[p].ptrs = job[p].ptrs /\ job'[p].bad = job[p].bad
    BY <1>1, <2>3, Moving
  <2>5. Regs' = Regs /\ Ptrs' = Ptrs /\ Targets' = Targets
    BY <1>1, PlacesFixed
  <2>6. Plan(job[p])'
    BY <1>1, <1>2, <2>2, <2>4, <2>5 DEF Plan, Between, SameTask, FixPhases
  <2>7. Repaired(job[p])' /\ Removed(job[p])'
    BY <1>1, <1>2, <2>2, <2>4 DEF Repaired, Removed, SameTask, Between, FileOK, KeyOK, Launches, slots
  <2> QED BY <1>1, <1>3, <2>1, <2>3, <2>4, <2>6, <2>7, Moving, CommandStep DEF SameTask
<1>5. CASE \E made : Untraversable(p, made)
  BY <1>1, <1>3, <1>5, FailedTarget, Counted DEF Untraversable
<1> QED BY <1>4, <1>5 DEF CreateDirs

----------------------------------------------------------------------------
(* What one write does to the locations.                                   *)

LEMMA Entries ==
    ASSUME NEW V
    PROVE  /\ Absent \in Entry(V) /\ Bare \in Entry(V) /\ [kind |-> "foreign"] \in Entry(V)
           /\ \A v \in V : Ours(v) \in Entry(V)
           /\ Absent.kind = "absent" /\ Bare.kind = "bare" /\ [kind |-> "foreign"].kind = "foreign"
           /\ \A v : Ours(v).kind = "ours" /\ Ours(v).holds = v
BY DEF Entry, Absent, Bare, Ours

LEMMA WrapWritten ==
    ASSUME RInv, os' = os, NEW l \in WrapPlaces, NEW v \in Entry(Browsers \cup {"none"}),
           wrap' = [wrap EXCEPT ![l] = v], UNCHANGED <<file, key, ptr>>,
           v.kind = "ours" => v.holds = l[2]
    PROVE  SlotsType' /\ Placed' /\ Honest'
<1>1. BrowserRegs' = BrowserRegs /\ Regs' = Regs /\ Ptrs' = Ptrs /\ Sole' = Sole
  BY PlacesFixed
<1>2. SlotsType'
  BY DEF RInv, TypeOK, SlotsType
<1>3. Placed'
  BY <1>1 DEF RInv, Placed
<1>4. \A w \in WrapPlaces : wrap'[w] = IF w = l THEN v ELSE wrap[w]
  BY DEF RInv, TypeOK, SlotsType
<1>5. Honest'
  BY <1>1, <1>4 DEF RInv, Honest
<1> QED BY <1>2, <1>3, <1>5

LEMMA FileWritten ==
    ASSUME RInv, os' = os, NEW l \in Places, NEW v \in Entry(WrapPlaces \cup {Exe}),
           file' = [file EXCEPT ![l] = v], UNCHANGED <<key, ptr, wrap>>,
           v.kind = "ours" => /\ \E r \in Regs[l[1]] : r.at = l
                              /\ \/ v.holds \in {Exe, <<l[1], "none">>}
                                 \/ v.holds = l /\ l[2] \in Sole[l[1]]
    PROVE  SlotsType' /\ Placed' /\ Honest'
<1>1. BrowserRegs' = BrowserRegs /\ Regs' = Regs /\ Ptrs' = Ptrs /\ Sole' = Sole
  BY PlacesFixed
<1>2. SlotsType'
  BY DEF RInv, TypeOK, SlotsType
<1>4. \A w \in Places : file'[w] = IF w = l THEN v ELSE file[w]
  BY DEF RInv, TypeOK, SlotsType
<1>3. Placed'
  BY <1>1, <1>4 DEF RInv, Placed
<1>5. Honest'
  BY <1>1, <1>4 DEF RInv, Honest
<1> QED BY <1>2, <1>3, <1>5

LEMMA KeyWritten ==
    ASSUME RInv, os' = os, NEW l \in KeyPlaces, NEW v \in Entry({"manifest"}),
           key' = [key EXCEPT ![l] = v], UNCHANGED <<file, ptr, wrap>>,
           v.kind = "ours" => \E r \in BrowserRegs[l[1]] : r.keyed /\ KeyOf(r) = l
    PROVE  SlotsType' /\ Placed' /\ Honest'
<1>1. BrowserRegs' = BrowserRegs /\ Regs' = Regs /\ Ptrs' = Ptrs /\ Sole' = Sole
  BY PlacesFixed
<1>2. SlotsType'
  BY DEF RInv, TypeOK, SlotsType
<1>4. \A w \in KeyPlaces : key'[w] = IF w = l THEN v ELSE key[w]
  BY DEF RInv, TypeOK, SlotsType
<1>3. Placed'
  BY <1>1, <1>4 DEF RInv, Placed, KeyOf
<1>5. Honest'
  BY <1>1 DEF RInv, Honest
<1> QED BY <1>2, <1>3, <1>5

LEMMA PtrWritten ==
    ASSUME RInv, os' = os, NEW l \in PtrPlaces, NEW v \in Entry({"store_url"}),
           ptr' = [ptr EXCEPT ![l] = v], UNCHANGED <<file, key, wrap>>,
           v.kind = "ours" => l \in Ptrs[l[1]]
    PROVE  SlotsType' /\ Placed' /\ Honest'
<1>1. BrowserRegs' = BrowserRegs /\ Regs' = Regs /\ Ptrs' = Ptrs /\ Sole' = Sole
  BY PlacesFixed
<1>2. SlotsType'
  BY DEF RInv, TypeOK, SlotsType
<1>4. \A w \in PtrPlaces : ptr'[w] = IF w = l THEN v ELSE ptr[w]
  BY DEF RInv, TypeOK, SlotsType
<1>3. Placed'
  BY <1>1, <1>4 DEF RInv, Placed
<1>5. Honest'
  BY <1>1 DEF RInv, Honest
<1> QED BY <1>2, <1>3, <1>5

LEMMA KeyTorn ==
    ASSUME RInv, os' = os, NEW l \in KeyPlaces, key' \in {key, Torn(key, l)}, UNCHANGED <<file, ptr, wrap>>
    PROVE  SlotsType' /\ Placed' /\ Honest'
<1>1. CASE key' = key
  BY <1>1, SlotsKept DEF slots
<1>2. CASE key' = [key EXCEPT ![l] = Bare]
  <2>1. Bare \in Entry({"manifest"}) /\ Bare.kind # "ours"
    BY Entries
  <2> QED BY <1>2, <2>1, KeyWritten
<1> QED BY <1>1, <1>2 DEF Torn

LEMMA PtrTorn ==
    ASSUME RInv, os' = os, NEW l \in PtrPlaces, ptr' \in {ptr, Torn(ptr, l)}, UNCHANGED <<file, key, wrap>>
    PROVE  SlotsType' /\ Placed' /\ Honest'
<1>1. CASE ptr' = ptr
  BY <1>1, SlotsKept DEF slots
<1>2. CASE ptr' = [ptr EXCEPT ![l] = Bare]
  <2>1. Bare \in Entry({"store_url"}) /\ Bare.kind # "ours"
    BY Entries
  <2> QED BY <1>2, <2>1, PtrWritten
<1> QED BY <1>1, <1>2 DEF Torn

LEMMA Current ==
    ASSUME RInv, NEW p \in Procs, Active(p), ~Between(job[p])
    PROVE  LET t == job[p].now
               s == job[p].scope
           IN  /\ s \in Scopes /\ t \in Targets[s] /\ t.reg \in Regs[s] /\ t.reg.at \in Places
               /\ t.reg.at[1] = s /\ t.reg.scope = s /\ t.reg.keyed \in BOOLEAN
               /\ t.reg.keyed => KeyOf(t.reg) \in KeyPlaces /\ KeyOf(t.reg)[1] = s /\ t.reg \in BrowserRegs[s]
               /\ ~t.reg.keyed => t.reg.at = <<s, t.reg.own>>
               /\ Wrapper(t) = <<s, t.label>> /\ Wrapper(t) \in WrapPlaces
               /\ t.label \in Browsers \cup {"none"}
               /\ t.label = "none" \/ (t.label = t.reg.own /\ t.label \in Sole[s])
<1> DEFINE t == job[p].now
           s == job[p].scope
<1>1. TypeOK /\ job[p] \in Jobs /\ Plan(job[p])
  BY Doer DEF RInv
<1>2. s \in Scopes /\ t \in Targets[s]
  BY <1>1 DEF Jobs, Plan
<1> HIDE DEF s, t
<1>3. /\ t \in TargetShape /\ t.reg \in Regs[s] /\ Wrapper(t) = <<s, t.label>> /\ Wrapper(t) \in WrapPlaces
      /\ t.label = "none" \/ (t.label = t.reg.own /\ t.label \in Sole[s])
  BY <1>1, <1>2, TargetFacts
<1>4. /\ t.reg \in RegShape /\ t.reg.scope = s /\ t.reg.at \in Places /\ t.reg.at[1] = s
      /\ t.reg.keyed => t.reg.own \in Browsers /\ t.reg \in BrowserRegs[s]
      /\ ~t.reg.keyed => t.reg.at = <<s, t.reg.own>>
  BY <1>1, <1>2, <1>3, RegFacts
<1>5. t.reg.keyed \in BOOLEAN /\ t.label \in Browsers \cup {"none"}
  BY <1>3, <1>4 DEF RegShape, TargetShape
<1>6. t.reg.keyed => KeyOf(t.reg) \in KeyPlaces /\ KeyOf(t.reg)[1] = s
  BY <1>2, <1>4 DEF KeyOf, KeyPlaces
<1> QED BY <1>2, <1>3, <1>4, <1>5, <1>6 DEF s, t

\* A repair that moves on within its target.
LEMMA MovedPlan ==
    ASSUME RInv, NEW p \in Procs, Active(p), ~Between(job[p]), os' = os,
           NEW x \in FixPhases \cup RmPhases, To(p, x),
           x \notin {"judge", "finish"},
           x \in {"delkey", "key", "rmkey"} => job[p].now.reg.keyed,
           x = "wrapper" => ~job[p].now.reg.keyed,
           x \in (IF job[p].cmd = "fix" THEN FixPhases ELSE RmPhases)
    PROVE  Plan(job[p])'
<1>1. Plan(job[p]) /\ job[p] \in Jobs
  BY Doer
<1>2. Regs' = Regs /\ Ptrs' = Ptrs /\ Targets' = Targets
  BY PlacesFixed
<1>3. /\ SameTask(job[p], job'[p]) /\ job'[p].pc = x /\ job'[p].todo = job[p].todo
      /\ job'[p].now = job[p].now /\ job'[p].ptrs = job[p].ptrs /\ job'[p].bad = job[p].bad
  BY Moving
<1> QED BY <1>1, <1>2, <1>3 DEF Plan, Between, SameTask

LEMMA WriteWrapperRInv ==
    ASSUME RInv, NEW p \in Procs, WriteWrapper(p)
    PROVE  RInv'
<1> DEFINE t == job[p].now
           w == Wrapper(t)
<1>1. /\ Active(p) /\ job[p].cmd = "fix" /\ job[p].pc = "wrapper" /\ os' = os /\ UNCHANGED <<file, key, ptr>>
      /\ Atomic(p, wrap, w, Ours(t.label), To(p, "manifest"))
  BY DEF WriteWrapper, Doing, Active, Quiet, Target
<1>2. job[p] \in Jobs /\ Plan(job[p]) /\ Repaired(job[p])
  BY <1>1, Doer
<1>3. ~Between(job[p])
  BY <1>1 DEF Between
<1>4. w = <<job[p].scope, t.label>> /\ w \in WrapPlaces /\ t.label \in Browsers \cup {"none"}
  BY <1>1, <1>3, Current
<1>5. Ours(t.label) \in Entry(Browsers \cup {"none"}) /\ Ours(t.label).holds = w[2] /\ Ours(t.label).kind = "ours"
  BY <1>4, Entries
<1>6. wrap' = wrap \/ wrap' = [wrap EXCEPT ![w] = Ours(t.label)]
  BY <1>1 DEF Atomic
<1> HIDE DEF w
<1>7. SlotsType' /\ Placed' /\ Honest'
  BY <1>1, <1>4, <1>5, <1>6, WrapWritten, SlotsKept DEF slots
<1>8. CASE NextTarget(p, TRUE) /\ Fault
  BY <1>1, <1>7, <1>8, FailedTarget, Counted
<1>9. CASE wrap' = [wrap EXCEPT ![w] = Ours(t.label)] /\ To(p, "manifest") /\ NoFault
  <2>1. "manifest" \in FixPhases
    BY DEF FixPhases
  <2>2. Plan(job[p])'
    BY <1>1, <1>3, <1>9, <2>1, MovedPlan
  <2>3. /\ SameTask(job[p], job'[p]) /\ job'[p].pc = "manifest" /\ job'[p].todo = job[p].todo
        /\ job'[p].now = job[p].now /\ job'[p].bad = job[p].bad
    BY <1>1, <1>9, <2>1, Moving
  <2>4. \A l \in WrapPlaces : wrap'[l].kind = IF l = w THEN "ours" ELSE wrap[l].kind
    BY <1>5, <1>9 DEF RInv, TypeOK, SlotsType
  <2>5. \A r : FileOK(r) => FileOK(r)'
    BY <1>1, <2>4 DEF FileOK, Launches
  <2>6. \A r : KeyOK(r) => KeyOK(r)'
    BY <1>1 DEF KeyOK, KeyOf
  <2>7. wrap'[Wrapper(job'[p].now)].kind # "absent"
    BY <1>4, <2>3, <2>4 DEF w
  <2>8. Repaired(job[p])' /\ Removed(job[p])'
    BY <1>1, <1>2, <2>3, <2>5, <2>6, <2>7 DEF Repaired, Removed, SameTask, Between
  <2> QED BY <1>1, <1>7, <1>9, <2>1, <2>2, <2>3, <2>8, Moving, CommandStep, Counted DEF SameTask
<1> QED BY <1>1, <1>8, <1>9 DEF Atomic

LEMMA WriteManifestRInv ==
    ASSUME RInv, NEW p \in Procs, WriteManifest(p)
    PROVE  RInv'
<1> DEFINE t == job[p].now
           l == t.reg.at
           v == Ours(LaunchPath(t))
<1>1. /\ Active(p) /\ job[p].cmd = "fix" /\ job[p].pc = "manifest" /\ os' = os /\ UNCHANGED <<key, ptr, wrap>>
      /\ Atomic(p, file, l, v, AfterManifest(p))
  BY DEF WriteManifest, Doing, Active, Quiet, Target
<1>2. job[p] \in Jobs /\ Plan(job[p]) /\ Repaired(job[p])
  BY <1>1, Doer
<1>3. ~Between(job[p])
  BY <1>1 DEF Between
<1>4. /\ job[p].scope \in Scopes /\ t.reg \in Regs[job[p].scope] /\ l \in Places /\ l[1] = job[p].scope
      /\ t.reg.keyed \in BOOLEAN /\ (~t.reg.keyed => l = <<job[p].scope, t.reg.own>>)
      /\ Wrapper(t) = <<job[p].scope, t.label>> /\ Wrapper(t) \in WrapPlaces
      /\ t.label = "none" \/ (t.label = t.reg.own /\ t.label \in Sole[job[p].scope])
  BY <1>1, <1>3, Current
<1>5. LaunchPath(t) \in WrapPlaces \cup {Exe}
  BY <1>4 DEF LaunchPath
<1>6. v \in Entry(WrapPlaces \cup {Exe}) /\ v.holds = LaunchPath(t) /\ v.kind = "ours"
  BY <1>5, Entries
<1>7. LaunchPath(t) \in {Exe, <<l[1], "none">>} \/ (LaunchPath(t) = l /\ l[2] \in Sole[l[1]])
  BY <1>4 DEF LaunchPath
<1>8. file' = file \/ file' = [file EXCEPT ![l] = v]
  BY <1>1 DEF Atomic
<1>9. SlotsType' /\ Placed' /\ Honest'
  <2>1. CASE file' = file
    BY <1>1, <2>1, SlotsKept DEF slots
  <2>2. CASE file' = [file EXCEPT ![l] = v]
    <3>1. \E r \in Regs[l[1]] : r.at = l
      BY <1>4
    <3>2. v.holds \in {Exe, <<l[1], "none">>} \/ (v.holds = l /\ l[2] \in Sole[l[1]])
      BY <1>6, <1>7
    <3> HIDE DEF l, v
    <3> QED BY <1>1, <1>4, <1>6, <2>2, <3>1, <3>2, FileWritten
  <2> QED BY <1>8, <2>1, <2>2
<1>10. CASE NextTarget(p, TRUE) /\ Fault
  BY <1>1, <1>9, <1>10, FailedTarget, Counted
<1>11. CASE file' = [file EXCEPT ![l] = v] /\ AfterManifest(p) /\ NoFault
  <2>1. PICK x \in {"delkey", "key", "pointers"} : To(p, x) /\ (x # "pointers" <=> t.reg.keyed)
    BY <1>4, <1>11 DEF AfterManifest, Target
  <2>2. x \in FixPhases /\ x \notin {"judge", "finish", "rmkey", "wrapper"}
    BY DEF FixPhases
  <2>3. Plan(job[p])'
    BY <1>1, <1>3, <2>1, <2>2, MovedPlan
  <2>4. /\ SameTask(job[p], job'[p]) /\ job'[p].pc = x /\ job'[p].todo = job[p].todo
        /\ job'[p].now = job[p].now /\ job'[p].bad = job[p].bad
    BY <1>1, <2>1, <2>2, Moving
  <2>5. \A m \in Places : file'[m] = IF m = l THEN v ELSE file[m]
    BY <1>4, <1>11 DEF RInv, TypeOK, SlotsType
  <2>6. job[p].alone => Launches(LaunchPath(t))
    BY <1>1, <1>2, <1>4 DEF Repaired, Launches, LaunchPath
  <2>7. \A r : Launches(r)' = Launches(r)
    BY <1>1 DEF Launches
  <2>8. ASSUME job[p].alone, NEW r, r.at \in Places, FileOK(r) \/ r.at = l PROVE FileOK(r)'
    BY <1>6, <2>5, <2>6, <2>7, <2>8 DEF FileOK
  <2>9. \A r : KeyOK(r) => KeyOK(r)'
    BY <1>1 DEF KeyOK, KeyOf
  <2>10. \A r \in job[p].regs : r.at \in Places
    BY <1>2, <1>4, RegFacts DEF Plan, RInv
  <2>11. ~t.reg.keyed => KeyOK(job[p].now.reg)'
    BY <2>4 DEF KeyOK
  <2>12. job[p].alone => FileOK(job[p].now.reg)'
    BY <1>4, <2>4, <2>8 DEF FileOK, Launches
  <2>13. Repaired(job[p])' /\ Removed(job[p])'
    <3>1. ASSUME job[p].alone, ~job[p].bad, NEW r \in job[p].regs
          PROVE  \/ FileOK(r)' /\ KeyOK(r)'
                 \/ \E u \in job[p].todo : u.reg = r
                 \/ job[p].now.reg = r
      BY <1>1, <1>2, <2>8, <2>9, <2>10, <3>1 DEF Repaired
    <3>2. ~Between(job[p])'
      BY <2>2, <2>4 DEF Between
    <3> QED BY <1>1, <2>1, <2>4, <2>11, <2>12, <3>1, <3>2 DEF Repaired, Removed, SameTask
  <2> QED BY <1>1, <1>9, <1>11, <2>1, <2>2, <2>3, <2>4, <2>13, Moving, CommandStep, Counted DEF SameTask
<1> QED BY <1>1, <1>10, <1>11 DEF Atomic

LEMMA DeleteForeignKeyRInv ==
    ASSUME RInv, NEW p \in Procs, DeleteForeignKey(p)
    PROVE  RInv'
<1> DEFINE t == job[p].now
           k == KeyOf(t.reg)
<1>1. /\ Active(p) /\ job[p].cmd = "fix" /\ job[p].pc = "delkey" /\ os' = os /\ UNCHANGED <<file, ptr, wrap>>
      /\ \/ key' = [key EXCEPT ![k] = Absent] /\ To(p, "key") /\ NoFault
         \/ key' = key /\ NextTarget(p, TRUE) /\ Fault
  BY DEF DeleteForeignKey, Doing, Active, Quiet, Target
<1>2. job[p] \in Jobs /\ Plan(job[p]) /\ Repaired(job[p])
  BY <1>1, Doer
<1>3. ~Between(job[p]) /\ t.reg.keyed
  BY <1>1, <1>2 DEF Between, Plan
<1>4. job[p].scope \in Scopes /\ t.reg \in Regs[job[p].scope] /\ k \in KeyPlaces
  BY <1>1, <1>3, Current
<1>5. SlotsType' /\ Placed' /\ Honest'
  <2>1. Absent \in Entry({"manifest"}) /\ Absent.kind # "ours"
    BY Entries
  <2> HIDE DEF k
  <2> QED BY <1>1, <1>4, <2>1, KeyWritten, SlotsKept DEF slots
<1>6. CASE NextTarget(p, TRUE) /\ Fault
  BY <1>1, <1>5, <1>6, FailedTarget, Counted
<1>7. CASE key' = [key EXCEPT ![k] = Absent] /\ To(p, "key") /\ NoFault
  <2>2. "key" \in FixPhases
    BY DEF FixPhases
  <2>3. Plan(job[p])'
    BY <1>1, <1>3, <1>7, <2>2, MovedPlan
  <2>4. /\ SameTask(job[p], job'[p]) /\ job'[p].pc = "key" /\ job'[p].todo = job[p].todo
        /\ job'[p].now = job[p].now /\ job'[p].bad = job[p].bad
    BY <1>1, <1>7, <2>2, Moving
  <2>5. \A r : FileOK(r)' = FileOK(r)
    BY <1>1 DEF FileOK, Launches
  <2>6. ASSUME NEW r \in job[p].regs, KeyOK(r), r # t.reg PROVE KeyOK(r)'
    <3>1. r \in Regs[job[p].scope]
      BY <1>2 DEF Plan
    <3>2. r.keyed => KeyOf(r) # k
      BY <1>3, <1>4, <2>6, <3>1, KeyedApart DEF RInv
    <3>3. \A m : m # k => key'[m] = key[m]
      BY <1>7 DEF RInv, TypeOK, SlotsType
    <3> QED BY <2>6, <3>2, <3>3 DEF KeyOK, KeyOf
  <2>7. Repaired(job[p])' /\ Removed(job[p])'
    <3>1. ASSUME job[p].alone, ~job[p].bad, NEW r \in job[p].regs
          PROVE  \/ FileOK(r)' /\ KeyOK(r)'
                 \/ \E u \in job[p].todo : u.reg = r
                 \/ job[p].now.reg = r
      BY <1>1, <1>2, <2>5, <2>6, <3>1 DEF Repaired
    <3>2. ~Between(job[p])'
      BY <2>4 DEF Between
    <3>3. job[p].alone => FileOK(job[p].now.reg)'
      BY <1>1, <1>2, <2>4, <2>5 DEF Repaired, FileOK, Launches
    <3> QED BY <1>1, <2>4, <3>1, <3>2, <3>3 DEF Repaired, Removed, SameTask
  <2> QED BY <1>1, <1>5, <1>7, <2>2, <2>3, <2>4, <2>7, Moving, CommandStep, Counted DEF SameTask
<1> QED BY <1>1, <1>6, <1>7

LEMMA WriteKeyRInv ==
    ASSUME RInv, NEW p \in Procs, WriteKey(p)
    PROVE  RInv'
<1> DEFINE t == job[p].now
           k == KeyOf(t.reg)
           v == Ours("manifest")
<1>1. /\ Active(p) /\ job[p].cmd = "fix" /\ job[p].pc = "key" /\ os' = os /\ UNCHANGED <<file, ptr, wrap>>
      /\ \/ key' = [key EXCEPT ![k] = v] /\ To(p, "pointers") /\ NoFault
         \/ key' \in {key, Torn(key, k)} /\ NextTarget(p, TRUE) /\ Fault
  BY DEF WriteKey, SetRegistry, Doing, Active, Quiet, Target
<1>2. job[p] \in Jobs /\ Plan(job[p]) /\ Repaired(job[p])
  BY <1>1, Doer
<1>3. ~Between(job[p]) /\ t.reg.keyed
  BY <1>1, <1>2 DEF Between, Plan
<1>4. /\ job[p].scope \in Scopes /\ t.reg \in BrowserRegs[job[p].scope] /\ k \in KeyPlaces
      /\ k[1] = job[p].scope
  BY <1>1, <1>3, Current
<1>5. v \in Entry({"manifest"}) /\ v.kind = "ours"
  BY Entries
<1>6. \E r \in BrowserRegs[k[1]] : r.keyed /\ KeyOf(r) = k
  BY <1>3, <1>4
<1>7. SlotsType' /\ Placed' /\ Honest'
  <2> HIDE DEF k, v
  <2>1. CASE key' = [key EXCEPT ![k] = v]
    BY <1>1, <1>4, <1>5, <1>6, <2>1, KeyWritten
  <2>2. CASE key' \in {key, Torn(key, k)}
    BY <1>1, <1>4, <2>2, KeyTorn
  <2> QED BY <1>1, <2>1, <2>2
<1>8. CASE NextTarget(p, TRUE) /\ Fault
  BY <1>1, <1>7, <1>8, FailedTarget, Counted
<1>9. CASE key' = [key EXCEPT ![k] = v] /\ To(p, "pointers") /\ NoFault
  <2>2. "pointers" \in FixPhases
    BY DEF FixPhases
  <2>3. Plan(job[p])'
    BY <1>1, <1>3, <1>9, <2>2, MovedPlan
  <2>4. /\ SameTask(job[p], job'[p]) /\ job'[p].pc = "pointers" /\ job'[p].todo = job[p].todo
        /\ job'[p].now = job[p].now /\ job'[p].bad = job[p].bad
    BY <1>1, <1>9, <2>2, Moving
  <2>5. \A r : FileOK(r)' = FileOK(r)
    BY <1>1 DEF FileOK, Launches
  <2>6. \A m : key'[m] = IF m = k THEN v ELSE key[m]
    BY <1>4, <1>9 DEF RInv, TypeOK, SlotsType
  <2>7. \A r : KeyOK(r) => KeyOK(r)'
    BY <1>5, <2>6 DEF KeyOK, KeyOf
  <2>8. KeyOK(job[p].now.reg)'
    BY <1>5, <2>4, <2>6 DEF KeyOK, KeyOf
  <2>9. Repaired(job[p])' /\ Removed(job[p])'
    <3>1. ASSUME job[p].alone, ~job[p].bad, NEW r \in job[p].regs
          PROVE  \/ FileOK(r)' /\ KeyOK(r)'
                 \/ \E u \in job[p].todo : u.reg = r
                 \/ job[p].now.reg = r
      BY <1>1, <1>2, <2>5, <2>7, <3>1 DEF Repaired
    <3>2. ~Between(job[p])'
      BY <2>4 DEF Between
    <3>3. job[p].alone => FileOK(job[p].now.reg)'
      BY <1>1, <1>2, <2>4, <2>5 DEF Repaired, FileOK, Launches
    <3> QED BY <1>1, <2>4, <2>8, <3>1, <3>2, <3>3 DEF Repaired, Removed, SameTask
  <2> QED BY <1>1, <1>7, <1>9, <2>2, <2>3, <2>4, <2>9, Moving, CommandStep, Counted DEF SameTask
<1> QED BY <1>1, <1>8, <1>9

\* A pointer is done with: the rest of the target's pointers are left.
LEMMA Pointing ==
    ASSUME RInv, NEW p \in Procs, Active(p), ~Between(job[p]), os' = os, NEW b \in BOOLEAN,
           job[p].bad => b,
           Go(p, [job[p] EXCEPT !.ptrs = @ \ {ThisPointer(p)}, !.bad = b])
    PROVE  /\ job' \in [Procs -> {Idle} \cup Jobs]
           /\ \A q \in Procs \ {p} : job'[q] = job[q]
           /\ SameTask(job[p], job'[p]) /\ job'[p].pc = job[p].pc /\ job'[p].todo = job[p].todo
           /\ job'[p].now = job[p].now /\ job'[p].ptrs = job[p].ptrs \ {ThisPointer(p)}
           /\ job'[p].rekey = job[p].rekey /\ job'[p].bad = b
           /\ Plan(job[p])'
<1>1. job[p] \in Jobs /\ Plan(job[p])
  BY Doer
<1> DEFINE k == [job[p] EXCEPT !.ptrs = @ \ {ThisPointer(p)}, !.bad = b]
<1>2. /\ k \in Jobs /\ SameTask(job[p], k) /\ k.pc = job[p].pc /\ k.todo = job[p].todo /\ k.now = job[p].now
      /\ k.ptrs = job[p].ptrs \ {ThisPointer(p)} /\ k.rekey = job[p].rekey /\ k.bad = b
  <2>1. k \in Jobs
    BY <1>1 DEF Jobs
  <2> QED BY <1>1, <2>1 DEF Jobs, SameTask
<1> HIDE DEF k
<1>3. job' \in [Procs -> {Idle} \cup Jobs] /\ job'[p] = k /\ \A q \in Procs \ {p} : job'[q] = job[q]
  BY <1>2, Going DEF k
<1>4. Regs' = Regs /\ Ptrs' = Ptrs /\ Targets' = Targets
  BY PlacesFixed
<1>5. Plan(job[p])'
  BY <1>1, <1>2, <1>3, <1>4 DEF Plan, Between, SameTask
<1> QED BY <1>2, <1>3, <1>5

LEMMA PointerDoneSame ==
    ASSUME RInv, NEW p \in Procs, Active(p)
    PROVE  /\ [job[p] EXCEPT !.ptrs = @ \ {ThisPointer(p)}]
                = [job[p] EXCEPT !.ptrs = @ \ {ThisPointer(p)}, !.bad = job[p].bad]
           /\ job[p].bad \in BOOLEAN
<1>1. job[p] \in Jobs
  BY Doer
<1> QED BY <1>1 DEF Jobs

LEMMA WritePointerRInv ==
    ASSUME RInv, NEW p \in Procs, WritePointer(p)
    PROVE  RInv'
<1> DEFINE l == ThisPointer(p)
           v == Ours("store_url")
<1>1. /\ Active(p) /\ job[p].cmd = "fix" /\ job[p].pc = "pointers" /\ os' = os /\ UNCHANGED <<file, key, wrap>>
      /\ \/ job[p].ptrs = {} /\ NextTarget(p, FALSE) /\ NoFault /\ ptr' = ptr
         \/ job[p].ptrs # {} /\ ptr' = [ptr EXCEPT ![l] = v] /\ PointerDone(p) /\ NoFault
         \/ /\ job[p].ptrs # {} /\ ptr' \in {ptr, Torn(ptr, l), [ptr EXCEPT ![l] = v]}
            /\ NextTarget(p, TRUE) /\ Fault
  BY DEF WritePointer, SetRegistry, Atomic, Doing, Active, Quiet
<1>2. job[p] \in Jobs /\ Plan(job[p]) /\ Repaired(job[p])
  BY <1>1, Doer
<1>3. ~Between(job[p])
  BY <1>1 DEF Between
<1>4. job[p].ptrs # {} => l \in PtrPlaces /\ l \in Ptrs[l[1]]
  <2>1. job[p].scope \in Scopes
    BY <1>2 DEF Jobs
  <2>2. job[p].ptrs # {} => l \in Ptrs[job[p].scope]
    BY <1>2 DEF ThisPointer, Plan
  <2> QED BY <2>1, <2>2, PtrFacts DEF RInv
<1>5. v \in Entry({"store_url"}) /\ v.kind = "ours"
  BY Entries
<1>6. SlotsType' /\ Placed' /\ Honest'
  <2> HIDE DEF l, v
  <2>1. CASE job[p].ptrs # {} /\ ptr' = [ptr EXCEPT ![l] = v]
    BY <1>1, <1>4, <1>5, <2>1, PtrWritten
  <2>2. CASE job[p].ptrs # {} /\ ptr' \in {ptr, Torn(ptr, l)}
    BY <1>1, <1>4, <2>2, PtrTorn
  <2>3. CASE ptr' = ptr
    BY <1>1, <2>3, SlotsKept DEF slots
  <2> QED BY <1>1, <2>1, <2>2, <2>3
<1>7. CASE NextTarget(p, TRUE) /\ Fault
  BY <1>1, <1>6, <1>7, FailedTarget, Counted
<1>8. \A r : FileOK(r)' = FileOK(r)
  BY <1>1 DEF FileOK, Launches
<1>9. \A r : KeyOK(r)' = KeyOK(r)
  BY <1>1 DEF KeyOK, KeyOf
<1>10. CASE PointerDone(p) /\ NoFault
  <2>1. PICK b \in BOOLEAN : b = job[p].bad
    BY <1>2 DEF Jobs
  <2>2. Go(p, [job[p] EXCEPT !.ptrs = @ \ {ThisPointer(p)}, !.bad = b])
    BY <1>1, <1>10, <2>1, PointerDoneSame DEF PointerDone
  <2>3. /\ job' \in [Procs -> {Idle} \cup Jobs]
        /\ \A q \in Procs \ {p} : job'[q] = job[q]
        /\ SameTask(job[p], job'[p]) /\ job'[p].pc = "pointers" /\ job'[p].todo = job[p].todo
        /\ job'[p].now = job[p].now /\ job'[p].bad = job[p].bad /\ Plan(job[p])'
    BY <1>1, <1>3, <2>1, <2>2, Pointing
  <2>4. Repaired(job[p])' /\ Removed(job[p])'
    <3>1. ASSUME job[p].alone, ~job[p].bad, NEW r \in job[p].regs
          PROVE  \/ FileOK(r)' /\ KeyOK(r)'
                 \/ \E u \in job[p].todo : u.reg = r
                 \/ job[p].now.reg = r
      BY <1>1, <1>2, <1>8, <1>9, <3>1 DEF Repaired
    <3>2. ~Between(job[p])'
      BY <2>3 DEF Between
    <3>3. job[p].alone => FileOK(job[p].now.reg)'
      BY <1>1, <1>2, <1>8, <2>3 DEF Repaired, FileOK, Launches
    <3>4. job[p].alone => KeyOK(job[p].now.reg)'
      BY <1>1, <1>2, <1>9, <2>3 DEF Repaired, KeyOK, KeyOf
    <3> QED BY <1>1, <2>3, <3>1, <3>2, <3>3, <3>4 DEF Repaired, Removed, SameTask
  <2> QED BY <1>1, <1>6, <1>10, <2>3, <2>4, CommandStep, Counted DEF SameTask
<1>11. CASE NextTarget(p, FALSE) /\ NoFault
  <2>1. /\ job' \in [Procs -> {Idle} \cup Jobs]
        /\ \A q \in Procs \ {p} : job'[q] = job[q]
        /\ job'[p] = Past(job[p], FALSE)
        /\ SameTask(job[p], job'[p]) /\ job'[p].todo = job[p].todo
        /\ (job'[p].bad <=> job[p].bad) /\ job'[p].pc \in {"judge", "finish"}
    BY <1>1, <1>11, Passing
  <2>2. Plan(job[p])'
    BY <1>1, <1>2, <2>1, PastPlan DEF SameTask
  <2>3. Repaired(job[p])' /\ Removed(job[p])'
    <3>1. ASSUME job[p].alone, ~job[p].bad, NEW r \in job[p].regs
          PROVE  \/ FileOK(r)' /\ KeyOK(r)'
                 \/ \E u \in job[p].todo : u.reg = r
      BY <1>1, <1>2, <1>8, <1>9, <3>1 DEF Repaired
    <3> QED BY <1>1, <2>1, <3>1 DEF Repaired, Removed, SameTask
  <2> QED BY <1>1, <1>6, <1>11, <2>1, <2>2, <2>3, CommandStep, Counted DEF SameTask
<1> QED BY <1>1, <1>7, <1>10, <1>11

----------------------------------------------------------------------------
(* The steps of an uninstall.                                              *)

LEMMA JudgeRemovalRInv ==
    ASSUME RInv, NEW p \in Procs, JudgeRemoval(p)
    PROVE  RInv'
<1>1. /\ Active(p) /\ job[p].cmd = "uninstall" /\ job[p].pc = "judge" /\ os' = os /\ faults' \in Nat
      /\ UNCHANGED slots
  BY Counted DEF JudgeRemoval, Doing, Active, Quiet
<1>2. job[p] \in Jobs /\ Plan(job[p]) /\ Removed(job[p])
  BY <1>1, Doer
<1>3. SlotsType' /\ Placed' /\ Honest'
  BY <1>1, SlotsKept
<1> DEFINE Judged(t, blind) ==
       LET k == t.reg.keyed /\ Removable(key[KeyOf(t.reg)]) /\ <<"key", KeyOf(t.reg)>> \notin blind
           f == Removable(file[t.reg.at]) /\ <<"file", t.reg.at>> \notin blind
       IN Go(p, [At(job[p], t) EXCEPT !.pc = IF k THEN "rmkey" ELSE IF f THEN "rmfile" ELSE "rmpointers",
                                      !.rekey = f, !.ptrs = t.ptrs, !.unread = @ \cup blind])
<1>0. PICK t \in job[p].todo : \E blind \in SUBSET SlotsOf(t) : Judged(t, blind)
  BY DEF JudgeRemoval
<1>4. PICK blind \in SUBSET SlotsOf(t) : Judged(t, blind)
  BY <1>0
<1>5. /\ At(job[p], t) \in Jobs /\ SameTask(job[p], At(job[p], t)) /\ At(job[p], t).todo = job[p].todo \ {t}
      /\ At(job[p], t).now = t /\ At(job[p], t).bad = job[p].bad
  BY <1>2, AtJob
<1>6. job[p].scope \in Scopes /\ t \in Targets[job[p].scope]
  BY <1>2 DEF Jobs, Plan
<1>7. PICK f \in BOOLEAN : f = (Removable(file[t.reg.at]) /\ <<"file", t.reg.at>> \notin blind)
  OBVIOUS
<1>8. PICK x \in {"rmkey", "rmfile", "rmpointers"} :
         x = IF t.reg.keyed /\ Removable(key[KeyOf(t.reg)]) /\ <<"key", KeyOf(t.reg)>> \notin blind
             THEN "rmkey" ELSE IF f THEN "rmfile" ELSE "rmpointers"
  OBVIOUS
<1>9. PICK u : u = job[p].unread \cup blind
  OBVIOUS
<1> DEFINE j == [At(job[p], t) EXCEPT !.pc = x, !.rekey = f, !.ptrs = t.ptrs, !.unread = u]
<1>10. Go(p, j)
  <2>1. At(job[p], t).unread = job[p].unread
    BY <1>5 DEF SameTask
  <2> QED BY <1>4, <1>7, <1>8, <1>9, <2>1
<1>11. t.ptrs \in SUBSET PtrPlaces /\ t.ptrs \subseteq Ptrs[job[p].scope]
  BY <1>6, TargetFacts DEF TargetShape, RInv
<1>12. x \in RmPhases /\ x \notin {"judge", "finish"}
  BY DEF RmPhases
<1>13. u \in SUBSET Readings
  <2>1. t.reg \in RegShape
    BY <1>6, TargetFacts DEF TargetShape, RInv
  <2>2. SlotsOf(t) \subseteq Readings
    BY <2>1 DEF SlotsOf, KeyOf, RegShape, Readings
  <2> QED BY <1>2, <1>9, <2>2 DEF Jobs
<1>14. j \in Jobs
  BY <1>5, <1>11, <1>12, <1>13 DEF Jobs
<1>15. /\ j.pc = x /\ j.ptrs = t.ptrs /\ j.todo = job[p].todo \ {t} /\ j.now = t /\ j.bad = job[p].bad
       /\ j.rekey = f /\ j.unread = u
       /\ j.cmd = job[p].cmd /\ j.scope = job[p].scope /\ j.alone = job[p].alone /\ j.failed = job[p].failed
       /\ j.kept = job[p].kept /\ j.regs = job[p].regs /\ j.dirs = job[p].dirs
  BY <1>5 DEF Jobs, SameTask
<1>16. job' \in [Procs -> {Idle} \cup Jobs] /\ job'[p] = j /\ \A q \in Procs \ {p} : job'[q] = job[q]
  BY <1>10, <1>14, Going
<1> HIDE DEF j
<1>17. Regs' = Regs /\ Ptrs' = Ptrs /\ Targets' = Targets
  BY <1>1, PlacesFixed
<1>18. Plan(job[p])'
  BY <1>1, <1>2, <1>6, <1>8, <1>9, <1>11, <1>12, <1>15, <1>16, <1>17 DEF Plan, Between
<1>19. Repaired(job[p])'
  BY <1>1, <1>15, <1>16 DEF Repaired
<1>20. Removed(job[p])'
  <2>1. file' = file /\ key' = key /\ ptr' = ptr
    BY <1>1 DEF slots
  <2> SUFFICES ASSUME job[p].alone
               PROVE  /\ \A l \in Places : l[1] = job[p].scope /\ file[l].kind = "ours" => FileLeft(j, l)
                      /\ \A k \in KeyPlaces : k[1] = job[p].scope /\ key[k].kind = "ours" => KeyLeft(j, k)
                      /\ \A l \in PtrPlaces : l[1] = job[p].scope /\ ptr[l].kind = "ours" => PtrLeft(j, l)
    BY <1>15, <1>16, <2>1 DEF Removed, FileLeft, KeyLeft, PtrLeft, KeyOf
  <2>2. ASSUME NEW l \in Places, l[1] = job[p].scope, file[l].kind = "ours" PROVE FileLeft(j, l)
    <3>1. FileLeft(job[p], l)
      BY <1>1, <1>2, <2>2 DEF Removed
    <3>2. t.reg.at = l => f \/ <<"file", l>> \in u
      BY <1>7, <1>9, <2>2 DEF Removable
    <3> QED BY <1>1, <1>8, <1>9, <1>15, <3>1, <3>2 DEF FileLeft
  <2>3. ASSUME NEW k \in KeyPlaces, k[1] = job[p].scope, key[k].kind = "ours" PROVE KeyLeft(j, k)
    <3>1. KeyLeft(job[p], k)
      BY <1>1, <1>2, <2>3 DEF Removed
    <3>2. t.reg.keyed /\ KeyOf(t.reg) = k => x = "rmkey" \/ <<"key", k>> \in u
      BY <1>8, <1>9, <2>3 DEF Removable
    <3> QED BY <1>1, <1>9, <1>15, <3>1, <3>2 DEF KeyLeft
  <2>4. ASSUME NEW l \in PtrPlaces, l[1] = job[p].scope, ptr[l].kind = "ours" PROVE PtrLeft(j, l)
    <3>1. PtrLeft(job[p], l)
      BY <1>1, <1>2, <2>4 DEF Removed
    <3>2. job[p].ptrs = {}
      BY <1>1, <1>2 DEF Plan, Between
    <3> QED BY <1>9, <1>15, <3>1, <3>2 DEF PtrLeft
  <2> QED BY <2>2, <2>3, <2>4
<1> QED BY <1>1, <1>3, <1>15, <1>16, <1>18, <1>19, <1>20, CommandStep

\* An uninstall whose operation failed, or that moved on: what Removed asks of the step.
LEMMA RemovalStep ==
    ASSUME RInv, NEW p \in Procs, Active(p), job[p].cmd = "uninstall", os' = os, faults' \in Nat,
           SlotsType', Placed', Honest', NEW j \in Jobs, Go(p, j),
           j.cmd = "uninstall", j.scope = job[p].scope, j.alone = job[p].alone, Plan(job[p])',
           job[p].alone =>
             /\ \A l \in Places : l[1] = job[p].scope /\ file'[l].kind = "ours" => FileLeft(j, l)
             /\ \A k \in KeyPlaces : k[1] = job[p].scope /\ key'[k].kind = "ours" => KeyLeft(j, k)
             /\ \A l \in PtrPlaces : l[1] = job[p].scope /\ ptr'[l].kind = "ours" => PtrLeft(j, l)
    PROVE  RInv'
<1>1. job' \in [Procs -> {Idle} \cup Jobs] /\ job'[p] = j /\ \A q \in Procs \ {p} : job'[q] = job[q]
  BY Going
<1>2. Repaired(job[p])'
  BY <1>1 DEF Repaired
<1>3. Removed(job[p])'
  BY <1>1 DEF Removed, FileLeft, KeyLeft, PtrLeft, KeyOf
<1> QED BY <1>1, <1>2, <1>3, CommandStep

\* The job an uninstall's operation leaves: another phase, and a failure if there was one.
LEMMA RemovalJob ==
    ASSUME NEW j \in Jobs, NEW x \in RmPhases
    PROVE  LET m == [j EXCEPT !.pc = x]
               k == [[j EXCEPT !.bad = TRUE] EXCEPT !.pc = x]
           IN  /\ m \in Jobs /\ SameTask(j, m) /\ m.pc = x /\ m.todo = j.todo /\ m.now = j.now
               /\ m.ptrs = j.ptrs /\ m.rekey = j.rekey /\ m.bad = j.bad
               /\ k \in Jobs /\ SameTask(j, k) /\ k.pc = x /\ k.todo = j.todo /\ k.now = j.now
               /\ k.ptrs = j.ptrs /\ k.rekey = j.rekey /\ k.bad = TRUE
<1> DEFINE m == [j EXCEPT !.pc = x]
           k == [[j EXCEPT !.bad = TRUE] EXCEPT !.pc = x]
<1>1. /\ m \in Jobs /\ SameTask(j, m) /\ m.pc = x /\ m.todo = j.todo /\ m.now = j.now
      /\ m.ptrs = j.ptrs /\ m.rekey = j.rekey /\ m.bad = j.bad
  BY DEF Jobs, SameTask
<1>2. k \in Jobs
  BY DEF Jobs
<1>3. /\ SameTask(j, k) /\ k.pc = x /\ k.todo = j.todo /\ k.now = j.now
      /\ k.ptrs = j.ptrs /\ k.rekey = j.rekey /\ k.bad = TRUE
  BY DEF Jobs, SameTask
<1> QED BY <1>1, <1>2, <1>3

LEMMA RemoveKeyRInv ==
    ASSUME RInv, NEW p \in Procs, RemoveKey(p)
    PROVE  RInv'
<1> DEFINE t == job[p].now
           k == KeyOf(t.reg)
<1>1. PICK x \in {"rmfile", "rmpointers"} : x = IF job[p].rekey THEN "rmfile" ELSE "rmpointers"
  OBVIOUS
<1>2. /\ Active(p) /\ job[p].cmd = "uninstall" /\ job[p].pc = "rmkey" /\ os' = os
      /\ UNCHANGED <<file, ptr, wrap>> /\ faults' \in Nat
      /\ \/ key' = [key EXCEPT ![k] = Absent] /\ Go(p, [job[p] EXCEPT !.pc = x])
         \/ key' = key /\ Go(p, [[job[p] EXCEPT !.bad = TRUE] EXCEPT !.pc = x])
  BY <1>1, Counted DEF RemoveKey, Doing, Active, Quiet, Target, To, Failing
<1>3. job[p] \in Jobs /\ Plan(job[p]) /\ Removed(job[p])
  BY <1>2, Doer
<1>4. ~Between(job[p]) /\ t.reg.keyed
  BY <1>2, <1>3 DEF Between, Plan
<1>5. k \in KeyPlaces
  BY <1>2, <1>4, Current
<1>6. SlotsType' /\ Placed' /\ Honest'
  <2>1. Absent \in Entry({"manifest"}) /\ Absent.kind # "ours"
    BY Entries
  <2> HIDE DEF k
  <2> QED BY <1>2, <1>5, <2>1, KeyWritten, SlotsKept DEF slots
<1>7. x \in RmPhases /\ x \notin {"judge", "finish", "delkey", "key", "rmkey", "wrapper"}
  BY DEF RmPhases
<1>8. PICK j \in Jobs :
        /\ Go(p, j) /\ SameTask(job[p], j) /\ j.pc = x /\ j.todo = job[p].todo /\ j.now = job[p].now
        /\ j.ptrs = job[p].ptrs /\ j.rekey = job[p].rekey
        /\ \/ key' = [key EXCEPT ![k] = Absent] /\ j.bad = job[p].bad
           \/ key' = key /\ j.bad = TRUE
  <2> DEFINE a == [job[p] EXCEPT !.pc = x]
             c == [[job[p] EXCEPT !.bad = TRUE] EXCEPT !.pc = x]
  <2>1. /\ a \in Jobs /\ SameTask(job[p], a) /\ a.pc = x /\ a.todo = job[p].todo /\ a.now = job[p].now
        /\ a.ptrs = job[p].ptrs /\ a.rekey = job[p].rekey /\ a.bad = job[p].bad
        /\ c \in Jobs /\ SameTask(job[p], c) /\ c.pc = x /\ c.todo = job[p].todo /\ c.now = job[p].now
        /\ c.ptrs = job[p].ptrs /\ c.rekey = job[p].rekey /\ c.bad = TRUE
    BY <1>3, <1>7, RemovalJob
  <2>2. \/ key' = [key EXCEPT ![k] = Absent] /\ Go(p, a)
        \/ key' = key /\ Go(p, c)
    BY <1>2
  <2> HIDE DEF a, c
  <2> QED BY <2>1, <2>2
<1>9. job'[p] = j
  BY <1>8, Going
<1>10. Plan(job[p])'
  <2>1. Regs' = Regs /\ Ptrs' = Ptrs /\ Targets' = Targets
    BY <1>2, PlacesFixed
  <2> QED BY <1>2, <1>3, <1>4, <1>7, <1>8, <1>9, <2>1 DEF Plan, Between, SameTask
<1>11. ASSUME job[p].alone, NEW l \in Places, l[1] = job[p].scope, file'[l].kind = "ours" PROVE FileLeft(j, l)
  <2>1. FileLeft(job[p], l)
    BY <1>2, <1>3, <1>11 DEF Removed
  <2> QED BY <1>1, <1>2, <1>8, <2>1 DEF FileLeft, SameTask
<1>12. ASSUME job[p].alone, NEW m \in KeyPlaces, m[1] = job[p].scope, key'[m].kind = "ours" PROVE KeyLeft(j, m)
  <2>1. key' = [key EXCEPT ![k] = Absent] => m # k /\ key[m].kind = "ours"
    BY <1>5, <1>12, Entries DEF RInv, TypeOK, SlotsType
  <2>2. key[m].kind = "ours"
    BY <1>2, <1>12, <2>1
  <2>3. KeyLeft(job[p], m)
    BY <1>2, <1>3, <1>12, <2>2 DEF Removed
  <2> QED BY <1>8, <2>1, <2>3 DEF KeyLeft, SameTask
<1>13. ASSUME job[p].alone, NEW l \in PtrPlaces, l[1] = job[p].scope, ptr'[l].kind = "ours" PROVE PtrLeft(j, l)
  <2>1. PtrLeft(job[p], l)
    BY <1>2, <1>3, <1>13 DEF Removed
  <2> QED BY <1>8, <2>1 DEF PtrLeft, SameTask
<1> QED BY <1>2, <1>6, <1>8, <1>10, <1>11, <1>12, <1>13, RemovalStep DEF SameTask

LEMMA RemoveManifestRInv ==
    ASSUME RInv, NEW p \in Procs, RemoveManifest(p)
    PROVE  RInv'
<1> DEFINE t == job[p].now
           m == t.reg.at
           F == job[p].failed \cup {m}
<1>1. job[p].cmd = "uninstall" /\ job[p].pc = "rmfile" /\ Active(p)
  BY DEF RemoveManifest, Doing, Active
<1>2. job[p] \in Jobs /\ Plan(job[p]) /\ Removed(job[p])
  BY <1>1, Doer
<1>3. /\ os' = os /\ UNCHANGED <<key, ptr, wrap>> /\ faults' \in Nat
      /\ \/ file' = [file EXCEPT ![m] = Absent] /\ Go(p, [job[p] EXCEPT !.pc = "rmpointers"])
         \/ file' = file /\ Go(p, [[job[p] EXCEPT !.bad = TRUE] EXCEPT !.pc = "rmpointers", !.failed = F])
  <2>1. /\ os' = os /\ UNCHANGED <<key, ptr, wrap>> /\ faults' \in Nat
    BY Counted DEF RemoveManifest, Quiet
  <2>2. [Failing(p) EXCEPT !.pc = "rmpointers", !.failed = @ \cup {m}]
          = [[job[p] EXCEPT !.bad = TRUE] EXCEPT !.pc = "rmpointers", !.failed = F]
    BY <1>2 DEF Failing, Jobs
  <2> QED BY <2>1, <2>2 DEF RemoveManifest, Target, To
<1>4. ~Between(job[p])
  BY <1>1 DEF Between
<1>5. m \in Places
  BY <1>1, <1>4, Current
<1>6. SlotsType' /\ Placed' /\ Honest'
  <2>1. Absent \in Entry(WrapPlaces \cup {Exe}) /\ Absent.kind # "ours"
    BY Entries
  <2> HIDE DEF m
  <2> QED BY <1>3, <1>5, <2>1, FileWritten, SlotsKept DEF slots
<1>7. "rmpointers" \in RmPhases
  BY DEF RmPhases
<1>8. F \in SUBSET Places
  BY <1>2, <1>5 DEF Jobs
<1> HIDE DEF F
<1>9. PICK j \in Jobs :
        /\ Go(p, j) /\ j.pc = "rmpointers" /\ j.todo = job[p].todo /\ j.now = job[p].now
        /\ j.ptrs = job[p].ptrs
        /\ j.cmd = job[p].cmd /\ j.scope = job[p].scope /\ j.alone = job[p].alone /\ j.kept = job[p].kept
        /\ j.regs = job[p].regs /\ j.dirs = job[p].dirs /\ j.unread = job[p].unread
        /\ \/ file' = [file EXCEPT ![m] = Absent] /\ j.bad = job[p].bad /\ j.failed = job[p].failed
           \/ file' = file /\ j.bad = TRUE /\ j.failed = F
  <2> DEFINE a == [job[p] EXCEPT !.pc = "rmpointers"]
             c == [[job[p] EXCEPT !.bad = TRUE] EXCEPT !.pc = "rmpointers", !.failed = F]
  <2>1. /\ a \in Jobs /\ SameTask(job[p], a) /\ a.pc = "rmpointers" /\ a.todo = job[p].todo
        /\ a.now = job[p].now /\ a.ptrs = job[p].ptrs /\ a.bad = job[p].bad
    BY <1>2, <1>7, RemovalJob
  <2>2. /\ c \in Jobs /\ c.pc = "rmpointers" /\ c.todo = job[p].todo /\ c.now = job[p].now
        /\ c.ptrs = job[p].ptrs /\ c.bad = TRUE /\ c.failed = F
        /\ c.cmd = job[p].cmd /\ c.scope = job[p].scope /\ c.alone = job[p].alone /\ c.kept = job[p].kept
        /\ c.regs = job[p].regs /\ c.dirs = job[p].dirs /\ c.unread = job[p].unread
    <3>1. c \in Jobs
      BY <1>2, <1>7, <1>8 DEF Jobs
    <3> QED BY <1>2, <3>1 DEF Jobs
  <2>3. \/ file' = [file EXCEPT ![m] = Absent] /\ Go(p, a)
        \/ file' = file /\ Go(p, c)
    BY <1>3
  <2> HIDE DEF a, c
  <2> QED BY <2>1, <2>2, <2>3 DEF SameTask
<1>10. job'[p] = j
  BY <1>9, Going
<1>11. Plan(job[p])'
  <2>1. Regs' = Regs /\ Ptrs' = Ptrs /\ Targets' = Targets
    BY <1>3, PlacesFixed
  <2> QED BY <1>1, <1>2, <1>4, <1>7, <1>9, <1>10, <2>1 DEF Plan, Between
<1>12. ASSUME job[p].alone, NEW l \in Places, l[1] = job[p].scope, file'[l].kind = "ours" PROVE FileLeft(j, l)
  <2>1. file' = [file EXCEPT ![m] = Absent] => l # m /\ file[l].kind = "ours"
    BY <1>5, <1>12, Entries DEF RInv, TypeOK, SlotsType
  <2>2. file[l].kind = "ours"
    BY <1>3, <1>12, <2>1
  <2>3. FileLeft(job[p], l)
    BY <1>1, <1>2, <1>12, <2>2 DEF Removed
  <2> QED BY <1>1, <1>9, <2>1, <2>3 DEF FileLeft, F
<1>13. ASSUME job[p].alone, NEW k \in KeyPlaces, k[1] = job[p].scope, key'[k].kind = "ours" PROVE KeyLeft(j, k)
  <2>1. KeyLeft(job[p], k)
    BY <1>1, <1>2, <1>3, <1>13 DEF Removed
  <2> QED BY <1>1, <1>9, <2>1 DEF KeyLeft
<1>14. ASSUME job[p].alone, NEW l \in PtrPlaces, l[1] = job[p].scope, ptr'[l].kind = "ours" PROVE PtrLeft(j, l)
  <2>1. PtrLeft(job[p], l)
    BY <1>1, <1>2, <1>3, <1>14 DEF Removed
  <2> QED BY <1>9, <2>1 DEF PtrLeft
<1> QED BY <1>1, <1>3, <1>6, <1>9, <1>11, <1>12, <1>13, <1>14, RemovalStep

LEMMA RemovePointerRInv ==
    ASSUME RInv, NEW p \in Procs, RemovePointer(p)
    PROVE  RInv'
<1> DEFINE l == ThisPointer(p)
<1>1. /\ Active(p) /\ job[p].cmd = "uninstall" /\ job[p].pc = "rmpointers" /\ os' = os
      /\ UNCHANGED <<file, key, wrap>> /\ faults' \in Nat
      /\ \/ job[p].ptrs = {} /\ NextTarget(p, FALSE) /\ ptr' = ptr
         \/ job[p].ptrs # {} /\ ptr' = [ptr EXCEPT ![l] = Absent] /\ PointerDone(p)
         \/ job[p].ptrs # {} /\ ~Removable(ptr[l]) /\ ptr' = ptr /\ PointerDone(p)
         \/ job[p].ptrs # {} /\ ptr' = ptr /\ Go(p, [Failing(p) EXCEPT !.ptrs = @ \ {l}])
         \/ job[p].ptrs # {} /\ ptr' = ptr /\ Go(p, [Unread(p, <<"pointer", l>>) EXCEPT !.ptrs = @ \ {l}])
  BY Counted DEF RemovePointer, Doing, Active, Quiet
<1>2. job[p] \in Jobs /\ Plan(job[p]) /\ Removed(job[p])
  BY <1>1, Doer
<1>3. ~Between(job[p])
  BY <1>1 DEF Between
<1>4. job[p].ptrs # {} => l \in PtrPlaces
  <2>1. job[p].scope \in Scopes
    BY <1>2 DEF Jobs
  <2>2. job[p].ptrs # {} => l \in Ptrs[job[p].scope]
    BY <1>2 DEF ThisPointer, Plan
  <2> QED BY <2>1, <2>2, PtrFacts DEF RInv
<1>5. SlotsType' /\ Placed' /\ Honest'
  <2>1. Absent \in Entry({"store_url"}) /\ Absent.kind # "ours"
    BY Entries
  <2> HIDE DEF l
  <2> QED BY <1>1, <1>4, <2>1, PtrWritten, SlotsKept DEF slots
<1>6. CASE job[p].ptrs = {}
  <2>1. NextTarget(p, FALSE) /\ ptr' = ptr
    BY <1>1, <1>6
  <2> DEFINE j == Past(job[p], FALSE)
  <2>2. /\ job'[p] = j /\ SameTask(job[p], j) /\ j.todo = job[p].todo /\ j.ptrs = {}
        /\ (j.bad <=> job[p].bad) /\ j.pc \in {"judge", "finish"} /\ j \in Jobs /\ Go(p, j)
    <3>1. j \in Jobs
      BY <1>2, PastJob
    <3> QED BY <1>1, <2>1, <3>1, Passing DEF NextTarget
  <2>3. Plan(job[p])'
    BY <1>1, <1>2, <2>2, PastPlan DEF SameTask
  <2> HIDE DEF j
  <2>4. ASSUME job[p].alone
        PROVE  /\ \A m \in Places : m[1] = job[p].scope /\ file'[m].kind = "ours" => FileLeft(j, m)
               /\ \A k \in KeyPlaces : k[1] = job[p].scope /\ key'[k].kind = "ours" => KeyLeft(j, k)
               /\ \A m \in PtrPlaces : m[1] = job[p].scope /\ ptr'[m].kind = "ours" => PtrLeft(j, m)
    BY <1>1, <1>2, <1>6, <2>1, <2>2, <2>4 DEF Removed, FileLeft, KeyLeft, PtrLeft, SameTask
  <2> QED BY <1>1, <1>5, <2>2, <2>3, <2>4, RemovalStep DEF SameTask
<1>7. CASE /\ job[p].ptrs # {}
           /\ \/ ptr' = [ptr EXCEPT ![l] = Absent] /\ PointerDone(p)
              \/ ~Removable(ptr[l]) /\ ptr' = ptr /\ PointerDone(p)
              \/ ptr' = ptr /\ Go(p, [Failing(p) EXCEPT !.ptrs = @ \ {l}])
  <2>1. PICK b \in BOOLEAN : /\ Go(p, [job[p] EXCEPT !.ptrs = @ \ {l}, !.bad = b])
                             /\ job[p].bad => b
                             /\ \/ ptr' = [ptr EXCEPT ![l] = Absent]
                                \/ ptr' = ptr /\ (b \/ ~Removable(ptr[l]))
    <3>1. job[p].bad \in BOOLEAN
      BY <1>2 DEF Jobs
    <3>2. CASE PointerDone(p) /\ (ptr' = [ptr EXCEPT ![l] = Absent] \/ (ptr' = ptr /\ ~Removable(ptr[l])))
      <4>1. Go(p, [job[p] EXCEPT !.ptrs = @ \ {l}, !.bad = job[p].bad])
        BY <1>1, <3>2, PointerDoneSame DEF PointerDone
      <4> QED BY <3>1, <3>2, <4>1
    <3>3. CASE Go(p, [Failing(p) EXCEPT !.ptrs = @ \ {l}]) /\ ptr' = ptr
      <4>1. [Failing(p) EXCEPT !.ptrs = @ \ {l}] = [job[p] EXCEPT !.ptrs = @ \ {l}, !.bad = TRUE]
        BY <1>2 DEF Failing, Jobs
      <4> QED BY <3>3, <4>1
    <3> QED BY <1>7, <3>2, <3>3
  <2>2. /\ job' \in [Procs -> {Idle} \cup Jobs] /\ \A q \in Procs \ {p} : job'[q] = job[q]
        /\ SameTask(job[p], job'[p]) /\ job'[p].pc = job[p].pc /\ job'[p].todo = job[p].todo
        /\ job'[p].now = job[p].now /\ job'[p].ptrs = job[p].ptrs \ {l}
        /\ job'[p].rekey = job[p].rekey /\ job'[p].bad = b /\ Plan(job[p])'
    BY <1>1, <1>3, <2>1, Pointing
  <2>3. Repaired(job[p])'
    BY <1>1, <2>2 DEF Repaired, SameTask
  <2>4. ASSUME job[p].alone, NEW m \in PtrPlaces, m[1] = job[p].scope, ptr'[m].kind = "ours"
        PROVE  \/ b \/ <<"pointer", m>> \in job[p].unread
               \/ (\E t \in job[p].todo : m \in t.ptrs) \/ m \in job[p].ptrs \ {l}
    <3>1. ptr' = [ptr EXCEPT ![l] = Absent] => m # l /\ ptr[m].kind = "ours"
      BY <1>4, <1>7, <2>4, Entries DEF RInv, TypeOK, SlotsType
    <3>2. ptr[m].kind = "ours" /\ (b \/ m # l)
      BY <2>1, <2>4, <3>1 DEF Removable
    <3>3. PtrLeft(job[p], m)
      BY <1>1, <1>2, <2>4, <3>2 DEF Removed
    <3> QED BY <2>1, <3>2, <3>3 DEF PtrLeft
  <2>5. ASSUME job[p].alone
        PROVE  /\ \A m \in Places : m[1] = job[p].scope /\ file'[m].kind = "ours" => FileLeft(job[p], m)'
               /\ \A k \in KeyPlaces : k[1] = job[p].scope /\ key'[k].kind = "ours" => KeyLeft(job[p], k)'
    BY <1>1, <1>2, <2>1, <2>2, <2>5 DEF Removed, FileLeft, KeyLeft, KeyOf, SameTask
  <2>6. Removed(job[p])'
    BY <2>2, <2>4, <2>5 DEF Removed, PtrLeft, SameTask
  <2> QED BY <1>1, <1>5, <2>2, <2>3, <2>6, CommandStep DEF SameTask
<1>8. CASE job[p].ptrs # {} /\ ptr' = ptr /\ Go(p, [Unread(p, <<"pointer", l>>) EXCEPT !.ptrs = @ \ {l}])
  <2> DEFINE u == job[p].unread \cup {<<"pointer", l>>}
             P == job[p].ptrs \ {l}
             j == [[job[p] EXCEPT !.unread = u] EXCEPT !.ptrs = P]
  <2>1. Go(p, j)
    BY <1>2, <1>8 DEF Unread, Jobs
  <2>2. u \in SUBSET Readings
    BY <1>2, <1>4, <1>8 DEF Jobs, Readings, PtrPlaces, Names
  <2>3. P \in SUBSET PtrPlaces /\ P \subseteq job[p].ptrs
    BY <1>2 DEF Jobs
  <2> HIDE DEF u, P
  <2>4. j \in Jobs
    BY <1>2, <2>2, <2>3 DEF Jobs
  <2>5. /\ j.pc = job[p].pc /\ j.todo = job[p].todo /\ j.now = job[p].now /\ j.ptrs = P /\ j.unread = u
        /\ j.rekey = job[p].rekey /\ j.bad = job[p].bad /\ j.failed = job[p].failed /\ j.kept = job[p].kept
        /\ j.cmd = job[p].cmd /\ j.scope = job[p].scope /\ j.alone = job[p].alone
        /\ j.regs = job[p].regs /\ j.dirs = job[p].dirs
    BY <1>2 DEF Jobs
  <2> HIDE DEF j
  <2>6. job'[p] = j
    BY <2>1, <2>4, Going
  <2>7. Regs' = Regs /\ Ptrs' = Ptrs /\ Targets' = Targets
    BY <1>1, PlacesFixed
  <2>8. Plan(job[p])'
    BY <1>2, <1>3, <2>3, <2>5, <2>6, <2>7 DEF Plan, Between, u
  <2>9. ASSUME job[p].alone
        PROVE  /\ \A m \in Places : m[1] = job[p].scope /\ file'[m].kind = "ours" => FileLeft(j, m)
               /\ \A k \in KeyPlaces : k[1] = job[p].scope /\ key'[k].kind = "ours" => KeyLeft(j, k)
    BY <1>1, <1>2, <2>5, <2>9 DEF Removed, FileLeft, KeyLeft, u
  <2>10. ASSUME job[p].alone
         PROVE  \A m \in PtrPlaces : m[1] = job[p].scope /\ ptr'[m].kind = "ours" => PtrLeft(j, m)
    BY <1>1, <1>2, <1>8, <2>5, <2>10 DEF Removed, PtrLeft, u, P
  <2> QED BY <1>1, <1>5, <2>1, <2>4, <2>5, <2>8, <2>9, <2>10, RemovalStep
<1> QED BY <1>1, <1>6, <1>7, <1>8

LEMMA RemoveWrapperRInv ==
    ASSUME RInv, NEW p \in Procs, NEW l \in WrapPlaces, RemoveWrapper(p, l)
    PROVE  RInv'
<1>1. /\ Active(p) /\ job[p].cmd = "uninstall" /\ job[p].pc = "finish" /\ os' = os
      /\ UNCHANGED <<file, key, ptr>> /\ faults' \in Nat
      /\ \/ wrap' = [wrap EXCEPT ![l] = Absent] /\ job' = job
         \/ wrap' = wrap /\ Go(p, [Failing(p) EXCEPT !.kept = @ \cup {l}])
         \/ wrap' = wrap /\ Go(p, [Unread(p, <<"wrapper", l>>) EXCEPT !.kept = @ \cup {l}])
  BY Counted DEF RemoveWrapper, Doing, Active, Quiet
<1>2. job[p] \in Jobs /\ Plan(job[p]) /\ Removed(job[p])
  BY <1>1, Doer
<1>3. SlotsType' /\ Placed' /\ Honest'
  <2>1. Absent \in Entry(Browsers \cup {"none"}) /\ Absent.kind # "ours"
    BY Entries
  <2> QED BY <1>1, <2>1, WrapWritten, SlotsKept DEF slots
<1>4. Regs' = Regs /\ Ptrs' = Ptrs /\ Targets' = Targets
  BY <1>1, PlacesFixed
<1>5. CASE job' = job
  <2>1. Plan(job[p])'
    BY <1>1, <1>2, <1>5, PlanKept
  <2>2. Repaired(job[p])' /\ Removed(job[p])'
    BY <1>1, <1>2, <1>5 DEF Repaired, Removed, FileLeft, KeyLeft, PtrLeft, KeyOf
  <2> QED BY <1>1, <1>3, <1>5, <2>1, <2>2, CommandStep DEF RInv, TypeOK
<1>6. CASE \/ Go(p, [Failing(p) EXCEPT !.kept = @ \cup {l}])
           \/ Go(p, [Unread(p, <<"wrapper", l>>) EXCEPT !.kept = @ \cup {l}])
  <2>1. PICK b \in BOOLEAN, u \in SUBSET Readings :
          /\ Go(p, [job[p] EXCEPT !.bad = b, !.unread = u, !.kept = job[p].kept \cup {l}])
          /\ job[p].bad => b
          /\ job[p].unread \subseteq u
          /\ b \/ <<"wrapper", l>> \in u
    <3>1. job[p].bad \in BOOLEAN /\ job[p].unread \in SUBSET Readings /\ <<"wrapper", l>> \in Readings
      BY <1>2 DEF Jobs, Readings, WrapPlaces, Names
    <3>2. [Failing(p) EXCEPT !.kept = @ \cup {l}]
            = [job[p] EXCEPT !.bad = TRUE, !.unread = job[p].unread, !.kept = job[p].kept \cup {l}]
      BY <1>2 DEF Failing, Jobs
    <3>3. [Unread(p, <<"wrapper", l>>) EXCEPT !.kept = @ \cup {l}]
            = [job[p] EXCEPT !.bad = job[p].bad, !.unread = job[p].unread \cup {<<"wrapper", l>>},
                             !.kept = job[p].kept \cup {l}]
      BY <1>2 DEF Unread, Jobs
    <3>4. CASE Go(p, [Failing(p) EXCEPT !.kept = @ \cup {l}])
      BY <3>1, <3>2, <3>4
    <3>5. CASE Go(p, [Unread(p, <<"wrapper", l>>) EXCEPT !.kept = @ \cup {l}])
      <4>1. job[p].unread \cup {<<"wrapper", l>>} \in SUBSET Readings
        BY <3>1
      <4> QED BY <3>1, <3>3, <3>5, <4>1
    <3> QED BY <1>6, <3>4, <3>5
  <2> DEFINE j == [job[p] EXCEPT !.bad = b, !.unread = u, !.kept = job[p].kept \cup {l}]
  <2>2. j \in Jobs
    BY <1>2 DEF Jobs
  <2>3. /\ j.pc = job[p].pc /\ j.todo = job[p].todo /\ j.now = job[p].now /\ j.ptrs = job[p].ptrs
        /\ j.rekey = job[p].rekey /\ j.bad = b /\ j.failed = job[p].failed
        /\ j.unread = u /\ j.kept = job[p].kept \cup {l}
        /\ j.cmd = job[p].cmd /\ j.scope = job[p].scope /\ j.alone = job[p].alone
        /\ j.regs = job[p].regs /\ j.dirs = job[p].dirs
    BY <1>2 DEF Jobs
  <2>4. Go(p, j)
    BY <2>1
  <2> HIDE DEF j
  <2>5. job'[p] = j
    BY <2>2, <2>4, Going
  <2>6. Plan(job[p])'
    BY <1>2, <1>4, <2>1, <2>3, <2>5 DEF Plan, Between
  <2>7. ASSUME job[p].alone
        PROVE  /\ \A m \in Places : m[1] = job[p].scope /\ file'[m].kind = "ours" => FileLeft(j, m)
               /\ \A k \in KeyPlaces : k[1] = job[p].scope /\ key'[k].kind = "ours" => KeyLeft(j, k)
               /\ \A m \in PtrPlaces : m[1] = job[p].scope /\ ptr'[m].kind = "ours" => PtrLeft(j, m)
    BY <1>1, <1>2, <2>1, <2>3, <2>7 DEF Removed, FileLeft, KeyLeft, PtrLeft
  <2> QED BY <1>1, <1>3, <2>2, <2>3, <2>4, <2>6, <2>7, RemovalStep
<1> QED BY <1>1, <1>5, <1>6

LEMMA FinishRInv ==
    ASSUME RInv, NEW p \in Procs, Finish(p)
    PROVE  RInv'
<1>1. Active(p) /\ Go(p, Idle) /\ os' = os /\ faults' \in Nat /\ UNCHANGED slots
  BY Counted DEF Finish, Quiet
<1> QED BY <1>1, SlotsKept, Going, CommandStep

----------------------------------------------------------------------------
(* Faults, and the start of a command.                                     *)

LEMMA CrashRInv ==
    ASSUME RInv, NEW p \in Procs, Crash(p)
    PROVE  RInv'
<1>1. /\ Active(p) /\ Go(p, Idle) /\ os' = os /\ faults' \in Nat /\ UNCHANGED <<file, wrap>>
      /\ \/ UNCHANGED <<key, ptr>>
         \/ job[p].pc = "key" /\ key' = Torn(key, KeyOf(job[p].now.reg)) /\ ptr' = ptr
         \/ job[p].ptrs # {} /\ ptr' = Torn(ptr, ThisPointer(p)) /\ key' = key
  BY Counted DEF Crash, Quiet, Doing, Target
<1>2. job[p] \in Jobs /\ Plan(job[p])
  BY <1>1, Doer
<1>3. SlotsType' /\ Placed' /\ Honest'
  <2>1. CASE UNCHANGED <<key, ptr>>
    BY <1>1, <2>1, SlotsKept DEF slots
  <2>2. CASE job[p].pc = "key" /\ key' = Torn(key, KeyOf(job[p].now.reg)) /\ ptr' = ptr
    <3>1. ~Between(job[p]) /\ job[p].now.reg.keyed
      BY <1>2, <2>2 DEF Between, Plan
    <3>2. KeyOf(job[p].now.reg) \in KeyPlaces
      BY <1>1, <3>1, Current
    <3> QED BY <1>1, <2>2, <3>2, KeyTorn
  <2>3. CASE job[p].ptrs # {} /\ ptr' = Torn(ptr, ThisPointer(p)) /\ key' = key
    <3>1. job[p].scope \in Scopes /\ ThisPointer(p) \in Ptrs[job[p].scope]
      BY <1>2, <2>3 DEF Jobs, ThisPointer, Plan
    <3>2. ThisPointer(p) \in PtrPlaces
      BY <3>1, PtrFacts DEF RInv
    <3> QED BY <1>1, <2>3, <3>2, PtrTorn
  <2> QED BY <1>1, <2>1, <2>2, <2>3
<1> QED BY <1>1, <1>3, Going, CommandStep

\* A command that someone joins is alone no more, and promises nothing after that.
LEMMA Crowded ==
    ASSUME RInv, os' = os, NEW q \in Procs, Active(q), job'[q] = [job[q] EXCEPT !.alone = FALSE]
    PROVE  /\ job'[q] \in Jobs /\ Plan(job[q])' /\ Solitary(q)' /\ Repaired(job[q])' /\ Removed(job[q])'
<1>1. job[q] \in Jobs /\ Plan(job[q])
  BY Doer
<1>2. job'[q] \in Jobs
  BY <1>1 DEF Jobs
<1>3. /\ job'[q].alone = FALSE /\ job'[q].pc = job[q].pc /\ job'[q].todo = job[q].todo
      /\ job'[q].now = job[q].now /\ job'[q].ptrs = job[q].ptrs /\ job'[q].bad = job[q].bad
      /\ job'[q].cmd = job[q].cmd /\ job'[q].scope = job[q].scope /\ job'[q].failed = job[q].failed
      /\ job'[q].kept = job[q].kept /\ job'[q].regs = job[q].regs /\ job'[q].dirs = job[q].dirs
      /\ job'[q].unread = job[q].unread
  BY <1>1 DEF Jobs
<1>4. Regs' = Regs /\ Ptrs' = Ptrs /\ Targets' = Targets
  BY PlacesFixed
<1>5. Plan(job[q])'
  BY <1>1, <1>3, <1>4 DEF Plan, Between
<1> QED BY <1>2, <1>3, <1>5 DEF Solitary, Repaired, Removed

LEMMA ForeignWriteRInv ==
    ASSUME RInv, NEW l \in {<<"user", "chrome">>, <<"user", "store">>}, ForeignWrite(l)
    PROVE  RInv'
<1>1. /\ os' = os /\ faults' \in Nat /\ file' = [file EXCEPT ![l] = [kind |-> "foreign"]]
      /\ UNCHANGED <<key, ptr, wrap>>
      /\ job' = [q \in Procs |-> IF Active(q) THEN [job[q] EXCEPT !.alone = FALSE] ELSE job[q]]
  BY Counted DEF ForeignWrite, Quiet
<1>2. l \in Places
  BY DEF Places, Scopes, Browsers
<1>3. SlotsType' /\ Placed' /\ Honest'
  <2>1. [kind |-> "foreign"] \in Entry(WrapPlaces \cup {Exe}) /\ [kind |-> "foreign"].kind # "ours"
    BY Entries
  <2> QED BY <1>1, <1>2, <2>1, FileWritten
<1>4. ASSUME NEW q \in Procs PROVE job'[q] \in {Idle} \cup Jobs /\ JobInv(q)'
  <2>1. CASE Active(q)
    BY <1>1, <2>1, Crowded DEF JobInv
  <2>2. CASE ~Active(q)
    <3>1. job'[q] = job[q] /\ job[q] \in {Idle} \cup Jobs
      BY <1>1, <2>2 DEF RInv, TypeOK
    <3> QED BY <2>2, <3>1 DEF JobInv, Active
  <2> QED BY <2>1, <2>2
<1>5. job' \in [Procs -> {Idle} \cup Jobs]
  BY <1>1, <1>4
<1>6. TypeOK'
  BY <1>1, <1>3, <1>5 DEF TypeOK, RInv
<1> QED BY <1>3, <1>4, <1>6 DEF RInv

LEMMA StartRInv ==
    ASSUME RInv, NEW p \in Procs, ~Active(p), NEW j \in Jobs, Start(p, j), j.alone => Alone(p),
           Plan(j), Repaired(j), Removed(j)
    PROVE  RInv'
<1>1. /\ os' = os /\ faults' = faults /\ UNCHANGED slots
      /\ job' = [q \in Procs |->
                   IF q = p THEN j
                   ELSE IF Active(q) THEN [job[q] EXCEPT !.alone = FALSE] ELSE job[q]]
  BY DEF Start
<1>2. SlotsType' /\ Placed' /\ Honest'
  BY <1>1, SlotsKept
<1>3. file' = file /\ key' = key /\ ptr' = ptr /\ wrap' = wrap /\ job'[p] = j
  BY <1>1 DEF slots
<1>4. Regs' = Regs /\ Ptrs' = Ptrs /\ Targets' = Targets
  BY <1>1, PlacesFixed
<1>5. ASSUME NEW q \in Procs, q # p PROVE job'[q] \in {Idle} \cup Jobs /\ JobInv(q)' /\ (Active(q)' => Active(q))
  <2>1. CASE Active(q)
    <3>1. job'[q] = [job[q] EXCEPT !.alone = FALSE]
      BY <1>1, <1>5, <2>1
    <3> QED BY <1>1, <2>1, <3>1, Crowded DEF JobInv
  <2>2. CASE ~Active(q)
    <3>1. job'[q] = job[q] /\ job[q] \in {Idle} \cup Jobs
      BY <1>1, <1>5, <2>2 DEF RInv, TypeOK
    <3> QED BY <2>2, <3>1 DEF JobInv, Active
  <2> QED BY <2>1, <2>2
<1>6. Plan(job[p])'
  BY <1>3, <1>4 DEF Plan, Between
<1>7. Repaired(job[p])' /\ Removed(job[p])'
  BY <1>3 DEF Repaired, Removed, FileLeft, KeyLeft, PtrLeft, FileOK, KeyOK, KeyOf, Launches, Between, Wrapper
<1>8. Solitary(p)'
  BY <1>3, <1>5 DEF Solitary, Alone
<1>9. JobInv(p)' /\ job'[p] \in Jobs
  BY <1>3, <1>6, <1>7, <1>8 DEF JobInv
<1>10. job' \in [Procs -> {Idle} \cup Jobs]
  BY <1>1, <1>5, <1>9
<1>11. TypeOK'
  BY <1>1, <1>2, <1>10 DEF TypeOK, RInv
<1> QED BY <1>2, <1>5, <1>9, <1>11 DEF RInv

\* Whatever a command line selects is a target of its scope.
LEMMA SelectionsGood ==
    ASSUME TypeOK, NEW s \in Scopes
    PROVE  /\ \A sel \in SUBSET Browsers : BrowserTargets(s, sel) \subseteq Targets[s]
           /\ \A ts \in Selections(s) : ts \subseteq Targets[s]
<1>1. ASSUME NEW sel \in SUBSET Browsers PROVE BrowserTargets(s, sel) \subseteq Targets[s]
  BY TargetForGood DEF BrowserTargets
<1>2. ASSUME NEW ts \in Selections(s) PROVE ts \subseteq Targets[s]
  <2>1. CASE \E sel \in (SUBSET Browsers) \cup {DetectedSet(s)} : ts = BrowserTargets(s, sel)
    BY <1>1, <2>1 DEF DetectedSet
  <2>2. CASE s = "user" /\ \E ds \in SUBSET Dirs : ts = {ExplicitTarget(d) : d \in ds}
    BY <2>2, ExplicitGood
  <2> QED BY <1>2, <2>1, <2>2 DEF Selections
<1> QED BY <1>1, <1>2

LEMMA StartFixRInv ==
    ASSUME RInv, NEW p \in Procs, ~Active(p), NEW s \in Scopes, NEW ts \in SUBSET Targets[s],
           NEW replace \in BOOLEAN, StartFix(p, s, ts, replace)
    PROVE  RInv'
<1>1. PICK a \in BOOLEAN : a = Alone(p)
  BY DEF Alone
<1> DEFINE R == {t.reg : t \in ts}
           j == [cmd |-> "fix", scope |-> s, replace |-> replace, todo |-> ts, now |-> NoTarget,
                 pc |-> "judge", ptrs |-> {}, rekey |-> FALSE, bad |-> FALSE, alone |-> a,
                 failed |-> {}, unread |-> {}, kept |-> {}, regs |-> R, dirs |-> {}]
<1>2. Start(p, j)
  BY <1>1 DEF StartFix
<1>3. TypeOK
  BY DEF RInv
<1>4. \A t \in ts : t \in TargetShape /\ t.reg \in Regs[s]
  BY <1>3, TargetFacts
<1>5. \A r \in Regs[s] : r \in RegShape
  BY <1>3, RegFacts
<1>6. R \in SUBSET RegShape /\ R \subseteq Regs[s]
  BY <1>4, <1>5
<1>7. \A r \in R : \E t \in ts : t.reg = r
  OBVIOUS
<1> HIDE DEF R
<1>8. j \in Jobs
  BY <1>4, <1>6, NoTargetShape DEF Jobs, FixPhases
<1>9. /\ j.cmd = "fix" /\ j.scope = s /\ j.todo = ts /\ j.pc = "judge" /\ j.ptrs = {}
      /\ j.bad = FALSE /\ j.alone = a /\ j.failed = {} /\ j.kept = {} /\ j.regs = R /\ j.dirs = {}
  OBVIOUS
<1> HIDE DEF j
<1>10. Plan(j)
  BY <1>6, <1>9 DEF Plan, Between, FixPhases
<1>11. Repaired(j) /\ Removed(j)
  BY <1>7, <1>9 DEF Repaired, Removed
<1> QED BY <1>1, <1>2, <1>8, <1>9, <1>10, <1>11, StartRInv

LEMMA StartUninstallRInv ==
    ASSUME RInv, NEW p \in Procs, ~Active(p), NEW s \in Scopes, NEW ds \in SUBSET Dirs,
           StartUninstall(p, s, ds)
    PROVE  RInv'
<1>1. PICK a \in BOOLEAN : a = Alone(p)
  BY DEF Alone
<1> DEFINE ts == BrowserTargets(s, Browsers) \cup {ExplicitTarget(d) : d \in ds}
           j == [cmd |-> "uninstall", scope |-> s, replace |-> FALSE, todo |-> ts, now |-> NoTarget,
                 pc |-> "judge", ptrs |-> {}, rekey |-> FALSE, bad |-> FALSE, alone |-> a,
                 failed |-> {}, unread |-> {}, kept |-> {}, regs |-> {}, dirs |-> ds]
<1>2. Start(p, j) /\ (s = "user" \/ ds = {})
  BY <1>1 DEF StartUninstall
<1>3. TypeOK /\ Placed
  BY DEF RInv
<1>4. ts \subseteq Targets[s]
  <2>1. BrowserTargets(s, Browsers) \subseteq Targets[s]
    BY <1>3, SelectionsGood
  <2>2. \A d \in ds : ExplicitTarget(d) \in Targets[s]
    BY <1>2, <1>3, ExplicitGood
  <2> QED BY <2>1, <2>2
<1>5. ts \subseteq TargetShape
  BY <1>3, <1>4, TargetFacts
<1>6. \A b \in Browsers : TargetFor(s, b, Browsers) \in ts
  BY DEF BrowserTargets
<1>7. \A d \in ds : ExplicitTarget(d) \in ts
  OBVIOUS
<1> HIDE DEF ts
<1>8. j \in Jobs
  BY <1>5, NoTargetShape DEF Jobs, FixPhases
<1>9. /\ j.cmd = "uninstall" /\ j.scope = s /\ j.todo = ts /\ j.pc = "judge" /\ j.ptrs = {}
      /\ j.bad = FALSE /\ j.alone = a /\ j.failed = {} /\ j.kept = {} /\ j.regs = {} /\ j.dirs = ds
  OBVIOUS
<1> HIDE DEF j
<1>10. Plan(j)
  BY <1>2, <1>4, <1>9 DEF Plan, Between, RmPhases
<1>11. \A r \in BrowserRegs[s] : \E t \in ts : t.reg = r
  <2> TAKE r \in BrowserRegs[s]
  <2>1. PICK b \in Browsers : r = RegistrationOf(s, b)
    BY DEF BrowserRegs
  <2>2. TargetFor(s, b, Browsers).reg = r
    BY <2>1 DEF TargetFor
  <2> QED BY <1>6, <2>2
<1>12. ASSUME NEW l \in Places, l[1] = s, file[l].kind = "ours" PROVE FileLeft(j, l)
  <2>1. PICK r \in Regs[s] : r.at = l
    BY <1>3, <1>12 DEF Placed
  <2>2. CASE r \in BrowserRegs[s]
    BY <1>9, <1>11, <2>1, <2>2 DEF FileLeft
  <2>3. CASE r \in DirRegs[s]
    <3>1. PICK d \in Dirs : r = DirRegistration("user", d)
      BY <2>3 DEF DirRegs
    <3>2. l[2] = d
      BY <2>1, <3>1 DEF DirRegistration
    <3>3. ExplicitTarget(d).reg.at = l
      BY <2>1, <3>1 DEF ExplicitTarget
    <3>4. d \in ds => \E t \in j.todo : t.reg.at = l
      BY <1>7, <1>9, <3>3
    <3> QED BY <1>9, <3>2, <3>4 DEF FileLeft
  <2> QED BY <2>1, <2>2, <2>3 DEF Regs
<1>13. ASSUME NEW k \in KeyPlaces, k[1] = s, key[k].kind = "ours" PROVE KeyLeft(j, k)
  <2>1. PICK r \in BrowserRegs[s] : r.keyed /\ KeyOf(r) = k
    BY <1>3, <1>13 DEF Placed
  <2> QED BY <1>9, <1>11, <2>1 DEF KeyLeft
<1>14. ASSUME NEW l \in PtrPlaces, l[1] = s, ptr[l].kind = "ours" PROVE PtrLeft(j, l)
  <2>1. l \in Ptrs[s]
    BY <1>3, <1>14 DEF Placed
  <2>2. PICK b \in Browsers : l \in Pointers(s, b)
    BY <2>1 DEF Ptrs
  <2>3. l \in TargetFor(s, b, Browsers).ptrs
    BY <2>2 DEF TargetFor
  <2> QED BY <1>6, <1>9, <2>3 DEF PtrLeft
<1>15. Repaired(j) /\ Removed(j)
  BY <1>9, <1>12, <1>13, <1>14 DEF Repaired, Removed
<1> QED BY <1>1, <1>2, <1>8, <1>9, <1>10, <1>15, StartRInv

LEMMA CommandRInv ==
    ASSUME RInv, NEW p \in Procs, Command(p)
    PROVE  RInv'
<1>1. TypeOK /\ ~Active(p)
  BY DEF RInv, Command
<1>2. CASE \E s \in Scopes : \E t \in Selections(s) : StartFix(p, s, t, TRUE)
  BY <1>1, <1>2, SelectionsGood, StartFixRInv
<1>3. CASE \E sel \in SUBSET Browsers : StartRepair(p, sel)
  <2>1. "user" \in Scopes
    BY DEF Scopes
  <2> QED BY <1>1, <1>3, <2>1, SelectionsGood, StartFixRInv DEF StartRepair
<1>4. CASE \E s \in Scopes, ds \in SUBSET Dirs : StartUninstall(p, s, ds)
  BY <1>1, <1>4, StartUninstallRInv
<1> QED BY <1>2, <1>3, <1>4 DEF Command

LEMMA StutterRInv == ASSUME RInv, UNCHANGED vars PROVE RInv'
<1>1. os' = os /\ job' = job /\ faults' = faults /\ UNCHANGED slots
  BY DEF vars
<1>2. SlotsType' /\ Placed' /\ Honest'
  BY <1>1, SlotsKept
<1>3. file' = file /\ key' = key /\ ptr' = ptr /\ wrap' = wrap
  BY <1>1 DEF slots
<1>4. TypeOK'
  BY <1>1, <1>2 DEF RInv, TypeOK
<1>5. \A q \in Procs : JobInv(q)'
  <2> TAKE q \in Procs
  <2>1. CASE Active(q)
    <3>1. Plan(job[q])'
      BY <1>1, <2>1, Doer, PlanKept
    <3>2. Solitary(q) /\ Repaired(job[q]) /\ Removed(job[q])
      BY <2>1, Doer
    <3>3. Solitary(q)'
      BY <1>1, <3>2 DEF Solitary, Active
    <3>4. Repaired(job[q])'
      <4>1. \A r : FileOK(r)' = FileOK(r) /\ KeyOK(r)' = KeyOK(r)
        BY <1>1, <1>3 DEF FileOK, KeyOK, KeyOf, Launches
      <4> QED BY <1>1, <1>3, <3>2, <4>1 DEF Repaired, Between, Wrapper
    <3>5. Removed(job[q])'
      <4>1. /\ \A l : FileLeft(job[q], l)' = FileLeft(job[q], l)
            /\ \A l : KeyLeft(job[q], l)' = KeyLeft(job[q], l)
            /\ \A l : PtrLeft(job[q], l)' = PtrLeft(job[q], l)
        BY <1>1 DEF FileLeft, KeyLeft, PtrLeft, KeyOf
      <4> QED BY <1>1, <1>3, <3>2, <4>1 DEF Removed
    <3> QED BY <3>1, <3>3, <3>4, <3>5 DEF JobInv
  <2>2. CASE ~Active(q)
    BY <1>1, <2>2 DEF JobInv, Active
  <2> QED BY <2>1, <2>2
<1> QED BY <1>2, <1>4, <1>5 DEF RInv

LEMMA NextRInv == ASSUME RInv, [Next]_vars PROVE RInv'
<1>1. ASSUME NEW p \in Procs,
             \/ Command(p) \/ Judge(p) \/ CreateDirs(p) \/ WriteWrapper(p) \/ WriteManifest(p)
             \/ DeleteForeignKey(p) \/ WriteKey(p) \/ WritePointer(p)
      PROVE  RInv'
  BY <1>1, CommandRInv, JudgeRInv, CreateDirsRInv, WriteWrapperRInv, WriteManifestRInv,
     DeleteForeignKeyRInv, WriteKeyRInv, WritePointerRInv
<1>2. ASSUME NEW p \in Procs,
             \/ JudgeRemoval(p) \/ RemoveKey(p) \/ RemoveManifest(p) \/ RemovePointer(p)
             \/ (\E l \in WrapPlaces : RemoveWrapper(p, l)) \/ Finish(p) \/ Crash(p)
      PROVE  RInv'
  BY <1>2, JudgeRemovalRInv, RemoveKeyRInv, RemoveManifestRInv, RemovePointerRInv,
     RemoveWrapperRInv, FinishRInv, CrashRInv
<1> QED BY <1>1, <1>2, ForeignWriteRInv, StutterRInv DEF Next

\* The inductive invariant: what is ours lies where some browser or some directory a user named
\* reads it and launches what may honestly be launched from there, and a command that has run
\* alone has put in order, or taken away, all it will not come to any more.
THEOREM RegistrationInvariant == Spec => []RInv
<1>1. Init => RInv
  BY InitRInv
<1>2. RInv /\ [Next]_vars => RInv'
  BY NextRInv
<1> QED BY <1>1, <1>2, PTL DEF Spec

----------------------------------------------------------------------------
(* What the browsers find.                                                 *)

\* The browser whose directory it is carries its label only if no other browser reads there, and a
\* browser that reads another's directory reads Chrome's.
LEMMA HonestLookup ==
    ASSUME RInv, NEW b \in Browsers, NEW s \in Scopes,
           LET f == file[RegistrationOf(s, b).at]
           IN  f.kind = "ours" /\ f.holds \in WrapPlaces /\ wrap[f.holds].kind = "ours"
    PROVE  wrap[file[RegistrationOf(s, b).at].holds].holds \in {"none", b}
<1> DEFINE r == RegistrationOf(s, b)
           w == file[r.at].holds
<1>1. r \in Regs[s]
  BY DEF Regs, BrowserRegs
<1>2. r.at \in Places /\ r.at[1] = s
  BY <1>1, RegFacts DEF RInv
<1>3. wrap[w].holds = w[2]
  BY DEF RInv, Honest
<1>4. w \in {Exe, <<s, "none">>} \/ (w = r.at /\ r.at[2] \in Sole[s])
  BY <1>2 DEF RInv, Honest
<1>5. CASE w \in {Exe, <<s, "none">>}
  BY <1>3, <1>5 DEF Exe
<1>6. CASE w = r.at /\ r.at[2] \in Sole[s]
  <2>1. r.at[2] \in Browsers /\ Label(s, r.at[2]) = r.at[2]
    BY <1>6 DEF Sole
  <2>2. r.at[2] = Owner(s, b)
    BY <2>1, RegistrationAssumption DEF RegistrationOf, DirRegistration
  <2>3. ASSUME b \in ReadsChrome(s) PROVE FALSE
    <3>1. r.at[2] = "chrome"
      BY <2>2, <2>3 DEF Owner
    <3>2. Readers(s, "chrome") # {}
      BY <2>3 DEF Readers
    <3>3. Label(s, "chrome") = "none"
      BY <3>2 DEF Label
    <3> QED BY <2>1, <3>1, <3>3
  <2>4. Owner(s, b) = b
    BY <2>3 DEF Owner
  <2> QED BY <1>3, <1>6, <2>2, <2>4
<1> QED BY <1>4, <1>5, <1>6

\* Whatever was registered, by whom and in whatever order, and whatever failed or crashed on the
\* way: the wrapper a browser's lookup lands on carries that browser's label or none.
THEOREM RegistrationLabelHonest == Spec => []LabelHonest
<1>1. RInv => LabelHonest
  <2> SUFFICES ASSUME RInv, NEW b \in Browsers PROVE Announces(b) \in {"none", b}
    BY DEF LabelHonest
  <2>1. EffectiveScope(b) \in Scopes
    BY DEF EffectiveScope, Scopes
  <2> QED BY <2>1, HonestLookup DEF Announces
<1> QED BY <1>1, RegistrationInvariant, PTL

----------------------------------------------------------------------------
(* Orphans.                                                                *)

\* Only a manifest written, or a wrapper removed, can leave a manifest that launches nothing.
LEMMA DanglesSame ==
    ASSUME NEW l, file'[l] = file[l], wrap' = wrap
    PROVE  Dangles(l)' = Dangles(l)
BY DEF Dangles, Launches

LEMMA WrapperKept ==
    ASSUME RInv, NEW p \in Procs, WriteWrapper(p), NEW l \in Places, Dangles(l)'
    PROVE  Dangles(l)
<1>1. file' = file
  BY DEF WriteWrapper
<1>2. wrap' = wrap \/ wrap' = [wrap EXCEPT ![Wrapper(Target(p))] = Ours(Target(p).label)]
  BY DEF WriteWrapper, Atomic
<1>3. \A v \in WrapPlaces : wrap'[v].kind = "absent" => wrap[v].kind = "absent"
  BY <1>2, Entries DEF RInv, TypeOK, SlotsType
<1> QED BY <1>1, <1>3 DEF Dangles, Launches

LEMMA ManifestOrphan ==
    ASSUME RInv, NEW p \in Procs, WriteManifest(p), NEW l \in Places, Dangles(l)', ~Dangles(l)
    PROVE  Active(p) /\ ~job[p].alone
<1> DEFINE t == job[p].now
<1>1. /\ Active(p) /\ job[p].cmd = "fix" /\ job[p].pc = "manifest" /\ wrap' = wrap
      /\ Atomic(p, file, t.reg.at, Ours(LaunchPath(t)), AfterManifest(p))
  BY DEF WriteManifest, Doing, Active, Target
<1>2. Repaired(job[p]) /\ ~Between(job[p])
  BY <1>1, Doer DEF Between
<1>3. t.reg.at \in Places /\ Wrapper(t) \in WrapPlaces /\ t.reg.keyed \in BOOLEAN
  BY <1>1, <1>2, Current
<1>4. file'[l] # file[l]
  BY <1>1, DanglesSame
<1>5. file'[l] = Ours(LaunchPath(t))
  BY <1>1, <1>3, <1>4 DEF Atomic, RInv, TypeOK, SlotsType
<1>6. ~Launches(LaunchPath(t))
  BY <1>1, <1>5, Entries DEF Dangles, Launches
<1>7. ~t.reg.keyed /\ wrap[Wrapper(t)].kind = "absent"
  BY <1>3, <1>6 DEF LaunchPath, Launches
<1> QED BY <1>1, <1>2, <1>7 DEF Repaired

LEMMA RemovedManifest ==
    ASSUME RInv, NEW p \in Procs, RemoveManifest(p), NEW l \in Places, Dangles(l)'
    PROVE  Dangles(l)
<1>1. wrap' = wrap /\ (file' = file \/ file' = [file EXCEPT ![Target(p).reg.at] = Absent])
  BY DEF RemoveManifest
<1>2. file'[l] = file[l]
  BY <1>1, Entries DEF Dangles, RInv, TypeOK, SlotsType
<1> QED BY <1>1, <1>2, DanglesSame

LEMMA WrapperOrphan ==
    ASSUME RInv, NEW p \in Procs, NEW w \in WrapPlaces, RemoveWrapper(p, w), NEW l \in Places,
           Dangles(l)', ~Dangles(l)
    PROVE  Active(p) /\ (\/ ~job[p].alone
                         \/ Doing(p, "uninstall", "finish") /\ Named(p, l))
<1>1. /\ Active(p) /\ Doing(p, "uninstall", "finish") /\ file' = file /\ w \in Leftover(p)
      /\ wrap' = wrap \/ wrap' = [wrap EXCEPT ![w] = Absent]
  BY DEF RemoveWrapper, Doing, Active
<1>2. file[l].kind = "ours" /\ file[l].holds = w
  <2>1. \A v \in WrapPlaces : v # w => wrap'[v] = wrap[v]
    BY <1>1 DEF RInv, TypeOK, SlotsType
  <2> QED BY <1>1, <2>1 DEF Dangles, Launches
<1>3. w[1] = job[p].scope
  BY <1>1 DEF Leftover
<1>4. w[1] \in Scopes /\ w # Exe
  BY DEF WrapPlaces, Exe, Scopes
<1>5. l[1] = job[p].scope
  BY <1>2, <1>3, <1>4 DEF RInv, Honest
<1>6. Removed(job[p]) /\ Plan(job[p]) /\ job[p].pc = "finish" /\ job[p].cmd = "uninstall"
  BY <1>1, Doer DEF Doing
<1>7. job[p].alone => FileLeft(job[p], l)
  BY <1>2, <1>5, <1>6 DEF Removed
<1>8. job[p].todo = {}
  BY <1>6 DEF Plan
<1> QED BY <1>1, <1>6, <1>7, <1>8 DEF FileLeft, Named

\* No crash, no failed step and no command that ran alone leaves a manifest of ours launching
\* nothing, save an uninstall one it reported it could not remove or could not read, or was not
\* given.
THEOREM RegistrationNoOrphan == Spec => NoOrphan
<1> DEFINE Excused(l) == \E p \in Procs : /\ Active(p)
                                          /\ ~job[p].alone \/ (Doing(p, "uninstall", "finish") /\ Named(p, l))
<1>1. ASSUME RInv, [Next]_vars, NEW l \in Places, Dangles(l)', ~Dangles(l) PROVE Excused(l)
  <2>1. ~(file' = file /\ wrap' = wrap)
    BY <1>1, DanglesSame
  <2>2. ASSUME NEW k, ForeignWrite(k) PROVE FALSE
    <3>1. wrap' = wrap /\ file' = [file EXCEPT ![k] = [kind |-> "foreign"]]
      BY <2>2 DEF ForeignWrite
    <3>2. file'[l] = file[l]
      BY <1>1, <3>1 DEF Dangles, RInv, TypeOK, SlotsType
    <3> QED BY <1>1, <3>1, <3>2, DanglesSame
  <2>3. \E p \in Procs : WriteWrapper(p) \/ WriteManifest(p) \/ RemoveManifest(p)
                           \/ \E w \in WrapPlaces : RemoveWrapper(p, w)
    BY <1>1, <2>1, <2>2 DEF Next, vars, slots, Command, Start, StartFix, StartRepair, StartUninstall, Judge,
         CreateDirs, DeleteForeignKey, WriteKey, WritePointer, JudgeRemoval, RemoveKey, RemovePointer,
         Finish, Crash
  <2>4. PICK p \in Procs : WriteWrapper(p) \/ WriteManifest(p) \/ RemoveManifest(p)
                           \/ \E w \in WrapPlaces : RemoveWrapper(p, w)
    BY <2>3
  <2>5. CASE WriteManifest(p)
    BY <1>1, <2>5, ManifestOrphan
  <2>6. CASE \E w \in WrapPlaces : RemoveWrapper(p, w)
    BY <1>1, <2>6, WrapperOrphan
  <2> QED BY <1>1, <2>4, <2>5, <2>6, WrapperKept, RemovedManifest
<1>2. RInv /\ [Next]_vars => [\A l \in Places : Dangles(l)' /\ ~Dangles(l) => Excused(l)]_vars
  BY <1>1
<1> QED BY <1>2, RegistrationInvariant, PTL DEF Spec, NoOrphan

----------------------------------------------------------------------------
(* Reports.                                                                *)

\* A command goes on until its report or a crash: every other step leaves it running.
LEMMA StillRunning ==
    ASSUME RInv, NEW p \in Procs, Active(p), NEW q \in Procs, NEW j, Go(q, j),
           q = p => j.cmd = job[p].cmd
    PROVE  Active(p)'
BY DEF RInv, TypeOK, Go, Active

LEMMA JoinedRunning ==
    ASSUME RInv, NEW p \in Procs, Active(p),
           job'[p] = [job[p] EXCEPT !.alone = FALSE]
    PROVE  Active(p)'
<1>1. job[p] \in Jobs
  BY Doer
<1> QED BY <1>1 DEF Jobs, Active

LEMMA GoesOn ==
    ASSUME RInv, NEW p \in Procs, Active(p), NEW q \in Procs,
           \/ Judge(q) \/ CreateDirs(q) \/ WriteWrapper(q) \/ WriteManifest(q)
           \/ DeleteForeignKey(q) \/ WriteKey(q) \/ WritePointer(q)
           \/ JudgeRemoval(q) \/ RemoveKey(q) \/ RemoveManifest(q) \/ RemovePointer(q)
           \/ \E l \in WrapPlaces : RemoveWrapper(q, l)
    PROVE  Active(p)'
<1>1. Active(q)
  BY DEF Judge, CreateDirs, WriteWrapper, WriteManifest, DeleteForeignKey, WriteKey, WritePointer,
         JudgeRemoval, RemoveKey, RemoveManifest, RemovePointer, RemoveWrapper, Doing, Active
<1>2. job[q] \in Jobs
  BY <1>1, Doer
<1>3. \A t \in job[q].todo : At(job[q], t) \in Jobs /\ At(job[q], t).cmd = job[q].cmd
  BY <1>2, AtJob DEF SameTask
<1>4. \A j \in Jobs, b \in BOOLEAN : Past(j, b).cmd = j.cmd
  BY PastJob DEF SameTask
<1>5. ASSUME NEW b \in BOOLEAN, NextTarget(q, b) PROVE Active(p)'
  BY <1>2, <1>4, <1>5, StillRunning DEF NextTarget
<1>6. ASSUME NEW x, To(q, x) PROVE Active(p)'
  <2>1. [job[q] EXCEPT !.pc = x].cmd = job[q].cmd
    BY <1>2 DEF Jobs
  <2> QED BY <1>6, <2>1, StillRunning DEF To
<1>7. ASSUME PointerDone(q) PROVE Active(p)'
  <2>1. [job[q] EXCEPT !.ptrs = @ \ {ThisPointer(q)}].cmd = job[q].cmd
    BY <1>2 DEF Jobs
  <2> QED BY <1>7, <2>1, StillRunning DEF PointerDone
<1>8. CASE Judge(q)
  <2>1. PICK t \in job[q].todo :
          \/ \E b : Go(q, [At(job[q], t) EXCEPT !.pc = "dirs", !.ptrs = t.ptrs, !.rekey = b])
          \/ Go(q, Past(At(job[q], t), TRUE))
    BY <1>8 DEF Judge
  <2>2. \A b : [At(job[q], t) EXCEPT !.pc = "dirs", !.ptrs = t.ptrs, !.rekey = b].cmd = job[q].cmd
    BY <1>3 DEF Jobs
  <2> QED BY <1>3, <1>4, <2>1, <2>2, StillRunning
<1>9. CASE CreateDirs(q)
  BY <1>5, <1>6, <1>9 DEF CreateDirs, Untraversable
<1>10. CASE WriteWrapper(q)
  BY <1>5, <1>6, <1>10 DEF WriteWrapper, Atomic
<1>11. CASE WriteManifest(q)
  BY <1>5, <1>6, <1>11 DEF WriteManifest, Atomic, AfterManifest
<1>12. CASE DeleteForeignKey(q)
  BY <1>5, <1>6, <1>12 DEF DeleteForeignKey
<1>13. CASE WriteKey(q)
  BY <1>5, <1>6, <1>13 DEF WriteKey, SetRegistry
<1>14. CASE WritePointer(q)
  BY <1>5, <1>7, <1>14 DEF WritePointer, SetRegistry, Atomic
<1>15. CASE JudgeRemoval(q)
  <2>1. PICK t \in job[q].todo :
          \E x, f, u : Go(q, [At(job[q], t) EXCEPT !.pc = x, !.rekey = f, !.ptrs = t.ptrs, !.unread = u])
    BY <1>15 DEF JudgeRemoval
  <2>2. \A x, f, u : [At(job[q], t) EXCEPT !.pc = x, !.rekey = f, !.ptrs = t.ptrs, !.unread = u].cmd
                      = job[q].cmd
    BY <1>3 DEF Jobs
  <2> QED BY <2>1, <2>2, StillRunning
<1>16. Failing(q).cmd = job[q].cmd /\ DOMAIN Failing(q) = DOMAIN job[q]
  BY <1>2 DEF Jobs, Failing
<1>21. \A u : Unread(q, u).cmd = job[q].cmd /\ DOMAIN Unread(q, u) = DOMAIN job[q]
  BY <1>2 DEF Jobs, Unread
<1>17. CASE RemoveKey(q)
  <2>1. \A x : [Failing(q) EXCEPT !.pc = x].cmd = job[q].cmd
    BY <1>2, <1>16 DEF Jobs, Failing
  <2>2. \E x : To(q, x) \/ Go(q, [Failing(q) EXCEPT !.pc = x])
    BY <1>17 DEF RemoveKey
  <2> QED BY <1>6, <2>1, <2>2, StillRunning
<1>18. CASE RemoveManifest(q)
  <2>1. \A l : [Failing(q) EXCEPT !.pc = "rmpointers", !.failed = @ \cup {l}].cmd = job[q].cmd
    BY <1>2, <1>16 DEF Jobs, Failing
  <2>2. To(q, "rmpointers") \/ \E l : Go(q, [Failing(q) EXCEPT !.pc = "rmpointers", !.failed = @ \cup {l}])
    BY <1>18 DEF RemoveManifest
  <2> QED BY <1>6, <2>1, <2>2, StillRunning
<1>19. CASE RemovePointer(q)
  <2>1. \A l, u : /\ [Failing(q) EXCEPT !.ptrs = @ \ {l}].cmd = job[q].cmd
                 /\ [Unread(q, u) EXCEPT !.ptrs = @ \ {l}].cmd = job[q].cmd
    BY <1>2, <1>16, <1>21 DEF Jobs, Failing, Unread
  <2>2. \/ NextTarget(q, FALSE) \/ PointerDone(q)
        \/ \E l : Go(q, [Failing(q) EXCEPT !.ptrs = @ \ {l}])
        \/ \E l, u : Go(q, [Unread(q, u) EXCEPT !.ptrs = @ \ {l}])
    BY <1>19 DEF RemovePointer
  <2> QED BY <1>5, <1>7, <2>1, <2>2, StillRunning
<1>20. CASE \E l \in WrapPlaces : RemoveWrapper(q, l)
  <2>1. \A l, u : /\ [Failing(q) EXCEPT !.kept = @ \cup {l}].cmd = job[q].cmd
                 /\ [Unread(q, u) EXCEPT !.kept = @ \cup {l}].cmd = job[q].cmd
    BY <1>2, <1>16, <1>21 DEF Jobs, Failing, Unread
  <2>2. \/ job' = job \/ \E l : Go(q, [Failing(q) EXCEPT !.kept = @ \cup {l}])
        \/ \E l, u : Go(q, [Unread(q, u) EXCEPT !.kept = @ \cup {l}])
    BY <1>20 DEF RemoveWrapper
  <2>3. CASE job' = job
    BY <2>3 DEF Active
  <2> QED BY <2>1, <2>2, <2>3, StillRunning
<1> QED BY <1>8, <1>9, <1>10, <1>11, <1>12, <1>13, <1>14, <1>15, <1>17, <1>18, <1>19, <1>20

LEMMA OnlyFinish ==
    ASSUME RInv, [Next]_vars, NEW p \in Procs, Active(p), ~Active(p)', faults' = faults
    PROVE  Finish(p)
<1>1. ~UNCHANGED vars
  BY DEF vars, Active
<1>2. faults \in Nat
  BY DEF RInv, TypeOK
<1>3. ASSUME NEW l, ForeignWrite(l) PROVE FALSE
  BY <1>2, <1>3 DEF ForeignWrite, Fault
<1>4. PICK q \in Procs : Command(q) \/ Finish(q) \/ Crash(q)
  BY <1>1, <1>3, GoesOn DEF Next
<1>5. ~Crash(q)
  BY <1>2 DEF Crash, Fault
<1>6. CASE Command(q)
  <2>1. ~Active(q) /\ \E j : Start(q, j)
    BY <1>6 DEF Command, StartFix, StartRepair, StartUninstall
  <2>2. job'[p] = [job[p] EXCEPT !.alone = FALSE]
    BY <2>1 DEF Start
  <2> QED BY <2>2, JoinedRunning
<1>7. CASE Finish(q)
  BY <1>7 DEF Finish, Go, RInv, TypeOK, Active
<1> QED BY <1>4, <1>5, <1>6, <1>7

\* A manifest of ours that launches, behind a key of ours, is what every check calls ok.
LEMMA InOrder ==
    ASSUME RInv, NEW s \in Scopes, NEW r \in Regs[s], FileOK(r), KeyOK(r)
    PROVE  RegState(r) = "ok" /\ LookupHit(r)
<1>1. file[r.at].kind = "ours" /\ Launches(file[r.at].holds)
  BY DEF FileOK
<1>2. r.keyed => key[KeyOf(r)].kind = "ours"
  BY DEF KeyOK
<1>3. RegState(r) = "ok"
  BY <1>1, <1>2 DEF RegState, Unreadable
<1>4. LookupHit(r)
  BY <1>1, <1>2 DEF LookupHit, HasDefault
<1> QED BY <1>3, <1>4

LEMMA FixReport ==
    ASSUME RInv, NEW p \in Procs, Finish(p), job[p].alone, ~job[p].bad, job[p].cmd = "fix",
           NEW b \in Browsers, RegistrationOf(job[p].scope, b) \in job[p].regs
    PROVE  /\ RegState(RegistrationOf(job[p].scope, b)) = "ok"
           /\ job[p].scope = "user" => Healthy(b)
<1> DEFINE r == RegistrationOf(job[p].scope, b)
<1>1. Active(p) /\ job[p].pc = "finish"
  BY DEF Finish
<1>2. job[p] \in Jobs /\ Plan(job[p]) /\ Repaired(job[p])
  BY <1>1, Doer
<1>3. job[p].todo = {} /\ Between(job[p]) /\ job[p].scope \in Scopes /\ r \in Regs[job[p].scope]
  BY <1>1, <1>2 DEF Plan, Between, Jobs
<1>4. FileOK(r) /\ KeyOK(r)
  BY <1>2, <1>3 DEF Repaired
<1>5. RegState(r) = "ok" /\ LookupHit(r)
  BY <1>3, <1>4, InOrder
<1> QED BY <1>5 DEF Healthy, EffectiveScope

\* What is ours when an uninstall is through: nothing it did not say it could not read.
Cleared(p) ==
    LET Said(what, l) == l[1] # job[p].scope \/ <<what, l>> \in job[p].unread IN
    /\ \A l \in Places : file[l].kind = "ours" => Said("file", l) \/ l[2] \in Dirs \ job[p].dirs
    /\ \A l \in KeyPlaces : key[l].kind = "ours" => Said("key", l)
    /\ \A l \in PtrPlaces : ptr[l].kind = "ours" => Said("pointer", l)
    /\ \A l \in WrapPlaces : wrap[l].kind = "ours" => Said("wrapper", l)

LEMMA UninstallReport ==
    ASSUME RInv, NEW p \in Procs, Finish(p), job[p].alone, ~job[p].bad, job[p].cmd # "fix"
    PROVE  Cleared(p)
<1>1. Active(p) /\ job[p].pc = "finish"
  BY DEF Finish
<1>2. job[p] \in Jobs /\ Plan(job[p]) /\ Removed(job[p])
  BY <1>1, Doer
<1>3. job[p].cmd = "uninstall"
  BY <1>2 DEF Jobs
<1>4. /\ job[p].todo = {} /\ job[p].ptrs = {} /\ job[p].failed = {}
      /\ \A w \in job[p].kept : <<"wrapper", w>> \in job[p].unread
  BY <1>1, <1>2 DEF Plan, Between
<1>5. Leftover(p) = {}
  BY <1>3 DEF Finish
<1>6. \A l \in Places : FileLeft(job[p], l) => l[2] \in Dirs \ job[p].dirs \/ <<"file", l>> \in job[p].unread
  BY <1>1, <1>4 DEF FileLeft
<1>7. /\ \A k \in KeyPlaces : KeyLeft(job[p], k) => <<"key", k>> \in job[p].unread
      /\ \A l \in PtrPlaces : PtrLeft(job[p], l) => <<"pointer", l>> \in job[p].unread
  BY <1>1, <1>4 DEF KeyLeft, PtrLeft
<1>8. \A l \in WrapPlaces : l[1] = job[p].scope /\ wrap[l].kind = "ours" => <<"wrapper", l>> \in job[p].unread
  BY <1>4, <1>5 DEF Leftover, Removable
<1>9. /\ \A l \in Places : l[1] = job[p].scope /\ file[l].kind = "ours" => FileLeft(job[p], l)
      /\ \A k \in KeyPlaces : k[1] = job[p].scope /\ key[k].kind = "ours" => KeyLeft(job[p], k)
      /\ \A l \in PtrPlaces : l[1] = job[p].scope /\ ptr[l].kind = "ours" => PtrLeft(job[p], l)
  BY <1>2, <1>3 DEF Removed
<1>10. \A l \in Places : file[l].kind = "ours" =>
           \/ l[1] # job[p].scope \/ <<"file", l>> \in job[p].unread
           \/ l[2] \in Dirs \ job[p].dirs
  BY <1>6, <1>9
<1>11. \A l \in KeyPlaces : key[l].kind = "ours" => l[1] # job[p].scope \/ <<"key", l>> \in job[p].unread
  BY <1>7, <1>9
<1>12. \A l \in PtrPlaces : ptr[l].kind = "ours" => l[1] # job[p].scope \/ <<"pointer", l>> \in job[p].unread
  BY <1>7, <1>9
<1> QED BY <1>8, <1>10, <1>11, <1>12 DEF Cleared

\* What a command reports is what is there: a repair without a failure leaves every browser it
\* served in order under that browser's own lookup, an uninstall that exits 0 nothing of ours but
\* what it warned it could not read or was not given, from any state earlier commands, crashes and
\* other tools left.
THEOREM RegistrationReportTrue == Spec => ReportTrue
<1> DEFINE Serves(p) == \A b \in Browsers : RegistrationOf(job[p].scope, b) \in job[p].regs =>
                            /\ RegState(RegistrationOf(job[p].scope, b)) = "ok"
                            /\ job[p].scope = "user" => Healthy(b)
           True(p) == Active(p) /\ ~Active(p)' /\ faults' = faults /\ job[p].alone /\ ~job[p].bad =>
                        IF job[p].cmd = "fix" THEN Serves(p) ELSE Cleared(p)
<1>1. ASSUME RInv, [Next]_vars, NEW p \in Procs PROVE True(p)
  <2> SUFFICES ASSUME Active(p), ~Active(p)', faults' = faults, job[p].alone, ~job[p].bad
               PROVE  IF job[p].cmd = "fix" THEN Serves(p) ELSE Cleared(p)
    OBVIOUS
  <2>1. Finish(p)
    BY <1>1, OnlyFinish
  <2> QED BY <1>1, <2>1, FixReport, UninstallReport
<1>2. RInv /\ [Next]_vars => [\A p \in Procs : True(p)]_vars
  BY <1>1
<1> QED BY <1>2, RegistrationInvariant, PTL DEF Spec, ReportTrue, Cleared
=============================================================================
