---------------------------- MODULE Registration ----------------------------
(***************************************************************************)
(* Native-messaging registration (registration/*.rs, browsers.rs): the     *)
(* engine behind `doctor --fix`, the extension's repair and `uninstall`,   *)
(* over the files and registry keys the browsers read.  Nothing here is    *)
(* locked: a CLI run and a native host's repair are processes of their own *)
(* that interleave between any two file operations, each of which may fail *)
(* and any of which may be the last one before the process dies.           *)
(*                                                                         *)
(* A path is the pair of its scope and whose it is; what a location holds  *)
(* is a record with its kind: absent, ours, foreign, rooted (a foreign key *)
(* with children and no default value), bare (a key created and never      *)
(* given its value), dangling (a link to nothing) or blocked (a directory, *)
(* a file that does not open).                                             *)
(***************************************************************************)
EXTENDS Integers

CONSTANTS Others,        \* Browser::ALL but Chrome, as far as the instance goes
          Dirs,          \* directories a user names with --manifest-dir
          OSes,          \* the layouts checked
          Procs,         \* processes that may run a command
          Odd,           \* what other tools may have left at a location
          MaxCommands,   \* bound: commands started
          MaxFaults      \* bound: failed operations, crashes and foreign writes

VARIABLES os,        \* Os::current
          home,      \* browsers with a per-user presence signal
          machine,   \* browsers with a machine-wide one
          file,      \* manifest files
          key,       \* Windows: the registry keys that select them
          ptr,       \* external-extension pointers
          wrap,      \* wrapper scripts
          job,       \* job[p]: the command process p runs
          spent,     \* commands started
          faults     \* faults so far

slots == <<file, key, ptr, wrap>>
vars  == <<os, home, machine, slots, job, spent, faults>>

Browsers == {"chrome"} \cup Others
Scopes   == {"user", "system"}
Places   == Scopes \X (Browsers \cup Dirs \cup {"store"})
KeyPlaces == Scopes \X Browsers
PtrPlaces == Scopes \X (Browsers \cup {"all"})
WrapPlaces == Scopes \X (Browsers \cup {"none"})

Absent == [kind |-> "absent"]
Bare   == [kind |-> "bare"]
Ours(v) == [kind |-> "ours", holds |-> v]

\* What a browser may be told to launch on Windows: the binary itself.
Exe == <<"binary", "none">>

ASSUME RegistrationAssumption ==
    /\ Browsers \cap (Dirs \cup {"store", "all", "none"}) = {} /\ "store" \notin Dirs
    /\ OSes \subseteq {"macos", "linux", "windows"}
    /\ Odd \subseteq [kind : {"foreign", "rooted", "bare", "dangling", "blocked"}]
    /\ MaxCommands \in Nat /\ MaxFaults \in Nat

----------------------------------------------------------------------------
(* Where each browser looks (browsers.rs).                                 *)

\* own_registration's None rows: the browsers whose lookup falls through to Chrome's directory.
ReadsChrome(scope) ==
    Browsers \cap CASE os = "macos" /\ scope = "user"     -> {"brave"}
                    [] os = "macos" /\ scope = "system"   -> {"brave", "opera"}
                    [] os = "linux" /\ scope = "user"     -> {}
                    [] os = "linux" /\ scope = "system"   -> {"brave", "opera"}
                    [] os = "windows" /\ scope = "user"   -> {}
                    [] os = "windows" /\ scope = "system" -> {"opera"}

Owner(scope, b) == IF b \in ReadsChrome(scope) THEN "chrome" ELSE b

\* Lookup::Own's readers: the other browsers that read this directory.
Readers(scope, b) == IF b = "chrome" THEN ReadsChrome(scope) ELSE {}

\* Registration: a manifest in the browser's directory, or on Windows a key that names the one
\* store file all browsers' keys share.
DirRegistration(scope, d) == [scope |-> scope, at |-> <<scope, d>>, keyed |-> FALSE, own |-> d]
RegistrationOf(scope, b) ==
    LET o == Owner(scope, b) IN
    IF os = "windows" THEN [scope |-> scope, at |-> <<scope, "store">>, keyed |-> TRUE, own |-> o]
                      ELSE DirRegistration(scope, o)
KeyOf(r) == <<r.scope, r.own>>

\* The pointer is the browser's own per user; machine-wide macOS has one, Windows the owner's key.
Pointers(scope, b) ==
    CASE os = "linux" -> {}
      [] os = "macos" /\ scope = "system" -> {<<"system", "all">>}
      [] os = "windows" /\ scope = "system" -> {<<"system", Owner(scope, b)>>}
      [] OTHER -> {<<"user", b>>}

\* presence: an app bundle, a config root, a package directory or a profile.
Detected(scope, b) ==
    CASE os = "macos"   -> b \in machine \/ (scope = "user" /\ b \in home)
      [] os = "linux"   -> b \in IF scope = "user" THEN home ELSE machine
      [] os = "windows" -> b \in home
Installed(b) == \E s \in Scopes : Detected(s, b)

----------------------------------------------------------------------------
(* What a slot answers, in both directions (slot.rs).                      *)

Writable(s) == s.kind \in {"absent", "ours"}

\* replace is the CLI's explicit --fix; the extension's repair refuses a foreign manifest.
Replaceable(s, replace) == Writable(s) \/ (replace /\ s.kind \in {"foreign", "bare"})
Removable(s) == s.kind = "ours"
Unreadable(s) == s.kind \in {"dangling", "blocked"}

\* A launch path names an existing file: the wrapper, or the binary itself (on Windows).
Launches(v) == v = Exe \/ (v \in WrapPlaces /\ wrap[v].kind # "absent")

\* assess / classify: a Windows registration is its key.
RegState(r) ==
    LET k == IF r.keyed THEN key[KeyOf(r)].kind ELSE "ours"
        f == file[r.at]
    IN CASE k \in {"foreign", "rooted", "bare"} -> "foreign"
         [] k \in {"dangling", "blocked"} -> "unreadable"
         [] k = "absent" -> "missing"
         [] f.kind = "absent" -> IF r.keyed THEN "stale" ELSE "missing"
         [] Unreadable(f) -> "unreadable"
         [] f.kind \in {"foreign", "rooted", "bare"} -> "foreign"
         [] OTHER -> IF Launches(f.holds) THEN "ok" ELSE "stale"

\* registry_default_value: the key has a default the browser's string read takes.
HasDefault(k) == key[k].kind \in {"ours", "foreign"}

\* lookup_hit: the browser stops at the per-user entry whatever it holds.  A key without a
\* readable default falls through, and so does a dangling link.
LookupHit(r) == IF r.keyed THEN HasDefault(KeyOf(r))
                ELSE file[r.at].kind \notin {"absent", "dangling"}

\* The scope a browser's own lookup lands on, and doctor's verdict over it.
EffectiveScope(b) == IF LookupHit(RegistrationOf("user", b)) THEN "user" ELSE "system"
Healthy(b)    == RegState(RegistrationOf(EffectiveScope(b), b)) = "ok"
ManifestOk    == \E b \in Browsers : Installed(b) /\ Healthy(b)

----------------------------------------------------------------------------
(* Targets (registration/mod.rs, command.rs).                              *)

\* Mutant: every named browser's wrapper carries its label, shared directory or not.
MutLabelAlways(scope, b) == Owner(scope, b)

\* The label rides the wrapper only where one browser alone launches the manifest.
Label(scope, b) == IF Owner(scope, b) = b /\ Readers(scope, b) = {} THEN b ELSE "none"

TargetFor(scope, b, selected) ==
    [reg |-> RegistrationOf(scope, b),
     label |-> Label(scope, b),
     ptrs |-> UNION {Pointers(scope, c) : c \in {c \in selected :
                        RegistrationOf(scope, c) = RegistrationOf(scope, b)}}]

ExplicitTarget(d) == [reg |-> DirRegistration("user", d), label |-> "none", ptrs |-> {}]
NoTarget == ExplicitTarget("none")

\* browser_targets: each registration once, with all its browsers' pointers.  The browsers of one
\* registration have one and the same target, so the set is the list without its order.
BrowserTargets(scope, selected) == {TargetFor(scope, b, selected) : b \in selected}

\* FixTargets: --manifest-dir, or the browsers --all, --browser or detection select.
DetectedSet(scope) == {b \in Browsers : Detected(scope, b)}
Selections(scope) ==
    ({BrowserTargets(scope, s) : s \in (SUBSET Browsers) \cup {DetectedSet(scope)}}
        \cup (IF scope = "user" THEN {{ExplicitTarget(d) : d \in ds} : ds \in SUBSET Dirs} ELSE {}))

\* Mutant: the manifest names the wrapper after the directory's owner, not after the label.
MutLaunchByOwner(t) == IF t.reg.keyed THEN Exe ELSE <<t.reg.scope, t.reg.own>>

\* Where a target's manifest launches from, and the wrapper it writes first.
Wrapper(t)    == <<t.reg.scope, t.label>>
LaunchPath(t) == IF t.reg.keyed THEN Exe ELSE Wrapper(t)

----------------------------------------------------------------------------
(* Commands.  A process works through its targets in the order its command *)
(* line gives them (here: any), one file operation at a time.  now is the  *)
(* target it is at, todo the ones after it; failed and unread are what an  *)
(* uninstall reports it could not remove or could not read; alone          *)
(* remembers that nothing else ran meanwhile.                              *)

Idle == [cmd |-> "idle"]
Active(p) == job[p].cmd # "idle"

\* Another tool may have been here first: one location the browsers read holds an entry not ours,
\* or a wrapper's name is taken.  Every browser is installed, save on Linux, where a repair creates
\* the directory detection reads.
Clean(places)     == [l \in places |-> Absent]
Planted(places, at) == {[Clean(places) EXCEPT ![at] = o] : o \in Odd}

Init == /\ os \in OSes
        /\ home = (IF os = "linux" THEN {"chrome"} ELSE Browsers) /\ machine = {"chrome"}
        /\ \/ /\ file \in Planted(Places, <<"user", IF os = "windows" THEN "store" ELSE "chrome">>)
              /\ key = Clean(KeyPlaces) /\ ptr = Clean(PtrPlaces) /\ wrap = Clean(WrapPlaces)
           \/ /\ ptr \in Planted(PtrPlaces, <<"user", "chrome">>)
              /\ file = Clean(Places) /\ key = Clean(KeyPlaces) /\ wrap = Clean(WrapPlaces)
           \/ /\ os = "windows" /\ key \in Planted(KeyPlaces, <<"user", "chrome">>)
              /\ file = Clean(Places) /\ ptr = Clean(PtrPlaces) /\ wrap = Clean(WrapPlaces)
           \/ /\ wrap \in {Clean(WrapPlaces), [Clean(WrapPlaces) EXCEPT ![<<"user", "none">>] = [kind |-> "foreign"]]}
              /\ file = Clean(Places) /\ key = Clean(KeyPlaces) /\ ptr = Clean(PtrPlaces)
        /\ job = [p \in Procs |-> Idle] /\ spent = 0 /\ faults = 0

Start(p, j) ==
    /\ spent' = spent + 1
    /\ job' = [q \in Procs |->
                 IF q = p THEN j
                 ELSE IF Active(q) THEN [job[q] EXCEPT !.alone = FALSE] ELSE job[q]]
    /\ UNCHANGED <<os, home, machine, slots, faults>>

Alone(p) == \A q \in Procs \ {p} : ~Active(q)

\* Privilege::admit: root and the account each write their own scope; a Windows token both.
Admits(who, scope) == \/ who = "user" /\ scope = "user"
                      \/ who = "root" /\ scope = "system"
                      \/ who = "elevated"
Privileges == IF os = "windows" THEN {"user", "elevated"} ELSE {"user", "root"}

\* fix: admit, resolve, select.
StartFix(p, scope, targets, replace) ==
    /\ \E who \in Privileges : Admits(who, scope)
    /\ targets # {}
    /\ Start(p, [cmd |-> "fix", scope |-> scope, replace |-> replace, todo |-> targets, now |-> NoTarget,
                 pc |-> "judge", ptrs |-> {}, rekey |-> FALSE, bad |-> FALSE, alone |-> Alone(p),
                 failed |-> {}, unread |-> {}, kept |-> {}, regs |-> {t.reg : t \in targets},
                 dirs |-> {}])

\* registration_repair: the extension's repair through the same seam, this account's scope, the
\* detected browsers (or those it names), and never over a foreign manifest.
StartRepair(p, selected) == StartFix(p, "user", BrowserTargets("user", selected), FALSE)

\* run_uninstall: every known browser's target of the scope, and the directories passed again.
StartUninstall(p, scope, dirs) ==
    /\ \E who \in Privileges : Admits(who, scope)
    /\ scope = "user" \/ dirs = {}
    /\ Start(p, [cmd |-> "uninstall", scope |-> scope, replace |-> FALSE,
                 todo |-> BrowserTargets(scope, Browsers) \cup {ExplicitTarget(d) : d \in dirs},
                 now |-> NoTarget,
                 pc |-> "judge", ptrs |-> {}, rekey |-> FALSE, bad |-> FALSE, alone |-> Alone(p),
                 failed |-> {}, unread |-> {}, kept |-> {}, regs |-> {}, dirs |-> dirs])

Go(p, j)   == job' = [job EXCEPT ![p] = j]
To(p, pc)  == Go(p, [job[p] EXCEPT !.pc = pc])
Quiet      == UNCHANGED <<os, machine, spent>>
Target(p)  == job[p].now
NoFault    == faults' = faults
Fault      == faults < MaxFaults /\ faults' = faults + 1

\* The next target, whatever the last one's outcome: one broken browser never hides the others.
Past(j, bad) == [j EXCEPT !.pc = IF j.todo = {} THEN "finish" ELSE "judge", !.now = NoTarget,
                          !.bad = @ \/ bad, !.ptrs = {}, !.rekey = FALSE]
NextTarget(p, bad) == Go(p, Past(job[p], bad))

\* The job with t taken out of its list.
At(j, t) == [j EXCEPT !.todo = @ \ {t}, !.now = t]

Doing(p, cmd, pc) == job[p].cmd = cmd /\ job[p].pc = pc

----------------------------------------------------------------------------
(* Fix: judge every slot, then every directory, then the writes.           *)

Judges(t, replace) ==
    /\ Replaceable(file[t.reg.at], replace)
    /\ t.reg.keyed => Replaceable(key[KeyOf(t.reg)], replace)
    /\ \A l \in t.ptrs : Writable(ptr[l])

\* A slot that does not answer its read is one nobody can verify: the target fails, untouched.
Judge(p) ==
    /\ Doing(p, "fix", "judge")
    /\ \E t \in job[p].todo :
         \/ /\ Judges(t, job[p].replace) /\ NoFault
            /\ Go(p, [At(job[p], t) EXCEPT !.pc = "dirs", !.ptrs = t.ptrs,
                                           !.rekey = t.reg.keyed /\ ~Writable(key[KeyOf(t.reg)])])
         \/ ~Judges(t, job[p].replace) /\ NoFault /\ Go(p, Past(At(job[p], t), TRUE))
         \/ Fault /\ Go(p, Past(At(job[p], t), TRUE))
    /\ Quiet /\ UNCHANGED <<home, slots>>

\* A directory cannot be made, or machine-wide one on its path keeps other accounts out: the
\* target fails with no file written.  Machine-wide all are judged before any is made; an account's
\* own are made one after the other, so the browser's root (made) may be there already.
Untraversable(p, made) == NextTarget(p, TRUE) /\ Fault /\ home' \in {home, made}

\* create_dirs: the wrapper directory first, then the browser's, which on Linux is the very
\* signal a per-user detection reads.
CreateDirs(p) ==
    /\ Doing(p, "fix", "dirs")
    /\ LET t == Target(p)
           made == IF os = "linux" /\ t.reg.scope = "user" THEN home \cup ({t.reg.own} \cap Browsers)
                                                            ELSE home
       IN \/ home' = made /\ To(p, IF t.reg.keyed THEN "manifest" ELSE "wrapper") /\ NoFault
          \/ Untraversable(p, made)
    /\ Quiet /\ UNCHANGED slots

\* write_atomic: renamed into place or not at all; an error may still follow the rename (the
\* directory's own sync).  done is where the process goes after a clean write.
Atomic(p, f, l, v, done) ==
    \/ f' = [f EXCEPT ![l] = v] /\ done /\ NoFault
    \/ (f' = f \/ f' = [f EXCEPT ![l] = v]) /\ NextTarget(p, TRUE) /\ Fault

\* set_registry_value creates the key and then sets its value: the second may fail alone.
Torn(f, l) == IF f[l].kind = "absent" THEN [f EXCEPT ![l] = Bare] ELSE f
SetRegistry(p, f, l, v, done) ==
    \/ f' = [f EXCEPT ![l] = v] /\ done /\ NoFault
    \/ f' \in {f, Torn(f, l)} /\ NextTarget(p, TRUE) /\ Fault

WriteWrapper(p) ==
    /\ Doing(p, "fix", "wrapper")
    /\ Atomic(p, wrap, Wrapper(Target(p)), Ours(Target(p).label), To(p, "manifest"))
    /\ Quiet /\ UNCHANGED <<home, file, key, ptr>>

AfterManifest(p) == IF Target(p).reg.keyed THEN To(p, IF job[p].rekey THEN "delkey" ELSE "key")
                    ELSE To(p, "pointers")

WriteManifest(p) ==
    /\ Doing(p, "fix", "manifest")
    /\ Atomic(p, file, Target(p).reg.at, Ours(LaunchPath(Target(p))), AfterManifest(p))
    /\ Quiet /\ UNCHANGED <<home, key, ptr, wrap>>

\* A foreign key is replaced whole; the delete is not recursive.
DeleteForeignKey(p) ==
    /\ Doing(p, "fix", "delkey")
    /\ LET k == KeyOf(Target(p).reg) IN
       \/ key[k].kind # "rooted" /\ key' = [key EXCEPT ![k] = Absent] /\ To(p, "key") /\ NoFault
       \/ key' = key /\ NextTarget(p, TRUE) /\ Fault
    /\ Quiet /\ UNCHANGED <<home, file, ptr, wrap>>

WriteKey(p) ==
    /\ Doing(p, "fix", "key")
    /\ SetRegistry(p, key, KeyOf(Target(p).reg), Ours("manifest"), To(p, "pointers"))
    /\ Quiet /\ UNCHANGED <<home, file, ptr, wrap>>

\* The next pointer of the target: one after the other, in an order of their own.
ThisPointer(p) == CHOOSE l \in job[p].ptrs : TRUE
PointerDone(p) == Go(p, [job[p] EXCEPT !.ptrs = @ \ {ThisPointer(p)}])

WritePointer(p) ==
    /\ Doing(p, "fix", "pointers")
    /\ IF job[p].ptrs = {}
       THEN NextTarget(p, FALSE) /\ NoFault /\ ptr' = ptr
       ELSE IF os = "windows"
            THEN SetRegistry(p, ptr, ThisPointer(p), Ours("store_url"), PointerDone(p))
            ELSE Atomic(p, ptr, ThisPointer(p), Ours("store_url"), PointerDone(p))
    /\ Quiet /\ UNCHANGED <<home, file, key, wrap>>

----------------------------------------------------------------------------
(* Uninstall: each slot verified and then removed on its own.              *)

\* Mutant: a registration whose file is gone reads as not registered, key and all.
MutJudgeRemovalByFile(p) ==
    /\ Doing(p, "uninstall", "judge")
    /\ \E t \in job[p].todo :
       LET f == Removable(file[t.reg.at])
           k == f /\ t.reg.keyed /\ Removable(key[KeyOf(t.reg)])
       IN Go(p, [At(job[p], t) EXCEPT !.pc = IF k THEN "rmkey" ELSE IF f THEN "rmfile" ELSE "rmpointers",
                               !.rekey = f, !.ptrs = t.ptrs])
    /\ NoFault /\ Quiet /\ UNCHANGED <<home, slots>>

\* The slots one target's manifest occupies.
SlotsOf(t) == {<<"file", t.reg.at>>} \cup (IF t.reg.keyed THEN {<<"key", KeyOf(t.reg)>>} ELSE {})

\* manifest_slots: both locations read and judged, then the key and the file.  A read may fail
\* (blind), even of what is ours.  What is refused, as foreign or as unreadable, is left in place
\* and does not fail the command (uninstall_exit_code).
JudgeRemoval(p) ==
    /\ Doing(p, "uninstall", "judge")
    /\ \E t \in job[p].todo : \E blind \in SUBSET SlotsOf(t) :
       LET k == t.reg.keyed /\ Removable(key[KeyOf(t.reg)]) /\ <<"key", KeyOf(t.reg)>> \notin blind
           f == Removable(file[t.reg.at]) /\ <<"file", t.reg.at>> \notin blind
       IN /\ Go(p, [At(job[p], t) EXCEPT !.pc = IF k THEN "rmkey" ELSE IF f THEN "rmfile" ELSE "rmpointers",
                                         !.rekey = f, !.ptrs = t.ptrs, !.unread = @ \cup blind])
          /\ (blind = {} /\ NoFault) \/ (blind # {} /\ Fault)
    /\ Quiet /\ UNCHANGED <<home, slots>>

Failing(p)   == [job[p] EXCEPT !.bad = TRUE]
Unread(p, s) == [job[p] EXCEPT !.unread = @ \cup {s}]

RemoveKey(p) ==
    /\ Doing(p, "uninstall", "rmkey")
    /\ LET k == KeyOf(Target(p).reg)
           then == IF job[p].rekey THEN "rmfile" ELSE "rmpointers"
       IN \/ key' = [key EXCEPT ![k] = Absent] /\ To(p, then) /\ NoFault
          \/ key' = key /\ Go(p, [Failing(p) EXCEPT !.pc = then]) /\ Fault
    /\ Quiet /\ UNCHANGED <<home, file, ptr, wrap>>

\* A file that another command removed meanwhile is a failure of this one.
RemoveManifest(p) ==
    /\ Doing(p, "uninstall", "rmfile")
    /\ LET l == Target(p).reg.at
           failing == Go(p, [Failing(p) EXCEPT !.pc = "rmpointers", !.failed = @ \cup {l}])
       IN \/ /\ file[l].kind # "absent" /\ file' = [file EXCEPT ![l] = Absent]
             /\ To(p, "rmpointers") /\ NoFault
          \/ file[l].kind = "absent" /\ file' = file /\ failing /\ NoFault
          \/ file' = file /\ failing /\ Fault
    /\ Quiet /\ UNCHANGED <<home, key, ptr, wrap>>

\* The pointers of one target, each judged as it is reached; then the next target.
RemovePointer(p) ==
    /\ Doing(p, "uninstall", "rmpointers")
    /\ IF job[p].ptrs = {}
       THEN NextTarget(p, FALSE) /\ NoFault /\ ptr' = ptr
       ELSE LET l == ThisPointer(p) IN
            \/ /\ ptr' = IF Removable(ptr[l]) THEN [ptr EXCEPT ![l] = Absent] ELSE ptr
               /\ PointerDone(p) /\ NoFault
            \/ /\ Removable(ptr[l]) /\ ptr' = ptr
               /\ Go(p, [Failing(p) EXCEPT !.ptrs = @ \ {l}]) /\ Fault
            \/ /\ ptr' = ptr
               /\ Go(p, [Unread(p, <<"pointer", l>>) EXCEPT !.ptrs = @ \ {l}]) /\ Fault
    /\ Quiet /\ UNCHANGED <<home, file, key, wrap>>

\* remove_wrappers, after every target and whatever was refused: the wrappers of the scope that
\* are ours, but the ones it could not remove or not read.
Leftover(p) == {l \in WrapPlaces : l[1] = job[p].scope /\ Removable(wrap[l])} \ job[p].kept

RemoveWrapper(p, l) ==
    /\ Doing(p, "uninstall", "finish")
    /\ l \in Leftover(p)
    /\ \/ wrap' = [wrap EXCEPT ![l] = Absent] /\ job' = job /\ NoFault
       \/ wrap' = wrap /\ Go(p, [Failing(p) EXCEPT !.kept = @ \cup {l}]) /\ Fault
       \/ wrap' = wrap /\ Go(p, [Unread(p, <<"wrapper", l>>) EXCEPT !.kept = @ \cup {l}]) /\ Fault
    /\ Quiet /\ UNCHANGED <<home, file, key, ptr>>

\* The report: a command ends once its last target is done, an uninstall after the wrappers too.
Finish(p) ==
    /\ Active(p) /\ job[p].pc = "finish"
    /\ job[p].cmd = "uninstall" => Leftover(p) = {}
    /\ Go(p, Idle)
    /\ NoFault /\ Quiet /\ UNCHANGED <<home, slots>>

----------------------------------------------------------------------------
(* Faults.                                                                 *)

\* The process dies between two operations, or between a key's creation and its value.
Crash(p) ==
    /\ Active(p) /\ Go(p, Idle) /\ Fault
    /\ \/ UNCHANGED <<key, ptr>>
       \/ Doing(p, "fix", "key") /\ key' = Torn(key, KeyOf(Target(p).reg)) /\ ptr' = ptr
       \/ /\ Doing(p, "fix", "pointers") /\ job[p].ptrs # {} /\ os = "windows"
          /\ ptr' = Torn(ptr, ThisPointer(p)) /\ key' = key
    /\ Quiet /\ UNCHANGED <<home, file, wrap>>

\* Another installer writes its own manifest at our host id.
ForeignWrite(l) ==
    /\ Fault
    /\ file' = [file EXCEPT ![l] = [kind |-> "foreign"]]
    /\ job' = [q \in Procs |-> IF Active(q) THEN [job[q] EXCEPT !.alone = FALSE] ELSE job[q]]
    /\ Quiet /\ UNCHANGED <<home, key, ptr, wrap>>

Command(p) ==
    /\ ~Active(p) /\ spent < MaxCommands
    /\ \/ \E s \in Scopes : \E t \in Selections(s) : StartFix(p, s, t, TRUE)
       \/ \E sel \in SUBSET Browsers : StartRepair(p, sel)
       \/ \E s \in Scopes, ds \in SUBSET Dirs : StartUninstall(p, s, ds)

Next ==
    \/ \E p \in Procs :
         \/ Command(p) \/ Judge(p) \/ CreateDirs(p) \/ WriteWrapper(p) \/ WriteManifest(p)
         \/ DeleteForeignKey(p) \/ WriteKey(p) \/ WritePointer(p)
         \/ JudgeRemoval(p) \/ RemoveKey(p) \/ RemoveManifest(p) \/ RemovePointer(p)
         \/ (\E l \in WrapPlaces : RemoveWrapper(p, l)) \/ Finish(p) \/ Crash(p)
    \/ \E l \in {<<"user", "chrome">>, <<"user", "store">>} : ForeignWrite(l)

Spec == Init /\ [][Next]_vars

----------------------------------------------------------------------------
(* Properties.                                                             *)

\* The label a browser's own lookup would announce to the broker: the wrapper its manifest runs.
Announces(b) ==
    LET f == file[RegistrationOf(EffectiveScope(b), b).at] IN
    IF f.kind = "ours" /\ f.holds \in WrapPlaces /\ wrap[f.holds].kind = "ours"
    THEN wrap[f.holds].holds ELSE "none"

\* No browser ever announces itself as another: whatever was registered, by name, detected or
\* all, in either scope, the wrapper a browser's lookup lands on carries that browser's label or
\* none, so a call aimed at Chrome is never routed to the Brave that reads Chrome's directory.
LabelHonest == \A b \in Browsers : Announces(b) \in {"none", b}

\* A manifest of ours that launches nothing.
Dangles(l) == file[l].kind = "ours" /\ ~Launches(file[l].holds)

\* The manifests an uninstall leaves and says so: not removed, not read, or in a directory it was
\* not given.
Named(p, l) == l \in job[p].failed \/ <<"file", l>> \in job[p].unread \/ l[2] \in Dirs \ job[p].dirs

\* A manifest of ours is never left launching nothing: the wrapper is written before the manifest
\* and removed after every manifest, so neither a crash nor a failed step of a repair orphans one.
\* What an uninstall does orphan is a manifest it reported it could not remove or could not read,
\* or a directory it was not given; and two commands at once may, since nothing locks them apart.
NoOrphan ==
    [][\A l \in Places : Dangles(l)' /\ ~Dangles(l) =>
         \E p \in Procs : /\ Active(p)
                          /\ ~job[p].alone \/ (Doing(p, "uninstall", "finish") /\ Named(p, l))]_vars

\* What a command reports is what doctor then finds.  A repair that reports no failure leaves the
\* registration of every browser it served in order, and a per-user one leaves each of them
\* healthy under the browser's own lookup; an uninstall that exits 0 leaves nothing of ours in its
\* scope but what it warned it could not read and the directories it was not given.  Both whatever
\* crashed or half-done state they started from, so that repairing converges.
ReportTrue ==
    [][\A p \in Procs :
         Active(p) /\ ~Active(p)' /\ faults' = faults /\ job[p].alone /\ ~job[p].bad =>
           IF job[p].cmd = "fix"
           THEN \A b \in Browsers : RegistrationOf(job[p].scope, b) \in job[p].regs =>
                    /\ RegState(RegistrationOf(job[p].scope, b)) = "ok"
                    /\ job[p].scope = "user" => Healthy(b)
           ELSE LET Said(what, l) == l[1] # job[p].scope \/ <<what, l>> \in job[p].unread IN
                /\ \A l \in Places : file[l].kind = "ours" =>
                                        Said("file", l) \/ l[2] \in Dirs \ job[p].dirs
                /\ \A l \in KeyPlaces : key[l].kind = "ours" => Said("key", l)
                /\ \A l \in PtrPlaces : ptr[l].kind = "ours" => Said("pointer", l)
                /\ \A l \in WrapPlaces : wrap[l].kind = "ours" => Said("wrapper", l)]_vars
============================================================================
