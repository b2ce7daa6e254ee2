----------------------------- MODULE AuditTrail -----------------------------
(***************************************************************************)
(* The audit trail (audit.rs): threads of several processes append their   *)
(* records to one file and rotate it past a size, with no lock around the  *)
(* append and a non-blocking one around the rotation.  record() cannot     *)
(* fail: a line that does not reach the file is counted, and the count     *)
(* rides on the process's next record.  The counter is modelled by the set *)
(* of records it counts.                                                   *)
(*                                                                         *)
(* A name is a directory entry for an inode: a writer that has the file    *)
(* open keeps its inode through a rotation, and an inode nobody refers to  *)
(* is free again.                                                          *)
(***************************************************************************)
EXTENDS Integers, FiniteSets

CONSTANTS Procs,       \* processes that record events
          Writers,     \* their threads
          ProcOf,      \* ProcOf[t]: the process of thread t
          Inodes,      \* the file system's inodes
          None,        \* no inode, no thread
          MaxRecords,  \* bound: events recorded
          Cap,         \* AUDIT_MAX_BYTES
          MaxLine,     \* the longest line: every field is truncated
          Lengths,     \* the lengths lines come in
          Prompt,      \* the threads the scheduler runs; the others may stop anywhere
          MaxFaults    \* bound: failed operations and crashes

ASSUME AuditAssumption == /\ None \notin Inodes \cup Writers
                          /\ ProcOf \in [Writers -> Procs]
                          /\ Cap \in Nat /\ MaxLine \in Nat \ {0} /\ Lengths \subseteq 1 .. MaxLine
                          /\ MaxFaults \in Nat /\ MaxRecords \in Nat /\ Prompt \subseteq Writers

VARIABLES live,     \* the inode named audit.log, or None
          old,      \* the one named audit.log.1
          disk,     \* disk[i]: what inode i holds
          lock,     \* the thread that holds audit.log.lock
          w,        \* w[t]: thread t in record()
          dropped,  \* dropped[p]: the records process p's DROPPED counts
          begun,    \* records begun so far: each is known by its number
          fate,     \* fate[r]: what became of record r, open while the process still has it
          page,     \* a reader of the trail
          faults    \* faults so far

files == <<live, old, disk, lock>>
vars  == <<files, w, dropped, begun, fate, page, faults>>

Records == 1 .. MaxRecords

\* landed: a reader could find its line; told: it failed, and such a line counted it; unfound:
\* reported written, where no reader finds it; hidden: it failed, and was counted on such a line;
\* gone: it died with its process.
Fates == {"open", "landed", "told", "unfound", "hidden", "gone"}

Empty   == [recs |-> {}, bytes |-> 0, torn |-> FALSE]
Idle    == [pc |-> "idle", rec |-> None, len |-> 0, claim |-> {}, fd |-> None]
Closed  == [pc |-> "closed", seen |-> {}, start |-> {}, moved |-> FALSE]

\* What a reader of the disk would find in the file of that name.
Readable(i) == IF i = None THEN {} ELSE disk[i].recs
Size(i)     == IF i = None THEN 0 ELSE disk[i].bytes
Trail       == Readable(old) \cup Readable(live)

Init == /\ live = None /\ old = None /\ disk = [i \in Inodes |-> Empty] /\ lock = None
        /\ w = [t \in Writers |-> Idle] /\ dropped = [p \in Procs |-> {}]
        /\ begun = 0 /\ fate = [r \in Records |-> "open"]
        /\ page = Closed /\ faults = 0

Fault   == faults < MaxFaults /\ faults' = faults + 1
NoFault == faults' = faults
At(t, pc)  == w[t].pc = pc
To(t, pc)  == w' = [w EXCEPT ![t].pc = pc]
Uncounted  == UNCHANGED <<dropped, begun, fate, page>>

----------------------------------------------------------------------------
(* record                                                                  *)

\* A record on its way to the file: a line of at most MaxLine bytes, every field truncated.
Line(r, n, claim) == [pc |-> "size", rec |-> r, len |-> n, claim |-> claim, fd |-> None]

\* The record is stamped, its fields truncated, and the pending count claimed with it.
Begin(t) ==
    \E n \in Lengths :
        /\ At(t, "idle") /\ begun < MaxRecords
        /\ begun' = begun + 1
        /\ w' = [w EXCEPT ![t] = Line(begun + 1, n, dropped[ProcOf[t]])]
        /\ dropped' = [dropped EXCEPT ![ProcOf[t]] = {}]
        /\ NoFault /\ UNCHANGED <<files, fate, page>>

\* needs_rotation: a missing file needs none.
NeedsRotation(n) == live # None /\ disk[live].bytes + n > Cap

\* append_at's first look at the size; the runtime directory may be missing altogether.
CheckSize(t) ==
    /\ At(t, "size")
    /\ \/ To(t, IF NeedsRotation(w[t].len) THEN "lock" ELSE "open") /\ NoFault
       \/ To(t, "fail") /\ Fault
    /\ Uncounted /\ UNCHANGED files

\* Mutant: the rotation lock is waited for.
MutWaitLock(t) ==
    /\ At(t, "lock")
    /\ \/ lock = None /\ lock' = t /\ To(t, "recheck") /\ NoFault
       \/ lock' = lock /\ To(t, "open") /\ Fault
    /\ Uncounted /\ UNCHANGED <<live, old, disk>>

\* A lock that another writer holds, or that does not open, only skips the rotation.
TryLock(t) ==
    /\ At(t, "lock")
    /\ \/ lock = None /\ lock' = t /\ To(t, "recheck") /\ NoFault
       \/ lock # None /\ lock' = lock /\ To(t, "open") /\ NoFault
       \/ lock' = lock /\ To(t, "open") /\ Fault
    /\ Uncounted /\ UNCHANGED <<live, old, disk>>

\* Mutant: the size found before the lock is taken as read.
MutRecheck(t) ==
    /\ At(t, "recheck") /\ To(t, "rename")
    /\ NoFault /\ Uncounted /\ UNCHANGED files

\* The size again, now that nobody else can rotate.
Recheck(t) ==
    /\ At(t, "recheck")
    /\ To(t, IF NeedsRotation(w[t].len) THEN "rename" ELSE "unlock")
    /\ NoFault /\ Uncounted /\ UNCHANGED files

\* The rename drops the file rotated before; a rename that fails is ignored.
Rename(t) ==
    /\ At(t, "rename") /\ To(t, "unlock")
    /\ \/ /\ live # None
          /\ old' = live /\ live' = None /\ NoFault
          /\ page' = [page EXCEPT !.moved = TRUE]
       \/ UNCHANGED <<live, old, page>> /\ Fault
    /\ UNCHANGED <<disk, lock, dropped, begun, fate>>

Unlock(t) ==
    /\ At(t, "unlock") /\ To(t, "open")
    /\ lock' = IF lock = t THEN None ELSE lock
    /\ NoFault /\ Uncounted /\ UNCHANGED <<live, old, disk>>

\* Free inodes: no name and no open file refers to them.
Free == {i \in Inodes : i \notin {live, old} /\ \A t \in Writers : w[t].fd # i}

\* open_private_append: the file is created when it is not there.
Open(t) ==
    /\ At(t, "open")
    /\ \/ /\ live # None
          /\ w' = [w EXCEPT ![t].pc = "write", ![t].fd = live] /\ NoFault
          /\ UNCHANGED <<live, disk>>
       \/ /\ live = None /\ Free # {}
          /\ LET i == CHOOSE i \in Free : TRUE
             IN /\ live' = i /\ disk' = [disk EXCEPT ![i] = Empty]
                /\ w' = [w EXCEPT ![t].pc = "write", ![t].fd = i]
          /\ NoFault
       \/ To(t, "fail") /\ Fault /\ UNCHANGED <<live, disk>>
    /\ Uncounted /\ UNCHANGED <<old, lock>>

\* What inode i holds after n bytes of a line of length len: a line cut short makes the next one
\* unreadable with it.
Wrote(i, r, n, len) ==
    [recs  |-> IF n = len /\ ~disk[i].torn THEN disk[i].recs \cup {r} ELSE disk[i].recs,
     bytes |-> disk[i].bytes + n,
     torn  |-> IF n = 0 THEN disk[i].torn ELSE n < len]

\* What becomes of record r and of the records it counts, by whether a reader finds its line.
Settled(r, claim, found) ==
    [x \in Records |-> IF x = r THEN IF found THEN "landed" ELSE "unfound"
                       ELSE IF x \in claim THEN IF found THEN "told" ELSE "hidden"
                       ELSE fate[x]]

\* The line is appended to whatever inode was opened, and may be cut short.  Written whole it is
\* a success whatever a reader makes of it: it may be spliced onto a torn line, or in a file that
\* two rotations have unlinked.
Write(t) ==
    /\ At(t, "write")
    /\ UNCHANGED <<live, old, lock, dropped, begun, page>>
    /\ LET i == w[t].fd
           len == w[t].len
       IN \/ /\ disk' = [disk EXCEPT ![i] = Wrote(i, w[t].rec, len, len)]
             /\ fate' = Settled(w[t].rec, w[t].claim, w[t].rec \in Trail')
             /\ w' = [w EXCEPT ![t] = Idle] /\ NoFault
          \/ /\ \E n \in 0 .. len - 1 : disk' = [disk EXCEPT ![i] = Wrote(i, w[t].rec, n, len)]
             /\ fate' = fate /\ w' = [w EXCEPT ![t].pc = "fail", ![t].fd = None] /\ Fault

\* Mutant: a failed record counts itself and forgets the count it had claimed.
MutRearmOne(t) ==
    /\ At(t, "fail")
    /\ dropped' = [dropped EXCEPT ![ProcOf[t]] = @ \cup {w[t].rec}]
    /\ w' = [w EXCEPT ![t] = Idle]
    /\ NoFault /\ UNCHANGED <<files, begun, fate, page>>

\* The claimed count goes back, and this record with it.
Rearm(t) ==
    /\ At(t, "fail")
    /\ dropped' = [dropped EXCEPT ![ProcOf[t]] = @ \cup w[t].claim \cup {w[t].rec}]
    /\ w' = [w EXCEPT ![t] = Idle]
    /\ NoFault /\ UNCHANGED <<files, begun, fate, page>>

\* The kernel closes a dead process's files, the lock with them; what it had counted dies with it.
Crash(p) ==
    LET mine == {t \in Writers : ProcOf[t] = p}
        busy == {t \in mine : ~At(t, "idle")}
        lost == dropped[p] \cup UNION {w[t].claim \cup {w[t].rec} : t \in busy}
    IN /\ w' = [t \in Writers |-> IF t \in mine THEN Idle ELSE w[t]]
       /\ lock' = IF lock \in mine THEN None ELSE lock
       /\ dropped' = [dropped EXCEPT ![p] = {}]
       /\ fate' = [r \in Records |-> IF r \in lost THEN "gone" ELSE fate[r]]
       /\ Fault /\ UNCHANGED <<live, old, disk, begun, page>>

----------------------------------------------------------------------------
(* read_at: the rotated file, then the live one; nothing spans the two.    *)

\* Mutant: a rotated file that is not there ends the read.
MutReadOldFirst == /\ page.pc = "closed"
                   /\ page' = [pc |-> IF old = None THEN "done" ELSE "live", seen |-> Readable(old),
                               start |-> Trail, moved |-> FALSE]
                   /\ NoFault /\ UNCHANGED <<files, w, dropped, begun, fate>>

ReadOld == /\ page.pc = "closed"
           /\ page' = [pc |-> "live", seen |-> Readable(old), start |-> Trail, moved |-> FALSE]
           /\ NoFault /\ UNCHANGED <<files, w, dropped, begun, fate>>

ReadLive == /\ page.pc = "live"
            /\ page' = [page EXCEPT !.pc = "done", !.seen = @ \cup Readable(live)]
            /\ NoFault /\ UNCHANGED <<files, w, dropped, begun, fate>>

Step(t) == Begin(t) \/ CheckSize(t) \/ TryLock(t) \/ Recheck(t) \/ Rename(t) \/ Unlock(t)
             \/ Open(t) \/ Write(t) \/ Rearm(t)

Next == (\E t \in Writers : Step(t)) \/ (\E p \in Procs : Crash(p)) \/ ReadOld \/ ReadLive

Spec == Init /\ [][Next]_vars

\* Only the prompt threads are sure to run on: any other may stop wherever it is, for good.
FairSpec == Spec /\ \A t \in Prompt : WF_vars(~At(t, "idle") /\ Step(t))

----------------------------------------------------------------------------
(* Properties.                                                             *)

TypeOK == /\ live \in Inodes \cup {None} /\ old \in Inodes \cup {None}
          /\ disk \in [Inodes -> [recs : SUBSET Records, bytes : Nat, torn : BOOLEAN]]
          /\ lock \in Writers \cup {None}
          /\ w \in [Writers -> [pc : {"idle", "size", "lock", "recheck", "rename", "unlock", "open",
                                      "write", "fail"},
                                rec : Records \cup {None}, len : 0 .. MaxLine,
                                claim : SUBSET Records, fd : Inodes \cup {None}]]
          /\ dropped \in [Procs -> SUBSET Records]
          /\ begun \in 0 .. MaxRecords /\ fate \in [Records -> Fates]

\* Whatever the writers' interleaving, the two files together behave as one log that forgets only
\* a whole older generation, and only for a newest one that had filled: no writer acting on a
\* stale size ever renames a fresh file over the history before it.
Promised == INSTANCE AuditLog WITH trail <- Trail, fresh <- Readable(live), bytes <- Size(live)
KeepsHistory == Promised!Spec

\* Where the process still has record r: counted in DROPPED, counted with a record on its way, or
\* on its way itself.
Holders(r) == {<<"count", p>> : p \in {q \in Procs : r \in dropped[q]}}
                \cup {<<"claim", t>> : t \in {u \in Writers : ~At(u, "idle") /\ r \in w[u].claim}}
                \cup {<<"line", t>> : t \in {u \in Writers : ~At(u, "idle") /\ r = w[u].rec}}

\* No record is forgotten and none is counted twice: each one begun has met one fate, or is still
\* held in exactly one place, the pending count, one record in flight that claims it, or its own
\* thread, through every failure of the records meant to report it.
GapAccounted ==
    \A r \in 1 .. begun : /\ fate[r] = "open" <=> Holders(r) # {}
                          /\ \A h, k \in Holders(r) : h = k

\* record() never blocks: a thread that is scheduled gets out of it, even when another thread
\* stops for good while it holds the rotation lock.
RecordReturns == \A t \in Prompt : ~At(t, "idle") ~> At(t, "idle")

\* A page shows every record that was on disk while it was read, unless a rotation ran between
\* its two reads.
PageWhole == page.pc = "done" /\ ~page.moved => page.start \subseteq page.seen

=============================================================================
