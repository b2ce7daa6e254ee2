-------------------------- MODULE AuditTrailProofs --------------------------
(***************************************************************************)
(* Theorems about AuditTrail, for any number of processes, threads and     *)
(* inodes and any size of the file: the two files implement AuditLog, a    *)
(* page shows what was on disk while it was read, and every record is      *)
(* accounted for.                                                          *)
(***************************************************************************)
EXTENDS AuditTrail, TLAPS

Disks  == [recs : SUBSET Records, bytes : Nat, torn : BOOLEAN]
Phases == {"idle", "size", "lock", "recheck", "rename", "unlock", "open", "write", "fail"}
Lines  == [pc : Phases, rec : Records \cup {None}, len : 0 .. MaxLine, claim : SUBSET Records,
           fd : Inodes \cup {None}]

\* A thread inside record() carries a numbered record and a line that is not empty, and writes
\* through an open file.
InRecord == \A t \in Writers : w[t].pc # "idle" =>
                /\ w[t].rec \in Records /\ w[t].len \in 1 .. MaxLine
                /\ w[t].pc = "write" => w[t].fd \in Inodes

\* Between the try-lock and the unlock, the lock is the thread's.
Locked == \A t \in Writers : w[t].pc \in {"recheck", "rename", "unlock"} => lock = t

\* What the re-check found stays true until the rename: nobody else renames, and files only grow.
Full == \A t \in Writers : w[t].pc = "rename" => live # None /\ disk[live].bytes + w[t].len > Cap

\* The two names are two files.
Apart == live # None => live # old

IInv == TypeOK /\ InRecord /\ Locked /\ Full /\ Apart

-----------------------------------------------------------------------------
(* Type correctness, one lemma for each step of a thread.                  *)

USE AuditAssumption DEF Records

LEMMA LineType ==
    ASSUME TypeOK, NEW t \in Writers PROVE w[t] \in Lines
BY DEF TypeOK, Lines, Phases

LEMMA InitInv == Init => IInv
<1> SUFFICES ASSUME Init PROVE IInv OBVIOUS
<1>1. \A t \in Writers : w[t] = Idle BY DEF Init
<1>2. TypeOK
  BY DEF Init, TypeOK, Empty, Idle, Fates
<1> QED BY <1>1, <1>2 DEF Init, IInv, InRecord, Locked, Full, Apart, Idle

LEMMA BeginInv ==
    ASSUME IInv, NEW t \in Writers, Begin(t) PROVE IInv'
<1> USE DEF IInv, Begin, At, To, Fault, NoFault, Uncounted, files, Line
<1>0. w[t] \in Lines BY LineType
<1>1. TypeOK' BY <1>0 DEF TypeOK, Lines, Phases
<1>2. InRecord' BY <1>0 DEF TypeOK, InRecord, Lines
<1>3. Locked' BY <1>0 DEF TypeOK, Locked, Lines
<1>4. Full' BY <1>0 DEF TypeOK, Full, Locked, InRecord, Lines
<1>5. Apart' BY <1>0 DEF TypeOK, Apart, Lines
<1> QED BY <1>1, <1>2, <1>3, <1>4, <1>5

LEMMA CheckSizeInv ==
    ASSUME IInv, NEW t \in Writers, CheckSize(t) PROVE IInv'
<1>0. w[t] \in Lines /\ w[t].pc = "size" BY LineType DEF IInv, CheckSize, At
<1>1. PICK q \in {"lock", "open", "fail"} : w' = [w EXCEPT ![t].pc = q]
  BY DEF CheckSize, To
<1>2. UNCHANGED <<live, old, disk, lock, dropped, begun, fate>>
  BY DEF CheckSize, files, Uncounted
<1>3. TypeOK' BY <1>0, <1>1, <1>2 DEF IInv, TypeOK, Lines, Phases
<1>4. InRecord' BY <1>0, <1>1, <1>2 DEF IInv, TypeOK, InRecord, Lines
<1>5. Locked' /\ Full' /\ Apart'
  BY <1>0, <1>1, <1>2 DEF IInv, TypeOK, Locked, Full, Apart, Lines
<1> QED BY <1>3, <1>4, <1>5 DEF IInv

LEMMA TryLockInv ==
    ASSUME IInv, NEW t \in Writers, TryLock(t) PROVE IInv'
<1>0. w[t] \in Lines /\ w[t].pc = "lock" BY LineType DEF IInv, TryLock, At
<1>1. PICK q \in {"recheck", "open"} :
          /\ w' = [w EXCEPT ![t].pc = q]
          /\ lock' = IF q = "recheck" THEN t ELSE lock
          /\ q = "recheck" => lock = None
  BY DEF TryLock, To
<1>2. UNCHANGED <<live, old, disk, dropped, begun, fate>>
  BY DEF TryLock, Uncounted
<1>3. TypeOK' BY <1>0, <1>1, <1>2 DEF IInv, TypeOK, Lines, Phases
<1>4. /\ w'[t].pc = q /\ w'[t].rec = w[t].rec /\ w'[t].len = w[t].len
      /\ \A u \in Writers : u # t => w'[u] = w[u]
  BY <1>0, <1>1 DEF IInv, TypeOK, Lines
<1>5. InRecord' BY <1>0, <1>1, <1>4 DEF IInv, InRecord
<1>6. Locked' BY <1>1, <1>4 DEF IInv, Locked
<1>7. Full' /\ Apart' BY <1>1, <1>2, <1>4 DEF IInv, Full, Apart
<1> QED BY <1>3, <1>5, <1>6, <1>7 DEF IInv

LEMMA RecheckInv ==
    ASSUME IInv, NEW t \in Writers, Recheck(t) PROVE IInv'
<1> USE DEF IInv, Recheck, At, To, Fault, NoFault, Uncounted, files, NeedsRotation
<1>0. w[t] \in Lines BY LineType
<1>1. TypeOK' BY <1>0 DEF TypeOK, Lines, Phases
<1>2. InRecord' BY <1>0 DEF TypeOK, InRecord, Lines
<1>3. Locked' BY <1>0 DEF TypeOK, Locked, Lines
<1>4. Full' BY <1>0 DEF TypeOK, Full, Locked, InRecord, Lines
<1>5. Apart' BY <1>0 DEF TypeOK, Apart, Lines
<1> QED BY <1>1, <1>2, <1>3, <1>4, <1>5

LEMMA RenameInv ==
    ASSUME IInv, NEW t \in Writers, Rename(t) PROVE IInv'
<1> USE DEF IInv, Rename, At, To, Fault, NoFault, Uncounted, files
<1>0. w[t] \in Lines BY LineType
<1>1. TypeOK' BY <1>0 DEF TypeOK, Lines, Phases
<1>2. InRecord' BY <1>0 DEF TypeOK, InRecord, Lines
<1>3. Locked' BY <1>0 DEF TypeOK, Locked, Lines
<1>4. Full' BY <1>0 DEF TypeOK, Full, Locked, InRecord, Lines
<1>5. Apart' BY <1>0 DEF TypeOK, Apart, Lines
<1> QED BY <1>1, <1>2, <1>3, <1>4, <1>5

LEMMA UnlockInv ==
    ASSUME IInv, NEW t \in Writers, Unlock(t) PROVE IInv'
<1> USE DEF IInv, Unlock, At, To, Fault, NoFault, Uncounted, files
<1>0. w[t] \in Lines BY LineType
<1>1. TypeOK' BY <1>0 DEF TypeOK, Lines, Phases
<1>2. InRecord' BY <1>0 DEF TypeOK, InRecord, Lines
<1>3. Locked' BY <1>0 DEF TypeOK, Locked, Lines
<1>4. Full' BY <1>0 DEF TypeOK, Full, Locked, InRecord, Lines
<1>5. Apart' BY <1>0 DEF TypeOK, Apart, Lines
<1> QED BY <1>1, <1>2, <1>3, <1>4, <1>5

LEMMA OpenInv ==
    ASSUME IInv, NEW t \in Writers, Open(t) PROVE IInv'
<1> USE DEF IInv, At, To, Fault, NoFault, Uncounted
<1>0. w[t] \in Lines /\ w[t].pc = "open" BY LineType DEF Open
<1>1. CASE live # None /\ UNCHANGED <<live, disk>>
           /\ w' = [w EXCEPT ![t].pc = "write", ![t].fd = live]
  <2>1. TypeOK' BY <1>0, <1>1 DEF TypeOK, Lines, Phases, Open
  <2>2. InRecord' BY <1>0, <1>1 DEF TypeOK, InRecord, Lines
  <2>3. Locked' /\ Full' /\ Apart' BY <1>0, <1>1 DEF TypeOK, Locked, Full, Apart, Lines, Open
  <2> QED BY <2>1, <2>2, <2>3
<1>2. ASSUME NEW i \in Free, live = None, live' = i, disk' = [disk EXCEPT ![i] = Empty],
             w' = [w EXCEPT ![t].pc = "write", ![t].fd = i]
      PROVE  IInv'
  <2>0. i \in Inodes /\ i # old BY <1>2 DEF Free
  <2>1. disk' \in [Inodes -> Disks] BY <2>0, <1>2 DEF TypeOK, Empty, Disks
  <2>2. w' \in [Writers -> Lines] BY <1>0, <2>0, <1>2 DEF TypeOK, Lines, Phases
  <2>3. TypeOK' BY <2>0, <2>1, <2>2, <1>2 DEF TypeOK, Open, Disks, Lines, Phases
  <2>4. \A u \in Writers : u # t => w'[u] = w[u] BY <1>2 DEF TypeOK
  <2>5. w'[t].pc = "write" /\ w'[t].fd = i /\ w'[t].rec = w[t].rec /\ w'[t].len = w[t].len
    BY <1>0, <1>2 DEF TypeOK, Lines
  <2>6. InRecord' BY <1>0, <2>0, <2>4, <2>5 DEF InRecord
  <2>7. Locked' BY <2>4, <2>5 DEF Locked, Open
  <2>8. Full' BY <2>4, <2>5, <1>2 DEF Full
  <2>9. Apart' BY <2>0, <1>2 DEF Apart, Open
  <2> QED BY <2>3, <2>6, <2>7, <2>8, <2>9
<1>3. CASE UNCHANGED <<live, disk>> /\ w' = [w EXCEPT ![t].pc = "fail"]
  <2>1. TypeOK' BY <1>0, <1>3 DEF TypeOK, Lines, Phases, Open
  <2>2. InRecord' BY <1>0, <1>3 DEF TypeOK, InRecord, Lines
  <2>3. Locked' /\ Full' /\ Apart' BY <1>0, <1>3 DEF TypeOK, Locked, Full, Apart, Lines, Open
  <2> QED BY <2>1, <2>2, <2>3
<1>4. CASE live = None /\ Free # {}
           /\ LET i == CHOOSE i \in Free : TRUE
              IN live' = i /\ disk' = [disk EXCEPT ![i] = Empty]
                 /\ w' = [w EXCEPT ![t].pc = "write", ![t].fd = i]
  <2> DEFINE i == CHOOSE i \in Free : TRUE
  <2>1. i \in Free BY <1>4
  <2> HIDE DEF i
  <2> QED BY <2>1, <1>2, <1>4 DEF i
<1> QED BY <1>1, <1>3, <1>4 DEF Open

\* What a write of n bytes leaves in the inode: it never shrinks, and gains at most the record.
LEMMA WroteType ==
    ASSUME TypeOK, NEW i \in Inodes, NEW r \in Records, NEW len \in 0 .. MaxLine, NEW n \in 0 .. len
    PROVE  /\ Wrote(i, r, n, len) \in Disks
           /\ Wrote(i, r, n, len).bytes = disk[i].bytes + n
           /\ Wrote(i, r, n, len).recs \in {disk[i].recs, disk[i].recs \cup {r}}
           /\ n = 0 /\ len # 0 => Wrote(i, r, n, len).recs = disk[i].recs
<1>1. disk[i] \in Disks BY DEF TypeOK, Disks
<1>2. disk[i].recs \in SUBSET Records /\ disk[i].bytes \in Nat /\ disk[i].torn \in BOOLEAN
  BY <1>1 DEF Disks
<1> DEFINE recs == IF n = len /\ ~disk[i].torn THEN disk[i].recs \cup {r} ELSE disk[i].recs
           torn == IF n = 0 THEN disk[i].torn ELSE n < len
<1>3. Wrote(i, r, n, len) = [recs |-> recs, bytes |-> disk[i].bytes + n, torn |-> torn]
  BY DEF Wrote
<1>4. recs \in SUBSET Records BY <1>2
<1>5. torn \in BOOLEAN
  <2>1. (n < len) \in BOOLEAN BY SMT
  <2>2. disk[i].torn \in BOOLEAN BY <1>2
  <2> QED BY <2>1, <2>2, Zenon
<1>6. disk[i].bytes + n \in Nat BY <1>2
<1>7. recs \in {disk[i].recs, disk[i].recs \cup {r}} OBVIOUS
<1>8. n = 0 /\ len # 0 => recs = disk[i].recs OBVIOUS
<1> HIDE DEF recs, torn
<1> QED BY <1>3, <1>4, <1>5, <1>6, <1>7, <1>8 DEF Disks

LEMMA SettledType ==
    ASSUME TypeOK, NEW r, NEW claim, NEW found
    PROVE  Settled(r, claim, found) \in [Records -> Fates]
BY DEF TypeOK, Settled, Fates

\* A write to an open inode, whole or cut short, as one fact.
LEMMA WriteStep ==
    ASSUME IInv, NEW t \in Writers, Write(t)
    PROVE  /\ w[t].fd \in Inodes /\ w[t].rec \in Records /\ w[t].len \in 1 .. MaxLine
           /\ \E n \in 0 .. w[t].len :
                disk' = [disk EXCEPT ![w[t].fd] = Wrote(w[t].fd, w[t].rec, n, w[t].len)]
           /\ w'[t] \in Lines /\ w'[t].pc \in {"idle", "fail"} /\ w' = [w EXCEPT ![t] = w'[t]]
           /\ w'[t].pc = "fail" => w'[t].rec = w[t].rec /\ w'[t].len = w[t].len
           /\ fate' \in [Records -> Fates]
           /\ UNCHANGED <<live, old, lock, dropped, begun, page>>
<1>0. w[t] \in Lines /\ w[t].pc = "write" BY LineType DEF IInv, Write, At
<1>1. w[t].fd \in Inodes /\ w[t].rec \in Records /\ w[t].len \in 1 .. MaxLine
  BY <1>0 DEF IInv, InRecord
<1>2. CASE /\ disk' = [disk EXCEPT ![w[t].fd] = Wrote(w[t].fd, w[t].rec, w[t].len, w[t].len)]
           /\ fate' = Settled(w[t].rec, w[t].claim, w[t].rec \in Trail')
           /\ w' = [w EXCEPT ![t] = Idle]
  <2>1. w'[t] = Idle /\ w' = [w EXCEPT ![t] = w'[t]] BY <1>2 DEF IInv, TypeOK
  <2>2. Idle \in Lines /\ Idle.pc = "idle" BY DEF Idle, Lines, Phases
  <2>3. w[t].len \in 0 .. w[t].len BY <1>1
  <2>4. fate' \in [Records -> Fates] BY <1>2, SettledType DEF IInv
  <2>5. \E n \in 0 .. w[t].len :
            disk' = [disk EXCEPT ![w[t].fd] = Wrote(w[t].fd, w[t].rec, n, w[t].len)]
    BY <1>2, <2>3
  <2> QED BY <1>1, <2>1, <2>2, <2>4, <2>5 DEF Write
<1>3. CASE /\ \E n \in 0 .. w[t].len - 1 :
                disk' = [disk EXCEPT ![w[t].fd] = Wrote(w[t].fd, w[t].rec, n, w[t].len)]
           /\ fate' = fate /\ w' = [w EXCEPT ![t].pc = "fail", ![t].fd = None]
  <2>1. w'[t] = [w[t] EXCEPT !.pc = "fail", !.fd = None] /\ w' = [w EXCEPT ![t] = w'[t]]
    BY <1>3 DEF IInv, TypeOK
  <2>2. w'[t] \in Lines /\ w'[t].pc = "fail" /\ w'[t].rec = w[t].rec /\ w'[t].len = w[t].len
    BY <1>0, <2>1 DEF Lines, Phases
  <2>3. \E n \in 0 .. w[t].len :
            disk' = [disk EXCEPT ![w[t].fd] = Wrote(w[t].fd, w[t].rec, n, w[t].len)]
    <3>1. PICK n \in 0 .. w[t].len - 1 :
                disk' = [disk EXCEPT ![w[t].fd] = Wrote(w[t].fd, w[t].rec, n, w[t].len)]
      BY <1>3
    <3>2. n \in 0 .. w[t].len BY <1>1
    <3> QED BY <3>1, <3>2
  <2> QED BY <1>1, <1>3, <2>1, <2>2, <2>3 DEF Write, IInv, TypeOK
<1> QED BY <1>2, <1>3 DEF Write

LEMMA WriteInv ==
    ASSUME IInv, NEW t \in Writers, Write(t) PROVE IInv'
<1> DEFINE i == w[t].fd
<1>1. PICK n \in 0 .. w[t].len : disk' = [disk EXCEPT ![i] = Wrote(i, w[t].rec, n, w[t].len)]
  BY WriteStep
<1>2. /\ i \in Inodes /\ w[t].rec \in Records /\ w[t].len \in 1 .. MaxLine
      /\ w'[t] \in Lines /\ w'[t].pc \in {"idle", "fail"} /\ w' = [w EXCEPT ![t] = w'[t]]
      /\ w'[t].pc = "fail" => w'[t].rec = w[t].rec /\ w'[t].len = w[t].len
      /\ fate' \in [Records -> Fates]
      /\ UNCHANGED <<live, old, lock, dropped, begun, page>>
  BY WriteStep
<1>3. Wrote(i, w[t].rec, n, w[t].len) \in Disks
      /\ Wrote(i, w[t].rec, n, w[t].len).bytes = disk[i].bytes + n
  BY <1>2, WroteType DEF IInv
<1> HIDE DEF i
<1>4. disk' \in [Inodes -> Disks] BY <1>1, <1>2, <1>3 DEF IInv, TypeOK, Disks
<1>5. w' \in [Writers -> Lines] BY <1>2 DEF IInv, TypeOK, Lines, Phases
<1>6. TypeOK' BY <1>2, <1>4, <1>5 DEF IInv, TypeOK, Disks, Lines, Phases
<1>7. \A u \in Writers : u # t => w'[u] = w[u] BY <1>2 DEF IInv, TypeOK
<1>8. InRecord' BY <1>2, <1>7 DEF IInv, InRecord
<1>9. Locked' BY <1>2, <1>7 DEF IInv, Locked
<1>10. \A j \in Inodes : disk[j].bytes \in Nat /\ disk'[j].bytes \in Nat /\ disk'[j].bytes >= disk[j].bytes
  BY <1>1, <1>2, <1>3 DEF IInv, TypeOK
<1>11. Full'
  <2> SUFFICES ASSUME NEW u \in Writers, w'[u].pc = "rename"
               PROVE  live # None /\ disk'[live].bytes + w'[u].len > Cap
    BY <1>2 DEF Full
  <2>1. w'[u] = w[u] BY <1>2, <1>7
  <2>2. live \in Inodes /\ disk[live].bytes + w[u].len > Cap BY <2>1 DEF IInv, TypeOK, Full
  <2>3. w[u].len \in Nat BY LineType DEF IInv, Lines
  <2> QED BY <2>1, <2>2, <2>3, <1>10 DEF IInv, Full
<1> QED BY <1>2, <1>6, <1>8, <1>9, <1>11 DEF IInv, Apart

LEMMA RearmInv ==
    ASSUME IInv, NEW t \in Writers, Rearm(t) PROVE IInv'
<1> USE DEF IInv, Rearm, At, NoFault, files
<1>0. w[t] \in Lines /\ w[t].rec \in Records BY LineType DEF InRecord
<1>1. Idle \in Lines /\ Idle.pc = "idle" BY DEF Idle, Lines, Phases
<1> HIDE DEF IInv
<1>2. w' \in [Writers -> Lines] BY <1>1 DEF IInv, TypeOK, Lines, Phases
<1>3. w[t].claim \cup {w[t].rec} \subseteq Records BY <1>0 DEF Lines
<1>4. dropped' \in [Procs -> SUBSET Records]
  BY <1>0, <1>3 DEF IInv, TypeOK
<1>5. TypeOK' BY <1>2, <1>4 DEF IInv, TypeOK, Lines, Phases
<1>6. \A u \in Writers : w'[u] = IF u = t THEN Idle ELSE w[u] BY DEF IInv, TypeOK
<1> QED BY <1>1, <1>5, <1>6 DEF IInv, InRecord, Locked, Full, Apart

LEMMA CrashInv ==
    ASSUME IInv, NEW p \in Procs, Crash(p) PROVE IInv'
<1> DEFINE mine == {t \in Writers : ProcOf[t] = p}
<1>1. /\ w' = [t \in Writers |-> IF t \in mine THEN Idle ELSE w[t]]
      /\ lock' = IF lock \in mine THEN None ELSE lock
      /\ dropped' = [dropped EXCEPT ![p] = {}]
      /\ UNCHANGED <<live, old, disk, begun>>
  BY DEF Crash
<1>2. Idle \in Lines /\ Idle.pc = "idle" BY DEF Idle, Lines, Phases
<1>3. w' \in [Writers -> Lines] BY <1>1, <1>2 DEF IInv, TypeOK, Lines, Phases
<1>4. /\ dropped' \in [Procs -> SUBSET Records] /\ lock' \in Writers \cup {None}
      /\ fate' \in [Records -> Fates]
  BY <1>1 DEF IInv, TypeOK, Crash, Fates
<1>5. TypeOK' BY <1>1, <1>3, <1>4 DEF IInv, TypeOK, Lines, Phases
<1>6. \A t \in Writers : w'[t] = IF t \in mine THEN Idle ELSE w[t] BY <1>1
<1> HIDE DEF mine
<1>7. Locked'
  <2> SUFFICES ASSUME NEW t \in Writers, w'[t].pc \in {"recheck", "rename", "unlock"}
               PROVE  lock' = t
    BY DEF Locked
  <2>1. t \notin mine /\ w'[t] = w[t] BY <1>2, <1>6
  <2>2. lock = t BY <2>1 DEF IInv, Locked
  <2> QED BY <1>1, <2>1, <2>2
<1> QED BY <1>1, <1>2, <1>5, <1>6, <1>7 DEF IInv, InRecord, Full, Apart

LEMMA PageInv ==
    ASSUME IInv, ReadOld \/ ReadLive \/ UNCHANGED vars PROVE IInv'
BY DEF ReadOld, ReadLive, vars, files, IInv, TypeOK, InRecord, Locked, Full, Apart

\* IInv is inductive.
LEMMA NextInv == IInv /\ [Next]_vars => IInv'
<1> SUFFICES ASSUME IInv, [Next]_vars PROVE IInv' OBVIOUS
<1>1. ASSUME NEW t \in Writers, Step(t) PROVE IInv'
  BY <1>1, BeginInv, CheckSizeInv, TryLockInv, RecheckInv, RenameInv, UnlockInv, OpenInv, WriteInv,
     RearmInv DEF Step
<1>2. ASSUME NEW p \in Procs, Crash(p) PROVE IInv' BY <1>2, CrashInv
<1> QED BY <1>1, <1>2, PageInv DEF Next

LEMMA Invariant == Spec => []IInv
BY InitInv, NextInv, PTL DEF Spec

\* Every variable of the trail keeps its type: a line fits MaxLine, a file is an inode.
THEOREM AuditTypes == Spec => []TypeOK
<1>1. IInv => TypeOK BY DEF IInv
<1> QED BY <1>1, Invariant, PTL

-----------------------------------------------------------------------------
(* The two files implement AuditLog.                                       *)

Unseen == UNCHANGED <<Trail, Readable(live), Size(live)>>

\* A step that touches no file is not seen.
LEMMA FilesUnchanged ==
    ASSUME UNCHANGED <<live, old, disk>> PROVE Unseen
BY DEF Unseen, Trail, Readable, Size

\* A rotation forgets the older generation, and the newest had no room left.
LEMMA RenameForgets ==
    ASSUME IInv, NEW t \in Writers, Rename(t) PROVE Promised!Forget \/ Unseen
<1>1. CASE live # None /\ old' = live /\ live' = None
  <2>1. disk' = disk BY DEF Rename
  <2>2. /\ Readable(live) = disk[live].recs /\ Size(live) = disk[live].bytes
        /\ Readable(live)' = {} /\ Size(live)' = 0 /\ Readable(old)' = disk[live].recs
    BY <1>1, <2>1 DEF Readable, Size
  <2>3. live \in Inodes /\ disk[live].bytes \in Nat /\ disk[live].bytes + w[t].len > Cap
    BY DEF IInv, TypeOK, Full, Rename, At
  <2>4. w[t].len \in 0 .. MaxLine BY LineType DEF IInv, Lines
  <2>5. Size(live) + MaxLine > Cap BY <2>2, <2>3, <2>4
  <2>6. Trail' = Readable(live) BY <2>2 DEF Trail
  <2> QED BY <2>2, <2>5, <2>6 DEF Promised!Forget
<1>2. CASE UNCHANGED <<live, old>>
  BY <1>2, FilesUnchanged DEF Rename
<1> QED BY <1>1, <1>2 DEF Rename

\* A new file is an empty generation, as a missing one is.
LEMMA OpenUnseen ==
    ASSUME IInv, NEW t \in Writers, Open(t) PROVE Unseen
<1>1. ASSUME NEW i \in Free, live = None, live' = i, disk' = [disk EXCEPT ![i] = Empty]
      PROVE  Unseen
  <2>1. i \in Inodes /\ i # old /\ i # None BY <1>1 DEF Free
  <2>2. disk'[i] = Empty /\ \A j \in Inodes : j # i => disk'[j] = disk[j]
    BY <1>1, <2>1 DEF IInv, TypeOK
  <2>3. Readable(live) = {} /\ Size(live) = 0 BY <1>1 DEF Readable, Size
  <2>4. Readable(live)' = {} /\ Size(live)' = 0 BY <1>1, <2>1, <2>2 DEF Readable, Size, Empty
  <2>5. Readable(old)' = Readable(old)
    BY <2>1, <2>2 DEF Readable, Open, IInv, TypeOK
  <2> QED BY <2>3, <2>4, <2>5 DEF Unseen, Trail
<1>2. CASE UNCHANGED <<live, disk>>
  BY <1>2, FilesUnchanged DEF Open
<1>3. CASE live = None /\ Free # {}
           /\ LET i == CHOOSE i \in Free : TRUE IN live' = i /\ disk' = [disk EXCEPT ![i] = Empty]
  <2> DEFINE i == CHOOSE i \in Free : TRUE
  <2>1. i \in Free BY <1>3
  <2> HIDE DEF i
  <2> QED BY <2>1, <1>1, <1>3 DEF i
<1> QED BY <1>2, <1>3 DEF Open

\* A line joins the newest generation, or the one before it when the writer was slow, or a file
\* nobody finds any more.
LEMMA WriteJoins ==
    ASSUME IInv, NEW t \in Writers, Write(t) PROVE Promised!Join \/ Promised!Straggle \/ Unseen
<1> DEFINE i == w[t].fd
<1>1. PICK n \in 0 .. w[t].len : disk' = [disk EXCEPT ![i] = Wrote(i, w[t].rec, n, w[t].len)]
  BY WriteStep
<1>2. /\ i \in Inodes /\ w[t].rec \in Records /\ w[t].len \in 1 .. MaxLine
      /\ UNCHANGED <<live, old>>
  BY WriteStep
<1>3. /\ disk'[i].bytes = disk[i].bytes + n /\ disk[i].bytes \in Nat
      /\ disk'[i].recs \in {disk[i].recs, disk[i].recs \cup {w[t].rec}}
      /\ n = 0 => disk'[i].recs = disk[i].recs
  <2>1. w[t].len \in 0 .. MaxLine /\ w[t].len # 0 BY <1>2
  <2>2. disk'[i] = Wrote(i, w[t].rec, n, w[t].len) BY <1>1, <1>2 DEF IInv, TypeOK
  <2>3. disk[i].bytes \in Nat BY <1>2 DEF IInv, TypeOK
  <2> QED BY <1>2, <2>1, <2>2, <2>3, WroteType DEF IInv
<1>4. \A j \in Inodes : j # i => disk'[j] = disk[j] BY <1>1, <1>2 DEF IInv, TypeOK
<1>5. live \in Inodes \cup {None} /\ old \in Inodes \cup {None} /\ None \notin Inodes
  BY DEF IInv, TypeOK
<1>6. PICK add \in SUBSET Records : disk'[i].recs = disk[i].recs \cup add /\ (n = 0 => add = {})
  <2>1. CASE disk'[i].recs = disk[i].recs BY <2>1
  <2>2. CASE disk'[i].recs # disk[i].recs
    <3>1. n # 0 /\ disk'[i].recs = disk[i].recs \cup {w[t].rec} /\ {w[t].rec} \in SUBSET Records
      BY <1>2, <1>3, <2>2
    <3> QED BY <3>1
  <2> QED BY <2>1, <2>2
<1> HIDE DEF i
<1>7. CASE i = live /\ n # 0
  <2>1. /\ Readable(live)' = Readable(live) \cup add /\ Size(live)' = Size(live) + n
        /\ Readable(old)' = Readable(old)
    BY <1>2, <1>3, <1>4, <1>5, <1>6, <1>7 DEF Readable, Size, IInv, Apart
  <2>2. n \in 1 .. MaxLine BY <1>2, <1>7
  <2>3. Trail' = Trail \cup add BY <2>1 DEF Trail
  <2> QED BY <2>1, <2>2, <2>3 DEF Promised!Join
<1>8. CASE i = live /\ n = 0
  <2>1. Readable(live)' = Readable(live) /\ Size(live)' = Size(live) /\ Readable(old)' = Readable(old)
    BY <1>2, <1>3, <1>4, <1>5, <1>8 DEF Readable, Size, IInv, Apart
  <2> QED BY <2>1 DEF Unseen, Trail
<1>9. CASE i # live
  <2>1. Readable(live)' = Readable(live) /\ Size(live)' = Size(live)
    BY <1>2, <1>4, <1>5, <1>9 DEF Readable, Size
  <2>2. Readable(old)' = Readable(old) \/ Readable(old)' = Readable(old) \cup add
    BY <1>2, <1>4, <1>5, <1>6 DEF Readable
  <2>3. Trail' = Trail \/ Trail' = Trail \cup add BY <2>1, <2>2 DEF Trail
  <2> QED BY <2>1, <2>3 DEF Promised!Straggle, Unseen
<1> QED BY <1>7, <1>8, <1>9

\* Every step of the trail is a step of the log or not seen there.
LEMMA StepRefines ==
    IInv /\ [Next]_vars => [Promised!Next]_(Promised!logvars)
<1> SUFFICES ASSUME IInv, [Next]_vars PROVE Promised!Next \/ Unseen
  BY DEF Unseen, Promised!logvars
<1>1. ASSUME NEW t \in Writers, Step(t) PROVE Promised!Next \/ Unseen
  <2>1. CASE Begin(t) BY <2>1, FilesUnchanged DEF Begin, files
  <2>2. CASE CheckSize(t) BY <2>2, FilesUnchanged DEF CheckSize, files
  <2>3. CASE TryLock(t) BY <2>3, FilesUnchanged DEF TryLock
  <2>4. CASE Recheck(t) BY <2>4, FilesUnchanged DEF Recheck, files
  <2>5. CASE Rename(t) BY <2>5, RenameForgets DEF Promised!Next
  <2>6. CASE Unlock(t) BY <2>6, FilesUnchanged DEF Unlock
  <2>7. CASE Open(t) BY <2>7, OpenUnseen
  <2>8. CASE Write(t) BY <2>8, WriteJoins DEF Promised!Next
  <2>9. CASE Rearm(t) BY <2>9, FilesUnchanged DEF Rearm, files
  <2> QED BY <1>1, <2>1, <2>2, <2>3, <2>4, <2>5, <2>6, <2>7, <2>8, <2>9 DEF Step
<1>2. ASSUME NEW p \in Procs, Crash(p) PROVE Unseen BY <1>2, FilesUnchanged DEF Crash
<1>3. CASE ReadOld \/ ReadLive \/ UNCHANGED vars
  BY <1>3, FilesUnchanged DEF ReadOld, ReadLive, vars, files
<1> QED BY <1>1, <1>2, <1>3 DEF Next

\* The trail's two files behave as one log of two generations: rotate_locked never renames a file
\* over the history before it unless the newer one had no room for another line, whatever the
\* writers' interleaving, failures and crashes.
THEOREM AuditKeepsHistory == Spec => KeepsHistory
<1>1. Init => Promised!Init
  BY DEF Init, Promised!Init, Trail, Readable, Size
<1>2. IInv /\ [Next]_vars => [Promised!Next]_(Promised!logvars) BY StepRefines
<1> QED BY <1>1, <1>2, Invariant, PTL DEF Spec, KeepsHistory, Promised!Spec

-----------------------------------------------------------------------------
(* The page read.                                                          *)

PageType == page \in [pc : {"closed", "live", "done"}, seen : SUBSET Records, start : SUBSET Records,
                      moved : BOOLEAN]

\* What a half-read page still has to find is in the live file.
PageCovers == page.pc = "live" /\ ~page.moved => page.start \subseteq page.seen \cup Readable(live)

PInv == PageType /\ PageCovers /\ PageWhole

LEMMA InitPage == Init => PInv
BY DEF Init, Closed, PInv, PageType, PageCovers, PageWhole

LEMMA ReadableType == ASSUME IInv PROVE Readable(live) \subseteq Records /\ Trail \subseteq Records
<1>1. \A i \in Inodes : disk[i].recs \subseteq Records BY DEF IInv, TypeOK
<1> QED BY <1>1 DEF IInv, TypeOK, Readable, Trail

\* Outside a rotation the live file only gains records, and the page is not touched.
LEMMA StepGrows ==
    ASSUME IInv, NEW t \in Writers, Step(t), ~Rename(t)
    PROVE  page' = page /\ Readable(live) \subseteq Readable(live)'
<1>1. CASE Open(t)
  <2>1. Readable(live)' = Readable(live) BY <1>1, OpenUnseen DEF Unseen
  <2> QED BY <1>1, <2>1 DEF Open, Uncounted
<1>2. CASE Write(t)
  <2>1. Promised!Join \/ Promised!Straggle \/ Unseen BY <1>2, WriteJoins
  <2>2. Readable(live) \subseteq Readable(live)' BY <2>1 DEF Promised!Join, Promised!Straggle, Unseen
  <2> QED BY <1>2, <2>2 DEF Write
<1>3. CASE UNCHANGED <<live, old, disk, page>>
  BY <1>3, FilesUnchanged DEF Unseen
<1>4. Begin(t) \/ CheckSize(t) \/ TryLock(t) \/ Recheck(t) \/ Unlock(t) \/ Rearm(t)
      => UNCHANGED <<live, old, disk, page>>
  BY DEF Begin, CheckSize, TryLock, Recheck, Unlock, Rearm, Uncounted, files
<1> QED BY <1>1, <1>2, <1>3, <1>4 DEF Step

\* PInv is preserved: only a rotation takes records out of the live file, and it marks the page.
LEMMA NextPage == IInv /\ PInv /\ [Next]_vars => PInv'
<1> SUFFICES ASSUME IInv, PInv, [Next]_vars PROVE PInv' OBVIOUS
<1>1. ASSUME page' = page, Readable(live) \subseteq Readable(live)' PROVE PInv'
  BY <1>1 DEF PInv, PageType, PageCovers, PageWhole
<1>2. ASSUME NEW t \in Writers, Rename(t) PROVE PInv'
  <2>1. CASE page' = [page EXCEPT !.moved = TRUE]
    <3>1. page'.moved = TRUE /\ page' \in [pc : {"closed", "live", "done"}, seen : SUBSET Records,
                                           start : SUBSET Records, moved : BOOLEAN]
      BY <2>1 DEF PInv, PageType
    <3> QED BY <3>1 DEF PInv, PageType, PageCovers, PageWhole
  <2>2. CASE UNCHANGED <<live, old, page>>
    <3>1. disk' = disk BY <1>2 DEF Rename
    <3> QED BY <2>2, <3>1, <1>1, FilesUnchanged DEF Unseen
  <2> QED BY <1>2, <2>1, <2>2 DEF Rename
<1>3. ASSUME NEW t \in Writers, Step(t), ~Rename(t) PROVE PInv'
  BY <1>3, <1>1, StepGrows
<1>4. ASSUME NEW p \in Procs, Crash(p) PROVE PInv'
  BY <1>4, <1>1, FilesUnchanged DEF Crash, Unseen
<1>5. CASE ReadOld
  <2>1. page' = [pc |-> "live", seen |-> Readable(old), start |-> Trail, moved |-> FALSE]
        /\ UNCHANGED <<live, old, disk>>
    BY <1>5 DEF ReadOld, files
  <2>2. Readable(old) \subseteq Records /\ Trail \subseteq Records
    BY ReadableType DEF Trail
  <2>3. PageType' BY <2>1, <2>2 DEF PageType
  <2>4. Readable(live)' = Readable(live) BY <2>1, FilesUnchanged DEF Unseen
  <2>5. PageCovers' BY <2>1, <2>4 DEF PageCovers, Trail
  <2>6. PageWhole' BY <2>1 DEF PageWhole
  <2> QED BY <2>3, <2>5, <2>6 DEF PInv
<1>6. CASE ReadLive
  <2>1. page.pc = "live" /\ page' = [page EXCEPT !.pc = "done", !.seen = @ \cup Readable(live)]
    BY <1>6 DEF ReadLive
  <2>2. /\ page'.pc = "done" /\ page'.seen = page.seen \cup Readable(live)
        /\ page'.start = page.start /\ page'.moved = page.moved
    BY <2>1 DEF PInv, PageType
  <2>3. PageType' BY <2>1, ReadableType DEF PInv, PageType
  <2>4. PageCovers' BY <2>2 DEF PageCovers
  <2>5. PageWhole' BY <2>1, <2>2 DEF PInv, PageCovers, PageWhole
  <2> QED BY <2>3, <2>4, <2>5 DEF PInv
<1>7. CASE UNCHANGED vars
  BY <1>7, <1>1, FilesUnchanged DEF vars, files, Unseen
<1> QED BY <1>2, <1>3, <1>4, <1>5, <1>6, <1>7 DEF Next

\* A page shows every record that was on disk while it was read, unless a rotation ran between
\* read_at's two reads.
THEOREM AuditPageWhole == Spec => []PageWhole
<1>1. PInv => PageWhole BY DEF PInv
<1>2. Spec => [](IInv /\ PInv)
  <2>1. Init => IInv /\ PInv BY InitInv, InitPage
  <2>2. (IInv /\ PInv) /\ [Next]_vars => (IInv /\ PInv)' BY NextInv, NextPage
  <2> QED BY <2>1, <2>2, PTL DEF Spec
<1> QED BY <1>1, <1>2, PTL

-----------------------------------------------------------------------------
(* The gap count.                                                          *)

InFlight(t) == w[t].pc # "idle"

\* A thread outside record() holds no count.
RestHolds == \A t \in Writers : ~InFlight(t) => w[t].claim = {}

\* What the process still has, one way or another, was begun and has met no fate.
Held == /\ \A p \in Procs : \A r \in dropped[p] : r \in 1 .. begun /\ fate[r] = "open"
        /\ \A t \in Writers : \A r \in w[t].claim : r \in 1 .. begun /\ fate[r] = "open"
        /\ \A t \in Writers : InFlight(t) => w[t].rec \in 1 .. begun /\ fate[w[t].rec] = "open"

\* It is held in one place only.
HeldOnce == /\ \A p, q \in Procs : p # q => dropped[p] \cap dropped[q] = {}
            /\ \A p \in Procs, t \in Writers : dropped[p] \cap w[t].claim = {}
            /\ \A t, u \in Writers : t # u => w[t].claim \cap w[u].claim = {}
            /\ \A t \in Writers : InFlight(t) =>
                  /\ \A p \in Procs : w[t].rec \notin dropped[p]
                  /\ \A u \in Writers : w[t].rec \notin w[u].claim
                  /\ \A u \in Writers : u # t /\ InFlight(u) => w[t].rec # w[u].rec

\* And in some place.
NotForgotten == \A r \in 1 .. begun : fate[r] = "open" =>
                    \/ \E p \in Procs : r \in dropped[p]
                    \/ \E t \in Writers : r \in w[t].claim
                    \/ \E t \in Writers : InFlight(t) /\ r = w[t].rec

\* No record meets a fate before it is begun.
NotBegun == \A r \in Records : r > begun => fate[r] = "open"

GInv == RestHolds /\ Held /\ HeldOnce /\ NotForgotten /\ NotBegun

LEMMA InitGap == Init => GInv
<1> SUFFICES ASSUME Init PROVE GInv OBVIOUS
<1>1. \A t \in Writers : w[t].pc = "idle" /\ w[t].claim = {} BY DEF Init, Idle
<1>2. begun = 0 /\ (\A p \in Procs : dropped[p] = {}) /\ \A r \in Records : fate[r] = "open" BY DEF Init
<1> QED BY <1>1, <1>2 DEF GInv, RestHolds, Held, HeldOnce, NotForgotten, NotBegun, InFlight

\* A step that moves a thread on within record() counts nothing.
LEMMA GapKept ==
    ASSUME GInv, UNCHANGED <<dropped, begun, fate>>,
           \A u \in Writers : /\ w'[u].claim = w[u].claim /\ w'[u].rec = w[u].rec
                              /\ w'[u].pc = "idle" <=> w[u].pc = "idle"
    PROVE  GInv'
<1>1. \A u \in Writers : InFlight(u)' <=> InFlight(u) BY DEF InFlight
<1>2. RestHolds' BY <1>1 DEF GInv, RestHolds
<1>3. Held' BY <1>1 DEF GInv, Held
<1>4. HeldOnce' BY <1>1 DEF GInv, HeldOnce
<1>5. NotForgotten' BY <1>1 DEF GInv, NotForgotten
<1>6. NotBegun' BY DEF GInv, NotBegun
<1> QED BY <1>2, <1>3, <1>4, <1>5, <1>6 DEF GInv

\* The whole count of a process goes with the next record, whose number is new.
LEMMA GapBegin ==
    ASSUME IInv, GInv, NEW t \in Writers, Begin(t) PROVE GInv'
<1> DEFINE p == ProcOf[t]
<1>1. p \in Procs /\ begun \in Nat /\ begun + 1 \in Records BY DEF IInv, TypeOK, Begin
<1>2. PICK n \in Lengths : w' = [w EXCEPT ![t] = Line(begun + 1, n, dropped[p])]
  BY DEF Begin
<1>3. /\ ~InFlight(t) /\ begun' = begun + 1 /\ fate' = fate
      /\ dropped' = [dropped EXCEPT ![p] = {}]
  BY DEF Begin, InFlight, At
<1>4. /\ w'[t].pc = "size" /\ w'[t].rec = begun + 1 /\ w'[t].claim = dropped[p]
      /\ \A u \in Writers : u # t => w'[u] = w[u]
  BY <1>2 DEF IInv, TypeOK, Line
<1>5. dropped'[p] = {} /\ \A q \in Procs : q # p => dropped'[q] = dropped[q]
  BY <1>1, <1>3 DEF IInv, TypeOK
<1>6. w[t].claim = {} BY <1>3 DEF GInv, RestHolds
<1>7. InFlight(t)' /\ \A u \in Writers : u # t => (InFlight(u)' <=> InFlight(u))
  BY <1>4 DEF InFlight
<1>8. fate[begun + 1] = "open" /\ begun + 1 \notin 1 .. begun BY <1>1 DEF GInv, NotBegun
<1>9. \A r \in 1 .. begun : r \in 1 .. begun' /\ r # begun + 1 BY <1>1, <1>3
<1> HIDE DEF p
<1>10. RestHolds' BY <1>4, <1>7 DEF GInv, RestHolds
<1>11. Held'
  <2>1. \A q \in Procs : \A r \in dropped'[q] : r \in 1 .. begun' /\ fate'[r] = "open"
    BY <1>3, <1>5, <1>9 DEF GInv, Held
  <2>2. \A u \in Writers : \A r \in w'[u].claim : r \in 1 .. begun' /\ fate'[r] = "open"
    BY <1>1, <1>3, <1>4, <1>9 DEF GInv, Held
  <2>3. \A u \in Writers : InFlight(u)' => w'[u].rec \in 1 .. begun' /\ fate'[w'[u].rec] = "open"
    <3>1. begun + 1 \in 1 .. begun' BY <1>1, <1>3
    <3> QED BY <3>1, <1>3, <1>4, <1>7, <1>8, <1>9 DEF GInv, Held
  <2> QED BY <2>1, <2>2, <2>3 DEF Held
<1>12. HeldOnce'
  <2>1. /\ \A q \in Procs : begun + 1 \notin dropped[q]
        /\ \A u \in Writers : begun + 1 \notin w[u].claim
        /\ \A u \in Writers : InFlight(u) => w[u].rec # begun + 1
    BY <1>8 DEF GInv, Held
  <2>2. \A q, x \in Procs : q # x => dropped'[q] \cap dropped'[x] = {}
    BY <1>5 DEF GInv, HeldOnce
  <2>3. \A q \in Procs, u \in Writers : dropped'[q] \cap w'[u].claim = {}
    BY <1>1, <1>4, <1>5 DEF GInv, HeldOnce
  <2>4. \A u, x \in Writers : u # x => w'[u].claim \cap w'[x].claim = {}
    BY <1>1, <1>4 DEF GInv, HeldOnce
  <2>5. ASSUME NEW u \in Writers, InFlight(u)'
        PROVE  /\ \A q \in Procs : w'[u].rec \notin dropped'[q]
               /\ \A x \in Writers : w'[u].rec \notin w'[x].claim
               /\ \A x \in Writers : x # u /\ InFlight(x)' => w'[u].rec # w'[x].rec
    BY <2>1, <2>5, <1>1, <1>4, <1>5, <1>7 DEF GInv, HeldOnce
  <2> QED BY <2>2, <2>3, <2>4, <2>5 DEF HeldOnce
<1>13. NotForgotten'
  <2> SUFFICES ASSUME NEW r \in 1 .. begun', fate[r] = "open"
               PROVE  \/ \E q \in Procs : r \in dropped'[q]
                      \/ \E u \in Writers : r \in w'[u].claim
                      \/ \E u \in Writers : InFlight(u)' /\ r = w'[u].rec
    BY <1>3 DEF NotForgotten
  <2>1. r = begun + 1 \/ r \in 1 .. begun BY <1>1, <1>3
  <2>2. CASE r = begun + 1 BY <2>2, <1>4, <1>7
  <2>3. CASE \E u \in Writers : r \in w[u].claim BY <2>3, <1>4, <1>6
  <2>4. CASE \E q \in Procs : r \in dropped[q] BY <2>4, <1>4, <1>5
  <2>5. CASE \E u \in Writers : InFlight(u) /\ r = w[u].rec BY <2>5, <1>3, <1>4, <1>7
  <2> QED BY <2>1, <2>2, <2>3, <2>4, <2>5 DEF GInv, NotForgotten
<1>14. NotBegun'
  <2>1. \A r \in Records : r > begun + 1 => r > begun BY <1>1
  <2> QED BY <2>1, <1>3 DEF GInv, NotBegun
<1> QED BY <1>10, <1>11, <1>12, <1>13, <1>14 DEF GInv

\* A record whose line was written whole meets its fate, and so does every record it counts.
LEMMA GapWritten ==
    ASSUME IInv, GInv, NEW t \in Writers, InFlight(t),
           NEW found, fate' = Settled(w[t].rec, w[t].claim, found),
           w'[t].pc = "idle", w'[t].claim = {}, \A u \in Writers : u # t => w'[u] = w[u],
           UNCHANGED <<dropped, begun>>
    PROVE  GInv'
<1> DEFINE mine == w[t].claim \cup {w[t].rec}
<1>1. \A r \in Records : /\ r \in mine => fate'[r] # "open"
                         /\ r \notin mine => fate'[r] = fate[r]
  BY DEF Settled
<1>2. mine \subseteq 1 .. begun /\ 1 .. begun \subseteq Records /\ begun \in Nat
  BY DEF IInv, TypeOK, GInv, Held
<1>3. ~InFlight(t)' /\ \A u \in Writers : u # t => (InFlight(u)' <=> InFlight(u)) BY DEF InFlight
<1>4. /\ \A p \in Procs : dropped[p] \cap mine = {}
      /\ \A u \in Writers : u # t => w[u].claim \cap mine = {}
      /\ \A u \in Writers : u # t /\ InFlight(u) => w[u].rec \notin mine
  BY DEF GInv, HeldOnce
<1>5. \A r : r \in mine <=> r \in w[t].claim \/ r = w[t].rec OBVIOUS
<1> HIDE DEF mine
<1>6. RestHolds' BY <1>3 DEF GInv, RestHolds
<1>7. Held' BY <1>1, <1>2, <1>3, <1>4 DEF GInv, Held
<1>8. HeldOnce' BY <1>3 DEF GInv, HeldOnce
<1>9. NotForgotten'
  <2> SUFFICES ASSUME NEW r \in 1 .. begun, fate'[r] = "open"
               PROVE  \/ \E p \in Procs : r \in dropped[p]
                      \/ \E u \in Writers : r \in w'[u].claim
                      \/ \E u \in Writers : InFlight(u)' /\ r = w'[u].rec
    BY DEF NotForgotten
  <2>1. r \notin mine /\ fate[r] = "open" BY <1>1, <1>2
  <2> QED BY <2>1, <1>3, <1>5 DEF GInv, NotForgotten
<1>10. NotBegun'
  <2>1. \A r \in Records : r > begun => r \notin mine BY <1>2
  <2> QED BY <2>1, <1>1 DEF GInv, NotBegun
<1> QED BY <1>6, <1>7, <1>8, <1>9, <1>10 DEF GInv

LEMMA GapWrite ==
    ASSUME IInv, GInv, NEW t \in Writers, Write(t) PROVE GInv'
<1>1. UNCHANGED <<dropped, begun>> /\ InFlight(t) BY DEF Write, At, InFlight
<1>2. CASE fate' = Settled(w[t].rec, w[t].claim, w[t].rec \in Trail') /\ w' = [w EXCEPT ![t] = Idle]
  <2>1. w'[t].pc = "idle" /\ w'[t].claim = {} /\ \A u \in Writers : u # t => w'[u] = w[u]
    BY <1>2 DEF IInv, TypeOK, Idle
  <2> QED BY <1>1, <1>2, <2>1, GapWritten
<1>3. CASE fate' = fate /\ w' = [w EXCEPT ![t].pc = "fail", ![t].fd = None]
  <2>1. w[t] \in Lines /\ w[t].pc = "write" BY LineType DEF IInv, Write, At
  <2>2. \A u \in Writers : /\ w'[u].claim = w[u].claim /\ w'[u].rec = w[u].rec
                           /\ w'[u].pc = "idle" <=> w[u].pc = "idle"
    BY <1>3, <2>1 DEF IInv, TypeOK, Lines
  <2> QED BY <1>1, <1>3, <2>2, GapKept
<1> QED BY <1>2, <1>3 DEF Write

\* A record that failed gives its claim back, and is counted itself.
LEMMA GapRearm ==
    ASSUME IInv, GInv, NEW t \in Writers, Rearm(t) PROVE GInv'
<1> DEFINE p == ProcOf[t]
<1>1. p \in Procs BY DEF IInv, TypeOK
<1>2. /\ InFlight(t) /\ UNCHANGED <<begun, fate>>
      /\ dropped' = [dropped EXCEPT ![p] = @ \cup w[t].claim \cup {w[t].rec}]
      /\ w' = [w EXCEPT ![t] = Idle]
  BY DEF Rearm, InFlight, At
<1>3. w'[t].pc = "idle" /\ w'[t].claim = {} /\ \A u \in Writers : u # t => w'[u] = w[u]
  BY <1>2 DEF IInv, TypeOK, Idle
<1>4. /\ dropped'[p] = dropped[p] \cup w[t].claim \cup {w[t].rec}
      /\ \A q \in Procs : q # p => dropped'[q] = dropped[q]
  BY <1>1, <1>2 DEF IInv, TypeOK
<1>5. ~InFlight(t)' /\ \A u \in Writers : u # t => (InFlight(u)' <=> InFlight(u))
  BY <1>3 DEF InFlight
<1> HIDE DEF p
<1>6. RestHolds' BY <1>3, <1>5 DEF GInv, RestHolds
<1>7. Held' BY <1>1, <1>2, <1>3, <1>4, <1>5 DEF GInv, Held
<1>8. HeldOnce'
  <2>1. \A q, x \in Procs : q # x => dropped'[q] \cap dropped'[x] = {}
    BY <1>1, <1>2, <1>4 DEF GInv, HeldOnce
  <2>2. \A q \in Procs, u \in Writers : dropped'[q] \cap w'[u].claim = {}
    BY <1>1, <1>2, <1>3, <1>4 DEF GInv, HeldOnce
  <2>3. \A u, x \in Writers : u # x => w'[u].claim \cap w'[x].claim = {}
    BY <1>3 DEF GInv, HeldOnce
  <2>4. ASSUME NEW u \in Writers, InFlight(u)'
        PROVE  /\ \A q \in Procs : w'[u].rec \notin dropped'[q]
               /\ \A x \in Writers : w'[u].rec \notin w'[x].claim
               /\ \A x \in Writers : x # u /\ InFlight(x)' => w'[u].rec # w'[x].rec
    BY <2>4, <1>1, <1>2, <1>3, <1>4, <1>5 DEF GInv, HeldOnce
  <2> QED BY <2>1, <2>2, <2>3, <2>4 DEF HeldOnce
<1>9. NotForgotten'
  <2> SUFFICES ASSUME NEW r \in 1 .. begun, fate[r] = "open"
               PROVE  \/ \E q \in Procs : r \in dropped'[q]
                      \/ \E u \in Writers : r \in w'[u].claim
                      \/ \E u \in Writers : InFlight(u)' /\ r = w'[u].rec
    BY <1>2 DEF NotForgotten
  <2>1. CASE \E q \in Procs : r \in dropped[q] BY <2>1, <1>1, <1>4
  <2>2. CASE \E u \in Writers : r \in w[u].claim BY <2>2, <1>1, <1>3, <1>4
  <2>3. CASE \E u \in Writers : InFlight(u) /\ r = w[u].rec BY <2>3, <1>1, <1>3, <1>4, <1>5
  <2> QED BY <2>1, <2>2, <2>3 DEF GInv, NotForgotten
<1>10. NotBegun' BY <1>2 DEF GInv, NotBegun
<1> QED BY <1>6, <1>7, <1>8, <1>9, <1>10 DEF GInv

\* What a dead process had is gone with it, and nothing else is.
LEMMA GapCrash ==
    ASSUME IInv, GInv, NEW p \in Procs, Crash(p) PROVE GInv'
<1> DEFINE mine == {t \in Writers : ProcOf[t] = p}
           busy == {t \in mine : ~At(t, "idle")}
           lost == dropped[p] \cup UNION {w[t].claim \cup {w[t].rec} : t \in busy}
<1>1. /\ w' = [t \in Writers |-> IF t \in mine THEN Idle ELSE w[t]]
      /\ dropped' = [dropped EXCEPT ![p] = {}] /\ begun' = begun
      /\ fate' = [r \in Records |-> IF r \in lost THEN "gone" ELSE fate[r]]
  BY DEF Crash
<1>2. \A r : r \in lost <=> r \in dropped[p] \/ \E t \in busy : r \in w[t].claim \/ r = w[t].rec OBVIOUS
<1>3. \A t \in Writers : /\ t \in mine => w'[t].pc = "idle" /\ w'[t].claim = {} /\ ~InFlight(t)'
                         /\ t \notin mine => w'[t] = w[t] /\ (InFlight(t)' <=> InFlight(t))
  BY <1>1 DEF Idle, InFlight
<1>4. dropped'[p] = {} /\ \A q \in Procs : q # p => dropped'[q] = dropped[q]
  BY <1>1 DEF IInv, TypeOK
<1>5. /\ mine \subseteq Writers /\ busy \subseteq mine /\ \A t \in mine : t \in busy <=> InFlight(t)
      /\ \A t \in mine : t \notin busy => w[t].claim = {}
  BY DEF InFlight, At, GInv, RestHolds
<1>6. \A r \in Records : fate'[r] = IF r \in lost THEN "gone" ELSE fate[r] BY <1>1
<1>7. begun \in Nat /\ 1 .. begun \subseteq Records BY DEF IInv, TypeOK
<1> HIDE DEF mine, busy, lost
<1>8. /\ \A q \in Procs : q # p => dropped[q] \cap lost = {}
      /\ \A t \in Writers : t \notin mine => w[t].claim \cap lost = {}
      /\ \A t \in Writers : t \notin mine /\ InFlight(t) => w[t].rec \notin lost
  BY <1>2, <1>5 DEF GInv, HeldOnce
<1>9. lost \subseteq 1 .. begun BY <1>2, <1>5 DEF GInv, Held
<1>10. RestHolds' BY <1>3 DEF GInv, RestHolds
<1>11. Held'
  <2>1. \A q \in Procs : \A r \in dropped'[q] : r \in 1 .. begun' /\ fate'[r] = "open"
    BY <1>1, <1>4, <1>6, <1>7, <1>8 DEF GInv, Held
  <2>2. \A t \in Writers : \A r \in w'[t].claim : r \in 1 .. begun' /\ fate'[r] = "open"
    BY <1>1, <1>3, <1>6, <1>7, <1>8 DEF GInv, Held
  <2>3. \A t \in Writers : InFlight(t)' => w'[t].rec \in 1 .. begun' /\ fate'[w'[t].rec] = "open"
    BY <1>1, <1>3, <1>6, <1>7, <1>8 DEF GInv, Held
  <2> QED BY <2>1, <2>2, <2>3 DEF Held
<1>12. HeldOnce'
  <2>1. \A q \in Procs : dropped'[q] \subseteq dropped[q] BY <1>4
  <2>2. \A t \in Writers : w'[t].claim \subseteq w[t].claim BY <1>3
  <2>3. \A t \in Writers : InFlight(t)' => InFlight(t) /\ w'[t] = w[t] BY <1>3
  <2> QED BY <2>1, <2>2, <2>3 DEF GInv, HeldOnce
<1>13. NotForgotten'
  <2> SUFFICES ASSUME NEW r \in 1 .. begun, fate'[r] = "open"
               PROVE  \/ \E q \in Procs : r \in dropped'[q]
                      \/ \E t \in Writers : r \in w'[t].claim
                      \/ \E t \in Writers : InFlight(t)' /\ r = w'[t].rec
    BY <1>1 DEF NotForgotten
  <2>1. r \notin lost /\ fate[r] = "open" BY <1>6, <1>7
  <2>2. CASE \E q \in Procs : r \in dropped[q] BY <2>1, <2>2, <1>2, <1>4
  <2>3. CASE \E t \in Writers : r \in w[t].claim BY <2>1, <2>3, <1>2, <1>3, <1>5
  <2>4. CASE \E t \in Writers : InFlight(t) /\ r = w[t].rec BY <2>1, <2>4, <1>2, <1>3, <1>5
  <2> QED BY <2>1, <2>2, <2>3, <2>4 DEF GInv, NotForgotten
<1>14. NotBegun'
  <2>1. \A r \in Records : r > begun => r \notin lost BY <1>7, <1>9
  <2> QED BY <2>1, <1>1, <1>6 DEF GInv, NotBegun
<1> QED BY <1>10, <1>11, <1>12, <1>13, <1>14 DEF GInv

\* A thread that only moves on within record().
LEMMA GapMove ==
    ASSUME IInv, GInv, NEW t \in Writers,
           CheckSize(t) \/ TryLock(t) \/ Recheck(t) \/ Rename(t) \/ Unlock(t) \/ Open(t)
    PROVE  GInv'
<1>0. w[t] \in Lines /\ w[t].pc # "idle"
  BY LineType DEF IInv, CheckSize, TryLock, Recheck, Rename, Unlock, Open, At
<1>1. UNCHANGED <<dropped, begun, fate>>
  BY DEF CheckSize, TryLock, Recheck, Rename, Unlock, Open, Uncounted
<1>2. \E q \in Phases \ {"idle"} : \E i : w' = [w EXCEPT ![t].pc = q, ![t].fd = i]
  <2>1. ASSUME NEW q \in Phases \ {"idle"}, To(t, q)
        PROVE  w' = [w EXCEPT ![t].pc = q, ![t].fd = w[t].fd]
    BY <1>0, <2>1 DEF To, IInv, TypeOK, Lines
  <2>2. CASE \E q \in Phases \ {"idle"} : To(t, q) BY <2>1, <2>2
  <2>3. CASE Open(t) /\ ~To(t, "fail")
    BY <2>3 DEF Open, Phases
  <2>4. CheckSize(t) \/ TryLock(t) \/ Recheck(t) \/ Rename(t) \/ Unlock(t)
        => \E q \in Phases \ {"idle"} : To(t, q)
    BY DEF CheckSize, TryLock, Recheck, Rename, Unlock, Phases
  <2>5. To(t, "fail") => \E q \in Phases \ {"idle"} : To(t, q) BY DEF Phases
  <2> QED BY <2>2, <2>3, <2>4, <2>5
<1>3. \A u \in Writers : /\ w'[u].claim = w[u].claim /\ w'[u].rec = w[u].rec
                         /\ w'[u].pc = "idle" <=> w[u].pc = "idle"
  BY <1>0, <1>2 DEF IInv, TypeOK, Lines
<1> QED BY <1>1, <1>3, GapKept

\* GInv is inductive.
LEMMA NextGap == IInv /\ GInv /\ [Next]_vars => GInv'
<1> SUFFICES ASSUME IInv, GInv, [Next]_vars PROVE GInv' OBVIOUS
<1>1. ASSUME NEW t \in Writers, Step(t) PROVE GInv'
  BY <1>1, GapBegin, GapMove, GapWrite, GapRearm DEF Step
<1>2. ASSUME NEW p \in Procs, Crash(p) PROVE GInv' BY <1>2, GapCrash
<1>3. CASE ReadOld \/ ReadLive \/ UNCHANGED vars
  BY <1>3, GapKept DEF ReadOld, ReadLive, vars
<1> QED BY <1>1, <1>2, <1>3 DEF Next

\* Every record begun, by any thread of any process, has met one fate or is held in exactly one
\* place: the figure DROPPED shows, the one a record on its way claims, or its own thread.  Nothing
\* is forgotten and nothing counted twice, whatever fails and whoever dies.
THEOREM AuditGapAccounted == Spec => []GapAccounted
<1>1. IInv /\ GInv => GapAccounted
  <2> SUFFICES ASSUME IInv, GInv, NEW r \in 1 .. begun
               PROVE  /\ fate[r] = "open" <=> Holders(r) # {}
                      /\ \A h, k \in Holders(r) : h = k
    BY DEF GapAccounted
  <2>1. \A h : h \in Holders(r) <=>
                  \/ \E p \in Procs : r \in dropped[p] /\ h = <<"count", p>>
                  \/ \E t \in Writers : InFlight(t) /\ r \in w[t].claim /\ h = <<"claim", t>>
                  \/ \E t \in Writers : InFlight(t) /\ r = w[t].rec /\ h = <<"line", t>>
    BY DEF Holders, InFlight, At
  <2>2. \A t \in Writers : r \in w[t].claim => InFlight(t) BY DEF GInv, RestHolds
  <2>3. fate[r] = "open" => Holders(r) # {}
    BY <2>1, <2>2 DEF GInv, NotForgotten
  <2>4. Holders(r) # {} => fate[r] = "open" BY <2>1 DEF GInv, Held
  <2>5. \A h, k \in Holders(r) : h = k BY <2>1 DEF GInv, HeldOnce
  <2> QED BY <2>3, <2>4, <2>5
<1>2. Spec => [](IInv /\ GInv)
  <2>1. Init => IInv /\ GInv BY InitInv, InitGap
  <2>2. (IInv /\ GInv) /\ [Next]_vars => (IInv /\ GInv)' BY NextInv, NextGap
  <2> QED BY <2>1, <2>2, PTL DEF Spec
<1> QED BY <1>1, <1>2, PTL
=============================================================================
