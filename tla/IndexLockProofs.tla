--------------------------- MODULE IndexLockProofs ---------------------------
(* Proofs about IndexLock for every set of processes, machines and pids.    *)
EXTENDS IndexLock, TLAPS

\* The flock is held exactly while a process is inside a guarded section.
GuardOwner == \A p \in Proc : pc[p] \in Guarded <=> guard = p

\* No two live processes of a machine have the same pid.
LivePidsUnique ==
  \A p, q \in Proc :
    Alive(p) /\ Alive(q) /\ HostOf[p] = HostOf[q] /\ PidOf[p] = PidOf[q] => p = q

\* While the metadata is written, the directory holds what was written so far.
MetadataProgress ==
  \A p \in Proc :
    /\ pc[p] \in Creating => lockdir.exists
    /\ pc[p] \in {"pidwritten", "hostwritten"} => lockdir.pid = PidOf[p]
    /\ pc[p] = "hostwritten" => lockdir.host = HostOf[p]

\* The directory names its holder, so no inspection can call the holder dead.
HolderNamed ==
  ~robbed => \A p \in Proc : pc[p] = "hold" =>
    lockdir.exists /\ lockdir.pid = PidOf[p] /\ lockdir.host = HostOf[p]

\* Whoever is removing or creating the directory found it without a holder;
\* only `rqmd unlock`, before its first unlink, may not have.
Clearing(p) ==
  \/ pc[p] \in {"rmdir", "recreate"} \cup Creating
  \/ pc[p] = "unlink" /\ op[p] # "unlock"

NobodyHolds ==
  ~robbed => \A p, q \in Proc : Clearing(p) => pc[q] # "hold"

LockInv ==
  /\ TypeOK
  /\ GuardOwner
  /\ LivePidsUnique
  /\ MetadataProgress
  /\ HolderNamed
  /\ NobodyHolds

USE DEF Guarded, Creating, PCs, Ops, LockDir, NoDir, EmptyDir, Alive

\* A holder that the directory names, alive, is never found dead: neither by
\* a machine that can check its pid nor by one that cannot.
LEMMA HolderNotDead ==
  ASSUME TypeOK, HolderNamed, ~robbed, NEW p \in Proc, pc[p] = "hold",
         NEW h \in Host
  PROVE  ~Dead(h)
  BY PidOfType, HostOfType, NoneIsNobody
  DEF TypeOK, HolderNamed, Dead, Held, foreign_host, pid_is_alive

\* The initial state satisfies the inductive invariant.
LEMMA LockInit == Init => LockInv
<1> SUFFICES ASSUME Init PROVE LockInv
  OBVIOUS
<1>1. TypeOK
  <2>1. pc \in [Proc -> PCs] /\ op \in [Proc -> Ops] /\ guard \in Proc \cup {None}
    BY DEF Init
  <2>2. lockdir \in LockDir
    BY DEF Init
  <2>3. faults \in 0..MaxFaults
    BY BoundType DEF Init
  <2>4. robbed \in BOOLEAN
    BY DEF Init
  <2> QED BY <2>1, <2>2, <2>3, <2>4 DEF TypeOK
<1>2. \A p \in Proc : pc[p] = "new" /\ guard # p
  BY NoneIsNobody DEF Init
<1>3. GuardOwner /\ LivePidsUnique /\ MetadataProgress
  BY <1>2 DEF GuardOwner, LivePidsUnique, MetadataProgress
<1>4. HolderNamed /\ NobodyHolds
  BY <1>2 DEF HolderNamed, NobodyHolds
<1> QED BY <1>1, <1>3, <1>4 DEF LockInv

\* Every action keeps the variables in their types.
LEMMA TypePreserved ==
  ASSUME TypeOK, [Next]_vars
  PROVE  TypeOK'
<1> USE PidOfType, HostOfType, NoneIsNobody, BoundType DEF TypeOK
<1>1. ASSUME NEW p \in Proc, Start(p) PROVE TypeOK'
  BY <1>1 DEF Start
<1>2. ASSUME NEW p \in Proc, Crash(p) PROVE TypeOK'
  BY <1>2 DEF Crash
<1>3. ASSUME NEW p \in Proc, TryAcquire(p) PROVE TypeOK'
  BY <1>3 DEF TryAcquire
<1>4. ASSUME NEW p \in Proc, Acquiring(p) PROVE TypeOK'
  <2>1. CASE CreateDir(p) BY <2>1 DEF CreateDir
  <2>2. CASE Refuse(p) BY <2>2 DEF Refuse
  <2>3. CASE Reclaim(p) BY <2>3 DEF Reclaim
  <2>4. CASE RecreateFails(p) BY <2>4 DEF RecreateFails
  <2>5. CASE WritePid(p) BY <2>5 DEF WritePid
  <2>6. CASE WriteHost(p) BY <2>6 DEF WriteHost
  <2>7. CASE WriteHeartbeat(p) BY <2>7 DEF WriteHeartbeat
  <2>8. CASE MetadataFails(p) BY <2>8 DEF MetadataFails
  <2> QED BY <1>4, <2>1, <2>2, <2>3, <2>4, <2>5, <2>6, <2>7, <2>8 DEF Acquiring
<1>5. ASSUME NEW p \in Proc, Heartbeat(p) PROVE TypeOK'
  BY <1>5 DEF Heartbeat
<1>6. ASSUME NEW p \in Proc, DropLock(p) PROVE TypeOK'
  BY <1>6 DEF DropLock
<1>7. ASSUME NEW p \in Proc, Removing(p) PROVE TypeOK'
  <2>1. CASE UnlinkFiles(p) BY <2>1 DEF UnlinkFiles
  <2>2. CASE RemoveDir(p) BY <2>2 DEF RemoveDir
  <2> QED BY <1>7, <2>1, <2>2 DEF Removing
<1>8. ASSUME NEW p \in Proc, UnlockDecide(p) PROVE TypeOK'
  BY <1>8 DEF UnlockDecide
<1>9. ASSUME NEW p \in Proc, RemoveLock(p) PROVE TypeOK'
  BY <1>9 DEF RemoveLock
<1>10. CASE GraceExpires BY <1>10 DEF GraceExpires
<1>11. CASE HeartbeatExpires BY <1>11 DEF HeartbeatExpires
<1>12. CASE UNCHANGED vars BY <1>12 DEF vars
<1> QED BY <1>1, <1>2, <1>3, <1>4, <1>5, <1>6, <1>7, <1>8, <1>9, <1>10, <1>11,
           <1>12 DEF Next

\* Every action keeps the rest of the inductive invariant.
LEMMA LockStep ==
  ASSUME LockInv, [Next]_vars
  PROVE  LockInv'
<1> USE PidOfType, HostOfType, NoneIsNobody, BoundType DEF LockInv
<1> TypeOK'
  BY TypePreserved
<1> DEFINE Rest == GuardOwner /\ LivePidsUnique /\ MetadataProgress
                   /\ HolderNamed /\ NobodyHolds
<1> USE DEF TypeOK, GuardOwner, LivePidsUnique, MetadataProgress, HolderNamed,
            NobodyHolds, Clearing
<1>1. ASSUME NEW p \in Proc, Start(p) PROVE Rest'
  <2> USE <1>1 DEF Start, pid_is_alive
  <2>1. GuardOwner' /\ LivePidsUnique' /\ MetadataProgress' OBVIOUS
  <2>2. HolderNamed' OBVIOUS
  <2>3. NobodyHolds' OBVIOUS
  <2> QED BY <2>1, <2>2, <2>3
<1>2. ASSUME NEW p \in Proc, Crash(p) PROVE Rest'
  <2> USE <1>2 DEF Crash
  <2>1. GuardOwner' /\ LivePidsUnique' /\ MetadataProgress' OBVIOUS
  <2>2. HolderNamed' OBVIOUS
  <2>3. NobodyHolds' OBVIOUS
  <2> QED BY <2>1, <2>2, <2>3
<1>3. ASSUME NEW p \in Proc, TryAcquire(p) PROVE Rest'
  <2> USE <1>3 DEF TryAcquire
  <2>1. GuardOwner' /\ LivePidsUnique' /\ MetadataProgress' OBVIOUS
  <2>2. HolderNamed' OBVIOUS
  <2>3. NobodyHolds' OBVIOUS
  <2> QED BY <2>1, <2>2, <2>3
<1>4. ASSUME NEW p \in Proc, CreateDir(p) PROVE Rest'
  <2> USE <1>4 DEF CreateDir
  <2>1. GuardOwner' /\ LivePidsUnique' /\ MetadataProgress' OBVIOUS
  <2>2. HolderNamed' OBVIOUS
  <2>3. NobodyHolds' OBVIOUS
  <2> QED BY <2>1, <2>2, <2>3
<1>5. ASSUME NEW p \in Proc, Refuse(p) PROVE Rest'
  <2> USE <1>5 DEF Refuse
  <2>1. GuardOwner' /\ LivePidsUnique' /\ MetadataProgress' OBVIOUS
  <2>2. HolderNamed' OBVIOUS
  <2>3. NobodyHolds' OBVIOUS
  <2> QED BY <2>1, <2>2, <2>3
<1>6. ASSUME NEW p \in Proc, Reclaim(p) PROVE Rest'
  <2> USE <1>6 DEF Reclaim
  <2>1. GuardOwner' /\ LivePidsUnique' /\ MetadataProgress' OBVIOUS
  <2>2. HolderNamed' OBVIOUS
  <2>3. NobodyHolds' BY HolderNotDead
  <2> QED BY <2>1, <2>2, <2>3
<1>7. ASSUME NEW p \in Proc, RecreateFails(p) PROVE Rest'
  <2> USE <1>7 DEF RecreateFails
  <2>1. GuardOwner' /\ LivePidsUnique' /\ MetadataProgress' OBVIOUS
  <2>2. HolderNamed' OBVIOUS
  <2>3. NobodyHolds' OBVIOUS
  <2> QED BY <2>1, <2>2, <2>3
<1>8. ASSUME NEW p \in Proc, WritePid(p) PROVE Rest'
  <2> USE <1>8 DEF WritePid
  <2>1. GuardOwner' /\ LivePidsUnique' /\ MetadataProgress' OBVIOUS
  <2>2. HolderNamed' OBVIOUS
  <2>3. NobodyHolds' OBVIOUS
  <2> QED BY <2>1, <2>2, <2>3
<1>9. ASSUME NEW p \in Proc, WriteHost(p) PROVE Rest'
  <2> USE <1>9 DEF WriteHost
  <2>1. GuardOwner' /\ LivePidsUnique' /\ MetadataProgress' OBVIOUS
  <2>2. HolderNamed' OBVIOUS
  <2>3. NobodyHolds' OBVIOUS
  <2> QED BY <2>1, <2>2, <2>3
<1>10. ASSUME NEW p \in Proc, WriteHeartbeat(p) PROVE Rest'
  <2> USE <1>10 DEF WriteHeartbeat
  <2>1. GuardOwner' /\ LivePidsUnique' /\ MetadataProgress' OBVIOUS
  <2>2. HolderNamed' OBVIOUS
  <2>3. NobodyHolds' OBVIOUS
  <2> QED BY <2>1, <2>2, <2>3
<1>11. ASSUME NEW p \in Proc, MetadataFails(p) PROVE Rest'
  <2> USE <1>11 DEF MetadataFails
  <2>1. GuardOwner' /\ LivePidsUnique' /\ MetadataProgress' OBVIOUS
  <2>2. HolderNamed' OBVIOUS
  <2>3. NobodyHolds' OBVIOUS
  <2> QED BY <2>1, <2>2, <2>3
<1>12. ASSUME NEW p \in Proc, Heartbeat(p) PROVE Rest'
  <2> USE <1>12 DEF Heartbeat
  <2>1. GuardOwner' /\ LivePidsUnique' /\ MetadataProgress' OBVIOUS
  <2>2. HolderNamed' OBVIOUS
  <2>3. NobodyHolds' OBVIOUS
  <2> QED BY <2>1, <2>2, <2>3
<1>13. ASSUME NEW p \in Proc, DropLock(p) PROVE Rest'
  <2> USE <1>13 DEF DropLock
  <2>1. GuardOwner' /\ LivePidsUnique' /\ MetadataProgress' OBVIOUS
  <2>2. HolderNamed' OBVIOUS
  <2>3. NobodyHolds' OBVIOUS
  <2> QED BY <2>1, <2>2, <2>3
<1>14. ASSUME NEW p \in Proc, UnlinkFiles(p) PROVE Rest'
  <2> USE <1>14 DEF UnlinkFiles
  <2>1. GuardOwner' /\ LivePidsUnique' /\ MetadataProgress' OBVIOUS
  <2>2. HolderNamed' OBVIOUS
  <2>3. NobodyHolds' OBVIOUS
  <2> QED BY <2>1, <2>2, <2>3
<1>15. ASSUME NEW p \in Proc, RemoveDir(p) PROVE Rest'
  <2> USE <1>15 DEF RemoveDir
  <2>1. GuardOwner' /\ LivePidsUnique' /\ MetadataProgress' OBVIOUS
  <2>2. HolderNamed' OBVIOUS
  <2>3. NobodyHolds' OBVIOUS
  <2> QED BY <2>1, <2>2, <2>3
<1>16. ASSUME NEW p \in Proc, UnlockDecide(p) PROVE Rest'
  <2> USE <1>16 DEF UnlockDecide
  <2>1. GuardOwner' /\ LivePidsUnique' /\ MetadataProgress' OBVIOUS
  <2>2. HolderNamed' OBVIOUS
  <2>3. NobodyHolds' OBVIOUS
  <2> QED BY <2>1, <2>2, <2>3
<1>17. ASSUME NEW p \in Proc, RemoveLock(p) PROVE Rest'
  <2> USE <1>17 DEF RemoveLock
  <2>1. GuardOwner' /\ LivePidsUnique' /\ MetadataProgress' OBVIOUS
  <2>2. HolderNamed' OBVIOUS
  <2>3. NobodyHolds' OBVIOUS
  <2> QED BY <2>1, <2>2, <2>3
<1>18. CASE GraceExpires BY <1>18 DEF GraceExpires
<1>19. CASE HeartbeatExpires BY <1>19 DEF HeartbeatExpires
<1>20. CASE UNCHANGED vars BY <1>20 DEF vars
<1> QED
  BY <1>1, <1>2, <1>3, <1>4, <1>5, <1>6, <1>7, <1>8, <1>9, <1>10, <1>11, <1>12,
     <1>13, <1>14, <1>15, <1>16, <1>17, <1>18, <1>19, <1>20
  DEF Next, Acquiring, Removing

\* The variables keep their types in every reachable state.
THEOREM TypeCorrect == Spec => []TypeOK
<1>1. Init => TypeOK
  BY LockInit DEF LockInv
<1>2. TypeOK /\ [Next]_vars => TypeOK'
  BY TypePreserved
<1> QED BY <1>1, <1>2, PTL DEF Spec

\* For any number of processes and machines, any reuse of pids, any crash and
\* any failed metadata write: until `rqmd unlock` removes a live holder's
\* lock, at most one process is inside an index-mutating command.
THEOREM MutualExclusion == Spec => []SingleWriter
<1>1. Init => LockInv
  BY LockInit
<1>2. LockInv /\ [Next]_vars => LockInv'
  BY LockStep
<1>3. LockInv => SingleWriter
  BY DEF LockInv, TypeOK, LivePidsUnique, HolderNamed, SingleWriter
<1> QED BY <1>1, <1>2, <1>3, PTL DEF Spec

\* A step of a process that neither holds the lock before or after it nor ends
\* is none of the abstract lock's steps.
LEMMA QuietStep ==
  ASSUME TypeOK, NEW p \in Proc, NEW x, pc' = [pc EXCEPT ![p] = x],
         pc[p] \notin {"hold", "down"}, x \notin {"hold", "down"}, robbed' = robbed
  PROVE  UNCHANGED Writers!vars
<1>1. \A q \in Proc : /\ pc'[q] = "hold" <=> pc[q] = "hold"
                      /\ pc'[q] = "down" <=> pc[q] = "down"
  BY DEF TypeOK
<1> QED BY <1>1 DEF Writers!vars

\* So is one that leaves every process where it is.
LEMMA StillStep ==
  ASSUME UNCHANGED <<pc, robbed>>
  PROVE  UNCHANGED Writers!vars
  BY DEF Writers!vars

\* Every step of the protocol is a step of the abstract lock or none.
LEMMA WriterStep ==
  ASSUME LockInv, [Next]_vars
  PROVE  [Writers!Next]_(Writers!vars)
<1> USE DEF LockInv
<1>1. ASSUME NEW p \in Proc, Crash(p) PROVE Writers!End(p)
  <2>1. pc[p] # "down" /\ robbed' = robbed
    BY <1>1 DEF Crash
  <2>2. \A q \in Proc : pc'[q] = IF q = p THEN "down" ELSE pc[q]
    BY <1>1 DEF Crash, TypeOK
  <2> QED BY <2>1, <2>2 DEF Writers!End
<1>2. ASSUME NEW p \in Proc, WriteHeartbeat(p) PROVE Writers!Acquire(p)
  <2>1. pc[p] = "hostwritten" /\ robbed' = robbed
    BY <1>2 DEF WriteHeartbeat
  <2>2. \A q \in Proc : pc'[q] = IF q = p THEN "hold" ELSE pc[q]
    BY <1>2 DEF WriteHeartbeat, TypeOK
  <2>3. {q \in Proc : pc[q] = "hold"} = {} \/ robbed
    BY <2>1 DEF NobodyHolds, Clearing
  <2> QED BY <2>1, <2>2, <2>3 DEF Writers!Acquire
<1>3. ASSUME NEW p \in Proc, DropLock(p) PROVE Writers!Release(p)
  <2>1. pc[p] = "hold" /\ robbed' = robbed
    BY <1>3 DEF DropLock
  <2>2. \A q \in Proc : pc'[q] = IF q = p THEN "unlink" ELSE pc[q]
    BY <1>3 DEF DropLock, TypeOK
  <2> QED BY <2>1, <2>2 DEF Writers!Release
<1>4. ASSUME NEW p \in Proc, UnlinkFiles(p) PROVE Writers!Break \/ UNCHANGED Writers!vars
  <2>1. pc[p] = "unlink" /\ pc' = [pc EXCEPT ![p] = "rmdir"]
    BY <1>4 DEF UnlinkFiles
  <2>2. CASE robbed' = robbed
    BY <2>1, <2>2, QuietStep
  <2>3. CASE robbed' # robbed
    <3>1. robbed' = TRUE /\ robbed = FALSE /\ \E q \in Proc : pc[q] = "hold"
      BY <1>4, <2>3 DEF UnlinkFiles, TypeOK
    <3>2. \A q \in Proc : /\ pc'[q] = "hold" <=> pc[q] = "hold"
                          /\ pc'[q] = "down" <=> pc[q] = "down"
      BY <2>1 DEF TypeOK
    <3> QED BY <3>1, <3>2 DEF Writers!Break
  <2> QED BY <2>2, <2>3
<1>5. ASSUME NEW p \in Proc,
             \/ Start(p) \/ TryAcquire(p) \/ CreateDir(p) \/ Refuse(p)
             \/ Reclaim(p) \/ RecreateFails(p) \/ WritePid(p) \/ WriteHost(p)
             \/ MetadataFails(p) \/ RemoveDir(p) \/ UnlockDecide(p) \/ RemoveLock(p)
      PROVE  UNCHANGED Writers!vars
  <2>1. pc[p] \notin {"hold", "down"} /\ robbed' = robbed
    BY <1>5 DEF Start, TryAcquire, CreateDir, Refuse, Reclaim, RecreateFails,
                WritePid, WriteHost, MetadataFails, RemoveDir, UnlockDecide,
                RemoveLock
  <2>2. \E x : x \notin {"hold", "down"} /\ pc' = [pc EXCEPT ![p] = x]
    BY <1>5 DEF Start, TryAcquire, CreateDir, Refuse, Reclaim, RecreateFails,
                WritePid, WriteHost, MetadataFails, RemoveDir, UnlockDecide,
                RemoveLock
  <2> QED BY <2>1, <2>2, QuietStep
<1>6. ASSUME NEW p \in Proc, Heartbeat(p) PROVE UNCHANGED Writers!vars
  BY <1>6, StillStep DEF Heartbeat
<1>7. CASE GraceExpires
  BY <1>7, StillStep DEF GraceExpires
<1>8. CASE HeartbeatExpires
  BY <1>8, StillStep DEF HeartbeatExpires
<1>9. CASE UNCHANGED vars
  BY <1>9, StillStep DEF vars
<1> QED
  BY <1>1, <1>2, <1>3, <1>4, <1>5, <1>6, <1>7, <1>8, <1>9
  DEF Next, Acquiring, Removing, Writers!Next

\* For any processes, machines and pids and any crash, failed write or
\* `rqmd unlock`, what the files, the guard and the pid checks of lock.rs do is
\* what the abstract lock allows: one writer at a time, none after its end, and
\* none displaced before an unlock has broken the lock.
THEOREM LockImplementsWriterLock == Spec => ImplementsWriterLock
<1>1. Init => LockInv
  BY LockInit
<1>2. LockInv /\ [Next]_vars => LockInv'
  BY LockStep
<1>3. Init => Writers!Init
  BY DEF Init, Writers!Init
<1>4. LockInv /\ [Next]_vars => [Writers!Next]_(Writers!vars)
  BY WriterStep
<1> QED BY <1>1, <1>2, <1>3, <1>4, PTL DEF Spec, ImplementsWriterLock, Writers!Spec

\* The pid in the directory is that of the process whose lock it is, or was
\* when it died.
PidHasOwner ==
  (faults = 0 /\ ~robbed /\ lockdir.exists /\ lockdir.pid # None) =>
    \E p \in Proc : /\ PidOf[p] = lockdir.pid
                    /\ pc[p] \in {"down", "hold", "unlink"} \cup Creating

\* Every action keeps an owner for the pid: the only step that leaves a live
\* process without its lock and the pid in place is a failed metadata write.
LEMMA OwnerStep ==
  ASSUME TypeOK, PidHasOwner, [Next]_vars
  PROVE  PidHasOwner'
<1> USE PidOfType, NoneIsNobody, BoundType DEF TypeOK, PidHasOwner
<1>1. ASSUME NEW p \in Proc, UnlinkFiles(p) PROVE PidHasOwner'
  <2>1. ~lockdir'.exists \/ lockdir'.pid = None
    BY <1>1 DEF UnlinkFiles
  <2> QED BY <2>1
<1>2. ASSUME NEW p \in Proc, CreateDir(p) PROVE PidHasOwner'
  BY <1>2 DEF CreateDir
<1>3. ASSUME NEW p \in Proc, MetadataFails(p) PROVE PidHasOwner'
  BY <1>3 DEF MetadataFails
<1>4. ASSUME NEW p \in Proc, WritePid(p) PROVE PidHasOwner'
  BY <1>4 DEF WritePid
<1>5. ASSUME NEW p \in Proc, RemoveDir(p) PROVE PidHasOwner'
  BY <1>5 DEF RemoveDir
<1>6. ASSUME NEW p \in Proc, WriteHost(p) \/ WriteHeartbeat(p) PROVE PidHasOwner'
  BY <1>6, ZenonT(30) DEF WriteHost, WriteHeartbeat
<1>7. ASSUME NEW p \in Proc, Heartbeat(p) PROVE PidHasOwner'
  BY <1>7 DEF Heartbeat
<1>8. ASSUME NEW p \in Proc,
             \/ Start(p) \/ Crash(p) \/ TryAcquire(p) \/ Refuse(p) \/ Reclaim(p)
             \/ RecreateFails(p) \/ DropLock(p) \/ UnlockDecide(p) \/ RemoveLock(p)
      PROVE  PidHasOwner'
  <2>1. UNCHANGED <<lockdir, faults, robbed>>
    BY <1>8 DEF Start, Crash, TryAcquire, Refuse, Reclaim, RecreateFails,
                DropLock, UnlockDecide, RemoveLock
  <2>2. \A q \in Proc : pc[q] \in {"down", "hold", "unlink"} \cup Creating =>
                        pc'[q] \in {"down", "hold", "unlink"} \cup Creating
    BY <1>8 DEF Start, Crash, TryAcquire, Refuse, Reclaim, RecreateFails,
                DropLock, UnlockDecide, RemoveLock
  <2> QED BY <2>1, <2>2
<1>9. CASE GraceExpires BY <1>9 DEF GraceExpires
<1>10. CASE HeartbeatExpires BY <1>10 DEF HeartbeatExpires
<1>11. CASE UNCHANGED vars BY <1>11 DEF vars
<1> QED
  BY <1>1, <1>2, <1>3, <1>4, <1>5, <1>6, <1>7, <1>8, <1>9, <1>10, <1>11
  DEF Next, Acquiring, Removing

\* Where no pid is used twice, whatever crashes: a lock that names a live
\* process is held, created or released by that very process, so a dead owner's
\* lock is always seen as stale ("a crash cannot leave a *live* lock behind").
THEOREM CrashesLeaveOnlyStale ==
  ASSUME \A p, q \in Proc : PidOf[p] = PidOf[q] => p = q
  PROVE  Spec => []CrashLeavesOnlyStale
<1>1. Init => TypeOK /\ PidHasOwner
  BY LockInit DEF LockInv, Init, PidHasOwner
<1>2. TypeOK /\ PidHasOwner /\ [Next]_vars => TypeOK' /\ PidHasOwner'
  BY TypePreserved, OwnerStep
<1>3. TypeOK /\ PidHasOwner => CrashLeavesOnlyStale
  BY DEF TypeOK, PidHasOwner, CrashLeavesOnlyStale, pid_is_alive
<1> QED BY <1>1, <1>2, <1>3, PTL DEF Spec

=============================================================================
