------------------------------ MODULE IndexLock ------------------------------
(***************************************************************************)
(* The exclusive writer lock of an index (crates/rqmd-core/src/lock.rs) and *)
(* the `rqmd unlock` command (crates/rqmd-cli/src/commands/unlock.rs).      *)
(*                                                                         *)
(* The lock is a directory holding the owner's pid, host and heartbeat.  A  *)
(* kernel flock on a separate guard file is held only while the directory   *)
(* is created, reclaimed or removed; the kernel drops it when its owner     *)
(* dies.  The directory itself survives a crash, and the next acquirer      *)
(* decides from the pid and the host whether its owner is gone.             *)
(*                                                                         *)
(* Every file operation on the directory is a step of its own, because a    *)
(* crash, or an inspection by `rqmd unlock`, which takes no guard, can come *)
(* between any two of them.                                                 *)
(***************************************************************************)
EXTENDS Naturals

CONSTANTS
  Proc,          \* incarnations of a process: each starts and ends once
  Pid,           \* pid numbers; two incarnations may have the same one
  Host,          \* machines that share the index
  PidOf,         \* the pid of an incarnation
  HostOf,        \* the machine an incarnation runs on
  Watcher,       \* incarnations that retry a refused acquire (`rqmd watch`)
  UnlockModes,   \* subset of {"plain", "force"}: how `rqmd unlock` is run
  None,          \* an absent pid, host or owner
  MaxFaults      \* bound on failed metadata writes

ASSUME PidOfType    == PidOf \in [Proc -> Pid]
ASSUME HostOfType   == HostOf \in [Proc -> Host]
ASSUME WatcherType  == Watcher \subseteq Proc
ASSUME ModesType    == UnlockModes \subseteq {"plain", "force"}
ASSUME NoneIsNobody == None \notin Proc /\ None \notin Pid /\ None \notin Host
ASSUME BoundType    == MaxFaults \in Nat

VARIABLES
  pc,        \* where each process is
  op,        \* what an "unlink" or "rmdir" in progress is part of
  guard,     \* the process holding the flock on the guard file
  lockdir,   \* the lock directory and the files in it
  faults,    \* metadata writes that have failed so far
  robbed     \* history: `rqmd unlock` has removed the lock of a live holder

vars == <<pc, op, guard, lockdir, faults, robbed>>

Creating == {"created", "pidwritten", "hostwritten"}
Guarded  == {"acquiring", "unlink", "rmdir", "recreate"} \cup Creating
PCs      == {"new", "idle", "hold", "remove", "down"} \cup Guarded
Ops      == {"none", "acquire", "drop", "unlock"}

LockDir == [exists : BOOLEAN,
            pid    : Pid \cup {None},
            host   : Host \cup {None},
            beat   : {"none", "fresh", "stale"},  \* vs RQMD_LOCK_STALE_SECS
            young  : BOOLEAN]                     \* mtime within the grace

NoDir    == [exists |-> FALSE, pid |-> None, host |-> None,
             beat |-> "none", young |-> FALSE]
EmptyDir == [NoDir EXCEPT !.exists = TRUE, !.young = TRUE]

TypeOK ==
  /\ pc \in [Proc -> PCs]
  /\ op \in [Proc -> Ops]
  /\ guard \in Proc \cup {None}
  /\ lockdir \in LockDir
  /\ faults \in 0..MaxFaults
  /\ robbed \in BOOLEAN

Init ==
  /\ pc = [p \in Proc |-> "new"]
  /\ op = [p \in Proc |-> "none"]
  /\ guard = None
  /\ lockdir = NoDir
  /\ faults = 0
  /\ robbed = FALSE

-----------------------------------------------------------------------------
(* Inspecting the directory.                                               *)

Alive(p) == pc[p] \notin {"new", "down"}

\* Variant: the liveness check always answers no.
pid_never_alive(h, n) == FALSE

\* kill(pid, 0) on machine h: some process of that machine has the number,
\* whoever it is.
pid_is_alive(h, n) == \E q \in Proc : Alive(q) /\ HostOf[q] = h /\ PidOf[q] = n

\* Variant: every lock is taken for one of this machine.
any_host(h) == FALSE

foreign_host(h) == lockdir.host # None /\ lockdir.host # h

\* LockState::Held as machine h sees it: too young to judge, on another
\* machine, or a pid that answers.
Held(h) ==
  /\ lockdir.exists
  /\ lockdir.pid = None => lockdir.young
  /\ lockdir.pid # None => foreign_host(h) \/ pid_is_alive(h, lockdir.pid)

\* LockState::Dead.
Dead(h) == lockdir.exists /\ ~Held(h)

-----------------------------------------------------------------------------
(* Processes come and go.  Two live processes of a machine never share a    *)
(* pid, but a pid may come back after its owner has died.                   *)

Start(p) ==
  /\ pc[p] = "new"
  /\ ~pid_is_alive(HostOf[p], PidOf[p])
  /\ pc' = [pc EXCEPT ![p] = "idle"]
  /\ UNCHANGED <<op, guard, lockdir, faults, robbed>>

\* SIGKILL, a power loss, or a normal exit: no destructor touches the
\* directory, and the kernel releases the flock.
Crash(p) ==
  /\ Alive(p)
  /\ pc' = [pc EXCEPT ![p] = "down"]
  /\ op' = [op EXCEPT ![p] = "none"]
  /\ guard' = IF guard = p THEN None ELSE guard
  /\ UNCHANGED <<lockdir, faults, robbed>>

-----------------------------------------------------------------------------
(* IndexLock::try_acquire.                                                 *)

\* Guard::lock blocks until the flock is free.
TryAcquire(p) ==
  /\ pc[p] = "idle"
  /\ guard = None
  /\ guard' = p
  /\ pc' = [pc EXCEPT ![p] = "acquiring"]
  /\ UNCHANGED <<op, lockdir, faults, robbed>>

CreateDir(p) ==
  /\ pc[p] \in {"acquiring", "recreate"}
  /\ ~lockdir.exists
  /\ lockdir' = EmptyDir
  /\ pc' = [pc EXCEPT ![p] = "created"]
  /\ UNCHANGED <<op, guard, faults, robbed>>

\* The lock is held: the caller gets the holder back and the guard is freed.
Refuse(p) ==
  /\ pc[p] = "acquiring"
  /\ Held(HostOf[p])
  /\ pc' = [pc EXCEPT ![p] = "idle"]
  /\ guard' = None
  /\ UNCHANGED <<op, lockdir, faults, robbed>>

\* Variant: a dead lock is refused like a held one.
RefuseDead(p) ==
  /\ pc[p] = "acquiring"
  /\ Dead(HostOf[p])
  /\ pc' = [pc EXCEPT ![p] = "idle"]
  /\ guard' = None
  /\ UNCHANGED <<op, lockdir, faults, robbed>>

Reclaim(p) ==
  /\ pc[p] = "acquiring"
  /\ Dead(HostOf[p])
  /\ pc' = [pc EXCEPT ![p] = "unlink"]
  /\ op' = [op EXCEPT ![p] = "acquire"]
  /\ UNCHANGED <<guard, lockdir, faults, robbed>>

\* The create_dir after a failed removal: the acquire returns an error.
RecreateFails(p) ==
  /\ pc[p] = "recreate"
  /\ lockdir.exists
  /\ pc' = [pc EXCEPT ![p] = "idle"]
  /\ guard' = None
  /\ UNCHANGED <<op, lockdir, faults, robbed>>

\* write_metadata: the pid by rename, then the host, then the heartbeat.
\* Each new file refreshes the directory's mtime.
WritePid(p) ==
  /\ pc[p] = "created"
  /\ lockdir' = [lockdir EXCEPT !.pid = PidOf[p], !.young = TRUE]
  /\ pc' = [pc EXCEPT ![p] = "pidwritten"]
  /\ UNCHANGED <<op, guard, faults, robbed>>

\* Variant: every machine calls itself localhost.
WriteLocalhost(p) ==
  /\ pc[p] = "pidwritten"
  /\ lockdir' = [lockdir EXCEPT !.host = "localhost", !.young = TRUE]
  /\ pc' = [pc EXCEPT ![p] = "hostwritten"]
  /\ UNCHANGED <<op, guard, faults, robbed>>

WriteHost(p) ==
  /\ pc[p] = "pidwritten"
  /\ lockdir' = [lockdir EXCEPT !.host = HostOf[p], !.young = TRUE]
  /\ pc' = [pc EXCEPT ![p] = "hostwritten"]
  /\ UNCHANGED <<op, guard, faults, robbed>>

\* The last metadata write; the guard goes out of scope and p holds the lock.
WriteHeartbeat(p) ==
  /\ pc[p] = "hostwritten"
  /\ lockdir' = [lockdir EXCEPT !.beat = "fresh", !.young = TRUE]
  /\ pc' = [pc EXCEPT ![p] = "hold"]
  /\ guard' = None
  /\ UNCHANGED <<op, faults, robbed>>

\* An I/O error in write_metadata leaves the directory as it is and the
\* caller, which may be a long-lived server, without the lock.
MetadataFails(p) ==
  /\ pc[p] \in Creating
  /\ faults < MaxFaults
  /\ faults' = faults + 1
  /\ pc' = [pc EXCEPT ![p] = "idle"]
  /\ guard' = None
  /\ UNCHANGED <<op, lockdir, robbed>>

-----------------------------------------------------------------------------
(* While the lock is held, and its release.                                *)

\* beat() writes the file wherever the directory now belongs; a directory
\* that is gone makes the write fail, which is ignored.
Heartbeat(p) ==
  /\ pc[p] = "hold"
  /\ lockdir.exists
  /\ lockdir' = [lockdir EXCEPT !.beat = "fresh",
                                !.young = @ \/ lockdir.beat = "none"]
  /\ UNCHANGED <<pc, op, guard, faults, robbed>>

\* Variant: the directory is forgotten.
ForgetLock(p) ==
  /\ pc[p] = "hold"
  /\ pc' = [pc EXCEPT ![p] = "idle"]
  /\ UNCHANGED <<op, guard, lockdir, faults, robbed>>

\* Drop waits for the guard and removes the directory, whoever owns it now.
DropLock(p) ==
  /\ pc[p] = "hold"
  /\ guard = None
  /\ guard' = p
  /\ pc' = [pc EXCEPT ![p] = "unlink"]
  /\ op' = [op EXCEPT ![p] = "drop"]
  /\ UNCHANGED <<lockdir, faults, robbed>>

\* remove_dir_all unlinks the files, then removes the directory, which fails
\* when a heartbeat was written in between.
UnlinkFiles(p) ==
  /\ pc[p] = "unlink"
  /\ lockdir' = IF lockdir.exists THEN EmptyDir ELSE lockdir
  /\ pc' = [pc EXCEPT ![p] = "rmdir"]
  /\ robbed' = (robbed \/ (op[p] = "unlock" /\ \E q \in Proc : pc[q] = "hold"))
  /\ UNCHANGED <<op, guard, faults>>

RemoveDir(p) ==
  /\ pc[p] = "rmdir"
  /\ lockdir' = IF lockdir.beat = "none" THEN NoDir ELSE lockdir
  /\ IF op[p] = "acquire"
     THEN pc' = [pc EXCEPT ![p] = "recreate"] /\ UNCHANGED guard
     ELSE pc' = [pc EXCEPT ![p] = "idle"] /\ guard' = None
  /\ op' = [op EXCEPT ![p] = "none"]
  /\ UNCHANGED <<faults, robbed>>

-----------------------------------------------------------------------------
(* `rqmd unlock`.  run_unlock decides from an inspection made without the   *)
(* guard; with --force it may then wait for the user to confirm.            *)

\* heartbeat_age beyond the limit; without a heartbeat file the directory's
\* own age counts, and the limit is longer than the grace.
HeartbeatStale == lockdir.beat = "stale" \/ (lockdir.beat = "none" /\ ~lockdir.young)

decide(h, mode) ==
  \/ Dead(h)
  \/ mode = "force" /\ Held(h) /\ HeartbeatStale

UnlockDecide(p) ==
  /\ pc[p] = "idle"
  /\ \E mode \in UnlockModes : decide(HostOf[p], mode)
  /\ pc' = [pc EXCEPT ![p] = "remove"]
  /\ UNCHANGED <<op, guard, lockdir, faults, robbed>>

RemoveLock(p) ==
  /\ pc[p] = "remove"
  /\ guard = None
  /\ guard' = p
  /\ pc' = [pc EXCEPT ![p] = "unlink"]
  /\ op' = [op EXCEPT ![p] = "unlock"]
  /\ UNCHANGED <<lockdir, faults, robbed>>

-----------------------------------------------------------------------------
(* Time.                                                                   *)

GraceExpires ==
  /\ lockdir.young
  /\ lockdir' = [lockdir EXCEPT !.young = FALSE]
  /\ UNCHANGED <<pc, op, guard, faults, robbed>>

HeartbeatExpires ==
  /\ lockdir.beat = "fresh"
  /\ lockdir' = [lockdir EXCEPT !.beat = "stale"]
  /\ UNCHANGED <<pc, op, guard, faults, robbed>>

-----------------------------------------------------------------------------
Acquiring(p) ==
  \/ CreateDir(p) \/ Refuse(p) \/ Reclaim(p) \/ RecreateFails(p)
  \/ WritePid(p) \/ WriteHost(p) \/ WriteHeartbeat(p) \/ MetadataFails(p)

Removing(p) == UnlinkFiles(p) \/ RemoveDir(p)

Next ==
  \/ \E p \in Proc :
       \/ Start(p) \/ Crash(p)
       \/ TryAcquire(p) \/ Acquiring(p)
       \/ Heartbeat(p) \/ DropLock(p) \/ Removing(p)
       \/ UnlockDecide(p) \/ RemoveLock(p)
  \/ GraceExpires
  \/ HeartbeatExpires

Spec == Init /\ [][Next]_vars

\* A process that holds the guard runs on until it is done or dies; a watcher
\* whose files keep changing tries again at every tick, and its pass over the
\* collections ends; time passes.  The
\* flock is not fair, but a waiter whose turn comes again and again gets it.
\* Nothing obliges a process to start, to unlock or to crash, nor one that is
\* not a watcher to release the lock.
Fairness ==
  /\ \A p \in Proc : WF_vars(Acquiring(p)) /\ WF_vars(Removing(p))
  /\ \A w \in Watcher : /\ SF_vars(TryAcquire(w))
                          /\ SF_vars(DropLock(w))
                          /\ SF_vars(RemoveLock(w))
  /\ WF_vars(GraceExpires)

FairSpec == Spec /\ Fairness

-----------------------------------------------------------------------------
(* Properties.                                                             *)

\* The point of the lock: until `rqmd unlock` has removed the directory under
\* a live holder, no two processes are inside an index-mutating command,
\* whatever crashes, reclaims and failed writes came before.
SingleWriter ==
  ~robbed => \A p, q \in Proc : pc[p] = "hold" /\ pc[q] = "hold" => p = q

\* A lock that names a live process of this machine belongs to a process
\* that holds it or is about to, unless a metadata write failed or a pid came
\* back (the instance has distinct pids): lock.rs says
\* "a crash cannot leave a *live* lock behind - only a stale one, which the
\* next acquire reclaims automatically".
CrashLeavesOnlyStale ==
  \A h \in Host :
    (faults = 0 /\ ~robbed /\ lockdir.exists /\ lockdir.pid # None
       /\ ~foreign_host(h) /\ pid_is_alive(h, lockdir.pid))
    => \E p \in Proc : /\ PidOf[p] = lockdir.pid
                       /\ pc[p] \in {"hold", "unlink"} \cup Creating

\* A lock whose owner is provably dead does not stay: as long as a watcher of
\* that machine lives on and retries, the lock is reclaimed.
AbandonedLockReclaimed ==
  \A w \in Watcher :
    <>[]Alive(w) => []<>(~Dead(HostOf[w]))

\* The lock on disk is the lock the commands rely on: step by step, the
\* protocol of files, pids and guards behaves as one exclusive right to write.
Writers == INSTANCE WriterLock WITH
  holders <- {p \in Proc : pc[p] = "hold"},
  ended   <- {p \in Proc : pc[p] = "down"},
  broken  <- robbed

ImplementsWriterLock == Writers!Spec
=============================================================================
