--------------------------- MODULE CommandProofs ---------------------------
(***************************************************************************)
(* Theorems about the commands that outlast themselves: first those of the  *)
(* daemon (Daemon), for any pids, addresses and commands, then those that   *)
(* change the catalog (Catalog), for any names, files and processes.        *)
(***************************************************************************)
EXTENDS CatalogAndDaemon, WellFoundedInduction, TLAPS

Whats == {"none", "server", "other", "alien"}
Places == {"idle", "off", "read", "ask", "remove", "port", "spawn", "health", "reap",
           "signal", "wait", "recheck", "kill", "killed", "forget"}

Outcomes == {"none", "refused", "started", "stopped", "slow", "unhealthy"}

Process == [what : Whats, at : Stages, start : Nat, port : Port \cup {0}]
Note    == [pid : Pid \cup {0}, start : Nat, port : Port \cup {0}]
Order   == [op : Ops \cup {"none"}, at : Places, rec : Note, child : Note, end : Outcomes]

DaemonKept ==
  /\ os \in [Pid -> Process]
  /\ started \in Nat
  /\ pidfile \in Note
  /\ cmd \in [Cmd -> Order]

\* Starts are given out in order, each to one process, and records only name
\* starts that were given out.
StartsGrow ==
  /\ \A p \in Pid : os[p].start <= started /\ (os[p].what # "none" => os[p].start # 0)
  /\ \A p, r \in Pid : os[p].start = os[r].start => p = r \/ os[p].start = 0
  /\ pidfile.start <= started
  /\ \A c \in Cmd : cmd[c].rec.start <= started /\ cmd[c].child.start <= started

\* A process that is no server has no socket, and no record has its start.
OthersAreUnrecorded ==
  \A p \in Pid : os[p].what = "other" =>
    /\ os[p].at = "none"
    /\ os[p].start # pidfile.start
    /\ \A c \in Cmd : os[p].start # cmd[c].rec.start

\* What a command is about to signal has a pid, and is no stranger.
Aim == {"ask", "remove", "signal", "wait", "recheck", "kill", "killed", "forget"}
TargetsAreServers ==
  /\ pidfile # NoFile => pidfile.pid \in Pid
  /\ \A c \in Cmd : cmd[c].at \in Aim => cmd[c].rec.pid \in Pid
  /\ \A c \in Cmd : cmd[c].at \in {"signal", "kill"} => os[cmd[c].rec.pid].what # "other"

DaemonInv ==
  /\ DaemonKept /\ StartsGrow /\ OthersAreUnrecorded /\ TargetsAreServers
  /\ StrangerIsSpared


-----------------------------------------------------------------------------
(* What the actions have in common.                                         *)

\* Processes end or go on; none is born and none becomes another.
ProcessesGoOn ==
  /\ os' \in [Pid -> Process] /\ started' = started
  /\ \A p \in Pid : \/ os'[p] = NoProc
                    \/ /\ os'[p].what = os[p].what /\ os'[p].start = os[p].start
                       /\ os[p].what = "other" => os'[p].at = os[p].at

\* The pidfile stays, goes, or names a server.
FileNamesServer ==
  \/ pidfile' = pidfile \/ pidfile' = NoFile
  \/ /\ pidfile' \in Note /\ pidfile'.pid \in Pid
     /\ os[pidfile'.pid].what # "other"
     /\ pidfile'.start \in {0, os[pidfile'.pid].start}

\* One command moves on; what it records comes from the pidfile.
CommandMoves(c) ==
  /\ cmd' \in [Cmd -> Order]
  /\ \A d \in Cmd \ {c} : cmd'[d] = cmd[d]
  /\ cmd'[c].rec \in {cmd[c].rec, NoFile, pidfile}
  /\ cmd'[c].child.start <= started'
  /\ cmd'[c].at \in Aim => cmd'[c].rec.pid \in Pid
  /\ cmd'[c].at \in {"signal", "kill"} => os[cmd'[c].rec.pid].what # "other"

LEMMA StartOfProc ==
  ASSUME DaemonInv, NEW p \in Pid
  PROVE  os[p] \in Process /\ os[p].start \in Nat /\ os[p].start <= started
  BY DEF DaemonInv, DaemonKept, StartsGrow, Process

\* Without a birth the invariant is kept by any such step that strikes no
\* stranger.
LEMMA QuietKeeps ==
  ASSUME DaemonInv, ProcessesGoOn, FileNamesServer, "other" \notin struck',
         UNCHANGED cmd \/ \E c \in Cmd : CommandMoves(c)
  PROVE  DaemonInv'
<1> USE DEF DaemonInv
<1>1. DaemonKept'
  BY DEF DaemonKept, ProcessesGoOn, FileNamesServer, CommandMoves, NoFile, Note
<1>2. \A p \in Pid : os'[p].start \in {0, os[p].start}
  BY DEF ProcessesGoOn, NoProc
<1>3. pidfile'.start <= started'
  BY DEF StartsGrow, DaemonKept, FileNamesServer, ProcessesGoOn, NoFile
<1>4. \A d \in Cmd : cmd'[d].rec.start <= started' /\ cmd'[d].child.start <= started'
  BY DEF StartsGrow, DaemonKept, CommandMoves, ProcessesGoOn, NoFile
<1>5. \A p \in Pid : os'[p].start <= started' /\ (os'[p].what # "none" => os'[p].start # 0)
  BY DEF StartsGrow, DaemonKept, ProcessesGoOn, NoProc
<1>6. \A p, r \in Pid : os'[p].start = os'[r].start => p = r \/ os'[p].start = 0
  BY <1>2 DEF StartsGrow
<1>7. StartsGrow'
  BY <1>3, <1>4, <1>5, <1>6 DEF StartsGrow
<1>8. OthersAreUnrecorded'
  <2> SUFFICES ASSUME NEW p \in Pid, os'[p].what = "other"
               PROVE  /\ os'[p].at = "none" /\ os'[p].start # pidfile'.start
                      /\ \A c \in Cmd : os'[p].start # cmd'[c].rec.start
    BY DEF OthersAreUnrecorded
  <2>1. os[p].what = "other" /\ os'[p].start = os[p].start /\ os'[p].at = os[p].at
    BY DEF ProcessesGoOn, NoProc
  <2>2. os[p].at = "none" /\ os[p].start # 0 /\ os[p].start # pidfile.start
        /\ \A c \in Cmd : os[p].start # cmd[c].rec.start
    BY <2>1 DEF OthersAreUnrecorded, StartsGrow
  <2>3. os[p].start # pidfile'.start
    BY <2>1, <2>2 DEF FileNamesServer, StartsGrow, NoFile
  <2>4. \A c \in Cmd : os[p].start # cmd'[c].rec.start
    BY <2>2 DEF CommandMoves, NoFile
  <2> QED BY <2>1, <2>2, <2>3, <2>4
<1>9. TargetsAreServers'
  <2>1. pidfile' # NoFile => pidfile'.pid \in Pid
    BY DEF FileNamesServer, TargetsAreServers
  <2>2. \A c \in Cmd : cmd'[c].at \in Aim => cmd'[c].rec.pid \in Pid
    BY DEF CommandMoves, TargetsAreServers
  <2>3. \A c \in Cmd : cmd'[c].at \in {"signal", "kill"} => os[cmd'[c].rec.pid].what # "other"
    BY DEF CommandMoves, TargetsAreServers
  <2>4. \A p \in Pid : os[p].what # "other" => os'[p].what # "other"
    BY DEF ProcessesGoOn, NoProc
  <2> QED BY <2>1, <2>2, <2>3, <2>4 DEF TargetsAreServers, Aim
<1>10. StrangerIsSpared'
  BY DEF StrangerIsSpared
<1> QED BY <1>1, <1>7, <1>8, <1>9, <1>10

\* A birth takes a start of its own and a pid that nobody is about to signal.
LEMMA BirthKeeps ==
  ASSUME DaemonInv, NEW p \in Pid, NEW what \in Whats, NEW at \in Stages,
         NEW port \in Port \cup {0}, Birth(p, what, at, port),
         what # "none", what = "other" => at = "none",
         UNCHANGED <<pidfile, struck>>,
         UNCHANGED cmd \/ \E c \in Cmd : CommandMoves(c) /\ cmd'[c].at \notin {"signal", "kill"}
  PROVE  DaemonInv'
<1> USE DEF DaemonInv
<1> DEFINE new == [what |-> what, at |-> at, start |-> started + 1, port |-> port]
<1>1. started \in Nat /\ started' = started + 1
  BY DEF DaemonKept, Birth
<1>2. new \in Process
  BY <1>1 DEF Process
<1>3. \A r \in Pid : os'[r] = IF r = p THEN new ELSE os[r]
  BY DEF Birth, DaemonKept
<1>4. os' \in [Pid -> Process]
  BY <1>2 DEF Birth, DaemonKept
<1>5. DaemonKept'
  BY <1>1, <1>4 DEF DaemonKept, CommandMoves
<1>6. \A d \in Cmd : cmd'[d].rec.start <= started /\ cmd'[d].child.start <= started'
  <2>1. \A d \in Cmd : cmd[d].child.start \in Nat /\ cmd[d].child.start <= started
    BY DEF StartsGrow, DaemonKept, Order, Note
  <2>2. \A d \in Cmd : cmd'[d].rec.start <= started
    BY <1>1 DEF StartsGrow, DaemonKept, CommandMoves, NoFile
  <2> QED BY <1>1, <2>1, <2>2 DEF CommandMoves
<1>7. StartsGrow'
  <2>1. \A r \in Pid : os[r].start \in Nat /\ os[r].start <= started
    BY StartOfProc
  <2>2. \A r \in Pid : os'[r].start <= started' /\ (os'[r].what # "none" => os'[r].start # 0)
    BY <1>1, <1>3, <2>1 DEF StartsGrow
  <2>3. \A q, r \in Pid : os'[q].start = os'[r].start => q = r \/ os'[q].start = 0
    BY <1>1, <1>3, <2>1 DEF StartsGrow
  <2>4. pidfile'.start <= started' /\ \A d \in Cmd : cmd'[d].rec.start <= started'
    <3>1. \A d \in Cmd : cmd'[d].rec.start \in Nat
      BY <1>5 DEF DaemonKept, Order, Note
    <3>2. pidfile.start \in Nat /\ pidfile.start <= started
      BY DEF DaemonKept, StartsGrow, Note
    <3> QED BY <1>1, <1>6, <3>1, <3>2
  <2> QED BY <1>6, <2>2, <2>3, <2>4 DEF StartsGrow
<1>8. OthersAreUnrecorded'
  <2> SUFFICES ASSUME NEW r \in Pid, os'[r].what = "other"
               PROVE  /\ os'[r].at = "none" /\ os'[r].start # pidfile'.start
                      /\ \A c \in Cmd : os'[r].start # cmd'[c].rec.start
    BY DEF OthersAreUnrecorded
  <2>1. CASE r = p
    <3>1. \A d \in Cmd : cmd'[d].rec.start \in Nat
      BY <1>5 DEF DaemonKept, Order, Note
    <3>2. pidfile.start \in Nat /\ pidfile.start <= started
      BY DEF DaemonKept, StartsGrow, Note
    <3> QED BY <1>1, <1>3, <1>6, <2>1, <3>1, <3>2
  <2>2. CASE r # p
    <3>1. os'[r] = os[r] /\ os[r].what = "other"
      BY <1>3, <2>2
    <3>2. os[r].start # 0
      BY <3>1 DEF StartsGrow
    <3> QED BY <3>1, <3>2 DEF OthersAreUnrecorded, CommandMoves, NoFile
  <2> QED BY <2>1, <2>2
<1>9. TargetsAreServers'
  <2>1. pidfile' # NoFile => pidfile'.pid \in Pid
    BY DEF TargetsAreServers
  <2>2. \A c \in Cmd : cmd'[c].at \in Aim => cmd'[c].rec.pid \in Pid
    BY DEF CommandMoves, TargetsAreServers
  <2>3. \A c \in Cmd : cmd'[c].at \in {"signal", "kill"} =>
                         /\ cmd'[c] = cmd[c] /\ cmd[c].rec.pid \in Pid
                         /\ cmd[c].rec.pid # p /\ os[cmd[c].rec.pid].what # "other"
    BY DEF CommandMoves, TargetsAreServers, Birth, FreePids, Aim
  <2> QED BY <1>3, <2>1, <2>2, <2>3 DEF TargetsAreServers
<1>10. StrangerIsSpared'
  BY DEF StrangerIsSpared
<1> QED BY <1>5, <1>7, <1>8, <1>9, <1>10

\* The two ways a command moves on.
LEMMA ToMoves ==
  ASSUME DaemonInv, NEW c \in Cmd, NEW at \in Places, To(c, at), started' = started,
         at \in Aim => cmd[c].rec.pid \in Pid,
         at \in {"signal", "kill"} => os[cmd[c].rec.pid].what # "other"
  PROVE  CommandMoves(c)
<1>1. cmd[c] \in Order /\ cmd' = [cmd EXCEPT ![c].at = at]
  BY DEF DaemonInv, DaemonKept, To
<1>2. [cmd[c] EXCEPT !.at = at] \in Order
  BY <1>1 DEF Order
<1>3. cmd' \in [Cmd -> Order] /\ cmd'[c] = [cmd[c] EXCEPT !.at = at]
      /\ \A d \in Cmd \ {c} : cmd'[d] = cmd[d]
  BY <1>1, <1>2 DEF DaemonInv, DaemonKept
<1>4. cmd'[c].rec = cmd[c].rec /\ cmd'[c].child = cmd[c].child /\ cmd'[c].at = at
  BY <1>1, <1>3 DEF Order
<1> QED BY <1>3, <1>4 DEF CommandMoves, DaemonInv, StartsGrow

LEMMA EndMoves ==
  ASSUME DaemonInv, NEW c \in Cmd, NEW how \in Outcomes, End(c, how), started' = started
  PROVE  CommandMoves(c) /\ cmd'[c].at = "idle"
<1> DEFINE rec == IF how \in {"stopped", "slow"} THEN cmd[c].rec ELSE NoFile
           child == IF how = "unhealthy" THEN cmd[c].child ELSE NoFile
           new == [op |-> "none", at |-> "idle", end |-> how, rec |-> rec, child |-> child]
<1>1. cmd[c] \in Order /\ cmd' = [cmd EXCEPT ![c] = new]
  BY DEF DaemonInv, DaemonKept, End
<1>2. NoFile \in Note
  BY DEF NoFile, Note
<1>3. rec \in Note /\ child \in Note
  BY <1>1, <1>2 DEF Order
<1>4. new \in Order
  BY <1>3 DEF Order, Places
<1>5. cmd' \in [Cmd -> Order] /\ cmd'[c] = new /\ \A d \in Cmd \ {c} : cmd'[d] = cmd[d]
  BY <1>1, <1>4 DEF DaemonInv, DaemonKept
<1>6. child.start <= started'
  BY DEF NoFile, DaemonInv, DaemonKept, StartsGrow
<1> QED BY <1>5, <1>6 DEF CommandMoves, Aim

\* What a server does to its process.
LEMMA GoesOn ==
  ASSUME DaemonInv, NEW p \in Pid, started' = started,
         \/ Dies(p)
         \/ os[p].what # "other" /\ \E at \in Stages : Goes(p, at)
  PROVE  ProcessesGoOn
<1>1. os \in [Pid -> Process] /\ os[p] \in Process
  BY DEF DaemonInv, DaemonKept
<1>2. NoProc \in Process
  BY DEF NoProc, Process, Whats, Stages
<1>3. CASE Dies(p)
  BY <1>1, <1>2, <1>3 DEF Dies, ProcessesGoOn
<1>4. CASE os[p].what # "other" /\ \E at \in Stages : Goes(p, at)
  <2>1. PICK at \in Stages : os' = [os EXCEPT ![p].at = at]
    BY <1>4 DEF Goes
  <2>2. [os[p] EXCEPT !.at = at] \in Process
    BY <1>1 DEF Process
  <2>3. \A r \in Pid : os'[r] = IF r = p THEN [os[p] EXCEPT !.at = at] ELSE os[r]
    BY <1>1, <2>1
  <2>4. os' \in [Pid -> Process]
    BY <1>1, <2>1, <2>2
  <2>5. os'[p].what = os[p].what /\ os'[p].start = os[p].start
    BY <1>1, <2>3 DEF Process
  <2> QED BY <1>4, <2>3, <2>4, <2>5 DEF ProcessesGoOn
<1> QED BY <1>3, <1>4

LEMMA SameProcesses ==
  ASSUME DaemonInv, UNCHANGED <<os, started>>
  PROVE  ProcessesGoOn
  BY DEF DaemonInv, DaemonKept, ProcessesGoOn

\* Whoever has a socket, or is on the way to or from it, is no stranger.
LEMMA StagesAreServers ==
  ASSUME DaemonInv, NEW p \in Pid, os[p].at # "none"
  PROVE  os[p].what # "other"
  BY DEF DaemonInv, OthersAreUnrecorded

\* A process that still has the recorded pid and start is no stranger.
LEMMA CheckedIsServer ==
  ASSUME DaemonInv, NEW c \in Cmd, cmd[c].rec.pid \in Pid,
         check_recorded_process(cmd[c].rec) = "None"
  PROVE  os[cmd[c].rec.pid].what # "other"
  BY DEF DaemonInv, OthersAreUnrecorded, check_recorded_process, process_start_time

\* Whoever answers with the recorded pid has a socket.
LEMMA JudgedIsServer ==
  ASSUME DaemonInv, NEW c \in Cmd, cmd[c].rec.pid \in Pid,
         NEW answer \in fetch_health(cmd[c].rec.port),
         verify_identity(cmd[c].rec, answer) \in {"Confirmed", "AliveUnresponsive"}
  PROVE  os[cmd[c].rec.pid].what # "other"
<1>1. CASE answer = cmd[c].rec.pid
  <2>1. answer \in Pid /\ os[answer].at = "serve"
    BY <1>1, PidType DEF fetch_health, Bound
  <2> QED BY <1>1, <2>1, StagesAreServers
<1>2. CASE answer # cmd[c].rec.pid
  <2>1. identity_without_health(cmd[c].rec) \in {"Confirmed", "AliveUnresponsive"}
    BY <1>2 DEF verify_identity
  <2>2. check_recorded_process(cmd[c].rec) = "None"
    BY <2>1 DEF identity_without_health
  <2> QED BY <2>2, CheckedIsServer
<1> QED BY <1>1, <1>2

LEMMA DaemonStart == DaemonInit \/ NoDaemon => DaemonInv
<1> SUFFICES ASSUME DaemonInit \/ NoDaemon PROVE DaemonInv
  OBVIOUS
<1> DEFINE off == [Idle EXCEPT !.at = "off"]
<1>1. Idle \in Order /\ Idle.at = "idle" /\ Idle.rec.start = 0 /\ Idle.child.start = 0
  BY DEF Idle, NoFile, Order, Note, Places, Outcomes
<1>2. off \in Order /\ off.at = "off" /\ off.rec = Idle.rec /\ off.child = Idle.child
  BY <1>1 DEF Idle, NoFile, Order, Note, Places, Outcomes
<1>3. NoFile \in Note /\ NoFile.start = 0 /\ NoProc \in Process /\ NoProc.start = 0
      /\ NoProc.what = "none"
  BY DEF NoFile, Note, NoProc, Process, Whats, Stages
<1>4. os = [p \in Pid |-> NoProc] /\ started = 0 /\ pidfile = NoFile /\ struck = {}
  BY DEF DaemonInit, NoDaemon
<1>5. cmd = [c \in Cmd |-> Idle] \/ cmd = [c \in Cmd |-> off]
  BY DEF DaemonInit, NoDaemon
<1>6. cmd \in [Cmd -> Order] /\ \A c \in Cmd : /\ cmd[c].at \notin Aim
                                              /\ cmd[c].rec.start = 0 /\ cmd[c].child.start = 0
  <2> HIDE DEF off
  <2> QED BY <1>1, <1>2, <1>5 DEF Aim
<1>7. DaemonKept /\ StartsGrow
  BY <1>3, <1>4, <1>6 DEF DaemonKept, StartsGrow
<1>8. OthersAreUnrecorded /\ TargetsAreServers /\ StrangerIsSpared
  BY <1>3, <1>4, <1>6 DEF OthersAreUnrecorded, TargetsAreServers, StrangerIsSpared, Aim
<1> QED BY <1>7, <1>8 DEF DaemonInv

\* Every step of a server, of a command or of the world keeps the invariant.
LEMMA DaemonStep ==
  ASSUME DaemonInv, [DaemonNext]_daemonVars
  PROVE  DaemonInv'
<1> "other" \notin struck
  BY DEF DaemonInv, StrangerIsSpared
<1>1. CASE Foreground
  <2>1. PICK p \in Pid, port \in Port : Birth(p, "server", "port", port)
    BY <1>1 DEF Foreground
  <2>2. UNCHANGED <<pidfile, cmd, struck>>
    BY <1>1 DEF Foreground
  <2>3. "server" \in Whats /\ "port" \in Stages /\ port \in Port \cup {0}
    BY DEF Whats, Stages
  <2> QED BY <2>1, <2>2, <2>3, BirthKeeps
<1>2. CASE Stranger
  <2>1. UNCHANGED <<pidfile, cmd, struck>>
    BY <1>2 DEF Stranger
  <2>2. PICK p \in Pid : \/ Birth(p, "other", "none", 0)
                         \/ Birth(p, "alien", "serve", DaemonPort)
    BY <1>2 DEF Stranger
  <2>3. {"other", "alien"} \subseteq Whats /\ {"none", "serve"} \subseteq Stages
        /\ {0, DaemonPort} \subseteq Port \cup {0}
    BY LoopbackType DEF Whats, Stages
  <2>4. CASE Birth(p, "other", "none", 0)
    BY <2>1, <2>3, <2>4, BirthKeeps
  <2>5. CASE Birth(p, "alien", "serve", DaemonPort)
    BY <2>1, <2>3, <2>5, BirthKeeps
  <2> QED BY <2>2, <2>4, <2>5
<1>3. CASE Crash
  <2>1. ProcessesGoOn
    <3>1. PICK p \in Pid : Dies(p)
      BY <1>3 DEF Crash, Servers
    <3>2. started' = started
      BY <1>3 DEF Crash
    <3> QED BY <3>1, <3>2, GoesOn
  <2>2. UNCHANGED <<pidfile, cmd, struck>>
    BY <1>3 DEF Crash
  <2> QED BY <2>1, <2>2, QuietKeeps DEF FileNamesServer
<1>4. ASSUME NEW p \in Pid, ShutsDown(p) \/ Server(p) PROVE DaemonInv'
  <2>1. UNCHANGED <<started, cmd, struck>>
    BY <1>4 DEF ShutsDown, Server, ServerStep, run_mcp, run_http, TruncatePidfile,
                write_pidfile, Drained, remove_pidfile, Exit
  <2>2. os[p].at # "none"
    BY <1>4 DEF ShutsDown, Server, run_mcp, run_http, TruncatePidfile, write_pidfile,
                Drained, remove_pidfile, Exit
  <2>3. os[p].what # "other"
    BY <2>2, StagesAreServers
  <2>4. Dies(p) \/ \E at \in Stages : Goes(p, at)
    <3>1. {"bind", "truncate", "clean", "record", "serve", "drain", "linger"} \subseteq Stages
      BY DEF Stages
    <3> QED BY <1>4, <3>1 DEF ShutsDown, Server, run_mcp, run_http, TruncatePidfile,
                              write_pidfile, Drained, remove_pidfile, Exit
  <2>5. ProcessesGoOn
    BY <2>1, <2>3, <2>4, GoesOn
  <2>6. pidfile' \in {pidfile, NoFile} \/ \E known \in BOOLEAN : pidfile' = RecordOf(p, known)
    BY <1>4, StartKnownType
       DEF ShutsDown, Server, run_mcp, run_http, TruncatePidfile,
           write_pidfile, Drained, remove_pidfile, Exit
  <2>7. FileNamesServer
    <3>1. ASSUME NEW known \in BOOLEAN, pidfile' = RecordOf(p, known) PROVE FileNamesServer
      <4>1. os[p] \in Process
        BY DEF DaemonInv, DaemonKept
      <4>2. pidfile' \in Note /\ pidfile'.pid = p /\ pidfile'.start \in {0, os[p].start}
        BY <3>1, <4>1 DEF RecordOf, Note, Process
      <4> QED BY <2>3, <4>2 DEF FileNamesServer
    <3> QED BY <2>6, <3>1 DEF FileNamesServer
  <2> QED BY <2>1, <2>5, <2>7, QuietKeeps
<1>5. ASSUME NEW c \in Cmd, Begin(c) PROVE DaemonInv'
  <2>1. UNCHANGED <<os, started, pidfile, struck>>
    BY <1>5 DEF Begin
  <2>2. PICK op \in Ops : cmd' = [cmd EXCEPT ![c] = [Idle EXCEPT !.op = op, !.at = "read"]]
    BY <1>5 DEF Begin
  <2> DEFINE new == [Idle EXCEPT !.op = op, !.at = "read"]
  <2>3. new \in Order /\ new.at = "read" /\ new.rec = NoFile /\ new.child.start = 0
    BY DEF Idle, NoFile, Order, Note, Places, Outcomes
  <2>4. cmd' \in [Cmd -> Order] /\ cmd'[c] = new /\ \A d \in Cmd \ {c} : cmd'[d] = cmd[d]
    <3> HIDE DEF new
    <3> QED BY <2>2, <2>3 DEF DaemonInv, DaemonKept, new
  <2>5. CommandMoves(c)
    <3> HIDE DEF new
    <3> QED BY <2>1, <2>3, <2>4 DEF CommandMoves, Aim, DaemonInv, DaemonKept
  <2> QED BY <2>1, <2>5, SameProcesses, QuietKeeps DEF FileNamesServer
<1>6. ASSUME NEW c \in Cmd, read_pidfile(c) PROVE DaemonInv'
  <2>1. UNCHANGED <<os, started, pidfile, struck>>
    BY <1>6 DEF read_pidfile, OnlyCmd
  <2>2. CASE pidfile # NoFile /\ cmd' = [cmd EXCEPT ![c].rec = pidfile, ![c].at = "ask"]
    <3> DEFINE new == [cmd[c] EXCEPT !.rec = pidfile, !.at = "ask"]
    <3>1. cmd[c] \in Order /\ pidfile \in Note /\ pidfile.pid \in Pid
      BY <2>2 DEF DaemonInv, DaemonKept, TargetsAreServers
    <3>2. new \in Order /\ new.at = "ask" /\ new.rec = pidfile /\ new.child = cmd[c].child
      BY <3>1 DEF Order, Places
    <3>3. cmd' = [cmd EXCEPT ![c] = new]
      BY <2>2, <3>1 DEF DaemonInv, DaemonKept
    <3>4. cmd' \in [Cmd -> Order] /\ cmd'[c] = new /\ \A d \in Cmd \ {c} : cmd'[d] = cmd[d]
      <4> HIDE DEF new
      <4> QED BY <3>2, <3>3 DEF DaemonInv, DaemonKept
    <3>5. CommandMoves(c)
      <4> HIDE DEF new
      <4> QED BY <2>1, <3>1, <3>2, <3>4 DEF CommandMoves, DaemonInv, StartsGrow
    <3> QED BY <2>1, <3>5, SameProcesses, QuietKeeps DEF FileNamesServer
  <2>3. CASE To(c, "port") \/ End(c, "refused")
    <3>1. CommandMoves(c)
      BY <2>1, <2>3, ToMoves, EndMoves DEF Places, Outcomes, Aim
    <3> QED BY <2>1, <3>1, SameProcesses, QuietKeeps DEF FileNamesServer
  <2> QED BY <1>6, <2>2, <2>3 DEF read_pidfile
<1>7. ASSUME NEW c \in Cmd, Verify(c) PROVE DaemonInv'
  <2>1. UNCHANGED <<os, started, pidfile, struck>> /\ cmd[c].at = "ask"
    BY <1>7 DEF Verify, OnlyCmd
  <2>2. cmd[c].rec.pid \in Pid
    BY <2>1 DEF DaemonInv, TargetsAreServers, Aim
  <2>3. PICK answer \in fetch_health(cmd[c].rec.port) :
          Judge(c, verify_identity(cmd[c].rec, answer))
    BY <1>7 DEF Verify
  <2>4. CommandMoves(c)
    <3>1. CASE To(c, "signal") /\ verify_identity(cmd[c].rec, answer) \in {"Confirmed", "AliveUnresponsive"}
      BY <2>1, <2>2, <3>1, JudgedIsServer, ToMoves DEF Places
    <3>2. CASE To(c, "remove") \/ End(c, "refused")
      BY <2>1, <2>2, <3>2, ToMoves, EndMoves DEF Places, Outcomes
    <3> QED BY <2>3, <3>1, <3>2 DEF Judge
  <2> QED BY <2>1, <2>4, SameProcesses, QuietKeeps DEF FileNamesServer
<1>8. ASSUME NEW c \in Cmd, RemoveStale(c) \/ Forget(c) PROVE DaemonInv'
  <2>1. UNCHANGED <<os, started, struck>> /\ pidfile' = NoFile
    BY <1>8 DEF RemoveStale, Forget
  <2>2. To(c, "port") \/ End(c, "refused") \/ End(c, "stopped")
    BY <1>8 DEF RemoveStale, Forget
  <2>3. CommandMoves(c)
    BY <2>1, <2>2, ToMoves, EndMoves DEF Places, Outcomes, Aim
  <2> QED BY <2>1, <2>3, SameProcesses, QuietKeeps DEF FileNamesServer
<1>9. ASSUME NEW c \in Cmd, signal_terminate(c) PROVE DaemonInv'
  <2>1. UNCHANGED <<started, pidfile>> /\ cmd[c].at = "signal"
    BY <1>9 DEF signal_terminate
  <2>2. cmd[c].rec.pid \in Pid /\ os[cmd[c].rec.pid].what # "other"
    BY <2>1 DEF DaemonInv, TargetsAreServers, Aim
  <2>3. CommandMoves(c)
    <3>1. To(c, "wait") \/ End(c, "refused")
      BY <1>9 DEF signal_terminate
    <3> QED BY <2>1, <2>2, <3>1, ToMoves, EndMoves DEF Places, Outcomes, Aim
  <2>4. "other" \notin struck'
    BY <1>9, <2>2 DEF signal_terminate, Struck
  <2>5. ProcessesGoOn
    <3>1. "drain" \in Stages
      BY DEF Stages
    <3>2. UNCHANGED os \/ Dies(cmd[c].rec.pid) \/ Goes(cmd[c].rec.pid, "drain")
      BY <1>9 DEF signal_terminate
    <3> QED BY <2>1, <2>2, <3>1, <3>2, GoesOn, SameProcesses
  <2> QED BY <2>1, <2>3, <2>4, <2>5, QuietKeeps DEF FileNamesServer
<1>10. ASSUME NEW c \in Cmd, wait_for_gone(c) \/ WaitKilled(c) PROVE DaemonInv'
  <2>1. UNCHANGED <<os, started, pidfile, struck>> /\ cmd[c].at \in {"wait", "killed"}
    BY <1>10 DEF wait_for_gone, WaitKilled, OnlyCmd
  <2>2. To(c, "forget") \/ To(c, "recheck") \/ End(c, "slow") \/ End(c, "refused")
    BY <1>10 DEF wait_for_gone, WaitKilled
  <2>3. cmd[c].rec.pid \in Pid
    BY <2>1 DEF DaemonInv, TargetsAreServers, Aim
  <2>4. CommandMoves(c)
    BY <2>1, <2>2, <2>3, ToMoves, EndMoves DEF Places, Outcomes
  <2> QED BY <2>1, <2>4, SameProcesses, QuietKeeps DEF FileNamesServer
<1>11. ASSUME NEW c \in Cmd, Recheck(c) PROVE DaemonInv'
  <2>1. UNCHANGED <<os, started, pidfile, struck>> /\ cmd[c].at = "recheck"
    BY <1>11 DEF Recheck, OnlyCmd
  <2>2. \/ To(c, "kill") /\ check_recorded_process(cmd[c].rec) = "None"
        \/ To(c, "forget") \/ End(c, "refused")
    BY <1>11 DEF Recheck
  <2>3. cmd[c].rec.pid \in Pid
    BY <2>1 DEF DaemonInv, TargetsAreServers, Aim
  <2>4. CommandMoves(c)
    <3>1. CASE To(c, "kill") /\ check_recorded_process(cmd[c].rec) = "None"
      BY <2>1, <2>3, <3>1, CheckedIsServer, ToMoves DEF Places
    <3>2. CASE To(c, "forget") \/ End(c, "refused")
      BY <2>1, <2>3, <3>2, ToMoves, EndMoves DEF Places, Outcomes
    <3> QED BY <2>2, <3>1, <3>2
  <2> QED BY <2>1, <2>4, SameProcesses, QuietKeeps DEF FileNamesServer
<1>12. ASSUME NEW c \in Cmd, signal_kill(c) PROVE DaemonInv'
  <2>1. UNCHANGED <<started, pidfile>> /\ cmd[c].at = "kill"
    BY <1>12 DEF signal_kill
  <2>2. cmd[c].rec.pid \in Pid /\ os[cmd[c].rec.pid].what # "other"
    BY <2>1 DEF DaemonInv, TargetsAreServers, Aim
  <2>3. CommandMoves(c)
    <3>1. To(c, "killed") \/ End(c, "refused")
      BY <1>12 DEF signal_kill
    <3> QED BY <2>1, <2>2, <3>1, ToMoves, EndMoves DEF Places, Outcomes, Aim
  <2>4. "other" \notin struck'
    BY <1>12, <2>2 DEF signal_kill, Struck
  <2>5. ProcessesGoOn
    <3>1. UNCHANGED os \/ Dies(cmd[c].rec.pid)
      BY <1>12 DEF signal_kill
    <3> QED BY <2>1, <2>2, <3>1, GoesOn, SameProcesses
  <2> QED BY <2>1, <2>3, <2>4, <2>5, QuietKeeps DEF FileNamesServer
<1>13. ASSUME NEW c \in Cmd, CheckPort(c) PROVE DaemonInv'
  <2>1. UNCHANGED <<os, started, pidfile, struck>>
    BY <1>13 DEF CheckPort, OnlyCmd
  <2>2. CASE cmd' = [cmd EXCEPT ![c].rec = NoFile, ![c].at = "spawn"]
    <3> DEFINE new == [cmd[c] EXCEPT !.rec = NoFile, !.at = "spawn"]
    <3>1. cmd[c] \in Order
      BY DEF DaemonInv, DaemonKept
    <3>2. new \in Order /\ new.at = "spawn" /\ new.rec = NoFile /\ new.child = cmd[c].child
      BY <3>1 DEF Order, Places, NoFile, Note
    <3>3. cmd' = [cmd EXCEPT ![c] = new]
      BY <2>2, <3>1 DEF DaemonInv, DaemonKept
    <3>4. cmd' \in [Cmd -> Order] /\ cmd'[c] = new /\ \A d \in Cmd \ {c} : cmd'[d] = cmd[d]
      <4> HIDE DEF new
      <4> QED BY <3>2, <3>3 DEF DaemonInv, DaemonKept
    <3>5. CommandMoves(c)
      <4> HIDE DEF new
      <4> QED BY <2>1, <3>2, <3>4 DEF CommandMoves, Aim, DaemonInv, StartsGrow
    <3> QED BY <2>1, <3>5, SameProcesses, QuietKeeps DEF FileNamesServer
  <2>3. CASE End(c, "refused")
    <3>1. CommandMoves(c)
      BY <2>1, <2>3, EndMoves DEF Outcomes
    <3> QED BY <2>1, <3>1, SameProcesses, QuietKeeps DEF FileNamesServer
  <2> QED BY <1>13, <2>2, <2>3 DEF CheckPort
<1>14. ASSUME NEW c \in Cmd, Spawn(c) PROVE DaemonInv'
  <2>1. UNCHANGED <<pidfile, struck>>
    BY <1>14 DEF Spawn
  <2>2. CASE End(c, "refused") /\ UNCHANGED <<os, started>>
    <3>1. CommandMoves(c)
      BY <2>2, EndMoves DEF Outcomes
    <3> QED BY <2>1, <2>2, <3>1, SameProcesses, QuietKeeps DEF FileNamesServer
  <2>3. ASSUME NEW p \in Pid, Birth(p, "server", "port", DaemonPort),
               cmd' = [cmd EXCEPT ![c].at = "health",
                         ![c].child = [pid |-> p, start |-> started + 1, port |-> DaemonPort]]
        PROVE  DaemonInv'
    <3> DEFINE child == [pid |-> p, start |-> started + 1, port |-> DaemonPort]
               new == [cmd[c] EXCEPT !.at = "health", !.child = child]
    <3>1. cmd[c] \in Order /\ started \in Nat /\ started' = started + 1
      BY <2>3 DEF DaemonInv, DaemonKept, Birth
    <3>2. child \in Note /\ child.start = started + 1
      BY <3>1, LoopbackType DEF Note
    <3>3. new \in Order /\ new.at = "health" /\ new.rec = cmd[c].rec /\ new.child = child
      <4> HIDE DEF child
      <4> QED BY <3>1, <3>2 DEF Order, Places
    <3>4. cmd' = [cmd EXCEPT ![c] = new]
      BY <2>3, <3>1 DEF DaemonInv, DaemonKept
    <3>5. cmd' \in [Cmd -> Order] /\ cmd'[c] = new /\ \A d \in Cmd \ {c} : cmd'[d] = cmd[d]
      <4> HIDE DEF new
      <4> QED BY <3>3, <3>4 DEF DaemonInv, DaemonKept
    <3>6. CommandMoves(c) /\ cmd'[c].at \notin {"signal", "kill"}
      <4> HIDE DEF new, child
      <4> QED BY <3>1, <3>2, <3>3, <3>5 DEF CommandMoves, Aim
    <3>7. "server" \in Whats /\ "port" \in Stages /\ DaemonPort \in Port \cup {0}
      BY LoopbackType DEF Whats, Stages
    <3> QED BY <2>1, <2>3, <3>6, <3>7, BirthKeeps
  <2> QED BY <1>14, <2>2, <2>3 DEF Spawn
<1>15. ASSUME NEW c \in Cmd, wait_for_health(c) PROVE DaemonInv'
  <2>1. UNCHANGED <<os, started, pidfile, struck>>
    BY <1>15 DEF wait_for_health, OnlyCmd
  <2>2. End(c, "started") \/ To(c, "reap")
    BY <1>15 DEF wait_for_health
  <2>3. CommandMoves(c)
    BY <2>1, <2>2, ToMoves, EndMoves DEF Places, Outcomes, Aim
  <2> QED BY <2>1, <2>3, SameProcesses, QuietKeeps DEF FileNamesServer
<1>16. ASSUME NEW c \in Cmd, Reap(c) PROVE DaemonInv'
  <2>1. UNCHANGED <<started, pidfile, struck>> /\ End(c, "unhealthy") /\ Dies(cmd[c].child.pid)
    BY <1>16 DEF Reap
  <2>2. CommandMoves(c)
    BY <2>1, EndMoves DEF Outcomes
  <2>3. ProcessesGoOn
    <3>1. CASE cmd[c].child.pid \in Pid
      BY <2>1, <3>1, GoesOn
    <3>2. CASE cmd[c].child.pid \notin Pid
      <4>1. os' = os
        BY <2>1, <3>2 DEF Dies, DaemonInv, DaemonKept
      <4> QED BY <2>1, <4>1, SameProcesses
    <3> QED BY <3>1, <3>2
  <2> QED BY <2>1, <2>2, <2>3, QuietKeeps DEF FileNamesServer
<1>17. CASE UNCHANGED daemonVars
  BY <1>17, SameProcesses, QuietKeeps DEF daemonVars, FileNamesServer
<1> QED
  BY <1>1, <1>2, <1>3, <1>4, <1>5, <1>6, <1>7, <1>8, <1>9, <1>10, <1>11, <1>12, <1>13,
     <1>14, <1>15, <1>16, <1>17
  DEF DaemonNext, Command

-----------------------------------------------------------------------------
(* What the commands report.                                               *)

\* Where a server goes from each of its stages, if it does not end there.
Onward(at) ==
  CASE at = "port"     -> {"bind"}
    [] at = "bind"     -> {"truncate", "clean"}
    [] at = "truncate" -> {"record"}
    [] at = "record"   -> {"serve", "clean"}
    [] at = "serve"    -> {"drain"}
    [] at = "drain"    -> {"clean"}
    [] at = "clean"    -> {"linger"}
    [] OTHER           -> {}

Born(p) ==
  /\ os[p].what = "none" /\ started < MaxStart
  /\ started' = started + 1 /\ os'[p].start = started'
  /\ \/ os'[p].what = "server" /\ os'[p].at = "port"
     \/ os'[p].what = "other" /\ os'[p].at = "none"
     \/ os'[p].what = "alien" /\ os'[p].at = "serve" /\ Bound(os'[p].port) = {}

Advances(p) ==
  /\ os'[p].at \in Onward(os[p].at) /\ started' = started
  /\ os'[p].what = os[p].what /\ os'[p].start = os[p].start /\ os'[p].port = os[p].port
  /\ os'[p].at = "truncate" => Bound(os[p].port) = {}

\* One process at most is born, ends, or goes on.
OneMoves(p) ==
  /\ \A r \in Pid \ {p} : os'[r] = os[r]
  /\ Born(p) \/ Advances(p) \/ (os'[p] = NoProc /\ started' = started)

LEMMA BirthMoves ==
  ASSUME DaemonInv, NEW p \in Pid, NEW what, NEW at, NEW port, Birth(p, what, at, port)
  PROVE  /\ \A r \in Pid \ {p} : os'[r] = os[r]
         /\ os'[p] = [what |-> what, at |-> at, start |-> started + 1, port |-> port]
         /\ os[p].what = "none" /\ started < MaxStart /\ started' = started + 1
BY DEF Birth, FreePids, pid_alive, DaemonInv, DaemonKept

LEMMA BornMoves ==
  ASSUME DaemonInv, NEW p \in Pid,
         \/ \E port : Birth(p, "server", "port", port)
         \/ Birth(p, "other", "none", 0)
         \/ Birth(p, "alien", "serve", DaemonPort) /\ Bound(DaemonPort) = {}
  PROVE  OneMoves(p)
<1>1. CASE \E port : Birth(p, "server", "port", port)
  <2>1. PICK port : Birth(p, "server", "port", port)
    BY <1>1
  <2>2. /\ \A r \in Pid \ {p} : os'[r] = os[r]
        /\ os'[p] = [what |-> "server", at |-> "port", start |-> started + 1, port |-> port]
        /\ os[p].what = "none" /\ started < MaxStart /\ started' = started + 1
    BY <2>1, BirthMoves
  <2> QED BY <2>2 DEF OneMoves, Born
<1>2. CASE Birth(p, "other", "none", 0)
  <2>1. /\ \A r \in Pid \ {p} : os'[r] = os[r]
        /\ os'[p] = [what |-> "other", at |-> "none", start |-> started + 1, port |-> 0]
        /\ os[p].what = "none" /\ started < MaxStart /\ started' = started + 1
    BY <1>2, BirthMoves
  <2> QED BY <2>1 DEF OneMoves, Born
<1>3. CASE Birth(p, "alien", "serve", DaemonPort) /\ Bound(DaemonPort) = {}
  <2>1. /\ \A r \in Pid \ {p} : os'[r] = os[r]
        /\ os'[p] = [what |-> "alien", at |-> "serve", start |-> started + 1, port |-> DaemonPort]
        /\ os[p].what = "none" /\ started < MaxStart /\ started' = started + 1
    BY <1>3, BirthMoves
  <2> QED BY <1>3, <2>1 DEF OneMoves, Born
<1> QED BY <1>1, <1>2, <1>3

LEMMA GoesMoves ==
  ASSUME DaemonInv, NEW p \in Pid, NEW at, Goes(p, at), UNCHANGED started,
         at \in Onward(os[p].at), at = "truncate" => Bound(os[p].port) = {}
  PROVE  OneMoves(p) /\ os'[p].at = at /\ os'[p].what = os[p].what /\ os'[p].start = os[p].start
<1>1. os' = [os EXCEPT ![p].at = at] /\ os \in [Pid -> Process] /\ os[p] \in Process
  BY DEF Goes, DaemonInv, DaemonKept
<1>2. \A r \in Pid : os'[r] = IF r = p THEN [os[p] EXCEPT !.at = at] ELSE os[r]
  BY <1>1
<1>3. /\ os'[p].at = at /\ os'[p].what = os[p].what /\ os'[p].start = os[p].start
      /\ os'[p].port = os[p].port
  BY <1>1, <1>2 DEF Process
<1> QED BY <1>2, <1>3 DEF OneMoves, Advances

LEMMA DiesMoves ==
  ASSUME DaemonInv, NEW p \in Pid, Dies(p)
  PROVE  os'[p] = NoProc /\ \A r \in Pid \ {p} : os'[r] = os[r]
BY DEF Dies, DaemonInv, DaemonKept

LEMMA ServerMoves ==
  ASSUME DaemonInv, NEW p \in Pid, ShutsDown(p) \/ Server(p)
  PROVE  OneMoves(p)
<1>1. UNCHANGED started
  BY DEF ShutsDown, Server, ServerStep, run_mcp, run_http, TruncatePidfile,
         write_pidfile, Drained, remove_pidfile, Exit
<1>2. \/ Dies(p)
      \/ \E at \in Stages : os' = [os EXCEPT ![p].at = at] /\ at \in Onward(os[p].at)
            /\ (at = "truncate" => Bound(os[p].port) = {})
  BY DEF Goes, ShutsDown, Server, ServerStep, run_mcp, run_http, TruncatePidfile, check_port_free,
         write_pidfile, Drained, remove_pidfile, Exit, Onward, Stages
<1>3. CASE Dies(p)
  BY <1>1, <1>3, DiesMoves DEF OneMoves
<1>4. CASE \E at \in Stages : os' = [os EXCEPT ![p].at = at] /\ at \in Onward(os[p].at)
            /\ (at = "truncate" => Bound(os[p].port) = {})
  <2>1. PICK at \in Stages : os' = [os EXCEPT ![p].at = at] /\ at \in Onward(os[p].at)
            /\ (at = "truncate" => Bound(os[p].port) = {})
    BY <1>4
  <2>2. Goes(p, at)
    BY <2>1 DEF Goes
  <2> QED BY <1>1, <2>1, <2>2, GoesMoves
<1> QED BY <1>2, <1>3, <1>4

LEMMA CommandTarget ==
  ASSUME DaemonInv, NEW c \in Cmd, cmd[c].at \in Aim
  PROVE  cmd[c].rec.pid \in Pid
BY DEF DaemonInv, TargetsAreServers

\* A signal ends a process or sends it on; nothing else a command does but the
\* launch and the reaping has an effect on one.
LEMMA SignalMoves ==
  ASSUME DaemonInv, NEW c \in Cmd, signal_terminate(c) \/ signal_kill(c)
  PROVE  (UNCHANGED <<os, started>>) \/ OneMoves(cmd[c].rec.pid)
<1>1. cmd[c].rec.pid \in Pid
  BY CommandTarget DEF signal_terminate, signal_kill, Aim
<1>2. UNCHANGED started
  BY DEF signal_terminate, signal_kill
<1>3. \/ UNCHANGED os \/ Dies(cmd[c].rec.pid)
      \/ os[cmd[c].rec.pid].at = "serve" /\ Goes(cmd[c].rec.pid, "drain")
  BY DEF signal_terminate, signal_kill
<1> QED BY <1>1, <1>2, <1>3, DiesMoves, GoesMoves DEF OneMoves, Onward

LEMMA WorldMoves ==
  ASSUME DaemonInv, [DaemonNext]_daemonVars
  PROVE  (UNCHANGED <<os, started>>) \/ \E p \in Pid : OneMoves(p)
<1>1. CASE Foreground
  <2>1. PICK p \in Pid, port \in Port : Birth(p, "server", "port", port)
    BY <1>1 DEF Foreground
  <2>2. OneMoves(p)
    BY <2>1, BornMoves
  <2> QED BY <2>2
<1>2. CASE Stranger
  <2>1. PICK p \in Pid : \/ Birth(p, "other", "none", 0)
                         \/ Birth(p, "alien", "serve", DaemonPort) /\ Bound(DaemonPort) = {}
    BY <1>2 DEF Stranger, check_port_free
  <2>2. OneMoves(p)
    BY <2>1, BornMoves
  <2> QED BY <2>2
<1>3. CASE Crash
  BY <1>3, DiesMoves DEF Crash, Servers, OneMoves
<1>4. CASE \E p \in Pid : ShutsDown(p) \/ Server(p)
  BY <1>4, ServerMoves
<1>5. ASSUME NEW c \in Cmd, signal_terminate(c) \/ signal_kill(c)
      PROVE  (UNCHANGED <<os, started>>) \/ \E p \in Pid : OneMoves(p)
  BY <1>5, SignalMoves, CommandTarget DEF signal_terminate, signal_kill, Aim
<1>6. ASSUME NEW c \in Cmd, Spawn(c)
      PROVE  (UNCHANGED <<os, started>>) \/ \E p \in Pid : OneMoves(p)
  <2>1. CASE \E p \in Pid : Birth(p, "server", "port", DaemonPort)
    <3>1. PICK p \in Pid : Birth(p, "server", "port", DaemonPort)
      BY <2>1
    <3>2. OneMoves(p)
      BY <3>1, BornMoves
    <3> QED BY <3>2
  <2> QED BY <1>6, <2>1 DEF Spawn
<1>7. ASSUME NEW c \in Cmd, Reap(c)
      PROVE  (UNCHANGED <<os, started>>) \/ \E p \in Pid : OneMoves(p)
  <2>1. Dies(cmd[c].child.pid) /\ UNCHANGED started
    BY <1>7 DEF Reap
  <2>2. CASE cmd[c].child.pid \in Pid
    BY <2>1, <2>2, DiesMoves DEF OneMoves
  <2>3. CASE cmd[c].child.pid \notin Pid
    BY <2>1, <2>3 DEF Dies, DaemonInv, DaemonKept
  <2> QED BY <2>2, <2>3
<1>8. ASSUME NEW c \in Cmd, \/ Begin(c) \/ read_pidfile(c) \/ Verify(c) \/ RemoveStale(c)
                            \/ wait_for_gone(c) \/ Recheck(c) \/ WaitKilled(c) \/ Forget(c)
                            \/ CheckPort(c) \/ wait_for_health(c)
      PROVE  UNCHANGED <<os, started>>
  BY <1>8 DEF Begin, read_pidfile, Verify, RemoveStale, wait_for_gone, Recheck, WaitKilled,
              Forget, CheckPort, wait_for_health, OnlyCmd
<1>9. CASE UNCHANGED daemonVars
  BY <1>9 DEF daemonVars
<1> QED BY <1>1, <1>2, <1>3, <1>4, <1>5, <1>6, <1>7, <1>8, <1>9 DEF DaemonNext, Command

\* Starts stay within their bound, an ended process leaves nothing, a server of
\* another index never writes the pidfile of this one, and an address has one
\* socket.
Listening == {"truncate", "record", "serve"}

BoundInv ==
  /\ started <= MaxStart
  /\ \A p \in Pid : os[p].what = "none" => os[p] = NoProc
  /\ \A p \in Pid : os[p].what = "alien" => os[p].at \in {"serve", "drain", "clean", "linger"}
  /\ \A p \in Pid : os[p].what = "server" => os[p].at # "none"
  /\ \A p, r \in Pid : os[p].port = os[r].port /\ os[p].at \in Listening /\ os[r].at \in Listening
                       => p = r

LEMMA BoundInit ==
  ASSUME DaemonInit \/ NoDaemon
  PROVE  BoundInv
BY BoundType DEF DaemonInit, NoDaemon, BoundInv, NoProc, Listening

LEMMA BoundStep ==
  ASSUME DaemonInv, BoundInv, [DaemonNext]_daemonVars
  PROVE  BoundInv'
<1>1. CASE UNCHANGED <<os, started>>
  BY <1>1 DEF BoundInv
<1>2. ASSUME NEW p \in Pid, OneMoves(p) PROVE BoundInv'
  <2>0. started \in Nat /\ MaxStart \in Nat /\ \A r \in Pid \ {p} : os'[r] = os[r]
    BY <1>2, BoundType DEF DaemonInv, DaemonKept, OneMoves
  <2>1. CASE Born(p)
    <3>1. \A r \in Pid : os'[p].at \in Listening /\ os[r].at \in Listening /\ r # p
                         => os'[p].port # os[r].port
      BY <2>1 DEF Born, Bound, Listening
    <3> QED BY <2>0, <2>1, <3>1 DEF Born, BoundInv
  <2>2. CASE Advances(p)
    <3>1. \A r \in Pid : os'[p].at \in Listening /\ os[r].at \in Listening /\ r # p
                         => os'[p].port # os[r].port
      <4>1. CASE os'[p].at = "truncate"
        BY <2>2, <4>1 DEF Advances, Bound, Listening
      <4>2. CASE os'[p].at # "truncate"
        BY <2>2, <4>2 DEF Advances, Onward, Listening, BoundInv
      <4> QED BY <4>1, <4>2
    <3>2. os[p].what # "none"
      BY <2>2 DEF Advances, Onward, BoundInv, NoProc
    <3>3. /\ os[p].what = "alien" => os'[p].at \in {"serve", "drain", "clean", "linger"}
          /\ os'[p].at # "none"
      BY <2>2 DEF Advances, Onward, BoundInv
    <3> QED BY <2>0, <2>2, <3>1, <3>2, <3>3 DEF Advances, BoundInv
  <2>3. CASE os'[p] = NoProc /\ started' = started
    BY <2>0, <2>3 DEF BoundInv, NoProc, Listening
  <2> QED BY <1>2, <2>1, <2>2, <2>3 DEF OneMoves
<1> QED BY <1>1, <1>2, WorldMoves

LEMMA TypesHold ==
  ASSUME DaemonInv, BoundInv
  PROVE  DaemonTypes
<1>1. \A n \in Note : n.start <= started => n \in Record
  BY BoundType DEF BoundInv, Note, Record, Start, DaemonInv, DaemonKept
<1>2. pidfile \in Record
  BY <1>1 DEF DaemonInv, DaemonKept, StartsGrow
<1>3. \A c \in Cmd : cmd[c].rec \in Record /\ cmd[c].child \in Record /\ cmd[c].op \in Ops \cup {"none"}
  BY <1>1 DEF DaemonInv, DaemonKept, StartsGrow, Order
<1>4. ASSUME NEW p \in Pid
      PROVE  /\ os[p].what \in {"none", "server", "other", "alien"} /\ os[p].at \in Stages
             /\ os[p].start \in Start \cup {0}
             /\ (os[p].what = "none") = (os[p] = NoProc)
  <2>1. os[p] \in Process /\ os[p].start <= started
    BY DEF DaemonInv, DaemonKept, StartsGrow
  <2>2. os[p].start \in Start \cup {0}
    BY <2>1, BoundType DEF Process, BoundInv, Start, DaemonInv, DaemonKept
  <2>3. NoProc.what = "none"
    BY DEF NoProc
  <2>4. (os[p].what = "none") = (os[p] = NoProc)
    BY <2>3 DEF BoundInv
  <2> QED BY <2>1, <2>2, <2>4 DEF Process, Whats
<1> QED BY <1>2, <1>3, <1>4 DEF DaemonTypes, DaemonInv, StartsGrow, BoundInv, Listening

-----------------------------------------------------------------------------
(* Stopped daemons and failed launches.                                    *)

\* A running command has not ended; the process that a stop has seen end, or a
\* failed launch has killed, is never seen again; a launched child is the only
\* process with its start.
Ended(rec)   == \A p \in Servers : p = rec.pid => os[p].start # rec.start
Nowhere(rec) == \A p \in Servers : os[p].start # rec.start
AtItsPid(rec) == \A p \in Servers : os[p].start = rec.start => p = rec.pid

CommandInv ==
  \A c \in Cmd :
    /\ cmd[c].at # "idle" => cmd[c].end = "none"
    /\ cmd[c].at = "forget" \/ cmd[c].end = "stopped" => Ended(cmd[c].rec)
    /\ cmd[c].at \in {"health", "reap"} => AtItsPid(cmd[c].child)
    /\ cmd[c].end = "unhealthy" => Nowhere(cmd[c].child)

LEMMA CommandInit ==
  ASSUME DaemonInit \/ NoDaemon
  PROVE  CommandInv
BY DEF DaemonInit, NoDaemon, CommandInv, Idle, NoFile, Servers, NoProc, Ended, Nowhere, AtItsPid

\* What is so of a record stays so whatever processes do.
LEMMA RecordsStay ==
  ASSUME DaemonInv, DaemonInv', [DaemonNext]_daemonVars, NEW rec \in Note, rec.start <= started
  PROVE  /\ Ended(rec) => Ended(rec)'
         /\ Nowhere(rec) => Nowhere(rec)'
         /\ AtItsPid(rec) => AtItsPid(rec)'
<1>1. started \in Nat /\ rec.start \in Nat
  BY DEF DaemonInv, DaemonKept, Note
<1>2. \A p \in Pid : os'[p].what = "server" =>
        \/ os[p].what = "server" /\ os'[p].start = os[p].start
        \/ os'[p].start = started + 1
  BY WorldMoves DEF OneMoves, Born, Advances, NoProc
<1> QED BY <1>1, <1>2 DEF Ended, Nowhere, AtItsPid, Servers

LEMMA ToIs ==
  ASSUME DaemonInv, NEW c \in Cmd, NEW at, To(c, at)
  PROVE  /\ cmd'[c].at = at /\ cmd'[c].rec = cmd[c].rec /\ cmd'[c].child = cmd[c].child
         /\ cmd'[c].end = cmd[c].end /\ cmd'[c].op = cmd[c].op
         /\ \A d \in Cmd \ {c} : cmd'[d] = cmd[d]
<1>1. cmd' = [cmd EXCEPT ![c].at = at] /\ cmd \in [Cmd -> Order] /\ cmd[c] \in Order
  BY DEF To, DaemonInv, DaemonKept
<1> QED BY <1>1 DEF Order

LEMMA EndIs ==
  ASSUME DaemonInv, NEW c \in Cmd, NEW how, End(c, how)
  PROVE  /\ cmd'[c].at = "idle" /\ cmd'[c].end = how
         /\ how \in {"stopped", "slow"} => cmd'[c].rec = cmd[c].rec
         /\ how = "unhealthy" => cmd'[c].child = cmd[c].child
         /\ \A d \in Cmd \ {c} : cmd'[d] = cmd[d]
BY DEF End, DaemonInv, DaemonKept

\* One command has moved on; what has to be shown of it.
LEMMA CommandFrame ==
  ASSUME DaemonInv, DaemonInv', CommandInv, [DaemonNext]_daemonVars, NEW c \in Cmd,
         \A d \in Cmd \ {c} : cmd'[d] = cmd[d],
         /\ cmd'[c].at # "idle" => cmd'[c].end = "none"
         /\ cmd'[c].at = "forget" \/ cmd'[c].end = "stopped" => Ended(cmd[c].rec)'
         /\ cmd'[c].at \in {"health", "reap"} => AtItsPid(cmd[c].child)'
         /\ cmd'[c].end = "unhealthy" => Nowhere(cmd[c].child)'
  PROVE  CommandInv'
<1>1. ASSUME NEW d \in Cmd \ {c}
      PROVE  /\ cmd'[d].at # "idle" => cmd'[d].end = "none"
             /\ cmd'[d].at = "forget" \/ cmd'[d].end = "stopped" => Ended(cmd[d].rec)'
             /\ cmd'[d].at \in {"health", "reap"} => AtItsPid(cmd[d].child)'
             /\ cmd'[d].end = "unhealthy" => Nowhere(cmd[d].child)'
  <2>1. PICK rec, child : rec = cmd[d].rec /\ child = cmd[d].child
    OBVIOUS
  <2>2. rec \in Note /\ rec.start <= started /\ child \in Note /\ child.start <= started
    BY <2>1 DEF DaemonInv, DaemonKept, StartsGrow, Order
  <2>3. Ended(rec) => Ended(rec)'
    BY <2>2, RecordsStay
  <2>4. (AtItsPid(child) => AtItsPid(child)') /\ (Nowhere(child) => Nowhere(child)')
    BY <2>2, RecordsStay
  <2>5. cmd'[d].rec = rec /\ cmd'[d].child = child
    BY <2>1
  <2> QED BY <2>1, <2>3, <2>4, <2>5 DEF CommandInv, Ended, AtItsPid, Nowhere, Servers
<1> QED BY <1>1 DEF CommandInv, Ended, AtItsPid, Nowhere, Servers

LEMMA CommandQuiet ==
  ASSUME DaemonInv, DaemonInv', CommandInv, [DaemonNext]_daemonVars, NEW c \in Cmd,
         \A d \in Cmd \ {c} : cmd'[d] = cmd[d],
         cmd'[c].at \notin {"forget", "health", "reap"}, cmd'[c].end \notin {"stopped", "unhealthy"},
         cmd'[c].at # "idle" => cmd'[c].end = "none"
  PROVE  CommandInv'
BY CommandFrame

LEMMA CommandGoesOn ==
  ASSUME DaemonInv, DaemonInv', CommandInv, [DaemonNext]_daemonVars, NEW c \in Cmd,
         cmd[c].at # "idle",
         \/ \E at \in Places \ {"forget", "health", "reap"} : To(c, at)
         \/ \E how \in {"refused", "slow", "started"} : End(c, how)
  PROVE  CommandInv'
<1>0. cmd[c].end = "none" /\ cmd \in [Cmd -> Order] /\ cmd[c] \in Order
  BY DEF CommandInv, DaemonInv, DaemonKept
<1>1. CASE \E at \in Places \ {"forget", "health", "reap"} : To(c, at)
  <2>1. PICK at \in Places \ {"forget", "health", "reap"} : cmd' = [cmd EXCEPT ![c].at = at]
    BY <1>1 DEF To
  <2>2. To(c, at)
    BY <2>1 DEF To
  <2>3. cmd'[c].at = at /\ cmd'[c].end = "none" /\ \A d \in Cmd \ {c} : cmd'[d] = cmd[d]
    BY <1>0, <2>2, ToIs
  <2> QED BY <2>3, CommandQuiet
<1>2. CASE \E how \in {"refused", "slow", "started"} : End(c, how)
  <2>1. CASE End(c, "refused")
    BY <2>1, EndIs, CommandQuiet
  <2>2. CASE End(c, "slow")
    BY <2>2, EndIs, CommandQuiet
  <2>3. CASE End(c, "started")
    BY <2>3, EndIs, CommandQuiet
  <2> QED BY <1>2, <2>1, <2>2, <2>3
<1> QED BY <1>1, <1>2

LEMMA CommandForgets ==
  ASSUME DaemonInv, DaemonInv', CommandInv, [DaemonNext]_daemonVars, NEW c \in Cmd,
         cmd[c].at \in {"wait", "recheck", "killed"}, To(c, "forget"), UNCHANGED os,
         ~pid_alive(cmd[c].rec.pid)
  PROVE  CommandInv'
<1>1. /\ cmd'[c].at = "forget" /\ cmd'[c].rec = cmd[c].rec /\ cmd'[c].end = "none"
      /\ \A d \in Cmd \ {c} : cmd'[d] = cmd[d]
  BY ToIs DEF CommandInv
<1>2. Ended(cmd[c].rec)'
  BY <1>1 DEF Ended, pid_alive, Servers
<1> QED BY <1>1, <1>2, CommandFrame

LEMMA CommandStep ==
  ASSUME DaemonInv, DaemonInv', CommandInv, [DaemonNext]_daemonVars
  PROVE  CommandInv'
<1>1. CASE UNCHANGED cmd
  <2>1. CASE Cmd = {}
    BY <2>1 DEF CommandInv
  <2>2. CASE Cmd # {}
    <3>1. PICK c \in Cmd : TRUE
      BY <2>2
    <3>2. PICK r, k : r = cmd[c].rec /\ k = cmd[c].child
      OBVIOUS
    <3>3. r \in Note /\ r.start <= started /\ k \in Note /\ k.start <= started
      BY <3>2 DEF DaemonInv, DaemonKept, StartsGrow, Order
    <3>4. (Ended(r) => Ended(r)') /\ (AtItsPid(k) => AtItsPid(k)') /\ (Nowhere(k) => Nowhere(k)')
      BY <3>3, RecordsStay
    <3>5. cmd'[c].rec = r /\ cmd'[c].child = k
      BY <1>1, <3>2
    <3>6. /\ Ended(cmd[c].rec) => Ended(cmd[c].rec)'
          /\ AtItsPid(cmd[c].child) => AtItsPid(cmd[c].child)'
          /\ Nowhere(cmd[c].child) => Nowhere(cmd[c].child)'
      BY <3>2, <3>4, <3>5 DEF Ended, AtItsPid, Nowhere, Servers
    <3> QED BY <1>1, <3>6, CommandFrame DEF CommandInv
  <2> QED BY <2>1, <2>2
<1>2. CASE \/ Foreground \/ Stranger \/ Crash \/ UNCHANGED daemonVars
           \/ \E p \in Pid : ShutsDown(p) \/ Server(p)
  <2>1. UNCHANGED cmd
    BY <1>2 DEF Foreground, Stranger, Crash, daemonVars, ShutsDown, Server, ServerStep, run_mcp,
                run_http, TruncatePidfile, write_pidfile, Drained, remove_pidfile, Exit
  <2> QED BY <1>1, <2>1
<1>3. ASSUME NEW c \in Cmd, Begin(c) PROVE CommandInv'
  <2>1. PICK op \in Ops : cmd' = [cmd EXCEPT ![c] = [Idle EXCEPT !.op = op, !.at = "read"]]
    BY <1>3 DEF Begin
  <2>2. cmd'[c].at = "read" /\ cmd'[c].end = "none" /\ \A d \in Cmd \ {c} : cmd'[d] = cmd[d]
    BY <2>1 DEF DaemonInv, DaemonKept, Idle
  <2> QED BY <2>2, CommandQuiet
<1>4. ASSUME NEW c \in Cmd, read_pidfile(c) PROVE CommandInv'
  <2>1. CASE cmd' = [cmd EXCEPT ![c].rec = pidfile, ![c].at = "ask"]
    <3>1. cmd'[c].at = "ask" /\ cmd'[c].end = cmd[c].end /\ \A d \in Cmd \ {c} : cmd'[d] = cmd[d]
      BY <2>1 DEF DaemonInv, DaemonKept, Order
    <3>2. cmd[c].end = "none"
      BY <1>4 DEF read_pidfile, CommandInv
    <3> QED BY <3>1, <3>2, CommandQuiet
  <2>2. CASE To(c, "port") \/ End(c, "refused")
    BY <1>4, <2>2, CommandGoesOn DEF read_pidfile, Places
  <2> QED BY <1>4, <2>1, <2>2 DEF read_pidfile
<1>5. ASSUME NEW c \in Cmd, Verify(c) PROVE CommandInv'
  <2>1. To(c, "remove") \/ To(c, "signal") \/ End(c, "refused")
    BY <1>5 DEF Verify, Judge
  <2> QED BY <1>5, <2>1, CommandGoesOn DEF Verify, Places
<1>6. ASSUME NEW c \in Cmd, RemoveStale(c) PROVE CommandInv'
  BY <1>6, CommandGoesOn DEF RemoveStale, Places
<1>7. ASSUME NEW c \in Cmd, signal_terminate(c) PROVE CommandInv'
  BY <1>7, CommandGoesOn DEF signal_terminate, Places
<1>8. ASSUME NEW c \in Cmd, wait_for_gone(c) PROVE CommandInv'
  <2>1. cmd[c].at = "wait" /\ UNCHANGED os
    BY <1>8 DEF wait_for_gone, OnlyCmd
  <2>2. \/ ~pid_alive(cmd[c].rec.pid) /\ To(c, "forget")
        \/ To(c, "recheck") \/ End(c, "slow")
    BY <1>8 DEF wait_for_gone
  <2> QED BY <2>1, <2>2, CommandGoesOn, CommandForgets DEF Places
<1>9. ASSUME NEW c \in Cmd, Recheck(c) PROVE CommandInv'
  <2>1. cmd[c].at = "recheck" /\ UNCHANGED os
    BY <1>9 DEF Recheck, OnlyCmd
  <2>2. \/ ~pid_alive(cmd[c].rec.pid) /\ To(c, "forget")
        \/ To(c, "kill") \/ End(c, "refused")
    BY <1>9 DEF Recheck, check_recorded_process
  <2> QED BY <2>1, <2>2, CommandGoesOn, CommandForgets DEF Places
<1>10. ASSUME NEW c \in Cmd, signal_kill(c) PROVE CommandInv'
  BY <1>10, CommandGoesOn DEF signal_kill, Places
<1>11. ASSUME NEW c \in Cmd, WaitKilled(c) PROVE CommandInv'
  <2>1. cmd[c].at = "killed" /\ UNCHANGED os
    BY <1>11 DEF WaitKilled, OnlyCmd
  <2>2. (~pid_alive(cmd[c].rec.pid) /\ To(c, "forget")) \/ End(c, "refused")
    BY <1>11 DEF WaitKilled
  <2> QED BY <2>1, <2>2, CommandGoesOn, CommandForgets DEF Places
<1>12. ASSUME NEW c \in Cmd, Forget(c) PROVE CommandInv'
  <2>1. cmd[c].at = "forget" /\ End(c, "stopped") /\ UNCHANGED os
    BY <1>12 DEF Forget
  <2>2. /\ cmd'[c].at = "idle" /\ cmd'[c].end = "stopped" /\ cmd'[c].rec = cmd[c].rec
        /\ \A d \in Cmd \ {c} : cmd'[d] = cmd[d]
    BY <2>1, EndIs
  <2>3. Ended(cmd[c].rec)'
    BY <2>1, <2>2 DEF CommandInv, Ended, Servers
  <2> QED BY <2>2, <2>3, CommandFrame
<1>13. ASSUME NEW c \in Cmd, CheckPort(c) PROVE CommandInv'
  <2>1. CASE cmd' = [cmd EXCEPT ![c].rec = NoFile, ![c].at = "spawn"]
    <3>1. cmd'[c].at = "spawn" /\ cmd'[c].end = cmd[c].end /\ \A d \in Cmd \ {c} : cmd'[d] = cmd[d]
      BY <2>1 DEF DaemonInv, DaemonKept, Order
    <3>2. cmd[c].end = "none"
      BY <1>13 DEF CheckPort, CommandInv
    <3> QED BY <3>1, <3>2, CommandQuiet
  <2>2. CASE End(c, "refused")
    BY <1>13, <2>2, CommandGoesOn DEF CheckPort
  <2> QED BY <1>13, <2>1, <2>2 DEF CheckPort
<1>14. ASSUME NEW c \in Cmd, Spawn(c) PROVE CommandInv'
  <2>1. CASE End(c, "refused")
    BY <1>14, <2>1, CommandGoesOn DEF Spawn
  <2>2. ASSUME NEW p \in Pid, Birth(p, "server", "port", DaemonPort),
               cmd' = [cmd EXCEPT ![c].at = "health",
                         ![c].child = [pid |-> p, start |-> started + 1, port |-> DaemonPort]]
        PROVE  CommandInv'
    <3>1. /\ cmd'[c].at = "health" /\ cmd'[c].end = cmd[c].end
          /\ cmd'[c].child.pid = p /\ cmd'[c].child.start = started + 1
          /\ \A d \in Cmd \ {c} : cmd'[d] = cmd[d]
      BY <2>2 DEF DaemonInv, DaemonKept, Order
    <3>2. cmd[c].end = "none"
      BY <1>14 DEF Spawn, CommandInv
    <3>3. \A r \in Pid \ {p} : os'[r] = os[r] /\ os[r].start <= started
      BY <2>2, BirthMoves, StartOfProc
    <3>4. AtItsPid(cmd[c].child)'
      <4>1. started \in Nat /\ \A r \in Pid : os[r].start \in Nat
        BY StartOfProc DEF DaemonInv, DaemonKept
      <4> QED BY <3>1, <3>3, <4>1 DEF AtItsPid, Servers
    <3> QED BY <3>1, <3>2, <3>4, CommandFrame
  <2> QED BY <1>14, <2>1, <2>2 DEF Spawn
<1>15. ASSUME NEW c \in Cmd, wait_for_health(c) PROVE CommandInv'
  <2>1. cmd[c].at = "health" /\ UNCHANGED os
    BY <1>15 DEF wait_for_health, OnlyCmd
  <2>2. CASE End(c, "started")
    BY <2>1, <2>2, CommandGoesOn
  <2>3. CASE To(c, "reap")
    <3>1. /\ cmd'[c].at = "reap" /\ cmd'[c].child = cmd[c].child /\ cmd'[c].end = "none"
          /\ \A d \in Cmd \ {c} : cmd'[d] = cmd[d]
      BY <2>1, <2>3, ToIs DEF CommandInv
    <3>2. AtItsPid(cmd[c].child)'
      BY <2>1, <3>1 DEF CommandInv, AtItsPid, Servers
    <3> QED BY <3>1, <3>2, CommandFrame
  <2> QED BY <1>15, <2>2, <2>3 DEF wait_for_health
<1>16. ASSUME NEW c \in Cmd, Reap(c) PROVE CommandInv'
  <2>1. cmd[c].at = "reap" /\ End(c, "unhealthy") /\ Dies(cmd[c].child.pid)
    BY <1>16 DEF Reap
  <2>2. /\ cmd'[c].at = "idle" /\ cmd'[c].end = "unhealthy" /\ cmd'[c].child = cmd[c].child
        /\ \A d \in Cmd \ {c} : cmd'[d] = cmd[d]
    BY <2>1, EndIs
  <2>3. \A p \in Pid : os'[p] = IF p = cmd[c].child.pid THEN NoProc ELSE os[p]
    BY <2>1 DEF Dies, DaemonInv, DaemonKept
  <2>4. Nowhere(cmd[c].child)'
    BY <2>1, <2>2, <2>3 DEF CommandInv, AtItsPid, Nowhere, Servers, NoProc
  <2> QED BY <2>2, <2>4, CommandFrame
<1> QED
  BY <1>2, <1>3, <1>4, <1>5, <1>6, <1>7, <1>8, <1>9, <1>10, <1>11, <1>12, <1>13,
     <1>14, <1>15, <1>16
  DEF DaemonNext, Command

-----------------------------------------------------------------------------
(* While servers and commands do not overlap.                              *)

Live(p)   == os[p].what = "server" /\ os[p].at # "linger"
AtWork(c) == cmd[c].at \notin {"idle", "off"}
Named(p)  == pidfile.pid = p /\ pidfile.start \in {0, os[p].start}

Launching == {"health", "reap"}
Alone     == {"remove", "forget", "port", "spawn"}

\* A command at work finds a server that has recorded itself, or none; once it
\* forgets or launches one there is none but its child.
Accompanied(c) ==
  /\ cmd[c].at \in Launching => \A p \in Pid : Live(p) => p = cmd[c].child.pid
  /\ cmd[c].at \in Alone => \A p \in Pid : ~Live(p)
  /\ cmd[c].at \notin Launching =>
       \A p \in Pid : Live(p) => os[p].at \in {"serve", "drain", "clean"} /\ Named(p)
  /\ cmd[c].at \in Aim => pidfile \in {cmd[c].rec, NoFile}

OneServer    == \A p, r \in Pid : Live(p) /\ Live(r) => p = r
ServesNamed  == \A p \in Pid : Live(p) /\ os[p].at \in {"serve", "drain"} => Named(p)

AloneInv ==
  alone => /\ OneServer /\ ServesNamed
           /\ \A c, d \in Cmd : AtWork(c) /\ AtWork(d) => c = d
           /\ \A c \in Cmd : AtWork(c) => Accompanied(c)

LEMMA AloneInit ==
  ASSUME DaemonInit \/ NoDaemon
  PROVE  AloneInv
BY DEF DaemonInit, NoDaemon, AloneInv, OneServer, ServesNamed, Live, AtWork, NoProc, Idle

\* Servers end, linger, or close their sockets: nothing more is claimed of them.
LEMMA ServersShrink ==
  ASSUME AloneInv, alone' => alone, UNCHANGED <<cmd, pidfile>>,
         \A p \in Pid : Live(p)' =>
           /\ Live(p) /\ os'[p].start = os[p].start
           /\ \/ os'[p].at = os[p].at
              \/ os[p].at \in {"serve", "drain"} /\ os'[p].at \in {"drain", "clean"}
  PROVE  AloneInv'
BY DEF AloneInv, OneServer, ServesNamed, Live, AtWork, Accompanied, Named

\* A server on its way to its socket, or back from the attempt.
LEMMA ServerStarts ==
  ASSUME AloneInv, UNCHANGED <<cmd, alone>>, NEW p \in Pid,
         os[p].what = "server", os[p].at \in {"port", "bind", "truncate", "record"},
         OneMoves(p), Advances(p), os'[p].at = "serve" => Named(p)'
  PROVE  AloneInv'
<1>1. os'[p].at \in {"bind", "truncate", "record", "serve", "clean"} /\ os'[p].what = "server"
  BY DEF Advances, Onward
<1>2. \A r \in Pid : Live(r)' = Live(r)
  BY <1>1 DEF OneMoves, Live
<1>3. Live(p)
  BY DEF Live
<1> SUFFICES ASSUME alone PROVE AloneInv'
  BY DEF AloneInv
<1>4. \A r \in Pid : Live(r) => r = p
  BY <1>3 DEF AloneInv, OneServer
<1>5. \A c \in Cmd : AtWork(c) => cmd[c].at \in Launching /\ p = cmd[c].child.pid
  BY <1>3 DEF AloneInv, Accompanied
<1>6. OneServer'
  BY <1>2, <1>4 DEF OneServer
<1>7. ServesNamed'
  BY <1>1, <1>2, <1>4 DEF ServesNamed
<1>8. \A c \in Cmd : AtWork(c)' => AtWork(c)
  BY DEF AtWork
<1>9. ASSUME NEW c \in Cmd, AtWork(c) PROVE Accompanied(c)'
  BY <1>2, <1>4, <1>5, <1>9 DEF Accompanied, Launching, Alone, Aim
<1> QED BY <1>6, <1>7, <1>8, <1>9 DEF AloneInv

\* The one command at work moves on.
LEMMA WorkGoesOn ==
  ASSUME AloneInv, alone' = alone, NEW c \in Cmd, AtWork(c), \A d \in Cmd \ {c} : cmd'[d] = cmd[d],
         alone => OneServer' /\ ServesNamed' /\ (AtWork(c)' => Accompanied(c)')
  PROVE  AloneInv'
<1> SUFFICES ASSUME alone PROVE AloneInv'
  BY DEF AloneInv
<1>1. \A d \in Cmd : AtWork(d)' => d = c
  BY DEF AloneInv, AtWork
<1> QED BY <1>1 DEF AloneInv

\* Servers are as they were.
LEMMA ServersStay ==
  ASSUME AloneInv, alone, UNCHANGED os
  PROVE  /\ \A p \in Pid : Live(p)' = Live(p)
         /\ OneServer'
         /\ UNCHANGED pidfile \/ (\A p \in Pid : ~Live(p)) => ServesNamed'
BY DEF AloneInv, OneServer, ServesNamed, Live, Named

\* A step of a server or of the world: whoever moves is a server that starts,
\* or only ends, lingers or closes its socket, or is no server of this index.
LEMMA BystandersMove ==
  ASSUME AloneInv, UNCHANGED <<cmd, pidfile, alone>>, NEW p \in Pid,
         \A r \in Pid \ {p} : os'[r] = os[r],
         \/ os'[p].what # "server" \/ os'[p].at = "linger"
         \/ /\ os[p].what = "server" /\ os'[p].start = os[p].start
            /\ os[p].at \in {"serve", "drain"} /\ os'[p].at \in {"drain", "clean"}
  PROVE  AloneInv'
<1>1. \A r \in Pid : Live(r)' =>
           /\ Live(r) /\ os'[r].start = os[r].start
           /\ \/ os'[r].at = os[r].at
              \/ os[r].at \in {"serve", "drain"} /\ os'[r].at \in {"drain", "clean"}
  BY DEF Live
<1> QED BY <1>1, ServersShrink

LEMMA ServerAlone ==
  ASSUME DaemonInv, BoundInv, AloneInv, NEW p \in Pid, ShutsDown(p) \/ Server(p)
  PROVE  AloneInv'
<1>1. UNCHANGED <<started, cmd, alone>>
  BY DEF ShutsDown, Server, ServerStep, run_mcp, run_http, TruncatePidfile,
         write_pidfile, Drained, remove_pidfile, Exit
<1>2. OneMoves(p) /\ started \in Nat
  BY ServerMoves DEF DaemonInv, DaemonKept
<1>3. /\ \A r \in Pid \ {p} : os'[r] = os[r]
      /\ Advances(p) \/ os'[p] = NoProc
  BY <1>1, <1>2 DEF OneMoves, Born
<1>4. CASE os[p].what # "server"
  <2>1. os'[p].what # "server"
    BY <1>3, <1>4 DEF Advances, NoProc
  <2>2. os[p].at \notin {"truncate", "record"}
    <3>1. os[p].what \in {"none", "other", "alien"}
      BY <1>4 DEF DaemonInv, DaemonKept, Process, Whats
    <3> QED BY <3>1 DEF BoundInv, NoProc, DaemonInv, OthersAreUnrecorded
  <2>3. UNCHANGED pidfile
    BY <1>4, <2>2 DEF ShutsDown, Server, run_mcp, run_http, TruncatePidfile,
                      write_pidfile, Drained, remove_pidfile, Exit
  <2> QED BY <1>1, <1>3, <2>1, <2>3, BystandersMove
<1>5. CASE os[p].what = "server" /\ os'[p] = NoProc
  <2>1. UNCHANGED pidfile
    <3>1. NoProc.at = "none"
      BY DEF NoProc
    <3>2. os[p].at \in {"truncate", "record", "clean"} => os'[p].at # "none"
      <4>1. os \in [Pid -> Process] /\ os[p] \in Process
        BY DEF DaemonInv, DaemonKept
      <4>2. os[p].at \in {"truncate", "record", "clean"} =>
              \E at \in {"record", "serve", "clean", "linger"} : os' = [os EXCEPT ![p].at = at]
        BY DEF ShutsDown, Server, run_mcp, run_http, TruncatePidfile, write_pidfile, Drained,
               remove_pidfile, Exit, Goes
      <4> QED BY <4>1, <4>2 DEF Process
    <3>3. os[p].at \notin {"truncate", "record", "clean"}
      BY <1>5, <3>1, <3>2
    <3> QED BY <3>3 DEF ShutsDown, Server, run_mcp, run_http, TruncatePidfile, write_pidfile,
                        Drained, remove_pidfile, Exit
  <2> QED BY <1>1, <1>3, <1>5, <2>1, BystandersMove DEF NoProc
<1>6. CASE os[p].what = "server" /\ Advances(p) /\ os[p].at \in {"port", "bind", "truncate", "record"}
  <2>1. os'[p].at = "serve" => Named(p)'
    <3> SUFFICES ASSUME os'[p].at = "serve" PROVE Named(p)'
      OBVIOUS
    <3>1. os[p].at = "record"
      BY <1>6 DEF Advances, Onward
    <3>2. write_pidfile(p)
      BY <3>1 DEF ShutsDown, Server, run_mcp, run_http, TruncatePidfile, Drained, remove_pidfile, Exit
    <3>3. ~Goes(p, "clean")
      <4>1. os \in [Pid -> Process] /\ os[p] \in Process
        BY DEF DaemonInv, DaemonKept
      <4> QED BY <4>1 DEF Goes, Process
    <3>4. PICK known \in StartKnown : pidfile' = RecordOf(p, known)
      BY <3>2, <3>3 DEF write_pidfile
    <3> QED BY <1>6, <3>4 DEF RecordOf, Named, Advances
  <2> QED BY <1>1, <1>2, <1>6, <2>1, ServerStarts
<1>7. CASE os[p].what = "server" /\ Advances(p) /\ os[p].at \in {"serve", "drain"}
  <2>1. UNCHANGED pidfile
    BY <1>7 DEF ShutsDown, Server, run_mcp, run_http, TruncatePidfile, write_pidfile, Drained,
                remove_pidfile, Exit
  <2>2. os'[p].at \in {"drain", "clean"} /\ os'[p].start = os[p].start
    BY <1>7 DEF Advances, Onward
  <2> QED BY <1>1, <1>3, <1>7, <2>1, <2>2, BystandersMove
<1>8. CASE os[p].what = "server" /\ Advances(p) /\ os[p].at = "clean"
  <2>1. pidfile' = NoFile
    BY <1>8 DEF ShutsDown, Server, run_mcp, run_http, TruncatePidfile, write_pidfile, Drained,
                remove_pidfile, Exit
  <2>2. os'[p].at = "linger"
    BY <1>8 DEF Advances, Onward
  <2> SUFFICES ASSUME alone PROVE AloneInv'
    BY <1>1 DEF AloneInv
  <2>3. \A r \in Pid : ~Live(r)'
    BY <1>3, <1>8, <2>2 DEF AloneInv, OneServer, Live
  <2> QED BY <1>1, <2>1, <2>3 DEF AloneInv, OneServer, ServesNamed, AtWork, Accompanied
<1>9. os[p].at \in {"port", "bind", "truncate", "record", "serve", "drain", "clean"} \/ ~Advances(p)
  BY DEF Advances, Onward
<1> QED BY <1>3, <1>4, <1>5, <1>6, <1>7, <1>8, <1>9

\* The command at work moves on; servers may end, and the pidfile stays.
LEMMA WorkShrinks ==
  ASSUME AloneInv, UNCHANGED <<alone, pidfile>>, NEW c \in Cmd, AtWork(c),
         \A d \in Cmd \ {c} : cmd'[d] = cmd[d],
         \A p \in Pid : Live(p)' =>
           /\ Live(p) /\ os'[p].start = os[p].start
           /\ os'[p].at = os[p].at \/ (os[p].at = "serve" /\ os'[p].at = "drain"),
         alone /\ AtWork(c)' =>
           /\ cmd[c].at \notin Launching /\ cmd'[c].at \notin Launching
           /\ cmd'[c].at \in Alone => \A p \in Pid : ~Live(p)
           /\ cmd'[c].at \in Aim => pidfile \in {cmd'[c].rec, NoFile}
  PROVE  AloneInv'
<1> SUFFICES ASSUME alone PROVE AloneInv'
  BY DEF AloneInv
<1>1. OneServer' /\ ServesNamed'
  BY DEF AloneInv, OneServer, ServesNamed, Named, Live
<1>2. AtWork(c)' => Accompanied(c)'
  BY DEF AloneInv, Accompanied, Named
<1> QED BY <1>1, <1>2, WorkGoesOn

\* The command at work removes the pidfile, once no server is left.
LEMMA WorkClears ==
  ASSUME AloneInv, UNCHANGED <<alone, os>>, NEW c \in Cmd, cmd[c].at \in {"remove", "forget"},
         pidfile' = NoFile, \A d \in Cmd \ {c} : cmd'[d] = cmd[d]
  PROVE  AloneInv'
<1>1. AtWork(c)
  BY DEF AtWork
<1>2. alone => \A p \in Pid : ~Live(p)
  BY <1>1 DEF AloneInv, Accompanied, Alone
<1>3. alone => \A p \in Pid : ~Live(p)'
  BY <1>2 DEF Live
<1> QED BY <1>1, <1>3, WorkGoesOn DEF OneServer, ServesNamed, Accompanied

\* With no pidfile, or with one whose process has gone, a command at work has
\* no server beside it.
LEMMA NoRecordNoServer ==
  ASSUME AloneInv, alone, NEW c \in Cmd, AtWork(c), cmd[c].at \notin Launching,
         pidfile = NoFile
  PROVE  \A p \in Pid : ~Live(p)
BY PidType DEF AloneInv, Accompanied, Named, NoFile

LEMMA GoneNoServer ==
  ASSUME AloneInv, alone, NEW c \in Cmd, cmd[c].at \in Aim \ Launching,
         check_recorded_process(cmd[c].rec) \in {"Gone", "DifferentStart"}
  PROVE  \A p \in Pid : ~Live(p)
<1> SUFFICES ASSUME NEW p \in Pid, Live(p) PROVE FALSE
  OBVIOUS
<1>1. AtWork(c) /\ cmd[c].at \notin Launching
  BY DEF AtWork, Aim
<1>2. Named(p) /\ pidfile \in {cmd[c].rec, NoFile}
  BY <1>1 DEF AloneInv, Accompanied
<1>3. pidfile = cmd[c].rec
  BY <1>2, PidType DEF Named, NoFile
<1>4. cmd[c].rec.pid = p /\ cmd[c].rec.start \in {0, os[p].start} /\ os[p].what # "none"
  BY <1>2, <1>3 DEF Named, Live
<1> QED BY <1>4 DEF check_recorded_process, pid_alive, process_start_time

LEMMA BirthAlone ==
  ASSUME DaemonInv, AloneInv, Foreground \/ Stranger
  PROVE  AloneInv'
<1>1. CASE Foreground
  <2> SUFFICES ASSUME alone' PROVE AloneInv'
    BY DEF AloneInv
  <2>1. PICK p \in Pid, port \in Port : Birth(p, "server", "port", port)
    BY <1>1 DEF Foreground
  <2>2. /\ \A r \in Pid \ {p} : os'[r] = os[r]
        /\ os'[p] = [what |-> "server", at |-> "port", start |-> started + 1, port |-> port]
    BY <2>1, BirthMoves
  <2>3. Servers = {} /\ \A c \in Cmd : ~AtWork(c)'
    BY <1>1 DEF Foreground, AtWork
  <2>4. \A r \in Pid : Live(r)' => r = p /\ os'[r].at = "port"
    BY <2>2, <2>3 DEF Live, Servers
  <2> QED BY <2>3, <2>4 DEF AloneInv, OneServer, ServesNamed
<1>2. CASE Stranger
  <2>1. PICK p \in Pid : \/ Birth(p, "other", "none", 0)
                         \/ Birth(p, "alien", "serve", DaemonPort)
    BY <1>2 DEF Stranger
  <2>2. UNCHANGED <<pidfile, cmd, alone>>
    BY <1>2 DEF Stranger
  <2>3. (\A r \in Pid \ {p} : os'[r] = os[r]) /\ os'[p].what # "server"
    <3>1. CASE Birth(p, "other", "none", 0)
      <4>1. (\A r \in Pid \ {p} : os'[r] = os[r])
            /\ os'[p] = [what |-> "other", at |-> "none", start |-> started + 1, port |-> 0]
        BY <3>1, BirthMoves
      <4> QED BY <4>1
    <3>2. CASE Birth(p, "alien", "serve", DaemonPort)
      <4>1. (\A r \in Pid \ {p} : os'[r] = os[r])
            /\ os'[p] = [what |-> "alien", at |-> "serve", start |-> started + 1, port |-> DaemonPort]
        BY <3>2, BirthMoves
      <4> QED BY <4>1
    <3> QED BY <2>1, <3>1, <3>2
  <2> QED BY <2>2, <2>3, BystandersMove
<1> QED BY <1>1, <1>2

LEMMA BeginAlone ==
  ASSUME DaemonInv, BoundInv, AloneInv, NEW c \in Cmd, Begin(c)
  PROVE  AloneInv'
<1> SUFFICES ASSUME alone' PROVE AloneInv'
  BY DEF AloneInv
<1>1. PICK op \in Ops : cmd' = [cmd EXCEPT ![c] = [Idle EXCEPT !.op = op, !.at = "read"]]
  BY DEF Begin
<1>2. cmd'[c].at = "read" /\ \A d \in Cmd \ {c} : cmd'[d] = cmd[d]
  BY <1>1 DEF DaemonInv, DaemonKept, Idle
<1>3. /\ alone /\ UNCHANGED <<os, pidfile>>
      /\ \A d \in Cmd : cmd[d].at = "idle"
      /\ \A p \in Servers : os[p].at \notin {"port", "bind", "truncate", "record", "clean"}
  BY DEF Begin, Running
<1>4. \A d \in Cmd : AtWork(d)' => d = c
  BY <1>2, <1>3 DEF AtWork
<1>5. \A p \in Pid : Live(p) => os[p].at \in {"serve", "drain"}
  <2>1. \A p \in Pid : os[p] \in Process
    BY DEF DaemonInv, DaemonKept
  <2> QED BY <1>3, <2>1 DEF BoundInv, Live, Servers, Process, Stages
<1>6. Accompanied(c)'
  BY <1>2, <1>3, <1>5 DEF Accompanied, Launching, Alone, Aim, AloneInv, ServesNamed, Named, Live
<1> QED BY <1>3, <1>4, <1>6 DEF AloneInv, OneServer, ServesNamed, Live, Named

LEMMA SignalAlone ==
  ASSUME DaemonInv, AloneInv, NEW c \in Cmd, signal_terminate(c) \/ signal_kill(c)
  PROVE  AloneInv'
<1>1. cmd[c].at \in {"signal", "kill"} /\ UNCHANGED <<started, pidfile, alone>>
  BY DEF signal_terminate, signal_kill
<1>2. cmd[c].rec.pid \in Pid /\ AtWork(c)
  BY <1>1, CommandTarget DEF Aim, AtWork
<1>3. To(c, "wait") \/ To(c, "killed") \/ End(c, "refused")
  BY DEF signal_terminate, signal_kill
<1>4. /\ \A d \in Cmd \ {c} : cmd'[d] = cmd[d]
      /\ cmd'[c].at = "idle" \/ (cmd'[c].at \in {"wait", "killed"} /\ cmd'[c].rec = cmd[c].rec)
  BY <1>3, ToIs, EndIs
<1>5. \/ UNCHANGED os \/ Dies(cmd[c].rec.pid)
      \/ os[cmd[c].rec.pid].at = "serve" /\ Goes(cmd[c].rec.pid, "drain")
  BY DEF signal_terminate, signal_kill
<1>6. \A p \in Pid : Live(p)' =>
        /\ Live(p) /\ os'[p].start = os[p].start
        /\ os'[p].at = os[p].at \/ (os[p].at = "serve" /\ os'[p].at = "drain")
  <2>1. CASE UNCHANGED os
    BY <2>1 DEF Live
  <2>2. CASE Dies(cmd[c].rec.pid)
    BY <1>2, <2>2, DiesMoves DEF Live, NoProc
  <2>3. CASE os[cmd[c].rec.pid].at = "serve" /\ Goes(cmd[c].rec.pid, "drain")
    <3>1. \A p \in Pid : os[p] \in Process
      BY DEF DaemonInv, DaemonKept
    <3>2. \A p \in Pid : os'[p] = IF p = cmd[c].rec.pid THEN [os[p] EXCEPT !.at = "drain"] ELSE os[p]
      BY <1>2, <2>3 DEF Goes, DaemonInv, DaemonKept
    <3> QED BY <2>3, <3>1, <3>2 DEF Live, Process
  <2> QED BY <1>5, <2>1, <2>2, <2>3
<1>7. alone => pidfile \in {cmd[c].rec, NoFile}
  BY <1>1, <1>2 DEF AloneInv, Accompanied, Aim
<1> QED BY <1>1, <1>2, <1>4, <1>6, <1>7, WorkShrinks DEF AtWork, Launching, Alone

\* The command at work only looks.
LEMMA WorkLooks ==
  ASSUME DaemonInv, AloneInv, NEW c \in Cmd, cmd[c].at \notin {"idle", "off"} \cup Launching,
         UNCHANGED <<os, pidfile, alone>>,
         \/ \E at \in Places \ Launching :
              /\ To(c, at)
              /\ at \in Aim => cmd[c].at \in Aim
              /\ alone /\ at \in Alone => \A p \in Pid : ~Live(p)
         \/ \E how \in Outcomes : End(c, how)
  PROVE  AloneInv'
<1>1. AtWork(c)
  BY DEF AtWork
<1>2. \A p \in Pid : Live(p)' => Live(p)
  BY DEF Live
<1>3. CASE \E how \in Outcomes : End(c, how)
  <2>1. PICK how \in Outcomes : End(c, how)
    BY <1>3
  <2>2. cmd'[c].at = "idle" /\ \A d \in Cmd \ {c} : cmd'[d] = cmd[d]
    BY <2>1, EndIs
  <2> QED BY <1>1, <1>2, <2>2, WorkShrinks DEF AtWork
<1>4. ASSUME NEW at \in Places \ Launching,
             To(c, at), at \in Aim => cmd[c].at \in Aim,
             alone /\ at \in Alone => \A p \in Pid : ~Live(p)
      PROVE  AloneInv'
  <2>1. cmd'[c].at = at /\ cmd'[c].rec = cmd[c].rec /\ \A d \in Cmd \ {c} : cmd'[d] = cmd[d]
    BY <1>4, ToIs
  <2>2. alone /\ at \in Aim => pidfile \in {cmd[c].rec, NoFile}
    BY <1>1, <1>4 DEF AloneInv, Accompanied
  <2> QED BY <1>1, <1>2, <1>4, <2>1, <2>2, WorkShrinks
<1> QED BY <1>3, <1>4

LEMMA ReadAlone ==
  ASSUME DaemonInv, AloneInv, NEW c \in Cmd, read_pidfile(c)
  PROVE  AloneInv'
<1>1. cmd[c].at = "read" /\ UNCHANGED <<os, pidfile, alone>> /\ AtWork(c)
  BY DEF read_pidfile, OnlyCmd, AtWork
<1>2. CASE cmd' = [cmd EXCEPT ![c].rec = pidfile, ![c].at = "ask"]
  <2>1. cmd'[c].at = "ask" /\ cmd'[c].rec = pidfile /\ \A d \in Cmd \ {c} : cmd'[d] = cmd[d]
    BY <1>2 DEF DaemonInv, DaemonKept, Order
  <2>2. \A p \in Pid : Live(p)' => Live(p)
    BY <1>1 DEF Live
  <2> QED BY <1>1, <2>1, <2>2, WorkShrinks DEF Launching, Alone
<1>3. CASE pidfile = NoFile /\ (To(c, "port") \/ End(c, "refused"))
  <2>1. alone => \A p \in Pid : ~Live(p)
    BY <1>1, <1>3, NoRecordNoServer DEF Launching
  <2>2. "port" \in Places \ Launching /\ "port" \notin Aim /\ "refused" \in Outcomes
    BY DEF Places, Launching, Aim, Outcomes
  <2> QED BY <1>1, <1>3, <2>1, <2>2, WorkLooks DEF Launching
<1> QED BY <1>2, <1>3 DEF read_pidfile

LEMMA VerifyAlone ==
  ASSUME DaemonInv, AloneInv, NEW c \in Cmd, Verify(c)
  PROVE  AloneInv'
<1>1. cmd[c].at = "ask" /\ UNCHANGED <<os, pidfile, alone>>
  BY DEF Verify, OnlyCmd
<1>2. PICK answer : Judge(c, verify_identity(cmd[c].rec, answer))
  BY DEF Verify
<1>3. \/ To(c, "remove") /\ check_recorded_process(cmd[c].rec) \in {"Gone", "DifferentStart"}
      \/ To(c, "signal") \/ End(c, "refused")
  BY <1>2 DEF Judge, verify_identity, identity_without_health, check_recorded_process
<1>4. check_recorded_process(cmd[c].rec) \in {"Gone", "DifferentStart"} /\ alone
        => \A p \in Pid : ~Live(p)
  BY <1>1, GoneNoServer DEF Aim, Launching
<1>5. {"remove", "signal"} \subseteq Places \ Launching /\ "refused" \in Outcomes
      /\ "signal" \notin Alone /\ "ask" \in Aim
  BY DEF Places, Launching, Outcomes, Alone, Aim
<1> QED BY <1>1, <1>3, <1>4, <1>5, WorkLooks DEF Launching

\* A command forgets a process that has gone.
LEMMA WaitsAlone ==
  ASSUME DaemonInv, AloneInv, NEW c \in Cmd, wait_for_gone(c) \/ Recheck(c) \/ WaitKilled(c)
  PROVE  AloneInv'
<1>1. cmd[c].at \in {"wait", "recheck", "killed"} /\ UNCHANGED <<os, pidfile, alone>>
  BY DEF wait_for_gone, Recheck, WaitKilled, OnlyCmd
<1>2. \/ To(c, "forget") /\ check_recorded_process(cmd[c].rec) = "Gone"
      \/ To(c, "recheck") \/ To(c, "kill") \/ End(c, "refused") \/ End(c, "slow")
  BY DEF wait_for_gone, Recheck, WaitKilled, check_recorded_process
<1>3. check_recorded_process(cmd[c].rec) = "Gone" /\ alone => \A p \in Pid : ~Live(p)
  BY <1>1, GoneNoServer DEF Aim, Launching
<1>4. {"forget", "recheck", "kill"} \subseteq Places \ Launching /\ {"refused", "slow"} \subseteq Outcomes
      /\ {"recheck", "kill"} \cap Alone = {} /\ cmd[c].at \in Aim
  BY <1>1 DEF Places, Launching, Outcomes, Alone, Aim
<1> QED BY <1>1, <1>2, <1>3, <1>4, WorkLooks DEF Launching

LEMMA LaunchAlone ==
  ASSUME DaemonInv, AloneInv, NEW c \in Cmd,
         CheckPort(c) \/ Spawn(c) \/ wait_for_health(c) \/ Reap(c)
  PROVE  AloneInv'
<1>0. UNCHANGED <<pidfile, alone>> /\ AtWork(c)
  BY DEF CheckPort, Spawn, wait_for_health, Reap, OnlyCmd, AtWork
<1>1. CASE CheckPort(c)
  <2>1. cmd[c].at = "port" /\ UNCHANGED os
    BY <1>1 DEF CheckPort, OnlyCmd
  <2>2. \A p \in Pid : Live(p)' => Live(p)
    BY <2>1 DEF Live
  <2>3. CASE cmd' = [cmd EXCEPT ![c].rec = NoFile, ![c].at = "spawn"]
    <3>1. cmd'[c].at = "spawn" /\ \A d \in Cmd \ {c} : cmd'[d] = cmd[d]
      BY <2>3 DEF DaemonInv, DaemonKept, Order
    <3>2. alone => \A p \in Pid : ~Live(p)
      BY <1>0, <2>1 DEF AloneInv, Accompanied, Alone
    <3> QED BY <1>0, <2>1, <2>2, <3>1, <3>2, WorkShrinks DEF Launching, Aim
  <2>4. CASE End(c, "refused")
    BY <1>0, <2>1, <2>4, WorkLooks DEF Launching, Outcomes
  <2> QED BY <1>1, <2>3, <2>4 DEF CheckPort
<1>2. CASE Spawn(c) /\ End(c, "refused") /\ UNCHANGED os
  BY <1>0, <1>2, WorkLooks DEF Spawn, Launching, Outcomes
<1>3. ASSUME Spawn(c), NEW p \in Pid, Birth(p, "server", "port", DaemonPort),
             cmd' = [cmd EXCEPT ![c].at = "health",
                       ![c].child = [pid |-> p, start |-> started + 1, port |-> DaemonPort]]
      PROVE  AloneInv'
  <2>1. cmd'[c].at = "health" /\ cmd'[c].child.pid = p /\ \A d \in Cmd \ {c} : cmd'[d] = cmd[d]
    BY <1>3 DEF DaemonInv, DaemonKept, Order
  <2>2. /\ \A r \in Pid \ {p} : os'[r] = os[r]
        /\ os'[p] = [what |-> "server", at |-> "port", start |-> started + 1, port |-> DaemonPort]
    BY <1>3, BirthMoves
  <2>3. alone => \A r \in Pid : ~Live(r)
    BY <1>0, <1>3 DEF Spawn, AloneInv, Accompanied, Alone
  <2>4. alone => \A r \in Pid : Live(r)' => r = p /\ os'[r].at = "port"
    BY <2>2, <2>3 DEF Live
  <2>5. alone => OneServer' /\ ServesNamed' /\ Accompanied(c)'
    BY <2>1, <2>4 DEF OneServer, ServesNamed, Accompanied, Launching, Alone, Aim
  <2> QED BY <1>0, <2>1, <2>5, WorkGoesOn
<1>4. CASE wait_for_health(c)
  <2>1. cmd[c].at = "health" /\ UNCHANGED os
    BY <1>4 DEF wait_for_health, OnlyCmd
  <2>2. \A p \in Pid : Live(p)' => Live(p)
    BY <2>1 DEF Live
  <2>3. CASE End(c, "started")
    <3>1. ~AtWork(c)' /\ \A d \in Cmd \ {c} : cmd'[d] = cmd[d]
      BY <2>3, EndIs DEF AtWork
    <3> QED BY <1>0, <2>1, <2>2, <3>1, WorkShrinks
  <2>4. CASE To(c, "reap")
    <3>1. cmd'[c].at = "reap" /\ cmd'[c].child = cmd[c].child /\ \A d \in Cmd \ {c} : cmd'[d] = cmd[d]
      BY <2>4, ToIs
    <3>2. alone => OneServer' /\ ServesNamed'
      BY <1>0, <2>1, ServersStay
    <3>3. alone => Accompanied(c)'
      BY <1>0, <2>1, <2>2, <3>1 DEF AloneInv, Accompanied, Launching, Alone, Aim
    <3> QED BY <1>0, <3>1, <3>2, <3>3, WorkGoesOn
  <2> QED BY <1>4, <2>3, <2>4 DEF wait_for_health
<1>5. CASE Reap(c)
  <2>1. Dies(cmd[c].child.pid) /\ End(c, "unhealthy")
    BY <1>5 DEF Reap
  <2>2. ~AtWork(c)' /\ \A d \in Cmd \ {c} : cmd'[d] = cmd[d]
    BY <2>1, EndIs DEF AtWork
  <2>3. \A p \in Pid : os'[p] = IF p = cmd[c].child.pid THEN NoProc ELSE os[p]
    BY <2>1 DEF Dies, DaemonInv, DaemonKept
  <2>4. \A p \in Pid : Live(p)' => Live(p) /\ os'[p] = os[p]
    BY <2>3 DEF Live, NoProc
  <2> QED BY <1>0, <2>2, <2>4, WorkShrinks
<1> QED BY <1>1, <1>2, <1>3, <1>4, <1>5 DEF Spawn

LEMMA AloneStep ==
  ASSUME DaemonInv, BoundInv, AloneInv, [DaemonNext]_daemonVars
  PROVE  AloneInv'
<1>1. CASE UNCHANGED daemonVars
  BY <1>1, ServersShrink DEF daemonVars, Live
<1>2. CASE Foreground \/ Stranger
  BY <1>2, BirthAlone
<1>3. CASE Crash
  <2>1. PICK p \in Pid : Dies(p)
    BY <1>3 DEF Crash, Servers
  <2>2. os'[p] = NoProc /\ \A r \in Pid \ {p} : os'[r] = os[r]
    BY <2>1, DiesMoves
  <2> QED BY <1>3, <2>2, BystandersMove DEF Crash, NoProc
<1>4. ASSUME NEW p \in Pid, ShutsDown(p) \/ Server(p) PROVE AloneInv'
  BY <1>4, ServerAlone
<1>5. ASSUME NEW c \in Cmd, Begin(c) PROVE AloneInv'
  BY <1>5, BeginAlone
<1>6. ASSUME NEW c \in Cmd, RemoveStale(c) \/ Forget(c) PROVE AloneInv'
  <2>1. cmd[c].at \in {"remove", "forget"} /\ pidfile' = NoFile /\ UNCHANGED <<os, alone>>
    BY <1>6 DEF RemoveStale, Forget
  <2>2. \A d \in Cmd \ {c} : cmd'[d] = cmd[d]
    BY <1>6, ToIs, EndIs DEF RemoveStale, Forget
  <2> QED BY <2>1, <2>2, WorkClears
<1>7. ASSUME NEW c \in Cmd, Command(c), ~(RemoveStale(c) \/ Forget(c)) PROVE AloneInv'
  BY <1>7, ReadAlone, VerifyAlone, SignalAlone, WaitsAlone, LaunchAlone DEF Command
<1> QED BY <1>1, <1>2, <1>3, <1>4, <1>5, <1>6, <1>7 DEF DaemonNext

ReportsInv == DaemonInv /\ BoundInv /\ CommandInv /\ AloneInv

LEMMA ReportsFollow == ReportsInv => ReportsAreTrue
<1> SUFFICES ASSUME ReportsInv PROVE ReportsAreTrue
  OBVIOUS
<1>1. DaemonTypes
  BY TypesHold DEF ReportsInv
<1>2. ServingIsRecorded
  BY DEF ReportsInv, AloneInv, ServesNamed, ServingIsRecorded, Servers, Live, Named
<1>3. StoppedHasEnded /\ FailedLaunchLeavesNothing
  BY DEF ReportsInv, CommandInv, Ended, Nowhere, StoppedHasEnded, FailedLaunchLeavesNothing, Servers
<1> QED BY <1>1, <1>2, <1>3 DEF ReportsAreTrue

\* However servers, commands and the world interleave: as long as servers and
\* commands did not overlap, a serving server is named by the pidfile; when
\* `rqmd mcp stop` reports success the process it read has ended; and a
\* `--daemon` that reports a failed launch leaves no server behind.
THEOREM ReportsCanBeTrusted == Spec => []ReportsAreTrue
<1>1. Init => ReportsInv
  BY DaemonStart, BoundInit, CommandInit, AloneInit DEF Init, ReportsInv
<1>2. ReportsInv /\ [Next]_vars => ReportsInv'
  <2> SUFFICES ASSUME ReportsInv, [Next]_vars PROVE ReportsInv'
    OBVIOUS
  <2>1. [DaemonNext]_daemonVars
    BY DEF Next, vars
  <2>2. DaemonInv'
    BY <2>1, DaemonStep DEF ReportsInv
  <2>3. BoundInv' /\ CommandInv' /\ AloneInv'
    BY <2>1, <2>2, BoundStep, CommandStep, AloneStep DEF ReportsInv
  <2> QED BY <2>2, <2>3 DEF ReportsInv
<1> QED BY <1>1, <1>2, ReportsFollow, PTL DEF Spec

\* Whatever pids are reused, whatever crashes or hangs, and however many
\* commands and servers run at once: `rqmd mcp --stop`, with or without
\* --force, signals no process that is not an rqmd server.
THEOREM NoStrangerIsSignalled == Spec => []StrangerIsSpared
<1>1. Init => DaemonInv
  BY DaemonStart DEF Init
<1>2. DaemonInv /\ [Next]_vars => DaemonInv'
  <2> SUFFICES ASSUME DaemonInv, [Next]_vars PROVE DaemonInv'
    OBVIOUS
  <2>1. [DaemonNext]_daemonVars
    BY DEF Next, vars
  <2> QED BY <2>1, DaemonStep
<1>3. DaemonInv => StrangerIsSpared
  BY DEF DaemonInv
<1> QED BY <1>1, <1>2, <1>3, PTL DEF Spec

-----------------------------------------------------------------------------
(* The catalog: jobs and the locks they hold.                              *)

\* The steps a command takes under the index lock.
Guarded == {"documents", "row", "contexts", "entries", "tx", "commit"}

JobsKept ==
  /\ job \in [Proc -> Job]
  /\ lock \in Proc \cup {Nobody} /\ writer \in Proc \cup {Nobody}
  /\ \A p \in Proc : (lock = p) <=> job[p].pc \in Guarded
  /\ writer = Nobody \/ job[writer].pc \in {"flush", "commit"}

CatalogKept == nextId \in Nat \ {0} /\ JobsKept /\ CatalogTypes

LEMMA NoJobType == NoJob \in Job /\ NoJob.pc = "idle" /\ NoJob.names = {}
<1>1. PICK n \in Name : n = (CHOOSE m \in Name : TRUE)
  BY NameType
<1>2. [hidden |-> FALSE, gitignore |-> FALSE] \in Flags /\ Unset \in Kept
  BY DEF Flags, Unset, Kept
<1> QED BY <1>1, <1>2 DEF NoJob, Job, PCs

\* A command takes a step: its job becomes r.
LEMMA Takes ==
  ASSUME job \in [Proc -> Job], NEW p \in Proc, NEW r, Step(p, r)
  PROVE  job'[p] = r /\ (\A q \in Proc \ {p} : job'[q] = job[q])
         /\ (r \in Job => job' \in [Proc -> Job])
BY DEF Step

LEMMA Finishes ==
  ASSUME job \in [Proc -> Job], NEW p \in Proc, Finish(p)
  PROVE  /\ job'[p].pc = "idle" /\ job'[p].names = {}
         /\ \A q \in Proc \ {p} : job'[q] = job[q]
         /\ job' \in [Proc -> Job]
BY NoJobType, Takes DEF Finish

\* The locks after a step: taken or kept by a step that needs them, given back
\* by the last.
LEMMA LocksFollow ==
  ASSUME JobsKept, NEW p \in Proc, job' \in [Proc -> Job], \A q \in Proc \ {p} : job'[q] = job[q],
         \/ job'[p].pc \in Guarded /\ (Acquire(p) \/ (lock = p /\ UNCHANGED lock))
         \/ job'[p].pc \notin Guarded /\ (Release(p) \/ (lock # p /\ UNCHANGED lock)),
         \/ writer' = writer /\ (writer = p => job'[p].pc \in {"flush", "commit"})
         \/ writer' = p /\ job'[p].pc \in {"flush", "commit"}
         \/ writer' = Released(p)
  PROVE  JobsKept'
<1>1. lock' \in Proc \cup {Nobody} /\ writer' \in Proc \cup {Nobody}
  BY DEF JobsKept, Acquire, Release, Released
<1>2. \A q \in Proc : (lock' = q) <=> job'[q].pc \in Guarded
  BY AbsentType DEF JobsKept, Acquire, Release
<1>3. writer' = Nobody \/ job'[writer'].pc \in {"flush", "commit"}
  BY AbsentType DEF JobsKept, Released
<1> QED BY <1>1, <1>2, <1>3 DEF JobsKept

LEMMA LockStays ==
  ASSUME JobsKept, NEW p \in Proc
  PROVE  /\ job[p].pc \in Guarded <=> lock = p
         /\ job[p].pc \notin {"flush", "commit"} => writer # p
BY AbsentType DEF JobsKept

\* What a command starts with.
Opens(p, r) ==
  /\ job[p].pc = "idle" /\ job'[p] = r /\ \A q \in Proc \ {p} : job'[q] = job[q]
  /\ job' \in [Proc -> Job]
  /\ UNCHANGED <<cols, rows, fts, contexts, orphans, writer, chosen, torn, nextId>>

LEMMA LaunchOpens ==
  ASSUME CatalogKept, NEW p \in Proc, Launch(p)
  PROVE  \E r \in Job :
           /\ Opens(p, r)
           /\ \/ /\ r.pc = "upsert" /\ r.names = {r.name} /\ raced' = Spoilt(r.name)
                 /\ UNCHANGED lock
                 /\ r.keep = IF Exists(r.name) THEN cols[r.name].keep ELSE Unset
              \/ /\ r.pc = "write" /\ r.names = {r.name} /\ raced' = Spoilt(r.name)
                 /\ UNCHANGED lock
                 /\ r.change \subseteq Rules
                 /\ \A f \in Settings \ r.change : r.keep[f] = cols[r.name].keep[f]
              \/ /\ r.pc = "documents" /\ r.names = {r.name} /\ raced' = raced \cup Met(r.names)
                 /\ lock = Nobody /\ lock' = p /\ r.snap = fts
              \/ /\ r.pc = "tx" /\ r.names = {r.name, r.to} /\ raced' = raced \cup Met(r.names)
                 /\ lock = Nobody /\ lock' = p /\ r.snap = fts /\ r.name # r.to
<1>0. \A n \in Name : n \in DOMAIN cols => cols[n].keep \in Kept
  BY DEF CatalogKept, CatalogTypes
<1>1. ASSUME NEW r \in Job, Step(p, r), job[p].pc = "idle",
             UNCHANGED <<cols, rows, fts, contexts, orphans, writer, chosen, torn, nextId>>
      PROVE  Opens(p, r)
  BY <1>1, Takes DEF Opens, CatalogKept, CatalogTypes
<1>2. ASSUME NEW n \in Name, NEW w \in AddFlags, AddRead(p, n, w)
      PROVE  \E r \in Job : /\ Opens(p, r)
               /\ r.pc = "upsert" /\ r.names = {r.name} /\ raced' = Spoilt(r.name)
               /\ UNCHANGED lock
               /\ r.keep = IF Exists(r.name) THEN cols[r.name].keep ELSE Unset
  <2> DEFINE k == IF Exists(n) THEN cols[n].keep ELSE Unset
             r == [NoJob EXCEPT !.pc = "upsert", !.names = {n}, !.name = n, !.flags = w, !.keep = k]
  <2>1. k \in Kept /\ w \in Flags
    BY <1>0, AddFlagsType DEF Unset, Kept, Exists
  <2>2. r \in Job /\ r.pc = "upsert" /\ r.names = {n} /\ r.name = n /\ r.keep = k
    <3> HIDE DEF k
    <3> QED BY <2>1, NoJobType DEF Job, PCs
  <2>3. Step(p, r) /\ Opens(p, r)
    BY <1>1, <1>2, <2>2 DEF AddRead
  <2> HIDE DEF r
  <2> QED BY <1>2, <2>2, <2>3 DEF AddRead
<1>3. ASSUME NEW n \in Name, RemoveOpen(p, n)
      PROVE  \E r \in Job : /\ Opens(p, r)
               /\ r.pc = "documents" /\ r.names = {r.name} /\ raced' = raced \cup Met(r.names)
               /\ lock = Nobody /\ lock' = p /\ r.snap = fts
  <2> DEFINE r == [NoJob EXCEPT !.pc = "documents", !.names = {n}, !.name = n, !.snap = fts]
  <2>1. r \in Job /\ r.pc = "documents" /\ r.names = {n} /\ r.name = n /\ r.snap = fts
    BY NoJobType DEF Job, PCs, CatalogKept, CatalogTypes
  <2>2. Step(p, r) /\ Opens(p, r)
    BY <1>1, <1>3, <2>1 DEF RemoveOpen
  <2> HIDE DEF r
  <2> QED BY <1>3, <2>1, <2>2 DEF RemoveOpen, Acquire
<1>4. ASSUME NEW n \in Name, NEW c \in Changes, SetRead(p, n, c)
      PROVE  \E r \in Job : /\ Opens(p, r)
               /\ r.pc = "write" /\ r.names = {r.name} /\ raced' = Spoilt(r.name)
               /\ UNCHANGED lock
               /\ r.change \subseteq Rules
               /\ \A f \in Settings \ r.change : r.keep[f] = cols[r.name].keep[f]
  <2> DEFINE k == [f \in Settings |-> IF f \in DOMAIN c THEN c[f] ELSE cols[n].keep[f]]
             r == [NoJob EXCEPT !.pc = "write", !.names = {n}, !.name = n,
                                !.change = DOMAIN c, !.keep = k]
  <2>1. DOMAIN c \subseteq Rules /\ \A f \in DOMAIN c : c[f] \in BOOLEAN
    BY DEF Changes, Rules
  <2>2. k \in Kept /\ \A f \in Settings \ DOMAIN c : k[f] = cols[n].keep[f]
    BY <1>0, <1>4, <2>1 DEF SetRead, Exists, Kept
  <2>3. r \in Job /\ r.pc = "write" /\ r.names = {n} /\ r.name = n /\ r.change = DOMAIN c /\ r.keep = k
    <3> HIDE DEF k
    <3> QED BY <2>1, <2>2, NoJobType DEF Job, PCs, Settings
  <2>4. Step(p, r) /\ Opens(p, r)
    BY <1>1, <1>4, <2>3 DEF SetRead
  <2> HIDE DEF r, k
  <2> QED BY <1>4, <2>1, <2>2, <2>3, <2>4 DEF SetRead
<1>5. ASSUME NEW n \in Name, NEW new \in Name, RenameOpen(p, n, new)
      PROVE  \E r \in Job : /\ Opens(p, r)
               /\ r.pc = "tx" /\ r.names = {r.name, r.to} /\ raced' = raced \cup Met(r.names)
               /\ lock = Nobody /\ lock' = p /\ r.snap = fts /\ r.name # r.to
  <2> DEFINE r == [NoJob EXCEPT !.pc = "tx", !.names = {n, new}, !.name = n, !.to = new, !.snap = fts]
  <2>1. r \in Job /\ r.pc = "tx" /\ r.names = {n, new} /\ r.name = n /\ r.to = new /\ r.snap = fts
    BY NoJobType DEF Job, PCs, CatalogKept, CatalogTypes
  <2>2. Step(p, r) /\ Opens(p, r)
    BY <1>1, <1>5, <2>1 DEF RenameOpen
  <2> HIDE DEF r
  <2> QED BY <1>5, <2>1, <2>2 DEF RenameOpen, Acquire
<1> QED BY <1>2, <1>3, <1>4, <1>5 DEF Launch

LEMMA JobsOpen ==
  ASSUME CatalogKept, NEW p \in Proc, Launch(p)
  PROVE  JobsKept'
<1>1. PICK r \in Job :
        /\ Opens(p, r)
        /\ \/ r.pc \in {"upsert", "write"} /\ UNCHANGED lock
           \/ r.pc \in {"documents", "tx"} /\ lock = Nobody /\ lock' = p
  BY LaunchOpens
<1>2. lock # p /\ writer # p
  BY <1>1, LockStays DEF CatalogKept, Guarded, Opens
<1>3. job' \in [Proc -> Job]
  BY <1>1 DEF Opens
<1> QED BY <1>1, <1>2, <1>3, LocksFollow DEF CatalogKept, Opens, Guarded, Acquire

\* Commands end.
LEMMA JobsEnd ==
  ASSUME CatalogKept, NEW p \in Proc,
         \/ AddUnstaged(p) \/ AddFlush(p) \/ RemoveEntries(p) \/ RenameFails(p)
         \/ RenameCommit(p) \/ set_collection_embed_rules(p) \/ JobDies(p)
  PROVE  JobsKept'
<1>1. Finish(p)
  BY DEF AddUnstaged, AddFlush, RemoveEntries, RenameFails, RenameCommit,
         set_collection_embed_rules, JobDies
<1>2. /\ job'[p].pc = "idle" /\ \A q \in Proc \ {p} : job'[q] = job[q]
      /\ job' \in [Proc -> Job]
  BY <1>1, Finishes DEF CatalogKept, JobsKept
<1>3. Release(p) \/ (lock # p /\ UNCHANGED lock)
  BY LockStays DEF CatalogKept, Guarded, AddUnstaged, AddFlush, RemoveEntries, RenameFails,
     RenameCommit, set_collection_embed_rules, JobDies
<1>4. writer' = Released(p) \/ (writer # p /\ UNCHANGED writer)
  BY LockStays DEF CatalogKept, AddUnstaged, AddFlush, RemoveEntries, RenameFails,
     RenameCommit, set_collection_embed_rules, JobDies
<1> QED BY <1>2, <1>3, <1>4, LocksFollow DEF CatalogKept, Guarded

\* Commands go on.
LEMMA NewFiles ==
  ASSUME CatalogKept, NEW p \in Proc
  PROVE  New(p) \subseteq Name \X Files /\ collect_candidates(job[p].flags) \subseteq Files
         /\ \A e \in New(p) : e[1] = job[p].name
BY DEF CatalogKept, JobsKept, New, collect_candidates, walk_paths, Job

LEMMA RenamedRows ==
  ASSUME CatalogKept, NEW p \in Proc, rename_collection(p)
  PROVE  /\ rows' \subseteq Name \X Files
         /\ rows' = {<<Moved(r[1], job[p].name, job[p].to), r[2]>> : r \in rows}
         /\ job'[p] = [job[p] EXCEPT !.pc = "commit", !.ins = {r \in rows' : r[1] = job[p].to},
                        !.del = ({r \in rows' : r[1] = job[p].to} \cap job[p].snap)
                                \cup (job[p].snap \ rows')]
         /\ \A q \in Proc \ {p} : job'[q] = job[q]
         /\ UNCHANGED <<fts, lock, torn>>
         /\ writer' = IF {r \in rows' : r[1] = job[p].to} \cup (job[p].snap \ rows') = {}
                      THEN writer ELSE p
         /\ writer' # writer => writer = Nobody
<1>1. rows \subseteq Name \X Files /\ job[p].name \in Name /\ job[p].to \in Name
  BY DEF CatalogKept, CatalogTypes, Job
<1>2. rows' = {<<Moved(r[1], job[p].name, job[p].to), r[2]>> : r \in rows}
  BY DEF rename_collection
<1>3. rows' \subseteq Name \X Files
  BY <1>1, <1>2 DEF Moved
<1>4. job' = [job EXCEPT ![p] = [job[p] EXCEPT !.pc = "commit", !.ins = {r \in rows' : r[1] = job[p].to},
                !.del = ({r \in rows' : r[1] = job[p].to} \cap job[p].snap) \cup (job[p].snap \ rows')]]
  BY DEF rename_collection, Stale, Step
<1>5. UNCHANGED <<fts, lock, torn>>
  BY DEF rename_collection
<1>6. /\ writer' = IF {r \in rows' : r[1] = job[p].to}
                        \cup (({r \in rows' : r[1] = job[p].to} \cap job[p].snap) \cup (job[p].snap \ rows')) = {}
                   THEN writer ELSE p
      /\ writer' # writer => writer = Nobody
  BY DEF rename_collection, Stale
<1> QED BY <1>2, <1>3, <1>4, <1>5, <1>6 DEF CatalogKept, JobsKept

LEMMA JobsGoOn ==
  ASSUME CatalogKept, NEW p \in Proc,
         \/ upsert_collection(p) \/ AddDocuments(p)
         \/ PurgeDocuments(p) \/ PurgeRow(p) \/ PurgeContexts(p) \/ rename_collection(p)
  PROVE  JobsKept'
<1>0. job[p] \in Job /\ JobsKept /\ rows \subseteq Name \X Files
  BY DEF CatalogKept, JobsKept, CatalogTypes
<1>1. CASE upsert_collection(p)
  <2>1. [job[p] EXCEPT !.pc = "walk"] \in Job /\ [job[p] EXCEPT !.pc = "walk"].pc = "walk"
    BY <1>0 DEF Job, PCs
  <2>2. job'[p].pc = "walk" /\ (\A q \in Proc \ {p} : job'[q] = job[q]) /\ job' \in [Proc -> Job]
    BY <1>0, <1>1, <2>1, Takes DEF upsert_collection, JobsKept
  <2>3. lock # p /\ writer # p /\ UNCHANGED <<lock, writer>>
    BY <1>0, <1>1, LockStays DEF upsert_collection, Guarded
  <2> QED BY <1>0, <2>2, <2>3, LocksFollow DEF Guarded
<1>2. CASE AddDocuments(p)
  <2> DEFINE r == [job[p] EXCEPT !.pc = "flush", !.ins = New(p),
                                 !.found = collect_candidates(job[p].flags)]
  <2>1. r \in Job /\ r.pc = "flush"
    BY <1>0, NewFiles DEF Job, PCs
  <2>2. job'[p] = r /\ (\A q \in Proc \ {p} : job'[q] = job[q]) /\ job' \in [Proc -> Job]
    BY <1>0, <1>2, <2>1, Takes DEF AddDocuments, JobsKept
  <2>3. lock # p /\ UNCHANGED lock /\ (writer' = writer \/ writer' = p)
    BY <1>0, <1>2, LockStays DEF AddDocuments, Guarded
  <2> HIDE DEF r
  <2> QED BY <1>0, <2>1, <2>2, <2>3, LocksFollow DEF Guarded
<1>3. CASE PurgeDocuments(p) \/ PurgeRow(p) \/ PurgeContexts(p)
  <2>1. PICK r \in Job : Step(p, r) /\ r.pc \in Guarded
    <3>1. CASE PurgeDocuments(p)
      <4> DEFINE r == [job[p] EXCEPT !.pc = "row", !.del = {e \in rows : e[1] = job[p].name}]
      <4>1. r \in Job /\ r.pc = "row"
        BY <1>0 DEF Job, PCs
      <4> QED BY <3>1, <4>1 DEF PurgeDocuments, Guarded
    <3>2. CASE PurgeRow(p) \/ PurgeContexts(p)
      <4>1. ASSUME NEW pc \in {"contexts", "entries"}
            PROVE  [job[p] EXCEPT !.pc = pc] \in Job /\ [job[p] EXCEPT !.pc = pc].pc = pc
        BY <1>0 DEF Job, PCs
      <4> QED BY <3>2, <4>1 DEF PurgeRow, PurgeContexts, Guarded
    <3> QED BY <1>3, <3>1, <3>2
  <2>2. job'[p] = r /\ (\A q \in Proc \ {p} : job'[q] = job[q]) /\ job' \in [Proc -> Job]
    BY <1>0, <2>1, Takes DEF JobsKept
  <2>3. lock = p /\ writer # p /\ UNCHANGED <<lock, writer>>
    BY <1>0, <1>3, LockStays DEF PurgeDocuments, PurgeRow, PurgeContexts, Guarded
  <2> QED BY <1>0, <2>1, <2>2, <2>3, LocksFollow
<1>4. CASE rename_collection(p)
  <2> DEFINE ins == {r \in rows' : r[1] = job[p].to}
             del == (ins \cap job[p].snap) \cup (job[p].snap \ rows')
  <2>1. rows' \subseteq Name \X Files /\ job[p].snap \subseteq Name \X Files
        /\ job'[p] = [job[p] EXCEPT !.pc = "commit", !.ins = ins, !.del = del]
    BY <1>0, <1>4, RenamedRows DEF Job
  <2>2. ins \subseteq Name \X Files /\ del \subseteq Name \X Files
    BY <2>1
  <2>3. job'[p] \in Job /\ job'[p].pc = "commit"
    <3> HIDE DEF ins, del
    <3> DEFINE r == [job[p] EXCEPT !.pc = "commit", !.ins = ins, !.del = del]
    <3>1. r \in Job /\ r.pc = "commit"
      BY <1>0, <2>2 DEF Job, PCs
    <3> QED BY <2>1, <3>1
  <2>4. (\A q \in Proc \ {p} : job'[q] = job[q]) /\ job' \in [Proc -> Job]
    BY <1>0, <1>4, <2>3, RenamedRows DEF rename_collection, Step, JobsKept
  <2>5. lock = p /\ UNCHANGED lock /\ (writer' = writer \/ writer' = p)
    BY <1>0, <1>4, LockStays, RenamedRows DEF rename_collection, Guarded
  <2> QED BY <1>0, <2>3, <2>4, <2>5, LocksFollow DEF Guarded
<1> QED BY <1>1, <1>2, <1>3, <1>4

\* Collections have ids of their own, none of which is given out again.
ColsKept ==
  /\ nextId \in Nat \ {0}
  /\ DOMAIN cols \subseteq Name /\ DOMAIN chosen = DOMAIN cols
  /\ \A n \in DOMAIN cols : /\ cols[n] \in [id : 1 .. nextId - 1, flags : Flags, keep : Kept]
                            /\ \A m \in DOMAIN cols \ {n} : cols[m].id # cols[n].id

LEMMA ColsStep ==
  ASSUME CatalogKept, CatalogNext
  PROVE  ColsKept'
<1>0. ColsKept /\ job \in [Proc -> Job]
  BY DEF CatalogKept, CatalogTypes, ColsKept
<1>1. ASSUME NEW p \in Proc, upsert_collection(p) PROVE ColsKept'
  <2>1. PICK n, w, k : n = job[p].name /\ w = job[p].flags /\ k = job[p].keep
    OBVIOUS
  <2>2. n \in Name /\ w \in Flags /\ k \in Kept
    BY <1>0, <2>1 DEF Job
  <2>3. CASE Exists(n)
    <3>1. /\ nextId' = nextId /\ chosen' = chosen
          /\ cols' = [m \in DOMAIN cols |-> IF m = n THEN [id |-> cols[n].id, flags |-> w, keep |-> k]
                                            ELSE cols[m]]
      BY <1>1, <2>1, <2>3 DEF upsert_collection, Put, Exists
    <3> QED BY <1>0, <2>2, <2>3, <3>1 DEF ColsKept, Exists
  <2>4. CASE ~Exists(n)
    <3>1. /\ nextId' = nextId + 1
          /\ chosen' = [m \in DOMAIN chosen \cup {n} |-> IF m = n THEN Unset ELSE chosen[m]]
          /\ cols' = [m \in DOMAIN cols \cup {n} |->
                        IF m = n THEN [id |-> nextId, flags |-> w, keep |-> k] ELSE cols[m]]
      BY <1>1, <2>1, <2>4 DEF upsert_collection, Put
    <3>2. nextId \in 1 .. nextId' - 1 /\ 1 .. nextId - 1 \subseteq 1 .. nextId' - 1
          /\ nextId \notin 1 .. nextId - 1 /\ nextId' \in Nat \ {0}
      BY <1>0, <3>1 DEF ColsKept
    <3>3. \A m \in DOMAIN cols : m # n /\ cols'[m] = cols[m]
      BY <2>4, <3>1 DEF Exists
    <3>4. cols'[n] = [id |-> nextId, flags |-> w, keep |-> k]
      BY <3>1
    <3>5. DOMAIN cols' = DOMAIN cols \cup {n} /\ DOMAIN chosen' = DOMAIN cols'
      BY <1>0, <3>1 DEF ColsKept
    <3> QED BY <1>0, <2>2, <3>2, <3>3, <3>4, <3>5 DEF ColsKept
  <2> QED BY <2>3, <2>4
<1>2. ASSUME NEW p \in Proc, PurgeRow(p) PROVE ColsKept'
  BY <1>0, <1>2 DEF PurgeRow, Drop, ColsKept
<1>3. ASSUME NEW p \in Proc, rename_collection(p) PROVE ColsKept'
  <2>1. PICK old, new : old = job[p].name /\ new = job[p].to
    OBVIOUS
  <2>2. new \in Name /\ new \notin DOMAIN cols
    BY <1>0, <1>3, <2>1 DEF Job, rename_collection, Taken, Exists
  <2>3. /\ cols' = [n \in {Moved(m, old, new) : m \in DOMAIN cols} |-> IF n = new THEN cols[old] ELSE cols[n]]
        /\ DOMAIN chosen' = DOMAIN cols' /\ nextId' = nextId
    BY <1>3, <2>1 DEF rename_collection
  <2>4. DOMAIN cols' = {Moved(m, old, new) : m \in DOMAIN cols}
    BY <2>3
  <2>5. \A n \in DOMAIN cols' :
          \/ n = new /\ old \in DOMAIN cols /\ cols'[n] = cols[old]
          \/ n # new /\ n # old /\ n \in DOMAIN cols /\ cols'[n] = cols[n]
    BY <2>2, <2>3, <2>4 DEF Moved
  <2>6. DOMAIN cols' \subseteq Name
    BY <1>0, <2>2, <2>5 DEF ColsKept
  <2> DEFINE Row == [id : 1 .. nextId - 1, flags : Flags, keep : Kept]
  <2>7. ASSUME NEW n \in DOMAIN cols' PROVE cols'[n] \in Row
    BY <1>0, <2>5 DEF ColsKept
  <2>8. ASSUME NEW n \in DOMAIN cols', NEW m \in DOMAIN cols' \ {n} PROVE cols'[m].id # cols'[n].id
    <3>1. \A a, b \in DOMAIN cols : a # b => cols[a].id # cols[b].id
      BY <1>0 DEF ColsKept
    <3> QED BY <2>2, <2>5, <3>1
  <2>9. nextId \in Nat \ {0} /\ nextId' = nextId /\ DOMAIN chosen' = DOMAIN cols'
    BY <1>0, <2>3 DEF ColsKept
  <2> QED BY <2>6, <2>7, <2>8, <2>9 DEF ColsKept
<1>4. ASSUME NEW n \in Name, NEW field \in {"include", "update_command"}, NEW v \in BOOLEAN,
             Switch(n, field, v)
      PROVE  ColsKept'
  <2>1. /\ cols' = [cols EXCEPT ![n].keep[field] = v] /\ n \in DOMAIN cols
        /\ DOMAIN chosen' = DOMAIN chosen /\ nextId' = nextId
    BY <1>4 DEF Switch, Exists
  <2>2. PICK k : k = [cols[n].keep EXCEPT ![field] = v]
    OBVIOUS
  <2>3. k \in Kept /\ cols[n] \in [id : 1 .. nextId - 1, flags : Flags, keep : Kept]
    BY <1>0, <2>1, <2>2 DEF ColsKept, Kept, Settings
  <2>4. cols' = [cols EXCEPT ![n].keep = k]
    BY <2>1, <2>2
  <2>5. \A m \in DOMAIN cols : cols'[m] = IF m = n THEN [cols[n] EXCEPT !.keep = k] ELSE cols[m]
    BY <2>4
  <2>6. [cols[n] EXCEPT !.keep = k] \in [id : 1 .. nextId - 1, flags : Flags, keep : Kept]
        /\ [cols[n] EXCEPT !.keep = k].id = cols[n].id
    BY <2>3
  <2>7. DOMAIN cols' = DOMAIN cols
    BY <2>4
  <2> QED BY <1>0, <2>1, <2>5, <2>6, <2>7 DEF ColsKept
<1>5. ASSUME NEW p \in Proc, set_collection_embed_rules(p) PROVE ColsKept'
  <2>1. PICK n : n = job[p].name
    OBVIOUS
  <2>2. CASE ~Exists(n)
    BY <1>0, <1>5, <2>1, <2>2 DEF set_collection_embed_rules, ColsKept
  <2>3. CASE Exists(n)
    <3>1. PICK k : k = [f \in Settings |-> IF f \in Rules THEN job[p].keep[f] ELSE cols[n].keep[f]]
      OBVIOUS
    <3>2. cols' = [cols EXCEPT ![n].keep = k] /\ DOMAIN chosen' = DOMAIN chosen /\ nextId' = nextId
      BY <1>5, <2>1, <2>3, <3>1 DEF set_collection_embed_rules
    <3>3. job[p].keep \in Kept /\ n \in DOMAIN cols
          /\ cols[n] \in [id : 1 .. nextId - 1, flags : Flags, keep : Kept]
      BY <1>0, <2>3 DEF Job, ColsKept, Exists
    <3>4. k \in Kept
      BY <3>1, <3>3 DEF Kept, Settings
    <3>5. \A m \in DOMAIN cols : cols'[m] = IF m = n THEN [cols[n] EXCEPT !.keep = k] ELSE cols[m]
      BY <3>2
    <3>6. [cols[n] EXCEPT !.keep = k] \in [id : 1 .. nextId - 1, flags : Flags, keep : Kept]
          /\ [cols[n] EXCEPT !.keep = k].id = cols[n].id
      BY <3>3, <3>4
    <3>7. DOMAIN cols' = DOMAIN cols
      BY <3>2
    <3> QED BY <1>0, <3>2, <3>5, <3>6, <3>7 DEF ColsKept
  <2> QED BY <2>2, <2>3
<1>6. CASE UNCHANGED <<cols, chosen, nextId>>
  BY <1>0, <1>6 DEF ColsKept
<1>7. ASSUME NEW p \in Proc, Launch(p) PROVE ColsKept'
  BY <1>6, <1>7 DEF Launch, AddRead, RemoveOpen, SetRead, RenameOpen
<1>8. ASSUME NEW p \in Proc,
             \/ AddDocuments(p) \/ AddUnstaged(p) \/ AddFlush(p) \/ PurgeDocuments(p)
             \/ PurgeContexts(p) \/ RemoveEntries(p) \/ RenameFails(p) \/ RenameCommit(p)
             \/ JobDies(p)
      PROVE  ColsKept'
  BY <1>6, <1>8 DEF AddDocuments, AddUnstaged, AddFlush, PurgeDocuments, PurgeContexts,
                    RemoveEntries, RenameFails, RenameCommit, JobDies
<1>9. ASSUME NEW k, NEW bare, context_add(k, bare) \/ context_rm(k, bare) PROVE ColsKept'
  BY <1>6, <1>9 DEF context_add, context_rm
<1> QED BY <1>1, <1>2, <1>3, <1>4, <1>5, <1>7, <1>8, <1>9 DEF CatalogNext

LEMMA RestStep ==
  ASSUME CatalogKept, CatalogNext
  PROVE  /\ rows' \cup fts' \subseteq Name \X Files
         /\ DOMAIN contexts' \subseteq Keys /\ orphans' \subseteq DOMAIN contexts'
         /\ torn' \cup raced' \subseteq Name
<1>0. /\ rows \cup fts \subseteq Name \X Files /\ job \in [Proc -> Job]
      /\ DOMAIN contexts \subseteq Keys /\ orphans \subseteq DOMAIN contexts
      /\ torn \cup raced \subseteq Name
  BY DEF CatalogKept, CatalogTypes
<1>1. rows' \subseteq Name \X Files
  <2>1. ASSUME NEW p \in Proc, rename_collection(p) PROVE rows' \subseteq Name \X Files
    BY <2>1, RenamedRows
  <2>2. ASSUME NEW p \in Proc, AddDocuments(p) \/ AddUnstaged(p) PROVE rows' \subseteq Name \X Files
    BY <1>0, <2>2, NewFiles DEF AddDocuments, AddUnstaged
  <2>3. ASSUME NEW p \in Proc, PurgeDocuments(p) PROVE rows' \subseteq Name \X Files
    BY <1>0, <2>3 DEF PurgeDocuments
  <2>4. ASSUME NEW p \in Proc,
               \/ Launch(p) \/ upsert_collection(p) \/ AddFlush(p) \/ PurgeRow(p)
               \/ PurgeContexts(p) \/ RemoveEntries(p) \/ RenameFails(p) \/ RenameCommit(p)
               \/ set_collection_embed_rules(p) \/ JobDies(p)
        PROVE  UNCHANGED rows
    BY <2>4 DEF Launch, AddRead, RemoveOpen, SetRead, RenameOpen, upsert_collection, AddFlush,
        PurgeRow, PurgeContexts, RemoveEntries, RenameFails, RenameCommit, JobDies,
        set_collection_embed_rules
  <2>5. ASSUME NEW k, NEW bare, context_add(k, bare) \/ context_rm(k, bare) PROVE UNCHANGED rows
    BY <2>5 DEF context_add, context_rm
  <2>6. ASSUME NEW n, NEW field, NEW v, Switch(n, field, v) PROVE UNCHANGED rows
    BY <2>6 DEF Switch
  <2> QED BY <1>0, <2>1, <2>2, <2>3, <2>4, <2>5, <2>6 DEF CatalogNext
<1>2. fts' \subseteq Name \X Files
  <2>1. ASSUME NEW p \in Proc, AddFlush(p) \/ RemoveEntries(p) \/ RenameCommit(p)
        PROVE  fts' \subseteq Name \X Files
    <3>1. job[p].ins \subseteq Name \X Files
      BY <1>0 DEF Job
    <3>2. fts' \subseteq fts \cup job[p].ins
      BY <2>1 DEF AddFlush, RemoveEntries, RenameCommit
    <3> QED BY <1>0, <3>1, <3>2
  <2>2. ASSUME NEW p \in Proc,
               \/ Launch(p) \/ upsert_collection(p) \/ AddDocuments(p) \/ AddUnstaged(p)
               \/ PurgeDocuments(p) \/ PurgeRow(p) \/ PurgeContexts(p) \/ rename_collection(p)
               \/ RenameFails(p) \/ set_collection_embed_rules(p) \/ JobDies(p)
        PROVE  UNCHANGED fts
    BY <2>2 DEF Launch, AddRead, RemoveOpen, SetRead, RenameOpen, upsert_collection,
        AddDocuments, AddUnstaged, PurgeDocuments, PurgeRow, PurgeContexts, RenameFails, JobDies,
        rename_collection, set_collection_embed_rules
  <2>3. ASSUME NEW k, NEW bare, context_add(k, bare) \/ context_rm(k, bare) PROVE UNCHANGED fts
    BY <2>3 DEF context_add, context_rm
  <2>4. ASSUME NEW n, NEW field, NEW v, Switch(n, field, v) PROVE UNCHANGED fts
    BY <2>4 DEF Switch
  <2> QED BY <1>0, <2>1, <2>2, <2>3, <2>4 DEF CatalogNext
<1>3. DOMAIN contexts' \subseteq Keys /\ orphans' \subseteq DOMAIN contexts'
  <2>1. ASSUME NEW p \in Proc, rename_collection(p)
        PROVE  DOMAIN contexts' \subseteq Keys /\ orphans' \subseteq DOMAIN contexts'
    <3>1. job[p].to \in Name
      BY <1>0 DEF Job
    <3>2. DOMAIN contexts' = (DOMAIN contexts \ KeysOf(job[p].name))
                             \cup {<<job[p].to, k[2]>> : k \in KeysOf(job[p].name)}
      BY <2>1 DEF rename_collection, MovedContexts, MovedKeys
    <3>3. job[p].name \in Name /\ \A k \in KeysOf(job[p].name) : k[2] \in ContextDirs
      BY <1>0, AbsentType DEF Job, KeysOf, Keys
    <3>4. orphans' \subseteq DOMAIN contexts'
      BY <2>1 DEF rename_collection
    <3> QED BY <1>0, <3>1, <3>2, <3>3, <3>4 DEF Keys
  <2>2. ASSUME NEW k \in Keys, NEW bare, context_add(k, bare) \/ context_rm(k, bare)
        PROVE  DOMAIN contexts' \subseteq Keys /\ orphans' \subseteq DOMAIN contexts'
    BY <1>0, <2>2 DEF context_add, context_rm, Put, Drop
  <2>3. ASSUME NEW p \in Proc, PurgeContexts(p) \/ JobDies(p)
        PROVE  DOMAIN contexts' \subseteq Keys /\ orphans' \subseteq DOMAIN contexts'
    BY <1>0, <2>3 DEF PurgeContexts, JobDies, Drop, KeysOf
  <2>4. ASSUME NEW p \in Proc,
               \/ Launch(p) \/ upsert_collection(p) \/ AddDocuments(p) \/ AddUnstaged(p) \/ AddFlush(p)
               \/ PurgeDocuments(p) \/ PurgeRow(p) \/ RemoveEntries(p) \/ RenameFails(p)
               \/ RenameCommit(p) \/ set_collection_embed_rules(p)
        PROVE  UNCHANGED <<contexts, orphans>>
    BY <2>4 DEF Launch, AddRead, RemoveOpen, SetRead, RenameOpen, upsert_collection,
        AddDocuments, AddUnstaged, AddFlush, PurgeDocuments, PurgeRow, RemoveEntries, RenameFails,
        RenameCommit, set_collection_embed_rules
  <2>5. ASSUME NEW n, NEW field, NEW v, Switch(n, field, v) PROVE UNCHANGED <<contexts, orphans>>
    BY <2>5 DEF Switch
  <2> QED BY <1>0, <2>1, <2>2, <2>3, <2>4, <2>5 DEF CatalogNext
<1>4. torn' \cup raced' \subseteq Name
  <2>1. \A p \in Proc : job[p].names \subseteq Name /\ job[p].name \in Name /\ job[p].to \in Name
    BY <1>0 DEF Job
  <2>2. ASSUME NEW p \in Proc, Launch(p) PROVE torn' \cup raced' \subseteq Name
    BY <1>0, <2>2 DEF Launch, AddRead, RemoveOpen, SetRead, RenameOpen, Spoilt, Met
  <2>3. ASSUME NEW p \in Proc,
               \/ upsert_collection(p) \/ AddDocuments(p) \/ AddUnstaged(p) \/ AddFlush(p)
               \/ PurgeDocuments(p) \/ PurgeRow(p) \/ PurgeContexts(p) \/ RemoveEntries(p)
        PROVE  torn' \cup raced' \subseteq Name
    BY <1>0, <2>1, <2>3 DEF upsert_collection, AddDocuments, AddUnstaged, AddFlush, PurgeDocuments,
        PurgeRow, PurgeContexts, RemoveEntries
  <2>4. ASSUME NEW p \in Proc,
               \/ rename_collection(p) \/ RenameFails(p) \/ RenameCommit(p)
               \/ set_collection_embed_rules(p) \/ JobDies(p)
        PROVE  torn' \cup raced' \subseteq Name
    <3>1. UNCHANGED torn \/ torn' = torn \ job[p].names \/ torn' = torn \cup job[p].names
      BY <2>4 DEF rename_collection, RenameFails, RenameCommit, set_collection_embed_rules, JobDies
    <3>2. UNCHANGED raced \/ raced' = raced \cup {job[p].to}
      BY <2>4 DEF rename_collection, RenameFails, RenameCommit, set_collection_embed_rules, JobDies
    <3> QED BY <1>0, <2>1, <3>1, <3>2
  <2>5. ASSUME NEW k, NEW bare, context_add(k, bare) \/ context_rm(k, bare)
        PROVE  torn' \cup raced' \subseteq Name
    BY <1>0, <2>5 DEF context_add, context_rm
  <2>6. ASSUME NEW n \in Name, NEW field, NEW v, Switch(n, field, v) PROVE torn' \cup raced' \subseteq Name
    BY <1>0, <2>6 DEF Switch, Spoilt
  <2> QED BY <2>2, <2>3, <2>4, <2>5, <2>6 DEF CatalogNext
<1> QED BY <1>1, <1>2, <1>3, <1>4

LEMMA KeptIs ==
  ASSUME JobsKept, ColsKept, rows \cup fts \subseteq Name \X Files, DOMAIN contexts \subseteq Keys,
         orphans \subseteq DOMAIN contexts, torn \cup raced \subseteq Name
  PROVE  CatalogKept
BY DEF CatalogKept, CatalogTypes, JobsKept, ColsKept, Guarded

LEMMA CatalogStarts ==
  ASSUME CatalogInit \/ NoCatalog
  PROVE  CatalogKept
<1>1. /\ cols = <<>> /\ rows = {} /\ fts = {} /\ contexts = <<>> /\ orphans = {}
      /\ lock = Nobody /\ writer = Nobody
      /\ job = [p \in Proc |-> NoJob] /\ chosen = <<>> /\ torn = {} /\ raced = {} /\ nextId = 1
  BY DEF CatalogInit, NoCatalog
<1>2. DOMAIN cols = {} /\ DOMAIN chosen = {} /\ DOMAIN contexts = {}
  BY <1>1
<1>3. JobsKept
  BY <1>1, NoJobType, AbsentType DEF JobsKept, Guarded
<1>4. ColsKept
  BY <1>1, <1>2 DEF ColsKept
<1> QED BY <1>1, <1>2, <1>3, <1>4, KeptIs

LEMMA CatalogStep ==
  ASSUME CatalogKept, [CatalogNext]_catalogVars
  PROVE  CatalogKept'
<1>1. CASE UNCHANGED catalogVars
  BY <1>1 DEF catalogVars, CatalogKept, JobsKept, CatalogTypes
<1>2. CASE CatalogNext
  <2>1. ASSUME NEW p \in Proc, Launch(p) PROVE JobsKept'
    BY <2>1, JobsOpen
  <2>2. ASSUME NEW p \in Proc,
               \/ AddUnstaged(p) \/ AddFlush(p) \/ RemoveEntries(p) \/ RenameFails(p)
               \/ RenameCommit(p) \/ set_collection_embed_rules(p) \/ JobDies(p)
        PROVE  JobsKept'
    BY <2>2, JobsEnd
  <2>3. ASSUME NEW p \in Proc,
               \/ upsert_collection(p) \/ AddDocuments(p)
               \/ PurgeDocuments(p) \/ PurgeRow(p) \/ PurgeContexts(p) \/ rename_collection(p)
        PROVE  JobsKept'
    BY <2>3, JobsGoOn
  <2>4. ASSUME NEW k, NEW bare, context_add(k, bare) \/ context_rm(k, bare) PROVE JobsKept'
    BY <2>4 DEF context_add, context_rm, CatalogKept, JobsKept
  <2>5. ASSUME NEW n, NEW field, NEW v, Switch(n, field, v) PROVE JobsKept'
    BY <2>5 DEF Switch, CatalogKept, JobsKept
  <2>6. JobsKept'
    BY <1>2, <2>1, <2>2, <2>3, <2>4, <2>5 DEF CatalogNext
  <2>7. CatalogTypes'
    BY <1>2, <2>6, ColsStep, RestStep DEF CatalogTypes, JobsKept, ColsKept, Guarded
  <2> QED BY <1>2, <2>6, <2>7, ColsStep DEF CatalogKept, ColsKept
<1> QED BY <1>1, <1>2

-----------------------------------------------------------------------------
(* Who works on which names.                                               *)

\* A command works on the names it was given, and two commands on the same name
\* at once are known to have raced.
NamesInv ==
  /\ \A p \in Proc : /\ job[p].pc = "idle" => job[p].names = {}
                     /\ job[p].pc \notin {"idle", "tx", "commit"} => job[p].names = {job[p].name}
                     /\ job[p].pc \in {"tx", "commit"} => /\ job[p].names = {job[p].name, job[p].to}
                                                          /\ job[p].name # job[p].to
  /\ \A p, q \in Proc : p # q => job[p].names \cap job[q].names \subseteq raced

NextPc(pc) ==
  CASE pc = "upsert"    -> "walk"
    [] pc = "walk"      -> "flush"
    [] pc = "documents" -> "row"
    [] pc = "row"       -> "contexts"
    [] pc = "contexts"  -> "entries"
    [] pc = "tx"        -> "commit"
    [] OTHER            -> "idle"

\* A command goes on to its next step, with what it has, or ends.
Moves(p) ==
  /\ \A q \in Proc \ {p} : job'[q] = job[q]
  /\ \/ job'[p].pc = "idle" /\ job'[p].names = {}
     \/ /\ job[p].pc # "idle" /\ job'[p].pc = NextPc(job[p].pc) /\ job'[p].pc # "idle"
        /\ \A f \in {"names", "name", "to", "flags", "keep", "change", "snap"} : job'[p][f] = job[p][f]

Working(p) ==
  \/ upsert_collection(p) \/ AddDocuments(p) \/ AddUnstaged(p) \/ AddFlush(p)
  \/ PurgeDocuments(p) \/ PurgeRow(p) \/ PurgeContexts(p) \/ RemoveEntries(p)
  \/ rename_collection(p) \/ RenameFails(p) \/ RenameCommit(p)
  \/ set_collection_embed_rules(p)
  \/ JobDies(p)

LEMMA WorkMoves ==
  ASSUME CatalogKept, NEW p \in Proc, Working(p)
  PROVE  Moves(p) /\ job[p].pc # "idle" /\ raced \subseteq raced'
<1>0. job \in [Proc -> Job] /\ job[p] \in Job
  BY DEF CatalogKept, CatalogTypes
<1>1. CASE \/ AddUnstaged(p) \/ AddFlush(p) \/ RemoveEntries(p) \/ RenameFails(p)
           \/ RenameCommit(p) \/ set_collection_embed_rules(p) \/ JobDies(p)
  <2>1. Finish(p) /\ UNCHANGED raced /\ job[p].pc # "idle"
    BY <1>1 DEF AddUnstaged, AddFlush, RemoveEntries, RenameFails, RenameCommit,
         set_collection_embed_rules, JobDies
  <2> QED BY <1>0, <2>1, Finishes DEF Moves
<1>2. CASE upsert_collection(p) \/ PurgeRow(p) \/ PurgeContexts(p)
  <2>1. UNCHANGED raced /\ job[p].pc # "idle" /\ NextPc(job[p].pc) # "idle"
        /\ Step(p, [job[p] EXCEPT !.pc = NextPc(job[p].pc)])
    BY <1>2 DEF upsert_collection, PurgeRow, PurgeContexts, NextPc
  <2> DEFINE r == [job[p] EXCEPT !.pc = NextPc(job[p].pc)]
  <2>2. job'[p] = r /\ \A q \in Proc \ {p} : job'[q] = job[q]
    BY <1>0, <2>1, Takes
  <2>3. /\ r.pc = NextPc(job[p].pc)
        /\ \A f \in {"names", "name", "to", "flags", "keep", "change", "snap"} : r[f] = job[p][f]
    BY <1>0 DEF Job
  <2> QED BY <2>1, <2>2, <2>3 DEF Moves
<1>3. CASE AddDocuments(p)
  <2>1. UNCHANGED raced /\ job[p].pc = "walk"
    BY <1>3 DEF AddDocuments
  <2> DEFINE r == [job[p] EXCEPT !.pc = "flush", !.ins = New(p),
                                 !.found = collect_candidates(job[p].flags)]
  <2>2. job'[p] = r /\ \A q \in Proc \ {p} : job'[q] = job[q]
    BY <1>0, <1>3, Takes DEF AddDocuments
  <2>3. /\ r.pc = "flush"
        /\ \A f \in {"names", "name", "to", "flags", "keep", "change", "snap"} : r[f] = job[p][f]
    BY <1>0 DEF Job
  <2> QED BY <2>1, <2>2, <2>3 DEF Moves, NextPc
<1>4. CASE PurgeDocuments(p)
  <2>1. UNCHANGED raced /\ job[p].pc = "documents"
    BY <1>4 DEF PurgeDocuments
  <2> DEFINE r == [job[p] EXCEPT !.pc = "row", !.del = {e \in rows : e[1] = job[p].name}]
  <2>2. job'[p] = r /\ \A q \in Proc \ {p} : job'[q] = job[q]
    BY <1>0, <1>4, Takes DEF PurgeDocuments
  <2>3. /\ r.pc = "row"
        /\ \A f \in {"names", "name", "to", "flags", "keep", "change", "snap"} : r[f] = job[p][f]
    BY <1>0 DEF Job
  <2> QED BY <2>1, <2>2, <2>3 DEF Moves, NextPc
<1>5. CASE rename_collection(p)
  <2>1. raced \subseteq raced' /\ job[p].pc = "tx"
    BY <1>5 DEF rename_collection
  <2> DEFINE ins == {r \in rows' : r[1] = job[p].to}
             del == (ins \cap job[p].snap) \cup (job[p].snap \ rows')
  <2>2. job'[p] = [job[p] EXCEPT !.pc = "commit", !.ins = ins, !.del = del]
    BY <1>5, RenamedRows
  <2> HIDE DEF ins, del
  <2> DEFINE r == [job[p] EXCEPT !.pc = "commit", !.ins = ins, !.del = del]
  <2>3. /\ r.pc = "commit"
        /\ \A f \in {"names", "name", "to", "flags", "keep", "change", "snap"} : r[f] = job[p][f]
    BY <1>0 DEF Job
  <2> QED BY <1>5, <2>1, <2>2, <2>3, RenamedRows DEF Moves, NextPc
<1> QED BY <1>1, <1>2, <1>3, <1>4, <1>5 DEF Working

LEMMA NamesStep ==
  ASSUME CatalogKept, NamesInv, [CatalogNext]_catalogVars
  PROVE  NamesInv'
<1>1. ASSUME NEW p \in Proc, Launch(p) PROVE NamesInv'
  <2>1. PICK r \in Job :
           /\ Opens(p, r)
           /\ \/ /\ r.pc \in {"upsert", "write"} /\ r.names = {r.name} /\ raced' = Spoilt(r.name)
              \/ /\ r.pc = "documents" /\ r.names = {r.name} /\ raced' = raced \cup Met(r.names)
                 /\ lock = Nobody
              \/ /\ r.pc = "tx" /\ r.names = {r.name, r.to} /\ raced' = raced \cup Met(r.names)
                 /\ lock = Nobody /\ r.name # r.to
    BY <1>1, LaunchOpens
  <2>2. \A q \in Proc \ {p} : r.names \cap job[q].names \subseteq raced'
    BY <2>1, AbsentType DEF Spoilt, Busy, Met
  <2>3. raced \subseteq raced'
    BY <2>1 DEF Spoilt
  <2> QED BY <2>1, <2>2, <2>3 DEF Opens, NamesInv
<1>2. ASSUME NEW p \in Proc, Working(p) PROVE NamesInv'
  <2>1. Moves(p) /\ job[p].pc # "idle" /\ raced \subseteq raced'
    BY <1>2, WorkMoves
  <2>2. \/ job'[p].pc = "idle" /\ job'[p].names = {}
        \/ /\ job'[p].pc = NextPc(job[p].pc) /\ job'[p].pc # "idle"
           /\ job'[p].names = job[p].names /\ job'[p].name = job[p].name /\ job'[p].to = job[p].to
    BY <2>1 DEF Moves
  <2>3. \/ (job'[p].pc = "commit" <=> job[p].pc = "tx") /\ job'[p].pc # "tx"
        \/ job'[p].pc = "idle"
    BY <2>2 DEF NextPc
  <2>4. /\ job'[p].pc = "idle" => job'[p].names = {}
        /\ job'[p].pc \notin {"idle", "tx", "commit"} => job'[p].names = {job'[p].name}
        /\ job'[p].pc \in {"tx", "commit"} => /\ job'[p].names = {job'[p].name, job'[p].to}
                                              /\ job'[p].name # job'[p].to
    BY <2>1, <2>2, <2>3 DEF NamesInv, NextPc
  <2>5. job'[p].names \subseteq job[p].names
    BY <2>2
  <2> QED BY <2>1, <2>4, <2>5 DEF NamesInv, Moves
<1>3. ASSUME NEW n, NEW field, NEW v, Switch(n, field, v) PROVE NamesInv'
  BY <1>3 DEF Switch, Spoilt, NamesInv
<1>4. ASSUME NEW k, NEW bare, context_add(k, bare) \/ context_rm(k, bare) PROVE NamesInv'
  BY <1>4 DEF context_add, context_rm, NamesInv
<1>5. CASE UNCHANGED catalogVars
  BY <1>5 DEF catalogVars, NamesInv
<1> QED BY <1>1, <1>2, <1>3, <1>4, <1>5 DEF CatalogNext, Working

-----------------------------------------------------------------------------
(* What belongs to a collection.                                           *)

LEMMA ContextsFrame ==
  ASSUME ContextsFollow, UNCHANGED contexts, orphans \subseteq orphans',
         \A n \in DOMAIN cols : n \in DOMAIN cols' /\ cols'[n].id = cols[n].id,
         \A q \in Proc : job[q].pc = "contexts" => job'[q].pc = "contexts" /\ job'[q].name = job[q].name
  PROVE  ContextsFollow'
BY DEF ContextsFollow, Exists

\* A setting is written; no collection gets another id.
LEMMA SettingKeepsIds ==
  ASSUME CatalogKept,
         \/ \E n, field, v : Switch(n, field, v)
         \/ \E p \in Proc : set_collection_embed_rules(p)
  PROVE  DOMAIN cols' = DOMAIN cols /\ \A n \in DOMAIN cols : cols'[n].id = cols[n].id
<1>1. \A n \in DOMAIN cols : cols[n] \in [id : 1 .. nextId - 1, flags : Flags, keep : Kept]
  BY DEF CatalogKept, CatalogTypes
<1>2. UNCHANGED cols \/ \E n \in DOMAIN cols : \E k : cols' = [cols EXCEPT ![n].keep = k]
  <2>1. ASSUME NEW n, NEW field, NEW v, Switch(n, field, v)
        PROVE  \E m \in DOMAIN cols : \E k : cols' = [cols EXCEPT ![m].keep = k]
    <3>1. n \in DOMAIN cols /\ cols' = [cols EXCEPT ![n].keep = [cols[n].keep EXCEPT ![field] = v]]
      BY <2>1 DEF Switch, Exists
    <3> QED BY <3>1
  <2>2. ASSUME NEW p \in Proc, set_collection_embed_rules(p), ~UNCHANGED cols
        PROVE  \E m \in DOMAIN cols : \E k : cols' = [cols EXCEPT ![m].keep = k]
    <3>1. PICK n : n = job[p].name
      OBVIOUS
    <3>2. n \in DOMAIN cols
          /\ cols' = [cols EXCEPT ![n].keep =
                        [f \in Settings |-> IF f \in Rules THEN job[p].keep[f] ELSE cols[n].keep[f]]]
      BY <2>2, <3>1 DEF set_collection_embed_rules, Exists
    <3> QED BY <3>2
  <2> QED BY <2>1, <2>2
<1>3. ASSUME NEW n \in DOMAIN cols, NEW k, cols' = [cols EXCEPT ![n].keep = k]
      PROVE  DOMAIN cols' = DOMAIN cols /\ \A m \in DOMAIN cols : cols'[m].id = cols[m].id
  <2>1. \A m \in DOMAIN cols : cols'[m] = IF m = n THEN [cols[n] EXCEPT !.keep = k] ELSE cols[m]
    BY <1>3
  <2>2. [cols[n] EXCEPT !.keep = k].id = cols[n].id
    BY <1>1
  <2> QED BY <1>3, <2>1, <2>2
<1> QED BY <1>2, <1>3

LEMMA ContextsStep ==
  ASSUME CatalogKept, NamesInv, ContextsFollow, [CatalogNext]_catalogVars
  PROVE  ContextsFollow'
<1>1. CASE UNCHANGED catalogVars
  BY <1>1, ContextsFrame DEF catalogVars
<1>2. ASSUME NEW p \in Proc, Launch(p) PROVE ContextsFollow'
  <2>1. PICK r \in Job : Opens(p, r)
    BY <1>2, LaunchOpens
  <2> QED BY <2>1, ContextsFrame DEF Opens
<1>3. ASSUME NEW p \in Proc, Working(p), job[p].pc # "contexts", UNCHANGED <<cols, contexts, orphans>>
      PROVE  ContextsFollow'
  <2>1. \A q \in Proc : job[q].pc = "contexts" => job'[q] = job[q]
    BY <1>3, WorkMoves DEF Moves
  <2> QED BY <1>3, <2>1, ContextsFrame
<1>4. ASSUME NEW p \in Proc, upsert_collection(p) PROVE ContextsFollow'
  <2>1. \A q \in Proc : job[q].pc = "contexts" => job'[q] = job[q]
    BY <1>4, WorkMoves DEF Moves, Working, upsert_collection
  <2>2. \A n \in DOMAIN cols : n \in DOMAIN cols' /\ cols'[n].id = cols[n].id
    BY <1>4 DEF upsert_collection, Put, Exists
  <2> QED BY <1>4, <2>1, <2>2, ContextsFrame DEF upsert_collection
<1>5. ASSUME NEW p \in Proc, set_collection_embed_rules(p) PROVE ContextsFollow'
  <2>1. \A q \in Proc : job[q].pc = "contexts" => job'[q] = job[q]
    BY <1>5, WorkMoves DEF Moves, Working, set_collection_embed_rules
  <2> QED BY <1>5, <2>1, SettingKeepsIds, ContextsFrame DEF set_collection_embed_rules
<1>6. ASSUME NEW n, NEW field, NEW v, Switch(n, field, v) PROVE ContextsFollow'
  BY <1>6, SettingKeepsIds, ContextsFrame DEF Switch
<1>7. ASSUME NEW k, NEW bare, context_add(k, bare) PROVE ContextsFollow'
  <2>1. /\ contexts' = [x \in DOMAIN contexts \cup {k} |-> IF x = k THEN Owner(k[1]) ELSE contexts[x]]
        /\ UNCHANGED <<cols, job>> /\ orphans' = orphans \ {k}
    BY <1>7 DEF context_add, Put
  <2> QED BY <2>1 DEF ContextsFollow, Owner, Exists
<1>8. ASSUME NEW k, NEW bare, context_rm(k, bare) PROVE ContextsFollow'
  BY <1>8 DEF context_rm, Drop, ContextsFollow, Exists
<1>9. ASSUME NEW p \in Proc, PurgeRow(p) PROVE ContextsFollow'
  <2>1. PICK n : n = job[p].name
    OBVIOUS
  <2>2. job'[p].pc = "contexts" /\ job'[p].name = n /\ \A q \in Proc \ {p} : job'[q] = job[q]
    BY <1>9, <2>1 DEF PurgeRow, Step, CatalogKept, CatalogTypes, Job
  <2>3. \A m \in DOMAIN cols : m # n => m \in DOMAIN cols' /\ cols'[m] = cols[m]
    BY <1>9, <2>1 DEF PurgeRow, Drop
  <2>4. UNCHANGED <<contexts, orphans>> /\ job[p].pc = "row"
    BY <1>9 DEF PurgeRow
  <2> QED BY <2>2, <2>3, <2>4 DEF ContextsFollow, Exists
<1>10. ASSUME NEW p \in Proc, PurgeContexts(p) PROVE ContextsFollow'
  <2>1. \A q \in Proc \ {p} : job'[q] = job[q]
    BY <1>10, WorkMoves DEF Moves, Working
  <2>2. \A k \in DOMAIN contexts' \ orphans' :
           k \in DOMAIN contexts \ orphans /\ contexts'[k] = contexts[k] /\ k[1] # job[p].name
    BY <1>10 DEF PurgeContexts, Drop, KeysOf
  <2>3. UNCHANGED cols
    BY <1>10 DEF PurgeContexts
  <2> QED BY <2>1, <2>2, <2>3 DEF ContextsFollow, Exists
<1>11. ASSUME NEW p \in Proc, JobDies(p) PROVE ContextsFollow'
  <2>1. \A q \in Proc \ {p} : job'[q] = job[q]
    BY <1>11, WorkMoves DEF Moves, Working
  <2>2. UNCHANGED <<cols, contexts>>
    BY <1>11 DEF JobDies
  <2>3. CASE job[p].pc # "contexts"
    BY <1>11, <2>1, <2>2, <2>3, ContextsFrame DEF JobDies
  <2>4. CASE job[p].pc = "contexts"
    <3>1. orphans' = orphans \cup {k \in DOMAIN contexts : k[1] = job[p].name}
      BY <1>11, <2>4 DEF JobDies, KeysOf
    <3> QED BY <2>1, <2>2, <3>1 DEF ContextsFollow, Exists
  <2> QED BY <2>3, <2>4
<1>12. ASSUME NEW p \in Proc, rename_collection(p) PROVE ContextsFollow'
  <2>1. PICK old, new : old = job[p].name /\ new = job[p].to
    OBVIOUS
  <2>2. /\ job[p].pc = "tx" /\ new \notin DOMAIN cols /\ old # new
        /\ \A q \in Proc : job[q].pc # "contexts"
    <3>1. job[p].pc = "tx" /\ new \notin DOMAIN cols
      BY <1>12, <2>1 DEF rename_collection, Taken, Exists
    <3>2. lock = p
      BY <3>1, LockStays DEF CatalogKept, Guarded
    <3>3. \A q \in Proc : job[q].pc = "contexts" => q = p
      BY <3>2, LockStays DEF CatalogKept, Guarded
    <3> QED BY <2>1, <3>1, <3>3 DEF NamesInv
  <2>3. cols' = [n \in {Moved(m, old, new) : m \in DOMAIN cols} |-> IF n = new THEN cols[old] ELSE cols[n]]
    BY <1>12, <2>1 DEF rename_collection
  <2>4. /\ old \in DOMAIN cols => new \in DOMAIN cols' /\ cols'[new] = cols[old]
        /\ \A n \in DOMAIN cols : n # old => n \in DOMAIN cols' /\ cols'[n] = cols[n]
    BY <2>2, <2>3 DEF Moved
  <2>5. /\ contexts' = [k \in (DOMAIN contexts \ KeysOf(old)) \cup MovedKeys(old, new) |->
                          contexts[Source(k, old, new)]]
        /\ orphans' = {k \in DOMAIN contexts' : Source(k, old, new) \in orphans}
    BY <1>12, <2>1 DEF rename_collection, MovedContexts
  <2>6. \A k \in KeysOf(old) : k = <<old, k[2]>> /\ k \in DOMAIN contexts
    BY DEF KeysOf, CatalogKept, CatalogTypes, Keys
  <2>7. ASSUME NEW k \in DOMAIN contexts' \ orphans'
        PROVE  contexts'[k] = NoId \/ (k[1] \in DOMAIN cols' /\ cols'[k[1]].id = contexts'[k])
    <3>0. contexts'[k] = contexts[Source(k, old, new)] /\ Source(k, old, new) \notin orphans
      BY <2>5
    <3>1. CASE k \in MovedKeys(old, new)
      <4>1. PICK x \in KeysOf(old) : k = <<new, x[2]>>
        BY <3>1 DEF MovedKeys
      <4>2. k[1] = new /\ contexts'[k] = contexts[x] /\ x \notin orphans
        BY <2>6, <3>0, <3>1, <4>1 DEF Source
      <4>3. x[1] = old /\ x \in DOMAIN contexts
        BY DEF KeysOf
      <4> QED BY <2>2, <2>4, <4>2, <4>3 DEF ContextsFollow, Exists
    <3>2. CASE k \notin MovedKeys(old, new)
      <4>1. k \in DOMAIN contexts /\ k \notin KeysOf(old) /\ contexts'[k] = contexts[k] /\ k \notin orphans
        BY <2>5, <3>0, <3>2 DEF Source
      <4>2. k[1] # old
        BY <4>1 DEF KeysOf
      <4> QED BY <2>2, <2>4, <4>1, <4>2 DEF ContextsFollow, Exists
    <3> QED BY <3>1, <3>2
  <2> QED BY <2>7 DEF ContextsFollow, Exists
<1>13. ASSUME NEW p \in Proc,
              \/ AddDocuments(p) \/ AddUnstaged(p) \/ AddFlush(p) \/ PurgeDocuments(p)
              \/ RemoveEntries(p) \/ RenameFails(p) \/ RenameCommit(p)
       PROVE  ContextsFollow'
  <2>1. job[p].pc # "contexts" /\ UNCHANGED <<cols, contexts, orphans>>
    BY <1>13 DEF AddDocuments, AddUnstaged, AddFlush, PurgeDocuments, RemoveEntries, RenameFails,
                 RenameCommit
  <2> QED BY <1>3, <1>13, <2>1 DEF Working
<1> QED BY <1>1, <1>2, <1>4, <1>5, <1>6, <1>7, <1>8, <1>9, <1>10, <1>11, <1>12, <1>13 DEF CatalogNext

\* A command that will write settings has those in force, but for what it
\* changes, unless another has raced it.
PendingInv ==
  \A p \in Proc :
    /\ job[p].pc = "upsert" /\ job[p].name \notin raced =>
         job[p].keep = IF Exists(job[p].name) THEN cols[job[p].name].keep ELSE Unset
    /\ job[p].pc = "write" => job[p].change \subseteq Rules
    /\ job[p].pc = "write" /\ job[p].name \notin raced /\ Exists(job[p].name) =>
         \A f \in Settings \ job[p].change : job[p].keep[f] = cols[job[p].name].keep[f]

SettingsInv == PendingInv /\ SettingsAreKept

\* Collection n is as it was.
SameCol(n) == Exists(n)' = Exists(n) /\ (Exists(n) => cols'[n].keep = cols[n].keep /\ chosen'[n] = chosen[n])

\* A command changes the settings of its own names only.
LEMMA SettingsFrame ==
  ASSUME NamesInv, SettingsInv, NEW p \in Proc, raced \subseteq raced',
         \A q \in Proc \ {p} : job'[q] = job[q],
         \A n \in Name \ job[p].names : SameCol(n),
         job \in [Proc -> Job], DOMAIN cols \subseteq Name, DOMAIN cols' \subseteq Name,
         job'[p].pc \notin {"upsert", "write"},
         \A n \in job[p].names \ raced' : Exists(n)' => cols'[n].keep = chosen'[n]
  PROVE  SettingsInv'
<1>1. ASSUME NEW q \in Proc \ {p}, job[q].pc \in {"upsert", "write"}, job[q].name \notin raced'
      PROVE  SameCol(job[q].name)
  <2>1. job[q].name \in job[q].names /\ job[q].name \in Name
    BY <1>1 DEF NamesInv, Job
  <2>2. job[q].name \notin job[p].names
    BY <1>1, <2>1 DEF NamesInv
  <2> QED BY <2>1, <2>2
<1>2. PendingInv'
  BY <1>1 DEF SettingsInv, PendingInv, SameCol, Exists
<1>3. SettingsAreKept'
  BY DEF SettingsInv, SettingsAreKept, SameCol, Exists
<1> QED BY <1>2, <1>3 DEF SettingsInv

LEMMA SettingsStep ==
  ASSUME CatalogKept, CatalogKept', NamesInv, SettingsInv, [CatalogNext]_catalogVars
  PROVE  SettingsInv'
<1>0. /\ job \in [Proc -> Job] /\ DOMAIN cols \subseteq Name /\ DOMAIN cols' \subseteq Name
      /\ DOMAIN chosen = DOMAIN cols
      /\ \A n \in DOMAIN cols : cols[n] \in [id : 1 .. nextId - 1, flags : Flags, keep : Kept]
  BY DEF CatalogKept, CatalogTypes
<1>1. CASE UNCHANGED catalogVars
  BY <1>1 DEF catalogVars, SettingsInv, PendingInv, SettingsAreKept, Exists
<1>2. ASSUME NEW p \in Proc, Launch(p) PROVE SettingsInv'
  <2>1. PICK r \in Job :
           /\ Opens(p, r) /\ raced \subseteq raced'
           /\ r.pc = "upsert" => r.keep = IF Exists(r.name) THEN cols[r.name].keep ELSE Unset
           /\ r.pc = "write" => /\ r.change \subseteq Rules
                                /\ \A f \in Settings \ r.change : r.keep[f] = cols[r.name].keep[f]
    BY <1>2, LaunchOpens DEF Spoilt
  <2> QED BY <2>1 DEF Opens, SettingsInv, PendingInv, SettingsAreKept, Exists
<1>3. ASSUME NEW p \in Proc, Working(p), UNCHANGED <<cols, chosen>>, job[p].pc \notin {"upsert", "write"}
      PROVE  SettingsInv'
  <2>1. Moves(p) /\ raced \subseteq raced'
    BY <1>3, WorkMoves
  <2>2. job'[p].pc \notin {"upsert", "write"}
    BY <2>1 DEF Moves, NextPc
  <2>3. \A n \in Name : SameCol(n)
    BY <1>3 DEF SameCol, Exists
  <2>4. \A n \in job[p].names \ raced' : Exists(n)' => cols'[n].keep = chosen'[n]
    BY <1>3, <2>1 DEF Exists, SettingsInv, SettingsAreKept
  <2> QED BY <1>0, <2>1, <2>2, <2>3, <2>4, SettingsFrame DEF Moves
<1>4. ASSUME NEW p \in Proc, upsert_collection(p) PROVE SettingsInv'
  <2>1. PICK n : n = job[p].name
    OBVIOUS
  <2>2. /\ Moves(p) /\ UNCHANGED raced /\ job[p].pc = "upsert" /\ job[p].names = {n} /\ n \in Name
    BY <1>0, <1>4, <2>1, WorkMoves DEF Working, upsert_collection, NamesInv, Job
  <2>3. /\ \A m \in Name \ {n} : SameCol(m)
        /\ n \in DOMAIN cols' /\ cols'[n].keep = job[p].keep
        /\ chosen'[n] = IF Exists(n) THEN chosen[n] ELSE Unset
    BY <1>0, <1>4, <2>1 DEF upsert_collection, Put, Exists, SameCol
  <2>4. n \notin raced' => cols'[n].keep = chosen'[n]
    BY <2>1, <2>2, <2>3 DEF SettingsInv, PendingInv, SettingsAreKept, Exists
  <2>5. job'[p].pc \notin {"upsert", "write"}
    BY <2>2 DEF Moves, NextPc
  <2> QED BY <1>0, <2>2, <2>3, <2>4, <2>5, SettingsFrame DEF Moves
<1>5. ASSUME NEW p \in Proc, set_collection_embed_rules(p) PROVE SettingsInv'
  <2>1. PICK n, keep, change : n = job[p].name /\ keep = job[p].keep /\ change = job[p].change
    OBVIOUS
  <2>2. /\ Moves(p) /\ UNCHANGED raced /\ job[p].pc = "write" /\ job[p].names = {n} /\ n \in Name
        /\ keep \in Kept /\ change \subseteq Settings
    BY <1>0, <1>5, <2>1, WorkMoves DEF Working, set_collection_embed_rules, NamesInv, Job
  <2>3. job'[p].pc \notin {"upsert", "write"}
    BY <2>2 DEF Moves, NextPc
  <2>4. CASE ~Exists(n)
    <3>1. UNCHANGED <<cols, chosen>>
      BY <1>5, <2>1, <2>4 DEF set_collection_embed_rules
    <3>2. \A m \in Name : SameCol(m)
      BY <3>1 DEF SameCol, Exists
    <3> QED BY <1>0, <2>2, <2>3, <2>4, <3>1, <3>2, SettingsFrame DEF Moves, Exists
  <2>5. CASE Exists(n)
    <3>1. PICK k, a : /\ k = [f \in Settings |-> IF f \in Rules THEN keep[f] ELSE cols[n].keep[f]]
                      /\ a = [f \in Settings |-> IF f \in change THEN keep[f] ELSE chosen[n][f]]
      OBVIOUS
    <3>2. cols' = [cols EXCEPT ![n].keep = k] /\ chosen' = [chosen EXCEPT ![n] = a]
      BY <1>5, <2>1, <2>5, <3>1 DEF set_collection_embed_rules, Asked
    <3>3. n \in DOMAIN cols /\ n \in DOMAIN chosen
      BY <1>0, <2>5 DEF Exists
    <3>4. \A m \in DOMAIN cols : cols'[m] = IF m = n THEN [cols[n] EXCEPT !.keep = k] ELSE cols[m]
      BY <3>2
    <3>5. [cols[n] EXCEPT !.keep = k].keep = k /\ DOMAIN cols' = DOMAIN cols
      BY <1>0, <3>2, <3>3
    <3>6. \A m \in Name \ {n} : SameCol(m)
      BY <1>0, <3>2, <3>4, <3>5 DEF SameCol, Exists
    <3>7. cols'[n].keep = k /\ chosen'[n] = a
      BY <3>2, <3>3, <3>4, <3>5
    <3>8. n \notin raced' => k = a
      <4> SUFFICES ASSUME n \notin raced PROVE k = a
        BY <2>2
      <4>1. cols[n].keep = chosen[n] /\ change \subseteq Rules
            /\ \A f \in Settings \ change : keep[f] = cols[n].keep[f]
        BY <2>1, <2>2, <2>5, <3>3 DEF SettingsInv, PendingInv, SettingsAreKept
      <4> QED BY <3>1, <4>1
    <3> QED BY <1>0, <2>2, <2>3, <3>6, <3>7, <3>8, SettingsFrame DEF Moves
  <2> QED BY <2>4, <2>5
<1>6. ASSUME NEW p \in Proc, PurgeRow(p) PROVE SettingsInv'
  <2>1. PICK n : n = job[p].name
    OBVIOUS
  <2>2. /\ Moves(p) /\ UNCHANGED raced /\ job[p].pc = "row" /\ job[p].names = {n}
    BY <1>6, <2>1, WorkMoves DEF Working, PurgeRow, NamesInv
  <2>3. /\ \A m \in Name \ {n} : SameCol(m)
        /\ n \notin DOMAIN cols'
    BY <1>0, <1>6, <2>1 DEF PurgeRow, Drop, SameCol, Exists
  <2>4. job'[p].pc \notin {"upsert", "write"}
    BY <2>2 DEF Moves, NextPc
  <2> QED BY <1>0, <2>2, <2>3, <2>4, SettingsFrame DEF Moves, Exists
<1>7. ASSUME NEW p \in Proc, rename_collection(p) PROVE SettingsInv'
  <2>1. PICK old, new : old = job[p].name /\ new = job[p].to
    OBVIOUS
  <2>2. /\ Moves(p) /\ raced \subseteq raced' /\ (old \in raced => new \in raced')
        /\ job[p].pc = "tx" /\ job[p].names = {old, new} /\ old # new /\ new \notin DOMAIN cols
    BY <1>7, <2>1, WorkMoves DEF Working, rename_collection, NamesInv, Taken, Exists
  <2>3. /\ cols' = [n \in {Moved(m, old, new) : m \in DOMAIN cols} |-> IF n = new THEN cols[old] ELSE cols[n]]
        /\ chosen' = [n \in DOMAIN cols' |-> IF n = new THEN chosen[old] ELSE chosen[n]]
    BY <1>7, <2>1 DEF rename_collection
  <2>4. /\ \A n \in Name \ {old, new} : n \in DOMAIN cols' <=> n \in DOMAIN cols
        /\ old \notin DOMAIN cols'
        /\ new \in DOMAIN cols' => old \in DOMAIN cols
    BY <2>2, <2>3 DEF Moved
  <2>5. \A n \in Name \ {old, new} : SameCol(n)
    BY <2>3, <2>4 DEF SameCol, Exists
  <2>6. new \in DOMAIN cols' /\ new \notin raced' => cols'[new].keep = chosen'[new]
    BY <1>0, <2>2, <2>3, <2>4 DEF SettingsInv, SettingsAreKept
  <2>7. job'[p].pc \notin {"upsert", "write"}
    BY <2>2 DEF Moves, NextPc
  <2> QED BY <1>0, <2>2, <2>4, <2>5, <2>6, <2>7, SettingsFrame DEF Moves, Exists
<1>8. ASSUME NEW n \in Name, NEW field, NEW v, Switch(n, field, v) PROVE SettingsInv'
  <2>1. PICK k, a : k = [cols[n].keep EXCEPT ![field] = v] /\ a = [chosen[n] EXCEPT ![field] = v]
    OBVIOUS
  <2>2. /\ cols' = [cols EXCEPT ![n].keep = k] /\ chosen' = [chosen EXCEPT ![n] = a]
        /\ n \in DOMAIN cols /\ UNCHANGED job /\ raced' = Spoilt(n)
    BY <1>8, <2>1 DEF Switch, Exists
  <2>3. \A m \in DOMAIN cols : cols'[m] = IF m = n THEN [cols[n] EXCEPT !.keep = k] ELSE cols[m]
    BY <2>2
  <2>4. [cols[n] EXCEPT !.keep = k].keep = k /\ DOMAIN cols' = DOMAIN cols
    BY <1>0, <2>2
  <2>5. \A m \in Name \ {n} : SameCol(m)
    BY <1>0, <2>2, <2>3, <2>4 DEF SameCol, Exists
  <2>6. n \notin raced => cols'[n].keep = chosen'[n]
    BY <1>0, <2>1, <2>2, <2>3, <2>4 DEF SettingsInv, SettingsAreKept
  <2>7. \A q \in Proc : job[q].pc \in {"upsert", "write"} /\ job[q].name \notin raced' =>
          job[q].name # n /\ job[q].name \in Name
    BY <1>0, <2>2 DEF Spoilt, Busy, NamesInv, Job
  <2>8. raced \subseteq raced'
    BY <2>2 DEF Spoilt
  <2>9. PendingInv'
    BY <2>2, <2>5, <2>7, <2>8 DEF SettingsInv, PendingInv, SameCol, Exists
  <2>10. SettingsAreKept'
    BY <1>0, <2>4, <2>5, <2>6, <2>8 DEF SettingsInv, SettingsAreKept, SameCol, Exists
  <2> QED BY <2>9, <2>10 DEF SettingsInv
<1>9. ASSUME NEW k, NEW bare, context_add(k, bare) \/ context_rm(k, bare) PROVE SettingsInv'
  BY <1>9 DEF context_add, context_rm, SettingsInv, PendingInv, SettingsAreKept, Exists
<1>10. ASSUME NEW p \in Proc,
              \/ AddDocuments(p) \/ AddUnstaged(p) \/ AddFlush(p) \/ PurgeDocuments(p)
              \/ PurgeContexts(p) \/ RemoveEntries(p) \/ RenameFails(p) \/ RenameCommit(p)
       PROVE  SettingsInv'
  <2>1. job[p].pc \notin {"upsert", "write"} /\ UNCHANGED <<cols, chosen>>
    BY <1>10 DEF AddDocuments, AddUnstaged, AddFlush, PurgeDocuments, PurgeContexts, RemoveEntries,
                 RenameFails, RenameCommit
  <2> QED BY <1>3, <1>10, <2>1 DEF Working
<1>11. ASSUME NEW p \in Proc, JobDies(p) PROVE SettingsInv'
  <2>1. UNCHANGED <<cols, chosen, raced>> /\ \A q \in Proc \ {p} : job'[q] = job[q]
    BY <1>11, WorkMoves DEF JobDies, Working, Moves
  <2>2. job'[p].pc = "idle"
    BY <1>0, <1>11, Finishes DEF JobDies
  <2> QED BY <2>1, <2>2 DEF SettingsInv, PendingInv, SettingsAreKept, Exists
<1> QED BY <1>1, <1>2, <1>4, <1>5, <1>6, <1>7, <1>8, <1>9, <1>10, <1>11 DEF CatalogNext

BelongingsKept == CatalogKept /\ NamesInv /\ ContextsFollow /\ SettingsInv

LEMMA BelongingsStart ==
  ASSUME CatalogInit \/ NoCatalog
  PROVE  BelongingsKept
<1>1. cols = <<>> /\ contexts = <<>> /\ job = [p \in Proc |-> NoJob]
  BY DEF CatalogInit, NoCatalog
<1>2. DOMAIN cols = {} /\ DOMAIN contexts = {} /\ \A p \in Proc : job[p].pc = "idle" /\ job[p].names = {}
  BY <1>1, NoJobType
<1>3. NamesInv
  BY <1>2 DEF NamesInv
<1>4. ContextsFollow
  BY <1>2 DEF ContextsFollow
<1>5. SettingsInv
  BY <1>2 DEF SettingsInv, PendingInv, SettingsAreKept
<1> QED BY <1>3, <1>4, <1>5, CatalogStarts DEF BelongingsKept

LEMMA BelongingsStep ==
  ASSUME BelongingsKept, [CatalogNext]_catalogVars
  PROVE  BelongingsKept'
<1>1. CatalogKept'
  BY CatalogStep DEF BelongingsKept
<1>2. NamesInv' /\ ContextsFollow'
  BY NamesStep, ContextsStep DEF BelongingsKept
<1>3. SettingsInv'
  BY <1>1, SettingsStep DEF BelongingsKept
<1> QED BY <1>1, <1>2, <1>3 DEF BelongingsKept

LEMMA BelongingsAlways == Spec => []BelongingsKept
<1>1. Init => BelongingsKept
  BY BelongingsStart DEF Init
<1>2. BelongingsKept /\ [Next]_vars => BelongingsKept'
  <2> SUFFICES ASSUME BelongingsKept, [Next]_vars PROVE BelongingsKept'
    OBVIOUS
  <2>1. [CatalogNext]_catalogVars
    BY DEF Next, vars
  <2> QED BY <2>1, BelongingsStep
<1> QED BY <1>1, <1>2, PTL DEF Spec

\* A context stays with the collection it was written for, but for the very keys
\* that a removal killed between its last two statements left, and a setting the
\* user gave is the one in force: whatever adds, removals, renames, settings and
\* deaths came before, on however many names and processes.
THEOREM BelongingsStay == Spec => []BelongingsFollow
<1>1. BelongingsKept => BelongingsFollow
  BY DEF BelongingsKept, SettingsInv, BelongingsFollow
<1> QED BY <1>1, BelongingsAlways, PTL


-----------------------------------------------------------------------------
(* The entries of each name, while commands work on it.                    *)

\* Steps after which rows and entries differ until the command ends.
Waiting == {"flush", "row", "contexts", "entries", "commit"}

\* S and T agree on name n.
Same(S, T, n) == \A f \in Files : <<n, f>> \in S <=> <<n, f>> \in T

\* A name on which nobody waits has for entries its documents.
Settled ==
  \A n \in Name \ (torn \cup raced) :
    (\A p \in Proc : n \in job[p].names => job[p].pc \notin Waiting) => Same(fts, rows, n)

\* What an add has staged is what its name lacks.
AddOwes(p) ==
  job[p].pc = "flush" =>
    /\ \A e \in job[p].ins : e[1] = job[p].name
    /\ job[p].name \notin torn \cup raced => Same(rows, fts \cup job[p].ins, job[p].name)
    /\ job[p].found = collect_candidates(job[p].flags)

\* A command under the lock has seen every entry of its names.
Sees(p) ==
  job[p].pc \in {"documents", "tx", "commit"} =>
    \A n \in job[p].names \ raced : Same(job[p].snap, fts, n)

\* A removal will delete the entries of its name, which has no documents.
RemoveOwes(p) ==
  job[p].pc \in {"row", "contexts", "entries"} =>
    /\ \A e \in job[p].del : e[1] = job[p].name
    /\ job[p].name \notin torn \cup raced =>
         \A f \in Files :
           /\ <<job[p].name, f>> \notin rows
           /\ <<job[p].name, f>> \in fts => <<job[p].name, f>> \in job[p].del \cap job[p].snap

\* A rename sweeps nothing of another name but what a death had torn.
RenameSpares(p) ==
  job[p].pc = "tx" =>
    \A n \in Name \ (torn \cup raced \cup job[p].names) : \A f \in Files :
      <<n, f>> \in job[p].snap => <<n, f>> \in rows

\* A rename will leave its names with the entries of their documents.
RenameOwes(p) ==
  job[p].pc = "commit" =>
    /\ \A n \in job[p].names \ raced : Same(rows, job[p].ins, n)
    /\ job[p].snap \ rows \subseteq job[p].del /\ job[p].ins \subseteq rows
    /\ \A e \in job[p].ins : e[1] = job[p].to
    /\ \A e \in job[p].snap : e[1] \in job[p].names => e \in job[p].del
    /\ \A n \in Name \ (torn \cup raced \cup job[p].names) : \A f \in Files : <<n, f>> \notin job[p].del

\* What is staged is staged by the writer.
Staged(p) ==
  /\ job[p].pc = "flush" /\ job[p].ins # {} => writer = p
  /\ job[p].pc = "commit" /\ job[p].ins \cup job[p].del # {} => writer = p

Owes(p) ==
  AddOwes(p) /\ Sees(p) /\ RemoveOwes(p) /\ RenameSpares(p) /\ RenameOwes(p) /\ Staged(p)

EntriesInv == Settled /\ \A p \in Proc : Owes(p)

\* A step of p changes nothing of the names of the others.
Frame(p) ==
  /\ \A q \in Proc \ {p} : job'[q] = job[q] /\ (writer = q => writer' = q)
  /\ raced \subseteq raced' /\ torn \ job[p].names \subseteq torn'
  /\ \A n \in Name \ job[p].names : Same(rows', rows, n)
  /\ \A n \in Name \ (job[p].names \cup torn \cup raced) : Same(fts', fts, n)
  /\ lock # p => /\ rows \subseteq rows' /\ torn \subseteq torn'
                 /\ \A n \in Name \ job[p].names : Same(fts', fts, n)

LEMMA OthersOwe ==
  ASSUME CatalogKept, NamesInv, EntriesInv, NEW p \in Proc, Frame(p), NEW q \in Proc \ {p}
  PROVE  Owes(q)'
<1>1. Owes(q) /\ job'[q] = job[q] /\ job[q] \in Job
  BY DEF EntriesInv, Frame, CatalogKept, CatalogTypes
<1>2. \A n \in job[q].names \ raced' : n \in Name /\ n \notin job[p].names
  BY <1>1 DEF NamesInv, Frame, Job
<1>3. \A n \in job[q].names \ raced' : n \notin torn' => n \notin torn
  BY <1>2 DEF Frame
<1>4. job[q].pc \in Guarded => lock # p
  BY LockStays DEF CatalogKept
<1>5. job[q].pc \notin {"idle", "tx", "commit"} => job[q].name \in job[q].names
  BY DEF NamesInv
<1>6. AddOwes(q)'
  BY <1>1, <1>2, <1>3, <1>5 DEF Owes, AddOwes, Frame, Same
<1>7. Sees(q)'
  BY <1>1, <1>2, <1>4 DEF Owes, Sees, Frame, Same, Guarded
<1>8. RemoveOwes(q)'
  BY <1>1, <1>2, <1>3, <1>5 DEF Owes, RemoveOwes, Frame, Same
<1>9. RenameSpares(q)'
  BY <1>1, <1>4 DEF Owes, RenameSpares, Frame, Guarded
<1>10. RenameOwes(q)'
  BY <1>1, <1>2, <1>4 DEF Owes, RenameOwes, Frame, Same, Guarded
<1>11. Staged(q)'
  BY <1>1 DEF Owes, Staged, Frame
<1> QED BY <1>6, <1>7, <1>8, <1>9, <1>10, <1>11 DEF Owes

\* So a step preserves what is owed when its own command does, and settles the
\* names it leaves.
LEMMA EntriesFrame ==
  ASSUME CatalogKept, NamesInv, EntriesInv, NEW p \in Proc, Frame(p), Owes(p)',
         \A n \in job[p].names \ (torn' \cup raced') :
           (n \in job'[p].names /\ job'[p].pc \in Waiting) \/ Same(fts', rows', n)
  PROVE  EntriesInv'
<1>1. \A q \in Proc : Owes(q)'
  BY OthersOwe
<1>2. ASSUME NEW n \in Name \ (torn' \cup raced'),
             \A q \in Proc : n \in job'[q].names => job'[q].pc \notin Waiting,
             n \notin job[p].names
      PROVE  Same(fts', rows', n)
  <2>1. n \notin torn /\ n \notin raced
    BY <1>2 DEF Frame
  <2>2. \A q \in Proc : n \in job[q].names => job[q].pc \notin Waiting
    BY <1>2 DEF Frame
  <2>3. Same(fts, rows, n)
    BY <2>1, <2>2 DEF EntriesInv, Settled
  <2> QED BY <1>2, <2>1, <2>3 DEF Frame, Same
<1>3. ASSUME NEW n \in Name \ (torn' \cup raced'),
             \A q \in Proc : n \in job'[q].names => job'[q].pc \notin Waiting
      PROVE  Same(fts', rows', n)
  BY <1>2, <1>3
<1>4. Settled'
  BY <1>3 DEF Settled, Same
<1> QED BY <1>1, <1>4 DEF EntriesInv


\* With nobody on a name but p, at a step that owes nothing, it is settled.
LEMMA SettledHere ==
  ASSUME NamesInv, EntriesInv, NEW p \in Proc, job[p].pc \notin Waiting,
         NEW n \in Name, n \in job[p].names, n \notin torn \cup raced
  PROVE  Same(fts, rows, n)
<1>1. \A q \in Proc : n \in job[q].names => q = p
  BY DEF NamesInv
<1> QED BY <1>1 DEF EntriesInv, Settled

\* A command ends, or dies, with what it owed done or its names known to be torn.
LEMMA EntriesEnd ==
  ASSUME CatalogKept, NamesInv, EntriesInv, NEW p \in Proc,
         \/ AddUnstaged(p) \/ AddFlush(p) \/ RemoveEntries(p) \/ RenameFails(p)
         \/ RenameCommit(p) \/ set_collection_embed_rules(p) \/ JobDies(p)
  PROVE  EntriesInv'
<1>0. job[p] \in Job /\ rows \cup fts \subseteq Name \X Files
  BY DEF CatalogKept, CatalogTypes
<1>1. /\ job'[p].pc = "idle" /\ \A q \in Proc \ {p} : job'[q] = job[q]
  <2>1. Finish(p)
    BY DEF AddUnstaged, AddFlush, RemoveEntries, RenameFails, RenameCommit,
           set_collection_embed_rules, JobDies
  <2> QED BY <2>1, Finishes DEF CatalogKept, CatalogTypes
<1>2. Owes(p)'
  BY <1>1 DEF Owes, AddOwes, Sees, RemoveOwes, RenameSpares, RenameOwes, Staged
<1>3. \A q \in Proc \ {p} : writer = q => writer' = q
  BY AbsentType DEF AddUnstaged, AddFlush, RemoveEntries, RenameFails, RenameCommit, Released,
     set_collection_embed_rules, JobDies
<1>4. Owes(p) /\ (job[p].pc \in Guarded <=> lock = p)
  BY LockStays DEF EntriesInv, CatalogKept
<1>5. job[p].pc \notin {"idle", "tx", "commit"} => job[p].names = {job[p].name}
  BY DEF NamesInv
<1>6. job[p].names \subseteq Name
  BY <1>0 DEF Job
<1>7. CASE AddUnstaged(p)
  <2>1. Frame(p)
    BY <1>0, <1>1, <1>3, <1>5, <1>7, NewFiles DEF AddUnstaged, Frame, Same
  <2>2. job[p].names \subseteq torn'
    BY <1>5, <1>7 DEF AddUnstaged
  <2> QED BY <1>2, <2>1, <2>2, EntriesFrame
<1>8. CASE AddFlush(p)
  <2>1. job[p].pc = "flush" /\ fts' = fts \cup job[p].ins /\ UNCHANGED <<rows, torn, raced>>
        /\ job[p].names = {job[p].name}
    BY <1>5, <1>8 DEF AddFlush
  <2>2. Frame(p)
    BY <1>1, <1>3, <1>4, <2>1 DEF Frame, Same, Owes, AddOwes
  <2>3. \A n \in job[p].names \ (torn' \cup raced') : Same(fts', rows', n)
    BY <1>4, <2>1 DEF Same, Owes, AddOwes
  <2> QED BY <1>2, <2>2, <2>3, EntriesFrame
<1>9. CASE RemoveEntries(p)
  <2>1. job[p].pc = "entries" /\ UNCHANGED <<rows, raced>> /\ job[p].names = {job[p].name}
        /\ lock = p
    BY <1>4, <1>5, <1>9 DEF RemoveEntries, Guarded
  <2>2. \/ UNCHANGED fts /\ torn' = torn \cup job[p].names
        \/ fts' = fts \ (job[p].del \cap job[p].snap) /\ UNCHANGED torn
    BY <1>9, <2>1 DEF RemoveEntries
  <2>3. \A e \in job[p].del : e[1] = job[p].name
    BY <1>4, <2>1 DEF Owes, RemoveOwes
  <2>4. Frame(p)
    BY <1>1, <1>3, <2>1, <2>2, <2>3 DEF Frame, Same
  <2>5. \A n \in job[p].names \ (torn' \cup raced') : Same(fts', rows', n)
    BY <1>4, <2>1, <2>2 DEF Same, Owes, RemoveOwes
  <2> QED BY <1>2, <2>4, <2>5, EntriesFrame
<1>10. CASE RenameFails(p) \/ set_collection_embed_rules(p)
  <2>1. UNCHANGED <<rows, fts, torn, raced>> /\ job[p].pc \notin Waiting
    BY <1>10 DEF RenameFails, set_collection_embed_rules, Waiting
  <2>2. Frame(p)
    BY <1>1, <1>3, <2>1 DEF Frame, Same
  <2>3. \A n \in job[p].names \ (torn' \cup raced') : Same(fts', rows', n)
    BY <1>6, <2>1, SettledHere
  <2> QED BY <1>2, <2>2, <2>3, EntriesFrame
<1>11. CASE RenameCommit(p)
  <2>1. PICK ins, del, names, snap : /\ ins = job[p].ins /\ del = job[p].del
                                     /\ names = job[p].names /\ snap = job[p].snap
    OBVIOUS
  <2>2. /\ job[p].pc = "commit" /\ lock = p /\ fts' = (fts \ del) \cup ins /\ torn' = torn \ names
        /\ UNCHANGED <<rows, raced>>
    BY <1>4, <1>11, <2>1 DEF RenameCommit, Guarded
  <2>3. /\ \A n \in names \ raced : Same(rows, ins, n) /\ Same(snap, fts, n)
        /\ \A e \in ins : e[1] \in names
        /\ \A e \in snap : e[1] \in names => e \in del
        /\ \A n \in Name \ (torn \cup raced \cup names) : \A f \in Files : <<n, f>> \notin del
    BY <1>4, <2>1, <2>2 DEF Owes, Sees, RenameOwes, NamesInv
  <2>4. Frame(p)
    BY <1>1, <1>3, <2>1, <2>2, <2>3 DEF Frame, Same
  <2>5. \A n \in names \ raced : Same(fts', rows', n)
    BY <2>2, <2>3 DEF Same
  <2> QED BY <1>2, <2>1, <2>2, <2>4, <2>5, EntriesFrame
<1>12. CASE JobDies(p)
  <2>1. UNCHANGED <<rows, fts, raced>> /\ torn' = torn \cup job[p].names
    BY <1>12 DEF JobDies
  <2>2. Frame(p)
    BY <1>1, <1>3, <2>1 DEF Frame, Same
  <2> QED BY <1>2, <2>1, <2>2, EntriesFrame
<1> QED BY <1>7, <1>8, <1>9, <1>10, <1>11, <1>12


\* A command goes on, and owes what its step began.
LEMMA EntriesGoOn ==
  ASSUME CatalogKept, NamesInv, EntriesInv, NEW p \in Proc,
         \/ upsert_collection(p) \/ AddDocuments(p)
         \/ PurgeDocuments(p) \/ PurgeRow(p) \/ PurgeContexts(p)
  PROVE  EntriesInv'
<1>0. /\ job \in [Proc -> Job] /\ job[p] \in Job /\ rows \cup fts \subseteq Name \X Files
      /\ Owes(p) /\ (job[p].pc \in Guarded <=> lock = p)
  BY LockStays DEF CatalogKept, CatalogTypes, EntriesInv
<1>1. /\ \A q \in Proc \ {p} : job'[q] = job[q]
      /\ job[p].pc \in {"upsert", "walk", "documents", "row", "contexts"}
  BY <1>0, WorkMoves DEF Moves, Working, upsert_collection, AddDocuments, PurgeDocuments, PurgeRow,
     PurgeContexts
<1>2. job[p].names = {job[p].name} /\ job[p].name \in Name
  BY <1>0, <1>1 DEF NamesInv, Job
<1>3. UNCHANGED <<fts, torn, raced>>
  BY DEF upsert_collection, AddDocuments, PurgeDocuments, PurgeRow, PurgeContexts
<1>4. \A q \in Proc \ {p} : writer = q => writer' = q
  BY AbsentType DEF upsert_collection, AddDocuments, PurgeDocuments, PurgeRow, PurgeContexts
<1>5. job[p].pc \notin Waiting /\ job[p].name \notin torn \cup raced => Same(fts, rows, job[p].name)
  BY <1>2, SettledHere
<1>6. CASE upsert_collection(p)
  <2>1. job'[p].pc = "walk" /\ job[p].pc = "upsert" /\ UNCHANGED rows
    BY <1>0, <1>6, WorkMoves DEF Moves, Working, upsert_collection, NextPc, Step
  <2>2. Owes(p)'
    BY <2>1 DEF Owes, AddOwes, Sees, RemoveOwes, RenameSpares, RenameOwes, Staged
  <2>3. Frame(p)
    BY <1>1, <1>3, <1>4, <2>1 DEF Frame, Same
  <2>4. job[p].name \notin torn \cup raced => Same(fts', rows', job[p].name)
    BY <1>3, <1>5, <2>1 DEF Waiting
  <2> QED BY <1>2, <1>3, <2>2, <2>3, <2>4, EntriesFrame
<1>7. CASE AddDocuments(p)
  <2> DEFINE new == New(p)
             found == collect_candidates(job[p].flags)
             r == [job[p] EXCEPT !.pc = "flush", !.ins = new, !.found = found]
  <2>1. /\ job'[p] = r /\ job[p].pc = "walk" /\ rows' = rows \cup new
        /\ writer' = IF new = {} THEN writer ELSE p
    BY <1>0, <1>7, Takes DEF AddDocuments
  <2>2. \A e \in new : e[1] = job[p].name
    BY NewFiles
  <2>3. found = collect_candidates(job[p].flags)
    OBVIOUS
  <2> HIDE DEF new, found
  <2>4. /\ r.pc = "flush" /\ r.ins = new /\ r.found = found
        /\ \A f \in {"names", "name", "flags"} : r[f] = job[p][f]
    BY <1>0 DEF Job
  <2>5. /\ job'[p].pc = "flush" /\ job'[p].ins = new /\ job'[p].found = found
        /\ job'[p].names = job[p].names /\ job'[p].name = job[p].name /\ job'[p].flags = job[p].flags
    BY <2>1, <2>4
  <2> HIDE DEF r
  <2>6. job[p].name \notin torn \cup raced => Same(rows', fts \cup new, job[p].name)
    BY <1>5, <2>1 DEF Same, Waiting
  <2>7. AddOwes(p)'
    BY <1>3, <2>2, <2>3, <2>5, <2>6 DEF AddOwes, collect_candidates, walk_paths
  <2>8. Owes(p)'
    BY <2>1, <2>5, <2>7 DEF Owes, Sees, RemoveOwes, RenameSpares, RenameOwes, Staged
  <2>9. Frame(p)
    BY <1>1, <1>2, <1>3, <1>4, <2>1, <2>2 DEF Frame, Same
  <2> QED BY <2>5, <2>8, <2>9, EntriesFrame DEF Waiting
<1>8. CASE PurgeDocuments(p)
  <2> DEFINE own == {e \in rows : e[1] = job[p].name}
             r == [job[p] EXCEPT !.pc = "row", !.del = own]
  <2>1. job'[p] = r /\ job[p].pc = "documents" /\ rows' = rows \ own
    BY <1>0, <1>8, Takes DEF PurgeDocuments
  <2>2. /\ \A e \in own : e \in rows /\ e[1] = job[p].name
        /\ \A f \in Files : <<job[p].name, f>> \in rows => <<job[p].name, f>> \in own
    OBVIOUS
  <2> HIDE DEF own
  <2>3. /\ r.pc = "row" /\ r.del = own /\ \A f \in {"names", "name", "snap"} : r[f] = job[p][f]
    BY <1>0 DEF Job
  <2>4. /\ job'[p].pc = "row" /\ job'[p].del = own
        /\ job'[p].names = job[p].names /\ job'[p].name = job[p].name /\ job'[p].snap = job[p].snap
    BY <2>1, <2>3
  <2> HIDE DEF r
  <2>5. lock = p /\ (job[p].name \notin raced => Same(job[p].snap, fts, job[p].name))
    BY <1>0, <1>2, <2>1 DEF Owes, Sees, Guarded
  <2>6. RemoveOwes(p)'
    BY <1>3, <1>5, <2>1, <2>2, <2>4, <2>5 DEF RemoveOwes, Same, Waiting
  <2>7. Owes(p)'
    BY <2>4, <2>6 DEF Owes, AddOwes, Sees, RenameSpares, RenameOwes, Staged
  <2>8. Frame(p)
    BY <1>1, <1>2, <1>3, <1>4, <2>1, <2>2, <2>5 DEF Frame, Same
  <2> QED BY <2>4, <2>7, <2>8, EntriesFrame DEF Waiting
<1>9. CASE PurgeRow(p) \/ PurgeContexts(p)
  <2>1. PICK pc \in {"contexts", "entries"} :
          /\ Step(p, [job[p] EXCEPT !.pc = pc])
          /\ job[p].pc \in {"row", "contexts"} /\ UNCHANGED rows
    BY <1>9 DEF PurgeRow, PurgeContexts
  <2> DEFINE r == [job[p] EXCEPT !.pc = pc]
  <2>2. job'[p] = r
    BY <1>0, <2>1, Takes
  <2>3. r.pc = pc /\ \A f \in {"names", "name", "snap", "del"} : r[f] = job[p][f]
    BY <1>0 DEF Job
  <2>4. /\ job'[p].pc = pc /\ job'[p].del = job[p].del
        /\ job'[p].names = job[p].names /\ job'[p].name = job[p].name /\ job'[p].snap = job[p].snap
    BY <2>2, <2>3
  <2> HIDE DEF r
  <2>5. RemoveOwes(p)'
    BY <1>0, <1>3, <2>1, <2>4 DEF Owes, RemoveOwes
  <2>6. Owes(p)'
    BY <2>4, <2>5 DEF Owes, AddOwes, Sees, RenameSpares, RenameOwes, Staged
  <2>7. Frame(p)
    BY <1>1, <1>3, <1>4, <2>1 DEF Frame, Same
  <2> QED BY <2>4, <2>6, <2>7, EntriesFrame DEF Waiting
<1> QED BY <1>6, <1>7, <1>8, <1>9

LEMMA EntriesRename ==
  ASSUME CatalogKept, NamesInv, EntriesInv, NEW p \in Proc, rename_collection(p)
  PROVE  EntriesInv'
<1>0. /\ job \in [Proc -> Job] /\ job[p] \in Job /\ rows \subseteq Name \X Files
      /\ Owes(p) /\ (job[p].pc \in Guarded <=> lock = p)
  BY LockStays DEF CatalogKept, CatalogTypes, EntriesInv
<1>1. PICK old, new, snap, ins, del :
        /\ old = job[p].name /\ new = job[p].to /\ snap = job[p].snap
        /\ ins = {r \in rows' : r[1] = new} /\ del = (ins \cap snap) \cup (snap \ rows')
  OBVIOUS
<1>2. /\ job[p].pc = "tx" /\ job[p].names = {old, new} /\ old # new /\ lock = p
      /\ old \in Name /\ new \in Name /\ snap \subseteq Name \X Files
  BY <1>0, <1>1 DEF rename_collection, NamesInv, Guarded, Job
<1>3. /\ rows' = {<<Moved(r[1], old, new), r[2]>> : r \in rows} /\ rows' \subseteq Name \X Files
      /\ job'[p] = [job[p] EXCEPT !.pc = "commit", !.ins = ins, !.del = del]
      /\ \A q \in Proc \ {p} : job'[q] = job[q]
      /\ UNCHANGED <<fts, lock, torn>>
      /\ writer' = (IF ins \cup (snap \ rows') = {} THEN writer ELSE p)
      /\ writer' # writer => writer = Nobody
      /\ raced \subseteq raced'
  <2>1. raced \subseteq raced'
    BY DEF rename_collection
  <2>2. \A q \in Proc \ {p} : job'[q] = job[q]
    BY RenamedRows
  <2>3. UNCHANGED <<fts, lock, torn>> /\ (writer' # writer => writer = Nobody)
    BY RenamedRows
  <2>4. rows' \subseteq Name \X Files /\ rows' = {<<Moved(r[1], old, new), r[2]>> : r \in rows}
    <3>1. rows' \subseteq Name \X Files
          /\ rows' = {<<Moved(r[1], job[p].name, job[p].to), r[2]>> : r \in rows}
      BY RenamedRows
    <3>2. \A r \in rows : Moved(r[1], old, new) = Moved(r[1], job[p].name, job[p].to)
      BY <1>1
    <3> QED BY <3>1, <3>2
  <2>5. job'[p] = [job[p] EXCEPT !.pc = "commit", !.ins = ins, !.del = del]
    BY <1>1, RenamedRows, ZenonT(30)
  <2>6. writer' = (IF ins \cup (snap \ rows') = {} THEN writer ELSE p)
    <3>1. writer' = (IF {r \in rows' : r[1] = job[p].to} \cup (job[p].snap \ rows') = {} THEN writer ELSE p)
      BY RenamedRows
    <3>2. {r \in rows' : r[1] = job[p].to} = ins /\ job[p].snap = snap
      BY <1>1
    <3> QED BY <3>1, <3>2
  <2> QED BY <2>1, <2>2, <2>3, <2>4, <2>5, <2>6
<1>4. /\ job'[p].pc = "commit" /\ job'[p].ins = ins /\ job'[p].del = del
      /\ job'[p].names = {old, new} /\ job'[p].to = new /\ job'[p].snap = snap
  <2> DEFINE r == [job[p] EXCEPT !.pc = "commit", !.ins = ins, !.del = del]
  <2>1. /\ r.pc = "commit" /\ r.ins = ins /\ r.del = del
        /\ \A f \in {"names", "to", "snap"} : r[f] = job[p][f]
    BY <1>0 DEF Job
  <2> HIDE DEF r
  <2>2. job'[p] = r
    BY <1>3 DEF r
  <2> QED BY <1>1, <1>2, <2>1, <2>2
<1>5. \A n \in Name \ {old, new} : Same(rows', rows, n)
  BY <1>0, <1>2, <1>3 DEF Same, Moved
<1>6. \A f \in Files : <<old, f>> \notin rows'
  BY <1>0, <1>2, <1>3 DEF Moved
<1>7. Frame(p)
  BY <1>2, <1>3, <1>5, AbsentType DEF Frame, Same
<1>8. \A n \in {old, new} : Same(rows', ins, n)
  BY <1>1, <1>2, <1>6 DEF Same
<1>9. /\ snap \ rows' \subseteq del /\ ins \subseteq rows' /\ \A e \in ins : e[1] = new
  BY <1>1
<1>10. ASSUME NEW e \in snap, e[1] \in {old, new} PROVE e \in del
  <2>1. CASE e \notin rows'
    BY <1>1, <2>1
  <2>2. CASE e \in rows'
    <3>1. e = <<e[1], e[2]>> /\ e[2] \in Files
      BY <1>2
    <3>2. e[1] = new
      BY <1>6, <1>10, <2>2, <3>1
    <3> QED BY <1>1, <2>2, <3>2
  <2> QED BY <2>1, <2>2
<1>11. ASSUME NEW n \in Name \ (torn \cup raced \cup {old, new}), NEW f \in Files
       PROVE  <<n, f>> \notin del
  <2>1. <<n, f>> \in snap => <<n, f>> \in rows
    BY <1>0, <1>1, <1>2, <1>11 DEF Owes, RenameSpares
  <2>2. <<n, f>> \in snap => <<n, f>> \in rows'
    BY <1>5, <2>1 DEF Same
  <2>3. <<n, f>> \notin ins
    BY <1>9, <1>11
  <2> QED BY <1>1, <2>2, <2>3
<1>12. RenameOwes(p)'
  BY <1>3, <1>4, <1>8, <1>9, <1>10, <1>11 DEF RenameOwes
<1>13. Sees(p)'
  BY <1>0, <1>1, <1>2, <1>3, <1>4 DEF Owes, Sees, Same
<1>14. Staged(p)'
  BY <1>1, <1>3, <1>4 DEF Staged
<1>15. Owes(p)'
  BY <1>4, <1>12, <1>13, <1>14 DEF Owes, AddOwes, RemoveOwes, RenameSpares
<1> QED BY <1>2, <1>4, <1>7, <1>15, EntriesFrame DEF Waiting

\* A command that opens sees what is there.  What a rename sees of other names
\* has documents: those whose removal or rename would be under way need the lock,
\* and those an add is at work on have documents to spare.
LEMMA EntriesOpen ==
  ASSUME CatalogKept, NamesInv, EntriesInv, NamesInv', NEW p \in Proc, Launch(p)
  PROVE  EntriesInv'
<1>1. PICK r \in Job :
        /\ Opens(p, r) /\ raced \subseteq raced'
        /\ \/ r.pc \in {"upsert", "write"} /\ UNCHANGED lock
           \/ r.pc \in {"documents", "tx"} /\ lock = Nobody /\ r.snap = fts
  BY LaunchOpens DEF Spoilt
<1>2. /\ UNCHANGED <<rows, fts, torn, writer>> /\ job[p].pc = "idle" /\ job[p].names = {}
      /\ job'[p] = r /\ \A q \in Proc \ {p} : job'[q] = job[q]
  BY <1>1 DEF Opens, NamesInv
<1>3. Frame(p)
  BY <1>1, <1>2 DEF Frame, Same
<1>4. ASSUME r.pc = "tx", NEW n \in Name \ (torn \cup raced), NEW f \in Files, <<n, f>> \in fts
      PROVE  <<n, f>> \in rows
  <2>1. CASE \A q \in Proc : n \in job[q].names => job[q].pc \notin Waiting
    BY <1>4, <2>1 DEF EntriesInv, Settled, Same
  <2>2. CASE \E q \in Proc : n \in job[q].names /\ job[q].pc \in Waiting
    <3>1. PICK q \in Proc : n \in job[q].names /\ job[q].pc \in Waiting
      BY <2>2
    <3>2. lock = Nobody
      BY <1>1, <1>4
    <3>3. job[q].pc \notin Guarded
      BY <3>2, LockStays, AbsentType DEF CatalogKept
    <3>4. job[q].pc = "flush" /\ n = job[q].name
      BY <3>1, <3>3 DEF Waiting, Guarded, NamesInv
    <3> QED BY <1>4, <3>4 DEF EntriesInv, Owes, AddOwes, Same
  <2> QED BY <2>1, <2>2
<1>5. Owes(p)'
  BY <1>1, <1>2, <1>4
  DEF Owes, AddOwes, Sees, RemoveOwes, RenameSpares, RenameOwes, Staged, Same
<1> QED BY <1>2, <1>3, <1>5, EntriesFrame

LEMMA EntriesStep ==
  ASSUME CatalogKept, NamesInv, EntriesInv, [CatalogNext]_catalogVars
  PROVE  EntriesInv'
<1>1. ASSUME NEW p \in Proc, Launch(p) PROVE EntriesInv'
  <2>1. NamesInv'
    BY NamesStep
  <2> QED BY <1>1, <2>1, EntriesOpen
<1>2. ASSUME NEW p \in Proc, Working(p) PROVE EntriesInv'
  BY <1>2, EntriesEnd, EntriesGoOn, EntriesRename DEF Working
<1>3. ASSUME UNCHANGED <<rows, fts, torn, writer, job>>, raced \subseteq raced' PROVE EntriesInv'
  BY <1>3 DEF EntriesInv, Settled, Owes, AddOwes, Sees, RemoveOwes, RenameSpares, RenameOwes, Staged,
              Same
<1>4. ASSUME NEW n, NEW field, NEW v, Switch(n, field, v) PROVE EntriesInv'
  BY <1>3, <1>4 DEF Switch, Spoilt
<1>5. ASSUME NEW k, NEW bare, context_add(k, bare) \/ context_rm(k, bare) PROVE EntriesInv'
  BY <1>3, <1>5 DEF context_add, context_rm
<1>6. CASE UNCHANGED catalogVars
  BY <1>3, <1>6 DEF catalogVars
<1> QED BY <1>1, <1>2, <1>4, <1>5, <1>6 DEF CatalogNext, Working


LEMMA FileSeq ==
  ASSUME NEW f \in Files
  PROVE  Len(f) \in Nat \ {0} /\ DOMAIN f = 1 .. Len(f)
<1>1. PICK S : S = {f[i] : i \in DOMAIN f}
  OBVIOUS
<1>2. f \in Seq(S) /\ f # <<>>
  BY <1>1, FilesType
<1> QED BY <1>2

\* The walk as it is written finds what the rules, read as one, allow: pruning a
\* directory hides no file that would be kept.
LEMMA WalkFindsAllowed ==
  ASSUME NEW w \in Flags
  PROVE  collect_candidates(w) = Allowed(w)
<1>1. ASSUME NEW f \in Files
      PROVE  f \in collect_candidates(w) <=> f \in Allowed(w)
  <2>1. DOMAIN f = 1 .. Len(f) /\ Len(f) \in Nat
    BY FileSeq
  <2>2. \A i \in 1 .. Len(f) - 1 : i \in DOMAIN f
    BY <2>1
  <2>3. w.hidden \in BOOLEAN
    BY DEF Flags
  <2> QED BY <2>2, <2>3
       DEF collect_candidates, Allowed, walk_paths, is_contained_in, is_excluded, prunes_dir,
           component_excluded
<1>2. collect_candidates(w) \subseteq Files /\ Allowed(w) \subseteq Files
  BY DEF collect_candidates, walk_paths, Allowed
<1> QED BY <1>1, <1>2

EntriesKept == CatalogKept /\ NamesInv /\ EntriesInv

LEMMA EntriesStart ==
  ASSUME CatalogInit \/ NoCatalog
  PROVE  EntriesKept
<1>1. rows = {} /\ fts = {} /\ job = [p \in Proc |-> NoJob]
  BY DEF CatalogInit, NoCatalog
<1>2. \A p \in Proc : job[p].pc = "idle" /\ job[p].names = {}
  BY <1>1, NoJobType
<1>3. NamesInv
  BY <1>2 DEF NamesInv
<1>4. EntriesInv
  BY <1>1, <1>2 DEF EntriesInv, Settled, Same, Owes, AddOwes, Sees, RemoveOwes, RenameSpares,
                    RenameOwes, Staged
<1> QED BY <1>3, <1>4, CatalogStarts DEF EntriesKept

LEMMA EntriesAlways == Spec => []EntriesKept
<1>1. Init => EntriesKept
  BY EntriesStart DEF Init
<1>2. EntriesKept /\ [Next]_vars => EntriesKept'
  <2> SUFFICES ASSUME EntriesKept, [Next]_vars PROVE EntriesKept'
    OBVIOUS
  <2>1. [CatalogNext]_catalogVars
    BY DEF Next, vars
  <2> QED BY <2>1, CatalogStep, NamesStep, EntriesStep DEF EntriesKept
<1> QED BY <1>1, <1>2, PTL DEF Spec

LEMMA EntriesShow ==
  ASSUME EntriesKept
  PROVE  EntriesAreTheFiles
<1>1. FoundIsAllowed
  <2> SUFFICES ASSUME NEW p \in Proc, job[p].pc = "flush"
               PROVE  job[p].found = Allowed(job[p].flags)
    BY DEF FoundIsAllowed
  <2>1. job[p].flags \in Flags /\ job[p].found = collect_candidates(job[p].flags)
    BY DEF EntriesKept, EntriesInv, Owes, AddOwes, CatalogKept, CatalogTypes, Job
  <2> QED BY <2>1, WalkFindsAllowed
<1>2. EntriesMatchRows
  <2> SUFFICES ASSUME NEW n \in Name \ (torn \cup raced), ~Busy(n)
               PROVE  {e \in fts : e[1] = n} = {r \in rows : r[1] = n}
    BY DEF EntriesMatchRows
  <2>1. Same(fts, rows, n)
    BY DEF EntriesKept, EntriesInv, Settled, Busy
  <2>2. rows \cup fts \subseteq Name \X Files
    BY DEF EntriesKept, CatalogKept, CatalogTypes
  <2>3. \A e \in rows \cup fts : e[1] = n => e = <<n, e[2]>> /\ e[2] \in Files
    BY <2>2
  <2> QED BY <2>1, <2>3 DEF Same
<1> QED BY <1>1, <1>2 DEF EntriesAreTheFiles, EntriesKept, CatalogKept

\* Whatever adds, removals, renames, settings and deaths came before, what a
\* search can show of a collection nobody works on is the entries of its
\* documents, and what an add has found is what its rules allow.
THEOREM EntriesStayTheFiles == Spec => []EntriesAreTheFiles
<1>1. EntriesKept => EntriesAreTheFiles
  BY EntriesShow
<1> QED BY <1>1, EntriesAlways, PTL

-----------------------------------------------------------------------------
(* A rename.                                                               *)

LEMMA SweepStep ==
  ASSUME EntriesKept, [CatalogNext]_catalogVars,
         NEW p \in Proc, job[p].pc = "commit", fts' # fts
  PROVE  fts' \cap job[p].snap \subseteq rows
<1>1. Owes(p) /\ lock = p
  BY LockStays DEF EntriesKept, EntriesInv, CatalogKept, Guarded
<1>2. job[p].snap \ rows \subseteq job[p].del /\ job[p].ins \subseteq rows
  BY <1>1 DEF Owes, RenameOwes
<1>3. CASE RenameCommit(p)
  <2>1. fts' = (fts \ job[p].del) \cup job[p].ins
    BY <1>3 DEF RenameCommit
  <2> QED BY <1>2, <2>1
<1>4. ASSUME NEW q \in Proc, AddFlush(q) PROVE fts' \cap job[p].snap \subseteq rows
  <2>1. job[q].pc = "flush" /\ fts' = fts \cup job[q].ins
    BY <1>4 DEF AddFlush
  <2>2. job[q].ins # {} /\ q # p
    BY <2>1
  <2>3. writer = q
    BY <2>1, <2>2 DEF EntriesKept, EntriesInv, Owes, Staged
  <2>4. job[p].del = {}
    BY <1>1, <2>2, <2>3 DEF Owes, Staged
  <2> QED BY <1>2, <2>4
<1>5. ASSUME NEW q \in Proc, q # p
      PROVE  ~RemoveEntries(q) /\ ~RenameCommit(q)
  BY <1>1, <1>5, LockStays DEF EntriesKept, CatalogKept, RemoveEntries, RenameCommit, Guarded
<1>6. ~RemoveEntries(p)
  BY DEF RemoveEntries
<1>7. \E q \in Proc : AddFlush(q) \/ RemoveEntries(q) \/ RenameCommit(q)
  <2>1. ASSUME NEW q \in Proc, Launch(q) PROVE FALSE
    BY <2>1 DEF Launch, AddRead, RemoveOpen, SetRead, RenameOpen
  <2>2. ASSUME NEW q \in Proc,
               \/ upsert_collection(q) \/ AddDocuments(q) \/ AddUnstaged(q) \/ PurgeDocuments(q)
               \/ PurgeRow(q) \/ PurgeContexts(q) \/ rename_collection(q) \/ RenameFails(q)
               \/ set_collection_embed_rules(q) \/ JobDies(q)
        PROVE  FALSE
    BY <2>2 DEF upsert_collection, AddDocuments, AddUnstaged, PurgeDocuments, PurgeRow,
                PurgeContexts, rename_collection, RenameFails, set_collection_embed_rules, JobDies
  <2>3. ASSUME NEW k, NEW bare, context_add(k, bare) \/ context_rm(k, bare) PROVE FALSE
    BY <2>3 DEF context_add, context_rm
  <2>4. ASSUME NEW n, NEW field, NEW v, Switch(n, field, v) PROVE FALSE
    BY <2>4 DEF Switch
  <2> QED BY <2>1, <2>2, <2>3, <2>4 DEF CatalogNext, catalogVars
<1> QED BY <1>3, <1>4, <1>5, <1>6, <1>7


LEMMA LeastOf ==
  ASSUME NEW T \in SUBSET Nat, T # {}
  PROVE  \E x \in T : \A y \in T : x <= y
<1>1. PICK R : R = {ss \in Nat \X Nat : ss[1] < ss[2]}
  OBVIOUS
<1>2. IsWellFoundedOn(R, Nat)
  BY <1>1, NatLessThanWellFounded DEF OpToRel
<1>3. PICK x \in T : \A y \in T : <<y, x>> \notin R
  BY <1>2, WFMin
<1>4. ASSUME NEW y \in T PROVE x <= y
  <2>1. x \in Nat /\ y \in Nat /\ <<y, x>> \notin R
    BY <1>3
  <2>2. ~(y < x)
    BY <1>1, <2>1
  <2> QED BY <2>1, <2>2
<1> QED BY <1>4

\* Of the directories above a file, any set has a deepest one.
LEMMA Deepest ==
  ASSUME NEW f \in Files, NEW own \in SUBSET Parents(f), own # {}
  PROVE  (CHOOSE d \in own : \A e \in own : Len(e) <= Len(d)) \in own
<1>1. Len(f) \in Nat
  BY FileSeq
<1>2. \A d \in own : Len(d) \in Nat /\ Len(d) <= Len(f)
  <2>1. PICK S : S = {f[i] : i \in DOMAIN f}
    OBVIOUS
  <2>2. f \in Seq(S)
    BY <2>1, FilesType
  <2>3. ASSUME NEW i \in 0 .. Len(f) - 1 PROVE Len(SubSeq(f, 1, i)) = i
    BY <1>1, <2>2
  <2> QED BY <1>1, <2>3 DEF Parents
<1> DEFINE T == {Len(f) - Len(d) : d \in own}
<1>3. T \subseteq Nat /\ T # {}
  BY <1>1, <1>2
<1>4. PICK x \in T : \A y \in T : x <= y
  BY <1>3, LeastOf
<1>5. PICK d \in own : x = Len(f) - Len(d)
  OBVIOUS
<1>6. ASSUME NEW e \in own PROVE Len(e) <= Len(d)
  <2>1. x <= Len(f) - Len(e)
    BY <1>4
  <2> QED BY <1>1, <1>2, <1>5, <2>1
<1> QED BY <1>6

LEMMA RenameKeepsStep ==
  ASSUME EntriesKept, [CatalogNext]_catalogVars,
         NEW p \in Proc, NEW old \in Name, NEW new \in Name, NEW f \in Files,
         job[p].pc = "tx", job'[p].pc = "commit", job[p].name = old, job[p].to = new,
         KeysOf(new) = {}
  PROVE  Shown(new, f)' = Shown(old, f)
<1>1. rename_collection(p)
  <2>1. ASSUME NEW q \in Proc, Launch(q) PROVE FALSE
    <3>1. PICK r \in Job : Opens(q, r) /\ r.pc # "commit"
      BY <2>1, LaunchOpens DEF EntriesKept
    <3> QED BY <3>1 DEF Opens
  <2>2. ASSUME NEW q \in Proc, Working(q) PROVE q = p
    <3>1. Moves(q)
      BY <2>2, WorkMoves DEF EntriesKept
    <3> QED BY <3>1 DEF Moves
  <2>3. Working(p)
    <3>1. ASSUME NEW k, NEW bare, context_add(k, bare) \/ context_rm(k, bare) PROVE FALSE
      BY <3>1 DEF context_add, context_rm
    <3>2. ASSUME NEW n, NEW field, NEW v, Switch(n, field, v) PROVE FALSE
      BY <3>2 DEF Switch
    <3> QED BY <2>1, <2>2, <3>1, <3>2 DEF CatalogNext, Working, catalogVars
  <2>4. ~RenameFails(p) /\ ~JobDies(p)
    BY Finishes DEF RenameFails, JobDies, EntriesKept, CatalogKept, CatalogTypes
  <2> QED BY <2>3, <2>4 DEF Working, upsert_collection, AddDocuments, AddUnstaged, AddFlush,
             PurgeDocuments, PurgeRow, PurgeContexts, RemoveEntries, RenameCommit,
             set_collection_embed_rules
<1>2. old # new
  BY DEF EntriesKept, NamesInv
<1>3. contexts' = MovedContexts(old, new)
  BY <1>1 DEF rename_collection
<1> DEFINE own == {d \in Parents(f) : <<old, d>> \in DOMAIN contexts}
           D == CHOOSE d \in own : \A e \in own : Len(e) <= Len(d)
           all == <<Everywhere, <<>>>>
<1>4. \A d : <<new, d>> \notin DOMAIN contexts
  BY DEF KeysOf
<1>5. \A k \in DOMAIN contexts : k = <<k[1], k[2]>>
  BY DEF EntriesKept, CatalogKept, CatalogTypes, Keys
<1>6. \A d : <<new, d>> \in DOMAIN contexts' <=> <<old, d>> \in DOMAIN contexts
  BY <1>2, <1>3, <1>4, <1>5 DEF MovedContexts, MovedKeys, Source, KeysOf
<1>7. \A d : <<old, d>> \in DOMAIN contexts => contexts'[<<new, d>>] = contexts[<<old, d>>]
  BY <1>2, <1>3, <1>4, <1>5 DEF MovedContexts, MovedKeys, Source, KeysOf
<1>8. /\ all \in DOMAIN contexts' <=> all \in DOMAIN contexts
      /\ all \in DOMAIN contexts => contexts'[all] = contexts[all]
  BY <1>3, <1>5, AbsentType DEF MovedContexts, MovedKeys, Source, KeysOf
<1> DEFINE own2 == {d \in Parents(f) : <<new, d>> \in DOMAIN contexts'}
<1>9. own2 = own
  BY <1>6
<1>10. get_context_for_path(old, f) = IF own # {} THEN {<<old, D>>} ELSE DOMAIN contexts \cap {all}
  BY DEF get_context_for_path
<1>11. get_context_for_path(new, f)' = IF own # {} THEN {<<new, D>>} ELSE DOMAIN contexts' \cap {all}
  <2> DEFINE D2 == CHOOSE d \in own2 : \A e \in own2 : Len(e) <= Len(d)
  <2>1. get_context_for_path(new, f)' = IF own2 # {} THEN {<<new, D2>>} ELSE DOMAIN contexts' \cap {all}
    BY DEF get_context_for_path
  <2>2. D2 = D
    BY <1>9
  <2> QED BY <1>9, <2>1, <2>2
<1>12. CASE own = {}
  <2>1. Shown(old, f) = {<<k[1] = Everywhere, k[2], contexts[k]>> : k \in DOMAIN contexts \cap {all}}
    BY <1>10, <1>12 DEF Shown
  <2>2. Shown(new, f)' = {<<k[1] = Everywhere, k[2], contexts'[k]>> : k \in DOMAIN contexts' \cap {all}}
    BY <1>11, <1>12 DEF Shown
  <2> QED BY <1>8, <2>1, <2>2
<1>13. CASE own # {}
  <2>1. D \in own
    BY <1>13, Deepest
  <2> HIDE DEF D, own
  <2>2. Shown(old, f) = {<<old = Everywhere, D, contexts[<<old, D>>]>>}
    BY <1>10, <1>13 DEF Shown
  <2>3. Shown(new, f)' = {<<new = Everywhere, D, contexts'[<<new, D>>]>>}
    BY <1>11, <1>13 DEF Shown
  <2>4. old # Everywhere /\ new # Everywhere
    BY AbsentType
  <2>5. <<old, D>> \in DOMAIN contexts
    BY <2>1 DEF own
  <2>6. contexts'[<<new, D>>] = contexts[<<old, D>>]
    BY <1>7, <2>5
  <2> QED BY <2>2, <2>3, <2>4, <2>6
<1> QED BY <1>12, <1>13

\* A rename that ends leaves, of the entries it saw, only those of documents,
\* and it changes no document's context.
THEOREM RenameStaysWhole == Spec => RenameIsWhole
<1>1. EntriesKept /\ [Next]_vars =>
        [\A p \in Proc : job[p].pc = "commit" /\ fts' # fts => fts' \cap job[p].snap \subseteq rows]_catalogVars
  <2> SUFFICES ASSUME EntriesKept, [Next]_vars, NEW p \in Proc, job[p].pc = "commit", fts' # fts
               PROVE  fts' \cap job[p].snap \subseteq rows
    OBVIOUS
  <2>1. [CatalogNext]_catalogVars
    BY DEF Next, vars
  <2> QED BY <2>1, SweepStep
<1>2. EntriesKept /\ [Next]_vars =>
        [\A p \in Proc, old, new \in Name :
           /\ job[p].pc = "tx" /\ job'[p].pc = "commit"
           /\ job[p].name = old /\ job[p].to = new
           /\ KeysOf(new) = {}
           => \A f \in Files : Shown(new, f)' = Shown(old, f)]_catalogVars
  <2>1. EntriesKept /\ [Next]_vars => [CatalogNext]_catalogVars
    BY DEF Next, vars
  <2> QED BY <2>1, RenameKeepsStep
<1>3. Spec => RenameSweeps
  BY <1>1, EntriesAlways, PTL DEF Spec, RenameSweeps
<1>4. Spec => RenameKeepsContexts
  BY <1>2, EntriesAlways, PTL DEF Spec, RenameKeepsContexts
<1> QED BY <1>3, <1>4 DEF RenameIsWhole
=============================================================================
