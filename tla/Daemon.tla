------------------------------- MODULE Daemon -------------------------------
(***************************************************************************)
(* The life of `rqmd mcp` HTTP servers on one index: servers started in the *)
(* foreground, `rqmd mcp --daemon` which starts one in the background and   *)
(* waits for its health, `rqmd mcp stop [--force]` and `rqmd mcp status`.   *)
(* They share the pidfile, the port and the pids of the machine.  A pid is  *)
(* reused by unrelated processes; a process is its pid and its start.       *)
(*                                                                         *)
(* One assumption: a pid is not reused between a command's check of it and  *)
(* the signal that follows at once.                                         *)
(***************************************************************************)
EXTENDS Naturals, FiniteSets

CONSTANTS
  Pid,           \* pids
  Port,          \* addresses a server may bind
  Loopback,      \* those on a loopback host
  DaemonPort,    \* the one `--daemon` is given
  Cmd,           \* commands that may run at once
  MaxStart,      \* bound on the processes started
  StartKnown,    \* whether the OS reports a process's start: a set of BOOLEANs
  Trouble        \* bound on servers in the foreground and on strangers

ASSUME LoopbackType == Loopback \subseteq Port /\ DaemonPort \in Port
ASSUME StartKnownType == StartKnown \subseteq BOOLEAN /\ StartKnown # {}
ASSUME PidType == 0 \notin Pid /\ 0 \notin Port
ASSUME BoundType == MaxStart \in Nat /\ Trouble \in Nat

Start == 1..MaxStart
Ops   == {"launch", "stop", "force", "status"}

VARIABLES
  os,         \* the process of each pid
  started,    \* processes started so far
  pidfile,    \* mcp.pid
  cmd,        \* the commands
  struck,     \* history: what else than the recorded daemon got a signal
  alone,      \* history: no two commands, and no two servers, were at work at once
  trouble     \* events that may still happen

daemonVars == <<os, started, pidfile, cmd, struck, alone, trouble>>

NoProc == [what |-> "none", at |-> "none", start |-> 0, port |-> 0]
NoFile == [pid |-> 0, start |-> 0, port |-> 0]
Idle   == [op |-> "none", at |-> "idle", rec |-> NoFile, child |-> NoFile, end |-> "none"]

Stages == {"none", "port", "bind", "truncate", "record", "serve", "drain", "clean", "linger"}
Record == [pid : Pid \cup {0}, start : Start \cup {0}, port : Port \cup {0}]

DaemonTypes ==
  /\ \A p \in Pid :
       /\ os[p].what \in {"none", "server", "other", "alien"}
       /\ os[p].at \in Stages
       /\ os[p].start \in Start \cup {0}
       /\ (os[p].what = "none") = (os[p] = NoProc)
  /\ \A p, r \in Pid : os[p].start = os[r].start => p = r \/ os[p].start = 0
  /\ pidfile \in Record
  /\ \A c \in Cmd : cmd[c].rec \in Record /\ cmd[c].child \in Record /\ cmd[c].op \in Ops \cup {"none"}
  /\ \A p, r \in Pid : os[p].port = os[r].port /\ os[p].at \in {"truncate", "record", "serve"}
                       /\ os[r].at \in {"truncate", "record", "serve"} => p = r

DaemonInit ==
  /\ os = [p \in Pid |-> NoProc]
  /\ started = 0
  /\ pidfile = NoFile
  /\ cmd = [c \in Cmd |-> Idle]
  /\ struck = {}
  /\ alone = TRUE
  /\ trouble = 0

\* No command is given, and nothing else happens.
NoDaemon ==
  /\ os = [p \in Pid |-> NoProc]
  /\ started = 0
  /\ pidfile = NoFile
  /\ cmd = [c \in Cmd |-> [Idle EXCEPT !.at = "off"]]
  /\ struck = {}
  /\ alone = TRUE
  /\ trouble = Trouble

---------------------------------------------------------------------------
(* The operating system. *)

\* A child that ended is a zombie, its pid taken, until its parent reaps it.
Unreaped == {cmd[c].child.pid : c \in {d \in Cmd : cmd[d].at \in {"health", "reap"}}}
pid_alive(p) == os[p].what # "none" \/ p \in Unreaped
process_start_time(p) ==
  IF os[p].what # "none" THEN os[p].start
  ELSE CHOOSE s \in Start : \E c \in Cmd : cmd[c].child.pid = p /\ cmd[c].child.start = s
                                             /\ cmd[c].at \in {"health", "reap"}

\* Pids a new process may get.
FreePids == {p \in Pid : ~pid_alive(p)}
            \ {cmd[c].rec.pid : c \in {d \in Cmd : cmd[d].at \in {"signal", "kill"}}}

Birth(p, what, at, port) ==
  /\ started < MaxStart /\ p \in FreePids
  /\ started' = started + 1
  /\ os' = [os EXCEPT ![p] = [what |-> what, at |-> at, start |-> started + 1, port |-> port]]

Dies(p) == os' = [os EXCEPT ![p] = NoProc]
Goes(p, at) == os' = [os EXCEPT ![p].at = at]
Servers == {p \in Pid : os[p].what = "server"}
Disturb == trouble < Trouble /\ trouble' = trouble + 1

\* Processes with a listening socket on the address.
Bound(port) == {p \in Pid : os[p].port = port /\ os[p].at \in {"truncate", "record", "serve"}}
check_port_free(port) == Bound(port) = {}

\* An unrelated process, or a server of another index which holds a port.
Stranger ==
  /\ Disturb
  /\ \E p \in Pid : \/ Birth(p, "other", "none", 0)
                    \/ check_port_free(DaemonPort) /\ Birth(p, "alien", "serve", DaemonPort)
  /\ UNCHANGED <<pidfile, cmd, struck, alone>>

\* A server is killed.  Before it has its socket that is as if it had failed.
Crash ==
  /\ \E p \in Servers : os[p].at \notin {"port", "bind"} /\ Dies(p)
  /\ UNCHANGED <<started, pidfile, cmd, struck, alone, trouble>>

---------------------------------------------------------------------------
(* A server: run_mcp with --http. *)

ServerStep == UNCHANGED <<started, cmd, struck, alone, trouble>>

\* `rqmd mcp --http` in a terminal.
Foreground ==
  /\ Disturb
  /\ \E p \in Pid, port \in Port : Birth(p, "server", "port", port)
  /\ alone' = (alone /\ Servers = {} /\ \A c \in Cmd : cmd[c].at = "idle")
  /\ UNCHANGED <<pidfile, cmd, struck>>

\* The port is checked and the index opened; a failure here leaves the
\* pidfile alone.
run_mcp(p) ==
  /\ os[p].at = "port"
  /\ \/ check_port_free(os[p].port) /\ Goes(p, "bind")
     \/ Dies(p)
  /\ UNCHANGED pidfile /\ ServerStep

\* The listener is bound, or the whole server fails.
run_http(p) ==
  /\ os[p].at = "bind"
  /\ \/ check_port_free(os[p].port) /\ Goes(p, "truncate")
     \/ ~check_port_free(os[p].port) /\ Goes(p, "clean")
  /\ UNCHANGED pidfile /\ ServerStep

RecordOf(p, known) == [pid |-> p, port |-> os[p].port, start |-> IF known THEN os[p].start ELSE 0]

\* write_pidfile, from on_bound: the file is truncated, then written.  A
\* truncated pidfile is no record to a reader.
TruncatePidfile(p) ==
  /\ os[p].at = "truncate"
  /\ pidfile' = NoFile /\ Goes(p, "record")
  /\ ServerStep

write_pidfile(p) ==
  /\ os[p].at = "record"
  /\ \/ \E known \in StartKnown : pidfile' = RecordOf(p, known)
        /\ Goes(p, "serve")
     \/ UNCHANGED pidfile /\ Goes(p, "clean")
  /\ ServerStep

\* Ctrl-C, or idle for RQMD_MCP_IDLE_EXIT_SECS: the listener is closed and
\* what is in progress is finished.
ShutsDown(p) ==
  /\ os[p].what = "server" /\ os[p].at = "serve"
  /\ Goes(p, "drain")
  /\ UNCHANGED <<started, pidfile, cmd, struck, alone, trouble>>

Drained(p) ==
  /\ os[p].at = "drain"
  /\ Goes(p, "clean")
  /\ UNCHANGED pidfile /\ ServerStep

\* However run_http ended.
remove_pidfile(p) ==
  /\ os[p].at = "clean"
  /\ pidfile' = IF os[p].what = "server" THEN NoFile ELSE pidfile
  /\ Goes(p, "linger")
  /\ ServerStep

\* The runtime is dropped last, and waits for tool calls still on a blocking
\* thread: a query that a shutdown has cut off runs to its end.
Exit(p) ==
  /\ os[p].at = "linger"
  /\ Dies(p)
  /\ UNCHANGED pidfile /\ ServerStep

---------------------------------------------------------------------------
(* The commands. *)

To(c, at) == cmd' = [cmd EXCEPT ![c].at = at]
\* A command ends; what it claims to have done is remembered with the process.
End(c, how) ==
  cmd' = [cmd EXCEPT ![c] = [op |-> "none", at |-> "idle", end |-> how,
                             rec |-> IF how \in {"stopped", "slow"} THEN @.rec ELSE NoFile,
                             child |-> IF how = "unhealthy" THEN @.child ELSE NoFile]]
OnlyCmd == UNCHANGED <<os, started, pidfile, struck, alone, trouble>>

Running(c) == cmd[c].at # "idle"

Begin(c) ==
  /\ cmd[c].at = "idle" /\ cmd[c].end = "none"
  /\ \E op \in Ops : cmd' = [cmd EXCEPT ![c] = [Idle EXCEPT !.op = op, !.at = "read"]]
  /\ alone' = (alone /\ (\A d \in Cmd : ~Running(d))
                     /\ \A p \in Servers : os[p].at \notin {"port", "bind", "truncate", "record", "clean"})
  /\ UNCHANGED <<os, started, pidfile, struck, trouble>>

read_pidfile(c) ==
  /\ cmd[c].at = "read"
  /\ \/ pidfile # NoFile /\ cmd' = [cmd EXCEPT ![c].rec = pidfile, ![c].at = "ask"]
     \/ pidfile = NoFile /\ IF cmd[c].op = "launch" THEN To(c, "port") ELSE End(c, "refused")
  /\ OnlyCmd

\* fetch_health: whoever serves on the address answers with its pid, or
\* nobody answers within half a second.
fetch_health(port) == {0} \cup {p \in Bound(port) : os[p].at = "serve"}

check_recorded_process(rec) ==
  IF ~pid_alive(rec.pid) THEN "Gone"
  ELSE IF rec.start = 0 THEN "NoRecordedStart"
  ELSE IF rec.start # process_start_time(rec.pid) THEN "DifferentStart" ELSE "None"

gone_when_silent(rec) == "Stale"

identity_without_health(rec) ==
  CASE check_recorded_process(rec) = "None" -> "AliveUnresponsive"
    [] check_recorded_process(rec) = "NoRecordedStart" -> "AliveUnverified"
    [] OTHER -> "Stale"

verify_identity(rec, answer) ==
  IF answer = rec.pid /\ (rec.port \in Loopback \/ check_recorded_process(rec) = "None")
  THEN "Confirmed"
  ELSE IF answer \notin {0, rec.pid} THEN "Foreign" ELSE identity_without_health(rec)

\* What the three commands make of the identity.
Judge(c, id) ==
  CASE id = "Stale" -> To(c, "remove")
    [] cmd[c].op \in {"stop", "force"} /\ id \in {"Confirmed", "AliveUnresponsive"} -> To(c, "signal")
    [] OTHER -> End(c, "refused")

Verify(c) ==
  /\ cmd[c].at = "ask"
  /\ \E answer \in fetch_health(cmd[c].rec.port) : Judge(c, verify_identity(cmd[c].rec, answer))
  /\ OnlyCmd

RemoveStale(c) ==
  /\ cmd[c].at = "remove"
  /\ pidfile' = NoFile
  /\ IF cmd[c].op = "launch" THEN To(c, "port") ELSE End(c, "refused")
  /\ UNCHANGED <<os, started, struck, alone, trouble>>

\* A signal reaches whatever has the pid now.  Until it serves, a server has
\* no handler and dies of SIGTERM.
Struck(rec) ==
  IF os[rec.pid].what # "server" \/ (rec.start # 0 /\ os[rec.pid].start # rec.start)
  THEN {os[rec.pid].what} ELSE {}

signal_terminate(c) ==
  /\ cmd[c].at = "signal"
  /\ LET r == cmd[c].rec IN
     \/ /\ os[r.pid].what = "none"
        /\ IF r.pid \in Unreaped THEN To(c, "wait") ELSE End(c, "refused")
        /\ UNCHANGED <<os, struck>>
     \/ /\ os[r.pid].what # "none"
        /\ struck' = struck \cup Struck(r)
        /\ CASE os[r.pid].at = "serve" -> Goes(r.pid, "drain")
             [] os[r.pid].at \in {"drain", "clean", "linger"} -> UNCHANGED os
             [] OTHER -> Dies(r.pid)
        /\ To(c, "wait")
  /\ UNCHANGED <<started, pidfile, alone, trouble>>

\* wait_for_gone: polls until the pid has gone, or the grace is over.
wait_for_gone(c) ==
  /\ cmd[c].at = "wait"
  /\ \/ ~pid_alive(cmd[c].rec.pid) /\ To(c, "forget")
     \/ pid_alive(cmd[c].rec.pid)
        /\ IF cmd[c].op = "force" THEN To(c, "recheck") ELSE End(c, "slow")
  /\ OnlyCmd

kill_at_once(c) == cmd[c].at = "recheck" /\ To(c, "kill") /\ OnlyCmd

\* Only a pid that is still the recorded daemon is killed.
Recheck(c) ==
  /\ cmd[c].at = "recheck"
  /\ CASE check_recorded_process(cmd[c].rec) = "None" -> To(c, "kill")
       [] check_recorded_process(cmd[c].rec) = "Gone" -> To(c, "forget")
       [] OTHER -> End(c, "refused")
  /\ OnlyCmd

signal_kill(c) ==
  /\ cmd[c].at = "kill"
  /\ LET r == cmd[c].rec IN
     \/ /\ ~pid_alive(r.pid)
        /\ End(c, "refused") /\ UNCHANGED <<os, struck>>
     \/ /\ pid_alive(r.pid)
        /\ struck' = struck \cup (IF os[r.pid].what = "none" THEN {} ELSE Struck(r))
        /\ Dies(r.pid) /\ To(c, "killed")
  /\ UNCHANGED <<started, pidfile, alone, trouble>>

WaitKilled(c) ==
  /\ cmd[c].at = "killed"
  /\ IF pid_alive(cmd[c].rec.pid) THEN End(c, "refused") ELSE To(c, "forget")
  /\ OnlyCmd

\* The daemon has gone: its pidfile is removed and success is reported.
Forget(c) ==
  /\ cmd[c].at = "forget"
  /\ pidfile' = NoFile
  /\ End(c, "stopped")
  /\ UNCHANGED <<os, started, struck, alone, trouble>>

\* spawn_daemon, once nothing is recorded.
CheckPort(c) ==
  /\ cmd[c].at = "port"
  /\ IF check_port_free(DaemonPort)
     THEN cmd' = [cmd EXCEPT ![c].rec = NoFile, ![c].at = "spawn"]
     ELSE End(c, "refused")
  /\ OnlyCmd

Spawn(c) ==
  /\ cmd[c].at = "spawn"
  /\ \/ \E p \in Pid :
          /\ Birth(p, "server", "port", DaemonPort)
          /\ cmd' = [cmd EXCEPT ![c].at = "health",
                                ![c].child = [pid |-> p, start |-> started + 1, port |-> DaemonPort]]
     \/ End(c, "refused") /\ UNCHANGED <<os, started>>
  /\ UNCHANGED <<pidfile, struck, alone, trouble>>

\* Until an answer comes, or five seconds are over.
wait_for_health(c) ==
  /\ cmd[c].at = "health"
  /\ \E answer \in fetch_health(DaemonPort) :
       IF answer = cmd[c].child.pid THEN End(c, "started") ELSE To(c, "reap")
  /\ OnlyCmd

\* A child that is not healthy in time is killed and reaped.
Reap(c) ==
  /\ cmd[c].at = "reap"
  /\ Dies(cmd[c].child.pid)
  /\ End(c, "unhealthy")
  /\ UNCHANGED <<started, pidfile, struck, alone, trouble>>

Server(p) ==
  \/ run_mcp(p) \/ run_http(p) \/ TruncatePidfile(p) \/ write_pidfile(p)
  \/ Drained(p) \/ remove_pidfile(p) \/ Exit(p)

Command(c) ==
  \/ read_pidfile(c) \/ Verify(c) \/ RemoveStale(c) \/ signal_terminate(c) \/ wait_for_gone(c)
  \/ Recheck(c) \/ signal_kill(c) \/ WaitKilled(c) \/ Forget(c) \/ CheckPort(c)
  \/ Spawn(c) \/ wait_for_health(c) \/ Reap(c)

DaemonNext ==
  \/ Foreground \/ Stranger \/ Crash
  \/ \E p \in Pid : ShutsDown(p) \/ Server(p)
  \/ \E c \in Cmd : Begin(c) \/ Command(c)

---------------------------------------------------------------------------
(* Properties. *)

\* stop, with or without --force, never signals a process that is no rqmd
\* server though it has the recorded pid, reused at any time: the start time
\* is compared before SIGTERM when nobody answers, and again before SIGKILL.
StrangerIsSpared == "other" \notin struck

\* While servers and commands do not overlap, a serving daemon is always
\* named by the pidfile, so that `stop` and `status` find it and `--daemon`
\* refuses a second one; no silent /health, stale pidfile, failed launch or
\* crash makes it lose its record.
ServingIsRecorded ==
  alone => \A p \in Servers : os[p].at = "serve" =>
             pidfile.pid = p /\ pidfile.start \in {0, os[p].start}

\* When `stop` reports that the daemon stopped, the process it read from the
\* pidfile has ended.
StoppedHasEnded ==
  \A c \in Cmd : cmd[c].end = "stopped" =>
    \A p \in Servers : p = cmd[c].rec.pid => os[p].start # cmd[c].rec.start

\* A launch that reports failure leaves no server behind that would bind the
\* port later.
FailedLaunchLeavesNothing ==
  \A c \in Cmd : cmd[c].end = "unhealthy" =>
    \A p \in Servers : os[p].start # cmd[c].child.start

\* What the daemon's commands report can be relied on: a running server is the
\* recorded one, a stopped one has ended, a failed launch left none.
ReportsAreTrue ==
  DaemonTypes /\ ServingIsRecorded /\ StoppedHasEnded /\ FailedLaunchLeavesNothing
=============================================================================
