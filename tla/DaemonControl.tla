---------------------------- MODULE DaemonControl ---------------------------
(***************************************************************************)
(* Starting and stopping the daemon (daemon/control.rs, Daemon::run). The  *)
(* processes that take part, daemons and the CLI's start, stop and restart *)
(* commands, share nothing but three paths in the runtime directory: the   *)
(* pid file and the two sockets. Each system call on them is one action.   *)
(***************************************************************************)
EXTENDS Naturals, FiniteSets

CONSTANTS
    Daemons,     \* processes; bounds those alive or still named by a file
    Commands,    \* CLI commands running at one time
    NoDaemon,
    Hiccups      \* see below

(* "overlap": commands overlap, and so do daemons run in the foreground.   *)
(* "crash": a daemon is killed, or accept() fails. "slow": a wait of five  *)
(* seconds runs out.                                                       *)
ASSUME HiccupsAssumption == Hiccups \subseteq {"overlap", "crash", "slow"}
ASSUME NoDaemonAssumption == NoDaemon \notin Daemons

Paths == {"sock", "ctrl", "pid"}

VARIABLES
    file,        \* path -> the daemon that bound or wrote it, or NoDaemon
    daemon,      \* daemon -> where Daemon::run is
    dying,       \* daemons sent SIGTERM or SIGKILL, for which there is no handler
    command      \* command -> where it is

vars == <<file, daemon, dying, command>>

Removing == {"remove sock", "remove ctrl", "remove pid"}
PathOf == [s \in Removing |-> CASE s = "remove sock" -> "sock"
                                [] s = "remove ctrl" -> "ctrl"
                                [] s = "remove pid" -> "pid"]
After == [s \in {"remove sock", "remove ctrl"} |->
             IF s = "remove sock" THEN "remove ctrl" ELSE "remove pid"]

(* again: a restart, whose stop is followed by a start. proc: the process  *)
(* that start has spawned, or the one whose pid stop has read.             *)
Command ==
    [task : {"start", "stop"}, again : BOOLEAN,
     at : Removing \cup {"idle", "probe", "spawn", "ready", "read pid", "check", "match", "gone"},
     proc : Daemons \cup {NoDaemon}]

Idle == [task |-> "start", again |-> FALSE, at |-> "idle", proc |-> NoDaemon]
StartAt == [Idle EXCEPT !.at = "probe"]
StopAt(again) == [task |-> "stop", again |-> again, at |-> "read pid", proc |-> NoDaemon]

Alive(d) == d # NoDaemon /\ daemon[d] # "dead"
Serving(d) == daemon[d] = "serving"

(* daemon_is_running: somebody accepts on the control socket.              *)
Running == Alive(file["ctrl"])

(* A process that no file and no command remembers.                        *)
Fresh(d) ==
    /\ daemon[d] = "dead" /\ d \notin dying
    /\ \A p \in Paths : file[p] # d
    /\ \A c \in Commands : command[c].proc # d

Quiet ==
    /\ \A c \in Commands : command[c].at = "idle"
    /\ \A d \in Daemons : daemon[d] \in {"dead", "serving", "leaving"}

(* Commands that only stop may always overlap.                             *)
Stopping(k) == k.task = "stop" /\ ~k.again
MayBegin == "overlap" \in Hiccups \/ Quiet
MayStop ==
    /\ \A c \in Commands : command[c].at = "idle" \/ Stopping(command[c])
    /\ \A d \in Daemons : daemon[d] \in {"dead", "serving", "leaving"}

(* Whatever a crash has left behind.                                       *)
Init ==
    /\ file \in [Paths -> Daemons \cup {NoDaemon}]
    /\ daemon = [d \in Daemons |-> "dead"]
    /\ dying = {}
    /\ command = [c \in Commands |-> Idle]

Enter(d, stage) == daemon' = [daemon EXCEPT ![d] = stage]
Unlink(p) == file' = [file EXCEPT ![p] = NoDaemon]
Bind(p, d) == file' = [file EXCEPT ![p] = d]

-----------------------------------------------------------------------------
(* `so-context daemon` in the foreground.                                  *)
RunDaemon(d) ==
    /\ MayBegin /\ Fresh(d)
    /\ Enter(d, "probe")
    /\ UNCHANGED <<file, dying, command>>

(* Mistake: it is left to the start command to look.                       *)
DaemonProbesNothing(d) ==
    /\ daemon[d] = "probe"
    /\ Enter(d, "remove sock")
    /\ UNCHANGED <<file, dying, command>>

(* ensure_no_active_daemon.                                                *)
DaemonProbes(d) ==
    /\ daemon[d] = "probe"
    /\ Enter(d, IF Running THEN "dead" ELSE "remove sock")
    /\ UNCHANGED <<file, dying, command>>

(* cleanup_stale_runtime_files.                                            *)
DaemonRemoves(d) ==
    /\ daemon[d] \in Removing
    /\ Unlink(PathOf[daemon[d]])
    /\ Enter(d, IF daemon[d] = "remove pid" THEN "write pid" ELSE After[daemon[d]])
    /\ UNCHANGED <<dying, command>>

(* Mistake: the pid file is left to the start command.                     *)
DaemonWritesNoPid(d) ==
    /\ daemon[d] = "write pid"
    /\ Enter(d, "bind sock")
    /\ UNCHANGED <<file, dying, command>>

DaemonWritesPid(d) ==
    /\ daemon[d] = "write pid"
    /\ Bind("pid", d)
    /\ Enter(d, "bind sock")
    /\ UNCHANGED <<dying, command>>

(* bind() fails on a path that exists, stale or not; the error ends run(), *)
(* and the guard removes the pid file, whatever it holds.                  *)
DaemonBinds(d) ==
    /\ \E p \in {"sock", "ctrl"} :
        /\ daemon[d] = (IF p = "sock" THEN "bind sock" ELSE "bind ctrl")
        /\ IF file[p] = NoDaemon
           THEN Bind(p, d) /\ Enter(d, IF p = "sock" THEN "bind ctrl" ELSE "serving")
           ELSE Unlink("pid") /\ Enter(d, "leaving")
    /\ UNCHANGED <<dying, command>>

(* accept() fails, and so does run(). Until the process is gone, its       *)
(* control listener goes on.                                               *)
AcceptFails(d) ==
    /\ "crash" \in Hiccups
    /\ Serving(d)
    /\ Unlink("pid")
    /\ Enter(d, "leaving")
    /\ UNCHANGED <<dying, command>>

Leave(d) ==
    /\ daemon[d] = "leaving" \/ (d \in dying /\ Alive(d))
    /\ Enter(d, "dead")
    /\ dying' = dying \ {d}
    /\ UNCHANGED <<file, command>>

Crash(d) ==
    /\ "crash" \in Hiccups
    /\ Alive(d)
    /\ Enter(d, "dead")
    /\ dying' = dying \ {d}
    /\ UNCHANGED <<file, command>>

-----------------------------------------------------------------------------
Goto(c, stage) == command' = [command EXCEPT ![c].at = stage]

(* The command returns; a restart whose stop succeeded goes on as a start. *)
Succeed(c) ==
    command' = [command EXCEPT ![c] = IF command[c].again THEN StartAt ELSE Idle]
End(c) == command' = [command EXCEPT ![c] = Idle]

Begin(c) ==
    /\ command[c].at = "idle"
    /\ \E k \in {StartAt, StopAt(FALSE), StopAt(TRUE)} :
        /\ MayBegin \/ (MayStop /\ Stopping(k))
        /\ command' = [command EXCEPT ![c] = k]
    /\ UNCHANGED <<file, daemon, dying>>

(* Mistake: the stale files are removed without asking whose they are.     *)
ProbeNothing(c) ==
    /\ command[c].at = "probe"
    /\ Goto(c, "remove sock")
    /\ UNCHANGED <<file, daemon, dying>>

(* start: nothing to do when a daemon runs. stop, without a pid file: a    *)
(* daemon that runs cannot be stopped.                                     *)
Probe(c) ==
    /\ command[c].at = "probe"
    /\ IF Running THEN End(c) ELSE Goto(c, "remove sock")
    /\ UNCHANGED <<file, daemon, dying>>

Remove(c) ==
    /\ command[c].at \in Removing
    /\ Unlink(PathOf[command[c].at])
    /\ CASE command[c].at # "remove pid" -> Goto(c, After[command[c].at])
         [] command[c].at = "remove pid" /\ command[c].task = "start" -> Goto(c, "spawn")
         [] OTHER -> Succeed(c)
    /\ UNCHANGED <<daemon, dying>>

Spawn(c) ==
    /\ command[c].at = "spawn"
    /\ \E d \in Daemons :
        /\ Fresh(d)
        /\ Enter(d, "probe")
        /\ command' = [command EXCEPT ![c].at = "ready", ![c].proc = d]
    /\ UNCHANGED <<file, dying>>

(* wait_for_daemon_ready: any daemon will do, and only without one is a    *)
(* child that has exited an error.                                         *)
Ready(c) ==
    /\ command[c].at = "ready"
    /\ Running \/ ~Alive(command[c].proc)
    /\ Succeed(c)
    /\ UNCHANGED <<file, daemon, dying>>

ReadyTimesOut(c) ==
    /\ "slow" \in Hiccups
    /\ command[c].at = "ready" /\ ~Running /\ Alive(command[c].proc)
    /\ Enter(command[c].proc, "dead")
    /\ End(c)
    /\ UNCHANGED <<file, dying>>

ReadPid(c) ==
    /\ command[c].at = "read pid"
    /\ command' = [command EXCEPT
          ![c].at = IF file["pid"] = NoDaemon THEN "probe" ELSE "check",
          ![c].proc = file["pid"]]
    /\ UNCHANGED <<file, daemon, dying>>

(* is_pid_running.                                                         *)
Check(c) ==
    /\ command[c].at = "check"
    /\ Goto(c, IF Alive(command[c].proc) THEN "match" ELSE "remove sock")
    /\ UNCHANGED <<file, daemon, dying>>

(* Mistake: the pid file is read again for the signal.                     *)
MatchReadingAgain(c) ==
    /\ command[c].at = "match"
    /\ IF Alive(command[c].proc)
       THEN dying' = dying \cup {file["pid"]} /\ Goto(c, "gone")
       ELSE End(c) /\ UNCHANGED dying
    /\ UNCHANGED <<file, daemon>>

(* process_matches_daemon asks ps; a process that has gone is no daemon.   *)
Match(c) ==
    /\ command[c].at = "match"
    /\ IF Alive(command[c].proc)
       THEN dying' = dying \cup {command[c].proc} /\ Goto(c, "gone")
       ELSE End(c) /\ UNCHANGED dying
    /\ UNCHANGED <<file, daemon>>

(* Mistake: the signal is taken for the end of the process.                *)
GoneAtOnce(c) ==
    /\ command[c].at = "gone"
    /\ Goto(c, "remove sock")
    /\ UNCHANGED <<file, daemon, dying>>

(* wait_for_daemon_stop.                                                   *)
Gone(c) ==
    /\ command[c].at = "gone"
    /\ ~Alive(command[c].proc)
    /\ (file["ctrl"] = NoDaemon /\ file["sock"] = NoDaemon) \/ ~Running
    /\ Goto(c, "remove sock")
    /\ UNCHANGED <<file, daemon, dying>>

GoneTimesOut(c) ==
    /\ "slow" \in Hiccups
    /\ command[c].at = "gone"
    /\ End(c)
    /\ UNCHANGED <<file, daemon, dying>>

DaemonStep(d) ==
    \/ DaemonProbes(d) \/ DaemonRemoves(d) \/ DaemonWritesPid(d) \/ DaemonBinds(d)
    \/ Leave(d)

CommandStep(c) ==
    \/ Probe(c) \/ Remove(c) \/ Spawn(c) \/ Ready(c)
    \/ ReadPid(c) \/ Check(c) \/ Match(c) \/ Gone(c)

Next ==
    \/ \E d \in Daemons : RunDaemon(d) \/ DaemonStep(d) \/ AcceptFails(d) \/ Crash(d)
    \/ \E c \in Commands : Begin(c) \/ CommandStep(c) \/ ReadyTimesOut(c) \/ GoneTimesOut(c)

Fairness ==
    /\ \A d \in Daemons : WF_vars(DaemonStep(d))
    /\ \A c \in Commands : WF_vars(CommandStep(c))

Spec == Init /\ [][Next]_vars
FairSpec == Spec /\ Fairness

-----------------------------------------------------------------------------
TypeOK ==
    /\ file \in [Paths -> Daemons \cup {NoDaemon}]
    /\ daemon \in [Daemons -> Removing \cup
          {"dead", "probe", "write pid", "bind sock", "bind ctrl", "serving", "leaving"}]
    /\ dying \subseteq Daemons
    /\ command \in [Commands -> Command]

(* "so-context daemon is already running. Use `so-context stop` before     *)
(* starting another instance." (control.rs:124): two daemons never serve.  *)
OneDaemon == \A d, e \in Daemons : Serving(d) /\ Serving(e) => d = e

(* A daemon that serves can be found: the sockets lead to it and the pid   *)
(* file names it, so that bridges and hooks reach it and stop can stop it. *)
Findable(d) == \A p \in Paths : file[p] = d
ServingIsFindable == \A d \in Daemons : Serving(d) => Findable(d)

(* "so-context daemon stopped": no daemon outlives a stop that succeeds.   *)
StopStops ==
    [][\A c \in Commands :
        command[c].task = "stop" /\ command[c].at = "remove pid" /\ command'[c].at # "remove pid" =>
            \A d \in Daemons : ~Serving(d)]_vars

(* Crashes and waits that ran out, now or earlier, are got over: once they *)
(* stop, and if somebody starts the daemon again and again, a daemon that  *)
(* can be found serves, whatever files were left.                          *)
Trouble ==
    \/ \E d \in Daemons : AcceptFails(d) \/ Crash(d)
    \/ \E c \in Commands : ReadyTimesOut(c) \/ GoneTimesOut(c)

StartAgainAndAgain ==
    []<>(\E c \in Commands : command[c].task = "start" /\ command[c].at = "probe")

StartServes ==
    <>[][~Trouble]_vars /\ StartAgainAndAgain
        => []<>(\E d \in Daemons : Serving(d) /\ Findable(d))
=============================================================================
