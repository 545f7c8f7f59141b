------------------------- MODULE DaemonControlProofs ------------------------
(***************************************************************************)
(* While commands and daemons run in the foreground do not overlap, at     *)
(* most one daemon serves, it can be found, a stop that succeeds leaves    *)
(* none, and what a start leaves serving was started from the whole binary *)
(* that is installed: for any number of daemons, commands, updates and     *)
(* releases, whatever crashes or runs out of time, and whatever files some *)
(* earlier daemon has left.                                                *)
(***************************************************************************)
EXTENDS Release, TLAPS, WellFoundedInduction

Stages == Removing \cup {"idle", "probe", "spawn", "ready", "read pid", "check", "match", "gone"}

StartStages == Removing \cup {"probe", "write pid", "bind sock", "bind ctrl"}
DaemonStages == StartStages \cup {"dead", "serving", "leaving"}

Starting(d) == daemon[d] \in StartStages
Active(c) == command[c].at # "idle"
NoneServes == \A d \in Daemons : ~Serving(d)

(* Commands that only stop apart, whatever is under way is alone: a daemon *)
(* that starts is the one a start command waits for, or no command is.     *)
OneAtATime ==
    /\ \A d, e \in Daemons : Starting(d) /\ Starting(e) => d = e
    /\ \A c, o \in Commands : Active(c) /\ Active(o) /\ ~Stopping(command[c]) => c = o
    /\ \A c \in Commands, d \in Daemons :
          Active(c) /\ Starting(d) => command[c].at = "ready" /\ command[c].proc = d

(* What a command has found out stays true: that no daemon serves, or none *)
(* but the process it has read of or spawned.                              *)
CommandKnows(k) ==
    /\ k.task = "start" => ~k.again
    /\ k.at \in {"spawn", "ready"} => k.task = "start"
    /\ k.at \in Removing \cup {"spawn"} \/ (k.at = "probe" /\ k.task = "stop") => NoneServes
    /\ k.at \in {"check", "match", "gone", "ready"} => \A d \in Daemons : Serving(d) => d = k.proc

(* And so does what a daemon that starts has found out and written.        *)
DaemonKnows(d) ==
    /\ Starting(d) /\ daemon[d] # "probe" => NoneServes
    /\ daemon[d] \in {"bind sock", "bind ctrl"} => file["pid"] = d
    /\ daemon[d] = "bind ctrl" => file["sock"] = d

ControlSafe ==
    /\ OneAtATime /\ ServingIsFindable
    /\ \A c \in Commands : CommandKnows(command[c])
    /\ \A d \in Daemons : DaemonKnows(d)

ControlInv == TypeOK /\ ControlSafe

-----------------------------------------------------------------------------
(* What a step of a command makes of it.                                   *)
Becomes(c, k) == k \in Command /\ command' = [command EXCEPT ![c] = k]

(* The paths a command removes, one after the other.                       *)
LEMMA PathTypes ==
    /\ \A s \in Removing : PathOf[s] \in Paths
    /\ \A s \in {"remove sock", "remove ctrl"} : After[s] \in Removing
BY DEF PathOf, Removing, Paths, After

(* A command that goes to another stage.                                   *)
LEMMA CommandAt ==
    ASSUME NEW k \in Command, NEW stage \in Stages
    PROVE  /\ [k EXCEPT !.at = stage]
                = [task |-> k.task, again |-> k.again, at |-> stage, proc |-> k.proc]
           /\ [k EXCEPT !.at = stage] \in Command
<1>1. k = [task |-> k.task, again |-> k.again, at |-> k.at, proc |-> k.proc]
  BY DEF Command
<1>2. [k EXCEPT !.at = stage]
        = [task |-> k.task, again |-> k.again, at |-> stage, proc |-> k.proc]
  BY <1>1
<1> QED
  BY <1>2 DEF Command, Stages

(* The commands that begin are commands, spelled out.                      *)
LEMMA CommandTypes ==
    /\ Idle \in Command /\ StartAt \in Command /\ \A again \in BOOLEAN : StopAt(again) \in Command
    /\ Idle.at = "idle" /\ Idle.task = "start" /\ Idle.again = FALSE
    /\ StartAt = [task |-> "start", again |-> FALSE, at |-> "probe", proc |-> NoDaemon]
    /\ \A again \in BOOLEAN :
          StopAt(again) = [task |-> "stop", again |-> again, at |-> "read pid", proc |-> NoDaemon]
<1>1. Idle = [task |-> "start", again |-> FALSE, at |-> "idle", proc |-> NoDaemon]
  BY DEF Idle
<1>2. StartAt = [task |-> "start", again |-> FALSE, at |-> "probe", proc |-> NoDaemon]
  <2>1. Idle \in Command
    BY <1>1 DEF Command
  <2> QED
    BY <1>1, <2>1, CommandAt DEF StartAt, Stages
<1>3. ASSUME NEW again \in BOOLEAN
      PROVE  StopAt(again) = [task |-> "stop", again |-> again, at |-> "read pid", proc |-> NoDaemon]
  BY DEF StopAt
<1>4. Idle \in Command /\ StartAt \in Command
  BY <1>1, <1>2 DEF Command
<1>5. ASSUME NEW again \in BOOLEAN PROVE StopAt(again) \in Command
  BY DEF StopAt, Command
<1>6. Idle.at = "idle" /\ Idle.task = "start" /\ Idle.again = FALSE
  BY <1>1
<1> QED
  BY <1>2, <1>3, <1>4, <1>5, <1>6

(* What each kind of step makes of a command: it goes on,                  *)
LEMMA GotoBecomes ==
    ASSUME TypeOK, NEW c \in Commands, NEW stage \in Stages, Goto(c, stage)
    PROVE  Becomes(c, [task |-> command[c].task, again |-> command[c].again,
                       at |-> stage, proc |-> command[c].proc])
<1>1. command[c] \in Command
  BY DEF TypeOK
<1>2. command' = [command EXCEPT ![c] = [command[c] EXCEPT !.at = stage]]
  BY DEF Goto
<1> QED
  BY <1>1, <1>2, CommandAt DEF Becomes

(* it is done, or starts again after the stop of a restart,                *)
LEMMA SucceedBecomes ==
    ASSUME TypeOK, NEW c \in Commands, Succeed(c)
    PROVE  Becomes(c, IF command[c].again THEN StartAt ELSE Idle)
BY CommandTypes DEF Succeed, Becomes

(* it gives up,                                                            *)
LEMMA EndBecomes ==
    ASSUME TypeOK, NEW c \in Commands, End(c)
    PROVE  Becomes(c, Idle)
BY CommandTypes DEF End, Becomes

(* it goes on with another process,                                        *)
LEMMA CommandAtOf ==
    ASSUME TypeOK, NEW c \in Commands, NEW stage \in Stages, NEW proc \in Daemons \cup {NoDaemon},
           command' = [command EXCEPT ![c].at = stage, ![c].proc = proc]
    PROVE  Becomes(c, [task |-> command[c].task, again |-> command[c].again,
                       at |-> stage, proc |-> proc])
<1> DEFINE k == [task |-> command[c].task, again |-> command[c].again,
                 at |-> stage, proc |-> command[c].proc]
           goal == [task |-> command[c].task, again |-> command[c].again,
                    at |-> stage, proc |-> proc]
           between == [command EXCEPT ![c] = k]
<1>1. command \in [Commands -> Command] /\ command[c] \in Command
  BY DEF TypeOK
<1>2. k \in Command /\ goal \in Command
  BY <1>1 DEF Command, Stages
<1>3. [command EXCEPT ![c].at = stage] = between
  BY <1>1, CommandAt
<1>4. [k EXCEPT !.proc = proc] = goal
  OBVIOUS
<1>5. command' = [[command EXCEPT ![c].at = stage] EXCEPT ![c].proc = proc]
  BY Zenon
<1> HIDE DEF k, goal
<1>6. between[c] = k
  BY <1>1
<1>7. command' = [between EXCEPT ![c] = [between[c] EXCEPT !.proc = proc]]
  BY <1>3, <1>5
<1>8. command' = [between EXCEPT ![c] = goal]
  BY <1>4, <1>6, <1>7
<1>9. command' = [command EXCEPT ![c] = goal]
  BY <1>1, <1>2, <1>8
<1> QED
  BY <1>2, <1>9 DEF Becomes, goal

(* with the one that it has spawned,                                       *)
LEMMA SpawnBecomes ==
    ASSUME TypeOK, NEW c \in Commands, NEW d \in Daemons,
           command' = [command EXCEPT ![c].at = "ready", ![c].proc = d]
    PROVE  Becomes(c, [task |-> command[c].task, again |-> command[c].again,
                       at |-> "ready", proc |-> d])
BY CommandAtOf DEF Stages

(* or with the one whose pid it has read.                                  *)
LEMMA ReadPidBecomes ==
    ASSUME TypeOK, NEW c \in Commands, ReadPid(c)
    PROVE  Becomes(c, [task |-> command[c].task, again |-> command[c].again,
                       at |-> IF file["pid"] = NoDaemon THEN "probe" ELSE "check",
                       proc |-> file["pid"]])
<1>1. file["pid"] \in Daemons \cup {NoDaemon}
  BY DEF TypeOK, Paths
<1> QED
  BY <1>1, CommandAtOf DEF ReadPid, Stages

-----------------------------------------------------------------------------
(* The types                                                               *)
LEMMA InitTypeOK == Init => TypeOK
BY CommandTypes DEF Init, TypeOK

(* A step that binds or removes a path, enters a stage of a daemon and     *)
(* moves a command keeps the types.                                        *)
LEMMA StepTypes ==
    ASSUME TypeOK,
           file' = file \/ \E p \in Paths, d \in Daemons \cup {NoDaemon} : Bind(p, d),
           daemon' = daemon \/ \E d \in Daemons, stage \in DaemonStages : Enter(d, stage),
           dying' \subseteq Daemons,
           command' = command \/ \E c \in Commands : \E k : Becomes(c, k)
    PROVE  TypeOK'
<1>1. file' \in [Paths -> Daemons \cup {NoDaemon}]
  BY DEF TypeOK, Bind
<1>2. daemon' \in [Daemons -> DaemonStages]
  BY DEF TypeOK, Enter, DaemonStages, StartStages
<1>3. command' \in [Commands -> Command]
  BY DEF TypeOK, Becomes
<1> QED
  BY <1>1, <1>2, <1>3 DEF TypeOK, DaemonStages, StartStages

(* Types, over the steps of daemons,                                       *)
LEMMA DaemonTypes ==
    ASSUME TypeOK, NEW d \in Daemons,
           RunDaemon(d) \/ DaemonStep(d) \/ AcceptFails(d) \/ Crash(d)
    PROVE  TypeOK'
<1> USE DEF Unlink, Bind, DaemonStages, StartStages, Removing
<1>1. CASE RunDaemon(d)
  BY <1>1, StepTypes DEF RunDaemon, TypeOK
<1>2. CASE DaemonProbes(d)
  BY <1>2, StepTypes DEF DaemonProbes, TypeOK
<1>3. CASE DaemonRemoves(d)
  BY <1>3, StepTypes, PathTypes DEF DaemonRemoves, TypeOK
<1>4. CASE DaemonWritesPid(d)
  BY <1>4, StepTypes DEF DaemonWritesPid, TypeOK, Paths
<1>5. CASE DaemonBinds(d)
  <2>1. PICK p \in {"sock", "ctrl"} :
           IF file[p] = NoDaemon
           THEN Bind(p, d) /\ Enter(d, IF p = "sock" THEN "bind ctrl" ELSE "serving")
           ELSE Bind("pid", NoDaemon) /\ Enter(d, "leaving")
    BY <1>5 DEF DaemonBinds
  <2>2. \E stage \in DaemonStages : Enter(d, stage)
    BY <2>1
  <2>3. \E q \in Paths, e \in Daemons \cup {NoDaemon} : Bind(q, e)
    BY <2>1 DEF Paths
  <2> QED
    BY <1>5, <2>2, <2>3, StepTypes DEF DaemonBinds, TypeOK
<1>6. CASE Leave(d) \/ Crash(d)
  BY <1>6, StepTypes DEF Leave, Crash, TypeOK
<1>7. CASE AcceptFails(d)
  BY <1>7, StepTypes DEF AcceptFails, TypeOK, Paths
<1> QED
  BY <1>1, <1>2, <1>3, <1>4, <1>5, <1>6, <1>7 DEF DaemonStep

(* over those of commands,                                                 *)
LEMMA CommandStepTypes ==
    ASSUME TypeOK, NEW c \in Commands,
           Begin(c) \/ CommandStep(c) \/ ReadyTimesOut(c) \/ GoneTimesOut(c)
    PROVE  TypeOK'
<1> USE DEF Stages
<1>1. CASE Begin(c)
  <2>1. \E k : Becomes(c, k)
    BY <1>1, CommandTypes DEF Begin, Becomes
  <2> QED
    BY <1>1, <2>1, StepTypes DEF Begin, TypeOK
<1>2. CASE Probe(c)
  BY <1>2, StepTypes, GotoBecomes, EndBecomes DEF Probe, TypeOK, Removing
<1>3. CASE Remove(c)
  <2>1. \E p \in Paths : Bind(p, NoDaemon)
    BY <1>3, PathTypes DEF Remove, Unlink, Bind
  <2>2. \E k : Becomes(c, k)
    BY <1>3, PathTypes, GotoBecomes, SucceedBecomes DEF Remove, Removing
  <2> QED
    BY <1>3, <2>1, <2>2, StepTypes DEF Remove, TypeOK
<1>4. CASE Spawn(c)
  BY <1>4, StepTypes, SpawnBecomes DEF Spawn, TypeOK, DaemonStages, StartStages
<1>5. CASE Ready(c)
  BY <1>5, StepTypes, SucceedBecomes DEF Ready, TypeOK
<1>6. CASE ReadyTimesOut(c)
  <2>1. command[c].proc \in Daemons
    BY <1>6 DEF ReadyTimesOut, Alive, TypeOK, Command
  <2> QED
    BY <1>6, <2>1, StepTypes, EndBecomes DEF ReadyTimesOut, TypeOK, DaemonStages
<1>7. CASE ReadPid(c)
  BY <1>7, StepTypes, ReadPidBecomes DEF ReadPid, TypeOK
<1>8. CASE Check(c)
  BY <1>8, StepTypes, GotoBecomes DEF Check, TypeOK, Removing
<1>9. CASE Match(c)
  <2>1. dying' \subseteq Daemons
    BY <1>9 DEF Match, Alive, TypeOK, Command
  <2>2. \E k : Becomes(c, k)
    BY <1>9, GotoBecomes, EndBecomes DEF Match
  <2> QED
    BY <1>9, <2>1, <2>2, StepTypes DEF Match, TypeOK
<1>10. CASE Gone(c)
  BY <1>10, StepTypes, GotoBecomes DEF Gone, TypeOK, Removing
<1>11. CASE GoneTimesOut(c)
  BY <1>11, StepTypes, EndBecomes DEF GoneTimesOut, TypeOK
<1> QED
  BY <1>1, <1>2, <1>3, <1>4, <1>5, <1>6, <1>7, <1>8, <1>9, <1>10, <1>11 DEF CommandStep

(* and over any.                                                           *)
LEMMA NextTypeOK == TypeOK /\ [Next]_vars => TypeOK'
<1> SUFFICES ASSUME TypeOK, [Next]_vars PROVE TypeOK'
  OBVIOUS
<1>1. CASE UNCHANGED vars
  BY <1>1 DEF vars, TypeOK
<1> QED
  BY <1>1, DaemonTypes, CommandStepTypes DEF Next

-----------------------------------------------------------------------------
(* Safety                                                                  *)
LEMMA InitControlSafe == Init => ControlSafe
<1> SUFFICES ASSUME Init PROVE ControlSafe
  OBVIOUS
<1>1. \A d \in Daemons : ~Starting(d) /\ ~Serving(d)
  BY DEF Init, Starting, Serving, StartStages, Removing
<1>2. \A c \in Commands : command[c] = Idle /\ ~Active(c)
  BY CommandTypes DEF Init, Active
<1>3. \A c \in Commands : CommandKnows(command[c])
  BY <1>2, CommandTypes DEF CommandKnows, Removing
<1>4. \A d \in Daemons : DaemonKnows(d)
  BY DEF Init, DaemonKnows, Starting, StartStages, Removing
<1> QED
  BY <1>1, <1>2, <1>3, <1>4 DEF ControlSafe, OneAtATime, ServingIsFindable

(* A daemon that serves can be found, and so it is the only one.           *)
LEMMA FindableIsOne == ServingIsFindable => OneDaemon
BY DEF ServingIsFindable, Findable, OneDaemon, Paths

(* A probe that nobody answers has found out that no daemon serves.        *)
LEMMA ProbeFinds ==
    ASSUME TypeOK, ServingIsFindable, ~Running
    PROVE  NoneServes
BY NoDaemonAssumption
DEF ServingIsFindable, Findable, Paths, Running, Alive, NoneServes, Serving

(* A command that goes on alone, and knows what it should.                 *)
LEMMA CommandKeeps ==
    ASSUME ControlInv, NEW c \in Commands, NEW k, Becomes(c, k), UNCHANGED daemon,
           Active(c),
           k.at # "idle" /\ Stopping(command[c]) => Stopping(k),
           command[c].at = "ready" => k.at = "idle",
           CommandKnows(k),
           file' = file \/ (NoneServes /\ command[c].at # "ready")
    PROVE  ControlSafe'
<1>1. /\ \A o \in Commands : o # c => command'[o] = command[o]
      /\ command'[c] = k
  BY DEF Becomes, ControlInv, TypeOK
<1>2. /\ \A d : Serving(d)' <=> Serving(d)
      /\ \A d : Starting(d)' <=> Starting(d)
      /\ NoneServes' <=> NoneServes
  BY DEF Serving, Starting, NoneServes
<1>3. OneAtATime'
  <2>1. \A d, e \in Daemons : Starting(d)' /\ Starting(e)' => d = e
    BY <1>2 DEF ControlInv, ControlSafe, OneAtATime
  <2>2. \A a, o \in Commands : Active(a)' /\ Active(o)' /\ ~Stopping(command[a])' => a = o
    BY <1>1 DEF ControlInv, ControlSafe, OneAtATime, Active, Stopping
  <2>3. ASSUME NEW a \in Commands, NEW d \in Daemons, Active(a)', Starting(d)'
        PROVE  command'[a].at = "ready" /\ command'[a].proc = d
    BY <1>1, <1>2, <2>3 DEF ControlInv, ControlSafe, OneAtATime, Active
  <2> QED
    BY <2>1, <2>2, <2>3 DEF OneAtATime
<1>4. \A o \in Commands : CommandKnows(command[o])'
  BY <1>1, <1>2 DEF ControlInv, ControlSafe, CommandKnows
<1>5. ASSUME file' # file PROVE \A d \in Daemons : ~Starting(d)
  BY <1>5 DEF ControlInv, ControlSafe, OneAtATime
<1>6. \A d \in Daemons : DaemonKnows(d)'
  BY <1>2, <1>5 DEF ControlInv, ControlSafe, DaemonKnows, Starting, StartStages
<1>7. ServingIsFindable'
  BY <1>2 DEF ControlInv, ControlSafe, ServingIsFindable, Findable, NoneServes
<1> QED
  BY <1>3, <1>4, <1>6, <1>7 DEF ControlSafe

(* A daemon that goes on alone, knows what it should, and does not come to *)
(* serve.                                                                  *)
LEMMA DaemonKeeps ==
    ASSUME ControlInv, NEW d \in Daemons, NEW stage, Enter(d, stage), UNCHANGED command,
           stage # "serving",
           stage \in StartStages => Starting(d),
           file' = file \/ \A e \in Daemons \ {d} :
                              ~Serving(e) /\ daemon[e] \notin {"bind sock", "bind ctrl"},
           DaemonKnows(d)'
    PROVE  ControlSafe'
<1>1. /\ \A e \in Daemons : e # d => daemon'[e] = daemon[e]
      /\ daemon'[d] = stage
  BY DEF Enter, ControlInv, TypeOK
<1>2. /\ \A e \in Daemons : Serving(e)' => Serving(e) /\ e # d
      /\ \A e \in Daemons : Starting(e)' => Starting(e)
      /\ NoneServes => NoneServes'
  BY <1>1 DEF Serving, Starting, NoneServes
<1>3. OneAtATime'
  BY <1>2 DEF ControlInv, ControlSafe, OneAtATime, Active
<1>4. \A c \in Commands : CommandKnows(command[c])'
  BY <1>2 DEF ControlInv, ControlSafe, CommandKnows
<1>5. \A e \in Daemons : DaemonKnows(e)'
  BY <1>1, <1>2 DEF ControlInv, ControlSafe, DaemonKnows
<1>6. ServingIsFindable'
  BY <1>2 DEF ControlInv, ControlSafe, ServingIsFindable, Findable
<1> QED
  BY <1>3, <1>4, <1>5, <1>6 DEF ControlSafe

(* What entering a stage makes of a daemon, and of what it should know.    *)
LEMMA EnterMakes ==
    ASSUME TypeOK, NEW d \in Daemons, NEW stage, Enter(d, stage)
    PROVE  /\ daemon'[d] = stage
           /\ \A e \in Daemons \ {d} : daemon'[e] = daemon[e]
BY DEF Enter, TypeOK

(* A daemon that is not starting has nothing to know.                      *)
LEMMA EnterOutside ==
    ASSUME TypeOK, NEW d \in Daemons, NEW stage, Enter(d, stage), stage \notin StartStages
    PROVE  DaemonKnows(d)'
<1>1. daemon'[d] = stage
  BY EnterMakes
<1> QED
  BY <1>1 DEF DaemonKnows, Starting, StartStages

(* No daemon serves but for one that comes to serve.                       *)
LEMMA EnterAlone ==
    ASSUME TypeOK, NEW d \in Daemons, NEW stage, Enter(d, stage), stage # "serving",
           \A e \in Daemons \ {d} : ~Serving(e)
    PROVE  NoneServes'
<1>1. /\ daemon'[d] = stage
      /\ \A e \in Daemons \ {d} : daemon'[e] = daemon[e]
  BY EnterMakes
<1> QED
  BY <1>1 DEF NoneServes, Serving

(* Daemons keep the invariant: a probe nobody answers is followed by       *)
(* writes that nobody else makes.                                          *)
LEMMA DaemonStepSafe ==
    ASSUME ControlInv, NEW d \in Daemons, DaemonStep(d) \/ AcceptFails(d) \/ Crash(d)
    PROVE  ControlSafe'
<1> USE DEF ControlInv
<1>1. file \in [Paths -> Daemons \cup {NoDaemon}] /\ daemon \in [Daemons -> DaemonStages]
  BY DEF TypeOK, DaemonStages, StartStages
<1>2. NoneServes => \A e \in Daemons \ {d} : ~Serving(e)
  BY DEF NoneServes
<1>3. Starting(d) /\ daemon[d] # "probe" => NoneServes
  BY DEF ControlSafe, DaemonKnows
<1>4. Starting(d) => \A e \in Daemons \ {d} : ~Starting(e)
  BY DEF ControlSafe, OneAtATime
<1>5. CASE DaemonProbes(d)
  <2>1. CASE Running
    <3>1. Enter(d, "dead") /\ UNCHANGED <<file, command>>
      BY <1>5, <2>1 DEF DaemonProbes
    <3>2. DaemonKnows(d)'
      BY <3>1, EnterOutside DEF StartStages, Removing
    <3> QED
      BY <3>1, <3>2, DaemonKeeps DEF StartStages, Removing
  <2>2. CASE ~Running
    <3>1. Enter(d, "remove sock") /\ UNCHANGED <<file, command>>
      BY <1>5, <2>2 DEF DaemonProbes
    <3>2. NoneServes
      BY <2>2, ProbeFinds DEF ControlSafe
    <3>3. NoneServes'
      BY <1>2, <3>1, <3>2, EnterAlone
    <3>4. daemon'[d] = "remove sock"
      BY <3>1, EnterMakes
    <3>5. DaemonKnows(d)'
      BY <3>3, <3>4 DEF DaemonKnows
    <3>6. Starting(d)
      BY <1>5 DEF DaemonProbes, Starting, StartStages
    <3> QED
      BY <3>1, <3>5, <3>6, DaemonKeeps
  <2> QED
    BY <2>1, <2>2
<1>6. CASE DaemonRemoves(d)
  <2> DEFINE stage == IF daemon[d] = "remove pid" THEN "write pid" ELSE After[daemon[d]]
  <2>1. Enter(d, stage) /\ UNCHANGED command
    BY <1>6 DEF DaemonRemoves
  <2>2. stage \in Removing \cup {"write pid"}
    BY <1>6, PathTypes DEF DaemonRemoves, Removing
  <2>3. Starting(d) /\ daemon[d] # "probe"
    BY <1>6 DEF DaemonRemoves, Starting, StartStages, Removing
  <2> HIDE DEF stage
  <2>4. NoneServes'
    BY <1>2, <1>3, <2>1, <2>2, <2>3, EnterAlone DEF Removing
  <2>5. DaemonKnows(d)'
    BY <2>1, <2>2, <2>4, EnterMakes DEF DaemonKnows, Removing
  <2>6. \A e \in Daemons \ {d} : ~Serving(e) /\ daemon[e] \notin {"bind sock", "bind ctrl"}
    BY <1>3, <1>4, <2>3 DEF NoneServes, Starting, StartStages
  <2>7. stage # "serving"
    BY <2>2 DEF Removing
  <2> QED
    BY <2>1, <2>3, <2>5, <2>6, <2>7, DaemonKeeps
<1>7. CASE DaemonWritesPid(d)
  <2>1. Enter(d, "bind sock") /\ UNCHANGED command /\ file'["pid"] = d
    BY <1>1, <1>7 DEF DaemonWritesPid, Bind, Paths
  <2>2. Starting(d) /\ daemon[d] # "probe"
    BY <1>7 DEF DaemonWritesPid, Starting, StartStages
  <2>3. NoneServes'
    BY <1>2, <1>3, <2>1, <2>2, EnterAlone
  <2>4. daemon'[d] = "bind sock"
    BY <2>1, EnterMakes
  <2>5. DaemonKnows(d)'
    BY <2>1, <2>3, <2>4 DEF DaemonKnows
  <2>6. \A e \in Daemons \ {d} : ~Serving(e) /\ daemon[e] \notin {"bind sock", "bind ctrl"}
    BY <1>3, <1>4, <2>2 DEF NoneServes, Starting, StartStages
  <2> QED
    BY <2>1, <2>2, <2>5, <2>6, DaemonKeeps
<1>8. CASE DaemonBinds(d)
  <2>1. PICK p \in {"sock", "ctrl"} :
           /\ daemon[d] = (IF p = "sock" THEN "bind sock" ELSE "bind ctrl")
           /\ IF file[p] = NoDaemon
              THEN Bind(p, d) /\ Enter(d, IF p = "sock" THEN "bind ctrl" ELSE "serving")
              ELSE Unlink("pid") /\ Enter(d, "leaving")
    BY <1>8 DEF DaemonBinds
  <2>2. Starting(d) /\ daemon[d] # "probe" /\ UNCHANGED command
    BY <1>8, <2>1 DEF DaemonBinds, Starting, StartStages
  <2>3. \A e \in Daemons \ {d} : ~Serving(e) /\ daemon[e] \notin {"bind sock", "bind ctrl"}
    BY <1>3, <1>4, <2>2 DEF NoneServes, Starting, StartStages
  <2>4. file["pid"] = d /\ (p = "ctrl" => file["sock"] = d)
    BY <2>1 DEF ControlSafe, DaemonKnows
  <2>5. CASE file[p] # NoDaemon
    <3>1. Enter(d, "leaving")
      BY <2>1, <2>5
    <3>2. DaemonKnows(d)'
      BY <3>1, EnterOutside DEF StartStages, Removing
    <3> QED
      BY <2>2, <2>3, <3>1, <3>2, DaemonKeeps
  <2>6. CASE file[p] = NoDaemon /\ p = "sock"
    <3>1. Enter(d, "bind ctrl") /\ Bind("sock", d)
      BY <2>1, <2>6
    <3>2. file'["sock"] = d /\ file'["pid"] = d
      BY <1>1, <2>4, <3>1 DEF Bind, Paths
    <3>3. NoneServes'
      BY <2>3, <3>1, EnterAlone
    <3>4. DaemonKnows(d)'
      BY <3>2, <3>3 DEF DaemonKnows
    <3> QED
      BY <2>2, <2>3, <3>1, <3>4, DaemonKeeps
  <2>7. CASE file[p] = NoDaemon /\ p = "ctrl"
    <3>1. Enter(d, "serving") /\ Bind("ctrl", d)
      BY <2>1, <2>7
    <3>2. \A q \in Paths : file'[q] = d
      BY <1>1, <2>4, <2>7, <3>1 DEF Bind, Paths
    <3>3. daemon'[d] = "serving" /\ \A e \in Daemons \ {d} : daemon'[e] = daemon[e]
      BY <3>1, EnterMakes
    <3>4. \A e \in Daemons : (Serving(e)' <=> e = d) /\ ~Starting(e)'
      BY <1>4, <2>2, <2>3, <3>3 DEF Serving, Starting, StartStages, Removing
    <3>5. ServingIsFindable'
      BY <3>2, <3>4 DEF ServingIsFindable, Findable
    <3>6. OneAtATime'
      BY <2>2, <3>4 DEF ControlSafe, OneAtATime, Active
    <3>7. \A c \in Commands : Active(c) => command[c].at = "ready" /\ command[c].proc = d
      BY <2>2 DEF ControlSafe, OneAtATime
    <3>8. \A c \in Commands : CommandKnows(command[c])'
      BY <2>2, <3>4, <3>7 DEF ControlSafe, CommandKnows, Active, Removing
    <3>9. \A e \in Daemons : DaemonKnows(e)'
      BY <3>4 DEF DaemonKnows, Starting, StartStages
    <3> QED
      BY <3>5, <3>6, <3>8, <3>9 DEF ControlSafe
  <2> QED
    BY <2>5, <2>6, <2>7
<1>9. CASE Leave(d) \/ Crash(d)
  <2>1. Enter(d, "dead") /\ UNCHANGED <<file, command>>
    BY <1>9 DEF Leave, Crash
  <2>2. DaemonKnows(d)'
    BY <2>1, EnterOutside DEF StartStages, Removing
  <2> QED
    BY <2>1, <2>2, DaemonKeeps DEF StartStages, Removing
<1>10. CASE AcceptFails(d)
  <2>1. Enter(d, "leaving") /\ UNCHANGED command /\ Serving(d)
    BY <1>10 DEF AcceptFails
  <2>2. DaemonKnows(d)'
    BY <2>1, EnterOutside DEF StartStages, Removing
  <2>3. \A e \in Daemons \ {d} : ~Serving(e)
    BY <2>1, FindableIsOne DEF ControlSafe, OneDaemon
  <2>4. \A e \in Daemons : daemon[e] \notin {"bind sock", "bind ctrl"}
    BY <2>1 DEF ControlSafe, DaemonKnows, Starting, StartStages, NoneServes
  <2> QED
    BY <2>1, <2>2, <2>3, <2>4, DaemonKeeps DEF StartStages, Removing
<1> QED
  BY <1>5, <1>6, <1>7, <1>8, <1>9, <1>10 DEF DaemonStep

(* A process that a stop has found gone was the last that could serve.     *)
LEMMA GoneFinds ==
    ASSUME ControlInv, NEW c \in Commands, command[c].at \in {"check", "gone"},
           ~Alive(command[c].proc)
    PROVE  NoneServes
<1>1. \A d \in Daemons : Serving(d) => d = command[c].proc
  BY DEF ControlInv, ControlSafe, CommandKnows
<1> QED
  BY <1>1, NoDaemonAssumption DEF NoneServes, Alive, Serving

(* So do commands, which remove files only when they know that no daemon   *)
(* serves,                                                                 *)
LEMMA CommandMovesSafe ==
    ASSUME ControlInv, NEW c \in Commands,
           \/ Probe(c) \/ Remove(c) \/ Ready(c) \/ GoneTimesOut(c)
           \/ ReadPid(c) \/ Check(c) \/ Match(c) \/ Gone(c)
    PROVE  ControlSafe'
<1> DEFINE m == command[c]
           at(stage) == [task |-> m.task, again |-> m.again, at |-> stage, proc |-> m.proc]
<1>1. TypeOK /\ ControlSafe /\ ServingIsFindable
  BY DEF ControlInv, ControlSafe
<1>2. CommandKnows(m)
  BY <1>1 DEF ControlSafe
<1>3. Idle.at = "idle" /\ CommandKnows(Idle)
  BY CommandTypes DEF CommandKnows, Removing
<1>4. ASSUME End(c), Active(c), UNCHANGED <<file, daemon>> PROVE ControlSafe'
  <2>1. Becomes(c, Idle)
    BY <1>1, <1>4, EndBecomes
  <2> QED
    BY <1>3, <1>4, <2>1, CommandKeeps
<1>5. ASSUME NEW stage \in Stages, Goto(c, stage), Active(c), m.at # "ready", UNCHANGED daemon,
             file' = file \/ NoneServes, CommandKnows(at(stage))
      PROVE  ControlSafe'
  <2>1. Becomes(c, at(stage))
    BY <1>1, <1>5, GotoBecomes
  <2>2. Stopping(m) => Stopping(at(stage))
    BY DEF Stopping
  <2> HIDE DEF at, m
  <2> QED
    BY <1>5, <2>1, <2>2, CommandKeeps DEF m
<1>6. ASSUME NoneServes, Goto(c, "remove sock"), Active(c), m.at # "ready", UNCHANGED <<file, daemon>>
      PROVE  ControlSafe'
  <2>1. CommandKnows(at("remove sock"))
    BY <1>2, <1>6 DEF CommandKnows, Removing
  <2> HIDE DEF at, m
  <2> QED
    BY <1>5, <1>6, <2>1 DEF Stages, Removing
<1>7. CASE Probe(c)
  <2>1. Active(c) /\ m.at # "ready" /\ UNCHANGED <<file, daemon>>
    BY <1>7 DEF Probe, Active
  <2>2. CASE Running
    BY <1>4, <1>7, <2>1, <2>2 DEF Probe
  <2>3. CASE ~Running
    BY <1>1, <1>6, <1>7, <2>1, <2>3, ProbeFinds DEF Probe
  <2> QED
    BY <2>2, <2>3
<1>8. CASE Remove(c)
  <2>1. Active(c) /\ m.at # "ready" /\ UNCHANGED daemon /\ NoneServes
    BY <1>2, <1>8 DEF Remove, Active, Removing, CommandKnows
  <2>2. ASSUME m.at # "remove pid" PROVE ControlSafe'
    <3>1. After[m.at] \in Removing
      BY <1>8, <2>2, PathTypes DEF Remove, Removing
    <3>2. CommandKnows(at(After[m.at]))
      BY <1>2, <2>1, <3>1 DEF CommandKnows, Removing
    <3>3. Goto(c, After[m.at])
      BY <1>8, <2>2 DEF Remove
    <3> QED
      BY <1>5, <2>1, <3>1, <3>2, <3>3 DEF Stages
  <2>3. ASSUME m.at = "remove pid", m.task = "start" PROVE ControlSafe'
    <3>1. CommandKnows(at("spawn"))
      BY <1>2, <2>1, <2>3 DEF CommandKnows, Removing
    <3>2. Goto(c, "spawn")
      BY <1>8, <2>3 DEF Remove
    <3> QED
      BY <1>5, <2>1, <3>1, <3>2 DEF Stages
  <2>4. ASSUME m.at = "remove pid", m.task # "start" PROVE ControlSafe'
    <3> DEFINE k == IF m.again THEN StartAt ELSE Idle
    <3>1. Succeed(c)
      BY <1>8, <2>4 DEF Remove
    <3>2. Becomes(c, k)
      BY <1>1, <3>1, SucceedBecomes
    <3>3. CommandKnows(StartAt)
      BY CommandTypes DEF CommandKnows, Removing
    <3>4. CommandKnows(k)
      BY <1>3, <3>3
    <3>5. k.at # "idle" /\ Stopping(m) => Stopping(k)
      BY <1>3 DEF Stopping
    <3> HIDE DEF k
    <3> QED
      BY <2>1, <3>2, <3>4, <3>5, CommandKeeps
  <2> QED
    BY <2>2, <2>3, <2>4
<1>9. CASE Ready(c)
  <2>1. Active(c) /\ UNCHANGED <<file, daemon>> /\ Succeed(c)
    BY <1>9 DEF Ready, Active
  <2>2. m \in Command /\ m.again = FALSE
    BY <1>1, <1>2, <1>9 DEF TypeOK, Command, CommandKnows, Ready
  <2>3. Becomes(c, Idle)
    BY <1>1, <2>1, <2>2, SucceedBecomes
  <2> QED
    BY <1>3, <2>1, <2>3, CommandKeeps
<1>10. CASE GoneTimesOut(c)
  BY <1>4, <1>10 DEF GoneTimesOut, Active
<1>11. CASE ReadPid(c)
  <2> DEFINE k == [task |-> m.task, again |-> m.again,
                   at |-> IF file["pid"] = NoDaemon THEN "probe" ELSE "check",
                   proc |-> file["pid"]]
  <2>1. Becomes(c, k)
    BY <1>1, <1>11, ReadPidBecomes
  <2>2. \A d \in Daemons : Serving(d) => d = file["pid"]
    BY <1>1 DEF ServingIsFindable, Findable, Paths
  <2>3. file["pid"] = NoDaemon => NoneServes
    BY <2>2, NoDaemonAssumption DEF NoneServes
  <2>4. CommandKnows(k)
    BY <1>2, <2>2, <2>3 DEF CommandKnows, Removing
  <2>5. Stopping(m) => Stopping(k)
    BY DEF Stopping
  <2> HIDE DEF k
  <2> QED
    BY <1>11, <2>1, <2>4, <2>5, CommandKeeps DEF ReadPid, Active
<1>12. CASE Check(c)
  <2>1. Active(c) /\ m.at # "ready" /\ UNCHANGED <<file, daemon>>
    BY <1>12 DEF Check, Active
  <2>2. CASE Alive(m.proc)
    <3>1. CommandKnows(at("match"))
      BY <1>2, <1>12 DEF Check, CommandKnows, Removing
    <3>2. Goto(c, "match")
      BY <1>12, <2>2 DEF Check
    <3> QED
      BY <1>5, <2>1, <3>1, <3>2 DEF Stages
  <2>3. CASE ~Alive(m.proc)
    BY <1>6, <1>12, <2>1, <2>3, GoneFinds DEF Check
  <2> QED
    BY <2>2, <2>3
<1>13. CASE Match(c)
  <2>1. Active(c) /\ m.at # "ready" /\ UNCHANGED <<file, daemon>>
    BY <1>13 DEF Match, Active
  <2>2. CASE Alive(m.proc)
    <3>1. CommandKnows(at("gone"))
      BY <1>2, <1>13 DEF Match, CommandKnows, Removing
    <3>2. Goto(c, "gone")
      BY <1>13, <2>2 DEF Match
    <3> QED
      BY <1>5, <2>1, <3>1, <3>2 DEF Stages
  <2>3. CASE ~Alive(m.proc)
    BY <1>4, <1>13, <2>1, <2>3 DEF Match
  <2> QED
    BY <2>2, <2>3
<1>14. CASE Gone(c)
  BY <1>6, <1>14, GoneFinds DEF Gone, Active
<1> QED
  BY <1>7, <1>8, <1>9, <1>10, <1>11, <1>12, <1>13, <1>14

(* or spawn when no daemon is starting,                                    *)
LEMMA SpawnSafe ==
    ASSUME ControlInv, NEW c \in Commands, Spawn(c)
    PROVE  ControlSafe'
<1> USE DEF ControlInv
<1>1. PICK d \in Daemons : /\ Enter(d, "probe")
                           /\ command' = [command EXCEPT ![c].at = "ready", ![c].proc = d]
  BY DEF Spawn
<1> DEFINE k == [task |-> command[c].task, again |-> command[c].again, at |-> "ready", proc |-> d]
<1>2. Becomes(c, k)
  BY <1>1, SpawnBecomes
<1> HIDE DEF k
<1>3. command'[c] = k /\ \A o \in Commands : o # c => command'[o] = command[o]
  BY <1>2 DEF Becomes, TypeOK
<1>4. k.at = "ready" /\ k.proc = d /\ k.task = "start" /\ ~k.again /\ NoneServes
  BY DEF k, Spawn, ControlSafe, CommandKnows
<1>5. \A o \in Commands : Active(o) => o = c
  BY DEF Spawn, ControlSafe, OneAtATime, CommandKnows, Active, Stopping
<1>6. \A e \in Daemons : ~Starting(e)
  BY DEF Spawn, ControlSafe, OneAtATime, Active
<1>7. daemon'[d] = "probe" /\ \A e \in Daemons \ {d} : daemon'[e] = daemon[e]
  BY <1>1, EnterMakes
<1>8. \A e \in Daemons : ~Serving(e)' /\ (Starting(e)' <=> e = d)
  BY <1>4, <1>6, <1>7 DEF NoneServes, Serving, Starting, StartStages
<1>9. \A o \in Commands : Active(o)' => o = c
  BY <1>3, <1>5 DEF Active
<1>10. OneAtATime'
  <2>1. \A e, f \in Daemons : Starting(e)' /\ Starting(f)' => e = f
    BY <1>8
  <2>2. \A a, o \in Commands : Active(a)' /\ Active(o)' /\ ~Stopping(command'[a]) => a = o
    BY <1>9
  <2>3. \A a \in Commands, e \in Daemons :
           Active(a)' /\ Starting(e)' => command'[a].at = "ready" /\ command'[a].proc = e
    BY <1>3, <1>4, <1>8, <1>9
  <2> QED
    BY <2>1, <2>2, <2>3 DEF OneAtATime
<1>11. NoneServes'
  BY <1>8 DEF NoneServes
<1>12. \A o \in Commands : CommandKnows(command[o])'
  BY <1>3, <1>4, <1>11 DEF ControlSafe, CommandKnows, NoneServes
<1>13. \A e \in Daemons : DaemonKnows(e)'
  BY <1>7, <1>8, <1>11 DEF DaemonKnows, Starting, StartStages
<1> QED
  BY <1>8, <1>10, <1>12, <1>13 DEF ControlSafe, ServingIsFindable

(* or kill the daemon they have waited for,                                *)
LEMMA ReadyTimesOutSafe ==
    ASSUME ControlInv, NEW c \in Commands, ReadyTimesOut(c)
    PROVE  ControlSafe'
<1> USE DEF ControlInv
<1> DEFINE d == command[c].proc
<1>1. d \in Daemons /\ Enter(d, "dead") /\ Becomes(c, Idle) /\ UNCHANGED file
  BY EndBecomes DEF ReadyTimesOut, Alive, TypeOK, Command
<1>2. command'[c] = Idle /\ \A o \in Commands : o # c => command'[o] = command[o]
  BY <1>1 DEF Becomes, TypeOK
<1>3. daemon'[d] = "dead" /\ \A e \in Daemons \ {d} : daemon'[e] = daemon[e]
  BY <1>1, EnterMakes
<1> HIDE DEF d
<1>4. /\ \A e \in Daemons : (Serving(e)' => Serving(e)) /\ (Starting(e)' => Starting(e) /\ e # d)
      /\ NoneServes => NoneServes'
  BY <1>1, <1>3 DEF NoneServes, Serving, Starting, StartStages, Removing
<1>5. \A o \in Commands : Active(o)' => Active(o) /\ command'[o] = command[o]
  BY <1>2, CommandTypes DEF Active
<1>6. OneAtATime'
  <2>1. \A e, f \in Daemons : Starting(e)' /\ Starting(f)' => e = f
    BY <1>4 DEF ControlSafe, OneAtATime
  <2>2. \A a, o \in Commands : Active(a)' /\ Active(o)' /\ ~Stopping(command'[a]) => a = o
    BY <1>5 DEF ControlSafe, OneAtATime
  <2>3. \A a \in Commands, e \in Daemons :
           Active(a)' /\ Starting(e)' => command'[a].at = "ready" /\ command'[a].proc = e
    BY <1>4, <1>5 DEF ControlSafe, OneAtATime
  <2> QED
    BY <2>1, <2>2, <2>3 DEF OneAtATime
<1>7. CommandKnows(Idle)'
  BY CommandTypes DEF CommandKnows, Removing
<1>8. \A o \in Commands : CommandKnows(command[o])'
  BY <1>2, <1>4, <1>7 DEF ControlSafe, CommandKnows
<1>9. \A e \in Daemons : DaemonKnows(e)'
  BY <1>1, <1>3, <1>4 DEF ControlSafe, DaemonKnows, Starting, StartStages, Removing
<1>10. ServingIsFindable'
  BY <1>1, <1>4 DEF ControlSafe, ServingIsFindable, Findable
<1> QED
  BY <1>6, <1>8, <1>9, <1>10 DEF ControlSafe

(* Where the model lets something begin, nothing starts or serves unfound. *)
LEMMA BeginSafe ==
    ASSUME ControlInv, "overlap" \notin Hiccups, NEW c \in Commands, Begin(c)
    PROVE  ControlSafe'
<1> USE DEF ControlInv
<1>1. PICK k \in {StartAt, StopAt(FALSE), StopAt(TRUE)} :
         /\ Quiet \/ (MayStop /\ Stopping(k))
         /\ command' = [command EXCEPT ![c] = k]
  BY DEF Begin, MayBegin
<1>2. command'[c] = k /\ \A o \in Commands : o # c => command'[o] = command[o]
  BY <1>1 DEF TypeOK
<1>3. UNCHANGED <<file, daemon>>
  BY DEF Begin
<1>4. \A o \in Commands : o # c /\ Active(o)' => Stopping(command'[o]) /\ Stopping(k)
  BY <1>1, <1>2 DEF Quiet, MayStop, Active
<1>5. \A d \in Daemons : ~Starting(d) /\ ~Starting(d)'
  BY <1>1, <1>3 DEF Quiet, MayStop, Starting, StartStages, Removing
<1>6. OneAtATime'
  BY <1>2, <1>4, <1>5 DEF OneAtATime
<1>7. (k.at = "probe" /\ k.task = "start" /\ ~k.again) \/ (k.at = "read pid" /\ k.task = "stop")
  <2>1. CASE k = StartAt
    BY <2>1, CommandTypes
  <2>2. ASSUME NEW again \in BOOLEAN, k = StopAt(again) PROVE k.at = "read pid" /\ k.task = "stop"
    BY <2>2 DEF StopAt
  <2> QED
    BY <2>1, <2>2
<1>8. CommandKnows(k)'
  BY <1>7 DEF CommandKnows, Removing
<1>9. \A o \in Commands : CommandKnows(command[o])'
  BY <1>2, <1>3, <1>8 DEF ControlSafe, CommandKnows, NoneServes, Serving
<1>10. \A d \in Daemons : DaemonKnows(d)'
  BY <1>5 DEF DaemonKnows, Starting, StartStages
<1>11. ServingIsFindable'
  BY <1>3 DEF ControlSafe, ServingIsFindable, Findable, Serving
<1> QED
  BY <1>6, <1>9, <1>10, <1>11 DEF ControlSafe

(* and daemons in the foreground, if started when nothing is under way.    *)
LEMMA RunDaemonSafe ==
    ASSUME ControlInv, "overlap" \notin Hiccups, NEW d \in Daemons, RunDaemon(d)
    PROVE  ControlSafe'
<1> USE DEF ControlInv
<1>1. Quiet /\ Enter(d, "probe") /\ UNCHANGED <<file, command>> /\ daemon[d] = "dead"
  BY DEF RunDaemon, MayBegin, Fresh
<1>2. daemon'[d] = "probe" /\ \A e \in Daemons \ {d} : daemon'[e] = daemon[e]
  BY <1>1, EnterMakes
<1>3. /\ \A e \in Daemons : (Serving(e)' => Serving(e)) /\ (Starting(e)' <=> e = d)
      /\ \A c \in Commands : ~Active(c)' /\ command'[c].at = "idle"
  BY <1>1, <1>2 DEF Quiet, Serving, Starting, StartStages, Removing, Active
<1>4. OneAtATime'
  BY <1>3 DEF OneAtATime
<1>5. \A c \in Commands : CommandKnows(command[c])'
  BY <1>1, <1>3 DEF ControlSafe, CommandKnows, Removing
<1>6. \A e \in Daemons : DaemonKnows(e)'
  BY <1>2, <1>3 DEF DaemonKnows, Starting, StartStages
<1>7. ServingIsFindable'
  BY <1>1, <1>3 DEF ControlSafe, ServingIsFindable, Findable
<1> QED
  BY <1>4, <1>5, <1>6, <1>7 DEF ControlSafe

(* Every step keeps the invariant, unless commands overlap.                *)
LEMMA NextControlInv ==
    ASSUME "overlap" \notin Hiccups
    PROVE  ControlInv /\ [Next]_vars => ControlInv'
<1> SUFFICES ASSUME ControlInv, [Next]_vars PROVE ControlInv'
  OBVIOUS
<1>1. TypeOK'
  BY NextTypeOK DEF ControlInv
<1>2. CASE UNCHANGED vars
  <2> USE <1>2 DEF vars
  <2>1. OneAtATime'
    BY DEF ControlInv, ControlSafe, OneAtATime, Active, Starting, Stopping
  <2>2. ServingIsFindable'
    BY DEF ControlInv, ControlSafe, ServingIsFindable, Findable, Serving
  <2>3. \A c \in Commands : CommandKnows(command[c])'
    BY DEF ControlInv, ControlSafe, CommandKnows, NoneServes, Serving
  <2>4. \A d \in Daemons : DaemonKnows(d)'
    BY DEF ControlInv, ControlSafe, DaemonKnows, NoneServes, Serving, Starting
  <2> QED
    BY <1>1, <2>1, <2>2, <2>3, <2>4 DEF ControlInv, ControlSafe
<1>3. ASSUME NEW d \in Daemons, RunDaemon(d) \/ DaemonStep(d) \/ AcceptFails(d) \/ Crash(d)
      PROVE  ControlSafe'
  BY <1>3, RunDaemonSafe, DaemonStepSafe
<1>4. ASSUME NEW c \in Commands, Begin(c) \/ CommandStep(c) \/ ReadyTimesOut(c) \/ GoneTimesOut(c)
      PROVE  ControlSafe'
  BY <1>4, BeginSafe, SpawnSafe, ReadyTimesOutSafe, CommandMovesSafe DEF CommandStep
<1>5. ControlSafe'
  BY <1>2, <1>3, <1>4 DEF Next, ControlInv
<1> QED
  BY <1>1, <1>5 DEF ControlInv

-----------------------------------------------------------------------------
(* Updates beside them                                                     *)
LEMMA OldestRelease == Oldest \in Releases
<1>1. IsWellFoundedOn(OpToRel(<, Nat), Nat)
  BY NatLessThanWellFounded
<1>2. Releases \subseteq Nat /\ Releases # {}
  BY ReleasesAssumption
<1>3. \E r \in Releases : \A s \in Releases : <<s, r>> \notin OpToRel(<, Nat)
  BY <1>1, <1>2, WFMin, Zenon
<1>4. \A s, r \in Nat : s < r => <<s, r>> \in OpToRel(<, Nat)
  BY DEF OpToRel
<1>5. \A s, r \in Nat : <<s, r>> \notin OpToRel(<, Nat) => r <= s
  <2>1. \A s, r \in Nat : ~(s < r) => r <= s
    OBVIOUS
  <2> QED
    BY <1>4, <2>1, Zenon
<1>6. \E r \in Releases : \A s \in Releases : r <= s
  BY <1>2, <1>3, <1>5, Zenon
<1> QED
  BY <1>6 DEF Oldest

UpdateStages == {"idle", "fetch", "download", "build", "copy", "copying", "rename"}
UpdateRecord == [at : UpdateStages, release : Releases]

(* An update is alone and undisturbed; what it puts in place is whole, and *)
(* what a start waits for was spawned from what is in place.               *)
ReleaseSafe ==
    /\ Updating => Quiet
    /\ \A u, v \in Updates : update[u].at # "idle" /\ update[v].at # "idle" => u = v
    /\ binary.whole
    /\ \A u \in Updates : update[u].at = "rename" /\ staging # NoBinary => staging.whole
    /\ \A c \in Commands, d \in Daemons :
          command[c].at = "ready" /\ (Serving(d) \/ Starting(d)) => runs[d] = binary

ReleaseInv == ReleaseTypeOK /\ ControlSafe /\ ReleaseSafe

(* What a step of an update makes of it.                                   *)
LEMMA UpdateTypes ==
    ASSUME ReleaseTypeOK, NEW u \in Updates
    PROVE  /\ UpdateIdle \in UpdateRecord /\ UpdateIdle.at = "idle"
           /\ \A stage \in UpdateStages : UpdateGoes(u, stage) =>
                 /\ update' \in [Updates -> UpdateRecord]
                 /\ update'[u].at = stage
                 /\ \A v \in Updates \ {u} : update'[v] = update[v]
           /\ UpdateEnds(u) =>
                 /\ update' \in [Updates -> UpdateRecord]
                 /\ update'[u].at = "idle"
                 /\ \A v \in Updates \ {u} : update'[v] = update[v]
           /\ FetchRelease(u) =>
                 /\ update' \in [Updates -> UpdateRecord]
                 /\ update'[u].at = "download"
                 /\ \A v \in Updates \ {u} : update'[v] = update[v]
<1>1. update \in [Updates -> UpdateRecord] /\ published \in Releases
  BY DEF ReleaseTypeOK, UpdateRecord, UpdateStages
<1>2. UpdateIdle \in UpdateRecord /\ UpdateIdle.at = "idle"
  BY OldestRelease DEF UpdateIdle, UpdateRecord, UpdateStages
<1>3. ASSUME NEW stage \in UpdateStages, UpdateGoes(u, stage)
      PROVE  /\ update' \in [Updates -> UpdateRecord]
             /\ update'[u].at = stage
             /\ \A v \in Updates \ {u} : update'[v] = update[v]
  <2>1. update[u] = [at |-> update[u].at, release |-> update[u].release] /\ update[u].release \in Releases
    BY <1>1 DEF UpdateRecord
  <2>2. [update[u] EXCEPT !.at = stage] = [at |-> stage, release |-> update[u].release]
    BY <2>1
  <2>3. [update[u] EXCEPT !.at = stage] \in UpdateRecord
    BY <2>1, <2>2 DEF UpdateRecord
  <2>4. update' = [update EXCEPT ![u] = [update[u] EXCEPT !.at = stage]]
    BY <1>3 DEF UpdateGoes
  <2> QED
    BY <1>1, <2>2, <2>3, <2>4
<1>4. ASSUME UpdateEnds(u)
      PROVE  /\ update' \in [Updates -> UpdateRecord]
             /\ update'[u].at = "idle"
             /\ \A v \in Updates \ {u} : update'[v] = update[v]
  BY <1>1, <1>2, <1>4 DEF UpdateEnds
<1>5. ASSUME FetchRelease(u)
      PROVE  /\ update' \in [Updates -> UpdateRecord]
             /\ update'[u].at = "download"
             /\ \A v \in Updates \ {u} : update'[v] = update[v]
  <2>1. [at |-> "download", release |-> published] \in UpdateRecord
    BY <1>1 DEF UpdateRecord, UpdateStages
  <2> QED
    BY <1>1, <1>5, <2>1 DEF FetchRelease
<1> QED
  BY <1>2, <1>3, <1>4, <1>5

(* The installed binary is whole at first.                                 *)
LEMMA InitReleaseInv == ReleaseInit => ReleaseInv
<1> SUFFICES ASSUME ReleaseInit PROVE ReleaseInv
  OBVIOUS
<1>1. ControlSafe /\ TypeOK
  BY InitTypeOK, InitControlSafe DEF ReleaseInit
<1>2. binary \in Binary /\ binary.whole
  BY OldestRelease DEF ReleaseInit, Binary
<1>3. UpdateIdle.at = "idle" /\ UpdateIdle \in UpdateRecord
  BY OldestRelease DEF UpdateIdle, UpdateRecord, UpdateStages
<1>4. ReleaseTypeOK
  BY <1>1, <1>2, <1>3, OldestRelease DEF ReleaseInit, ReleaseTypeOK, UpdateRecord, UpdateStages
<1>5. \A u \in Updates : update[u].at = "idle"
  BY <1>3 DEF ReleaseInit
<1>6. \A c \in Commands : command[c].at = "idle"
  BY CommandTypes DEF ReleaseInit, Init
<1>7. ReleaseSafe
  BY <1>2, <1>5, <1>6 DEF ReleaseSafe, Updating
<1> QED
  BY <1>1, <1>4, <1>7 DEF ReleaseInv

(* Updates keep the invariant: only a whole file is renamed over the       *)
(* binary.                                                                 *)
LEMMA UpdateStepInv ==
    ASSUME ReleaseInv, "overlap" \notin Hiccups, NEW u \in Updates, UpdateStep(u)
    PROVE  ReleaseInv'
<1> USE DEF ReleaseInv
<1>1. UNCHANGED <<file, daemon, dying, command>> /\ UNCHANGED <<published, runs>>
  BY DEF UpdateStep, BeginUpdate, FetchRelease, DownloadAsset, BuildFromSource, BuildEnds, Stage,
         Replace, UpdateStops, vars
<1>2. /\ update' \in [Updates -> UpdateRecord]
      /\ \A v \in Updates \ {u} : update'[v] = update[v]
  BY UpdateTypes DEF UpdateStep, BeginUpdate, DownloadAsset, BuildFromSource, BuildEnds, Stage,
         Replace, UpdateStops, UpdateStages
<1>3. \A v \in Updates \ {u} : update[v].at = "idle"
  BY DEF UpdateStep, BeginUpdate, FetchRelease, DownloadAsset, BuildFromSource, BuildEnds, Stage,
         Replace, UpdateStops, ReleaseSafe, Updating
<1>4. Quiet
  BY DEF UpdateStep, BeginUpdate, FetchRelease, DownloadAsset, BuildFromSource, BuildEnds, Stage,
         Replace, UpdateStops, ReleaseSafe, Updating
<1>5. \/ UNCHANGED <<binary, staging>> /\ update'[u].at # "rename"
      \/ Stage(u)
      \/ Replace(u)
  BY UpdateTypes DEF UpdateStep, BeginUpdate, DownloadAsset, BuildFromSource, BuildEnds,
         UpdateStops, UpdateStages, FetchRelease
<1>6. /\ binary' \in Binary /\ binary'.whole
      /\ staging' \in Binary \cup {NoBinary}
      /\ update'[u].at = "rename" /\ staging' # NoBinary => staging'.whole
  <2>1. CASE UNCHANGED <<binary, staging>> /\ update'[u].at # "rename"
    BY <2>1 DEF ReleaseTypeOK, ReleaseSafe
  <2>2. CASE Stage(u)
    <3>1. update[u].release \in Releases
      BY DEF ReleaseTypeOK
    <3>2. update[u].at = "copy" => update'[u].at = "copying"
      BY <2>2, UpdateTypes DEF Stage, UpdateStages
    <3>3. UNCHANGED binary
      BY <2>2 DEF Stage
    <3>4. staging' \in Binary /\ (update[u].at = "copying" => staging'.whole)
      BY <2>2, <3>1 DEF Stage, Binary
    <3>5. update[u].at \in {"copy", "copying"}
      BY <2>2 DEF Stage
    <3> QED
      BY <3>2, <3>3, <3>4, <3>5 DEF ReleaseTypeOK, ReleaseSafe
  <2>3. CASE Replace(u)
    <3>1. update'[u].at = "idle"
      BY <2>3, UpdateTypes DEF Replace
    <3>2. staging # NoBinary => staging \in Binary /\ staging.whole
      BY <2>3 DEF Replace, ReleaseTypeOK, ReleaseSafe
    <3> QED
      BY <2>3, <3>1, <3>2 DEF Replace, ReleaseTypeOK, ReleaseSafe
  <2> QED
    BY <1>5, <2>1, <2>2, <2>3
<1>7. TypeOK' /\ ControlSafe' /\ Quiet'
  <2>1. TypeOK'
    BY <1>1, NextTypeOK DEF ReleaseTypeOK, vars
  <2>2. Quiet'
    BY <1>1, <1>4 DEF Quiet
  <2>3. ControlInv'
    BY <1>1, NextControlInv DEF ControlInv, ReleaseTypeOK, vars
  <2> QED
    BY <2>1, <2>2, <2>3 DEF ControlInv
<1>8. ReleaseTypeOK'
  BY <1>1, <1>2, <1>6, <1>7 DEF ReleaseTypeOK, UpdateRecord, UpdateStages
<1>9. \A c \in Commands : command'[c].at # "ready"
  BY <1>7 DEF Quiet
<1>10. ReleaseSafe'
  BY <1>2, <1>3, <1>6, <1>7, <1>9 DEF ReleaseSafe
<1> QED
  BY <1>7, <1>8, <1>10

(* What a step of the daemons and commands can do to a start that waits,   *)
(* and to the quiet that an update needs.                                  *)
LEMMA StartingComesFrom ==
    ASSUME TypeOK, Next, NEW d \in Daemons, Serving(d)' \/ Starting(d)'
    PROVE  Starting(d) \/ (Serving(d) /\ Serving(d)') \/ Spawned(d)
<1>1. daemon \in [Daemons -> DaemonStages]
  BY DEF TypeOK, DaemonStages, StartStages
<1>2. ASSUME NEW e \in Daemons, DaemonStep(e)
      PROVE  Starting(e) \/ daemon'[e] = "dead"
  BY <1>2, EnterMakes DEF DaemonStep, DaemonProbes, DaemonRemoves, DaemonWritesPid, DaemonBinds, Leave,
                          Starting, StartStages, Removing
<1>3. ASSUME NEW e \in Daemons, NEW stage, Enter(e, stage), e # d
      PROVE  Starting(d) \/ (Serving(d) /\ Serving(d)')
  BY <1>3, EnterMakes DEF Serving, Starting
<1>4. ASSUME NEW e \in Daemons, DaemonStep(e) PROVE \E stage : Enter(e, stage)
  BY <1>4 DEF DaemonStep, DaemonProbes, DaemonRemoves, DaemonWritesPid, DaemonBinds, Leave
<1>5. CASE UNCHANGED daemon
  BY <1>5 DEF Serving, Starting
<1>6. ASSUME NEW e \in Daemons, DaemonStep(e) PROVE Starting(d) \/ (Serving(d) /\ Serving(d)')
  <2>1. CASE e # d
    BY <1>3, <1>4, <1>6, <2>1
  <2>2. CASE e = d
    BY <1>2, <1>6, <2>2 DEF Serving, Starting, StartStages, Removing
  <2> QED
    BY <2>1, <2>2
<1>7. ASSUME NEW e \in Daemons, Enter(e, "probe"), daemon[e] = "dead"
      PROVE  Starting(d) \/ (Serving(d) /\ Serving(d)') \/ Spawned(d)
  BY <1>3, <1>7, EnterMakes DEF Spawned
<1>8. ASSUME NEW e \in Daemons, Enter(e, "dead") \/ Enter(e, "leaving")
      PROVE  Starting(d) \/ (Serving(d) /\ Serving(d)')
  <2>1. CASE e # d
    BY <1>3, <1>8, <2>1
  <2>2. CASE e = d
    BY <1>8, <2>2, EnterMakes DEF Serving, Starting, StartStages, Removing
  <2> QED
    BY <2>1, <2>2
<1>9. ASSUME NEW e \in Daemons, RunDaemon(e) \/ DaemonStep(e) \/ AcceptFails(e) \/ Crash(e)
      PROVE  Starting(d) \/ (Serving(d) /\ Serving(d)') \/ Spawned(d)
  BY <1>6, <1>7, <1>8, <1>9 DEF RunDaemon, Fresh, AcceptFails, Crash
<1>10. ASSUME NEW c \in Commands, Begin(c) \/ CommandStep(c) \/ ReadyTimesOut(c) \/ GoneTimesOut(c)
       PROVE  Starting(d) \/ (Serving(d) /\ Serving(d)') \/ Spawned(d)
  <2>1. CASE Spawn(c)
    BY <1>7, <2>1 DEF Spawn, Fresh
  <2>2. CASE ReadyTimesOut(c)
    BY <1>8, <2>2 DEF ReadyTimesOut, Alive, TypeOK, Command
  <2> QED
    BY <1>5, <1>10, <2>1, <2>2
    DEF CommandStep, Begin, Probe, Remove, Ready, ReadPid, Check, Match, Gone, GoneTimesOut
<1> QED
  BY <1>9, <1>10 DEF Next

(* Only a spawn makes a command wait for a daemon.                         *)
LEMMA ReadyComesFrom ==
    ASSUME TypeOK, Next, NEW c \in Commands, command'[c].at = "ready"
    PROVE  command[c].at = "ready" \/ Spawn(c)
<1>1. ASSUME NEW o \in Commands, NEW k, Becomes(o, k), k.at # "ready"
      PROVE  command[c].at = "ready"
  BY <1>1 DEF Becomes, TypeOK
<1>2. CASE UNCHANGED command
  BY <1>2
<1>3. Idle.at # "ready" /\ StartAt.at # "ready"
  BY CommandTypes
<1>4. ASSUME NEW o \in Commands, Begin(o) PROVE command[c].at = "ready"
  <2>1. PICK k \in {StartAt, StopAt(FALSE), StopAt(TRUE)} : command' = [command EXCEPT ![o] = k]
    BY <1>4 DEF Begin
  <2>2. StopAt(FALSE).at # "ready" /\ StopAt(TRUE).at # "ready"
    BY DEF StopAt
  <2>3. k \in Command
    BY CommandTypes
  <2> QED
    BY <1>1, <1>3, <2>1, <2>2, <2>3 DEF Becomes
<1>5. ASSUME NEW o \in Commands, NEW stage \in Stages \ {"ready"}, Goto(o, stage)
      PROVE  command[c].at = "ready"
  BY <1>1, <1>5, GotoBecomes
<1>6. ASSUME NEW o \in Commands, End(o) \/ Succeed(o) PROVE command[c].at = "ready"
  BY <1>1, <1>3, <1>6, EndBecomes, SucceedBecomes
<1>7. ASSUME NEW o \in Commands, ReadPid(o) PROVE command[c].at = "ready"
  BY <1>1, <1>7, ReadPidBecomes
<1>8. ASSUME NEW o \in Commands, Spawn(o), o # c PROVE command[c].at = "ready"
  <2>1. PICK d \in Daemons : command' = [command EXCEPT ![o].at = "ready", ![o].proc = d]
    BY <1>8 DEF Spawn
  <2>2. \E k : Becomes(o, k)
    BY <2>1, SpawnBecomes
  <2> QED
    BY <1>8, <2>2 DEF Becomes, TypeOK
<1>9. ASSUME NEW o \in Commands, Remove(o) PROVE command[c].at = "ready"
  BY <1>5, <1>6, <1>9, PathTypes DEF Remove, Removing, Stages
<1>10. ASSUME NEW o \in Commands, CommandStep(o) \/ ReadyTimesOut(o) \/ GoneTimesOut(o)
       PROVE  command[c].at = "ready" \/ Spawn(c)
  BY <1>5, <1>6, <1>7, <1>8, <1>9, <1>10
  DEF CommandStep, Probe, Ready, ReadyTimesOut, Check, Match, Gone, GoneTimesOut, Stages, Removing
<1>11. ASSUME NEW d \in Daemons, RunDaemon(d) \/ DaemonStep(d) \/ AcceptFails(d) \/ Crash(d)
       PROVE  UNCHANGED command
  BY <1>11 DEF RunDaemon, DaemonStep, DaemonProbes, DaemonRemoves, DaemonWritesPid, DaemonBinds,
               Leave, AcceptFails, Crash
<1> QED
  BY <1>2, <1>4, <1>10, <1>11 DEF Next

(* A quiet system is so until a command or a daemon begins.                *)
LEMMA QuietLasts ==
    ASSUME TypeOK, Next, Quiet, ~Begins
    PROVE  Quiet'
<1>1. \A c \in Commands : command'[c].at = "idle"
  BY DEF Quiet, Begins
<1>2. \A d \in Daemons : daemon[d] \in {"dead", "serving", "leaving"} /\ ~Spawned(d)
  BY DEF Quiet, Begins
<1>3. TypeOK'
  BY NextTypeOK
<1>4. ASSUME NEW d \in Daemons PROVE ~Starting(d)'
  BY <1>2, StartingComesFrom DEF Starting, StartStages, Removing, Serving
<1> QED
  BY <1>1, <1>3, <1>4 DEF Quiet, TypeOK, Starting, StartStages

(* Daemons and commands keep it: what a start spawns runs what is          *)
(* installed, and no update comes between.                                 *)
LEMMA ControlStepInv ==
    ASSUME ReleaseInv, "overlap" \notin Hiccups, ControlStep
    PROVE  ReleaseInv'
<1> USE DEF ReleaseInv
<1>1. Next /\ (Begins => ~Updating) /\ UNCHANGED <<published, binary, staging, update>>
  BY DEF ControlStep
<1>2. TypeOK /\ ControlInv
  BY DEF ReleaseTypeOK, ControlInv
<1>3. ControlInv'
  BY <1>1, <1>2, NextControlInv
<1>4. \A d \in Daemons : runs'[d] =
         CASE Spawned(d)            -> binary
           [] daemon'[d] = "dead"   -> [version |-> Oldest, whole |-> TRUE]
           [] OTHER                 -> runs[d]
  BY DEF ControlStep
<1>5. \A d \in Daemons : Spawned(d) => runs'[d] = binary
  BY <1>4 DEF Spawned
<1>6. \A d \in Daemons : ~Spawned(d) /\ daemon'[d] # "dead" => runs'[d] = runs[d]
  BY <1>4
<1>7. runs' \in [Daemons -> Binary]
  <2>1. [version |-> Oldest, whole |-> TRUE] \in Binary
    BY OldestRelease DEF Binary
  <2>2. \A d \in Daemons : runs'[d] \in Binary
    BY <1>4, <2>1 DEF ReleaseTypeOK
  <2>3. DOMAIN runs' = Daemons /\ runs' = [d \in DOMAIN runs' |-> runs'[d]]
    BY DEF ControlStep
  <2> QED
    BY <2>2, <2>3
<1>8. ReleaseTypeOK'
  BY <1>1, <1>3, <1>7 DEF ReleaseTypeOK, ControlInv, Binary
<1>9. Updating' => Quiet'
  BY <1>1, <1>2, QuietLasts DEF ReleaseSafe, Updating
<1>10. ASSUME NEW c \in Commands, NEW d \in Daemons,
              command'[c].at = "ready", Serving(d)' \/ Starting(d)'
       PROVE  runs'[d] = binary
  <2>1. Spawned(d) \/ Serving(d) \/ Starting(d)
    BY <1>1, <1>2, <1>10, StartingComesFrom
  <2>2. command[c].at = "ready" \/ Spawn(c)
    BY <1>1, <1>2, <1>10, ReadyComesFrom
  <2>3. Spawn(c) => ~Serving(d) /\ ~Starting(d)
    BY DEF Spawn, ControlSafe, CommandKnows, NoneServes, OneAtATime, Active
  <2>4. daemon'[d] # "dead"
    BY <1>10 DEF Serving, Starting, StartStages, Removing
  <2>5. command[c].at = "ready" /\ (Serving(d) \/ Starting(d)) => runs[d] = binary
    BY DEF ReleaseSafe
  <2> QED
    BY <1>5, <1>6, <2>1, <2>2, <2>3, <2>4, <2>5
<1>11. ReleaseSafe'
  BY <1>1, <1>9, <1>10 DEF ReleaseSafe
<1> QED
  BY <1>3, <1>8, <1>11 DEF ControlInv

(* Every step keeps the invariant of the composition, unless commands      *)
(* overlap.                                                                *)
LEMMA ReleaseNextInv ==
    ASSUME "overlap" \notin Hiccups
    PROVE  ReleaseInv /\ [ReleaseNext]_<<vars, releaseVars>> => ReleaseInv'
<1> SUFFICES ASSUME ReleaseInv, [ReleaseNext]_<<vars, releaseVars>> PROVE ReleaseInv'
  OBVIOUS
<1> USE DEF ReleaseInv
<1>1. ASSUME UNCHANGED <<vars, binary, staging, update, runs>>, published' \in Releases
      PROVE  ReleaseInv'
  <2>1. ControlInv'
    BY <1>1, NextControlInv DEF ControlInv, ReleaseTypeOK
  <2>2. UNCHANGED <<file, daemon, dying, command, binary, staging, update, runs>>
    BY <1>1 DEF vars
  <2>3. ReleaseTypeOK'
    BY <1>1, <2>1, <2>2 DEF ReleaseTypeOK, ControlInv
  <2>4. ReleaseSafe'
    BY <2>2 DEF ReleaseSafe, Updating, Quiet, Serving, Starting
  <2> QED
    BY <2>1, <2>3, <2>4 DEF ControlInv
<1>2. CASE UNCHANGED <<vars, releaseVars>>
  BY <1>1, <1>2 DEF releaseVars, ReleaseTypeOK
<1>3. CASE Publish
  BY <1>1, <1>3 DEF Publish
<1> QED
  BY <1>2, <1>3, ControlStepInv, UpdateStepInv DEF ReleaseNext

(* Types of the composition, whatever overlaps.                            *)
LEMMA ReleaseTypeStep == ReleaseTypeOK /\ [ReleaseNext]_<<vars, releaseVars>> => ReleaseTypeOK'
<1> SUFFICES ASSUME ReleaseTypeOK, [ReleaseNext]_<<vars, releaseVars>> PROVE ReleaseTypeOK'
  OBVIOUS
<1>1. TypeOK'
  <2>1. [Next]_vars
    BY DEF ReleaseNext, ControlStep, Publish, UpdateStep, BeginUpdate, FetchRelease, DownloadAsset,
           BuildFromSource, BuildEnds, Stage, Replace, UpdateStops
  <2> QED
    BY <2>1, NextTypeOK DEF ReleaseTypeOK
<1>2. ASSUME UNCHANGED <<binary, staging, update, runs>>, published' \in Releases PROVE ReleaseTypeOK'
  BY <1>1, <1>2 DEF ReleaseTypeOK, Binary
<1>3. CASE UNCHANGED <<vars, releaseVars>>
  BY <1>2, <1>3 DEF releaseVars, ReleaseTypeOK
<1>4. CASE Publish
  BY <1>2, <1>4 DEF Publish
<1>5. CASE ControlStep
  <2>1. [version |-> Oldest, whole |-> TRUE] \in Binary
    BY OldestRelease DEF Binary
  <2>2. runs' \in [Daemons -> Binary]
    BY <1>5, <2>1 DEF ControlStep, ReleaseTypeOK
  <2> QED
    BY <1>1, <1>5, <2>2 DEF ControlStep, ReleaseTypeOK, Binary
<1>6. ASSUME NEW u \in Updates, UpdateStep(u) PROVE ReleaseTypeOK'
  <2>1. update' \in [Updates -> UpdateRecord]
    BY <1>6, UpdateTypes DEF UpdateStep, BeginUpdate, DownloadAsset, BuildFromSource, BuildEnds, Stage,
           Replace, UpdateStops, UpdateStages
  <2>2. UNCHANGED <<published, runs>>
    BY <1>6 DEF UpdateStep, BeginUpdate, FetchRelease, DownloadAsset, BuildFromSource, BuildEnds, Stage,
           Replace, UpdateStops
  <2>3. update[u].release \in Releases
    BY DEF ReleaseTypeOK
  <2>4. binary' \in Binary /\ staging' \in Binary \cup {NoBinary}
    <3>1. CASE UNCHANGED <<binary, staging>>
      BY <3>1 DEF ReleaseTypeOK, Binary
    <3>2. CASE Stage(u)
      <4>1. [version |-> update[u].release, whole |-> update[u].at = "copying"] \in Binary
        BY <2>3 DEF Binary
      <4> QED
        BY <3>2, <4>1 DEF Stage, ReleaseTypeOK, Binary
    <3>3. CASE Replace(u)
      BY <3>3 DEF Replace, ReleaseTypeOK, Binary
    <3> QED
      BY <1>6, <3>1, <3>2, <3>3
      DEF UpdateStep, BeginUpdate, FetchRelease, DownloadAsset, BuildFromSource, BuildEnds, UpdateStops
  <2> QED
    BY <1>1, <2>1, <2>2, <2>4 DEF ReleaseTypeOK, UpdateRecord, UpdateStages
<1> QED
  BY <1>3, <1>4, <1>5, <1>6 DEF ReleaseNext

-----------------------------------------------------------------------------
(* Updates come between the steps of daemons and commands, and change none *)
(* of what those go by: the composition implements DaemonControl.          *)
THEOREM UpdatesLeaveControl == ReleaseSpec => Spec
<1>1. ReleaseInit => Init
  BY DEF ReleaseInit
<1>2. [ReleaseNext]_<<vars, releaseVars>> => [Next]_vars
  BY DEF ReleaseNext, ControlStep, Publish, UpdateStep, BeginUpdate, FetchRelease, DownloadAsset,
         BuildFromSource, BuildEnds, Stage, Replace, UpdateStops
<1> QED
  BY <1>1, <1>2, PTL DEF ReleaseSpec, Spec

(* Every file, process, command, update and binary has its type, whatever  *)
(* overlaps, crashes or runs out of time.                                  *)
THEOREM ReleaseTypes == ReleaseSpec => []ReleaseTypeOK
<1>1. ReleaseInit => ReleaseTypeOK
  BY InitReleaseInv DEF ReleaseInv
<1> QED
  BY <1>1, ReleaseTypeStep, PTL DEF ReleaseSpec

(* What at most one daemon at a time, and its discovery, rest on.          *)
THEOREM ControlStaysSafe ==
    ASSUME "overlap" \notin Hiccups
    PROVE  Spec => []ControlInv
<1>1. Init => ControlInv
  BY InitTypeOK, InitControlSafe DEF ControlInv
<1> QED
  BY <1>1, NextControlInv, PTL DEF Spec

(* ensure_no_active_daemon does what it says (control.rs:124), whatever    *)
(* crashes: two daemons never serve, unless two have been started at once. *)
THEOREM OneDaemonServes ==
    ASSUME "overlap" \notin Hiccups
    PROVE  ReleaseSpec => []OneDaemon
<1>1. ControlInv => OneDaemon
  BY FindableIsOne DEF ControlInv, ControlSafe
<1> QED
  BY <1>1, ControlStaysSafe, UpdatesLeaveControl, PTL

(* And the one that serves is at both sockets and in the pid file.         *)
THEOREM ServingDaemonsAreFound ==
    ASSUME "overlap" \notin Hiccups
    PROVE  ReleaseSpec => []ServingIsFindable
<1>1. ControlInv => ServingIsFindable
  BY DEF ControlInv, ControlSafe
<1> QED
  BY <1>1, ControlStaysSafe, UpdatesLeaveControl, PTL

(* A stop that removes the pid file, its last step, leaves no daemon, also *)
(* beside other stops: what it has found out while it waited is still true.*)
THEOREM StopsStop ==
    ASSUME "overlap" \notin Hiccups
    PROVE  ReleaseSpec => StopStops
<1>1. ASSUME ControlInv, NEW c \in Commands, command[c].at = "remove pid"
      PROVE  \A d \in Daemons : ~Serving(d)
  BY <1>1 DEF ControlInv, ControlSafe, CommandKnows, NoneServes, Removing
<1>2. ControlInv /\ [Next]_vars =>
        [\A c \in Commands :
            command[c].task = "stop" /\ command[c].at = "remove pid" /\ command'[c].at # "remove pid" =>
                \A d \in Daemons : ~Serving(d)]_vars
  BY <1>1
<1> QED
  BY <1>2, ControlStaysSafe, UpdatesLeaveControl, PTL DEF Spec, StopStops

(* A start that returns leaves nothing serving but what runs the installed *)
(* binary, and that is whole: an update that is stopped halfway, wherever, *)
(* has only ever touched the staging file.                                 *)
THEOREM StartsRunTheUpdate ==
    ASSUME "overlap" \notin Hiccups
    PROVE  ReleaseSpec => StartRunsTheUpdate
<1>1. ReleaseInv =>
        [\A c \in Commands :
            command[c].at = "ready" /\ command'[c].at # "ready" =>
                /\ binary.whole
                /\ \A d \in Daemons : Serving(d) => runs[d] = binary]_<<vars, releaseVars>>
  BY DEF ReleaseInv, ReleaseSafe
<1> QED
  BY <1>1, InitReleaseInv, ReleaseNextInv, PTL DEF ReleaseSpec, StartRunsTheUpdate
=============================================================================
