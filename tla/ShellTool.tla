------------------------------ MODULE ShellTool -----------------------------
(***************************************************************************)
(* The so_shell tool (mcp/tools/shell.rs, shell/runner.rs) over ShellExec  *)
(* and EventLog: a call is refused or run, its output compressed or shown  *)
(* as it is, and every call that was not refused leaves an event, as do    *)
(* the calls of the other tools. The report of so-context metrics reads    *)
(* the rows.                                                               *)
(***************************************************************************)
EXTENDS ShellExec, EventLog, Metrics

CONSTANTS
    Requests,    \* the arguments of a call, see Request
    Plans,       \* what the calls of a behaviour ask for
    PlainText,   \* calls of a client that prefers plain text
    Compressed,  \* sizes of a compressed output
    OtherEvents  \* the events of other tools' calls

(* What parse_argv, parse_full_request and resolve_cwd look at, the number *)
(* of projects the connection watches, and what the command is and does.   *)
Request ==
    [argv : Seq(STRING), strings : BOOLEAN, family : STRING,
     full : BOOLEAN, reason : {"expired", "other", "none"},
     cwd : {"absolute", "relative", "none", "blank"}, roots : Nat, runs : Commands]

(* resolve_cwd: anything but an absolute path needs the one project that   *)
(* the connection watches (infer_connection_project_root).                 *)
ResolvesCwd(r) ==
    \/ r.cwd = "absolute"
    \/ r.cwd \in {"relative", "none"} /\ r.roots = 1

Accepted(r) ==
    /\ r.argv # <<>> /\ r.strings
    /\ r.full => r.reason = "expired"
    /\ ResolvesCwd(r)

ASSUME ShellToolAssumption ==
    /\ Requests \subseteq Request
    /\ Plans \subseteq [Calls -> Requests]
    /\ PlainText \subseteq Calls
    /\ Compressed \subseteq Nat
    /\ \A e \in OtherEvents :
           /\ e.tool \in {"so_read", "so_search", "so_references", "so_status"}
           /\ e.duration \in Nat /\ e.origin \in Nat /\ e.actual \in Nat

VARIABLES
    request,     \* call -> its arguments
    answer       \* call -> what it was answered with

vars == <<execVars, logVars, request, answer>>

NoAnswer == [kind |-> "none", ok |-> FALSE, mode |-> "none", shown |-> 0]

Init ==
    /\ request \in Plans
    /\ command = [c \in Calls |-> request[c].runs]
    /\ full = [c \in Calls |-> request[c].full]
    /\ ExecInit /\ LogInit
    /\ answer = [c \in Calls |-> NoAnswer]

(* An error of the arguments, before anything is run or recorded.          *)
Refuse(c) ==
    /\ At(c, "asked") /\ ~Accepted(request[c])
    /\ pc' = [pc EXCEPT ![c] = "answered"]
    /\ answer' = [answer EXCEPT ![c] = [NoAnswer EXCEPT !.kind = "refused"]]
    /\ UNCHANGED <<command, full, child, heir, written, read, kept, eof, late, timedOut, logVars, request>>

ShellEvent(c, ok, family, origin, shown) ==
    [id |-> c, tool |-> "so_shell", ok |-> ok, mode |-> "none",
     argv |-> request[c].argv, family |-> family,
     duration |-> 1, origin |-> origin, actual |-> shown]

(* build_shell_error_event: no tokens, no family, and not ok.              *)
SpawnError(c) ==
    /\ At(c, "failed")
    /\ pc' = [pc EXCEPT ![c] = "answered"]
    /\ answer' = [answer EXCEPT ![c] = [NoAnswer EXCEPT !.kind = "error"]]
    /\ Enqueue(ShellEvent(c, FALSE, "none", 0, 0))
    /\ UNCHANGED <<command, full, child, heir, written, read, kept, eof, late, timedOut, request>>

(* select_rendered_output: a compression that gains nothing is not shown.  *)
OutputMode(c, compressed) ==
    IF full[c] THEN "full" ELSE IF compressed >= FullOutput(c) THEN "raw_fallback" ELSE "compressed"

(* render_tool_text adds the exit code, and for plain text the hint where  *)
(* the raw output is.                                                      *)
Shown(c, compressed) ==
    LET mode == OutputMode(c, compressed)
    IN (IF mode = "compressed" THEN compressed ELSE FullOutput(c))
       + (IF ExitCode(c) # 0 THEN 1 ELSE 0)
       + (IF c \in PlainText /\ mode = "compressed" THEN 1 ELSE 0)

AnswerCall(c) ==
    /\ Joined(c)
    /\ \E compressed \in Compressed :
           LET ok == ExitCode(c) = 0
               shown == Shown(c, compressed)
           IN /\ answer' = [answer EXCEPT ![c] = [kind |-> "output", ok |-> ok,
                                                  mode |-> OutputMode(c, compressed), shown |-> shown]]
              /\ Enqueue(ShellEvent(c, ok, request[c].family, FullOutput(c), shown))
    /\ pc' = [pc EXCEPT ![c] = "answered"]
    /\ UNCHANGED <<command, full, child, heir, written, read, kept, eof, late, timedOut, request>>

(* A call of so_read, so_search, so_references or so_status.               *)
OtherCall(event) ==
    /\ event \notin ToSet(sent)
    /\ Enqueue(event)
    /\ UNCHANGED <<execVars, request, answer>>

Crash ==
    /\ "crash" \in Faults
    /\ AbandonCalls /\ LoseMemory
    /\ UNCHANGED <<request, answer>>

Run(c) ==
    /\ At(c, "asked") => Accepted(request[c])
    /\ ExecStep(c)
    /\ UNCHANGED <<logVars, request, answer>>

(* What the runtime does of a call, and what its command does.             *)
CallStep(c) == Run(c) \/ Refuse(c) \/ SpawnError(c) \/ AnswerCall(c)
ProcessStep(c) == ChildStep(c) /\ UNCHANGED <<logVars, request, answer>>

Outside(c) == (Expire(c) \/ HeirEnds(c)) /\ UNCHANGED <<logVars, request, answer>>
LogNext == WriterNext /\ UNCHANGED <<execVars, request, answer>>

Next ==
    \/ \E c \in Calls : CallStep(c) \/ ProcessStep(c) \/ Outside(c)
    \/ LogNext
    \/ \E event \in OtherEvents : OtherCall(event)
    \/ Crash

(* The runtime runs its handlers and threads, commands that end do end,    *)
(* and the clock moves. Nothing is assumed of a descendant.                *)
Fairness ==
    /\ \A c \in Calls :
           /\ WF_vars(CallStep(c))
           /\ WF_vars(ProcessStep(c))
           /\ WF_vars(Expire(c) /\ UNCHANGED <<logVars, request, answer>>)
    /\ WF_vars(WriterStep /\ UNCHANGED <<execVars, request, answer>>)

Spec == Init /\ [][Next]_vars /\ Fairness

-----------------------------------------------------------------------------
(* The events that calls of so_shell may send.                             *)
ShellEvents ==
    [id : Calls, tool : {"so_shell"}, ok : BOOLEAN, mode : {"none"},
     argv : {r.argv : r \in Requests}, family : {"none"} \cup {r.family : r \in Requests},
     duration : {1}, origin : Nat, actual : Nat]

TypeOK ==
    /\ ExecTypeOK /\ LogTypeOK(OtherEvents \cup ShellEvents)
    /\ request \in [Calls -> Requests]
    /\ answer \in [Calls -> [kind : {"none", "refused", "error", "output"}, ok : BOOLEAN,
                             mode : {"none", "full", "raw_fallback", "compressed"}, shown : Nat]]

(* A timeout bounds every call (exec.rs:91): whatever a command writes,    *)
(* and if it never ends, its call is answered, also while the calls of     *)
(* commands whose descendants hold their pipes hang; the event log, slow,  *)
(* failed or dead, has no part in it ("tool responses never block on       *)
(* SQLite", events.rs:7).                                                  *)
CallsAreAnswered ==
    \A c \in Calls : ~request[c].runs.lingers ~> pc[c] \in {"answered", "lost"}

RowOf(c) == {r \in ToSet(rows) : r.id = c}

(* The row says of its call what its agent was told.                       *)
TellsTheAnswer(row, c) ==
    /\ row.ok = answer[c].ok
    /\ answer[c].kind = "output" =>
           /\ row.actual = answer[c].shown /\ row.origin = FullOutput(c)
           /\ row.ok => command[c].exit = 0 /\ ~timedOut[c]

(* "Stores one row per tool call" (events.rs:3): while nothing has failed, *)
(* a call that was run gets its row, and one that tells what it answered.  *)
CallsAreRecorded ==
    \A c \in Calls :
        answer[c].kind \in {"error", "output"} ~>
            (\E row \in RowOf(c) : TellsTheAnswer(row, c)) \/ faulty

(* Of whatever rows are there, the tables of one report agree, and what is *)
(* rendered as a percentage is one.                                        *)
ReportAddsUp == AddsUp(rows) /\ RatiosInRange(rows)
=============================================================================
