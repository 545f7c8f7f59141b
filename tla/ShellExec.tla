----------------------------- MODULE ShellExec ------------------------------
(***************************************************************************)
(* Running a command for a so_shell call (execute_with_limits in           *)
(* shell/exec.rs): the child, a reader thread for each of its two streams, *)
(* the loop that polls the child and kills it after the timeout, and the   *)
(* join. The handler is synchronous, so that a call keeps a worker thread  *)
(* of the runtime from its start to its answer. Bytes are counted in       *)
(* chunks.                                                                 *)
(***************************************************************************)
EXTENDS Naturals, FiniteSets

CONSTANTS
    Calls,
    Commands,    \* what a command does, see Command
    Workers,     \* worker threads of the runtime
    PipeSize,    \* chunks a pipe holds
    Limit,       \* MAX_STDOUT_BYTES = MAX_STDERR_BYTES
    FullLimit    \* MAX_FULL_STDOUT_BYTES = MAX_FULL_STDERR_BYTES

Streams == {"stdout", "stderr"}

(* How much a command writes, whether it ends by itself and with which     *)
(* code, whether it can be spawned at all, and whether it leaves a         *)
(* descendant behind that holds its streams.                               *)
Command ==
    [stdout : Nat, stderr : Nat, found : BOOLEAN, ends : BOOLEAN, exit : Nat, lingers : BOOLEAN]

ASSUME ShellExecAssumption ==
    /\ Commands \subseteq Command
    /\ Workers \in Nat \ {0} /\ PipeSize \in Nat \ {0}
    /\ Limit \in Nat /\ FullLimit \in Nat /\ Limit <= FullLimit

VARIABLES
    command,     \* call -> what it runs
    full,        \* call -> full output was requested
    pc,          \* call -> where its handler is
    child,       \* call -> "none", "alive", "exited" or "reaped"
    heir,        \* call -> a descendant of its child holds the pipes
    written,     \* call -> stream -> chunks written into the pipe
    read,        \* call -> stream -> chunks read out of it (total)
    kept,        \* call -> stream -> chunks captured
    eof,         \* call -> streams whose reader has come to the end
    late,        \* call -> started.elapsed() >= timeout
    timedOut     \* call -> timed_out

execVars == <<command, full, pc, child, heir, written, read, kept, eof, late, timedOut>>

None == [s \in Streams |-> 0]

ExecInit ==
    /\ command \in [Calls -> Commands]
    /\ full \in [Calls -> BOOLEAN]
    /\ pc = [c \in Calls |-> "asked"]
    /\ child = [c \in Calls |-> "none"]
    /\ heir = [c \in Calls |-> FALSE]
    /\ written = [c \in Calls |-> None]
    /\ read = [c \in Calls |-> None]
    /\ kept = [c \in Calls |-> None]
    /\ eof = [c \in Calls |-> {}]
    /\ late = [c \in Calls |-> FALSE]
    /\ timedOut = [c \in Calls |-> FALSE]

At(c, place) == pc[c] = place
Busy == {c \in Calls : pc[c] \in {"running", "killing", "joining", "failed"}}
KeptLimit(c) == IF full[c] THEN FullLimit ELSE Limit
Pending(c, s) == written[c][s] - read[c][s]

(* A worker thread takes the call and spawns the child, or cannot.         *)
Spawn(c) ==
    /\ At(c, "asked")
    /\ Cardinality(Busy) < Workers
    /\ IF command[c].found
       THEN /\ pc' = [pc EXCEPT ![c] = "running"]
            /\ child' = [child EXCEPT ![c] = "alive"]
            /\ heir' = [heir EXCEPT ![c] = command[c].lingers]
       ELSE /\ pc' = [pc EXCEPT ![c] = "failed"]
            /\ UNCHANGED <<child, heir>>
    /\ UNCHANGED <<command, full, written, read, kept, eof, late, timedOut>>

(* The child, which a full pipe stops, and what it leaves behind.          *)
ChildWrites(c, s) ==
    /\ child[c] = "alive"
    /\ written[c][s] < command[c][s]
    /\ Pending(c, s) < PipeSize
    /\ written' = [written EXCEPT ![c][s] = written[c][s] + 1]
    /\ UNCHANGED <<command, full, pc, child, heir, read, kept, eof, late, timedOut>>

ChildExits(c) ==
    /\ child[c] = "alive" /\ command[c].ends
    /\ \A s \in Streams : written[c][s] = command[c][s]
    /\ child' = [child EXCEPT ![c] = "exited"]
    /\ UNCHANGED <<command, full, pc, heir, written, read, kept, eof, late, timedOut>>

HeirEnds(c) ==
    /\ heir[c]
    /\ heir' = [heir EXCEPT ![c] = FALSE]
    /\ UNCHANGED <<command, full, pc, child, written, read, kept, eof, late, timedOut>>

(* capture_stream reads to the end of the stream, and keeps what fits.     *)
Capture(c, s, n) ==
    LET room == KeptLimit(c) - kept[c][s]
    IN /\ read' = [read EXCEPT ![c][s] = read[c][s] + n]
       /\ kept' = [kept EXCEPT ![c][s] = kept[c][s] + (IF n < room THEN n ELSE room)]
       /\ UNCHANGED <<command, full, pc, child, heir, written, eof, late, timedOut>>

(* Mistake: the reader stops when it has as much as it keeps.              *)
ReadStreamToLimit(c, s) ==
    /\ s \notin eof[c]
    /\ kept[c][s] < KeptLimit(c)
    /\ \E n \in 1 .. Pending(c, s) : Capture(c, s, n)

ReadStream(c, s) ==
    /\ s \notin eof[c]
    /\ \E n \in 1 .. Pending(c, s) : Capture(c, s, n)

(* Mistake: the reader ends when the child does.                           *)
ReadEofEarly(c, s) ==
    /\ s \notin eof[c]
    /\ child[c] \in {"exited", "reaped"} /\ ~heir[c]
    /\ eof' = [eof EXCEPT ![c] = @ \cup {s}]
    /\ UNCHANGED <<command, full, pc, child, heir, written, read, kept, late, timedOut>>

(* A read of 0 bytes: nothing is left and nobody holds the other end.      *)
ReadEof(c, s) ==
    /\ s \notin eof[c]
    /\ Pending(c, s) = 0
    /\ child[c] \in {"exited", "reaped"} /\ ~heir[c]
    /\ eof' = [eof EXCEPT ![c] = @ \cup {s}]
    /\ UNCHANGED <<command, full, pc, child, heir, written, read, kept, late, timedOut>>

(* The clock passes the timeout while the poll loop is still waiting.      *)
Expire(c) ==
    /\ At(c, "running") /\ ~late[c]
    /\ late' = [late EXCEPT ![c] = TRUE]
    /\ UNCHANGED <<command, full, pc, child, heir, written, read, kept, eof, timedOut>>

(* try_wait: the child has ended, or it has not and the time is over.      *)
SeeExit(c) ==
    /\ At(c, "running") /\ child[c] = "exited"
    /\ child' = [child EXCEPT ![c] = "reaped"]
    /\ pc' = [pc EXCEPT ![c] = "joining"]
    /\ UNCHANGED <<command, full, heir, written, read, kept, eof, late, timedOut>>

SeeTimeout(c) ==
    /\ At(c, "running") /\ child[c] = "alive" /\ late[c]
    /\ pc' = [pc EXCEPT ![c] = "killing"]
    /\ UNCHANGED <<command, full, child, heir, written, read, kept, eof, late, timedOut>>

(* kill, and wait: by now the child may have ended by itself.              *)
Kill(c) ==
    /\ At(c, "killing")
    /\ child' = [child EXCEPT ![c] = "reaped"]
    /\ pc' = [pc EXCEPT ![c] = "joining"]
    /\ timedOut' = [timedOut EXCEPT ![c] = TRUE]
    /\ UNCHANGED <<command, full, heir, written, read, kept, eof, late>>

(* Both readers have been joined.                                          *)
Joined(c) == At(c, "joining") /\ eof[c] = Streams

(* The daemon is killed: its handlers and their locals are gone; what the  *)
(* children do without them is left out.                                   *)
AbandonCalls ==
    LET Forget(state, initial) == [c \in Calls |-> IF c \in Busy THEN initial ELSE state[c]]
    IN /\ pc' = Forget(pc, "lost")
       /\ child' = Forget(child, "none") /\ heir' = Forget(heir, FALSE)
       /\ written' = Forget(written, None) /\ read' = Forget(read, None)
       /\ kept' = Forget(kept, None) /\ eof' = Forget(eof, {})
       /\ late' = Forget(late, FALSE) /\ timedOut' = Forget(timedOut, FALSE)
       /\ UNCHANGED <<command, full>>

ExecStep(c) ==
    \/ Spawn(c) \/ SeeExit(c) \/ SeeTimeout(c) \/ Kill(c)
    \/ \E s \in Streams : ReadStream(c, s) \/ ReadEof(c, s)

ChildStep(c) == ChildExits(c) \/ \E s \in Streams : ChildWrites(c, s)

-----------------------------------------------------------------------------
(* The result of a call, once it is joined.                                *)
Truncated(c, s) == read[c][s] > kept[c][s]
RawOutputComplete(c) == ~timedOut[c] /\ \A s \in Streams : ~Truncated(c, s)
ExitCode(c) == IF timedOut[c] THEN 124 ELSE command[c].exit
Notes(c) ==
    Cardinality({s \in Streams : Truncated(c, s)}) + (IF timedOut[c] THEN 1 ELSE 0)
FullOutput(c) == kept[c]["stdout"] + kept[c]["stderr"] + Notes(c)

ExecTypeOK ==
    /\ command \in [Calls -> Commands] /\ full \in [Calls -> BOOLEAN]
    /\ pc \in [Calls -> {"asked", "running", "killing", "joining", "failed", "answered", "lost"}]
    /\ child \in [Calls -> {"none", "alive", "exited", "reaped"}]
    /\ heir \in [Calls -> BOOLEAN]
    /\ written \in [Calls -> [Streams -> Nat]]
    /\ read \in [Calls -> [Streams -> Nat]]
    /\ kept \in [Calls -> [Streams -> 0 .. FullLimit]]
    /\ eof \in [Calls -> SUBSET Streams]
    /\ late \in [Calls -> BOOLEAN] /\ timedOut \in [Calls -> BOOLEAN]

(* raw_output_complete tells an agent that it has seen everything          *)
(* (types.rs:58): everything the command writes was captured, and what is  *)
(* kept of a stream is always a beginning of it, within the limit.         *)
CompleteIsAll ==
    \A c \in Calls : At(c, "answered") /\ child[c] # "none" =>
        \A s \in Streams :
            /\ RawOutputComplete(c) => kept[c][s] = command[c][s]
            /\ kept[c][s] = IF read[c][s] < KeptLimit(c) THEN read[c][s] ELSE KeptLimit(c)
=============================================================================
