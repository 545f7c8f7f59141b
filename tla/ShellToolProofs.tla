-------------------------- MODULE ShellToolProofs --------------------------
(***************************************************************************)
(* What an agent may conclude from a so_shell answer, for any number of    *)
(* calls and workers, any commands, pipes and limits, and whatever the     *)
(* event log and other tools' calls do meanwhile: what is said to be       *)
(* complete is all that the command wrote. And what becomes of the events  *)
(* that calls send, for any batch size and any faults: none is lost in     *)
(* transit, and the tables of a report over whatever is left of them add   *)
(* up.                                                                     *)
(***************************************************************************)
EXTENDS ShellTool, SelectionProofs

(* A stream: it is read as far as it was written, and kept as far as it    *)
(* was read and the limit goes.                                            *)
StreamShape(c, s) ==
    /\ written[c][s] <= command[c][s]
    /\ read[c][s] <= written[c][s]
    /\ kept[c][s] = IF read[c][s] < KeptLimit(c) THEN read[c][s] ELSE KeptLimit(c)
    /\ s \in eof[c] => read[c][s] = written[c][s] /\ child[c] \in {"exited", "reaped"}
    /\ child[c] = "exited" \/ (child[c] = "reaped" /\ ~timedOut[c]) => written[c][s] = command[c][s]

(* A child, by where its handler is; only an answered call is over.        *)
ChildShape(c) ==
    /\ pc[c] \in {"asked", "failed", "lost"} => child[c] = "none"
    /\ pc[c] \in {"running", "killing"} => child[c] \in {"alive", "exited"}
    /\ pc[c] \in {"asked", "running", "killing"} => ~timedOut[c]
    /\ pc[c] = "joining" => child[c] = "reaped"
    /\ pc[c] = "answered" /\ child[c] # "none" => child[c] = "reaped" /\ eof[c] = Streams

(* Every call, its child and its two streams.                              *)
ExecShape == \A c \in Calls : ChildShape(c) /\ \A s \in Streams : StreamShape(c, s)

ExecInv == ExecTypeOK /\ ExecShape

(* What a command writes is a number of chunks.                            *)
LEMMA CommandTypes ==
    ASSUME ExecTypeOK, NEW c \in Calls, NEW s \in Streams
    PROVE  command[c][s] \in Nat
<1>1. command[c] \in Command
  BY ShellExecAssumption DEF ExecTypeOK
<1> QED
  BY <1>1 DEF Command, Streams

(* Nothing has run.                                                        *)
LEMMA InitExecInv == Init => ExecInv
<1> SUFFICES ASSUME Init PROVE ExecInv
  OBVIOUS
<1>1. ExecTypeOK
  BY ShellExecAssumption DEF Init, ExecInit, ExecTypeOK, None
<1>2. ASSUME NEW c \in Calls, NEW s \in Streams PROVE StreamShape(c, s)
  <2>1. command[c][s] \in Nat
    BY <1>1, CommandTypes
  <2> QED
    BY <2>1, ShellExecAssumption DEF Init, ExecInit, StreamShape, KeptLimit, None
<1>3. \A c \in Calls : ChildShape(c)
  BY DEF Init, ExecInit, ChildShape
<1> QED
  BY <1>1, <1>2, <1>3 DEF ExecInv, ExecShape

(* The state of one call changes, that of the others does not.             *)
Keeps(d) ==
    /\ command'[d] = command[d] /\ full'[d] = full[d] /\ pc'[d] = pc[d] /\ child'[d] = child[d]
    /\ written'[d] = written[d] /\ read'[d] = read[d] /\ kept'[d] = kept[d] /\ eof'[d] = eof[d]
    /\ timedOut'[d] = timedOut[d]

(* A call that nothing happens to keeps its shape,                         *)
LEMMA KeepsShape ==
    ASSUME ExecInv, NEW d \in Calls, Keeps(d)
    PROVE  ChildShape(d)' /\ \A s \in Streams : StreamShape(d, s)'
BY DEF ExecInv, ExecShape, Keeps, ChildShape, StreamShape, KeptLimit

(* so that a step of one call needs a look at that call alone.             *)
LEMMA OneCall ==
    ASSUME ExecInv, ExecTypeOK', NEW c \in Calls, \A d \in Calls \ {c} : Keeps(d),
           ChildShape(c)', \A s \in Streams : StreamShape(c, s)'
    PROVE  ExecInv'
BY KeepsShape DEF ExecInv, ExecShape

(* A handler moves on and its child with it; no byte moves.                *)
LEMMA HandlerMoves ==
    ASSUME ExecInv, NEW c \in Calls,
           Spawn(c) \/ SeeExit(c) \/ SeeTimeout(c) \/ Kill(c) \/ ChildExits(c) \/ Expire(c) \/ HeirEnds(c)
    PROVE  ExecInv'
<1>1. UNCHANGED <<command, full, written, read, kept, eof>>
  BY DEF Spawn, SeeExit, SeeTimeout, Kill, ChildExits, Expire, HeirEnds
<1>2. ExecTypeOK'
  <2>1. command[c] \in Command
    BY ShellExecAssumption DEF ExecInv, ExecTypeOK
  <2>2. command[c].lingers \in BOOLEAN
    BY <2>1 DEF Command
  <2> QED
    BY <1>1, <2>2 DEF ExecInv, ExecTypeOK, Spawn, SeeExit, SeeTimeout, Kill, ChildExits, Expire, HeirEnds
<1>3. \A d \in Calls \ {c} : Keeps(d)
  BY <1>1 DEF Keeps, ExecInv, ExecTypeOK, Spawn, SeeExit, SeeTimeout, Kill, ChildExits, Expire, HeirEnds
<1>4. ChildShape(c) /\ \A s \in Streams : StreamShape(c, s)
  BY DEF ExecInv, ExecShape
<1>5. \/ pc[c] = "asked" /\ pc'[c] = "running" /\ child'[c] = "alive" /\ timedOut'[c] = timedOut[c]
      \/ pc[c] = "asked" /\ pc'[c] = "failed" /\ child'[c] = child[c] /\ timedOut'[c] = timedOut[c]
      \/ /\ pc[c] = "running" /\ child[c] = "exited" /\ pc'[c] = "joining" /\ child'[c] = "reaped"
         /\ timedOut'[c] = timedOut[c]
      \/ pc[c] = "running" /\ pc'[c] = "killing" /\ child'[c] = child[c] /\ timedOut'[c] = timedOut[c]
      \/ pc[c] = "killing" /\ pc'[c] = "joining" /\ child'[c] = "reaped" /\ timedOut'[c]
      \/ /\ child[c] = "alive" /\ child'[c] = "exited" /\ \A s \in Streams : written[c][s] = command[c][s]
         /\ pc'[c] = pc[c] /\ timedOut'[c] = timedOut[c]
      \/ pc'[c] = pc[c] /\ child'[c] = child[c] /\ timedOut'[c] = timedOut[c]
  <2> USE DEF ExecInv, ExecTypeOK
  <2>1. CASE Spawn(c)
    BY <2>1 DEF Spawn, At
  <2>2. CASE SeeExit(c)
    BY <2>2 DEF SeeExit, At
  <2>3. CASE SeeTimeout(c)
    BY <2>3 DEF SeeTimeout, At
  <2>4. CASE Kill(c)
    BY <2>4 DEF Kill, At
  <2>5. CASE ChildExits(c)
    BY <2>5 DEF ChildExits
  <2>6. CASE Expire(c) \/ HeirEnds(c)
    BY <2>6 DEF Expire, HeirEnds
  <2> QED
    BY <2>1, <2>2, <2>3, <2>4, <2>5, <2>6
<1>6. ChildShape(c)'
  BY <1>1, <1>4, <1>5 DEF ChildShape
<1>7. ASSUME NEW s \in Streams PROVE StreamShape(c, s)'
  <2>1. StreamShape(c, s) /\ KeptLimit(c)' = KeptLimit(c)
    BY <1>1, <1>4 DEF KeptLimit
  <2> QED
    BY <1>1, <1>4, <1>5, <2>1 DEF ChildShape, StreamShape
<1> QED
  BY <1>2, <1>3, <1>6, <1>7, OneCall

(* Counts are numbers.                                                     *)
LEMMA CountTypes ==
    ASSUME ExecInv, NEW c \in Calls, NEW s \in Streams
    PROVE  /\ written[c] \in [Streams -> Nat] /\ read[c] \in [Streams -> Nat]
           /\ kept[c] \in [Streams -> 0 .. FullLimit]
           /\ written[c][s] \in Nat /\ read[c][s] \in Nat /\ kept[c][s] \in Nat
           /\ command[c][s] \in Nat
           /\ KeptLimit(c) \in Nat /\ KeptLimit(c) <= FullLimit /\ FullLimit \in Nat
<1>1. written[c] \in [Streams -> Nat] /\ read[c] \in [Streams -> Nat] /\ kept[c] \in [Streams -> 0 .. FullLimit]
  BY DEF ExecInv, ExecTypeOK
<1>2. KeptLimit(c) \in Nat /\ KeptLimit(c) <= FullLimit /\ FullLimit \in Nat
  BY ShellExecAssumption DEF KeptLimit
<1> QED
  BY <1>1, <1>2, CommandTypes DEF ExecInv

(* The child writes while there is room in the pipe.                       *)
LEMMA WriteShape ==
    ASSUME ExecInv, NEW c \in Calls, NEW t \in Streams, ChildWrites(c, t)
    PROVE  ExecInv'
<1>1. /\ child[c] = "alive" /\ written[c][t] < command[c][t]
      /\ written' = [written EXCEPT ![c][t] = written[c][t] + 1]
      /\ UNCHANGED <<command, full, pc, child, heir, read, kept, eof, late, timedOut>>
  BY DEF ChildWrites
<1>2. written[c] \in [Streams -> Nat] /\ written[c][t] \in Nat /\ written \in [Calls -> [Streams -> Nat]]
  BY CountTypes DEF ExecInv, ExecTypeOK
<1> DEFINE new == [written[c] EXCEPT ![t] = written[c][t] + 1]
<1>3. new \in [Streams -> Nat] /\ written' = [written EXCEPT ![c] = new]
  BY <1>1, <1>2
<1>4. ExecTypeOK'
  BY <1>1, <1>2, <1>3 DEF ExecInv, ExecTypeOK
<1>5. \A d \in Calls \ {c} : Keeps(d)
  BY <1>1, <1>2, <1>3 DEF Keeps
<1>6. ChildShape(c)'
  BY <1>1 DEF ExecInv, ExecShape, ChildShape
<1>7. ASSUME NEW s \in Streams PROVE StreamShape(c, s)'
  <2>1. StreamShape(c, s) /\ KeptLimit(c)' = KeptLimit(c)
    BY <1>1 DEF ExecInv, ExecShape, KeptLimit
  <2>2. written'[c][s] = IF s = t THEN written[c][s] + 1 ELSE written[c][s]
    BY <1>2, <1>3
  <2>3. written[c][s] \in Nat /\ command[c][s] \in Nat /\ read[c][s] \in Nat
    BY CountTypes
  <2> QED
    BY <1>1, <2>1, <2>2, <2>3 DEF StreamShape
<1> QED
  BY <1>4, <1>5, <1>6, <1>7, OneCall

(* A reader takes what is in the pipe, and keeps what fits.                *)
LEMMA ReadShape ==
    ASSUME ExecInv, NEW c \in Calls, NEW t \in Streams, ReadStream(c, t)
    PROVE  ExecInv'
<1> DEFINE room == KeptLimit(c) - kept[c][t]
<1>1. PICK n \in 1 .. Pending(c, t) : Capture(c, t, n)
  BY DEF ReadStream
<1> DEFINE more == IF n < room THEN n ELSE room
<1>2. /\ read' = [read EXCEPT ![c][t] = read[c][t] + n]
      /\ kept' = [kept EXCEPT ![c][t] = kept[c][t] + more]
      /\ UNCHANGED <<command, full, pc, child, heir, written, eof, late, timedOut>>
  BY <1>1 DEF Capture
<1>3. /\ read[c] \in [Streams -> Nat] /\ kept[c] \in [Streams -> 0 .. FullLimit]
      /\ read[c][t] \in Nat /\ kept[c][t] \in Nat /\ written[c][t] \in Nat
      /\ KeptLimit(c) \in Nat /\ KeptLimit(c) <= FullLimit /\ FullLimit \in Nat
      /\ read \in [Calls -> [Streams -> Nat]] /\ kept \in [Calls -> [Streams -> 0 .. FullLimit]]
  BY CountTypes DEF ExecInv, ExecTypeOK
<1>4. StreamShape(c, t) /\ t \notin eof[c]
  BY DEF ExecInv, ExecShape, ReadStream
<1>5. n \in Nat /\ n >= 1 /\ read[c][t] + n <= written[c][t]
  BY <1>3 DEF Pending
<1>6. /\ kept[c][t] + more \in 0 .. FullLimit
      /\ kept[c][t] + more = IF read[c][t] + n < KeptLimit(c) THEN read[c][t] + n ELSE KeptLimit(c)
  BY <1>3, <1>4, <1>5 DEF StreamShape
<1> DEFINE newRead == [read[c] EXCEPT ![t] = read[c][t] + n]
           newKept == [kept[c] EXCEPT ![t] = kept[c][t] + more]
<1>7. /\ newRead \in [Streams -> Nat] /\ read' = [read EXCEPT ![c] = newRead]
  BY <1>2, <1>3, <1>5
<1>8. newKept \in [Streams -> 0 .. FullLimit] /\ kept' = [kept EXCEPT ![c] = newKept]
  BY <1>2, <1>3, <1>6
<1>9. ExecTypeOK'
  BY <1>2, <1>3, <1>7, <1>8 DEF ExecInv, ExecTypeOK
<1>10. \A d \in Calls \ {c} : Keeps(d)
  BY <1>2, <1>3, <1>7, <1>8 DEF Keeps
<1>11. ChildShape(c)'
  BY <1>2 DEF ExecInv, ExecShape, ChildShape
<1>12. ASSUME NEW s \in Streams PROVE StreamShape(c, s)'
  <2>1. StreamShape(c, s) /\ KeptLimit(c)' = KeptLimit(c)
    BY <1>2 DEF ExecInv, ExecShape, KeptLimit
  <2>2. /\ read'[c][s] = IF s = t THEN read[c][s] + n ELSE read[c][s]
        /\ kept'[c][s] = IF s = t THEN kept[c][s] + more ELSE kept[c][s]
    BY <1>3, <1>7, <1>8
  <2> HIDE DEF more
  <2>3. CASE s = t
    BY <1>2, <1>4, <1>5, <1>6, <2>1, <2>2, <2>3 DEF StreamShape
  <2>4. CASE s # t
    BY <1>2, <2>1, <2>2, <2>4 DEF StreamShape
  <2> QED
    BY <2>3, <2>4
<1> QED
  BY <1>9, <1>10, <1>11, <1>12, OneCall

(* A reader comes to the end only when all that was written is read.       *)
LEMMA EofShape ==
    ASSUME ExecInv, NEW c \in Calls, NEW t \in Streams, ReadEof(c, t)
    PROVE  ExecInv'
<1>1. /\ child[c] \in {"exited", "reaped"} /\ Pending(c, t) = 0
      /\ eof' = [eof EXCEPT ![c] = eof[c] \cup {t}]
      /\ UNCHANGED <<command, full, pc, child, heir, written, read, kept, late, timedOut>>
  BY DEF ReadEof
<1>2. eof[c] \subseteq Streams
  BY DEF ExecInv, ExecTypeOK
<1>3. ExecTypeOK'
  BY <1>1, <1>2 DEF ExecInv, ExecTypeOK
<1>4. \A d \in Calls \ {c} : Keeps(d)
  BY <1>1 DEF Keeps, ExecInv, ExecTypeOK
<1>5. eof'[c] = eof[c] \cup {t}
  BY <1>1 DEF ExecInv, ExecTypeOK
<1>6. ChildShape(c)'
  BY <1>1, <1>2, <1>5 DEF ExecInv, ExecShape, ChildShape
<1>7. ASSUME NEW s \in Streams PROVE StreamShape(c, s)'
  <2>1. StreamShape(c, s) /\ KeptLimit(c)' = KeptLimit(c)
    BY <1>1 DEF ExecInv, ExecShape, KeptLimit
  <2>2. s = t => read[c][s] = written[c][s]
    BY <1>1, CountTypes DEF Pending
  <2> QED
    BY <1>1, <1>5, <2>1, <2>2 DEF StreamShape
<1> QED
  BY <1>3, <1>4, <1>6, <1>7, OneCall

(* A call is answered: refused, not spawned, or joined with its readers.   *)
LEMMA AnswerShape ==
    ASSUME ExecInv, NEW c \in Calls, Refuse(c) \/ SpawnError(c) \/ AnswerCall(c)
    PROVE  ExecInv'
<1>1. /\ pc' = [pc EXCEPT ![c] = "answered"]
      /\ UNCHANGED <<command, full, child, heir, written, read, kept, eof, late, timedOut>>
  BY DEF Refuse, SpawnError, AnswerCall
<1>2. pc[c] \in {"asked", "failed"} \/ (pc[c] = "joining" /\ eof[c] = Streams)
  BY DEF Refuse, SpawnError, AnswerCall, Joined, At
<1>3. ExecTypeOK'
  BY <1>1 DEF ExecInv, ExecTypeOK
<1>4. \A d \in Calls \ {c} : Keeps(d)
  BY <1>1 DEF Keeps, ExecInv, ExecTypeOK
<1>5. ChildShape(c)'
  BY <1>1, <1>2 DEF ExecInv, ExecTypeOK, ExecShape, ChildShape
<1>6. \A s \in Streams : StreamShape(c, s)'
  BY <1>1 DEF ExecInv, ExecShape, StreamShape, KeptLimit
<1> QED
  BY <1>3, <1>4, <1>5, <1>6, OneCall

(* A daemon that is killed has no calls left.                              *)
LEMMA AbandonShape ==
    ASSUME ExecInv, AbandonCalls
    PROVE  ExecInv'
<1>1. /\ pc' = [c \in Calls |-> IF c \in Busy THEN "lost" ELSE pc[c]]
      /\ child' = [c \in Calls |-> IF c \in Busy THEN "none" ELSE child[c]]
      /\ heir' = [c \in Calls |-> IF c \in Busy THEN FALSE ELSE heir[c]]
      /\ written' = [c \in Calls |-> IF c \in Busy THEN None ELSE written[c]]
      /\ read' = [c \in Calls |-> IF c \in Busy THEN None ELSE read[c]]
      /\ kept' = [c \in Calls |-> IF c \in Busy THEN None ELSE kept[c]]
      /\ eof' = [c \in Calls |-> IF c \in Busy THEN {} ELSE eof[c]]
      /\ late' = [c \in Calls |-> IF c \in Busy THEN FALSE ELSE late[c]]
      /\ timedOut' = [c \in Calls |-> IF c \in Busy THEN FALSE ELSE timedOut[c]]
      /\ UNCHANGED <<command, full>>
  BY DEF AbandonCalls
<1>2. None \in [Streams -> Nat] /\ None \in [Streams -> 0 .. FullLimit] /\ \A s \in Streams : None[s] = 0
  BY ShellExecAssumption DEF None
<1> HIDE DEF None
<1>3. ExecTypeOK'
  BY <1>1, <1>2 DEF ExecInv, ExecTypeOK
<1>4. ASSUME NEW c \in Calls PROVE ChildShape(c)' /\ \A s \in Streams : StreamShape(c, s)'
  <2>1. CASE c \notin Busy
    <3>1. Keeps(c)
      BY <1>1, <2>1 DEF Keeps
    <3> QED
      BY <3>1, KeepsShape
  <2>2. CASE c \in Busy
    <3>1. ChildShape(c)'
      BY <1>1, <2>2 DEF ChildShape
    <3>2. ASSUME NEW s \in Streams PROVE StreamShape(c, s)'
      <4>1. command[c][s] \in Nat /\ KeptLimit(c) \in Nat /\ KeptLimit(c)' = KeptLimit(c)
        BY <1>1, CountTypes DEF KeptLimit
      <4> QED
        BY <1>1, <1>2, <2>2, <4>1 DEF StreamShape
    <3> QED
      BY <3>1, <3>2
  <2> QED
    BY <2>1, <2>2
<1> QED
  BY <1>3, <1>4 DEF ExecInv, ExecShape

(* Every step keeps the shape of every call.                               *)
LEMMA NextExecInv == ExecInv /\ [Next]_vars => ExecInv'
<1> SUFFICES ASSUME ExecInv, [Next]_vars PROVE ExecInv'
  OBVIOUS
<1>1. CASE UNCHANGED execVars
  <2>1. \A c \in Calls : Keeps(c)
    BY <1>1 DEF execVars, Keeps
  <2>2. ExecTypeOK'
    BY <1>1 DEF execVars, ExecInv, ExecTypeOK
  <2> QED
    BY <2>1, <2>2, KeepsShape DEF ExecInv, ExecShape
<1>2. ASSUME NEW c \in Calls, CallStep(c) \/ ProcessStep(c) \/ Outside(c) PROVE ExecInv'
  BY <1>2, HandlerMoves, WriteShape, ReadShape, EofShape, AnswerShape
     DEF CallStep, ProcessStep, Outside, Run, ExecStep, ChildStep
<1>3. CASE LogNext \/ (\E event \in OtherEvents : OtherCall(event)) \/ UNCHANGED vars
  BY <1>1, <1>3 DEF LogNext, OtherCall, vars
<1>4. CASE Crash
  BY <1>4, AbandonShape DEF Crash
<1> QED
  BY <1>2, <1>3, <1>4 DEF Next

(* What is written, read and kept of a stream, and where a handler and its *)
(* child are, fit together (execute_with_limits, capture_stream).          *)
THEOREM ExecutionKeepsShape == Spec => []ExecInv
BY InitExecInv, NextExecInv, PTL DEF Spec

(* raw_output_complete is said only of all that the command wrote: it was  *)
(* not killed before it had written it, and both readers came to the end   *)
(* of their streams within the limit.                                      *)
THEOREM CompleteMeansAll == Spec => []CompleteIsAll
<1>1. ExecInv => CompleteIsAll
  <2> SUFFICES ASSUME ExecInv, NEW c \in Calls, At(c, "answered"), child[c] # "none", NEW s \in Streams
               PROVE  /\ RawOutputComplete(c) => kept[c][s] = command[c][s]
                      /\ kept[c][s] = IF read[c][s] < KeptLimit(c) THEN read[c][s] ELSE KeptLimit(c)
    BY DEF CompleteIsAll
  <2>1. ChildShape(c) /\ StreamShape(c, s)
    BY DEF ExecInv, ExecShape
  <2>2. child[c] = "reaped" /\ s \in eof[c]
    BY <2>1 DEF ChildShape, At
  <2>3. read[c][s] \in Nat /\ kept[c][s] \in Nat /\ KeptLimit(c) \in Nat
    BY CountTypes
  <2>4. RawOutputComplete(c) => ~timedOut[c] /\ ~(read[c][s] > kept[c][s])
    BY DEF RawOutputComplete, Truncated
  <2> QED
    BY <2>1, <2>2, <2>3, <2>4 DEF StreamShape
<1> QED
  BY <1>1, ExecutionKeepsShape, PTL

-----------------------------------------------------------------------------
(* The event log                                                           *)

(* Every event that any tool's call may send.                              *)
AllEvents == OtherEvents \cup ShellEvents

(* Sequences that hold nothing twice, hold nothing in common, of which one *)
(* holds all that the other does, and that do not hold an event.           *)
Distinct(s) == \A i, j \in DOMAIN s : s[i] = s[j] => i = j
Apart(s, t) == \A i \in DOMAIN s, j \in DOMAIN t : s[i] # t[j]
Within(s, t) == \A i \in DOMAIN s : \E j \in DOMAIN t : s[i] = t[j]
Lacks(s, e) == \A i \in DOMAIN s : s[i] # e

(* An event is in the table, in the batch or in the channel, not in two of *)
(* them and not twice.                                                     *)
InOnePlace ==
    /\ Distinct(rows) /\ Distinct(batch) /\ Distinct(queue)
    /\ Apart(rows, batch) /\ Apart(rows, queue) /\ Apart(batch, queue)
    /\ Within(rows, sent) /\ Within(batch, sent) /\ Within(queue, sent)

(* Where the writer is tells how full its batch is; it ends by a fault.    *)
WriterKnows ==
    /\ writer \in {"draining", "flushing"} => batch # <<>>
    /\ writer \notin {"draining", "flushing"} => Len(batch) < BatchSize
    /\ ~faulty => writer # "ended" /\ rows \o batch \o queue = sent

(* The log's inductive invariant, for whatever sends each event once.      *)
LogInv == LogTypeOK(AllEvents) /\ InOnePlace /\ WriterKnows

(* A call of so_shell has sent its event only when it is answered.         *)
SentWhenAnswered ==
    \A i \in DOMAIN sent : sent[i] \in OtherEvents \/ pc[sent[i].id] = "answered"

(* The composition's inductive invariant.                                  *)
ToolInv == ExecInv /\ TypeOK /\ LogInv /\ SentWhenAnswered

(* What an event at the end of a sequence changes.                         *)
LEMMA AppendIs ==
    ASSUME NEW S, NEW s \in Seq(S), NEW e \in S
    PROVE  /\ Append(s, e) \in Seq(S) /\ Append(s, e) # <<>>
           /\ DOMAIN s = 1 .. Len(s) /\ Len(s) \in Nat /\ Len(Append(s, e)) = Len(s) + 1
           /\ DOMAIN Append(s, e) = DOMAIN s \cup {Len(s) + 1} /\ Len(s) + 1 \notin DOMAIN s
           /\ Append(s, e)[Len(s) + 1] = e
           /\ \A i \in DOMAIN s : Append(s, e)[i] = s[i]
<1>1. /\ Append(s, e) \in Seq(S) /\ Len(Append(s, e)) = Len(s) + 1
      /\ \A i \in 1 .. Len(s) : Append(s, e)[i] = s[i]
      /\ Append(s, e)[Len(s) + 1] = e
  BY AppendProperties
<1>2. Len(s) \in Nat /\ DOMAIN s = 1 .. Len(s)
  BY LenProperties
<1>3. DOMAIN Append(s, e) = 1 .. Len(s) + 1
  BY <1>1, LenProperties
<1>4. 1 .. Len(s) + 1 = (1 .. Len(s)) \cup {Len(s) + 1} /\ Len(s) + 1 \notin 1 .. Len(s)
  BY <1>2
<1>5. Append(s, e) # <<>>
  BY <1>1, <1>2, EmptySeq
<1> QED
  BY <1>1, <1>2, <1>3, <1>4, <1>5

(* A new event at the end of a sequence leaves it distinct, and apart from *)
(* those that lack the event.                                              *)
LEMMA AppendKeeps ==
    ASSUME NEW S, NEW s \in Seq(S), NEW e \in S, Lacks(s, e)
    PROVE  /\ Distinct(s) => Distinct(Append(s, e))
           /\ \A t : Apart(s, t) /\ Lacks(t, e) => Apart(Append(s, e), t) /\ Apart(t, Append(s, e))
           /\ \A t : Within(t, s) => Within(t, Append(s, e))
           /\ \A t \in Seq(S) : Within(s, t) => Within(Append(s, e), Append(t, e))
<1>1. /\ DOMAIN Append(s, e) = DOMAIN s \cup {Len(s) + 1} /\ Len(s) + 1 \notin DOMAIN s
      /\ Append(s, e)[Len(s) + 1] = e
      /\ \A i \in DOMAIN s : Append(s, e)[i] = s[i]
  BY AppendIs
<1>2. Distinct(s) => Distinct(Append(s, e))
  BY <1>1 DEF Distinct, Lacks
<1>3. ASSUME NEW t, Apart(s, t), Lacks(t, e)
      PROVE  Apart(Append(s, e), t) /\ Apart(t, Append(s, e))
  BY <1>1, <1>3 DEF Apart, Lacks
<1>4. ASSUME NEW t, Within(t, s) PROVE Within(t, Append(s, e))
  BY <1>1, <1>4 DEF Within
<1>5. ASSUME NEW t \in Seq(S), Within(s, t) PROVE Within(Append(s, e), Append(t, e))
  <2>1. /\ DOMAIN Append(t, e) = DOMAIN t \cup {Len(t) + 1}
        /\ Append(t, e)[Len(t) + 1] = e
        /\ \A i \in DOMAIN t : Append(t, e)[i] = t[i]
    BY AppendIs
  <2> QED
    BY <1>1, <1>5, <2>1 DEF Within
<1> QED
  BY <1>2, <1>3, <1>4, <1>5

(* A channel takes an event that was not sent before.                      *)
LEMMA EnqueueKeeps ==
    ASSUME LogInv, NEW e \in AllEvents, Lacks(sent, e), Enqueue(e)
    PROVE  LogInv'
<1> USE DEF LogInv
<1> DEFINE S == AllEvents
<1>1. /\ queue \in Seq(S) /\ batch \in Seq(S) /\ rows \in Seq(S) /\ sent \in Seq(S)
      /\ sent' = Append(sent, e)
      /\ queue' = (IF writer = "ended" THEN queue ELSE Append(queue, e))
      /\ writer' = (IF writer = "none" THEN "opening" ELSE writer)
      /\ UNCHANGED <<batch, rows, faulty>>
  BY DEF LogTypeOK, Enqueue
<1> HIDE DEF S
<1>2. e \in S
  BY DEF S
<1>3. Append(queue, e) \in Seq(S) /\ Append(sent, e) \in Seq(S)
  BY <1>1, <1>2, AppendIs
<1>4. LogTypeOK(AllEvents)'
  BY <1>1, <1>3 DEF LogTypeOK, S
<1>5. Lacks(queue, e) /\ Lacks(batch, e) /\ Lacks(rows, e)
  BY DEF InOnePlace, Within, Lacks
<1>6. /\ Within(rows, sent)' /\ Within(batch, sent)' /\ Within(queue, Append(sent, e))
      /\ Within(Append(queue, e), Append(sent, e))
  BY <1>1, <1>2, <1>5, AppendKeeps DEF InOnePlace
<1>7. /\ Distinct(Append(queue, e)) /\ Apart(rows, Append(queue, e)) /\ Apart(batch, Append(queue, e))
  <2>1. Apart(queue, rows) /\ Apart(queue, batch)
    BY DEF InOnePlace, Apart
  <2> QED
    BY <1>1, <1>2, <1>5, <2>1, AppendKeeps DEF InOnePlace
<1>8. InOnePlace'
  BY <1>1, <1>6, <1>7 DEF InOnePlace
<1>9. WriterKnows'
  <2>1. ASSUME ~faulty PROVE rows \o batch \o Append(queue, e) = Append(sent, e)
    <3>1. rows \o batch \in Seq(S) /\ (rows \o batch) \o queue = sent
      BY <1>1, <2>1, ConcatProperties DEF WriterKnows
    <3>2. /\ Append(queue, e) = queue \o <<e>> /\ Append(sent, e) = sent \o <<e>>
          /\ <<e>> \in Seq(S)
      BY <1>1, <1>2, AppendIsConcat
    <3>3. \A a \in Seq(S) : (a \o queue) \o <<e>> = a \o (queue \o <<e>>)
      <4>1. PICK q \in Seq(S) : q = queue
        BY <1>1
      <4>2. \A a \in Seq(S) : (a \o q) \o <<e>> = a \o (q \o <<e>>)
        BY <3>2, ConcatAssociative
      <4> QED
        BY <4>1, <4>2
    <3> QED
      BY <3>1, <3>2, <3>3
  <2> QED
    BY <1>1, <2>1 DEF WriterKnows
<1> QED
  BY <1>4, <1>8, <1>9

(* Two sequences apart from each other, one behind the other.              *)
LEMMA ConcatKeeps ==
    ASSUME NEW S, NEW s \in Seq(S), NEW t \in Seq(S)
    PROVE  /\ s \o t \in Seq(S)
           /\ Distinct(s) /\ Distinct(t) /\ Apart(s, t) => Distinct(s \o t)
           /\ \A u : Apart(s, u) /\ Apart(t, u) => Apart(s \o t, u)
           /\ \A u : Within(s, u) /\ Within(t, u) => Within(s \o t, u)
<1>1. /\ s \o t \in Seq(S) /\ Len(s \o t) = Len(s) + Len(t)
      /\ \A i \in 1 .. Len(s) + Len(t) : (s \o t)[i] = IF i <= Len(s) THEN s[i] ELSE t[i - Len(s)]
  BY ConcatProperties
<1>2. /\ Len(s) \in Nat /\ DOMAIN s = 1 .. Len(s)
      /\ Len(t) \in Nat /\ DOMAIN t = 1 .. Len(t)
      /\ DOMAIN (s \o t) = 1 .. Len(s) + Len(t)
  BY <1>1, LenProperties
<1> DEFINE st == s \o t
<1>3. \A i \in DOMAIN st : \/ i \in DOMAIN s /\ st[i] = s[i]
                           \/ i \notin DOMAIN s /\ i - Len(s) \in DOMAIN t /\ st[i] = t[i - Len(s)]
  BY <1>1, <1>2
<1>4. \A i \in DOMAIN st : i \in Nat
  BY <1>2
<1> HIDE DEF st
<1>5. ASSUME Distinct(s), Distinct(t), Apart(s, t) PROVE Distinct(st)
  <2> SUFFICES ASSUME NEW i \in DOMAIN st, NEW j \in DOMAIN st, st[i] = st[j] PROVE i = j
    BY DEF Distinct
  <2>1. CASE i \in DOMAIN s /\ j \in DOMAIN s
    BY <1>3, <1>5, <2>1 DEF Distinct
  <2>2. CASE i \in DOMAIN s /\ j \notin DOMAIN s
    BY <1>3, <1>5, <2>2 DEF Apart
  <2>3. CASE i \notin DOMAIN s /\ j \in DOMAIN s
    BY <1>3, <1>5, <2>3 DEF Apart
  <2>4. CASE i \notin DOMAIN s /\ j \notin DOMAIN s
    <3>1. i - Len(s) = j - Len(s)
      BY <1>3, <1>5, <2>4 DEF Distinct
    <3> QED
      BY <1>2, <1>4, <3>1
  <2> QED
    BY <2>1, <2>2, <2>3, <2>4
<1>6. ASSUME NEW u, Apart(s, u), Apart(t, u) PROVE Apart(st, u)
  BY <1>3, <1>6 DEF Apart
<1>7. ASSUME NEW u, Within(s, u), Within(t, u) PROVE Within(st, u)
  BY <1>3, <1>7 DEF Within
<1> QED
  BY <1>1, <1>5, <1>6, <1>7 DEF st

(* What is selected of a sequence is as distinct as that, and within it.   *)
LEMMA ThoseKeep ==
    ASSUME NEW S, NEW s \in Seq(S), NEW places \in SUBSET DOMAIN s
    PROVE  /\ Those(s, places) \in Seq(S)
           /\ Distinct(s) => Distinct(Those(s, places))
           /\ \A u : Within(s, u) => Within(Those(s, places), u)
           /\ \A u : Apart(u, s) => Apart(u, Those(s, places))
           /\ \A u : Apart(s, u) => Apart(Those(s, places), u)
<1> DEFINE t == Those(s, places)
<1>1. /\ t \in Seq(S)
      /\ \A n \in DOMAIN t : \E i \in places : Rank(places, i) = n /\ t[n] = s[i]
  BY ThoseAreOfIt
<1> HIDE DEF t
<1>2. ASSUME Distinct(s) PROVE Distinct(t)
  <2> SUFFICES ASSUME NEW m \in DOMAIN t, NEW n \in DOMAIN t, t[m] = t[n] PROVE m = n
    BY DEF Distinct
  <2>1. PICK i \in places : Rank(places, i) = m /\ t[m] = s[i]
    BY <1>1
  <2>2. PICK j \in places : Rank(places, j) = n /\ t[n] = s[j]
    BY <1>1
  <2>3. i = j
    BY <1>2, <2>1, <2>2 DEF Distinct
  <2> QED
    BY <2>1, <2>2, <2>3
<1>3. \A n \in DOMAIN t : \E i \in DOMAIN s : t[n] = s[i]
  BY <1>1
<1>4. ASSUME NEW u, Within(s, u) PROVE Within(t, u)
  BY <1>3, <1>4 DEF Within
<1>5. ASSUME NEW u, Apart(u, s) PROVE Apart(u, t)
  BY <1>3, <1>5 DEF Apart
<1>6. ASSUME NEW u, Apart(s, u) PROVE Apart(t, u)
  BY <1>3, <1>6 DEF Apart
<1> QED
  BY <1>1, <1>2, <1>4, <1>5, <1>6 DEF t

(* A batch none of whose events is in the table is inserted whole.         *)
LEMMA InsertsAll ==
    ASSUME NEW S, NEW table \in Seq(S), NEW events \in Seq(S), Apart(table, events)
    PROVE  Insert(table, events) = table \o events
<1>1. DOMAIN table = 1 .. Len(table)
  BY LenProperties
<1>2. {i \in DOMAIN events : ~Contains(table, events[i])} = DOMAIN events
  BY <1>1 DEF Contains, Apart
<1> QED
  BY <1>2, ThoseAreAll DEF Insert

(* The batch takes an event out of the channel.                            *)
LEMMA TakeKeeps ==
    ASSUME LogInv, queue # <<>>, Take
    PROVE  /\ queue' \in Seq(AllEvents) /\ batch' \in Seq(AllEvents)
           /\ batch' # <<>> /\ Len(batch') = Len(batch) + 1
           /\ InOnePlace'
           /\ rows' \o batch' \o queue' = rows \o batch \o queue
<1> USE DEF LogInv
<1> DEFINE S == AllEvents
<1>1. /\ queue \in Seq(S) /\ batch \in Seq(S) /\ rows \in Seq(S)
      /\ batch' = Append(batch, Head(queue)) /\ queue' = Tail(queue)
      /\ UNCHANGED <<rows, sent, faulty>>
  BY DEF LogTypeOK, Take
<1> HIDE DEF S
<1>2. PICK e \in S, t \in Seq(S) : e = Head(queue) /\ t = Tail(queue)
  BY <1>1, HeadTailProperties
<1>3. /\ Len(queue) \in Nat \ {0} /\ DOMAIN queue = 1 .. Len(queue) /\ e = queue[1]
      /\ Len(t) = Len(queue) - 1 /\ DOMAIN t = 1 .. Len(t)
      /\ \A i \in DOMAIN t : t[i] = queue[i + 1] /\ i + 1 \in DOMAIN queue
  <2>1. Len(queue) \in Nat \ {0} /\ DOMAIN queue = 1 .. Len(queue)
    BY <1>1, EmptySeq, LenProperties
  <2>2. e = queue[1]
    BY <1>1, <1>2, <2>1
  <2>3. /\ Len(t) = Len(queue) - 1 /\ DOMAIN t = 1 .. Len(t)
        /\ \A i \in 1 .. Len(t) : t[i] = queue[i + 1]
    BY <1>1, <1>2, HeadTailProperties, LenProperties
  <2> QED
    BY <2>1, <2>2, <2>3
<1>4. Lacks(t, e) /\ Distinct(t)
  <2>1. Distinct(queue) /\ 1 \in DOMAIN queue
    BY <1>3 DEF InOnePlace
  <2>2. \A i \in DOMAIN t : i + 1 # 1 /\ i \in Nat
    BY <1>3
  <2>3. Lacks(t, e)
    BY <1>3, <2>1, <2>2 DEF Lacks, Distinct
  <2>4. \A i, j \in DOMAIN t : i + 1 = j + 1 => i = j
    BY <2>2
  <2> QED
    BY <1>3, <2>1, <2>3, <2>4 DEF Distinct
<1>5. /\ Apart(rows, t) /\ Apart(batch, t) /\ Within(t, sent)
      /\ Lacks(rows, e) /\ Lacks(batch, e) /\ \E j \in DOMAIN sent : e = sent[j]
  <2>1. 1 \in DOMAIN queue
    BY <1>3
  <2> QED
    BY <1>3, <2>1 DEF InOnePlace, Apart, Within, Lacks
<1>6. Apart(batch, rows)
  BY DEF InOnePlace, Apart
<1>7. /\ Distinct(Append(batch, e))
      /\ Apart(rows, Append(batch, e)) /\ Apart(Append(batch, e), t)
  BY <1>1, <1>4, <1>5, <1>6, AppendKeeps DEF InOnePlace
<1>8. Within(Append(batch, e), sent)
  BY <1>1, <1>5, AppendIs DEF InOnePlace, Within
<1>9. InOnePlace'
  BY <1>1, <1>2, <1>4, <1>5, <1>7, <1>8 DEF InOnePlace
<1>10. rows \o Append(batch, e) \o t = rows \o batch \o queue
  <2>1. Append(batch, e) = batch \o <<e>> /\ <<e>> \in Seq(S)
    BY <1>1, AppendIsConcat
  <2>2. queue = <<e>> \o t
    <3>1. /\ <<e>> \o t \in Seq(S) /\ Len(<<e>> \o t) = 1 + Len(t)
          /\ \A i \in 1 .. 1 + Len(t) : (<<e>> \o t)[i] = IF i <= 1 THEN e ELSE t[i - 1]
      BY <2>1, ConcatProperties
    <3> DEFINE et == <<e>> \o t
    <3>2. 1 + Len(t) = Len(queue) /\ Len(queue) \in Nat
      BY <1>3
    <3>3. ASSUME NEW i \in 1 .. Len(queue) PROVE queue[i] = et[i]
      <4>1. et[i] = IF i <= 1 THEN e ELSE t[i - 1]
        BY <3>1, <3>2
      <4>2. CASE i = 1
        BY <1>3, <4>1, <4>2
      <4>3. CASE i > 1
        <5>1. i - 1 \in DOMAIN t /\ i - 1 + 1 = i
          BY <1>3, <3>2, <4>3
        <5>2. t[i - 1] = queue[i - 1 + 1]
          BY <1>3, <5>1
        <5> QED
          BY <3>2, <4>1, <4>3, <5>1, <5>2
      <4> QED
        BY <3>2, <4>2, <4>3
    <3> HIDE DEF et
    <3>4. et \in Seq(S) /\ Len(et) = Len(queue)
      BY <3>1, <3>2 DEF et
    <3>5. queue = et
      BY <1>1, <3>3, <3>4, SeqEqual, Zenon
    <3> QED
      BY <3>5 DEF et
  <2>3. rows \o (batch \o <<e>>) = (rows \o batch) \o <<e>> /\ rows \o batch \in Seq(S)
    BY <1>1, <2>1, ConcatAssociative, ConcatProperties
  <2>4. \A a \in Seq(S) : (a \o <<e>>) \o t = a \o (<<e>> \o t)
    BY <2>1, ConcatAssociative
  <2> QED
    BY <2>1, <2>2, <2>3, <2>4
<1>11. /\ Append(batch, e) \in Seq(S) /\ Append(batch, e) # <<>>
       /\ Len(Append(batch, e)) = Len(batch) + 1
  BY <1>1, AppendIs
<1> QED
  BY <1>1, <1>2, <1>9, <1>10, <1>11 DEF S

(* The writer takes events into its batch, and moves on.                   *)
LEMMA WriterMoves ==
    ASSUME LogInv, OpenDb \/ Receive \/ DrainReady \/ Drained \/ FlushInterval
    PROVE  LogInv'
<1> USE EventLogAssumption
<1>1. /\ queue \in Seq(AllEvents) /\ batch \in Seq(AllEvents) /\ rows \in Seq(AllEvents)
      /\ sent \in Seq(AllEvents) /\ Len(batch) \in Nat /\ Len(batch) <= BatchSize
      /\ faulty \in BOOLEAN
  BY LenProperties DEF LogInv, LogTypeOK
<1>2. CASE Receive \/ DrainReady
  <2>1. queue # <<>> /\ Take /\ UNCHANGED <<rows, sent, faulty>>
    BY <1>2 DEF Receive, DrainReady, Take
  <2>2. /\ queue' \in Seq(AllEvents) /\ batch' \in Seq(AllEvents)
        /\ batch' # <<>> /\ Len(batch') = Len(batch) + 1
        /\ InOnePlace'
        /\ rows' \o batch' \o queue' = rows \o batch \o queue
    BY <2>1, TakeKeeps
  <2>3. /\ Len(batch) < BatchSize /\ writer \in {"waiting", "draining"}
        /\ writer' \in {"flushing", "draining"}
    BY <1>2 DEF Receive, DrainReady, LogInv, WriterKnows
  <2>4. LogTypeOK(AllEvents)'
    BY <1>1, <2>1, <2>2, <2>3 DEF LogTypeOK
  <2>5. WriterKnows'
    <3>1. ASSUME ~faulty' PROVE writer' # "ended" /\ (rows \o batch \o queue = sent)'
      BY <2>1, <2>2, <2>3, <3>1 DEF LogInv, WriterKnows
    <3> QED
      BY <2>2, <2>3, <3>1 DEF WriterKnows
  <2> QED
    BY <2>2, <2>4, <2>5 DEF LogInv
<1>3. CASE OpenDb \/ Drained \/ FlushInterval
  <2>1. UNCHANGED <<queue, batch, rows, sent, faulty>>
    BY <1>3 DEF OpenDb, Drained, FlushInterval
  <2>2. InOnePlace'
    BY <2>1 DEF LogInv, InOnePlace
  <2>3. /\ writer' \in {"waiting", "flushing"}
        /\ writer' = "waiting" => Len(batch) < BatchSize
        /\ writer' = "flushing" => batch # <<>>
    BY <1>1, <1>3 DEF OpenDb, Drained, FlushInterval, LogInv, WriterKnows
  <2> QED
    BY <1>1, <2>1, <2>2, <2>3 DEF LogInv, LogTypeOK, WriterKnows
<1> QED
  BY <1>2, <1>3

(* A batch becomes rows.                                                   *)
LEMMA FlushKeeps == ASSUME LogInv, FlushBatch PROVE LogInv'
<1>1. /\ queue \in Seq(AllEvents) /\ batch \in Seq(AllEvents) /\ rows \in Seq(AllEvents)
      /\ sent \in Seq(AllEvents) /\ InOnePlace
      /\ rows' = Insert(rows, batch) /\ batch' = <<>> /\ writer' = "waiting"
      /\ UNCHANGED <<queue, sent, faulty>>
  BY DEF LogInv, LogTypeOK, FlushBatch
<1>2. rows' = rows \o batch
  BY <1>1, InsertsAll DEF InOnePlace
<1>3. /\ rows' \in Seq(AllEvents)
      /\ Distinct(rows') /\ Apart(rows', queue) /\ Within(rows', sent)
  BY <1>1, <1>2, ConcatKeeps DEF InOnePlace
<1>4. batch' \in Seq(AllEvents) /\ Len(batch') = 0 /\ DOMAIN batch' = {}
  BY <1>1
<1>5. InOnePlace'
  BY <1>1, <1>3, <1>4 DEF InOnePlace, Distinct, Apart, Within
<1>6. LogTypeOK(AllEvents)'
  BY <1>1, <1>3, <1>4, EventLogAssumption DEF LogInv, LogTypeOK
<1>7. rows' \o batch' \o queue' = rows \o batch \o queue
  BY <1>1, <1>2, <1>3, ConcatEmptySeq
<1>8. WriterKnows'
  <2>1. Len(batch') < BatchSize
    BY <1>4, EventLogAssumption
  <2>2. ~faulty => rows' \o batch' \o queue' = sent
    BY <1>7 DEF LogInv, WriterKnows
  <2> QED
    BY <1>1, <2>1, <2>2 DEF WriterKnows
<1> QED
  BY <1>5, <1>6, <1>8 DEF LogInv

(* Faults lose what is in the channel, or in the batch, and nothing else.  *)
LEMMA FaultsKeep ==
    ASSUME LogInv, OpenFails \/ FlushFails \/ LoseMemory
    PROVE  LogInv'
<1>1. /\ queue \in Seq(AllEvents) /\ batch \in Seq(AllEvents) /\ rows \in Seq(AllEvents)
      /\ sent \in Seq(AllEvents) /\ InOnePlace /\ Len(batch) <= BatchSize
  BY DEF LogInv, LogTypeOK
<1>2. <<>> \in Seq(AllEvents) /\ Len(<<>>) = 0 /\ DOMAIN <<>> = {} /\ 0 < BatchSize /\ 0 <= BatchSize
  BY EventLogAssumption
<1>3. CASE OpenFails \/ LoseMemory
  <2>1. /\ queue' = <<>> /\ batch' \in {batch, <<>>} /\ UNCHANGED <<rows, sent>> /\ faulty'
        /\ writer' \in {"none", "ended"} /\ Len(batch') < BatchSize
    BY <1>2, <1>3 DEF OpenFails, LoseMemory, LogInv, WriterKnows
  <2>2. InOnePlace'
    BY <1>1, <1>2, <2>1 DEF InOnePlace, Distinct, Apart, Within
  <2>3. faulty' \in BOOLEAN
    BY <1>3 DEF OpenFails, LoseMemory
  <2>4. LogTypeOK(AllEvents)'
    <3>1. Len(batch') <= BatchSize
      BY <1>1, <1>2, <2>1
    <3> QED
      BY <1>1, <1>2, <2>1, <2>3, <3>1 DEF LogTypeOK
  <2> QED
    BY <2>1, <2>2, <2>4 DEF LogInv, WriterKnows
<1>4. CASE FlushFails
  <2>1. PICK inserted \in SUBSET DOMAIN batch : rows' = Insert(rows, Those(batch, inserted))
    BY <1>4 DEF FlushFails
  <2>2. batch' = <<>> /\ writer' = "waiting" /\ faulty' = TRUE /\ UNCHANGED <<queue, sent>>
    BY <1>4 DEF FlushFails
  <2>3. PICK some \in Seq(AllEvents) :
           /\ some = Those(batch, inserted) /\ Distinct(some)
           /\ Within(some, sent) /\ Apart(rows, some) /\ Apart(some, queue)
    BY <1>1, ThoseKeep DEF InOnePlace
  <2>4. PICK new \in Seq(AllEvents) :
           /\ Insert(rows, some) = rows \o new /\ Distinct(new)
           /\ Within(new, sent) /\ Apart(rows, new) /\ Apart(new, queue)
    <3>1. PICK places \in SUBSET DOMAIN some : Insert(rows, some) = rows \o Those(some, places)
      BY DEF Insert
    <3> QED
      BY <2>3, <3>1, ThoseKeep
  <2>5. /\ rows' \in Seq(AllEvents)
        /\ Distinct(rows') /\ Apart(rows', queue) /\ Within(rows', sent)
    BY <1>1, <2>1, <2>3, <2>4, ConcatKeeps DEF InOnePlace
  <2>6. InOnePlace'
    BY <1>1, <1>2, <2>2, <2>5 DEF InOnePlace, Distinct, Apart, Within
  <2>7. LogTypeOK(AllEvents)'
    BY <1>1, <1>2, <2>2, <2>5 DEF LogTypeOK
  <2> QED
    BY <1>2, <2>2, <2>6, <2>7 DEF LogInv, WriterKnows
<1> QED
  BY <1>3, <1>4

(* The answer of a call is counted in chunks and notes.                    *)
LEMMA OutputTypes ==
    ASSUME ExecInv, NEW c \in Calls
    PROVE  FullOutput(c) \in Nat /\ ExitCode(c) \in Nat
<1>1. IsFiniteSet(Streams)
  <2>1. Streams = {"stdout"} \cup {"stderr"}
    BY DEF Streams
  <2> QED
    BY <2>1, FS_Singleton, FS_AddElement
<1>2. Cardinality({s \in Streams : Truncated(c, s)}) \in Nat
  BY <1>1, FS_Subset, FS_CardinalityType
<1>3. "stdout" \in Streams /\ "stderr" \in Streams
  BY DEF Streams
<1>4. kept[c]["stdout"] \in Nat /\ kept[c]["stderr"] \in Nat
  BY <1>3, CountTypes
<1>5. Notes(c) \in Nat
  BY <1>2 DEF Notes
<1>6. command[c].exit \in Nat
  BY ShellExecAssumption DEF ExecInv, ExecTypeOK, Command
<1> QED
  BY <1>4, <1>5, <1>6 DEF FullOutput, ExitCode

(* A call that is not answered has sent nothing; its event is a new one.   *)
LEMMA ShellEventIsNew ==
    ASSUME ToolInv, NEW c \in Calls, pc[c] # "answered"
    PROVE  \A ok \in BOOLEAN, family \in {"none", request[c].family}, origin, shown \in Nat :
              /\ ShellEvent(c, ok, family, origin, shown) \in ShellEvents
              /\ ShellEvent(c, ok, family, origin, shown).id = c
              /\ Lacks(sent, ShellEvent(c, ok, family, origin, shown))
<1>1. request[c] \in Requests
  BY DEF ToolInv, TypeOK
<1>2. SUFFICES ASSUME NEW ok \in BOOLEAN, NEW family \in {"none", request[c].family},
                      NEW origin \in Nat, NEW shown \in Nat
               PROVE  /\ ShellEvent(c, ok, family, origin, shown) \in ShellEvents
                      /\ ShellEvent(c, ok, family, origin, shown).id = c
                      /\ Lacks(sent, ShellEvent(c, ok, family, origin, shown))
  BY Zenon
<1> DEFINE e == ShellEvent(c, ok, family, origin, shown)
<1>3. /\ request[c].argv \in {r.argv : r \in Requests}
      /\ family \in {"none"} \cup {r.family : r \in Requests}
  BY <1>1
<1>4. e \in ShellEvents /\ e.id = c /\ e.tool = "so_shell"
  BY <1>3 DEF ShellEvent, ShellEvents
<1>5. e \notin OtherEvents
  BY <1>4, ShellToolAssumption
<1> HIDE DEF e
<1>6. Lacks(sent, e)
  BY <1>4, <1>5 DEF Lacks, ToolInv, SentWhenAnswered
<1> QED
  BY <1>4, <1>6 DEF e

(* A call is answered and its event sent in one step.                      *)
LEMMA AnswerSends ==
    ASSUME ToolInv, NEW c \in Calls, pc[c] # "answered",
           pc' = [pc EXCEPT ![c] = "answered"],
           NEW e \in ShellEvents, e.id = c, Lacks(sent, e), Enqueue(e)
    PROVE  LogInv' /\ SentWhenAnswered'
<1>1. LogInv'
  BY EnqueueKeeps DEF ToolInv, AllEvents
<1>2. pc \in [Calls -> {"asked", "running", "killing", "joining", "failed", "answered", "lost"}]
  BY DEF ToolInv, ExecInv, ExecTypeOK
<1>3. sent \in Seq(AllEvents) /\ e \in AllEvents /\ sent' = Append(sent, e)
  BY DEF ToolInv, LogInv, LogTypeOK, AllEvents, Enqueue
<1>4. /\ DOMAIN sent' = DOMAIN sent \cup {Len(sent) + 1} /\ sent'[Len(sent) + 1] = e
      /\ \A i \in DOMAIN sent : sent'[i] = sent[i]
  BY <1>3, AppendIs
<1>5. \A d : pc[d] = "answered" => pc'[d] = "answered"
  BY <1>2
<1>6. pc'[c] = "answered"
  BY <1>2
<1> QED
  BY <1>1, <1>4, <1>5, <1>6 DEF ToolInv, SentWhenAnswered

(* What a call may be answered with.                                       *)
Answers ==
    [kind : {"none", "refused", "error", "output"}, ok : BOOLEAN,
     mode : {"none", "full", "raw_fallback", "compressed"}, shown : Nat]

(* Whoever is answered gets an answer.                                     *)
LEMMA AnswersAre ==
    /\ NoAnswer \in Answers
    /\ \A kind \in {"refused", "error"} : [NoAnswer EXCEPT !.kind = kind] \in Answers
BY DEF NoAnswer, Answers

(* The steps that answer a call keep the invariant,                        *)
LEMMA AnswerKeeps ==
    ASSUME ToolInv, ExecInv', NEW c \in Calls, Refuse(c) \/ SpawnError(c) \/ AnswerCall(c)
    PROVE  ToolInv'
<1>1. /\ request \in [Calls -> Requests] /\ answer \in [Calls -> Answers]
      /\ pc' = [pc EXCEPT ![c] = "answered"] /\ UNCHANGED request
      /\ pc[c] \in {"asked", "failed", "joining"}
  BY DEF ToolInv, TypeOK, Answers, Refuse, SpawnError, AnswerCall, At, Joined
<1>2. pc \in [Calls -> {"asked", "running", "killing", "joining", "failed", "answered", "lost"}]
  BY DEF ToolInv, ExecInv, ExecTypeOK
<1>3. /\ answer' \in [Calls -> Answers]
      /\ LogInv' /\ SentWhenAnswered'
  <2>1. CASE Refuse(c)
    <3>1. answer' = [answer EXCEPT ![c] = [NoAnswer EXCEPT !.kind = "refused"]] /\ UNCHANGED logVars
      BY <2>1 DEF Refuse
    <3>2. answer' \in [Calls -> Answers]
      BY <1>1, <3>1, AnswersAre
    <3>3. LogInv'
      BY <3>1 DEF ToolInv, LogInv, LogTypeOK, InOnePlace, WriterKnows, logVars
    <3>4. SentWhenAnswered'
      BY <1>1, <1>2, <3>1 DEF ToolInv, SentWhenAnswered, logVars
    <3> QED
      BY <3>2, <3>3, <3>4
  <2>2. CASE SpawnError(c)
    <3>1. /\ answer' = [answer EXCEPT ![c] = [NoAnswer EXCEPT !.kind = "error"]]
          /\ Enqueue(ShellEvent(c, FALSE, "none", 0, 0))
      BY <2>2 DEF SpawnError
    <3>2. answer' \in [Calls -> Answers]
      BY <1>1, <3>1, AnswersAre
    <3>3. PICK e \in ShellEvents : e.id = c /\ Lacks(sent, e) /\ Enqueue(e)
      <4> DEFINE event == ShellEvent(c, FALSE, "none", 0, 0)
      <4>1. FALSE \in BOOLEAN /\ "none" \in {"none", request[c].family} /\ 0 \in Nat /\ pc[c] # "answered"
        BY <1>1
      <4>2. event \in ShellEvents /\ event.id = c /\ Lacks(sent, event)
        BY <4>1, ShellEventIsNew, Zenon
      <4>3. Enqueue(event)
        BY <3>1
      <4> HIDE DEF event
      <4> QED
        BY <4>2, <4>3
    <3> QED
      BY <1>1, <3>2, <3>3, AnswerSends
  <2>3. CASE AnswerCall(c)
    <3>0. PICK ok \in BOOLEAN : ok = (ExitCode(c) = 0)
      BY Zenon
    <3>1. PICK compressed \in Compressed :
             /\ answer' = [answer EXCEPT ![c] =
                     [kind |-> "output", ok |-> ok,
                      mode |-> OutputMode(c, compressed), shown |-> Shown(c, compressed)]]
             /\ Enqueue(ShellEvent(c, ok, request[c].family, FullOutput(c), Shown(c, compressed)))
      BY <2>3, <3>0 DEF AnswerCall
    <3>2. FullOutput(c) \in Nat /\ compressed \in Nat
      BY OutputTypes, ShellToolAssumption DEF ToolInv
    <3>3. Shown(c, compressed) \in Nat /\ OutputMode(c, compressed) \in {"full", "raw_fallback", "compressed"}
      BY <3>2 DEF Shown, OutputMode
    <3>4. answer' \in [Calls -> Answers]
      <4>1. [kind |-> "output", ok |-> ok,
             mode |-> OutputMode(c, compressed), shown |-> Shown(c, compressed)] \in Answers
        BY <3>3 DEF Answers
      <4> QED
        BY <1>1, <3>1, <4>1
    <3>5. PICK e \in ShellEvents : e.id = c /\ Lacks(sent, e) /\ Enqueue(e)
      <4> DEFINE event == ShellEvent(c, ok, request[c].family, FullOutput(c), Shown(c, compressed))
      <4>1. request[c].family \in {"none", request[c].family} /\ pc[c] # "answered"
        BY <1>1
      <4>2. event \in ShellEvents /\ event.id = c /\ Lacks(sent, event)
        <5>1. \A good \in BOOLEAN, family \in {"none", request[c].family}, origin, shown \in Nat :
                 /\ ShellEvent(c, good, family, origin, shown) \in ShellEvents
                 /\ ShellEvent(c, good, family, origin, shown).id = c
                 /\ Lacks(sent, ShellEvent(c, good, family, origin, shown))
          BY <4>1, ShellEventIsNew, Zenon
        <5>2. ok \in BOOLEAN
          BY <3>0, Zenon
        <5>3. FullOutput(c) \in Nat /\ Shown(c, compressed) \in Nat
          BY <3>2, <3>3, Zenon
        <5>4. \A origin, shown \in Nat :
                 /\ ShellEvent(c, ok, request[c].family, origin, shown) \in ShellEvents
                 /\ ShellEvent(c, ok, request[c].family, origin, shown).id = c
                 /\ Lacks(sent, ShellEvent(c, ok, request[c].family, origin, shown))
          BY <5>1, <5>2, <4>1, Zenon
        <5> QED
          BY <5>3, <5>4, Zenon
      <4>3. Enqueue(event)
        BY <3>1
      <4> HIDE DEF event
      <4> QED
        BY <4>2, <4>3
    <3> QED
      BY <1>1, <3>4, <3>5, AnswerSends
  <2> QED
    BY <2>1, <2>2, <2>3
<1>4. TypeOK'
  BY <1>1, <1>3 DEF TypeOK, LogInv, AllEvents, ExecInv, Answers
<1> QED
  BY <1>3, <1>4 DEF ToolInv

(* and so do those that answer none: events are the writer's business or   *)
(* another tool's, and no answered call is ever anything else.             *)
LEMMA OtherStepsKeep ==
    ASSUME ToolInv, ExecInv', UNCHANGED <<request, answer>>, LogInv',
           \A d \in Calls : pc[d] = "answered" => pc'[d] = "answered",
           \/ sent' = sent
           \/ \E e \in OtherEvents : sent' = Append(sent, e)
    PROVE  ToolInv'
<1>1. SentWhenAnswered'
  <2>1. sent \in Seq(AllEvents)
    BY DEF ToolInv, LogInv, LogTypeOK
  <2>2. \A i \in DOMAIN sent : sent[i] \in OtherEvents \/ pc'[sent[i].id] = "answered"
    <3>1. \A i \in DOMAIN sent : sent[i] \in AllEvents
      BY <2>1
    <3>2. \A e \in ShellEvents : e.id \in Calls
      BY DEF ShellEvents
    <3> QED
      BY <3>1, <3>2 DEF ToolInv, SentWhenAnswered, AllEvents
  <2>3. CASE sent' = sent
    BY <2>2, <2>3 DEF SentWhenAnswered
  <2>4. ASSUME NEW e \in OtherEvents, sent' = Append(sent, e) PROVE SentWhenAnswered'
    <3>1. e \in AllEvents
      BY DEF AllEvents
    <3>2. /\ DOMAIN sent' = DOMAIN sent \cup {Len(sent) + 1} /\ sent'[Len(sent) + 1] = e
          /\ \A i \in DOMAIN sent : sent'[i] = sent[i]
      BY <2>1, <2>4, <3>1, AppendIs
    <3> QED
      BY <2>2, <3>2 DEF SentWhenAnswered
  <2> QED
    BY <2>3, <2>4
<1>2. TypeOK'
  BY DEF ToolInv, TypeOK, LogInv, AllEvents, ExecInv
<1> QED
  BY <1>1, <1>2 DEF ToolInv

(* A daemon starts with no call answered, and with nothing in its log.     *)
LEMMA InitToolInv == Init => ToolInv
<1> SUFFICES ASSUME Init PROVE ToolInv
  OBVIOUS
<1>1. ExecInv
  BY InitExecInv
<1>2. /\ queue = <<>> /\ batch = <<>> /\ rows = <<>> /\ sent = <<>> /\ writer = "none" /\ faulty = FALSE
  BY DEF Init, LogInit
<1>3. <<>> \in Seq(AllEvents) /\ Len(<<>>) = 0 /\ DOMAIN <<>> = {}
  OBVIOUS
<1>4. LogTypeOK(AllEvents)
  <2>1. 0 <= BatchSize
    BY EventLogAssumption
  <2> QED
    BY <1>2, <1>3, <2>1 DEF LogTypeOK
<1>5. InOnePlace
  BY <1>2, <1>3 DEF InOnePlace, Distinct, Apart, Within
<1>6. WriterKnows
  <2>1. <<>> \o <<>> \o <<>> = <<>>
    BY <1>3, ConcatEmptySeq
  <2> QED
    BY <1>2, <1>3, <2>1, EventLogAssumption DEF WriterKnows
<1>7. SentWhenAnswered
  BY <1>2, <1>3 DEF SentWhenAnswered
<1>8. request \in [Calls -> Requests] /\ answer \in [Calls -> Answers]
  BY AnswersAre, ShellToolAssumption DEF Init
<1> QED
  BY <1>1, <1>4, <1>5, <1>6, <1>7, <1>8 DEF ToolInv, TypeOK, LogInv, AllEvents, ExecInv, Answers

(* No step of a call, of a command, of the writer or of another tool's     *)
(* call, and no crash, breaks the invariant.                               *)
LEMMA NextToolInv == ToolInv /\ [Next]_vars => ToolInv'
<1> SUFFICES ASSUME ToolInv, [Next]_vars PROVE ToolInv'
  OBVIOUS
<1>1. ExecInv'
  BY NextExecInv DEF ToolInv
<1>2. /\ pc \in [Calls -> {"asked", "running", "killing", "joining", "failed", "answered", "lost"}]
      /\ LogInv
  BY DEF ToolInv, ExecInv, ExecTypeOK
<1>3. ASSUME UNCHANGED logVars PROVE LogInv' /\ sent' = sent
  BY <1>2, <1>3 DEF LogInv, LogTypeOK, InOnePlace, WriterKnows, logVars
<1>4. CASE \E c \in Calls : Refuse(c) \/ SpawnError(c) \/ AnswerCall(c)
  BY <1>1, <1>4, AnswerKeeps
<1>5. CASE \E c \in Calls : Run(c) \/ ProcessStep(c) \/ Outside(c)
  <2>1. PICK c \in Calls : Run(c) \/ ProcessStep(c) \/ Outside(c)
    BY <1>5
  <2>2. UNCHANGED <<logVars, request, answer>>
    BY <2>1 DEF Run, ProcessStep, Outside
  <2>3. \A d \in Calls : pc[d] = "answered" => pc'[d] = "answered"
    BY <1>2, <2>1
    DEF Run, ProcessStep, Outside, ExecStep, ChildStep, Spawn, SeeExit, SeeTimeout, Kill, ReadStream,
        ReadEof, Capture, ChildExits, ChildWrites, Expire, HeirEnds, At
  <2> QED
    BY <1>1, <1>3, <2>2, <2>3, OtherStepsKeep
<1>6. CASE LogNext
  <2>1. UNCHANGED <<request, answer>> /\ UNCHANGED pc
    BY <1>6 DEF LogNext, execVars
  <2>2. LogInv'
    BY <1>2, <1>6, WriterMoves, FlushKeeps, FaultsKeep DEF LogNext, WriterNext, WriterStep
  <2>3. sent' = sent
    BY <1>6 DEF LogNext, WriterNext, WriterStep, OpenDb, Receive, DrainReady, Drained, FlushInterval,
                FlushBatch, OpenFails, FlushFails, Take
  <2> QED
    BY <1>1, <2>1, <2>2, <2>3, OtherStepsKeep
<1>7. ASSUME NEW e \in OtherEvents, OtherCall(e) PROVE ToolInv'
  <2>1. e \notin ToSet(sent) /\ Enqueue(e) /\ UNCHANGED <<request, answer>> /\ UNCHANGED pc
    BY <1>7 DEF OtherCall, execVars
  <2>2. e \in AllEvents /\ Lacks(sent, e)
    BY <2>1 DEF AllEvents, ToSet, Lacks
  <2>3. LogInv' /\ sent' = Append(sent, e)
    BY <1>2, <2>1, <2>2, EnqueueKeeps DEF Enqueue
  <2> QED
    BY <1>1, <2>1, <2>3, OtherStepsKeep
<1>8. CASE Crash
  <2>1. AbandonCalls /\ LoseMemory /\ UNCHANGED <<request, answer>>
    BY <1>8 DEF Crash
  <2>2. \A d \in Calls : pc[d] = "answered" => pc'[d] = "answered"
    BY <2>1 DEF AbandonCalls, Busy
  <2>3. LogInv' /\ sent' = sent
    BY <1>2, <2>1, FaultsKeep DEF LoseMemory
  <2> QED
    BY <1>1, <2>1, <2>2, <2>3, OtherStepsKeep
<1>9. CASE UNCHANGED vars
  BY <1>1, <1>3, <1>9, OtherStepsKeep DEF vars, execVars
<1> QED
  BY <1>4, <1>5, <1>6, <1>7, <1>8, <1>9 DEF Next, CallStep

(* Every variable of the calls and of the log keeps its type: the batch    *)
(* never holds more than EVENT_BATCH_SIZE, and is never flushed empty      *)
(* (run_writer).                                                           *)
THEOREM ToolTypes == Spec => []TypeOK
<1>1. ToolInv => TypeOK
  BY DEF ToolInv
<1> QED
  BY <1>1, InitToolInv, NextToolInv, PTL DEF Spec

(* The event of a call, once sent, is in the channel, in the batch or in   *)
(* the table, in its order, unless something failed; and whatever failed   *)
(* the table holds nothing twice and nothing that was not sent (enqueue,   *)
(* run_writer, flush_batch).                                               *)
THEOREM EventsAreNotLost == Spec => []NothingLostInTransit
<1>1. ToolInv => NothingLostInTransit
  BY DEF ToolInv, LogInv, InOnePlace, WriterKnows, NothingLostInTransit, Within, Distinct, ToSet
<1> QED
  BY <1>1, InitToolInv, NextToolInv, PTL DEF Spec

-----------------------------------------------------------------------------
(* Sums                                                                    *)

(* The sums of a function over the subsets of its domain: an element, the  *)
(* one that SumFunction takes, and the rest.                               *)
First(T) == CHOOSE x \in T : TRUE
Sums(f, sum) ==
    /\ sum[{}] = 0
    /\ \A T \in SUBSET DOMAIN f : sum[T] \in Int
    /\ \A T \in SUBSET DOMAIN f : T # {} => sum[T] = f[First(T)] + sum[T \ {First(T)}]
HasSums(f) == \E sum : Sums(f, sum) /\ SumFunction(f) = sum[DOMAIN f]

(* A part of a finite set, and the element that a fold takes of it.        *)
LEMMA SubsetIs ==
    ASSUME NEW D, IsFiniteSet(D), NEW T \in SUBSET D
    PROVE  /\ IsFiniteSet(T) /\ Cardinality(T) \in Nat /\ Cardinality(T) <= Cardinality(D)
           /\ T = {} <=> Cardinality(T) = 0
           /\ T # {} => First(T) \in T /\ T \ {First(T)} \in SUBSET D
           /\ \A x \in T : Cardinality(T \ {x}) = Cardinality(T) - 1
<1>1. IsFiniteSet(T) /\ Cardinality(T) \in Nat /\ Cardinality(T) <= Cardinality(D)
  BY FS_Subset, FS_CardinalityType
<1>2. T = {} <=> Cardinality(T) = 0
  BY <1>1, FS_EmptySet
<1>3. T # {} => First(T) \in T
  BY DEF First
<1>4. \A x \in T : Cardinality(T \ {x}) = Cardinality(T) - 1
  BY <1>1, FS_RemoveElement
<1> QED
  BY <1>1, <1>2, <1>3, <1>4

(* The fold of the community modules gives a finite family of integers a   *)
(* sum for each of its parts, one element after the other.                 *)
LEMMA SumsExist ==
    ASSUME NEW f, IsFiniteSet(DOMAIN f), f \in [DOMAIN f -> Int]
    PROVE  HasSums(f)
<1> DEFINE D == DOMAIN f
           N == Cardinality(D)
           S == [SUBSET D -> Int]
           Grow(g) == [T \in SUBSET D |-> IF T = {} THEN 0 ELSE f[First(T)] + g[T \ {First(T)}]]
           step == [n \in 1 .. N + 1 |-> [g \in S |-> Grow(g)]]
           base == [T \in SUBSET D |-> 0]
           iter == CHOOSE g : g = Grow(g)
<1>1. SumFunction(f) = iter[D]
  BY Zenon DEF SumFunction, SumFunctionOnSet, FoldFunctionOnSet, MapThenFoldSet, First
<1>2. IsFiniteSet(D) /\ f \in [D -> Int]
  OBVIOUS
<1> HIDE DEF D
<1>3. \A T \in SUBSET D : /\ Cardinality(T) \in Nat /\ Cardinality(T) <= N
                          /\ T = {} <=> Cardinality(T) = 0
                          /\ T # {} => First(T) \in T /\ T \ {First(T)} \in SUBSET D
                          /\ \A x \in T : Cardinality(T \ {x}) = Cardinality(T) - 1
  BY <1>2, SubsetIs
<1>4. N \in Nat
  BY <1>2, FS_CardinalityType
<1>5. \A g \in S : Grow(g) \in S
  BY <1>2, <1>3
<1>6. base \in S /\ base[{}] = 0
  OBVIOUS
<1>7. \A g : /\ Grow(g)[{}] = 0
             /\ \A T \in SUBSET D : T # {} => Grow(g)[T] = f[First(T)] + g[T \ {First(T)}]
  OBVIOUS
<1>8. ASSUME NEW g \in S, NEW k \in S, \A T \in SUBSET D : g[T] = k[T] PROVE g = k
  BY <1>8
<1>9. \A g \in S : \A T \in SUBSET D : g[T] \in Int
  OBVIOUS
<1> HIDE DEF N, Grow, base
<1>10. step \in [1 .. N + 1 -> [S -> S]] /\ \A n \in 1 .. N + 1, g \in S : step[n][g] = Grow(g)
  BY <1>5
<1> HIDE DEF step, S
<1>11. PICK h \in [0 .. N + 1 -> S] : h[0] = base /\ \A i \in 1 .. N + 1 : h[i] = Grow(h[i - 1])
  <2>1. HasCourse(S, base, N + 1, step)
    BY <1>4, <1>6, <1>10, Recursion
  <2>2. PICK h \in [0 .. N + 1 -> S] : h[0] = base /\ \A i \in 1 .. N + 1 : h[i] = step[i][h[i - 1]]
    BY <2>1 DEF HasCourse
  <2>3. \A i \in 1 .. N + 1 : h[i - 1] \in S
    BY <1>4
  <2> QED
    BY <1>10, <2>2, <2>3
<1>12. \A n \in 0 .. N + 1 : h[n] \in S /\ h[n][{}] = 0
  <2> TAKE n \in 0 .. N + 1
  <2>1. CASE n = 0
    BY <1>6, <1>11, <2>1
  <2>2. CASE n # 0
    <3>1. n \in 1 .. N + 1
      BY <1>4, <2>2
    <3> QED
      BY <1>7, <1>11, <3>1
  <2> QED
    BY <2>1, <2>2
<1> DEFINE Fixed(n) == \A T \in SUBSET D : Cardinality(T) <= n => h[n + 1][T] = h[n][T]
           All == {n \in Nat : n <= N => Fixed(n)}
<1>13. \A n \in Nat : n \in All
  <2>1. 0 \in All
    <3> SUFFICES ASSUME NEW T \in SUBSET D, Cardinality(T) <= 0 PROVE h[0 + 1][T] = h[0][T]
      OBVIOUS
    <3>1. T = {} /\ 1 \in 0 .. N + 1 /\ 0 \in 0 .. N + 1
      BY <1>3, <1>4
    <3> QED
      BY <1>12, <3>1
  <2>2. ASSUME NEW n \in Nat, n \in All PROVE n + 1 \in All
    <3> SUFFICES ASSUME n + 1 <= N, NEW T \in SUBSET D, Cardinality(T) <= n + 1
                 PROVE  h[(n + 1) + 1][T] = h[n + 1][T]
      OBVIOUS
    <3> DEFINE m == n + 1
    <3>1. /\ m \in 1 .. N + 1 /\ m + 1 \in 1 .. N + 1 /\ m - 1 = n /\ (m + 1) - 1 = m
          /\ m \in 0 .. N + 1 /\ m + 1 \in 0 .. N + 1
      BY <1>4
    <3>2. \A R \in SUBSET D : Cardinality(R) <= n => h[m][R] = h[n][R]
      BY <1>4, <2>2
    <3> HIDE DEF m
    <3>3. h[m] = Grow(h[n]) /\ h[m + 1] = Grow(h[m])
      BY <1>11, <3>1
    <3>4. CASE T = {}
      BY <1>12, <3>1, <3>4 DEF m
    <3>5. CASE T # {}
      <4> DEFINE R == T \ {First(T)}
      <4>1. R \in SUBSET D /\ Cardinality(R) <= n
        <5>1. /\ Cardinality(T) \in Nat /\ First(T) \in T /\ R \in SUBSET D
              /\ \A x \in T : Cardinality(T \ {x}) = Cardinality(T) - 1
          BY <1>3, <3>5
        <5> QED
          BY <5>1
      <4>2. h[m][T] = f[First(T)] + h[n][R] /\ h[m + 1][T] = f[First(T)] + h[m][R]
        BY <1>7, <3>3, <3>5
      <4> HIDE DEF R
      <4>3. h[m + 1][T] = h[m][T]
        BY <3>2, <4>1, <4>2
      <4> QED
        BY <4>3 DEF m
    <3> QED
      BY <3>4, <3>5
  <2> HIDE DEF All
  <2> QED
    BY <2>1, <2>2, Induction
<1>14. h[N] \in S /\ h[N] = Grow(h[N])
  <2>1. N + 1 \in 1 .. N + 1 /\ (N + 1) - 1 = N /\ N \in 0 .. N + 1 /\ N + 1 \in 0 .. N + 1
    BY <1>4
  <2>2. h[N + 1] = Grow(h[N]) /\ h[N + 1] \in S /\ h[N] \in S
    BY <1>11, <1>12, <2>1
  <2>3. \A T \in SUBSET D : h[N + 1][T] = h[N][T]
    BY <1>3, <1>4, <1>13
  <2>4. h[N + 1] = h[N]
    BY <1>8, <2>2, <2>3
  <2> QED
    BY <2>2, <2>4
<1>15. iter = Grow(iter)
  BY <1>14
<1> HIDE DEF iter
<1>16. \A T \in SUBSET D : T # {} => iter[T] = f[First(T)] + iter[T \ {First(T)}]
  BY <1>7, <1>15
<1>17. iter[{}] = 0
  BY <1>7, <1>15
<1> DEFINE Whole == {n \in Nat : \A T \in SUBSET D : Cardinality(T) = n => iter[T] \in Int}
<1>18. \A n \in Nat : n \in Whole
  <2>1. 0 \in Whole
    <3> SUFFICES ASSUME NEW T \in SUBSET D, Cardinality(T) = 0 PROVE iter[T] \in Int
      OBVIOUS
    <3>1. T = {}
      BY <1>3
    <3> QED
      BY <1>17, <3>1
  <2>2. ASSUME NEW n \in Nat, n \in Whole PROVE n + 1 \in Whole
    <3> SUFFICES ASSUME NEW T \in SUBSET D, Cardinality(T) = n + 1 PROVE iter[T] \in Int
      OBVIOUS
    <3> DEFINE R == T \ {First(T)}
    <3>1. T # {} /\ First(T) \in T /\ R \in SUBSET D /\ \A x \in T : Cardinality(T \ {x}) = Cardinality(T) - 1
      BY <1>3
    <3>2. iter[T] = f[First(T)] + iter[R]
      BY <1>16, <3>1
    <3>3. Cardinality(R) = n
      BY <3>1
    <3> HIDE DEF R
    <3>4. iter[R] \in Int /\ f[First(T)] \in Int
      BY <1>2, <2>2, <3>1, <3>3
    <3> QED
      BY <3>2, <3>4
  <2> HIDE DEF Whole
  <2> QED
    BY <2>1, <2>2, Induction
<1>19. \A T \in SUBSET D : iter[T] \in Int
  BY <1>3, <1>18
<1>20. Sums(f, iter) /\ SumFunction(f) = iter[DOMAIN f]
  BY <1>1, <1>16, <1>17, <1>19 DEF Sums, D
<1> QED
  BY <1>20 DEF HasSums

(* The sums of two families agree on what the families share.              *)
LEMMA SumsAgree ==
    ASSUME NEW f, NEW g, IsFiniteSet(DOMAIN f), IsFiniteSet(DOMAIN g),
           NEW sum, Sums(f, sum), NEW other, Sums(g, other),
           NEW T \in SUBSET DOMAIN f, T \subseteq DOMAIN g, \A x \in T : f[x] = g[x]
    PROVE  sum[T] = other[T]
<1> DEFINE All == {n \in Nat : \A R \in SUBSET T : Cardinality(R) = n => sum[R] = other[R]}
<1>1. IsFiniteSet(T) /\ Cardinality(T) \in Nat
  BY SubsetIs
<1>2. \A R \in SUBSET T : /\ Cardinality(R) \in Nat
                          /\ R = {} <=> Cardinality(R) = 0
                          /\ R # {} => First(R) \in R /\ R \ {First(R)} \in SUBSET T
                          /\ \A x \in R : Cardinality(R \ {x}) = Cardinality(R) - 1
  BY <1>1, SubsetIs
<1>3. \A n \in Nat : n \in All
  <2>1. 0 \in All
    <3> SUFFICES ASSUME NEW R \in SUBSET T, Cardinality(R) = 0 PROVE sum[R] = other[R]
      OBVIOUS
    <3>1. R = {}
      BY <1>2
    <3> QED
      BY <3>1 DEF Sums
  <2>2. ASSUME NEW n \in Nat, n \in All PROVE n + 1 \in All
    <3> SUFFICES ASSUME NEW R \in SUBSET T, Cardinality(R) = n + 1 PROVE sum[R] = other[R]
      OBVIOUS
    <3> DEFINE x == First(R)
               Q == R \ {x}
    <3>1. R # {} /\ x \in R /\ Q \in SUBSET T /\ Cardinality(Q) = n
      <4>1. R # {}
        BY <1>2
      <4>2. x \in R /\ Q \in SUBSET T /\ \A y \in R : Cardinality(R \ {y}) = Cardinality(R) - 1
        BY <1>2, <4>1
      <4> QED
        BY <4>1, <4>2
    <3>2. sum[R] = f[x] + sum[Q] /\ other[R] = g[x] + other[Q]
      BY <3>1 DEF Sums
    <3> HIDE DEF Q, x
    <3>3. sum[Q] = other[Q] /\ f[x] = g[x]
      BY <2>2, <3>1
    <3> QED
      BY <3>2, <3>3
  <2> HIDE DEF All
  <2> QED
    BY <2>1, <2>2, Induction
<1> QED
  BY <1>1, <1>3

(* Any element can be taken first.                                         *)
LEMMA SumsRemove ==
    ASSUME NEW f, IsFiniteSet(DOMAIN f), f \in [DOMAIN f -> Int], NEW sum, Sums(f, sum),
           NEW T \in SUBSET DOMAIN f, NEW x \in T
    PROVE  sum[T] = f[x] + sum[T \ {x}]
<1> DEFINE All == {n \in Nat : \A R \in SUBSET T : Cardinality(R) = n => \A y \in R : sum[R] = f[y] + sum[R \ {y}]}
<1>1. IsFiniteSet(T) /\ Cardinality(T) \in Nat
  BY SubsetIs
<1>2. \A R \in SUBSET T : /\ Cardinality(R) \in Nat
                          /\ R = {} <=> Cardinality(R) = 0
                          /\ R # {} => First(R) \in R /\ R \ {First(R)} \in SUBSET T
                          /\ \A y \in R : Cardinality(R \ {y}) = Cardinality(R) - 1
  BY <1>1, SubsetIs
<1>3. \A n \in Nat : n \in All
  <2>1. 0 \in All
    BY <1>2
  <2>2. ASSUME NEW n \in Nat, n \in All PROVE n + 1 \in All
    <3> SUFFICES ASSUME NEW R \in SUBSET T, Cardinality(R) = n + 1, NEW y \in R
                 PROVE  sum[R] = f[y] + sum[R \ {y}]
      OBVIOUS
    <3> DEFINE c == First(R)
               A == R \ {c}
               B == R \ {y}
               C == A \ {y}
    <3>1. R # {} /\ c \in R /\ A \in SUBSET T /\ B \in SUBSET T /\ Cardinality(A) = n /\ Cardinality(B) = n
      <4>1. R # {}
        BY <1>2
      <4>2. c \in R /\ A \in SUBSET T /\ \A z \in R : Cardinality(R \ {z}) = Cardinality(R) - 1
        BY <1>2, <4>1
      <4> QED
        BY <4>1, <4>2
    <3>2. sum[R] = f[c] + sum[A]
      BY <3>1 DEF Sums
    <3>3. CASE y = c
      BY <3>2, <3>3
    <3>4. CASE y # c
      <4>1. y \in A /\ c \in B /\ B \ {c} = C /\ C \in SUBSET DOMAIN f
        BY <3>1, <3>4
      <4>2. sum[A] = f[y] + sum[C]
        BY <2>2, <3>1, <4>1
      <4>3. sum[B] = f[c] + sum[C]
        BY <2>2, <3>1, <4>1
      <4>4. f[y] \in Int /\ f[c] \in Int /\ sum[C] \in Int
        BY <3>1, <4>1 DEF Sums
      <4> HIDE DEF A, B, C, c
      <4>5. sum[R] = f[y] + sum[B]
        BY <3>2, <4>2, <4>3, <4>4
      <4> QED
        BY <4>5 DEF B
    <3> QED
      BY <3>3, <3>4
  <2> HIDE DEF All
  <2> QED
    BY <2>1, <2>2, Induction
<1> QED
  BY <1>1, <1>3

(* The sum of what a function has on a set: an element, whichever, and the *)
(* rest.                                                                   *)
SumOver(f, T) == SumFunction([x \in T |-> f[x]])

(* A sum, by any element and the others.                                   *)
LEMMA SumOverIs ==
    ASSUME NEW D, IsFiniteSet(D), NEW f \in [D -> Int], NEW T \in SUBSET D
    PROVE  /\ SumOver(f, T) \in Int
           /\ T = {} => SumOver(f, T) = 0
           /\ \A x \in T : SumOver(f, T) = f[x] + SumOver(f, T \ {x})
<1>1. DOMAIN f = D /\ f \in [DOMAIN f -> Int] /\ IsFiniteSet(DOMAIN f)
  OBVIOUS
<1>2. PICK sum : Sums(f, sum)
  BY <1>1, SumsExist DEF HasSums
<1>3. ASSUME NEW R \in SUBSET D PROVE SumOver(f, R) = sum[R]
  <2> DEFINE g == [x \in R |-> f[x]]
  <2>1. DOMAIN g = R /\ g \in [DOMAIN g -> Int] /\ (\A x \in R : g[x] = f[x]) /\ IsFiniteSet(DOMAIN g)
    BY FS_Subset
  <2>2. SumOver(f, R) = SumFunction(g)
    BY DEF SumOver
  <2> HIDE DEF g
  <2>3. PICK other : Sums(g, other) /\ SumFunction(g) = other[DOMAIN g]
    BY <2>1, SumsExist DEF HasSums
  <2>4. R \in SUBSET DOMAIN f /\ R \subseteq DOMAIN g /\ \A x \in R : f[x] = g[x]
    BY <1>1, <2>1
  <2>5. sum[R] = other[R]
    BY <1>1, <1>2, <2>1, <2>3, <2>4, SumsAgree
  <2> QED
    BY <2>1, <2>2, <2>3, <2>5
<1>4. SumOver(f, T) = sum[T] /\ sum[T] \in Int /\ (T = {} => sum[T] = 0)
  BY <1>1, <1>2, <1>3 DEF Sums
<1>5. ASSUME NEW x \in T PROVE SumOver(f, T) = f[x] + SumOver(f, T \ {x})
  <2>1. sum[T] = f[x] + sum[T \ {x}]
    BY <1>1, <1>2, SumsRemove
  <2>2. T \ {x} \in SUBSET D
    OBVIOUS
  <2> QED
    BY <1>3, <1>4, <2>1, <2>2
<1> QED
  BY <1>4, <1>5

(* Families that agree on a set have one sum over it.                      *)
LEMMA SumOfSame ==
    ASSUME NEW f, NEW g, NEW T, \A x \in T : f[x] = g[x]
    PROVE  SumOver(f, T) = SumOver(g, T)
<1>1. [x \in T |-> f[x]] = [x \in T |-> g[x]]
  OBVIOUS
<1> QED
  BY <1>1 DEF SumOver

(* Of smaller numbers the sum is no greater.                               *)
LEMMA SumBounds ==
    ASSUME NEW D, IsFiniteSet(D), NEW f \in [D -> Int], NEW g \in [D -> Int], NEW T \in SUBSET D,
           \A x \in T : 0 <= f[x] /\ f[x] <= g[x]
    PROVE  0 <= SumOver(f, T) /\ SumOver(f, T) <= SumOver(g, T)
<1> DEFINE Fine(R) == 0 <= SumOver(f, R) /\ SumOver(f, R) <= SumOver(g, R)
           All == {n \in Nat : \A R \in SUBSET T : Cardinality(R) = n => Fine(R)}
<1>1. \A R \in SUBSET T : /\ R \in SUBSET D /\ Cardinality(R) \in Nat
                          /\ R = {} <=> Cardinality(R) = 0
                          /\ \A x \in R : Cardinality(R \ {x}) = Cardinality(R) - 1
  <2> TAKE R \in SUBSET T
  <2>1. R \in SUBSET D
    OBVIOUS
  <2> QED
    BY <2>1, SubsetIs
<1>2. \A n \in Nat : n \in All
  <2>1. 0 \in All
    <3> SUFFICES ASSUME NEW R \in SUBSET T, Cardinality(R) = 0 PROVE Fine(R)
      OBVIOUS
    <3>1. R = {} /\ R \in SUBSET D
      BY <1>1
    <3>2. SumOver(f, R) = 0 /\ SumOver(g, R) = 0
      BY <3>1, SumOverIs
    <3> QED
      BY <3>2
  <2>2. ASSUME NEW n \in Nat, n \in All PROVE n + 1 \in All
    <3> SUFFICES ASSUME NEW R \in SUBSET T, Cardinality(R) = n + 1 PROVE Fine(R)
      OBVIOUS
    <3>1. R # {} /\ R \in SUBSET D
      BY <1>1
    <3>2. PICK x \in R : TRUE
      BY <3>1
    <3> DEFINE Q == R \ {x}
    <3>3. Q \in SUBSET T /\ Q \in SUBSET D /\ Cardinality(Q) = n
      BY <1>1, <3>1
    <3>4. SumOver(f, R) = f[x] + SumOver(f, Q) /\ SumOver(g, R) = g[x] + SumOver(g, Q)
      BY <3>1, SumOverIs
    <3> HIDE DEF Q
    <3>5. SumOver(f, Q) \in Int /\ SumOver(g, Q) \in Int
      BY <3>3, SumOverIs
    <3>6. Fine(Q)
      BY <2>2, <3>3
    <3>7. f[x] \in Int /\ g[x] \in Int /\ 0 <= f[x] /\ f[x] <= g[x]
      BY <3>1
    <3> QED
      BY <3>4, <3>5, <3>6, <3>7
  <2> HIDE DEF All
  <2> QED
    BY <2>1, <2>2, Induction
<1> QED
  BY <1>1, <1>2

(* Where every member is 0, so is the sum.                                 *)
LEMMA SumOfNothing ==
    ASSUME NEW D, IsFiniteSet(D), NEW f \in [D -> Int], \A x \in D : f[x] = 0
    PROVE  SumOver(f, D) = 0
<1> DEFINE All == {n \in Nat : \A R \in SUBSET D : Cardinality(R) = n => SumOver(f, R) = 0}
<1>1. \A R \in SUBSET D : /\ Cardinality(R) \in Nat
                          /\ R = {} <=> Cardinality(R) = 0
                          /\ \A x \in R : Cardinality(R \ {x}) = Cardinality(R) - 1
  BY SubsetIs
<1>2. \A n \in Nat : n \in All
  <2>1. 0 \in All
    <3> SUFFICES ASSUME NEW R \in SUBSET D, Cardinality(R) = 0 PROVE SumOver(f, R) = 0
      OBVIOUS
    <3>1. R = {}
      BY <1>1
    <3> QED
      BY <3>1, SumOverIs
  <2>2. ASSUME NEW n \in Nat, n \in All PROVE n + 1 \in All
    <3> SUFFICES ASSUME NEW R \in SUBSET D, Cardinality(R) = n + 1 PROVE SumOver(f, R) = 0
      OBVIOUS
    <3>1. R # {}
      BY <1>1
    <3>2. PICK x \in R : TRUE
      BY <3>1
    <3> DEFINE Q == R \ {x}
    <3>3. Q \in SUBSET D /\ Cardinality(Q) = n
      BY <1>1
    <3>4. SumOver(f, R) = f[x] + SumOver(f, Q)
      BY SumOverIs
    <3> HIDE DEF Q
    <3>5. SumOver(f, Q) = 0 /\ f[x] = 0
      BY <2>2, <3>3
    <3> QED
      BY <3>4, <3>5
  <2> HIDE DEF All
  <2> QED
    BY <2>1, <2>2, Induction
<1>3. D \in SUBSET D /\ Cardinality(D) \in Nat
  BY <1>1
<1> QED
  BY <1>2, <1>3

(* As many as there are ones.                                              *)
Ones(D) == [x \in D |-> 1]

(* A count is a sum of ones.                                               *)
LEMMA CountIsSum ==
    ASSUME NEW D, IsFiniteSet(D), NEW T \in SUBSET D
    PROVE  SumOver(Ones(D), T) = Cardinality(T)
<1> DEFINE f == Ones(D)
           All == {n \in Nat : \A R \in SUBSET T : Cardinality(R) = n => SumOver(f, R) = n}
<1>1. f \in [D -> Int] /\ \A x \in D : f[x] = 1
  BY DEF Ones
<1> HIDE DEF f
<1>2. \A R \in SUBSET T : /\ R \in SUBSET D /\ Cardinality(R) \in Nat
                          /\ R = {} <=> Cardinality(R) = 0
                          /\ \A x \in R : Cardinality(R \ {x}) = Cardinality(R) - 1
  <2> TAKE R \in SUBSET T
  <2>1. R \in SUBSET D
    OBVIOUS
  <2> QED
    BY <2>1, SubsetIs
<1>3. \A n \in Nat : n \in All
  <2>1. 0 \in All
    <3> SUFFICES ASSUME NEW R \in SUBSET T, Cardinality(R) = 0 PROVE SumOver(f, R) = 0
      OBVIOUS
    <3>1. R = {} /\ R \in SUBSET D
      BY <1>2
    <3> QED
      BY <1>1, <3>1, SumOverIs
  <2>2. ASSUME NEW n \in Nat, n \in All PROVE n + 1 \in All
    <3> SUFFICES ASSUME NEW R \in SUBSET T, Cardinality(R) = n + 1 PROVE SumOver(f, R) = n + 1
      OBVIOUS
    <3>1. R # {} /\ R \in SUBSET D
      BY <1>2
    <3>2. PICK x \in R : TRUE
      BY <3>1
    <3> DEFINE Q == R \ {x}
    <3>3. Q \in SUBSET T /\ Cardinality(Q) = n
      BY <1>2, <3>1
    <3>4. SumOver(f, R) = f[x] + SumOver(f, Q)
      BY <1>1, <3>1, SumOverIs
    <3> HIDE DEF Q
    <3>5. SumOver(f, Q) = n /\ f[x] = 1
      BY <1>1, <2>2, <3>1, <3>3
    <3> QED
      BY <3>4, <3>5
  <2> HIDE DEF All
  <2> QED
    BY <2>1, <2>2, Induction
<1>4. T \in SUBSET T /\ Cardinality(T) \in Nat
  BY <1>2
<1>5. SumOver(f, T) = Cardinality(T)
  BY <1>3, <1>4
<1> QED
  BY <1>5 DEF f

(* The sums of groups add up to the sum: an element counts in the one      *)
(* group of its key.                                                       *)
GroupOf(T, key, k) == {x \in T : key[x] = k}
GroupSums(f, T, key, K) == [k \in K |-> SumOver(f, GroupOf(T, key, k))]

(* Rows in groups by a name, each group added up, add up to all rows.      *)
LEMMA GroupsAddUp ==
    ASSUME NEW D, IsFiniteSet(D), NEW f \in [D -> Int], NEW K, IsFiniteSet(K), NEW key \in [D -> K],
           NEW T \in SUBSET D
    PROVE  SumOver(f, T) = SumOver(GroupSums(f, T, key, K), K)
<1> DEFINE Of(R) == GroupSums(f, R, key, K)
           All == {n \in Nat : \A R \in SUBSET T : Cardinality(R) = n => SumOver(f, R) = SumOver(Of(R), K)}
<1>1. \A R \in SUBSET T : /\ R \in SUBSET D /\ Cardinality(R) \in Nat
                          /\ R = {} <=> Cardinality(R) = 0
                          /\ \A x \in R : Cardinality(R \ {x}) = Cardinality(R) - 1
  <2> TAKE R \in SUBSET T
  <2>1. R \in SUBSET D
    OBVIOUS
  <2> QED
    BY <2>1, SubsetIs
<1>2. ASSUME NEW R \in SUBSET D
      PROVE  Of(R) \in [K -> Int] /\ \A k \in K : Of(R)[k] = SumOver(f, GroupOf(R, key, k))
  <2>1. \A k \in K : GroupOf(R, key, k) \in SUBSET D
    BY DEF GroupOf
  <2>2. \A k \in K : SumOver(f, GroupOf(R, key, k)) \in Int
    BY <2>1, SumOverIs
  <2> QED
    BY <2>2 DEF GroupSums
<1> HIDE DEF Of
<1>3. \A n \in Nat : n \in All
  <2>1. 0 \in All
    <3> SUFFICES ASSUME NEW R \in SUBSET T, Cardinality(R) = 0 PROVE SumOver(f, R) = SumOver(Of(R), K)
      OBVIOUS
    <3>1. R = {} /\ R \in SUBSET D
      BY <1>1
    <3>2. SumOver(f, R) = 0
      BY <3>1, SumOverIs
    <3>3. \A k \in K : GroupOf(R, key, k) = R
      BY <3>1 DEF GroupOf
    <3>4. Of(R) \in [K -> Int] /\ \A k \in K : Of(R)[k] = 0
      BY <1>2, <3>1, <3>2, <3>3
    <3>5. SumOver(Of(R), K) = 0
      BY <3>4, SumOfNothing
    <3> QED
      BY <3>2, <3>5
  <2>2. ASSUME NEW n \in Nat, n \in All PROVE n + 1 \in All
    <3> SUFFICES ASSUME NEW R \in SUBSET T, Cardinality(R) = n + 1 PROVE SumOver(f, R) = SumOver(Of(R), K)
      OBVIOUS
    <3>1. R # {} /\ R \in SUBSET D
      BY <1>1
    <3>2. PICK x \in R : TRUE
      BY <3>1
    <3> DEFINE Q == R \ {x}
               c == key[x]
               rest == K \ {c}
    <3>3. Q \in SUBSET T /\ Q \in SUBSET D /\ Cardinality(Q) = n
      BY <1>1, <3>1
    <3>4. SumOver(f, R) = f[x] + SumOver(f, Q) /\ f[x] \in Int
      BY <3>1, SumOverIs
    <3>5. c \in K /\ c = key[x]
      BY <3>1
    <3>6. ASSUME NEW k \in rest PROVE Of(R)[k] = Of(Q)[k]
      <4>1. GroupOf(R, key, k) = GroupOf(Q, key, k)
        BY <3>5 DEF GroupOf
      <4> QED
        BY <1>2, <3>1, <3>3, <4>1
    <3>7. Of(R)[c] = f[x] + Of(Q)[c]
      <4> DEFINE one == GroupOf(R, key, c)
                 two == GroupOf(Q, key, c)
      <4>1. x \in one /\ one \in SUBSET D /\ one \ {x} = two
        BY <3>1 DEF GroupOf
      <4>2. Of(R)[c] = SumOver(f, one) /\ Of(Q)[c] = SumOver(f, two)
        BY <1>2, <3>1, <3>3, <3>5
      <4> HIDE DEF one, two
      <4>3. SumOver(f, one) = f[x] + SumOver(f, one \ {x})
        BY <4>1, SumOverIs
      <4> QED
        BY <4>1, <4>2, <4>3
    <3>8. Of(R) \in [K -> Int] /\ Of(Q) \in [K -> Int]
      BY <1>2, <3>1, <3>3
    <3> HIDE DEF c
    <3>9. /\ SumOver(Of(R), K) = Of(R)[c] + SumOver(Of(R), rest)
          /\ SumOver(Of(Q), K) = Of(Q)[c] + SumOver(Of(Q), rest)
      <4> DEFINE one == Of(R)
                 two == Of(Q)
      <4> HIDE DEF one, two
      <4>1. one \in [K -> Int] /\ two \in [K -> Int] /\ K \in SUBSET K
        BY <3>8 DEF one, two
      <4>2. SumOver(one, K) = one[c] + SumOver(one, K \ {c})
        BY <3>5, <4>1, SumOverIs
      <4>3. SumOver(two, K) = two[c] + SumOver(two, K \ {c})
        BY <3>5, <4>1, SumOverIs
      <4> QED
        BY <4>2, <4>3 DEF one, two
    <3>10. SumOver(Of(R), rest) = SumOver(Of(Q), rest)
      BY <3>6, SumOfSame
    <3>11. SumOver(Of(Q), rest) \in Int /\ Of(Q)[c] \in Int
      BY <3>5, <3>8, SumOverIs
    <3> HIDE DEF Q, rest
    <3>12. SumOver(f, Q) = SumOver(Of(Q), K)
      BY <2>2, <3>3
    <3> QED
      BY <3>4, <3>7, <3>9, <3>10, <3>11, <3>12
  <2> HIDE DEF All
  <2> QED
    BY <2>1, <2>2, Induction
<1>4. T \in SUBSET T /\ Cardinality(T) \in Nat
  BY <1>1
<1>5. SumOver(f, T) = SumOver(Of(T), K)
  BY <1>3, <1>4
<1> QED
  BY <1>5 DEF Of

(* The lines of a table, one for each key, add up to the sum of all.       *)
LEMMA TableAddsUp ==
    ASSUME NEW D, IsFiniteSet(D), NEW f \in [D -> Int], NEW K, IsFiniteSet(K), NEW key \in [D -> K],
           NEW T \in SUBSET D, NEW table, DOMAIN table = K, table = [k \in K |-> table[k]],
           \A k \in K : table[k] = SumOver(f, GroupOf(T, key, k))
    PROVE  SumFunction(table) = SumOver(f, T)
<1> DEFINE sums == GroupSums(f, T, key, K)
<1>1. SumOver(f, T) = SumOver(sums, K)
  BY GroupsAddUp
<1>2. \A k \in K : table[k] = sums[k]
  BY DEF GroupSums
<1>3. SumOver(table, K) = SumOver(sums, K)
  <2> HIDE DEF sums
  <2> QED
    BY <1>2, SumOfSame
<1>4. SumOver(table, K) = SumFunction(table)
  BY DEF SumOver
<1> QED
  BY <1>1, <1>3, <1>4

-----------------------------------------------------------------------------
(* The report                                                              *)

(* The rows of a log, and what is summed of them.                          *)
Counted(log) ==
    /\ Len(log) \in Nat /\ DOMAIN log = 1 .. Len(log)
    /\ \A i \in DOMAIN log : log[i].duration \in Nat /\ log[i].origin \in Nat /\ log[i].actual \in Nat
Durations(log) == [i \in DOMAIN log |-> log[i].duration]
Savings(log) == [i \in DOMAIN log |-> SavedTokens(log[i])]
Origins(log) == [i \in DOMAIN log |-> Clamp(log[i].origin)]

(* The totals of a report as sums over places of the log,                  *)
LEMMA TotalsAre ==
    ASSUME NEW log, NEW own \in SUBSET DOMAIN log
    PROVE  /\ Latency(log, own) = SumOver(Durations(log), own)
           /\ Saved(log, own) = SumOver(Savings(log), own)
           /\ Origin(log, own) = SumOver(Origins(log), own)
<1>1. [i \in own |-> log[i].duration] = [i \in own |-> Durations(log)[i]]
  BY DEF Durations
<1>2. [i \in own |-> SavedTokens(log[i])] = [i \in own |-> Savings(log)[i]]
  BY DEF Savings
<1>3. [i \in own |-> Clamp(log[i].origin)] = [i \in own |-> Origins(log)[i]]
  BY DEF Origins
<1> QED
  BY <1>1, <1>2, <1>3, Zenon DEF Latency, Saved, Origin, SumOver

(* whose rows have numbers to add.                                         *)
LEMMA RowsAre ==
    ASSUME NEW log, Counted(log)
    PROVE  /\ IsFiniteSet(DOMAIN log) /\ Cardinality(DOMAIN log) = Len(log)
           /\ Durations(log) \in [DOMAIN log -> Int]
           /\ Savings(log) \in [DOMAIN log -> Int]
           /\ Origins(log) \in [DOMAIN log -> Int]
           /\ \A i \in DOMAIN log : 0 <= Savings(log)[i] /\ Savings(log)[i] <= Origins(log)[i]
<1> DEFINE D == DOMAIN log
<1>1. D = 1 .. Len(log) /\ Len(log) \in Nat
      /\ \A i \in D : log[i].duration \in Nat /\ log[i].origin \in Nat /\ log[i].actual \in Nat
  BY DEF Counted
<1>2. IsFiniteSet(1 .. Len(log)) /\ Cardinality(1 .. Len(log)) = Len(log)
  BY <1>1, FS_Interval
<1> HIDE DEF D
<1>3. IsFiniteSet(D) /\ Cardinality(D) = Len(log)
  BY <1>1, <1>2
<1>4. \A i \in D : /\ SavedTokens(log[i]) \in Int /\ Clamp(log[i].origin) \in Int
                   /\ 0 <= SavedTokens(log[i]) /\ SavedTokens(log[i]) <= Clamp(log[i].origin)
  BY <1>1 DEF SavedTokens, Clamp
<1>5. Durations(log) \in [D -> Int]
  BY <1>1 DEF Durations, D
<1>6. Savings(log) \in [D -> Int] /\ \A i \in D : Savings(log)[i] = SavedTokens(log[i])
  BY <1>4 DEF Savings, D
<1>7. Origins(log) \in [D -> Int] /\ \A i \in D : Origins(log)[i] = Clamp(log[i].origin)
  BY <1>4 DEF Origins, D
<1>8. \A i \in D : 0 <= Savings(log)[i] /\ Savings(log)[i] <= Origins(log)[i]
  BY <1>4, <1>6, <1>7
<1> QED
  BY <1>3, <1>5, <1>6, <1>7, <1>8 DEF D

(* What a line of either table, or the summary, says.                      *)
LEMMA LinesAre ==
    ASSUME NEW log
    PROVE  /\ \A tool : /\ ToolMetrics(log, tool).calls = Cardinality(RowsOf(log, tool))
                        /\ ToolMetrics(log, tool).errors = Errors(log, RowsOf(log, tool))
                        /\ ToolMetrics(log, tool).latency = Latency(log, RowsOf(log, tool))
                        /\ ToolMetrics(log, tool).saved = Saved(log, EligibleRows(log, RowsOf(log, tool)))
           /\ SummaryMetrics(log).calls = Cardinality(DOMAIN log)
           /\ SummaryMetrics(log).errors = Errors(log, DOMAIN log)
           /\ SummaryMetrics(log).latency = Latency(log, DOMAIN log)
           /\ SummaryMetrics(log).saved = Saved(log, EligibleRows(log, DOMAIN log))
           /\ SummaryMetrics(log).origin = Origin(log, EligibleRows(log, DOMAIN log))
<1>1. ASSUME NEW tool
      PROVE  /\ ToolMetrics(log, tool).calls = Cardinality(RowsOf(log, tool))
             /\ ToolMetrics(log, tool).errors = Errors(log, RowsOf(log, tool))
             /\ ToolMetrics(log, tool).latency = Latency(log, RowsOf(log, tool))
             /\ ToolMetrics(log, tool).saved = Saved(log, EligibleRows(log, RowsOf(log, tool)))
  BY DEF ToolMetrics
<1>2. /\ SummaryMetrics(log).calls = Cardinality(DOMAIN log)
      /\ SummaryMetrics(log).errors = Errors(log, DOMAIN log)
      /\ SummaryMetrics(log).latency = Latency(log, DOMAIN log)
      /\ SummaryMetrics(log).saved = Saved(log, EligibleRows(log, DOMAIN log))
      /\ SummaryMetrics(log).origin = Origin(log, EligibleRows(log, DOMAIN log))
  BY DEF SummaryMetrics
<1> QED
  BY <1>1, <1>2

(* The tools' lines add up to the summary: every row counts under one tool. *)
LEMMA ToolsAddUp ==
    ASSUME NEW log, Counted(log)
    PROVE  LET tools == {log[i].tool : i \in DOMAIN log}
               sum == SummaryMetrics(log)
           IN  /\ sum.calls = SumFunction([t \in tools |-> ToolMetrics(log, t).calls])
               /\ sum.errors = SumFunction([t \in tools |-> ToolMetrics(log, t).errors])
               /\ sum.latency = SumFunction([t \in tools |-> ToolMetrics(log, t).latency])
               /\ sum.saved = SumFunction([t \in tools |-> ToolMetrics(log, t).saved])
<1> DEFINE D == DOMAIN log
           K == {log[i].tool : i \in DOMAIN log}
           key == [i \in D |-> log[i].tool]
           calls == [t \in K |-> ToolMetrics(log, t).calls]
           errors == [t \in K |-> ToolMetrics(log, t).errors]
           latency == [t \in K |-> ToolMetrics(log, t).latency]
           saved == [t \in K |-> ToolMetrics(log, t).saved]
<1>1. /\ IsFiniteSet(D) /\ Durations(log) \in [D -> Int] /\ Savings(log) \in [D -> Int]
      /\ Ones(D) \in [D -> Int]
  BY RowsAre DEF Ones
<1>2. key \in [D -> K] /\ key \in Surjection(D, K)
  BY DEF Surjection
<1>3. \A t : RowsOf(log, t) = GroupOf(D, key, t)
  BY DEF RowsOf, GroupOf
<1>4. \A T \in SUBSET D : \A t : GroupOf(T, key, t) \in SUBSET D
  BY DEF GroupOf
<1>5. /\ DOMAIN calls = K /\ calls = [t \in K |-> calls[t]] /\ \A t \in K : calls[t] = Cardinality(RowsOf(log, t))
  BY LinesAre
<1>6. /\ DOMAIN errors = K /\ errors = [t \in K |-> errors[t]] /\ \A t \in K : errors[t] = Errors(log, RowsOf(log, t))
  BY LinesAre
<1>7. /\ DOMAIN latency = K /\ latency = [t \in K |-> latency[t]]
      /\ \A t \in K : latency[t] = Latency(log, RowsOf(log, t))
  BY LinesAre
<1>8. /\ DOMAIN saved = K /\ saved = [t \in K |-> saved[t]]
      /\ \A t \in K : saved[t] = Saved(log, EligibleRows(log, RowsOf(log, t)))
  BY LinesAre
<1> DEFINE failed == {i \in D : ~ log[i].ok}
           eligible == EligibleRows(log, D)
<1>9. /\ failed \in SUBSET D /\ Cardinality(failed) = Errors(log, D)
      /\ \A t : Errors(log, RowsOf(log, t)) = Cardinality(GroupOf(failed, key, t))
  <2>1. \A t : {i \in RowsOf(log, t) : ~ log[i].ok} = GroupOf(failed, key, t)
    BY <1>3 DEF GroupOf
  <2> QED
    BY <2>1 DEF Errors
<1>10. /\ eligible \in SUBSET D
       /\ \A t : EligibleRows(log, RowsOf(log, t)) = GroupOf(eligible, key, t)
  BY <1>3 DEF EligibleRows, GroupOf
<1> HIDE DEF D, K, key, calls, errors, latency, saved, failed, eligible
<1>11. IsFiniteSet(K) /\ D \in SUBSET D
  BY <1>1, <1>2, FS_Surjection
<1>12. SumFunction(calls) = SummaryMetrics(log).calls
  <2>1. \A t \in K : calls[t] = SumOver(Ones(D), GroupOf(D, key, t))
    BY <1>1, <1>3, <1>4, <1>5, <1>11, CountIsSum
  <2>2. SumFunction(calls) = SumOver(Ones(D), D)
    BY <1>1, <1>2, <1>5, <1>11, <2>1, TableAddsUp
  <2> QED
    BY <1>1, <1>11, <2>2, CountIsSum, LinesAre DEF D
<1>13. SumFunction(errors) = SummaryMetrics(log).errors
  <2>1. \A t \in K : errors[t] = SumOver(Ones(D), GroupOf(failed, key, t))
    BY <1>1, <1>4, <1>6, <1>9, CountIsSum
  <2>2. SumFunction(errors) = SumOver(Ones(D), failed)
    BY <1>1, <1>2, <1>6, <1>9, <1>11, <2>1, TableAddsUp
  <2> QED
    BY <1>1, <1>9, <2>2, CountIsSum, LinesAre DEF D
<1>14. SumFunction(latency) = SummaryMetrics(log).latency
  <2>1. \A T \in SUBSET D : Latency(log, T) = SumOver(Durations(log), T)
    BY TotalsAre DEF D
  <2>2. \A t \in K : latency[t] = SumOver(Durations(log), GroupOf(D, key, t))
    BY <1>3, <1>4, <1>7, <1>11, <2>1
  <2>3. SumFunction(latency) = SumOver(Durations(log), D)
    BY <1>1, <1>2, <1>7, <1>11, <2>2, TableAddsUp
  <2> QED
    BY <1>11, <2>1, <2>3, LinesAre DEF D
<1>15. SumFunction(saved) = SummaryMetrics(log).saved
  <2>1. \A T \in SUBSET D : Saved(log, T) = SumOver(Savings(log), T)
    BY TotalsAre DEF D
  <2>2. \A t \in K : saved[t] = SumOver(Savings(log), GroupOf(eligible, key, t))
    BY <1>4, <1>8, <1>10, <2>1
  <2>3. SumFunction(saved) = SumOver(Savings(log), eligible)
    BY <1>1, <1>2, <1>8, <1>10, <1>11, <2>2, TableAddsUp
  <2> QED
    BY <1>10, <2>1, <2>3, LinesAre DEF D, eligible
<1> QED
  BY <1>12, <1>13, <1>14, <1>15 DEF calls, errors, latency, saved, K

(* A table as long as the log holds every command.                         *)
LEMMA AllCommandsShown ==
    ASSUME NEW log, Counted(log)
    PROVE  LET top == TopShellCommands(log, Len(log))
               names == ShellCommands(log)
           IN  /\ IsFiniteSet(names)
               /\ DOMAIN top = names /\ top = [n \in names |-> top[n]]
               /\ \A n \in names : top[n] = ShellCommandMetrics(log, n)
<1> DEFINE own == RowsOf(log, "so_shell")
           names == ShellCommands(log)
           key == [i \in own |-> ClassifyShellCommand(log[i])]
           line == [n \in names |-> ShellCommandMetrics(log, n)]
           Above(m, n) == \/ line[m].saved > line[n].saved
                          \/ line[m].saved = line[n].saved /\ line[m].calls > line[n].calls
           shown == IF Len(log) < 1 THEN 1 ELSE Len(log)
           Fits(ns) == /\ Cardinality(ns) = shown \/ (ns = names /\ Cardinality(names) < shown)
                       /\ \A m \in names \ ns, n \in ns : ~ Above(m, n)
           top == CHOOSE ns \in SUBSET names : Fits(ns)
<1>1. key \in Surjection(own, names)
  BY DEF Surjection, ShellCommands
<1>2. own \in SUBSET DOMAIN log /\ IsFiniteSet(DOMAIN log) /\ Cardinality(DOMAIN log) = Len(log) /\ Len(log) \in Nat
  BY RowsAre DEF RowsOf, Counted
<1>3. TopShellCommands(log, Len(log)) = [n \in top |-> line[n]]
  BY Zenon DEF TopShellCommands
<1> HIDE DEF own, key, names, Above, line
<1>4. IsFiniteSet(own) /\ Cardinality(own) <= Len(log) /\ Cardinality(own) \in Nat
  BY <1>2, FS_Subset, FS_CardinalityType
<1>5. IsFiniteSet(names) /\ Cardinality(names) <= Cardinality(own) /\ Cardinality(names) \in Nat
  BY <1>1, <1>4, FS_Surjection, FS_CardinalityType
<1>6. shown \in Nat /\ Cardinality(names) <= shown
  BY <1>2, <1>4, <1>5
<1> HIDE DEF shown
<1>7. Fits(names)
  BY <1>5, <1>6
<1>8. top \in SUBSET names /\ Fits(top)
  <2> HIDE DEF Fits
  <2> QED
    BY <1>7
<1> HIDE DEF top
<1>9. top = names
  <2>1. CASE Cardinality(top) = shown
    <3>1. Cardinality(top) <= Cardinality(names) /\ (Cardinality(names) = Cardinality(top) => names = top)
      BY <1>5, <1>8, FS_Subset
    <3> QED
      BY <1>5, <1>6, <2>1, <3>1
  <2>2. CASE Cardinality(top) # shown
    BY <1>8, <2>2
  <2> QED
    BY <2>1, <2>2
<1>10. TopShellCommands(log, Len(log)) = [n \in names |-> line[n]]
  BY <1>3, <1>9
<1>11. \A n \in names : line[n] = ShellCommandMetrics(log, n)
  BY DEF line
<1> DEFINE table == TopShellCommands(log, Len(log))
<1> HIDE DEF table
<1>12. DOMAIN table = names /\ table = [n \in names |-> table[n]] /\ \A n \in names : table[n] = ShellCommandMetrics(log, n)
  <2>1. table = [n \in names |-> line[n]]
    BY <1>10 DEF table
  <2> QED
    BY <1>11, <2>1
<1> QED
  BY <1>5, <1>12 DEF table, names

(* The commands' lines add up to the line of so_shell: every one of its    *)
(* rows is eligible, and counts under one name.                            *)
LEMMA CommandsAddUp ==
    ASSUME NEW log, Counted(log)
    PROVE  LET top == TopShellCommands(log, Len(log))
           IN  /\ ToolMetrics(log, "so_shell").saved = SumFunction([n \in DOMAIN top |-> top[n].saved])
               /\ ToolMetrics(log, "so_shell").calls = SumFunction([n \in DOMAIN top |-> top[n].calls])
<1> DEFINE D == DOMAIN log
           own == RowsOf(log, "so_shell")
           K == ShellCommands(log)
           key == [i \in own |-> ClassifyShellCommand(log[i])]
           top == TopShellCommands(log, Len(log))
           saved == [n \in DOMAIN top |-> top[n].saved]
           calls == [n \in DOMAIN top |-> top[n].calls]
           f == [i \in own |-> Savings(log)[i]]
<1>1. IsFiniteSet(K) /\ DOMAIN top = K /\ \A n \in K : top[n] = ShellCommandMetrics(log, n)
  BY AllCommandsShown
<1>2. IsFiniteSet(D) /\ Savings(log) \in [D -> Int] /\ own \in SUBSET D
  BY RowsAre DEF RowsOf
<1>3. key \in [own -> K]
  BY DEF ShellCommands
<1>4. \A n : /\ ShellCommandMetrics(log, n).saved = Saved(log, GroupOf(own, key, n))
             /\ ShellCommandMetrics(log, n).calls = Cardinality(GroupOf(own, key, n))
  <2> TAKE n
  <2>1. {i \in own : ClassifyShellCommand(log[i]) = n} = GroupOf(own, key, n)
    BY DEF GroupOf
  <2>2. /\ ShellCommandMetrics(log, n).saved = Saved(log, {i \in own : ClassifyShellCommand(log[i]) = n})
        /\ ShellCommandMetrics(log, n).calls = Cardinality({i \in own : ClassifyShellCommand(log[i]) = n})
    BY DEF ShellCommandMetrics
  <2> QED
    BY <2>1, <2>2
<1>5. EligibleRows(log, own) = own
  <2>1. \A i \in own : log[i].tool = "so_shell"
    BY DEF RowsOf
  <2>2. \A i \in own : IsSavingsEligible(log[i])
    BY <2>1 DEF IsSavingsEligible
  <2> QED
    BY <2>2 DEF EligibleRows
<1>6. ToolMetrics(log, "so_shell").saved = Saved(log, own) /\ ToolMetrics(log, "so_shell").calls = Cardinality(own)
  BY <1>5, LinesAre
<1>7. \A n : GroupOf(own, key, n) \in SUBSET own
  BY DEF GroupOf
<1>8. /\ DOMAIN saved = K /\ saved = [n \in K |-> saved[n]]
      /\ \A n \in K : saved[n] = Saved(log, GroupOf(own, key, n))
  BY <1>1, <1>4
<1>9. /\ DOMAIN calls = K /\ calls = [n \in K |-> calls[n]]
      /\ \A n \in K : calls[n] = Cardinality(GroupOf(own, key, n))
  BY <1>1, <1>4
<1>10. f \in [own -> Int] /\ \A i \in own : f[i] = Savings(log)[i]
  BY <1>2
<1> HIDE DEF D, own, K, key, top, saved, calls, f
<1>11. IsFiniteSet(own) /\ own \in SUBSET own /\ Ones(own) \in [own -> Int]
  BY <1>2, FS_Subset DEF Ones
<1>12. \A T \in SUBSET own : Saved(log, T) = SumOver(f, T)
  <2> TAKE T \in SUBSET own
  <2>1. T \in SUBSET DOMAIN log /\ \A i \in T : Savings(log)[i] = f[i]
    BY <1>2, <1>10 DEF D
  <2>2. Saved(log, T) = SumOver(Savings(log), T)
    BY <2>1, TotalsAre
  <2> QED
    BY <2>1, <2>2, SumOfSame
<1>13. SumFunction(saved) = Saved(log, own)
  <2>1. \A n \in K : saved[n] = SumOver(f, GroupOf(own, key, n))
    BY <1>7, <1>8, <1>12
  <2>2. SumFunction(saved) = SumOver(f, own)
    BY <1>1, <1>3, <1>8, <1>10, <1>11, <2>1, TableAddsUp
  <2> QED
    BY <1>11, <1>12, <2>2
<1>14. SumFunction(calls) = Cardinality(own)
  <2>1. \A n \in K : calls[n] = SumOver(Ones(own), GroupOf(own, key, n))
    BY <1>7, <1>9, <1>11, CountIsSum
  <2>2. SumFunction(calls) = SumOver(Ones(own), own)
    BY <1>1, <1>3, <1>9, <1>11, <2>1, TableAddsUp
  <2> QED
    BY <1>11, <2>2, CountIsSum
<1> QED
  BY <1>6, <1>13, <1>14 DEF saved, calls, top

(* What is rendered as a percentage is one.                                *)
LEMMA RatiosAre ==
    ASSUME NEW log, Counted(log)
    PROVE  RatiosInRange(log)
<1> DEFINE D == DOMAIN log
           saving == EligibleRows(log, D)
           eligible == {i \in saving : IsCompressionHitEligible(log[i])}
           hits == {i \in eligible : SavedTokens(log[i]) > 0}
           failed == {i \in D : ~ log[i].ok}
           sum == SummaryMetrics(log)
<1>1. /\ sum.calls = Cardinality(D) /\ sum.errors = Cardinality(failed)
      /\ sum.saved = Saved(log, saving) /\ sum.origin = Origin(log, saving)
  BY LinesAre DEF Errors
<1>2. sum.eligible = Cardinality(eligible) /\ sum.hits = Cardinality(hits)
  BY DEF SummaryMetrics
<1>3. saving \in SUBSET D /\ eligible \in SUBSET D /\ hits \in SUBSET eligible /\ failed \in SUBSET D
  BY DEF EligibleRows
<1> HIDE DEF sum, hits, eligible, saving, failed
<1>4. /\ IsFiniteSet(D) /\ Savings(log) \in [D -> Int] /\ Origins(log) \in [D -> Int]
      /\ \A i \in D : 0 <= Savings(log)[i] /\ Savings(log)[i] <= Origins(log)[i]
  BY RowsAre
<1>5. Saved(log, saving) = SumOver(Savings(log), saving) /\ Origin(log, saving) = SumOver(Origins(log), saving)
  BY <1>3, TotalsAre
<1> HIDE DEF D
<1>6. Cardinality(failed) <= Cardinality(D) /\ Cardinality(eligible) <= Cardinality(D) /\ IsFiniteSet(eligible)
  BY <1>3, <1>4, FS_Subset
<1>7. Cardinality(hits) <= Cardinality(eligible)
  BY <1>3, <1>6, FS_Subset
<1>8. 0 <= SumOver(Savings(log), saving) /\ SumOver(Savings(log), saving) <= SumOver(Origins(log), saving)
  BY <1>3, <1>4, SumBounds
<1>9. /\ sum.errors <= sum.calls /\ sum.hits <= sum.eligible /\ sum.eligible <= sum.calls
      /\ 0 <= sum.saved /\ sum.saved <= sum.origin
  BY <1>1, <1>2, <1>5, <1>6, <1>7, <1>8
<1> QED
  BY <1>9 DEF RatiosInRange, sum

(* Of whatever rows are there, the tables of one report agree, and what is *)
(* rendered as a percentage is one: for logs of any length, whatever the   *)
(* calls, the commands and the failures that left them.                    *)
THEOREM ReportsAddUp == Spec => []ReportAddsUp
<1>1. TypeOK => ReportAddsUp
  <2> SUFFICES ASSUME TypeOK PROVE ReportAddsUp
    OBVIOUS
  <2> DEFINE E == OtherEvents \cup ShellEvents
  <2>1. rows \in Seq(E)
    BY DEF TypeOK, LogTypeOK
  <2>2. \A e \in E : e.duration \in Nat /\ e.origin \in Nat /\ e.actual \in Nat
    BY ShellToolAssumption DEF ShellEvents
  <2> HIDE DEF E
  <2>3. Len(rows) \in Nat /\ DOMAIN rows = 1 .. Len(rows) /\ \A i \in DOMAIN rows : rows[i] \in E
    BY <2>1, LenProperties
  <2>4. Counted(rows)
    BY <2>2, <2>3 DEF Counted
  <2>5. AddsUp(rows)
    BY <2>4, ToolsAddUp, CommandsAddUp, Zenon DEF AddsUp
  <2> QED
    BY <2>4, <2>5, RatiosAre DEF ReportAddsUp
<1> QED
  BY <1>1, ToolTypes, PTL
=============================================================================
