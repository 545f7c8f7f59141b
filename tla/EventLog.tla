------------------------------ MODULE EventLog ------------------------------
(***************************************************************************)
(* The event log (core/events.rs): tool calls put one event each into a    *)
(* channel, and a writer thread, which the first event starts, collects    *)
(* them in batches and writes each batch in one transaction. The daemon    *)
(* ends by a signal, and with it what is still in memory.                  *)
(***************************************************************************)
EXTENDS Selections, SequencesExt

CONSTANTS
    BatchSize,   \* EVENT_BATCH_SIZE
    Faults       \* what may fail: "open", "database", "crash"

ASSUME EventLogAssumption ==
    /\ BatchSize \in Nat \ {0}
    /\ Faults \subseteq {"open", "database", "crash"}

VARIABLES
    queue,       \* the channel
    writer,      \* where run_writer is
    batch,       \* the events it has taken and not yet written
    rows,        \* the events table
    sent,        \* history: what was put into the channel
    faulty       \* history: something has failed

logVars == <<queue, writer, batch, rows, sent, faulty>>

LogInit ==
    /\ queue = <<>> /\ batch = <<>> /\ rows = <<>> /\ sent = <<>>
    /\ writer = "none"
    /\ faulty = FALSE

(* enqueue starts the writer once, and never waits for it; a channel whose *)
(* writer has ended takes nothing.                                         *)
Enqueue(event) ==
    /\ sent' = Append(sent, event)
    /\ writer' = IF writer = "none" THEN "opening" ELSE writer
    /\ queue' = IF writer = "ended" THEN queue ELSE Append(queue, event)
    /\ UNCHANGED <<batch, rows, faulty>>

OpenDb ==
    /\ writer = "opening"
    /\ writer' = "waiting"
    /\ UNCHANGED <<queue, batch, rows, sent, faulty>>

(* The thread returns, and the receiver with what it holds is dropped.     *)
OpenFails ==
    /\ "open" \in Faults
    /\ writer = "opening"
    /\ writer' = "ended"
    /\ queue' = <<>>
    /\ faulty' = TRUE
    /\ UNCHANGED <<batch, rows, sent>>

(* recv_timeout gives an event; a batch that is not full yet takes what    *)
(* else is there (drain_ready).                                            *)
Take ==
    /\ batch' = Append(batch, Head(queue))
    /\ queue' = Tail(queue)
    /\ UNCHANGED <<rows, sent, faulty>>

Receive ==
    /\ writer = "waiting" /\ queue # <<>>
    /\ Take
    /\ writer' = IF Len(batch') >= BatchSize THEN "flushing" ELSE "draining"

(* Mistake: the batch takes all there is.                                  *)
DrainAll ==
    /\ writer = "draining" /\ queue # <<>>
    /\ Take
    /\ UNCHANGED writer

DrainReady ==
    /\ writer = "draining" /\ queue # <<>> /\ Len(batch) < BatchSize
    /\ Take
    /\ UNCHANGED writer

Drained ==
    /\ writer = "draining"
    /\ queue = <<>> \/ Len(batch) >= BatchSize
    /\ writer' = IF Len(batch) >= BatchSize THEN "flushing" ELSE "waiting"
    /\ UNCHANGED <<queue, batch, rows, sent, faulty>>

(* Mistake: only a full batch is written.                                  *)
FlushWhenFull ==
    /\ writer = "waiting" /\ queue = <<>> /\ Len(batch) >= BatchSize
    /\ writer' = "flushing"
    /\ UNCHANGED <<queue, batch, rows, sent, faulty>>

(* recv_timeout: nothing has come for EVENT_FLUSH_INTERVAL.                *)
FlushInterval ==
    /\ writer = "waiting" /\ queue = <<>> /\ batch # <<>>
    /\ writer' = "flushing"
    /\ UNCHANGED <<queue, batch, rows, sent, faulty>>

(* INSERT OR IGNORE: an event_id that is there already stays as it is.     *)
Insert(table, events) ==
    table \o Those(events, {i \in DOMAIN events : ~Contains(table, events[i])})

(* Mistake: the batch is not cleared after its commit.                     *)
FlushBatchKept ==
    /\ writer = "flushing"
    /\ rows' = Insert(rows, batch)
    /\ writer' = "waiting"
    /\ UNCHANGED <<queue, batch, sent, faulty>>

FlushBatch ==
    /\ writer = "flushing"
    /\ rows' = Insert(rows, batch)
    /\ batch' = <<>>
    /\ writer' = "waiting"
    /\ UNCHANGED <<queue, sent, faulty>>

(* A begin or commit that fails loses the batch, an insert its own event.  *)
FlushFails ==
    /\ "database" \in Faults
    /\ writer = "flushing"
    /\ \E inserted \in SUBSET DOMAIN batch :
           /\ inserted # DOMAIN batch
           /\ rows' = Insert(rows, Those(batch, inserted))
    /\ batch' = <<>>
    /\ writer' = "waiting"
    /\ faulty' = TRUE
    /\ UNCHANGED <<queue, sent>>

(* The daemon is killed; the next one starts with an empty channel.        *)
LoseMemory ==
    /\ queue' = <<>> /\ batch' = <<>>
    /\ writer' = "none"
    /\ faulty' = TRUE
    /\ UNCHANGED <<rows, sent>>

WriterStep == OpenDb \/ Receive \/ DrainReady \/ Drained \/ FlushInterval \/ FlushBatch
WriterNext == WriterStep \/ OpenFails \/ FlushFails

-----------------------------------------------------------------------------
LogTypeOK(Event) ==
    /\ queue \in Seq(Event) /\ batch \in Seq(Event)
    /\ rows \in Seq(Event) /\ sent \in Seq(Event)
    /\ Len(batch) <= BatchSize
    /\ writer \in {"none", "opening", "waiting", "draining", "flushing", "ended"}
    /\ faulty \in BOOLEAN
    /\ writer = "flushing" => batch # <<>>

(* "Stores one row per tool call" (events.rs:3): unless something failed,  *)
(* what was put into the channel is in the table, in the batch or in the   *)
(* channel, once and in order; and with failures the table still holds     *)
(* nothing twice and nothing that was not sent.                            *)
NothingLostInTransit ==
    /\ ~faulty => rows \o batch \o queue = sent
    /\ ToSet(rows) \subseteq ToSet(sent)
    /\ \A i, j \in DOMAIN rows : rows[i] = rows[j] => i = j
=============================================================================
