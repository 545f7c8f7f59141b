----------------------------- MODULE OutputSpool ----------------------------
(***************************************************************************)
(* The spool of raw shell output (shell/output_spool.rs): each so_shell    *)
(* call leaves a log and a meta file under its run id, which so_shell_     *)
(* output finds again. There is no lock: handlers of one daemon, and of a  *)
(* second one on the same home, write, read and rotate the directory file  *)
(* by file, and everyone who comes by rotates it.                          *)
(***************************************************************************)
EXTENDS Naturals, FiniteSets

CONSTANTS
    Runs,        \* run ids, each given to one call
    Jobs,        \* bounds the handlers in the spool at one time
    Sessions,    \* who asks for an output
    OwnerOf,     \* run -> the session that ran it
    LogBytes,    \* run -> size of its output
    MetaBytes,
    MaxBytes,    \* MAX_SPOOL_BYTES
    Ttl,         \* SPOOL_TTL_SECS
    MaxTime,     \* bounds the clock
    NoFile, NoRun, NoJob, NotYet,
    Hiccups

(* "io error": the directory or a file cannot be made, or not be listed.   *)
ASSUME HiccupsAssumption == Hiccups \subseteq {"io error"}
ASSUME SizesAssumption ==
    /\ LogBytes \in [Runs -> Nat] /\ {MetaBytes, MaxBytes, Ttl, MaxTime} \subseteq Nat
    /\ \A r \in Runs : LogBytes[r] + MetaBytes <= MaxBytes
ASSUME OwnersAssumption == OwnerOf \in [Runs -> Sessions]
ASSUME FiniteAssumption == IsFiniteSet(Runs)

VARIABLES
    log,         \* run -> its log file, or NoFile
    meta,        \* runs whose meta file is there
    job,         \* handler -> what it is doing in the spool, or NoJob
    answered,    \* runs whose answer, with its run id, has been given
    dated,       \* run -> first and last mtime of its log, kept for the properties
    cut,         \* runs whose store an error cut short, also kept for them
    now

vars == <<log, meta, job, answered, dated, cut, now>>

Parts == {"part", "whole"}
Log == [text : Parts, mtime : 0 .. MaxTime]
Date == [made : 0 .. MaxTime, last : 0 .. MaxTime]

(* SpoolEntry.                                                             *)
Entry == [run : Runs, mtime : 0 .. MaxTime, bytes : Nat]

(* rot: the place in rotate_spool. scan: names read_dir gave and not yet   *)
(* looked at. view: the entries collected. half: the run whose log, and    *)
(* not yet whose meta, remove_entry has removed. text: the log as read.    *)
Stages == {"store", "fill", "meta", "settle", "answer", "read log", "read meta", "found"}
Rotation == {"list", "stat", "expire", "list again", "trim", "over"}
Job == [run : Runs, stage : Stages, rot : Rotation, scan : SUBSET Runs, view : SUBSET Entry,
        half : Runs \cup {NoRun}, text : Parts]

ASSUME NoneAssumption ==
    NoFile \notin Log /\ NotYet \notin Date /\ NoRun \notin Runs /\ NoJob \notin Job

Init ==
    /\ log = [r \in Runs |-> NoFile]
    /\ meta = {}
    /\ job = [j \in Jobs |-> NoJob]
    /\ answered = {}
    /\ dated = [r \in Runs |-> NotYet]
    /\ cut = {}
    /\ now = 0

Busy(j) == job[j] # NoJob
Rotating(j, rot) == Busy(j) /\ job[j].rot = rot

(* At a stage, and not inside the rotate_spool it begins with.             *)
At(j, stage) == Rotating(j, "over") /\ job[j].stage = stage

NewJob(r, stage, rot) ==
    [run |-> r, stage |-> stage, rot |-> rot, scan |-> {}, view |-> {}, half |-> NoRun,
     text |-> "whole"]

(* Its next stage, and its next place in a rotation, with empty hands.     *)
Go(j, stage) == job' = [job EXCEPT ![j].stage = stage]
Rotates(j, rot) == job' = [job EXCEPT ![j] = NewJob(job[j].run, job[j].stage, rot)]
End(j) == job' = [job EXCEPT ![j] = NoJob]

-----------------------------------------------------------------------------
(* rotate_spool: collect, remove what has expired, collect again, and      *)
(* remove the oldest until the rest fits.                                  *)
List(j) ==
    /\ Rotating(j, "list") \/ Rotating(j, "list again")
    /\ LET listed == NewJob(job[j].run, job[j].stage, IF job[j].rot = "list" THEN "stat" ELSE "trim")
       IN job' = [job EXCEPT ![j] = [listed EXCEPT !.scan = {r \in Runs : log[r] # NoFile}]]
    /\ UNCHANGED <<log, meta, answered, dated, cut, now>>

ListFails(j) ==
    /\ "io error" \in Hiccups
    /\ Rotating(j, "list") \/ Rotating(j, "list again")
    /\ Rotates(j, "over")
    /\ cut' = IF job[j].stage = "read log" THEN cut ELSE cut \cup {job[j].run}
    /\ UNCHANGED <<log, meta, answered, dated, now>>

(* collect_entries passes over a log that is gone, and counts a meta that  *)
(* is not there as empty.                                                  *)
EntryOf(r) ==
    [run |-> r, mtime |-> log[r].mtime,
     bytes |-> (IF log[r].text = "whole" THEN LogBytes[r] ELSE 0)
               + (IF r \in meta THEN MetaBytes ELSE 0)]

StatEntry(j) ==
    /\ Busy(j)
    /\ \E r \in job[j].scan :
        LET found == IF log[r] = NoFile THEN {} ELSE {EntryOf(r)}
        IN job' = [job EXCEPT ![j].scan = job[j].scan \ {r}, ![j].view = job[j].view \cup found]
    /\ UNCHANGED <<log, meta, answered, dated, cut, now>>

FindExpired(j) ==
    /\ Rotating(j, "stat") /\ job[j].scan = {}
    /\ LET found == NewJob(job[j].run, job[j].stage, "expire")
       IN job' = [job EXCEPT ![j] = [found EXCEPT !.view = {e \in job[j].view : now > e.mtime + Ttl}]]
    /\ UNCHANGED <<log, meta, answered, dated, cut, now>>

(* The bytes of some files, as a set that has each of them once.           *)
BytesOf(files) == UNION {{e} \X (1 .. e.bytes) : e \in files}
TotalBytes(files) == Cardinality(BytesOf(files))

(* Those that go: all expired ones, or the oldest while the rest is too    *)
(* much.                                                                   *)
GoesNewestFirst(j, e) ==
    /\ e \in job[j].view /\ job[j].scan = {}
    /\ \/ Rotating(j, "expire")
       \/ /\ Rotating(j, "trim")
          /\ TotalBytes(job[j].view) > MaxBytes
          /\ \A f \in job[j].view : e.mtime >= f.mtime

Goes(j, e) ==
    /\ e \in job[j].view /\ job[j].scan = {}
    /\ \/ Rotating(j, "expire")
       \/ /\ Rotating(j, "trim")
          /\ TotalBytes(job[j].view) > MaxBytes
          /\ \A f \in job[j].view : e.mtime <= f.mtime

(* remove_entry: the log, then the meta, whether they are there or not.    *)
RemoveLogHalfNamed(j) ==
    /\ Busy(j) /\ job[j].half = NoRun
    /\ \E e \in job[j].view :
        /\ Goes(j, e)
        /\ log' = [log EXCEPT ![e.run] = NoFile]
        /\ job' = [job EXCEPT ![j].view = job[j].view \ {e}, ![j].half = e]
    /\ UNCHANGED <<meta, answered, dated, cut, now>>

RemoveLog(j) ==
    /\ Busy(j) /\ job[j].half = NoRun
    /\ \E e \in job[j].view :
        /\ Goes(j, e)
        /\ log' = [log EXCEPT ![e.run] = NoFile]
        /\ job' = [job EXCEPT ![j].view = job[j].view \ {e}, ![j].half = e.run]
    /\ UNCHANGED <<meta, answered, dated, cut, now>>

RemoveMeta(j) ==
    /\ Busy(j) /\ job[j].half # NoRun
    /\ meta' = meta \ {job[j].half}
    /\ job' = [job EXCEPT ![j].half = NoRun]
    /\ UNCHANGED <<log, answered, dated, cut, now>>

RotationEnds(j) ==
    /\ Rotating(j, "expire") \/ Rotating(j, "trim")
    /\ job[j].half = NoRun /\ job[j].scan = {}
    /\ \A e \in job[j].view : ~Goes(j, e)
    /\ Rotates(j, IF job[j].rot = "expire" THEN "list again" ELSE "over")
    /\ UNCHANGED <<log, meta, answered, dated, cut, now>>

-----------------------------------------------------------------------------
(* store_run_output, when a command has run: the run id is new.            *)
BeginStore(j) ==
    /\ ~Busy(j)
    /\ \E r \in Runs \ answered :
        /\ \A k \in Jobs : Busy(k) => job[k].run # r
        /\ job' = [job EXCEPT ![j] = NewJob(r, "store", "list")]
    /\ UNCHANGED <<log, meta, answered, dated, cut, now>>

(* fs::write of the log: it is made, and then it is filled.                *)
MakeLogAfterMeta(j) ==
    /\ At(j, "store")
    /\ log' = [log EXCEPT ![job[j].run] = [text |-> "part", mtime |-> now]]
    /\ meta' = meta \cup {job[j].run}
    /\ dated' = [dated EXCEPT ![job[j].run] = [made |-> now, last |-> now]]
    /\ Go(j, "fill")
    /\ UNCHANGED <<answered, cut, now>>

MakeLog(j) ==
    /\ At(j, "store")
    /\ log' = [log EXCEPT ![job[j].run] = [text |-> "part", mtime |-> now]]
    /\ dated' = [dated EXCEPT ![job[j].run] = [made |-> now, last |-> now]]
    /\ Go(j, "fill")
    /\ UNCHANGED <<meta, answered, cut, now>>

(* A log that somebody has removed meanwhile is filled where nobody sees.  *)
FillLog(j) ==
    /\ At(j, "fill")
    /\ LET r == job[j].run
       IN IF log[r] = NoFile
          THEN UNCHANGED <<log, dated>>
          ELSE /\ log' = [log EXCEPT ![r] = [text |-> "whole", mtime |-> now]]
               /\ dated' = [dated EXCEPT ![r] = [made |-> dated[r].made, last |-> now]]
    /\ Go(j, "meta")
    /\ UNCHANGED <<meta, answered, cut, now>>

(* The meta is one small write.                                            *)
WriteMetaAndAnswer(j) ==
    /\ At(j, "meta")
    /\ meta' = meta \cup {job[j].run}
    /\ Go(j, "answer")
    /\ UNCHANGED <<log, answered, dated, cut, now>>

WriteMeta(j) ==
    /\ At(j, "meta")
    /\ meta' = meta \cup {job[j].run}
    /\ job' = [job EXCEPT ![j] = NewJob(job[j].run, "settle", "list")]
    /\ UNCHANGED <<log, answered, dated, cut, now>>

(* create_dir_all or the write of a file fails: the store is given up, and *)
(* the answer tells nothing of it. Without its meta a log is removed.      *)
StoreFails(j) ==
    /\ "io error" \in Hiccups
    /\ \/ Rotating(j, "list") /\ job[j].stage = "store"
       \/ At(j, "store") \/ At(j, "fill") \/ At(j, "meta")
    /\ log' = IF At(j, "meta") THEN [log EXCEPT ![job[j].run] = NoFile] ELSE log
    /\ cut' = cut \cup {job[j].run}
    /\ job' = [job EXCEPT ![j] = NewJob(job[j].run, "answer", "over")]
    /\ UNCHANGED <<meta, answered, dated, now>>

(* The answer of so_shell: from now on the agent may ask for the run.      *)
Answer(j) ==
    /\ At(j, "settle") \/ At(j, "answer")
    /\ answered' = answered \cup {job[j].run}
    /\ End(j)
    /\ UNCHANGED <<log, meta, dated, cut, now>>

-----------------------------------------------------------------------------
(* get_spooled_output: it rotates before it reads the log.                 *)
BeginFetch(j) ==
    /\ ~Busy(j)
    /\ \E r \in answered : job' = [job EXCEPT ![j] = NewJob(r, "read log", "list")]
    /\ UNCHANGED <<log, meta, answered, dated, cut, now>>

ReadLog(j) ==
    /\ At(j, "read log")
    /\ LET r == job[j].run
       IN IF log[r] = NoFile
          THEN End(j)
          ELSE job' = [job EXCEPT ![j] = [NewJob(r, "read meta", "over") EXCEPT !.text = log[r].text]]
    /\ UNCHANGED <<log, meta, answered, dated, cut, now>>

(* Then is_spool_access_allowed, for whoever asked.                        *)
ReadMeta(j) ==
    /\ At(j, "read meta")
    /\ \E s \in Sessions :
        IF job[j].run \in meta /\ s = OwnerOf[job[j].run] THEN Go(j, "found") ELSE End(j)
    /\ UNCHANGED <<log, meta, answered, dated, cut, now>>

Found(j) ==
    /\ At(j, "found")
    /\ End(j)
    /\ UNCHANGED <<log, meta, answered, dated, cut, now>>

Tick ==
    /\ now < MaxTime
    /\ now' = now + 1
    /\ UNCHANGED <<log, meta, job, answered, dated, cut>>

Rotate(j) ==
    \/ List(j) \/ ListFails(j) \/ StatEntry(j) \/ FindExpired(j)
    \/ RemoveLog(j) \/ RemoveMeta(j) \/ RotationEnds(j)

Store(j) ==
    BeginStore(j) \/ MakeLog(j) \/ FillLog(j) \/ WriteMeta(j) \/ StoreFails(j) \/ Answer(j)

Fetch(j) == BeginFetch(j) \/ ReadLog(j) \/ ReadMeta(j) \/ Found(j)

Next == Tick \/ \E j \in Jobs : Rotate(j) \/ Store(j) \/ Fetch(j)

Spec == Init /\ [][Next]_vars

-----------------------------------------------------------------------------
(* Type invariant of the directory and of the handlers in it.              *)
TypeOK ==
    /\ log \in [Runs -> Log \cup {NoFile}]
    /\ meta \subseteq Runs
    /\ job \in [Jobs -> Job \cup {NoJob}]
    /\ answered \subseteq Runs
    /\ dated \in [Runs -> Date \cup {NotYet}]
    /\ cut \subseteq Runs
    /\ now \in 0 .. MaxTime

(* What so_shell_output returns is all of the run's output: a log that a   *)
(* failed store has left in part has no meta, and is not returned.         *)
FetchIsWhole == \A j \in Jobs : At(j, "found") => job[j].text = "whole"

(* "raw_output_available" is always true (shell_contract.rs:27): the agent *)
(* finds the output of an answered run, until it expires or the runs that  *)
(* came since fill the spool, though handlers rotate on views of the       *)
(* directory that others have made stale. The errors of others, in their   *)
(* stores and rotations, do not take it away.                              *)
Stored(r) == log[r] # NoFile /\ log[r].text = "whole" /\ r \in meta
Since(r) == {q \in Runs : dated[q] # NotYet /\ dated[q].last >= dated[r].made}

AnsweredIsFetchable ==
    \A r \in answered \ cut :
        \/ Stored(r)
        \/ now > dated[r].made + Ttl
        \/ TotalBytes({[run |-> q, bytes |-> LogBytes[q] + MetaBytes] : q \in Since(r)}) > MaxBytes

(* Rotation before and after a store, by whoever stores, keeps the spool   *)
(* within MAX_SPOOL_BYTES whenever nobody is in it.                        *)
Quiet == \A j \in Jobs : ~Busy(j)
OnDisk == {r \in Runs : log[r] # NoFile}
SpoolBounded == Quiet /\ cut = {} => TotalBytes({EntryOf(r) : r \in OnDisk}) <= MaxBytes
=============================================================================
