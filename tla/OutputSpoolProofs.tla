-------------------------- MODULE OutputSpoolProofs -------------------------
(***************************************************************************)
(* What the spool promises of its files, for any number of runs, handlers  *)
(* and sessions, any sizes and times, and any failing file operation: a    *)
(* fetch returns a whole output, an answered run can be fetched until it   *)
(* expires or makes room, and a quiet spool fits.                          *)
(***************************************************************************)
EXTENDS OutputSpool, FiniteSetTheorems, WellFoundedInduction, TLAPS

-----------------------------------------------------------------------------
(* Bytes                                                                   *)

(* Files of different runs, none larger than the spool.                    *)
Fits(files) ==
    /\ \A e \in files : e.run \in Runs /\ e.bytes \in Nat /\ e.bytes <= MaxBytes
    /\ \A e, f \in files : e.run = f.run => e = f

(* They have finitely many bytes.                                          *)
LEMMA BytesAreFinite ==
    ASSUME NEW files, Fits(files)
    PROVE  IsFiniteSet(BytesOf(files)) /\ TotalBytes(files) \in Nat
<1> DEFINE all == Runs \X (1 .. MaxBytes)
           place == [b \in BytesOf(files) |-> <<b[1].run, b[2]>>]
<1>1. IsFiniteSet(all)
  <2>1. MaxBytes \in Int
    BY SizesAssumption
  <2>2. IsFiniteSet(1 .. MaxBytes)
    BY <2>1, FS_Interval
  <2> QED
    BY <2>2, FiniteAssumption, FS_Product
<1>2. \A b \in BytesOf(files) : b[1] \in files /\ b[2] \in 1 .. b[1].bytes /\ b = <<b[1], b[2]>>
  BY DEF BytesOf
<1>3. \A b \in BytesOf(files) : <<b[1].run, b[2]>> \in all
  <2> SUFFICES ASSUME NEW b \in BytesOf(files) PROVE b[1].run \in Runs /\ b[2] \in 1 .. MaxBytes
    OBVIOUS
  <2> QED
    BY <1>2, SizesAssumption DEF Fits
<1>4. place \in [BytesOf(files) -> all]
  BY <1>3
<1>5. ASSUME NEW b \in BytesOf(files), NEW d \in BytesOf(files), place[b] = place[d] PROVE b = d
  <2>1. b[1].run = d[1].run /\ b[2] = d[2]
    BY <1>5
  <2> QED
    BY <1>2, <2>1 DEF Fits
<1>6. place \in Injection(BytesOf(files), all)
  BY <1>4, <1>5 DEF Injection, IsInjective
<1>7. IsFiniteSet(BytesOf(files))
  BY <1>1, <1>6, FS_Injection
<1> QED
  BY <1>7, FS_CardinalityType DEF TotalBytes

(* Files that match larger ones, one each, have no more bytes than those.  *)
LEMMA SmallerFiles ==
    ASSUME NEW files, NEW others, Fits(files), Fits(others),
           \A e \in files : \E f \in others : f.run = e.run /\ e.bytes <= f.bytes
    PROVE  TotalBytes(files) <= TotalBytes(others)
<1> DEFINE match == [e \in files |-> CHOOSE f \in others : f.run = e.run /\ e.bytes <= f.bytes]
           place == [b \in BytesOf(files) |-> <<match[b[1]], b[2]>>]
<1>1. \A e \in files : match[e] \in others /\ match[e].run = e.run /\ e.bytes <= match[e].bytes
  OBVIOUS
<1> HIDE DEF match
<1>2. \A b \in BytesOf(files) : b[1] \in files /\ b[2] \in 1 .. b[1].bytes /\ b = <<b[1], b[2]>>
  BY DEF BytesOf
<1>3. ASSUME NEW b \in BytesOf(files) PROVE <<match[b[1]], b[2]>> \in BytesOf(others)
  <2>1. b[2] \in 1 .. match[b[1]].bytes
    BY <1>1, <1>2 DEF Fits
  <2>2. match[b[1]] \in others
    BY <1>1, <1>2
  <2> QED
    BY <2>1, <2>2 DEF BytesOf
<1>4. place \in [BytesOf(files) -> BytesOf(others)]
  BY <1>3
<1>5. ASSUME NEW b \in BytesOf(files), NEW d \in BytesOf(files), place[b] = place[d] PROVE b = d
  <2>1. match[b[1]] = match[d[1]] /\ b[2] = d[2]
    BY <1>5
  <2>2. b[1].run = d[1].run
    BY <1>1, <1>2, <2>1
  <2> QED
    BY <1>2, <2>1, <2>2 DEF Fits
<1>6. place \in Injection(BytesOf(files), BytesOf(others))
  BY <1>4, <1>5 DEF Injection, IsInjective
<1> QED
  BY <1>6, BytesAreFinite, FS_Injection DEF TotalBytes

-----------------------------------------------------------------------------
(* What is known of every run's files and of every handler                 *)

StoreStages == {"store", "fill", "meta", "settle", "answer"}
Storing(k) == k.stage \in StoreStages

Bytes(r) == LogBytes[r] + MetaBytes
Dated(r) == dated[r] # NotYet

(* The store of a run is one handler's alone, and over when it is answered.*)
RunsAreOwned ==
    /\ \A j \in Jobs : Busy(j) => (Storing(job[j]) <=> job[j].run \notin answered)
    /\ \A i, j \in Jobs :
          Busy(i) /\ Busy(j) /\ Storing(job[i]) /\ job[i].run = job[j].run => i = j
    /\ \A r \in Runs : Dated(r) => r \in answered \/ \E j \in Jobs : Busy(j) /\ job[j].run = r
    /\ \A r \in answered \ cut : Dated(r)

(* A log is dated from when it was made to when it was filled, and has its *)
(* meta only when it is whole.                                             *)
FilesOf(r) ==
    /\ log[r] # NoFile => Dated(r) /\ dated[r].made <= log[r].mtime /\ log[r].mtime <= dated[r].last
    /\ log[r] # NoFile /\ log[r].text = "part" => r \notin meta
    /\ Dated(r) => dated[r].made <= dated[r].last /\ dated[r].last <= now
    /\ ~Dated(r) => r \notin meta

(* Where a handler is, and what it has in its hands there.                 *)
HandsOf(k) ==
    /\ k.rot # "over" => k.stage \in {"store", "settle", "read log"} /\ k.text = "whole"
    /\ k.rot \notin {"stat", "trim"} => k.scan = {}
    /\ k.rot \in {"list", "list again", "over"} => k.view = {}
    /\ k.half # NoRun => k.rot \in {"expire", "trim"} /\ Dated(k.half)
    /\ k.text = "part" => k.stage = "read meta"

(* Its view has each run once, as it was at some time.                     *)
ViewOf(k) ==
    /\ \A e \in k.view :
          /\ e.run \notin k.scan /\ Dated(e.run) /\ e.bytes <= Bytes(e.run)
          /\ dated[e.run].made <= e.mtime /\ e.mtime <= dated[e.run].last
          /\ k.rot = "expire" => now > e.mtime + Ttl
    /\ \A e, f \in k.view : e.run = f.run => e = f

(* What its stage has made of the files of its run.                        *)
StageOf(k) ==
    /\ k.stage = "store" => ~Dated(k.run)
    /\ k.stage = "fill" => k.run \notin meta
    /\ k.stage = "meta" /\ log[k.run] # NoFile => log[k.run].text = "whole"
    /\ k.stage \in {"fill", "meta", "settle"} => Dated(k.run)
    /\ k.stage = "answer" => k.run \in cut
    /\ k.stage = "read meta" /\ k.text = "part" => k.run \notin meta

JobKnows(k) == HandsOf(k) /\ ViewOf(k) /\ StageOf(k)

SpoolShape ==
    /\ RunsAreOwned
    /\ \A r \in Runs : FilesOf(r)
    /\ \A j \in Jobs : Busy(j) => JobKnows(job[j])

SpoolInv == TypeOK /\ SpoolShape

-----------------------------------------------------------------------------
(* What a step of a handler makes of it.                                   *)
Becomes(j, k) == k \in Job /\ job' = [job EXCEPT ![j] = k]

(* The handler j, elsewhere or with something else in its hands.           *)
Handler(j, stage, rot, scan, view, half, text) ==
    [run |-> job[j].run, stage |-> stage, rot |-> rot, scan |-> scan, view |-> view,
     half |-> half, text |-> text]

(* A handler that begins is a handler.                                     *)
LEMMA NewJobType ==
    ASSUME NEW r \in Runs, NEW stage \in Stages, NEW rot \in Rotation
    PROVE  NewJob(r, stage, rot) \in Job
BY DEF NewJob, Job, Parts

(* A handler, spelled out.                                                 *)
LEMMA JobTypes ==
    ASSUME TypeOK, NEW j \in Jobs, Busy(j)
    PROVE  /\ job[j] \in Job /\ job[j].run \in Runs
           /\ job[j] = Handler(j, job[j].stage, job[j].rot, job[j].scan, job[j].view,
                               job[j].half, job[j].text)
<1>1. job[j] \in Job
  BY DEF TypeOK, Busy
<1> QED
  BY <1>1 DEF Job, Handler

(* One that has read a log.                                                *)
LEMMA NewJobWithText ==
    ASSUME NEW r, NEW stage, NEW rot, NEW text
    PROVE  [NewJob(r, stage, rot) EXCEPT !.text = text]
             = [run |-> r, stage |-> stage, rot |-> rot, scan |-> {}, view |-> {}, half |-> NoRun,
                text |-> text]
BY DEF NewJob

(* What each kind of step makes of a handler: it goes on to a stage,       *)
LEMMA GoBecomes ==
    ASSUME TypeOK, NEW j \in Jobs, Busy(j), NEW stage \in Stages, Go(j, stage)
    PROVE  Becomes(j, Handler(j, stage, job[j].rot, job[j].scan, job[j].view, job[j].half, job[j].text))
<1>1. job[j] = Handler(j, job[j].stage, job[j].rot, job[j].scan, job[j].view, job[j].half, job[j].text)
  BY JobTypes
<1>2. [job[j] EXCEPT !.stage = stage]
        = Handler(j, stage, job[j].rot, job[j].scan, job[j].view, job[j].half, job[j].text)
  BY <1>1 DEF Handler
<1>3. Handler(j, stage, job[j].rot, job[j].scan, job[j].view, job[j].half, job[j].text) \in Job
  BY JobTypes DEF Job, Handler
<1>4. job' = [job EXCEPT ![j] = [job[j] EXCEPT !.stage = stage]]
  BY DEF Go
<1> QED
  BY <1>2, <1>3, <1>4 DEF Becomes

(* to a place of its rotation,                                             *)
LEMMA RotatesBecomes ==
    ASSUME TypeOK, NEW j \in Jobs, Busy(j), NEW rot \in Rotation, Rotates(j, rot)
    PROVE  Becomes(j, Handler(j, job[j].stage, rot, {}, {}, NoRun, "whole"))
<1>1. job[j].stage \in Stages
  BY JobTypes DEF Job
<1>2. NewJob(job[j].run, job[j].stage, rot) \in Job
  BY <1>1, JobTypes, NewJobType
<1> QED
  BY <1>2 DEF Rotates, Becomes, NewJob, Handler

(* lists the directory,                                                    *)
LEMMA ListBecomes ==
    ASSUME TypeOK, NEW j \in Jobs, List(j)
    PROVE  Becomes(j, Handler(j, job[j].stage, IF job[j].rot = "list" THEN "stat" ELSE "trim",
                              OnDisk, {}, NoRun, "whole"))
<1> DEFINE rot == IF job[j].rot = "list" THEN "stat" ELSE "trim"
           listed == NewJob(job[j].run, job[j].stage, rot)
           goal == Handler(j, job[j].stage, rot, OnDisk, {}, NoRun, "whole")
<1>1. Busy(j) /\ job[j].stage \in Stages /\ rot \in Rotation
  BY JobTypes DEF List, Rotating, Job, Rotation
<1>2. listed = Handler(j, job[j].stage, rot, {}, {}, NoRun, "whole") /\ listed \in Job
  BY <1>1, JobTypes, NewJobType DEF NewJob, Handler
<1>3. [listed EXCEPT !.scan = OnDisk] = goal
  BY <1>2 DEF Handler
<1>4. goal \in Job
  BY <1>1, JobTypes DEF Handler, Job, OnDisk, Parts
<1>5. job' = [job EXCEPT ![j] = [listed EXCEPT !.scan = OnDisk]]
  BY DEF List, OnDisk
<1> QED
  BY <1>3, <1>4, <1>5 DEF Becomes

(* finds what has expired,                                                 *)
LEMMA FindExpiredBecomes ==
    ASSUME TypeOK, NEW j \in Jobs, FindExpired(j)
    PROVE  Becomes(j, Handler(j, job[j].stage, "expire", {}, {e \in job[j].view : now > e.mtime + Ttl},
                              NoRun, "whole"))
<1> DEFINE view == {e \in job[j].view : now > e.mtime + Ttl}
           found == NewJob(job[j].run, job[j].stage, "expire")
           goal == Handler(j, job[j].stage, "expire", {}, view, NoRun, "whole")
<1>1. Busy(j) /\ job[j].stage \in Stages /\ view \in SUBSET Entry
  BY JobTypes DEF FindExpired, Rotating, Job
<1>2. found = Handler(j, job[j].stage, "expire", {}, {}, NoRun, "whole")
  BY DEF NewJob, Handler
<1>3. goal \in Job
  BY <1>1, JobTypes DEF Handler, Job, Parts, Rotation
<1>4. job' = [job EXCEPT ![j] = [found EXCEPT !.view = view]]
  BY DEF FindExpired
<1>5. ASSUME NEW some PROVE [found EXCEPT !.view = some]
                              = Handler(j, job[j].stage, "expire", {}, some, NoRun, "whole")
  BY <1>2 DEF Handler
<1>6. job' = [job EXCEPT ![j] = goal]
  BY <1>4, <1>5
<1> QED
  BY <1>3, <1>6 DEF Becomes

(* removes a meta,                                                         *)
LEMMA RemoveMetaBecomes ==
    ASSUME TypeOK, NEW j \in Jobs, RemoveMeta(j)
    PROVE  Becomes(j, Handler(j, job[j].stage, job[j].rot, job[j].scan, job[j].view, NoRun, job[j].text))
<1> DEFINE goal == Handler(j, job[j].stage, job[j].rot, job[j].scan, job[j].view, NoRun, job[j].text)
<1>1. Busy(j)
  BY DEF RemoveMeta
<1>2. job[j] = Handler(j, job[j].stage, job[j].rot, job[j].scan, job[j].view, job[j].half, job[j].text)
  BY <1>1, JobTypes
<1>3. [job[j] EXCEPT !.half = NoRun] = goal
  BY <1>2 DEF Handler
<1>4. goal \in Job
  BY <1>1, JobTypes DEF Handler, Job
<1>5. job' = [job EXCEPT ![j] = [job[j] EXCEPT !.half = NoRun]]
  BY DEF RemoveMeta
<1> QED
  BY <1>3, <1>4, <1>5 DEF Becomes

(* or reads a log.                                                         *)
LEMMA ReadLogBecomes ==
    ASSUME TypeOK, NEW j \in Jobs, ReadLog(j), log[job[j].run] # NoFile
    PROVE  Becomes(j, Handler(j, "read meta", "over", {}, {}, NoRun, log[job[j].run].text))
<1> DEFINE r == job[j].run
           reading == NewJob(r, "read meta", "over")
           goal == Handler(j, "read meta", "over", {}, {}, NoRun, log[r].text)
<1>1. Busy(j) /\ r \in Runs
  BY JobTypes DEF ReadLog, At, Rotating
<1>2. log[r].text \in Parts
  BY <1>1 DEF TypeOK, Log
<1>3. ASSUME NEW stage, NEW text
      PROVE  [NewJob(r, stage, "over") EXCEPT !.text = text]
               = Handler(j, stage, "over", {}, {}, NoRun, text)
  BY NewJobWithText DEF Handler
<1>4. [reading EXCEPT !.text = log[r].text] = goal
  BY <1>3
<1>5. goal \in Job
  BY <1>1, <1>2 DEF Handler, Job, Stages, Rotation
<1>6. job' = [job EXCEPT ![j] = [reading EXCEPT !.text = log[r].text]]
  BY DEF ReadLog
<1> QED
  BY <1>4, <1>5, <1>6 DEF Becomes

(* A handler that looks at a file: its scan and its view change.           *)
LEMMA ScanBecomes ==
    ASSUME TypeOK, NEW j \in Jobs, Busy(j), NEW scan \in SUBSET Runs, NEW view \in SUBSET Entry,
           job' = [job EXCEPT ![j].scan = scan, ![j].view = view]
    PROVE  Becomes(j, Handler(j, job[j].stage, job[j].rot, scan, view, job[j].half, job[j].text))
<1> DEFINE k == Handler(j, job[j].stage, job[j].rot, scan, job[j].view, job[j].half, job[j].text)
           goal == Handler(j, job[j].stage, job[j].rot, scan, view, job[j].half, job[j].text)
           between == [job EXCEPT ![j] = k]
<1>1. job[j] = Handler(j, job[j].stage, job[j].rot, job[j].scan, job[j].view, job[j].half, job[j].text)
  BY JobTypes
<1>2. [job[j] EXCEPT !.scan = scan] = k
  BY <1>1 DEF Handler
<1>3. [k EXCEPT !.view = view] = goal
  BY DEF Handler
<1>4. goal \in Job
  BY JobTypes DEF Handler, Job
<1>5. job' = [[job EXCEPT ![j].scan = scan] EXCEPT ![j].view = view]
  BY Zenon
<1> HIDE DEF k, goal
<1>6. between[j] = k
  BY DEF TypeOK
<1>7. job' = [between EXCEPT ![j] = [between[j] EXCEPT !.view = view]]
  BY <1>2, <1>5
<1>8. job' = [between EXCEPT ![j] = goal]
  BY <1>3, <1>6, <1>7
<1>9. job' = [job EXCEPT ![j] = goal]
  BY <1>8 DEF TypeOK
<1> QED
  BY <1>4, <1>9 DEF Becomes, goal

(* One that removes a log: its view changes, and what it has half removed. *)
LEMMA TakeBecomes ==
    ASSUME TypeOK, NEW j \in Jobs, Busy(j), NEW view \in SUBSET Entry, NEW half \in Runs,
           job' = [job EXCEPT ![j].view = view, ![j].half = half]
    PROVE  Becomes(j, Handler(j, job[j].stage, job[j].rot, job[j].scan, view, half, job[j].text))
<1> DEFINE k == Handler(j, job[j].stage, job[j].rot, job[j].scan, view, job[j].half, job[j].text)
           goal == Handler(j, job[j].stage, job[j].rot, job[j].scan, view, half, job[j].text)
           between == [job EXCEPT ![j] = k]
<1>1. job[j] = Handler(j, job[j].stage, job[j].rot, job[j].scan, job[j].view, job[j].half, job[j].text)
  BY JobTypes
<1>2. [job[j] EXCEPT !.view = view] = k
  BY <1>1 DEF Handler
<1>3. [k EXCEPT !.half = half] = goal
  BY DEF Handler
<1>4. goal \in Job
  BY JobTypes DEF Handler, Job
<1>5. job' = [[job EXCEPT ![j].view = view] EXCEPT ![j].half = half]
  BY Zenon
<1> HIDE DEF k, goal
<1>6. between[j] = k
  BY DEF TypeOK
<1>7. job' = [between EXCEPT ![j] = [between[j] EXCEPT !.half = half]]
  BY <1>2, <1>5
<1>8. job' = [between EXCEPT ![j] = goal]
  BY <1>3, <1>6, <1>7
<1>9. job' = [job EXCEPT ![j] = goal]
  BY <1>8 DEF TypeOK
<1> QED
  BY <1>4, <1>9 DEF Becomes, goal

(* What collect_entries finds of a log.                                    *)
LEMMA EntryType ==
    ASSUME TypeOK, NEW r \in Runs, log[r] # NoFile
    PROVE  /\ EntryOf(r) \in Entry
           /\ EntryOf(r).run = r /\ EntryOf(r).mtime = log[r].mtime
           /\ EntryOf(r).bytes = (IF log[r].text = "whole" THEN LogBytes[r] ELSE 0)
                                 + (IF r \in meta THEN MetaBytes ELSE 0)
           /\ EntryOf(r).bytes \in 0 .. Bytes(r)
<1>1. log[r] \in Log /\ LogBytes[r] \in Nat /\ MetaBytes \in Nat
  BY SizesAssumption DEF TypeOK
<1> QED
  BY <1>1 DEF EntryOf, Entry, Log, Bytes

(* A handler that removes a log has its run in hand until the meta goes    *)
(* too.                                                                    *)
LEMMA RemoveLogBecomes ==
    ASSUME TypeOK, NEW j \in Jobs, RemoveLog(j)
    PROVE  \E e \in job[j].view :
              /\ Goes(j, e)
              /\ log' = [log EXCEPT ![e.run] = NoFile]
              /\ Becomes(j, Handler(j, job[j].stage, job[j].rot, job[j].scan, job[j].view \ {e}, e.run,
                                    job[j].text))
<1>1. Busy(j) /\ job[j].view \in SUBSET Entry
  BY JobTypes DEF RemoveLog, Job
<1>2. PICK e \in job[j].view :
         /\ Goes(j, e)
         /\ log' = [log EXCEPT ![e.run] = NoFile]
         /\ job' = [job EXCEPT ![j].view = job[j].view \ {e}, ![j].half = e.run]
  BY DEF RemoveLog
<1>3. e.run \in Runs /\ job[j].view \ {e} \in SUBSET Entry
  BY <1>1 DEF Entry
<1>4. Becomes(j, Handler(j, job[j].stage, job[j].rot, job[j].scan, job[j].view \ {e}, e.run,
                         job[j].text))
  BY <1>1, <1>2, <1>3, TakeBecomes
<1> QED
  BY <1>2, <1>4

(* One that looks at a name passes over it if the log has gone.            *)
LEMMA StatEntryBecomes ==
    ASSUME TypeOK, NEW j \in Jobs, StatEntry(j)
    PROVE  \E r \in job[j].scan :
              Becomes(j, Handler(j, job[j].stage, job[j].rot, job[j].scan \ {r},
                                 job[j].view \cup (IF log[r] = NoFile THEN {} ELSE {EntryOf(r)}),
                                 job[j].half, job[j].text))
<1>1. Busy(j) /\ job[j].view \in SUBSET Entry /\ job[j].scan \in SUBSET Runs
  BY JobTypes DEF StatEntry, Job
<1>2. PICK r \in job[j].scan :
         job' = [job EXCEPT ![j].scan = job[j].scan \ {r},
                            ![j].view = job[j].view \cup (IF log[r] = NoFile THEN {} ELSE {EntryOf(r)})]
  BY DEF StatEntry
<1> DEFINE view == job[j].view \cup (IF log[r] = NoFile THEN {} ELSE {EntryOf(r)})
<1>3. view \in SUBSET Entry /\ job[j].scan \ {r} \in SUBSET Runs
  BY <1>1, EntryType
<1>4. Becomes(j, Handler(j, job[j].stage, job[j].rot, job[j].scan \ {r}, view, job[j].half, job[j].text))
  BY <1>1, <1>2, <1>3, ScanBecomes
<1> QED
  BY <1>4

-----------------------------------------------------------------------------
(* The shape of the spool                                                  *)

(* The empty spool has the shape.                                          *)
LEMMA InitSpoolInv == Init => SpoolInv
<1> SUFFICES ASSUME Init PROVE SpoolInv
  OBVIOUS
<1>1. TypeOK
  BY SizesAssumption DEF Init, TypeOK
<1>2. \A j \in Jobs : ~Busy(j)
  BY DEF Init, Busy
<1>3. \A r \in Runs : FilesOf(r)
  BY DEF Init, FilesOf, Dated
<1>4. \A r \in Runs : ~Dated(r)
  BY DEF Init, Dated
<1> QED
  BY <1>1, <1>2, <1>3, <1>4 DEF Init, SpoolInv, SpoolShape, RunsAreOwned

(* A handler whose run is its own goes on with it.                         *)
GoesOn(j, k) == Busy(j) /\ k.run = job[j].run /\ (Storing(k) <=> Storing(job[j]))
Fetches(k) == k.run \in answered /\ ~Storing(k)

(* A step by which no file is made and nothing answered.                   *)
LEMMA ShapeKeeps ==
    ASSUME SpoolInv, NEW j \in Jobs, NEW k, UNCHANGED <<answered, dated, now>>,
           Becomes(j, k) \/ (End(j) /\ Busy(j) /\ ~Storing(job[j])),
           log' \in [Runs -> Log \cup {NoFile}],
           \A r \in Runs : log'[r] \in {log[r], NoFile},
           meta' \subseteq meta, cut \subseteq cut', cut' \subseteq Runs,
           Becomes(j, k) => /\ GoesOn(j, k) \/ (Fetches(k) /\ ~Busy(j))
                            /\ HandsOf(k) /\ ViewOf(k)
                            /\ StageOf(k) \/ (k.stage = "answer" /\ k.run \in cut')
    PROVE  SpoolInv'
<1> USE DEF SpoolInv, SpoolShape
<1>1. TypeOK'
  BY DEF TypeOK, Becomes, End
<1>2. /\ \A i \in Jobs : i # j => job'[i] = job[i]
      /\ Busy(j)' => job'[j] = k /\ Becomes(j, k)
      /\ Becomes(j, k) => Busy(j)' /\ job'[j] = k
  <2>1. CASE Becomes(j, k)
    BY <2>1, NoneAssumption DEF Becomes, TypeOK, Busy
  <2>2. CASE End(j) /\ ~Becomes(j, k)
    BY <2>2 DEF End, TypeOK, Busy
  <2> QED
    BY <2>1, <2>2
<1>3. Becomes(j, k) => k \in Job /\ k.run \in Runs /\ k.half \in Runs \cup {NoRun} /\ k.view \subseteq Entry
  BY DEF Becomes, Job
<1>4. RunsAreOwned'
  <2>1. \A i \in Jobs : Busy(i)' => (Storing(job'[i]) <=> job'[i].run \notin answered)
    BY <1>2 DEF Busy, RunsAreOwned, GoesOn, Fetches
  <2>2. \A h, i \in Jobs :
           Busy(h)' /\ Busy(i)' /\ Storing(job'[h]) /\ job'[h].run = job'[i].run => h = i
    BY <1>2 DEF Busy, RunsAreOwned, GoesOn, Fetches
  <2>3. \A r \in answered' \ cut' : Dated(r)'
    BY DEF RunsAreOwned, Dated
  <2>4. ASSUME NEW r \in Runs, Dated(r)', r \notin answered'
        PROVE  \E i \in Jobs : Busy(i)' /\ job'[i].run = r
    <3>1. PICK i \in Jobs : Busy(i) /\ job[i].run = r
      BY <2>4 DEF RunsAreOwned, Dated
    <3>2. Storing(job[i])
      BY <2>4, <3>1 DEF RunsAreOwned
    <3>3. i = j => Becomes(j, k) /\ GoesOn(j, k)
      BY <3>1, <3>2
    <3> QED
      BY <1>2, <3>1, <3>3 DEF Busy, GoesOn
  <2> QED
    BY <2>1, <2>2, <2>3, <2>4 DEF RunsAreOwned
<1>5. \A r \in Runs : FilesOf(r)'
  BY DEF FilesOf, Dated
<1>6. ASSUME NEW i \in Jobs, Busy(i)' PROVE JobKnows(job[i])'
  <2>1. CASE i = j
    <3>1. Becomes(j, k) /\ job'[i] = k
      BY <1>2, <1>6, <2>1
    <3>2. (HandsOf(k) <=> HandsOf(k)') /\ (ViewOf(k) <=> ViewOf(k)')
      BY DEF HandsOf, ViewOf, Dated
    <3>3. StageOf(k)'
      BY <1>3, <3>1 DEF StageOf, Dated
    <3> QED
      BY <3>1, <3>2, <3>3 DEF JobKnows, HandsOf, ViewOf, StageOf, Dated
  <2>2. CASE i # j
    <3>1. job'[i] = job[i] /\ Busy(i) /\ JobKnows(job[i])
      BY <1>2, <1>6, <2>2 DEF Busy
    <3>2. job[i].run \in Runs
      BY <3>1, JobTypes
    <3> QED
      BY <3>1, <3>2 DEF JobKnows, HandsOf, ViewOf, StageOf, Dated
  <2> QED
    BY <2>1, <2>2
<1> QED
  BY <1>1, <1>4, <1>5, <1>6

(* An entry is of its log as it was made or filled.                        *)
LEMMA EntryKnown ==
    ASSUME SpoolInv, NEW r \in Runs, log[r] # NoFile
    PROVE  /\ EntryOf(r).run = r /\ Dated(r) /\ EntryOf(r).bytes <= Bytes(r)
           /\ dated[r].made <= EntryOf(r).mtime /\ EntryOf(r).mtime <= dated[r].last
<1>1. /\ EntryOf(r).run = r /\ EntryOf(r).mtime = log[r].mtime
      /\ EntryOf(r).bytes \in 0 .. Bytes(r) /\ Bytes(r) \in Nat
  BY EntryType, SizesAssumption DEF SpoolInv, Bytes
<1>2. EntryOf(r).bytes <= Bytes(r)
  BY <1>1
<1> QED
  BY <1>1, <1>2 DEF SpoolInv, SpoolShape, FilesOf

(* A rotation keeps the shape, step by step;                               *)
LEMMA RotateShape ==
    ASSUME SpoolInv, NEW j \in Jobs, Rotate(j)
    PROVE  SpoolInv'
<1> DEFINE old == job[j]
<1>1. Busy(j) /\ UNCHANGED <<answered, dated, now>>
  BY DEF Rotate, List, ListFails, StatEntry, FindExpired, RemoveLog, RemoveMeta, RotationEnds, Rotating
<1>2. /\ TypeOK /\ JobKnows(old)
      /\ old \in Job /\ old.run \in Runs
  BY <1>1, JobTypes DEF SpoolInv, SpoolShape
<1>3. /\ log \in [Runs -> Log \cup {NoFile}] /\ meta \subseteq Runs /\ cut \subseteq Runs
      /\ old.stage \in Stages /\ old.rot \in Rotation /\ old.scan \subseteq Runs
      /\ old.view \subseteq Entry /\ old.half \in Runs \cup {NoRun} /\ old.text \in Parts
  BY <1>2 DEF TypeOK, Job
(* The handler goes on with its run, at its stage.                         *)
<1>4. ASSUME NEW rot, NEW scan, NEW view, NEW half,
             LET k == Handler(j, old.stage, rot, scan, view, half, "whole")
             IN  Becomes(j, k) /\ HandsOf(k) /\ ViewOf(k),
             log' \in [Runs -> Log \cup {NoFile}], \A r \in Runs : log'[r] \in {log[r], NoFile},
             meta' \subseteq meta, cut \subseteq cut', cut' \subseteq Runs,
             old.text = "whole"
      PROVE  SpoolInv'
  <2> DEFINE k == Handler(j, old.stage, rot, scan, view, half, "whole")
  <2>1. /\ k.stage = old.stage /\ k.run = old.run /\ k.text = old.text
        /\ Becomes(j, k) /\ HandsOf(k) /\ ViewOf(k)
    BY <1>4 DEF Handler
  <2> HIDE DEF k
  <2>2. GoesOn(j, k) /\ StageOf(k)
    BY <1>1, <1>2, <2>1 DEF GoesOn, Storing, JobKnows, StageOf
  <2> QED
    BY <1>1, <1>4, <2>1, <2>2, ShapeKeeps
<1>5. CASE List(j)
  <2> DEFINE rot == IF old.rot = "list" THEN "stat" ELSE "trim"
             k == Handler(j, old.stage, rot, OnDisk, {}, NoRun, "whole")
  <2>1. Becomes(j, k) /\ UNCHANGED <<log, meta, cut>>
    BY <1>2, <1>5, ListBecomes DEF List
  <2>2. rot \in {"stat", "trim"} /\ old.rot \in {"list", "list again"}
    BY <1>5 DEF List, Rotating
  <2>3. HandsOf(k)
    BY <1>2, <2>2 DEF Handler, JobKnows, HandsOf
  <2>4. ViewOf(k)
    BY DEF Handler, ViewOf
  <2>5. old.text = "whole"
    BY <1>2, <2>2 DEF JobKnows, HandsOf
  <2> HIDE DEF rot
  <2> QED
    BY <1>3, <1>4, <2>1, <2>3, <2>4, <2>5
<1>6. CASE ListFails(j) \/ RotationEnds(j)
  <2>1. PICK rot \in {"list again", "over"} : Rotates(j, rot)
    BY <1>6 DEF ListFails, RotationEnds
  <2> DEFINE k == Handler(j, old.stage, rot, {}, {}, NoRun, "whole")
  <2>2. Becomes(j, k)
    BY <1>1, <1>2, <2>1, RotatesBecomes DEF Rotation
  <2>3. old.rot # "over" /\ UNCHANGED <<log, meta>> /\ cut \subseteq cut' /\ cut' \subseteq Runs
    BY <1>2, <1>3, <1>6 DEF ListFails, RotationEnds, Rotating
  <2>4. HandsOf(k) /\ old.text = "whole"
    BY <1>2, <2>1, <2>3 DEF Handler, JobKnows, HandsOf
  <2>5. ViewOf(k)
    BY DEF Handler, ViewOf
  <2> QED
    BY <1>3, <1>4, <2>2, <2>3, <2>4, <2>5
<1>7. CASE StatEntry(j)
  <2>1. PICK r \in old.scan :
           Becomes(j, Handler(j, old.stage, old.rot, old.scan \ {r},
                              old.view \cup (IF log[r] = NoFile THEN {} ELSE {EntryOf(r)}),
                              old.half, old.text))
    BY <1>2, <1>7, StatEntryBecomes
  <2> DEFINE view == old.view \cup (IF log[r] = NoFile THEN {} ELSE {EntryOf(r)})
             k == Handler(j, old.stage, old.rot, old.scan \ {r}, view, old.half, "whole")
  <2>2. old.rot \in {"stat", "trim"} /\ r \in Runs
    BY <1>2, <1>3 DEF JobKnows, HandsOf
  <2>3. old.text = "whole"
    BY <1>2, <2>2 DEF JobKnows, HandsOf
  <2>4. HandsOf(k)
    BY <1>2, <2>2 DEF Handler, JobKnows, HandsOf
  <2>5. ViewOf(k)
    <3>1. CASE log[r] = NoFile
      BY <1>2, <3>1 DEF Handler, JobKnows, ViewOf
    <3>2. CASE log[r] # NoFile
      <4>1. k.scan = old.scan \ {r} /\ k.view = old.view \cup {EntryOf(r)} /\ k.rot = old.rot
        BY <3>2 DEF Handler
      <4>2. /\ EntryOf(r).run = r /\ Dated(r) /\ EntryOf(r).bytes <= Bytes(r)
            /\ dated[r].made <= EntryOf(r).mtime /\ EntryOf(r).mtime <= dated[r].last
        BY <2>2, <3>2, EntryKnown
      <4>3. \A e \in old.view : e.run # r
        BY <1>2 DEF JobKnows, ViewOf
      <4> HIDE DEF k, view
      <4> QED
        BY <1>2, <2>2, <4>1, <4>2, <4>3 DEF JobKnows, ViewOf
    <3> QED
      BY <3>1, <3>2
  <2>6. Becomes(j, k) /\ UNCHANGED <<log, meta, cut>>
    BY <1>7, <2>1, <2>3 DEF StatEntry
  <2> HIDE DEF view
  <2> QED
    BY <1>3, <1>4, <2>3, <2>4, <2>5, <2>6
<1>8. CASE FindExpired(j)
  <2> DEFINE view == {e \in old.view : now > e.mtime + Ttl}
             k == Handler(j, old.stage, "expire", {}, view, NoRun, "whole")
  <2>1. Becomes(j, k) /\ UNCHANGED <<log, meta, cut>>
    BY <1>2, <1>8, FindExpiredBecomes DEF FindExpired
  <2>2. old.rot = "stat" /\ old.scan = {}
    BY <1>8 DEF FindExpired, Rotating
  <2>3. HandsOf(k) /\ old.text = "whole"
    BY <1>2, <2>2 DEF Handler, JobKnows, HandsOf
  <2>4. ViewOf(k)
    BY <1>2, <2>2 DEF Handler, JobKnows, ViewOf
  <2> HIDE DEF view
  <2> QED
    BY <1>3, <1>4, <2>1, <2>3, <2>4
<1>9. CASE RemoveLog(j)
  <2>1. PICK e \in old.view :
           /\ Goes(j, e)
           /\ log' = [log EXCEPT ![e.run] = NoFile]
           /\ Becomes(j, Handler(j, old.stage, old.rot, old.scan, old.view \ {e}, e.run, old.text))
    BY <1>2, <1>9, RemoveLogBecomes
  <2> DEFINE k == Handler(j, old.stage, old.rot, old.scan, old.view \ {e}, e.run, "whole")
  <2>2. old.rot \in {"expire", "trim"} /\ e.run \in Runs
    BY <1>3, <2>1 DEF Goes, Rotating, Entry
  <2>3. old.text = "whole" /\ Dated(e.run)
    BY <1>2, <2>2 DEF JobKnows, HandsOf, ViewOf
  <2>4. HandsOf(k)
    BY <1>2, <2>2, <2>3 DEF Handler, JobKnows, HandsOf
  <2>5. ViewOf(k)
    BY <1>2 DEF Handler, JobKnows, ViewOf
  <2>6. Becomes(j, k) /\ UNCHANGED <<meta, cut>>
    BY <1>9, <2>1, <2>3 DEF RemoveLog
  <2>7. log' \in [Runs -> Log \cup {NoFile}] /\ \A r \in Runs : log'[r] \in {log[r], NoFile}
    BY <1>3, <2>1
  <2> QED
    BY <1>3, <1>4, <2>3, <2>4, <2>5, <2>6, <2>7
<1>10. CASE RemoveMeta(j)
  <2> DEFINE k == Handler(j, old.stage, old.rot, old.scan, old.view, NoRun, "whole")
  <2>1. old.half # NoRun
    BY <1>10 DEF RemoveMeta
  <2>2. old.text = "whole"
    BY <1>2, <2>1 DEF JobKnows, HandsOf
  <2>3. Becomes(j, k) /\ meta' \subseteq meta /\ UNCHANGED <<log, cut>>
    BY <1>2, <1>10, <2>2, RemoveMetaBecomes DEF RemoveMeta
  <2>4. HandsOf(k) /\ ViewOf(k)
    BY <1>2, <2>2 DEF Handler, JobKnows, HandsOf, ViewOf
  <2> QED
    BY <1>3, <1>4, <2>2, <2>3, <2>4
<1> QED
  BY <1>5, <1>6, <1>7, <1>8, <1>9, <1>10 DEF Rotate

(* What a fetch does, and a store that an error ends.                      *)
LEMMA FetchShape ==
    ASSUME SpoolInv, NEW j \in Jobs, Fetch(j)
    PROVE  SpoolInv'
<1> DEFINE old == job[j]
<1>1. TypeOK /\ UNCHANGED <<log, meta, answered, dated, cut, now>>
  BY DEF Fetch, BeginFetch, ReadLog, ReadMeta, Found, SpoolInv
<1>2. /\ log' \in [Runs -> Log \cup {NoFile}] /\ \A r \in Runs : log'[r] \in {log[r], NoFile}
      /\ meta' \subseteq meta /\ cut \subseteq cut' /\ cut' \subseteq Runs
  BY <1>1 DEF TypeOK
<1>3. CASE BeginFetch(j)
  <2>1. PICK r \in answered : job' = [job EXCEPT ![j] = NewJob(r, "read log", "list")]
    BY <1>3 DEF BeginFetch
  <2> DEFINE k == NewJob(r, "read log", "list")
  <2>2. Becomes(j, k)
    BY <1>1, <2>1, NewJobType DEF Becomes, TypeOK, Stages, Rotation
  <2>3. Fetches(k) /\ ~Busy(j)
    BY <1>3 DEF BeginFetch, NewJob, Fetches, Storing, StoreStages
  <2>4. HandsOf(k) /\ ViewOf(k) /\ StageOf(k)
    BY DEF NewJob, HandsOf, ViewOf, StageOf
  <2> HIDE DEF k
  <2> QED
    BY <1>1, <1>2, <2>2, <2>3, <2>4, ShapeKeeps
<1>4. ASSUME End(j), Busy(j), ~Storing(old) PROVE SpoolInv'
  <2>1. ~Becomes(j, NoJob)
    BY NoneAssumption DEF Becomes
  <2> QED
    BY <1>1, <1>2, <1>4, <2>1, ShapeKeeps
<1>5. CASE ReadLog(j)
  <2>1. Busy(j) /\ ~Storing(old) /\ old.run \in Runs /\ JobKnows(old)
    BY <1>1, <1>5, JobTypes DEF ReadLog, At, Rotating, Storing, StoreStages, SpoolInv, SpoolShape
  <2>2. CASE log[old.run] = NoFile
    BY <1>4, <1>5, <2>1, <2>2 DEF ReadLog
  <2>3. CASE log[old.run] # NoFile
    <3> DEFINE text == log[old.run].text
               k == Handler(j, "read meta", "over", {}, {}, NoRun, text)
    <3>1. Becomes(j, k)
      BY <1>1, <1>5, <2>3, ReadLogBecomes
    <3>2. GoesOn(j, k)
      BY <2>1 DEF GoesOn, Handler, Storing, StoreStages
    <3>3. HandsOf(k) /\ ViewOf(k)
      BY DEF Handler, HandsOf, ViewOf
    <3>4. StageOf(k)
      BY <2>1, <2>3 DEF Handler, StageOf, SpoolInv, SpoolShape, FilesOf
    <3> HIDE DEF k
    <3> QED
      BY <1>1, <1>2, <3>1, <3>2, <3>3, <3>4, ShapeKeeps
  <2> QED
    BY <2>2, <2>3
<1>6. CASE ReadMeta(j)
  <2>1. Busy(j) /\ ~Storing(old) /\ old.stage = "read meta" /\ old.rot = "over" /\ JobKnows(old)
    BY <1>6 DEF ReadMeta, At, Rotating, Storing, StoreStages, SpoolInv, SpoolShape
  <2>2. CASE End(j)
    BY <1>4, <2>1, <2>2
  <2>3. CASE ~End(j)
    <3>1. old.run \in meta /\ Go(j, "found")
      BY <1>6, <2>3 DEF ReadMeta
    <3> DEFINE k == Handler(j, "found", old.rot, old.scan, old.view, old.half, old.text)
    <3>2. Becomes(j, k)
      BY <1>1, <2>1, <3>1, GoBecomes DEF Stages
    <3>3. GoesOn(j, k)
      BY <2>1 DEF GoesOn, Handler, Storing, StoreStages
    <3>4. old.text # "part"
      BY <2>1, <3>1 DEF JobKnows, StageOf
    <3>5. HandsOf(k) /\ ViewOf(k)
      BY <2>1, <3>4 DEF Handler, JobKnows, HandsOf, ViewOf
    <3>6. StageOf(k)
      BY DEF Handler, StageOf
    <3> HIDE DEF k
    <3> QED
      BY <1>1, <1>2, <3>2, <3>3, <3>5, <3>6, ShapeKeeps
  <2> QED
    BY <2>2, <2>3
<1>7. CASE Found(j)
  <2>1. Busy(j) /\ ~Storing(old) /\ End(j)
    BY <1>7 DEF Found, At, Rotating, Storing, StoreStages
  <2> QED
    BY <1>4, <2>1
<1> QED
  BY <1>3, <1>5, <1>6, <1>7 DEF Fetch

(* so does a store that fails, wherever it is,                             *)
LEMMA StoreFailsShape ==
    ASSUME SpoolInv, NEW j \in Jobs, StoreFails(j)
    PROVE  SpoolInv'
<1> DEFINE r == job[j].run
           k == NewJob(r, "answer", "over")
<1>1. TypeOK /\ Busy(j) /\ Storing(job[j]) /\ r \in Runs /\ UNCHANGED <<answered, dated, now>>
  BY JobTypes DEF StoreFails, At, Rotating, Storing, StoreStages, SpoolInv
<1>2. Becomes(j, k)
  BY <1>1, NewJobType DEF StoreFails, Becomes, Stages, Rotation
<1>3. log' = log \/ log' = [log EXCEPT ![r] = NoFile]
  BY DEF StoreFails
<1>4. log' \in [Runs -> Log \cup {NoFile}] /\ \A q \in Runs : log'[q] \in {log[q], NoFile}
  BY <1>1, <1>3 DEF TypeOK
<1>5. meta' \subseteq meta /\ cut \subseteq cut' /\ cut' \subseteq Runs /\ r \in cut'
  BY <1>1 DEF StoreFails, TypeOK
<1>6. GoesOn(j, k) /\ k.stage = "answer" /\ k.run = r
  BY <1>1 DEF GoesOn, NewJob, Storing, StoreStages
<1>7. HandsOf(k) /\ ViewOf(k)
  BY DEF NewJob, HandsOf, ViewOf
<1> HIDE DEF k
<1> QED
  BY <1>1, <1>2, <1>4, <1>5, <1>6, <1>7, ShapeKeeps

(* A store's run is in nobody else's hands.                                *)
LEMMA OwnRun ==
    ASSUME SpoolInv, NEW j \in Jobs, Busy(j), Storing(job[j])
    PROVE  /\ job[j].run \in Runs \ answered
           /\ \A i \in Jobs : Busy(i) /\ i # j => job[i].run # job[j].run
BY JobTypes DEF SpoolInv, SpoolShape, RunsAreOwned

(* What the files of one run become leaves the handlers of others as they  *)
(* were.                                                                   *)
LEMMA OthersKeep ==
    ASSUME SpoolInv, TypeOK', NEW r \in Runs, NEW i \in Jobs, Busy(i), job[i].run # r,
           job'[i] = job[i],
           UNCHANGED <<cut, now>>,
           \A q \in Runs \ {r} :
               log'[q] = log[q] /\ dated'[q] = dated[q] /\ (q \in meta' <=> q \in meta),
           Dated(r) => Dated(r)' /\ dated'[r].made = dated[r].made /\ dated[r].last <= dated'[r].last
    PROVE  JobKnows(job[i])'
<1> DEFINE k == job[i]
<1>1. JobKnows(k) /\ k \in Job /\ k.run \in Runs /\ k.half \in Runs \cup {NoRun} /\ k.view \subseteq Entry
  BY JobTypes DEF SpoolInv, SpoolShape, Job
<1>2. \A q \in Runs : Dated(q) => /\ Dated(q)' /\ dated'[q].made = dated[q].made
                                  /\ dated[q].last <= dated'[q].last
                                  /\ dated[q].last \in Nat /\ dated'[q].last \in Nat
  BY SizesAssumption DEF Dated, SpoolInv, TypeOK, Date
<1>3. HandsOf(k)'
  BY <1>1, <1>2 DEF JobKnows, HandsOf
<1>4. ViewOf(k)'
  <2>1. \A e \in k.view : e.run \in Runs /\ e.mtime \in Nat
    BY <1>1, SizesAssumption DEF Entry
  <2> QED
    BY <1>1, <1>2, <2>1 DEF JobKnows, ViewOf, Bytes
<1>5. StageOf(k)'
  BY <1>1 DEF JobKnows, StageOf, Dated
<1> QED
  BY <1>3, <1>4, <1>5 DEF JobKnows

(* and one that begins with a run nobody has.                              *)
LEMMA BeginStoreShape ==
    ASSUME SpoolInv, NEW j \in Jobs, BeginStore(j)
    PROVE  SpoolInv'
<1> USE DEF SpoolInv, SpoolShape
<1>1. PICK r \in Runs \ answered :
         /\ \A k \in Jobs : Busy(k) => job[k].run # r
         /\ job' = [job EXCEPT ![j] = NewJob(r, "store", "list")]
  BY DEF BeginStore
<1>2. ~Busy(j) /\ UNCHANGED <<log, meta, answered, dated, cut, now>>
  BY DEF BeginStore
<1> DEFINE k == NewJob(r, "store", "list")
<1>3. k \in Job /\ k.run = r /\ Storing(k)
  BY NewJobType DEF Stages, Rotation, NewJob, Storing, StoreStages
<1>4. TypeOK'
  BY <1>1, <1>2, <1>3 DEF TypeOK
<1>5. ~Dated(r)
  BY <1>1 DEF RunsAreOwned
<1>6. HandsOf(k)' /\ ViewOf(k)' /\ StageOf(k)'
  BY <1>2, <1>5 DEF NewJob, HandsOf, ViewOf, StageOf, Dated
<1> HIDE DEF k
<1>7. /\ job'[j] = k /\ Busy(j)'
      /\ \A i \in Jobs : i # j => job'[i] = job[i]
  BY <1>1, <1>3, NoneAssumption DEF TypeOK, Busy, k
<1>8. RunsAreOwned'
  BY <1>1, <1>2, <1>3, <1>5, <1>7 DEF RunsAreOwned, Busy, Dated
<1>9. \A q \in Runs : FilesOf(q)'
  BY <1>2 DEF FilesOf, Dated
<1>10. ASSUME NEW i \in Jobs, Busy(i)' PROVE JobKnows(job[i])'
  <2>1. CASE i = j
    BY <1>6, <1>7, <2>1 DEF JobKnows, HandsOf, ViewOf, StageOf, Dated
  <2>2. CASE i # j
    BY <1>2, <1>7, <1>10, <2>2 DEF Busy, JobKnows, HandsOf, ViewOf, StageOf, Dated
  <2> QED
    BY <2>1, <2>2
<1> QED
  BY <1>4, <1>8, <1>9, <1>10

(* A store goes on and changes the files of its run.                       *)
LEMMA StoreKeeps ==
    ASSUME SpoolInv, NEW j \in Jobs, NEW k, NEW r, r = job[j].run, Busy(j), Storing(job[j]),
           UNCHANGED <<answered, cut, now>>,
           Becomes(j, k), GoesOn(j, k), log' \in [Runs -> Log \cup {NoFile}], meta' \subseteq Runs,
           dated' \in [Runs -> Date \cup {NotYet}],
           \A q \in Runs \ {r} :
               log'[q] = log[q] /\ dated'[q] = dated[q] /\ (q \in meta' <=> q \in meta),
           Dated(r) => Dated(r)' /\ dated'[r].made = dated[r].made /\ dated[r].last <= dated'[r].last,
           FilesOf(r)', JobKnows(k)'
    PROVE  SpoolInv'
<1> USE DEF SpoolInv, SpoolShape
<1>1. TypeOK'
  BY DEF TypeOK, Becomes
<1>2. /\ job'[j] = k /\ Busy(j)'
      /\ \A i \in Jobs : i # j => job'[i] = job[i]
  BY NoneAssumption DEF Becomes, TypeOK, Busy
<1>3. r \in Runs \ answered /\ \A i \in Jobs : Busy(i) /\ i # j => job[i].run # r
  BY OwnRun
<1>4. RunsAreOwned'
  <2>1. \A i \in Jobs : Busy(i)' => (Storing(job'[i]) <=> job'[i].run \notin answered')
    BY <1>2 DEF Busy, RunsAreOwned, GoesOn
  <2>2. \A h, i \in Jobs :
           Busy(h)' /\ Busy(i)' /\ Storing(job'[h]) /\ job'[h].run = job'[i].run => h = i
    BY <1>2 DEF Busy, RunsAreOwned, GoesOn
  <2>3. \A q \in answered' \ cut' : Dated(q)'
    BY <1>3 DEF RunsAreOwned, Dated, TypeOK
  <2>4. ASSUME NEW q \in Runs, Dated(q)', q \notin answered'
        PROVE  \E i \in Jobs : Busy(i)' /\ job'[i].run = q
    <3>1. CASE q = r
      BY <1>2, <3>1 DEF GoesOn
    <3>2. CASE q # r
      <4>1. PICK i \in Jobs : Busy(i) /\ job[i].run = q
        BY <2>4, <3>2 DEF RunsAreOwned, Dated
      <4> QED
        BY <1>2, <3>2, <4>1 DEF Busy
    <3> QED
      BY <3>1, <3>2
  <2> QED
    BY <2>1, <2>2, <2>3, <2>4 DEF RunsAreOwned
<1>5. ASSUME NEW q \in Runs PROVE FilesOf(q)'
  <2>1. CASE q = r
    BY <2>1
  <2>2. CASE q # r
    <3>1. FilesOf(q)
      OBVIOUS
    <3> QED
      BY <2>2, <3>1 DEF FilesOf, Dated
  <2> QED
    BY <2>1, <2>2
<1>6. ASSUME NEW i \in Jobs, Busy(i)' PROVE JobKnows(job[i])'
  <2>1. CASE i = j
    BY <1>2, <2>1 DEF JobKnows, HandsOf, ViewOf, StageOf, Dated
  <2>2. CASE i # j
    <3>1. job'[i] = job[i] /\ Busy(i) /\ job[i].run # r /\ r \in Runs
      BY <1>2, <1>3, <1>6, <2>2 DEF Busy
    <3> QED
      BY <1>1, <3>1, OthersKeep DEF JobKnows
  <2> QED
    BY <2>1, <2>2
<1> QED
  BY <1>1, <1>4, <1>5, <1>6

(* Between two parts of its work a handler has nothing in its hands.       *)
LEMMA EmptyHands ==
    ASSUME SpoolInv, NEW j \in Jobs, NEW stage \in Stages, stage # "read meta", At(j, stage)
    PROVE  /\ Busy(j) /\ job[j].run \in Runs /\ job[j].stage = stage /\ JobKnows(job[j])
           /\ job[j] = Handler(j, stage, "over", {}, {}, NoRun, "whole")
<1>1. TypeOK /\ Busy(j) /\ job[j].stage = stage /\ job[j].rot = "over" /\ JobKnows(job[j])
  BY DEF SpoolInv, SpoolShape, At, Rotating
<1>2. job[j].scan = {} /\ job[j].view = {} /\ job[j].half = NoRun /\ job[j].text = "whole"
  <2>1. job[j].text \in Parts
    BY <1>1, JobTypes DEF Job
  <2> QED
    BY <1>1, <2>1 DEF JobKnows, HandsOf, Parts
<1>3. job[j].run \in Runs
        /\ job[j] = Handler(j, job[j].stage, job[j].rot, job[j].scan, job[j].view,
                            job[j].half, job[j].text)
  BY <1>1, JobTypes
<1> QED
  BY <1>1, <1>2, <1>3

(* A store that goes on has nothing of a rotation in its hands.            *)
LEMMA GoesOnTo ==
    ASSUME SpoolInv, NEW j \in Jobs, NEW stage \in StoreStages, NEW to \in StoreStages, At(j, stage),
           \/ Go(j, to) /\ to # "answer"
           \/ to \in {"store", "settle"} /\ job' = [job EXCEPT ![j] = NewJob(job[j].run, to, "list")]
    PROVE  \E k : /\ Becomes(j, k) /\ GoesOn(j, k) /\ k.stage = to
                  /\ HandsOf(k)' /\ ViewOf(k)' /\ k.half = NoRun
<1> DEFINE old == job[j]
<1>1. stage \in Stages /\ stage # "read meta" /\ to \in Stages
  BY DEF Stages, StoreStages
<1>2. /\ TypeOK /\ Busy(j) /\ old.run \in Runs /\ old.stage = stage
      /\ old = Handler(j, stage, "over", {}, {}, NoRun, "whole")
  BY <1>1, EmptyHands DEF SpoolInv
<1>3. old.rot = "over" /\ old.scan = {} /\ old.view = {} /\ old.half = NoRun /\ old.text = "whole"
  BY <1>2 DEF Handler
<1>4. CASE Go(j, to)
  <2>0. PICK k : k = Handler(j, to, "over", {}, {}, NoRun, "whole")
    OBVIOUS
  <2>1. Becomes(j, k)
    BY <1>1, <1>2, <1>3, <1>4, <2>0, GoBecomes
  <2>2. k = [run |-> old.run, stage |-> to, rot |-> "over", scan |-> {}, view |-> {}, half |-> NoRun,
             text |-> "whole"]
    BY <2>0 DEF Handler
  <2>3. GoesOn(j, k)
    BY <1>2, <2>2 DEF GoesOn, Storing
  <2>4. HandsOf(k)' /\ ViewOf(k)'
    BY <2>2 DEF HandsOf, ViewOf
  <2> QED
    BY <2>1, <2>2, <2>3, <2>4
<1>5. CASE to \in {"store", "settle"} /\ job' = [job EXCEPT ![j] = NewJob(old.run, to, "list")]
  <2>0. PICK k : k = NewJob(old.run, to, "list")
    OBVIOUS
  <2>1. Becomes(j, k)
    BY <1>1, <1>2, <1>5, <2>0, NewJobType DEF Becomes, Rotation
  <2>2. k = [run |-> old.run, stage |-> to, rot |-> "list", scan |-> {}, view |-> {}, half |-> NoRun,
             text |-> "whole"]
    BY <2>0 DEF NewJob
  <2>3. GoesOn(j, k)
    BY <1>2, <2>2 DEF GoesOn, Storing
  <2>4. HandsOf(k)' /\ ViewOf(k)'
    BY <1>5, <2>2 DEF HandsOf, ViewOf
  <2> QED
    BY <2>1, <2>2, <2>3, <2>4
<1> QED
  BY <1>4, <1>5

(* Each step of a store keeps the shape: the log is made,                  *)
LEMMA MakeLogShape ==
    ASSUME SpoolInv, NEW j \in Jobs, MakeLog(j)
    PROVE  SpoolInv'
<1>0. PICK r : r = job[j].run
  OBVIOUS
<1> DEFINE made == [text |-> "part", mtime |-> now]
           date == [made |-> now, last |-> now]
<1>1. At(j, "store") /\ Go(j, "fill") /\ UNCHANGED <<meta, answered, cut, now>>
      /\ log' = [log EXCEPT ![r] = made] /\ dated' = [dated EXCEPT ![r] = date]
  BY <1>0 DEF MakeLog
<1>2. Busy(j) /\ r \in Runs /\ job[j].stage = "store" /\ JobKnows(job[j]) /\ Storing(job[j]) /\ TypeOK
  BY <1>0, <1>1, EmptyHands DEF Stages, Storing, StoreStages, SpoolInv
<1>3. PICK k : /\ Becomes(j, k) /\ GoesOn(j, k) /\ k.stage = "fill" /\ HandsOf(k)' /\ ViewOf(k)'
               /\ k.half = NoRun
  BY <1>1, GoesOnTo DEF StoreStages
<1>4. ~Dated(r) /\ r \notin meta
  BY <1>0, <1>2 DEF JobKnows, StageOf, SpoolInv, SpoolShape, FilesOf
<1>5. now \in 0 .. MaxTime /\ made \in Log /\ date \in Date
  BY <1>2 DEF TypeOK, Log, Parts, Date
<1>6. /\ log' \in [Runs -> Log \cup {NoFile}]
      /\ dated' \in [Runs -> Date \cup {NotYet}]
      /\ log'[r] = made /\ dated'[r] = date
  BY <1>1, <1>2, <1>5 DEF TypeOK
<1>7. Dated(r)'
  BY <1>5, <1>6, NoneAssumption DEF Dated
<1>8. FilesOf(r)'
  <2>1. made.mtime = now /\ made.text = "part" /\ date.made = now /\ date.last = now /\ now \in Nat
    BY <1>5, SizesAssumption
  <2> HIDE DEF made, date
  <2> QED
    BY <1>1, <1>4, <1>6, <1>7, <2>1 DEF FilesOf
<1>9. JobKnows(k)'
  BY <1>0, <1>1, <1>3, <1>4, <1>7 DEF JobKnows, StageOf, GoesOn
<1> QED
  BY <1>0, <1>1, <1>2, <1>3, <1>4, <1>6, <1>8, <1>9, StoreKeeps DEF TypeOK

(* filled under its name, or under none if a rotation has removed it,      *)
LEMMA FillLogShape ==
    ASSUME SpoolInv, NEW j \in Jobs, FillLog(j)
    PROVE  SpoolInv'
<1>0. PICK r : r = job[j].run
  OBVIOUS
<1> DEFINE filled == [text |-> "whole", mtime |-> now]
           date == [made |-> dated[r].made, last |-> now]
<1>1. At(j, "fill") /\ Go(j, "meta") /\ UNCHANGED <<meta, answered, cut, now>>
  BY DEF FillLog
<1>2. Busy(j) /\ r \in Runs /\ job[j].stage = "fill" /\ JobKnows(job[j]) /\ Storing(job[j]) /\ TypeOK
  BY <1>0, <1>1, EmptyHands DEF Stages, Storing, StoreStages, SpoolInv
<1>3. PICK k : /\ Becomes(j, k) /\ GoesOn(j, k) /\ k.stage = "meta" /\ HandsOf(k)' /\ ViewOf(k)'
               /\ k.half = NoRun
  BY <1>1, GoesOnTo DEF StoreStages
<1>4. Dated(r) /\ r \notin meta /\ FilesOf(r)
  BY <1>0, <1>2 DEF JobKnows, StageOf, SpoolInv, SpoolShape
<1>5. dated[r] \in Date /\ now \in 0 .. MaxTime /\ now \in Nat
  BY <1>2, <1>4, SizesAssumption DEF TypeOK, Dated
<1>6. CASE log[r] = NoFile
  <2>1. UNCHANGED <<log, dated>>
    BY <1>0, <1>6 DEF FillLog
  <2>2. FilesOf(r)'
    BY <1>1, <1>4, <2>1 DEF FilesOf, Dated
  <2>3. JobKnows(k)'
    BY <1>0, <1>1, <1>3, <1>4, <1>6, <2>1 DEF JobKnows, StageOf, GoesOn, Dated
  <2>4. dated[r].last <= dated'[r].last /\ Dated(r)'
    BY <1>4, <1>5, <2>1, SizesAssumption DEF Dated, Date
  <2> QED
    BY <1>0, <1>1, <1>2, <1>3, <2>1, <2>2, <2>3, <2>4, StoreKeeps DEF TypeOK
<1>7. CASE log[r] # NoFile
  <2>1. log' = [log EXCEPT ![r] = filled] /\ dated' = [dated EXCEPT ![r] = date]
    BY <1>0, <1>7 DEF FillLog
  <2>2. filled \in Log /\ date \in Date
    BY <1>5 DEF Log, Parts, Date
  <2>3. /\ log' \in [Runs -> Log \cup {NoFile}] /\ dated' \in [Runs -> Date \cup {NotYet}]
        /\ log'[r] = filled /\ dated'[r] = date
    BY <1>2, <2>1, <2>2 DEF TypeOK
  <2>4. Dated(r)' /\ filled # NoFile
    BY <2>2, <2>3, NoneAssumption DEF Dated
  <2>5. /\ filled.mtime = now /\ filled.text = "whole" /\ date.made = dated[r].made /\ date.last = now
        /\ dated[r].made \in Nat /\ dated[r].last \in Nat
        /\ dated[r].made <= dated[r].last /\ dated[r].last <= now
    BY <1>4, <1>5, SizesAssumption DEF Date, FilesOf
  <2> HIDE DEF filled, date
  <2>6. FilesOf(r)'
    BY <1>1, <1>5, <2>3, <2>4, <2>5 DEF FilesOf
  <2>7. JobKnows(k)'
    BY <1>0, <1>1, <1>3, <2>3, <2>4, <2>5 DEF JobKnows, StageOf, GoesOn
  <2>8. \A q \in Runs \ {r} : log'[q] = log[q] /\ dated'[q] = dated[q] /\ (q \in meta' <=> q \in meta)
    BY <1>1, <1>2, <2>1 DEF TypeOK
  <2>9. dated'[r].made = dated[r].made /\ dated[r].last <= dated'[r].last
    BY <2>3, <2>5
  <2> QED
    BY <1>0, <1>1, <1>2, <1>3, <2>3, <2>4, <2>6, <2>7, <2>8, <2>9, StoreKeeps DEF TypeOK
<1> QED
  BY <1>6, <1>7

(* given its meta when it is whole,                                        *)
LEMMA WriteMetaShape ==
    ASSUME SpoolInv, NEW j \in Jobs, WriteMeta(j)
    PROVE  SpoolInv'
<1>0. PICK r : r = job[j].run
  OBVIOUS
<1>1. /\ At(j, "meta") /\ job' = [job EXCEPT ![j] = NewJob(job[j].run, "settle", "list")]
      /\ meta' = meta \cup {r} /\ UNCHANGED <<log, answered, dated, cut, now>>
  BY <1>0 DEF WriteMeta
<1>2. Busy(j) /\ r \in Runs /\ job[j].stage = "meta" /\ JobKnows(job[j]) /\ Storing(job[j]) /\ TypeOK
  BY <1>0, <1>1, EmptyHands DEF Stages, Storing, StoreStages, SpoolInv
<1>3. PICK k : /\ Becomes(j, k) /\ GoesOn(j, k) /\ k.stage = "settle" /\ HandsOf(k)' /\ ViewOf(k)'
               /\ k.half = NoRun
  BY <1>1, GoesOnTo DEF StoreStages
<1>4. Dated(r) /\ FilesOf(r) /\ (log[r] # NoFile => log[r].text = "whole")
  BY <1>0, <1>2 DEF JobKnows, StageOf, SpoolInv, SpoolShape
<1>5. FilesOf(r)' /\ Dated(r)'
  BY <1>1, <1>4 DEF FilesOf, Dated
<1>6. JobKnows(k)'
  BY <1>0, <1>3, <1>5 DEF JobKnows, StageOf, GoesOn
<1>7. dated[r].last <= dated'[r].last
  BY <1>1, <1>2, <1>4, SizesAssumption DEF TypeOK, Dated, Date
<1> QED
  BY <1>0, <1>1, <1>2, <1>3, <1>5, <1>6, <1>7, StoreKeeps DEF TypeOK

(* and answered for;                                                       *)
LEMMA AnswerShape ==
    ASSUME SpoolInv, NEW j \in Jobs, Answer(j)
    PROVE  SpoolInv'
<1> USE DEF SpoolInv, SpoolShape
<1>0. PICK r : r = job[j].run
  OBVIOUS
<1>1. PICK stage \in {"settle", "answer"} : At(j, stage)
  BY DEF Answer
<1>2. answered' = answered \cup {r} /\ End(j) /\ UNCHANGED <<log, meta, dated, cut, now>>
  BY <1>0 DEF Answer
<1>3. Busy(j) /\ r \in Runs /\ job[j].stage = stage /\ JobKnows(job[j]) /\ Storing(job[j]) /\ TypeOK
  BY <1>0, <1>1, EmptyHands DEF Stages, Storing, StoreStages
<1>4. ~Busy(j)' /\ \A i \in Jobs : i # j => job'[i] = job[i]
  BY <1>2, <1>3 DEF End, TypeOK, Busy
<1>5. \A i \in Jobs : Busy(i) /\ i # j => job[i].run # r
  BY <1>0, <1>3, OwnRun
<1>6. TypeOK'
  BY <1>2, <1>3 DEF TypeOK, End
<1>7. Dated(r) \/ r \in cut
  BY <1>0, <1>3 DEF JobKnows, StageOf
<1>8. RunsAreOwned'
  <2>1. \A i \in Jobs : Busy(i)' => (Storing(job'[i]) <=> job'[i].run \notin answered')
    BY <1>2, <1>4, <1>5 DEF Busy, RunsAreOwned
  <2>2. \A h, i \in Jobs :
           Busy(h)' /\ Busy(i)' /\ Storing(job'[h]) /\ job'[h].run = job'[i].run => h = i
    BY <1>4 DEF Busy, RunsAreOwned
  <2>3. \A q \in answered' \ cut' : Dated(q)'
    BY <1>2, <1>7 DEF RunsAreOwned, Dated
  <2>4. ASSUME NEW q \in Runs, Dated(q)', q \notin answered'
        PROVE  \E i \in Jobs : Busy(i)' /\ job'[i].run = q
    <3>1. PICK i \in Jobs : Busy(i) /\ job[i].run = q
      BY <1>2, <2>4 DEF RunsAreOwned, Dated
    <3>2. i # j
      BY <1>0, <1>2, <2>4, <3>1
    <3> QED
      BY <1>4, <3>1, <3>2 DEF Busy
  <2> QED
    BY <2>1, <2>2, <2>3, <2>4 DEF RunsAreOwned
<1>9. \A q \in Runs : FilesOf(q)'
  BY <1>2 DEF FilesOf, Dated
<1>10. ASSUME NEW i \in Jobs, Busy(i)' PROVE JobKnows(job[i])'
  <2>1. i # j /\ job'[i] = job[i] /\ Busy(i)
    BY <1>4, <1>10 DEF Busy
  <2> QED
    BY <1>2, <2>1 DEF JobKnows, HandsOf, ViewOf, StageOf, Dated
<1> QED
  BY <1>6, <1>8, <1>9, <1>10

(* time only passes.                                                       *)
LEMMA TickShape ==
    ASSUME SpoolInv, Tick
    PROVE  SpoolInv'
<1> USE DEF SpoolInv, SpoolShape
<1>1. now < MaxTime /\ now' = now + 1 /\ UNCHANGED <<log, meta, job, answered, dated, cut>>
  BY DEF Tick
<1>2. now \in Nat /\ MaxTime \in Nat /\ Ttl \in Nat
  BY SizesAssumption DEF TypeOK
<1>3. TypeOK'
  <2>1. now' \in 0 .. MaxTime
    BY <1>1, <1>2
  <2> QED
    BY <1>1, <2>1 DEF TypeOK
<1>4. RunsAreOwned'
  BY <1>1 DEF RunsAreOwned, Busy, Dated
<1>5. ASSUME NEW q \in Runs PROVE FilesOf(q)'
  <2>1. Dated(q) => dated[q].last \in Nat
    BY SizesAssumption DEF TypeOK, Dated, Date
  <2> QED
    BY <1>1, <1>2, <2>1 DEF FilesOf, Dated
<1>6. ASSUME NEW i \in Jobs, Busy(i)' PROVE JobKnows(job[i])'
  <2>1. job'[i] = job[i] /\ Busy(i) /\ JobKnows(job[i])
    BY <1>1, <1>6 DEF Busy
  <2>2. HandsOf(job[i])' /\ StageOf(job[i])'
    BY <1>1, <2>1 DEF JobKnows, HandsOf, StageOf, Dated
  <2>3. \A e \in job[i].view : e.mtime \in Nat
    BY <2>1, JobTypes, SizesAssumption DEF Job, Entry
  <2>4. ViewOf(job[i])'
    BY <1>1, <1>2, <2>1, <2>3 DEF JobKnows, ViewOf, Dated
  <2> QED
    BY <2>2, <2>4 DEF JobKnows
<1> QED
  BY <1>3, <1>4, <1>5, <1>6

(* Every step keeps the shape.                                             *)
LEMMA NextSpoolInv == SpoolInv /\ [Next]_vars => SpoolInv'
<1> SUFFICES ASSUME SpoolInv, [Next]_vars PROVE SpoolInv'
  OBVIOUS
<1>1. CASE Tick
  BY <1>1, TickShape
<1>2. ASSUME NEW j \in Jobs, Rotate(j) \/ Store(j) \/ Fetch(j) PROVE SpoolInv'
  BY <1>2, RotateShape, FetchShape, BeginStoreShape, MakeLogShape, FillLogShape, WriteMetaShape,
     StoreFailsShape, AnswerShape DEF Store
<1>3. CASE UNCHANGED vars
  <2>1. UNCHANGED <<log, meta, job, answered, dated, cut, now>>
    BY <1>3 DEF vars
  <2>2. TypeOK' /\ RunsAreOwned'
    BY <2>1 DEF SpoolInv, SpoolShape, TypeOK, RunsAreOwned, Busy, Dated
  <2>3. \A r \in Runs : FilesOf(r)'
    BY <2>1 DEF SpoolInv, SpoolShape, FilesOf, Dated
  <2>4. \A j \in Jobs : Busy(j)' => JobKnows(job[j])'
    BY <2>1 DEF SpoolInv, SpoolShape, Busy, JobKnows, HandsOf, ViewOf, StageOf, Dated
  <2> QED
    BY <2>2, <2>3, <2>4 DEF SpoolInv, SpoolShape
<1> QED
  BY <1>1, <1>2, <1>3 DEF Next

(* The files of every run and the hands of every handler keep their shape: *)
(* a run has one handler that stores it, until it is answered, a meta only *)
(* when its log is whole, and a handler knows of each log what it was at   *)
(* some time (store_run_output, rotate_spool, get_spooled_output).         *)
THEOREM SpoolKeepsShape == Spec => []SpoolInv
BY InitSpoolInv, NextSpoolInv, PTL DEF Spec

(* Every variable of the spool keeps its type.                             *)
THEOREM SpoolTypes == Spec => []TypeOK
<1>1. SpoolInv => TypeOK
  BY DEF SpoolInv
<1> QED
  BY <1>1, SpoolKeepsShape, PTL

(* What so_shell_output returns is all of the run's output: a log read in  *)
(* part has no meta when the meta is read, and is not returned.            *)
THEOREM FetchesAreWhole == Spec => []FetchIsWhole
<1>1. SpoolInv => FetchIsWhole
  <2> SUFFICES ASSUME SpoolInv, NEW j \in Jobs, At(j, "found") PROVE job[j].text = "whole"
    BY DEF FetchIsWhole
  <2>1. "found" \in Stages /\ "found" # "read meta"
    BY DEF Stages
  <2>2. job[j] = Handler(j, "found", "over", {}, {}, NoRun, "whole")
    BY <2>1, EmptyHands
  <2> QED
    BY <2>2 DEF Handler
<1> QED
  BY <1>1, SpoolKeepsShape, PTL

-----------------------------------------------------------------------------
(* An answered run can be fetched                                          *)

Sized(runs) == {[run |-> q, bytes |-> LogBytes[q] + MetaBytes] : q \in runs}

(* A run whose output may be gone: it has expired, or those since fill the *)
(* spool.                                                                  *)
Excused(r) ==
    \/ now > dated[r].made + Ttl
    \/ TotalBytes(Sized(Since(r))) > MaxBytes

(* What a handler at a stage has made, if nobody has removed it.           *)
Holds(r, stage) ==
    /\ stage = "fill" => log[r] # NoFile
    /\ stage = "meta" => log[r] # NoFile /\ log[r].text = "whole"
    /\ stage = "settle" => Stored(r)

Owed(k) == k.run \in cut \/ Excused(k.run) \/ Holds(k.run, k.stage)

Kept ==
    /\ \A j \in Jobs : Busy(j) => Owed(job[j])
    /\ \A r \in answered : r \in cut \/ Excused(r) \/ Stored(r)
    /\ \A j \in Jobs : Busy(j) /\ job[j].half # NoRun => Excused(job[j].half)

(* Dates are given once and only move on.                                  *)
DatesGrow ==
    /\ now <= now'
    /\ \A q \in Runs : Dated(q) => /\ Dated(q)' /\ dated'[q].made = dated[q].made
                                   /\ dated[q].last <= dated'[q].last

(* The full sizes of some runs are those of files.                         *)
LEMMA SizedFits ==
    ASSUME NEW runs \in SUBSET Runs
    PROVE  Fits(Sized(runs))
<1>1. \A q \in runs : LogBytes[q] + MetaBytes \in Nat /\ LogBytes[q] + MetaBytes <= MaxBytes
  BY SizesAssumption
<1> QED
  BY <1>1 DEF Fits, Sized

(* Dates are numbers.                                                      *)
LEMMA DateTypes ==
    ASSUME SpoolInv, NEW r \in Runs, Dated(r)
    PROVE  /\ dated[r] \in Date /\ dated[r].made \in Nat /\ dated[r].last \in Nat
           /\ now \in Nat /\ Ttl \in Nat /\ MaxBytes \in Nat
<1>1. dated[r] \in Date
  BY DEF SpoolInv, TypeOK, Dated
<1> QED
  BY <1>1, SizesAssumption DEF SpoolInv, TypeOK, Date

(* Who is excused stays excused.                                           *)
LEMMA ExcusedStays ==
    ASSUME SpoolInv, SpoolInv', DatesGrow, NEW r \in Runs, Dated(r), Excused(r)
    PROVE  Excused(r)'
<1>1. Dated(r)' /\ dated'[r].made = dated[r].made /\ now <= now'
  BY DEF DatesGrow
<1>2. /\ dated[r].made \in Nat /\ dated'[r].made \in Nat /\ now \in Nat /\ now' \in Nat
      /\ Ttl \in Nat /\ MaxBytes \in Nat
  <2>1. now' \in Nat
    BY SizesAssumption DEF SpoolInv, TypeOK
  <2> QED
    BY <1>1, <2>1, DateTypes
<1>3. CASE now > dated[r].made + Ttl
  BY <1>1, <1>2, <1>3 DEF Excused
<1>4. CASE TotalBytes(Sized(Since(r))) > MaxBytes
  <2>1. Since(r) \subseteq Since(r)'
    <3> SUFFICES ASSUME NEW q \in Runs, Dated(q), dated[q].last >= dated[r].made
                 PROVE  Dated(q)' /\ dated'[q].last >= dated'[r].made
      BY DEF Since, Dated
    <3>1. Dated(q)' /\ dated[q].last <= dated'[q].last
      BY DEF DatesGrow
    <3>2. dated[q].last \in Nat
      BY DateTypes
    <3>3. dated'[q].last \in Nat
      <4>1. dated'[q] \in Date
        BY <3>1 DEF SpoolInv, TypeOK, Dated
      <4> QED
        BY <4>1, SizesAssumption DEF Date
    <3> QED
      BY <1>1, <1>2, <3>1, <3>2, <3>3
  <2>2. Since(r) \subseteq Runs /\ Since(r)' \subseteq Runs
    BY DEF Since
  <2>3. PICK later : later = Since(r)'
    OBVIOUS
  <2>4. Fits(Sized(Since(r))) /\ Fits(Sized(later))
    BY <2>2, <2>3, SizedFits
  <2>5. \A e \in Sized(Since(r)) : \E f \in Sized(later) : f.run = e.run /\ e.bytes <= f.bytes
    <3> SUFFICES ASSUME NEW q \in Since(r)
                 PROVE  LogBytes[q] + MetaBytes <= LogBytes[q] + MetaBytes
      BY <2>1, <2>3 DEF Sized
    <3> QED
      BY <2>2, SizesAssumption
  <2>6. TotalBytes(Sized(Since(r))) <= TotalBytes(Sized(later))
    BY <2>4, <2>5, SmallerFiles
  <2>7. TotalBytes(Sized(Since(r))) \in Nat /\ TotalBytes(Sized(later)) \in Nat
    BY <2>4, BytesAreFinite
  <2>8. TotalBytes(Sized(later)) > MaxBytes
    BY <1>2, <1>4, <2>6, <2>7
  <2>9. TotalBytes(Sized(Since(r)))' = TotalBytes(Sized(later))
    BY <2>3 DEF TotalBytes, BytesOf, Sized
  <2> QED
    BY <2>8, <2>9 DEF Excused
<1> QED
  BY <1>3, <1>4 DEF Excused

(* A view is of files, so that its bytes can be counted.                   *)
LEMMA ViewFits ==
    ASSUME SpoolInv, NEW j \in Jobs, Busy(j)
    PROVE  Fits(job[j].view)
<1>1. job[j].view \subseteq Entry /\ ViewOf(job[j])
  BY JobTypes DEF SpoolInv, SpoolShape, JobKnows, Job
<1>2. \A e \in job[j].view : e.run \in Runs /\ e.bytes \in Nat /\ e.bytes <= Bytes(e.run)
  BY <1>1 DEF Entry, ViewOf
<1>3. \A r \in Runs : Bytes(r) \in Nat /\ Bytes(r) <= MaxBytes /\ MaxBytes \in Nat
  BY SizesAssumption DEF Bytes
<1>4. \A e \in job[j].view : e.bytes <= MaxBytes
  BY <1>2, <1>3
<1> QED
  BY <1>1, <1>2, <1>4 DEF Fits, ViewOf

(* A rotation removes only runs that are excused: what it knows of the     *)
(* files, though stale, is of their time.                                  *)
LEMMA TakenIsExcused ==
    ASSUME SpoolInv, NEW j \in Jobs, Busy(j), NEW e \in job[j].view, Goes(j, e)
    PROVE  e.run \in Runs /\ Dated(e.run) /\ Excused(e.run)
<1>1. job[j].view \subseteq Entry /\ ViewOf(job[j])
  BY JobTypes DEF SpoolInv, SpoolShape, JobKnows, Job
<1>2. \A f \in job[j].view :
         /\ f.run \in Runs /\ f.mtime \in Nat /\ f.bytes \in Nat /\ Dated(f.run)
         /\ dated[f.run].made <= f.mtime /\ f.mtime <= dated[f.run].last /\ f.bytes <= Bytes(f.run)
  BY <1>1, SizesAssumption DEF Entry, ViewOf
<1>3. \A f \in job[j].view : dated[f.run].made \in Nat /\ dated[f.run].last \in Nat
  BY <1>2, DateTypes
<1>4. now \in Nat /\ Ttl \in Nat /\ MaxBytes \in Nat
  BY SizesAssumption DEF SpoolInv, TypeOK
<1>5. CASE Rotating(j, "expire")
  <2>1. now > e.mtime + Ttl
    BY <1>1, <1>5 DEF Rotating, ViewOf
  <2> QED
    BY <1>2, <1>3, <1>4, <2>1 DEF Excused
<1>6. CASE TotalBytes(job[j].view) > MaxBytes /\ \A f \in job[j].view : e.mtime <= f.mtime
  <2>1. \A f \in job[j].view : f.run \in Since(e.run)
    BY <1>2, <1>3, <1>6 DEF Since, Dated
  <2>2. Fits(job[j].view) /\ Fits(Sized(Since(e.run)))
    BY ViewFits, SizedFits DEF Since
  <2>3. \A f \in job[j].view : \E s \in Sized(Since(e.run)) : s.run = f.run /\ f.bytes <= s.bytes
    <3> SUFFICES ASSUME NEW f \in job[j].view
                 PROVE  \E s \in Sized(Since(e.run)) : s.run = f.run /\ f.bytes <= s.bytes
      OBVIOUS
    <3> DEFINE s == [run |-> f.run, bytes |-> LogBytes[f.run] + MetaBytes]
    <3>1. s \in Sized(Since(e.run))
      BY <2>1 DEF Sized
    <3>2. s.run = f.run /\ f.bytes <= s.bytes
      BY <1>2 DEF Bytes
    <3> QED
      BY <3>1, <3>2
  <2>4. /\ TotalBytes(job[j].view) <= TotalBytes(Sized(Since(e.run)))
        /\ TotalBytes(job[j].view) \in Nat /\ TotalBytes(Sized(Since(e.run))) \in Nat
    BY <2>2, <2>3, SmallerFiles, BytesAreFinite
  <2>5. TotalBytes(Sized(Since(e.run))) > MaxBytes
    BY <1>4, <1>6, <2>4
  <2> QED
    BY <1>2, <2>5 DEF Excused
<1> QED
  BY <1>2, <1>5, <1>6 DEF Goes

(* Every step gives dates once and only moves them on.                     *)
LEMMA DatesOnlyGrow ==
    ASSUME SpoolInv, [Next]_vars
    PROVE  DatesGrow
<1>1. now \in Nat /\ \A q \in Runs : Dated(q) => dated[q].made \in Nat /\ dated[q].last \in Nat
  BY DateTypes, SizesAssumption DEF SpoolInv, TypeOK
<1>2. CASE dated' = dated /\ (now' = now \/ now' = now + 1)
  BY <1>1, <1>2 DEF DatesGrow, Dated
<1>3. ASSUME NEW j \in Jobs, MakeLog(j) PROVE DatesGrow
  <2>1. At(j, "store") /\ dated' = [dated EXCEPT ![job[j].run] = [made |-> now, last |-> now]] /\ now' = now
    BY <1>3 DEF MakeLog
  <2>2. JobKnows(job[j]) /\ job[j].stage = "store"
    BY <2>1, EmptyHands DEF Stages
  <2>3. ~Dated(job[j].run)
    BY <2>2 DEF JobKnows, StageOf
  <2>4. \A q \in Runs : Dated(q) => dated'[q] = dated[q]
    BY <2>1, <2>3 DEF SpoolInv, TypeOK
  <2> QED
    BY <1>1, <2>1, <2>4 DEF DatesGrow, Dated
<1>4. ASSUME NEW j \in Jobs, FillLog(j), dated' # dated PROVE DatesGrow
  <2> DEFINE r == job[j].run
             date == [made |-> dated[r].made, last |-> now]
  <2>1. At(j, "fill") /\ dated' = [dated EXCEPT ![r] = date] /\ now' = now /\ log[r] # NoFile
    BY <1>4 DEF FillLog
  <2>2. r \in Runs
    BY <2>1, EmptyHands DEF Stages
  <2>3. Dated(r) /\ dated[r].last <= now
    BY <2>1, <2>2 DEF SpoolInv, SpoolShape, FilesOf
  <2>4. dated'[r] = date /\ date \in Date /\ \A q \in Runs \ {r} : dated'[q] = dated[q]
    BY <2>1, <2>2, <2>3 DEF SpoolInv, TypeOK, Dated, Date
  <2>5. dated'[r] # NotYet /\ dated'[r].made = dated[r].made /\ dated'[r].last = now
    BY <2>4, NoneAssumption
  <2> HIDE DEF r, date
  <2> QED
    BY <1>1, <2>1, <2>3, <2>4, <2>5 DEF DatesGrow, Dated
<1>5. CASE UNCHANGED vars \/ Tick
  BY <1>2, <1>5 DEF vars, Tick
<1>6. ASSUME NEW j \in Jobs, Rotate(j) PROVE dated' = dated /\ now' = now
  BY <1>6 DEF Rotate, List, ListFails, StatEntry, FindExpired, RemoveLog, RemoveMeta, RotationEnds
<1>7. ASSUME NEW j \in Jobs, Fetch(j) PROVE dated' = dated /\ now' = now
  BY <1>7 DEF Fetch, BeginFetch, ReadLog, ReadMeta, Found
<1>8. ASSUME NEW j \in Jobs, BeginStore(j) \/ WriteMeta(j) \/ StoreFails(j) \/ Answer(j)
      PROVE  dated' = dated /\ now' = now
  BY <1>8 DEF BeginStore, WriteMeta, StoreFails, Answer
<1>9. ASSUME NEW j \in Jobs, FillLog(j) PROVE DatesGrow
  <2>1. now' = now
    BY <1>9 DEF FillLog
  <2> QED
    BY <1>2, <1>4, <1>9, <2>1
<1> QED
  BY <1>2, <1>3, <1>5, <1>6, <1>7, <1>8, <1>9 DEF Next, Store

(* A handler's claim survives what others do with other files.             *)
LEMMA ClaimStays ==
    ASSUME SpoolInv, SpoolInv', DatesGrow, cut \subseteq cut', NEW k, k.run \in Runs, StageOf(k), Owed(k),
           \/ k.run \in cut' \/ Excused(k.run)'
           \/ log'[k.run] = log[k.run] /\ (k.run \in meta => k.run \in meta')
    PROVE  Owed(k)'
<1>1. CASE Excused(k.run)
  <2>1. CASE Dated(k.run)
    BY <1>1, <2>1, ExcusedStays DEF Owed
  <2>2. CASE ~Dated(k.run)
    BY <2>2 DEF StageOf, Owed, Holds
  <2> QED
    BY <2>1, <2>2
<1>2. CASE Holds(k.run, k.stage) /\ log'[k.run] = log[k.run] /\ (k.run \in meta => k.run \in meta')
  BY <1>2 DEF Owed, Holds, Stored
<1> QED
  BY <1>1, <1>2 DEF Owed

(* What a step must show: own is the run whose files it may make.          *)
LEMMA KeptKeeps ==
    ASSUME SpoolInv, SpoolInv', Kept, DatesGrow, cut \subseteq cut', NEW own, own \notin answered,
           \A r \in Runs : \/ r = own \/ r \in cut' \/ Excused(r)'
                           \/ log'[r] = log[r] /\ (r \in meta => r \in meta'),
           \A r \in answered' : r \in answered \/ r \in cut' \/ Excused(r)' \/ Stored(r)',
           \A i \in Jobs : Busy(i)' =>
               \/ /\ Busy(i) /\ job[i].run # own
                  /\ job'[i].run = job[i].run /\ job'[i].stage = job[i].stage
               \/ Owed(job[i])',
           \A i \in Jobs : Busy(i)' /\ job'[i].half # NoRun =>
               (Busy(i) /\ job'[i].half = job[i].half) \/ Excused(job[i].half)'
    PROVE  Kept'
<1>1. ASSUME NEW i \in Jobs, Busy(i)' PROVE Owed(job[i])'
  <2>1. CASE /\ Busy(i) /\ job[i].run # own
             /\ job'[i].run = job[i].run /\ job'[i].stage = job[i].stage
    <3>1. PICK k : k = job[i]
      OBVIOUS
    <3>2. k.run \in Runs /\ StageOf(k) /\ Owed(k)
      BY <2>1, <3>1, JobTypes DEF SpoolInv, SpoolShape, JobKnows, Kept
    <3>3. Owed(k)'
      BY <2>1, <3>1, <3>2, ClaimStays
    <3>4. PICK n : n = job'[i]
      OBVIOUS
    <3>5. n.run = k.run /\ n.stage = k.stage
      BY <2>1, <3>1, <3>4
    <3>6. Owed(n)'
      BY <3>3, <3>5 DEF Owed
    <3> QED
      BY <3>4, <3>6 DEF Owed
  <2> QED
    BY <1>1, <2>1
<1>2. ASSUME NEW r \in answered', r \notin cut' PROVE Excused(r)' \/ Stored(r)'
  <2>1. CASE r \in answered
    <3>1. r \in Runs /\ Dated(r) /\ r # own /\ (Excused(r) \/ Stored(r))
      BY <1>2, <2>1 DEF Kept, SpoolInv, SpoolShape, RunsAreOwned, TypeOK
    <3>2. CASE Excused(r)
      BY <3>1, <3>2, ExcusedStays
    <3>3. CASE Stored(r)
      BY <1>2, <3>1, <3>3 DEF Stored
    <3> QED
      BY <3>1, <3>2, <3>3
  <2> QED
    BY <1>2, <2>1
<1>3. ASSUME NEW i \in Jobs, Busy(i)', job'[i].half # NoRun PROVE Excused(job[i].half)'
  <2>1. CASE Busy(i) /\ job'[i].half = job[i].half
    <3>1. PICK r : r = job[i].half
      OBVIOUS
    <3>2. r \in Runs /\ Dated(r) /\ Excused(r)
      <4>1. job[i] \in Job /\ HandsOf(job[i]) /\ Excused(r)
        BY <1>3, <2>1, <3>1, JobTypes DEF SpoolInv, SpoolShape, JobKnows, Kept
      <4> QED
        BY <1>3, <2>1, <3>1, <4>1 DEF Job, HandsOf
    <3>3. Excused(r)'
      BY <3>2, ExcusedStays
    <3> QED
      BY <2>1, <3>1, <3>3
  <2> QED
    BY <1>3, <2>1
<1> QED
  BY <1>1, <1>2, <1>3 DEF Kept

(* A step of one handler leaves the others be.                             *)
LEMMA BecomesMoves ==
    ASSUME SpoolInv, NEW j \in Jobs, NEW k, Becomes(j, k)
    PROVE  /\ job'[j] = k /\ Busy(j)'
           /\ \A i \in Jobs : i # j => job'[i] = job[i] /\ (Busy(i)' <=> Busy(i))
BY NoneAssumption DEF Becomes, SpoolInv, TypeOK, Busy

(* NoRun is nobody's run.                                                  *)
LEMMA NoRunIsOwn ==
    ASSUME SpoolInv
    PROVE  NoRun \notin answered /\ \A i \in Jobs : Busy(i) => job[i].run # NoRun
BY JobTypes, NoneAssumption DEF SpoolInv, TypeOK

(* A rotation keeps the run and the stage of its handler.                  *)
LEMMA RotationGoesOn ==
    ASSUME SpoolInv, NEW j \in Jobs, Rotate(j)
    PROVE  \E k : /\ Becomes(j, k) /\ Busy(j) /\ k.run = job[j].run /\ k.stage = job[j].stage
                  /\ k.half \in {NoRun, job[j].half} \/ RemoveLog(j)
<1> DEFINE old == job[j]
<1>1. TypeOK /\ Busy(j)
  BY DEF SpoolInv, Rotate, List, ListFails, StatEntry, FindExpired, RemoveLog, RemoveMeta, RotationEnds,
         Rotating
<1>2. ASSUME NEW rot, NEW scan, NEW view, NEW half, NEW text,
             Becomes(j, Handler(j, old.stage, rot, scan, view, half, text)),
             half \in {NoRun, old.half} \/ RemoveLog(j)
      PROVE  \E k : /\ Becomes(j, k) /\ Busy(j) /\ k.run = job[j].run /\ k.stage = job[j].stage
                    /\ k.half \in {NoRun, job[j].half} \/ RemoveLog(j)
  <2> DEFINE k == Handler(j, old.stage, rot, scan, view, half, text)
  <2>1. k.run = old.run /\ k.stage = old.stage /\ k.half = half
    BY DEF Handler
  <2>2. Becomes(j, k) /\ (k.half \in {NoRun, old.half} \/ RemoveLog(j))
    BY <1>2, <2>1
  <2> HIDE DEF k
  <2> QED
    BY <1>1, <2>1, <2>2
<1>3. CASE List(j)
  BY <1>1, <1>2, <1>3, ListBecomes
<1>4. CASE ListFails(j) \/ RotationEnds(j)
  <2>1. PICK rot \in {"list again", "over"} : Rotates(j, rot)
    BY <1>4 DEF ListFails, RotationEnds
  <2>2. Becomes(j, Handler(j, old.stage, rot, {}, {}, NoRun, "whole"))
    BY <1>1, <2>1, RotatesBecomes DEF Rotation
  <2> QED
    BY <1>2, <2>2
<1>5. CASE StatEntry(j)
  <2>1. PICK r \in old.scan :
           Becomes(j, Handler(j, old.stage, old.rot, old.scan \ {r},
                              old.view \cup (IF log[r] = NoFile THEN {} ELSE {EntryOf(r)}),
                              old.half, old.text))
    BY <1>1, <1>5, StatEntryBecomes
  <2> DEFINE view == old.view \cup (IF log[r] = NoFile THEN {} ELSE {EntryOf(r)})
  <2>2. Becomes(j, Handler(j, old.stage, old.rot, old.scan \ {r}, view, old.half, old.text))
    BY <2>1
  <2> HIDE DEF view
  <2> QED
    BY <1>2, <2>2
<1>6. CASE FindExpired(j)
  BY <1>1, <1>2, <1>6, FindExpiredBecomes
<1>7. CASE RemoveLog(j)
  <2>1. PICK e \in old.view :
           Becomes(j, Handler(j, old.stage, old.rot, old.scan, old.view \ {e}, e.run, old.text))
    BY <1>1, <1>7, RemoveLogBecomes
  <2> QED
    BY <1>2, <1>7, <2>1
<1>8. CASE RemoveMeta(j)
  BY <1>1, <1>2, <1>8, RemoveMetaBecomes
<1> QED
  BY <1>3, <1>4, <1>5, <1>6, <1>7, <1>8 DEF Rotate

(* A rotation removes only what is excused: what it has seen expire, or    *)
(* the oldest of what it saw fill the spool.                               *)
LEMMA RotateKept ==
    ASSUME SpoolInv, SpoolInv', Kept, DatesGrow, NEW j \in Jobs, Rotate(j)
    PROVE  Kept'
<1>1. TypeOK /\ NoRun \notin answered /\ \A i \in Jobs : Busy(i) => job[i].run # NoRun
  BY NoRunIsOwn DEF SpoolInv
<1>2. answered' = answered /\ cut \subseteq cut'
  BY DEF Rotate, List, ListFails, StatEntry, FindExpired, RemoveLog, RemoveMeta, RotationEnds
<1>3. PICK k : /\ Becomes(j, k) /\ Busy(j) /\ k.run = job[j].run /\ k.stage = job[j].stage
               /\ k.half \in {NoRun, job[j].half} \/ RemoveLog(j)
  BY RotationGoesOn
<1>4. /\ job'[j] = k /\ Busy(j)'
      /\ \A i \in Jobs : i # j => job'[i] = job[i] /\ (Busy(i)' <=> Busy(i))
  BY <1>3, BecomesMoves
<1>5. \A i \in Jobs : Busy(i)' => /\ Busy(i) /\ job[i].run # NoRun
                                  /\ job'[i].run = job[i].run /\ job'[i].stage = job[i].stage
  BY <1>1, <1>3, <1>4
<1>6. CASE RemoveLog(j)
  <2>1. PICK e \in job[j].view :
           /\ Goes(j, e)
           /\ log' = [log EXCEPT ![e.run] = NoFile]
           /\ Becomes(j, Handler(j, job[j].stage, job[j].rot, job[j].scan, job[j].view \ {e}, e.run,
                                 job[j].text))
    BY <1>1, <1>6, RemoveLogBecomes
  <2>2. e.run \in Runs /\ Dated(e.run) /\ Excused(e.run)
    BY <1>3, <2>1, TakenIsExcused
  <2>3. PICK r : r = e.run
    OBVIOUS
  <2>4. Excused(r)'
    BY <2>2, <2>3, ExcusedStays
  <2>5. \A q \in Runs : q # r => log'[q] = log[q] /\ (q \in meta => q \in meta')
    BY <1>1, <1>6, <2>1, <2>3 DEF RemoveLog, TypeOK
  <2>6. job'[j].half = r
    <3>1. job'[j] = Handler(j, job[j].stage, job[j].rot, job[j].scan, job[j].view \ {e}, e.run, job[j].text)
      BY <2>1, BecomesMoves
    <3> QED
      BY <2>3, <3>1 DEF Handler
  <2>7. \A q \in Runs : \/ q = NoRun \/ q \in cut' \/ Excused(q)'
                        \/ log'[q] = log[q] /\ (q \in meta => q \in meta')
    BY <2>4, <2>5
  <2>8. \A i \in Jobs : Busy(i)' /\ job'[i].half # NoRun =>
            (Busy(i) /\ job'[i].half = job[i].half) \/ Excused(job[i].half)'
    <3>1. Excused(job[j].half)'
      BY <2>4, <2>6 DEF Excused
    <3> QED
      BY <1>4, <3>1
  <2> QED
    BY <1>1, <1>2, <1>5, <2>7, <2>8, KeptKeeps
<1>7. CASE ~RemoveLog(j)
  <2>1. log' = log
    BY <1>7 DEF Rotate, List, ListFails, StatEntry, FindExpired, RemoveMeta, RotationEnds
  <2>2. ASSUME NEW q \in Runs PROVE Excused(q)' \/ (q \in meta => q \in meta')
    <3>1. CASE RemoveMeta(j)
      <4>1. meta' = meta \ {job[j].half} /\ job[j].half # NoRun
        BY <3>1 DEF RemoveMeta
      <4>2. Dated(job[j].half) /\ Excused(job[j].half)
        BY <1>3, <4>1 DEF SpoolInv, SpoolShape, JobKnows, HandsOf, Kept
      <4>3. q = job[j].half => Excused(q)'
        BY <4>2, ExcusedStays
      <4> QED
        BY <4>1, <4>3
    <3>2. CASE ~RemoveMeta(j)
      BY <1>7, <3>2 DEF Rotate, List, ListFails, StatEntry, FindExpired, RotationEnds
    <3> QED
      BY <3>1, <3>2
  <2>3. \A i \in Jobs : Busy(i)' /\ job'[i].half # NoRun =>
            (Busy(i) /\ job'[i].half = job[i].half) \/ Excused(job[i].half)'
    BY <1>3, <1>4, <1>7
  <2>4. \A q \in Runs : \/ q = NoRun \/ q \in cut' \/ Excused(q)'
                        \/ log'[q] = log[q] /\ (q \in meta => q \in meta')
    BY <2>1, <2>2
  <2> QED
    BY <1>1, <1>2, <1>5, <2>3, <2>4, KeptKeeps
<1> QED
  BY <1>6, <1>7

(* A step that leaves the files, and whose handler has made nothing yet.   *)
LEMMA IdleKept ==
    ASSUME SpoolInv, SpoolInv', Kept, DatesGrow, UNCHANGED <<log, meta, answered, cut>>,
           \A i \in Jobs : Busy(i)' =>
               \/ Busy(i) /\ job'[i] = job[i]
               \/ job'[i].stage \notin {"fill", "meta", "settle"} /\ job'[i].half = NoRun
    PROVE  Kept'
<1>1. NoRun \notin answered /\ \A i \in Jobs : Busy(i) => job[i].run # NoRun
  BY NoRunIsOwn
<1>2. ASSUME NEW i \in Jobs, Busy(i)'
      PROVE  \/ /\ Busy(i) /\ job[i].run # NoRun
                /\ job'[i].run = job[i].run /\ job'[i].stage = job[i].stage
             \/ Owed(job[i])'
  BY <1>1, <1>2 DEF Owed, Holds
<1>3. \A i \in Jobs : Busy(i)' /\ job'[i].half # NoRun =>
          (Busy(i) /\ job'[i].half = job[i].half) \/ Excused(job[i].half)'
  OBVIOUS
<1> QED
  BY <1>1, <1>2, <1>3, KeptKeeps

(* A fetch ends or goes on, with nothing half removed,                     *)
LEMMA FetchBecomes ==
    ASSUME SpoolInv, NEW j \in Jobs, Fetch(j)
    PROVE  \/ End(j)
           \/ \E k : /\ Becomes(j, k) /\ k.stage \in {"read log", "read meta", "found"}
                     /\ k.half = NoRun
<1> DEFINE goal == \/ End(j)
                   \/ \E k : /\ Becomes(j, k) /\ k.stage \in {"read log", "read meta", "found"}
                             /\ k.half = NoRun
<1>1. TypeOK
  BY DEF SpoolInv
<1>2. ASSUME NEW stage \in {"read log", "read meta", "found"}, NEW rot, NEW scan, NEW view, NEW text,
             Becomes(j, Handler(j, stage, rot, scan, view, NoRun, text))
      PROVE  goal
  <2> DEFINE k == Handler(j, stage, rot, scan, view, NoRun, text)
  <2>1. Becomes(j, k) /\ k.stage = stage /\ k.half = NoRun
    BY <1>2 DEF Handler
  <2> HIDE DEF k
  <2> QED
    BY <2>1
<1>3. CASE BeginFetch(j)
  <2>1. PICK r \in answered : job' = [job EXCEPT ![j] = NewJob(r, "read log", "list")]
    BY <1>3 DEF BeginFetch
  <2>2. Becomes(j, NewJob(r, "read log", "list"))
    BY <1>1, <2>1, NewJobType DEF Becomes, TypeOK, Stages, Rotation
  <2> DEFINE k == NewJob(r, "read log", "list")
  <2>3. Becomes(j, k) /\ k.stage = "read log" /\ k.half = NoRun
    BY <2>2 DEF NewJob
  <2> HIDE DEF k
  <2> QED
    BY <2>3
<1>4. CASE ReadLog(j)
  <2>1. CASE log[job[j].run] = NoFile
    BY <1>4, <2>1 DEF ReadLog
  <2>2. CASE log[job[j].run] # NoFile
    <3>1. Becomes(j, Handler(j, "read meta", "over", {}, {}, NoRun, log[job[j].run].text))
      BY <1>1, <1>4, <2>2, ReadLogBecomes
    <3> QED
      BY <1>2, <3>1
  <2> QED
    BY <2>1, <2>2
<1>5. CASE ReadMeta(j) /\ ~End(j)
  <2>1. Busy(j) /\ job[j].rot = "over" /\ Go(j, "found")
    BY <1>5 DEF ReadMeta, At, Rotating
  <2>2. job[j].half = NoRun
    BY <2>1 DEF SpoolInv, SpoolShape, JobKnows, HandsOf
  <2>3. Becomes(j, Handler(j, "found", job[j].rot, job[j].scan, job[j].view, job[j].half, job[j].text))
    BY <1>1, <2>1, GoBecomes DEF Stages
  <2>4. Becomes(j, Handler(j, "found", job[j].rot, job[j].scan, job[j].view, NoRun, job[j].text))
    BY <2>2, <2>3
  <2> QED
    BY <1>2, <2>4
<1>6. CASE Found(j)
  BY <1>6 DEF Found
<1> QED
  BY <1>3, <1>4, <1>5, <1>6 DEF Fetch

(* and keeps what is owed.                                                 *)
LEMMA FetchKept ==
    ASSUME SpoolInv, SpoolInv', Kept, DatesGrow, NEW j \in Jobs, Fetch(j)
    PROVE  Kept'
<1>1. UNCHANGED <<log, meta, answered, cut>>
  BY DEF Fetch, BeginFetch, ReadLog, ReadMeta, Found
<1>2. CASE End(j)
  <2>1. ~Busy(j)' /\ \A i \in Jobs : i # j => job'[i] = job[i] /\ (Busy(i)' <=> Busy(i))
    BY <1>2 DEF End, SpoolInv, TypeOK, Busy
  <2> QED
    BY <1>1, <2>1, IdleKept
<1>3. CASE ~End(j)
  <2>1. PICK k : Becomes(j, k) /\ k.stage \in {"read log", "read meta", "found"} /\ k.half = NoRun
    BY <1>3, FetchBecomes
  <2>2. /\ job'[j] = k
        /\ \A i \in Jobs : i # j => job'[i] = job[i] /\ (Busy(i)' <=> Busy(i))
    BY <2>1, BecomesMoves
  <2>3. job'[j].stage \notin {"fill", "meta", "settle"} /\ job'[j].half = NoRun
    BY <2>1, <2>2
  <2> QED
    BY <1>1, <2>2, <2>3, IdleKept
<1> QED
  BY <1>2, <1>3

(* So does a store that goes on, if it has made what its stage says:       *)
LEMMA StoreKept ==
    ASSUME SpoolInv, SpoolInv', Kept, DatesGrow, NEW j \in Jobs, NEW stage \in StoreStages, At(j, stage),
           UNCHANGED <<answered, cut>>, NEW k, Becomes(j, k), k.run = job[j].run, k.half = NoRun, Owed(k)',
           \A q \in Runs \ {job[j].run} : log'[q] = log[q] /\ (q \in meta => q \in meta')
    PROVE  Kept'
<1>0. PICK r : r = job[j].run
  OBVIOUS
<1>1. /\ job'[j] = k
      /\ \A i \in Jobs : i # j => job'[i] = job[i] /\ (Busy(i)' <=> Busy(i))
  BY BecomesMoves
<1>2. Busy(j) /\ Storing(job[j])
  BY EmptyHands DEF At, Rotating, Storing
<1>3. r \notin answered /\ \A i \in Jobs : Busy(i) /\ i # j => job[i].run # r
  BY <1>0, <1>2, OwnRun
<1>4. ASSUME NEW i \in Jobs, Busy(i)'
      PROVE  \/ /\ Busy(i) /\ job[i].run # r
                /\ job'[i].run = job[i].run /\ job'[i].stage = job[i].stage
             \/ Owed(job[i])'
  <2>1. CASE i = j
    BY <1>1, <2>1 DEF Owed
  <2>2. CASE i # j
    BY <1>1, <1>3, <1>4, <2>2
  <2> QED
    BY <2>1, <2>2
<1>5. \A i \in Jobs : Busy(i)' /\ job'[i].half # NoRun =>
          (Busy(i) /\ job'[i].half = job[i].half) \/ Excused(job[i].half)'
  BY <1>1
<1> QED
  BY <1>0, <1>3, <1>4, <1>5, KeptKeeps

(* the log,                                                                *)
LEMMA MakeLogKept ==
    ASSUME SpoolInv, SpoolInv', Kept, DatesGrow, NEW j \in Jobs, MakeLog(j)
    PROVE  Kept'
<1>0. PICK r : r = job[j].run
  OBVIOUS
<1> DEFINE made == [text |-> "part", mtime |-> now]
<1>1. At(j, "store") /\ Go(j, "fill") /\ UNCHANGED <<meta, answered, cut>>
      /\ log' = [log EXCEPT ![r] = made]
  BY <1>0 DEF MakeLog
<1>2. r \in Runs /\ made \in Log
  BY <1>0, <1>1, EmptyHands DEF Stages, SpoolInv, TypeOK, Log, Parts
<1>3. PICK k : Becomes(j, k) /\ GoesOn(j, k) /\ k.stage = "fill" /\ k.half = NoRun
  BY <1>1, GoesOnTo DEF StoreStages
<1>4. log'[r] = made /\ \A q \in Runs \ {r} : log'[q] = log[q]
  BY <1>1, <1>2 DEF SpoolInv, TypeOK
<1>5. Owed(k)'
  BY <1>0, <1>2, <1>3, <1>4, NoneAssumption DEF Owed, Holds, GoesOn
<1> QED
  BY <1>0, <1>1, <1>3, <1>4, <1>5, StoreKept DEF StoreStages, GoesOn

(* the whole of it,                                                        *)
LEMMA FillLogKept ==
    ASSUME SpoolInv, SpoolInv', Kept, DatesGrow, NEW j \in Jobs, FillLog(j)
    PROVE  Kept'
<1>0. PICK r : r = job[j].run
  OBVIOUS
<1> DEFINE filled == [text |-> "whole", mtime |-> now]
<1>1. At(j, "fill") /\ Go(j, "meta") /\ UNCHANGED <<meta, answered, cut>>
  BY DEF FillLog
<1>2. /\ r \in Runs /\ Busy(j) /\ job[j].stage = "fill" /\ JobKnows(job[j])
      /\ filled \in Log
  BY <1>0, <1>1, EmptyHands DEF Stages, SpoolInv, TypeOK, Log, Parts
<1>3. PICK k : Becomes(j, k) /\ GoesOn(j, k) /\ k.stage = "meta" /\ k.half = NoRun
  BY <1>1, GoesOnTo DEF StoreStages
<1>4. r \in cut \/ Excused(r) \/ log[r] # NoFile
  BY <1>0, <1>2 DEF Kept, Owed, Holds
<1>5. Dated(r)
  BY <1>0, <1>2 DEF JobKnows, StageOf
<1>6. log' = log \/ log' = [log EXCEPT ![r] = filled]
  BY <1>0 DEF FillLog
<1>7. \A q \in Runs \ {r} : log'[q] = log[q]
  BY <1>2, <1>6 DEF SpoolInv, TypeOK
<1>8. log[r] # NoFile => log'[r] # NoFile /\ log'[r].text = "whole"
  <2> SUFFICES ASSUME log[r] # NoFile PROVE log'[r] # NoFile /\ log'[r].text = "whole"
    OBVIOUS
  <2>1. log' = [log EXCEPT ![r] = filled]
    BY <1>0 DEF FillLog
  <2>2. log'[r] = filled
    BY <1>2, <2>1 DEF SpoolInv, TypeOK
  <2> QED
    BY <1>2, <2>2, NoneAssumption
<1>9. k.run = r
  BY <1>0, <1>3 DEF GoesOn
<1>10. Owed(k)'
  <2>1. CASE r \in cut
    BY <1>1, <1>9, <2>1 DEF Owed
  <2>2. CASE Excused(r)
    BY <1>2, <1>5, <1>9, <2>2, ExcusedStays DEF Owed
  <2>3. CASE log[r] # NoFile
    BY <1>3, <1>8, <1>9, <2>3 DEF Owed, Holds
  <2> QED
    BY <1>4, <2>1, <2>2, <2>3
<1> QED
  BY <1>0, <1>1, <1>3, <1>7, <1>9, <1>10, StoreKept DEF StoreStages

(* and the meta.                                                           *)
LEMMA WriteMetaKept ==
    ASSUME SpoolInv, SpoolInv', Kept, DatesGrow, NEW j \in Jobs, WriteMeta(j)
    PROVE  Kept'
<1>0. PICK r : r = job[j].run
  OBVIOUS
<1>1. /\ At(j, "meta") /\ job' = [job EXCEPT ![j] = NewJob(job[j].run, "settle", "list")]
      /\ meta' = meta \cup {r} /\ UNCHANGED <<log, answered, cut>>
  BY <1>0 DEF WriteMeta
<1>2. r \in Runs /\ Busy(j) /\ job[j].stage = "meta" /\ JobKnows(job[j])
  BY <1>0, <1>1, EmptyHands DEF Stages
<1>3. PICK k : Becomes(j, k) /\ GoesOn(j, k) /\ k.stage = "settle" /\ k.half = NoRun
  BY <1>1, GoesOnTo DEF StoreStages
<1>4. r \in cut \/ Excused(r) \/ (log[r] # NoFile /\ log[r].text = "whole")
  BY <1>0, <1>2 DEF Kept, Owed, Holds
<1>5. Dated(r) /\ k.run = r
  BY <1>0, <1>2, <1>3 DEF JobKnows, StageOf, GoesOn
<1>6. Owed(k)'
  <2>1. CASE r \in cut
    BY <1>1, <1>5, <2>1 DEF Owed
  <2>2. CASE Excused(r)
    BY <1>2, <1>5, <2>2, ExcusedStays DEF Owed
  <2>3. CASE log[r] # NoFile /\ log[r].text = "whole"
    BY <1>1, <1>3, <1>5, <2>3 DEF Owed, Holds, Stored
  <2> QED
    BY <1>4, <2>1, <2>2, <2>3
<1> QED
  BY <1>0, <1>1, <1>3, <1>5, <1>6, StoreKept DEF StoreStages

(* A store that fails owes nothing.                                        *)
LEMMA StoreFailsKept ==
    ASSUME SpoolInv, SpoolInv', Kept, DatesGrow, NEW j \in Jobs, StoreFails(j)
    PROVE  Kept'
<1>0. PICK r : r = job[j].run
  OBVIOUS
<1> DEFINE k == NewJob(r, "answer", "over")
<1>1. /\ Busy(j) /\ r \in Runs /\ TypeOK
      /\ cut' = cut \cup {r} /\ UNCHANGED <<meta, answered>> /\ job' = [job EXCEPT ![j] = k]
      /\ log' = log \/ log' = [log EXCEPT ![r] = NoFile]
  BY <1>0, JobTypes DEF StoreFails, At, Rotating, SpoolInv
<1>2. Becomes(j, k) /\ k.run = r /\ k.half = NoRun
  BY <1>1, NewJobType DEF Becomes, Stages, Rotation, NewJob
<1> HIDE DEF k
<1>3. /\ job'[j] = k
      /\ \A i \in Jobs : i # j => job'[i] = job[i] /\ (Busy(i)' <=> Busy(i))
  BY <1>2, BecomesMoves
<1>4. NoRun \notin answered /\ \A i \in Jobs : Busy(i) => job[i].run # NoRun
  BY NoRunIsOwn
<1>5. \A q \in Runs : q \in cut' \/ (log'[q] = log[q] /\ (q \in meta => q \in meta'))
  BY <1>1 DEF TypeOK
<1>6. \A i \in Jobs : Busy(i)' =>
          \/ /\ Busy(i) /\ job[i].run # NoRun
             /\ job'[i].run = job[i].run /\ job'[i].stage = job[i].stage
          \/ Owed(job[i])'
  BY <1>1, <1>2, <1>3, <1>4 DEF Owed
<1>7. \A i \in Jobs : Busy(i)' /\ job'[i].half # NoRun =>
          (Busy(i) /\ job'[i].half = job[i].half) \/ Excused(job[i].half)'
  BY <1>2, <1>3
<1> QED
  BY <1>1, <1>4, <1>5, <1>6, <1>7, KeptKeeps

(* An answer passes on what its store owed.                                *)
LEMMA AnswerKept ==
    ASSUME SpoolInv, SpoolInv', Kept, DatesGrow, NEW j \in Jobs, Answer(j)
    PROVE  Kept'
<1>0. PICK r : r = job[j].run
  OBVIOUS
<1>1. PICK stage \in {"settle", "answer"} : At(j, stage)
  BY DEF Answer
<1>2. answered' = answered \cup {r} /\ End(j) /\ UNCHANGED <<log, meta, cut>>
  BY <1>0 DEF Answer
<1>3. Busy(j) /\ r \in Runs /\ job[j].stage = stage /\ JobKnows(job[j]) /\ TypeOK
  BY <1>0, <1>1, EmptyHands DEF Stages, SpoolInv
<1>4. ~Busy(j)' /\ \A i \in Jobs : i # j => job'[i] = job[i] /\ (Busy(i)' <=> Busy(i))
  BY <1>2, <1>3 DEF End, TypeOK, Busy
<1>5. NoRun \notin answered /\ \A i \in Jobs : Busy(i) => job[i].run # NoRun
  BY NoRunIsOwn
<1>6. r \in cut' \/ Excused(r)' \/ Stored(r)'
  <2>1. CASE stage = "answer"
    BY <1>0, <1>2, <1>3, <2>1 DEF JobKnows, StageOf
  <2>2. CASE stage = "settle"
    <3>1. Dated(r) /\ (r \in cut \/ Excused(r) \/ Stored(r))
      BY <1>0, <1>3, <2>2 DEF JobKnows, StageOf, Kept, Owed, Holds
    <3>2. Excused(r) => Excused(r)'
      BY <1>3, <3>1, ExcusedStays
    <3> QED
      BY <1>2, <3>1, <3>2 DEF Stored
  <2> QED
    BY <2>1, <2>2
<1>7. \A q \in answered' : q \in answered \/ q \in cut' \/ Excused(q)' \/ Stored(q)'
  BY <1>2, <1>6
<1>8. \A i \in Jobs : Busy(i)' => /\ Busy(i) /\ job[i].run # NoRun
                                  /\ job'[i].run = job[i].run /\ job'[i].stage = job[i].stage
                                  /\ job'[i].half = job[i].half
  BY <1>4, <1>5
<1> QED
  BY <1>2, <1>5, <1>7, <1>8, KeptKeeps

(* Every step keeps what is owed.                                          *)
LEMMA NextKept == SpoolInv /\ Kept /\ [Next]_vars => Kept'
<1> SUFFICES ASSUME SpoolInv, Kept, [Next]_vars PROVE Kept'
  OBVIOUS
<1>1. SpoolInv' /\ DatesGrow
  BY NextSpoolInv, DatesOnlyGrow
<1>2. CASE Tick \/ UNCHANGED vars
  <2>1. UNCHANGED <<log, meta, job, answered, cut>>
    BY <1>2 DEF Tick, vars
  <2> QED
    BY <1>1, <2>1, IdleKept DEF Busy
<1>3. ASSUME NEW j \in Jobs, BeginStore(j) PROVE Kept'
  <2>1. PICK r \in Runs : job' = [job EXCEPT ![j] = NewJob(r, "store", "list")]
    BY <1>3 DEF BeginStore
  <2> DEFINE k == NewJob(r, "store", "list")
  <2>2. Becomes(j, k) /\ k.stage = "store" /\ k.half = NoRun
    BY <2>1, NewJobType DEF Becomes, Stages, Rotation, NewJob
  <2> HIDE DEF k
  <2>3. /\ job'[j] = k
        /\ \A i \in Jobs : i # j => job'[i] = job[i] /\ (Busy(i)' <=> Busy(i))
    BY <2>2, BecomesMoves
  <2>4. UNCHANGED <<log, meta, answered, cut>>
    BY <1>3 DEF BeginStore
  <2>5. job'[j].stage \notin {"fill", "meta", "settle"} /\ job'[j].half = NoRun
    BY <2>2, <2>3
  <2> QED
    BY <1>1, <2>3, <2>4, <2>5, IdleKept
<1>4. ASSUME NEW j \in Jobs, Rotate(j) \/ Store(j) \/ Fetch(j) PROVE Kept'
  BY <1>1, <1>3, <1>4, RotateKept, FetchKept, MakeLogKept, FillLogKept, WriteMetaKept, StoreFailsKept,
     AnswerKept DEF Store
<1> QED
  BY <1>2, <1>4 DEF Next

(* The agent finds the output of an answered run, until it expires or the  *)
(* runs that came since fill the spool, whatever handlers rotate on stale  *)
(* views of it: a view never dates a log before the log was made           *)
(* (rotate_spool, collect_entries, remove_entry).                          *)
THEOREM AnsweredCanBeFetched == Spec => []AnsweredIsFetchable
<1>1. Init => Kept
  BY DEF Init, Kept, Busy
<1>2. Spec => []Kept
  BY <1>1, SpoolKeepsShape, NextKept, PTL DEF Spec
<1>3. Kept => AnsweredIsFetchable
  BY DEF Kept, AnsweredIsFetchable, Excused, Sized
<1> QED
  BY <1>2, <1>3, PTL

-----------------------------------------------------------------------------
(* A quiet spool fits                                                      *)

Entries == {EntryOf(r) : r \in OnDisk}
Light == TotalBytes(Entries) <= MaxBytes

(* A handler has seen a file that it has yet to look at, or has counted    *)
(* for no less than it is.                                                 *)
Sees(k, r) ==
    \/ r \in k.scan
    \/ \E e \in k.view : e.run = r /\ EntryOf(r).bytes <= e.bytes

(* A store that has yet to rotate, and a rotation that trims what it saw:  *)
(* one of them is under way while the spool is too large.                  *)
Before(k) ==
    \/ k.stage \in {"fill", "meta"}
    \/ k.stage = "settle" /\ k.rot \in {"list", "stat", "expire", "list again"}
Trims(k) == k.rot = "trim" /\ \A r \in OnDisk : Sees(k, r)

Bounded ==
    \/ cut # {}
    \/ \E j \in Jobs : Busy(j) /\ (Before(job[j]) \/ Trims(job[j]))
    \/ Light

(* A step by which no file grows.                                          *)
Shrinks == meta' \subseteq meta /\ \A r \in Runs : log'[r] \in {log[r], NoFile}

(* Where no file grows every entry is of a file there was, no smaller.     *)
LEMMA FilesShrink ==
    ASSUME SpoolInv, SpoolInv', Shrinks, NEW r \in OnDisk'
    PROVE  /\ r \in OnDisk /\ log'[r] = log[r]
           /\ (EntryOf(r)').bytes \in Nat /\ EntryOf(r).bytes \in Nat
           /\ (EntryOf(r)').bytes <= EntryOf(r).bytes
<1>1. r \in Runs /\ log'[r] # NoFile /\ log[r] # NoFile /\ log'[r] = log[r]
  BY DEF OnDisk, Shrinks
<1>2. EntryOf(r).bytes = (IF log[r].text = "whole" THEN LogBytes[r] ELSE 0)
                         + (IF r \in meta THEN MetaBytes ELSE 0)
  BY DEF EntryOf
<1>3. (EntryOf(r)').bytes = (IF log[r].text = "whole" THEN LogBytes[r] ELSE 0)
                           + (IF r \in meta' THEN MetaBytes ELSE 0)
  BY <1>1 DEF EntryOf
<1>4. LogBytes[r] \in Nat /\ MetaBytes \in Nat /\ (r \in meta' => r \in meta)
  BY <1>1, SizesAssumption DEF Shrinks
<1> QED
  BY <1>1, <1>2, <1>3, <1>4 DEF OnDisk

(* The entries there would be are of files.                                *)
LEMMA EntriesFit ==
    ASSUME SpoolInv
    PROVE  Fits(Entries)
<1>1. ASSUME NEW r \in OnDisk
      PROVE  EntryOf(r).run = r /\ r \in Runs /\ EntryOf(r).bytes \in Nat /\ EntryOf(r).bytes <= MaxBytes
  <2>1. r \in Runs /\ EntryOf(r).run = r /\ EntryOf(r).bytes \in 0 .. Bytes(r)
    BY EntryType DEF OnDisk, SpoolInv
  <2>2. Bytes(r) \in Nat /\ Bytes(r) <= MaxBytes /\ MaxBytes \in Nat
    BY <2>1, SizesAssumption DEF Bytes
  <2> QED
    BY <2>1, <2>2
<1> QED
  BY <1>1 DEF Fits, Entries

(* Where no file grows a spool that fits still fits,                       *)
LEMMA LightStays ==
    ASSUME SpoolInv, SpoolInv', Shrinks, Light
    PROVE  Light'
<1>1. PICK new : new = Entries'
  OBVIOUS
<1>2. Fits(Entries)
  BY EntriesFit
<1>3. ASSUME NEW e \in new
      PROVE  /\ e.run \in OnDisk /\ e = EntryOf(e.run)'
             /\ e.bytes \in Nat /\ e.bytes <= EntryOf(e.run).bytes
             /\ EntryOf(e.run).bytes \in Nat
  <2>1. PICK r \in OnDisk' : e = EntryOf(r)'
    BY <1>1 DEF Entries
  <2>2. e.run = r
    BY <2>1 DEF EntryOf
  <2> QED
    BY <2>1, <2>2, FilesShrink
<1>4. \A r \in OnDisk : EntryOf(r) \in Entries /\ EntryOf(r).run = r
  BY DEF Entries, EntryOf
<1>5. Fits(new)
  <2>1. \A e \in new : e.run \in Runs /\ e.bytes \in Nat /\ e.bytes <= MaxBytes
    <3> SUFFICES ASSUME NEW e \in new PROVE e.run \in Runs /\ e.bytes \in Nat /\ e.bytes <= MaxBytes
      OBVIOUS
    <3>1. EntryOf(e.run).bytes <= MaxBytes /\ MaxBytes \in Nat
      BY <1>2, <1>3, <1>4, SizesAssumption DEF Fits
    <3> QED
      BY <1>3, <3>1 DEF OnDisk
  <2>2. \A e, f \in new : e.run = f.run => e = f
    <3> SUFFICES ASSUME NEW e \in new, NEW f \in new, e.run = f.run PROVE e = f
      OBVIOUS
    <3>1. PICK r : r = e.run
      OBVIOUS
    <3>2. e = EntryOf(r)' /\ f = EntryOf(r)'
      BY <1>3, <3>1
    <3> QED
      BY <3>2
  <2> QED
    BY <2>1, <2>2 DEF Fits
<1>6. \A e \in new : \E f \in Entries : f.run = e.run /\ e.bytes <= f.bytes
  BY <1>3, <1>4
<1>7. TotalBytes(new) <= TotalBytes(Entries) /\ TotalBytes(new) \in Nat /\ TotalBytes(Entries) \in Nat
  BY <1>2, <1>5, <1>6, SmallerFiles, BytesAreFinite
<1>8. TotalBytes(new) <= MaxBytes
  BY <1>7, SizesAssumption DEF Light
<1>9. TotalBytes(Entries)' = TotalBytes(new)
  BY <1>1 DEF TotalBytes, BytesOf
<1> QED
  BY <1>8, <1>9 DEF Light

(* what was counted for enough still is,                                   *)
LEMMA SeenStays ==
    ASSUME SpoolInv, SpoolInv', Shrinks, NEW k, k.view \subseteq Entry, NEW r \in OnDisk', Sees(k, r)
    PROVE  Sees(k, r)'
<1>1. CASE r \in k.scan
  BY <1>1 DEF Sees
<1>2. ASSUME NEW e \in k.view, e.run = r, EntryOf(r).bytes <= e.bytes PROVE Sees(k, r)'
  <2>1. e.bytes \in Nat
    BY DEF Entry
  <2>2. (EntryOf(r)').bytes <= e.bytes
    BY <1>2, <2>1, FilesShrink
  <2> QED
    BY <1>2, <2>2 DEF Sees
<1> QED
  BY <1>1, <1>2 DEF Sees

(* and a rotation that has seen every file still has.                      *)
LEMMA TrimsStays ==
    ASSUME SpoolInv, SpoolInv', Shrinks, NEW k, k.view \subseteq Entry, Trims(k)
    PROVE  Trims(k)'
<1> SUFFICES ASSUME NEW r \in OnDisk' PROVE Sees(k, r)'
  BY DEF Trims
<1>1. Sees(k, r)
  BY FilesShrink DEF Trims
<1> QED
  BY <1>1, SeenStays

(* A trim that ends has left what fits.                                    *)
LEMMA TrimEnds ==
    ASSUME SpoolInv, NEW j \in Jobs, Busy(j), Trims(job[j]), RotationEnds(j)
    PROVE  Light
<1> DEFINE view == job[j].view
<1>1. view \subseteq Entry /\ job[j].scan = {} /\ Rotating(j, "trim") /\ \A e \in view : ~Goes(j, e)
  BY JobTypes DEF RotationEnds, Rotating, Trims, SpoolInv, Job
<1>2. Fits(view) /\ Fits(Entries) /\ TotalBytes(view) \in Nat /\ TotalBytes(Entries) \in Nat
  BY ViewFits, EntriesFit, BytesAreFinite
<1>3. \A e \in view : e.mtime \in Nat
  BY <1>1, SizesAssumption DEF Entry
<1>4. ASSUME TotalBytes(view) > MaxBytes PROVE FALSE
  <2>1. view # {}
    <3> SUFFICES ASSUME view = {} PROVE FALSE
      OBVIOUS
    <3>1. BytesOf(view) = {}
      BY DEF BytesOf
    <3>2. TotalBytes(view) = 0
      BY <3>1, FS_EmptySet DEF TotalBytes
    <3> QED
      BY <1>4, <3>2, SizesAssumption
  <2> DEFINE times == {e.mtime : e \in view}
  <2>2. times \subseteq Nat /\ times # {}
    BY <1>3, <2>1
  <2> HIDE DEF times
  <2>3. IsWellFoundedOn(OpToRel(<, Nat), Nat)
    BY NatLessThanWellFounded
  <2>4. \E s \in times : \A t \in times : <<t, s>> \notin OpToRel(<, Nat)
    BY <2>2, <2>3, WFMin, Zenon
  <2>5. \A s, t \in Nat : t < s => <<t, s>> \in OpToRel(<, Nat)
    BY DEF OpToRel
  <2>6. \A s, t \in Nat : ~(t < s) => s <= t
    OBVIOUS
  <2>7. \E s \in times : \A t \in times : s <= t
    BY <2>2, <2>4, <2>5, <2>6, Zenon
  <2>8. PICK e \in view : \A f \in view : e.mtime <= f.mtime
    BY <2>7 DEF times
  <2> QED
    BY <1>1, <1>4, <2>8 DEF Goes
<1>5. TotalBytes(view) <= MaxBytes
  BY <1>2, <1>4, SizesAssumption
<1>6. \A f \in Entries : \E e \in view : e.run = f.run /\ f.bytes <= e.bytes
  <2> SUFFICES ASSUME NEW r \in OnDisk PROVE \E e \in view : e.run = EntryOf(r).run /\ EntryOf(r).bytes <= e.bytes
    BY DEF Entries
  <2>1. Sees(job[j], r) /\ EntryOf(r).run = r
    BY DEF Trims, EntryOf
  <2> QED
    BY <1>1, <2>1 DEF Sees
<1>7. TotalBytes(Entries) <= TotalBytes(view)
  BY <1>2, <1>6, SmallerFiles
<1> QED
  BY <1>2, <1>5, <1>7, SizesAssumption DEF Light

(* A store that makes a file grow has yet to rotate.                       *)
LEMMA StoresBefore ==
    ASSUME SpoolInv, NEW j \in Jobs, MakeLog(j) \/ FillLog(j) \/ WriteMeta(j)
    PROVE  Busy(j)' /\ Before(job[j])'
<1>1. CASE MakeLog(j) \/ FillLog(j)
  <2>1. PICK stage \in {"store", "fill"}, to \in {"fill", "meta"} : At(j, stage) /\ Go(j, to)
    BY <1>1 DEF MakeLog, FillLog
  <2>2. PICK k : Becomes(j, k) /\ k.stage = to
    BY <2>1, GoesOnTo DEF StoreStages
  <2>3. job'[j] = k /\ Busy(j)'
    BY <2>2, BecomesMoves
  <2> QED
    BY <2>2, <2>3 DEF Before
<1>2. CASE WriteMeta(j)
  <2>1. job' = [job EXCEPT ![j] = NewJob(job[j].run, "settle", "list")] /\ At(j, "meta")
    BY <1>2 DEF WriteMeta
  <2> DEFINE k == NewJob(job[j].run, "settle", "list")
  <2>2. job[j].run \in Runs
    BY <2>1, EmptyHands DEF Stages
  <2>3. Becomes(j, k) /\ k.stage = "settle" /\ k.rot = "list"
    BY <2>1, <2>2, NewJobType DEF Becomes, Stages, Rotation, NewJob
  <2> HIDE DEF k
  <2>4. job'[j] = k /\ Busy(j)'
    BY <2>3, BecomesMoves
  <2> QED
    BY <2>3, <2>4 DEF Before
<1> QED
  BY <1>1, <1>2

(* Rotations let no file grow.                                             *)
LEMMA RotateShrinks ==
    ASSUME SpoolInv, NEW j \in Jobs, Rotate(j)
    PROVE  Shrinks
<1>1. CASE RemoveLog(j)
  <2>1. \E r : log' = [log EXCEPT ![r] = NoFile] /\ meta' = meta
    BY <1>1 DEF RemoveLog
  <2> QED
    BY <2>1 DEF Shrinks, SpoolInv, TypeOK
<1>2. CASE ~RemoveLog(j)
  <2>1. log' = log /\ meta' \subseteq meta
    BY <1>2 DEF Rotate, List, ListFails, StatEntry, FindExpired, RemoveMeta, RotationEnds
  <2> QED
    BY <2>1 DEF Shrinks
<1> QED
  BY <1>1, <1>2

(* A store that has come this far rotates, and sees every file.            *)
LEMMA RotateBounded ==
    ASSUME SpoolInv, SpoolInv', NEW j \in Jobs, Rotate(j), cut' = {}, Before(job[j]) \/ Trims(job[j])
    PROVE  (Busy(j)' /\ (Before(job[j])' \/ Trims(job[j])')) \/ Light'
<1> DEFINE old == job[j]
<1>1. /\ Shrinks /\ TypeOK /\ Busy(j) /\ old.rot # "over"
      /\ old.view \subseteq Entry /\ old.scan \subseteq Runs /\ old.run \in Runs /\ JobKnows(old)
  <2>1. Shrinks /\ TypeOK /\ Busy(j)
    BY RotateShrinks, RotationGoesOn DEF SpoolInv
  <2>2. JobKnows(old) /\ old \in Job
    BY <2>1, JobTypes DEF SpoolInv, SpoolShape
  <2>3. old.rot # "over"
    BY <2>2 DEF Rotate, List, ListFails, StatEntry, FindExpired, RemoveLog, RemoveMeta, RotationEnds, Rotating,
                JobKnows, HandsOf, Goes
  <2> QED
    BY <2>1, <2>2, <2>3 DEF Job
<1>2. old.stage \notin {"fill", "meta"}
  BY <1>1 DEF JobKnows, HandsOf
<1>3. Before(old) => old.stage = "settle" /\ old.rot \in {"list", "stat", "expire", "list again"}
  BY <1>2 DEF Before
<1>4. ASSUME NEW k, Becomes(j, k),
             \/ k.stage = "settle" /\ k.rot \in {"list", "stat", "expire", "list again"}
             \/ Trims(k)'
      PROVE  Busy(j)' /\ (Before(job[j])' \/ Trims(job[j])')
  <2>1. job'[j] = k /\ Busy(j)'
    BY <1>4, BecomesMoves
  <2> QED
    BY <1>4, <2>1 DEF Before, Trims, Sees
<1>5. CASE List(j)
  <2> DEFINE rot == IF old.rot = "list" THEN "stat" ELSE "trim"
  <2>1. PICK k : k = Handler(j, old.stage, rot, OnDisk, {}, NoRun, "whole")
    OBVIOUS
  <2>2. Becomes(j, k)
    BY <1>1, <1>5, <2>1, ListBecomes
  <2>3. old.stage = "settle" /\ old.rot \in {"list", "list again"}
    BY <1>3, <1>5 DEF List, Rotating, Trims
  <2>4. k.stage = old.stage /\ k.rot = rot /\ k.scan = OnDisk
    BY <2>1 DEF Handler
  <2>5. OnDisk' = OnDisk
    BY <1>5 DEF List, OnDisk
  <2>6. rot = "trim" => Trims(k)'
    BY <2>4, <2>5 DEF Trims, Sees
  <2> QED
    BY <1>4, <2>2, <2>3, <2>4, <2>6
<1>6. ~ListFails(j)
  <2> SUFFICES ASSUME ListFails(j) PROVE FALSE
    OBVIOUS
  <2>1. old.rot \in {"list", "list again"}
    BY DEF ListFails, Rotating
  <2>2. old.stage = "settle"
    BY <1>3, <2>1 DEF Trims
  <2> QED
    BY <2>2 DEF ListFails
<1>7. CASE RotationEnds(j)
  <2>1. old.rot \in {"expire", "trim"}
    BY <1>7 DEF RotationEnds, Rotating
  <2>2. CASE old.rot = "expire"
    <3>1. PICK k : k = Handler(j, old.stage, "list again", {}, {}, NoRun, "whole")
      OBVIOUS
    <3>2. Becomes(j, k)
      <4>1. Rotates(j, "list again")
        BY <1>7, <2>2 DEF RotationEnds
      <4> QED
        BY <1>1, <3>1, <4>1, RotatesBecomes DEF Rotation
    <3>3. k.stage = "settle" /\ k.rot = "list again"
      BY <1>3, <2>2, <3>1 DEF Handler, Trims
    <3> QED
      BY <1>4, <3>2, <3>3
  <2>3. CASE old.rot = "trim"
    <3>1. Trims(old)
      BY <1>3, <2>3
    <3>2. Light
      BY <1>1, <1>7, <3>1, TrimEnds
    <3> QED
      BY <1>1, <3>2, LightStays
  <2> QED
    BY <2>1, <2>2, <2>3
<1>8. CASE FindExpired(j)
  <2>1. PICK k : k = Handler(j, old.stage, "expire", {}, {e \in old.view : now > e.mtime + Ttl}, NoRun, "whole")
    OBVIOUS
  <2>2. Becomes(j, k)
    BY <1>1, <1>8, <2>1, FindExpiredBecomes
  <2>3. old.stage = "settle"
    BY <1>3, <1>8 DEF FindExpired, Rotating, Trims
  <2>4. k.stage = "settle" /\ k.rot = "expire"
    BY <2>1, <2>3 DEF Handler
  <2> QED
    BY <1>4, <2>2, <2>4
(* It stays where it is, with other things in its hands.                   *)
<1>9. ASSUME NEW k, Becomes(j, k), k.stage = old.stage, k.rot = old.rot,
             Trims(old) => \A r \in OnDisk' : Sees(k, r)'
      PROVE  Busy(j)' /\ (Before(job[j])' \/ Trims(job[j])')
  BY <1>3, <1>4, <1>9 DEF Trims
<1>10. CASE StatEntry(j)
  <2>1. PICK r \in old.scan :
           Becomes(j, Handler(j, old.stage, old.rot, old.scan \ {r},
                              old.view \cup (IF log[r] = NoFile THEN {} ELSE {EntryOf(r)}),
                              old.half, old.text))
    BY <1>1, <1>10, StatEntryBecomes
  <2> DEFINE view == old.view \cup (IF log[r] = NoFile THEN {} ELSE {EntryOf(r)})
  <2>2. PICK k : k = Handler(j, old.stage, old.rot, old.scan \ {r}, view, old.half, old.text)
    OBVIOUS
  <2>3. Becomes(j, k)
    BY <2>1, <2>2
  <2>4. k.stage = old.stage /\ k.rot = old.rot /\ k.scan = old.scan \ {r} /\ k.view = view
    BY <2>2 DEF Handler
  <2>5. UNCHANGED <<log, meta>>
    BY <1>10 DEF StatEntry
  <2>6. ASSUME Trims(old), NEW q \in OnDisk' PROVE Sees(k, q)'
    <3>1. q \in OnDisk /\ EntryOf(q)' = EntryOf(q)
      BY <2>5 DEF OnDisk, EntryOf
    <3>2. Sees(old, q)
      BY <2>6, <3>1 DEF Trims
    <3>3. CASE q = r
      <4>1. EntryOf(r) \in k.view /\ EntryOf(r).run = r
        BY <2>4, <3>1, <3>3 DEF OnDisk, EntryOf
      <4>2. EntryOf(r).bytes <= EntryOf(r).bytes
        <5>1. EntryOf(r).bytes \in 0 .. Bytes(r)
          BY <1>1, <3>1, <3>3, EntryType DEF OnDisk
        <5> QED
          BY <5>1
      <4> QED
        BY <3>1, <3>3, <4>1, <4>2 DEF Sees
    <3>4. CASE q # r
      BY <2>4, <3>1, <3>2, <3>4 DEF Sees
    <3> QED
      BY <3>3, <3>4
  <2> QED
    BY <1>9, <2>3, <2>4, <2>6
<1>11. CASE RemoveLog(j)
  <2>1. PICK e \in old.view :
           /\ Goes(j, e)
           /\ log' = [log EXCEPT ![e.run] = NoFile]
           /\ Becomes(j, Handler(j, old.stage, old.rot, old.scan, old.view \ {e}, e.run, old.text))
    BY <1>1, <1>11, RemoveLogBecomes
  <2>2. PICK k : k = Handler(j, old.stage, old.rot, old.scan, old.view \ {e}, e.run, old.text)
    OBVIOUS
  <2>3. k.stage = old.stage /\ k.rot = old.rot /\ k.scan = old.scan /\ k.view = old.view \ {e}
    BY <2>2 DEF Handler
  <2>4. ASSUME Trims(old), NEW q \in OnDisk' PROVE Sees(k, q)'
    <3>1. q # e.run /\ q \in OnDisk
      BY <1>1, <2>1 DEF OnDisk, TypeOK
    <3>2. PICK n : n = old
      OBVIOUS
    <3>3. Trims(n)'
      BY <1>1, <2>4, <3>2, TrimsStays
    <3> QED
      BY <2>3, <3>1, <3>2, <3>3 DEF Trims, Sees
  <2> QED
    BY <1>9, <2>1, <2>2, <2>3, <2>4
<1>12. CASE RemoveMeta(j)
  <2>1. PICK k : k = Handler(j, old.stage, old.rot, old.scan, old.view, NoRun, old.text)
    OBVIOUS
  <2>2. Becomes(j, k)
    BY <1>1, <1>12, <2>1, RemoveMetaBecomes
  <2>3. k.stage = old.stage /\ k.rot = old.rot /\ k.scan = old.scan /\ k.view = old.view
    BY <2>1 DEF Handler
  <2>4. ASSUME Trims(old), NEW q \in OnDisk' PROVE Sees(k, q)'
    <3>1. Trims(k)
      BY <2>3, <2>4 DEF Trims, Sees
    <3> QED
      BY <1>1, <2>3, <3>1, TrimsStays DEF Trims
  <2> QED
    BY <1>9, <2>2, <2>3, <2>4
<1> QED
  BY <1>5, <1>6, <1>7, <1>8, <1>10, <1>11, <1>12 DEF Rotate

(* Every step keeps the spool bounded, or on its way to be.                *)
LEMMA NextBounded == SpoolInv /\ Bounded /\ [Next]_vars => Bounded'
<1> SUFFICES ASSUME SpoolInv, Bounded, [Next]_vars, cut' = {} PROVE Bounded'
  BY DEF Bounded
<1>1. SpoolInv'
  BY NextSpoolInv
<1>2. ASSUME NEW i \in Jobs, Busy(i), Before(job[i]) \/ Trims(job[i]), job'[i] = job[i], Shrinks
      PROVE  Bounded'
  <2>1. PICK k : k = job[i]
    OBVIOUS
  <2>2. k.view \subseteq Entry
    BY <1>2, <2>1, JobTypes DEF SpoolInv, Job
  <2>3. Busy(i)' /\ (Before(k) => Before(job[i])')
    BY <1>2, <2>1 DEF Busy, Before
  <2>4. Trims(k) => Trims(job[i])'
    <3> SUFFICES ASSUME Trims(k) PROVE Trims(job[i])'
      OBVIOUS
    <3>1. Trims(k)'
      BY <1>1, <1>2, <2>2, TrimsStays
    <3> QED
      BY <1>2, <2>1, <3>1 DEF Trims, Sees
  <2> QED
    BY <1>2, <2>1, <2>3, <2>4 DEF Bounded
<1>3. Light /\ Shrinks => Bounded'
  BY <1>1, LightStays DEF Bounded
<1>4. ASSUME cut # {} PROVE FALSE
  <2>1. cut \subseteq cut'
    BY DEF Next, Tick, Rotate, List, ListFails, StatEntry, FindExpired, RemoveLog, RemoveMeta, RotationEnds,
           Store, BeginStore, MakeLog, FillLog, WriteMeta, StoreFails, Answer,
           Fetch, BeginFetch, ReadLog, ReadMeta, Found, vars
  <2> QED
    BY <1>4, <2>1
<1>5. CASE Tick \/ UNCHANGED vars
  <2>1. UNCHANGED <<log, meta, job>>
    BY <1>5 DEF Tick, vars
  <2>2. Shrinks
    BY <2>1 DEF Shrinks
  <2> QED
    BY <1>2, <1>3, <1>4, <2>1, <2>2 DEF Bounded
<1>6. ASSUME NEW j \in Jobs, Shrinks, \A i \in Jobs : i # j => job'[i] = job[i],
             Busy(j) /\ (Before(job[j]) \/ Trims(job[j])) =>
                 (Busy(j)' /\ (Before(job[j])' \/ Trims(job[j])')) \/ Light'
      PROVE  Bounded'
  <2>1. ASSUME NEW i \in Jobs, Busy(i), Before(job[i]) \/ Trims(job[i]) PROVE Bounded'
    <3>1. CASE i = j
      BY <1>6, <2>1, <3>1 DEF Bounded
    <3>2. CASE i # j
      <4>1. job'[i] = job[i]
        BY <1>6, <3>2
      <4> QED
        BY <1>2, <1>6, <2>1, <4>1
    <3> QED
      BY <3>1, <3>2
  <2> QED
    BY <1>3, <1>4, <1>6, <2>1 DEF Bounded
<1>7. ASSUME NEW j \in Jobs, Rotate(j) PROVE Bounded'
  <2>1. PICK k : Becomes(j, k)
    BY <1>7, RotationGoesOn
  <2>2. \A i \in Jobs : i # j => job'[i] = job[i]
    BY <2>1, BecomesMoves
  <2> QED
    BY <1>1, <1>6, <1>7, <2>2, RotateShrinks, RotateBounded
<1>8. ASSUME NEW j \in Jobs, MakeLog(j) \/ FillLog(j) \/ WriteMeta(j) PROVE Bounded'
  BY <1>8, StoresBefore DEF Bounded
<1>9. ASSUME NEW j \in Jobs, StoreFails(j) PROVE Bounded'
  BY <1>9 DEF StoreFails
<1>10. ASSUME NEW j \in Jobs, BeginStore(j) \/ Answer(j) \/ Fetch(j) PROVE Bounded'
  <2>1. UNCHANGED <<log, meta>>
    BY <1>10 DEF BeginStore, Answer, Fetch, BeginFetch, ReadLog, ReadMeta, Found
  <2>2. Shrinks
    BY <2>1 DEF Shrinks
  <2>3. \E k : job' = [job EXCEPT ![j] = k]
    BY <1>10 DEF BeginStore, Answer, Fetch, BeginFetch, ReadLog, ReadMeta, Found, Go, End
  <2>4. \A i \in Jobs : i # j => job'[i] = job[i]
    BY <2>3 DEF SpoolInv, TypeOK
  <2>5. ~(Busy(j) /\ (Before(job[j]) \/ Trims(job[j])))
    BY <1>10 DEF BeginStore, Answer, Fetch, BeginFetch, ReadLog, ReadMeta, Found, At, Rotating, Before, Trims
  <2> QED
    BY <1>6, <2>2, <2>4, <2>5
<1> QED
  BY <1>5, <1>7, <1>8, <1>9, <1>10 DEF Next, Store

(* A spool that nobody is in is within MAX_SPOOL_BYTES, unless an error    *)
(* has cut a store short: a store that has written goes on to rotate, and  *)
(* its rotation looks at every file, or is overtaken by a store that will  *)
(* (store_run_output, rotate_spool).                                       *)
THEOREM QuietSpoolFits == Spec => []SpoolBounded
<1>1. Init => Bounded
  <2> SUFFICES ASSUME Init PROVE Light
    BY DEF Bounded
  <2>1. Entries = {}
    BY DEF Init, Entries, OnDisk
  <2>2. BytesOf(Entries) = {}
    BY <2>1 DEF BytesOf
  <2> QED
    BY <2>2, FS_EmptySet, SizesAssumption DEF Light, TotalBytes
<1>2. Spec => []Bounded
  BY <1>1, SpoolKeepsShape, NextBounded, PTL DEF Spec
<1>3. Bounded => SpoolBounded
  BY DEF Bounded, SpoolBounded, Quiet, Light, Entries
<1> QED
  BY <1>2, <1>3, PTL
=============================================================================
