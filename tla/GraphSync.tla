------------------------------ MODULE GraphSync -----------------------------
(***************************************************************************)
(* One watch thread and the project it watches (watch_loop in              *)
(* daemon/watch_manager.rs, core/graph/index.rs and sync.rs): a full index *)
(* at the start, then an incremental sync for each file-system event that  *)
(* the debounce lets through. Each is one transaction that walks the       *)
(* project, and a file is looked at in several steps, between which        *)
(* editors may write or remove it.                                         *)
(***************************************************************************)
EXTENDS GraphTables, FiniteSets

CONSTANTS
    NoFile,      \* not on disk
    NoVisit,     \* the walk is between two files
    Unknown,     \* not read or not statted yet
    Garbled,     \* contents that read_to_string refuses: not UTF-8
    MaxSecond,   \* bounds the seconds at which files are written
    MaxEvents,   \* bounds the events in the watcher's channel
    Hiccups      \* when editors write and what may fail, see below

(* "early edit": before the watcher is attached. "torn index": of a file   *)
(* the index has read and not yet statted. "burst edit": during a sync or  *)
(* within the debounce time. "quick edit": twice in a second. "failure": a *)
(* transaction may fail.                                                   *)
ASSUME HiccupsAssumption ==
    Hiccups \subseteq {"early edit", "torn index", "burst edit", "quick edit", "failure"}
ASSUME GarbledAssumption == Garbled \subseteq Contents
ASSUME BoundsAssumption == MaxSecond \in Nat /\ MaxEvents \in Nat

VARIABLES
    disk,        \* file -> what is on disk
    second,      \* the time of the latest write, in the seconds of mtime_unix
    db,          \* the committed tables
    tx,          \* the tables as the open transaction sees them
    phase,       \* where watch_loop is
    todo,        \* files the walk has still to come to
    seen,        \* seen_paths
    visit,       \* the file the walk is at, or NoVisit
    changed,     \* added, modified or removed is positive
    events,      \* meaningful events in the channel
    recent       \* last_sync.elapsed() < REINDEX_DEBOUNCE_MS

vars == <<disk, second, db, tx, phase, todo, seen, visit, changed, events, recent>>

txVars == <<tx, todo, seen, visit, changed>>

OnDisk == [content : Contents, mtime : Nat]
Visit == [file : Files, stat : Stat \cup {Unknown}, content : Contents \cup {Unknown}]

ASSUME NoneAssumption ==
    /\ NoFile \notin OnDisk
    /\ NoVisit \notin Visit
    /\ Unknown \notin Stat \cup Contents

Exists(f) == disk[f] # NoFile
Legible(f) == Exists(f) /\ disk[f].content \notin Garbled
StatOf(f) == [size |-> SizeOf[disk[f].content], mtime |-> disk[f].mtime]

Between == visit = NoVisit
Statted == visit.stat # Unknown
HasRead == visit.content # Unknown

(* A transaction begins with tables t and a walk over the whole project.   *)
BeginWalk(t) ==
    /\ tx' = t
    /\ todo' = Files
    /\ seen' = {}
    /\ visit' = NoVisit
    /\ changed' = FALSE

(* The transaction is committed or rolled back, and the walk over.         *)
EndWalk ==
    /\ tx' = Cleared({})
    /\ todo' = {}
    /\ seen' = {}
    /\ visit' = NoVisit
    /\ changed' = FALSE

Init ==
    /\ disk \in [Files -> {NoFile} \cup {[content |-> v, mtime |-> 0] : v \in Contents}]
    /\ second = 0
    /\ db = Cleared({})
    /\ tx = Cleared({})
    /\ phase = "indexing"
    /\ todo = Files
    /\ seen = {}
    /\ visit = NoVisit
    /\ changed = FALSE
    /\ events = 0
    /\ recent = FALSE

-----------------------------------------------------------------------------
(* The walk comes to a file; one that is not there is no entry of it.      *)
Walk(f) ==
    /\ phase \in {"indexing", "syncing"} /\ Between
    /\ f \in todo
    /\ todo' = todo \ {f}
    /\ IF Exists(f)
       THEN /\ visit' = [file |-> f, stat |-> Unknown, content |-> Unknown]
            /\ seen' = seen \cup {f}
       ELSE UNCHANGED <<visit, seen>>
    /\ UNCHANGED <<disk, second, db, tx, phase, changed, events, recent>>

(* index_files reads the file; one that is gone or not legible fails the   *)
(* whole index and with it the thread.                                     *)
IndexRead ==
    /\ phase = "indexing" /\ ~Between /\ ~HasRead
    /\ Legible(visit.file)
    /\ visit' = [visit EXCEPT !.content = disk[visit.file].content]
    /\ UNCHANGED <<disk, second, db, tx, phase, todo, seen, changed, events, recent>>

IndexReadFails ==
    /\ phase = "indexing" /\ ~Between /\ ~HasRead
    /\ ~Legible(visit.file)
    /\ phase' = "failed"
    /\ EndWalk
    /\ UNCHANGED <<disk, second, db, events, recent>>

(* Then it takes the stat, zeros when there is none, and inserts the file. *)
IndexStat ==
    /\ phase = "indexing" /\ ~Between /\ HasRead
    /\ LET f == visit.file
           stat == IF Exists(f) THEN StatOf(f) ELSE [size |-> 0, mtime |-> 0]
       IN tx' = InsertFile(tx, f, [content |-> visit.content, stat |-> stat])
    /\ visit' = NoVisit
    /\ UNCHANGED <<disk, second, db, phase, todo, seen, changed, events, recent>>

IndexCommits ==
    /\ phase = "indexing" /\ Between /\ todo = {}
    /\ db' = RefreshFts(Resolve(tx))
    /\ phase' = "attaching"
    /\ EndWalk
    /\ UNCHANGED <<disk, second, events, recent>>

(* watcher.watch(), and last_sync set ten seconds back.                    *)
AttachWatcher ==
    /\ phase = "attaching"
    /\ phase' = "waiting"
    /\ recent' = FALSE
    /\ UNCHANGED <<disk, second, db, txVars, events>>

IndexFails ==
    /\ "failure" \in Hiccups
    /\ phase \in {"indexing", "attaching"}
    /\ phase' = "failed"
    /\ EndWalk
    /\ UNCHANGED <<disk, second, db, events, recent>>

-----------------------------------------------------------------------------
(* An event within the debounce time is dropped.                           *)
DropEvent ==
    /\ phase = "waiting" /\ events > 0 /\ recent
    /\ events' = events - 1
    /\ UNCHANGED <<disk, second, db, txVars, phase, recent>>

BeginSync ==
    /\ phase = "waiting" /\ events > 0 /\ ~recent
    /\ events' = events - 1
    /\ recent' = TRUE
    /\ phase' = "syncing"
    /\ BeginWalk(db)
    /\ UNCHANGED <<disk, second, db>>

DebounceEnds ==
    /\ recent
    /\ recent' = FALSE
    /\ UNCHANGED <<disk, second, db, txVars, phase, events>>

(* Mistake: the pre-filter looks at the size only.                         *)
SyncStatBySize ==
    /\ phase = "syncing" /\ ~Between /\ ~Statted
    /\ LET f == visit.file
           pass == ~Exists(f) \/ (Tracked(db, f) /\ db.files[f].stat.size = StatOf(f).size)
       IN visit' = IF pass THEN NoVisit ELSE [visit EXCEPT !.stat = StatOf(f)]
    /\ UNCHANGED <<disk, second, db, tx, phase, todo, seen, changed, events, recent>>

(* The cheap pre-filter: a file whose stat is the tracked one is passed    *)
(* over, as is one without a stat.                                         *)
SyncStat ==
    /\ phase = "syncing" /\ ~Between /\ ~Statted
    /\ LET f == visit.file
           pass == ~Exists(f) \/ (Tracked(db, f) /\ db.files[f].stat = StatOf(f))
       IN visit' = IF pass THEN NoVisit ELSE [visit EXCEPT !.stat = StatOf(f)]
    /\ UNCHANGED <<disk, second, db, tx, phase, todo, seen, changed, events, recent>>

(* Mistake: a file of the tracked size is taken for stat noise.            *)
SyncReadBySize ==
    /\ phase = "syncing" /\ ~Between /\ Statted
    /\ LET f == visit.file
           row == [content |-> disk[f].content, stat |-> visit.stat]
           same == Tracked(db, f) /\ db.files[f].stat.size = visit.stat.size
       IN /\ tx' = CASE ~Legible(f) -> tx
                     [] Legible(f) /\ same -> TouchFile(tx, f, visit.stat)
                     [] Legible(f) /\ ~same /\ Tracked(db, f) -> ReindexFile(tx, f, row)
                     [] OTHER -> InsertFile(tx, f, row)
          /\ changed' = (changed \/ (Legible(f) /\ ~same))
    /\ visit' = NoVisit
    /\ UNCHANGED <<disk, second, db, phase, todo, seen, events, recent>>

(* Read, and compare the hashes. A file that is gone or not legible is     *)
(* passed over, and as the walk has seen it, its row stays as it is.       *)
SyncRead ==
    /\ phase = "syncing" /\ ~Between /\ Statted
    /\ LET f == visit.file
           row == [content |-> disk[f].content, stat |-> visit.stat]
           same == Tracked(db, f) /\ db.files[f].content = row.content
       IN /\ tx' = CASE ~Legible(f) -> tx
                     [] Legible(f) /\ same -> TouchFile(tx, f, visit.stat)
                     [] Legible(f) /\ ~same /\ Tracked(db, f) -> ReindexFile(tx, f, row)
                     [] OTHER -> InsertFile(tx, f, row)
          /\ changed' = (changed \/ (Legible(f) /\ ~same))
    /\ visit' = NoVisit
    /\ UNCHANGED <<disk, second, db, phase, todo, seen, events, recent>>

(* Mistake: removals alone do not rebuild what is derived.                 *)
SyncCommitsRemovalsAsIs ==
    /\ phase = "syncing" /\ Between /\ todo = {}
    /\ LET gone == {f \in Files \ seen : Tracked(db, f)}
           walked == DeleteFiles(tx, gone)
       IN db' = IF changed THEN RefreshFts(Resolve(walked)) ELSE walked
    /\ phase' = "waiting"
    /\ EndWalk
    /\ UNCHANGED <<disk, second, events, recent>>

(* Tracked files the walk did not see go; the derived tables are rebuilt   *)
(* when a file was added, modified or removed.                             *)
SyncCommits ==
    /\ phase = "syncing" /\ Between /\ todo = {}
    /\ LET gone == {f \in Files \ seen : Tracked(db, f)}
           walked == DeleteFiles(tx, gone)
       IN db' = IF changed \/ gone # {} THEN RefreshFts(Resolve(walked)) ELSE walked
    /\ phase' = "waiting"
    /\ EndWalk
    /\ UNCHANGED <<disk, second, events, recent>>

(* The transaction is rolled back; nothing tries again.                    *)
SyncFails ==
    /\ "failure" \in Hiccups
    /\ phase = "syncing"
    /\ phase' = "waiting"
    /\ EndWalk
    /\ UNCHANGED <<disk, second, db, events, recent>>

(* The thread has seen its stop signal between two events, or has failed,  *)
(* and the project is watched again: a new thread on the same database.    *)
Rewatch ==
    /\ phase \in {"waiting", "failed"}
    /\ phase' = "indexing"
    /\ BeginWalk(Cleared(db.fts))
    /\ events' = 0
    /\ recent' = FALSE
    /\ UNCHANGED <<disk, second, db>>

-----------------------------------------------------------------------------
(* Editors. Once attached, the watcher sends at least one event of a write *)
(* or a removal.                                                           *)
TornIndex(f) == phase = "indexing" /\ ~Between /\ HasRead /\ visit.file = f

MayEdit(f) ==
    /\ phase \in {"indexing", "attaching", "failed"} => "early edit" \in Hiccups
    /\ TornIndex(f) => "torn index" \in Hiccups
    /\ phase = "syncing" \/ recent \/ events > 0 => "burst edit" \in Hiccups

Notify ==
    IF phase \in {"waiting", "syncing"}
    THEN /\ events < MaxEvents
         /\ events' \in (events + 1) .. MaxEvents
    ELSE UNCHANGED events

Write(f) ==
    /\ MayEdit(f)
    /\ second' \in {second + 1} \cup (IF "quick edit" \in Hiccups THEN {second} ELSE {})
    /\ second' <= MaxSecond
    /\ \E v \in Contents : disk' = [disk EXCEPT ![f] = [content |-> v, mtime |-> second']]
    /\ Notify
    /\ UNCHANGED <<db, txVars, phase, recent>>

Remove(f) ==
    /\ MayEdit(f)
    /\ Exists(f)
    /\ disk' = [disk EXCEPT ![f] = NoFile]
    /\ Notify
    /\ UNCHANGED <<second, db, txVars, phase, recent>>

Loop ==
    \/ \E f \in Files : Walk(f)
    \/ IndexRead \/ IndexReadFails \/ IndexStat \/ IndexCommits
    \/ AttachWatcher
    \/ DropEvent \/ BeginSync
    \/ SyncStat \/ SyncRead \/ SyncCommits

Next ==
    \/ Loop
    \/ IndexFails \/ SyncFails \/ Rewatch
    \/ DebounceEnds
    \/ \E f \in Files : Write(f) \/ Remove(f)

(* The watch thread runs, and the clock moves.                             *)
Fairness == WF_vars(Loop) /\ WF_vars(DebounceEnds)

Spec == Init /\ [][Next]_vars
FairSpec == Spec /\ Fairness

-----------------------------------------------------------------------------
TypeOK ==
    /\ disk \in [Files -> OnDisk \cup {NoFile}]
    /\ second \in 0 .. MaxSecond
    /\ db \in Tables /\ tx \in Tables
    /\ phase \in {"indexing", "attaching", "waiting", "syncing", "failed"}
    /\ todo \subseteq Files /\ seen \subseteq Files
    /\ visit \in Visit \cup {NoVisit}
    /\ changed \in BOOLEAN
    /\ events \in 0 .. MaxEvents
    /\ recent \in BOOLEAN

(* so_search and so_references read the committed graph: its symbols,      *)
(* resolved references and search index are those of the files it tracks,  *)
(* after any series of partial syncs.                                      *)
GraphConsistent == Consistent(db)

(* "Cheap stat pre-filter" (sync.rs:124): a file that a sync would pass    *)
(* over because its size and mtime match was parsed as it is on disk.      *)
SkipIsSafe ==
    \A f \in Files :
        Exists(f) /\ Tracked(db, f) /\ db.files[f].stat = StatOf(f) =>
            db.files[f].content = disk[f].content

(* "an incremental sync on each meaningful event" (watch.rs:17): when the  *)
(* editors stop, the graph comes to hold what is on disk, and keeps it. Of *)
(* a file that is not legible it holds what was last legible, or nothing,  *)
(* for as long as it stays so (sync.rs:148), and nothing else is said.     *)
Current ==
    \A f \in Files :
        /\ Legible(f) => Tracked(db, f) /\ db.files[f].content = disk[f].content
        /\ ~Exists(f) => ~Tracked(db, f)

GraphCatchesUp == <>[]Current
=============================================================================
