---------------------------- MODULE GraphRecovery ---------------------------
(***************************************************************************)
(* What a watch thread makes up for: GraphSync with a history variable     *)
(* that says whether something has happened since the index began that the *)
(* thread learns nothing of.                                               *)
(***************************************************************************)
EXTENDS GraphSync

VARIABLE missed

Edit == \E f \in Files : Write(f) \/ Remove(f)
Failure == IndexReadFails \/ IndexFails \/ SyncFails

(* An edit before the watcher is attached or after the thread has failed   *)
(* sends no event; the event of one within the debounce time is dropped,   *)
(* unless the time ends first; a sync that fails is not tried again, and   *)
(* one passes over a file written again within a second at one size.       *)
Misses ==
    \/ Failure
    \/ Edit /\ (phase # "waiting" \/ recent)
    \/ \E f \in Files : Write(f) /\ second' = second

NoteMissed == missed' = ((missed \/ Misses) /\ ~Rewatch)

RecoveryInit == Init /\ missed = FALSE

RecoverySpec ==
    /\ RecoveryInit
    /\ [][Next /\ NoteMissed]_<<vars, missed>>
    /\ WF_<<vars, missed>>(Loop /\ NoteMissed)
    /\ WF_<<vars, missed>>(DebounceEnds /\ NoteMissed)

-----------------------------------------------------------------------------
(* "Performs an initial full index and then watches the project for file   *)
(* changes" (watch.rs:16): whatever the thread has missed, edits that sent *)
(* no event or whose event was dropped, files that changed under their     *)
(* index or within a second, syncs and threads that failed, a watch begun  *)
(* anew makes up for, and short of such the graph comes to hold what is on *)
(* disk, and keeps it. A file that is not legible is left out: one fails   *)
(* every index it meets (index.rs:53), so that no watch makes up for       *)
(* anything while it is there, and a sync leaves its last row (Current).   *)
GraphRecovers == <>[]~missed => <>[]Current
=============================================================================
