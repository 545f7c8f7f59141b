--------------------------- MODULE WatchRegistry ----------------------------
(***************************************************************************)
(* What the watch registry promises its callers: reference-counted         *)
(* watches. Each operation is one step. A project is watched by one thread *)
(* from the first consumer's arrival to the last one's departure, and that *)
(* thread does not change in between: save that first arrivals which       *)
(* overlap may take the watch from one another.                            *)
(***************************************************************************)
CONSTANTS
    Projects, Consumers, Threads, NoThread,
    Overlapping    \* whether arrivals may overlap

VARIABLES
    consumers,   \* project -> who asked for its watch
    watcher      \* project -> the thread watching it, or NoThread

vars == <<consumers, watcher>>

Init ==
    /\ consumers = [p \in Projects |-> {}]
    /\ watcher = [p \in Projects |-> NoThread]

(* Another consumer of a watched project shares its thread.                *)
Join(p, c) ==
    /\ consumers[p] # {}
    /\ consumers' = [consumers EXCEPT ![p] = @ \cup {c}]
    /\ UNCHANGED watcher

(* The first consumer of a project gets it a thread.                       *)
Begin(p, c) ==
    /\ consumers[p] = {}
    /\ consumers' = [consumers EXCEPT ![p] = {c}]
    /\ \E th \in Threads : watcher' = [watcher EXCEPT ![p] = th]

(* An arrival that took itself for the first puts its own thread in place  *)
(* of the one that is there, and itself in place of those who have it.     *)
Displace(p, c) ==
    /\ Overlapping
    /\ consumers[p] # {}
    /\ consumers' = [consumers EXCEPT ![p] = {c}]
    /\ \E th \in Threads \ {watcher[p]} : watcher' = [watcher EXCEPT ![p] = th]

(* A consumer leaves a set of projects; those it leaves empty lose their   *)
(* thread.                                                                 *)
Leave(ps, c) ==
    /\ consumers' = [p \in Projects |-> IF p \in ps THEN consumers[p] \ {c} ELSE consumers[p]]
    /\ watcher' = [p \in Projects |-> IF consumers'[p] = {} THEN NoThread ELSE watcher[p]]

Next ==
    \/ \E p \in Projects, c \in Consumers : Join(p, c) \/ Begin(p, c) \/ Displace(p, c)
    \/ \E ps \in SUBSET Projects, c \in Consumers : Leave(ps, c)

Spec == Init /\ [][Next]_vars
=============================================================================
