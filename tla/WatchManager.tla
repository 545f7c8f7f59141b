---------------------------- MODULE WatchManager ----------------------------
(***************************************************************************)
(* The registry of watched projects (daemon/watch_manager.rs): a map from  *)
(* project root to a handle, each handle holding the consumers that asked  *)
(* for the watch and the sender whose drop stops the watch thread.         *)
(*                                                                         *)
(* Every access to the map is made under one mutex, so one critical        *)
(* section is one action. `ensure_watching` is not one critical section:   *)
(* it looks the project up, releases the mutex, spawns the thread, and     *)
(* takes the mutex again to insert the handle. Callers are tasks of the    *)
(* daemon's runtime, and any of them may run in between.                   *)
(***************************************************************************)
EXTENDS Naturals, FiniteSets

CONSTANTS
    Projects,    \* canonical project roots
    Consumers,   \* consumer keys "<client>:<session_id>"
    Tasks,       \* callers that can be inside ensure_watching at one time
    Threads,     \* identities of watch threads; bounds the threads alive at once
    NoThread,    \* the project has no handle, or the thread is not spawned yet
    NoCall       \* the task is not between the lookup and the insert

(* A call of ensure_watching that found no handle and released the mutex.  *)
Call == [project : Projects, consumer : Consumers, thread : Threads \cup {NoThread}]

ASSUME NoThreadAssumption == NoThread \notin Threads
ASSUME NoCallAssumption == NoCall \notin Call

VARIABLES
    consumers,   \* project -> keys in its handle, empty when there is no handle
    watcher,     \* project -> the thread its handle owns, or NoThread
    call,        \* task -> its unfinished ensure_watching, or NoCall
    phase,       \* thread -> where watch_loop is
    root         \* thread -> the project it was spawned for

vars == <<consumers, watcher, call, phase, root>>

threadVars == <<phase, root>>

Live == {"indexing", "attaching", "watching"}

Registered(p) == watcher[p] # NoThread

(* Who holds the sender of a thread's stop channel: the handle in the map, *)
(* or the call that has spawned the thread and not yet inserted it.        *)
HeldByHandle(p, th) == watcher[p] = th
HeldByCall(t, th) == call[t] # NoCall /\ call[t].thread = th
Held(th) == \/ \E p \in Projects : HeldByHandle(p, th)
            \/ \E t \in Tasks : HeldByCall(t, th)

(* A thread identity no running thread and no handle uses. A failed thread *)
(* has exited, and can be forgotten once its handle is gone.               *)
Unused(th) == phase[th] \notin Live /\ ~Held(th)

Init ==
    /\ consumers = [p \in Projects |-> {}]
    /\ watcher = [p \in Projects |-> NoThread]
    /\ call = [t \in Tasks |-> NoCall]
    /\ phase = [th \in Threads |-> "exited"]
    /\ root \in {[th \in Threads |-> p] : p \in Projects}   \* of no meaning yet

-----------------------------------------------------------------------------
(* ensure_watching, first critical section, the project has a handle: the  *)
(* consumer is added, or is there already.                                 *)
AddConsumer(t, p, c) ==
    /\ call[t] = NoCall
    /\ Registered(p)
    /\ consumers' = [consumers EXCEPT ![p] = @ \cup {c}]
    /\ UNCHANGED <<watcher, call, phase, root>>

(* ensure_watching, first critical section, no handle: the mutex is        *)
(* released with nothing recorded in the map.                              *)
FindUnregistered(t, p, c) ==
    /\ call[t] = NoCall
    /\ ~Registered(p)
    /\ call' = [call EXCEPT ![t] = [project |-> p, consumer |-> c, thread |-> NoThread]]
    /\ UNCHANGED <<consumers, watcher, phase, root>>

EnsureWatching(t, p, c) == AddConsumer(t, p, c) \/ FindUnregistered(t, p, c)

(* A mistake: the thread is given the consumer for its root.               *)
SpawnThreadForConsumer(t) ==
    /\ call[t] # NoCall
    /\ call[t].thread = NoThread
    /\ \E th \in Threads :
        /\ Unused(th)
        /\ phase' = [phase EXCEPT ![th] = "indexing"]
        /\ root' = [root EXCEPT ![th] = call[t].consumer]
        /\ call' = [call EXCEPT ![t].thread = th]
    /\ UNCHANGED <<consumers, watcher>>

(* start_watch_thread: the thread runs before its handle is in the map.    *)
SpawnThread(t) ==
    /\ call[t] # NoCall
    /\ call[t].thread = NoThread
    /\ \E th \in Threads :
        /\ Unused(th)
        /\ phase' = [phase EXCEPT ![th] = "indexing"]
        /\ root' = [root EXCEPT ![th] = call[t].project]
        /\ call' = [call EXCEPT ![t] = [project |-> @.project, consumer |-> @.consumer,
                                        thread |-> th]]
    /\ UNCHANGED <<consumers, watcher>>

(* start_watch_thread: the operating system refuses the thread; the caller *)
(* logs the error and the consumer is not registered.                      *)
SpawnFails(t) ==
    /\ call[t] # NoCall
    /\ call[t].thread = NoThread
    /\ call' = [call EXCEPT ![t] = NoCall]
    /\ UNCHANGED <<consumers, watcher, phase, root>>

(* A mistake: the caller keeps a clone of the stop sender.                 *)
InsertHandleKeepingSender(t) ==
    /\ call[t] # NoCall
    /\ call[t].thread # NoThread
    /\ watcher' = [watcher EXCEPT ![call[t].project] = call[t].thread]
    /\ consumers' = [consumers EXCEPT ![call[t].project] = {call[t].consumer}]
    /\ UNCHANGED <<call, phase, root>>

(* start_watch_thread, second critical section: HashMap::insert replaces   *)
(* whatever handle the project has by now, and drops the one it replaced.  *)
InsertHandle(t) ==
    /\ call[t] # NoCall
    /\ call[t].thread # NoThread
    /\ watcher' = [watcher EXCEPT ![call[t].project] = call[t].thread]
    /\ consumers' = [consumers EXCEPT ![call[t].project] = {call[t].consumer}]
    /\ call' = [call EXCEPT ![t] = NoCall]
    /\ UNCHANGED threadVars

(* Mistakes: any unwatch drops the handle; an emptied handle is kept.      *)
UnwatchUncounted(p, c) ==
    /\ Registered(p)
    /\ consumers' = [consumers EXCEPT ![p] = {}]
    /\ watcher' = [watcher EXCEPT ![p] = NoThread]
    /\ UNCHANGED <<call, phase, root>>

UnwatchBySessionKeepingEmpty(c) ==
    /\ consumers' = [p \in Projects |-> consumers[p] \ {c}]
    /\ UNCHANGED <<watcher, call, phase, root>>

(* unwatch: removes the key, which need not be there, and drops the handle *)
(* when no consumer is left.                                               *)
Unwatch(p, c) ==
    /\ Registered(p)
    /\ consumers' = [consumers EXCEPT ![p] = @ \ {c}]
    /\ watcher' = [watcher EXCEPT ![p] = IF consumers[p] \ {c} = {} THEN NoThread ELSE @]
    /\ UNCHANGED <<call, phase, root>>

(* unwatch_by_session: the same for every project the key appears in.      *)
UnwatchBySession(c) ==
    /\ consumers' = [p \in Projects |-> consumers[p] \ {c}]
    /\ watcher' = [p \in Projects |-> IF consumers[p] = {c} THEN NoThread ELSE watcher[p]]
    /\ UNCHANGED <<call, phase, root>>

-----------------------------------------------------------------------------
(* watch_loop: the initial index is committed and the state set to         *)
(* Running; the ignore filter and the watcher are still to be made.        *)
FinishIndex(th) ==
    /\ phase[th] = "indexing"
    /\ phase' = [phase EXCEPT ![th] = "attaching"]
    /\ UNCHANGED <<consumers, watcher, call, root>>

(* watch_loop: watcher.watch() succeeded and the loop is entered.          *)
AttachWatcher(th) ==
    /\ phase[th] = "attaching"
    /\ phase' = [phase EXCEPT ![th] = "watching"]
    /\ UNCHANGED <<consumers, watcher, call, root>>

(* Every `?` of watch_loop, and the event channel disconnecting: the       *)
(* thread records Failed in the handle's shared state and exits.           *)
WatchFails(th) ==
    /\ phase[th] \in Live
    /\ phase' = [phase EXCEPT ![th] = "failed"]
    /\ UNCHANGED <<consumers, watcher, call, root>>

(* Mistake: the stop channel is looked at once, before the event loop.      *)
SeeStopOnce(th) ==
    /\ phase[th] = "attaching"
    /\ ~Held(th)
    /\ phase' = [phase EXCEPT ![th] = "exited"]
    /\ UNCHANGED <<consumers, watcher, call, root>>

(* The stop channel is polled only at the head of the event loop.          *)
SeeStop(th) ==
    /\ phase[th] = "watching"
    /\ ~Held(th)
    /\ phase' = [phase EXCEPT ![th] = "exited"]
    /\ UNCHANGED <<consumers, watcher, call, root>>

Advance(th) == FinishIndex(th) \/ AttachWatcher(th) \/ SeeStop(th)

StartWatch(t) == SpawnThread(t) \/ SpawnFails(t) \/ InsertHandle(t)

Next ==
    \/ \E t \in Tasks, p \in Projects, c \in Consumers : EnsureWatching(t, p, c)
    \/ \E t \in Tasks : StartWatch(t)
    \/ \E p \in Projects, c \in Consumers : Unwatch(p, c)
    \/ \E c \in Consumers : UnwatchBySession(c)
    \/ \E th \in Threads : Advance(th) \/ WatchFails(th)

Spec == Init /\ [][Next]_vars

(* A started call runs on: it takes no lock but the registry's and waits   *)
(* for nothing. A thread's index ends (the tree is finite), and the loop   *)
(* returns to its head at least every WATCH_POLL_SECS. Nothing forces a    *)
(* caller to call, or a watch to fail.                                     *)
Fairness ==
    /\ \A t \in Tasks : WF_vars(StartWatch(t))
    /\ \A th \in Threads : WF_vars(Advance(th))

FairSpec == Spec /\ Fairness

(* The registry implements reference-counted watches: every step is a step *)
(* of WatchRegistry, or changes nothing a consumer can tell. Nobody can be *)
(* displaced where one task makes all calls.                               *)
Registry == INSTANCE WatchRegistry WITH Overlapping <- \E s, t \in Tasks : s # t
ImplementsRegistry == Registry!Spec

-----------------------------------------------------------------------------
TypeOK ==
    /\ consumers \in [Projects -> SUBSET Consumers]
    /\ watcher \in [Projects -> Threads \cup {NoThread}]
    /\ call \in [Tasks -> Call \cup {NoCall}]
    /\ phase \in [Threads -> Live \cup {"failed", "exited"}]
    /\ root \in [Threads -> Projects]

(* A project is in the map exactly while somebody consumes it: however     *)
(* lookups, inserts and removals interleave, no handle is left with nobody *)
(* to unwatch it, which would keep its thread alive for ever.              *)
HandleHasConsumers == \A p \in Projects : Registered(p) <=> consumers[p] # {}

(* The sender of a stop channel has one owner. A second owner would keep a *)
(* thread running after the last consumer of its project has left.         *)
SingleOwner ==
    /\ \A p, q \in Projects, th \in Threads :
        HeldByHandle(p, th) /\ HeldByHandle(q, th) => p = q
    /\ \A s, t \in Tasks, th \in Threads :
        HeldByCall(s, th) /\ HeldByCall(t, th) => s = t
    /\ \A p \in Projects, t \in Tasks, th \in Threads :
        ~(HeldByHandle(p, th) /\ HeldByCall(t, th))

(* A thread somebody can stop works for the project its owner names, and   *)
(* has not been told to stop: it is live, or it has recorded its failure.  *)
OwnedThreadServesProject ==
    \A th \in Threads :
        /\ \A p \in Projects : HeldByHandle(p, th) => phase[th] # "exited" /\ root[th] = p
        /\ \A t \in Tasks :
            HeldByCall(t, th) => phase[th] # "exited" /\ root[th] = call[t].project

RegistryInv == TypeOK /\ HandleHasConsumers /\ SingleOwner /\ OwnedThreadServesProject

(* "multiple agent sessions pointing at the same repo share one watch      *)
(* thread; a ref-count tracks how many consumers are active"               *)
(* (watch_manager.rs:5-6): the consumers counted for a project change by   *)
(* arrivals, or by one consumer's departure, and never by somebody else's  *)
(* arrival displacing one that has not left.                               *)
NoConsumerDisplaced ==
    [][\A p \in Projects :
        \/ consumers[p] \subseteq consumers'[p]
        \/ \E c \in consumers[p] : consumers'[p] = consumers[p] \ {c}]_vars

(* A thread nobody can stop any more ends, also when its handle went while *)
(* the thread was still indexing, or was replaced in the map.              *)
OrphansEnd ==
    \A th \in Threads : phase[th] \in Live /\ ~Held(th) ~> phase[th] \notin Live
=============================================================================
