---------------------------- MODULE WatchProofs -----------------------------
(***************************************************************************)
(* The invariants of the watch registry, for any number of projects,       *)
(* consumers, callers and threads, and that a registry whose calls do not  *)
(* overlap implements reference-counted watches. Then its callers: the     *)
(* daemon keeps to the registry's operations, so that what is proved of    *)
(* them holds there, and a connection's watches are its own, for any       *)
(* number of connections.                                                  *)
(***************************************************************************)
EXTENDS WatchSessions, TLAPS

(* The registry                                                            *)

(* The variables keep their types.                                         *)
LEMMA TypeStep == TypeOK /\ [Next]_vars => TypeOK'
<1> SUFFICES ASSUME TypeOK, [Next]_vars PROVE TypeOK'
  OBVIOUS
<1> USE DEF TypeOK
<1>1. ASSUME NEW t \in Tasks, NEW p \in Projects, NEW c \in Consumers, EnsureWatching(t, p, c)
      PROVE TypeOK'
  BY <1>1 DEF EnsureWatching, AddConsumer, FindUnregistered, Call
<1>2. ASSUME NEW t \in Tasks, SpawnThread(t) PROVE TypeOK'
  <2>1. PICK th \in Threads :
          /\ phase' = [phase EXCEPT ![th] = "indexing"]
          /\ root' = [root EXCEPT ![th] = call[t].project]
          /\ call' = [call EXCEPT ![t] = [project |-> call[t].project,
                                          consumer |-> call[t].consumer, thread |-> th]]
    BY <1>2 DEF SpawnThread
  <2>2. call[t] \in Call
    BY <1>2 DEF SpawnThread
  <2>3. call' \in [Tasks -> Call \cup {NoCall}]
    BY <2>1, <2>2 DEF Call
  <2>4. root' \in [Threads -> Projects] /\ phase' \in [Threads -> Live \cup {"failed", "exited"}]
    BY <2>1, <2>2 DEF Call, Live
  <2> QED
    BY <1>2, <2>3, <2>4 DEF SpawnThread
<1>3. ASSUME NEW t \in Tasks, SpawnFails(t) PROVE TypeOK'
  BY <1>3 DEF SpawnFails
<1>4. ASSUME NEW t \in Tasks, InsertHandle(t) PROVE TypeOK'
  <2>1. call[t] \in Call
    BY <1>4 DEF InsertHandle
  <2> QED
    BY <1>4, <2>1 DEF InsertHandle, threadVars, Call
<1>5. ASSUME NEW p \in Projects, NEW c \in Consumers, Unwatch(p, c) PROVE TypeOK'
  BY <1>5 DEF Unwatch
<1>6. ASSUME NEW c \in Consumers, UnwatchBySession(c) PROVE TypeOK'
  BY <1>6 DEF UnwatchBySession
<1>7. ASSUME NEW th \in Threads, Advance(th) \/ WatchFails(th) PROVE TypeOK'
  BY <1>7 DEF Advance, FinishIndex, AttachWatcher, SeeStop, WatchFails, Live
<1>8. CASE UNCHANGED vars
  BY <1>8 DEF vars
<1> QED
  BY <1>1, <1>2, <1>3, <1>4, <1>5, <1>6, <1>7, <1>8 DEF Next, StartWatch

(* The registry starts empty, and the invariants hold of it.               *)
LEMMA InitInv == Init => RegistryInv
<1> SUFFICES ASSUME Init PROVE RegistryInv
  OBVIOUS
<1>1. TypeOK
  BY DEF Init, TypeOK
<1>2. HandleHasConsumers
  BY DEF Init, HandleHasConsumers, Registered
<1>3. \A th \in Threads : ~Held(th)
  BY NoThreadAssumption DEF Init, Held, HeldByHandle, HeldByCall
<1>4. SingleOwner /\ OwnedThreadServesProject
  BY <1>3 DEF SingleOwner, OwnedThreadServesProject, Held
<1> QED
  BY <1>1, <1>2, <1>4 DEF RegistryInv

(* A handle is in the map exactly while it has consumers.                  *)
LEMMA HandleStep == RegistryInv /\ [Next]_vars => HandleHasConsumers'
<1> SUFFICES ASSUME RegistryInv, [Next]_vars PROVE HandleHasConsumers'
  OBVIOUS
<1> USE NoThreadAssumption DEF RegistryInv, TypeOK, HandleHasConsumers, Registered
<1>1. ASSUME NEW t \in Tasks, NEW p \in Projects, NEW c \in Consumers, EnsureWatching(t, p, c)
      PROVE HandleHasConsumers'
  BY <1>1 DEF EnsureWatching, AddConsumer, FindUnregistered
<1>2. ASSUME NEW t \in Tasks, SpawnThread(t) \/ SpawnFails(t) PROVE HandleHasConsumers'
  BY <1>2 DEF SpawnThread, SpawnFails
<1>3. ASSUME NEW t \in Tasks, InsertHandle(t) PROVE HandleHasConsumers'
  <2>1. call[t] \in Call
    BY <1>3 DEF InsertHandle
  <2> QED
    BY <1>3, <2>1 DEF InsertHandle, Call
<1>4. ASSUME NEW p \in Projects, NEW c \in Consumers, Unwatch(p, c) PROVE HandleHasConsumers'
  BY <1>4 DEF Unwatch
<1>5. ASSUME NEW c \in Consumers, UnwatchBySession(c) PROVE HandleHasConsumers'
  <2> SUFFICES ASSUME NEW p \in Projects
               PROVE watcher'[p] # NoThread <=> consumers'[p] # {}
    OBVIOUS
  <2>1. consumers'[p] = consumers[p] \ {c}
    BY <1>5 DEF UnwatchBySession
  <2>2. watcher'[p] = IF consumers[p] = {c} THEN NoThread ELSE watcher[p]
    BY <1>5 DEF UnwatchBySession
  <2> QED
    BY <2>1, <2>2
<1>6. ASSUME NEW th \in Threads, Advance(th) \/ WatchFails(th) PROVE HandleHasConsumers'
  BY <1>6 DEF Advance, FinishIndex, AttachWatcher, SeeStop, WatchFails
<1>7. CASE UNCHANGED vars
  BY <1>7 DEF vars
<1> QED
  BY <1>1, <1>2, <1>3, <1>4, <1>5, <1>6, <1>7 DEF Next, StartWatch

(* A step that only lets go of threads gives none a second owner, and      *)
(* leaves every owned thread as it was.                                    *)
LEMMA LettingGo ==
  ASSUME RegistryInv, TypeOK', UNCHANGED threadVars,
         \A p \in Projects : watcher'[p] \in {watcher[p], NoThread},
         \A t \in Tasks : call'[t] = call[t] \/ call'[t] = NoCall
                                             \/ (call'[t] # NoCall /\ call'[t].thread = NoThread)
  PROVE SingleOwner' /\ OwnedThreadServesProject'
<1> USE NoThreadAssumption DEF RegistryInv, threadVars
<1>1. \A p \in Projects, th \in Threads : HeldByHandle(p, th)' => HeldByHandle(p, th)
  BY DEF HeldByHandle
<1>2. \A t \in Tasks, th \in Threads :
        HeldByCall(t, th)' => HeldByCall(t, th) /\ call'[t] = call[t]
  BY DEF HeldByCall
<1>3. SingleOwner'
  BY <1>1, <1>2 DEF SingleOwner
<1>4. OwnedThreadServesProject'
  BY <1>1, <1>2 DEF OwnedThreadServesProject
<1> QED
  BY <1>3, <1>4

(* Every stop sender has one owner, and an owned thread serves its project.*)
LEMMA OwnerStep == RegistryInv /\ [Next]_vars => SingleOwner' /\ OwnedThreadServesProject'
<1> SUFFICES ASSUME RegistryInv, [Next]_vars
             PROVE SingleOwner' /\ OwnedThreadServesProject'
  OBVIOUS
<1>0. TypeOK'
  BY TypeStep DEF RegistryInv
<1> USE NoThreadAssumption, NoCallAssumption, <1>0
<1>1. ASSUME NEW t \in Tasks, NEW p \in Projects, NEW c \in Consumers, EnsureWatching(t, p, c)
      PROVE SingleOwner' /\ OwnedThreadServesProject'
  <2>1. \A q \in Projects : watcher'[q] = watcher[q]
    BY <1>1 DEF EnsureWatching, AddConsumer, FindUnregistered
  <2>2. [project |-> p, consumer |-> c, thread |-> NoThread] # NoCall
    BY DEF Call
  <2>3. \A s \in Tasks : call'[s] = call[s]
                            \/ (call'[s] # NoCall /\ call'[s].thread = NoThread)
    BY <1>1, <2>2 DEF EnsureWatching, AddConsumer, FindUnregistered, RegistryInv, TypeOK
  <2> QED
    BY <1>1, <2>1, <2>3, LettingGo
       DEF EnsureWatching, AddConsumer, FindUnregistered, threadVars
<1>2. ASSUME NEW t \in Tasks, SpawnThread(t)
      PROVE SingleOwner' /\ OwnedThreadServesProject'
  <2>1. PICK th \in Threads :
          /\ Unused(th)
          /\ phase' = [phase EXCEPT ![th] = "indexing"]
          /\ root' = [root EXCEPT ![th] = call[t].project]
          /\ call' = [call EXCEPT ![t] = [project |-> call[t].project,
                                          consumer |-> call[t].consumer, thread |-> th]]
    BY <1>2 DEF SpawnThread
  <2>2. call[t] \in Call /\ watcher' = watcher
    BY <1>2 DEF SpawnThread, RegistryInv, TypeOK
  <2>3. call'[t].thread = th /\ call'[t].project = call[t].project
        /\ \A s \in Tasks \ {t} : call'[s] = call[s]
    BY <2>1, <2>2 DEF RegistryInv, TypeOK, Call
  <2>4. \A s \in Tasks, x \in Threads :
          HeldByCall(s, x)' => (s = t /\ x = th) \/ (s # t /\ x # th /\ HeldByCall(s, x))
    BY <2>1, <2>3 DEF HeldByCall, Unused, Held
  <2>5. \A q \in Projects, x \in Threads : HeldByHandle(q, x)' => HeldByHandle(q, x) /\ x # th
    BY <2>1, <2>2 DEF HeldByHandle, Unused, Held
  <2>6. SingleOwner'
    BY <2>4, <2>5 DEF SingleOwner, RegistryInv
  <2>7. root'[th] = call'[t].project /\ phase'[th] = "indexing"
        /\ \A x \in Threads \ {th} : root'[x] = root[x] /\ phase'[x] = phase[x]
    BY <2>1, <2>3 DEF RegistryInv, TypeOK
  <2>8. OwnedThreadServesProject'
    BY <2>3, <2>4, <2>5, <2>7 DEF OwnedThreadServesProject, RegistryInv
  <2> QED
    BY <2>6, <2>8
<1>3. ASSUME NEW t \in Tasks, SpawnFails(t)
      PROVE SingleOwner' /\ OwnedThreadServesProject'
  BY <1>3, LettingGo DEF SpawnFails, threadVars, RegistryInv, TypeOK
<1>4. ASSUME NEW t \in Tasks, InsertHandle(t)
      PROVE SingleOwner' /\ OwnedThreadServesProject'
  <2> DEFINE p == call[t].project
             th == call[t].thread
  <2>1. call[t] \in Call /\ p \in Projects /\ th \in Threads
    BY <1>4 DEF InsertHandle, RegistryInv, TypeOK, Call
  <2>2. HeldByCall(t, th)
    BY <1>4 DEF InsertHandle, HeldByCall
  <2>3. \A q \in Projects, x \in Threads :
          HeldByHandle(q, x)' => (q = p /\ x = th) \/ (q # p /\ HeldByHandle(q, x))
    BY <1>4, <2>1 DEF InsertHandle, HeldByHandle, RegistryInv, TypeOK
  <2>4. \A s \in Tasks, x \in Threads :
          HeldByCall(s, x)' => s # t /\ HeldByCall(s, x) /\ call'[s] = call[s]
    BY <1>4 DEF InsertHandle, HeldByCall, RegistryInv, TypeOK
  <2>5. SingleOwner'
    BY <2>1, <2>2, <2>3, <2>4 DEF SingleOwner, RegistryInv
  <2>6. phase' = phase /\ root' = root /\ phase[th] # "exited" /\ root[th] = p
    BY <1>4, <2>1, <2>2 DEF InsertHandle, threadVars, RegistryInv, OwnedThreadServesProject
  <2>7. OwnedThreadServesProject'
    BY <2>3, <2>4, <2>6 DEF OwnedThreadServesProject, RegistryInv
  <2> QED
    BY <2>5, <2>7
<1>5. ASSUME NEW q \in Projects, NEW c \in Consumers, Unwatch(q, c)
      PROVE SingleOwner' /\ OwnedThreadServesProject'
  <2>1. \A p \in Projects : watcher'[p] \in {watcher[p], NoThread}
    BY <1>5 DEF Unwatch, RegistryInv, TypeOK
  <2> QED
    BY <1>5, <2>1, LettingGo DEF Unwatch, threadVars
<1>6. ASSUME NEW c \in Consumers, UnwatchBySession(c)
      PROVE SingleOwner' /\ OwnedThreadServesProject'
  <2>1. \A p \in Projects : watcher'[p] \in {watcher[p], NoThread}
    BY <1>6 DEF UnwatchBySession
  <2> QED
    BY <1>6, <2>1, LettingGo DEF UnwatchBySession, threadVars
<1>7. ASSUME NEW th \in Threads, Advance(th) \/ WatchFails(th)
      PROVE SingleOwner' /\ OwnedThreadServesProject'
  <2>1. watcher' = watcher /\ call' = call /\ root' = root
    BY <1>7 DEF Advance, FinishIndex, AttachWatcher, SeeStop, WatchFails
  <2>2. \A x \in Threads : Held(x) => (phase'[x] = "exited" => phase[x] = "exited")
    BY <1>7 DEF Advance, FinishIndex, AttachWatcher, SeeStop, WatchFails, RegistryInv, TypeOK
  <2>3. SingleOwner'
    BY <2>1 DEF SingleOwner, HeldByHandle, HeldByCall, RegistryInv
  <2>4. OwnedThreadServesProject'
    BY <2>1, <2>2 DEF OwnedThreadServesProject, Held, HeldByHandle, HeldByCall, RegistryInv
  <2> QED
    BY <2>3, <2>4
<1>8. CASE UNCHANGED vars
  BY <1>8 DEF vars, RegistryInv, SingleOwner, OwnedThreadServesProject, HeldByHandle, HeldByCall
<1> QED
  BY <1>1, <1>2, <1>3, <1>4, <1>5, <1>6, <1>7, <1>8 DEF Next, StartWatch

-----------------------------------------------------------------------------
(* The step lemmas together: RegistryInv is inductive.                     *)
LEMMA RegistryInvStep == RegistryInv /\ [Next]_vars => RegistryInv'
BY TypeStep, HandleStep, OwnerStep DEF RegistryInv

LEMMA RegistryInvariant == Spec => []RegistryInv
<1>1. Init => RegistryInv
  BY InitInv
<1>2. RegistryInv /\ [Next]_vars => RegistryInv'
  BY RegistryInvStep
<1> QED
  BY <1>1, <1>2, PTL DEF Spec

(* The map, the calls and the threads keep their types.                    *)
THEOREM RegistryTypes == Spec => []TypeOK
BY RegistryInvariant, PTL DEF RegistryInv

(* For every number of callers, racing as they may, a project is in the    *)
(* map exactly while somebody consumes it.                                 *)
THEOREM WatchedWhileConsumed == Spec => []HandleHasConsumers
BY RegistryInvariant, PTL DEF RegistryInv

(* Each stop sender has one owner, a handle or one unfinished call.        *)
THEOREM StopSenderOwnedOnce == Spec => []SingleOwner
BY RegistryInvariant, PTL DEF RegistryInv

(* No owned thread has been told to stop or works for another project.     *)
THEOREM OwnedThreadsServe == Spec => []OwnedThreadServesProject
BY RegistryInvariant, PTL DEF RegistryInv

-----------------------------------------------------------------------------
(* With one call at a time, the project a call found unregistered is still *)
(* unregistered when its handle is inserted.                               *)
Serial == \A s, t \in Tasks : s = t
SerialInv == Serial => \A t \in Tasks : call[t] # NoCall => ~Registered(call[t].project)

LEMMA SerialStep == RegistryInv /\ SerialInv /\ [Next]_vars => SerialInv'
<1> SUFFICES ASSUME RegistryInv, SerialInv, [Next]_vars, Serial,
                    NEW t \in Tasks, call'[t] # NoCall
             PROVE watcher'[call'[t].project] = NoThread
  BY DEF SerialInv, Registered
<1> USE NoThreadAssumption, NoCallAssumption DEF RegistryInv, TypeOK, Serial, SerialInv, Registered
<1>1. ASSUME NEW p \in Projects, NEW c \in Consumers, EnsureWatching(t, p, c)
      PROVE watcher'[call'[t].project] = NoThread
  BY <1>1 DEF EnsureWatching, AddConsumer, FindUnregistered
<1>2. ASSUME SpawnThread(t) PROVE watcher'[call'[t].project] = NoThread
  BY <1>2 DEF SpawnThread, Call
<1>3. ASSUME SpawnFails(t) \/ InsertHandle(t) PROVE watcher'[call'[t].project] = NoThread
  BY <1>3 DEF SpawnFails, InsertHandle
<1>4. ASSUME NEW p \in Projects, NEW c \in Consumers, Unwatch(p, c)
      PROVE watcher'[call'[t].project] = NoThread
  BY <1>4 DEF Unwatch, Call
<1>5. ASSUME NEW c \in Consumers, UnwatchBySession(c)
      PROVE watcher'[call'[t].project] = NoThread
  BY <1>5 DEF UnwatchBySession, Call
<1>6. ASSUME NEW th \in Threads, Advance(th) \/ WatchFails(th)
      PROVE watcher'[call'[t].project] = NoThread
  BY <1>6 DEF Advance, FinishIndex, AttachWatcher, SeeStop, WatchFails
<1>7. CASE UNCHANGED vars
  BY <1>7 DEF vars
<1> QED
  BY <1>1, <1>2, <1>3, <1>4, <1>5, <1>6, <1>7 DEF Next, StartWatch

(* Each step of the registry is an operation of WatchRegistry, or leaves   *)
(* its variables alone.                                                    *)
LEMMA StepRefines ==
  RegistryInv /\ SerialInv /\ [Next]_vars => [Registry!Next]_(Registry!vars)
<1> SUFFICES ASSUME RegistryInv, SerialInv, [Next]_vars
             PROVE Registry!Next \/ UNCHANGED <<consumers, watcher>>
  BY DEF Registry!vars
<1> USE DEF RegistryInv, TypeOK, HandleHasConsumers, Registered
<1>1. ASSUME NEW t \in Tasks, NEW p \in Projects, NEW c \in Consumers, EnsureWatching(t, p, c)
      PROVE Registry!Next \/ UNCHANGED <<consumers, watcher>>
  <2>1. CASE AddConsumer(t, p, c)
    BY <2>1 DEF AddConsumer, Registry!Next, Registry!Join
  <2>2. CASE FindUnregistered(t, p, c)
    BY <2>2 DEF FindUnregistered
  <2> QED
    BY <1>1, <2>1, <2>2 DEF EnsureWatching
<1>2. ASSUME NEW t \in Tasks, InsertHandle(t)
      PROVE Registry!Next \/ UNCHANGED <<consumers, watcher>>
  <2>1. call[t] \in Call /\ call[t].thread \in Threads
    BY <1>2 DEF InsertHandle, Call
  <2>2. CASE consumers[call[t].project] = {}
    <3>1. Registry!Begin(call[t].project, call[t].consumer)
      BY <1>2, <2>1, <2>2 DEF InsertHandle, Registry!Begin
    <3> QED
      BY <2>1, <3>1 DEF Registry!Next, Call
  <2>3. CASE consumers[call[t].project] # {}
    <3>1. \E r, u \in Tasks : r # u
      BY <1>2, <2>1, <2>3 DEF InsertHandle, SerialInv, Serial, Call
    <3>2. watcher[call[t].project] # call[t].thread
      BY <1>2, <2>1 DEF InsertHandle, SingleOwner, HeldByHandle, HeldByCall, Call
    <3>3. Registry!Displace(call[t].project, call[t].consumer)
      BY <1>2, <2>1, <2>3, <3>1, <3>2 DEF InsertHandle, Registry!Displace
    <3> QED
      BY <2>1, <3>3 DEF Registry!Next, Call
  <2> QED
    BY <2>2, <2>3
<1>3. ASSUME NEW p \in Projects, NEW c \in Consumers, Unwatch(p, c)
      PROVE Registry!Next \/ UNCHANGED <<consumers, watcher>>
  <2>1. consumers' = [q \in Projects |-> IF q \in {p} THEN consumers[q] \ {c} ELSE consumers[q]]
    BY <1>3 DEF Unwatch
  <2>2. watcher' = [q \in Projects |-> IF consumers'[q] = {} THEN NoThread ELSE watcher[q]]
    BY <1>3, <2>1 DEF Unwatch
  <2>3. Registry!Leave({p}, c)
    BY <2>1, <2>2 DEF Registry!Leave
  <2> QED
    BY <2>3 DEF Registry!Next
<1>4. ASSUME NEW c \in Consumers, UnwatchBySession(c)
      PROVE Registry!Next \/ UNCHANGED <<consumers, watcher>>
  <2>1. consumers' = [q \in Projects |->
                        IF q \in Projects THEN consumers[q] \ {c} ELSE consumers[q]]
    BY <1>4 DEF UnwatchBySession
  <2>2. ASSUME NEW q \in Projects
        PROVE watcher'[q] = IF consumers'[q] = {} THEN NoThread ELSE watcher[q]
    <3>1. watcher'[q] = IF consumers[q] = {c} THEN NoThread ELSE watcher[q]
      BY <1>4 DEF UnwatchBySession
    <3>2. consumers'[q] = consumers[q] \ {c}
      BY <1>4 DEF UnwatchBySession
    <3>3. consumers[q] = {} => watcher[q] = NoThread
      OBVIOUS
    <3> QED
      BY <3>1, <3>2, <3>3
  <2>3. watcher' = [q \in Projects |-> IF consumers'[q] = {} THEN NoThread ELSE watcher[q]]
    <3>1. watcher' = [q \in Projects |-> watcher'[q]]
      BY <1>4 DEF UnwatchBySession
    <3> QED
      BY <2>2, <3>1
  <2>4. Registry!Leave(Projects, c)
    BY <2>1, <2>3 DEF Registry!Leave
  <2> QED
    BY <2>4 DEF Registry!Next
<1>5. ASSUME NEW t \in Tasks, SpawnThread(t) \/ SpawnFails(t)
      PROVE Registry!Next \/ UNCHANGED <<consumers, watcher>>
  BY <1>5 DEF SpawnThread, SpawnFails
<1>6. ASSUME NEW th \in Threads, Advance(th) \/ WatchFails(th)
      PROVE Registry!Next \/ UNCHANGED <<consumers, watcher>>
  BY <1>6 DEF Advance, FinishIndex, AttachWatcher, SeeStop, WatchFails
<1>7. CASE UNCHANGED vars
  BY <1>7 DEF vars
<1> QED
  BY <1>1, <1>2, <1>3, <1>4, <1>5, <1>6, <1>7 DEF Next, StartWatch

(* The registry implements reference-counted watches: one thread from the  *)
(* first consumer to the last, whom only a racing first watch displaces,   *)
(* and nobody where one task makes all calls.                              *)
THEOREM RegistryImplements == Spec => ImplementsRegistry
<1>1. Init => RegistryInv /\ SerialInv /\ Registry!Init
  BY InitInv DEF Init, SerialInv, Registry!Init
<1>2. RegistryInv /\ SerialInv /\ [Next]_vars => RegistryInv' /\ SerialInv'
  BY RegistryInvStep, SerialStep
<1>3. RegistryInv /\ SerialInv /\ [Next]_vars => [Registry!Next]_(Registry!vars)
  BY StepRefines
<1> QED
  BY <1>1, <1>2, <1>3, PTL DEF Spec, ImplementsRegistry, Registry!Spec

-----------------------------------------------------------------------------
(* The sessions                                                            *)

(* The calls under way for a connection's key are the connection's own.    *)
OwnCalls ==
    \A t \in Tasks, k \in Conns :
        call[t] # NoCall /\ call[t].consumer = ClientKey(k) => t = k

(* A handler that has returned has nothing left to register, and none has  *)
(* started before the connection is open.                                  *)
DoneIsDone ==
    \A k \in Conns :
        /\ handler[k] = "done" => ~Registering(k)
        /\ conn[k] \in {"accepted", "initializing"} => handler[k] = "none"

SessionInv == SessionTypeOK /\ HandleHasConsumers /\ OwnCalls /\ DoneIsDone

-----------------------------------------------------------------------------
(* The keys of two connections differ, and are consumers.                  *)
LEMMA Keys ==
  /\ \A k \in Conns : ClientKey(k) \in Consumers /\ UnknownKey(k) \in Consumers
  /\ \A j, k \in Conns : ClientKey(j) = ClientKey(k) => j = k
  /\ \A j, k \in Conns : UnknownKey(j) # ClientKey(k)
BY ConsumersAssumption DEF ClientKey, UnknownKey

(* Whatever a connection, a handler, the CLI or a thread does is an        *)
(* operation of the registry or leaves it alone.                           *)
LEMMA SessionStepIsRegistryStep ==
  SessionTypeOK /\ [SessionNext]_allVars => [Next]_vars
<1> SUFFICES ASSUME SessionTypeOK, [SessionNext]_allVars PROVE [Next]_vars
  OBVIOUS
<1> USE Keys, TasksAssumption, ConsumersAssumption
<1>1. ASSUME NEW k \in Conns, ConnStep(k) PROVE [Next]_vars
  <2>1. CASE Initialize(k) \/ Serve(k)
    BY <2>1 DEF Initialize, Serve
  <2>2. CASE ServeFails(k)
    BY <2>2 DEF ServeFails, Next
  <2>3. CASE Close(k)
    BY <2>3 DEF Close, Next
  <2> QED
    BY <1>1, <2>1, <2>2, <2>3 DEF ConnStep
<1>2. ASSUME NEW k \in Conns, HandlerStep(k) PROVE [Next]_vars
  <2>1. CASE AskRoots(k) \/ RootsAnswered(k) \/ FallBackToCwd(k) \/ HandlerReturns(k)
    BY <2>1 DEF AskRoots, RootsAnswered, FallBackToCwd, HandlerReturns
  <2>2. CASE RegisterRoot(k)
    BY <2>2 DEF RegisterRoot, Next, SessionTypeOK
  <2> QED
    BY <1>2, <2>1, <2>2 DEF HandlerStep
<1>3. ASSUME NEW t \in CtrlConns, NEW p \in Projects, CtrlStep(t, p) PROVE [Next]_vars
  <2>1. CASE CtrlWatch(t, p) \/ CtrlWatchAnon(t, p)
    BY <2>1 DEF CtrlWatch, CtrlWatchAnon, Next
  <2>2. CASE CtrlUnwatch(t, p) \/ CtrlUnwatchAnon(t, p)
    BY <2>2 DEF CtrlUnwatch, CtrlUnwatchAnon, Next
  <2> QED
    BY <1>3, <2>1, <2>2 DEF CtrlStep
<1>4. ASSUME RegistryStep PROVE [Next]_vars
  BY <1>4 DEF RegistryStep, Next
<1>5. CASE UNCHANGED allVars
  BY <1>5 DEF allVars
<1> QED
  BY <1>1, <1>2, <1>3, <1>4, <1>5 DEF SessionNext

-----------------------------------------------------------------------------
LEMMA SessionTypeStep == SessionTypeOK /\ [SessionNext]_allVars => SessionTypeOK'
<1> SUFFICES ASSUME SessionTypeOK, [SessionNext]_allVars PROVE SessionTypeOK'
  OBVIOUS
<1>0. TypeOK'
  BY SessionStepIsRegistryStep, TypeStep DEF SessionTypeOK
<1> USE <1>0, CwdAssumption DEF SessionTypeOK
<1>1. ASSUME NEW k \in Conns, ConnStep(k) PROVE SessionTypeOK'
  BY <1>1 DEF ConnStep, Initialize, Serve, ServeFails, Close
<1>2. ASSUME NEW k \in Conns, HandlerStep(k) PROVE SessionTypeOK'
  <2>1. CASE AskRoots(k) \/ RootsAnswered(k) \/ FallBackToCwd(k) \/ HandlerReturns(k)
    BY <2>1 DEF AskRoots, RootsAnswered, FallBackToCwd, HandlerReturns
  <2>2. CASE RegisterRoot(k)
    BY <2>2 DEF RegisterRoot
  <2> QED
    BY <1>2, <2>1, <2>2 DEF HandlerStep
<1>3. ASSUME NEW t \in CtrlConns, NEW p \in Projects, CtrlStep(t, p) PROVE SessionTypeOK'
  BY <1>3 DEF CtrlStep, CtrlWatch, CtrlWatchAnon, CtrlUnwatch, CtrlUnwatchAnon, sessionVars
<1>4. ASSUME RegistryStep PROVE SessionTypeOK'
  BY <1>4 DEF RegistryStep, sessionVars
<1>5. CASE UNCHANGED allVars
  BY <1>5 DEF allVars, sessionVars
<1> QED
  BY <1>1, <1>2, <1>3, <1>4, <1>5 DEF SessionNext

(* A call of ensure_watching begins under the key of its caller; the steps *)
(* that follow keep its consumer.                                          *)
LEMMA OwnCallsStep == SessionInv /\ [SessionNext]_allVars => OwnCalls'
<1> SUFFICES ASSUME SessionInv, [SessionNext]_allVars PROVE OwnCalls'
  OBVIOUS
<1> USE Keys, KeysAssumption, NoCallAssumption DEF SessionInv, SessionTypeOK, TypeOK, OwnCalls
<1>1. ASSUME call' = call PROVE OwnCalls'
  BY <1>1
<1>2. ASSUME NEW t \in Tasks, NEW p \in Projects, NEW c \in Consumers,
             EnsureWatching(t, p, c),
             \A k \in Conns : c = ClientKey(k) => t = k
      PROVE OwnCalls'
  BY <1>2 DEF EnsureWatching, AddConsumer, FindUnregistered
<1>3. ASSUME NEW k \in Conns, ConnStep(k) PROVE OwnCalls'
  BY <1>1, <1>3 DEF ConnStep, Initialize, Serve, ServeFails, Close, UnwatchBySession, vars
<1>4. ASSUME NEW k \in Conns, HandlerStep(k) PROVE OwnCalls'
  <2>1. CASE AskRoots(k) \/ RootsAnswered(k) \/ FallBackToCwd(k) \/ HandlerReturns(k)
    BY <1>1, <2>1 DEF AskRoots, RootsAnswered, FallBackToCwd, HandlerReturns, vars
  <2>2. CASE RegisterRoot(k)
    <3>1. PICK p \in Projects : EnsureWatching(k, p, ClientKey(k))
      BY <2>2 DEF RegisterRoot
    <3> QED
      BY <1>2, <3>1, TasksAssumption
  <2> QED
    BY <1>4, <2>1, <2>2 DEF HandlerStep
<1>5. ASSUME NEW t \in CtrlConns, NEW p \in Projects, CtrlStep(t, p) PROVE OwnCalls'
  <2>1. CASE CtrlWatch(t, p) \/ CtrlWatchAnon(t, p)
    <3>1. PICK c \in CtrlKeys \cup AnonKeys : EnsureWatching(t, p, c)
      BY <2>1 DEF CtrlWatch, CtrlWatchAnon
    <3> QED
      BY <1>2, <3>1, TasksAssumption, ConsumersAssumption
  <2>2. CASE CtrlUnwatch(t, p) \/ CtrlUnwatchAnon(t, p)
    BY <1>1, <2>2 DEF CtrlUnwatch, CtrlUnwatchAnon, Unwatch
  <2> QED
    BY <1>5, <2>1, <2>2 DEF CtrlStep
<1>6. ASSUME NEW t \in Tasks, SpawnThread(t) PROVE OwnCalls'
  BY <1>6 DEF SpawnThread
<1>7. ASSUME NEW t \in Tasks, SpawnFails(t) \/ InsertHandle(t) PROVE OwnCalls'
  BY <1>7 DEF SpawnFails, InsertHandle
<1>8. ASSUME NEW th \in Threads, Advance(th) \/ WatchFails(th) PROVE OwnCalls'
  BY <1>1, <1>8 DEF Advance, FinishIndex, AttachWatcher, SeeStop, WatchFails
<1>9. CASE UNCHANGED allVars
  BY <1>1, <1>9 DEF allVars, vars
<1> QED
  BY <1>3, <1>4, <1>5, <1>6, <1>7, <1>8, <1>9 DEF SessionNext, RegistryStep, StartWatch

(* A handler returns with nothing left to register, and no step gives work *)
(* to one that has returned.                                               *)
LEMMA DoneIsDoneStep == SessionInv /\ [SessionNext]_allVars => DoneIsDone'
<1> SUFFICES ASSUME SessionInv, [SessionNext]_allVars PROVE DoneIsDone'
  OBVIOUS
<1> USE TasksAssumption DEF SessionInv, SessionTypeOK, TypeOK, DoneIsDone, Registering
<1>1. ASSUME NEW k \in Conns, ConnStep(k) PROVE DoneIsDone'
  BY <1>1 DEF ConnStep, Initialize, Serve, ServeFails, Close, UnwatchBySession, vars
<1>2. ASSUME NEW k \in Conns, HandlerStep(k) PROVE DoneIsDone'
  <2>1. CASE AskRoots(k) \/ RootsAnswered(k) \/ FallBackToCwd(k) \/ HandlerReturns(k)
    BY <2>1 DEF AskRoots, RootsAnswered, FallBackToCwd, HandlerReturns, vars
  <2>2. CASE RegisterRoot(k)
    <3>1. handler[k] # "done" /\ UNCHANGED <<conn, handler>>
          /\ \A j \in Conns \ {k} : call'[j] = call[j] /\ todo'[j] = todo[j]
      BY <2>2 DEF RegisterRoot, EnsureWatching, AddConsumer, FindUnregistered
    <3> QED
      BY <3>1
  <2> QED
    BY <1>2, <2>1, <2>2 DEF HandlerStep
<1>3. ASSUME NEW t \in CtrlConns, NEW p \in Projects, CtrlStep(t, p) PROVE DoneIsDone'
  <2>1. UNCHANGED <<conn, handler, todo>> /\ \A k \in Conns : call'[k] = call[k]
    BY <1>3 DEF CtrlStep, CtrlWatch, CtrlWatchAnon, CtrlUnwatch, CtrlUnwatchAnon, sessionVars,
                EnsureWatching, AddConsumer, FindUnregistered, Unwatch
  <2> QED
    BY <2>1
<1>4. ASSUME RegistryStep PROVE DoneIsDone'
  <2>1. \A t \in Tasks : call[t] = NoCall => call'[t] = NoCall
    BY <1>4 DEF RegistryStep, StartWatch, SpawnThread, SpawnFails, InsertHandle,
                Advance, FinishIndex, AttachWatcher, SeeStop, WatchFails
  <2> QED
    BY <1>4, <2>1 DEF RegistryStep, sessionVars
<1>5. CASE UNCHANGED allVars
  BY <1>5 DEF allVars, vars, sessionVars
<1> QED
  BY <1>1, <1>2, <1>3, <1>4, <1>5 DEF SessionNext

-----------------------------------------------------------------------------
(* What every step of the daemon keeps.                                    *)
LEMMA SessionInvStep == SessionInv /\ RegistryInv /\ [SessionNext]_allVars
                          => SessionInv' /\ RegistryInv'
<1> SUFFICES ASSUME SessionInv, RegistryInv, [SessionNext]_allVars
             PROVE SessionInv' /\ RegistryInv'
  OBVIOUS
<1>1. [Next]_vars
  BY SessionStepIsRegistryStep DEF SessionInv
<1>2. RegistryInv'
  BY <1>1, RegistryInvStep
<1> QED
  BY <1>2, SessionTypeStep, OwnCallsStep, DoneIsDoneStep DEF SessionInv, RegistryInv

LEMMA SessionInitInv == SessionInit => SessionInv /\ RegistryInv
<1> SUFFICES ASSUME SessionInit PROVE SessionInv /\ RegistryInv
  OBVIOUS
<1>1. RegistryInv
  BY InitInv DEF SessionInit
<1>2. SessionTypeOK
  BY <1>1 DEF SessionInit, SessionTypeOK, RegistryInv
<1>3. OwnCalls /\ DoneIsDone
  BY DEF SessionInit, Init, OwnCalls, DoneIsDone
<1> QED
  BY <1>1, <1>2, <1>3 DEF SessionInv, RegistryInv

LEMMA SessionInvariant == SessionSpec => [](SessionInv /\ RegistryInv)
BY SessionInitInv, SessionInvStep, PTL DEF SessionSpec

(* Connections, their handlers and what they call keep their types.        *)
THEOREM SessionTypes == SessionSpec => []SessionTypeOK
BY SessionInvariant, PTL DEF SessionInv

(* Connections, handlers, the CLI and watch threads together run the       *)
(* registry of WatchManager and nothing else of it: every theorem about    *)
(* the registry is one about the daemon.                                   *)
THEOREM SessionsRunRegistry == SessionSpec => Spec
<1>1. SessionInit => Init
  BY DEF SessionInit
<1>2. SessionInv /\ [SessionNext]_allVars => [Next]_vars
  BY SessionStepIsRegistryStep DEF SessionInv
<1> QED
  BY <1>1, <1>2, SessionInvariant, PTL DEF SessionSpec, Spec

(* A step under which a consumer of a connection's key appears is the      *)
(* connection's handler's, or the insert of a call it has begun.           *)
LEMMA OnlyOwnArrivals ==
  ASSUME SessionInv, [SessionNext]_allVars,
         NEW k \in Conns, NEW p \in Projects,
         ClientKey(k) \in consumers'[p], ClientKey(k) \notin consumers[p]
  PROVE Registering(k)
<1> USE Keys, KeysAssumption, TasksAssumption
    DEF SessionInv, SessionTypeOK, TypeOK, Registering
<1>1. ASSUME NEW j \in Conns, ConnStep(j) PROVE Registering(k)
  BY <1>1 DEF ConnStep, Initialize, Serve, ServeFails, Close, UnwatchBySession, vars
<1>2. ASSUME NEW j \in Conns, HandlerStep(j) PROVE Registering(k)
  <2>1. CASE AskRoots(j) \/ RootsAnswered(j) \/ FallBackToCwd(j) \/ HandlerReturns(j)
    BY <2>1 DEF AskRoots, RootsAnswered, FallBackToCwd, HandlerReturns, vars
  <2>2. CASE RegisterRoot(j)
    <3>1. PICK q \in todo[j] : EnsureWatching(j, q, ClientKey(j))
      BY <2>2 DEF RegisterRoot
    <3>2. j = k
      BY <3>1 DEF EnsureWatching, AddConsumer, FindUnregistered
    <3> QED
      BY <3>1, <3>2
  <2> QED
    BY <1>2, <2>1, <2>2 DEF HandlerStep
<1>3. ASSUME NEW t \in CtrlConns, NEW q \in Projects, CtrlStep(t, q) PROVE Registering(k)
  BY <1>3 DEF CtrlStep, CtrlWatch, CtrlWatchAnon, CtrlUnwatch, CtrlUnwatchAnon,
              EnsureWatching, AddConsumer, FindUnregistered, Unwatch
<1>4. ASSUME NEW t \in Tasks, InsertHandle(t) PROVE Registering(k)
  <2>1. call[t] # NoCall /\ call[t].consumer = ClientKey(k)
    BY <1>4 DEF InsertHandle
  <2> QED
    BY <2>1 DEF OwnCalls
<1>5. ASSUME NEW t \in Tasks, SpawnThread(t) \/ SpawnFails(t) PROVE Registering(k)
  BY <1>5 DEF SpawnThread, SpawnFails
<1>6. ASSUME NEW th \in Threads, Advance(th) \/ WatchFails(th) PROVE Registering(k)
  BY <1>6 DEF Advance, FinishIndex, AttachWatcher, SeeStop, WatchFails
<1>7. CASE UNCHANGED allVars
  BY <1>7 DEF allVars, vars
<1> QED
  BY <1>1, <1>2, <1>3, <1>4, <1>5, <1>6, <1>7 DEF SessionNext, RegistryStep, StartWatch

(* A connection is closed by its own task, and by unwatch_by_session.      *)
LEMMA ClosedByClose ==
  ASSUME [SessionNext]_allVars, SessionInv, NEW k \in Conns,
         conn'[k] = "closed", conn[k] # "closed"
  PROVE Close(k)
<1> USE DEF SessionInv, SessionTypeOK
<1>1. ASSUME NEW j \in Conns, ConnStep(j) PROVE Close(k)
  BY <1>1 DEF ConnStep, Initialize, Serve, ServeFails, Close
<1>2. ASSUME NEW j \in Conns, HandlerStep(j) PROVE Close(k)
  BY <1>2 DEF HandlerStep, AskRoots, RootsAnswered, FallBackToCwd, HandlerReturns, RegisterRoot
<1>3. ASSUME NEW t \in CtrlConns, NEW p \in Projects, CtrlStep(t, p) PROVE Close(k)
  BY <1>3 DEF CtrlStep, CtrlWatch, CtrlWatchAnon, CtrlUnwatch, CtrlUnwatchAnon, sessionVars
<1>4. CASE RegistryStep
  BY <1>4 DEF RegistryStep, sessionVars
<1>5. CASE UNCHANGED allVars
  BY <1>5 DEF allVars, sessionVars
<1> QED
  BY <1>1, <1>2, <1>3, <1>4, <1>5 DEF SessionNext

(* For any number of connections: one that closes after its on_initialized *)
(* has returned leaves nothing behind, and nothing of it comes back.       *)
THEOREM ClosesRelease == SessionSpec => QuietCloseReleases
<1>1. ASSUME SessionInv, [SessionNext]_allVars, NEW k \in Conns,
             handler[k] = "done", conn'[k] = "closed", conn[k] = "open" \/ ~Holds(k)
      PROVE ~Holds(k)'
  <2>1. ~Registering(k)
    BY <1>1 DEF SessionInv, DoneIsDone
  <2>2. CASE conn[k] = "open"
    <3>1. Close(k)
      BY <1>1, <2>2, ClosedByClose
    <3> QED
      BY <3>1 DEF Close, UnwatchBySession, Holds
  <2>3. CASE ~Holds(k)
    BY <1>1, <2>1, <2>3, OnlyOwnArrivals DEF Holds
  <2> QED
    BY <1>1, <2>2, <2>3
<1>2. SessionInv /\ [SessionNext]_allVars
        => [\A k \in Conns :
              handler[k] = "done" /\ conn'[k] = "closed" /\ (conn[k] = "open" \/ ~Holds(k))
                => ~Holds(k)']_allVars
  BY <1>1
<1> QED
  BY <1>2, SessionInvariant, PTL DEF SessionSpec, QuietCloseReleases

(* For any number of connections and control connections: the watch of a   *)
(* connection ends when the connection does, or by the insert of a handle  *)
(* over one that is there.                                                 *)
THEOREM NobodyTakesAWatch == SessionSpec => WatchEndsOnlyWithConnection
<1>1. ASSUME SessionInv, [SessionNext]_allVars, NEW k \in Conns, NEW p \in Projects,
             ClientKey(k) \in consumers[p] \ consumers'[p]
      PROVE (conn[k] = "open" /\ conn'[k] = "closed") \/ Displaced(p)
  <2> USE <1>1, Keys, KeysAssumption DEF SessionInv, SessionTypeOK, TypeOK
  <2>1. ASSUME NEW j \in Conns, ConnStep(j) PROVE conn[k] = "open" /\ conn'[k] = "closed"
    BY <2>1 DEF ConnStep, Initialize, Serve, ServeFails, Close, UnwatchBySession, vars
  <2>2. ASSUME NEW j \in Conns, HandlerStep(j) PROVE FALSE
    BY <2>2 DEF HandlerStep, AskRoots, RootsAnswered, FallBackToCwd, HandlerReturns,
                RegisterRoot, EnsureWatching, AddConsumer, FindUnregistered, vars
  <2>3. ASSUME NEW t \in CtrlConns, NEW q \in Projects, CtrlStep(t, q) PROVE FALSE
    BY <2>3 DEF CtrlStep, CtrlWatch, CtrlWatchAnon, CtrlUnwatch, CtrlUnwatchAnon,
                EnsureWatching, AddConsumer, FindUnregistered, Unwatch
  <2>4. ASSUME NEW t \in Tasks, InsertHandle(t) PROVE Displaced(p)
    <3>1. call[t].project = p /\ Registered(p)
      BY <2>4 DEF InsertHandle, HandleHasConsumers
    <3>2. call[t] # NoCall /\ call'[t] = NoCall
      BY <2>4 DEF InsertHandle
    <3> QED
      BY <3>1, <3>2 DEF Displaced
  <2>5. ASSUME NEW t \in Tasks, SpawnThread(t) \/ SpawnFails(t) PROVE FALSE
    BY <2>5 DEF SpawnThread, SpawnFails
  <2>6. ASSUME NEW th \in Threads, Advance(th) \/ WatchFails(th) PROVE FALSE
    BY <2>6 DEF Advance, FinishIndex, AttachWatcher, SeeStop, WatchFails
  <2>7. CASE UNCHANGED allVars
    BY <2>7 DEF allVars, vars
  <2> QED
    BY <2>1, <2>2, <2>3, <2>4, <2>5, <2>6, <2>7 DEF SessionNext, RegistryStep, StartWatch
<1>2. SessionInv /\ [SessionNext]_allVars
        => [\A k \in Conns, p \in Projects :
              ClientKey(k) \in consumers[p] \ consumers'[p] =>
                  \/ conn[k] = "open" /\ conn'[k] = "closed"
                  \/ Displaced(p)]_allVars
  BY <1>1
<1> QED
  BY <1>2, SessionInvariant, PTL DEF SessionSpec, WatchEndsOnlyWithConnection
=============================================================================
