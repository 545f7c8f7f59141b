---------------------------- MODULE WatchSessions ---------------------------
(***************************************************************************)
(* The daemon's callers of the watch registry (daemon/mod.rs, mcp/mod.rs): *)
(* MCP connections, which register the client's workspace roots and are    *)
(* unwatched when they close, and control connections, which carry the     *)
(* CLI's `watch` and `unwatch`. Every step that touches the registry is a  *)
(* step of WatchManager.                                                   *)
(*                                                                         *)
(* rmcp, the MCP library, runs each notification handler as a task of its  *)
(* own, which the end of the connection does not cancel: on_initialized    *)
(* may still be waiting for `roots/list`, or be inside ensure_watching,    *)
(* when the connection's task unwatches.                                   *)
(***************************************************************************)
EXTENDS WatchManager

CONSTANTS
    Conns,       \* MCP connections, each with its own connection_id
    CtrlConns,   \* control connections
    CtrlKeys,    \* consumer keys the CLI names with --client and --session-id
    AnonKeys,    \* keys with a generated UUID, for a CLI that names no session
    Cwd          \* the project the daemon's working directory resolves to

(* "<client>:<connection_id>", and the key used when the client is None.   *)
ClientKey(k) == <<"client", k>>
UnknownKey(k) == <<"unknown", k>>

ASSUME CwdAssumption == Cwd \in Projects
ASSUME TasksAssumption == Tasks = Conns \cup CtrlConns /\ Conns \cap CtrlConns = {}
ASSUME ConsumersAssumption ==
    Consumers = {ClientKey(k) : k \in Conns} \cup {UnknownKey(k) : k \in Conns}
                    \cup CtrlKeys \cup AnonKeys

(* No CLI knows the UUID of a connection.                                  *)
ASSUME KeysAssumption == \A k \in Conns : ClientKey(k) \notin CtrlKeys \cup AnonKeys

VARIABLES
    conn,      \* connection -> its task in Daemon::run
    handler,   \* connection -> its on_initialized task
    todo,      \* connection -> roots the running handler has still to register
    cli        \* project -> the last command of a CLI that names no session

sessionVars == <<conn, handler, todo, cli>>
allVars == <<vars, sessionVars>>

SessionInit ==
    /\ Init
    /\ conn = [k \in Conns |-> "accepted"]
    /\ handler = [k \in Conns |-> "none"]
    /\ todo = [k \in Conns |-> {}]
    /\ cli = [p \in Projects |-> "none"]

-----------------------------------------------------------------------------
(* initialize: the client's name is kept, and the roots of its params are  *)
(* what is to be registered.                                               *)
Initialize(k) ==
    /\ conn[k] = "accepted"
    /\ conn' = [conn EXCEPT ![k] = "initializing"]
    /\ \E roots \in SUBSET Projects : todo' = [todo EXCEPT ![k] = roots]
    /\ UNCHANGED <<vars, handler, cli>>

(* A mistake: the consumer is registered under the bare connection id.     *)
RegisterRootByConnection(k) ==
    \E p \in todo[k] :
        /\ EnsureWatching(k, p, k)
        /\ todo' = [todo EXCEPT ![k] = @ \ {p}]
        /\ UNCHANGED <<conn, handler, cli>>

(* initialize and on_initialized register their roots one after another.   *)
RegisterRoot(k) ==
    \E p \in todo[k] :
        /\ EnsureWatching(k, p, ClientKey(k))
        /\ todo' = [todo EXCEPT ![k] = @ \ {p}]
        /\ UNCHANGED <<conn, handler, cli>>

Registering(k) == todo[k] # {} \/ call[k] # NoCall

(* serve() returns Ok: the initialize response is on its way.              *)
Serve(k) ==
    /\ conn[k] = "initializing"
    /\ ~Registering(k)
    /\ conn' = [conn EXCEPT ![k] = "open"]
    /\ UNCHANGED <<vars, handler, todo, cli>>

(* serve() returns Err, before or after initialize ran: the connection is  *)
(* unwatched with no client name.                                          *)
ServeFails(k) ==
    /\ conn[k] \in {"accepted", "initializing"}
    /\ ~Registering(k)
    /\ conn' = [conn EXCEPT ![k] = "refused"]
    /\ UnwatchBySession(UnknownKey(k))
    /\ UNCHANGED <<handler, todo, cli>>

(* A mistake: the client's name is read before the handshake.              *)
CloseAsUnknown(k) ==
    /\ conn[k] = "open"
    /\ conn' = [conn EXCEPT ![k] = "closed"]
    /\ UnwatchBySession(UnknownKey(k))
    /\ UNCHANGED <<handler, todo, cli>>

(* The connection ends; svc.waiting() returns, and the connection's task   *)
(* unwatches under the name the client gave, whatever on_initialized does. *)
Close(k) ==
    /\ conn[k] = "open"
    /\ conn' = [conn EXCEPT ![k] = "closed"]
    /\ UnwatchBySession(ClientKey(k))
    /\ UNCHANGED <<handler, todo, cli>>

(* on_initialized, from a client with the roots capability: roots/list is  *)
(* sent, and the handler waits.                                            *)
AskRoots(k) ==
    /\ conn[k] = "open"
    /\ handler[k] = "none"
    /\ handler' = [handler EXCEPT ![k] = "listing"]
    /\ UNCHANGED <<vars, conn, todo, cli>>

(* The client answers with at least one root.                              *)
RootsAnswered(k) ==
    /\ handler[k] = "listing"
    /\ conn[k] = "open"
    /\ handler' = [handler EXCEPT ![k] = "registering"]
    /\ \E roots \in SUBSET Projects \ {{}} : todo' = [todo EXCEPT ![k] = roots]
    /\ UNCHANGED <<vars, conn, cli>>

(* A mistake: no timeout on roots/list.                                    *)
FallBackUntimed(k) ==
    /\ handler[k] = "none" /\ conn[k] = "open"
    /\ handler' = [handler EXCEPT ![k] = "registering"]
    /\ todo' = [todo EXCEPT ![k] = {Cwd}]
    /\ UNCHANGED <<vars, conn, cli>>

(* Four ways to the working directory: no roots capability, no roots in    *)
(* the answer, an error (a closed connection is one), five seconds over.   *)
FallBackToCwd(k) ==
    /\ \/ handler[k] = "none" /\ conn[k] = "open"
       \/ handler[k] = "listing"
    /\ handler' = [handler EXCEPT ![k] = "registering"]
    /\ todo' = [todo EXCEPT ![k] = {Cwd}]
    /\ UNCHANGED <<vars, conn, cli>>

HandlerReturns(k) ==
    /\ handler[k] = "registering"
    /\ ~Registering(k)
    /\ handler' = [handler EXCEPT ![k] = "done"]
    /\ UNCHANGED <<vars, conn, todo, cli>>

-----------------------------------------------------------------------------
(* A key nobody has used for this registry: a generated UUID.              *)
Fresh(c) == /\ \A p \in Projects : c \notin consumers[p]
            /\ \A t \in Tasks : call[t] # NoCall => call[t].consumer # c

(* A control connection handles one line at a time.                        *)
CtrlWatch(t, p) ==
    /\ \E c \in CtrlKeys : EnsureWatching(t, p, c)
    /\ UNCHANGED sessionVars

CtrlUnwatch(t, p) ==
    /\ call[t] = NoCall
    /\ \E c \in CtrlKeys : Unwatch(p, c)
    /\ UNCHANGED sessionVars

(* Without a session id, each command makes a consumer of its own.         *)
CtrlWatchAnon(t, p) ==
    /\ \E c \in AnonKeys : Fresh(c) /\ EnsureWatching(t, p, c)
    /\ cli' = [cli EXCEPT ![p] = "watch"]
    /\ UNCHANGED <<conn, handler, todo>>

(* A mistake: unwatch without a session drops the project.                 *)
CtrlUnwatchAll(t, p) ==
    /\ call[t] = NoCall
    /\ consumers' = [consumers EXCEPT ![p] = {}]
    /\ watcher' = [watcher EXCEPT ![p] = NoThread]
    /\ cli' = [cli EXCEPT ![p] = "unwatch"]
    /\ UNCHANGED <<call, phase, root, conn, handler, todo>>

CtrlUnwatchAnon(t, p) ==
    /\ call[t] = NoCall
    /\ \E c \in AnonKeys : Fresh(c) /\ Unwatch(p, c)
    /\ cli' = [cli EXCEPT ![p] = "unwatch"]
    /\ UNCHANGED <<conn, handler, todo>>

-----------------------------------------------------------------------------
ConnStep(k) == Initialize(k) \/ Serve(k) \/ ServeFails(k) \/ Close(k)

HandlerStep(k) ==
    \/ AskRoots(k) \/ RootsAnswered(k) \/ FallBackToCwd(k)
    \/ RegisterRoot(k) \/ HandlerReturns(k)

CtrlStep(t, p) ==
    CtrlWatch(t, p) \/ CtrlUnwatch(t, p) \/ CtrlWatchAnon(t, p) \/ CtrlUnwatchAnon(t, p)

(* What goes on in the registry without a caller.                          *)
RegistryStep ==
    /\ \/ \E t \in Tasks : StartWatch(t)
       \/ \E th \in Threads : Advance(th) \/ WatchFails(th)
    /\ UNCHANGED sessionVars

SessionNext ==
    \/ \E k \in Conns : ConnStep(k) \/ HandlerStep(k)
    \/ \E t \in CtrlConns, p \in Projects : CtrlStep(t, p)
    \/ RegistryStep

SessionSpec == SessionInit /\ [][SessionNext]_allVars

(* A handler that runs is scheduled until it returns, and its wait for     *)
(* roots/list is cut by a timer. Clients and the CLI do as they like.      *)
SessionFairness ==
    /\ \A t \in Tasks : WF_allVars(StartWatch(t) /\ UNCHANGED sessionVars)
    /\ \A k \in Conns :
        /\ WF_allVars(handler[k] = "listing" /\ FallBackToCwd(k))
        /\ WF_allVars(RegisterRoot(k))
        /\ WF_allVars(HandlerReturns(k))

FairSessionSpec == SessionSpec /\ SessionFairness

-----------------------------------------------------------------------------
SessionTypeOK ==
    /\ TypeOK
    /\ conn \in [Conns -> {"accepted", "initializing", "open", "closed", "refused"}]
    /\ handler \in [Conns -> {"none", "listing", "registering", "done"}]
    /\ todo \in [Conns -> SUBSET Projects]
    /\ cli \in [Projects -> {"none", "watch", "unwatch"}]

Holds(k) == \E p \in Projects : ClientKey(k) \in consumers[p]

(* "Called on MCP connection close to decrement the ref count for any path *)
(* this consumer was watching" (watch_manager.rs:210-211): once a          *)
(* connection is closed and no handler of it runs, it consumes nothing.    *)
ClosedConnectionHoldsNothing ==
    \A k \in Conns :
        conn[k] = "closed" /\ handler[k] \in {"none", "done"} => ~Holds(k)

(* The same where it does hold: once on_initialized has returned, a close  *)
(* leaves nothing of the connection in the registry, and nothing comes     *)
(* back, whatever calls of others were under way.                          *)
QuietCloseReleases ==
    [][\A k \in Conns :
        handler[k] = "done" /\ conn'[k] = "closed" /\ (conn[k] = "open" \/ ~Holds(k)) =>
            ~Holds(k)']_allVars

(* Some call's InsertHandle replaces the handle of p.                      *)
Displaced(p) == \E t \in Tasks : /\ call[t] # NoCall /\ call[t].project = p
                                  /\ call'[t] = NoCall /\ Registered(p)

(* A connection keeps consuming a project until that connection ends: no   *)
(* other connection's close and no command of the CLI takes the watch from *)
(* it. The one exception is InsertHandle (watch_manager.rs:272).           *)
WatchEndsOnlyWithConnection ==
    [][\A k \in Conns, p \in Projects :
        ClientKey(k) \in consumers[p] \ consumers'[p] =>
            \/ conn[k] = "open" /\ conn'[k] = "closed"
            \/ Displaced(p)]_allVars

(* on_initialized comes to an end, also when the client never answers and  *)
(* when the connection goes away under it.                                 *)
HandlerEnds == \A k \in Conns : handler[k] = "listing" ~> handler[k] = "done"
=============================================================================
