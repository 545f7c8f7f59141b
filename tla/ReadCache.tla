------------------------------ MODULE ReadCache -----------------------------
(***************************************************************************)
(* Repeated-read suppression: so_read (mcp/tools/read.rs) over the         *)
(* file-visit cache (core/file_visit_cache.rs), the PostCompact hook       *)
(* (hook/post_compact.rs) and the daemon's compact_reset                   *)
(* (daemon/mod.rs). A whole-file read whose hash the cache already has for *)
(* this connection, session and file is answered by "use cached context"   *)
(* in place of the content; the hook empties the cache of a session whose  *)
(* context was compacted.                                                  *)
(*                                                                         *)
(* A read is three accesses in the handler, the file, the cache lookup and *)
(* the cache insert, and a reply the client may or may not receive. Reads  *)
(* of all connections, control messages and editors interleave with it.    *)
(***************************************************************************)
EXTENDS Naturals, FiniteSets

CONSTANTS
    Conns,       \* connection ids, one per run of the MCP bridge
    Sessions,    \* session ids the PreTool hook injects as _so_session_id
    Files,
    Contents,    \* texts a file may hold
    Hashes,
    HashOf,      \* content -> its FNV-1a hash
    Requests,    \* bounds the so_read calls in flight at once
    NoHash,      \* no entry
    NoRequest,
    Hiccups      \* what may go wrong around the daemon, see below

(* "lost reply": the client cancels a call, or never sees its answer.      *)
(* "late reset": the agent reads on before the daemon handled the reset,   *)
(* or the hook finds no daemon. "no hook": a client without the PreTool    *)
(* hook, whose calls carry no session id.                                  *)
AllHiccups == {"lost reply", "late reset", "no hook"}

ASSUME HiccupsAssumption == Hiccups \subseteq AllHiccups
ASSUME HashAssumption ==
    /\ NoHash \notin Hashes
    /\ HashOf \in [Contents -> Hashes]
    /\ \A x, y \in Contents : HashOf[x] = HashOf[y] => x = y

VARIABLES
    disk,        \* file -> its content
    cache,       \* <<connection, cw_id, file>> -> content_hash, or NoHash
    request,     \* request -> a call of so_read, or NoRequest
    resets,      \* compact_reset messages the daemon has not handled
    link,        \* session -> the connection its bridge uses
    context      \* session -> the <<file, content>> its context window shows

vars == <<disk, cache, request, resets, link, context>>

Stages == {"called", "read", "missed", "full", "notice", "excerpt"}

(* cw: the cw_id the cache files the session under. whole: mode "full"     *)
(* without an excerpt. content: what the read found, once it has read.     *)
Windows == Sessions \cup Conns

Request ==
    [stage : Stages, conn : Conns, session : Sessions, cw : Windows, file : Files,
     whole : BOOLEAN, content : Contents]

Reset == [conn : Conns \cup Sessions, session : Sessions]

(* Both are UUIDs.                                                         *)
ASSUME IdsAssumption == Conns \cap Sessions = {}
ASSUME NoRequestAssumption == NoRequest \notin Request

Active(r) == request[r] # NoRequest
At(r, stage) == Active(r) /\ request[r].stage = stage

(* The calls a session waits for: those on the connection it now uses.     *)
Awaited(r) == Active(r) /\ request[r].conn = link[request[r].session]
InFlight(s) == {r \in Requests : Awaited(r) /\ request[r].session = s}

SetStage(r, stage) == request' = [request EXCEPT ![r].stage = stage]
Finish(r) == request' = [request EXCEPT ![r] = NoRequest]

Key(r) == <<request[r].conn, request[r].cw, request[r].file>>

(* data[connection] has an entry for the context window.                   *)
HasWindow(k, w) == \E f \in Files : cache[<<k, w, f>>] # NoHash

Init ==
    /\ disk \in [Files -> Contents]
    /\ cache = [e \in Conns \X Windows \X Files |-> NoHash]
    /\ request = [r \in Requests |-> NoRequest]
    /\ resets = {}
    /\ link \in [Sessions -> Conns]
    /\ \A s, t \in Sessions : link[s] = link[t] => s = t
    /\ context = [s \in Sessions |-> {}]

-----------------------------------------------------------------------------
(* The agent calls so_read. The hook has put the session id in; without it *)
(* the connection's id stands for the session.                             *)
CwId(s) == {s} \cup IF "no hook" \in Hiccups THEN {link[s]} ELSE {}

Call(s) ==
    /\ "late reset" \in Hiccups \/ \A m \in resets : m.session # s
    /\ \E r \in Requests, w \in CwId(s), f \in Files, whole \in BOOLEAN :
        /\ ~Active(r)
        /\ request' = [request EXCEPT ![r] =
              [stage |-> "called", conn |-> link[s], session |-> s, cw |-> w, file |-> f,
               whole |-> whole, content |-> disk[f]]]
    /\ UNCHANGED <<disk, cache, resets, link, context>>

(* read_to_string.                                                         *)
ReadFile(r) ==
    /\ At(r, "called")
    /\ request' = [request EXCEPT ![r] =
                        [@ EXCEPT !.stage = "read", !.content = disk[request[r].file]]]
    /\ UNCHANGED <<disk, cache, resets, link, context>>

(* read_to_string fails, and so does the call.                             *)
ReadFails(r) ==
    /\ At(r, "called")
    /\ Finish(r)
    /\ UNCHANGED <<disk, cache, resets, link, context>>

Cached(r) == cache[Key(r)] = HashOf[request[r].content]

(* Mistake: the entry's content_hash is not compared.                      *)
CacheHitAnyHash(r) ==
    /\ At(r, "read")
    /\ request[r].whole /\ cache[Key(r)] # NoHash
    /\ SetStage(r, "notice")
    /\ UNCHANGED <<disk, cache, resets, link, context>>

(* fvc.file(): a whole-file read of a file the cache knows, unchanged.     *)
CacheHit(r) ==
    /\ At(r, "read")
    /\ request[r].whole /\ Cached(r)
    /\ SetStage(r, "notice")
    /\ UNCHANGED <<disk, cache, resets, link, context>>

CacheMiss(r) ==
    /\ At(r, "read")
    /\ request[r].whole /\ ~Cached(r)
    /\ SetStage(r, "missed")
    /\ UNCHANGED <<disk, cache, resets, link, context>>

(* Mistake: an excerpt is recorded as a visit of the whole file.           *)
TakeExcerptAsVisit(r) ==
    /\ At(r, "read")
    /\ ~request[r].whole
    /\ cache' = [cache EXCEPT ![Key(r)] = HashOf[request[r].content]]
    /\ SetStage(r, "excerpt")
    /\ UNCHANGED <<disk, resets, link, context>>

(* An excerpt or an outline neither looks at the cache nor adds to it.     *)
TakeExcerpt(r) ==
    /\ At(r, "read")
    /\ ~request[r].whole
    /\ SetStage(r, "excerpt")
    /\ UNCHANGED <<disk, cache, resets, link, context>>

(* Mistake: the entry holds the text itself.                               *)
AddFileText(r) ==
    /\ At(r, "missed")
    /\ cache' = [cache EXCEPT ![Key(r)] = request[r].content]
    /\ SetStage(r, "full")
    /\ UNCHANGED <<disk, resets, link, context>>

(* fvc.add_file(), before the reply is on its way.                         *)
AddFile(r) ==
    /\ At(r, "missed")
    /\ cache' = [cache EXCEPT ![Key(r)] = HashOf[request[r].content]]
    /\ SetStage(r, "full")
    /\ UNCHANGED <<disk, resets, link, context>>

Answered(r) == Active(r) /\ request[r].stage \in {"full", "notice", "excerpt"}

(* The reply reaches the agent's context.                                  *)
Deliver(r) ==
    /\ Answered(r) /\ Awaited(r)
    /\ context' = IF At(r, "full")
                  THEN [context EXCEPT ![request[r].session] =
                            @ \cup {<<request[r].file, request[r].content>>}]
                  ELSE context
    /\ Finish(r)
    /\ UNCHANGED <<disk, cache, resets, link>>

(* The reply of a closed connection, or one the client does not wait for.  *)
LoseReply(r) ==
    /\ Answered(r)
    /\ "lost reply" \in Hiccups \/ ~Awaited(r)
    /\ Finish(r)
    /\ UNCHANGED <<disk, cache, resets, link, context>>

-----------------------------------------------------------------------------
(* The agent's context is compacted, between its calls: file contents are  *)
(* gone from it. The hook sends compact_reset, with the connection id of   *)
(* its payload or, when there is none, the session id in its place; if it  *)
(* finds no socket or cannot write, the compaction goes on without it.     *)
Compact(s) ==
    /\ InFlight(s) = {}
    /\ context[s] # {}
    /\ context' = [context EXCEPT ![s] = {}]
    /\ \/ \E c \in {link[s], s} : resets' = resets \cup {[conn |-> c, session |-> s]}
       \/ "late reset" \in Hiccups /\ UNCHANGED resets
    /\ UNCHANGED <<disk, cache, request, link>>

(* data without the context windows that sessions have under connections.  *)
Without(conns, s) ==
    [e \in DOMAIN cache |-> IF e[1] \in conns /\ e[2] = s THEN NoHash ELSE cache[e]]

(* delete_context_window(connection, session). When it deletes nothing the *)
(* cache is entered a second time: until then the message waits under the  *)
(* session's id, as one that came without a connection.                    *)
DeleteContextWindow(m) ==
    /\ m.conn \in Conns
    /\ cache' = Without({m.conn}, m.session)
    /\ resets' = (resets \ {m}) \cup
                    IF HasWindow(m.conn, m.session) THEN {}
                    ELSE {[conn |-> m.session, session |-> m.session]}
    /\ UNCHANGED <<disk, request, link, context>>

(* delete_context_window_globally(session); no connection has the id of a  *)
(* session, so that the first try is nothing to a message without one.     *)
DeleteContextWindowGlobally(m) ==
    /\ m.conn \notin Conns
    /\ cache' = Without(Conns, m.session)
    /\ resets' = resets \ {m}
    /\ UNCHANGED <<disk, request, link, context>>

(* Mistake: no second try under the other connections.                     *)
HandleResetOfConn(m) ==
    /\ cache' = Without({m.conn}, m.session)
    /\ resets' = resets \ {m}
    /\ UNCHANGED <<disk, request, link, context>>

HandleReset(m) == DeleteContextWindow(m) \/ DeleteContextWindowGlobally(m)

(* The session's bridge is started again on a new connection. The cache    *)
(* keeps the old one's entries, and its calls run on without a reader.     *)
Reconnect(s) ==
    /\ \E k \in Conns :
        /\ \A t \in Sessions : link[t] # k
        /\ \A e \in DOMAIN cache : e[1] = k => cache[e] = NoHash
        /\ \A m \in resets : m.conn # k
        /\ \A r \in Requests : Active(r) => request[r].conn # k
        /\ link' = [link EXCEPT ![s] = k]
    /\ UNCHANGED <<disk, cache, request, resets, context>>

Edit(f) ==
    /\ \E v \in Contents \ {disk[f]} : disk' = [disk EXCEPT ![f] = v]
    /\ UNCHANGED <<cache, request, resets, link, context>>

Next ==
    \/ \E s \in Sessions : Call(s) \/ Compact(s) \/ Reconnect(s)
    \/ \E r \in Requests :
        \/ ReadFile(r) \/ ReadFails(r) \/ CacheHit(r) \/ CacheMiss(r)
        \/ TakeExcerpt(r) \/ AddFile(r) \/ Deliver(r) \/ LoseReply(r)
    \/ \E m \in resets : HandleReset(m)
    \/ \E f \in Files : Edit(f)

Spec == Init /\ [][Next]_vars

-----------------------------------------------------------------------------
TypeOK ==
    /\ disk \in [Files -> Contents]
    /\ cache \in [Conns \X Windows \X Files -> Hashes \cup {NoHash}]
    /\ request \in [Requests -> Request \cup {NoRequest}]
    /\ resets \subseteq Reset
    /\ link \in [Sessions -> Conns]
    /\ context \in [Sessions -> SUBSET (Files \X Contents)]

(* The agent has the content before it, or an answer on its way brings it. *)
Shown(s, f, v) ==
    \/ <<f, v>> \in context[s]
    \/ \E r \in InFlight(s) : At(r, "full") /\ request[r].file = f /\ request[r].content = v

(* "File unchanged since last read. Reuse existing context instead of      *)
(* re-reading." (read.rs:91) is said only of content the session's context *)
(* has, or is about to have.                                               *)
NoticeIsTrue ==
    \A r \in Requests :
        At(r, "notice") /\ Awaited(r) =>
            Shown(request[r].session, request[r].file, request[r].content)

(* What the cache has for a session's current connection is shown to the   *)
(* session, unless the reset that will forget it is still on its way.      *)
CacheIsShown ==
    \A s \in Sessions, f \in Files, v \in Contents :
        cache[<<link[s], s, f>>] = HashOf[v] =>
            Shown(s, f, v) \/ \E m \in resets : m.session = s

(* The hook clears "file-visit cache entries for the compacted session"    *)
(* (post_compact.rs:7-8): once the daemon handled its reset, no later call *)
(* of the session hits an entry made before it.                            *)
Handled(m) == m \in resets /\ \A n \in resets' : n.session # m.session

ResetForgets ==
    [][\A s \in Sessions, f \in Files :
        (\E m \in resets : Handled(m) /\ m.session = s) => cache'[<<link[s], s, f>>] = NoHash]_vars
=============================================================================
