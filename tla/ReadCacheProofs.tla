--------------------------- MODULE ReadCacheProofs --------------------------
(***************************************************************************)
(* While replies arrive, resets come before the calls that follow their    *)
(* compaction, and calls carry a session id, no notice is false: for any   *)
(* number of sessions, connections, files and calls in flight.             *)
(***************************************************************************)
EXTENDS ReadCache, TLAPS

(* A session whose reset is on its way waits for no call.                  *)
ResetsGoFirst == \A m \in resets : InFlight(m.session) = {}

(* What a reset will clear by the connection it names is all there is for  *)
(* its session: it names the current one, or that one's window is empty.   *)
ResetsReach ==
    \A m \in resets :
        m.conn \in Conns =>
            \/ m.conn = link[m.session]
            \/ \A f \in Files : cache[<<link[m.session], m.session, f>>] = NoHash

(* Each call is filed under its session.                                   *)
CallsAreHooked == \A r \in Requests : Active(r) => request[r].cw = request[r].session

ReadInv ==
    /\ TypeOK /\ NoticeIsTrue /\ CacheIsShown
    /\ ResetsGoFirst /\ ResetsReach /\ CallsAreHooked

-----------------------------------------------------------------------------
LEMMA ReadTypeStep == TypeOK /\ [Next]_vars => TypeOK'
<1> SUFFICES ASSUME TypeOK, [Next]_vars PROVE TypeOK'
  OBVIOUS
<1> USE HashAssumption, NoRequestAssumption DEF TypeOK
<1>1. ASSUME NEW s \in Sessions, Call(s) PROVE TypeOK'
  <2>1. PICK r \in Requests, w \in CwId(s), f \in Files, whole \in BOOLEAN :
          request' = [request EXCEPT ![r] =
              [stage |-> "called", conn |-> link[s], session |-> s, cw |-> w, file |-> f,
               whole |-> whole, content |-> disk[f]]]
    BY <1>1 DEF Call
  <2>2. w \in Windows
    <3>1. link[s] \in Conns
      OBVIOUS
    <3> QED
      BY <3>1 DEF CwId, Windows
  <2>3. [stage |-> "called", conn |-> link[s], session |-> s, cw |-> w, file |-> f,
         whole |-> whole, content |-> disk[f]] \in Request
    BY <2>2 DEF Request, Stages
  <2> QED
    BY <1>1, <2>1, <2>3 DEF Call
<1>2. ASSUME NEW s \in Sessions, Compact(s) \/ Reconnect(s) PROVE TypeOK'
  <2>1. CASE Compact(s)
    <3>1. \A c \in {link[s], s} : [conn |-> c, session |-> s] \in Reset
      BY DEF Reset
    <3>2. resets' \subseteq Reset
      BY <2>1, <3>1 DEF Compact
    <3> QED
      BY <2>1, <3>2 DEF Compact
  <2>2. CASE Reconnect(s)
    BY <2>2 DEF Reconnect
  <2> QED
    BY <1>2, <2>1, <2>2
<1>3. ASSUME NEW r \in Requests, ReadFile(r) PROVE TypeOK'
  <2>1. request[r] \in Request
    BY <1>3 DEF ReadFile, At, Active
  <2>2. [request[r] EXCEPT !.stage = "read", !.content = disk[request[r].file]] \in Request
    BY <2>1 DEF Request, Stages
  <2> QED
    BY <1>3, <2>2 DEF ReadFile
<1>4. ASSUME NEW r \in Requests,
             ReadFails(r) \/ LoseReply(r) PROVE TypeOK'
  BY <1>4 DEF ReadFails, LoseReply, Finish
<1>5. ASSUME NEW r \in Requests, CacheHit(r) \/ CacheMiss(r) \/ TakeExcerpt(r) PROVE TypeOK'
  BY <1>5 DEF CacheHit, CacheMiss, TakeExcerpt, SetStage, At, Active, Request, Stages
<1>6. ASSUME NEW r \in Requests, AddFile(r) PROVE TypeOK'
  BY <1>6 DEF AddFile, SetStage, At, Active, Request, Stages, Key
<1>7. ASSUME NEW r \in Requests, Deliver(r) PROVE TypeOK'
  BY <1>7 DEF Deliver, Finish, Answered, At, Active, Request
<1>8. ASSUME NEW m \in resets, HandleReset(m) PROVE TypeOK'
  <2>1. cache' \in [Conns \X Windows \X Files -> Hashes \cup {NoHash}]
    BY <1>8 DEF HandleReset, DeleteContextWindow, DeleteContextWindowGlobally, Without, TypeOK
  <2>2. m.session \in Sessions
    BY DEF TypeOK, Reset
  <2>3. [conn |-> m.session, session |-> m.session] \in Reset
    BY <2>2 DEF Reset
  <2>4. resets' \subseteq Reset
    BY <1>8, <2>3 DEF HandleReset, DeleteContextWindow, DeleteContextWindowGlobally, TypeOK
  <2> QED
    BY <1>8, <2>1, <2>4
    DEF HandleReset, DeleteContextWindow, DeleteContextWindowGlobally, TypeOK
<1>9. ASSUME NEW f \in Files, Edit(f) PROVE TypeOK'
  BY <1>9 DEF Edit
<1>10. CASE UNCHANGED vars
  BY <1>10 DEF vars
<1> QED
  BY <1>1, <1>2, <1>3, <1>4, <1>5, <1>6, <1>7, <1>8, <1>9, <1>10 DEF Next

-----------------------------------------------------------------------------
(* An answered or running call of another session, or one that stays as it *)
(* is, keeps a content shown.                                              *)
LEMMA ShownKept ==
  ASSUME NEW s \in Sessions, NEW f \in Files, NEW v \in Contents, Shown(s, f, v),
         context[s] \subseteq context'[s],
         link'[s] = link[s],
         \A r \in Requests : At(r, "full") /\ Awaited(r) /\ request[r].session = s =>
             \/ request'[r] = request[r]
             \/ <<request[r].file, request[r].content>> \in context'[s]
  PROVE Shown(s, f, v)'
<1>1. CASE <<f, v>> \in context[s]
  BY <1>1 DEF Shown
<1>2. ASSUME NEW r \in InFlight(s), At(r, "full"), request[r].file = f, request[r].content = v
      PROVE Shown(s, f, v)'
  <2>1. r \in Requests /\ Awaited(r) /\ request[r].session = s
    BY <1>2 DEF InFlight
  <2>2. CASE request'[r] = request[r]
    <3>1. r \in InFlight(s)' /\ At(r, "full")'
      BY <1>2, <2>1, <2>2 DEF InFlight, Awaited, Active, At
    <3> QED
      BY <1>2, <2>2, <3>1 DEF Shown
  <2>3. CASE <<request[r].file, request[r].content>> \in context'[s]
    BY <1>2, <2>3 DEF Shown
  <2> QED
    BY <1>2, <2>1, <2>2, <2>3
<1> QED
  BY <1>1, <1>2 DEF Shown

-----------------------------------------------------------------------------
(* A step of a running call ends it or keeps whose it is; the other calls, *)
(* the resets, the links and the sessions' contexts stay.                  *)
CallStep(r) ==
    \/ ReadFile(r) \/ ReadFails(r) \/ CacheHit(r) \/ CacheMiss(r)
    \/ TakeExcerpt(r) \/ AddFile(r) \/ Deliver(r) \/ LoseReply(r)

SameCall(q, r) ==
    /\ q.conn = r.conn /\ q.session = r.session /\ q.cw = r.cw /\ q.file = r.file
    /\ q.stage \in {"full", "notice"} => q.content = r.content

LEMMA CallSteps ==
  ASSUME TypeOK, NEW r \in Requests, CallStep(r)
  PROVE  /\ \A q \in Requests \ {r} : request'[q] = request[q]
         /\ Active(r) /\ request[r] \in Request
         /\ Active(r)' => request'[r] \in Request /\ SameCall(request'[r], request[r])
         /\ UNCHANGED <<resets, link>>
<1> USE DEF TypeOK
<1>1. Active(r) /\ request[r] \in Request
  BY DEF CallStep, ReadFile, ReadFails, CacheHit, CacheMiss, TakeExcerpt, AddFile, Deliver,
         LoseReply, Answered, At, Active
<1>2. CASE ReadFails(r) \/ Deliver(r) \/ LoseReply(r)
  BY <1>1, <1>2 DEF ReadFails, Deliver, LoseReply, Finish, Active
<1>3. CASE ReadFile(r)
  <2>1. [request[r] EXCEPT !.stage = "read", !.content = disk[request[r].file]] \in Request
    BY <1>1 DEF Request, Stages
  <2>2. request' = [request EXCEPT ![r] =
                [request[r] EXCEPT !.stage = "read", !.content = disk[request[r].file]]]
    BY <1>3 DEF ReadFile
  <2>3. request'[r] = [request[r] EXCEPT !.stage = "read", !.content = disk[request[r].file]]
    BY <2>2
  <2>4. SameCall(request'[r], request[r])
    BY <1>1, <2>3 DEF SameCall, Request
  <2>5. \A q \in Requests \ {r} : request'[q] = request[q]
    BY <2>2
  <2> QED
    BY <1>1, <1>3, <2>1, <2>3, <2>4, <2>5 DEF ReadFile
<1>4. CASE CacheHit(r) \/ CacheMiss(r) \/ TakeExcerpt(r) \/ AddFile(r)
  <2>1. PICK stage \in Stages : SetStage(r, stage)
    BY <1>4 DEF CacheHit, CacheMiss, TakeExcerpt, AddFile, Stages
  <2>2. [request[r] EXCEPT !.stage = stage] \in Request
    BY <1>1 DEF Request
  <2>3. request'[r] = [request[r] EXCEPT !.stage = stage]
    BY <2>1 DEF SetStage
  <2>4. SameCall(request'[r], request[r])
    BY <1>1, <2>3 DEF SameCall, Request
  <2>5. \A q \in Requests \ {r} : request'[q] = request[q]
    BY <2>1 DEF SetStage
  <2> QED
    BY <1>1, <1>4, <2>2, <2>3, <2>4, <2>5 DEF CacheHit, CacheMiss, TakeExcerpt, AddFile
<1> QED
  BY <1>2, <1>3, <1>4 DEF CallStep

(* So no session comes to wait for a call it did not wait for.             *)
LEMMA CallStepWaits ==
  ASSUME TypeOK, NEW r \in Requests, CallStep(r), NEW s \in Sessions
  PROVE  InFlight(s)' \subseteq InFlight(s)
<1> SUFFICES ASSUME NEW q \in Requests, Awaited(q)', request'[q].session = s
             PROVE  Awaited(q) /\ request[q].session = s
  BY DEF InFlight
<1>1. CASE q # r
  BY <1>1, CallSteps DEF Awaited, Active
<1>2. CASE q = r
  BY <1>2, CallSteps DEF Awaited, Active, SameCall
<1> QED
  BY <1>1, <1>2

(* Where every answer arrives, what a session is shown it stays shown.     *)
LEMMA CallStepShows ==
  ASSUME TypeOK, Hiccups = {}, NEW r \in Requests, CallStep(r),
         NEW s \in Sessions, NEW f \in Files, NEW v \in Contents, Shown(s, f, v)
  PROVE  Shown(s, f, v)'
<1> USE DEF TypeOK
<1>1. \A q \in Requests \ {r} : request'[q] = request[q]
  BY CallSteps
<1>2. link'[s] = link[s]
  BY CallSteps
<1>3. context[s] \subseteq context'[s]
  BY DEF CallStep, ReadFile, ReadFails, CacheHit, CacheMiss, TakeExcerpt, AddFile, Deliver,
         LoseReply
<1>4. ASSUME At(r, "full"), Awaited(r), request[r].session = s
      PROVE  <<request[r].file, request[r].content>> \in context'[s]
  <2>1. Deliver(r)
    BY <1>4 DEF CallStep, ReadFile, ReadFails, CacheHit, CacheMiss, TakeExcerpt, AddFile,
                LoseReply, At
  <2> QED
    BY <1>4, <2>1 DEF Deliver
<1> QED
  BY <1>1, <1>2, <1>3, <1>4, ShownKept

-----------------------------------------------------------------------------
(* The part of ReadInv beyond the types, one lemma per kind of step.       *)
Told == NoticeIsTrue /\ CacheIsShown /\ ResetsGoFirst /\ ResetsReach /\ CallsAreHooked

(* An awaited call's entry is what its session's later reads look at.      *)
LEMMA AddFileHere ==
  ASSUME TypeOK, NEW r \in Requests, AddFile(r), NEW s \in Sessions, NEW f \in Files,
         CallsAreHooked, cache'[<<link[s], s, f>>] # cache[<<link[s], s, f>>]
  PROVE  /\ r \in InFlight(s) /\ request[r].file = f
         /\ cache'[<<link[s], s, f>>] = HashOf[request[r].content]
<1>1. request[r] \in Request /\ Active(r)
  BY DEF AddFile, At, Active, TypeOK
<1>2. <<link[s], s, f>> \in DOMAIN cache
  BY DEF TypeOK, Windows
<1>3. <<link[s], s, f>> = Key(r) /\ cache'[<<link[s], s, f>>] = HashOf[request[r].content]
  BY <1>2 DEF AddFile, TypeOK
<1>4. request[r].conn = link[s] /\ request[r].session = s /\ request[r].file = f
  BY <1>1, <1>3 DEF Key, CallsAreHooked
<1> QED
  BY <1>1, <1>3, <1>4 DEF InFlight, Awaited

LEMMA CallStepCache ==
  ASSUME TypeOK, NEW r \in Requests, CallStep(r), ~AddFile(r)
  PROVE  cache' = cache
BY DEF CallStep, ReadFile, ReadFails, CacheHit, CacheMiss, TakeExcerpt, Deliver, LoseReply

(* A hit is of what the cache has for the session, and that is shown: the  *)
(* reset that would excuse it waits for no call.                           *)
LEMMA HitIsShown ==
  ASSUME TypeOK, Told, NEW r \in Requests, CacheHit(r), Awaited(r),
         NEW s \in Sessions, NEW f \in Files, NEW v \in Contents,
         request[r].session = s, request[r].file = f, request[r].content = v
  PROVE  Shown(s, f, v)
<1>1. Active(r) /\ r \in InFlight(s)
  BY DEF CacheHit, At, InFlight
<1>2. cache[<<link[s], s, f>>] = HashOf[v]
  BY <1>1 DEF CacheHit, Cached, Key, Awaited, Told, CallsAreHooked
<1>3. ~ \E m \in resets : m.session = s
  BY <1>1 DEF Told, ResetsGoFirst
<1> QED
  BY <1>2, <1>3 DEF Told, CacheIsShown

LEMMA NoticeByCalls ==
  ASSUME TypeOK, TypeOK', Hiccups = {}, Told, NEW r \in Requests, CallStep(r)
  PROVE  NoticeIsTrue'
<1> SUFFICES ASSUME NEW q \in Requests, At(q, "notice")', Awaited(q)',
                    NEW s \in Sessions, NEW f \in Files, NEW v \in Contents,
                    request'[q].session = s, request'[q].file = f, request'[q].content = v
             PROVE  Shown(s, f, v)'
  BY DEF NoticeIsTrue, At, Active, TypeOK, Request
<1>1. Awaited(q) /\ SameCall(request'[q], request[q])
  BY CallSteps DEF Awaited, Active, SameCall
<1>2. request[q].session = s /\ request[q].file = f /\ request[q].content = v
  BY <1>1 DEF SameCall, At
<1>3. At(q, "notice") \/ (q = r /\ CacheHit(r))
  <2>1. CASE q # r
    BY <2>1, CallSteps DEF At, Active
  <2>2. CASE q = r
    <3> USE <2>2 DEF TypeOK
    <3>1. CASE ReadFile(r)
      <4>1. request'[r] = [request[r] EXCEPT !.stage = "read", !.content = disk[request[r].file]]
        BY <3>1 DEF ReadFile
      <4>2. request'[r].stage = "read"
        BY <4>1, CallSteps DEF Request
      <4> QED
        BY <4>2 DEF At
    <3>2. CASE ReadFails(r) \/ Deliver(r) \/ LoseReply(r)
      BY <3>2 DEF ReadFails, Deliver, LoseReply, Finish, At, Active
    <3>3. ASSUME NEW stage \in Stages \ {"notice"}, SetStage(r, stage) PROVE FALSE
      <4>1. request'[r] = [request[r] EXCEPT !.stage = stage] /\ request[r] \in Request
        BY <3>3, CallSteps DEF SetStage
      <4>2. request'[r].stage = stage
        BY <4>1 DEF Request
      <4> QED
        BY <4>2 DEF At
    <3>4. CASE CacheMiss(r) \/ TakeExcerpt(r) \/ AddFile(r)
      BY <3>3, <3>4 DEF CacheMiss, TakeExcerpt, AddFile, Stages
    <3> QED
      BY <3>1, <3>2, <3>4 DEF CallStep
  <2> QED
    BY <2>1, <2>2
<1>4. Shown(s, f, v)
  BY <1>1, <1>2, <1>3, HitIsShown DEF Told, NoticeIsTrue
<1> QED
  BY <1>4, CallStepShows

LEMMA CacheByCalls ==
  ASSUME TypeOK, TypeOK', Hiccups = {}, Told, NEW r \in Requests, CallStep(r)
  PROVE  CacheIsShown'
<1> SUFFICES ASSUME NEW s \in Sessions, NEW f \in Files, NEW v \in Contents,
                    cache'[<<link'[s], s, f>>] = HashOf[v], \A m \in resets : m.session # s
             PROVE  Shown(s, f, v)'
  BY CallSteps DEF CacheIsShown
<1>1. link'[s] = link[s]
  BY CallSteps
<1>2. CASE cache[<<link[s], s, f>>] = HashOf[v]
  BY <1>2, CallStepShows DEF Told, CacheIsShown
<1>3. CASE cache[<<link[s], s, f>>] # HashOf[v]
  <2>1. AddFile(r)
    BY <1>1, <1>3, CallStepCache
  <2>2. r \in InFlight(s) /\ request[r].file = f /\ HashOf[v] = HashOf[request[r].content]
    BY <1>1, <1>3, <2>1, AddFileHere DEF Told
  <2>3. request[r].content = v
    BY <2>2, HashAssumption, CallSteps DEF Request
  <2>4. request'[r] = [request[r] EXCEPT !.stage = "full"] /\ request[r] \in Request
    BY <2>1, CallSteps DEF AddFile, SetStage, TypeOK
  <2>5. At(r, "full")' /\ request'[r].conn = request[r].conn /\ request'[r].session = s
          /\ request'[r].file = f /\ request'[r].content = v
    BY <2>2, <2>3, <2>4, NoRequestAssumption DEF At, Active, Request, InFlight, TypeOK, Stages
  <2>6. r \in InFlight(s)'
    BY <1>1, <2>2, <2>5 DEF InFlight, Awaited, At
  <2> QED
    BY <2>5, <2>6 DEF Shown
<1> QED
  BY <1>2, <1>3

LEMMA ResetsByCalls ==
  ASSUME TypeOK, TypeOK', Told, NEW r \in Requests, CallStep(r)
  PROVE  ResetsGoFirst' /\ ResetsReach' /\ CallsAreHooked'
<1> USE DEF Told
<1>1. ASSUME NEW m \in resets PROVE m.session \in Sessions /\ InFlight(m.session) = {}
  BY DEF TypeOK, Reset, ResetsGoFirst
<1>2. ResetsGoFirst'
  <2> SUFFICES ASSUME NEW m \in resets PROVE InFlight(m.session)' = {}
    BY CallSteps DEF ResetsGoFirst
  <2> QED
    BY <1>1, CallStepWaits
<1>3. ResetsReach'
  <2> SUFFICES ASSUME NEW m \in resets, m.conn \in Conns, m.conn # link[m.session],
                      NEW f \in Files
               PROVE  cache'[<<link[m.session], m.session, f>>] = NoHash
    BY CallSteps DEF ResetsReach
  <2>1. cache[<<link[m.session], m.session, f>>] = NoHash
    BY DEF ResetsReach
  <2>2. CASE AddFile(r)
    BY <1>1, <2>1, <2>2, AddFileHere
  <2>3. CASE ~AddFile(r)
    BY <2>1, <2>3, CallStepCache
  <2> QED
    BY <2>2, <2>3
<1>4. CallsAreHooked'
  BY CallSteps DEF CallsAreHooked, SameCall, Active
<1> QED
  BY <1>2, <1>3, <1>4

-----------------------------------------------------------------------------
(* The steps of sessions, of the daemon's reset and of editors: the calls  *)
(* in flight stay, and a session is shown what it was.                     *)
LEMMA OtherShows ==
  ASSUME NEW s \in Sessions, NEW f \in Files, NEW v \in Contents, Shown(s, f, v),
         UNCHANGED <<request, link, context>>
  PROVE  Shown(s, f, v)'
BY DEF Shown, InFlight, Awaited, Active, At

LEMMA ToldByEdit ==
  ASSUME Told, UNCHANGED <<cache, request, resets, link, context>>
  PROVE  Told'
BY DEF Told, NoticeIsTrue, CacheIsShown, ResetsGoFirst, ResetsReach, CallsAreHooked, Shown,
       InFlight, Awaited, Active, At

LEMMA ToldByReset ==
  ASSUME TypeOK, Told, NEW m \in resets, HandleReset(m)
  PROVE  /\ Told'
         /\ \/ \E n \in resets' : n.session = m.session
            \/ \A f \in Files : cache'[<<link[m.session], m.session, f>>] = NoHash
<1> USE DEF Told
<1> DEFINE again == [conn |-> m.session, session |-> m.session]
<1>1. m.session \in Sessions /\ m.session \notin Conns /\ link[m.session] \in Conns
  BY IdsAssumption DEF TypeOK, Reset
<1>2. \A s \in Sessions, f \in Files : <<link[s], s, f>> \in DOMAIN cache
  BY DEF TypeOK, Windows
<1>3. /\ UNCHANGED <<request, link, context>>
      /\ \A n \in resets' : n \in resets \/ n = again
      /\ \A n \in resets : n # m => n \in resets'
  BY DEF HandleReset, DeleteContextWindow, DeleteContextWindowGlobally
<1>4. \A s \in Sessions, f \in Files :
        cache'[<<link[s], s, f>>] \in {cache[<<link[s], s, f>>], NoHash}
  BY <1>2 DEF HandleReset, DeleteContextWindow, DeleteContextWindowGlobally, Without
<1>5. \/ again \in resets'
      \/ \A f \in Files : cache'[<<link[m.session], m.session, f>>] = NoHash
  <2>1. CASE DeleteContextWindow(m) /\ ~HasWindow(m.conn, m.session)
    BY <2>1 DEF DeleteContextWindow
  <2>2. CASE DeleteContextWindow(m) /\ m.conn = link[m.session]
    BY <1>1, <1>2, <2>2 DEF DeleteContextWindow, Without
  <2>3. CASE DeleteContextWindow(m) /\ m.conn # link[m.session]
    <3>1. \A f \in Files : cache[<<link[m.session], m.session, f>>] = NoHash
      BY <2>3 DEF ResetsReach, DeleteContextWindow
    <3> QED
      BY <1>1, <1>4, <3>1
  <2>4. CASE DeleteContextWindowGlobally(m)
    BY <1>1, <1>2, <2>4 DEF DeleteContextWindowGlobally, Without
  <2> QED
    BY <2>1, <2>2, <2>3, <2>4 DEF HandleReset
<1>6. again.session = m.session /\ again.conn \notin Conns
  BY <1>1
<1> HIDE DEF again
<1>7. NoticeIsTrue'
  BY <1>3 DEF NoticeIsTrue, Shown, InFlight, Awaited, Active, At
<1>8. CacheIsShown'
  <2> SUFFICES ASSUME NEW s \in Sessions, NEW f \in Files, NEW v \in Contents,
                      cache'[<<link[s], s, f>>] = HashOf[v]
               PROVE  Shown(s, f, v)' \/ \E n \in resets' : n.session = s
    BY <1>3 DEF CacheIsShown
  <2>1. cache[<<link[s], s, f>>] = HashOf[v]
    BY <1>4, HashAssumption
  <2>2. CASE s = m.session
    <3>1. again \in resets'
      BY <1>5, <2>2, HashAssumption
    <3> QED
      BY <1>6, <2>2, <3>1
  <2>3. CASE s # m.session /\ Shown(s, f, v)
    BY <1>3, <2>3, OtherShows
  <2>4. CASE s # m.session /\ \E n \in resets : n.session = s
    BY <1>3, <2>4
  <2> QED
    BY <2>1, <2>2, <2>3, <2>4 DEF CacheIsShown
<1>9. ResetsGoFirst' /\ CallsAreHooked'
  BY <1>3, <1>6 DEF ResetsGoFirst, CallsAreHooked, InFlight, Awaited, Active
<1>10. ResetsReach'
  <2> SUFFICES ASSUME NEW n \in resets', n.conn \in Conns, n.conn # link[n.session],
                      NEW f \in Files
               PROVE  cache'[<<link[n.session], n.session, f>>] = NoHash
    BY <1>3 DEF ResetsReach
  <2>1. n \in resets
    BY <1>3, <1>6
  <2>2. n.session \in Sessions
    BY <2>1 DEF TypeOK, Reset
  <2>3. cache[<<link[n.session], n.session, f>>] = NoHash
    BY <2>1 DEF ResetsReach
  <2> QED
    BY <1>4, <2>2, <2>3
<1> QED
  BY <1>5, <1>6, <1>7, <1>8, <1>9, <1>10

LEMMA ToldByCompact ==
  ASSUME TypeOK, Hiccups = {}, Told, NEW s \in Sessions, Compact(s)
  PROVE  Told'
<1> USE DEF Told
<1>1. PICK c \in {link[s], s} : resets' = resets \cup {[conn |-> c, session |-> s]}
  BY DEF Compact
<1>2. UNCHANGED <<cache, request, link>> /\ InFlight(s) = {}
  BY DEF Compact
<1>3. \A t \in Sessions : InFlight(t)' = InFlight(t)
  BY <1>2 DEF InFlight, Awaited, Active
<1>4. ASSUME NEW t \in Sessions \ {s}, NEW f \in Files, NEW v \in Contents, Shown(t, f, v)
      PROVE  Shown(t, f, v)'
  BY <1>2, <1>3, <1>4 DEF Compact, Shown, At, Active, TypeOK
<1>5. NoticeIsTrue'
  <2> SUFFICES ASSUME NEW q \in Requests, At(q, "notice"), Awaited(q),
                      NEW t \in Sessions, NEW f \in Files, NEW v \in Contents,
                      request[q].session = t, request[q].file = f, request[q].content = v
               PROVE  Shown(t, f, v)'
    BY <1>2 DEF NoticeIsTrue, At, Active, Awaited, TypeOK, Request
  <2>1. Shown(t, f, v) /\ t # s
    BY <1>2 DEF NoticeIsTrue, InFlight
  <2> QED
    BY <1>4, <2>1
<1>6. CacheIsShown'
  <2> SUFFICES ASSUME NEW t \in Sessions, NEW f \in Files, NEW v \in Contents,
                      cache[<<link[t], t, f>>] = HashOf[v], t # s, \A m \in resets : m.session # t
               PROVE  Shown(t, f, v)'
    <3>1. [conn |-> c, session |-> s] \in resets' /\ resets \subseteq resets'
      BY <1>1
    <3>2. \E m \in resets' : m.session = s
      BY <3>1
    <3> QED
      BY <1>2, <3>1, <3>2 DEF CacheIsShown
  <2>1. Shown(t, f, v)
    BY DEF CacheIsShown
  <2> QED
    BY <1>4, <2>1
<1>7. ResetsGoFirst' /\ CallsAreHooked'
  BY <1>1, <1>2 DEF ResetsGoFirst, CallsAreHooked, InFlight, Awaited, Active
<1>8. ResetsReach'
  BY <1>1, <1>2, IdsAssumption DEF ResetsReach
<1> QED
  BY <1>5, <1>6, <1>7, <1>8

(* The connection is new to the cache, to the resets and to the calls.     *)
LEMMA ToldByReconnect ==
  ASSUME TypeOK, Told, NEW s \in Sessions, Reconnect(s)
  PROVE  Told'
<1> USE DEF Told
<1>1. PICK k \in Conns :
        /\ \A f \in Files : cache[<<k, s, f>>] = NoHash
        /\ \A r \in Requests : Active(r) => request[r].conn # k
        /\ link' = [link EXCEPT ![s] = k]
  <2>1. \A k \in Conns, f \in Files : <<k, s, f>> \in DOMAIN cache /\ <<k, s, f>>[1] = k
    BY DEF TypeOK, Windows
  <2> QED
    BY <2>1 DEF Reconnect
<1>2. link'[s] = k /\ \A t \in Sessions \ {s} : link'[t] = link[t]
  BY <1>1 DEF TypeOK
<1>3. UNCHANGED <<cache, request, resets, context>>
  BY DEF Reconnect
<1>4. InFlight(s)' = {}
  BY <1>1, <1>2, <1>3 DEF InFlight, Awaited, Active
<1>5. \A t \in Sessions \ {s} : InFlight(t)' = InFlight(t)
  BY <1>2, <1>3 DEF InFlight, Awaited, Active
<1>6. ASSUME NEW t \in Sessions \ {s}, NEW f \in Files, NEW v \in Contents, Shown(t, f, v)
      PROVE  Shown(t, f, v)'
  BY <1>3, <1>5, <1>6 DEF Shown, At, Active
<1>7. \A f \in Files : cache'[<<link'[s], s, f>>] = NoHash
  BY <1>1, <1>2, <1>3
<1>8. NoticeIsTrue'
  <2> SUFFICES ASSUME NEW q \in Requests, At(q, "notice"), Awaited(q)',
                      NEW t \in Sessions, NEW f \in Files, NEW v \in Contents,
                      request[q].session = t, request[q].file = f, request[q].content = v
               PROVE  Shown(t, f, v)'
    BY <1>3 DEF NoticeIsTrue, At, Active, Awaited, TypeOK, Request
  <2>1. t # s
    BY <1>3, <1>4 DEF InFlight
  <2>2. Awaited(q)
    BY <1>2, <1>3, <2>1 DEF Awaited, Active
  <2>3. Shown(t, f, v)
    BY <2>2 DEF NoticeIsTrue
  <2> QED
    BY <1>6, <2>1, <2>3
<1>9. CacheIsShown'
  <2> SUFFICES ASSUME NEW t \in Sessions, NEW f \in Files, NEW v \in Contents,
                      cache'[<<link'[t], t, f>>] = HashOf[v], \A m \in resets : m.session # t
               PROVE  Shown(t, f, v)'
    BY <1>3 DEF CacheIsShown
  <2>1. t # s
    BY <1>7, HashAssumption
  <2>2. Shown(t, f, v)
    BY <1>2, <1>3, <2>1 DEF CacheIsShown
  <2> QED
    BY <1>6, <2>1, <2>2
<1>10. ResetsGoFirst'
  BY <1>3, <1>4, <1>5 DEF ResetsGoFirst, TypeOK, Reset
<1>11. ResetsReach'
  <2> SUFFICES ASSUME NEW n \in resets, n.conn \in Conns, n.conn # link'[n.session],
                      NEW f \in Files
               PROVE  cache'[<<link'[n.session], n.session, f>>] = NoHash
    BY <1>3 DEF ResetsReach
  <2>1. n.session \in Sessions
    BY DEF TypeOK, Reset
  <2> QED
    BY <1>2, <1>3, <1>7, <2>1 DEF ResetsReach
<1>12. CallsAreHooked'
  BY <1>3 DEF CallsAreHooked, Active
<1> QED
  BY <1>8, <1>9, <1>10, <1>11, <1>12

(* A session calls only when no reset of its is on the way, and by name.   *)
LEMMA ToldByNewCall ==
  ASSUME TypeOK, Hiccups = {}, Told, NEW s \in Sessions, Call(s)
  PROVE  Told'
<1> USE DEF Told
<1>1. PICK r \in Requests, w \in CwId(s), f \in Files, whole \in BOOLEAN :
        /\ ~Active(r)
        /\ request' = [request EXCEPT ![r] =
              [stage |-> "called", conn |-> link[s], session |-> s, cw |-> w, file |-> f,
               whole |-> whole, content |-> disk[f]]]
  BY DEF Call
<1>2. UNCHANGED <<cache, resets, link, context>> /\ \A m \in resets : m.session # s
  BY DEF Call
<1>3. \A q \in Requests \ {r} : request'[q] = request[q]
  BY <1>1 DEF TypeOK
<1>4. request'[r].stage = "called" /\ request'[r].session = s /\ request'[r].cw = w
  BY <1>1 DEF TypeOK
<1>5. w = s
  BY DEF CwId
<1>6. ASSUME NEW t \in Sessions, NEW g \in Files, NEW v \in Contents, Shown(t, g, v)
      PROVE  Shown(t, g, v)'
  <2>1. ~At(r, "full")
    BY <1>1 DEF At
  <2> QED
    BY <1>2, <1>3, <1>6, <2>1, ShownKept
<1>7. NoticeIsTrue'
  <2> SUFFICES ASSUME NEW q \in Requests, At(q, "notice")', Awaited(q)',
                      NEW t \in Sessions, NEW g \in Files, NEW v \in Contents,
                      request'[q].session = t, request'[q].file = g, request'[q].content = v
               PROVE  Shown(t, g, v)'
    <3> SUFFICES ASSUME NEW q \in Requests, At(q, "notice")', Awaited(q)'
                 PROVE  Shown(request[q].session, request[q].file, request[q].content)'
      BY DEF NoticeIsTrue
    <3>1. q # r
      BY <1>4 DEF At
    <3>2. request'[q] = request[q] /\ request[q] \in Request
      BY <1>3, <3>1 DEF At, Active, TypeOK
    <3> QED
      BY <3>2 DEF Request
  <2>1. q # r
    BY <1>4 DEF At
  <2>2. At(q, "notice") /\ Awaited(q) /\ request'[q] = request[q]
    BY <1>2, <1>3, <2>1 DEF At, Awaited, Active
  <2> QED
    BY <1>6, <2>2 DEF NoticeIsTrue
<1>8. CacheIsShown'
  BY <1>2, <1>6 DEF CacheIsShown
<1>9. ResetsGoFirst'
  <2> SUFFICES ASSUME NEW m \in resets, NEW q \in Requests, Awaited(q)',
                      request'[q].session = m.session
               PROVE  FALSE
    BY <1>2 DEF ResetsGoFirst, InFlight
  <2>1. q # r
    BY <1>2, <1>4
  <2>2. Awaited(q) /\ request[q].session = m.session
    BY <1>2, <1>3, <2>1 DEF Awaited, Active
  <2> QED
    BY <2>2 DEF ResetsGoFirst, InFlight
<1>10. ResetsReach'
  BY <1>2 DEF ResetsReach
<1>11. CallsAreHooked'
  BY <1>3, <1>4, <1>5 DEF CallsAreHooked, Active
<1> QED
  BY <1>7, <1>8, <1>9, <1>10, <1>11

-----------------------------------------------------------------------------
LEMMA ReadInvInit == Init => ReadInv
<1> SUFFICES ASSUME Init PROVE ReadInv
  OBVIOUS
<1>1. \A s \in Sessions, f \in Files : cache[<<link[s], s, f>>] = NoHash
  BY DEF Init, Windows
<1>2. TypeOK
  BY DEF Init, TypeOK
<1>3. \A r \in Requests : ~Active(r)
  BY DEF Init, Active
<1>4. NoticeIsTrue /\ CallsAreHooked
  BY <1>3 DEF NoticeIsTrue, CallsAreHooked, At
<1>5. CacheIsShown
  BY <1>1, HashAssumption DEF CacheIsShown
<1>6. ResetsGoFirst /\ ResetsReach
  BY DEF Init, ResetsGoFirst, ResetsReach
<1> QED
  BY <1>2, <1>4, <1>5, <1>6 DEF ReadInv

LEMMA ReadInvStep == Hiccups = {} /\ ReadInv /\ [Next]_vars => ReadInv'
<1> SUFFICES ASSUME Hiccups = {}, ReadInv, [Next]_vars PROVE ReadInv'
  OBVIOUS
<1>1. TypeOK /\ Told /\ TypeOK'
  BY ReadTypeStep DEF ReadInv, Told
<1>2. ASSUME NEW s \in Sessions, Call(s) \/ Compact(s) \/ Reconnect(s) PROVE Told'
  BY <1>1, <1>2, ToldByNewCall, ToldByCompact, ToldByReconnect
<1>3. ASSUME NEW r \in Requests, CallStep(r) PROVE Told'
  BY <1>1, <1>3, NoticeByCalls, CacheByCalls, ResetsByCalls DEF Told
<1>4. ASSUME NEW m \in resets, HandleReset(m) PROVE Told'
  BY <1>1, <1>4, ToldByReset
<1>5. ASSUME NEW f \in Files, Edit(f) PROVE Told'
  BY <1>1, <1>5, ToldByEdit DEF Edit
<1>6. ASSUME UNCHANGED vars PROVE Told'
  BY <1>1, <1>6, ToldByEdit DEF vars
<1> QED
  BY <1>1, <1>2, <1>3, <1>4, <1>5, <1>6 DEF Next, CallStep, ReadInv, Told

LEMMA ReadInvAlways == ASSUME Hiccups = {} PROVE Spec => []ReadInv
<1>1. ReadInv /\ [Next]_vars => ReadInv'
  BY ReadInvStep
<1> QED
  BY <1>1, ReadInvInit, PTL DEF Spec

(* Requests, messages and cache keep their types, whatever goes wrong.     *)
THEOREM ReadTypes == Spec => []TypeOK
<1>1. Init => TypeOK
  BY ReadInvInit DEF ReadInv
<1> QED
  BY <1>1, ReadTypeStep, PTL DEF Spec

(* "Reuse existing context instead of re-reading" is said only of content  *)
(* the session's context has, or an answer on its way brings.              *)
THEOREM NoticesAreTrue == ASSUME Hiccups = {} PROVE Spec => []NoticeIsTrue
<1>1. ReadInv => NoticeIsTrue
  BY DEF ReadInv
<1> QED
  BY <1>1, ReadInvAlways, PTL

(* What the cache has for a session, the session was shown.                *)
THEOREM CacheKnowsContext == ASSUME Hiccups = {} PROVE Spec => []CacheIsShown
<1>1. ReadInv => CacheIsShown
  BY DEF ReadInv
<1> QED
  BY <1>1, ReadInvAlways, PTL

(* A handled reset leaves nothing for the session's later reads to hit,    *)
(* whichever connection it named.                                          *)
THEOREM ResetsForget == ASSUME Hiccups = {} PROVE Spec => ResetForgets
<1>1. ASSUME ReadInv, [Next]_vars,
             NEW s \in Sessions, NEW f \in Files, NEW m \in resets, Handled(m), m.session = s
      PROVE  cache'[<<link[s], s, f>>] = NoHash
  <2>1. PICK n \in resets : HandleReset(n)
    BY <1>1, CallSteps DEF Handled, Next, CallStep, Call, Compact, Reconnect, Edit, vars, ReadInv
  <2>2. n = m
    BY <1>1, <2>1 DEF HandleReset, DeleteContextWindow, DeleteContextWindowGlobally, Handled
  <2> QED
    BY <1>1, <2>1, <2>2, ToldByReset DEF ReadInv, Told, Handled
<1>2. ReadInv /\ [Next]_vars =>
        [\A s \in Sessions, f \in Files :
            (\E m \in resets : Handled(m) /\ m.session = s)
                => cache'[<<link[s], s, f>>] = NoHash]_vars
  BY <1>1
<1> QED
  BY <1>2, ReadInvAlways, PTL DEF Spec, ResetForgets
=============================================================================
