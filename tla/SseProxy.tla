------------------------------ MODULE SseProxy ------------------------------
(***************************************************************************)
(* The transparent MCP proxy for the SSE transport (sse.go), the client    *)
(* requests that pass through it and the upstream server behind it.        *)
(*                                                                         *)
(* One goroutine per POST (pc), one per SSE stream (stage) and the evictor *)
(* share two structures: the in-flight table reqMap and the session        *)
(* records.  An action is the code between two points where another        *)
(* goroutine can be observed: at most one critical section, one message to *)
(* the outside, or the end of a span that only this goroutine can reach.   *)
(*                                                                         *)
(* Outside src/: the upstream server accepts a POST (Deliver), then emits  *)
(* lines (ReadLine merges the emission of a line with the scanner reading  *)
(* it), and clients connect, post and go away.  A server opens a fresh     *)
(* session for each stream, advertises it once, first, and answers a       *)
(* request on the stream of its session.  Lines on which handleSSEData     *)
(* does nothing, and methods other than GET and POST, are left out.        *)
(***************************************************************************)
EXTENDS RequestMap, Filter

CONSTANTS Streams,     \* GET requests, each one SSE stream
          Clients,     \* names in initialize's clientInfo
          ServerIds,   \* the ids the upstream numbers its own requests with
          Workloads,   \* the request mixes a behaviour may start from
          NoId, NoClient, NoEntry, NoRoute, NoAdvert, NoLine

Unparseable == "unparseable"   \* a body ParseRequest rejects

Request == [session : Sessions \cup {NoSession}, id : Ids \cup {NoId},
            method : Methods \cup {Unparseable}, client : Clients \cup {NoClient}]

ASSUME WorkloadAssumption == Workloads \subseteq [Calls -> Request]
ASSUME NoIdAssumption == NoId \notin Ids
ASSUME ServerIdAssumption == ServerIds \subseteq Ids
ASSUME RouteAssumption == /\ NoRoute \notin Sessions \cup {NoSession}
                          /\ NoAdvert \notin Sessions \cup {NoSession}
ASSUME RecordAssumption ==
    /\ NoEntry \notin [endpoint : Sessions \cup {NoSession}, client : Clients \cup {NoClient}]
    /\ NoLine \notin [kind : {"endpoint", "message"}, id : Ids \cup {NoId}, outcome : {"ok", "error"}]

VARIABLES
    post,      \* the request each call carries; chosen once
    pc,        \* where handlePost stands for a call
    route,     \* the upstream session its POST is sent to
    label,     \* the client name put on its span
    span,      \* its span: none, open, or the status it ended with
    reply,     \* what the upstream did with it: unasked, asked, ok, error
    expired,   \* its entry is older than the span deadline
    reqMap,    \* Proxy.reqMap
    sessions,  \* Proxy.sessions
    stage,     \* where handleSSE stands for a stream
    gone,      \* the request context of the stream is done: its client left
    left,      \* why its scan loop ended: no, client, server
    advert,    \* the session its endpoint event advertised
    sid,       \* the sessionID variable of handleSSE
    line,      \* the line read and not yet handled
    evictor    \* running, or stopped with the process

postVars   == <<post, pc, route, label, reply>>
streamVars == <<stage, gone, left, advert, sid, line>>
vars == <<postVars, span, expired, reqMap, sessions, streamVars, evictor>>

\* How a span ends: mcp.status, told apart by what its error message says.  Of
\* these "failed" is written as mcp.status error, like an error that is answered.
Final == {"ok", "error", "failed", "timeout", "abandonedByClient", "abandonedByUpstream"}
Record == [endpoint : Sessions \cup {NoSession}, client : Clients \cup {NoClient}]
Line == [kind : {"endpoint", "message"}, id : Ids \cup {NoId}, outcome : {"ok", "error"}]

Key(c) == CorrelationKey(post[c].session, post[c].id)

\* handlePost gives the call a span.
Traced(c) == /\ post[c].method # Unparseable
             /\ ShouldTrace(post[c].method)
             /\ post[c].id # NoId

\* The upstream owes the call an answer.
Asks(c) == post[c].id # NoId /\ post[c].method \notin {"", Unparseable}

Announces(c) == /\ post[c].method = "initialize"
                /\ post[c].session # NoSession
                /\ post[c].client # NoClient

\* telemetry.EndSpan on the spans of a set of calls.  The SDK ignores a second
\* End; here it would show, so that a double end is not hidden by the library.
EndSpan(cs, status) == [c \in Calls |-> IF c \in cs THEN status ELSE span[c]]

RecordOf(s) == IF sessions[s] = NoEntry THEN [endpoint |-> NoSession, client |-> NoClient]
                                        ELSE sessions[s]

Init == /\ post \in Workloads
        /\ pc = [c \in Calls |-> "idle"]
        /\ route = [c \in Calls |-> NoRoute]
        /\ label = [c \in Calls |-> NoClient]
        /\ span = [c \in Calls |-> "none"]
        /\ reply = [c \in Calls |-> "unasked"]
        /\ expired = [c \in Calls |-> FALSE]
        /\ reqMap = EmptyMap
        /\ sessions = [s \in Sessions |-> NoEntry]
        /\ stage = [st \in Streams |-> "idle"]
        /\ gone = [st \in Streams |-> FALSE]
        /\ left = [st \in Streams |-> "no"]
        /\ advert = [st \in Streams |-> NoAdvert]
        /\ sid = [st \in Streams |-> NoSession]
        /\ line = [st \in Streams |-> NoLine]
        /\ evictor = "running"

-----------------------------------------------------------------------------
(* handlePost *)

\* A client posts into a session once a stream advertised it.
Reachable(c) == \/ post[c].session = NoSession
                \/ \E st \in Streams : advert[st] = post[c].session

\* The body cannot be read: 400, nothing else happens.
BadBody(c) ==
    /\ pc[c] = "idle" /\ Reachable(c)
    /\ pc' = [pc EXCEPT ![c] = "dropped"]
    /\ UNCHANGED <<post, route, label, reply, span, expired, reqMap, sessions, streamVars, evictor>>

\* Bug: rememberClient called with its arguments swapped.
ArriveSwapped(c) ==
    /\ pc[c] = "idle" /\ Reachable(c)
    /\ pc' = [pc EXCEPT ![c] = IF Traced(c) THEN "start" ELSE "route"]
    /\ sessions' = IF Announces(c)
                   THEN [sessions EXCEPT ![post[c].session] =
                           [endpoint |-> RecordOf(post[c].session).endpoint, client |-> post[c].session]]
                   ELSE sessions
    /\ UNCHANGED <<post, route, label, reply, span, expired, reqMap, streamVars, evictor>>

\* The body is parsed and an initialize is remembered (rememberClient).
Arrive(c) ==
    /\ pc[c] = "idle" /\ Reachable(c)
    /\ pc' = [pc EXCEPT ![c] = IF Traced(c) THEN "start" ELSE "route"]
    /\ sessions' = IF Announces(c)
                   THEN [sessions EXCEPT ![post[c].session] =
                           [endpoint |-> RecordOf(post[c].session).endpoint, client |-> post[c].client]]
                   ELSE sessions
    /\ UNCHANGED <<post, route, label, reply, span, expired, reqMap, streamVars, evictor>>

\* Bug: one client identity for the whole proxy.
ClientOfAny(s) == IF \E x \in Sessions : RecordOf(x).client # NoClient
                  THEN RecordOf(CHOOSE x \in Sessions : RecordOf(x).client # NoClient).client
                  ELSE NoClient

\* The client name clientOf reads for a session.
ClientOf(s) == IF s = NoSession THEN NoClient ELSE RecordOf(s).client

StartSpan(c) ==
    /\ pc[c] = "start"
    /\ label' = [label EXCEPT ![c] = ClientOf(post[c].session)]
    /\ span' = [span EXCEPT ![c] = "open"]
    /\ pc' = [pc EXCEPT ![c] = "store"]
    /\ UNCHANGED <<post, route, reply, expired, reqMap, sessions, streamVars, evictor>>

StorePost(c) ==
    /\ pc[c] = "store"
    /\ reqMap' = Store(reqMap, post[c].session, post[c].id, c)
    /\ pc' = [pc EXCEPT ![c] = "route"]
    /\ UNCHANGED <<post, route, label, reply, span, expired, sessions, streamVars, evictor>>

\* Bug: one endpoint for the whole proxy, a shared field.
EndpointShared(s) == IF \E x \in Sessions : RecordOf(x).endpoint # NoSession
                     THEN CHOOSE x \in Sessions : RecordOf(x).endpoint # NoSession ELSE s

\* The endpoint the session advertised, else the request's own URL, which
\* names its own session.
Endpoint(s) == IF s # NoSession /\ RecordOf(s).endpoint # NoSession
               THEN RecordOf(s).endpoint ELSE s

Route(c) ==
    /\ pc[c] = "route"
    /\ route' = [route EXCEPT ![c] = Endpoint(post[c].session)]
    /\ pc' = [pc EXCEPT ![c] = "send"]
    /\ UNCHANGED <<post, label, reply, span, expired, reqMap, sessions, streamVars, evictor>>

\* The upstream takes the request in, possibly after the proxy gave up on it.
Deliver(c) ==
    /\ pc[c] \in {"send", "failed"}
    /\ Asks(c) /\ reply[c] = "unasked"
    /\ reply' = [reply EXCEPT ![c] = "asked"]
    /\ UNCHANGED <<post, pc, route, label, span, expired, reqMap, sessions, streamVars, evictor>>

PostAccepted(c) ==
    /\ pc[c] = "send"
    /\ Asks(c) => reply[c] # "unasked"
    /\ pc' = [pc EXCEPT ![c] = "accepted"]
    /\ UNCHANGED <<post, route, label, reply, span, expired, reqMap, sessions, streamVars, evictor>>

\* Bug: the entry is taken and its span never ended.
PostFailsSilently(c) ==
    LET ks == IF Traced(c) THEN TakeKeys(post[c].session, post[c].id) ELSE {} IN
    /\ pc[c] = "send"
    /\ pc' = [pc EXCEPT ![c] = "failed"]
    /\ reqMap' = Without(reqMap, ks)
    /\ UNCHANGED <<post, route, label, reply, span, expired, sessions, streamVars, evictor>>

\* No upstream request, no connection, client gone, or HTTP status >= 400.
\* cleanupSpan takes whatever the table holds under the key.
PostFails(c) ==
    LET ks == IF Traced(c) THEN TakeKeys(post[c].session, post[c].id) ELSE {} IN
    /\ pc[c] = "send"
    /\ pc' = [pc EXCEPT ![c] = "failed"]
    /\ reqMap' = Without(reqMap, ks)
    /\ span' = EndSpan(Entries(reqMap, ks), "failed")
    /\ UNCHANGED <<post, route, label, reply, expired, sessions, streamVars, evictor>>

-----------------------------------------------------------------------------
(* handleSSE *)

Connect(st) ==
    /\ stage[st] = "idle"
    /\ stage' = [stage EXCEPT ![st] = "open"]
    /\ UNCHANGED <<postVars, span, expired, reqMap, sessions, gone, left, advert, sid, line, evictor>>

ConnectFails(st) ==
    /\ stage[st] = "idle"
    /\ stage' = [stage EXCEPT ![st] = "done"]
    /\ UNCHANGED <<postVars, span, expired, reqMap, sessions, gone, left, advert, sid, line, evictor>>

\* The next line from upstream: read, and already forwarded to the client.
Reading(st) == stage[st] = "open" /\ line[st] = NoLine

\* A server gives every stream a session, or none of them.
Fresh == IF \E c \in Calls : post[c].session = NoSession
         THEN {NoSession} ELSE Sessions \ {advert[st] : st \in Streams}

ReadEndpoint(st) ==
    /\ Reading(st) /\ advert[st] = NoAdvert
    /\ \E s \in Fresh : advert' = [advert EXCEPT ![st] = s]
    /\ line' = [line EXCEPT ![st] = [kind |-> "endpoint", id |-> NoId, outcome |-> "ok"]]
    /\ UNCHANGED <<postVars, span, expired, reqMap, sessions, stage, gone, left, sid, evictor>>

ReadAnswer(st) ==
    /\ Reading(st)
    /\ \E c \in Calls, o \in {"ok", "error"} :
         /\ reply[c] = "asked" /\ route[c] = advert[st]
         /\ reply' = [reply EXCEPT ![c] = o]
         /\ line' = [line EXCEPT ![st] = [kind |-> "message", id |-> post[c].id, outcome |-> o]]
    /\ UNCHANGED <<post, pc, route, label, span, expired, reqMap, sessions, stage, gone, left,
                   advert, sid, evictor>>

\* A request of the server's own (ping, sampling): it has an id and no error.
ReadServerRequest(st) ==
    /\ Reading(st) /\ advert[st] # NoAdvert
    /\ \E i \in ServerIds :
         line' = [line EXCEPT ![st] = [kind |-> "message", id |-> i, outcome |-> "ok"]]
    /\ UNCHANGED <<postVars, span, expired, reqMap, sessions, stage, gone, left, advert, sid, evictor>>

\* Bug: the session id is not handed back to handleSSE.
HandleEndpointNoSid(st) ==
    /\ line[st] # NoLine /\ line[st].kind = "endpoint"
    /\ line' = [line EXCEPT ![st] = NoLine]
    /\ sessions' = IF advert[st] = NoSession THEN sessions
                   ELSE [sessions EXCEPT ![advert[st]] =
                           [endpoint |-> advert[st], client |-> RecordOf(advert[st]).client]]
    /\ UNCHANGED <<postVars, span, expired, reqMap, stage, gone, left, advert, sid, evictor>>

\* Bug: the record is made afresh, and a client remembered earlier is lost.
HandleEndpointFresh(st) ==
    /\ line[st] # NoLine /\ line[st].kind = "endpoint"
    /\ line' = [line EXCEPT ![st] = NoLine]
    /\ IF advert[st] = NoSession
       THEN UNCHANGED <<sessions, sid>>
       ELSE /\ sessions' = [sessions EXCEPT ![advert[st]] =
                              [endpoint |-> advert[st], client |-> NoClient]]
            /\ sid' = [sid EXCEPT ![st] = advert[st]]
    /\ UNCHANGED <<postVars, span, expired, reqMap, stage, gone, left, advert, evictor>>

\* handleSSEData, case "endpoint".
HandleEndpoint(st) ==
    /\ line[st] # NoLine /\ line[st].kind = "endpoint"
    /\ line' = [line EXCEPT ![st] = NoLine]
    /\ IF advert[st] = NoSession
       THEN UNCHANGED <<sessions, sid>>
       ELSE /\ sessions' = [sessions EXCEPT ![advert[st]] =
                              [endpoint |-> advert[st], client |-> RecordOf(advert[st]).client]]
            /\ sid' = [sid EXCEPT ![st] = advert[st]]
    /\ UNCHANGED <<postVars, span, expired, reqMap, stage, gone, left, advert, evictor>>

\* handleSSEData, case "message": whatever holds the id is ended with the
\* outcome IsError reads; whether the message is an answer is not looked at.
HandleMessage(st) ==
    LET ks == TakeKeys(sid[st], line[st].id) IN
    /\ line[st] # NoLine /\ line[st].kind = "message"
    /\ line' = [line EXCEPT ![st] = NoLine]
    /\ reqMap' = Without(reqMap, ks)
    /\ span' = EndSpan(Entries(reqMap, ks), line[st].outcome)
    /\ UNCHANGED <<postVars, expired, sessions, stage, gone, left, advert, sid, evictor>>

ClientLeaves(st) ==
    /\ stage[st] \in {"open", "forget", "drain"} /\ ~gone[st]
    /\ gone' = [gone EXCEPT ![st] = TRUE]
    /\ UNCHANGED <<postVars, span, expired, reqMap, sessions, stage, left, advert, sid, line, evictor>>

\* Scan returns false: the upstream closed the stream or sent a line over
\* maxSSELine ("server"), or the client's context cut the read.
LeaveLoop(st) ==
    /\ Reading(st)
    /\ \E why \in {"server"} \cup (IF gone[st] THEN {"client"} ELSE {}) :
         left' = [left EXCEPT ![st] = why]
    /\ stage' = [stage EXCEPT ![st] = IF sid[st] = NoSession THEN "done" ELSE "forget"]
    /\ UNCHANGED <<postVars, span, expired, reqMap, sessions, gone, advert, sid, line, evictor>>

\* Bug: the session is deleted only when the upstream closed the stream.
ForgetIfServerLeft(st) ==
    /\ stage[st] = "forget"
    /\ sessions' = IF left[st] = "server" THEN [sessions EXCEPT ![sid[st]] = NoEntry] ELSE sessions
    /\ stage' = [stage EXCEPT ![st] = "drain"]
    /\ UNCHANGED <<postVars, span, expired, reqMap, gone, left, advert, sid, line, evictor>>

\* The deferred function, first critical section: delete the session.
Forget(st) ==
    /\ stage[st] = "forget"
    /\ sessions' = [sessions EXCEPT ![sid[st]] = NoEntry]
    /\ stage' = [stage EXCEPT ![st] = "drain"]
    /\ UNCHANGED <<postVars, span, expired, reqMap, gone, left, advert, sid, line, evictor>>

\* Bug: the request context is not consulted.
DrainBlamesUpstream(st) ==
    LET ks == SessionKeys(sid[st]) IN
    /\ stage[st] = "drain"
    /\ stage' = [stage EXCEPT ![st] = "done"]
    /\ reqMap' = Without(reqMap, ks)
    /\ span' = EndSpan(Entries(reqMap, ks), "abandonedByUpstream")
    /\ UNCHANGED <<postVars, expired, sessions, gone, left, advert, sid, line, evictor>>

\* The deferred function, second part: choose the reason, take the session's
\* calls and abandon them.
Drain(st) ==
    LET ks == SessionKeys(sid[st]) IN
    /\ stage[st] = "drain"
    /\ stage' = [stage EXCEPT ![st] = "done"]
    /\ reqMap' = Without(reqMap, ks)
    /\ span' = EndSpan(Entries(reqMap, ks),
                       IF gone[st] THEN "abandonedByClient" ELSE "abandonedByUpstream")
    /\ UNCHANGED <<postVars, expired, sessions, gone, left, advert, sid, line, evictor>>

-----------------------------------------------------------------------------
(* evictLoop *)

\* Time: the entry of a call passes the deadline.
Expire(c) ==
    /\ \E k \in Keys : reqMap[k] = c
    /\ ~expired[c]
    /\ expired' = [expired EXCEPT ![c] = TRUE]
    /\ UNCHANGED <<postVars, span, reqMap, sessions, streamVars, evictor>>

\* Bug: the evictor lives in an SSE connection.
EvictTickWithStream ==
    LET ks == StaleKeys(reqMap, {c \in Calls : expired[c]}) IN
    /\ evictor = "running"
    /\ \E st \in Streams : stage[st] = "open"
    /\ reqMap' = Without(reqMap, ks)
    /\ span' = EndSpan(Entries(reqMap, ks), "timeout")
    /\ UNCHANGED <<postVars, expired, sessions, streamVars, evictor>>

EvictTick ==
    LET ks == StaleKeys(reqMap, {c \in Calls : expired[c]}) IN
    /\ evictor = "running"
    /\ reqMap' = Without(reqMap, ks)
    /\ span' = EndSpan(Entries(reqMap, ks), "timeout")
    /\ UNCHANGED <<postVars, expired, sessions, streamVars, evictor>>

\* main's cancel() and the evictor taking notice.  A tick the select chooses
\* although the context is done is a tick before this step.
EvictorStops ==
    /\ evictor = "running"
    /\ evictor' = "stopped"
    /\ UNCHANGED <<postVars, span, expired, reqMap, sessions, streamVars>>

-----------------------------------------------------------------------------
PostStep(c) == \/ BadBody(c) \/ Arrive(c) \/ StartSpan(c) \/ StorePost(c) \/ Route(c)
               \/ Deliver(c) \/ PostAccepted(c) \/ PostFails(c) \/ Expire(c)

StreamStep(st) == \/ Connect(st) \/ ConnectFails(st)
                  \/ ReadEndpoint(st) \/ ReadAnswer(st) \/ ReadServerRequest(st)
                  \/ HandleEndpoint(st) \/ HandleMessage(st)
                  \/ ClientLeaves(st) \/ LeaveLoop(st) \/ Forget(st) \/ Drain(st)

EvictorStep == EvictTick \/ EvictorStops

Next == \/ \E c \in Calls : PostStep(c)
        \/ \E st \in Streams : StreamStep(st)
        \/ EvictorStep

Spec == Init /\ [][Next]_vars

\* A runnable goroutine runs, time passes and the ticker ticks.  Nothing is
\* asked of the client or of the upstream: they may stay silent for ever.
CallFairness(c) == WF_vars(StorePost(c)) /\ WF_vars(Expire(c))
EvictorFairness == WF_vars(EvictTick)

Fairness == (\A c \in Calls : CallFairness(c)) /\ EvictorFairness

FairSpec == Spec /\ Fairness
-----------------------------------------------------------------------------
(* Properties *)

TypeOK ==
    /\ post \in Workloads
    /\ pc \in [Calls -> {"idle", "dropped", "start", "store", "route", "send", "accepted", "failed"}]
    /\ route \in [Calls -> Sessions \cup {NoSession, NoRoute}]
    /\ label \in [Calls -> Clients \cup {NoClient}]
    /\ span \in [Calls -> {"none", "open"} \cup Final]
    /\ reply \in [Calls -> {"unasked", "asked", "ok", "error"}]
    /\ expired \in [Calls -> BOOLEAN]
    /\ reqMap \in [Keys -> Calls \cup {NoCall}]
    /\ sessions \in [Sessions -> Record \cup {NoEntry}]
    /\ stage \in [Streams -> {"idle", "open", "forget", "drain", "done"}]
    /\ gone \in [Streams -> BOOLEAN]
    /\ left \in [Streams -> {"no", "client", "server"}]
    /\ advert \in [Streams -> Sessions \cup {NoSession, NoAdvert}]
    /\ sid \in [Streams -> Sessions \cup {NoSession}]
    /\ line \in [Streams -> Line \cup {NoLine}]
    /\ evictor \in {"running", "stopped"}

\* No other message of the run carries the call's key: neither another call
\* (clients of a server without sessions share one id space) nor a request of
\* the server's own.  What the proxy promises, it promises to these.
Unshared(c) == \A d \in Calls \ {c} : \/ post[d].session # post[c].session
                                      \/ post[d].id # post[c].id
Solo(c) == Unshared(c) /\ post[c].id \notin ServerIds

\* Another call with the key of c has been stored.
StoredOver(c) == \E d \in Calls \ {c} :
    /\ Traced(d) /\ post[d].session = post[c].session /\ post[d].id = post[c].id
    /\ pc[d] \in {"route", "send", "accepted", "failed"}

\* The table is what keeps a span from being lost: an open span is in the
\* hands of its POST (between StartSpan and Store) or in the table under its
\* own key, where an answer, the stream's end or the evictor finds it.  Only
\* one thing can push it out, a call stored under the same key: what clients
\* without sessions do to each other, and the comment of correlationKey takes
\* into account.
SpanAccounted ==
    \A c \in Calls : span[c] = "open" =>
        pc[c] = "store" \/ reqMap[Key(c)] = c \/ StoredOver(c)

\* An answer closes its call's span as soon as its line is handled, however
\* early it comes: the upstream may answer before the POST that asked has
\* returned, and the client may post before the endpoint is registered.
AnswerClosesSpan ==
    \A c \in Calls : Solo(c) /\ reply[c] \in {"ok", "error"} /\ span[c] = "open" =>
        \E st \in Streams : /\ advert[st] = post[c].session
                            /\ line[st] # NoLine /\ line[st].id = post[c].id

\* A POST goes to the upstream session it names, whatever other sessions'
\* endpoints are registered, half registered or forgotten (the comment of
\* handlePost: concurrent clients must not cross-route).
RoutesToOwnSession ==
    \A c \in Calls : route[c] \in {NoRoute, post[c].session}

\* A span names no client but one that announced itself in the span's session.
NamesOwnClient ==
    \A c \in Calls : label[c] # NoClient =>
        \E d \in Calls : /\ Announces(d) /\ pc[d] # "idle"
                         /\ post[d].session = post[c].session /\ post[d].client = label[c]

\* While a stream is up, its session's record keeps both things learned of it,
\* in whichever order the endpoint event and the initialize came: neither
\* writer wipes out what the other wrote.
SessionRemembers ==
    \A st \in Streams : stage[st] = "open" /\ sid[st] # NoSession =>
        /\ RecordOf(sid[st]).endpoint = sid[st]
        /\ RecordOf(sid[st]).client = NoClient =>
             \A c \in Calls : Announces(c) /\ post[c].session = sid[st] =>
                 pc[c] \in {"idle", "dropped"}

\* Once a stream has ended its endpoint is forgotten for good.  An initialize
\* that comes late may bring the session's record back (rememberClient makes
\* what it does not find, and nothing deletes that again), but never the
\* endpoint: from then on no POST is routed where the ended stream said.
EndpointForgotten ==
    \A st \in Streams : stage[st] \in {"drain", "done"} /\ sid[st] # NoSession =>
        RecordOf(sid[st]).endpoint = NoSession

\* The reason on an abandoned span accuses the upstream only of streams that
\* the client did not break (the comment of handleSSE: whose fault it is
\* decides where you look next).
BlameTrue ==
    \A c \in Calls, st \in Streams :
        span[c] = "abandonedByUpstream" /\ post[c].session = sid[st] => left[st] # "client"

\* Facts about a call that the status of its span may rest on.
Over(c) == \E st \in Streams : /\ sid[st] # NoSession /\ sid[st] = post[c].session
                               /\ stage[st] \in {"forget", "drain", "done"}
Deserted(c) == \E st \in Streams : /\ sid[st] # NoSession /\ sid[st] = post[c].session
                                   /\ gone[st]

Fate(c) == {f \in {"ok", "error", "failed", "cut", "cutByClient", "late"} :
              \/ f \in {"ok", "error"} /\ reply[c] = f
              \/ f = "failed" /\ pc[c] = "failed"
              \/ f = "cut" /\ Over(c)
              \/ f = "cutByClient" /\ Deserted(c)
              \/ f = "late" /\ expired[c]}

\* The ledger the proxy keeps: the span of every solo call, and its facts.
Ledger == INSTANCE SpanLedger
    WITH span <- [c \in Calls |-> IF Solo(c) THEN span[c] ELSE "none"],
         fate <- [c \in Calls |-> IF Solo(c) THEN Fate(c) ELSE {}]

\* Every span is opened once, ended once, and ended as the call really fared,
\* in whatever order its answer, its POST's outcome, the end of its stream and
\* its deadline come: ok or error only if the upstream answered so, failed only
\* if its own POST failed.
LedgerSpec == Ledger!Spec

\* No span stays open for ever, though the client and the upstream may fall
\* silent at any point, and the stream may end before the call is stored (the
\* comment of evictLoop).  Excepted are shutdown, for a stopped evictor ends
\* nothing, and the one way out of the table that SpanAccounted leaves.
SpanEventuallyEnds ==
    \A c \in Calls : span[c] = "open" ~>
        span[c] \in Final \/ StoredOver(c) \/ evictor = "stopped"

\* Nothing stays in the in-flight table for ever, not even under a key two
\* calls share.
TableDrains ==
    \A k \in Keys : (reqMap[k] # NoCall) ~> (reqMap[k] = NoCall \/ evictor = "stopped")

\* sse.go:147: "intercepts JSON-RPC responses to close in-flight spans", and
\* README.md:290 gives ok as "The server answered normally"; so a span that
\* ended ok was answered, also when the server sends requests of its own.
OkMeansAnswered ==
    \A c \in Calls : span[c] = "ok" /\ Unshared(c) => reply[c] = "ok"
=============================================================================
