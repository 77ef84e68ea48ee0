--------------------------- MODULE SseProxyProofs ---------------------------
(***************************************************************************)
(* What is proved of SseProxy for every set of calls, streams, sessions,   *)
(* ids and clients, every workload and both filter flags.                  *)
(*                                                                         *)
(* IInv strengthens the safety properties of SseProxy into an inductive    *)
(* invariant.  Its heart is MapSound: what the table holds is an open span *)
(* under its own key, so that whoever takes an entry ends the right span.  *)
(***************************************************************************)
EXTENDS SseProxy, TLAPS

\* The table holds a call only under its own key, once it was stored and as
\* long as its span is open.
MapSound == \A k \in Keys, c \in Calls : reqMap[k] = c =>
               /\ Traced(c) /\ Key(c) = k
               /\ span[c] = "open"
               /\ pc[c] \in {"route", "send", "accepted", "failed"}

\* A POST has no span before StartSpan, and an open one until it is stored.
SpanStaged == \A c \in Calls :
               /\ pc[c] \in {"idle", "dropped", "start"} => span[c] = "none"
               /\ pc[c] \in {"start", "store"} => Traced(c)
               /\ pc[c] = "store" => span[c] = "open"
               /\ span[c] # "none" => Traced(c)

\* The upstream knows only requests that were sent, each to its own session.
Sent == \A c \in Calls :
               /\ route[c] \in {NoRoute, post[c].session}
               /\ pc[c] \in {"send", "accepted", "failed"} => route[c] = post[c].session
               /\ reply[c] # "unasked" => Asks(c) /\ pc[c] \in {"send", "accepted", "failed"}

\* A session's record holds no endpoint but its own.
OwnEndpoint == \A s \in Sessions : RecordOf(s).endpoint \in {NoSession, s}

\* handleSSE's session id is the advertised one, from the line after the
\* endpoint event on.
StreamSound == \A st \in Streams :
               /\ line[st] # NoLine => stage[st] = "open"
               /\ advert[st] = NoAdvert => line[st] = NoLine /\ sid[st] = NoSession
               /\ line[st] # NoLine /\ line[st].kind = "endpoint" =>
                    line[st].id = NoId /\ sid[st] = NoSession
               /\ \/ advert[st] = NoAdvert \/ sid[st] = advert[st]
                  \/ line[st] # NoLine /\ line[st].kind = "endpoint"
               /\ stage[st] \in {"forget", "drain"} => sid[st] # NoSession

\* A message with a solo call's key is the answer to that call.
AnswerSound == \A st \in Streams, c \in Calls :
               /\ Solo(c) /\ line[st] # NoLine /\ line[st].kind = "message"
               /\ line[st].id = post[c].id /\ advert[st] = post[c].session
               => reply[c] = line[st].outcome

IInv == /\ TypeOK /\ MapSound /\ SpanStaged /\ Sent /\ OwnEndpoint
        /\ StreamSound /\ AnswerSound /\ SpanAccounted /\ AnswerClosesSpan

-----------------------------------------------------------------------------
(* The operators *)

\* A request with a span has a key the table can hold, and Take looks there.
LEMMA TracedKey ==
    ASSUME TypeOK, NEW c \in Calls, Traced(c)
    PROVE  /\ Key(c) \in Keys
           /\ TakeKeys(post[c].session, post[c].id) = {Key(c)}
<1>1. post[c] \in Request
  BY WorkloadAssumption DEF TypeOK
<1>2. post[c].session \in Sessions \cup {NoSession} /\ post[c].id \in Ids
  BY <1>1 DEF Request, Traced
<1>3. QED
  BY <1>2 DEF Key, CorrelationKey, Keys, TakeKeys

\* What the in-flight table's removals return is a set of calls.
LEMMA EntriesOfCalls ==
    ASSUME NEW m \in [Keys -> Calls \cup {NoCall}], NEW ks \in SUBSET Keys
    PROVE  /\ Entries(m, ks) \subseteq Calls
           /\ Without(m, ks) \in [Keys -> Calls \cup {NoCall}]
           /\ \A k \in Keys : Without(m, ks)[k] = IF k \in ks THEN NoCall ELSE m[k]
BY DEF Entries, Without

\* A session's record, present or not, is well formed.
LEMMA RecordTyped ==
    ASSUME TypeOK, NEW s \in Sessions
    PROVE  /\ RecordOf(s) \in Record
           /\ RecordOf(s).endpoint \in Sessions \cup {NoSession}
           /\ RecordOf(s).client \in Clients \cup {NoClient}
<1>1. RecordOf(s) \in Record
  BY DEF TypeOK, RecordOf, Record
<1>2. QED
  BY <1>1 DEF Record

-----------------------------------------------------------------------------
(* Type correctness *)

LEMMA TypeInit == Init => TypeOK
BY DEF Init, TypeOK, EmptyMap, Keys, Record, Line

LEMMA TypeStep ==
    ASSUME TypeOK, StreamSound, [Next]_vars
    PROVE  TypeOK'
<1>1. CASE UNCHANGED vars
  BY <1>1 DEF TypeOK, vars, postVars, streamVars
<1>2. ASSUME NEW c \in Calls, BadBody(c) PROVE TypeOK'
  BY <1>2 DEF TypeOK, BadBody, streamVars
<1>3. ASSUME NEW c \in Calls, Arrive(c) PROVE TypeOK'
  <2>1. post[c] \in Request
    BY WorkloadAssumption DEF TypeOK
  <2>2. Announces(c) => /\ post[c].session \in Sessions
                        /\ [endpoint |-> RecordOf(post[c].session).endpoint,
                          client |-> post[c].client] \in Record
    <3>1. Announces(c) => post[c].session \in Sessions
      BY <2>1 DEF Announces, Request
    <3>2. post[c].client \in Clients \cup {NoClient}
      BY <2>1 DEF Request
    <3>3. QED
      BY <3>1, <3>2, RecordTyped DEF Record
  <2>3. sessions' \in [Sessions -> Record \cup {NoEntry}]
    BY <1>3, <2>2 DEF TypeOK, Arrive
  <2>4. QED
    BY <1>3, <2>3 DEF TypeOK, Arrive, streamVars
<1>4. ASSUME NEW c \in Calls, StartSpan(c) PROVE TypeOK'
  <2>1. post[c].session \in Sessions \cup {NoSession}
    BY WorkloadAssumption DEF TypeOK, Request
  <2>2. ClientOf(post[c].session) \in Clients \cup {NoClient}
    BY <2>1, RecordTyped DEF ClientOf
  <2>3. QED
    BY <1>4, <2>2 DEF TypeOK, StartSpan, streamVars
<1>5. ASSUME NEW c \in Calls, StorePost(c) PROVE TypeOK'
  BY <1>5 DEF TypeOK, StorePost, Store, streamVars
<1>6. ASSUME NEW c \in Calls, Route(c) PROVE TypeOK'
  <2>1. post[c].session \in Sessions \cup {NoSession}
    BY WorkloadAssumption DEF TypeOK, Request
  <2>2. Endpoint(post[c].session) \in Sessions \cup {NoSession}
    BY <2>1, RecordTyped DEF Endpoint
  <2>3. QED
    BY <1>6, <2>2 DEF TypeOK, Route, streamVars
<1>7. ASSUME NEW c \in Calls, Deliver(c) \/ PostAccepted(c) PROVE TypeOK'
  BY <1>7 DEF TypeOK, Deliver, PostAccepted, streamVars
<1>8. ASSUME NEW c \in Calls, PostFails(c) PROVE TypeOK'
  <2> DEFINE ks == IF Traced(c) THEN TakeKeys(post[c].session, post[c].id) ELSE {}
  <2>1. ks \in SUBSET Keys
    BY DEF TakeKeys
  <2>2. Without(reqMap, ks) \in [Keys -> Calls \cup {NoCall}]
    BY <2>1, EntriesOfCalls DEF TypeOK
  <2>3. EndSpan(Entries(reqMap, ks), "failed") \in [Calls -> {"none", "open"} \cup Final]
    BY DEF TypeOK, EndSpan, Final
  <2>4. QED
    BY <1>8, <2>2, <2>3 DEF TypeOK, PostFails, streamVars
<1>9. ASSUME NEW st \in Streams,
             Connect(st) \/ ConnectFails(st) \/ ClientLeaves(st) \/ LeaveLoop(st) \/ Forget(st)
      PROVE TypeOK'
  <2>1. CASE Connect(st) \/ ConnectFails(st) \/ ClientLeaves(st)
    BY <2>1 DEF TypeOK, Connect, ConnectFails, ClientLeaves, postVars
  <2>2. CASE LeaveLoop(st)
    BY <2>2 DEF TypeOK, LeaveLoop, Reading, postVars
  <2>3. CASE Forget(st)
    BY <2>3 DEF TypeOK, Forget, postVars
  <2>4. QED
    BY <1>9, <2>1, <2>2, <2>3
<1>10. ASSUME NEW st \in Streams, ReadEndpoint(st) PROVE TypeOK'
  <2>1. Fresh \subseteq Sessions \cup {NoSession}
    BY DEF Fresh
  <2>2. [kind |-> "endpoint", id |-> NoId, outcome |-> "ok"] \in Line
    BY DEF Line
  <2>3. QED
    BY <1>10, <2>1, <2>2 DEF TypeOK, ReadEndpoint, postVars
<1>11. ASSUME NEW st \in Streams, ReadAnswer(st) PROVE TypeOK'
  <2>1. PICK c \in Calls, o \in {"ok", "error"} :
           /\ reply' = [reply EXCEPT ![c] = o]
           /\ line' = [line EXCEPT ![st] = [kind |-> "message", id |-> post[c].id, outcome |-> o]]
    BY <1>11 DEF ReadAnswer
  <2>2. post[c].id \in Ids \cup {NoId}
    BY WorkloadAssumption DEF TypeOK, Request
  <2>3. [kind |-> "message", id |-> post[c].id, outcome |-> o] \in Line
    BY <2>2 DEF Line
  <2>4. QED
    BY <1>11, <2>1, <2>3 DEF TypeOK, ReadAnswer
<1>12. ASSUME NEW st \in Streams, ReadServerRequest(st) PROVE TypeOK'
  <2>1. \A i \in ServerIds : [kind |-> "message", id |-> i, outcome |-> "ok"] \in Line
    BY ServerIdAssumption DEF Line
  <2>2. QED
    BY <1>12, <2>1 DEF TypeOK, ReadServerRequest, postVars
<1>13. ASSUME NEW st \in Streams, HandleEndpoint(st) PROVE TypeOK'
  <2>1. CASE advert[st] = NoSession
    BY <1>13, <2>1 DEF TypeOK, HandleEndpoint, postVars
  <2>2. CASE advert[st] # NoSession
    <3>1. advert[st] \in Sessions
      BY <1>13, <2>2 DEF TypeOK, StreamSound, HandleEndpoint
    <3>2. [endpoint |-> advert[st], client |-> RecordOf(advert[st]).client] \in Record
      BY <3>1, RecordTyped DEF Record
    <3>3. QED
      BY <1>13, <2>2, <3>1, <3>2 DEF TypeOK, HandleEndpoint, postVars
  <2>3. QED
    BY <2>1, <2>2
<1>14. ASSUME NEW st \in Streams, HandleMessage(st) PROVE TypeOK'
  <2> DEFINE ks == TakeKeys(sid[st], line[st].id)
  <2>1. line[st] \in Line
    BY <1>14 DEF TypeOK, HandleMessage
  <2>2. line[st].outcome \in Final
    BY <2>1 DEF Line, Final
  <2>3. Without(reqMap, ks) \in [Keys -> Calls \cup {NoCall}]
    <3>1. ks \in SUBSET Keys
      BY DEF TakeKeys
    <3>2. QED
      BY <3>1, EntriesOfCalls DEF TypeOK
  <2>4. EndSpan(Entries(reqMap, ks), line[st].outcome) \in [Calls -> {"none", "open"} \cup Final]
    BY <2>2 DEF TypeOK, EndSpan
  <2>5. QED
    BY <1>14, <2>3, <2>4 DEF TypeOK, HandleMessage, postVars
<1>15. ASSUME NEW st \in Streams, Drain(st) PROVE TypeOK'
  <2> DEFINE ks == SessionKeys(sid[st])
  <2>1. Without(reqMap, ks) \in [Keys -> Calls \cup {NoCall}]
    <3>1. ks \in SUBSET Keys
      BY DEF SessionKeys
    <3>2. QED
      BY <3>1, EntriesOfCalls DEF TypeOK
  <2>2. \A s \in Final : EndSpan(Entries(reqMap, ks), s) \in [Calls -> {"none", "open"} \cup Final]
    BY DEF TypeOK, EndSpan
  <2>3. QED
    BY <1>15, <2>1, <2>2 DEF TypeOK, Drain, postVars, Final
<1>16. ASSUME NEW c \in Calls, Expire(c) PROVE TypeOK'
  BY <1>16 DEF TypeOK, Expire, postVars, streamVars
<1>17. ASSUME EvictTick PROVE TypeOK'
  <2> DEFINE ks == StaleKeys(reqMap, {c \in Calls : expired[c]})
  <2>1. Without(reqMap, ks) \in [Keys -> Calls \cup {NoCall}]
    <3>1. ks \in SUBSET Keys
      BY DEF StaleKeys
    <3>2. QED
      BY <3>1, EntriesOfCalls DEF TypeOK
  <2>2. EndSpan(Entries(reqMap, ks), "timeout") \in [Calls -> {"none", "open"} \cup Final]
    BY DEF TypeOK, EndSpan, Final
  <2>3. QED
    BY <1>17, <2>1, <2>2 DEF TypeOK, EvictTick, postVars, streamVars
<1>18. ASSUME EvictorStops PROVE TypeOK'
  BY <1>18 DEF TypeOK, EvictorStops, postVars, streamVars
<1>19. QED
  BY <1>1, <1>2, <1>3, <1>4, <1>5, <1>6, <1>7, <1>8, <1>9, <1>10, <1>11, <1>12, <1>13, <1>14,
     <1>15, <1>16, <1>17, <1>18
     DEF Next, PostStep, StreamStep, EvictorStep

-----------------------------------------------------------------------------
(* The table and the spans *)

\* The workload is fixed, and with it everything that is said of requests.
LEMMA SameRequests ==
    ASSUME UNCHANGED post
    PROVE  \A c \in Calls : /\ Traced(c)' <=> Traced(c)
                            /\ Asks(c)' <=> Asks(c)
                            /\ Announces(c)' <=> Announces(c)
                            /\ Solo(c)' <=> Solo(c)
                            /\ Key(c)' = Key(c)
BY DEF Traced, Asks, Announces, Solo, Unshared, Key

\* Nothing pushes a solo call's entry out.
LEMMA SoloAccounted ==
    ASSUME SpanAccounted, NEW c \in Calls, Solo(c), span[c] = "open", pc[c] # "store"
    PROVE  reqMap[Key(c)] = c
BY DEF SpanAccounted, StoredOver, Solo, Unshared

\* A call once stored over stays so: no POST goes back.
LEMMA StaysOver ==
    ASSUME UNCHANGED post,
           \A d \in Calls : pc[d] \in {"route", "send", "accepted", "failed"} =>
                             pc'[d] \in {"route", "send", "accepted", "failed"}
    PROVE  \A c \in Calls : StoredOver(c) => StoredOver(c)'
BY SameRequests DEF StoredOver

LEMMA PostFixed == ASSUME [Next]_vars PROVE UNCHANGED post
BY DEF Next, vars, postVars, PostStep, StreamStep, EvictorStep, BadBody, Arrive, StartSpan,
       StorePost, Route, Deliver, PostAccepted, PostFails, Expire, Connect, ConnectFails,
       ReadEndpoint, ReadAnswer, ReadServerRequest, HandleEndpoint, HandleMessage,
       ClientLeaves, LeaveLoop, Forget, Drain, EvictTick, EvictorStops

\* Taking entries out and ending just their spans keeps the table sound and
\* every other span accounted for.
LEMMA Removal ==
    ASSUME TypeOK, MapSound, SpanStaged, SpanAccounted, TypeOK',
           UNCHANGED post,
           \E ks \in SUBSET Keys, s \in Final :
               reqMap' = Without(reqMap, ks) /\ span' = EndSpan(Entries(reqMap, ks), s),
           \A c \in Calls : pc'[c] = pc[c] \/ (pc[c] = "send" /\ pc'[c] = "failed")
    PROVE  MapSound' /\ SpanStaged' /\ SpanAccounted'
<1>0. PICK ks \in SUBSET Keys, s \in Final :
          reqMap' = Without(reqMap, ks) /\ span' = EndSpan(Entries(reqMap, ks), s)
  OBVIOUS
<1>1. \A k \in Keys : reqMap'[k] = IF k \in ks THEN NoCall ELSE reqMap[k]
  BY <1>0, EntriesOfCalls DEF TypeOK
<1>2. \A c \in Calls : span'[c] = IF c \in Entries(reqMap, ks) THEN s ELSE span[c]
  BY <1>0 DEF EndSpan
<1>3. \A c \in Calls : c \in Entries(reqMap, ks) =>
          /\ span[c] = "open" /\ Traced(c) /\ Key(c) \in ks /\ reqMap[Key(c)] = c
          /\ pc[c] \in {"route", "send", "accepted", "failed"}
  BY DEF MapSound, Entries
<1>4. s # "open" /\ s # "none"
  BY DEF Final
<1>5. MapSound'
  <2> SUFFICES ASSUME NEW k \in Keys, NEW c \in Calls, reqMap'[k] = c
               PROVE  /\ Traced(c)' /\ Key(c)' = k
                      /\ span'[c] = "open"
                      /\ pc'[c] \in {"route", "send", "accepted", "failed"}
    BY DEF MapSound
  <2>1. k \notin ks /\ reqMap[k] = c
    BY <1>1, NoneAssumption
  <2>2. Traced(c) /\ Key(c) = k /\ span[c] = "open" /\ pc[c] \in {"route", "send", "accepted", "failed"}
    BY <2>1 DEF MapSound
  <2>3. c \notin Entries(reqMap, ks)
    BY <1>3, <2>1, <2>2
  <2>4. span'[c] = "open" /\ pc'[c] \in {"route", "send", "accepted", "failed"}
    BY <1>2, <2>2, <2>3
  <2>5. QED
    BY <2>2, <2>4, SameRequests
<1>6. SpanStaged'
  <2> SUFFICES ASSUME NEW c \in Calls
               PROVE  /\ pc'[c] \in {"idle", "dropped", "start"} => span'[c] = "none"
                      /\ pc'[c] \in {"start", "store"} => Traced(c)'
                      /\ pc'[c] = "store" => span'[c] = "open"
                      /\ span'[c] # "none" => Traced(c)'
    BY DEF SpanStaged
  <2>1. Traced(c)' <=> Traced(c)
    BY SameRequests
  <2>2. CASE c \in Entries(reqMap, ks)
    BY <1>2, <1>3, <2>1, <2>2
  <2>3. CASE c \notin Entries(reqMap, ks)
    BY <1>2, <2>1, <2>3 DEF SpanStaged
  <2>4. QED
    BY <2>2, <2>3
<1>7. SpanAccounted'
  <2> SUFFICES ASSUME NEW c \in Calls, span'[c] = "open"
               PROVE  pc'[c] = "store" \/ reqMap'[Key(c)'] = c \/ StoredOver(c)'
    BY DEF SpanAccounted
  <2>1. c \notin Entries(reqMap, ks) /\ span[c] = "open"
    BY <1>2, <1>4
  <2>2. Key(c)' = Key(c) /\ (StoredOver(c) => StoredOver(c)')
    BY SameRequests, StaysOver
  <2>3. CASE pc[c] = "store" \/ StoredOver(c)
    BY <2>2, <2>3
  <2>4. CASE pc[c] # "store" /\ ~StoredOver(c)
    <3>1. reqMap[Key(c)] = c
      BY <2>1, <2>4 DEF SpanAccounted
    <3>2. Traced(c)
      BY <2>1 DEF SpanStaged
    <3>3. Key(c) \in Keys
      BY <3>2, TracedKey
    <3>4. Key(c) \notin ks
      BY <2>1, <3>1, NoneAssumption DEF Entries
    <3>5. QED
      BY <1>1, <2>2, <3>1, <3>3, <3>4
  <2>5. QED
    BY <2>3, <2>4
<1>8. QED
  BY <1>5, <1>6, <1>7

LEMMA TableStep ==
    ASSUME IInv, [Next]_vars, TypeOK'
    PROVE  MapSound' /\ SpanStaged' /\ SpanAccounted'
<1> USE DEF IInv
<1>0. UNCHANGED post
  BY PostFixed
<1>1. ASSUME UNCHANGED <<post, pc, span, reqMap>>
      PROVE  MapSound' /\ SpanStaged' /\ SpanAccounted'
  BY <1>1, SameRequests, StaysOver DEF MapSound, SpanStaged, SpanAccounted, TypeOK, Traced, Key
<1>2. ASSUME NEW c \in Calls, BadBody(c) \/ Arrive(c) \/ Route(c) \/ PostAccepted(c)
      PROVE  MapSound' /\ SpanStaged' /\ SpanAccounted'
  <2>1. UNCHANGED <<span, reqMap>>
    BY <1>2 DEF BadBody, Arrive, Route, PostAccepted
  <2>2. /\ pc[c] \in {"idle", "route", "send"}
        /\ \A d \in Calls : d # c => pc'[d] = pc[d]
        /\ \/ pc[c] = "idle" /\ pc'[c] \in {"dropped", "start", "route"}
           \/ pc[c] = "route" /\ pc'[c] = "send"
           \/ pc[c] = "send" /\ pc'[c] = "accepted"
        /\ pc'[c] = "start" => Traced(c)
    BY <1>2 DEF BadBody, Arrive, Route, PostAccepted, TypeOK
  <2>3. MapSound'
    BY <1>0, <2>1, <2>2, SameRequests DEF MapSound, SpanStaged, TypeOK, Traced, Key
  <2>4. SpanStaged'
    BY <1>0, <2>1, <2>2, SameRequests DEF SpanStaged
  <2>5. SpanAccounted'
    BY <1>0, <2>1, <2>2, SameRequests, StaysOver DEF SpanAccounted
  <2>6. QED
    BY <2>3, <2>4, <2>5
<1>3. ASSUME NEW c \in Calls, StartSpan(c)
      PROVE  MapSound' /\ SpanStaged' /\ SpanAccounted'
  <2>1. /\ pc[c] = "start" /\ span[c] = "none" /\ Traced(c)
        /\ pc' = [pc EXCEPT ![c] = "store"] /\ span' = [span EXCEPT ![c] = "open"]
        /\ reqMap' = reqMap
    BY <1>3 DEF StartSpan, SpanStaged
  <2>2. MapSound'
    BY <1>0, <2>1, SameRequests DEF MapSound, TypeOK, Traced, Key
  <2>3. SpanStaged'
    BY <1>0, <2>1, SameRequests DEF SpanStaged, TypeOK
  <2>4. SpanAccounted'
    BY <1>0, <2>1, SameRequests, StaysOver DEF SpanAccounted, TypeOK
  <2>5. QED
    BY <2>2, <2>3, <2>4
<1>4. ASSUME NEW c \in Calls, StorePost(c)
      PROVE  MapSound' /\ SpanStaged' /\ SpanAccounted'
  <2>1. /\ pc[c] = "store" /\ span[c] = "open" /\ Traced(c)
        /\ pc' = [pc EXCEPT ![c] = "route"] /\ span' = span
        /\ reqMap' = [reqMap EXCEPT ![Key(c)] = c]
    BY <1>4 DEF StorePost, SpanStaged, Store, Key
  <2>2. Key(c) \in Keys
    BY <2>1, TracedKey
  <2>3. MapSound'
    <3> SUFFICES ASSUME NEW k \in Keys, NEW d \in Calls, reqMap'[k] = d
                 PROVE  /\ Traced(d)' /\ Key(d)' = k
                        /\ span'[d] = "open"
                        /\ pc'[d] \in {"route", "send", "accepted", "failed"}
      BY DEF MapSound
    <3>1. CASE k = Key(c)
      <4>1. d = c
        BY <2>1, <2>2, <3>1 DEF TypeOK
      <4>2. QED
        BY <1>0, <2>1, <3>1, <4>1, SameRequests DEF TypeOK
    <3>2. CASE k # Key(c)
      <4>1. reqMap[k] = d
        BY <2>1, <3>2 DEF TypeOK
      <4>2. d # c
        BY <2>1, <4>1 DEF MapSound
      <4>3. QED
        BY <1>0, <2>1, <4>1, <4>2, SameRequests DEF MapSound, TypeOK
    <3>3. QED
      BY <3>1, <3>2
  <2>4. SpanStaged'
    BY <1>0, <2>1, SameRequests DEF SpanStaged, TypeOK
  <2>5. SpanAccounted'
    <3> SUFFICES ASSUME NEW d \in Calls, span[d] = "open"
                 PROVE  pc'[d] = "store" \/ reqMap'[Key(d)] = d \/ StoredOver(d)'
      BY <1>0, <2>1, SameRequests DEF SpanAccounted
    <3>1. CASE d = c
      BY <2>1, <2>2, <3>1 DEF TypeOK
    <3>2. CASE d # c /\ Key(d) = Key(c)
      <4>1. post[c].session = post[d].session /\ post[c].id = post[d].id
        BY <3>2 DEF Key, CorrelationKey
      <4>2. pc'[c] = "route" /\ Traced(c)'
        BY <1>0, <2>1, SameRequests DEF TypeOK
      <4>3. StoredOver(d)'
        BY <1>0, <3>2, <4>1, <4>2 DEF StoredOver
      <4>4. QED
        BY <4>3
    <3>3. CASE Key(d) # Key(c)
      <4>1. Key(d) \in Keys
        BY TracedKey DEF SpanStaged
      <4>2. pc'[d] = pc[d] /\ reqMap'[Key(d)] = reqMap[Key(d)]
        BY <2>1, <3>3, <4>1 DEF TypeOK
      <4>3. StoredOver(d) => StoredOver(d)'
        BY <1>0, <2>1, StaysOver DEF TypeOK
      <4>4. QED
        BY <4>2, <4>3 DEF SpanAccounted
    <3>4. QED
      BY <3>1, <3>2, <3>3
  <2>6. QED
    BY <2>3, <2>4, <2>5
<1>5. ASSUME NEW c \in Calls, PostFails(c)
      PROVE  MapSound' /\ SpanStaged' /\ SpanAccounted'
  <2> DEFINE ks == IF Traced(c) THEN TakeKeys(post[c].session, post[c].id) ELSE {}
  <2>1. ks \in SUBSET Keys
    BY DEF TakeKeys
  <2>2. /\ reqMap' = Without(reqMap, ks) /\ span' = EndSpan(Entries(reqMap, ks), "failed")
        /\ \A d \in Calls : pc'[d] = pc[d] \/ (pc[d] = "send" /\ pc'[d] = "failed")
    BY <1>5 DEF PostFails, TypeOK
  <2>3. "failed" \in Final
    BY DEF Final
  <2>4. \E k \in SUBSET Keys, status \in Final :
           reqMap' = Without(reqMap, k) /\ span' = EndSpan(Entries(reqMap, k), status)
    BY <2>1, <2>2, <2>3
  <2>5. QED
    BY <1>0, <2>2, <2>4, Removal
<1>6. ASSUME NEW st \in Streams, HandleMessage(st)
      PROVE  MapSound' /\ SpanStaged' /\ SpanAccounted'
  <2> DEFINE ks == TakeKeys(sid[st], line[st].id)
  <2>1. ks \in SUBSET Keys
    BY DEF TakeKeys
  <2>2. /\ reqMap' = Without(reqMap, ks) /\ span' = EndSpan(Entries(reqMap, ks), line[st].outcome)
        /\ pc' = pc
    BY <1>6 DEF HandleMessage, postVars
  <2>3. line[st].outcome \in Final
    BY <1>6 DEF HandleMessage, TypeOK, Line, Final
  <2>4. \E k \in SUBSET Keys, status \in Final :
           reqMap' = Without(reqMap, k) /\ span' = EndSpan(Entries(reqMap, k), status)
    BY <2>1, <2>2, <2>3
  <2>5. QED
    BY <1>0, <2>2, <2>4, Removal
<1>7. ASSUME NEW st \in Streams, Drain(st)
      PROVE  MapSound' /\ SpanStaged' /\ SpanAccounted'
  <2> DEFINE ks == SessionKeys(sid[st])
             s == IF gone[st] THEN "abandonedByClient" ELSE "abandonedByUpstream"
  <2>1. ks \in SUBSET Keys
    BY DEF SessionKeys
  <2>2. reqMap' = Without(reqMap, ks) /\ span' = EndSpan(Entries(reqMap, ks), s) /\ pc' = pc
    BY <1>7 DEF Drain, postVars
  <2>3. s \in Final
    BY DEF Final
  <2>4. \E k \in SUBSET Keys, status \in Final :
           reqMap' = Without(reqMap, k) /\ span' = EndSpan(Entries(reqMap, k), status)
    BY <2>1, <2>2, <2>3
  <2>5. QED
    BY <1>0, <2>2, <2>4, Removal
<1>8. ASSUME EvictTick
      PROVE  MapSound' /\ SpanStaged' /\ SpanAccounted'
  <2> DEFINE ks == StaleKeys(reqMap, {c \in Calls : expired[c]})
  <2>1. ks \in SUBSET Keys
    BY DEF StaleKeys
  <2>2. reqMap' = Without(reqMap, ks) /\ span' = EndSpan(Entries(reqMap, ks), "timeout") /\ pc' = pc
    BY <1>8 DEF EvictTick, postVars
  <2>3. "timeout" \in Final
    BY DEF Final
  <2>4. \E k \in SUBSET Keys, status \in Final :
           reqMap' = Without(reqMap, k) /\ span' = EndSpan(Entries(reqMap, k), status)
    BY <2>1, <2>2, <2>3
  <2>5. QED
    BY <1>0, <2>2, <2>4, Removal
<1>9. ASSUME NEW c \in Calls, Deliver(c) \/ Expire(c)
      PROVE  UNCHANGED <<post, pc, span, reqMap>>
  BY <1>9 DEF Deliver, Expire, postVars
<1>10. ASSUME NEW st \in Streams,
              \/ Connect(st) \/ ConnectFails(st) \/ ReadEndpoint(st) \/ ReadAnswer(st)
              \/ ReadServerRequest(st) \/ HandleEndpoint(st) \/ ClientLeaves(st)
              \/ LeaveLoop(st) \/ Forget(st)
      PROVE  UNCHANGED <<post, pc, span, reqMap>>
  BY <1>10 DEF Connect, ConnectFails, ReadEndpoint, ReadAnswer, ReadServerRequest,
               HandleEndpoint, ClientLeaves, LeaveLoop, Forget, postVars
<1>11. ASSUME UNCHANGED vars \/ EvictorStops
       PROVE  UNCHANGED <<post, pc, span, reqMap>>
  BY <1>11 DEF vars, postVars, EvictorStops
<1>12. QED
  BY <1>1, <1>2, <1>3, <1>4, <1>5, <1>6, <1>7, <1>8, <1>9, <1>10, <1>11
     DEF Next, PostStep, StreamStep, EvictorStep

-----------------------------------------------------------------------------
(* What is sent and what is heard *)

LEMMA SentStep ==
    ASSUME IInv, [Next]_vars, TypeOK'
    PROVE  Sent' /\ OwnEndpoint'
<1> USE DEF IInv
<1>0. UNCHANGED post
  BY PostFixed
<1>1. ASSUME UNCHANGED <<pc, route, reply>> PROVE Sent'
  BY <1>0, <1>1, SameRequests DEF Sent
<1>2. ASSUME UNCHANGED sessions PROVE OwnEndpoint'
  BY <1>2 DEF OwnEndpoint, RecordOf
<1>3. ASSUME NEW c \in Calls,
             BadBody(c) \/ Arrive(c) \/ StartSpan(c) \/ StorePost(c) \/ PostAccepted(c) \/ PostFails(c)
      PROVE  Sent'
  <2>1. /\ UNCHANGED <<route, reply>>
        /\ \A d \in Calls : d # c => pc'[d] = pc[d]
        /\ \/ pc[c] \in {"idle", "start", "store"} /\ pc'[c] \in {"dropped", "start", "store", "route"}
           \/ pc[c] = "send" /\ pc'[c] \in {"accepted", "failed"}
    BY <1>3 DEF BadBody, Arrive, StartSpan, StorePost, PostAccepted, PostFails, TypeOK
  <2>2. QED
    BY <1>0, <2>1, SameRequests DEF Sent
<1>4. ASSUME NEW c \in Calls, Route(c) PROVE Sent'
  <2>1. post[c].session \in Sessions \cup {NoSession}
    BY WorkloadAssumption DEF TypeOK, Request
  <2>2. Endpoint(post[c].session) = post[c].session
    BY <2>1 DEF Endpoint, OwnEndpoint
  <2>3. QED
    BY <1>0, <1>4, <2>2, SameRequests DEF Sent, Route, TypeOK
<1>5. ASSUME NEW c \in Calls, Deliver(c) PROVE Sent'
  BY <1>0, <1>5, SameRequests DEF Sent, Deliver, TypeOK
<1>6. ASSUME NEW st \in Streams, ReadAnswer(st) PROVE Sent'
  BY <1>0, <1>6, SameRequests DEF Sent, ReadAnswer, TypeOK
<1>7. ASSUME NEW c \in Calls, Arrive(c) PROVE OwnEndpoint'
  <2>1. sessions' = sessions \/
        sessions' = [sessions EXCEPT ![post[c].session] =
                       [endpoint |-> RecordOf(post[c].session).endpoint, client |-> post[c].client]]
    BY <1>7 DEF Arrive
  <2>2. ASSUME NEW s \in Sessions PROVE (RecordOf(s).endpoint)' \in {RecordOf(s).endpoint, NoSession}
    <3>1. CASE sessions'[s] = sessions[s]
      BY <3>1 DEF RecordOf
    <3>2. CASE sessions'[s] = [endpoint |-> RecordOf(s).endpoint, client |-> post[c].client]
      BY <3>2 DEF RecordOf, TypeOK
    <3>3. QED
      BY <2>1, <3>1, <3>2 DEF TypeOK
  <2>3. QED
    BY <2>2 DEF OwnEndpoint
<1>8. ASSUME NEW st \in Streams, HandleEndpoint(st) PROVE OwnEndpoint'
  <2>1. sessions' = sessions \/
        sessions' = [sessions EXCEPT ![advert[st]] =
                       [endpoint |-> advert[st], client |-> RecordOf(advert[st]).client]]
    BY <1>8 DEF HandleEndpoint
  <2>2. ASSUME NEW s \in Sessions PROVE (RecordOf(s).endpoint)' \in {RecordOf(s).endpoint, s, NoSession}
    <3>1. CASE sessions'[s] = sessions[s]
      BY <3>1 DEF RecordOf
    <3>2. CASE sessions'[s] = [endpoint |-> s, client |-> RecordOf(s).client]
      BY <3>2 DEF RecordOf
    <3>3. QED
      BY <2>1, <3>1, <3>2 DEF TypeOK
  <2>3. QED
    BY <2>2 DEF OwnEndpoint
<1>9. ASSUME NEW st \in Streams, Forget(st) PROVE OwnEndpoint'
  <2>1. \A s \in Sessions : sessions'[s] \in {sessions[s], NoEntry}
    BY <1>9 DEF Forget, TypeOK
  <2>2. QED
    BY <2>1 DEF OwnEndpoint, RecordOf
<1>10. ASSUME NEW st \in Streams,
              \/ Connect(st) \/ ConnectFails(st) \/ ReadEndpoint(st) \/ ReadServerRequest(st)
              \/ HandleEndpoint(st) \/ HandleMessage(st) \/ ClientLeaves(st) \/ LeaveLoop(st)
              \/ Forget(st) \/ Drain(st)
       PROVE  UNCHANGED <<pc, route, reply>>
  BY <1>10 DEF Connect, ConnectFails, ReadEndpoint, ReadServerRequest, HandleEndpoint,
               HandleMessage, ClientLeaves, LeaveLoop, Forget, Drain, postVars
<1>11. ASSUME NEW st \in Streams,
              \/ Connect(st) \/ ConnectFails(st) \/ ReadEndpoint(st) \/ ReadServerRequest(st)
              \/ ReadAnswer(st) \/ HandleMessage(st) \/ ClientLeaves(st) \/ LeaveLoop(st)
              \/ Drain(st)
       PROVE  UNCHANGED sessions
  BY <1>11 DEF Connect, ConnectFails, ReadEndpoint, ReadServerRequest, ReadAnswer,
               HandleMessage, ClientLeaves, LeaveLoop, Drain
<1>12. ASSUME NEW c \in Calls,
              \/ BadBody(c) \/ StartSpan(c) \/ StorePost(c) \/ Route(c) \/ Deliver(c)
              \/ PostAccepted(c) \/ PostFails(c) \/ Expire(c)
       PROVE  UNCHANGED sessions
  BY <1>12 DEF BadBody, StartSpan, StorePost, Route, Deliver, PostAccepted, PostFails, Expire
<1>13. ASSUME UNCHANGED vars \/ EvictorStep
       PROVE  UNCHANGED <<pc, route, reply, sessions>>
  BY <1>13 DEF vars, EvictorStep, EvictTick, EvictorStops, postVars
<1>14. ASSUME NEW c \in Calls, Expire(c) PROVE UNCHANGED <<pc, route, reply>>
  BY <1>14 DEF Expire, postVars
<1>15. Sent'
  BY <1>1, <1>3, <1>4, <1>5, <1>6, <1>10, <1>13, <1>14 DEF Next, PostStep, StreamStep
<1>16. OwnEndpoint'
  BY <1>2, <1>7, <1>8, <1>9, <1>11, <1>12, <1>13 DEF Next, PostStep, StreamStep
<1>17. QED
  BY <1>15, <1>16

\* Steps of a POST and of the evictor leave the streams alone.
LEMMA StreamsAlone ==
    ASSUME (\E c \in Calls : PostStep(c)) \/ EvictorStep \/ UNCHANGED vars
    PROVE  UNCHANGED streamVars
BY DEF PostStep, EvictorStep, BadBody, Arrive, StartSpan, StorePost, Route, Deliver,
       PostAccepted, PostFails, Expire, EvictTick, EvictorStops, vars

LEMMA StreamsStep ==
    ASSUME IInv, [Next]_vars, TypeOK'
    PROVE  StreamSound'
<1> USE DEF IInv
<1>1. ASSUME UNCHANGED streamVars PROVE StreamSound'
  BY <1>1 DEF StreamSound, streamVars
<1>2. ASSUME NEW st \in Streams, StreamStep(st) PROVE StreamSound'
  <2> SUFFICES ASSUME NEW x \in Streams
               PROVE  /\ line'[x] # NoLine => stage'[x] = "open"
                      /\ advert'[x] = NoAdvert => line'[x] = NoLine /\ sid'[x] = NoSession
                      /\ line'[x] # NoLine /\ line'[x].kind = "endpoint" =>
                           line'[x].id = NoId /\ sid'[x] = NoSession
                      /\ \/ advert'[x] = NoAdvert \/ sid'[x] = advert'[x]
                         \/ line'[x] # NoLine /\ line'[x].kind = "endpoint"
                      /\ stage'[x] \in {"forget", "drain"} => sid'[x] # NoSession
    BY DEF StreamSound
  <2> USE DEF StreamSound, TypeOK
  <2>1. CASE Connect(st) \/ ConnectFails(st) \/ ClientLeaves(st)
    BY <2>1 DEF Connect, ConnectFails, ClientLeaves
  <2>2. CASE ReadEndpoint(st)
    <3>1. advert'[st] # NoAdvert
      BY <2>2, RouteAssumption DEF ReadEndpoint, Fresh
    <3>2. line'[st].kind = "endpoint" /\ line'[st].id = NoId
      BY <2>2 DEF ReadEndpoint
    <3>3. line'[st] # NoLine
      BY <2>2, RecordAssumption DEF ReadEndpoint
    <3>4. QED
      BY <2>2, <3>1, <3>2, <3>3 DEF ReadEndpoint, Reading
  <2>3. CASE ReadAnswer(st)
    <3>1. advert[st] # NoAdvert
      BY <2>3, RouteAssumption, WorkloadAssumption DEF ReadAnswer, Sent, Request
    <3>2. line'[st].kind = "message"
      BY <2>3 DEF ReadAnswer
    <3>3. sid[st] = advert[st]
      BY <2>3, <3>1 DEF ReadAnswer, Reading
    <3>4. QED
      BY <2>3, <3>1, <3>2, <3>3 DEF ReadAnswer, Reading
  <2>4. CASE ReadServerRequest(st)
    <3>1. line'[st].kind = "message"
      BY <2>4 DEF ReadServerRequest
    <3>2. QED
      BY <2>4, <3>1 DEF ReadServerRequest, Reading
  <2>5. CASE HandleEndpoint(st)
    BY <2>5 DEF HandleEndpoint
  <2>6. CASE HandleMessage(st)
    BY <2>6 DEF HandleMessage
  <2>7. CASE LeaveLoop(st)
    BY <2>7 DEF LeaveLoop, Reading
  <2>8. CASE Forget(st) \/ Drain(st)
    BY <2>8 DEF Forget, Drain
  <2>9. QED
    BY <1>2, <2>1, <2>2, <2>3, <2>4, <2>5, <2>6, <2>7, <2>8 DEF StreamStep
<1>3. QED
  BY <1>1, <1>2, StreamsAlone DEF Next, vars

LEMMA AnswerSoundStep ==
    ASSUME IInv, [Next]_vars, TypeOK'
    PROVE  AnswerSound'
<1> USE DEF IInv
<1>0. UNCHANGED post
  BY PostFixed
<1> SUFFICES ASSUME NEW x \in Streams, NEW c \in Calls, Solo(c),
                    line'[x] # NoLine, line'[x].kind = "message",
                    line'[x].id = post[c].id, advert'[x] = post[c].session
             PROVE  reply'[c] = line'[x].outcome
  BY <1>0, SameRequests DEF AnswerSound
<1>1. ASSUME line'[x] = line[x], advert'[x] = advert[x] PROVE reply[c] = line[x].outcome
  BY <1>1 DEF AnswerSound
<1>2. ASSUME line'[x] = line[x], advert'[x] = advert[x] PROVE reply[c] \in {"ok", "error"}
  BY <1>1, <1>2 DEF TypeOK, Line
<1>3. CASE UNCHANGED <<line, advert, reply>>
  BY <1>1, <1>3
<1>4. ASSUME NEW d \in Calls, Deliver(d) PROVE reply'[c] = line'[x].outcome
  BY <1>1, <1>2, <1>4 DEF Deliver, streamVars, TypeOK
<1>5. ASSUME NEW st \in Streams, ReadEndpoint(st) PROVE reply'[c] = line'[x].outcome
  <2>1. x # st
    BY <1>5 DEF ReadEndpoint, TypeOK
  <2>2. QED
    BY <1>1, <1>5, <2>1 DEF ReadEndpoint, postVars, TypeOK
<1>6. ASSUME NEW st \in Streams, ReadAnswer(st) PROVE reply'[c] = line'[x].outcome
  <2>1. PICK d \in Calls, o \in {"ok", "error"} :
           /\ reply[d] = "asked" /\ route[d] = advert[st]
           /\ reply' = [reply EXCEPT ![d] = o]
           /\ line' = [line EXCEPT ![st] = [kind |-> "message", id |-> post[d].id, outcome |-> o]]
    BY <1>6 DEF ReadAnswer
  <2>2. advert' = advert
    BY <1>6 DEF ReadAnswer
  <2>3. CASE x = st
    <3>1. route[d] = post[d].session
      BY <2>1 DEF Sent
    <3>2. d = c
      <4>1. line'[st] = [kind |-> "message", id |-> post[d].id, outcome |-> o]
        BY <2>1 DEF TypeOK
      <4>2. post[d].id = post[c].id
        BY <2>3, <4>1
      <4>3. post[d].session = post[c].session
        BY <2>1, <2>2, <2>3, <3>1
      <4>4. QED
        BY <4>2, <4>3 DEF Solo, Unshared
    <3>3. QED
      BY <2>1, <2>3, <3>2 DEF TypeOK
  <2>4. CASE x # st
    <3>1. d # c
      BY <1>2, <2>1, <2>2, <2>4
    <3>2. QED
      BY <1>1, <2>1, <2>2, <2>4, <3>1
  <2>5. QED
    BY <2>3, <2>4
<1>7. ASSUME NEW st \in Streams, ReadServerRequest(st) PROVE reply'[c] = line'[x].outcome
  <2>1. x # st
    BY <1>7 DEF ReadServerRequest, TypeOK, Solo
  <2>2. QED
    BY <1>1, <1>7, <2>1 DEF ReadServerRequest, postVars, TypeOK
<1>8. ASSUME NEW st \in Streams, HandleEndpoint(st) \/ HandleMessage(st)
      PROVE  reply'[c] = line'[x].outcome
  <2>1. x # st /\ line'[x] = line[x] /\ advert' = advert /\ reply' = reply
    BY <1>8 DEF HandleEndpoint, HandleMessage, postVars, TypeOK
  <2>2. QED
    BY <1>1, <2>1
<1>9. ASSUME NEW d \in Calls,
             \/ BadBody(d) \/ Arrive(d) \/ StartSpan(d) \/ StorePost(d) \/ Route(d)
             \/ PostAccepted(d) \/ PostFails(d) \/ Expire(d)
      PROVE  UNCHANGED <<line, advert, reply>>
  BY <1>9 DEF BadBody, Arrive, StartSpan, StorePost, Route, PostAccepted, PostFails, Expire,
              postVars, streamVars
<1>10. ASSUME NEW st \in Streams,
              \/ Connect(st) \/ ConnectFails(st) \/ ClientLeaves(st) \/ LeaveLoop(st)
              \/ Forget(st) \/ Drain(st)
       PROVE  UNCHANGED <<line, advert, reply>>
  BY <1>10 DEF Connect, ConnectFails, ClientLeaves, LeaveLoop, Forget, Drain, postVars
<1>11. ASSUME UNCHANGED vars \/ EvictorStep
       PROVE  UNCHANGED <<line, advert, reply>>
  BY <1>11 DEF vars, EvictorStep, EvictTick, EvictorStops, postVars, streamVars
<1>12. QED
  BY <1>3, <1>4, <1>5, <1>6, <1>7, <1>8, <1>9, <1>10, <1>11 DEF Next, PostStep, StreamStep

\* No step but StartSpan opens a span.
LEMMA OpenedBefore ==
    ASSUME TypeOK, [Next]_vars, NEW c \in Calls, span'[c] = "open", ~StartSpan(c)
    PROVE  span[c] = "open"
<1>1. ASSUME UNCHANGED span PROVE span[c] = "open"
  BY <1>1
<1>2. ASSUME NEW cs, NEW s, s # "open", span' = EndSpan(cs, s) PROVE span[c] = "open"
  BY <1>2 DEF EndSpan
<1>3. ASSUME NEW d \in Calls, PostStep(d) PROVE span[c] = "open"
  <2>1. ASSUME PostFails(d) PROVE span[c] = "open"
    BY <2>1, <1>2 DEF PostFails
  <2>2. ASSUME StartSpan(d) PROVE span[c] = "open"
    BY <2>2 DEF StartSpan, TypeOK
  <2>3. QED
    BY <1>1, <1>3, <2>1, <2>2 DEF PostStep, BadBody, Arrive, StorePost, Route, Deliver,
                                  PostAccepted, Expire
<1>4. ASSUME NEW st \in Streams, StreamStep(st) PROVE span[c] = "open"
  <2>1. ASSUME HandleMessage(st) PROVE span[c] = "open"
    <3>1. line[st].outcome # "open"
      BY <2>1 DEF HandleMessage, TypeOK, Line
    <3>2. QED
      BY <2>1, <3>1, <1>2 DEF HandleMessage
  <2>2. ASSUME Drain(st) PROVE span[c] = "open"
    BY <2>2, <1>2 DEF Drain
  <2>3. QED
    BY <1>1, <1>4, <2>1, <2>2 DEF StreamStep, Connect, ConnectFails, ReadEndpoint, ReadAnswer,
           ReadServerRequest, HandleEndpoint, ClientLeaves, LeaveLoop, Forget
<1>5. ASSUME EvictTick PROVE span[c] = "open"
  BY <1>5, <1>2 DEF EvictTick
<1>6. QED
  BY <1>1, <1>3, <1>4, <1>5 DEF Next, EvictorStep, EvictorStops, vars

LEMMA AnswerStep ==
    ASSUME IInv, [Next]_vars, TypeOK'
    PROVE  AnswerClosesSpan'
<1> USE DEF IInv
<1>0. UNCHANGED post
  BY PostFixed
<1> SUFFICES ASSUME NEW c \in Calls, Solo(c), reply'[c] \in {"ok", "error"}, span'[c] = "open"
             PROVE  \E x \in Streams : /\ advert'[x] = post[c].session
                                       /\ line'[x] # NoLine /\ line'[x].id = post[c].id
  BY <1>0, SameRequests DEF AnswerClosesSpan
<1> DEFINE Waits == \E x \in Streams : /\ advert'[x] = post[c].session
                                       /\ line'[x] # NoLine /\ line'[x].id = post[c].id
<1>1. ~StartSpan(c)
  BY DEF StartSpan, Sent, TypeOK
<1>2. span[c] = "open"
  BY <1>1, OpenedBefore
<1>3. Traced(c) /\ post[c].id # NoId
  BY <1>2 DEF SpanStaged, Traced
<1>4. ASSUME reply[c] \in {"ok", "error"}
      PROVE  \E x \in Streams : /\ advert[x] = post[c].session
                                /\ line[x] # NoLine /\ line[x].id = post[c].id
  BY <1>2, <1>4 DEF AnswerClosesSpan
<1>5. CASE UNCHANGED <<line, advert, reply>>
  BY <1>4, <1>5
<1>6. ASSUME NEW d \in Calls, Deliver(d) PROVE Waits
  BY <1>4, <1>6 DEF Deliver, streamVars, TypeOK
<1>7. ASSUME NEW st \in Streams, ReadEndpoint(st) \/ ReadServerRequest(st) PROVE Waits
  <2>1. /\ line[st] = NoLine /\ reply' = reply
        /\ \A x \in Streams \ {st} : line'[x] = line[x] /\ advert'[x] = advert[x]
    BY <1>7 DEF ReadEndpoint, ReadServerRequest, Reading, postVars, TypeOK
  <2>2. QED
    BY <1>4, <2>1
<1>8. ASSUME NEW st \in Streams, ReadAnswer(st) PROVE Waits
  <2>1. PICK d \in Calls, o \in {"ok", "error"} :
           /\ reply[d] = "asked" /\ route[d] = advert[st]
           /\ reply' = [reply EXCEPT ![d] = o]
           /\ line' = [line EXCEPT ![st] = [kind |-> "message", id |-> post[d].id, outcome |-> o]]
    BY <1>8 DEF ReadAnswer
  <2>2. advert' = advert /\ line[st] = NoLine
    BY <1>8 DEF ReadAnswer, Reading
  <2>3. CASE d = c
    <3>1. post[c].id \in Ids \cup {NoId}
      BY WorkloadAssumption DEF TypeOK, Request
    <3>2. line'[st] # NoLine /\ line'[st].id = post[c].id
      BY <2>1, <2>3, <3>1, RecordAssumption DEF TypeOK
    <3>3. route[c] = post[c].session
      BY <2>1, <2>3 DEF Sent
    <3>4. QED
      BY <2>1, <2>2, <2>3, <3>2, <3>3
  <2>4. CASE d # c
    BY <1>4, <2>1, <2>2, <2>4 DEF TypeOK
  <2>5. QED
    BY <2>3, <2>4
<1>9. ASSUME NEW st \in Streams, HandleEndpoint(st) PROVE Waits
  <2>1. /\ line[st].id = NoId /\ reply' = reply /\ advert' = advert
        /\ \A x \in Streams \ {st} : line'[x] = line[x]
    BY <1>9 DEF HandleEndpoint, postVars, TypeOK, StreamSound
  <2>2. QED
    BY <1>3, <1>4, <2>1
<1>10. ASSUME NEW st \in Streams, HandleMessage(st) PROVE Waits
  <2>1. /\ reply' = reply /\ advert' = advert
        /\ \A x \in Streams \ {st} : line'[x] = line[x]
    BY <1>10 DEF HandleMessage, postVars, TypeOK
  <2>2. PICK x \in Streams : /\ advert[x] = post[c].session
                             /\ line[x] # NoLine /\ line[x].id = post[c].id
    BY <1>4, <2>1
  <2>3. ASSUME x = st PROVE FALSE
    <3>1. sid[st] = post[c].session
      BY <1>10, <2>2, <2>3, RouteAssumption, WorkloadAssumption
         DEF HandleMessage, StreamSound, TypeOK, Request
    <3>2. TakeKeys(sid[st], line[st].id) = {Key(c)}
      BY <1>3, <2>2, <2>3, <3>1, TracedKey
    <3>3. reqMap[Key(c)] = c
      BY <1>2, <2>1, SoloAccounted DEF Sent
    <3>4. c \in Entries(reqMap, {Key(c)})
      BY <3>3, NoneAssumption DEF Entries
    <3>5. span'[c] = line[st].outcome
      BY <1>10, <3>2, <3>4 DEF HandleMessage, EndSpan
    <3>6. QED
      BY <1>10, <3>5 DEF HandleMessage, TypeOK, Line
  <2>4. QED
    BY <2>1, <2>2, <2>3
<1>11. ASSUME NEW d \in Calls,
             \/ BadBody(d) \/ Arrive(d) \/ StartSpan(d) \/ StorePost(d) \/ Route(d)
             \/ PostAccepted(d) \/ PostFails(d) \/ Expire(d)
      PROVE  UNCHANGED <<line, advert, reply>>
  BY <1>11 DEF BadBody, Arrive, StartSpan, StorePost, Route, PostAccepted, PostFails, Expire,
               postVars, streamVars
<1>12. ASSUME NEW st \in Streams,
              \/ Connect(st) \/ ConnectFails(st) \/ ClientLeaves(st) \/ LeaveLoop(st)
              \/ Forget(st) \/ Drain(st)
       PROVE  UNCHANGED <<line, advert, reply>>
  BY <1>12 DEF Connect, ConnectFails, ClientLeaves, LeaveLoop, Forget, Drain, postVars
<1>13. ASSUME UNCHANGED vars \/ EvictorStep
       PROVE  UNCHANGED <<line, advert, reply>>
  BY <1>13 DEF vars, EvictorStep, EvictTick, EvictorStops, postVars, streamVars
<1>14. QED
  BY <1>5, <1>6, <1>7, <1>8, <1>9, <1>10, <1>11, <1>12, <1>13 DEF Next, PostStep, StreamStep

-----------------------------------------------------------------------------
(* The theorems *)

LEMMA InvInit == Init => IInv
<1> SUFFICES ASSUME Init PROVE IInv
  OBVIOUS
<1>1. TypeOK
  BY TypeInit
<1>2. MapSound
  BY NoneAssumption DEF Init, EmptyMap, MapSound
<1>3. SpanStaged /\ Sent /\ SpanAccounted /\ AnswerClosesSpan /\ StreamSound /\ AnswerSound
  BY DEF Init, SpanStaged, Sent, SpanAccounted, AnswerClosesSpan, StreamSound, AnswerSound
<1>4. OwnEndpoint
  BY DEF Init, OwnEndpoint, RecordOf
<1>5. QED
  BY <1>1, <1>2, <1>3, <1>4 DEF IInv

LEMMA InvStep == IInv /\ [Next]_vars => IInv'
<1> SUFFICES ASSUME IInv, [Next]_vars PROVE IInv'
  OBVIOUS
<1>1. TypeOK'
  BY TypeStep DEF IInv
<1>2. QED
  BY <1>1, TableStep, SentStep, StreamsStep, AnswerSoundStep, AnswerStep DEF IInv

THEOREM Invariance == Spec => []IInv
BY InvInit, InvStep, PTL DEF Spec

\* Every variable keeps the type the code gives it, for any workload.
THEOREM TypeCorrect == Spec => []TypeOK
<1>1. IInv => TypeOK
  BY DEF IInv
<1>2. QED
  BY <1>1, Invariance, PTL

\* No open span is lost from the in-flight table but to a call with its key.
THEOREM NoSpanLost == Spec => []SpanAccounted
<1>1. IInv => SpanAccounted
  BY DEF IInv
<1>2. QED
  BY <1>1, Invariance, PTL

\* An answered call's span is closed once the answer's line is handled.
THEOREM AnswersClose == Spec => []AnswerClosesSpan
<1>1. IInv => AnswerClosesSpan
  BY DEF IInv
<1>2. QED
  BY <1>1, Invariance, PTL

\* No POST is routed to another session's endpoint.
THEOREM NoCrossRouting == Spec => []RoutesToOwnSession
<1>1. IInv => RoutesToOwnSession
  BY DEF IInv, Sent, RoutesToOwnSession
<1>2. QED
  BY <1>1, Invariance, PTL

-----------------------------------------------------------------------------
(* The proxy keeps the ledger *)

\* A stream that ended, or lost its client, stays so under its session.
LEMMA StreamsEndOnce ==
    ASSUME IInv, [Next]_vars, NEW st \in Streams, sid[st] # NoSession
    PROVE  /\ sid'[st] = sid[st]
           /\ gone[st] => gone'[st]
           /\ stage[st] \in {"forget", "drain", "done"} => stage'[st] \in {"forget", "drain", "done"}
<1> USE DEF IInv, TypeOK
<1>1. CASE UNCHANGED streamVars
  BY <1>1 DEF streamVars
<1>2. ASSUME NEW x \in Streams, StreamStep(x)
      PROVE  /\ sid'[st] = sid[st]
             /\ gone[st] => gone'[st]
             /\ stage[st] \in {"forget", "drain", "done"} => stage'[st] \in {"forget", "drain", "done"}
  <2>1. ASSUME HandleEndpoint(x) PROVE x # st /\ UNCHANGED <<gone, stage>> /\ sid'[st] = sid[st]
    <3>1. x # st
      BY <2>1 DEF HandleEndpoint, StreamSound
    <3>2. QED
      BY <2>1, <3>1 DEF HandleEndpoint
  <2>2. CASE Connect(x) \/ ConnectFails(x) \/ ClientLeaves(x) \/ LeaveLoop(x) \/ Forget(x) \/ Drain(x)
    BY <2>2 DEF Connect, ConnectFails, ClientLeaves, LeaveLoop, Reading, Forget, Drain
  <2>3. CASE ReadEndpoint(x) \/ ReadAnswer(x) \/ ReadServerRequest(x) \/ HandleMessage(x)
    BY <2>3 DEF ReadEndpoint, ReadAnswer, ReadServerRequest, HandleMessage
  <2>4. QED
    BY <1>2, <2>1, <2>2, <2>3 DEF StreamStep
<1>3. QED
  BY <1>1, <1>2, StreamsAlone DEF Next

\* What became of a request is never taken back.
LEMMA RepliesStay ==
    ASSUME IInv, [Next]_vars, NEW c \in Calls
    PROVE  /\ reply[c] \in {"ok", "error"} => reply'[c] = reply[c]
           /\ pc[c] = "failed" => pc'[c] = "failed"
           /\ expired[c] => expired'[c]
<1> USE DEF IInv, TypeOK
<1>1. CASE UNCHANGED <<reply, pc, expired>>
  BY <1>1
<1>2. ASSUME NEW d \in Calls, PostStep(d)
      PROVE  /\ reply[c] \in {"ok", "error"} => reply'[c] = reply[c]
             /\ pc[c] = "failed" => pc'[c] = "failed"
             /\ expired[c] => expired'[c]
  BY <1>2 DEF PostStep, BadBody, Arrive, StartSpan, StorePost, Route, Deliver, PostAccepted,
              PostFails, Expire, postVars
<1>3. ASSUME NEW st \in Streams, StreamStep(st)
      PROVE  /\ reply[c] \in {"ok", "error"} => reply'[c] = reply[c]
             /\ UNCHANGED <<pc, expired>>
  BY <1>3 DEF StreamStep, Connect, ConnectFails, ReadEndpoint, ReadAnswer, ReadServerRequest,
              HandleEndpoint, HandleMessage, ClientLeaves, LeaveLoop, Forget, Drain, postVars
<1>4. CASE EvictorStep \/ UNCHANGED vars
  BY <1>4 DEF EvictorStep, EvictTick, EvictorStops, vars, postVars
<1>5. QED
  BY <1>1, <1>2, <1>3, <1>4 DEF Next

LEMMA FateGrows ==
    ASSUME IInv, [Next]_vars, NEW c \in Calls
    PROVE  Fate(c) \subseteq Fate(c)'
<1>0. UNCHANGED post
  BY PostFixed
<1>1. Over(c) => Over(c)'
  BY <1>0, StreamsEndOnce DEF Over
<1>2. Deserted(c) => Deserted(c)'
  BY <1>0, StreamsEndOnce DEF Deserted
<1>3. QED
  BY <1>1, <1>2, RepliesStay DEF Fate

\* The facts that bear out a status, as the ledger counts them.
Earned(facts, status) == \/ status \in {"ok", "error", "failed"} /\ status \in facts
                         \/ status = "timeout" /\ "late" \in facts
                         \/ status = "abandonedByUpstream" /\ "cut" \in facts
                         \/ status = "abandonedByClient" /\ {"cut", "cutByClient"} \subseteq facts

\* A solo call's span changes only as the ledger allows.
LEMMA SpanEarned ==
    ASSUME IInv, [Next]_vars, TypeOK', NEW c \in Calls, Solo(c), span'[c] # span[c]
    PROVE  \/ span[c] = "none" /\ span'[c] = "open"
           \/ span[c] = "open" /\ span'[c] \in Final /\ Earned(Fate(c)', span'[c])
<1> USE DEF IInv
<1>0. UNCHANGED post
  BY PostFixed
<1> DEFINE Allowed == \/ span[c] = "none" /\ span'[c] = "open"
                      \/ span[c] = "open" /\ span'[c] \in Final /\ Earned(Fate(c)', span'[c])
<1>1. ASSUME NEW d \in Calls, StartSpan(d) PROVE Allowed
  BY <1>1 DEF StartSpan, SpanStaged, TypeOK
<1>2. ASSUME NEW ks \in SUBSET Keys, NEW status \in Final,
             span' = EndSpan(Entries(reqMap, ks), status)
      PROVE  /\ Key(c) \in ks /\ Key(c) \in Keys /\ reqMap[Key(c)] = c
             /\ span[c] = "open" /\ span'[c] = status
  <2>1. c \in Entries(reqMap, ks) /\ span'[c] = status
    BY <1>2 DEF EndSpan
  <2>2. PICK k \in ks : reqMap[k] = c
    BY <2>1 DEF Entries
  <2>3. QED
    BY <2>1, <2>2 DEF MapSound
<1>3. ASSUME NEW d \in Calls, PostFails(d) PROVE Allowed
  <2> DEFINE ks == IF Traced(d) THEN TakeKeys(post[d].session, post[d].id) ELSE {}
  <2>1. ks \in SUBSET Keys /\ span' = EndSpan(Entries(reqMap, ks), "failed") /\ "failed" \in Final
    BY <1>3 DEF PostFails, TakeKeys, Final
  <2>2. Key(c) \in ks /\ span[c] = "open" /\ span'[c] = "failed"
    BY <1>2, <2>1
  <2>3. d = c
    BY <2>2 DEF TakeKeys, CorrelationKey, Key, Solo, Unshared
  <2>4. "failed" \in Fate(c)'
    BY <1>3, <2>3 DEF Fate, PostFails, TypeOK
  <2>5. QED
    BY <2>1, <2>2, <2>4 DEF Earned
<1>4. ASSUME NEW st \in Streams, HandleMessage(st) PROVE Allowed
  <2> DEFINE ks == TakeKeys(sid[st], line[st].id)
             o == line[st].outcome
  <2>1. o \in {"ok", "error"} /\ o \in Final
    BY <1>4 DEF HandleMessage, TypeOK, Line, Final
  <2>2. ks \in SUBSET Keys /\ span' = EndSpan(Entries(reqMap, ks), o)
    BY <1>4 DEF HandleMessage, TakeKeys
  <2>3. Key(c) \in ks /\ span[c] = "open" /\ span'[c] = o
    BY <1>2, <2>1, <2>2
  <2>4. sid[st] = post[c].session /\ line[st].id = post[c].id
    BY <2>3 DEF TakeKeys, CorrelationKey, Key
  <2>5. advert[st] = sid[st]
    BY <1>4 DEF HandleMessage, StreamSound
  <2>6. reply[c] = o
    BY <1>4, <2>4, <2>5 DEF AnswerSound, HandleMessage
  <2>7. o \in Fate(c)'
    BY <1>4, <2>1, <2>6 DEF Fate, HandleMessage, postVars
  <2>8. QED
    BY <2>1, <2>3, <2>7 DEF Earned
<1>5. ASSUME NEW st \in Streams, Drain(st) PROVE Allowed
  <2> DEFINE ks == SessionKeys(sid[st])
             o == IF gone[st] THEN "abandonedByClient" ELSE "abandonedByUpstream"
  <2>1. ks \in SUBSET Keys /\ span' = EndSpan(Entries(reqMap, ks), o) /\ o \in Final
    BY <1>5 DEF Drain, SessionKeys, Final
  <2>2. Key(c) \in ks /\ span[c] = "open" /\ span'[c] = o
    BY <1>2, <2>1
  <2>3. sid[st] # NoSession /\ sid[st] = post[c].session
    BY <2>2 DEF SessionKeys, Key, CorrelationKey
  <2>4. sid' = sid /\ gone' = gone /\ stage'[st] = "done"
    BY <1>5 DEF Drain, TypeOK
  <2>5. Over(c)' /\ (gone[st] => Deserted(c)')
    BY <1>0, <2>3, <2>4 DEF Over, Deserted
  <2>6. "cut" \in Fate(c)' /\ (gone[st] => "cutByClient" \in Fate(c)')
    BY <2>5 DEF Fate
  <2>7. QED
    BY <2>1, <2>2, <2>6 DEF Earned
<1>6. ASSUME EvictTick PROVE Allowed
  <2> DEFINE ks == StaleKeys(reqMap, {d \in Calls : expired[d]})
  <2>1. ks \in SUBSET Keys /\ span' = EndSpan(Entries(reqMap, ks), "timeout") /\ "timeout" \in Final
    BY <1>6 DEF EvictTick, StaleKeys, Final
  <2>2. Key(c) \in ks /\ reqMap[Key(c)] = c /\ span[c] = "open" /\ span'[c] = "timeout"
    BY <1>2, <2>1
  <2>3. expired[c] /\ expired' = expired
    BY <1>6, <2>2 DEF StaleKeys, EvictTick
  <2>4. "late" \in Fate(c)'
    BY <2>3 DEF Fate
  <2>5. QED
    BY <2>1, <2>2, <2>4 DEF Earned
<1>7. ASSUME NEW d \in Calls,
             \/ BadBody(d) \/ Arrive(d) \/ StorePost(d) \/ Route(d) \/ Deliver(d)
             \/ PostAccepted(d) \/ Expire(d)
      PROVE  UNCHANGED span
  BY <1>7 DEF BadBody, Arrive, StorePost, Route, Deliver, PostAccepted, Expire
<1>8. ASSUME NEW st \in Streams,
             \/ Connect(st) \/ ConnectFails(st) \/ ReadEndpoint(st) \/ ReadAnswer(st)
             \/ ReadServerRequest(st) \/ HandleEndpoint(st) \/ ClientLeaves(st)
             \/ LeaveLoop(st) \/ Forget(st)
      PROVE  UNCHANGED span
  BY <1>8 DEF Connect, ConnectFails, ReadEndpoint, ReadAnswer, ReadServerRequest,
              HandleEndpoint, ClientLeaves, LeaveLoop, Forget
<1>9. ASSUME UNCHANGED vars \/ EvictorStops PROVE UNCHANGED span
  BY <1>9 DEF vars, EvictorStops
<1>10. QED
  BY <1>1, <1>3, <1>4, <1>5, <1>6, <1>7, <1>8, <1>9 DEF Next, PostStep, StreamStep, EvictorStep

LEMMA LedgerInit == Init => Ledger!Init
BY DEF Init, Ledger!Init, Fate, Over, Ledger!Facts

LEMMA LedgerStep == IInv /\ IInv' /\ [Next]_vars => [Ledger!Next]_(Ledger!vars)
<1> SUFFICES ASSUME IInv, IInv', [Next]_vars PROVE Ledger!Next
  OBVIOUS
<1>0. UNCHANGED post
  BY PostFixed
<1> SUFFICES ASSUME NEW c \in Calls PROVE Ledger!CallStep(c)
  BY DEF Ledger!Next
<1>1. Solo(c)' <=> Solo(c)
  BY <1>0, SameRequests
<1>2. Fate(c) \subseteq Fate(c)'
  BY FateGrows
<1>3. CASE ~Solo(c)
  BY <1>1, <1>3 DEF Ledger!CallStep
<1>4. CASE Solo(c) /\ span'[c] = span[c]
  BY <1>1, <1>2, <1>4 DEF Ledger!CallStep
<1>5. CASE Solo(c) /\ span'[c] # span[c]
  <2>1. \/ span[c] = "none" /\ span'[c] = "open"
        \/ span[c] = "open" /\ span'[c] \in Final /\ Earned(Fate(c)', span'[c])
    BY <1>5, SpanEarned DEF IInv
  <2>2. CASE span[c] = "none" /\ span'[c] = "open"
    BY <1>1, <1>2, <1>5, <2>2 DEF Ledger!CallStep, Ledger!Opens
  <2>3. CASE span[c] = "open" /\ span'[c] \in Final /\ Earned(Fate(c)', span'[c])
    <3>1. Ledger!Because(span'[c]) \subseteq Fate(c)'
      BY <2>3 DEF Earned, Ledger!Because, Final
    <3>2. QED
      BY <1>1, <1>2, <1>5, <2>3, <3>1 DEF Ledger!CallStep, Ledger!Ends, Ledger!Final, Final
  <2>4. QED
    BY <2>1, <2>2, <2>3
<1>6. QED
  BY <1>3, <1>4, <1>5

\* The proxy implements the ledger: a solo call's span is opened once, ended
\* once, and with a status its own fate bears out.
THEOREM Refinement == Spec => LedgerSpec
BY LedgerInit, LedgerStep, Invariance, PTL DEF Spec, LedgerSpec, Ledger!Spec

\* What a solo call's final status says is true of the call, then and ever
\* after: facts stay, and a span that has ended is not touched again.
StatusTrue == \A c \in Calls : Solo(c) /\ span[c] \in Final => Earned(Fate(c), span[c])

THEOREM StatusesTrue == Spec => []StatusTrue
<1>1. Init => StatusTrue
  BY DEF Init, StatusTrue, Final
<1>2. ASSUME IInv, IInv', StatusTrue, [Next]_vars PROVE StatusTrue'
  <2> SUFFICES ASSUME NEW c \in Calls, Solo(c), span'[c] \in Final
               PROVE  Earned(Fate(c)', span'[c])
    BY <1>2, PostFixed, SameRequests DEF StatusTrue
  <2>1. CASE span'[c] = span[c]
    <3>1. Earned(Fate(c), span[c]) /\ Fate(c) \subseteq Fate(c)'
      BY <1>2, <2>1, FateGrows DEF StatusTrue
    <3>2. QED
      BY <2>1, <3>1 DEF Earned
  <2>2. CASE span'[c] # span[c]
    BY <1>2, <2>2, SpanEarned DEF IInv, Final
  <2>3. QED
    BY <2>1, <2>2
<1>3. QED
  BY <1>1, <1>2, Invariance, PTL DEF Spec

\* Whose ids the server's own requests avoid, its spans end ok only if they
\* were answered: the one way to a false ok is a request of the server's under
\* the id of a call in flight.
THEOREM OkIsAnswered ==
    ASSUME \A w \in Workloads, c \in Calls : w[c].id \notin ServerIds
    PROVE  Spec => []OkMeansAnswered
<1>1. IInv /\ StatusTrue => OkMeansAnswered
  <2> SUFFICES ASSUME IInv, StatusTrue, NEW c \in Calls, span[c] = "ok", Unshared(c)
               PROVE  reply[c] = "ok"
    BY DEF OkMeansAnswered
  <2>1. Solo(c)
    BY DEF Solo, IInv, TypeOK
  <2>2. Earned(Fate(c), "ok")
    BY <2>1 DEF StatusTrue, Final
  <2>3. QED
    BY <2>2 DEF Earned, Fate
<1>2. QED
  BY <1>1, Invariance, StatusesTrue, PTL

-----------------------------------------------------------------------------
(* What is known of a session *)

\* Two streams never carry the same session.
OneStreamEach == \A a, b \in Streams : advert[a] = advert[b] /\ advert[a] \in Sessions => a = b

\* Whoever a session's record names announced itself there.
OwnClient == \A s \in Sessions : RecordOf(s).client # NoClient =>
               \E d \in Calls : /\ Announces(d) /\ pc[d] # "idle"
                                /\ post[d].session = s /\ post[d].client = RecordOf(s).client

\* The deferred function has not come to this stream.
Live(st) == stage[st] \in {"open", "forget"}

\* A registered endpoint stays registered while the stream lives, ...
EndpointKept == \A st \in Streams : /\ stage[st] = "idle" => advert[st] = NoAdvert
                                    /\ Live(st) /\ sid[st] # NoSession =>
                                         RecordOf(sid[st]).endpoint = sid[st]

\* ... and an announced client until its session's stream has ended.
ClientKept == \A s \in Sessions, c \in Calls :
               /\ \A st \in Streams : sid[st] = s => Live(st)
               /\ RecordOf(s).client = NoClient
               /\ Announces(c) /\ post[c].session = s
               => pc[c] \in {"idle", "dropped"}

\* The client of a stream it is said to have broken has left, and an upstream
\* is accused only where the client did not break the stream.
Accused == /\ \A st \in Streams : /\ left[st] = "client" => gone[st]
                                  /\ stage[st] = "drain" /\ ~gone[st] => left[st] # "client"
           /\ \A c \in Calls : span[c] = "abandonedByUpstream" =>
                \E st \in Streams : /\ sid[st] = post[c].session /\ sid[st] # NoSession
                                    /\ stage[st] = "done" /\ left[st] # "client"

SInv == OneStreamEach /\ OwnClient /\ NamesOwnClient /\ EndpointKept /\ ClientKept /\ Accused

\* The ways a session's record changes.
LEMMA RecordChanges ==
    ASSUME IInv, [Next]_vars, NEW s \in Sessions
    PROVE  \/ RecordOf(s)' = RecordOf(s)
           \/ \E c \in Calls : /\ Arrive(c) /\ Announces(c) /\ post[c].session = s
                               /\ RecordOf(s)' = [endpoint |-> RecordOf(s).endpoint,
                                                  client |-> post[c].client]
           \/ \E st \in Streams : /\ HandleEndpoint(st) /\ advert[st] = s
                                  /\ RecordOf(s)' = [endpoint |-> s, client |-> RecordOf(s).client]
           \/ \E st \in Streams : /\ Forget(st) /\ sid[st] = s
                                  /\ RecordOf(s)' = [endpoint |-> NoSession, client |-> NoClient]
<1> USE DEF IInv
<1>1. CASE UNCHANGED sessions
  BY <1>1 DEF RecordOf
<1>2. ASSUME NEW c \in Calls, Arrive(c), ~UNCHANGED sessions, RecordOf(s)' # RecordOf(s)
      PROVE  /\ Announces(c) /\ post[c].session = s
             /\ RecordOf(s)' = [endpoint |-> RecordOf(s).endpoint, client |-> post[c].client]
  <2>1. /\ Announces(c)
        /\ sessions' = [sessions EXCEPT ![post[c].session] =
                          [endpoint |-> RecordOf(post[c].session).endpoint, client |-> post[c].client]]
    BY <1>2 DEF Arrive
  <2>2. post[c].session = s
    BY <1>2, <2>1 DEF TypeOK, RecordOf
  <2>3. sessions'[s] = [endpoint |-> RecordOf(s).endpoint, client |-> post[c].client]
    BY <2>1, <2>2 DEF TypeOK
  <2>4. sessions'[s] # NoEntry
    <3>1. post[c].client \in Clients \cup {NoClient}
      BY WorkloadAssumption DEF TypeOK, Request
    <3>2. QED
      BY <2>3, <3>1, RecordTyped, RecordAssumption
  <2>5. QED
    BY <2>1, <2>2, <2>3, <2>4 DEF RecordOf
<1>3. ASSUME NEW st \in Streams, HandleEndpoint(st), ~UNCHANGED sessions, RecordOf(s)' # RecordOf(s)
      PROVE  /\ advert[st] = s
             /\ RecordOf(s)' = [endpoint |-> s, client |-> RecordOf(s).client]
  <2>1. sessions' = [sessions EXCEPT ![advert[st]] =
                       [endpoint |-> advert[st], client |-> RecordOf(advert[st]).client]]
    BY <1>3 DEF HandleEndpoint
  <2>2. advert[st] = s
    BY <1>3, <2>1 DEF TypeOK, RecordOf
  <2>3. sessions'[s] = [endpoint |-> s, client |-> RecordOf(s).client]
    BY <2>1, <2>2 DEF TypeOK
  <2>4. sessions'[s] # NoEntry
    BY <2>3, RecordTyped, RecordAssumption
  <2>5. QED
    BY <2>2, <2>3, <2>4 DEF RecordOf
<1>4. ASSUME NEW st \in Streams, Forget(st), RecordOf(s)' # RecordOf(s)
      PROVE  /\ sid[st] = s
             /\ RecordOf(s)' = [endpoint |-> NoSession, client |-> NoClient]
  <2>1. sessions' = [sessions EXCEPT ![sid[st]] = NoEntry]
    BY <1>4 DEF Forget
  <2>2. sid[st] = s
    BY <1>4, <2>1 DEF TypeOK, RecordOf
  <2>3. QED
    BY <2>1, <2>2 DEF TypeOK, RecordOf
<1>5. ASSUME NEW c \in Calls, PostStep(c), ~Arrive(c) PROVE UNCHANGED sessions
  BY <1>5 DEF PostStep, BadBody, StartSpan, StorePost, Route, Deliver, PostAccepted, PostFails, Expire
<1>6. ASSUME NEW st \in Streams, StreamStep(st), ~HandleEndpoint(st), ~Forget(st)
      PROVE  UNCHANGED sessions
  BY <1>6 DEF StreamStep, Connect, ConnectFails, ReadEndpoint, ReadAnswer, ReadServerRequest,
              HandleMessage, ClientLeaves, LeaveLoop, Drain
<1>7. CASE EvictorStep \/ UNCHANGED vars
  BY <1>1, <1>7 DEF EvictorStep, EvictTick, EvictorStops, vars
<1>8. QED
  BY <1>1, <1>2, <1>3, <1>4, <1>5, <1>6, <1>7 DEF Next

LEMMA PostsStart ==
    ASSUME TypeOK, [Next]_vars, NEW c \in Calls
    PROVE  /\ pc[c] # "idle" => pc'[c] # "idle"
           /\ pc[c] \in {"idle", "dropped"} => pc'[c] \in {"idle", "dropped"} \/ Arrive(c)
<1>1. CASE UNCHANGED pc
  BY <1>1
<1>2. ASSUME NEW d \in Calls, PostStep(d)
      PROVE  /\ pc[c] # "idle" => pc'[c] # "idle"
             /\ pc[c] \in {"idle", "dropped"} => pc'[c] \in {"idle", "dropped"} \/ Arrive(c)
  BY <1>2 DEF TypeOK, PostStep, BadBody, Arrive, StartSpan, StorePost, Route, Deliver,
              PostAccepted, PostFails, Expire, postVars
<1>3. ASSUME NEW st \in Streams, StreamStep(st) PROVE UNCHANGED pc
  BY <1>3 DEF StreamStep, Connect, ConnectFails, ReadEndpoint, ReadAnswer, ReadServerRequest,
              HandleEndpoint, HandleMessage, ClientLeaves, LeaveLoop, Forget, Drain, postVars
<1>4. CASE EvictorStep \/ UNCHANGED vars
  BY <1>4 DEF EvictorStep, EvictTick, EvictorStops, vars, postVars
<1>5. QED
  BY <1>1, <1>2, <1>3, <1>4 DEF Next

\* How one stream's own variables move.
LEMMA StreamMoves ==
    ASSUME IInv, [Next]_vars, NEW st \in Streams
    PROVE  /\ stage[st] \in {"drain", "done"} => stage'[st] \in {"drain", "done"}
           /\ stage[st] # "idle" => stage'[st] # "idle"
           /\ sid'[st] # sid[st] => HandleEndpoint(st)
           /\ advert'[st] # advert[st] => ReadEndpoint(st)
           /\ left'[st] # left[st] => LeaveLoop(st)
           /\ gone[st] => gone'[st]
           /\ stage[st] = "done" => stage'[st] = "done"
           /\ stage'[st] = "drain" => stage[st] = "drain" \/ stage[st] = "forget"
<1> USE DEF IInv, TypeOK
<1> DEFINE Moves == /\ stage[st] \in {"drain", "done"} => stage'[st] \in {"drain", "done"}
                    /\ stage[st] # "idle" => stage'[st] # "idle"
                    /\ sid'[st] # sid[st] => HandleEndpoint(st)
                    /\ advert'[st] # advert[st] => ReadEndpoint(st)
                    /\ left'[st] # left[st] => LeaveLoop(st)
                    /\ gone[st] => gone'[st]
                    /\ stage[st] = "done" => stage'[st] = "done"
                    /\ stage'[st] = "drain" => stage[st] = "drain" \/ stage[st] = "forget"
<1>1. CASE UNCHANGED streamVars
  BY <1>1 DEF streamVars
<1>2. ASSUME NEW x \in Streams, StreamStep(x) PROVE Moves
  <2>1. CASE Connect(x) \/ ConnectFails(x) \/ ClientLeaves(x) \/ LeaveLoop(x) \/ Forget(x) \/ Drain(x)
    BY <2>1 DEF Connect, ConnectFails, ClientLeaves, LeaveLoop, Reading, Forget, Drain
  <2>2. CASE ReadEndpoint(x) \/ HandleEndpoint(x)
    BY <2>2 DEF ReadEndpoint, HandleEndpoint
  <2>3. CASE ReadAnswer(x) \/ ReadServerRequest(x) \/ HandleMessage(x)
    BY <2>3 DEF ReadAnswer, ReadServerRequest, HandleMessage
  <2>4. QED
    BY <1>2, <2>1, <2>2, <2>3 DEF StreamStep
<1>3. QED
  BY <1>1, <1>2, StreamsAlone DEF Next

\* handleSSE's session id is the session its stream carries.
LEMMA SidAdvertised ==
    ASSUME IInv, NEW st \in Streams, sid[st] # NoSession
    PROVE  sid[st] = advert[st] /\ sid[st] \in Sessions
BY DEF IInv, StreamSound, TypeOK

LEMMA SessionInit == Init => SInv
<1> SUFFICES ASSUME Init PROVE SInv
  OBVIOUS
<1>1. \A s \in Sessions : RecordOf(s) = [endpoint |-> NoSession, client |-> NoClient]
  BY DEF Init, RecordOf
<1>2. OwnClient /\ ClientKept
  BY <1>1 DEF Init, OwnClient, ClientKept
<1>3. OneStreamEach /\ NamesOwnClient /\ EndpointKept /\ Accused
  BY RouteAssumption DEF Init, OneStreamEach, NamesOwnClient, EndpointKept, Accused, Live
<1>4. QED
  BY <1>2, <1>3 DEF SInv

LEMMA SessionStep ==
    ASSUME IInv, IInv', SInv, [Next]_vars
    PROVE  SInv'
<1> USE DEF SInv
<1>0. UNCHANGED post
  BY PostFixed
<1>1. OneStreamEach'
  <2> SUFFICES ASSUME NEW a \in Streams, NEW b \in Streams,
                      advert'[a] = advert'[b], advert'[a] \in Sessions, a # b
               PROVE  FALSE
    BY DEF OneStreamEach
  <2>1. ASSUME NEW x \in Streams, ReadEndpoint(x)
        PROVE  /\ \A y \in Streams \ {x} : advert'[y] = advert[y]
               /\ advert'[x] \in Sessions => \A y \in Streams : advert'[x] # advert[y]
    <3>1. PICK s \in Fresh : advert' = [advert EXCEPT ![x] = s]
      BY <2>1 DEF ReadEndpoint
    <3>2. s \in Sessions => \A y \in Streams : s # advert[y]
      BY <3>1, NoneAssumption DEF Fresh
    <3>3. QED
      BY <3>1, <3>2 DEF IInv, TypeOK
  <2>2. CASE ReadEndpoint(a) \/ ReadEndpoint(b)
    BY <2>1, <2>2
  <2>3. CASE ~ReadEndpoint(a) /\ ~ReadEndpoint(b)
    BY <2>3, StreamMoves DEF OneStreamEach
  <2>4. QED
    BY <2>2, <2>3
<1>2. OwnClient'
  <2> SUFFICES ASSUME NEW s \in Sessions, RecordOf(s)'.client # NoClient
               PROVE  \E d \in Calls : /\ Announces(d) /\ pc'[d] # "idle" /\ post[d].session = s
                                       /\ post[d].client = RecordOf(s)'.client
    BY <1>0, SameRequests DEF OwnClient
  <2>1. CASE RecordOf(s)'.client = RecordOf(s).client
    BY <2>1, PostsStart DEF OwnClient, IInv
  <2>2. ASSUME NEW c \in Calls, Arrive(c), Announces(c), post[c].session = s,
               RecordOf(s)'.client = post[c].client
        PROVE  Announces(c) /\ pc'[c] # "idle"
    BY <2>2 DEF Arrive, IInv, TypeOK
  <2>3. QED
    BY <2>1, <2>2, RecordChanges
<1>3. NamesOwnClient'
  <2> SUFFICES ASSUME NEW c \in Calls, label'[c] # NoClient
               PROVE  \E d \in Calls : /\ Announces(d) /\ pc'[d] # "idle"
                                       /\ post[d].session = post[c].session
                                       /\ post[d].client = label'[c]
    BY <1>0, SameRequests DEF NamesOwnClient
  <2>1. CASE label'[c] = label[c]
    BY <2>1, PostsStart DEF NamesOwnClient, IInv
  <2>2. CASE StartSpan(c)
    <3>1. label'[c] = ClientOf(post[c].session)
      BY <2>2 DEF StartSpan, IInv, TypeOK
    <3>2. post[c].session \in Sessions /\ label'[c] = RecordOf(post[c].session).client
      BY <3>1, WorkloadAssumption DEF ClientOf, IInv, TypeOK, Request
    <3>3. QED
      BY <3>2, PostsStart DEF OwnClient, IInv
  <2>3. ASSUME NEW d \in Calls, StartSpan(d), d # c PROVE label'[c] = label[c]
    BY <2>3 DEF StartSpan, IInv, TypeOK
  <2>4. ASSUME NEW d \in Calls, PostStep(d), ~StartSpan(d) PROVE label' = label
    BY <2>4 DEF PostStep, BadBody, Arrive, StorePost, Route, Deliver, PostAccepted, PostFails,
                Expire, postVars
  <2>5. ASSUME NEW st \in Streams, StreamStep(st) PROVE label' = label
    BY <2>5 DEF StreamStep, Connect, ConnectFails, ReadEndpoint, ReadAnswer, ReadServerRequest,
                HandleEndpoint, HandleMessage, ClientLeaves, LeaveLoop, Forget, Drain, postVars
  <2>6. ASSUME EvictorStep \/ UNCHANGED vars PROVE label' = label
    BY <2>6 DEF EvictorStep, EvictTick, EvictorStops, vars, postVars
  <2>7. QED
    BY <2>1, <2>2, <2>3, <2>4, <2>5, <2>6 DEF Next
<1>4. EndpointKept'
  <2>1. ASSUME NEW st \in Streams, stage'[st] = "idle" PROVE advert'[st] = NoAdvert
    <3>1. stage[st] = "idle"
      BY <2>1, StreamMoves
    <3>2. ~ReadEndpoint(st)
      BY <3>1 DEF ReadEndpoint, Reading
    <3>3. QED
      BY <3>1, <3>2, StreamMoves DEF EndpointKept
  <2>2. ASSUME NEW st \in Streams, NEW s \in Sessions, Live(st)', sid'[st] = s
        PROVE  RecordOf(s)'.endpoint = s
    <3>1. s # NoSession
      BY NoneAssumption
    <3>2. CASE sid[st] = s
      <4>1. Live(st)
        <5>1. stage[st] # "idle"
          BY <3>1, <3>2 DEF EndpointKept, IInv, StreamSound
        <5>2. stage[st] \notin {"drain", "done"}
          BY <2>2, StreamMoves DEF Live
        <5>3. QED
          BY <5>1, <5>2 DEF Live, IInv, TypeOK
      <4>2. RecordOf(s).endpoint = s
        BY <3>1, <3>2, <4>1 DEF EndpointKept
      <4>3. ASSUME NEW x \in Streams, Forget(x), sid[x] = s PROVE FALSE
        <5>1. advert[x] = s /\ advert[st] = s
          BY <3>1, <3>2, <4>3, SidAdvertised
        <5>2. x = st
          BY <5>1 DEF OneStreamEach
        <5>3. QED
          BY <2>2, <4>3, <5>2 DEF Forget, Live, IInv, TypeOK
      <4>4. QED
        BY <4>2, <4>3, RecordChanges
    <3>3. CASE HandleEndpoint(st)
      <4>1. advert[st] = s /\ sessions'[s] = [endpoint |-> s, client |-> RecordOf(s).client]
        BY <2>2, <3>1, <3>3 DEF HandleEndpoint, IInv, TypeOK, StreamSound
      <4>2. sessions'[s] # NoEntry
        BY <4>1, RecordTyped, RecordAssumption DEF IInv
      <4>3. QED
        BY <4>1, <4>2 DEF RecordOf
    <3>4. QED
      BY <2>2, <3>2, <3>3, StreamMoves
  <2>3. \A st \in Streams : sid'[st] # NoSession => sid'[st] \in Sessions
    BY DEF IInv, TypeOK
  <2>4. QED
    BY <2>1, <2>2, <2>3 DEF EndpointKept, Live
<1>5. ClientKept'
  <2> SUFFICES ASSUME NEW s \in Sessions, NEW c \in Calls,
                      \A st \in Streams : sid'[st] = s => Live(st)',
                      RecordOf(s)'.client = NoClient,
                      Announces(c), post[c].session = s
               PROVE  pc'[c] \in {"idle", "dropped"}
    BY <1>0, SameRequests DEF ClientKept
  <2>1. ASSUME NEW st \in Streams, sid[st] = s PROVE Live(st)
    <3>1. sid[st] # NoSession
      BY <2>1, NoneAssumption
    <3>2. Live(st)'
      BY <2>1, <3>1, StreamsEndOnce
    <3>3. stage[st] \notin {"drain", "done"}
      BY <3>2, StreamMoves DEF Live
    <3>4. stage[st] # "idle"
      BY <3>1 DEF EndpointKept, IInv, StreamSound
    <3>5. QED
      BY <3>3, <3>4 DEF Live, IInv, TypeOK
  <2>2. ASSUME NEW x \in Streams, Forget(x), sid[x] = s PROVE FALSE
    <3>1. stage'[x] = "drain" /\ sid'[x] = s
      BY <2>2 DEF Forget, IInv, TypeOK
    <3>2. QED
      BY <3>1 DEF Live
  <2>3. ~Arrive(c)
    <3>1. ASSUME Arrive(c) PROVE RecordOf(s)'.client # NoClient
      <4>1. sessions'[s] = [endpoint |-> RecordOf(s).endpoint, client |-> post[c].client]
        BY <3>1 DEF Arrive, IInv, TypeOK
      <4>2. post[c].client \in Clients \cup {NoClient} /\ post[c].client # NoClient
        BY WorkloadAssumption DEF Announces, IInv, TypeOK, Request
      <4>3. sessions'[s] # NoEntry
        BY <4>1, <4>2, RecordTyped, RecordAssumption DEF IInv
      <4>4. QED
        BY <4>1, <4>2, <4>3 DEF RecordOf
    <3>2. QED
      BY <3>1
  <2>4. RecordOf(s).client = NoClient
    <3>1. ASSUME NEW d \in Calls, Announces(d), RecordOf(s)'.client = post[d].client PROVE FALSE
      BY <3>1 DEF Announces
    <3>2. QED
      BY <2>2, <3>1, RecordChanges
  <2>5. pc[c] \in {"idle", "dropped"}
    BY <2>1, <2>4 DEF ClientKept
  <2>6. QED
    BY <2>3, <2>5, PostsStart DEF IInv
<1>6. Accused'
  <2>1. ASSUME NEW st \in Streams PROVE /\ left'[st] = "client" => gone'[st]
                                        /\ stage'[st] = "drain" /\ ~gone'[st] => left'[st] # "client"
    <3>1. CASE LeaveLoop(st)
      BY <3>1 DEF LeaveLoop, IInv, TypeOK
    <3>2. CASE left'[st] = left[st]
      BY <3>2, StreamMoves DEF Accused
    <3>3. QED
      BY <3>1, <3>2, StreamMoves
  <2>2. ASSUME NEW c \in Calls, span'[c] = "abandonedByUpstream"
        PROVE  \E st \in Streams : /\ sid'[st] = post[c].session /\ sid'[st] # NoSession
                                   /\ stage'[st] = "done" /\ left'[st] # "client"
    <3>1. CASE span[c] = "abandonedByUpstream"
      <4>1. PICK st \in Streams : /\ sid[st] = post[c].session /\ sid[st] # NoSession
                                  /\ stage[st] = "done" /\ left[st] # "client"
        BY <3>1 DEF Accused
      <4>2. ~LeaveLoop(st)
        BY <4>1 DEF LeaveLoop, Reading
      <4>3. QED
        BY <4>1, <4>2, StreamMoves, StreamsEndOnce
    <3>2. ASSUME NEW st \in Streams, Drain(st), span[c] # "abandonedByUpstream"
          PROVE  /\ sid'[st] = post[c].session /\ sid'[st] # NoSession
                 /\ stage'[st] = "done" /\ left'[st] # "client"
      <4>1. c \in Entries(reqMap, SessionKeys(sid[st])) /\ ~gone[st]
        BY <2>2, <3>2 DEF Drain, EndSpan
      <4>2. PICK k \in SessionKeys(sid[st]) : reqMap[k] = c
        BY <4>1 DEF Entries
      <4>3. Key(c) = k
        BY <4>2 DEF IInv, MapSound, SessionKeys
      <4>4. sid[st] = post[c].session /\ sid[st] # NoSession
        BY <4>2, <4>3 DEF SessionKeys, Key, CorrelationKey
      <4>5. left[st] # "client"
        BY <3>2, <4>1 DEF Accused, Drain
      <4>6. QED
        BY <3>2, <4>4, <4>5 DEF Drain, IInv, TypeOK
    <3>3. ASSUME NEW cs, NEW s, s # "abandonedByUpstream", span' = EndSpan(cs, s)
          PROVE  span[c] = "abandonedByUpstream"
      BY <2>2, <3>3 DEF EndSpan
    <3>4. ASSUME NEW d \in Calls, PostStep(d) PROVE span[c] = "abandonedByUpstream"
      <4>1. CASE PostFails(d)
        BY <3>3, <4>1 DEF PostFails
      <4>2. CASE StartSpan(d)
        BY <2>2, <4>2 DEF StartSpan, IInv, TypeOK
      <4>3. QED
        BY <2>2, <3>4, <4>1, <4>2 DEF PostStep, BadBody, Arrive, StorePost, Route, Deliver,
                                      PostAccepted, Expire
    <3>5. ASSUME NEW st \in Streams, StreamStep(st), ~Drain(st)
          PROVE  span[c] = "abandonedByUpstream"
      <4>1. CASE HandleMessage(st)
        <5>1. line[st].outcome # "abandonedByUpstream"
          BY <4>1 DEF HandleMessage, IInv, TypeOK, Line
        <5>2. QED
          BY <3>3, <4>1, <5>1 DEF HandleMessage
      <4>2. QED
        BY <2>2, <3>5, <4>1 DEF StreamStep, Connect, ConnectFails, ReadEndpoint, ReadAnswer,
             ReadServerRequest, HandleEndpoint, ClientLeaves, LeaveLoop, Forget
    <3>6. ASSUME EvictTick PROVE span[c] = "abandonedByUpstream"
      BY <3>3, <3>6 DEF EvictTick
    <3>7. ASSUME EvictorStops \/ UNCHANGED vars PROVE span[c] = "abandonedByUpstream"
      BY <2>2, <3>7 DEF EvictorStops, vars
    <3>8. QED
      BY <3>1, <3>2, <3>4, <3>5, <3>6, <3>7 DEF Next, EvictorStep
  <2>3. QED
    BY <1>0, <2>1, <2>2 DEF Accused
<1>7. QED
  BY <1>1, <1>2, <1>3, <1>4, <1>5, <1>6

THEOREM SessionInvariance == Spec => []SInv
BY SessionInit, SessionStep, Invariance, PTL DEF Spec

\* No span carries the name of another session's client.
THEOREM ClientsNotMixed == Spec => []NamesOwnClient
<1>1. SInv => NamesOwnClient
  BY DEF SInv
<1>2. QED
  BY <1>1, SessionInvariance, PTL

\* The endpoint event and the initialize never undo each other's record.
THEOREM NothingForgotten == Spec => []SessionRemembers
<1>1. ASSUME IInv, SInv PROVE SessionRemembers
  <2> SUFFICES ASSUME NEW st \in Streams, stage[st] = "open", sid[st] # NoSession
               PROVE  /\ RecordOf(sid[st]).endpoint = sid[st]
                      /\ RecordOf(sid[st]).client = NoClient =>
                           \A c \in Calls : Announces(c) /\ post[c].session = sid[st] =>
                               pc[c] \in {"idle", "dropped"}
    BY DEF SessionRemembers
  <2>1. sid[st] = advert[st] /\ sid[st] \in Sessions
    BY <1>1, SidAdvertised
  <2>2. RecordOf(sid[st]).endpoint = sid[st]
    BY <1>1 DEF SInv, EndpointKept, Live
  <2>3. ASSUME NEW x \in Streams, sid[x] = sid[st] PROVE Live(x)
    <3>1. sid[x] = advert[x]
      BY <1>1, <2>3, SidAdvertised
    <3>2. x = st
      BY <1>1, <2>1, <2>3, <3>1 DEF SInv, OneStreamEach
    <3>3. QED
      BY <3>2 DEF Live
  <2>4. QED
    BY <1>1, <2>1, <2>2, <2>3 DEF SInv, ClientKept
<1>2. QED
  BY <1>1, Invariance, SessionInvariance, PTL

\* An upstream is never blamed for a stream its client broke.
THEOREM BlameIsTrue == Spec => []BlameTrue
<1>1. ASSUME IInv, SInv PROVE BlameTrue
  <2> SUFFICES ASSUME NEW c \in Calls, NEW st \in Streams,
                      span[c] = "abandonedByUpstream", post[c].session = sid[st]
               PROVE  left[st] # "client"
    BY DEF BlameTrue
  <2>1. PICK x \in Streams : /\ sid[x] = post[c].session /\ sid[x] # NoSession
                             /\ left[x] # "client"
    BY <1>1 DEF SInv, Accused
  <2>2. advert[x] = advert[st] /\ advert[x] \in Sessions
    BY <1>1, <2>1, SidAdvertised
  <2>3. QED
    BY <1>1, <2>1, <2>2 DEF SInv, OneStreamEach
<1>2. QED
  BY <1>1, Invariance, SessionInvariance, PTL

\* The endpoint of an ended stream does not come back: only the stream's own
\* endpoint event could bring it, and that is behind it.
THEOREM EndpointsForgotten == Spec => []EndpointForgotten
<1>1. Init => EndpointForgotten
  BY DEF Init, EndpointForgotten
<1>2. ASSUME IInv, SInv, EndpointForgotten, [Next]_vars PROVE EndpointForgotten'
  <2> SUFFICES ASSUME NEW st \in Streams, stage'[st] \in {"drain", "done"}, sid'[st] # NoSession
               PROVE  (RecordOf(sid[st]).endpoint = NoSession)'
    BY DEF EndpointForgotten
  <2>0. UNCHANGED post
    BY <1>2, PostFixed
  <2>1. ~HandleEndpoint(st)
    <3>1. HandleEndpoint(st) => stage[st] = "open" /\ UNCHANGED stage
      BY <1>2 DEF IInv, StreamSound, HandleEndpoint
    <3>2. QED
      BY <3>1
  <2>2. sid'[st] = sid[st]
    BY <1>2, <2>1, StreamMoves
  <2>3. sid[st] # NoSession /\ sid[st] = advert[st] /\ sid[st] \in Sessions
    BY <1>2, <2>2, SidAdvertised
  <2>4. PICK s \in Sessions : s = sid[st]
    BY <2>3
  <2>5. RecordOf(s)'.endpoint = RecordOf(s).endpoint \/ RecordOf(s)'.endpoint = NoSession
    <3>1. ASSUME NEW x \in Streams, HandleEndpoint(x), advert[x] = s PROVE FALSE
      BY <1>2, <2>1, <2>3, <2>4, <3>1 DEF SInv, OneStreamEach
    <3>2. QED
      BY <1>2, <3>1, RecordChanges
  <2>6. RecordOf(s)' = RecordOf(sid[st])'
    BY <2>2, <2>4
  <2>7. CASE stage[st] \in {"drain", "done"}
    BY <1>2, <2>3, <2>5, <2>6, <2>7, <2>4 DEF EndpointForgotten
  <2>8. CASE Forget(st)
    <3>1. sessions'[s] = NoEntry
      BY <1>2, <2>3, <2>8, <2>4 DEF Forget, IInv, TypeOK
    <3>2. QED
      BY <2>6, <3>1 DEF RecordOf
  <2>9. CASE stage[st] \notin {"drain", "done"} /\ ~Forget(st)
    <3>1. ASSUME NEW x \in Streams, StreamStep(x) PROVE ConnectFails(st) \/ LeaveLoop(st)
      <4>1. CASE x = st
        BY <1>2, <2>9, <3>1, <4>1 DEF IInv, TypeOK, StreamStep, Connect, ReadEndpoint, ReadAnswer,
           ReadServerRequest, HandleEndpoint, HandleMessage, ClientLeaves, Drain
      <4>2. CASE x # st
        BY <1>2, <2>9, <3>1, <4>2 DEF IInv, TypeOK, StreamStep, Connect, ConnectFails, ReadEndpoint,
           ReadAnswer, ReadServerRequest, HandleEndpoint, HandleMessage, ClientLeaves, LeaveLoop,
           Forget, Drain
      <4>3. QED
        BY <4>1, <4>2
    <3>2. ConnectFails(st) \/ LeaveLoop(st)
      BY <1>2, <2>9, <3>1, StreamsAlone DEF Next, streamVars
    <3>3. QED
      BY <1>2, <2>3, <2>9, <3>2, RouteAssumption
         DEF ConnectFails, LeaveLoop, Reading, IInv, TypeOK, SInv, EndpointKept
  <2>10. QED
    BY <2>7, <2>8, <2>9
<1>3. QED
  BY <1>1, <1>2, Invariance, SessionInvariance, PTL DEF Spec
=============================================================================
