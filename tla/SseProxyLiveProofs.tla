------------------------- MODULE SseProxyLiveProofs -------------------------
(***************************************************************************)
(* That no span of SseProxy stays open for ever, proved for every set of   *)
(* calls, streams, sessions and ids and every workload.                    *)
(*                                                                         *)
(* As in ServeLiveProofs, fairness is first taken apart into what the      *)
(* proof needs: the goroutine that is to store a call does so, an entry    *)
(* grows old, and the evictor's ticker ticks on (ProxyRuns).               *)
(***************************************************************************)
EXTENDS SseProxyProofs

\* When time and the ticker have something to do: an entry that grows old, and
\* one that is old.
ExpiryDue(c) == ~expired[c] /\ \E k \in Keys : reqMap[k] = c
EvictionDue == evictor = "running" /\ \E c \in Calls, k \in Keys : reqMap[k] = c /\ expired[c]

\* What ENABLED says of these three actions: each may happen when its own guard
\* holds.  Nothing but their definitions is behind it; it is a hypothesis below
\* because no installed prover reasons about ENABLED.
NeverHeldUp ==
    /\ \A c \in Calls : /\ pc[c] = "store" => ENABLED <<StorePost(c)>>_vars
                        /\ ExpiryDue(c) => ENABLED <<Expire(c)>>_vars
    /\ EvictionDue => ENABLED <<EvictTick>>_vars

PostRuns(c)   == []<>~(pc[c] = "store") \/ []<><<StorePost(c)>>_vars
TimePasses(c) == []<>~ExpiryDue(c) \/ []<><<Expire(c)>>_vars
EvictorTicks  == []<>~EvictionDue \/ []<><<EvictTick>>_vars

ProxyRuns == /\ \A c \in Calls : PostRuns(c) /\ TimePasses(c)
             /\ EvictorTicks

\* A call's span is open, and the POST that stores it is past that.
IsOpen(c)  == span[c] = "open"
Stored(c)  == pc[c] \in {"route", "send", "accepted", "failed"}
InTable(c) == \E k \in Keys : reqMap[k] = c
Ended(c)   == span[c] \in Final

-----------------------------------------------------------------------------
(* States *)

\* An open span is on its way into the table, in it, or was pushed out.
LEMMA OpenPlaced ==
    ASSUME NEW c \in Calls
    PROVE  IInv /\ IsOpen(c) =>
               pc[c] = "store" \/ (Stored(c) /\ InTable(c)) \/ StoredOver(c)
<1> SUFFICES ASSUME IInv, IsOpen(c), pc[c] # "store", ~StoredOver(c)
             PROVE  Stored(c) /\ InTable(c)
  OBVIOUS
<1>1. reqMap[Key(c)] = c
  BY DEF IInv, SpanAccounted, IsOpen
<1>2. Traced(c)
  BY DEF IInv, SpanStaged, IsOpen
<1>3. Key(c) \in Keys
  BY <1>2, TracedKey DEF IInv
<1>4. QED
  BY <1>1, <1>3 DEF IInv, MapSound, Stored, InTable

LEMMA TableOpen ==
    ASSUME NEW c \in Calls
    PROVE  IInv /\ InTable(c) => IsOpen(c) /\ Stored(c)
BY DEF IInv, MapSound, InTable, IsOpen, Stored

-----------------------------------------------------------------------------
(* Steps *)

\* What ends spans ends them with a final status.
LEMMA EndsFinally ==
    ASSUME NEW c \in Calls, NEW cs, NEW s \in Final, IsOpen(c), span' = EndSpan(cs, s)
    PROVE  IsOpen(c)' \/ Ended(c)'
BY DEF EndSpan, IsOpen, Ended

LEMMA OpenStep ==
    ASSUME NEW c \in Calls
    PROVE  IInv /\ IsOpen(c) /\ [Next]_vars => IsOpen(c)' \/ Ended(c)'
<1> SUFFICES ASSUME IInv, IsOpen(c), [Next]_vars
             PROVE  IsOpen(c)' \/ Ended(c)'
  OBVIOUS
<1>1. CASE UNCHANGED span
  BY <1>1 DEF IsOpen
<1>2. ASSUME NEW d \in Calls, PostStep(d) PROVE IsOpen(c)' \/ Ended(c)'
  <2>1. CASE StartSpan(d)
    BY <2>1 DEF StartSpan, IsOpen, IInv, TypeOK
  <2>2. CASE PostFails(d)
    BY <2>2, EndsFinally DEF PostFails, Final
  <2>3. BadBody(d) \/ Arrive(d) \/ StorePost(d) \/ Route(d) \/ Deliver(d) \/ PostAccepted(d)
        \/ Expire(d) => UNCHANGED span
    BY DEF BadBody, Arrive, StorePost, Route, Deliver, PostAccepted, Expire
  <2>4. QED
    BY <1>1, <1>2, <2>1, <2>2, <2>3 DEF PostStep
<1>3. ASSUME NEW st \in Streams, StreamStep(st) PROVE IsOpen(c)' \/ Ended(c)'
  <2>1. CASE HandleMessage(st)
    <3>1. line[st].outcome \in Final
      BY <2>1 DEF HandleMessage, IInv, TypeOK, Line, Final
    <3>2. QED
      BY <2>1, <3>1, EndsFinally DEF HandleMessage
  <2>2. CASE Drain(st)
    BY <2>2, EndsFinally DEF Drain, Final
  <2>3. Connect(st) \/ ConnectFails(st) \/ ReadEndpoint(st) \/ ReadAnswer(st)
        \/ ReadServerRequest(st) \/ HandleEndpoint(st) \/ ClientLeaves(st) \/ LeaveLoop(st)
        \/ Forget(st) => UNCHANGED span
    BY DEF Connect, ConnectFails, ReadEndpoint, ReadAnswer, ReadServerRequest, HandleEndpoint,
           ClientLeaves, LeaveLoop, Forget, postVars
  <2>4. QED
    BY <1>1, <1>3, <2>1, <2>2, <2>3 DEF StreamStep
<1>4. CASE EvictTick
  BY <1>4, EndsFinally DEF EvictTick, Final
<1>5. CASE EvictorStops \/ UNCHANGED vars
  BY <1>1, <1>5 DEF EvictorStops, vars
<1>6. QED
  BY <1>2, <1>3, <1>4, <1>5 DEF Next, EvictorStep

\* No POST goes back, no entry grows young, no evictor starts again.
LEMMA NoWayBack ==
    ASSUME NEW c \in Calls
    PROVE  IInv /\ [Next]_vars => /\ Stored(c) => Stored(c)'
                                  /\ expired[c] => expired[c]'
                                  /\ evictor = "stopped" => (evictor = "stopped")'
<1> SUFFICES ASSUME IInv, [Next]_vars
             PROVE  /\ Stored(c) => Stored(c)'
                    /\ expired[c] => expired[c]'
                    /\ evictor = "stopped" => (evictor = "stopped")'
  OBVIOUS
<1>0. pc \in [Calls -> {"idle", "dropped", "start", "store", "route", "send", "accepted", "failed"}]
      /\ expired \in [Calls -> BOOLEAN]
  BY DEF IInv, TypeOK
<1> USE <1>0 DEF Stored, streamVars, postVars
<1>1. ASSUME NEW d \in Calls, BadBody(d) \/ Arrive(d) \/ StartSpan(d) \/ StorePost(d)
      PROVE /\ Stored(c) => Stored(c)'
            /\ UNCHANGED <<expired, evictor>>
  BY <1>1 DEF BadBody, Arrive, StartSpan, StorePost
<1>2. ASSUME NEW d \in Calls, Route(d) \/ PostAccepted(d) \/ PostFails(d)
      PROVE /\ Stored(c) => Stored(c)'
            /\ UNCHANGED <<expired, evictor>>
  BY <1>2 DEF Route, PostAccepted, PostFails
<1>3. ASSUME NEW d \in Calls, Deliver(d) \/ Expire(d)
      PROVE UNCHANGED <<pc, evictor>> /\ (expired[c] => expired[c]')
  BY <1>3 DEF Deliver, Expire
<1>4. ASSUME NEW st \in Streams, StreamStep(st)
      PROVE UNCHANGED <<pc, expired, evictor>>
  BY <1>4 DEF StreamStep, Connect, ConnectFails, ReadEndpoint, ReadAnswer, ReadServerRequest,
              HandleEndpoint, HandleMessage, ClientLeaves, LeaveLoop, Forget, Drain
<1>5. EvictorStep => UNCHANGED <<pc, expired>> /\ (evictor' = "stopped" \/ UNCHANGED evictor)
  BY DEF EvictorStep, EvictTick, EvictorStops
<1>6. UNCHANGED vars => UNCHANGED <<pc, expired, evictor>>
  BY DEF vars
<1>7. QED
  BY <1>1, <1>2, <1>3, <1>4, <1>5, <1>6 DEF Next, PostStep

\* A tick removes every entry that is old and ends its span.
LEMMA TickEnds ==
    ASSUME NEW c \in Calls, NEW k \in Keys
    PROVE  /\ IInv /\ InTable(c) /\ expired[c] /\ EvictTick => Ended(c)'
           /\ IInv /\ reqMap[k] = c /\ expired[c] /\ EvictTick => ~(reqMap[k] = c)'
<1> DEFINE old == {d \in Calls : expired[d]}
           ks == StaleKeys(reqMap, old)
<1>1. ASSUME IInv, expired[c], EvictTick, NEW l \in Keys, reqMap[l] = c
      PROVE  Ended(c)' /\ reqMap'[l] # c
  <2>1. l \in ks
    BY <1>1 DEF StaleKeys
  <2>2. c \in Entries(reqMap, ks)
    BY <1>1, <2>1, NoneAssumption DEF Entries
  <2>3. span'[c] = "timeout" /\ reqMap'[l] = NoCall
    BY <1>1, <2>1, <2>2 DEF EvictTick, EndSpan, Without
  <2>4. QED
    BY <2>3, NoneAssumption DEF Ended, Final
<1>2. QED
  BY <1>1 DEF InTable

LEMMA GrowsOld ==
    ASSUME NEW c \in Calls
    PROVE  IInv /\ Expire(c) => expired[c]'
BY DEF Expire, IInv, TypeOK

LEMMA StoresOnce ==
    ASSUME NEW c \in Calls
    PROVE  IInv /\ StorePost(c) => ~(pc[c] = "store")'
BY DEF StorePost, IInv, TypeOK

-----------------------------------------------------------------------------
(* The life of one entry, and of one span *)

LEMMA GetsStored ==
    ASSUME NEW c \in Calls
    PROVE  Spec /\ PostRuns(c) =>
               (IsOpen(c) ~> (IsOpen(c) /\ Stored(c)) \/ Ended(c) \/ StoredOver(c))
<1>1. IInv /\ IsOpen(c) => pc[c] = "store" \/ Stored(c) \/ StoredOver(c)
  BY OpenPlaced
<1>2. IInv /\ IsOpen(c) /\ [Next]_vars => IsOpen(c)' \/ Ended(c)'
  BY OpenStep
<1>3. IInv /\ <<StorePost(c)>>_vars => ~(pc[c] = "store")'
  BY StoresOnce
<1>4. QED
  BY <1>1, <1>2, <1>3, Invariance, PTL DEF Spec, PostRuns

LEMMA GetsOld ==
    ASSUME NEW c \in Calls
    PROVE  Spec /\ TimePasses(c) =>
               (IsOpen(c) /\ Stored(c) ~>
                   (IsOpen(c) /\ Stored(c) /\ expired[c]) \/ Ended(c) \/ StoredOver(c))
<1>1. IInv /\ IsOpen(c) /\ Stored(c) /\ ~expired[c] => ExpiryDue(c) \/ StoredOver(c)
  BY OpenPlaced DEF ExpiryDue, InTable, Stored
<1>2. IInv /\ IsOpen(c) /\ Stored(c) /\ [Next]_vars => (IsOpen(c)' \/ Ended(c)') /\ Stored(c)'
  BY OpenStep, NoWayBack
<1>3. IInv /\ <<Expire(c)>>_vars => expired[c]'
  BY GrowsOld
<1>4. QED
  BY <1>1, <1>2, <1>3, Invariance, PTL DEF Spec, TimePasses

LEMMA GetsEvicted ==
    ASSUME NEW c \in Calls
    PROVE  Spec /\ EvictorTicks =>
               (IsOpen(c) /\ Stored(c) /\ expired[c] ~>
                   Ended(c) \/ StoredOver(c) \/ evictor = "stopped")
<1>1. IInv /\ IsOpen(c) /\ Stored(c) => InTable(c) \/ StoredOver(c)
  BY OpenPlaced DEF Stored
<1>2. IInv /\ InTable(c) /\ expired[c] => EvictionDue \/ evictor = "stopped"
  BY DEF InTable, EvictionDue, IInv, TypeOK
<1>3. IInv /\ IsOpen(c) /\ Stored(c) /\ expired[c] /\ [Next]_vars
          => (IsOpen(c)' \/ Ended(c)') /\ Stored(c)' /\ expired[c]'
  BY OpenStep, NoWayBack
<1>4. IInv /\ InTable(c) /\ expired[c] /\ <<EvictTick>>_vars => Ended(c)'
  <2>1. InTable(c) => \E k \in Keys : TRUE
    BY DEF InTable
  <2>2. QED
    BY <2>1, TickEnds
<1>5. QED
  BY <1>1, <1>2, <1>3, <1>4, Invariance, PTL DEF Spec, EvictorTicks

\* Whatever entry the table holds goes, under whatever key, with or without a
\* session, and whether or not another call shares the key.
LEMMA EntryGoes ==
    ASSUME NEW c \in Calls, NEW k \in Keys
    PROVE  Spec /\ TimePasses(c) /\ EvictorTicks =>
               (reqMap[k] = c ~> ~(reqMap[k] = c) \/ evictor = "stopped")
<1>1. IInv /\ reqMap[k] = c /\ ~expired[c] => ExpiryDue(c)
  BY DEF ExpiryDue
<1>2. IInv /\ reqMap[k] = c /\ expired[c] => EvictionDue \/ evictor = "stopped"
  BY DEF EvictionDue, IInv, TypeOK
<1>3. IInv /\ expired[c] /\ [Next]_vars => expired[c]'
  BY NoWayBack
<1>4. IInv /\ <<Expire(c)>>_vars => expired[c]'
  BY GrowsOld
<1>5. IInv /\ reqMap[k] = c /\ expired[c] /\ <<EvictTick>>_vars => ~(reqMap[k] = c)'
  BY TickEnds
<1>6. QED
  BY <1>1, <1>2, <1>3, <1>4, <1>5, Invariance, PTL DEF Spec, TimePasses, EvictorTicks

-----------------------------------------------------------------------------
(* The theorems *)

\* No entry stays in the in-flight table for ever, if only time passes and the
\* evictor ticks until it is stopped: also one that its own POST and stream
\* will never look at again.
EntriesLeave ==
    \A c \in Calls, k \in Keys : reqMap[k] = c ~> ~(reqMap[k] = c) \/ evictor = "stopped"

THEOREM EntriesEvicted == Spec /\ ProxyRuns => EntriesLeave
<1>1. ASSUME NEW c \in Calls PROVE ProxyRuns => TimePasses(c) /\ EvictorTicks
  BY <1>1 DEF ProxyRuns
<1>2. ASSUME NEW c \in Calls, NEW k \in Keys
      PROVE  Spec /\ ProxyRuns => (reqMap[k] = c ~> ~(reqMap[k] = c) \/ evictor = "stopped")
  BY <1>1, <1>2, EntryGoes, PTL
<1>3. QED
  BY <1>2 DEF EntriesLeave

\* No span stays open for ever, though client and upstream fall silent: what
\* the POST stores grows old, and the evictor ends it.
THEOREM SpansEndIfItRuns == Spec /\ ProxyRuns => SpanEventuallyEnds
<1>1. ASSUME NEW c \in Calls
      PROVE  ProxyRuns => PostRuns(c) /\ TimePasses(c) /\ EvictorTicks
  BY <1>1 DEF ProxyRuns
<1>2. ASSUME NEW c \in Calls
      PROVE  Spec /\ ProxyRuns =>
                 (IsOpen(c) ~> Ended(c) \/ StoredOver(c) \/ evictor = "stopped")
  BY <1>1, <1>2, GetsStored, GetsOld, GetsEvicted, PTL
<1>3. QED
  BY <1>2 DEF SpanEventuallyEnds, IsOpen, Ended

\* The fairness of the specification is that the proxy runs, as nothing that
\* is due is held up.
LEMMA FairProxyRuns == Fairness /\ []NeverHeldUp => ProxyRuns
<1>1. ASSUME NEW c \in Calls
      PROVE  NeverHeldUp => /\ pc[c] = "store" => ENABLED <<StorePost(c)>>_vars
                            /\ ExpiryDue(c) => ENABLED <<Expire(c)>>_vars
                            /\ EvictionDue => ENABLED <<EvictTick>>_vars
  BY <1>1 DEF NeverHeldUp
<1>2. NeverHeldUp => (EvictionDue => ENABLED <<EvictTick>>_vars)
  BY DEF NeverHeldUp
<1>3. ASSUME NEW c \in Calls
      PROVE  Fairness => CallFairness(c)
  BY <1>3 DEF Fairness
<1>4. ASSUME NEW c \in Calls
      PROVE  Fairness /\ []NeverHeldUp => PostRuns(c) /\ TimePasses(c)
  BY <1>1, <1>3, <1>4, PTL DEF CallFairness, PostRuns, TimePasses
<1>5. Fairness => EvictorFairness
  BY DEF Fairness
<1>6. Fairness /\ []NeverHeldUp => EvictorTicks
  BY <1>2, <1>5, PTL DEF EvictorFairness, EvictorTicks
<1>7. QED
  BY <1>4, <1>6 DEF ProxyRuns

THEOREM SpansEndUnderFairness == FairSpec /\ []NeverHeldUp => SpanEventuallyEnds
BY SpansEndIfItRuns, FairProxyRuns, PTL DEF FairSpec
=============================================================================
