-------------------------- MODULE StreamableProxy --------------------------
(***************************************************************************)
(* The proxy for the Streamable HTTP transport (streamable.go): a request  *)
(* and its response share one POST, so there is no in-flight table and no  *)
(* evictor.  Each handler keeps its span to itself; the handlers share     *)
(* only the client identity that the last initialize announced.            *)
(*                                                                         *)
(* That identity is two string fields without a lock.  They are one        *)
(* variable here, and Torn is any mixture a read or a write that overlaps  *)
(* another write may leave.                                                *)
(*                                                                         *)
(* A response body is a sequence of lines, cut anywhere when the upstream  *)
(* breaks or the client goes.  Its copy is complete before it is parsed,   *)
(* so the body is drawn whole (Copy).  Methods other than POST are left    *)
(* out.                                                                    *)
(***************************************************************************)
EXTENDS Sequences, Naturals, Filter, JsonRpc

CONSTANTS Calls, Clients,
          Bodies,      \* the response bodies an upstream may send
          Workloads,   \* the request mixes a behaviour may start from
          NoClient, Torn

Unparseable == "unparseable"   \* a body ParseRequest rejects

Request == [id : RawId, method : Methods \cup {Unparseable},
            client : Clients \cup {NoClient}]

\* The lines of a body.  Data lines hold a JSON-RPC message ("doc"), its first
\* or second half, white space ("prime") or anything else ("junk"); a message
\* without an id is a notification, a line that is no message says "result".
\* "other" is a line the scanner skips, "long" one over maxSSELine.
Line == [kind : {"blank", "other", "long", "prime", "junk", "doc", "head", "tail"},
         id : RawId, says : Says]

ASSUME WorkloadAssumption == Workloads \subseteq [Calls -> Request]
ASSUME BodyAssumption == Bodies \subseteq Seq(Line)
\* A mixture of two identities is not the empty one.
ASSUME TornAssumption == Torn # NoClient

VARIABLES
    post,    \* the request each call carries, and who sent it; chosen once
    pc,      \* where ServeHTTP stands for a call
    client,  \* clientName and clientVer
    raced,   \* the initializes being written whose write overlaps another's
    label,   \* the client identity put on the call's span
    span,    \* its span: none, open, or the status it ended with
    form,    \* what its response is: none, json, events
    body,    \* the lines of the response
    next,    \* the next line endSpanFromEventStream reads
    data     \* its dataLines, by their place in the body

vars == <<post, pc, client, raced, label, span, form, body, next, data>>

\* How a span ends: mcp.status, told apart by what its error message says.  Of
\* these "failed" is written as mcp.status error, like an error that is answered.
Final == {"ok", "error", "failed", "abandoned"}

Traced(c) == /\ post[c].method # Unparseable
             /\ ShouldTrace(post[c].method)
             /\ Keyed(post[c].id)

IsData(l) == l.kind \in {"prime", "junk", "doc", "head", "tail"}

\* ParseResponse of the lines ds of b, joined: the message, if they hold just one.
Parsed(b, ds) ==
    LET ws == {i \in ds : b[i].kind # "prime"}
        Msg(i) == [id |-> b[i].id, says |-> b[i].says]
    IN  {Msg(i) : i \in {k \in ws : ws = {k} /\ b[k].kind = "doc"}}
        \cup {Msg(i) : i \in {k \in ws : /\ b[k].kind = "head"
                                         /\ \E j \in ws : /\ ws = {k, j} /\ k < j /\ b[j].kind = "tail"
                                                          /\ Msg(j) = Msg(k)}}

\* The identity an initialize announces; NoClient is the empty one.
ParseClientInfo(c) == IF post[c].method = "initialize" THEN post[c].client ELSE NoClient

\* A message that finishIfMatch takes for the answer to a call: it looks at the
\* key of its id and at nothing else.
Taken(c, m) == Keyed(m.id) /\ IDString(m.id) = IDString(post[c].id)

\* What it takes of the message in the lines ds of the response.
Match(c, ds) == {m \in Parsed(body[c], ds) : Taken(c, m)}

\* The status of the span that m ends.
Status(m) == IF IsError(m.says) THEN "error" ELSE "ok"

Init == /\ post \in Workloads
        /\ pc = [c \in Calls |-> "idle"]
        /\ client = NoClient
        /\ raced = {}
        /\ label = [c \in Calls |-> NoClient]
        /\ span = [c \in Calls |-> "none"]
        /\ form = [c \in Calls |-> "none"]
        /\ body = [c \in Calls |-> <<>>]
        /\ next = [c \in Calls |-> 1]
        /\ data = [c \in Calls |-> {}]

-----------------------------------------------------------------------------
(* The request *)

BadBody(c) ==
    /\ pc[c] = "idle"
    /\ pc' = [pc EXCEPT ![c] = "done"]
    /\ UNCHANGED <<post, client, raced, label, span, form, body, next, data>>

\* What the proxy does once it knows the client.
Start(c) == IF Traced(c) THEN "start" ELSE "send"

\* Bug: every request is taken for an initialize.
ArriveAlwaysNaming(c) ==
    /\ pc[c] = "idle"
    /\ pc' = [pc EXCEPT ![c] = "naming"]
    /\ UNCHANGED <<post, client, raced, label, span, form, body, next, data>>

\* Another handler is writing the identity.
Racing(c) == \E d \in Calls \ {c} : pc[d] = "naming"

\* The body is parsed; an initialize begins to write the client's identity.
Arrive(c) ==
    /\ pc[c] = "idle"
    /\ pc' = [pc EXCEPT ![c] = IF post[c].method = "initialize" THEN "naming" ELSE Start(c)]
    /\ raced' = IF post[c].method = "initialize" /\ Racing(c)
                THEN raced \cup {c} \cup {d \in Calls : pc[d] = "naming"} ELSE raced
    /\ UNCHANGED <<post, client, label, span, form, body, next, data>>

\* The write is done.  An initialize without clientInfo writes empty strings;
\* of two writes that overlapped, the later to be done may leave a mixture too.
Remember(c) ==
    /\ pc[c] = "naming"
    /\ client' \in {ParseClientInfo(c)} \cup (IF c \in raced THEN {Torn} ELSE {})
    /\ raced' = raced \ {c}
    /\ pc' = [pc EXCEPT ![c] = Start(c)]
    /\ UNCHANGED <<post, label, span, form, body, next, data>>

StartSpan(c) ==
    /\ pc[c] = "start"
    /\ \E name \in {client} \cup (IF Racing(c) THEN {Torn} ELSE {}) :
         label' = [label EXCEPT ![c] = name]
    /\ span' = [span EXCEPT ![c] = "open"]
    /\ pc' = [pc EXCEPT ![c] = "send"]
    /\ UNCHANGED <<post, client, raced, form, body, next, data>>

\* Bug: the HTTP status line is passed for the span status.
FailsWithStatus(c) ==
    /\ pc[c] = "send"
    /\ pc' = [pc EXCEPT ![c] = "failed"]
    /\ span' = IF Traced(c) THEN [span EXCEPT ![c] = "HTTP 500"] ELSE span
    /\ UNCHANGED <<post, client, raced, label, form, body, next, data>>

\* No upstream request, no connection, or HTTP status >= 400, whose body is
\* copied unparsed.
Fails(c) ==
    /\ pc[c] = "send"
    /\ pc' = [pc EXCEPT ![c] = "failed"]
    /\ span' = IF Traced(c) THEN [span EXCEPT ![c] = "failed"] ELSE span
    /\ UNCHANGED <<post, client, raced, label, form, body, next, data>>

-----------------------------------------------------------------------------
(* The response *)

\* Bug: an untraced or rejected response is told apart by its length only.
CopyStatusIgnored(c) ==
    /\ pc[c] \in {"send", "failed"} /\ form[c] = "none"
    /\ IF ~Traced(c)
       THEN pc' = [pc EXCEPT ![c] = "done"] /\ UNCHANGED <<form, body>>
       ELSE \E f \in {"json", "events"}, b \in Bodies :
              /\ form' = [form EXCEPT ![c] = f]
              /\ body' = [body EXCEPT ![c] = b]
              /\ pc' = [pc EXCEPT ![c] = IF b = <<>> THEN "done" ELSE "parse"]
    /\ UNCHANGED <<post, client, raced, label, span, next, data>>

\* The response is copied to the client; only a traced call's is kept.  When
\* nothing was copied streamAndParseResponse returns.
Copy(c) ==
    /\ pc[c] = "send"
    /\ IF ~Traced(c)
       THEN pc' = [pc EXCEPT ![c] = "done"] /\ UNCHANGED <<form, body>>
       ELSE \E f \in {"json", "events"}, b \in Bodies :
              /\ form' = [form EXCEPT ![c] = f]
              /\ body' = [body EXCEPT ![c] = b]
              /\ pc' = [pc EXCEPT ![c] = IF b = <<>> THEN "done" ELSE "parse"]
    /\ UNCHANGED <<post, client, raced, label, span, next, data>>

\* The body taken for one JSON document, to which blank lines are white space.
Document(c) == IF \A i \in DOMAIN body[c] : body[c][i].kind \notin {"other", "long"}
               THEN {i \in DOMAIN body[c] : IsData(body[c][i])} ELSE {}

\* Anything but the call's own answer leaves the span as it is.
ParseJson(c) ==
    LET ms == Match(c, Document(c)) IN
    /\ pc[c] = "parse" /\ form[c] = "json"
    /\ pc' = [pc EXCEPT ![c] = "done"]
    /\ \/ ms = {} /\ UNCHANGED span
       \/ \E m \in ms : span' = [span EXCEPT ![c] = Status(m)]
    /\ UNCHANGED <<post, client, raced, label, form, body, next, data>>

\* The scanner delivers one more line.
Scanning(c) == /\ pc[c] = "parse" /\ form[c] = "events"
               /\ next[c] <= Len(body[c]) /\ body[c][next[c]].kind # "long"

ScanData(c) ==
    LET l == body[c][next[c]] IN
    /\ Scanning(c) /\ l.kind # "blank"
    /\ next' = [next EXCEPT ![c] = @ + 1]
    /\ data' = IF IsData(l) THEN [data EXCEPT ![c] = @ \cup {next[c]}] ELSE data
    /\ UNCHANGED <<post, pc, client, raced, label, span, form, body>>

\* Bug: dataLines is reset only by an event that ended the span.
ScanBlankKeeps(c) ==
    /\ Scanning(c) /\ body[c][next[c]].kind = "blank"
    /\ \/ /\ Match(c, data[c]) = {}
          /\ next' = [next EXCEPT ![c] = @ + 1]
          /\ UNCHANGED <<pc, span, data>>
       \/ \E m \in Match(c, data[c]) :
            /\ span' = [span EXCEPT ![c] = Status(m)]
            /\ pc' = [pc EXCEPT ![c] = "done"]
            /\ data' = [data EXCEPT ![c] = {}]
            /\ UNCHANGED next
    /\ UNCHANGED <<post, client, raced, label, form, body>>

\* finishEvent on a blank line.  Once the span is ended the lines that are
\* left change nothing.
ScanBlank(c) ==
    /\ Scanning(c) /\ body[c][next[c]].kind = "blank"
    /\ data' = [data EXCEPT ![c] = {}]
    /\ \/ /\ Match(c, data[c]) = {}
          /\ next' = [next EXCEPT ![c] = @ + 1]
          /\ UNCHANGED <<pc, span>>
       \/ \E m \in Match(c, data[c]) :
            /\ span' = [span EXCEPT ![c] = Status(m)]
            /\ pc' = [pc EXCEPT ![c] = "done"]
            /\ UNCHANGED next
    /\ UNCHANGED <<post, client, raced, label, form, body>>

\* The lines are used up, or one is too long: finishEvent on what is left,
\* and a span still open is abandoned.
ScanEnds(c) ==
    /\ pc[c] = "parse" /\ form[c] = "events" /\ ~Scanning(c)
    /\ pc' = [pc EXCEPT ![c] = "done"]
    /\ data' = [data EXCEPT ![c] = {}]
    /\ \/ Match(c, data[c]) = {} /\ span' = [span EXCEPT ![c] = "abandoned"]
       \/ \E m \in Match(c, data[c]) : span' = [span EXCEPT ![c] = Status(m)]
    /\ UNCHANGED <<post, client, raced, label, form, body, next>>

-----------------------------------------------------------------------------
Next == \E c \in Calls :
          \/ BadBody(c) \/ Arrive(c) \/ Remember(c) \/ StartSpan(c) \/ Fails(c)
          \/ Copy(c) \/ ParseJson(c) \/ ScanData(c) \/ ScanBlank(c) \/ ScanEnds(c)

Spec == Init /\ [][Next]_vars
-----------------------------------------------------------------------------
(* Properties *)

TypeOK ==
    /\ post \in Workloads
    /\ pc \in [Calls -> {"idle", "naming", "start", "send", "parse", "failed", "done"}]
    /\ client \in Clients \cup {NoClient, Torn}
    /\ raced \subseteq Calls
    /\ label \in [Calls -> Clients \cup {NoClient, Torn}]
    /\ span \in [Calls -> {"none", "open"} \cup Final]
    /\ form \in [Calls -> {"none", "json", "events"}]
    /\ body \in [Calls -> Bodies \cup {<<>>}]
    /\ next \in [Calls -> Nat \ {0}]
    /\ data \in [Calls -> SUBSET Nat]

\* The answer to a call, told without a scanner and without its test.  An
\* answer carries the very id of the call, a string for a string and a number
\* for a number, and is no request of the server's.
AnswerTo(c, m) == m.id = post[c].id /\ m.says \in Answers

Own(c, ds) == {m \in Parsed(body[c], ds) : AnswerTo(c, m)}

\* What is visible of an event stream is what comes before a line that is too
\* long; an event is a stretch of visible lines between blank ones, and answers
\* if its data lines are the call's own answer.
Visible(b) == {i \in DOMAIN b : \A j \in 1..i : b[j].kind # "long"}

Event(b, i, j) == /\ {i, j} \subseteq Visible(b)
                  /\ \A k \in i..j : b[k].kind # "blank"
                  /\ i - 1 \in Visible(b) => b[i - 1].kind = "blank"
                  /\ j + 1 \in Visible(b) => b[j + 1].kind = "blank"

EventAnswer(c, i, j) == Own(c, {k \in i..j : IsData(body[c][k])})

\* What the first answer in the response declares, if there is one.
Answer(c) ==
    LET Dom == DOMAIN body[c]
        Answering(i, j) == i <= j /\ Event(body[c], i, j) /\ EventAnswer(c, i, j) # {}
    IN IF form[c] = "json"
       THEN UNION {Declared(m.says) : m \in Own(c, Document(c))}
       ELSE UNION {UNION {Declared(m.says) : m \in EventAnswer(c, ij[1], ij[2])} :
              ij \in {p \in Dom \X Dom : /\ Answering(p[1], p[2])
                                         /\ \A i, j \in Dom : Answering(i, j) => p[1] <= i}}

\* No message in the response has the call's key without being its answer: a
\* request of the server's own, or a message whose id only reads alike.  The
\* code takes both for the answer, against the comment of endSpanFromEventStream.
Clear(c) == \A i \in DOMAIN body[c] :
    body[c][i].kind \in {"doc", "head", "tail"} =>
        (Taken(c, body[c][i]) => AnswerTo(c, body[c][i]))

\* A response that holds the call's answer ends its span with the outcome of
\* the first one, whatever events, primings, notifications and requests of the
\* server under other ids surround it; an event stream without an answer
\* abandons it (the comment of endSpanFromEventStream).
AnswerDecides ==
    \A c \in Calls : pc[c] = "done" /\ body[c] # <<>> /\ Clear(c) =>
        LET declared == Answer(c)
        IN /\ declared # {} => span[c] \in declared
           /\ declared = {} /\ form[c] = "events" => span[c] = "abandoned"

\* What became of a call: what its answer declares, that its request failed, or
\* that an event stream ended without an answer to it.
Fate(c) == LET declared == Answer(c)
           IN declared \cup {f \in {"failed", "cut"} :
                 \/ f = "failed" /\ pc[c] = "failed"
                 \/ f = "cut" /\ form[c] = "events" /\ body[c] # <<>> /\ declared = {}}

\* The span ledger.  Of a call that others' messages pass for the answer to,
\* nothing is claimed but that its span is opened once and ended at most once.
Ledger == INSTANCE SpanLedger
    WITH fate <- [c \in Calls |->
                    IF Clear(c) THEN Fate(c)
                    ELSE {"ok", "error", "failed", "cut", "cutByClient", "late"}]

\* Every span is opened once, ended at most once, and ended as its own POST
\* fared: a refused request, a scanned answer and the end of the stream each
\* have their place in the handler, and no two of them end one span.
LedgerSpec == Ledger!Spec

\* Whoever initialized last is who the proxy takes its client to be: no other
\* request, and no failure of one, makes it forget.
ClientRemembered ==
    client = NoClient =>
        \A c \in Calls : post[c].method = "initialize" /\ post[c].client # NoClient
                         /\ pc[c] \in {"start", "send", "parse", "failed"} =>
            \E d \in Calls : /\ post[d].method = "initialize" /\ post[d].client = NoClient
                             /\ pc[d] \notin {"idle", "naming"}

\* README.md:261: "Every traced call produces a span with these attributes";
\* a span that is not ended is not exported.
TracedCallsEnd ==
    \A c \in Calls : pc[c] \in {"done", "failed"} /\ span[c] # "none" => span[c] \in Final

\* README.md:271 gives mcp.client.name, "when the client sent `initialize`", as
\* "Client name from `clientInfo`": that of the client whose call it is.
NamesOwnClient == \A c \in Calls : label[c] \in {NoClient, post[c].client}
=============================================================================
