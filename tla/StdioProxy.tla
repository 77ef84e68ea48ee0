----------------------------- MODULE StdioProxy -----------------------------
(***************************************************************************)
(* The proxy in front of a subprocess (stdio.go): one goroutine per POST   *)
(* (pc), the reader of the subprocess's stdout, the monitor that waits for *)
(* its exit, and Stop.  They share the stdin pipe, the response channel,   *)
(* the in-flight table and the flags running and stopped.                  *)
(*                                                                         *)
(* All handlers write to one pipe, a body and a newline in two writes, and *)
(* all receive from one channel; a handler drops what is not under its id. *)
(* The client's identity is two string fields without a lock, here one     *)
(* variable; Torn is what overlapping reads and writes may leave.          *)
(*                                                                         *)
(* Outside src/: the child reads whole lines, answers what it can parse in *)
(* any order, says other things ("note": notifications and junk; "long": a *)
(* line over maxSSELine; "request": its own, under ids it chooses), may    *)
(* close its stdout and live on, and exits when it likes, or when it is    *)
(* killed.  Bounds: the capacities of the two pipes and of the channel,    *)
(* and MaxNotes.  Left out: stderr, methods other than POST, a child that  *)
(* closes its stdin and lives on.                                          *)
(***************************************************************************)
EXTENDS RequestMap, Filter, Sequences, Naturals

CONSTANTS Workloads,   \* the request mixes a behaviour may start from
          Concurrent,  \* those that may come from clients that do not wait
          Clients,     \* names in initialize's clientInfo
          ChildIds,    \* the ids the child numbers its own requests with
          NoId, NoClient, Torn,
          PipeCap,     \* what the stdin pipe holds, in writes
          OutCap,      \* lines the stdout pipe and the scanner's buffer hold
          ChanCap,     \* cap(responseCh)
          MaxNotes     \* how often the child says something else

Unparseable == "unparseable"   \* a body ParseRequest rejects

Request == [id : Ids \cup {NoId}, method : Methods \cup {Unparseable},
            client : Clients \cup {NoClient},
            answer : {"ok", "error"}]   \* how the child will answer it
Message == [kind : {"answer", "request", "note", "long", "err"}, id : Ids \cup {NoId},
            outcome : {"ok", "error"}]

ASSUME WorkloadAssumption == Workloads \subseteq [Calls -> Request]
ASSUME ConcurrentAssumption == Concurrent \subseteq Workloads
ASSUME NoIdAssumption == NoId \notin Ids
ASSUME ChildIdAssumption == ChildIds \subseteq Ids
ASSUME CapAssumption == {PipeCap, OutCap, ChanCap} \subseteq Nat \ {0} /\ MaxNotes \in Nat

VARIABLES
    post,      \* the request each call carries; chosen once
    serial,    \* the client waits for one response before the next request
    pc,        \* where ServeHTTP stands for a call
    client,    \* clientName and clientVer
    raced,     \* the initializes being written whose write overlaps another's
    label,     \* the client identity put on the call's span
    span,      \* its span: none, open, or the status it ended with
    reqMap,    \* StdioProxy.reqMap; every entry under the empty session
    stdin,     \* the pipe to the child: calls stand for bodies, NoCall for "\n"
    partial,   \* the bodies the child has read since the last newline
    reply,     \* what the child did with a request: unasked, asked, ok, error
    notes,     \* how much else the child said
    child,     \* the subprocess: alive, mute (its stdout is closed) or dead
    out,       \* the lines on the way from the child: in the pipe, or buffered
    reader,    \* readResponses: reading, sending, failing, closing, done
    hand,      \* the line it is about to send, or the long one it stopped at
    chan,      \* responseCh
    closed,    \* responseCh is closed
    reaped,    \* cmd.Wait has returned, and closed the pipes
    running,   \* StdioProxy.running
    stop       \* no; cancelled: ctx is done; closed: so is the stdin pipe

handlerVars == <<post, serial, client, raced, label>>
childVars   == <<stdin, partial, reply, notes, child>>
readerVars  == <<out, reader, hand, chan, closed>>
flagVars    == <<reaped, running, stop>>
vars == <<handlerVars, pc, span, reqMap, childVars, readerVars, flagVars>>

\* How a span ends, by what its error message says.  Of these the code writes ok
\* as mcp.status ok, and all the others as error.
Final == {"ok", "error", "failed", "givenUp", "abandonedByUpstream"}
McpStatus(end) == IF end = "ok" THEN "ok" ELSE "error"

Newline == NoCall

\* Why a handler has no response: the child is not running or a write failed,
\* the 30 s are over or the client has gone, the child's stdout has ended.
Reasons == {"unsent", "givenUp", "closed"}
EndFor(why) == CASE why = "unsent"  -> "failed"
                 [] why = "givenUp" -> "givenUp"
                 [] why = "closed"  -> "abandonedByUpstream"

\* Where it ends up: with a response, refused, or with nobody waiting any more.
Returned == {"done", "failed", "expired"}
ReturnFor(why) == IF why = "givenUp" THEN "expired" ELSE "failed"

Key(c) == CorrelationKey(NoSession, post[c].id)

\* ServeHTTP gives the call a span.
Traced(c) == /\ post[c].method # Unparseable
             /\ ShouldTrace(post[c].method)
             /\ post[c].id # NoId

\* ServeHTTP answers 202 at once.  A body it cannot parse is no notification.
IsNotification(c) == post[c].method # Unparseable /\ post[c].id = NoId

\* The child owes the call an answer.
Asks(c) == post[c].id # NoId /\ post[c].method \notin {"", Unparseable}

EndSpan(cs, status) == [c \in Calls |-> IF c \in cs THEN status ELSE span[c]]

Answer(i, o) == [kind |-> "answer", id |-> i, outcome |-> o]
Other(k) == [kind |-> k, id |-> NoId, outcome |-> "ok"]

Nothing == Other("note")   \* what an empty hand holds

Init == /\ post \in Workloads
        /\ serial \in BOOLEAN /\ (serial \/ post \in Concurrent)
        /\ pc = [c \in Calls |-> "idle"]
        /\ client = NoClient
        /\ raced = {}
        /\ label = [c \in Calls |-> NoClient]
        /\ span = [c \in Calls |-> "none"]
        /\ reqMap = EmptyMap
        /\ stdin = <<>> /\ partial = {}
        /\ reply = [c \in Calls |-> "unasked"] /\ notes = 0 /\ child = "alive"
        /\ out = <<>> /\ reader = "reading" /\ hand = Nothing
        /\ chan = <<>> /\ closed = FALSE
        /\ reaped = FALSE /\ running = TRUE /\ stop = "no"

-----------------------------------------------------------------------------
(* ServeHTTP *)

May(c) == serial => \A d \in Calls : pc[d] \in Returned \cup {"idle"}

BadBody(c) ==
    /\ pc[c] = "idle" /\ May(c)
    /\ pc' = [pc EXCEPT ![c] = "failed"]
    /\ UNCHANGED <<handlerVars, span, reqMap, childVars, readerVars, flagVars>>

\* What ServeHTTP does once it knows the client.
Start(c) == IF Traced(c) THEN "start" ELSE "check"

\* Bug: every request is taken for an initialize.
ArriveAlwaysNaming(c) ==
    /\ pc[c] = "idle" /\ May(c)
    /\ pc' = [pc EXCEPT ![c] = "naming"]
    /\ UNCHANGED <<handlerVars, span, reqMap, childVars, readerVars, flagVars>>

\* Another handler is writing the identity.
Racing(c) == \E d \in Calls \ {c} : pc[d] = "naming"

\* The body is parsed; an initialize begins to write the client's identity.
Arrive(c) ==
    /\ pc[c] = "idle" /\ May(c)
    /\ pc' = [pc EXCEPT ![c] = IF post[c].method = "initialize" THEN "naming" ELSE Start(c)]
    /\ raced' = IF post[c].method = "initialize" /\ Racing(c)
                THEN raced \cup {c} \cup {d \in Calls : pc[d] = "naming"} ELSE raced
    /\ UNCHANGED <<post, serial, client, label, span, reqMap, childVars, readerVars, flagVars>>

\* The write is done; of two that overlapped, the later may leave a mixture.
Remember(c) ==
    /\ pc[c] = "naming"
    /\ client' \in {post[c].client} \cup (IF c \in raced THEN {Torn} ELSE {})
    /\ raced' = raced \ {c}
    /\ pc' = [pc EXCEPT ![c] = Start(c)]
    /\ UNCHANGED <<post, serial, label, span, reqMap, childVars, readerVars, flagVars>>

\* The span is opened and stored.
StartSpan(c) ==
    /\ pc[c] = "start"
    /\ \E name \in {client} \cup (IF Racing(c) THEN {Torn} ELSE {}) :
         label' = [label EXCEPT ![c] = name]
    /\ span' = [span EXCEPT ![c] = "open"]
    /\ reqMap' = Store(reqMap, NoSession, post[c].id, c)
    /\ pc' = [pc EXCEPT ![c] = "check"]
    /\ UNCHANGED <<post, serial, client, raced, childVars, readerVars, flagVars>>

CheckRunning(c) ==
    /\ pc[c] = "check"
    /\ pc' = [pc EXCEPT ![c] = IF running THEN "body" ELSE "unsent"]
    /\ UNCHANGED <<handlerVars, span, reqMap, childVars, readerVars, flagVars>>

\* Bug: Stop leaves the pipe open.
BrokenByDeath == child = "dead"

\* The child, or Stop, has closed the stdin pipe.
Broken == child = "dead" \/ stop = "closed"

\* StdioProxy.ctx is done.
Cancelled == stop # "no"

WriteBody(c) ==
    /\ pc[c] = "body" /\ ~Broken /\ Len(stdin) < PipeCap
    /\ stdin' = Append(stdin, c)
    /\ pc' = [pc EXCEPT ![c] = "newline"]
    /\ UNCHANGED <<handlerVars, span, reqMap, partial, reply, notes, child, readerVars, flagVars>>

WriteNewline(c) ==
    /\ pc[c] = "newline" /\ ~Broken /\ Len(stdin) < PipeCap
    /\ stdin' = Append(stdin, Newline)
    /\ pc' = [pc EXCEPT ![c] = IF IsNotification(c) THEN "done" ELSE "wait"]
    /\ UNCHANGED <<handlerVars, span, reqMap, partial, reply, notes, child, readerVars, flagVars>>

WriteFails(c) ==
    /\ pc[c] \in {"body", "newline"} /\ Broken
    /\ pc' = [pc EXCEPT ![c] = "unsent"]
    /\ UNCHANGED <<handlerVars, span, reqMap, childVars, readerVars, flagVars>>

\* Bug: the id is not compared.
AfterMessageAnyId(c, m) == CASE m.kind = "err"  -> "closed"
                             [] m.kind = "note" -> "wait"
                             [] OTHER           -> m.outcome

\* What the handler does with a message, and where it goes on.  A message with
\* its id is its answer; whether it is a request is not looked at.
AfterMessage(c, m) == CASE m.kind = "err"    -> "closed"
                        [] m.kind = "note"   -> "wait"
                        [] m.id # post[c].id -> "wait"
                        [] OTHER             -> m.outcome

\* The next message of the channel, whoever it is meant for.
Receive(c) ==
    /\ pc[c] = "wait" /\ chan # <<>>
    /\ chan' = Tail(chan)
    /\ pc' = [pc EXCEPT ![c] = AfterMessage(c, Head(chan))]
    /\ UNCHANGED <<handlerVars, span, reqMap, childVars, out, reader, hand, closed, flagVars>>

ReceiveClosed(c) ==
    /\ pc[c] = "wait" /\ chan = <<>> /\ closed
    /\ pc' = [pc EXCEPT ![c] = "closed"]
    /\ UNCHANGED <<handlerVars, span, reqMap, childVars, readerVars, flagVars>>

\* The 30 s are over, or the client has gone.
GiveUp(c) ==
    /\ pc[c] = "wait"
    /\ pc' = [pc EXCEPT ![c] = "givenUp"]
    /\ UNCHANGED <<handlerVars, span, reqMap, childVars, readerVars, flagVars>>

\* The keys the handler takes: its own, if it has a span.
Mine(c) == IF Traced(c) THEN TakeKeys(NoSession, post[c].id) ELSE {}

\* The response is the call's: take its entry, end the span, write the body.
Respond(c) ==
    /\ pc[c] \in {"ok", "error"}
    /\ reqMap' = Without(reqMap, Mine(c))
    /\ span' = EndSpan(Entries(reqMap, Mine(c)), pc[c])
    /\ pc' = [pc EXCEPT ![c] = "done"]
    /\ UNCHANGED <<handlerVars, childVars, readerVars, flagVars>>

\* Bug: a failure is reported to the client and the span is forgotten.
CleanupHttpOnly(c) ==
    /\ pc[c] \in Reasons
    /\ pc' = [pc EXCEPT ![c] = ReturnFor(pc[c])]
    /\ UNCHANGED <<handlerVars, span, reqMap, childVars, readerVars, flagVars>>

\* Bug: the message is passed for the status.
CleanupMessage(c) ==
    /\ pc[c] \in Reasons
    /\ reqMap' = Without(reqMap, Mine(c))
    /\ span' = EndSpan(Entries(reqMap, Mine(c)), pc[c])
    /\ pc' = [pc EXCEPT ![c] = ReturnFor(pc[c])]
    /\ UNCHANGED <<handlerVars, childVars, readerVars, flagVars>>

\* cleanupSpan and the HTTP error.
Cleanup(c) ==
    /\ pc[c] \in Reasons
    /\ reqMap' = Without(reqMap, Mine(c))
    /\ span' = EndSpan(Entries(reqMap, Mine(c)), EndFor(pc[c]))
    /\ pc' = [pc EXCEPT ![c] = ReturnFor(pc[c])]
    /\ UNCHANGED <<handlerVars, childVars, readerVars, flagVars>>

-----------------------------------------------------------------------------
(* The child *)

\* It reads on; at a newline it takes what it has for one message, and two
\* bodies on a line are none.
ChildReads ==
    /\ child # "dead" /\ stdin # <<>>
    /\ stdin' = Tail(stdin)
    /\ IF Head(stdin) = Newline
       THEN /\ partial' = {}
            /\ reply' = [c \in Calls |-> IF partial = {c} /\ Asks(c) THEN "asked" ELSE reply[c]]
       ELSE partial' = partial \cup {Head(stdin)} /\ UNCHANGED reply
    /\ UNCHANGED <<handlerVars, pc, span, reqMap, notes, child, readerVars, flagVars>>

Prints(m) == child = "alive" /\ Len(out) < OutCap /\ out' = Append(out, m)

ChildAnswers(c) ==
    /\ reply[c] = "asked"
    /\ Prints(Answer(post[c].id, post[c].answer))
    /\ reply' = [reply EXCEPT ![c] = post[c].answer]
    /\ UNCHANGED <<handlerVars, pc, span, reqMap, stdin, partial, notes, child,
                   reader, hand, chan, closed, flagVars>>

\* It says something else; a request under an id that no call carries is a note.
ChildNotes ==
    /\ notes < MaxNotes
    /\ notes' = notes + 1
    /\ \/ \E k \in {"note", "long"} : Prints(Other(k))
       \/ \E c \in Calls : /\ post[c].id \in ChildIds
                           /\ Prints([kind |-> "request", id |-> post[c].id, outcome |-> "ok"])
    /\ UNCHANGED <<handlerVars, pc, span, reqMap, stdin, partial, reply, child,
                   reader, hand, chan, closed, flagVars>>

\* It closes its stdout, and goes on reading.
ChildMutes ==
    /\ child = "alive"
    /\ child' = "mute"
    /\ UNCHANGED <<handlerVars, pc, span, reqMap, stdin, partial, reply, notes, readerVars, flagVars>>

ChildDies ==
    /\ child # "dead"
    /\ child' = "dead"
    /\ stdin' = <<>> /\ partial' = {}
    /\ UNCHANGED <<handlerVars, pc, span, reqMap, reply, notes, readerVars, flagVars>>

-----------------------------------------------------------------------------
(* readResponses *)

ReadLine ==
    /\ reader = "reading" /\ out # <<>>
    /\ reader' = IF Head(out).kind = "long" THEN "failing" ELSE "sending"
    /\ hand' = Head(out)
    /\ out' = Tail(out)
    /\ UNCHANGED <<handlerVars, pc, span, reqMap, childVars, chan, closed, flagVars>>

\* Nothing is left and the child's end is closed: end of file, or, once Wait has
\* closed the reader's own end, an error.
ReadEnds ==
    /\ reader = "reading" /\ out = <<>>
    /\ \/ child # "alive" /\ reader' = "closing"
       \/ reaped /\ reader' = "failing"
    /\ UNCHANGED <<handlerVars, pc, span, reqMap, childVars, out, hand, chan, closed, flagVars>>

\* Bug: a select with a default case.
SendOrDrop ==
    /\ reader \in {"sending", "failing"}
    /\ chan' = IF Len(chan) < ChanCap
               THEN Append(chan, IF reader = "sending" THEN hand ELSE Other("err")) ELSE chan
    /\ reader' = IF reader = "sending" THEN "reading" ELSE "closing"
    /\ hand' = IF reader = "sending" THEN Nothing ELSE hand
    /\ UNCHANGED <<handlerVars, pc, span, reqMap, childVars, out, closed, flagVars>>

Send ==
    /\ reader \in {"sending", "failing"} /\ Len(chan) < ChanCap
    /\ chan' = Append(chan, IF reader = "sending" THEN hand ELSE Other("err"))
    /\ reader' = IF reader = "sending" THEN "reading" ELSE "closing"
    /\ hand' = IF reader = "sending" THEN Nothing ELSE hand
    /\ UNCHANGED <<handlerVars, pc, span, reqMap, childVars, out, closed, flagVars>>

\* ctx.Done: the line in hand is dropped and the channel is left open; after a
\* read error it is closed all the same.
SendCancelled ==
    /\ reader \in {"sending", "failing"} /\ Cancelled
    /\ reader' = IF reader = "sending" THEN "done" ELSE "closing"
    /\ hand' = IF reader = "sending" THEN Nothing ELSE hand
    /\ UNCHANGED <<handlerVars, pc, span, reqMap, childVars, out, chan, closed, flagVars>>

Close ==
    /\ reader = "closing"
    /\ reader' = "done"
    /\ closed' = TRUE
    /\ UNCHANGED <<handlerVars, pc, span, reqMap, childVars, out, hand, chan, flagVars>>

-----------------------------------------------------------------------------
(* monitorProcess and Stop *)

\* Wait closes the pipe: what the scanner has not buffered by then is lost.
Reap ==
    /\ child = "dead" /\ ~reaped
    /\ reaped' = TRUE
    /\ \E n \in 0..Len(out) : out' = SubSeq(out, 1, n)
    /\ UNCHANGED <<handlerVars, pc, span, reqMap, childVars, reader, hand, chan, closed, running, stop>>

MarkStopped ==
    /\ reaped /\ running
    /\ running' = FALSE
    /\ UNCHANGED <<handlerVars, pc, span, reqMap, childVars, readerVars, reaped, stop>>

\* By Stop or by main, which with the context also kills the child.  Whether
\* Stop found the child running makes no difference to the steps it takes.
Cancel ==
    /\ stop = "no"
    /\ stop' = "cancelled"
    /\ UNCHANGED <<handlerVars, pc, span, reqMap, childVars, readerVars, reaped, running>>

StopStdin ==
    /\ stop = "cancelled"
    /\ stop' = "closed"
    /\ UNCHANGED <<handlerVars, pc, span, reqMap, childVars, readerVars, reaped, running>>

-----------------------------------------------------------------------------
Handler(c) == \/ BadBody(c) \/ Arrive(c) \/ Remember(c) \/ StartSpan(c) \/ CheckRunning(c)
              \/ WriteBody(c) \/ WriteNewline(c) \/ WriteFails(c)
              \/ Receive(c) \/ ReceiveClosed(c) \/ GiveUp(c) \/ Respond(c) \/ Cleanup(c)

Child == \/ ChildReads \/ ChildNotes \/ ChildMutes \/ ChildDies
         \/ \E c \in Calls : ChildAnswers(c)

ReadResponses == ReadLine \/ ReadEnds \/ Send \/ SendCancelled \/ Close

Process == Reap \/ MarkStopped \/ Cancel \/ StopStdin

Next == (\E c \in Calls : Handler(c)) \/ Child \/ ReadResponses \/ Process

Spec == Init /\ [][Next]_vars

\* The handlers and the reader run.  The child owes nothing, no timer is relied
\* on, and neither are the monitor and Stop.
Runs(c) == \/ Remember(c) \/ StartSpan(c) \/ CheckRunning(c)
           \/ WriteBody(c) \/ WriteNewline(c) \/ WriteFails(c)
           \/ Receive(c) \/ ReceiveClosed(c) \/ Respond(c) \/ Cleanup(c)

HandlerFairness(c) == WF_vars(Runs(c))
ReaderFairness == WF_vars(ReadResponses)

Fairness == ReaderFairness /\ \A c \in Calls : HandlerFairness(c)

FairSpec == Spec /\ Fairness
-----------------------------------------------------------------------------
(* Properties *)

TypeOK ==
    /\ post \in Workloads /\ serial \in BOOLEAN
    /\ pc \in [Calls -> {"idle", "naming", "start", "check", "body", "newline", "wait", "ok", "error"}
                        \cup Reasons \cup Returned]
    /\ client \in Clients \cup {NoClient, Torn}
    /\ raced \subseteq Calls
    /\ label \in [Calls -> Clients \cup {NoClient, Torn}]
    /\ span \in [Calls -> {"none", "open"} \cup Final]
    /\ reqMap \in [Keys -> Calls \cup {NoCall}]
    /\ stdin \in Seq(Calls \cup {Newline}) /\ Len(stdin) <= PipeCap
    /\ partial \subseteq Calls
    /\ reply \in [Calls -> {"unasked", "asked", "ok", "error"}]
    /\ notes \in 0..MaxNotes /\ child \in {"alive", "mute", "dead"}
    /\ out \in Seq(Message) /\ Len(out) <= OutCap
    /\ reader \in {"reading", "sending", "failing", "closing", "done"}
    /\ hand \in Message
    /\ chan \in Seq(Message) /\ Len(chan) <= ChanCap
    /\ closed \in BOOLEAN /\ reaped \in BOOLEAN /\ running \in BOOLEAN
    /\ stop \in {"no", "cancelled", "closed"}

\* No other request of the run has the call's id; and neither has a request of
\* the child's own, which a handler would take for the answer.
Unshared(c) == \A d \in Calls \ {c} : post[d].id # post[c].id
Solo(c) == Unshared(c) /\ post[c].id \notin ChildIds

\* There is no evictor here: a handler returns on no path, an answer, a
\* failed write, a closed channel, a timeout, with its span still open.  A
\* client that sends one request at a time may even use an id again.
SpanEndsWithHandler ==
    \A c \in Calls : (serial \/ Unshared(c)) /\ pc[c] \in Returned => span[c] # "open"

\* The facts about a call that the end of its span may rest on.  Calls with one
\* id are one to the table and to the handlers: the late answer to a call given
\* up on is taken for that of its retry.
Namesakes(c) == {d \in Calls : post[d].id = post[c].id}
Fate(c) == ({reply[d] : d \in Namesakes(c)} \cap {"ok", "error"})
           \cup (IF Broken \/ ~running THEN {"failed"} ELSE {})
           \cup (IF reader \in {"failing", "closing", "done"} THEN {"cut"} ELSE {})
           \cup (IF \E d \in Namesakes(c) : pc[d] \in {"givenUp", "expired"} THEN {"late"} ELSE {})

\* The ledger of the calls whose ids the child does not use for its own requests.
Ledger == INSTANCE SpanLedger
    WITH span <- [c \in Calls |-> IF post[c].id \in ChildIds THEN "none" ELSE span[c]],
         fate <- [c \in Calls |-> IF post[c].id \in ChildIds THEN {} ELSE Fate(c)]

\* Every span is opened once, ended at most once, and ended as a call of its
\* own id fared, though all handlers draw their responses from one channel:
\* ok or error only if the child answered so, and what no answer ended only for
\* a reason that held.
LedgerSpec == Ledger!Spec

\* The answer to a call is still on its way to the handler, before a reader that
\* reads on, in its hand, or in the channel.
Answers(m, c) == m.kind = "answer" /\ m.id = post[c].id
OnItsWay(c) == \/ reader \in {"reading", "sending"} /\ \E i \in DOMAIN out : Answers(out[i], c)
               \/ reader = "sending" /\ Answers(hand, c)
               \/ \E i \in DOMAIN chan : Answers(chan[i], c)

\* A line over the limit has stopped the reader, or stands before the answer.
CutOff(c) == \/ hand.kind = "long"
             \/ \E i, j \in DOMAIN out : i < j /\ out[i].kind = "long" /\ Answers(out[j], c)

\* A client that waits for each response before its next request loses none:
\* late answers to requests it gave up on, notifications, notices and requests
\* of the child's are dropped, its own answer is not (the comment of ServeHTTP:
\* "serial stdio").  Neither the death of the child nor the end of its stdout
\* takes an answer away; a line over the limit, which the reader does not
\* survive, Wait, which closes the pipe, and the end of the context do.
SerialDelivers ==
    \A c \in Calls : serial /\ pc[c] = "wait" /\ reply[c] \in {"ok", "error"}
                     /\ ~reaped /\ ~Cancelled /\ ~CutOff(c) => OnItsWay(c)

\* An initialize that has reached the child names the calls that a serial
\* client makes after it, also when nobody waited for its answer.
SerialNamesClient ==
    \A c, d \in Calls :
        /\ serial /\ c # d
        /\ post[d].method = "initialize" /\ reply[d] # "unasked"
        /\ span[c] = "open" /\ pc[c] \notin Returned
        => \E e \in Calls : post[e].method = "initialize" /\ label[c] = post[e].client

\* Where a handler may stand for ever: before its body is there, when it has
\* returned, waiting for an answer of a child that may still give it (which its
\* timer limits), and, before that timer has been started, held in a write to a
\* child that lives and does not read.
AtRest(c) == \/ pc[c] \in Returned \cup {"idle"}
             \/ pc[c] = "wait" /\ (child = "alive" \/ Cancelled)
             \/ /\ pc[c] \in {"body", "newline"} /\ Len(stdin) = PipeCap
                /\ child # "dead" /\ stop # "closed"

\* No handler hangs elsewhere.  When the child dies or closes its stdout, all
\* that wait are woken, by an answer, the read error or the closed channel, and
\* none has to wait out its timer; a write is freed by the death and by Stop.
HandlersReturn == []<>(\A c \in Calls : AtRest(c))

\* README.md:128: "Each request is forwarded to the subprocess, and the
\* response is an OTel span plus a normal HTTP body": SerialDelivers, without
\* the serial client.
Delivers ==
    \A c \in Calls : Solo(c) /\ pc[c] = "wait" /\ reply[c] \in {"ok", "error"}
                     /\ child = "alive" /\ ~Cancelled /\ ~CutOff(c) => OnItsWay(c)

\* README.md:290-291: mcp.status is ok when "the server answered normally" and
\* error when it "answered with a JSON-RPC error": the span of a call that the
\* child answered, and nobody gave up, says which.
AnswerRecorded ==
    \A c \in Calls : serial /\ Solo(c) /\ reply[c] \in {"ok", "error"} /\ ~Cancelled
                     /\ span[c] \in Final \ {"givenUp"}
                     => McpStatus(span[c]) = reply[c]
=============================================================================
