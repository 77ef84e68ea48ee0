-------------------------- MODULE StdioProxyProofs --------------------------
(***************************************************************************)
(* What is proved of StdioProxy for every set of calls, ids and clients,   *)
(* every workload, and pipes and channels of every size.                   *)
(*                                                                         *)
(* Its safety rests on three facts: what the table holds is an open span   *)
(* of a handler that has not returned (MapSound, Held); a request reaches  *)
(* the child once (ReadOnce); and an answer in a pipe, the reader's hand   *)
(* or the channel is one the child gave (AnswerSound).  A handler ends for *)
(* a reason, and the reader stops for one, that stays true (Reasoned).     *)
(***************************************************************************)
EXTENDS StdioProxy, SequenceTheorems, TLAPS

\* Where a handler stands once it may have a span in the table.
Active == {"check", "body", "newline", "wait", "ok", "error"} \cup Reasons

\* Where it stands before its body was written.
Unsent == {"idle", "naming", "start", "check", "body"}

AtWork(c) == pc[c] \notin Returned \cup {"idle"}

\* The table holds a call only under its own key, while its span is open and
\* its handler has not returned.
MapSound == \A k \in Keys, c \in Calls : reqMap[k] = c =>
               /\ Traced(c) /\ Key(c) = k
               /\ span[c] = "open"
               /\ pc[c] \in Active

\* A handler has no span before StartSpan, and only an initialize is named.
SpanStaged == \A c \in Calls :
               /\ pc[c] \in {"idle", "naming", "start"} => span[c] = "none"
               /\ pc[c] = "start" \/ span[c] # "none" => Traced(c)
               /\ pc[c] = "naming" => post[c].method = "initialize"

\* A serial client has one handler at work.
OneAtATime == serial => \A c, d \in Calls : AtWork(c) /\ AtWork(d) => c = d

\* An open span that no other handler can take is in the table, and its
\* handler has not returned.
Held == \A c \in Calls : (serial \/ Unshared(c)) /\ span[c] = "open" =>
               pc[c] \in Active /\ reqMap[Key(c)] = c

InStdin(c) == \E i \in DOMAIN stdin : stdin[i] = c

\* A request is written once, then read once, then answered.
ReadOnce ==
    /\ \A i, j \in DOMAIN stdin : stdin[i] = stdin[j] /\ stdin[i] \in Calls => i = j
    /\ \A c \in Calls :
         /\ InStdin(c) => c \notin partial
         /\ InStdin(c) \/ c \in partial => reply[c] = "unasked" /\ pc[c] \notin Unsent
         /\ reply[c] # "unasked" => pc[c] \notin Unsent

Answered == {"ok", "error"}

\* A call with that id was answered so.
Said(i, o) == \E d \in Calls : post[d].id = i /\ reply[d] = o

\* What the child prints: an answer it gave, a request under an id of its own.
Told == {m \in Message : /\ m.kind = "answer" => Said(m.id, m.outcome)
                         /\ m.kind = "request" => m.id \in ChildIds
                         /\ m.kind # "err"}

\* What a handler may receive.
Sent == {m \in Told : m.kind # "long"} \cup {Other("err")}

\* Whatever passes for an answer is one, or a request under an id of the child's.
AnswerSound ==
    /\ out \in Seq(Told) /\ hand \in Told /\ chan \in Seq(Sent)
    /\ hand.kind = "long" => reader \notin {"reading", "sending"}
    /\ \A c \in Calls : pc[c] \in Answered =>
                          post[c].id \in ChildIds \/ Said(post[c].id, pc[c])

\* The reader has stopped.
Stopped == reader \in {"failing", "closing", "done"}

\* Why the reader stopped, and why a handler has no response.
Reasoned ==
    /\ Stopped => \/ reaped \/ Cancelled \/ hand.kind = "long"
                  \/ child # "alive" /\ out = <<>>
    /\ closed \/ (\E i \in DOMAIN chan : chan[i].kind = "err") => Stopped
    /\ \A c \in Calls : /\ pc[c] = "unsent" => Broken \/ ~running
                        /\ pc[c] = "closed" => Stopped

\* A serial handler between its two writes: its body is the last thing
\* written, and the child has not taken it for a message.
NewlineNext ==
    serial /\ child # "dead" =>
        \A c \in Calls : pc[c] = "newline" =>
            /\ reply[c] = "unasked"
            /\ IF stdin = <<>> THEN c \in partial ELSE stdin[Len(stdin)] = c

\* No two initializes of a serial client overlap.
NoRace == serial => raced = {}

\* An initialize whose name was written.
Named(d) == /\ post[d].method = "initialize"
            /\ \/ pc[d] \in {"start", "done"} \cup Active
               \/ reply[d] # "unasked" \/ d \in partial \/ InStdin(d)

Announced(name) == \E e \in Calls : post[e].method = "initialize" /\ name = post[e].client

\* Then it, or a later one, is who a serial proxy takes its client to be.
ClientKnown ==
    /\ serial /\ (\E d \in Calls : Named(d)) => Announced(client)
    /\ \A c, d \in Calls : serial /\ c # d /\ Named(d) /\ span[c] = "open" /\ pc[c] \notin Returned
                           => Announced(label[c])

IInv == /\ TypeOK /\ MapSound /\ SpanStaged /\ OneAtATime /\ Held /\ ReadOnce
        /\ AnswerSound /\ Reasoned /\ NewlineNext /\ NoRace /\ ClientKnown /\ SerialDelivers

-----------------------------------------------------------------------------
(* The operators *)

LEMMA Caps == /\ PipeCap \in Nat /\ OutCap \in Nat /\ ChanCap \in Nat /\ MaxNotes \in Nat
              /\ PipeCap > 0 /\ OutCap > 0 /\ ChanCap > 0
BY CapAssumption

\* What the removal of the handler's own entry returns and leaves.
LEMMA OwnEntry ==
    ASSUME TypeOK, NEW c \in Calls
    PROVE  /\ Traced(c) => Key(c) \in Keys /\ Mine(c) = {Key(c)}
           /\ ~Traced(c) => Mine(c) = {}
           /\ Mine(c) \subseteq Keys
           /\ Entries(reqMap, Mine(c)) \subseteq Calls
           /\ Without(reqMap, Mine(c)) \in [Keys -> Calls \cup {NoCall}]
<1>1. post[c] \in Request
  BY WorkloadAssumption DEF TypeOK
<1>2. Traced(c) => post[c].id \in Ids
  BY <1>1 DEF Request, Traced
<1>3. Traced(c) => Key(c) \in Keys /\ Mine(c) = {Key(c)}
  BY <1>2 DEF Key, CorrelationKey, Keys, Mine, TakeKeys
<1>4. ~Traced(c) => Mine(c) = {}
  BY DEF Mine
<1>5. QED
  BY <1>3, <1>4 DEF TypeOK, Entries, Without

\* The requests are fixed, and with them all that is said of them alone.
LEMMA SameRequests ==
    ASSUME UNCHANGED post, NEW c \in Calls
    PROVE  /\ Traced(c)' <=> Traced(c)
           /\ Unshared(c)' <=> Unshared(c)
           /\ Key(c)' = Key(c)
BY DEF Traced, Unshared, Key, CorrelationKey

\* No handler ends a span with anything but a final status.
LEMMA FinalStatus == \A s \in Final : s # "open" /\ s # "none"
BY DEF Final

\* What a handler without a response makes of its reason.
LEMMA ReasonsEnd ==
    \A why \in Reasons : /\ EndFor(why) \in Final /\ ReturnFor(why) \in Returned
                         /\ (ReturnFor(why) = "expired") <=> (why = "givenUp")
BY DEF Reasons, EndFor, ReturnFor, Final, Returned

\* Where a handler goes on from a message.
LEMMA MessageLeads ==
    \A c \in Calls, m \in Message : AfterMessage(c, m) \in {"closed", "wait", "ok", "error"}
BY DEF AfterMessage, Message

\* What a shorter line keeps.
LEMMA PrefixOf ==
    ASSUME NEW S, NEW q \in Seq(S), NEW n \in 0..Len(q)
    PROVE  /\ SubSeq(q, 1, n) \in Seq(S) /\ Len(SubSeq(q, 1, n)) = n /\ n <= Len(q)
           /\ Len(q) \in Nat /\ (q = <<>> => SubSeq(q, 1, n) = <<>>)
<1>1. Len(q) \in Nat
  BY LenProperties
<1>2. \A i \in 1..n : q[i] \in S
  BY <1>1, ElementOfSeq
<1>3. SubSeq(q, 1, n) \in Seq(S) /\ Len(SubSeq(q, 1, n)) = n
  BY <1>1, <1>2, SubSeqProperties
<1>4. q = <<>> => Len(q) = 0
  BY EmptySeq
<1>5. QED
  BY <1>1, <1>3, <1>4, EmptySeq

\* The child's own requests, under the ids of calls.
LEMMA NotesTyped ==
    ASSUME NEW c \in Calls, post[c].id \in ChildIds
    PROVE  [kind |-> "request", id |-> post[c].id, outcome |-> "ok"] \in Message
BY ChildIdAssumption DEF Message

LEMMA MessagesTyped ==
    /\ \A k \in {"note", "long", "err"} : Other(k) \in Message
    /\ \A i \in Ids \cup {NoId}, o \in Answered : Answer(i, o) \in Message
BY DEF Other, Answer, Message, Answered

-----------------------------------------------------------------------------
(* Type correctness *)

LEMMA TypeInit == Init => TypeOK
<1> SUFFICES ASSUME Init PROVE TypeOK
  OBVIOUS
<1>1. reqMap \in [Keys -> Calls \cup {NoCall}] /\ hand \in Message
  BY MessagesTyped DEF Init, EmptyMap, Nothing
<1>2. stdin \in Seq(Calls \cup {Newline}) /\ Len(stdin) <= PipeCap
  BY Caps DEF Init
<1>3. out \in Seq(Message) /\ Len(out) <= OutCap /\ chan \in Seq(Message) /\ Len(chan) <= ChanCap
  BY Caps DEF Init
<1>4. notes \in 0..MaxNotes
  BY Caps DEF Init
<1>5. QED
  BY <1>1, <1>2, <1>3, <1>4 DEF Init, TypeOK

LEMMA TypeStep ==
    ASSUME TypeOK, [Next]_vars
    PROVE  TypeOK'
<1> USE DEF TypeOK, handlerVars, childVars, readerVars, flagVars
<1>0. \A c \in Calls : post[c] \in Request
  BY WorkloadAssumption
<1>1. ASSUME NEW c \in Calls, BadBody(c) \/ Arrive(c) PROVE TypeOK'
  <2>1. CASE BadBody(c)
    BY <2>1 DEF BadBody, Returned
  <2>2. CASE Arrive(c)
    <3>1. raced' \subseteq Calls
      BY <2>2 DEF Arrive
    <3>2. QED
      BY <2>2, <3>1 DEF Arrive, Start
  <2>3. QED
    BY <1>1, <2>1, <2>2
<1>2. ASSUME NEW c \in Calls, Remember(c) PROVE TypeOK'
  <2>1. post[c].client \in Clients \cup {NoClient}
    BY <1>0 DEF Request
  <2>2. QED
    BY <1>2, <2>1 DEF Remember, Start
<1>3. ASSUME NEW c \in Calls, StartSpan(c) PROVE TypeOK'
  <2>1. reqMap' \in [Keys -> Calls \cup {NoCall}]
    BY <1>3 DEF StartSpan, Store
  <2>2. QED
    BY <1>3, <2>1 DEF StartSpan
<1>4. ASSUME NEW c \in Calls, CheckRunning(c) \/ WriteFails(c) \/ ReceiveClosed(c) \/ GiveUp(c)
      PROVE TypeOK'
  <2>1. CASE CheckRunning(c)
    BY <2>1 DEF CheckRunning, Reasons
  <2>2. CASE WriteFails(c) \/ ReceiveClosed(c) \/ GiveUp(c)
    <3>1. \E why \in Reasons : pc' = [pc EXCEPT ![c] = why]
      BY <2>2 DEF WriteFails, ReceiveClosed, GiveUp, Reasons
    <3>2. QED
      BY <2>2, <3>1 DEF WriteFails, ReceiveClosed, GiveUp
  <2>3. QED
    BY <1>4, <2>1, <2>2
<1>5. ASSUME NEW c \in Calls, WriteBody(c) \/ WriteNewline(c) PROVE TypeOK'
  <2>1. stdin' \in Seq(Calls \cup {Newline}) /\ Len(stdin') <= PipeCap
    <3>1. \E x \in Calls \cup {Newline} : stdin' = Append(stdin, x) /\ Len(stdin) < PipeCap
      BY <1>5 DEF WriteBody, WriteNewline
    <3>2. QED
      BY <3>1, Caps
  <2>2. QED
    <3>1. CASE WriteBody(c)
      BY <2>1, <3>1 DEF WriteBody
    <3>2. CASE WriteNewline(c)
      <4>1. pc'[c] \in {"done", "wait"} /\ pc' = [pc EXCEPT ![c] = pc'[c]]
        BY <3>2 DEF WriteNewline
      <4>2. QED
        BY <2>1, <3>2, <4>1 DEF WriteNewline, Returned
    <3>3. QED
      BY <1>5, <3>1, <3>2
<1>6. ASSUME NEW c \in Calls, Receive(c) PROVE TypeOK'
  <2>1. chan' \in Seq(Message) /\ Len(chan') <= ChanCap /\ Head(chan) \in Message
    BY <1>6, Caps DEF Receive
  <2>2. AfterMessage(c, Head(chan)) \in {"closed", "wait", "ok", "error"}
    BY <2>1, MessageLeads
  <2>3. QED
    BY <1>6, <2>1, <2>2 DEF Receive, Reasons
<1>7. ASSUME NEW c \in Calls, Respond(c) \/ Cleanup(c) PROVE TypeOK'
  <2>1. reqMap' \in [Keys -> Calls \cup {NoCall}]
    BY <1>7, OwnEntry DEF Respond, Cleanup
  <2>2. span' \in [Calls -> {"none", "open"} \cup Final]
    <3>1. \E s \in Final : span' = EndSpan(Entries(reqMap, Mine(c)), s)
      BY <1>7, ReasonsEnd DEF Respond, Cleanup, Final
    <3>2. QED
      BY <3>1 DEF EndSpan
  <2>3. QED
    <3>1. CASE Respond(c)
      BY <2>1, <2>2, <3>1 DEF Respond, Returned
    <3>2. CASE Cleanup(c)
      BY <2>1, <2>2, <3>2, ReasonsEnd DEF Cleanup
    <3>3. QED
      BY <1>7, <3>1, <3>2
<1>8. ASSUME ChildReads PROVE TypeOK'
  <2>1. stdin' \in Seq(Calls \cup {Newline}) /\ Len(stdin') <= PipeCap
        /\ Head(stdin) \in Calls \cup {Newline}
    BY <1>8, Caps DEF ChildReads
  <2>2. partial' \subseteq Calls
    BY <1>8, <2>1 DEF ChildReads
  <2>3. reply' \in [Calls -> {"unasked", "asked", "ok", "error"}]
    BY <1>8 DEF ChildReads
  <2>4. QED
    BY <1>8, <2>1, <2>2, <2>3 DEF ChildReads
<1>9. ASSUME ChildNotes \/ \E c \in Calls : ChildAnswers(c) PROVE TypeOK'
  <2>1. ASSUME NEW m \in Message, Prints(m)
        PROVE  out' \in Seq(Message) /\ Len(out') <= OutCap
    BY <2>1, Caps DEF Prints
  <2>2. CASE ChildNotes
    <3>1. out' \in Seq(Message) /\ Len(out') <= OutCap
      BY <2>1, <2>2, MessagesTyped, NotesTyped DEF ChildNotes
    <3>2. notes' \in 0..MaxNotes
      BY <2>2, Caps DEF ChildNotes
    <3>3. QED
      BY <2>2, <3>1, <3>2 DEF ChildNotes, Prints
  <2>3. ASSUME NEW c \in Calls, ChildAnswers(c) PROVE TypeOK'
    <3>1. post[c].id \in Ids \cup {NoId} /\ post[c].answer \in Answered
      BY <1>0 DEF Request, Answered
    <3>2. out' \in Seq(Message) /\ Len(out') <= OutCap
      BY <2>1, <2>3, <3>1, MessagesTyped DEF ChildAnswers
    <3>3. QED
      BY <2>3, <3>1, <3>2 DEF ChildAnswers, Prints, Answered
  <2>4. QED
    BY <1>9, <2>2, <2>3
<1>10. ASSUME ChildMutes \/ ChildDies PROVE TypeOK'
  <2>1. CASE ChildMutes
    BY <2>1 DEF ChildMutes
  <2>2. CASE ChildDies
    <3>1. stdin' \in Seq(Calls \cup {Newline}) /\ Len(stdin') <= PipeCap
      BY <2>2, Caps DEF ChildDies
    <3>2. QED
      BY <2>2, <3>1 DEF ChildDies
  <2>3. QED
    BY <1>10, <2>1, <2>2
<1>11. ASSUME ReadLine PROVE TypeOK'
  <2>1. out' \in Seq(Message) /\ Len(out') <= OutCap /\ Head(out) \in Message
    BY <1>11, Caps DEF ReadLine
  <2>2. QED
    BY <1>11, <2>1 DEF ReadLine
<1>12. ASSUME Send PROVE TypeOK'
  <2>1. chan' \in Seq(Message) /\ Len(chan') <= ChanCap
    BY <1>12, MessagesTyped, Caps DEF Send
  <2>2. QED
    BY <1>12, <2>1, MessagesTyped DEF Send, Nothing
<1>13. ASSUME ReadEnds \/ SendCancelled \/ Close PROVE TypeOK'
  BY <1>13, MessagesTyped DEF ReadEnds, SendCancelled, Close, Nothing
<1>14. ASSUME Process \/ UNCHANGED vars PROVE TypeOK'
  <2>1. CASE Reap
    <3>1. PICK n \in 0..Len(out) : out' = SubSeq(out, 1, n)
      BY <2>1 DEF Reap
    <3>2. out' \in Seq(Message) /\ Len(out') <= OutCap
      BY <3>1, Caps, PrefixOf
    <3>3. QED
      BY <2>1, <3>2 DEF Reap
  <2>2. CASE MarkStopped
    BY <2>2 DEF MarkStopped
  <2>3. CASE Cancel \/ StopStdin
    BY <2>3 DEF Cancel, StopStdin
  <2>4. CASE UNCHANGED vars
    BY <2>4 DEF vars
  <2>5. QED
    BY <1>14, <2>1, <2>2, <2>3, <2>4 DEF Process
<1>15. QED
  BY <1>1, <1>2, <1>3, <1>4, <1>5, <1>6, <1>7, <1>8, <1>9, <1>10, <1>11, <1>12, <1>13, <1>14
     DEF Next, Handler, Child, ReadResponses

-----------------------------------------------------------------------------
(* The table and the handlers *)

LEMMA PostFixed == ASSUME [Next]_vars PROVE UNCHANGED <<post, serial>>
BY DEF Next, Handler, Child, ReadResponses, Process, vars, handlerVars,
       BadBody, Arrive, Remember, StartSpan, CheckRunning, WriteBody, WriteNewline, WriteFails,
       Receive, ReceiveClosed, GiveUp, Respond, Cleanup,
       ChildReads, ChildAnswers, ChildNotes, ChildMutes, ChildDies,
       ReadLine, ReadEnds, Send, SendCancelled, Close, Reap, MarkStopped, Cancel, StopStdin

\* What is no handler's step leaves the handlers and the table alone.
LEMMA OthersKeep ==
    ASSUME Child \/ ReadResponses \/ Process \/ UNCHANGED vars
    PROVE  UNCHANGED <<handlerVars, pc, span, reqMap>>
BY DEF Child, ReadResponses, Process, vars,
       ChildReads, ChildAnswers, ChildNotes, ChildMutes, ChildDies,
       ReadLine, ReadEnds, Send, SendCancelled, Close, Reap, MarkStopped, Cancel, StopStdin

\* A handler in the middle of its work.
Moves(c) == \/ CheckRunning(c) \/ WriteBody(c) \/ WriteNewline(c) \/ WriteFails(c)
            \/ Receive(c) \/ ReceiveClosed(c) \/ GiveUp(c)

\* It stays at work, or returns without a span.
LEMMA MovesOn ==
    ASSUME TypeOK, NEW c \in Calls, Moves(c)
    PROVE  /\ UNCHANGED <<handlerVars, span, reqMap>>
           /\ pc[c] \in Active
           /\ pc' = [pc EXCEPT ![c] = pc'[c]]
           /\ pc'[c] \in Active \/ (pc'[c] = "done" /\ ~Traced(c))
<1> USE DEF TypeOK, Active, Reasons
<1>1. CASE CheckRunning(c) \/ WriteBody(c) \/ WriteFails(c) \/ ReceiveClosed(c) \/ GiveUp(c)
  BY <1>1 DEF CheckRunning, WriteBody, WriteFails, ReceiveClosed, GiveUp
<1>2. CASE WriteNewline(c)
  BY <1>2 DEF WriteNewline, IsNotification, Traced
<1>3. CASE Receive(c)
  <2>1. Head(chan) \in Message
    BY <1>3 DEF Receive
  <2>2. AfterMessage(c, Head(chan)) \in {"closed", "wait", "ok", "error"}
    BY <2>1, MessageLeads
  <2>3. QED
    BY <1>3, <2>2 DEF Receive
<1>4. QED
  BY <1>1, <1>2, <1>3 DEF Moves

\* The table, the stages of a span and who may be at work.
Table == MapSound /\ SpanStaged /\ OneAtATime /\ Held

LEMMA TableInit == Init => Table
BY NoneAssumption
   DEF Init, Table, MapSound, SpanStaged, OneAtATime, Held, EmptyMap, AtWork

\* Its own key is not a rival's.
LEMMA NoRival ==
    ASSUME TypeOK, OneAtATime, NEW c \in Calls, NEW d \in Calls, c # d,
           serial \/ Unshared(d), AtWork(c), AtWork(d)
    PROVE  Key(c) # Key(d)
BY DEF OneAtATime, Unshared, Key, CorrelationKey

\* The end of a handler takes what its key holds, and ends just that span.
LEMMA EndStep ==
    ASSUME TypeOK, Table, NEW c \in Calls, NEW s \in Final, UNCHANGED <<post, serial>>,
           pc[c] \in Active, pc'[c] \in Returned, pc' = [pc EXCEPT ![c] = pc'[c]],
           reqMap' = Without(reqMap, Mine(c)),
           span' = EndSpan(Entries(reqMap, Mine(c)), s)
    PROVE  Table'
<1> DEFINE gone == Entries(reqMap, Mine(c))
<1>1. \A k \in Keys : reqMap'[k] = IF k \in Mine(c) THEN NoCall ELSE reqMap[k]
  BY DEF Without
<1>2. \A d \in Calls : span'[d] = IF d \in gone THEN s ELSE span[d]
  BY DEF EndSpan
<1>3. \A d \in Calls : d \in gone => /\ span[d] = "open" /\ Traced(d) /\ Key(d) \in Mine(c)
                                     /\ pc[d] \in Active
  BY OwnEntry DEF Entries, Table, MapSound
<1>4. s # "open" /\ s # "none"
  BY FinalStatus
<1>5. \A d \in Calls \ {c} : pc'[d] = pc[d]
  BY DEF TypeOK
<1>6. Returned \cap Active = {} /\ Returned \cap {"idle", "naming", "start"} = {}
      /\ Active \cap {"idle", "naming", "start"} = {}
  BY DEF Returned, Active, Reasons
<1>7. MapSound'
  <2> SUFFICES ASSUME NEW k \in Keys, NEW d \in Calls, reqMap'[k] = d
               PROVE  /\ Traced(d)' /\ Key(d)' = k
                      /\ span'[d] = "open" /\ pc'[d] \in Active
    BY DEF MapSound
  <2>1. k \notin Mine(c) /\ reqMap[k] = d
    BY <1>1, NoneAssumption
  <2>2. Traced(d) /\ Key(d) = k /\ span[d] = "open" /\ pc[d] \in Active
    BY <2>1 DEF Table, MapSound
  <2>3. d \notin gone
    BY <1>3, <2>1, <2>2
  <2>4. d # c
    BY <2>1, <2>2, OwnEntry
  <2>5. QED
    BY <1>2, <1>5, <2>2, <2>3, <2>4, SameRequests
<1>8. SpanStaged'
  <2> SUFFICES ASSUME NEW d \in Calls
               PROVE  /\ pc'[d] \in {"idle", "naming", "start"} => span'[d] = "none"
                      /\ pc'[d] = "start" \/ span'[d] # "none" => Traced(d)'
                      /\ pc'[d] = "naming" => (post[d].method = "initialize")'
    BY DEF SpanStaged
  <2>1. (Traced(d)' <=> Traced(d)) /\ ((post[d].method = "initialize")' <=> post[d].method = "initialize")
    BY SameRequests
  <2>2. CASE d \in gone
    BY <1>3, <1>5, <1>6, <2>1, <2>2
  <2>3. CASE d \notin gone
    BY <1>2, <1>5, <1>6, <2>1, <2>3 DEF Table, SpanStaged
  <2>4. QED
    BY <2>2, <2>3
<1>9. OneAtATime'
  BY <1>5 DEF Table, OneAtATime, AtWork
<1>10. Held'
  <2> SUFFICES ASSUME NEW d \in Calls, (serial \/ Unshared(d))', span'[d] = "open"
               PROVE  pc'[d] \in Active /\ reqMap'[Key(d)'] = d
    BY DEF Held
  <2>1. d \notin gone /\ span[d] = "open" /\ (serial \/ Unshared(d)) /\ Key(d)' = Key(d)
    BY <1>2, <1>4, SameRequests
  <2>2. pc[d] \in Active /\ reqMap[Key(d)] = d /\ Traced(d)
    BY <2>1 DEF Table, Held, SpanStaged
  <2>3. Key(d) \in Keys /\ Key(d) \notin Mine(c)
    BY <2>1, <2>2, OwnEntry, NoneAssumption DEF Entries
  <2>4. d # c
    BY <2>2, <2>3, OwnEntry
  <2>5. QED
    BY <1>1, <1>5, <2>1, <2>2, <2>3, <2>4
<1>11. QED
  BY <1>7, <1>8, <1>9, <1>10 DEF Table

LEMMA TableStep ==
    ASSUME TypeOK, Table, [Next]_vars
    PROVE  Table'
<1>0. UNCHANGED <<post, serial>>
  BY PostFixed
<1>1. CASE UNCHANGED <<handlerVars, pc, span, reqMap>>
  BY <1>1 DEF handlerVars, Table, MapSound, SpanStaged, OneAtATime, Held, AtWork,
              Traced, Unshared, Key, CorrelationKey
\* Steps that leave the table and the spans alone.
<1>2. ASSUME NEW c \in Calls, UNCHANGED <<span, reqMap>>,
             pc' = [pc EXCEPT ![c] = pc'[c]],
             \/ pc[c] \in Active /\ pc'[c] \in Active
             \/ pc[c] \in Active /\ pc'[c] = "done" /\ ~Traced(c)
             \/ pc[c] = "idle" /\ May(c) /\ pc'[c] \in {"failed", "naming", "start", "check"}
             \/ pc[c] = "naming" /\ pc'[c] \in {"start", "check"},
             pc'[c] = "start" => Traced(c),
             pc'[c] = "naming" => post[c].method = "initialize"
      PROVE  Table'
  <2>1. \A d \in Calls \ {c} : pc'[d] = pc[d]
    BY <1>2 DEF TypeOK
  <2>2. span[c] # "none" => pc'[c] \in Active
    BY <1>2 DEF Table, SpanStaged
  <2>3. \A d \in Calls : (Traced(d)' <=> Traced(d)) /\ (Unshared(d)' <=> Unshared(d)) /\ Key(d)' = Key(d)
    BY <1>0, SameRequests
  <2>4. MapSound'
    <3> SUFFICES ASSUME NEW k \in Keys, NEW d \in Calls, reqMap'[k] = d
                 PROVE  /\ Traced(d)' /\ Key(d)' = k
                        /\ span'[d] = "open" /\ pc'[d] \in Active
      BY DEF MapSound
    <3>1. Traced(d) /\ Key(d) = k /\ span[d] = "open" /\ pc[d] \in Active
      BY <1>2 DEF Table, MapSound
    <3>2. QED
      BY <1>2, <2>1, <2>2, <2>3, <3>1
  <2>5. SpanStaged'
    BY <1>0, <1>2, <2>1, <2>2, <2>3 DEF Table, SpanStaged, Active, Reasons
  <2>6. OneAtATime'
    BY <1>0, <1>2, <2>1 DEF Table, OneAtATime, AtWork, May, Active, Reasons, Returned
  <2>7. Held'
    <3> SUFFICES ASSUME NEW d \in Calls, (serial \/ Unshared(d))', span'[d] = "open"
                 PROVE  pc'[d] \in Active /\ reqMap'[Key(d)'] = d
      BY DEF Held
    <3>1. (serial \/ Unshared(d)) /\ span[d] = "open"
      BY <1>0, <1>2, <2>3
    <3>2. pc[d] \in Active /\ reqMap[Key(d)] = d
      BY <3>1 DEF Table, Held
    <3>3. QED
      BY <1>2, <2>1, <2>2, <2>3, <3>1, <3>2
  <2>8. QED
    BY <2>4, <2>5, <2>6, <2>7 DEF Table
<1>3. ASSUME NEW c \in Calls, BadBody(c) PROVE Table'
  BY <1>2, <1>3 DEF BadBody, TypeOK
<1>4. ASSUME NEW c \in Calls, Arrive(c) PROVE Table'
  BY <1>2, <1>4 DEF Arrive, Start, TypeOK
<1>5. ASSUME NEW c \in Calls, Remember(c) PROVE Table'
  BY <1>2, <1>5 DEF Remember, Start, TypeOK
<1>6. ASSUME NEW c \in Calls, Moves(c) PROVE Table'
  <2>1. pc'[c] # "start" /\ pc'[c] # "naming"
    BY <1>6, MovesOn DEF Active, Reasons
  <2>2. QED
    BY <1>2, <1>6, <2>1, MovesOn
<1>7. ASSUME NEW c \in Calls, StartSpan(c) PROVE Table'
  <2>1. pc[c] = "start" /\ Traced(c) /\ span[c] = "none"
    BY <1>7 DEF StartSpan, Table, SpanStaged
  <2>2. \A d \in Calls : pc'[d] = IF d = c THEN "check" ELSE pc[d]
    BY <1>7 DEF StartSpan, TypeOK
  <2>3. \A d \in Calls : span'[d] = IF d = c THEN "open" ELSE span[d]
    BY <1>7 DEF StartSpan, TypeOK
  <2>4. Key(c) \in Keys /\ \A k \in Keys : reqMap'[k] = IF k = Key(c) THEN c ELSE reqMap[k]
    BY <1>7, <2>1, OwnEntry DEF StartSpan, Store, Key, TypeOK
  <2>5. \A d \in Calls : (Traced(d)' <=> Traced(d)) /\ (Unshared(d)' <=> Unshared(d)) /\ Key(d)' = Key(d)
    BY <1>0, SameRequests
  <2>6. MapSound'
    BY <2>1, <2>2, <2>3, <2>4, <2>5 DEF Table, MapSound, Active, Reasons
  <2>7. SpanStaged'
    BY <1>0, <2>1, <2>2, <2>3, <2>5 DEF Table, SpanStaged
  <2>8. OneAtATime'
    BY <1>0, <2>1, <2>2 DEF Table, OneAtATime, AtWork, Returned
  <2>9. Held'
    <3> SUFFICES ASSUME NEW d \in Calls, (serial \/ Unshared(d))', span'[d] = "open", d # c
                 PROVE  pc'[d] \in Active /\ reqMap'[Key(d)] = d
      BY <2>2, <2>4, <2>5 DEF Held, Active, Reasons
    <3>1. (serial \/ Unshared(d)) /\ pc[d] \in Active /\ reqMap[Key(d)] = d /\ Traced(d)
      BY <1>0, <2>3, <2>5 DEF Table, Held, SpanStaged
    <3>2. AtWork(c) /\ AtWork(d)
      BY <2>1, <3>1 DEF AtWork, Active, Reasons, Returned
    <3>3. Key(c) # Key(d) /\ Key(d) \in Keys
      BY <3>1, <3>2, NoRival, OwnEntry DEF Table
    <3>4. QED
      BY <2>2, <2>4, <3>1, <3>3
  <2>10. QED
    BY <2>6, <2>7, <2>8, <2>9 DEF Table
<1>8. ASSUME NEW c \in Calls, Respond(c) PROVE Table'
  <2>1. pc[c] \in Final /\ pc[c] \in Active /\ pc' = [pc EXCEPT ![c] = pc'[c]] /\ pc'[c] \in Returned
    BY <1>8 DEF Respond, Final, Active, Reasons, Returned, TypeOK
  <2>2. reqMap' = Without(reqMap, Mine(c)) /\ span' = EndSpan(Entries(reqMap, Mine(c)), pc[c])
    BY <1>8 DEF Respond
  <2>3. QED
    BY <1>0, <2>1, <2>2, EndStep
<1>9. ASSUME NEW c \in Calls, Cleanup(c) PROVE Table'
  <2>1. /\ pc[c] \in Active /\ pc' = [pc EXCEPT ![c] = pc'[c]] /\ pc'[c] \in Returned
        /\ EndFor(pc[c]) \in Final
    BY <1>9, ReasonsEnd DEF Cleanup, Active, TypeOK
  <2>2. reqMap' = Without(reqMap, Mine(c)) /\ span' = EndSpan(Entries(reqMap, Mine(c)), EndFor(pc[c]))
    BY <1>9 DEF Cleanup
  <2>3. QED
    BY <1>0, <2>1, <2>2, EndStep
<1>10. QED
  BY <1>1, <1>3, <1>4, <1>5, <1>6, <1>7, <1>8, <1>9, OthersKeep DEF Next, Handler, Moves

-----------------------------------------------------------------------------
(* The way of a request *)

\* Who has sent its body never stands before that again.
LEMMA SentStays ==
    ASSUME TypeOK, [Next]_vars, NEW c \in Calls, pc[c] \notin Unsent
    PROVE  pc'[c] \notin Unsent
<1> USE DEF TypeOK, Unsent
<1>1. ASSUME NEW d \in Calls, BadBody(d) \/ Arrive(d) \/ Remember(d) \/ StartSpan(d) \/ CheckRunning(d)
      PROVE  pc'[c] \notin Unsent
  BY <1>1 DEF BadBody, Arrive, Remember, StartSpan, CheckRunning
<1>2. ASSUME NEW d \in Calls, WriteBody(d) \/ WriteNewline(d) \/ WriteFails(d)
                              \/ ReceiveClosed(d) \/ GiveUp(d) \/ Respond(d) \/ Cleanup(d)
      PROVE  pc'[c] \notin Unsent
  BY <1>2, ReasonsEnd DEF Returned, WriteBody, WriteNewline, WriteFails, ReceiveClosed, GiveUp, Respond, Cleanup
<1>3. ASSUME NEW d \in Calls, Receive(d) PROVE pc'[c] \notin Unsent
  <2>1. Head(chan) \in Message
    BY <1>3 DEF Receive
  <2>2. AfterMessage(d, Head(chan)) \in {"closed", "wait", "ok", "error"}
    BY <2>1, MessageLeads
  <2>3. QED
    BY <1>3, <2>2 DEF Receive
<1>4. QED
  BY <1>1, <1>2, <1>3, OthersKeep DEF Next, Handler

LEMMA ReadOnceStep ==
    ASSUME TypeOK, ReadOnce, [Next]_vars
    PROVE  ReadOnce'
<1> USE DEF TypeOK
<1>0. \A c \in Calls : pc[c] \notin Unsent => pc'[c] \notin Unsent
  BY SentStays
<1>1. CASE UNCHANGED <<stdin, partial, reply>>
  BY <1>0, <1>1 DEF ReadOnce, InStdin
<1>2. ASSUME NEW c \in Calls, WriteBody(c) PROVE ReadOnce'
  <2>1. ~InStdin(c) /\ c \notin partial /\ reply[c] = "unasked" /\ pc'[c] \notin Unsent
    BY <1>2 DEF WriteBody, ReadOnce, Unsent
  <2>2. /\ DOMAIN stdin' = 1..Len(stdin) + 1 /\ DOMAIN stdin = 1..Len(stdin) /\ Len(stdin) \in Nat
        /\ \A i \in 1..Len(stdin) : stdin'[i] = stdin[i]
        /\ stdin'[Len(stdin) + 1] = c
    BY <1>2 DEF WriteBody
  <2>3. \A i, j \in DOMAIN stdin' : stdin'[i] = stdin'[j] /\ stdin'[i] \in Calls => i = j
    <3> SUFFICES ASSUME NEW i \in DOMAIN stdin', NEW j \in DOMAIN stdin',
                        stdin'[i] = stdin'[j], stdin'[i] \in Calls
                 PROVE  i = j
      OBVIOUS
    <3>1. \A k \in 1..Len(stdin) : stdin'[k] # c
      BY <2>1, <2>2 DEF InStdin
    <3>2. CASE i = Len(stdin) + 1 \/ j = Len(stdin) + 1
      BY <2>2, <3>1, <3>2
    <3>3. CASE i \in 1..Len(stdin) /\ j \in 1..Len(stdin)
      BY <2>2, <3>3 DEF ReadOnce
    <3>4. QED
      BY <2>2, <3>2, <3>3
  <2>4. \A d \in Calls : InStdin(d)' => d = c \/ InStdin(d)
    BY <2>2 DEF InStdin
  <2>5. QED
    BY <1>0, <1>2, <2>1, <2>3, <2>4 DEF ReadOnce, WriteBody
<1>3. ASSUME NEW c \in Calls, WriteNewline(c) PROVE ReadOnce'
  <2>1. Newline \notin Calls
    BY NoneAssumption DEF Newline
  <2>2. /\ DOMAIN stdin' = 1..Len(stdin) + 1 /\ DOMAIN stdin = 1..Len(stdin) /\ Len(stdin) \in Nat
        /\ \A i \in 1..Len(stdin) : stdin'[i] = stdin[i]
        /\ stdin'[Len(stdin) + 1] = Newline
    BY <1>3 DEF WriteNewline
  <2>3. \A i, j \in DOMAIN stdin' : stdin'[i] = stdin'[j] /\ stdin'[i] \in Calls => i = j
    <3> SUFFICES ASSUME NEW i \in DOMAIN stdin', NEW j \in DOMAIN stdin',
                        stdin'[i] = stdin'[j], stdin'[i] \in Calls
                 PROVE  i = j
      OBVIOUS
    <3>1. i \in 1..Len(stdin) /\ j \in 1..Len(stdin)
      BY <2>1, <2>2
    <3>2. QED
      BY <2>2, <3>1 DEF ReadOnce
  <2>4. \A d \in Calls : InStdin(d)' => InStdin(d)
    <3> SUFFICES ASSUME NEW d \in Calls, NEW i \in DOMAIN stdin', stdin'[i] = d PROVE InStdin(d)
      BY DEF InStdin
    <3>1. i \in 1..Len(stdin)
      BY <2>1, <2>2
    <3>2. QED
      BY <2>2, <3>1 DEF InStdin
  <2>5. QED
    BY <1>0, <1>3, <2>3, <2>4 DEF ReadOnce, WriteNewline
<1>4. ASSUME ChildReads PROVE ReadOnce'
  <2>1. stdin # <<>> /\ stdin' = Tail(stdin) /\ pc' = pc
    BY <1>4 DEF ChildReads
  <2>2. /\ DOMAIN stdin = 1..Len(stdin) /\ Len(stdin) \in Nat \ {0} /\ Head(stdin) = stdin[1]
        /\ DOMAIN stdin' = 1..Len(stdin) - 1
        /\ \A i \in 1..Len(stdin) - 1 : stdin'[i] = stdin[i + 1]
    BY <2>1
  <2>3. \A i, j \in DOMAIN stdin' : stdin'[i] = stdin'[j] /\ stdin'[i] \in Calls => i = j
    <3> SUFFICES ASSUME NEW i \in DOMAIN stdin', NEW j \in DOMAIN stdin',
                        stdin'[i] = stdin'[j], stdin'[i] \in Calls
                 PROVE  i = j
      OBVIOUS
    <3>1. i + 1 \in DOMAIN stdin /\ j + 1 \in DOMAIN stdin /\ stdin[i + 1] = stdin[j + 1]
      BY <2>2
    <3>2. i + 1 = j + 1
      BY <2>2, <3>1 DEF ReadOnce
    <3>3. QED
      BY <2>2, <3>2
  <2>4. \A d \in Calls : InStdin(d)' => InStdin(d) /\ Head(stdin) # d
    <3> SUFFICES ASSUME NEW d \in Calls, NEW i \in 1..Len(stdin) - 1, stdin[i + 1] = d
                 PROVE  InStdin(d) /\ stdin[1] # d
      BY <2>2 DEF InStdin
    <3>1. i + 1 \in DOMAIN stdin /\ 1 \in DOMAIN stdin /\ i + 1 # 1
      BY <2>2
    <3>2. QED
      BY <3>1 DEF ReadOnce, InStdin
  <2>5. Head(stdin) \in Calls => InStdin(Head(stdin))
    BY <2>2 DEF InStdin
  <2>6. CASE Head(stdin) = Newline
    <3>1. partial' = {} /\ \A d \in Calls : reply'[d] # reply[d] => partial = {d}
      BY <1>4, <2>6 DEF ChildReads
    <3>2. QED
      BY <2>1, <2>3, <2>4, <3>1 DEF ReadOnce
  <2>7. CASE Head(stdin) # Newline
    <3>1. partial' = partial \cup {Head(stdin)} /\ reply' = reply
      BY <1>4, <2>7 DEF ChildReads
    <3>2. QED
      BY <2>1, <2>3, <2>4, <2>5, <3>1 DEF ReadOnce
  <2>8. QED
    BY <2>6, <2>7
<1>5. ASSUME NEW c \in Calls, ChildAnswers(c) PROVE ReadOnce'
  <2>1. \A d \in Calls : reply'[d] # reply[d] => d = c
    BY <1>5 DEF ChildAnswers
  <2>2. UNCHANGED <<stdin, partial, pc>> /\ reply[c] = "asked"
    BY <1>5 DEF ChildAnswers
  <2>3. QED
    BY <2>1, <2>2 DEF ReadOnce, InStdin
<1>6. ASSUME ChildMutes \/ ChildDies PROVE ReadOnce'
  BY <1>6 DEF ChildMutes, ChildDies, ReadOnce, InStdin
<1>7. ASSUME NEW c \in Calls, BadBody(c) \/ Arrive(c) \/ Remember(c) \/ StartSpan(c) \/ CheckRunning(c)
                              \/ WriteFails(c) \/ Receive(c) \/ ReceiveClosed(c) \/ GiveUp(c)
                              \/ Respond(c) \/ Cleanup(c)
      PROVE  UNCHANGED <<stdin, partial, reply>>
  BY <1>7 DEF childVars, BadBody, Arrive, Remember, StartSpan, CheckRunning, WriteFails,
              Receive, ReceiveClosed, GiveUp, Respond, Cleanup
<1>8. CASE ChildNotes \/ ReadResponses \/ Process \/ UNCHANGED vars
  BY <1>1, <1>8 DEF childVars, vars, ChildNotes, ReadResponses, Process,
              ReadLine, ReadEnds, Send, SendCancelled, Close, Reap, MarkStopped, Cancel, StopStdin
<1>9. QED
  BY <1>1, <1>2, <1>3, <1>4, <1>5, <1>6, <1>7, <1>8 DEF Next, Handler, Child

\* An answer is given once.
LEMMA RepliesStay ==
    ASSUME TypeOK, ReadOnce, [Next]_vars, NEW c \in Calls
    PROVE  /\ reply[c] \in Answered => reply'[c] = reply[c]
           /\ reply'[c] # "unasked" => reply[c] # "unasked" \/ c \in partial
<1> USE DEF TypeOK, Answered
<1>1. ASSUME ChildReads PROVE reply'[c] # reply[c] => partial = {c} /\ reply[c] = "unasked"
  BY <1>1 DEF ChildReads, ReadOnce
<1>2. ASSUME NEW d \in Calls, ChildAnswers(d) PROVE reply'[c] # reply[c] => reply[c] = "asked"
  BY <1>2 DEF ChildAnswers
<1>3. ASSUME \/ \E d \in Calls : Handler(d)
             \/ ChildNotes \/ ChildMutes \/ ChildDies \/ ReadResponses \/ Process \/ UNCHANGED vars
      PROVE  reply' = reply
  BY <1>3 DEF childVars, vars, Handler, ReadResponses, Process, ChildNotes, ChildMutes, ChildDies,
       BadBody, Arrive, Remember, StartSpan, CheckRunning, WriteBody, WriteNewline, WriteFails,
       Receive, ReceiveClosed, GiveUp, Respond, Cleanup,
       ReadLine, ReadEnds, Send, SendCancelled, Close, Reap, MarkStopped, Cancel, StopStdin
<1>4. QED
  BY <1>1, <1>2, <1>3 DEF Next, Child

-----------------------------------------------------------------------------
(* The way of an answer *)
LEMMA SaidStays ==
    ASSUME TypeOK, ReadOnce, [Next]_vars, NEW i, NEW o \in Answered, Said(i, o)
    PROVE  Said(i, o)'
BY PostFixed, RepliesStay DEF Said

\* A message that was an answer stays one, and so do those in a line.
LEMMA ToldStays ==
    ASSUME TypeOK, ReadOnce, [Next]_vars
    PROVE  /\ Told \subseteq Told' /\ Seq(Told) \subseteq Seq(Told')
           /\ Sent \subseteq Sent' /\ Seq(Sent) \subseteq Seq(Sent')
<1>1. Told \subseteq Told'
  <2> SUFFICES ASSUME NEW m \in Message, m.kind = "answer", Said(m.id, m.outcome)
               PROVE  Said(m.id, m.outcome)'
    BY DEF Told
  <2>1. m.outcome \in Answered
    BY DEF Message, Answered
  <2>2. QED
    BY <2>1, SaidStays
<1>2. Sent \subseteq Sent'
  BY <1>1 DEF Sent
<1>3. QED
  BY <1>1, <1>2, SeqMonotonic

\* A handler goes on to respond only with an answer, or a request, under its id,
\* and finds the channel closed or broken only after the reader has stopped.
LEMMA TakesOwn ==
    ASSUME NEW c \in Calls, NEW m \in Sent
    PROVE  /\ AfterMessage(c, m) \in Answered =>
                post[c].id \in ChildIds \/ Said(post[c].id, AfterMessage(c, m))
           /\ AfterMessage(c, m) = "closed" => m.kind = "err"
<1>1. CASE m = Other("err")
  BY <1>1 DEF AfterMessage, Answered, Other
<1>2. CASE m \in Told /\ m.kind # "long"
  <2>1. /\ m.kind \in {"answer", "request", "note"} /\ m.outcome \in Answered
        /\ m.kind = "answer" => Said(m.id, m.outcome)
        /\ m.kind = "request" => m.id \in ChildIds
    <3>1. m \in Message /\ m.kind # "err" /\ m.kind # "long"
      BY <1>2 DEF Told
    <3>2. m.kind \in {"answer", "request", "note", "long", "err"} /\ m.outcome \in Answered
      BY <3>1 DEF Message, Answered
    <3>3. QED
      BY <1>2, <3>1, <3>2 DEF Told
  <2>2. CASE m.kind = "note" \/ m.id # post[c].id
    BY <2>1, <2>2 DEF AfterMessage, Answered
  <2>3. CASE m.kind # "note" /\ m.id = post[c].id
    <3>1. AfterMessage(c, m) = m.outcome
      BY <2>1, <2>3 DEF AfterMessage
    <3>2. QED
      BY <2>1, <2>3, <3>1 DEF Answered
  <2>4. QED
    BY <2>2, <2>3
<1>3. QED
  BY <1>1, <1>2 DEF Sent

LEMMA NotAnswers == /\ \A k \in {"note", "long"} : Other(k) \in Told
                    /\ Other("err") \in Sent /\ Sent \subseteq Message
BY MessagesTyped DEF Sent, Told, Other

LEMMA AnswerSoundStep ==
    ASSUME TypeOK, ReadOnce, AnswerSound, [Next]_vars
    PROVE  AnswerSound'
<1> USE DEF TypeOK
<1>0. /\ UNCHANGED post /\ Told \subseteq Told' /\ Seq(Told) \subseteq Seq(Told')
      /\ Seq(Sent) \subseteq Seq(Sent')
  BY PostFixed, ToldStays
<1>1. ASSUME NEW c \in Calls, NEW o \in Answered, pc[c] = o
      PROVE  post[c].id \in ChildIds \/ Said(post[c].id, o)'
  <2>1. post[c].id \in ChildIds \/ Said(post[c].id, o)
    BY <1>1 DEF AnswerSound
  <2>2. QED
    BY <1>0, <2>1, SaidStays
\* The messages on their way.
<1>2. CASE UNCHANGED <<out, hand, chan>> /\ (reader' \in {"reading", "sending"} => reader' = reader)
  <2>1. /\ out' \in Seq(Told') /\ hand' \in Told' /\ chan' \in Seq(Sent')
        /\ hand'.kind = "long" => reader' \notin {"reading", "sending"}
    BY <1>0, <1>2 DEF AnswerSound
  <2>2. ASSUME NEW c \in Calls, pc'[c] \in Answered PROVE pc'[c] = pc[c]
    <3>1. ~ \E d \in Calls : Receive(d)
      <4> SUFFICES ASSUME NEW d \in Calls, Receive(d) PROVE FALSE
        OBVIOUS
      <4>1. Tail(chan) # chan
        BY DEF Receive
      <4>2. QED
        BY <1>2, <4>1 DEF Receive
    <3>2. Answered \cap Returned = {}
      BY DEF Answered, Returned
    <3>3. ASSUME NEW d \in Calls, Cleanup(d) PROVE pc'[c] = pc[c]
      BY <2>2, <3>2, <3>3, ReasonsEnd DEF Cleanup
    <3>4. QED
      BY <2>2, <3>1, <3>3, OthersKeep
         DEF Next, Handler, Answered, BadBody, Arrive, Start, Remember, StartSpan, CheckRunning,
             WriteBody, WriteNewline, WriteFails, ReceiveClosed, GiveUp, Respond
  <2>3. QED
    BY <1>0, <1>1, <2>1, <2>2 DEF AnswerSound
<1>3. ASSUME NEW c \in Calls, Receive(c) PROVE AnswerSound'
  <2>1. Head(chan) \in Sent /\ chan' \in Seq(Sent) /\ out' = out /\ hand' = hand /\ reader' = reader
    BY <1>3 DEF Receive, AnswerSound
  <2>2. ASSUME NEW d \in Calls, NEW o \in Answered, pc'[d] = o
        PROVE  post[d].id \in ChildIds \/ Said(post[d].id, o)'
    <3>1. CASE d # c
      BY <1>1, <1>3, <2>2, <3>1 DEF Receive
    <3>2. CASE d = c
      <4>1. pc'[c] = AfterMessage(c, Head(chan))
        BY <1>3 DEF Receive
      <4>2. post[c].id \in ChildIds \/ Said(post[c].id, o)
        BY <2>1, <2>2, <3>2, <4>1, TakesOwn
      <4>3. QED
        BY <1>0, <3>2, <4>2, SaidStays
    <3>3. QED
      BY <3>1, <3>2
  <2>3. QED
    BY <1>0, <2>1, <2>2 DEF AnswerSound
<1>4. ASSUME UNCHANGED pc, out' \in Seq(Told'), hand' \in Told', chan' \in Seq(Sent'),
             hand'.kind = "long" => reader' \notin {"reading", "sending"}
      PROVE  AnswerSound'
  <2>1. \A c \in Calls, o \in Answered : pc'[c] = o => post[c].id \in ChildIds \/ Said(post[c].id, o)'
    BY <1>1, <1>4
  <2>2. \A c \in Calls : pc'[c] \in Answered => (post[c].id \in ChildIds \/ Said(post[c].id, pc[c]))'
    BY <1>0, <1>4, <2>1
  <2>3. QED
    BY <1>4, <2>2 DEF AnswerSound
<1>5. ASSUME NEW c \in Calls, ChildAnswers(c) PROVE AnswerSound'
  <2>1. post[c] \in Request
    BY WorkloadAssumption
  <2>2. PICK m \in Message : /\ m = Answer(post[c].id, post[c].answer) /\ m.kind = "answer"
                             /\ m.id = post[c].id /\ m.outcome = post[c].answer
    BY <2>1, MessagesTyped DEF Request, Answer, Answered
  <2>3. reply'[c] = post[c].answer
    BY <1>5 DEF ChildAnswers
  <2>4. Said(m.id, m.outcome)'
    BY <1>0, <2>2, <2>3 DEF Said
  <2>5. m \in Told'
    BY <2>2, <2>4 DEF Told
  <2>6. out' = Append(out, m) /\ UNCHANGED <<pc, hand, chan, reader>>
    BY <1>5, <2>2 DEF ChildAnswers, Prints
  <2>7. out' \in Seq(Told')
    BY <1>0, <2>5, <2>6 DEF AnswerSound
  <2>8. QED
    BY <1>0, <1>4, <2>6, <2>7 DEF AnswerSound
<1>6. CASE ChildNotes
  <2>1. \A c \in Calls : post[c].id \in ChildIds =>
           [kind |-> "request", id |-> post[c].id, outcome |-> "ok"] \in Told
    BY NotesTyped DEF Told
  <2>2. out' \in Seq(Told)
    <3>1. PICK m \in Told : out' = Append(out, m)
      BY <1>6, <2>1, NotAnswers DEF ChildNotes, Prints
    <3>2. QED
      BY <3>1 DEF AnswerSound
  <2>3. QED
    BY <1>0, <1>4, <1>6, <2>2 DEF ChildNotes, AnswerSound
<1>7. CASE ReadLine
  <2>1. /\ out' \in Seq(Told) /\ hand' \in Told /\ chan' = chan /\ pc' = pc
        /\ hand'.kind = "long" => reader' = "failing"
    BY <1>7 DEF ReadLine, AnswerSound
  <2>2. QED
    BY <1>0, <1>4, <2>1 DEF AnswerSound
<1>8. CASE Send
  <2>1. chan' \in Seq(Sent)
    <3>1. CASE reader = "sending"
      <4>1. hand \in Sent
        BY <3>1 DEF AnswerSound, Sent
      <4>2. QED
        BY <1>8, <3>1, <4>1 DEF Send, AnswerSound
    <3>2. CASE reader # "sending"
      BY <1>8, <3>2, NotAnswers DEF Send, AnswerSound
    <3>3. QED
      BY <3>1, <3>2
  <2>2. /\ hand' \in Told /\ out' = out /\ pc' = pc
        /\ hand'.kind = "long" => reader' \notin {"reading", "sending"}
    BY <1>8, NotAnswers DEF Send, Nothing, AnswerSound, Other
  <2>3. QED
    BY <1>0, <1>4, <2>1, <2>2 DEF AnswerSound
<1>9. CASE SendCancelled
  <2>1. /\ hand' \in Told /\ chan' = chan /\ out' = out /\ pc' = pc
        /\ hand'.kind = "long" => reader' \notin {"reading", "sending"}
    BY <1>9, NotAnswers DEF SendCancelled, Nothing, AnswerSound, Other
  <2>2. QED
    BY <1>0, <1>4, <2>1 DEF AnswerSound
<1>10. CASE Reap
  <2>1. out' \in Seq(Told) /\ hand' = hand /\ chan' = chan /\ pc' = pc /\ reader' = reader
    BY <1>10, PrefixOf DEF Reap, AnswerSound
  <2>2. QED
    BY <1>0, <1>4, <2>1 DEF AnswerSound
<1>11. CASE ChildReads \/ ChildMutes \/ ChildDies \/ ReadEnds \/ Close \/ MarkStopped \/ Cancel \/ StopStdin
            \/ UNCHANGED vars
  BY <1>2, <1>11 DEF ChildReads, ChildMutes, ChildDies, ReadEnds, Close, MarkStopped, Cancel, StopStdin,
                     readerVars, vars
<1>12. ASSUME NEW c \in Calls, Handler(c), ~Receive(c) PROVE UNCHANGED <<out, hand, chan, reader>>
  BY <1>12 DEF Handler, readerVars, BadBody, Arrive, Remember, StartSpan, CheckRunning,
               WriteBody, WriteNewline, WriteFails, ReceiveClosed, GiveUp, Respond, Cleanup
<1>13. QED
  BY <1>2, <1>3, <1>5, <1>6, <1>7, <1>8, <1>9, <1>10, <1>11, <1>12
     DEF Next, Child, ReadResponses, Process

\* What has stopped or broken down stays so.
LEMMA EndsStay ==
    ASSUME [Next]_vars
    PROVE  /\ child = "dead" => child' = "dead"
           /\ child # "alive" => child' # "alive"
           /\ reaped => reaped'
           /\ Cancelled => Cancelled'
           /\ Broken => Broken'
           /\ ~running => ~running'
           /\ Stopped => Stopped'
<1>1. ASSUME NEW c \in Calls, Handler(c) PROVE UNCHANGED <<child, reaped, running, stop, reader>>
  BY <1>1 DEF Handler, childVars, readerVars, flagVars, BadBody, Arrive, Remember, StartSpan, CheckRunning,
              WriteBody, WriteNewline, WriteFails, Receive, ReceiveClosed, GiveUp, Respond, Cleanup
<1> USE DEF Cancelled, Broken, Stopped
<1>2. CASE Child
  BY <1>2 DEF Child, ChildReads, ChildAnswers, ChildNotes, ChildMutes, ChildDies, flagVars, readerVars
<1>3. CASE ReadResponses
  BY <1>3 DEF ReadResponses, ReadLine, ReadEnds, Send, SendCancelled, Close, childVars, flagVars
<1>4. CASE Process \/ UNCHANGED vars
  BY <1>4 DEF Process, Reap, MarkStopped, Cancel, StopStdin, vars, childVars, flagVars, readerVars
<1>5. QED
  BY <1>1, <1>2, <1>3, <1>4 DEF Next

LEMMA ReasonedStep ==
    ASSUME TypeOK, AnswerSound, Reasoned, [Next]_vars
    PROVE  Reasoned'
<1> USE DEF TypeOK
<1>0. /\ (reaped => reaped') /\ (Cancelled => Cancelled') /\ (Broken => Broken')
      /\ (~running => ~running')
      /\ (Stopped => Stopped') /\ (child # "alive" => child' # "alive")
  BY EndsStay
\* Why the reader stopped.
<1>1. ASSUME Stopped'
      PROVE  reaped' \/ Cancelled' \/ hand'.kind = "long" \/ (child' # "alive" /\ out' = <<>>)
  <2>1. CASE Stopped
    <3>1. ~ReadLine /\ (Send \/ SendCancelled => reader = "failing")
      BY <2>1 DEF Stopped, ReadLine, Send, SendCancelled
    <3>2. hand' = hand
      BY <3>1 DEF Next, Handler, Child, ReadResponses, Process, vars, readerVars,
             BadBody, Arrive, Remember, StartSpan, CheckRunning, WriteBody, WriteNewline, WriteFails,
             Receive, ReceiveClosed, GiveUp, Respond, Cleanup,
             ChildReads, ChildAnswers, ChildNotes, ChildMutes, ChildDies,
             ReadEnds, Send, SendCancelled, Close, Reap, MarkStopped, Cancel, StopStdin
    <3>3. child # "alive" /\ out = <<>> => out' = <<>>
      <4>1. CASE Reap
        BY <4>1, PrefixOf DEF Reap
      <4>2. CASE ~Reap
        BY <3>1, <4>2 DEF Next, Handler, Child, ReadResponses, Process, vars, readerVars,
             BadBody, Arrive, Remember, StartSpan, CheckRunning, WriteBody, WriteNewline, WriteFails,
             Receive, ReceiveClosed, GiveUp, Respond, Cleanup,
             ChildReads, ChildAnswers, ChildNotes, ChildMutes, ChildDies, Prints,
             ReadEnds, Send, SendCancelled, Close, MarkStopped, Cancel, StopStdin
      <4>3. QED
        BY <4>1, <4>2
    <3>4. QED
      BY <1>0, <2>1, <3>2, <3>3 DEF Reasoned
  <2>2. CASE ~Stopped
    <3>1. ReadLine \/ ReadEnds \/ SendCancelled
      BY <1>1, <2>2 DEF Stopped, Next, Handler, Child, ReadResponses, Process, vars, readerVars,
             BadBody, Arrive, Remember, StartSpan, CheckRunning, WriteBody, WriteNewline, WriteFails,
             Receive, ReceiveClosed, GiveUp, Respond, Cleanup,
             ChildReads, ChildAnswers, ChildNotes, ChildMutes, ChildDies,
             Send, Close, Reap, MarkStopped, Cancel, StopStdin
    <3>2. CASE ReadLine
      BY <1>1, <3>2 DEF ReadLine, Stopped
    <3>3. CASE ReadEnds
      BY <3>3 DEF ReadEnds, childVars, flagVars
    <3>4. CASE SendCancelled
      BY <1>0, <3>4 DEF SendCancelled
    <3>5. QED
      BY <3>1, <3>2, <3>3, <3>4
  <2>3. QED
    BY <2>1, <2>2
\* What a handler may learn of it.
<1>2. ASSUME closed' \/ \E i \in DOMAIN chan' : chan'[i].kind = "err"
      PROVE  Stopped'
  <2>1. CASE Stopped
    BY <1>0, <2>1
  <2>2. CASE ~Stopped
    <3>1. ~closed /\ \A i \in DOMAIN chan : chan[i].kind # "err"
      BY <2>2 DEF Reasoned
    <3>2. CASE Send
      <4>1. reader = "sending" /\ chan' = Append(chan, hand) /\ closed' = closed /\ hand.kind # "err"
        <5>1. hand.kind # "err"
          BY DEF AnswerSound, Told
        <5>2. QED
          BY <2>2, <3>2, <5>1 DEF Send, Stopped
      <4>2. \A i \in DOMAIN chan' : chan'[i] = hand \/ (i \in DOMAIN chan /\ chan'[i] = chan[i])
        BY <4>1, AppendProperties, LenProperties
      <4>3. QED
        BY <1>2, <3>1, <4>1, <4>2
    <3>3. ASSUME NEW c \in Calls, Receive(c) PROVE FALSE
      <4>1. chan # <<>> /\ chan' = Tail(chan) /\ closed' = closed
        BY <3>3 DEF Receive
      <4>2. \A i \in DOMAIN chan' : i + 1 \in DOMAIN chan /\ chan'[i] = chan[i + 1]
        BY <4>1
      <4>3. QED
        BY <1>2, <3>1, <4>1, <4>2
    <3>4. CASE Close
      BY <3>4 DEF Close, Stopped
    <3>5. ASSUME ~Send, ~Close, ~ \E c \in Calls : Receive(c) PROVE UNCHANGED <<chan, closed>>
      BY <3>5 DEF Next, Handler, Child, ReadResponses, Process, vars, readerVars,
             BadBody, Arrive, Remember, StartSpan, CheckRunning, WriteBody, WriteNewline, WriteFails,
             ReceiveClosed, GiveUp, Respond, Cleanup,
             ChildReads, ChildAnswers, ChildNotes, ChildMutes, ChildDies,
             ReadLine, ReadEnds, SendCancelled, Reap, MarkStopped, Cancel, StopStdin
    <3>6. QED
      BY <1>2, <3>1, <3>2, <3>3, <3>4, <3>5
  <2>3. QED
    BY <2>1, <2>2
\* Why a handler has no response.
<1>3. ASSUME NEW c \in Calls, pc'[c] = "unsent" PROVE Broken' \/ ~running'
  <2>1. CASE pc[c] = "unsent"
    BY <1>0, <2>1 DEF Reasoned
  <2>2. CASE pc[c] # "unsent"
    <3>1. ASSUME NEW d \in Calls, Handler(d) PROVE d = c /\ ((CheckRunning(c) /\ ~running) \/ WriteFails(c))
      <4>1. ~Receive(d)
        <5> SUFFICES ASSUME Receive(d) PROVE FALSE
          OBVIOUS
        <5>1. AfterMessage(d, Head(chan)) \in {"closed", "wait", "ok", "error"}
          BY MessageLeads DEF Receive
        <5>2. QED
          BY <1>3, <2>2, <5>1 DEF Receive
      <4>2. ~Cleanup(d)
        BY <1>3, <2>2, ReasonsEnd DEF Cleanup, Returned
      <4>3. QED
        BY <1>3, <2>2, <3>1, <4>1, <4>2 DEF Handler, BadBody, Arrive, Start, Remember, StartSpan, CheckRunning,
             WriteBody, WriteNewline, WriteFails, ReceiveClosed, GiveUp, Respond
    <3>2. QED
      BY <1>0, <1>3, <2>2, <3>1, OthersKeep DEF Next, WriteFails
  <2>3. QED
    BY <2>1, <2>2
<1>4. ASSUME NEW c \in Calls, pc'[c] = "closed" PROVE Stopped'
  <2>1. CASE pc[c] = "closed"
    BY <1>0, <2>1 DEF Reasoned
  <2>2. CASE pc[c] # "closed"
    <3>1. ASSUME NEW d \in Calls, Receive(d) PROVE Stopped
      <4>1. d = c /\ Head(chan) \in Sent /\ AfterMessage(c, Head(chan)) = "closed" /\ 1 \in DOMAIN chan
            /\ Head(chan) = chan[1]
        BY <1>4, <2>2, <3>1 DEF Receive, AnswerSound
      <4>2. chan[1].kind = "err"
        BY <4>1, TakesOwn
      <4>3. QED
        BY <4>1, <4>2 DEF Reasoned
    <3>2. ASSUME NEW d \in Calls, ReceiveClosed(d) PROVE Stopped
      BY <3>2 DEF ReceiveClosed, Reasoned
    <3>3. ASSUME NEW d \in Calls, Handler(d) PROVE Receive(d) \/ ReceiveClosed(d)
      <4>1. ~Cleanup(d)
        BY <1>4, <2>2, ReasonsEnd DEF Cleanup, Returned
      <4>2. QED
        BY <1>4, <2>2, <3>3, <4>1 DEF Handler, BadBody, Arrive, Start, Remember, StartSpan, CheckRunning,
             WriteBody, WriteNewline, WriteFails, GiveUp, Respond
    <3>4. QED
      BY <1>0, <1>4, <2>2, <3>1, <3>2, <3>3, OthersKeep DEF Next
  <2>3. QED
    BY <2>1, <2>2
<1>5. QED
  BY <1>1, <1>2, <1>3, <1>4 DEF Reasoned

-----------------------------------------------------------------------------
(* A serial client's answer *)

\* A handler comes to its newline by its body, to its wait by its newline, and
\* no serial handler comes there while another is at work.
LEMMA ComesTo ==
    ASSUME TypeOK, [Next]_vars, NEW c \in Calls
    PROVE  /\ pc'[c] = "newline" /\ pc[c] # "newline" => WriteBody(c)
           /\ pc'[c] = "wait" /\ pc[c] # "wait" => WriteNewline(c)
<1> USE DEF TypeOK
<1>1. ASSUME NEW d \in Calls, Handler(d), d # c PROVE pc'[c] = pc[c]
  BY <1>1 DEF Handler, BadBody, Arrive, Remember, StartSpan, CheckRunning, WriteBody,
              WriteNewline, WriteFails, Receive, ReceiveClosed, GiveUp, Respond, Cleanup
<1>2. ASSUME BadBody(c) \/ Arrive(c) \/ Remember(c) \/ StartSpan(c) \/ CheckRunning(c)
             \/ WriteFails(c) \/ ReceiveClosed(c) \/ GiveUp(c) \/ Respond(c) \/ Cleanup(c)
      PROVE  pc'[c] # "newline" /\ pc'[c] # "wait"
  BY <1>2, ReasonsEnd DEF Returned, BadBody, Arrive, Start, Remember, StartSpan, CheckRunning, WriteFails,
              ReceiveClosed, GiveUp, Respond, Cleanup
<1>3. ASSUME Receive(c) PROVE pc[c] = "wait" /\ pc'[c] # "newline"
  <2>1. Head(chan) \in Message
    BY <1>3 DEF Receive
  <2>2. AfterMessage(c, Head(chan)) \in {"closed", "wait", "ok", "error"}
    BY <2>1, MessageLeads
  <2>3. QED
    BY <1>3, <2>2 DEF Receive
<1>4. WriteBody(c) => pc'[c] = "newline"
  BY DEF WriteBody
<1>5. WriteNewline(c) => pc'[c] # "newline"
  BY DEF WriteNewline
<1>6. QED
  BY <1>1, <1>2, <1>3, <1>4, <1>5, OthersKeep DEF Next, Handler

LEMMA LastOfTail ==
    ASSUME NEW S, NEW q \in Seq(S), q # <<>>, Len(q) # 1
    PROVE  Tail(q) # <<>> /\ Tail(q)[Len(Tail(q))] = q[Len(q)]
<1>1. Len(q) \in Nat \ {0}
  BY EmptySeq
<1>2. Len(Tail(q)) = Len(q) - 1 /\ \A i \in 1..Len(Tail(q)) : Tail(q)[i] = q[i + 1]
  BY HeadTailProperties
<1>3. Len(Tail(q)) \in 1..Len(Tail(q)) /\ Len(Tail(q)) + 1 = Len(q)
  BY <1>1, <1>2
<1>4. Len(<<>>) = 0
  BY EmptySeq
<1>5. QED
  BY <1>2, <1>3, <1>4

LEMMA NewlineStep ==
    ASSUME TypeOK, Table, ReadOnce, NewlineNext, [Next]_vars
    PROVE  NewlineNext'
<1> USE DEF TypeOK
<1>0. UNCHANGED serial
  BY PostFixed
<1> SUFFICES ASSUME serial, child' # "dead", NEW c \in Calls, pc'[c] = "newline"
             PROVE  /\ reply'[c] = "unasked"
                    /\ IF stdin' = <<>> THEN c \in partial' ELSE stdin'[Len(stdin')] = c
  BY <1>0 DEF NewlineNext
<1>1. CASE pc[c] # "newline"
  <2>1. WriteBody(c)
    BY <1>1, ComesTo
  <2>2. reply[c] = "unasked"
    BY <2>1 DEF WriteBody, ReadOnce, Unsent
  <2>3. stdin' = Append(stdin, c) /\ reply' = reply /\ c \in Calls \cup {Newline}
    BY <2>1 DEF WriteBody
  <2>4. stdin' # <<>> /\ stdin'[Len(stdin')] = c
    <3>1. Len(stdin) \in Nat /\ Len(stdin') = Len(stdin) + 1 /\ stdin'[Len(stdin) + 1] = c
      BY <2>3
    <3>2. Len(<<>>) = 0
      OBVIOUS
    <3>3. QED
      BY <3>1, <3>2
  <2>5. QED
    BY <2>2, <2>3, <2>4
<1>2. CASE pc[c] = "newline"
  <2>1. child # "dead"
    BY EndsStay
  <2>2. reply[c] = "unasked" /\ IF stdin = <<>> THEN c \in partial ELSE stdin[Len(stdin)] = c
    BY <1>2, <2>1 DEF NewlineNext
  <2>3. ASSUME NEW d \in Calls, Handler(d) PROVE UNCHANGED <<stdin, partial, reply>>
    <3>1. d # c => ~(WriteBody(d) \/ WriteNewline(d))
      BY <1>2 DEF Table, OneAtATime, AtWork, Returned, WriteBody, WriteNewline
    <3>2. ~WriteBody(c) /\ ~WriteNewline(c)
      BY <1>2 DEF WriteBody, WriteNewline
    <3>3. QED
      BY <2>3, <3>1, <3>2
         DEF Handler, childVars, BadBody, Arrive, Remember, StartSpan, CheckRunning, WriteFails,
             Receive, ReceiveClosed, GiveUp, Respond, Cleanup
  <2>4. CASE ChildReads
    <3>1. stdin # <<>> /\ stdin' = Tail(stdin) /\ stdin[Len(stdin)] = c /\ Head(stdin) = stdin[1]
      BY <2>2, <2>4 DEF ChildReads
    <3>2. c \notin partial
      BY <3>1 DEF ReadOnce, InStdin
    <3>3. CASE Len(stdin) = 1
      <4>1. Head(stdin) = c /\ stdin' = <<>> /\ Head(stdin) # Newline
        BY <3>1, <3>3, NoneAssumption DEF Newline
      <4>2. QED
        BY <2>2, <2>4, <4>1 DEF ChildReads
    <3>4. CASE Len(stdin) # 1
      <4>1. stdin' # <<>> /\ stdin'[Len(stdin')] = c
        BY <3>1, <3>4, LastOfTail
      <4>2. reply'[c] = reply[c]
        BY <2>4, <3>2 DEF ChildReads
      <4>3. QED
        BY <2>2, <4>1, <4>2
    <3>5. QED
      BY <3>3, <3>4
  <2>5. ASSUME NEW d \in Calls, ChildAnswers(d) PROVE UNCHANGED <<stdin, partial>> /\ reply'[c] = reply[c]
    BY <2>2, <2>5 DEF ChildAnswers
  <2>6. CASE ChildNotes \/ ChildMutes \/ ReadResponses \/ Process \/ UNCHANGED vars
    <3>1. UNCHANGED <<stdin, partial, reply>>
      BY <2>6 DEF childVars, vars, ChildNotes, ChildMutes, ReadResponses, Process,
              ReadLine, ReadEnds, Send, SendCancelled, Close, Reap, MarkStopped, Cancel, StopStdin
    <3>2. QED
      BY <2>2, <3>1
  <2>7. ~ChildDies
    BY DEF ChildDies
  <2>8. QED
    BY <2>2, <2>3, <2>4, <2>5, <2>6, <2>7 DEF Next, Child
<1>3. QED
  BY <1>1, <1>2

\* The line carries an answer under the call's id.
Carries(q, c) == \E i \in DOMAIN q : Answers(q[i], c)

\* What is put at the end of a line is in it, and pushes nothing out.
LEMMA LineGrows ==
    ASSUME NEW S, NEW q \in Seq(S), NEW x \in S, NEW c
    PROVE  Carries(q, c) \/ Answers(x, c) => Carries(Append(q, x), c)
<1>1. /\ DOMAIN Append(q, x) = 1..Len(q) + 1 /\ DOMAIN q = 1..Len(q) /\ Len(q) \in Nat
      /\ \A i \in 1..Len(q) : Append(q, x)[i] = q[i]
      /\ Append(q, x)[Len(q) + 1] = x
  BY AppendProperties, LenProperties
<1>2. Len(q) + 1 \in 1..Len(q) + 1 /\ 1..Len(q) \subseteq 1..Len(q) + 1
  BY <1>1
<1>3. QED
  BY <1>1, <1>2 DEF Carries

\* What is not at its head stays when the head is taken.
LEMMA LineMoves ==
    ASSUME NEW S, NEW q \in Seq(S), q # <<>>, NEW c, Carries(q, c), ~Answers(Head(q), c)
    PROVE  Carries(Tail(q), c)
<1>1. PICK i \in DOMAIN q : Answers(q[i], c)
  BY DEF Carries
<1>2. /\ DOMAIN Tail(q) = 1..Len(q) - 1 /\ Head(q) = q[1] /\ DOMAIN q = 1..Len(q)
      /\ \A j \in 1..Len(q) - 1 : Tail(q)[j] = q[j + 1]
  BY HeadTailProperties, LenProperties
<1>3. i # 1
  BY <1>1, <1>2
<1>4. i - 1 \in 1..Len(q) - 1 /\ i - 1 + 1 = i
  BY <1>2, <1>3, LenProperties
<1>5. QED
  BY <1>1, <1>2, <1>4 DEF Carries

\* A line over the limit that stands before the answer, or has been read, stays
\* so, unless Wait takes the lines or the context ends.
LEMMA CutOffStays ==
    ASSUME TypeOK, AnswerSound, [Next]_vars, NEW c \in Calls, ~reaped', CutOff(c)
    PROVE  CutOff(c)'
<1> USE DEF TypeOK
<1>0. UNCHANGED post
  BY PostFixed
<1>1. CASE hand.kind = "long"
  <2>1. reader \notin {"reading", "sending"}
    BY <1>1 DEF AnswerSound
  <2>2. hand' = hand
    BY <2>1 DEF Next, Handler, Child, ReadResponses, Process, vars, readerVars,
         BadBody, Arrive, Remember, StartSpan, CheckRunning, WriteBody, WriteNewline, WriteFails,
         Receive, ReceiveClosed, GiveUp, Respond, Cleanup,
         ChildReads, ChildAnswers, ChildNotes, ChildMutes, ChildDies,
         ReadLine, ReadEnds, Send, SendCancelled, Close, Reap, MarkStopped, Cancel, StopStdin
  <2>3. QED
    BY <1>1, <2>2 DEF CutOff
<1>2. CASE hand.kind # "long"
  <2>1. PICK i, j \in DOMAIN out : i < j /\ out[i].kind = "long" /\ Answers(out[j], c)
    BY <1>2 DEF CutOff
  <2>3. CASE UNCHANGED out
    BY <1>0, <2>1, <2>3 DEF CutOff, Answers
  <2>4. ASSUME NEW m, Prints(m) PROVE CutOff(c)'
    <3>1. i \in DOMAIN out' /\ j \in DOMAIN out' /\ out'[i] = out[i] /\ out'[j] = out[j]
      BY <2>1, <2>4 DEF Prints
    <3>2. QED
      BY <1>0, <2>1, <3>1 DEF CutOff, Answers
  <2>5. CASE ReadLine
    <3>1. CASE i = 1
      BY <2>1, <2>5, <3>1 DEF ReadLine, CutOff
    <3>2. CASE i # 1
      <4>1. /\ i - 1 \in DOMAIN out' /\ j - 1 \in DOMAIN out' /\ i - 1 < j - 1
            /\ out'[i - 1] = out[i] /\ out'[j - 1] = out[j]
        BY <2>1, <2>5, <3>2 DEF ReadLine
      <4>2. QED
        BY <1>0, <2>1, <4>1 DEF CutOff, Answers
    <3>3. QED
      BY <3>1, <3>2
  <2>6. ~Reap
    BY DEF Reap
  <2>7. ASSUME ~ReadLine, ~(\E m : Prints(m)) PROVE UNCHANGED out
    BY <2>6, <2>7 DEF Next, Handler, Child, ReadResponses, Process, vars, readerVars,
         BadBody, Arrive, Remember, StartSpan, CheckRunning, WriteBody, WriteNewline, WriteFails,
         Receive, ReceiveClosed, GiveUp, Respond, Cleanup,
         ChildReads, ChildAnswers, ChildNotes, ChildMutes, ChildDies,
         ReadEnds, Send, SendCancelled, Close, MarkStopped, Cancel, StopStdin
  <2>8. QED
    BY <2>3, <2>4, <2>5, <2>7
<1>3. QED
  BY <1>1, <1>2

LEMMA DeliversStep ==
    ASSUME TypeOK, Table, ReadOnce, NewlineNext, AnswerSound, Reasoned, SerialDelivers, [Next]_vars
    PROVE  SerialDelivers'
<1> USE DEF TypeOK
<1>0. UNCHANGED <<post, serial>>
  BY PostFixed
<1> SUFFICES ASSUME NEW c \in Calls, serial, pc'[c] = "wait", reply'[c] \in Answered,
                    ~reaped', ~Cancelled', ~CutOff(c)'
             PROVE  OnItsWay(c)'
  BY <1>0 DEF SerialDelivers, Answered
<1>1. ~reaped /\ ~Cancelled /\ ~CutOff(c)
  BY EndsStay, CutOffStays
<1> DEFINE Reads == reader \in {"reading", "sending"}
<1>2. pc[c] = "wait"
  <2> SUFFICES ASSUME WriteNewline(c) PROVE FALSE
    BY ComesTo
  <2>1. reply[c] = "unasked" /\ reply' = reply
    BY DEF WriteNewline, Broken, NewlineNext
  <2>2. QED
    BY <2>1 DEF Answered
<1>3. OnItsWay(c)' <=> \/ Reads' /\ Carries(out', c)
                       \/ reader' = "sending" /\ Answers(hand', c)
                       \/ Carries(chan', c)
  BY <1>0 DEF OnItsWay, Carries, Answers
<1>4. ASSUME NEW m \in Message, out' = Append(out, m)
      PROVE  Carries(out, c) \/ Answers(m, c) => Carries(out', c)
  BY <1>4, LineGrows
<1>5. CASE reply[c] \notin Answered
  <2>1. ChildAnswers(c)
    <3>1. ASSUME NEW d \in Calls, ChildAnswers(d), d # c PROVE reply'[c] = reply[c]
      BY <3>1 DEF ChildAnswers
    <3>2. ASSUME ChildReads PROVE reply'[c] = reply[c] \/ reply'[c] = "asked"
      BY <3>2 DEF ChildReads
    <3>3. ASSUME \/ \E d \in Calls : Handler(d)
                 \/ ChildNotes \/ ChildMutes \/ ChildDies \/ ReadResponses \/ Process \/ UNCHANGED vars
          PROVE  reply' = reply
      BY <3>3 DEF childVars, vars, Handler, ReadResponses, Process, ChildNotes, ChildMutes, ChildDies,
           BadBody, Arrive, Remember, StartSpan, CheckRunning, WriteBody, WriteNewline, WriteFails,
           Receive, ReceiveClosed, GiveUp, Respond, Cleanup,
           ReadLine, ReadEnds, Send, SendCancelled, Close, Reap, MarkStopped, Cancel, StopStdin
    <3>4. "asked" \notin Answered
      BY DEF Answered
    <3>5. QED
      BY <1>5, <3>1, <3>2, <3>3, <3>4 DEF Next, Child
  <2>2. post[c] \in Request
    BY WorkloadAssumption
  <2>3. PICK m \in Message : m = Answer(post[c].id, post[c].answer)
    BY <2>2, MessagesTyped DEF Request, Answered
  <2>4. out' = Append(out, m) /\ Answers(m, c) /\ child = "alive" /\ reader' = reader
    BY <2>1, <2>3 DEF ChildAnswers, Prints, Answer, Answers
  <2>5. ~Stopped
    BY <1>1, <2>4 DEF Reasoned, CutOff
  <2>6. QED
    BY <1>3, <1>4, <2>4, <2>5 DEF Stopped
<1>6. CASE reply[c] \in Answered
  <2>0. \/ Reads /\ Carries(out, c)
        \/ reader = "sending" /\ Answers(hand, c)
        \/ Carries(chan, c)
    BY <1>1, <1>2, <1>6 DEF SerialDelivers, OnItsWay, Carries, Answers, Answered
  <2>1. CASE UNCHANGED readerVars
    BY <1>3, <2>0, <2>1 DEF readerVars
  <2>2. ASSUME NEW m \in Message, Prints(m), UNCHANGED <<reader, hand, chan>>
        PROVE  OnItsWay(c)'
    BY <1>3, <1>4, <2>0, <2>2 DEF Prints
  <2>3. ASSUME NEW d \in Calls, ChildAnswers(d) PROVE OnItsWay(c)'
    <3>1. post[d] \in Request
      BY WorkloadAssumption
    <3>2. Answer(post[d].id, post[d].answer) \in Message
      BY <3>1, MessagesTyped DEF Request, Answered
    <3>3. QED
      BY <2>2, <2>3, <3>2 DEF ChildAnswers
  <2>4. CASE ChildNotes
    BY <2>2, <2>4, MessagesTyped, NotesTyped DEF ChildNotes
  <2>5. ASSUME NEW d \in Calls, Receive(d) PROVE OnItsWay(c)'
    <3>1. d = c
      BY <1>2, <2>5 DEF Receive, Table, OneAtATime, AtWork, Returned
    <3>2. chan # <<>> /\ chan' = Tail(chan) /\ UNCHANGED <<out, reader, hand>>
          /\ AfterMessage(c, Head(chan)) = "wait" /\ Head(chan) \in Message
      BY <2>5, <3>1 DEF Receive
    <3>3. ~Answers(Head(chan), c)
      <4> SUFFICES ASSUME Answers(Head(chan), c) PROVE FALSE
        OBVIOUS
      <4>1. AfterMessage(c, Head(chan)) \in {"ok", "error"}
        BY <3>2 DEF AfterMessage, Message, Answers
      <4>2. QED
        BY <3>2, <4>1
    <3>4. Carries(chan, c) => Carries(chan', c)
      BY <3>2, <3>3, LineMoves
    <3>5. QED
      BY <1>3, <2>0, <3>2, <3>4
  <2>6. CASE ReadLine
    <3>1. /\ out # <<>> /\ out' = Tail(out) /\ chan' = chan /\ reader = "reading"
          /\ Head(out) \in Message /\ hand' = Head(out)
          /\ Head(out).kind # "long" => reader' = "sending"
      BY <2>6 DEF ReadLine
    <3>2. reader' = "sending"
      BY <3>1 DEF CutOff
    <3>3. ASSUME Carries(out, c)
          PROVE  Carries(out', c) \/ Answers(Head(out), c)
      BY <3>1, <3>3, LineMoves
    <3>4. QED
      BY <1>3, <2>0, <3>1, <3>2, <3>3
  <2>7. CASE Send
    <3>1. PICK m \in Message : /\ chan' = Append(chan, m) /\ out' = out
                               /\ reader = "sending" => m = hand /\ reader' = "reading"
      BY <2>7, MessagesTyped DEF Send
    <3>2. Carries(chan, c) \/ Answers(m, c) => Carries(chan', c)
      BY <3>1, LineGrows
    <3>3. reader = "sending" \/ ~Reads
      BY <2>7 DEF Send
    <3>4. QED
      BY <1>3, <2>0, <3>1, <3>2, <3>3
  <2>8. CASE ReadEnds \/ Close
    <3>1. UNCHANGED <<hand, chan>> /\ reader # "sending"
      BY <2>8 DEF ReadEnds, Close
    <3>2. ~(Reads /\ Carries(out, c))
      <4>1. CASE ReadEnds
        BY <4>1 DEF ReadEnds, Carries
      <4>2. CASE Close
        BY <4>2 DEF Close
      <4>3. QED
        BY <2>8, <4>1, <4>2
    <3>3. QED
      BY <1>3, <2>0, <3>1, <3>2
  <2>9. ~SendCancelled /\ ~Reap
    BY <1>1 DEF SendCancelled, Reap
  <2>10. ASSUME NEW d \in Calls, Handler(d), ~Receive(d) PROVE UNCHANGED readerVars
    BY <2>10 DEF Handler, BadBody, Arrive, Remember, StartSpan, CheckRunning,
                 WriteBody, WriteNewline, WriteFails, ReceiveClosed, GiveUp, Respond, Cleanup
  <2>11. CASE ChildReads \/ ChildMutes \/ ChildDies \/ MarkStopped \/ Cancel \/ StopStdin \/ UNCHANGED vars
    BY <2>1, <2>11 DEF ChildReads, ChildMutes, ChildDies, MarkStopped, Cancel, StopStdin, vars
  <2>12. QED
    BY <2>1, <2>3, <2>4, <2>5, <2>6, <2>7, <2>8, <2>9, <2>10, <2>11
       DEF Next, Child, ReadResponses, Process
<1>7. QED
  BY <1>5, <1>6

-----------------------------------------------------------------------------
(* The identity *)

\* A handler comes to stand where its name is known by writing it.
LEMMA NamedFrom ==
    ASSUME TypeOK, ReadOnce, [Next]_vars, NEW d \in Calls, Named(d)'
    PROVE  Named(d) \/ Remember(d)
<1> USE DEF TypeOK, Active, Reasons
<1>0. UNCHANGED post
  BY PostFixed
<1> DEFINE There == {"start", "done"} \cup Active
<1>1. ASSUME NEW e \in Calls, Handler(e), e # d PROVE pc'[d] = pc[d]
  BY <1>1 DEF Handler, BadBody, Arrive, Remember, StartSpan, CheckRunning, WriteBody,
              WriteNewline, WriteFails, Receive, ReceiveClosed, GiveUp, Respond, Cleanup
<1>2. ASSUME post[d].method = "initialize", BadBody(d) \/ Arrive(d) PROVE pc'[d] \notin There
  BY <1>2 DEF BadBody, Arrive
<1>3. ASSUME StartSpan(d) \/ CheckRunning(d) \/ WriteBody(d) \/ WriteNewline(d) \/ WriteFails(d)
             \/ Receive(d) \/ ReceiveClosed(d) \/ GiveUp(d) \/ Respond(d) \/ Cleanup(d)
      PROVE  pc[d] \in There
  BY <1>3 DEF StartSpan, CheckRunning, WriteBody, WriteNewline, WriteFails,
              Receive, ReceiveClosed, GiveUp, Respond, Cleanup
<1>4. post[d].method = "initialize" /\ pc'[d] \in There => pc[d] \in There \/ Remember(d)
  BY <1>1, <1>2, <1>3, OthersKeep DEF Next, Handler
<1>5. reply'[d] # "unasked" => reply[d] # "unasked" \/ d \in partial
  BY RepliesStay
<1>6. d \in partial' => d \in partial \/ InStdin(d)
  <2>1. CASE ChildReads
    <3>1. stdin # <<>> /\ partial' \subseteq partial \cup {Head(stdin)}
      BY <2>1 DEF ChildReads
    <3>2. 1 \in DOMAIN stdin /\ Head(stdin) = stdin[1]
      BY <3>1
    <3>3. QED
      BY <3>1, <3>2 DEF InStdin
  <2>2. CASE ChildDies
    BY <2>2 DEF ChildDies
  <2>3. ASSUME ~ChildReads, ~ChildDies PROVE partial' = partial
    BY <2>3 DEF childVars, vars, Next, Handler, Child, ReadResponses, Process, ChildNotes, ChildMutes, ChildAnswers,
         BadBody, Arrive, Remember, StartSpan, CheckRunning, WriteBody, WriteNewline, WriteFails,
         Receive, ReceiveClosed, GiveUp, Respond, Cleanup,
         ReadLine, ReadEnds, Send, SendCancelled, Close, Reap, MarkStopped, Cancel, StopStdin
  <2>4. QED
    BY <2>1, <2>2, <2>3
<1>7. InStdin(d)' => InStdin(d) \/ pc[d] \in There
  <2>1. CASE ChildReads
    <3>1. /\ \A i \in DOMAIN stdin' : i + 1 \in DOMAIN stdin /\ stdin'[i] = stdin[i + 1]
      BY <2>1 DEF ChildReads
    <3>2. QED
      BY <3>1 DEF InStdin
  <2>2. ASSUME NEW x \in Calls \cup {Newline}, stdin' = Append(stdin, x), x # d
        PROVE  InStdin(d)' => InStdin(d)
    <3>1. \A i \in DOMAIN stdin' : stdin'[i] = x \/ (i \in DOMAIN stdin /\ stdin'[i] = stdin[i])
      BY <2>2
    <3>2. QED
      BY <2>2, <3>1 DEF InStdin
  <2>3. ASSUME NEW e \in Calls, WriteBody(e) PROVE InStdin(d)' => InStdin(d) \/ pc[d] \in There
    <3>1. CASE e = d
      BY <2>3, <3>1 DEF WriteBody
    <3>2. CASE e # d
      BY <2>2, <2>3, <3>2 DEF WriteBody
    <3>3. QED
      BY <3>1, <3>2
  <2>4. ASSUME NEW e \in Calls, WriteNewline(e) PROVE InStdin(d)' => InStdin(d)
    <3>1. Newline # d
      BY NoneAssumption DEF Newline
    <3>2. QED
      BY <2>2, <2>4, <3>1 DEF WriteNewline
  <2>5. CASE ChildDies
    BY <2>5 DEF ChildDies, InStdin
  <2>6. ASSUME NEW e \in Calls, BadBody(e) \/ Arrive(e) \/ Remember(e) \/ StartSpan(e) \/ CheckRunning(e)
                              \/ WriteFails(e) \/ Receive(e) \/ ReceiveClosed(e) \/ GiveUp(e)
                              \/ Respond(e) \/ Cleanup(e) \/ ChildAnswers(e)
        PROVE  UNCHANGED stdin
    BY <2>6 DEF childVars, BadBody, Arrive, Remember, StartSpan, CheckRunning, WriteFails,
                Receive, ReceiveClosed, GiveUp, Respond, Cleanup, ChildAnswers
  <2>7. ASSUME ChildNotes \/ ChildMutes \/ ReadResponses \/ Process \/ UNCHANGED vars PROVE UNCHANGED stdin
    BY <2>7 DEF childVars, vars, ChildNotes, ChildMutes, ReadResponses, Process,
              ReadLine, ReadEnds, Send, SendCancelled, Close, Reap, MarkStopped, Cancel, StopStdin
  <2>8. UNCHANGED stdin => (InStdin(d)' => InStdin(d))
    BY DEF InStdin
  <2>9. QED
    BY <2>1, <2>3, <2>4, <2>5, <2>6, <2>7, <2>8 DEF Next, Handler, Child
<1>8. QED
  BY <1>0, <1>4, <1>5, <1>6, <1>7 DEF Named

LEMMA NoRaceStep ==
    ASSUME TypeOK, NoRace, [Next]_vars
    PROVE  NoRace'
<1>0. UNCHANGED serial
  BY PostFixed
<1>1. ASSUME NEW c \in Calls, Arrive(c) PROVE NoRace'
  <2>1. serial => ~Racing(c)
    BY <1>1 DEF Arrive, May, Racing, Returned
  <2>2. QED
    BY <1>0, <1>1, <2>1 DEF Arrive, NoRace
<1>2. ASSUME NEW c \in Calls, Remember(c) PROVE NoRace'
  BY <1>0, <1>2 DEF Remember, NoRace
<1>3. ASSUME NEW c \in Calls, Handler(c), ~Arrive(c), ~Remember(c) PROVE UNCHANGED raced
  BY <1>3 DEF Handler, handlerVars, BadBody, StartSpan, CheckRunning, WriteBody,
              WriteNewline, WriteFails, Receive, ReceiveClosed, GiveUp, Respond, Cleanup
<1>4. CASE UNCHANGED raced
  BY <1>0, <1>4 DEF NoRace
<1>5. QED
  BY <1>1, <1>2, <1>3, <1>4, OthersKeep DEF Next, handlerVars

\* Who writes the identity and who opens a span: the identity changes by the
\* one, a label by the other.
LEMMA IdentitySteps ==
    ASSUME TypeOK, Table, NoRace, [Next]_vars, serial, NEW c \in Calls
    PROVE  /\ client' = client \/ Announced(client')
           /\ \/ StartSpan(c) /\ label'[c] = client
              \/ /\ label'[c] = label[c]
                 /\ span'[c] = "open" => span[c] = "open"
                 /\ pc[c] \in Returned => pc'[c] \in Returned
<1> USE DEF TypeOK
<1>1. ASSUME NEW d \in Calls, pc[d] \in {"naming", "start"} PROVE ~Racing(d)
  BY <1>1 DEF Racing, Table, OneAtATime, AtWork, Returned
<1>2. ASSUME NEW d \in Calls, Remember(d)
      PROVE  Announced(client') /\ UNCHANGED <<label, span>> /\ pc[d] = "naming" /\ \A e \in Calls \ {d} : pc'[e] = pc[e]
  <2>1. client' = post[d].client
    BY <1>2 DEF Remember, NoRace
  <2>2. post[d].method = "initialize"
    BY <1>2 DEF Remember, Table, SpanStaged
  <2>3. QED
    BY <1>2, <2>1, <2>2 DEF Announced, Remember
<1>3. ASSUME NEW d \in Calls, StartSpan(d)
      PROVE  /\ client' = client /\ label'[d] = client /\ pc[d] = "start"
             /\ \A e \in Calls \ {d} : label'[e] = label[e] /\ span'[e] = span[e] /\ pc'[e] = pc[e]
  BY <1>1, <1>3 DEF StartSpan
<1>4. ASSUME NEW d \in Calls, Respond(d) \/ Cleanup(d)
      PROVE  /\ UNCHANGED <<client, label>> /\ pc[d] \notin Returned
             /\ span'[c] = "open" => span[c] = "open"
             /\ \A e \in Calls \ {d} : pc'[e] = pc[e]
  <2>1. \E s \in Final : span' = EndSpan(Entries(reqMap, Mine(d)), s)
    BY <1>4, ReasonsEnd DEF Respond, Cleanup, Final
  <2>2. span'[c] = "open" => span[c] = "open"
    BY <2>1, FinalStatus DEF EndSpan
  <2>3. QED
    BY <1>4, <2>2 DEF Respond, Cleanup, handlerVars, Returned, Reasons
<1>5. ASSUME NEW d \in Calls, Moves(d)
      PROVE  /\ UNCHANGED <<client, label, span>> /\ pc[d] \notin Returned
             /\ \A e \in Calls \ {d} : pc'[e] = pc[e]
  BY <1>5, MovesOn DEF handlerVars, Active, Reasons, Returned
<1>6. ASSUME NEW d \in Calls, BadBody(d) \/ Arrive(d)
      PROVE  /\ UNCHANGED <<client, label, span>> /\ pc[d] \notin Returned
             /\ \A e \in Calls \ {d} : pc'[e] = pc[e]
  BY <1>6 DEF BadBody, Arrive, handlerVars, Returned
<1>7. CASE Child \/ ReadResponses \/ Process \/ UNCHANGED vars
  BY <1>7, OthersKeep DEF handlerVars
<1>8. "naming" \notin Returned /\ "start" \notin Returned
  BY DEF Returned
<1>9. ASSUME NEW d \in Calls, Handler(d)
      PROVE  /\ client' = client \/ Announced(client')
             /\ \/ StartSpan(c) /\ label'[c] = client
                \/ /\ label'[c] = label[c]
                   /\ span'[c] = "open" => span[c] = "open"
                   /\ pc[c] \in Returned => pc'[c] \in Returned
  <2>1. CASE Remember(d)
    BY <1>2, <1>8, <2>1
  <2>2. CASE StartSpan(d)
    BY <1>3, <1>8, <2>2
  <2>3. CASE Respond(d) \/ Cleanup(d)
    BY <1>4, <2>3
  <2>4. CASE Moves(d)
    BY <1>5, <2>4
  <2>5. CASE BadBody(d) \/ Arrive(d)
    BY <1>6, <2>5
  <2>6. QED
    BY <1>9, <2>1, <2>2, <2>3, <2>4, <2>5 DEF Handler, Moves
<1>10. QED
  BY <1>7, <1>9 DEF Next

LEMMA ClientKnownStep ==
    ASSUME TypeOK, Table, ReadOnce, NoRace, ClientKnown, [Next]_vars
    PROVE  ClientKnown'
<1>0. UNCHANGED <<post, serial>> /\ \A name : Announced(name) => Announced(name)'
  BY PostFixed DEF Announced
<1>1. ASSUME serial, NEW d \in Calls, Named(d)' PROVE Announced(client')
  <2>1. CASE Named(d)
    BY <1>1, <2>1, IdentitySteps DEF ClientKnown
  <2>2. CASE Remember(d)
    <3>1. d \notin raced /\ post[d].method = "initialize"
      BY <1>1, <2>2 DEF Remember, NoRace, Table, SpanStaged
    <3>2. QED
      BY <2>2, <3>1 DEF Remember, Announced
  <2>3. QED
    BY <1>1, <2>1, <2>2, NamedFrom
<1>2. ASSUME serial, NEW c \in Calls, NEW d \in Calls, c # d, Named(d)',
             span'[c] = "open", pc'[c] \notin Returned
      PROVE  Announced(label'[c])
  <2>1. CASE StartSpan(c)
    <3>1. ~Remember(d)
      BY <1>2, <2>1 DEF StartSpan, Remember, Table, OneAtATime, AtWork, Returned
    <3>2. Announced(client)
      BY <1>2, <3>1, NamedFrom DEF ClientKnown
    <3>3. label'[c] = client
      <4>1. ~Racing(c)
        BY <1>2, <2>1 DEF StartSpan, Racing, Table, OneAtATime, AtWork, Returned
      <4>2. QED
        BY <2>1, <4>1 DEF StartSpan, TypeOK
    <3>4. QED
      BY <3>2, <3>3
  <2>2. CASE ~StartSpan(c)
    <3>1. label'[c] = label[c] /\ span[c] = "open" /\ pc[c] \notin Returned
      BY <1>2, <2>2, IdentitySteps
    <3>2. ~Remember(d)
      <4>1. pc[c] \in Active
        BY <1>2, <3>1 DEF Table, Held
      <4>2. QED
        BY <1>2, <4>1 DEF Remember, Table, OneAtATime, AtWork, Active, Reasons, Returned
    <3>3. Named(d)
      BY <1>2, <3>2, NamedFrom
    <3>4. QED
      BY <1>2, <3>1, <3>3 DEF ClientKnown
  <2>3. QED
    BY <2>1, <2>2
<1>3. \A name : Announced(name)' <=> Announced(name)
  BY <1>0 DEF Announced
<1>4. QED
  BY <1>0, <1>1, <1>2 DEF ClientKnown, Announced

-----------------------------------------------------------------------------
(* The invariant *)

LEMMA InvInit == Init => IInv
<1> SUFFICES ASSUME Init PROVE IInv
  OBVIOUS
<1>1. TypeOK /\ Table
  BY TypeInit, TableInit
<1>2. stdin = <<>> /\ partial = {} /\ \A c \in Calls : reply[c] = "unasked" /\ pc[c] = "idle" /\ ~InStdin(c)
  BY DEF Init, InStdin
<1>3. ReadOnce
  BY <1>2 DEF ReadOnce
<1>4. AnswerSound
  <2>1. out \in Seq(Told) /\ chan \in Seq(Sent)
    BY DEF Init
  <2>2. hand \in Told /\ hand.kind = "note"
    BY NotAnswers DEF Init, Nothing, Other
  <2>3. QED
    BY <1>2, <2>1, <2>2 DEF AnswerSound, Answered
<1>5. NewlineNext /\ NoRace /\ SerialDelivers
  BY <1>2 DEF NewlineNext, SerialDelivers, NoRace, Init
<1>6. ClientKnown
  BY <1>2 DEF ClientKnown, Named, Active, Reasons
<1>7. Reasoned
  BY <1>2 DEF Reasoned, Stopped, Init
<1>8. QED
  BY <1>1, <1>3, <1>4, <1>5, <1>6, <1>7 DEF IInv, Table

LEMMA InvStep == IInv /\ [Next]_vars => IInv'
<1> SUFFICES ASSUME IInv, [Next]_vars PROVE IInv'
  OBVIOUS
<1>1. /\ TypeOK /\ Table /\ ReadOnce /\ AnswerSound /\ Reasoned /\ NewlineNext /\ NoRace
      /\ ClientKnown /\ SerialDelivers
  BY DEF IInv, Table
<1>2. TypeOK'
  BY <1>1, TypeStep
<1>3. Table'
  BY <1>1, TableStep
<1>4. ReadOnce'
  BY <1>1, ReadOnceStep
<1>5. AnswerSound'
  BY <1>1, AnswerSoundStep
<1>6. NewlineNext'
  BY <1>1, NewlineStep
<1>7. ClientKnown'
  BY <1>1, ClientKnownStep
<1>8. SerialDelivers'
  BY <1>1, DeliversStep
<1>9. Reasoned' /\ NoRace'
  BY <1>1, ReasonedStep, NoRaceStep
<1>10. QED
  BY <1>2, <1>3, <1>4, <1>5, <1>6, <1>7, <1>8, <1>9 DEF IInv, Table

\* Every reachable state is one of the invariant.
THEOREM Invariance == Spec => []IInv
BY InvInit, InvStep, PTL DEF Spec

\* The variables keep their types, and pipes and channel their capacities.
THEOREM TypeCorrect == Spec => []TypeOK
<1>1. IInv => TypeOK
  BY DEF IInv
<1>2. QED
  BY Invariance, <1>1, PTL

\* No handler returns with its span open, if no other of its id is about.
THEOREM SpansEnd == Spec => []SpanEndsWithHandler
<1>1. IInv => SpanEndsWithHandler
  BY DEF IInv, Held, SpanEndsWithHandler, Active, Reasons, Returned
<1>2. QED
  BY Invariance, <1>1, PTL

\* A client that sends one request at a time loses no answer, whatever else is
\* in the pipes and however short they are, until Wait has closed the pipe, the
\* context is done, or a line over the limit has cut the answer off.
THEOREM AnswersDelivered == Spec => []SerialDelivers
<1>1. IInv => SerialDelivers
  BY DEF IInv
<1>2. QED
  BY Invariance, <1>1, PTL

\* Its calls are labelled with a name it has given in an initialize.
THEOREM ClientNamed == Spec => []SerialNamesClient
<1>1. IInv => SerialNamesClient
  <2> SUFFICES ASSUME IInv, NEW c \in Calls, NEW d \in Calls, serial, c # d,
                      post[d].method = "initialize", reply[d] # "unasked",
                      span[c] = "open", pc[c] \notin Returned
               PROVE  Announced(label[c])
    BY DEF SerialNamesClient, Announced
  <2>1. Named(d)
    BY DEF Named
  <2>2. QED
    BY <2>1 DEF IInv, ClientKnown
<1>2. QED
  BY Invariance, <1>1, PTL

-----------------------------------------------------------------------------
(* The ledger *)

\* A handler that gave up has given up for good.
LEMMA LateStays ==
    ASSUME IInv, [Next]_vars, NEW d \in Calls, pc[d] \in {"givenUp", "expired"}
    PROVE  pc'[d] \in {"givenUp", "expired"}
<1> USE DEF IInv, TypeOK
<1>1. ASSUME NEW e \in Calls, Handler(e) PROVE pc'[d] \in {"givenUp", "expired"}
  <2>1. CASE e # d
    BY <1>1, <2>1
       DEF Handler, BadBody, Arrive, Remember, StartSpan, CheckRunning, WriteBody,
           WriteNewline, WriteFails, Receive, ReceiveClosed, GiveUp, Respond, Cleanup
  <2>2. CASE e = d
    <3>1. Cleanup(d)
      BY <1>1, <2>2
         DEF Handler, BadBody, Arrive, Remember, StartSpan, CheckRunning, WriteBody,
             WriteNewline, WriteFails, Receive, ReceiveClosed, GiveUp, Respond
    <3>2. pc[d] = "givenUp" /\ pc'[d] = ReturnFor("givenUp")
      BY <3>1 DEF Cleanup, Reasons
    <3>3. QED
      BY <3>2 DEF ReturnFor
  <2>3. QED
    BY <2>1, <2>2
<1>2. QED
  BY <1>1, OthersKeep DEF Next

LEMMA FateGrows ==
    ASSUME IInv, [Next]_vars, NEW c \in Calls
    PROVE  Fate(c) \subseteq Fate(c)'
<1>0. Namesakes(c)' = Namesakes(c)
  BY PostFixed DEF Namesakes
<1>1. \A d \in Calls : reply[d] \in {"ok", "error"} => reply'[d] = reply[d]
  BY RepliesStay DEF IInv, Answered
<1>2. {reply[d] : d \in Namesakes(c)} \cap {"ok", "error"} \subseteq
      {reply'[d] : d \in Namesakes(c)} \cap {"ok", "error"}
  BY <1>1 DEF Namesakes
<1>3. (Broken \/ ~running => Broken' \/ ~running') /\ (Stopped => Stopped')
  BY EndsStay
<1>4. \A d \in Namesakes(c) : pc[d] \in {"givenUp", "expired"} => pc'[d] \in {"givenUp", "expired"}
  BY LateStays DEF Namesakes
<1>5. QED
  BY <1>0, <1>2, <1>3, <1>4 DEF Fate, Stopped

\* What earns the end of a span in this proxy.
Earned(c, end) == Ledger!Because(end) \subseteq Fate(c)

\* A handler that takes the entry of a call is of the call's id.
LEMMA TakesNamesake ==
    ASSUME IInv, NEW c \in Calls, NEW d \in Calls, c \in Entries(reqMap, Mine(d))
    PROVE  span[c] = "open" /\ post[d].id = post[c].id
<1> USE DEF IInv
<1>1. PICK k \in Mine(d) : reqMap[k] = c
  BY DEF Entries
<1>2. k \in Keys /\ k = Key(d)
  BY <1>1, OwnEntry
<1>3. Key(c) = k /\ span[c] = "open"
  BY <1>1, <1>2 DEF MapSound
<1>4. QED
  BY <1>2, <1>3 DEF Key, CorrelationKey

\* A span is opened once, and ended as a call of its id fared.
LEMMA SpanEarned ==
    ASSUME IInv, [Next]_vars, NEW c \in Calls, span'[c] # span[c]
    PROVE  \/ span[c] = "none" /\ span'[c] = "open"
           \/ /\ span[c] = "open" /\ span'[c] \in Final
              /\ post[c].id \in ChildIds \/ Ledger!Because(span'[c]) \subseteq Fate(c)'
<1> USE DEF IInv
<1>0. UNCHANGED post /\ Fate(c) \subseteq Fate(c)'
  BY PostFixed, FateGrows
<1> DEFINE Allowed == \/ span[c] = "none" /\ span'[c] = "open"
                      \/ /\ span[c] = "open" /\ span'[c] \in Final
                         /\ post[c].id \in ChildIds \/ Ledger!Because(span'[c]) \subseteq Fate(c)'
<1>1. ASSUME NEW d \in Calls, StartSpan(d) PROVE Allowed
  BY <1>1 DEF StartSpan, SpanStaged, TypeOK
<1>2. ASSUME NEW d \in Calls, NEW status \in Final, span' = EndSpan(Entries(reqMap, Mine(d)), status)
      PROVE  post[d].id = post[c].id /\ span[c] = "open" /\ span'[c] = status
  <2>1. c \in Entries(reqMap, Mine(d)) /\ span'[c] = status
    BY <1>2 DEF EndSpan
  <2>2. QED
    BY <2>1, TakesNamesake
<1>3. ASSUME NEW d \in Calls, Respond(d) PROVE Allowed
  <2>1. /\ pc[d] \in Answered /\ pc[d] \in Final
        /\ span' = EndSpan(Entries(reqMap, Mine(d)), pc[d]) /\ reply' = reply
    BY <1>3 DEF Respond, Answered, Final, childVars
  <2>2. post[d].id = post[c].id /\ span[c] = "open" /\ span'[c] = pc[d]
    BY <1>2, <2>1
  <2>3. CASE post[d].id \in ChildIds
    BY <2>1, <2>2, <2>3
  <2>4. CASE post[d].id \notin ChildIds
    <3>1. PICK e \in Calls : post[e].id = post[c].id /\ reply[e] = pc[d]
      BY <2>1, <2>2, <2>4 DEF AnswerSound, Said
    <3>2. span'[c] \in Fate(c)
      BY <2>1, <2>2, <3>1 DEF Fate, Namesakes, Answered
    <3>3. Ledger!Because(span'[c]) = {span'[c]}
      BY <2>1, <2>2 DEF Ledger!Because, Answered
    <3>4. Ledger!Because(span'[c]) \subseteq Fate(c)'
      BY <1>0, <3>2, <3>3 DEF Earned, Ledger!Because
    <3>5. QED
      BY <2>1, <2>2, <3>4
  <2>5. QED
    BY <2>3, <2>4
<1>4. ASSUME NEW d \in Calls, Cleanup(d) PROVE Allowed
  <2>1. /\ pc[d] \in Reasons /\ EndFor(pc[d]) \in Final
        /\ span' = EndSpan(Entries(reqMap, Mine(d)), EndFor(pc[d]))
    BY <1>4, ReasonsEnd DEF Cleanup
  <2>2. post[d].id = post[c].id /\ span[c] = "open" /\ span'[c] = EndFor(pc[d])
    BY <1>2, <2>1
  <2>3. CASE pc[d] = "unsent"
    <3>1. "failed" \in Fate(c) /\ EndFor(pc[d]) = "failed"
      BY <2>3 DEF Reasoned, Fate, EndFor
    <3>2. Ledger!Because(span'[c]) \subseteq Fate(c)'
      BY <1>0, <2>2, <3>1 DEF Earned, Ledger!Because
    <3>3. QED
      BY <2>1, <2>2, <3>2
  <2>4. CASE pc[d] = "givenUp"
    <3>1. "late" \in Fate(c) /\ EndFor(pc[d]) = "givenUp"
      BY <2>2, <2>4 DEF Fate, Namesakes, EndFor
    <3>2. Ledger!Because(span'[c]) \subseteq Fate(c)'
      BY <1>0, <2>2, <3>1 DEF Earned, Ledger!Because
    <3>3. QED
      BY <2>1, <2>2, <3>2
  <2>5. CASE pc[d] = "closed"
    <3>1. "cut" \in Fate(c) /\ EndFor(pc[d]) = "abandonedByUpstream"
      BY <2>5 DEF Reasoned, Stopped, Fate, EndFor
    <3>2. Ledger!Because(span'[c]) \subseteq Fate(c)'
      BY <1>0, <2>2, <3>1 DEF Earned, Ledger!Because
    <3>3. QED
      BY <2>1, <2>2, <3>2
  <2>6. QED
    BY <2>1, <2>3, <2>4, <2>5 DEF Reasons
<1>5. ASSUME NEW d \in Calls, BadBody(d) \/ Arrive(d) \/ Remember(d) \/ Moves(d) PROVE UNCHANGED span
  BY <1>5, MovesOn DEF BadBody, Arrive, Remember
<1>6. QED
  BY <1>1, <1>3, <1>4, <1>5, OthersKeep DEF Next, Handler, Moves

LEMMA LedgerInit == Init => Ledger!Init
BY DEF Init, Ledger!Init, Fate, Ledger!Facts

LEMMA LedgerStep == IInv /\ [Next]_vars => [Ledger!Next]_(Ledger!vars)
<1> SUFFICES ASSUME IInv, [Next]_vars, NEW c \in Calls PROVE Ledger!CallStep(c)
  BY DEF Ledger!Next
<1>0. UNCHANGED post /\ Fate(c) \subseteq Fate(c)'
  BY FateGrows, PostFixed
<1>1. CASE post[c].id \in ChildIds
  BY <1>0, <1>1 DEF Ledger!CallStep
<1>2. CASE post[c].id \notin ChildIds /\ span'[c] = span[c]
  BY <1>0, <1>2 DEF Ledger!CallStep
<1>3. CASE post[c].id \notin ChildIds /\ span[c] = "none" /\ span'[c] = "open"
  BY <1>0, <1>3 DEF Ledger!CallStep, Ledger!Opens
<1>4. CASE /\ post[c].id \notin ChildIds /\ span[c] = "open" /\ span'[c] \in Final
           /\ Ledger!Because(span'[c]) \subseteq Fate(c)'
  <2>1. span'[c] \in Ledger!Final
    BY <1>4 DEF Ledger!Final, Final
  <2>2. Ledger!Because(span'[c]) \subseteq Fate(c)'
    BY <1>4 DEF Earned, Ledger!Because
  <2>3. QED
    BY <1>0, <1>4, <2>1, <2>2 DEF Ledger!CallStep, Ledger!Ends
<1>5. QED
  BY <1>1, <1>2, <1>3, <1>4, SpanEarned

\* The proxy implements the ledger for the calls under whose ids the child sends
\* no request of its own: every span is opened once, ended once, ok or error only
\* as the child answered a call of that id, failed, given up or abandoned only
\* when the child or a pipe was gone, nobody waited, or its stdout had ended.
THEOREM Refinement == Spec => LedgerSpec
BY LedgerInit, LedgerStep, Invariance, PTL DEF Spec, LedgerSpec, Ledger!Spec

\* What a final status says stays true.
StatusTrue == \A c \in Calls : span[c] \in Final /\ post[c].id \notin ChildIds => Earned(c, span[c])

\* A handler may lose its answer to another (Delivers), but none ever takes
\* another's for its own: the span of a call that shares its id with no other,
\* and with no request of the child's, ends ok only if the child answered that
\* very call ok, and error only if it answered it with an error.
NeverAnothers == \A c \in Calls : Solo(c) /\ span[c] \in Answered => reply[c] = span[c]

THEOREM AnswersNotMixed == Spec => []NeverAnothers
<1>1. Init => StatusTrue
  BY DEF Init, StatusTrue, Final
<1>2. ASSUME IInv, StatusTrue, [Next]_vars PROVE StatusTrue'
  <2>0. UNCHANGED post
    BY <1>2, PostFixed
  <2> SUFFICES ASSUME NEW c \in Calls, span'[c] \in Final, post[c].id \notin ChildIds
               PROVE  Earned(c, span[c])'
    BY <2>0 DEF StatusTrue
  <2>1. Fate(c) \subseteq Fate(c)'
    BY <1>2, FateGrows
  <2>2. CASE span'[c] = span[c]
    <3>1. Ledger!Because(span[c]) \subseteq Fate(c)
      BY <1>2, <2>2 DEF StatusTrue, Earned
    <3>2. QED
      BY <2>1, <2>2, <3>1 DEF Earned, Ledger!Because
  <2>3. CASE span'[c] # span[c]
    <3>1. Ledger!Because(span'[c]) \subseteq Fate(c)'
      BY <1>2, <2>3, SpanEarned DEF Final
    <3>2. QED
      BY <3>1 DEF Earned, Ledger!Because
  <2>4. QED
    BY <2>2, <2>3
<1>3. StatusTrue => NeverAnothers
  <2> SUFFICES ASSUME StatusTrue, NEW c \in Calls, Solo(c), span[c] \in Answered
               PROVE  reply[c] = span[c]
    BY DEF NeverAnothers
  <2>1. span[c] \in Fate(c)
    BY DEF StatusTrue, Final, Answered, Earned, Ledger!Because, Solo
  <2>2. PICK d \in Calls : post[d].id = post[c].id /\ reply[d] = span[c]
    BY <2>1 DEF Fate, Namesakes, Answered
  <2>3. QED
    BY <2>2 DEF Solo, Unshared
<1>4. QED
  BY <1>1, <1>2, <1>3, Invariance, PTL DEF Spec
=============================================================================
