------------------------ MODULE StdioProxyLiveProofs ------------------------
(***************************************************************************)
(* That no handler of StdioProxy hangs, proved for every set of calls and  *)
(* ids, every workload, a stdin pipe of every size, and the channel and    *)
(* the way back from the child as large as the code's or smaller.          *)
(*                                                                         *)
(* As in ServeLiveProofs, fairness is taken apart into what the proof      *)
(* needs: a handler and the reader go on where the code lets them          *)
(* (ProxyRuns).                                                            *)
(***************************************************************************)
EXTENDS StdioProxyProofs

\* Where the code lets a handler, and the reader, go on.
HandlerReady(c) ==
    \/ pc[c] \in {"naming", "start", "check", "ok", "error"} \cup Reasons
    \/ pc[c] \in {"body", "newline"} /\ (Broken \/ Len(stdin) < PipeCap)
    \/ pc[c] = "wait" /\ (chan # <<>> \/ closed)
ReaderReady ==
    \/ reader = "reading" /\ (out # <<>> \/ child # "alive" \/ reaped)
    \/ reader \in {"sending", "failing"} /\ (Len(chan) < ChanCap \/ Cancelled)
    \/ reader = "closing"

\* What ENABLED says of their actions: each may happen when its own guard holds.
\* Nothing but their definitions is behind it; it is a hypothesis below because
\* no installed prover reasons about ENABLED.
NeverHeldUp ==
    /\ \A c \in Calls : HandlerReady(c) => ENABLED <<Runs(c)>>_vars
    /\ ReaderReady => ENABLED <<ReadResponses>>_vars

HandlerRuns(c) == []<>~HandlerReady(c) \/ []<><<Runs(c)>>_vars
ReaderRuns     == []<>~ReaderReady \/ []<><<ReadResponses>>_vars

ProxyRuns == ReaderRuns /\ \A c \in Calls : HandlerRuns(c)

\* The reader goes without closing the channel only when it is called off.
ReaderCourse == /\ closed => reader = "done"
                /\ reader = "done" => closed \/ Cancelled

-----------------------------------------------------------------------------
(* What a step may do to a handler and to the reader. *)

\* A handler that waits no longer: it has its answer, or a reason to have none.
Leaving == {"ok", "error"} \cup Reasons

LEMMA Receives ==
    ASSUME TypeOK, NEW c \in Calls, Receive(c)
    PROVE  /\ pc[c] = "wait" /\ pc'[c] \in {"wait"} \cup Leaving
           /\ pc' = [pc EXCEPT ![c] = pc'[c]]
<1>1. Head(chan) \in Message
  BY DEF Receive, TypeOK
<1>2. AfterMessage(c, Head(chan)) \in {"wait"} \cup Leaving
  BY <1>1, MessageLeads DEF Leaving, Reasons
<1>3. QED
  BY <1>2 DEF Receive, TypeOK

HandlerMoves(c) ==
    /\ pc[c] \in Returned => pc'[c] \in Returned
    /\ pc[c] = "naming" => pc'[c] \in {"naming", "start", "check"}
    /\ pc[c] = "start" => pc'[c] \in {"start", "check"}
    /\ pc[c] = "check" => pc'[c] \in {"check", "body", "unsent"}
    /\ pc[c] = "body" => pc'[c] \in {"body", "newline", "unsent"}
    /\ pc[c] = "newline" => pc'[c] \in {"newline", "unsent", "wait", "done"}
    /\ pc[c] = "wait" => pc'[c] \in {"wait"} \cup Leaving
    /\ pc[c] \in Leaving => pc'[c] = pc[c] \/ pc'[c] \in Returned

LEMMA HandlerStep ==
    ASSUME TypeOK, [Next]_vars, NEW c \in Calls
    PROVE  HandlerMoves(c)
<1> USE DEF TypeOK, HandlerMoves, Returned, Leaving, Reasons
<1>1. ASSUME NEW d \in Calls, BadBody(d) \/ Arrive(d) \/ Remember(d) \/ StartSpan(d) \/ CheckRunning(d)
      PROVE  HandlerMoves(c)
  BY <1>1 DEF BadBody, Arrive, Start, Remember, StartSpan, CheckRunning
<1>2. ASSUME NEW d \in Calls, WriteBody(d) \/ WriteNewline(d) \/ WriteFails(d)
                              \/ ReceiveClosed(d) \/ GiveUp(d) \/ Respond(d)
      PROVE  HandlerMoves(c)
  BY <1>2 DEF WriteBody, WriteNewline, WriteFails, ReceiveClosed, GiveUp, Respond
<1>3. ASSUME NEW d \in Calls, Receive(d) PROVE HandlerMoves(c)
  BY <1>3, Receives
<1>4. ASSUME UNCHANGED pc PROVE HandlerMoves(c)
  BY <1>4
<1>5. ASSUME NEW d \in Calls, Cleanup(d) PROVE HandlerMoves(c)
  <2>1. pc[d] \in Reasons /\ pc'[d] \in Returned /\ \A e \in Calls \ {d} : pc'[e] = pc[e]
    BY <1>5, ReasonsEnd DEF Cleanup
  <2>2. QED
    BY <2>1
<1>6. QED
  BY <1>1, <1>2, <1>3, <1>4, <1>5, OthersKeep DEF Next, Handler

\* A step of its own takes a handler on, unless it waits.
LEMMA RunsOn ==
    ASSUME TypeOK, NEW c \in Calls, Runs(c)
    PROVE  pc[c] # "wait" => pc'[c] # pc[c]
<1> USE DEF TypeOK
<1>1. Remember(c) \/ StartSpan(c) \/ CheckRunning(c) => pc'[c] # pc[c]
  BY DEF Remember, Start, StartSpan, CheckRunning
<1>2. WriteBody(c) \/ WriteNewline(c) \/ WriteFails(c) => pc'[c] # pc[c]
  BY DEF WriteBody, WriteNewline, WriteFails
<1>3. Receive(c) \/ ReceiveClosed(c) => pc[c] = "wait"
  BY DEF Receive, ReceiveClosed
<1>4. Respond(c) => pc'[c] # pc[c]
  BY DEF Respond
<1>5. Cleanup(c) => pc'[c] # pc[c]
  BY DEF Cleanup, ReturnFor, Reasons
<1>6. QED
  BY <1>1, <1>2, <1>3, <1>4, <1>5 DEF Runs

\* One that waits takes a message, or sees the channel closed and empty.
LEMMA RunsWaiting ==
    ASSUME TypeOK, NEW c \in Calls, Runs(c), pc[c] = "wait"
    PROVE  \/ chan # <<>> /\ Len(chan') = Len(chan) - 1
           \/ chan = <<>> /\ pc'[c] = "closed"
<1>1. Receive(c) \/ ReceiveClosed(c)
  BY DEF Runs, Remember, StartSpan, CheckRunning, WriteBody, WriteNewline, WriteFails,
         Respond, Cleanup, Reasons
<1>2. CASE Receive(c)
  <2>1. chan # <<>> /\ chan' = Tail(chan)
    BY <1>2 DEF Receive
  <2>2. QED
    BY <2>1, HeadTailProperties DEF TypeOK
<1>3. CASE ReceiveClosed(c)
  BY <1>3 DEF ReceiveClosed, TypeOK
<1>4. QED
  BY <1>1, <1>2, <1>3

\* The channel grows only by the reader's sends, and is drained in between; the
\* way back from a child that prints no more only shortens.
ReaderMoves ==
    /\ child # "alive" => child' # "alive" /\ Len(out') <= Len(out)
    /\ Cancelled => Cancelled'
    /\ closed => closed' /\ Len(chan') <= Len(chan)
    /\ \/ UNCHANGED reader /\ Len(chan') <= Len(chan)
       \/ reader = "reading" /\ reader' = "sending" /\ Len(out') < Len(out)
       \/ reader = "reading" /\ reader' \in {"failing", "closing"}
       \/ reader = "sending" /\ reader' = "reading"
       \/ reader = "failing" /\ reader' = "closing"
       \/ reader = "closing" /\ reader' = "done" /\ closed'
       \/ reader = "sending" /\ reader' = "done" /\ Cancelled

LEMMA ReaderStep ==
    ASSUME TypeOK, ReaderCourse, [Next]_vars
    PROVE  ReaderMoves
<1>0. /\ chan \in Seq(Message) /\ Len(chan) \in Nat /\ reaped \in BOOLEAN /\ closed \in BOOLEAN
      /\ out \in Seq(Message) /\ Len(out) \in Nat
  BY LenProperties DEF TypeOK
<1> USE <1>0 DEF ReaderMoves, readerVars, flagVars, childVars, Cancelled
<1>1. ASSUME NEW c \in Calls, Handler(c) PROVE ReaderMoves
  <2>1. CASE Receive(c)
    <3>1. chan # <<>> /\ chan' = Tail(chan)
      BY <2>1 DEF Receive
    <3>2. Len(chan') <= Len(chan)
      BY <3>1, HeadTailProperties, EmptySeq
    <3>3. QED
      BY <2>1, <3>2 DEF Receive
  <2>2. CASE UNCHANGED <<child, readerVars, flagVars>>
    BY <2>2
  <2>3. QED
    BY <1>1, <2>1, <2>2
       DEF Handler, BadBody, Arrive, Remember, StartSpan, CheckRunning, WriteBody,
           WriteNewline, WriteFails, ReceiveClosed, GiveUp, Respond, Cleanup
<1>2. CASE Child
  <2>1. CASE ChildReads \/ ChildMutes \/ ChildDies
    BY <2>1 DEF ChildReads, ChildMutes, ChildDies
  <2>2. CASE ChildNotes
    <3>1. child = "alive"
      BY <2>2 DEF ChildNotes, Prints
    <3>2. QED
      BY <2>2, <3>1 DEF ChildNotes
  <2>3. CASE \E c \in Calls : ChildAnswers(c)
    BY <2>3 DEF ChildAnswers, Prints
  <2>4. QED
    BY <1>2, <2>1, <2>2, <2>3 DEF Child
<1>3. CASE ReadResponses
  <2>1. CASE ReadLine
    <3>1. Len(out') < Len(out)
      BY <2>1, HeadTailProperties, EmptySeq DEF ReadLine
    <3>2. QED
      BY <2>1, <3>1 DEF ReadLine, ReaderCourse
  <2>2. CASE ReadEnds
    BY <2>2 DEF ReadEnds, ReaderCourse
  <2>3. CASE Send \/ SendCancelled
    BY <2>3 DEF Send, SendCancelled, ReaderCourse
  <2>4. CASE Close
    BY <2>4 DEF Close
  <2>5. QED
    BY <1>3, <2>1, <2>2, <2>3, <2>4 DEF ReadResponses
<1>4. CASE Process \/ UNCHANGED vars
  <2>1. CASE Reap
    <3>1. Len(out') <= Len(out)
      BY <2>1, PrefixOf DEF Reap
    <3>2. QED
      BY <2>1, <3>1 DEF Reap
  <2>2. QED
    BY <1>4, <2>1 DEF Process, MarkStopped, Cancel, StopStdin, vars
<1>5. QED
  BY <1>1, <1>2, <1>3, <1>4 DEF Next

LEMMA CourseInit == Init => ReaderCourse
BY DEF Init, ReaderCourse

LEMMA CourseStep ==
    ASSUME TypeOK, ReaderCourse, [Next]_vars
    PROVE  ReaderCourse'
<1> USE DEF ReaderCourse, readerVars, flagVars, childVars, Cancelled
<1>1. ASSUME NEW c \in Calls, Handler(c) PROVE ReaderCourse'
  BY <1>1 DEF Handler, BadBody, Arrive, Remember, StartSpan, CheckRunning, WriteBody, WriteNewline,
              WriteFails, Receive, ReceiveClosed, GiveUp, Respond, Cleanup
<1>2. CASE Child
  BY <1>2 DEF Child, ChildReads, ChildAnswers, ChildNotes, ChildMutes, ChildDies
<1>3. CASE ReadResponses
  BY <1>3 DEF ReadResponses, ReadLine, ReadEnds, Send, SendCancelled, Close
<1>4. CASE Process \/ UNCHANGED vars
  BY <1>4 DEF Process, Reap, MarkStopped, Cancel, StopStdin, vars
<1>5. QED
  BY <1>1, <1>2, <1>3, <1>4 DEF Next

CInv == TypeOK /\ ReaderCourse

LEMMA CourseHolds == Spec => []CInv
<1>1. Init => ReaderCourse
  BY CourseInit
<1>2. TypeOK /\ ReaderCourse /\ [Next]_vars => ReaderCourse'
  BY CourseStep
<1>3. QED
  BY <1>1, <1>2, TypeCorrect, PTL DEF Spec, CInv

-----------------------------------------------------------------------------
(* A handler that waits for a child that will print no more: the reader     *)
(* reads what is left and ends, the channel is closed and drained, and the  *)
(* handler is woken.                                                        *)

Orphaned(c) == pc[c] = "wait" /\ child # "alive" /\ ~Cancelled
Woken(c)    == AtRest(c) \/ pc[c] \in Leaving

\* At most n lines are left to read, and the reader stands there; with no room in
\* the channel for what it has in hand, or with some.
At(c, r, n)    == Orphaned(c) /\ reader = r /\ Len(out) <= n
Stuck(c, r, n) == At(c, r, n) /\ Len(chan) = ChanCap
Free(c, r, n)  == At(c, r, n) /\ Len(chan) < ChanCap
Then(r)        == IF r = "sending" THEN "reading" ELSE "closing"

RoomComes(c, r, n) == Stuck(c, r, n) ~> Free(c, r, n) \/ Woken(c)
SendComes(c, r, n) == Free(c, r, n) ~> At(c, Then(r), n) \/ Woken(c)
GoesOn(c, r, n)    == At(c, r, n) ~> At(c, Then(r), n) \/ Woken(c)
CloseComes(c, n)   == At(c, "closing", n) ~> (Orphaned(c) /\ closed) \/ Woken(c)

\* Its reading has come to an end, whatever is left.
Ending(c) == Orphaned(c) /\ reader \in {"failing", "closing"}

\* The channel is closed, and holds n messages at most.
Left(c, n) == Orphaned(c) /\ closed /\ Len(chan) <= n

LEMMA OrphanedStep ==
    ASSUME NEW c \in Calls
    PROVE  CInv /\ Orphaned(c) /\ [Next]_vars => Orphaned(c)' \/ Woken(c)'
BY HandlerStep, ReaderStep
   DEF CInv, Orphaned, Woken, AtRest, HandlerMoves, ReaderMoves, Leaving

\* What is left to read never grows.
LEMMA LinesLeft ==
    ASSUME CInv, CInv', NEW c \in Calls, NEW n \in Nat, Orphaned(c), Len(out) <= n, [Next]_vars
    PROVE  Len(out') <= n
<1>1. Len(out) \in Nat /\ Len(out') \in Nat
  BY LenProperties DEF CInv, TypeOK
<1>2. Len(out') <= Len(out)
  BY ReaderStep DEF CInv, ReaderMoves, Orphaned
<1>3. QED
  BY <1>1, <1>2

\* The handler that waits makes room for the line or the error in the reader's
\* hand, ...
LEMMA MakesRoom ==
    ASSUME NEW c \in Calls, NEW r \in {"sending", "failing"}, NEW n \in Nat
    PROVE  Spec /\ HandlerRuns(c) => RoomComes(c, r, n)
<1>1. CInv /\ CInv' /\ Stuck(c, r, n) /\ [Next]_vars
          => Stuck(c, r, n)' \/ Free(c, r, n)' \/ Woken(c)'
  <2> SUFFICES ASSUME CInv, CInv', Stuck(c, r, n), [Next]_vars, ~Woken(c)'
               PROVE  Stuck(c, r, n)' \/ Free(c, r, n)'
    OBVIOUS
  <2>1. Orphaned(c)' /\ Len(out') <= n
    BY OrphanedStep, LinesLeft DEF Stuck, At
  <2>3. CASE UNCHANGED reader
    <3>1. Len(chan') \in Nat /\ Len(chan') <= ChanCap
      BY LenProperties DEF CInv, TypeOK
    <3>2. QED
      BY <2>1, <2>3, <3>1, Caps DEF Stuck, Free, At
  <2>4. CASE ~UNCHANGED reader
    <3>1. ~Send /\ ~SendCancelled
      <4>1. ~Cancelled /\ Len(chan) = ChanCap
        BY DEF Stuck, At, Orphaned
      <4>2. QED
        BY <4>1, Caps DEF Send, SendCancelled
    <3>2. reader \in {"sending", "failing"}
      BY DEF Stuck, At
    <3>3. ~ReadResponses
      BY <3>1, <3>2 DEF ReadResponses, ReadLine, ReadEnds, Close
    <3>4. \A d \in Calls : Handler(d) => UNCHANGED reader
      BY DEF Handler, readerVars, BadBody, Arrive, Remember, StartSpan, CheckRunning, WriteBody,
             WriteNewline, WriteFails, Receive, ReceiveClosed, GiveUp, Respond, Cleanup
    <3>5. Child \/ Process \/ UNCHANGED vars => UNCHANGED reader
      BY DEF Child, ChildReads, ChildAnswers, ChildNotes, ChildMutes, ChildDies, Process, Reap,
             MarkStopped, Cancel, StopStdin, vars, readerVars
    <3>6. QED
      BY <2>4, <3>3, <3>4, <3>5 DEF Next
  <2>5. QED
    BY <2>3, <2>4
<1>2. CInv /\ CInv' /\ Stuck(c, r, n) /\ <<Runs(c)>>_vars => Free(c, r, n)' \/ Woken(c)'
  <2> SUFFICES ASSUME CInv, CInv', Stuck(c, r, n), <<Runs(c)>>_vars
               PROVE  Free(c, r, n)' \/ Woken(c)'
    OBVIOUS
  <2>1. Runs(c) => Next
    BY DEF Runs, Next, Handler
  <2>2. Stuck(c, r, n)' \/ Free(c, r, n)' \/ Woken(c)'
    BY <1>1, <2>1
  <2>3. Len(chan) \in Nat /\ Len(chan) > 0 /\ chan # <<>>
    BY Caps, EmptySeq DEF Stuck, CInv, TypeOK
  <2>4. Len(chan') = Len(chan) - 1
    BY <2>3, RunsWaiting DEF CInv, Stuck, At, Orphaned
  <2>5. ~Stuck(c, r, n)'
    BY <2>3, <2>4 DEF Stuck
  <2>6. QED
    BY <2>2, <2>5
<1>3. CInv /\ Stuck(c, r, n) => HandlerReady(c)
  BY Caps, EmptySeq DEF Stuck, At, Orphaned, HandlerReady, CInv, TypeOK
<1>4. QED
  BY <1>1, <1>2, <1>3, CourseHolds, PTL DEF Spec, HandlerRuns, RoomComes

\* ... the reader sends it, ...
LEMMA SendsOn ==
    ASSUME NEW c \in Calls, NEW r \in {"sending", "failing"}, NEW n \in Nat
    PROVE  Spec /\ ReaderRuns => SendComes(c, r, n)
<1>1. CInv /\ CInv' /\ Free(c, r, n) /\ [Next]_vars
          => Free(c, r, n)' \/ At(c, Then(r), n)' \/ Woken(c)'
  <2> SUFFICES ASSUME CInv, CInv', Free(c, r, n), [Next]_vars, ~Woken(c)'
               PROVE  Free(c, r, n)' \/ At(c, Then(r), n)'
    OBVIOUS
  <2>1. Orphaned(c)' /\ Len(out') <= n /\ ReaderMoves
    BY OrphanedStep, LinesLeft, ReaderStep DEF Free, At, CInv
  <2>2. ~Cancelled /\ reader = r
    BY DEF Free, At, Orphaned
  <2>3. CASE UNCHANGED reader /\ Len(chan') <= Len(chan)
    <3>1. Len(chan) \in Nat /\ Len(chan') \in Nat
      BY LenProperties DEF CInv, TypeOK
    <3>2. QED
      BY <2>1, <2>2, <2>3, <3>1, Caps DEF Free, At
  <2>4. CASE reader' = Then(r)
    BY <2>1, <2>4 DEF At
  <2>5. QED
    BY <2>1, <2>2, <2>3, <2>4 DEF ReaderMoves, Then
<1>2. CInv /\ CInv' /\ Free(c, r, n) /\ <<ReadResponses>>_vars => At(c, Then(r), n)' \/ Woken(c)'
  <2> SUFFICES ASSUME CInv, CInv', Free(c, r, n), <<ReadResponses>>_vars
               PROVE  At(c, Then(r), n)' \/ Woken(c)'
    OBVIOUS
  <2>1. ReadResponses => Next
    BY DEF Next
  <2>2. Free(c, r, n)' \/ At(c, Then(r), n)' \/ Woken(c)'
    BY <1>1, <2>1
  <2>3. reader' # reader
    BY DEF ReadResponses, ReadLine, ReadEnds, Send, SendCancelled, Close
  <2>4. QED
    BY <2>2, <2>3 DEF Free, At
<1>3. Free(c, r, n) => ReaderReady
  BY DEF Free, At, ReaderReady
<1>4. QED
  BY <1>1, <1>2, <1>3, CourseHolds, PTL DEF Spec, ReaderRuns, SendComes

\* ... reads the next line, if there is one, or finds the end of its pipe, ...
LEMMA ReadsOn ==
    ASSUME NEW c \in Calls, NEW n \in Nat
    PROVE  Spec /\ ReaderRuns =>
               (At(c, "reading", n + 1) ~> At(c, "sending", n) \/ Ending(c) \/ Woken(c))
<1>1. CInv /\ CInv' /\ At(c, "reading", n + 1) /\ [Next]_vars
          => At(c, "reading", n + 1)' \/ At(c, "sending", n)' \/ Ending(c)' \/ Woken(c)'
  <2> SUFFICES ASSUME CInv, CInv', At(c, "reading", n + 1), [Next]_vars, ~Woken(c)'
               PROVE  At(c, "reading", n + 1)' \/ At(c, "sending", n)' \/ Ending(c)'
    OBVIOUS
  <2>1. Orphaned(c)' /\ Len(out') <= n + 1 /\ ReaderMoves /\ reader = "reading"
    BY OrphanedStep, LinesLeft, ReaderStep DEF At, CInv
  <2>2. Len(out) \in Nat /\ Len(out') \in Nat /\ Len(out) <= n + 1
    BY LenProperties DEF CInv, TypeOK, At
  <2>3. QED
    BY <2>1, <2>2 DEF ReaderMoves, At, Ending
<1>2. CInv /\ CInv' /\ At(c, "reading", n + 1) /\ <<ReadResponses>>_vars
          => At(c, "sending", n)' \/ Ending(c)' \/ Woken(c)'
  <2>1. ReadResponses => Next /\ reader' # reader
    BY DEF Next, ReadResponses, ReadLine, ReadEnds, Send, SendCancelled, Close
  <2>2. QED
    BY <1>1, <2>1 DEF At
<1>3. At(c, "reading", n + 1) => ReaderReady
  BY DEF At, Orphaned, ReaderReady
<1>4. QED
  BY <1>1, <1>2, <1>3, CourseHolds, PTL DEF Spec, ReaderRuns

LEMMA ReadEmpty ==
    ASSUME NEW c \in Calls
    PROVE  Spec /\ ReaderRuns => (At(c, "reading", 0) ~> Ending(c) \/ Woken(c))
<1>1. CInv /\ CInv' /\ At(c, "reading", 0) /\ [Next]_vars
          => At(c, "reading", 0)' \/ Ending(c)' \/ Woken(c)'
  <2> SUFFICES ASSUME CInv, CInv', At(c, "reading", 0), [Next]_vars, ~Woken(c)'
               PROVE  At(c, "reading", 0)' \/ Ending(c)'
    OBVIOUS
  <2>1. Orphaned(c)' /\ Len(out') <= 0 /\ ReaderMoves /\ reader = "reading"
    BY OrphanedStep, LinesLeft, ReaderStep DEF At, CInv
  <2>2. Len(out) \in Nat /\ Len(out') \in Nat /\ Len(out) <= 0
    BY LenProperties DEF CInv, TypeOK, At
  <2>3. QED
    BY <2>1, <2>2 DEF ReaderMoves, At, Ending
<1>2. CInv /\ CInv' /\ At(c, "reading", 0) /\ <<ReadResponses>>_vars => Ending(c)' \/ Woken(c)'
  <2>1. ReadResponses => Next /\ reader' # reader
    BY DEF Next, ReadResponses, ReadLine, ReadEnds, Send, SendCancelled, Close
  <2>2. QED
    BY <1>1, <2>1 DEF At
<1>3. At(c, "reading", 0) => ReaderReady
  BY DEF At, Orphaned, ReaderReady
<1>4. QED
  BY <1>1, <1>2, <1>3, CourseHolds, PTL DEF Spec, ReaderRuns

\* ... and closes the channel.
LEMMA Closes ==
    ASSUME NEW c \in Calls, NEW n \in Nat
    PROVE  Spec /\ ReaderRuns => CloseComes(c, n)
<1>1. CInv /\ CInv' /\ At(c, "closing", n) /\ [Next]_vars
          => At(c, "closing", n)' \/ (Orphaned(c) /\ closed)' \/ Woken(c)'
  BY OrphanedStep, ReaderStep, LinesLeft DEF At, ReaderMoves, CInv
<1>2. CInv /\ CInv' /\ At(c, "closing", n) /\ <<ReadResponses>>_vars
          => (Orphaned(c) /\ closed)' \/ Woken(c)'
  <2>1. ReadResponses => Next /\ reader' # reader
    BY DEF Next, ReadResponses, ReadLine, ReadEnds, Send, SendCancelled, Close
  <2>2. QED
    BY <1>1, <2>1 DEF At
<1>3. At(c, "closing", n) => ReaderReady
  BY DEF At, ReaderReady
<1>4. QED
  BY <1>1, <1>2, <1>3, CourseHolds, PTL DEF Spec, ReaderRuns, CloseComes

-----------------------------------------------------------------------------
(* What is left is read, line by line.                                     *)

Reads(c, m, n) == At(c, "reading", m) ~> At(c, "reading", n) \/ Ending(c) \/ Woken(c)
ReadsBy(c, k) == \A n \in Nat : Reads(c, n + k, n)

\* A line in hand is sent.
LEMMA SendsLine ==
    ASSUME NEW c \in Calls, NEW r \in {"sending", "failing"}, NEW n \in Nat
    PROVE  Spec /\ HandlerRuns(c) /\ ReaderRuns => GoesOn(c, r, n)
<1>1. CInv /\ At(c, r, n) => Stuck(c, r, n) \/ Free(c, r, n)
  BY Caps, LenProperties DEF CInv, TypeOK, Stuck, Free
<1>2. QED
  BY <1>1, MakesRoom, SendsOn, CourseHolds, PTL DEF RoomComes, SendComes, GoesOn

LEMMA ReadsOne ==
    ASSUME NEW c \in Calls
    PROVE  Spec /\ HandlerRuns(c) /\ ReaderRuns => ReadsBy(c, 1)
<1>1. ASSUME NEW n \in Nat
      PROVE  Spec /\ HandlerRuns(c) /\ ReaderRuns => Reads(c, n + 1, n)
  <2>1. Spec /\ HandlerRuns(c) /\ ReaderRuns => GoesOn(c, "sending", n)
    BY SendsLine
  <2>2. At(c, Then("sending"), n) => At(c, "reading", n)
    BY DEF Then
  <2>3. QED
    BY <2>1, <2>2, ReadsOn, PTL DEF Reads, GoesOn
<1>2. QED
  BY <1>1 DEF ReadsBy

LEMMA ReadsFurther ==
    ASSUME NEW c \in Calls, NEW k \in Nat, NEW m \in Nat, NEW n \in Nat,
           Reads(c, k, m), Reads(c, m, n)
    PROVE  Reads(c, k, n)
BY PTL DEF Reads

\* Four times as far.
LEMMA ReadsFour ==
    ASSUME NEW c \in Calls, NEW k \in Nat, ReadsBy(c, k)
    PROVE  ReadsBy(c, 4 * k)
<1>1. ASSUME NEW n \in Nat PROVE Reads(c, n + 4 * k, n)
  <2>1. /\ n + k \in Nat /\ n + 2 * k \in Nat /\ n + 3 * k \in Nat /\ n + 4 * k \in Nat
        /\ n + 2 * k = (n + k) + k /\ n + 3 * k = (n + 2 * k) + k /\ n + 4 * k = (n + 3 * k) + k
    OBVIOUS
  <2>2. Reads(c, n + k, n)
    BY DEF ReadsBy
  <2>3. Reads(c, n + 2 * k, n + k)
    BY <2>1 DEF ReadsBy
  <2>4. Reads(c, n + 3 * k, n + 2 * k)
    BY <2>1 DEF ReadsBy
  <2>5. Reads(c, n + 4 * k, n + 3 * k)
    BY <2>1 DEF ReadsBy
  <2>6. Reads(c, n + 4 * k, n + 2 * k) /\ Reads(c, n + 2 * k, n)
    BY <2>1, <2>2, <2>3, <2>4, <2>5, ReadsFurther
  <2>7. QED
    BY <2>1, <2>6, ReadsFurther
<1>2. QED
  BY <1>1 DEF ReadsBy

\* The pipe and the scanner's buffer hold 64 KiB and 8 MiB, and so fewer lines
\* than 4^12.
MaxLines == 16777216

LEMMA ReadsAll ==
    ASSUME NEW c \in Calls
    PROVE  Spec /\ HandlerRuns(c) /\ ReaderRuns => Reads(c, MaxLines, 0)
<1> SUFFICES ASSUME Spec /\ HandlerRuns(c) /\ ReaderRuns
             PROVE  Reads(c, MaxLines, 0)
  OBVIOUS
<1>1. ReadsBy(c, 1)
  BY ReadsOne
<1>2. ReadsBy(c, 4 * 1)
  BY <1>1, ReadsFour
<1>3. ReadsBy(c, 4 * 4)
  BY <1>2, ReadsFour
<1>4. ReadsBy(c, 4 * 16)
  BY <1>3, ReadsFour
<1>5. ReadsBy(c, 4 * 64)
  BY <1>4, ReadsFour
<1>6. ReadsBy(c, 4 * 256)
  BY <1>5, ReadsFour
<1>7. ReadsBy(c, 4 * 1024)
  BY <1>6, ReadsFour
<1>8. ReadsBy(c, 4 * 4096)
  BY <1>7, ReadsFour
<1>9. ReadsBy(c, 4 * 16384)
  BY <1>8, ReadsFour
<1>10. ReadsBy(c, 4 * 65536)
  BY <1>9, ReadsFour
<1>11. ReadsBy(c, 4 * 262144)
  BY <1>10, ReadsFour
<1>12. ReadsBy(c, 4 * 1048576)
  BY <1>11, ReadsFour
<1>13. ReadsBy(c, 4 * 4194304)
  BY <1>12, ReadsFour
<1>14. 0 + 4 * 4194304 = MaxLines /\ 0 \in Nat
  BY DEF MaxLines
<1>15. QED
  BY <1>13, <1>14 DEF ReadsBy

LEMMA ReaderEnds ==
    ASSUME NEW c \in Calls, OutCap <= MaxLines
    PROVE  Spec /\ HandlerRuns(c) /\ ReaderRuns =>
               (Orphaned(c) ~> (Orphaned(c) /\ closed) \/ Woken(c))
<1>0. MaxLines \in Nat
  BY DEF MaxLines
<1>1. CInv /\ Orphaned(c) =>
          \/ At(c, "sending", MaxLines) \/ At(c, "reading", MaxLines)
          \/ Ending(c) \/ (Orphaned(c) /\ closed)
  <2>1. CInv => Len(out) \in Nat /\ Len(out) <= OutCap
    BY LenProperties DEF CInv, TypeOK
  <2>2. CInv => Len(out) <= MaxLines
    BY <1>0, <2>1, Caps
  <2>3. QED
    BY <2>2 DEF CInv, TypeOK, ReaderCourse, Orphaned, At, Ending
<1>2. CInv /\ Ending(c) => At(c, "failing", MaxLines) \/ At(c, "closing", MaxLines)
  <2>1. CInv => Len(out) \in Nat /\ Len(out) <= OutCap
    BY LenProperties DEF CInv, TypeOK
  <2>2. CInv => Len(out) <= MaxLines
    BY <1>0, <2>1, Caps
  <2>3. QED
    BY <2>2 DEF Ending, At
<1>3. Spec /\ HandlerRuns(c) /\ ReaderRuns => GoesOn(c, "sending", MaxLines)
  BY <1>0, SendsLine
<1>4. Spec /\ HandlerRuns(c) /\ ReaderRuns => GoesOn(c, "failing", MaxLines)
  BY <1>0, SendsLine
<1>5. Spec /\ ReaderRuns => CloseComes(c, MaxLines)
  BY <1>0, Closes
<1>6. /\ At(c, Then("sending"), MaxLines) => At(c, "reading", MaxLines)
      /\ At(c, Then("failing"), MaxLines) => At(c, "closing", MaxLines)
  BY DEF Then
<1>7. QED
  BY <1>1, <1>2, <1>3, <1>4, <1>5, <1>6, ReadsAll, ReadEmpty, CourseHolds, PTL
     DEF Reads, GoesOn, CloseComes

-----------------------------------------------------------------------------
(* The closed channel is drained: each message the handler takes is one    *)
(* less.                                                                   *)

Drains(c, m, n) == Left(c, m) ~> Left(c, n) \/ Woken(c)

LEMMA DrainsOne ==
    ASSUME NEW c \in Calls, NEW n \in Nat
    PROVE  Spec /\ HandlerRuns(c) => Drains(c, n + 1, n)
<1>1. CInv /\ CInv' /\ Left(c, n + 1) /\ [Next]_vars => Left(c, n + 1)' \/ Woken(c)'
  <2>1. ASSUME CInv, CInv', Left(c, n + 1), [Next]_vars, ~Woken(c)'
        PROVE  Left(c, n + 1)'
    <3>1. Orphaned(c)' /\ closed' /\ Len(chan') <= Len(chan) /\ Len(chan) <= n + 1
      BY <2>1, OrphanedStep, ReaderStep DEF Left, CInv, ReaderMoves
    <3>2. Len(chan') \in Nat /\ Len(chan) \in Nat
      BY <2>1, LenProperties DEF CInv, TypeOK
    <3>3. QED
      BY <3>1, <3>2 DEF Left
  <2>2. QED
    BY <2>1
<1>2. CInv /\ CInv' /\ Left(c, n + 1) /\ <<Runs(c)>>_vars => Left(c, n)' \/ Woken(c)'
  <2>1. ASSUME CInv, CInv', Left(c, n + 1), <<Runs(c)>>_vars, ~Woken(c)'
        PROVE  Left(c, n)'
    <3>1. Runs(c) => Next
      BY DEF Runs, Next, Handler
    <3>2. Left(c, n + 1)'
      BY <1>1, <2>1, <3>1
    <3>3. pc'[c] # "closed"
      BY <2>1 DEF Woken, Leaving, Reasons
    <3>4. Len(chan') = Len(chan) - 1
      BY <2>1, <3>3, RunsWaiting DEF CInv, Left, Orphaned
    <3>5. Len(chan) \in Nat /\ Len(chan) <= n + 1
      BY <2>1, LenProperties DEF CInv, TypeOK, Left
    <3>6. QED
      BY <3>2, <3>4, <3>5 DEF Left
  <2>2. QED
    BY <2>1
<1>3. Left(c, n + 1) => HandlerReady(c)
  BY DEF Left, Orphaned, HandlerReady
<1>4. QED
  BY <1>1, <1>2, <1>3, CourseHolds, PTL DEF Spec, HandlerRuns, Drains

LEMMA DrainsOn ==
    ASSUME NEW c \in Calls, NEW k \in Nat, NEW m \in Nat, NEW n \in Nat,
           Drains(c, k, m), Drains(c, m, n)
    PROVE  Drains(c, k, n)
BY PTL DEF Drains

\* cap(responseCh) is 16: four times four.
LEMMA DrainsFour ==
    ASSUME NEW c \in Calls, NEW n \in Nat
    PROVE  Spec /\ HandlerRuns(c) => Drains(c, n + 4, n)
<1> SUFFICES ASSUME Spec /\ HandlerRuns(c)
             PROVE  Drains(c, n + 4, n)
  OBVIOUS
<1>1. /\ n + 1 \in Nat /\ n + 2 \in Nat /\ n + 3 \in Nat /\ n + 4 \in Nat
      /\ n + 2 = (n + 1) + 1 /\ n + 3 = (n + 2) + 1 /\ n + 4 = (n + 3) + 1
  OBVIOUS
<1>2. Drains(c, n + 1, n)
  BY DrainsOne
<1>3. Drains(c, n + 2, n + 1)
  BY <1>1, DrainsOne
<1>4. Drains(c, n + 3, n + 2)
  BY <1>1, DrainsOne
<1>5. Drains(c, n + 4, n + 3)
  BY <1>1, DrainsOne
<1>6. Drains(c, n + 4, n + 2) /\ Drains(c, n + 2, n)
  BY <1>1, <1>2, <1>3, <1>4, <1>5, DrainsOn
<1>7. QED
  BY <1>1, <1>6, DrainsOn

LEMMA DrainsAll ==
    ASSUME NEW c \in Calls
    PROVE  Spec /\ HandlerRuns(c) => Drains(c, 16, 0)
<1> SUFFICES ASSUME Spec /\ HandlerRuns(c)
             PROVE  Drains(c, 16, 0)
  OBVIOUS
<1>1. Drains(c, 12 + 4, 12) /\ Drains(c, 8 + 4, 8) /\ Drains(c, 4 + 4, 4) /\ Drains(c, 0 + 4, 0)
  BY DrainsFour
<1>2. Drains(c, 16, 12) /\ Drains(c, 12, 8) /\ Drains(c, 8, 4) /\ Drains(c, 4, 0)
  BY <1>1
<1>3. QED
  BY <1>2, DrainsOn

LEMMA EmptyWakes ==
    ASSUME NEW c \in Calls
    PROVE  Spec /\ HandlerRuns(c) => (Left(c, 0) ~> Woken(c))
<1>1. CInv /\ CInv' /\ Left(c, 0) /\ [Next]_vars => Left(c, 0)' \/ Woken(c)'
  <2>1. ASSUME CInv, CInv', Left(c, 0), [Next]_vars, ~Woken(c)'
        PROVE  Left(c, 0)'
    <3>1. Orphaned(c)' /\ closed' /\ Len(chan') <= Len(chan) /\ Len(chan) <= 0
      BY <2>1, OrphanedStep, ReaderStep DEF Left, CInv, ReaderMoves
    <3>2. Len(chan') \in Nat /\ Len(chan) \in Nat
      BY <2>1, LenProperties DEF CInv, TypeOK
    <3>3. QED
      BY <3>1, <3>2 DEF Left
  <2>2. QED
    BY <2>1
<1>2. CInv /\ Left(c, 0) /\ <<Runs(c)>>_vars => Woken(c)'
  <2>1. ASSUME CInv, Left(c, 0), <<Runs(c)>>_vars PROVE Woken(c)'
    <3>1. chan = <<>>
      BY <2>1, EmptySeq, LenProperties DEF CInv, TypeOK, Left
    <3>2. QED
      BY <2>1, <3>1, RunsWaiting DEF CInv, Left, Orphaned, Woken, Leaving, Reasons
  <2>2. QED
    BY <2>1
<1>3. Left(c, 0) => HandlerReady(c)
  BY DEF Left, Orphaned, HandlerReady
<1>4. QED
  BY <1>1, <1>2, <1>3, CourseHolds, PTL DEF Spec, HandlerRuns

\* The way back from the child, and the channel, are no larger than the code's.
AsInTheCode == OutCap <= MaxLines /\ ChanCap <= 16

LEMMA OrphanWakes ==
    ASSUME NEW c \in Calls, AsInTheCode
    PROVE  Spec /\ HandlerRuns(c) /\ ReaderRuns => (Orphaned(c) ~> Woken(c))
<1>1. CInv /\ Orphaned(c) /\ closed => Left(c, 16)
  <2>1. CInv => Len(chan) \in Nat /\ Len(chan) <= ChanCap
    BY LenProperties DEF CInv, TypeOK
  <2>2. QED
    BY <2>1, Caps DEF Left, AsInTheCode
<1>2. Spec /\ HandlerRuns(c) => Drains(c, 16, 0)
  BY DrainsAll
<1>3. Spec /\ HandlerRuns(c) /\ ReaderRuns =>
          (Orphaned(c) ~> (Orphaned(c) /\ closed) \/ Woken(c))
  BY ReaderEnds DEF AsInTheCode
<1>4. QED
  BY <1>1, <1>2, <1>3, EmptyWakes, CourseHolds, PTL DEF Drains

-----------------------------------------------------------------------------
(* A handler's way from its arrival to its return. *)

Places == {"naming", "start", "check", "body", "newline"} \cup Leaving

Later == [p \in Places |->
            CASE p = "naming"  -> {"start", "check"}
              [] p = "start"   -> {"check"}
              [] p = "check"   -> {"body", "unsent"}
              [] p = "body"    -> {"newline", "unsent"}
              [] p = "newline" -> {"wait", "unsent", "done"}
              [] OTHER         -> Returned]

Leaves(c, p) == pc[c] = p ~> AtRest(c) \/ pc[c] \in Later[p]

LEMMA HandlerLeaves ==
    ASSUME NEW c \in Calls, NEW p \in Places
    PROVE  Spec /\ HandlerRuns(c) => Leaves(c, p)
<1>1. CInv /\ pc[c] = p /\ [Next]_vars => (pc[c] = p)' \/ (pc[c] \in Later[p])'
  <2>1. ASSUME CInv, pc[c] = p, [Next]_vars PROVE pc'[c] = p \/ pc'[c] \in Later[p]
    <3>1. HandlerMoves(c)
      BY <2>1, HandlerStep DEF CInv
    <3>2. QED
      BY <2>1, <3>1 DEF HandlerMoves, Later, Places, Leaving, Reasons, Returned
  <2>2. QED
    BY <2>1
<1>2. CInv /\ pc[c] = p /\ <<Runs(c)>>_vars => (pc[c] \in Later[p])'
  <2>1. Runs(c) => Next
    BY DEF Runs, Next, Handler
  <2>2. CInv /\ pc[c] = p /\ Runs(c) => pc'[c] # p
    BY RunsOn DEF CInv, Places, Leaving, Reasons
  <2>3. QED
    BY <1>1, <2>1, <2>2
<1>3. CInv /\ pc[c] = p => HandlerReady(c) \/ AtRest(c)
  <2>1. ASSUME CInv, pc[c] \in {"body", "newline"}, ~AtRest(c) PROVE HandlerReady(c)
    <3>1. Len(stdin) # PipeCap \/ Broken
      BY <2>1 DEF AtRest, Broken, CInv, TypeOK
    <3>2. Len(stdin) \in Nat /\ Len(stdin) <= PipeCap
      BY <2>1, LenProperties DEF CInv, TypeOK
    <3>3. QED
      BY <2>1, <3>1, <3>2, Caps DEF HandlerReady
  <2>2. QED
    BY <2>1 DEF HandlerReady, Places, Leaving
<1>4. QED
  BY <1>1, <1>2, <1>3, CourseHolds, PTL DEF Spec, HandlerRuns, Leaves

LEMMA OneReturns ==
    ASSUME NEW c \in Calls, AsInTheCode
    PROVE  Spec /\ HandlerRuns(c) /\ ReaderRuns => []<>AtRest(c)
<1>1. Spec /\ HandlerRuns(c) =>
          /\ Leaves(c, "naming") /\ Leaves(c, "start") /\ Leaves(c, "check")
          /\ Leaves(c, "body") /\ Leaves(c, "newline")
          /\ Leaves(c, "ok") /\ Leaves(c, "error")
          /\ Leaves(c, "unsent") /\ Leaves(c, "givenUp") /\ Leaves(c, "closed")
  BY HandlerLeaves DEF Places, Leaving, Reasons
<1>2. /\ pc[c] \in Later["naming"] => pc[c] = "start" \/ pc[c] = "check"
      /\ pc[c] \in Later["start"] => pc[c] = "check"
      /\ pc[c] \in Later["check"] => pc[c] = "body" \/ pc[c] = "unsent"
      /\ pc[c] \in Later["body"] => pc[c] = "newline" \/ pc[c] = "unsent"
      /\ pc[c] \in Later["newline"] => pc[c] = "wait" \/ pc[c] = "unsent" \/ AtRest(c)
  BY DEF Later, Places, AtRest, Returned
<1>3. /\ pc[c] \in Later["ok"] => AtRest(c)
      /\ pc[c] \in Later["error"] => AtRest(c)
      /\ pc[c] \in Later["unsent"] => AtRest(c)
      /\ pc[c] \in Later["givenUp"] => AtRest(c)
      /\ pc[c] \in Later["closed"] => AtRest(c)
  BY DEF Later, Places, Leaving, Reasons, AtRest
<1>4. CInv /\ pc[c] = "wait" => Orphaned(c) \/ AtRest(c)
  BY DEF CInv, TypeOK, Orphaned, AtRest
<1>5. Woken(c) => \/ AtRest(c) \/ pc[c] = "ok" \/ pc[c] = "error"
                  \/ pc[c] = "unsent" \/ pc[c] = "givenUp" \/ pc[c] = "closed"
  BY DEF Woken, Leaving, Reasons
<1>6. CInv => \/ AtRest(c) \/ pc[c] = "naming" \/ pc[c] = "start" \/ pc[c] = "check"
              \/ pc[c] = "body" \/ pc[c] = "newline" \/ pc[c] = "wait"
              \/ pc[c] = "ok" \/ pc[c] = "error"
              \/ pc[c] = "unsent" \/ pc[c] = "givenUp" \/ pc[c] = "closed"
  BY DEF CInv, TypeOK, AtRest, Reasons
<1>7. QED
  BY <1>1, <1>2, <1>3, <1>4, <1>5, <1>6, OrphanWakes, CourseHolds, PTL DEF Leaves

-----------------------------------------------------------------------------
(* The theorems *)

\* No handler hangs: again and again each is at rest.
EachHandlerReturns == \A c \in Calls : []<>AtRest(c)

\* Each handler comes to rest, whatever the child and the other handlers do,
\* with a channel and a pipe no larger than the code's: when the child dies or
\* closes its stdout, whoever waits is woken by the reader and not by a timer.
THEOREM ReturnsIfTheyRun == ASSUME AsInTheCode PROVE Spec /\ ProxyRuns => EachHandlerReturns
<1>1. ASSUME NEW c \in Calls
      PROVE  ProxyRuns => HandlerRuns(c) /\ ReaderRuns
  BY <1>1 DEF ProxyRuns
<1>2. ASSUME NEW c \in Calls
      PROVE  Spec /\ ProxyRuns => []<>AtRest(c)
  BY <1>1, <1>2, OneReturns, PTL
<1>3. QED
  BY <1>2 DEF EachHandlerReturns

\* The fairness of the specification is that the proxy runs, as nothing that
\* is ready is held up.
LEMMA FairProxyRuns == Fairness /\ []NeverHeldUp => ProxyRuns
<1>1. ASSUME NEW c \in Calls
      PROVE  NeverHeldUp => (HandlerReady(c) => ENABLED <<Runs(c)>>_vars)
  BY <1>1 DEF NeverHeldUp
<1>2. NeverHeldUp => (ReaderReady => ENABLED <<ReadResponses>>_vars)
  BY DEF NeverHeldUp
<1>3. ASSUME NEW c \in Calls PROVE Fairness => HandlerFairness(c)
  BY <1>3 DEF Fairness
<1>4. ASSUME NEW c \in Calls PROVE Fairness /\ []NeverHeldUp => HandlerRuns(c)
  BY <1>1, <1>3, <1>4, PTL DEF HandlerFairness, HandlerRuns
<1>5. Fairness => ReaderFairness
  BY DEF Fairness
<1>6. Fairness /\ []NeverHeldUp => ReaderRuns
  BY <1>2, <1>5, PTL DEF ReaderFairness, ReaderRuns
<1>7. QED
  BY <1>4, <1>6 DEF ProxyRuns

THEOREM ReturnsUnderFairness ==
    ASSUME AsInTheCode PROVE FairSpec /\ []NeverHeldUp => EachHandlerReturns
BY ReturnsIfTheyRun, FairProxyRuns, PTL DEF FairSpec
=============================================================================
