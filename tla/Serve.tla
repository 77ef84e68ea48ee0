------------------------------- MODULE Serve -------------------------------
(***************************************************************************)
(* The life of the process: run and serve in cmd/mcp-trace/main.go, the    *)
(* OTel provider of telemetry/otel.go, and the subprocess of the stdio     *)
(* transport (Start, Stop and monitorProcess in stdio.go).                 *)
(*                                                                         *)
(* Goroutines: main, which configures and sets up, then stays in           *)
(* ListenAndServe, then in its deferred calls; the signal goroutine, which *)
(* shuts the server down; the watcher of ExitErr; the monitor; one handler *)
(* per call.  They meet in a context (cancelled), the variable             *)
(* subprocessErr, the channels ExitErr and waitDone, and the flags of      *)
(* StdioProxy.                                                             *)
(*                                                                         *)
(* Outside src/: the kernel (signals, the child's exit), exec's goroutine  *)
(* that kills the child once its context is done, net/http (Shutdown       *)
(* closes the listener, on which ListenAndServe returns; it does not hold  *)
(* it back until the handlers are done) and the SDK's span batcher.        *)
(***************************************************************************)
EXTENDS Config

CONSTANTS Calls, Users

ASSUME UsersAssumption == Users \subseteq User

VARIABLES
    settings,   \* what the user gave, until it is loaded: a set of at most one User
    transport,  \* chosen once: none, sse, streamable, stdio
    main,       \* where run and serve stand
    result,     \* what they return: none, nil, setup, died, server
    signalled,  \* SIGINT or SIGTERM was sent
    sig,        \* the signal goroutine: off, waiting, cancelling, shutting, drained, timedout
    watch,      \* the ExitErr goroutine: off, waiting, recording, cancelling, done
    listening,  \* the listener is open
    down,       \* srv.Shutdown was called
    cancelled,  \* ctx is done
    subErr,     \* subprocessErr is set
    child,      \* the subprocess: none, alive or dead
    cause,      \* of its death: none, own, context, stdin, kill
    stopped,    \* StdioProxy.stopped
    stdin,      \* our end of its stdin pipe is open
    monitor,    \* monitorProcess: off, waiting, reaped, checked, done
    exitErr,    \* the buffer of ExitErr is full
    provider,   \* the OTel provider: off, working, failing (its collector), closed
    call        \* each call: none, accepted (its connection is), then its span: open,
                \* ended (in the batch), exported, lost

confVars   == <<settings, transport>>
signalVars == <<signalled, sig>>
netVars    == <<listening, down>>
childVars  == <<child, cause, stdin>>
vars == <<confVars, main, result, signalVars, watch, netVars, cancelled, subErr,
          childVars, stopped, monitor, exitErr, provider, call>>

Init == /\ settings \in {{u} : u \in Users} /\ transport = "none"
        /\ main = "load" /\ result = "none"
        /\ signalled = FALSE /\ sig = "off"
        /\ watch = "off" /\ listening = FALSE /\ down = FALSE
        /\ cancelled = FALSE /\ subErr = FALSE
        /\ child = "none" /\ cause = "none" /\ stopped = FALSE /\ stdin = TRUE
        /\ monitor = "off" /\ exitErr = FALSE /\ provider = "off"
        /\ call = [c \in Calls |-> "none"]

Gone == {"exited", "killed"}
Up == main \notin Gone

-----------------------------------------------------------------------------
(* Set-up: run, then serve down to ListenAndServe.  A step that fails returns *)
(* through the calls deferred so far.                                       *)

\* RunE and config.Load.
Configure ==
    /\ main = "load"
    /\ \E u \in settings : LET cfg == Load(u) IN
           /\ transport' = IF cfg = Invalid THEN transport ELSE cfg.transport
           /\ main' = IF cfg = Invalid THEN "return" ELSE "provide"
           /\ result' = IF cfg = Invalid THEN "setup" ELSE result
    /\ settings' = {}
    /\ UNCHANGED <<signalVars, watch, netVars, cancelled, subErr,
                   childVars, stopped, monitor, exitErr, provider, call>>

\* telemetry.New.  The exporter connects lazily: a collector that is not there
\* shows only when spans are exported.
Provide ==
    /\ main = "provide"
    /\ \/ main' = "return" /\ result' = "setup" /\ UNCHANGED provider
       \/ main' = "build" /\ provider' \in {"working", "failing"} /\ UNCHANGED result
    /\ UNCHANGED <<confVars, signalVars, watch, netVars, cancelled, subErr,
                   childVars, stopped, monitor, exitErr, call>>

\* Bug: the signals are caught only for the subprocess's sake.
BuildUnarmed ==
    /\ main = "build"
    /\ \/ main' = "flush" /\ result' = "setup"
       \/ main' = (IF transport = "stdio" THEN "start" ELSE "listen") /\ UNCHANGED result
    /\ UNCHANGED <<confVars, signalVars, watch, netVars, cancelled, subErr,
                   childVars, stopped, monitor, exitErr, provider, call>>

\* The proxy of the transport is made: its target is parsed, its pipes opened.
Build ==
    /\ main = "build"
    /\ \/ main' = "flush" /\ result' = "setup"
       \/ main' = (IF transport = "stdio" THEN "start" ELSE "arm") /\ UNCHANGED result
    /\ UNCHANGED <<confVars, signalVars, watch, netVars, cancelled, subErr,
                   childVars, stopped, monitor, exitErr, provider, call>>

\* Start, with its goroutines, and the watcher of ExitErr.
StartChild ==
    /\ main = "start"
    /\ \/ /\ main' = "flush" /\ result' = "setup"
          /\ UNCHANGED <<child, monitor, watch>>
       \/ /\ main' = "arm" /\ child' = "alive" /\ monitor' = "waiting" /\ watch' = "waiting"
          /\ UNCHANGED result
    /\ UNCHANGED <<confVars, signalVars, netVars, cancelled, subErr,
                   cause, stdin, stopped, exitErr, provider, call>>

\* signal.Notify and the signal goroutine.
Arm ==
    /\ main = "arm"
    /\ main' = "listen"
    /\ sig' = "waiting"
    /\ UNCHANGED <<confVars, result, signalled, watch, netVars, cancelled, subErr,
                   childVars, stopped, monitor, exitErr, provider, call>>

\* Bug: a Shutdown that came first is not noticed.
ListenBlindly ==
    /\ main = "listen"
    /\ main' = "serving" /\ listening' = TRUE
    /\ UNCHANGED <<confVars, result, signalVars, watch, down, cancelled, subErr,
                   childVars, stopped, monitor, exitErr, provider, call>>

\* ListenAndServe returns at once if Shutdown was called before it.
Listen ==
    /\ main = "listen"
    /\ main' = IF down THEN "closed" ELSE "serving"
    /\ listening' = ~down
    /\ UNCHANGED <<confVars, result, signalVars, watch, down, cancelled, subErr,
                   childVars, stopped, monitor, exitErr, provider, call>>

-----------------------------------------------------------------------------
(* Handlers *)

Accept(c) ==
    /\ Up /\ listening /\ call[c] = "none"
    /\ call' = [call EXCEPT ![c] = "accepted"]
    /\ UNCHANGED <<confVars, main, result, signalVars, watch, netVars, cancelled, subErr,
                   childVars, stopped, monitor, exitErr, provider>>

\* The request comes, and has its span, also when the listener is closed by then.
Open(c) ==
    /\ Up /\ call[c] = "accepted"
    /\ call' = [call EXCEPT ![c] = "open"]
    /\ UNCHANGED <<confVars, main, result, signalVars, watch, netVars, cancelled, subErr,
                   childVars, stopped, monitor, exitErr, provider>>

\* A span that ends waits in the batch; after Shutdown it is dropped.
End(c) ==
    /\ Up /\ call[c] = "open"
    /\ call' = [call EXCEPT ![c] = IF provider = "closed" THEN "lost" ELSE "ended"]
    /\ UNCHANGED <<confVars, main, result, signalVars, watch, netVars, cancelled, subErr,
                   childVars, stopped, monitor, exitErr, provider>>

\* What becomes of the spans in a batch that is exported.
Exported == [c \in Calls |-> IF call[c] # "ended" THEN call[c]
                             ELSE IF provider = "working" THEN "exported" ELSE "lost"]

\* The batcher's timer.
Export ==
    /\ Up /\ provider \in {"working", "failing"} /\ \E c \in Calls : call[c] = "ended"
    /\ call' = Exported
    /\ UNCHANGED <<confVars, main, result, signalVars, watch, netVars, cancelled, subErr,
                   childVars, stopped, monitor, exitErr, provider>>

-----------------------------------------------------------------------------
(* The signal goroutine *)

\* Before signal.Notify a signal kills the process; the kernel closes its end
\* of the pipe.  A second one is dropped.
Signal ==
    /\ Up /\ ~signalled
    /\ signalled' = TRUE
    /\ IF sig = "off"
       THEN /\ main' = "killed" /\ stdin' = FALSE /\ listening' = FALSE
            /\ call' = [c \in Calls |-> IF call[c] \in {"open", "ended"} THEN "lost" ELSE call[c]]
       ELSE UNCHANGED <<main, stdin, listening, call>>
    /\ UNCHANGED <<confVars, result, sig, watch, down, cancelled, subErr,
                   child, cause, stopped, monitor, exitErr, provider>>

\* The select: a signal, or the context is done already.
SigWakes ==
    /\ Up /\ sig = "waiting"
    /\ \/ signalled /\ sig' = "cancelling"
       \/ cancelled /\ sig' = "shutting"
    /\ UNCHANGED <<confVars, main, result, signalled, watch, netVars, cancelled, subErr,
                   childVars, stopped, monitor, exitErr, provider, call>>

SigCancels ==
    /\ Up /\ sig = "cancelling"
    /\ sig' = "shutting"
    /\ cancelled' = TRUE
    /\ UNCHANGED <<confVars, main, result, signalled, watch, netVars, subErr,
                   childVars, stopped, monitor, exitErr, provider, call>>

\* srv.Shutdown closes the listener first ...
Shutdown ==
    /\ Up /\ sig = "shutting" /\ ~down
    /\ down' = TRUE /\ listening' = FALSE
    /\ UNCHANGED <<confVars, main, result, signalVars, watch, cancelled, subErr,
                   childVars, stopped, monitor, exitErr, provider, call>>

\* ... and waits for the handlers, 10 s at most.
ShutdownReturns ==
    /\ Up /\ sig = "shutting" /\ down
    /\ \/ (\A c \in Calls : call[c] \notin {"accepted", "open"}) /\ sig' = "drained"
       \/ sig' = "timedout"
    /\ UNCHANGED <<confVars, main, result, signalled, watch, netVars, cancelled, subErr,
                   childVars, stopped, monitor, exitErr, provider, call>>

-----------------------------------------------------------------------------
(* The subprocess and monitorProcess *)

Dies(why) == child = "alive" /\ child' = "dead" /\ cause' = why /\ UNCHANGED stdin

\* Of its own accord, because exec kills it with the context, or on reading
\* the end of its stdin.
ChildDies ==
    /\ \/ Dies("own")
       \/ Up /\ cancelled /\ Dies("context")
       \/ ~stdin /\ Dies("stdin")
    /\ UNCHANGED <<confVars, main, result, signalVars, watch, netVars, cancelled, subErr,
                   stopped, monitor, exitErr, provider, call>>

\* cmd.Wait returns, and waitDone is closed.
Reap ==
    /\ Up /\ monitor = "waiting" /\ child = "dead"
    /\ monitor' = "reaped"
    /\ UNCHANGED <<confVars, main, result, signalVars, watch, netVars, cancelled, subErr,
                   childVars, stopped, exitErr, provider, call>>

\* Bug: the exit is reported without a look at stopped.
CheckSkipped ==
    /\ Up /\ monitor = "reaped"
    /\ monitor' = "checked"
    /\ UNCHANGED <<confVars, main, result, signalVars, watch, netVars, cancelled, subErr,
                   childVars, stopped, exitErr, provider, call>>

\* Under the mutex: was Stop called?  And running is cleared.
CheckStopped ==
    /\ Up /\ monitor = "reaped"
    /\ monitor' = IF stopped THEN "done" ELSE "checked"
    /\ UNCHANGED <<confVars, main, result, signalVars, watch, netVars, cancelled, subErr,
                   childVars, stopped, exitErr, provider, call>>

Report ==
    /\ Up /\ monitor = "checked"
    /\ monitor' = "done"
    /\ exitErr' = TRUE
    /\ UNCHANGED <<confVars, main, result, signalVars, watch, netVars, cancelled, subErr,
                   childVars, stopped, provider, call>>

-----------------------------------------------------------------------------
(* The watcher of ExitErr *)

Watch ==
    /\ Up /\ watch = "waiting" /\ exitErr
    /\ watch' = "recording"
    /\ exitErr' = FALSE
    /\ UNCHANGED <<confVars, main, result, signalVars, netVars, cancelled, subErr,
                   childVars, stopped, monitor, provider, call>>

\* Bug: cancel comes before the error is recorded.
RecordLate ==
    /\ Up
    /\ \/ watch = "recording" /\ watch' = "cancelling" /\ cancelled' = TRUE /\ UNCHANGED subErr
       \/ watch = "cancelling" /\ watch' = "done" /\ subErr' = TRUE /\ UNCHANGED cancelled
    /\ UNCHANGED <<confVars, main, result, signalVars, netVars,
                   childVars, stopped, monitor, exitErr, provider, call>>

\* The error is recorded under the mutex, then the context is cancelled.
RecordThenCancel ==
    /\ Up
    /\ \/ watch = "recording" /\ watch' = "cancelling" /\ subErr' = TRUE /\ UNCHANGED cancelled
       \/ watch = "cancelling" /\ watch' = "done" /\ cancelled' = TRUE /\ UNCHANGED subErr
    /\ UNCHANGED <<confVars, main, result, signalVars, netVars,
                   childVars, stopped, monitor, exitErr, provider, call>>

-----------------------------------------------------------------------------
(* main: ListenAndServe, the verdict, the deferred calls *)

\* Bug: a server that failed cancels the context first and stops the child after.
ListenFailsCancels ==
    /\ (main = "listen" /\ ~down) \/ (main = "serving" /\ listening)
    /\ main' = "failed"
    /\ listening' = FALSE /\ cancelled' = TRUE
    /\ UNCHANGED <<confVars, result, signalVars, watch, down, subErr,
                   childVars, stopped, monitor, exitErr, provider, call>>

\* The address is taken, or accepting fails.
ListenFails ==
    /\ (main = "listen" /\ ~down) \/ (main = "serving" /\ listening)
    /\ main' = "failed"
    /\ listening' = FALSE
    /\ UNCHANGED <<confVars, result, signalVars, watch, down, cancelled, subErr,
                   childVars, stopped, monitor, exitErr, provider, call>>

ListenReturns ==
    /\ main = "serving" /\ ~listening
    /\ main' = "closed"
    /\ UNCHANGED <<confVars, result, signalVars, watch, netVars, cancelled, subErr,
                   childVars, stopped, monitor, exitErr, provider, call>>

\* Bug: the reason of the exit is returned as it is.
VerdictRaw ==
    /\ main \in {"closed", "failed"}
    /\ result' = IF subErr THEN cause ELSE IF main = "failed" THEN "server" ELSE "nil"
    /\ main' = IF transport = "stdio" THEN "stop" ELSE "flush"
    /\ UNCHANGED <<confVars, signalVars, watch, netVars, cancelled, subErr,
                   childVars, stopped, monitor, exitErr, provider, call>>

\* subprocessErr is read under the mutex, and the first deferred call begins.
Verdict ==
    /\ main \in {"closed", "failed"}
    /\ result' = IF subErr THEN "died" ELSE IF main = "failed" THEN "server" ELSE "nil"
    /\ main' = IF transport = "stdio" THEN "stop" ELSE "flush"
    /\ UNCHANGED <<confVars, signalVars, watch, netVars, cancelled, subErr,
                   childVars, stopped, monitor, exitErr, provider, call>>

\* Bug: Stop closes the pipe and leaves the context to main.
StopFlagless ==
    /\ main = "stop"
    /\ main' = IF monitor \in {"waiting", "reaped"} THEN "stopping" ELSE "flush"
    /\ UNCHANGED <<confVars, result, signalVars, watch, netVars, cancelled, subErr,
                   childVars, stopped, monitor, exitErr, provider, call>>

\* The deferred Stop: nothing to do once the monitor has cleared running;
\* otherwise stopped is set first.
StopFlag ==
    /\ main = "stop"
    /\ IF monitor \in {"waiting", "reaped"}
       THEN main' = "stopping" /\ stopped' = TRUE
       ELSE main' = "flush" /\ UNCHANGED stopped
    /\ UNCHANGED <<confVars, result, signalVars, watch, netVars, cancelled, subErr,
                   childVars, monitor, exitErr, provider, call>>

StopStdin ==
    /\ main = "stopping"
    /\ main' = "stopwait"
    /\ stdin' = FALSE
    /\ UNCHANGED <<confVars, result, signalVars, watch, netVars, cancelled, subErr,
                   child, cause, stopped, monitor, exitErr, provider, call>>

\* The 5 s are over.
StopKills ==
    /\ main = "stopwait"
    /\ Dies("kill")
    /\ UNCHANGED <<confVars, main, result, signalVars, watch, netVars, cancelled, subErr,
                   stopped, monitor, exitErr, provider, call>>

\* Bug: the exit is not waited for.
StopReturnsEarly ==
    /\ main = "stopwait"
    /\ main' = "flush"
    /\ UNCHANGED <<confVars, result, signalVars, watch, netVars, cancelled, subErr,
                   childVars, stopped, monitor, exitErr, provider, call>>

StopReturns ==
    /\ main = "stopwait" /\ monitor # "waiting"
    /\ main' = "flush"
    /\ UNCHANGED <<confVars, result, signalVars, watch, netVars, cancelled, subErr,
                   childVars, stopped, monitor, exitErr, provider, call>>

\* Bug: Shutdown is given ctx, which a signal has cancelled.
FlushUnderCtx ==
    /\ main = "flush"
    /\ main' = "return"
    /\ provider' = "closed"
    /\ call' = IF cancelled THEN [c \in Calls |-> IF call[c] = "ended" THEN "lost" ELSE call[c]]
               ELSE Exported
    /\ UNCHANGED <<confVars, result, signalVars, watch, netVars, cancelled, subErr,
                   childVars, stopped, monitor, exitErr>>

\* provider.Shutdown exports the batch, within its own timeout.
Flush ==
    /\ main = "flush"
    /\ main' = "return"
    /\ provider' = "closed"
    /\ call' = Exported
    /\ UNCHANGED <<confVars, result, signalVars, watch, netVars, cancelled, subErr,
                   childVars, stopped, monitor, exitErr>>

\* The process ends, and every handler with it.
Exit ==
    /\ main = "return"
    /\ main' = "exited"
    /\ cancelled' = TRUE
    /\ call' = [c \in Calls |-> IF call[c] \in {"open", "ended"} THEN "lost" ELSE call[c]]
    /\ UNCHANGED <<confVars, result, signalVars, watch, netVars, subErr,
                   childVars, stopped, monitor, exitErr, provider>>

-----------------------------------------------------------------------------
SetUp == Configure \/ Provide \/ Build \/ StartChild \/ Arm \/ Listen

Main == \/ ListenFails \/ ListenReturns \/ Verdict \/ StopFlag \/ StopStdin
        \/ StopKills \/ StopReturns \/ Flush \/ Exit

SigGoroutine == SigWakes \/ SigCancels \/ Shutdown \/ ShutdownReturns
Monitor == Reap \/ CheckStopped \/ Report
Watcher == Watch \/ RecordThenCancel

Next == \/ \E c \in Calls : Accept(c) \/ Open(c) \/ End(c)
        \/ Export \/ Signal \/ ChildDies
        \/ SigGoroutine \/ Monitor \/ Watcher \/ SetUp \/ Main

Spec == Init /\ [][Next]_vars

\* Goroutines run and the 5 s pass.  No signal need come, no handler need end,
\* and a child may outlive its context and its stdin until it is killed.
Fairness == /\ WF_vars(SigGoroutine) /\ WF_vars(Monitor) /\ WF_vars(Watcher)
            /\ WF_vars(SetUp) /\ WF_vars(ListenReturns) /\ WF_vars(Verdict)
            /\ WF_vars(StopFlag) /\ WF_vars(StopStdin) /\ WF_vars(StopKills)
            /\ WF_vars(StopReturns) /\ WF_vars(Flush) /\ WF_vars(Exit)

FairSpec == Spec /\ Fairness
-----------------------------------------------------------------------------
(* Properties *)

Places == {"load", "provide", "build", "start", "arm", "listen",
           "serving", "failed", "closed", "stop", "stopping", "stopwait",
           "flush", "return", "exited", "killed"}

FlagsOK ==
    /\ signalled \in BOOLEAN /\ listening \in BOOLEAN /\ down \in BOOLEAN
    /\ cancelled \in BOOLEAN /\ subErr \in BOOLEAN /\ stopped \in BOOLEAN
    /\ stdin \in BOOLEAN /\ exitErr \in BOOLEAN

TypeOK ==
    /\ settings \subseteq User
    /\ transport \in Transports \cup {"none"}
    /\ main \in Places
    /\ result \in {"none", "nil", "setup", "died", "server"}
    /\ FlagsOK
    /\ sig \in {"off", "waiting", "cancelling", "shutting", "drained", "timedout"}
    /\ watch \in {"off", "waiting", "recording", "cancelling", "done"}
    /\ child \in {"none", "alive", "dead"}
    /\ cause \in {"none", "own", "context", "stdin", "kill"}
    /\ monitor \in {"off", "waiting", "reaped", "checked", "done"}
    /\ provider \in {"off", "working", "failing", "closed"}
    /\ call \in [Calls -> {"none", "accepted", "open", "ended", "exported", "lost"}]

\* Whom serve is run for, and how: the transport it builds, and the target, command
\* and arguments it hands to it, are those that README.md:247 promises ("Environment
\* variables override config-file values. CLI flags take the highest precedence"),
\* except for who is Overruled or has its arguments Hidden.
ConfigHonoured == [][\A u \in settings : main' = "provide" => Honoured(u, transport')]_vars

\* An exit that Stop itself brought about is never reported as unexpected:
\* neither the closed stdin nor the kill can overtake the flag that Stop sets.
StopNotReported ==
    cause \in {"stdin", "kill"} => ~exitErr /\ ~subErr /\ monitor # "checked"

\* Without a signal the subprocess is blamed only for a death of its own: no
\* other end of serve lets the context kill it before Stop has set its flag.
\* (With one it is not so: DiedMeansUnexpected.)
DiedOfItsOwn == result = "died" => cause = "own" \/ signalled

\* serve returns nil only after a signal: neither a step of the set-up that
\* failed nor a subprocess that died of its own is swallowed, whichever of the
\* goroutines it takes down runs first.
NilMeansSignalled == result = "nil" => signalled

\* Nothing outlives its parent: on every way out of serve, those of a failed
\* set-up included, the subprocess is dead and reaped before the provider is
\* shut down.
NoOrphan == main \in {"flush", "return", "exited"} => child # "alive" /\ monitor # "waiting"

\* The subprocess as StdioProxy takes it to be; main's cancel ends its context too.
\* A kill of mcp-trace closes the pipe with no proxy left to see it.
Life == INSTANCE Subprocess WITH
    reaped  <- monitor \notin {"off", "waiting"},
    running <- monitor \in {"waiting", "reaped"},
    stop    <- IF ~stdin /\ main # "killed" THEN "closed"
               ELSE IF stopped \/ cancelled THEN "cancelled" ELSE "no"

\* main, the signals and the watcher do with it, at whatever moment, what the
\* proxy in front of it allows for.
SubprocessSpec == Life!Spec

\* A signal that kills outright takes no call with it: no handler runs before
\* signal.Notify.
KillsNoCall == main = "killed" => \A c \in Calls : call[c] = "none"

\* A span that has ended is dropped only by its collector: on every way out
\* the batch is flushed, after the last handler whose end counts.
EndedIsExported ==
    [][\A c \in Calls : call[c] = "ended" /\ call'[c] # "ended" =>
          call'[c] = "exported" \/ provider = "failing"]_call

\* A span that is open is lost only at the very end: a handler that ends while
\* the listener is open, the subprocess alive or not reaped, or nobody has asked
\* for the end, still has its span exported.
OpenLostLast ==
    [][\A c \in Calls : call[c] = "open" /\ call'[c] = "lost" =>
          /\ provider = "closed" /\ ~listening
          /\ child # "alive" /\ monitor # "waiting"
          /\ down \/ result \in {"server", "died"}]_call

\* Once a signal came, or the subprocess died, or the server or the set-up
\* failed, the process ends, though handlers hang and the child ignores its
\* stdin; Shutdown may come before ListenAndServe.
EndsAfterAll ==
    /\ signalled ~> main \in Gone
    /\ child = "dead" ~> main \in Gone
    /\ main = "failed" \/ result = "setup" ~> main \in Gone

\* stdio.go:223: "ExitErr returns a channel that receives an error when the
\* subprocess exits unexpectedly"; so serve blames a subprocess only that died
\* of its own, not one it killed on a signal.
DiedMeansUnexpected == result = "died" => cause = "own"

\* main.go:220: "Graceful shutdown on SIGINT / SIGTERM"; a call in flight is
\* cut short, and its span lost, only when the 10 s of Shutdown are over.
DrainsFirst ==
    \A c \in Calls : call[c] = "lost" /\ result = "nil" => sig = "timedout"
=============================================================================
