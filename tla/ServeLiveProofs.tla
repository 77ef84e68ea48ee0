-------------------------- MODULE ServeLiveProofs --------------------------
(***************************************************************************)
(* That the process ends, proved for any number of calls and of users.     *)
(*                                                                         *)
(* The provers cannot compute ENABLED.  So the fairness of a goroutine is  *)
(* taken apart: that it takes a step again and again unless, from some     *)
(* time on, the code has nothing for it to do (GoroutinesRun) is all that  *)
(* the proof of EndsAfterAll needs; that this follows from Fairness takes  *)
(* NeverHeldUp, what ENABLED says of their actions, as a hypothesis.       *)
(***************************************************************************)
EXTENDS ServeProofs

\* Where the code lets a goroutine that Fairness speaks of go on.
SigReady == Up /\ \/ sig = "waiting" /\ (signalled \/ cancelled)
                  \/ sig \in {"cancelling", "shutting"}
MonitorReady == Up /\ \/ monitor = "waiting" /\ child = "dead"
                      \/ monitor \in {"reaped", "checked"}
WatcherReady == Up /\ \/ watch = "waiting" /\ exitErr
                      \/ watch \in {"recording", "cancelling"}
SetUpReady == main \in {"load", "provide", "build", "start", "arm", "listen"}

\* What ENABLED says of their actions: each may happen when its own guard holds.
\* Nothing but their definitions is behind it; it is a hypothesis below because
\* no installed prover reasons about ENABLED.
NeverHeldUp ==
    /\ SigReady => ENABLED <<SigGoroutine>>_vars
    /\ MonitorReady => ENABLED <<Monitor>>_vars
    /\ WatcherReady => ENABLED <<Watcher>>_vars
    /\ SetUpReady => ENABLED <<SetUp>>_vars
    /\ main = "serving" /\ ~listening => ENABLED <<ListenReturns>>_vars
    /\ main \in {"closed", "failed"} => ENABLED <<Verdict>>_vars
    /\ main = "stop" => ENABLED <<StopFlag>>_vars
    /\ main = "stopping" => ENABLED <<StopStdin>>_vars
    /\ main = "stopwait" /\ child = "alive" => ENABLED <<StopKills>>_vars
    /\ main = "stopwait" /\ monitor # "waiting" => ENABLED <<StopReturns>>_vars
    /\ main = "flush" => ENABLED <<Flush>>_vars
    /\ main = "return" => ENABLED <<Exit>>_vars

SigRuns       == []<>~SigReady \/ []<><<SigGoroutine>>_vars
MonitorRuns   == []<>~MonitorReady \/ []<><<Monitor>>_vars
WatcherRuns   == []<>~WatcherReady \/ []<><<Watcher>>_vars
SetUpRuns     == []<>~SetUpReady \/ []<><<SetUp>>_vars
ListenEnds    == []<>~(main = "serving" /\ ~listening) \/ []<><<ListenReturns>>_vars
VerdictRuns   == []<>~(main \in {"closed", "failed"}) \/ []<><<Verdict>>_vars
StopFlagRuns  == []<>~(main = "stop") \/ []<><<StopFlag>>_vars
StopStdinRuns == []<>~(main = "stopping") \/ []<><<StopStdin>>_vars
KillRuns      == []<>~(main = "stopwait" /\ child = "alive") \/ []<><<StopKills>>_vars
StopEnds      == []<>~(main = "stopwait" /\ monitor # "waiting") \/ []<><<StopReturns>>_vars
FlushRuns     == []<>~(main = "flush") \/ []<><<Flush>>_vars
ExitRuns      == []<>~(main = "return") \/ []<><<Exit>>_vars

GoroutinesRun == /\ SigRuns /\ MonitorRuns /\ WatcherRuns /\ SetUpRuns
                 /\ ListenEnds /\ VerdictRuns /\ StopFlagRuns /\ StopStdinRuns
                 /\ KillRuns /\ StopEnds /\ FlushRuns /\ ExitRuns

-----------------------------------------------------------------------------
(* What Inv does not say: how far each goroutine is when another has got   *)
(* somewhere.                                                              *)

Early  == {"load", "provide", "build", "start", "arm"}
Ending == {"failed", "closed", "stop", "stopping", "stopwait", "flush", "return"}

\* A signal that is not caught kills; the listener is open only while main is
\* in ListenAndServe, and Shutdown closes it for good.
SignalCourse ==
    /\ signalled /\ sig = "off" => main \in Gone
    /\ sig # "off" => main \notin Early
    /\ listening => main = "serving" /\ ~down
    /\ down => sig \in {"shutting", "drained", "timedout"}
    /\ sig \in {"drained", "timedout"} => down
    /\ result = "setup" => main \in {"flush", "return"} \cup Gone

\* The exit of the child is reported, watched, recorded, and cancels, unless
\* Stop was called.
ReportCourse ==
    /\ child = "dead" => monitor # "off"
    /\ monitor # "off" => watch # "off"
    /\ stopped => main \in {"stopping", "stopwait", "flush", "return"} \cup Gone
    /\ main \in {"stopping", "stopwait"} => child # "none"
    /\ monitor = "done" /\ ~stopped =>
           exitErr \/ watch \in {"recording", "cancelling", "done"}
    /\ watch = "done" => cancelled

Course == SignalCourse /\ ReportCourse

LEMMA CourseStart == Init => Course
BY DEF Init, Course, SignalCourse, ReportCourse, Early, Gone

LEMMA SignalCourseStep ==
    ASSUME Inv, SignalCourse, [Next]_vars
    PROVE  SignalCourse'
<1> USE DEF SignalCourse, Early, Up, Gone, confVars, signalVars, netVars, childVars
<1>0. TypeOK /\ Armed
  BY DEF Inv
<1> USE <1>0 DEF TypeOK, FlagsOK, Places, Armed
<1>1. ASSUME NEW c \in Calls, Accept(c) \/ Open(c) \/ End(c) PROVE SignalCourse'
  BY <1>1 DEF Accept, Open, End
<1>2. CASE Export \/ Signal
  BY <1>2 DEF Export, Signal
<1>3. CASE ChildDies
  BY <1>3 DEF ChildDies, Dies
<1>4. CASE SigGoroutine
  BY <1>4 DEF SigGoroutine, SigWakes, SigCancels, Shutdown, ShutdownReturns
<1>5. CASE Monitor \/ Watcher
  BY <1>5 DEF Monitor, Reap, CheckStopped, Report, Watcher, Watch, RecordThenCancel
<1>6. CASE Main
  <2>1. CASE ListenFails \/ ListenReturns \/ Verdict
    BY <2>1 DEF ListenFails, ListenReturns, Verdict
  <2>2. CASE StopFlag \/ StopStdin
    BY <2>2 DEF StopFlag, StopStdin
  <2>3. CASE StopKills \/ StopReturns
    BY <2>3 DEF StopKills, StopReturns, Dies
  <2>4. CASE Flush \/ Exit
    BY <2>4 DEF Flush, Exit
  <2>5. QED
    BY <1>6, <2>1, <2>2, <2>3, <2>4 DEF Main
<1>7. CASE SetUp
  <2>1. CASE Configure
    BY <2>1 DEF Configure
  <2>2. CASE Provide \/ Build
    BY <2>2 DEF Provide, Build
  <2>3. CASE StartChild
    BY <2>3 DEF StartChild
  <2>4. CASE Arm \/ Listen
    BY <2>4 DEF Arm, Listen
  <2>5. QED
    BY <1>7, <2>1, <2>2, <2>3, <2>4 DEF SetUp
<1>8. CASE UNCHANGED vars
  BY <1>8 DEF vars
<1>9. QED
  BY <1>1, <1>2, <1>3, <1>4, <1>5, <1>6, <1>7, <1>8 DEF Next

LEMMA ReportCourseStep ==
    ASSUME Inv, ReportCourse, [Next]_vars
    PROVE  ReportCourse'
<1> USE DEF ReportCourse, Up, Gone, confVars, signalVars, netVars, childVars
<1>0. TypeOK /\ ChildSound /\ OwnDoing
  BY DEF Inv
<1> USE <1>0 DEF TypeOK, FlagsOK, Places, ChildSound
<1>1. ASSUME NEW c \in Calls, Accept(c) \/ Open(c) \/ End(c) PROVE ReportCourse'
  BY <1>1 DEF Accept, Open, End
<1>2. CASE Export \/ Signal
  BY <1>2 DEF Export, Signal
<1>3. CASE ChildDies
  BY <1>3 DEF ChildDies, Dies
<1>4. CASE SigGoroutine
  BY <1>4 DEF SigGoroutine, SigWakes, SigCancels, Shutdown, ShutdownReturns
<1>5. CASE Monitor
  BY <1>5 DEF Monitor, Reap, CheckStopped, Report
<1>6. CASE Watcher
  BY <1>6 DEF Watcher, Watch, RecordThenCancel
<1>7. CASE Main
  <2>1. CASE ListenFails \/ ListenReturns \/ Verdict
    BY <2>1 DEF ListenFails, ListenReturns, Verdict
  <2>2. CASE StopFlag \/ StopStdin
    BY <2>2 DEF StopFlag, StopStdin
  <2>3. CASE StopKills \/ StopReturns
    BY <2>3 DEF StopKills, StopReturns, Dies
  <2>4. CASE Flush \/ Exit
    BY <2>4 DEF Flush, Exit
  <2>5. QED
    BY <1>7, <2>1, <2>2, <2>3, <2>4 DEF Main
<1>8. CASE SetUp
  <2>1. CASE Configure
    BY <2>1 DEF Configure
  <2>2. CASE Provide \/ Build
    BY <2>2 DEF Provide, Build
  <2>3. CASE StartChild
    BY <2>3 DEF StartChild
  <2>4. CASE Arm \/ Listen
    BY <2>4 DEF Arm, Listen
  <2>5. QED
    BY <1>8, <2>1, <2>2, <2>3, <2>4 DEF SetUp
<1>9. CASE UNCHANGED vars
  BY <1>9 DEF vars
<1>10. QED
  BY <1>1, <1>2, <1>3, <1>4, <1>5, <1>6, <1>7, <1>8, <1>9 DEF Next

LEMMA CourseHolds == Spec => [](Inv /\ Course)
<1>1. Inv /\ Course /\ [Next]_vars => Course'
  BY SignalCourseStep, ReportCourseStep DEF Course
<1>2. QED
  BY <1>1, CourseStart, Invariance, PTL DEF Spec

-----------------------------------------------------------------------------
(* What a step may do to the places of the goroutines. *)

MainMoves ==
    /\ main \in Gone => main' \in Gone
    /\ main = "return" => main' = "return" \/ main' \in Gone
    /\ main = "flush" => main' \in {"flush", "return"} \cup Gone
    /\ main = "stopwait" => main' \in {"stopwait", "flush"} \cup Gone
    /\ main = "stopping" => main' \in {"stopping", "stopwait"} \cup Gone
    /\ main = "stop" => main' \in {"stop", "stopping", "flush"} \cup Gone
    /\ main \in {"closed", "failed"} => main' \in {main, "stop", "flush"} \cup Gone
    /\ main = "serving" => main' \in {"serving", "closed", "failed"} \cup Gone
    /\ main = "listen" => main' \in {"listen", "serving", "closed", "failed"} \cup Gone
    /\ main = "arm" => main' \in {"arm", "listen"} \cup Gone

LEMMA MainStep ==
    ASSUME [Next]_vars
    PROVE  MainMoves
<1> USE DEF Up, Gone, confVars, signalVars, netVars, childVars, MainMoves
<1>1. ASSUME NEW c \in Calls, Accept(c) \/ Open(c) \/ End(c) PROVE MainMoves
  BY <1>1 DEF Accept, Open, End
<1>2. CASE Export \/ Signal
  BY <1>2 DEF Export, Signal
<1>3. CASE ChildDies
  BY <1>3 DEF ChildDies, Dies
<1>4. CASE SigGoroutine
  BY <1>4 DEF SigGoroutine, SigWakes, SigCancels, Shutdown, ShutdownReturns
<1>5. CASE Monitor
  BY <1>5 DEF Monitor, Reap, CheckStopped, Report
<1>6. CASE Watcher
  BY <1>6 DEF Watcher, Watch, RecordThenCancel
<1>7. CASE Main
  <2>1. CASE ListenFails \/ ListenReturns \/ Verdict
    BY <2>1 DEF ListenFails, ListenReturns, Verdict
  <2>2. CASE StopFlag \/ StopStdin \/ StopKills \/ StopReturns
    BY <2>2 DEF StopFlag, StopStdin, StopKills, StopReturns, Dies
  <2>3. CASE Flush \/ Exit
    BY <2>3 DEF Flush, Exit
  <2>4. QED
    BY <1>7, <2>1, <2>2, <2>3 DEF Main
<1>8. CASE SetUp
  <2>1. CASE Configure \/ Provide
    BY <2>1 DEF Configure, Provide
  <2>2. CASE Build \/ StartChild
    BY <2>2 DEF Build, StartChild
  <2>3. CASE Arm
    BY <2>3 DEF Arm
  <2>4. CASE Listen
    <3>1. main = "listen" /\ main' \in {"closed", "serving"}
      BY <2>4 DEF Listen
    <3>2. QED
      BY <3>1
  <2>5. QED
    BY <1>8, <2>1, <2>2, <2>3, <2>4 DEF SetUp
<1>9. CASE UNCHANGED vars
  BY <1>9 DEF vars
<1>10. QED
  BY <1>1, <1>2, <1>3, <1>4, <1>5, <1>6, <1>7, <1>8, <1>9 DEF Next

SignalMoves ==
    /\ signalled => signalled'
    /\ cancelled => cancelled'
    /\ down => down'
    /\ sig = "waiting" => sig' \in {"waiting", "cancelling", "shutting"}
    /\ sig = "cancelling" => sig' \in {"cancelling", "shutting"}
    /\ sig = "shutting" => sig' = "shutting" \/ down

LEMMA SignalStep ==
    ASSUME Inv, SignalCourse, [Next]_vars
    PROVE  SignalMoves
<1>0. FlagsOK
  BY DEF Inv, TypeOK
<1> USE <1>0 DEF FlagsOK, SignalCourse, Early
<1> USE DEF Up, Gone, confVars, signalVars, netVars, childVars, SignalMoves
<1>1. ASSUME NEW c \in Calls, Accept(c) \/ Open(c) \/ End(c) PROVE SignalMoves
  BY <1>1 DEF Accept, Open, End
<1>2. CASE Export \/ Signal
  BY <1>2 DEF Export, Signal
<1>3. CASE ChildDies
  BY <1>3 DEF ChildDies, Dies
<1>4. CASE SigGoroutine
  BY <1>4 DEF SigGoroutine, SigWakes, SigCancels, Shutdown, ShutdownReturns
<1>5. CASE Monitor
  BY <1>5 DEF Monitor, Reap, CheckStopped, Report
<1>6. CASE Watcher
  BY <1>6 DEF Watcher, Watch, RecordThenCancel
<1>7. CASE Main
  <2>1. CASE ListenFails \/ ListenReturns \/ Verdict
    BY <2>1 DEF ListenFails, ListenReturns, Verdict
  <2>2. CASE StopFlag \/ StopStdin \/ StopKills \/ StopReturns
    BY <2>2 DEF StopFlag, StopStdin, StopKills, StopReturns, Dies
  <2>3. CASE Flush \/ Exit
    BY <2>3 DEF Flush, Exit
  <2>4. QED
    BY <1>7, <2>1, <2>2, <2>3 DEF Main
<1>8. CASE SetUp
  <2>1. CASE Configure \/ Provide
    BY <2>1 DEF Configure, Provide
  <2>2. CASE Build \/ StartChild
    BY <2>2 DEF Build, StartChild
  <2>3. CASE Arm \/ Listen
    BY <2>3 DEF Arm, Listen
  <2>4. QED
    BY <1>8, <2>1, <2>2, <2>3 DEF SetUp
<1>9. CASE UNCHANGED vars
  BY <1>9 DEF vars
<1>10. QED
  BY <1>1, <1>2, <1>3, <1>4, <1>5, <1>6, <1>7, <1>8, <1>9 DEF Next

ChildMoves ==
    /\ child = "dead" => child' = "dead"
    /\ child = "alive" => child' \in {"alive", "dead"}
    /\ stopped => stopped'
    /\ monitor = "waiting" => monitor' \in {"waiting", "reaped"}
    /\ monitor = "reaped" => monitor' \in {"reaped", "checked", "done"}
    /\ monitor = "checked" => monitor' \in {"checked", "done"}
    /\ monitor = "done" => monitor' = "done"
    /\ watch = "waiting" /\ exitErr => (watch' = "waiting" /\ exitErr') \/ watch' = "recording"
    /\ watch = "recording" => watch' \in {"recording", "cancelling"}
    /\ watch = "cancelling" => watch' \in {"cancelling", "done"}
    /\ watch = "done" => watch' = "done"

LEMMA ChildStep ==
    ASSUME Inv, [Next]_vars
    PROVE  ChildMoves
<1>0. TypeOK /\ ChildSound /\ ReportOnce
  BY DEF Inv
<1> USE <1>0 DEF TypeOK, ChildSound, ReportOnce
<1> USE DEF Up, Gone, confVars, signalVars, netVars, childVars, ChildMoves
<1>1. ASSUME NEW c \in Calls, Accept(c) \/ Open(c) \/ End(c) PROVE ChildMoves
  BY <1>1 DEF Accept, Open, End
<1>2. CASE Export \/ Signal
  BY <1>2 DEF Export, Signal
<1>3. CASE ChildDies
  BY <1>3 DEF ChildDies, Dies
<1>4. CASE SigGoroutine
  BY <1>4 DEF SigGoroutine, SigWakes, SigCancels, Shutdown, ShutdownReturns
<1>5. CASE Monitor
  BY <1>5 DEF Monitor, Reap, CheckStopped, Report
<1>6. CASE Watcher
  BY <1>6 DEF Watcher, Watch, RecordThenCancel
<1>7. CASE Main
  <2>1. CASE ListenFails \/ ListenReturns \/ Verdict
    BY <2>1 DEF ListenFails, ListenReturns, Verdict
  <2>2. CASE StopFlag \/ StopStdin \/ StopKills \/ StopReturns
    BY <2>2 DEF StopFlag, StopStdin, StopKills, StopReturns, Dies
  <2>3. CASE Flush \/ Exit
    BY <2>3 DEF Flush, Exit
  <2>4. QED
    BY <1>7, <2>1, <2>2, <2>3 DEF Main
<1>8. CASE SetUp
  <2>1. CASE Configure \/ Provide
    BY <2>1 DEF Configure, Provide
  <2>2. CASE Build \/ StartChild
    BY <2>2 DEF Build, StartChild
  <2>3. CASE Arm \/ Listen
    BY <2>3 DEF Arm, Listen
  <2>4. QED
    BY <1>8, <2>1, <2>2, <2>3 DEF SetUp
<1>9. CASE UNCHANGED vars
  BY <1>9 DEF vars
<1>10. QED
  BY <1>1, <1>2, <1>3, <1>4, <1>5, <1>6, <1>7, <1>8, <1>9 DEF Next

LEMMA Moves ==
    Inv /\ Course /\ [Next]_vars => MainMoves /\ SignalMoves /\ ChildMoves
BY MainStep, SignalStep, ChildStep DEF Course

-----------------------------------------------------------------------------
(* From ListenAndServe's return to the end of the process: the verdict, the *)
(* deferred calls, the end.                                                 *)

LEMMA ReturnEnds == Spec /\ ExitRuns => (main = "return" ~> main \in Gone)
<1>1. Inv /\ Course /\ main = "return" /\ [Next]_vars
          => (main = "return")' \/ (main \in Gone)'
  BY Moves DEF MainMoves
<1>2. main = "return" /\ <<Exit>>_vars => (main \in Gone)'
  BY DEF Exit, Gone
<1>3. QED
  BY <1>1, <1>2, CourseHolds, PTL DEF Spec, ExitRuns

LEMMA FlushEnds ==
    Spec /\ FlushRuns => (main = "flush" ~> main = "return" \/ main \in Gone)
<1>1. Inv /\ Course /\ main = "flush" /\ [Next]_vars
          => (main = "flush")' \/ (main = "return")' \/ (main \in Gone)'
  BY Moves DEF MainMoves
<1>2. main = "flush" /\ <<Flush>>_vars => (main = "return")'
  BY DEF Flush
<1>3. QED
  BY <1>1, <1>2, CourseHolds, PTL DEF Spec, FlushRuns

\* Stop waits for the monitor, which waits for the child, which the kill ends.
StopAlive  == main = "stopwait" /\ child = "alive"
StopUnseen == main = "stopwait" /\ child = "dead" /\ monitor = "waiting"
StopSeen   == main = "stopwait" /\ monitor # "waiting"
PastStop   == main = "flush" \/ main \in Gone

LEMMA KillEnds == Spec /\ KillRuns => (StopAlive ~> StopUnseen \/ StopSeen \/ PastStop)
<1>1. Inv /\ Course /\ StopAlive /\ [Next]_vars
          => StopAlive' \/ StopUnseen' \/ StopSeen' \/ PastStop'
  BY Moves DEF MainMoves, ChildMoves, StopAlive, StopUnseen, StopSeen, PastStop
<1>2. StopAlive /\ <<StopKills>>_vars => StopUnseen' \/ StopSeen'
  BY DEF StopKills, Dies, StopAlive, StopUnseen, StopSeen
<1>3. QED
  BY <1>1, <1>2, CourseHolds, PTL DEF Spec, KillRuns, StopAlive

LEMMA ReapEnds == Spec /\ MonitorRuns => (StopUnseen ~> StopSeen \/ PastStop)
<1>1. Inv /\ Course /\ StopUnseen /\ [Next]_vars
          => StopUnseen' \/ StopSeen' \/ PastStop'
  BY Moves DEF MainMoves, ChildMoves, StopUnseen, StopSeen, PastStop
<1>2. StopUnseen /\ <<Monitor>>_vars => StopSeen'
  BY DEF Monitor, Reap, CheckStopped, Report, StopUnseen, StopSeen
<1>3. StopUnseen => MonitorReady
  BY DEF StopUnseen, MonitorReady, Up, Gone
<1>4. QED
  BY <1>1, <1>2, <1>3, CourseHolds, PTL DEF Spec, MonitorRuns

LEMMA StopWaitEnds == Spec /\ StopEnds => (StopSeen ~> PastStop)
<1>1. Inv /\ Course /\ StopSeen /\ [Next]_vars => StopSeen' \/ PastStop'
  <2>1. ASSUME Inv, Course, StopSeen, [Next]_vars PROVE StopSeen' \/ PastStop'
    <3>1. monitor \in {"reaped", "checked", "done"}
      BY <2>1 DEF Inv, TypeOK, ChildSound, Course, ReportCourse, StopSeen
    <3>2. monitor' # "waiting"
      BY <2>1, <3>1, Moves DEF ChildMoves
    <3>3. QED
      BY <2>1, <3>2, Moves DEF MainMoves, StopSeen, PastStop
  <2>2. QED
    BY <2>1
<1>2. StopSeen /\ <<StopReturns>>_vars => PastStop'
  BY DEF StopReturns, PastStop
<1>3. QED
  BY <1>1, <1>2, CourseHolds, PTL DEF Spec, StopEnds, StopSeen

\* What main still has to do once ListenAndServe has returned, it does.
LEMMA StopsAll ==
    Spec /\ KillRuns /\ MonitorRuns /\ StopEnds => (main = "stopwait" ~> PastStop)
<1>1. Inv /\ Course /\ main = "stopwait" => StopAlive \/ StopUnseen \/ StopSeen
  BY DEF Inv, TypeOK, ChildSound, Course, ReportCourse, StopAlive, StopUnseen, StopSeen
<1>2. QED
  BY <1>1, KillEnds, ReapEnds, StopWaitEnds, CourseHolds, PTL

LEMMA StdinCloses ==
    Spec /\ StopStdinRuns => (main = "stopping" ~> main = "stopwait" \/ main \in Gone)
<1>1. Inv /\ Course /\ main = "stopping" /\ [Next]_vars
          => (main = "stopping")' \/ (main = "stopwait")' \/ (main \in Gone)'
  BY Moves DEF MainMoves
<1>2. main = "stopping" /\ <<StopStdin>>_vars => (main = "stopwait")'
  BY DEF StopStdin
<1>3. QED
  BY <1>1, <1>2, CourseHolds, PTL DEF Spec, StopStdinRuns

LEMMA StopBegins ==
    Spec /\ StopFlagRuns => (main = "stop" ~> main = "stopping" \/ PastStop)
<1>1. Inv /\ Course /\ main = "stop" /\ [Next]_vars
          => (main = "stop")' \/ (main = "stopping")' \/ PastStop'
  BY Moves DEF MainMoves, PastStop
<1>2. main = "stop" /\ <<StopFlag>>_vars => (main = "stopping")' \/ PastStop'
  BY DEF StopFlag, PastStop
<1>3. QED
  BY <1>1, <1>2, CourseHolds, PTL DEF Spec, StopFlagRuns

LEMMA VerdictComes ==
    Spec /\ VerdictRuns => (main \in {"closed", "failed"} ~> main = "stop" \/ PastStop)
<1>1. Inv /\ Course /\ main \in {"closed", "failed"} /\ [Next]_vars
          => (main \in {"closed", "failed"})' \/ (main = "stop")' \/ PastStop'
  BY Moves DEF MainMoves, PastStop
<1>2. main \in {"closed", "failed"} /\ <<Verdict>>_vars => (main = "stop")' \/ PastStop'
  BY DEF Verdict, PastStop
<1>3. QED
  BY <1>1, <1>2, CourseHolds, PTL DEF Spec, VerdictRuns

LEMMA EndingEnds == Spec /\ GoroutinesRun => (main \in Ending ~> main \in Gone)
<1>1. main \in Ending
          => \/ main \in {"closed", "failed"} \/ main = "stop"
             \/ main = "stopping" \/ main = "stopwait"
             \/ main = "flush" \/ main = "return"
  BY DEF Ending
<1>2. PastStop => main = "flush" \/ main \in Gone
  BY DEF PastStop
<1>3. QED
  BY <1>1, <1>2, VerdictComes, StopBegins, StdinCloses, StopsAll, FlushEnds, ReturnEnds, PTL
     DEF GoroutinesRun

-----------------------------------------------------------------------------
(* From Shutdown to ListenAndServe's return, whichever comes first. *)

DownEarly   == down /\ main = "listen"
DownServing == down /\ main = "serving"

LEMMA ListenSeesShutdown ==
    Spec /\ SetUpRuns => (DownEarly ~> main \in Ending \/ main \in Gone)
<1>1. Inv /\ Course /\ DownEarly /\ [Next]_vars
          => DownEarly' \/ (main \in Ending)' \/ (main \in Gone)'
  <2>1. ASSUME Inv, Course, DownEarly, [Next]_vars, main' = "serving" PROVE FALSE
    <3>1. CASE SetUp
      BY <2>1, <3>1 DEF SetUp, Configure, Provide, Build, StartChild, Arm, Listen, DownEarly
    <3>2. CASE Main
      BY <2>1, <3>2 DEF Main, ListenFails, ListenReturns, Verdict, StopFlag, StopStdin,
                        StopKills, StopReturns, Flush, Exit, DownEarly
    <3>3. CASE UNCHANGED main
      BY <2>1, <3>3 DEF DownEarly
    <3>4. Next => SetUp \/ Main \/ UNCHANGED main \/ main' = "killed"
      BY DEF Next, Accept, Open, End, Export, Signal, ChildDies, Monitor, Reap, CheckStopped, Report,
             Watcher, Watch, RecordThenCancel,
             SigGoroutine, SigWakes, SigCancels, Shutdown, ShutdownReturns
    <3>5. QED
      BY <2>1, <3>1, <3>2, <3>3, <3>4 DEF vars
  <2>2. QED
    BY <2>1, Moves DEF MainMoves, SignalMoves, DownEarly, Ending
<1>2. DownEarly /\ <<SetUp>>_vars => (main \in Ending)'
  BY DEF SetUp, Configure, Provide, Build, StartChild, Arm, Listen, DownEarly, Ending
<1>3. DownEarly => SetUpReady
  BY DEF DownEarly, SetUpReady
<1>4. QED
  BY <1>1, <1>2, <1>3, CourseHolds, PTL DEF Spec, SetUpRuns

LEMMA ServerReturns ==
    Spec /\ ListenEnds => (DownServing ~> main \in Ending \/ main \in Gone)
<1>1. Inv /\ Course /\ DownServing /\ [Next]_vars
          => DownServing' \/ (main \in Ending)' \/ (main \in Gone)'
  BY Moves DEF MainMoves, SignalMoves, DownServing, Ending
<1>2. DownServing /\ <<ListenReturns>>_vars => (main \in Ending)'
  BY DEF ListenReturns, Ending
<1>3. Inv /\ Course /\ DownServing => main = "serving" /\ ~listening
  BY DEF Course, SignalCourse, DownServing
<1>4. QED
  BY <1>1, <1>2, <1>3, CourseHolds, PTL DEF Spec, ListenEnds

LEMMA DownEnds == Spec /\ GoroutinesRun => (down ~> main \in Gone)
<1>1. Inv /\ Course /\ down => DownEarly \/ DownServing \/ main \in Ending \/ main \in Gone
  BY DEF Inv, TypeOK, Places, Course, SignalCourse, Early, DownEarly, DownServing, Ending, Gone
<1>2. QED
  BY <1>1, ListenSeesShutdown, ServerReturns, EndingEnds, CourseHolds, PTL DEF GoroutinesRun

-----------------------------------------------------------------------------
(* From the signal, or the cancelled context, to Shutdown. *)

Woken      == Up /\ sig = "waiting" /\ (signalled \/ cancelled)
Cancelling == Up /\ sig = "cancelling"
Shutting   == Up /\ sig = "shutting" /\ ~down

LEMMA SigWakesUp ==
    Spec /\ SigRuns => (Woken ~> Cancelling \/ Shutting \/ down \/ main \in Gone)
<1>1. Inv /\ Course /\ Woken /\ [Next]_vars
          => Woken' \/ Cancelling' \/ Shutting' \/ down' \/ (main \in Gone)'
  BY Moves DEF SignalMoves, Woken, Cancelling, Shutting, Up
<1>2. Woken /\ <<SigGoroutine>>_vars
          => Cancelling' \/ Shutting' \/ down' \/ (main \in Gone)'
  BY DEF SigGoroutine, SigWakes, SigCancels, Shutdown, ShutdownReturns,
         Woken, Cancelling, Shutting, Up
<1>3. Woken => SigReady
  BY DEF Woken, SigReady
<1>4. QED
  BY <1>1, <1>2, <1>3, CourseHolds, PTL DEF Spec, SigRuns

LEMMA SigCancelsSoon ==
    Spec /\ SigRuns => (Cancelling ~> Shutting \/ down \/ main \in Gone)
<1>1. Inv /\ Course /\ Cancelling /\ [Next]_vars
          => Cancelling' \/ Shutting' \/ down' \/ (main \in Gone)'
  BY Moves DEF SignalMoves, Cancelling, Shutting, Up
<1>2. Cancelling /\ <<SigGoroutine>>_vars => Shutting' \/ down' \/ (main \in Gone)'
  BY DEF SigGoroutine, SigWakes, SigCancels, Shutdown, ShutdownReturns,
         Cancelling, Shutting, Up
<1>3. Cancelling => SigReady
  BY DEF Cancelling, SigReady
<1>4. QED
  BY <1>1, <1>2, <1>3, CourseHolds, PTL DEF Spec, SigRuns

LEMMA ShutdownComes == Spec /\ SigRuns => (Shutting ~> down \/ main \in Gone)
<1>1. Inv /\ Course /\ Shutting /\ [Next]_vars => Shutting' \/ down' \/ (main \in Gone)'
  BY Moves DEF SignalMoves, Shutting, Up
<1>2. Shutting /\ <<SigGoroutine>>_vars => down'
  BY DEF SigGoroutine, SigWakes, SigCancels, Shutdown, ShutdownReturns, Shutting
<1>3. Shutting => SigReady
  BY DEF Shutting, SigReady
<1>4. QED
  BY <1>1, <1>2, <1>3, CourseHolds, PTL DEF Spec, SigRuns

LEMMA WokenEnds ==
    Spec /\ GoroutinesRun => (sig # "off" /\ (signalled \/ cancelled) ~> main \in Gone)
<1>1. Inv /\ Course /\ sig # "off" /\ (signalled \/ cancelled)
          => Woken \/ Cancelling \/ Shutting \/ down \/ main \in Gone
  BY DEF Inv, TypeOK, Course, SignalCourse, Woken, Cancelling, Shutting, Up
<1>2. QED
  BY <1>1, SigWakesUp, SigCancelsSoon, ShutdownComes, DownEnds, CourseHolds, PTL
     DEF GoroutinesRun

-----------------------------------------------------------------------------
(* From the child's death to the cancelled context: the monitor, then the  *)
(* watcher of ExitErr.                                                     *)

Unreaped  == Up /\ child = "dead" /\ monitor = "waiting"
Reaped    == Up /\ child = "dead" /\ monitor = "reaped"
Checked   == Up /\ child = "dead" /\ monitor = "checked"
Reported  == Up /\ child = "dead" /\ monitor = "done" /\ ~stopped
                /\ watch = "waiting" /\ exitErr
Recording == Up /\ child = "dead" /\ watch = "recording"
Recorded  == Up /\ child = "dead" /\ watch = "cancelling"
\* Stop has taken over, or the context is cancelled.
Taken     == child = "dead" /\ (main \in Ending \/ cancelled \/ main \in Gone)
Told      == Reported \/ Recording \/ Recorded \/ Taken

\* Where the report stands when the monitor is done.
LEMMA DoneIsTold ==
    Inv /\ Course /\ child = "dead" /\ monitor = "done" => Told
BY DEF Inv, TypeOK, Course, ReportCourse, Reported, Recording, Recorded, Taken, Told,
       Up, Ending, ChildSound

LEMMA DoneIsToldNext ==
    (Inv /\ Course /\ child = "dead" /\ monitor = "done")' => Told'
BY DoneIsTold, PTL

LEMMA ReapComes == Spec /\ MonitorRuns => (Unreaped ~> Reaped \/ Taken)
<1>1. Inv /\ Course /\ Unreaped /\ [Next]_vars => Unreaped' \/ Reaped' \/ Taken'
  BY Moves DEF ChildMoves, Unreaped, Reaped, Taken, Up
<1>2. Inv /\ Course /\ Unreaped /\ <<Monitor>>_vars => Reaped' \/ Taken'
  <2>1. Unreaped /\ <<Monitor>>_vars => monitor' = "reaped"
    BY DEF Monitor, Reap, CheckStopped, Report, Unreaped
  <2>2. QED
    BY <1>1, <2>1 DEF Next, Unreaped
<1>3. Unreaped => MonitorReady
  BY DEF Unreaped, MonitorReady
<1>4. QED
  BY <1>1, <1>2, <1>3, CourseHolds, PTL DEF Spec, MonitorRuns

LEMMA CheckComes == Spec /\ MonitorRuns => (Reaped ~> Checked \/ Told)
<1>1. Inv /\ Course /\ Reaped /\ [Next]_vars /\ (Inv /\ Course)'
          => Reaped' \/ Checked' \/ Told'
  BY Moves, DoneIsToldNext DEF ChildMoves, Reaped, Checked, Told, Taken, Up
<1>2. Inv /\ Course /\ Reaped /\ (Inv /\ Course)' /\ <<Monitor>>_vars => Checked' \/ Told'
  <2>1. Reaped /\ <<Monitor>>_vars => monitor' # "reaped"
    BY DEF Monitor, Reap, CheckStopped, Report, Reaped
  <2>2. QED
    BY <1>1, <2>1 DEF Next, Reaped
<1>3. Reaped => MonitorReady
  BY DEF Reaped, MonitorReady
<1>4. QED
  BY <1>1, <1>2, <1>3, CourseHolds, PTL DEF Spec, MonitorRuns

LEMMA ReportComes == Spec /\ MonitorRuns => (Checked ~> Told)
<1>1. Inv /\ Course /\ Checked /\ [Next]_vars /\ (Inv /\ Course)' => Checked' \/ Told'
  BY Moves, DoneIsToldNext DEF ChildMoves, Checked, Told, Taken, Up
<1>2. Inv /\ Course /\ Checked /\ (Inv /\ Course)' /\ <<Monitor>>_vars => Told'
  <2>1. Checked /\ <<Monitor>>_vars => monitor' # "checked"
    BY DEF Monitor, Reap, CheckStopped, Report, Checked
  <2>2. QED
    BY <1>1, <2>1 DEF Next, Checked
<1>3. Checked => MonitorReady
  BY DEF Checked, MonitorReady
<1>4. QED
  BY <1>1, <1>2, <1>3, CourseHolds, PTL DEF Spec, MonitorRuns

LEMMA WatchComes == Spec /\ WatcherRuns => (Reported ~> Recording \/ Taken)
<1>1. Inv /\ Course /\ Reported /\ [Next]_vars /\ (Inv /\ Course)'
          => Reported' \/ Recording' \/ Taken'
  <2>1. Inv /\ Course /\ Reported /\ [Next]_vars
            => child' = "dead" /\ monitor' = "done"
               /\ ((watch' = "waiting" /\ exitErr') \/ watch' = "recording")
    BY Moves DEF ChildMoves, Reported
  <2>2. (Inv /\ Course)' /\ child' = "dead" /\ stopped' => Taken'
    BY DEF Inv, TypeOK, ChildSound, Course, ReportCourse, Taken, Ending
  <2>3. stopped' \in BOOLEAN \/ ~Inv'
    BY DEF Inv, TypeOK, FlagsOK
  <2>4. QED
    BY <2>1, <2>2, <2>3 DEF Reported, Recording, Taken, Up
<1>2. Inv /\ Course /\ Reported /\ (Inv /\ Course)' /\ <<Watcher>>_vars
          => Recording' \/ Taken'
  <2>1. Reported /\ <<Watcher>>_vars => watch' # "waiting"
    BY DEF Watcher, Watch, RecordThenCancel, Reported
  <2>2. QED
    BY <1>1, <2>1 DEF Next, Reported
<1>3. Reported => WatcherReady
  BY DEF Reported, WatcherReady
<1>4. QED
  BY <1>1, <1>2, <1>3, CourseHolds, PTL DEF Spec, WatcherRuns

LEMMA RecordComes == Spec /\ WatcherRuns => (Recording ~> Recorded \/ Taken)
<1>1. Inv /\ Course /\ Recording /\ [Next]_vars => Recording' \/ Recorded' \/ Taken'
  BY Moves DEF ChildMoves, Recording, Recorded, Taken, Up
<1>2. Inv /\ Course /\ Recording /\ <<Watcher>>_vars => Recorded' \/ Taken'
  <2>1. Recording /\ <<Watcher>>_vars => watch' # "recording"
    BY DEF Watcher, Watch, RecordThenCancel, Recording
  <2>2. QED
    BY <1>1, <2>1 DEF Next, Recording
<1>3. Recording => WatcherReady
  BY DEF Recording, WatcherReady
<1>4. QED
  BY <1>1, <1>2, <1>3, CourseHolds, PTL DEF Spec, WatcherRuns

LEMMA CancelComes == Spec /\ WatcherRuns => (Recorded ~> Taken)
<1>1. Inv /\ Course /\ Recorded /\ [Next]_vars /\ (Inv /\ Course)' => Recorded' \/ Taken'
  BY Moves DEF ChildMoves, Recorded, Taken, Up, Course, ReportCourse
<1>2. Inv /\ Course /\ Recorded /\ (Inv /\ Course)' /\ <<Watcher>>_vars => Taken'
  <2>1. Recorded /\ <<Watcher>>_vars => watch' # "cancelling"
    BY DEF Watcher, Watch, RecordThenCancel, Recorded
  <2>2. QED
    BY <1>1, <2>1 DEF Next, Recorded
<1>3. Recorded => WatcherReady
  BY DEF Recorded, WatcherReady
<1>4. QED
  BY <1>1, <1>2, <1>3, CourseHolds, PTL DEF Spec, WatcherRuns

\* A context that is cancelled before the signals are caught waits for that.
Unarmed == main = "arm" /\ cancelled

LEMMA ArmComes ==
    Spec /\ SetUpRuns => (Unarmed ~> (sig # "off" /\ cancelled) \/ main \in Gone)
<1>1. Inv /\ Course /\ Unarmed /\ [Next]_vars /\ (Inv /\ Course)'
          => Unarmed' \/ (sig # "off" /\ cancelled)' \/ (main \in Gone)'
  BY Moves DEF MainMoves, SignalMoves, Unarmed, Inv, Armed
<1>2. Unarmed /\ <<SetUp>>_vars => (sig # "off" /\ cancelled)'
  BY DEF SetUp, Configure, Provide, Build, StartChild, Arm, Listen, Unarmed
<1>3. Unarmed => SetUpReady
  BY DEF Unarmed, SetUpReady
<1>4. QED
  BY <1>1, <1>2, <1>3, CourseHolds, PTL DEF Spec, SetUpRuns

LEMMA TakenEnds == Spec /\ GoroutinesRun => (Taken ~> main \in Gone)
<1>1. Inv /\ Course /\ Taken
          => main \in Ending \/ main \in Gone \/ Unarmed \/ (sig # "off" /\ cancelled)
  <2>1. Inv /\ child = "dead"
            => main \in {"arm", "listen", "serving"} \cup Ending \cup Gone
    <3>1. Inv => main \in Places /\ (main \in {"load", "provide", "build", "start"}
                                      => child = "none")
      BY DEF Inv, TypeOK, ChildSound
    <3>2. QED
      BY <3>1 DEF Places, Ending, Gone
  <2>2. Inv /\ main \in {"listen", "serving"} => sig # "off"
    BY DEF Inv, Armed
  <2>3. QED
    BY <2>1, <2>2 DEF Taken, Unarmed
<1>2. QED
  BY <1>1, EndingEnds, ArmComes, WokenEnds, CourseHolds, PTL DEF GoroutinesRun

LEMMA DeathEnds == Spec /\ GoroutinesRun => (child = "dead" ~> main \in Gone)
<1>1. Inv /\ Course /\ child = "dead"
          => Unreaped \/ Reaped \/ Checked \/ Told \/ main \in Gone
  BY DoneIsTold DEF Inv, TypeOK, Course, ReportCourse, Unreaped, Reaped, Checked, Up
<1>2. Told => Reported \/ Recording \/ Recorded \/ Taken
  BY DEF Told
<1>3. QED
  BY <1>1, <1>2, ReapComes, CheckComes, ReportComes, WatchComes, RecordComes, CancelComes,
     TakenEnds, CourseHolds, PTL DEF GoroutinesRun

-----------------------------------------------------------------------------
(* The theorems *)

\* Once a signal came, or the subprocess died, or the server or the set-up
\* failed, the process ends, if only each goroutine goes on where the code lets
\* it: the handlers and the child may do whatever they like.
THEOREM EndsIfTheyRun == Spec /\ GoroutinesRun => EndsAfterAll
<1>1. Inv /\ Course /\ signalled => (sig # "off" /\ (signalled \/ cancelled)) \/ main \in Gone
  BY DEF Course, SignalCourse
<1>2. Spec /\ GoroutinesRun => (signalled ~> main \in Gone)
  BY <1>1, WokenEnds, CourseHolds, PTL
<1>3. Inv /\ Course /\ (main = "failed" \/ result = "setup")
          => main \in Ending \/ main \in Gone
  BY DEF Course, SignalCourse, Ending
<1>4. Spec /\ GoroutinesRun => (main = "failed" \/ result = "setup" ~> main \in Gone)
  BY <1>3, EndingEnds, CourseHolds, PTL
<1>5. QED
  BY <1>2, <1>4, DeathEnds, PTL DEF EndsAfterAll

\* The fairness of the specification is that the goroutines run.
LEMMA FairGoroutinesRun == Fairness /\ []NeverHeldUp => GoroutinesRun
<1>1. NeverHeldUp =>
          /\ SigReady => ENABLED <<SigGoroutine>>_vars
          /\ MonitorReady => ENABLED <<Monitor>>_vars
          /\ WatcherReady => ENABLED <<Watcher>>_vars
          /\ SetUpReady => ENABLED <<SetUp>>_vars
          /\ main = "serving" /\ ~listening => ENABLED <<ListenReturns>>_vars
          /\ main \in {"closed", "failed"} => ENABLED <<Verdict>>_vars
  BY DEF NeverHeldUp
<1>2. NeverHeldUp =>
          /\ main = "stop" => ENABLED <<StopFlag>>_vars
          /\ main = "stopping" => ENABLED <<StopStdin>>_vars
          /\ main = "stopwait" /\ child = "alive" => ENABLED <<StopKills>>_vars
          /\ main = "stopwait" /\ monitor # "waiting" => ENABLED <<StopReturns>>_vars
          /\ main = "flush" => ENABLED <<Flush>>_vars
          /\ main = "return" => ENABLED <<Exit>>_vars
  BY DEF NeverHeldUp
<1>3. QED
  BY <1>1, <1>2, PTL
     DEF Fairness, GoroutinesRun, SigRuns, MonitorRuns, WatcherRuns, SetUpRuns, ListenEnds,
         VerdictRuns, StopFlagRuns, StopStdinRuns, KillRuns, StopEnds, FlushRuns, ExitRuns

\* So the process ends under the fairness that TLC assumes, given what ENABLED
\* says of the actions.
THEOREM EndsUnderFairness == FairSpec /\ []NeverHeldUp => EndsAfterAll
BY EndsIfTheyRun, FairGoroutinesRun, PTL DEF FairSpec
=============================================================================
