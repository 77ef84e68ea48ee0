---------------------------- MODULE ServeProofs ----------------------------
(***************************************************************************)
(* What Serve promises of the end of the process, proved for any number of *)
(* calls and of users.  One inductive invariant carries the properties: it *)
(* says which flag vouches for which goroutine.                            *)
(***************************************************************************)
EXTENDS Serve, ConfigProofs, TLAPS

\* The monitor and the child: an exit is seen once, and only where there is
\* a subprocess.
ChildSound ==
    /\ child = "alive" => monitor = "waiting" /\ cause = "none"
    /\ child = "none" => monitor = "off" /\ cause = "none"
    /\ main \in {"load", "provide", "build", "start"} => child = "none"
    /\ child # "none" \/ main = "start" => transport = "stdio"

\* An exit that was not yet looked at is not yet reported.
ReportOnce ==
    monitor \in {"off", "waiting", "reaped"} =>
        ~exitErr /\ ~subErr /\ watch \in {"off", "waiting"}

\* Stop sets its flag before it closes the stdin, and before it kills.
FlagFirst ==
    /\ main \in {"stopping", "stopwait"} => stopped
    /\ ~stdin => stopped \/ main = "killed"

\* What Stop brought about is under its flag, and no report is on its way.
OwnDoing == cause \in {"stdin", "kill"} =>
                /\ stopped \/ main = "killed"
                /\ watch \in {"off", "waiting"}
                /\ ~exitErr /\ ~subErr /\ monitor # "checked"

\* The server is taken down only with a signal or with the error recorded.
Grounds == signalled \/ subErr
Grounded ==
    /\ sig = "cancelling" => signalled
    /\ watch \in {"cancelling", "done"} => subErr
    /\ sig \notin {"off", "waiting"} => Grounds
    /\ cancelled /\ Up => Grounds
    /\ down => Grounds
    /\ ~listening /\ main = "serving" => Grounds
    /\ main = "closed" => Grounds

\* main has caught the signals before it listens, ...
Armed ==
    /\ main \in {"listen", "serving", "failed", "closed", "stop", "stopping", "stopwait"}
           => sig # "off"
    /\ main = "killed" => sig = "off"
    /\ sig = "off" => ~listening /\ \A c \in Calls : call[c] = "none"

\* ... and has its provider, which it leaves only with the batch flushed.
Traced ==
    /\ main \in {"load", "provide"} => provider = "off"
    /\ main \notin {"load", "provide", "return"} \cup Gone => provider \in {"working", "failing"}
    /\ main \in {"return", "exited"} => provider \in {"off", "closed"}
    /\ provider = "off" => sig = "off"
    /\ provider = "closed" => \A c \in Calls : call[c] # "ended"

Inv == /\ TypeOK /\ ChildSound /\ ReportOnce /\ FlagFirst /\ OwnDoing
       /\ Grounded /\ NilMeansSignalled /\ NoOrphan /\ Armed /\ Traced

LEMMA Start == Init => Inv
BY UsersAssumption
   DEF Init, Inv, TypeOK, Places, FlagsOK, ChildSound, ReportOnce, FlagFirst, OwnDoing, Grounded, Grounds,
       NilMeansSignalled, NoOrphan, Armed, Traced, Up, Gone

LEMMA LoadValid ==
    ASSUME NEW u, Load(u) # Invalid
    PROVE  Load(u).transport \in Transports
BY DEF Load, Invalid, Transports

\* Flags stay flags, ...
LEMMA FlagsStep ==
    ASSUME FlagsOK, [Next]_vars
    PROVE  FlagsOK'
<1> USE DEF FlagsOK, Up, Gone, confVars, signalVars, netVars, childVars
<1>1. ASSUME NEW c \in Calls, Accept(c) \/ Open(c) \/ End(c) PROVE FlagsOK'
  BY <1>1 DEF Accept, Open, End
<1>2. CASE Export \/ Signal
  BY <1>2 DEF Export, Signal
<1>3. CASE ChildDies
  BY <1>3 DEF ChildDies, Dies
<1>4. CASE SigGoroutine
  BY <1>4 DEF SigGoroutine, SigWakes, SigCancels, Shutdown, ShutdownReturns
<1>5. CASE Monitor
  BY <1>5 DEF Monitor, Reap, CheckStopped, Report
<1>6. CASE Watcher
  BY <1>6 DEF Watcher, Watch, RecordThenCancel
<1>7. CASE Main
  <2>1. CASE ListenFails \/ ListenReturns \/ Verdict
    BY <2>1 DEF ListenFails, ListenReturns, Verdict
  <2>2. CASE StopFlag \/ StopStdin
    BY <2>2 DEF StopFlag, StopStdin
  <2>3. CASE StopKills \/ StopReturns
    BY <2>3 DEF StopKills, StopReturns, Dies
  <2>4. CASE Flush \/ Exit
    BY <2>4 DEF Flush, Exit
  <2>5. QED
    BY <1>7, <2>1, <2>2, <2>3, <2>4 DEF Main
<1>8. CASE SetUp
  <2>1. CASE Configure
    BY <2>1 DEF Configure
  <2>2. CASE Provide
    BY <2>2 DEF Provide
  <2>3. CASE Build \/ StartChild
    BY <2>3 DEF Build, StartChild
  <2>4. CASE Arm \/ Listen
    BY <2>4 DEF Arm, Listen
  <2>5. QED
    BY <1>8, <2>1, <2>2, <2>3, <2>4 DEF SetUp
<1>9. CASE UNCHANGED vars
  BY <1>9 DEF vars
<1>10. QED
  BY <1>1, <1>2, <1>3, <1>4, <1>5, <1>6, <1>7, <1>8, <1>9 DEF Next

\* ... and the rest keeps its type.
LEMMA TypeStep ==
    ASSUME TypeOK, FlagsOK', [Next]_vars
    PROVE  TypeOK'
<1> USE DEF TypeOK, Places, Up, Gone, confVars, signalVars, netVars, childVars
<1>1. ASSUME NEW c \in Calls, Accept(c) \/ Open(c) \/ End(c) PROVE TypeOK'
  BY <1>1 DEF Accept, Open, End
<1>2. CASE Export \/ Signal
  BY <1>2 DEF Export, Exported, Signal
<1>3. CASE ChildDies
  BY <1>3 DEF ChildDies, Dies
<1>4. CASE SigGoroutine
  BY <1>4 DEF SigGoroutine, SigWakes, SigCancels, Shutdown, ShutdownReturns
<1>5. CASE Monitor
  BY <1>5 DEF Monitor, Reap, CheckStopped, Report
<1>6. CASE Watcher
  BY <1>6 DEF Watcher, Watch, RecordThenCancel
<1>7. CASE Main
  <2>1. CASE ListenFails \/ ListenReturns \/ Verdict
    BY <2>1 DEF ListenFails, ListenReturns, Verdict
  <2>2. CASE StopFlag \/ StopStdin
    BY <2>2 DEF StopFlag, StopStdin
  <2>3. CASE StopKills \/ StopReturns
    BY <2>3 DEF StopKills, StopReturns, Dies
  <2>4. CASE Flush \/ Exit
    BY <2>4 DEF Flush, Exported, Exit
  <2>5. QED
    BY <1>7, <2>1, <2>2, <2>3, <2>4 DEF Main
<1>8. CASE SetUp
  <2>1. CASE Configure
    BY <2>1, LoadValid DEF Configure
  <2>2. CASE Provide
    BY <2>2 DEF Provide
  <2>3. CASE Build \/ StartChild
    BY <2>3 DEF Build, StartChild
  <2>4. CASE Arm \/ Listen
    BY <2>4 DEF Arm, Listen
  <2>5. QED
    BY <1>8, <2>1, <2>2, <2>3, <2>4 DEF SetUp
<1>9. CASE UNCHANGED vars
  BY <1>9 DEF vars
<1>10. QED
  BY <1>1, <1>2, <1>3, <1>4, <1>5, <1>6, <1>7, <1>8, <1>9 DEF Next

\* An exit is reported at most once, and Stop's flag comes before what Stop does.
LEMMA ReportStep ==
    ASSUME TypeOK, ChildSound, ReportOnce, FlagFirst, OwnDoing, [Next]_vars
    PROVE  ChildSound' /\ ReportOnce' /\ FlagFirst' /\ OwnDoing'
<1> USE DEF TypeOK, FlagsOK, ChildSound, ReportOnce, FlagFirst, OwnDoing, Up, Gone, confVars, signalVars, netVars, childVars
<1>1. ASSUME NEW c \in Calls, Accept(c) \/ Open(c) \/ End(c) PROVE ChildSound' /\ ReportOnce' /\ FlagFirst' /\ OwnDoing'
  BY <1>1 DEF Accept, Open, End
<1>2. CASE Export \/ Signal
  BY <1>2 DEF Export, Signal
<1>3. CASE ChildDies
  BY <1>3 DEF ChildDies, Dies
<1>4. CASE SigGoroutine
  BY <1>4 DEF SigGoroutine, SigWakes, SigCancels, Shutdown, ShutdownReturns
<1>5. CASE Monitor
  BY <1>5 DEF Monitor, Reap, CheckStopped, Report
<1>6. CASE Watcher
  BY <1>6 DEF Watcher, Watch, RecordThenCancel
<1>7. CASE Main
  <2>1. CASE ListenFails \/ ListenReturns \/ Verdict
    BY <2>1 DEF ListenFails, ListenReturns, Verdict
  <2>2. CASE StopFlag \/ StopStdin
    BY <2>2 DEF StopFlag, StopStdin
  <2>3. CASE StopKills \/ StopReturns
    BY <2>3 DEF StopKills, StopReturns, Dies
  <2>4. CASE Flush \/ Exit
    BY <2>4 DEF Flush, Exit
  <2>5. QED
    BY <1>7, <2>1, <2>2, <2>3, <2>4 DEF Main
<1>8. CASE SetUp
  <2>1. CASE Configure
    BY <2>1 DEF Configure
  <2>2. CASE Provide
    BY <2>2 DEF Provide
  <2>3. CASE Build \/ StartChild
    BY <2>3 DEF Build, StartChild
  <2>4. CASE Arm \/ Listen
    BY <2>4 DEF Arm, Listen
  <2>5. QED
    BY <1>8, <2>1, <2>2, <2>3, <2>4 DEF SetUp
<1>9. CASE UNCHANGED vars
  BY <1>9 DEF vars
<1>10. QED
  BY <1>1, <1>2, <1>3, <1>4, <1>5, <1>6, <1>7, <1>8, <1>9 DEF Next

\* Nothing is taken down without a ground for it, and nil needs a signal.
LEMMA GroundStep ==
    ASSUME TypeOK, Grounded, NilMeansSignalled, [Next]_vars
    PROVE  Grounded' /\ NilMeansSignalled'
<1> USE DEF TypeOK, FlagsOK, Grounded, Grounds, NilMeansSignalled, Up, Gone, confVars, signalVars, netVars, childVars
<1>1. ASSUME NEW c \in Calls, Accept(c) \/ Open(c) \/ End(c) PROVE Grounded' /\ NilMeansSignalled'
  BY <1>1 DEF Accept, Open, End
<1>2. CASE Export \/ Signal
  BY <1>2 DEF Export, Signal
<1>3. CASE ChildDies
  BY <1>3 DEF ChildDies, Dies
<1>4. CASE SigGoroutine
  BY <1>4 DEF SigGoroutine, SigWakes, SigCancels, Shutdown, ShutdownReturns
<1>5. CASE Monitor
  BY <1>5 DEF Monitor, Reap, CheckStopped, Report
<1>6. CASE Watcher
  BY <1>6 DEF Watcher, Watch, RecordThenCancel
<1>7. CASE Main
  <2>1. CASE ListenFails \/ ListenReturns \/ Verdict
    BY <2>1 DEF ListenFails, ListenReturns, Verdict
  <2>2. CASE StopFlag \/ StopStdin
    BY <2>2 DEF StopFlag, StopStdin
  <2>3. CASE StopKills \/ StopReturns
    BY <2>3 DEF StopKills, StopReturns, Dies
  <2>4. CASE Flush \/ Exit
    BY <2>4 DEF Flush, Exit
  <2>5. QED
    BY <1>7, <2>1, <2>2, <2>3, <2>4 DEF Main
<1>8. CASE SetUp
  <2>1. CASE Configure
    BY <2>1 DEF Configure
  <2>2. CASE Provide
    BY <2>2 DEF Provide
  <2>3. CASE Build \/ StartChild
    BY <2>3 DEF Build, StartChild
  <2>4. CASE Arm \/ Listen
    <3>1. CASE Arm
      BY <2>4, <3>1 DEF Arm
    <3>2. CASE Listen /\ down
      BY <3>2 DEF Listen
    <3>3. CASE Listen /\ ~down
      BY <3>3 DEF Listen
    <3>4. QED
      BY <2>4, <3>1, <3>2, <3>3
  <2>5. QED
    BY <1>8, <2>1, <2>2, <2>3, <2>4 DEF SetUp
<1>9. CASE UNCHANGED vars
  BY <1>9 DEF vars
<1>10. QED
  BY <1>1, <1>2, <1>3, <1>4, <1>5, <1>6, <1>7, <1>8, <1>9 DEF Next

\* main gets past Stop only when the subprocess is dead and reaped.
LEMMA ReapStep ==
    ASSUME TypeOK, ChildSound, NoOrphan, [Next]_vars
    PROVE  NoOrphan'
<1> USE DEF TypeOK, ChildSound, NoOrphan, Up, Gone, confVars, signalVars, netVars, childVars
<1>1. ASSUME NEW c \in Calls, Accept(c) \/ Open(c) \/ End(c) PROVE NoOrphan'
  BY <1>1 DEF Accept, Open, End
<1>2. CASE Export \/ Signal
  BY <1>2 DEF Export, Signal
<1>3. CASE ChildDies
  BY <1>3 DEF ChildDies, Dies
<1>4. CASE SigGoroutine
  BY <1>4 DEF SigGoroutine, SigWakes, SigCancels, Shutdown, ShutdownReturns
<1>5. CASE Monitor
  BY <1>5 DEF Monitor, Reap, CheckStopped, Report
<1>6. CASE Watcher
  BY <1>6 DEF Watcher, Watch, RecordThenCancel
<1>7. CASE Main
  <2>1. CASE ListenFails \/ ListenReturns \/ Verdict
    BY <2>1 DEF ListenFails, ListenReturns, Verdict
  <2>2. CASE StopFlag \/ StopStdin
    BY <2>2 DEF StopFlag, StopStdin
  <2>3. CASE StopKills \/ StopReturns
    BY <2>3 DEF StopKills, StopReturns, Dies
  <2>4. CASE Flush \/ Exit
    BY <2>4 DEF Flush, Exit
  <2>5. QED
    BY <1>7, <2>1, <2>2, <2>3, <2>4 DEF Main
<1>8. CASE SetUp
  <2>1. CASE Configure
    BY <2>1 DEF Configure
  <2>2. CASE Provide
    BY <2>2 DEF Provide
  <2>3. CASE Build \/ StartChild
    BY <2>3 DEF Build, StartChild
  <2>4. CASE Arm \/ Listen
    BY <2>4 DEF Arm, Listen
  <2>5. QED
    BY <1>8, <2>1, <2>2, <2>3, <2>4 DEF SetUp
<1>9. CASE UNCHANGED vars
  BY <1>9 DEF vars
<1>10. QED
  BY <1>1, <1>2, <1>3, <1>4, <1>5, <1>6, <1>7, <1>8, <1>9 DEF Next

\* Nothing is listened to, and no call runs, before the signals are caught.
LEMMA ArmStep ==
    ASSUME TypeOK, Armed, Grounded, [Next]_vars
    PROVE  Armed'
<1> USE DEF TypeOK, FlagsOK, Armed, Places, Up, Gone, confVars, signalVars, netVars, childVars
<1>1. ASSUME NEW c \in Calls, Accept(c) \/ Open(c) \/ End(c) PROVE Armed'
  BY <1>1 DEF Accept, Open, End
<1>2. CASE Export
  BY <1>2 DEF Export, Exported
<1>3. CASE Signal
  <2>1. CASE sig = "off"
    BY <1>3, <2>1 DEF Signal
  <2>2. CASE sig # "off"
    BY <1>3, <2>2 DEF Signal
  <2>3. QED
    BY <2>1, <2>2
<1>4. CASE ChildDies \/ SigGoroutine
  BY <1>4 DEF ChildDies, Dies, SigGoroutine, SigWakes, SigCancels, Shutdown, ShutdownReturns
<1>5. CASE Monitor
  BY <1>5 DEF Monitor, Reap, CheckStopped, Report
<1>6. CASE Watcher
  BY <1>6 DEF Watcher, Watch, RecordThenCancel
<1>7. CASE SetUp
  <2>1. CASE Configure \/ Provide
    BY <2>1 DEF Configure, Provide
  <2>2. CASE Build \/ StartChild
    BY <2>2 DEF Build, StartChild
  <2>3. CASE Arm \/ Listen
    BY <2>3 DEF Arm, Listen
  <2>4. QED
    BY <1>7, <2>1, <2>2, <2>3 DEF SetUp
<1>8. CASE Main
  <2>1. CASE ListenFails \/ ListenReturns \/ Verdict
    BY <2>1 DEF ListenFails, ListenReturns, Verdict
  <2>2. CASE StopFlag \/ StopStdin
    BY <2>2 DEF StopFlag, StopStdin
  <2>3. CASE StopKills \/ StopReturns
    BY <2>3 DEF StopKills, StopReturns, Dies
  <2>4. CASE Flush
    BY <2>4 DEF Flush, Exported
  <2>5. CASE Exit
    BY <2>5 DEF Exit
  <2>6. QED
    BY <1>8, <2>1, <2>2, <2>3, <2>4, <2>5 DEF Main
<1>9. CASE UNCHANGED vars
  BY <1>9 DEF vars
<1>10. QED
  BY <1>1, <1>2, <1>3, <1>4, <1>5, <1>6, <1>7, <1>8, <1>9 DEF Next

\* The provider is up from before the first call until its batch is flushed.
LEMMA TraceStep ==
    ASSUME TypeOK, Armed, Traced, [Next]_vars
    PROVE  Traced'
<1> USE DEF TypeOK, FlagsOK, Places, Armed, Traced, Up, Gone, confVars, signalVars, netVars, childVars
<1>1. ASSUME NEW c \in Calls, Accept(c) \/ Open(c) \/ End(c) PROVE Traced'
  BY <1>1 DEF Accept, Open, End
<1>2. CASE Export
  BY <1>2 DEF Export, Exported
<1>3. CASE Signal
  <2>1. CASE sig = "off"
    BY <1>3, <2>1 DEF Signal
  <2>2. CASE sig # "off"
    BY <1>3, <2>2 DEF Signal
  <2>3. QED
    BY <2>1, <2>2
<1>4. CASE ChildDies \/ SigGoroutine
  BY <1>4 DEF ChildDies, Dies, SigGoroutine, SigWakes, SigCancels, Shutdown, ShutdownReturns
<1>5. CASE Monitor
  BY <1>5 DEF Monitor, Reap, CheckStopped, Report
<1>6. CASE Watcher
  BY <1>6 DEF Watcher, Watch, RecordThenCancel
<1>7. CASE SetUp
  <2>1. CASE Configure \/ Provide
    BY <2>1 DEF Configure, Provide
  <2>2. CASE Build \/ StartChild
    BY <2>2 DEF Build, StartChild
  <2>3. CASE Arm \/ Listen
    BY <2>3 DEF Arm, Listen
  <2>4. QED
    BY <1>7, <2>1, <2>2, <2>3 DEF SetUp
<1>8. CASE Main
  <2>1. CASE ListenFails \/ ListenReturns \/ Verdict
    BY <2>1 DEF ListenFails, ListenReturns, Verdict
  <2>2. CASE StopFlag \/ StopStdin
    BY <2>2 DEF StopFlag, StopStdin
  <2>3. CASE StopKills \/ StopReturns
    BY <2>3 DEF StopKills, StopReturns, Dies
  <2>4. CASE Flush
    BY <2>4 DEF Flush, Exported
  <2>5. CASE Exit
    BY <2>5 DEF Exit
  <2>6. QED
    BY <1>8, <2>1, <2>2, <2>3, <2>4, <2>5 DEF Main
<1>9. CASE UNCHANGED vars
  BY <1>9 DEF vars
<1>10. QED
  BY <1>1, <1>2, <1>3, <1>4, <1>5, <1>6, <1>7, <1>8, <1>9 DEF Next

LEMMA Step == Inv /\ [Next]_vars => Inv'
BY FlagsStep, TypeStep, ReportStep, GroundStep, ReapStep, ArmStep, TraceStep DEF Inv, TypeOK

THEOREM Invariance == Spec => []Inv
BY Start, Step, PTL DEF Spec

\* Every variable keeps its type.
THEOREM TypeCorrect == Spec => []TypeOK
<1>1. Inv => TypeOK
  BY DEF Inv
<1>2. QED
  BY <1>1, Invariance, PTL

\* No exit that Stop brought about is reported as unexpected.
THEOREM StopsQuietly == Spec => []StopNotReported
<1>1. Inv => StopNotReported
  BY DEF Inv, OwnDoing, StopNotReported
<1>2. QED
  BY <1>1, Invariance, PTL

\* The context kills the child only after a signal, for the watcher cancels it
\* for a child that is dead already; and only the watcher's record makes serve
\* blame the child.
KilledOnSignal ==
    /\ cause = "context" => signalled
    /\ child = "dead" => cause # "none"
    /\ subErr => child = "dead"
    /\ result = "died" => subErr

LEMMA BlameStep ==
    ASSUME Inv, KilledOnSignal, [Next]_vars
    PROVE  KilledOnSignal'
<1> USE DEF KilledOnSignal, Up, confVars, signalVars, netVars, childVars
<1>1. ASSUME NEW c \in Calls, Accept(c) \/ Open(c) \/ End(c) PROVE KilledOnSignal'
  BY <1>1 DEF Accept, Open, End
<1>2. CASE Export \/ Signal
  BY <1>2 DEF Export, Signal
<1>3. CASE ChildDies
  <2>1. Up /\ cancelled /\ child = "alive" => signalled
    BY DEF Inv, Grounded, Grounds
  <2>2. QED
    BY <1>3, <2>1 DEF ChildDies, Dies
<1>4. CASE SigGoroutine
  BY <1>4 DEF SigGoroutine, SigWakes, SigCancels, Shutdown, ShutdownReturns
<1>5. CASE Monitor
  BY <1>5 DEF Monitor, Reap, CheckStopped, Report
<1>6. CASE Watcher
  <2>1. watch = "recording" => child = "dead"
    BY DEF Inv, TypeOK, ChildSound, ReportOnce
  <2>2. QED
    BY <1>6, <2>1 DEF Watcher, Watch, RecordThenCancel
<1>7. CASE Main
  BY <1>7 DEF Main, ListenFails, ListenReturns, Verdict, StopFlag, StopStdin, StopKills,
              StopReturns, Dies, Flush, Exit
<1>8. CASE SetUp
  <2>1. main = "start" => ~subErr
    BY DEF Inv, ChildSound
  <2>2. QED
    BY <1>8, <2>1 DEF SetUp, Configure, Provide, Build, StartChild, Arm, Listen
<1>9. CASE UNCHANGED vars
  BY <1>9 DEF vars
<1>10. QED
  BY <1>1, <1>2, <1>3, <1>4, <1>5, <1>6, <1>7, <1>8, <1>9 DEF Next

\* Without a signal the subprocess is blamed only for a death of its own.
THEOREM BlamedRightly == Spec => []DiedOfItsOwn
<1>1. Init => KilledOnSignal
  BY DEF Init, KilledOnSignal
<1>2. Inv /\ KilledOnSignal /\ [Next]_vars => KilledOnSignal'
  BY BlameStep
<1>3. Inv /\ KilledOnSignal => DiedOfItsOwn
  BY DEF Inv, TypeOK, OwnDoing, KilledOnSignal, DiedOfItsOwn
<1>4. QED
  BY <1>1, <1>2, <1>3, Invariance, PTL DEF Spec

\* serve returns nil only after a signal.
THEOREM DeathNotSwallowed == Spec => []NilMeansSignalled
<1>1. Inv => NilMeansSignalled
  BY DEF Inv
<1>2. QED
  BY <1>1, Invariance, PTL

\* The subprocess is dead and reaped once main is past Stop.
THEOREM ChildReaped == Spec => []NoOrphan
<1>1. Inv => NoOrphan
  BY DEF Inv
<1>2. QED
  BY <1>1, Invariance, PTL

\* A signal that kills the process takes no call with it.
THEOREM NoCallKilled == Spec => []KillsNoCall
<1>1. Inv => KillsNoCall
  BY DEF Inv, Armed, KillsNoCall
<1>2. QED
  BY <1>1, Invariance, PTL

\* A span that has ended is dropped only by its collector.
THEOREM EndedSpansKept == Spec => EndedIsExported
<1> DEFINE Kept == \A c \in Calls : call[c] = "ended" /\ call'[c] # "ended" =>
                       call'[c] = "exported" \/ provider = "failing"
<1>1. ASSUME Inv, [Next]_vars PROVE [Kept]_call
  <2> USE <1>1 DEF Inv, TypeOK, Traced, Armed, Kept
  <2>1. ASSUME NEW c \in Calls, Accept(c) \/ Open(c) \/ End(c) PROVE Kept
    BY <2>1 DEF Accept, Open, End
  <2>2. CASE Export \/ Flush
    BY <2>2 DEF Export, Flush, Exported, Places
  <2>3. CASE Signal
    BY <2>3 DEF Signal
  <2>4. CASE Exit
    BY <2>4 DEF Exit
  <2>5. CASE UNCHANGED call
    BY <2>5
  <2>6. ChildDies \/ SigGoroutine \/ Monitor \/ Watcher => UNCHANGED call
    BY DEF ChildDies, SigGoroutine, SigWakes, SigCancels, Shutdown, ShutdownReturns,
           Monitor, Reap, CheckStopped, Report, Watcher, Watch, RecordThenCancel
  <2>7. SetUp => UNCHANGED call
    BY DEF SetUp, Configure, Provide, Build, StartChild, Arm, Listen
  <2>8. Main => Flush \/ Exit \/ UNCHANGED call
    BY DEF Main, ListenFails, ListenReturns, Verdict, StopFlag, StopStdin, StopKills, StopReturns
  <2>9. QED
    BY <2>1, <2>2, <2>3, <2>4, <2>5, <2>6, <2>7, <2>8 DEF Next, vars
<1>2. QED
  BY <1>1, Invariance, PTL DEF Spec, EndedIsExported

\* There is one user, who is forgotten when the configuration is loaded.
Settled == /\ \A u, v \in settings : u = v
           /\ main \notin {"load", "killed"} => settings = {}

LEMMA Settles ==
    ASSUME TypeOK, Settled, [Next]_vars
    PROVE  /\ Settled'
           /\ main' = "provide" /\ settings # {} => Configure
<1> USE DEF Settled, confVars, Gone, Up
<1>1. ASSUME UNCHANGED <<settings, main>> PROVE Settled' /\ (main' # "provide" \/ settings = {})
  BY <1>1
<1>2. CASE Configure
  BY <1>2 DEF Configure
<1>3. ASSUME NEW c \in Calls, Accept(c) \/ Open(c) \/ End(c) PROVE UNCHANGED <<settings, main>>
  BY <1>3 DEF Accept, Open, End
<1>4. Export \/ ChildDies \/ SigGoroutine \/ Monitor \/ Watcher => UNCHANGED <<settings, main>>
  BY DEF Export, ChildDies, SigGoroutine, SigWakes, SigCancels, Shutdown, ShutdownReturns,
         Monitor, Reap, CheckStopped, Report, Watcher, Watch, RecordThenCancel
<1>5. Signal => UNCHANGED settings /\ (main' = "killed" \/ UNCHANGED main)
  BY DEF Signal
<1>6. Provide \/ Build \/ StartChild \/ Arm \/ Listen => UNCHANGED settings /\ settings = {}
                                                        /\ main' # "load"
  BY DEF Provide, Build, StartChild, Arm, Listen
<1>7. Main => UNCHANGED settings /\ settings = {} /\ main' # "load"
  BY DEF Main, ListenFails, ListenReturns, Verdict, StopFlag, StopStdin, StopKills, StopReturns,
         Flush, Exit
<1>8. QED
  BY <1>1, <1>2, <1>3, <1>4, <1>5, <1>6, <1>7 DEF Next, SetUp, vars

\* serve runs the transport, with the target, command and arguments, that the
\* documented precedence promises its user, up to the two exceptions.
THEOREM UserServed == Spec => ConfigHonoured
<1>1. Init => Settled
  BY DEF Init, Settled
<1>2. TypeOK /\ Settled /\ [Next]_vars => Settled'
  BY Settles
<1>3. ASSUME TypeOK, Settled, [Next]_vars, NEW u \in settings, main' = "provide"
      PROVE  Honoured(u, transport')
  <2>1. Configure /\ u \in User
    BY <1>3, Settles DEF TypeOK
  <2>2. PICK v \in settings : /\ transport' = IF Load(v) = Invalid THEN transport ELSE Load(v).transport
                              /\ main' = IF Load(v) = Invalid THEN "return" ELSE "provide"
    BY <2>1 DEF Configure
  <2>3. u = v
    BY <1>3 DEF Settled
  <2>4. QED
    BY <1>3, <2>1, <2>2, <2>3, LoadHonours
<1>4. TypeOK /\ Settled /\ [Next]_vars
          => [\A u \in settings : main' = "provide" => Honoured(u, transport')]_vars
  BY <1>3
<1>5. QED
  BY <1>1, <1>2, <1>4, TypeCorrect, PTL DEF Spec, ConfigHonoured
-----------------------------------------------------------------------------
(* What a call in flight, and the proxy of the subprocess, see of the end *)

SettingUp == {"load", "provide", "build", "start"}

\* Nothing is called off before the subprocess has started, and Stop's flag is
\* raised only where the signals are caught.
NotCalledOff ==
    /\ main \in SettingUp \cup {"arm"} => sig = "off"
    /\ main \in SettingUp => ~cancelled
    /\ stopped => sig # "off"

\* The listener is open only while main serves, and main leaves it only when it
\* was shut down, or when it failed.
Shut ==
    /\ listening => main = "serving"
    /\ (main = "serving" /\ ~listening) \/ main = "closed" => down
    /\ main \in {"stop", "stopping", "stopwait", "flush", "return", "exited"} /\ sig # "off"
           => down \/ result \in {"server", "died"}

LEMMA OrderlyEndStep ==
    ASSUME Inv, NotCalledOff, Shut, [Next]_vars
    PROVE  NotCalledOff' /\ Shut'
<1> USE DEF NotCalledOff, Shut, SettingUp, Up, Gone, confVars, signalVars, netVars, childVars
<1>0. TypeOK /\ ChildSound /\ ReportOnce /\ Armed
  BY DEF Inv
<1>1. ASSUME NEW c \in Calls, Accept(c) \/ Open(c) \/ End(c) PROVE NotCalledOff' /\ Shut'
  BY <1>1 DEF Accept, Open, End
<1>2. CASE Export
  BY <1>2 DEF Export
<1>3. CASE Signal
  <2>1. CASE sig = "off"
    BY <1>3, <2>1 DEF Signal
  <2>2. CASE sig # "off"
    BY <1>3, <2>2 DEF Signal
  <2>3. QED
    BY <2>1, <2>2
<1>4. CASE ChildDies \/ Monitor
  BY <1>4 DEF ChildDies, Dies, Monitor, Reap, CheckStopped, Report
<1>5. CASE SigGoroutine
  BY <1>5 DEF SigGoroutine, SigWakes, SigCancels, Shutdown, ShutdownReturns
<1>6. CASE Watcher
  <2>1. main \in SettingUp => watch \in {"off", "waiting"}
    BY <1>0 DEF ChildSound, ReportOnce
  <2>2. QED
    BY <1>6, <2>1 DEF Watcher, Watch, RecordThenCancel
<1>7. CASE SetUp
  <2>1. CASE Configure \/ Provide
    BY <2>1 DEF Configure, Provide
  <2>2. CASE Build \/ StartChild
    BY <2>2 DEF Build, StartChild
  <2>3. CASE Arm
    BY <2>3 DEF Arm
  <2>4. CASE Listen /\ down
    BY <2>4 DEF Listen
  <2>5. CASE Listen /\ ~down
    BY <2>5 DEF Listen
  <2>6. QED
    BY <1>7, <2>1, <2>2, <2>3, <2>4, <2>5 DEF SetUp
<1>8. CASE Main
  <2>1. CASE ListenFails \/ ListenReturns \/ Verdict
    BY <2>1 DEF ListenFails, ListenReturns, Verdict
  <2>2. CASE StopFlag
    BY <1>0, <2>2 DEF Armed, StopFlag
  <2>3. CASE StopStdin \/ StopKills \/ StopReturns
    BY <2>3 DEF StopStdin, StopKills, StopReturns, Dies
  <2>4. CASE Flush \/ Exit
    BY <2>4 DEF Flush, Exit
  <2>5. QED
    BY <1>8, <2>1, <2>2, <2>3, <2>4 DEF Main
<1>9. CASE UNCHANGED vars
  BY <1>9 DEF vars
<1>10. QED
  BY <1>1, <1>2, <1>3, <1>4, <1>5, <1>6, <1>7, <1>8, <1>9 DEF Next

LEMMA OrderlyEnd == Spec => [](Inv /\ NotCalledOff /\ Shut)
<1>1. Init => NotCalledOff /\ Shut
  BY DEF Init, NotCalledOff, Shut, SettingUp
<1>2. Inv /\ NotCalledOff /\ Shut /\ [Next]_vars => NotCalledOff' /\ Shut'
  BY OrderlyEndStep
<1>3. QED
  BY <1>1, <1>2, Invariance, PTL DEF Spec

\* An open span is lost only at the very end: the server is shut down or has
\* failed, the subprocess is dead and reaped, the batch is flushed.
THEOREM OpenSpansLast == Spec => OpenLostLast
<1> DEFINE Last == \A c \in Calls : call[c] = "open" /\ call'[c] = "lost" =>
                       /\ provider = "closed" /\ ~listening
                       /\ child # "alive" /\ monitor # "waiting"
                       /\ down \/ result \in {"server", "died"}
<1>1. ASSUME Inv, NotCalledOff, Shut, [Next]_vars PROVE [Last]_call
  <2>0. TypeOK /\ NoOrphan /\ Armed /\ Traced
    BY <1>1 DEF Inv
  <2>1. ASSUME NEW c \in Calls, call[c] = "open", main = "return" \/ provider = "closed"
        PROVE  /\ provider = "closed" /\ ~listening
               /\ child # "alive" /\ monitor # "waiting"
               /\ down \/ result \in {"server", "died"}
    <3>1. sig # "off" /\ main # "killed"
      BY <2>0, <2>1 DEF Armed
    <3>2. provider = "closed"
      BY <2>0, <2>1, <3>1 DEF Traced, TypeOK
    <3>3. main \in {"return", "exited"}
      BY <2>0, <3>1, <3>2 DEF Traced, TypeOK, Places, Gone
    <3>4. QED
      BY <1>1, <2>0, <3>1, <3>2, <3>3 DEF NoOrphan, Shut
  <2>2. ASSUME NEW c \in Calls, Accept(c) \/ Open(c) \/ End(c) PROVE Last
    BY <2>0, <2>1, <2>2 DEF TypeOK, Accept, Open, End
  <2>3. Export \/ Flush => Last
    BY <2>0 DEF TypeOK, Export, Flush, Exported
  <2>4. Signal => Last \/ UNCHANGED call
    BY <2>0 DEF Armed, Signal
  <2>5. Exit => Last
    BY <2>1 DEF Exit
  <2>6. ChildDies \/ SigGoroutine \/ Monitor \/ Watcher => UNCHANGED call
    BY DEF ChildDies, SigGoroutine, SigWakes, SigCancels, Shutdown, ShutdownReturns,
           Monitor, Reap, CheckStopped, Report, Watcher, Watch, RecordThenCancel
  <2>7. SetUp => UNCHANGED call
    BY DEF SetUp, Configure, Provide, Build, StartChild, Arm, Listen
  <2>8. Main => Flush \/ Exit \/ UNCHANGED call
    BY DEF Main, ListenFails, ListenReturns, Verdict, StopFlag, StopStdin, StopKills, StopReturns
  <2>9. QED
    BY <1>1, <2>2, <2>3, <2>4, <2>5, <2>6, <2>7, <2>8 DEF Next, vars
<1>2. QED
  BY <1>1, OrderlyEnd, PTL DEF Spec, OpenLostLast

\* A step of Serve is a step of the subprocess, or none of its business.
LEMMA LifeStep ==
    ASSUME Inv, NotCalledOff, Shut, [Next]_vars
    PROVE  [Life!Next]_Life!vars
<1> DEFINE Closing == ~stdin /\ main # "killed"
           Kept == UNCHANGED <<child, monitor, stopped, cancelled>> /\ Closing' = Closing
<1> USE DEF Life!Next, Life!vars, Up, Gone, confVars, signalVars, netVars, childVars
<1>0. /\ TypeOK /\ FlagsOK /\ ChildSound /\ ReportOnce /\ Armed /\ FlagFirst
      /\ NotCalledOff
  BY DEF Inv, TypeOK
<1>1. Kept => UNCHANGED Life!vars
  BY DEF Life!vars
<1>2. ASSUME NEW c \in Calls, Accept(c) \/ Open(c) \/ End(c) PROVE Kept
  BY <1>2 DEF Accept, Open, End
<1>3. Export => Kept
  BY DEF Export
<1>4. Signal => Kept
  BY <1>0 DEF Signal, FlagFirst, NotCalledOff, FlagsOK
<1>5. ChildDies => Life!Dies
  BY DEF ChildDies, Dies, Life!Dies
<1>6. SigGoroutine => [Life!Stops]_Life!vars
  <2>1. SigWakes \/ Shutdown \/ ShutdownReturns => Kept
    BY DEF SigWakes, Shutdown, ShutdownReturns
  <2>2. SigCancels => [Life!Stops]_Life!vars
    BY <1>0 DEF SigCancels, Life!Stops, FlagsOK
  <2>3. QED
    BY <1>1, <2>1, <2>2 DEF SigGoroutine
<1>7. Monitor => [Life!Next]_Life!vars
  <2>1. Reap => Life!WaitReturns
    BY DEF Reap, Life!WaitReturns
  <2>2. CheckStopped => Life!RunningFalls
    BY DEF CheckStopped, Life!RunningFalls
  <2>3. Report => UNCHANGED Life!vars
    BY DEF Report
  <2>4. QED
    BY <2>1, <2>2, <2>3 DEF Monitor
<1>8. Watcher => [Life!Stops]_Life!vars
  <2>1. Watch => Kept
    BY DEF Watch
  <2>2. RecordThenCancel => [Life!Stops]_Life!vars
    BY <1>0 DEF RecordThenCancel, Life!Stops, FlagsOK
  <2>3. QED
    BY <1>1, <2>1, <2>2 DEF Watcher
<1>9. SetUp => [Life!Starts]_Life!vars
  <2>1. Configure \/ Provide \/ Build \/ Arm \/ Listen => Kept
    BY DEF Configure, Provide, Build, Arm, Listen
  <2>2. StartChild => [Life!Starts]_Life!vars
    <3>1. main = "start" => child = "none" /\ monitor = "off" /\ ~cancelled /\ ~stopped /\ stdin
      BY <1>0 DEF ChildSound, NotCalledOff, FlagFirst, SettingUp
    <3>2. QED
      BY <3>1 DEF StartChild, Life!Starts
  <2>3. QED
    BY <1>1, <2>1, <2>2 DEF SetUp
<1>10. Main => [Life!Next]_Life!vars
  <2>1. ListenFails \/ ListenReturns \/ Verdict \/ StopReturns \/ Flush => Kept
    BY DEF ListenFails, ListenReturns, Verdict, StopReturns, Flush
  <2>2. StopFlag => [Life!Stops]_Life!vars
    BY <1>0 DEF StopFlag, Life!Stops, FlagsOK
  <2>3. StopStdin => [Life!Stops]_Life!vars
    BY <1>0 DEF StopStdin, Life!Stops, FlagFirst, FlagsOK
  <2>4. StopKills => Life!Dies
    BY DEF StopKills, Dies, Life!Dies
  <2>5. Exit => [Life!Stops]_Life!vars
    BY <1>0 DEF Exit, Life!Stops, FlagsOK
  <2>6. QED
    BY <1>1, <2>1, <2>2, <2>3, <2>4, <2>5 DEF Main
<1>11. UNCHANGED vars => Kept
  BY DEF vars
<1>12. QED
  BY <1>1, <1>2, <1>3, <1>4, <1>5, <1>6, <1>7, <1>8, <1>9, <1>10, <1>11 DEF Next

\* Whatever signals, the watcher and main do, the subprocess lives and ends as
\* StdioProxy, which has no main, takes it to.
THEOREM OneSubprocess == Spec => SubprocessSpec
<1>1. Init => Life!Init
  BY DEF Init, Life!Init
<1>2. Inv /\ NotCalledOff /\ Shut /\ [Next]_vars => [Life!Next]_Life!vars
  BY LifeStep
<1>3. QED
  BY <1>1, <1>2, OrderlyEnd, PTL DEF Spec, SubprocessSpec, Life!Spec
=============================================================================
