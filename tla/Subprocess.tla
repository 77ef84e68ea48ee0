----------------------------- MODULE Subprocess -----------------------------
(***************************************************************************)
(* The subprocess of the stdio transport as a proxy sees it: what the      *)
(* actions of StdioProxy take for granted of Start, Stop and               *)
(* monitorProcess.  It is shown of Serve, where signals, the watcher and   *)
(* the rest of the process have a hand in it.                              *)
(*                                                                         *)
(* It starts before anything is called off; it is waited for once, when it *)
(* is dead; running falls only after that, for good; and its stdin is      *)
(* closed only when its context is done, so that no handler finds the pipe *)
(* closed on a proxy that is not stopping.                                 *)
(***************************************************************************)
VARIABLES child,    \* none, alive or dead
          reaped,   \* cmd.Wait has returned
          running,  \* StdioProxy.running
          stop      \* no; cancelled: StdioProxy.ctx is done; closed: so is the stdin pipe

vars == <<child, reaped, running, stop>>

Init == /\ child \in {"none", "alive"}
        /\ running = (child = "alive")
        /\ reaped = FALSE /\ stop = "no"

Starts == /\ child = "none" /\ stop = "no"
          /\ child' = "alive" /\ running' = TRUE
          /\ UNCHANGED <<reaped, stop>>

Dies == child = "alive" /\ child' = "dead" /\ UNCHANGED <<reaped, running, stop>>

WaitReturns == /\ child = "dead" /\ ~reaped
               /\ reaped' = TRUE
               /\ UNCHANGED <<child, running, stop>>

RunningFalls == /\ reaped /\ running
                /\ running' = FALSE
                /\ UNCHANGED <<child, reaped, stop>>

Stops == /\ \/ stop = "no" /\ stop' = "cancelled"
            \/ stop = "cancelled" /\ stop' = "closed"
         /\ UNCHANGED <<child, reaped, running>>

Next == Starts \/ Dies \/ WaitReturns \/ RunningFalls \/ Stops

Spec == Init /\ [][Next]_vars
=============================================================================
