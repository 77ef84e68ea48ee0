------------------------------- MODULE Filter -------------------------------
(***************************************************************************)
(* Which JSON-RPC methods get a span (filter.go).  Methods are the names   *)
(* the code compares with; "notifications/*" stands for every method with  *)
(* that prefix, and "" is what ParseRequest leaves when a message has no   *)
(* method, as a client's reply to a server request.                        *)
(***************************************************************************)
CONSTANTS TraceAll, IncludeLifecycle   \* the two flags of Filter

ASSUME FlagAssumption == TraceAll \in BOOLEAN /\ IncludeLifecycle \in BOOLEAN

Methods == {"initialize", "initialized", "ping", "notifications/*",
            "tools/call", "tools/list", ""}

IsLifecycle(m) == m \in {"initialize", "initialized", "ping", "notifications/*"}

ShouldTrace(m) == IF IsLifecycle(m) THEN IncludeLifecycle
                                    ELSE TraceAll \/ m = "tools/call"
=============================================================================
