----------------------------- MODULE SpanLedger -----------------------------
(***************************************************************************)
(* What the proxy promises its reader about spans, whatever the transport. *)
(*                                                                         *)
(* A call's span is opened at most once and ended at most once, and the    *)
(* way it ends is earned: some fact about that very call, true when the    *)
(* span ends, justifies it.  Facts are never withdrawn.                    *)
(*                                                                         *)
(* The ledger tells ends apart by what the reader is told of them,         *)
(* mcp.status and error.message together: "error" is an answer that is an  *)
(* error and "failed" a call whose POST, or write, came to nothing.        *)
(* README.md:285-293 gives mcp.status error to the first alone; the code   *)
(* writes it for both, and only the message says which.                    *)
(***************************************************************************)
CONSTANT Calls

VARIABLES span,   \* the state of each call's span
          fate    \* the facts that have become true of each call

vars == <<span, fate>>

Final == {"ok", "error", "failed", "timeout", "givenUp",
          "abandoned", "abandonedByClient", "abandonedByUpstream"}
Spans == {"none", "open"} \cup Final

Facts == {"ok",       \* the upstream answered it with a result
          "error",    \* the upstream answered it with an error
          "failed",   \* it could not be delivered to the upstream or was refused
          "cut",      \* the stream its answer would arrive on has ended
          "cutByClient",  \* the client of that stream has gone
          "late"}     \* it passed its deadline, or its client waits no longer

\* The facts that justify an end.  An abandoned span may name the side that
\* broke the stream, or neither; where each call has a timer of its own, "givenUp"
\* is that nobody waits for its answer any more.
Because(end) == CASE end = "ok"                  -> {"ok"}
                  [] end = "error"               -> {"error"}
                  [] end = "failed"              -> {"failed"}
                  [] end \in {"timeout", "givenUp"} -> {"late"}
                  [] end = "abandonedByClient"   -> {"cut", "cutByClient"}
                  [] end \in {"abandoned", "abandonedByUpstream"} -> {"cut"}

Init == span = [c \in Calls |-> "none"] /\ fate \in [Calls -> SUBSET Facts]

Opens(c) == span[c] = "none" /\ span'[c] = "open"

Ends(c) == /\ span[c] = "open"
           /\ span'[c] \in Final
           /\ Because(span'[c]) \subseteq fate'[c]

CallStep(c) == /\ fate[c] \subseteq fate'[c]
               /\ Opens(c) \/ Ends(c) \/ span'[c] = span[c]

Next == \A c \in Calls : CallStep(c)

Spec == Init /\ [][Next]_vars
=============================================================================
