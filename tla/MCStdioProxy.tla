---------------------------- MODULE MCStdioProxy ----------------------------
(***************************************************************************)
(* Instances of StdioProxy for TLC.                                        *)
(***************************************************************************)
EXTENDS StdioProxy, TLC

CONSTANTS c1, c2, i1, i2, i3, alice

Req(i, m, who, a) == [id |-> i, method |-> m, client |-> who, answer |-> a]
Call(i, a) == Req(i, "tools/call", NoClient, a)

\* A client says who it is, and calls.
Introduces == (c1 :> Req(i1, "initialize", alice, "ok")) @@ (c2 :> Call(i2, "error"))

\* A call with an id that the child uses too, and a body whose handler waits for
\* a response that cannot come.
Garbage == (c1 :> Call(i3, "error")) @@ (c2 :> Req(NoId, Unparseable, NoClient, "ok"))

\* A call, and a notification.
Notifies == (c1 :> Call(i1, "ok")) @@ (c2 :> Req(NoId, "notifications/*", NoClient, "ok"))

\* A call and its retry.
Retries == (c1 :> Call(i1, "error")) @@ (c2 :> Call(i1, "ok"))

AllWorkloads == {Introduces, Garbage, Notifies, Retries}

\* The clients of all but the retry may be two.
SomeWorkloads == {Introduces, Garbage, Notifies}
=============================================================================
