----------------------------- MODULE MCSseProxy -----------------------------
(***************************************************************************)
(* Instances of SseProxy for TLC.                                          *)
(***************************************************************************)
EXTENDS SseProxy, TLC

CONSTANTS c1, c2, s1, s2, i1, i2, alice, bob

Req(s, i, m, who) == [session |-> s, id |-> i, method |-> m, client |-> who]

\* Two clients of one server: both count their ids from i1.
TwoSessions == (c1 :> Req(s1, i1, "tools/call", alice)) @@ (c2 :> Req(s2, i1, "initialize", bob))

\* One client: initialize, untraced unless asked for, then a call.
OneSession == (c1 :> Req(s1, i1, "initialize", alice)) @@ (c2 :> Req(s1, i2, "tools/call", alice))

\* Two clients of a server without sessions: one id space.
NoSessions == (c1 :> Req(NoSession, i1, "tools/call", alice))
              @@ (c2 :> Req(NoSession, i1, "tools/call", bob))

\* A call, and a body that is not JSON-RPC.
Garbage == (c1 :> Req(s1, i1, "tools/call", alice))
           @@ (c2 :> Req(s1, NoId, Unparseable, alice))

\* A call, and the client's reply to the server's request of the same id.
Duplex == (c1 :> Req(s1, i1, "tools/call", alice)) @@ (c2 :> Req(s1, i2, "", alice))

CoreWorkloads == {TwoSessions}
SharedWorkloads == {OneSession, NoSessions, Garbage, Duplex}

StreamSymmetry == Permutations(Streams)
=============================================================================
