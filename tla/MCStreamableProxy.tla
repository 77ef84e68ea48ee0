------------------------- MODULE MCStreamableProxy -------------------------
(***************************************************************************)
(* Instances of StreamableProxy for TLC.                                   *)
(***************************************************************************)
EXTENDS StreamableProxy, SequencesExt

CONSTANTS c1, c2, c3, alice, bob, MaxLines

i1 == Number("1")
i2 == Number("2")

Req(i, m, who) == [id |-> i, method |-> m, client |-> who]

\* A call, with another client's initialize and its own on the way.
TwoClients == (c1 :> Req(i1, "tools/call", alice)) @@ (c2 :> Req(i1, "initialize", bob))
              @@ (c3 :> Req(i1, "initialize", alice))

\* A call with a string for its id, an initialize, and one without clientInfo.
Anonymous == (c1 :> Req(String("1"), "tools/call", bob)) @@ (c2 :> Req(i1, "initialize", alice))
             @@ (c3 :> Req(i2, "initialize", NoClient))

\* A client's reply to a server request whose id is null, a call whose id is the
\* empty string, and no JSON at all.
Replies == (c1 :> Req(NullId, "", alice)) @@ (c2 :> Req(String(""), "tools/call", alice))
           @@ (c3 :> Req(NoId, Unparseable, alice))

AllWorkloads == {TwoClients, Anonymous, Replies}

L(k, i, s) == [kind |-> k, id |-> i, says |-> s]
Blank == L("blank", NoId, "result")
Prime == L("prime", NoId, "result")
Note == L("doc", NoId, "result")
Ok == L("doc", i1, "result")

\* Requests of the server's own come under the call's id and under another.
CoreLines == {Blank, Prime, Note, Ok, L("doc", i1, "error"), L("long", NoId, "result")}
MoreLines == CoreLines \cup {L("doc", String("1"), "toolError"), L("doc", i1, "shapeless"),
                             L("doc", NullId, "error"), L("doc", i2, "result"),
                             L("doc", i1, "request"), L("doc", i2, "request"), L("head", i1, "result"), L("tail", i1, "result"),
                             L("other", NoId, "result"), L("junk", NoId, "result")}

\* What the Python SDK sends: a priming event, a notification, the answer.
PythonStream == <<L("other", NoId, "result"), Prime, Blank, Note, Blank, Ok, Blank>>

SomeBodies == BoundedSeq(CoreLines, MaxLines) \cup BoundedSeq(MoreLines, 2)
              \cup Prefixes(PythonStream)
=============================================================================
