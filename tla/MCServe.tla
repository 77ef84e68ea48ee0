------------------------------ MODULE MCServe ------------------------------
(***************************************************************************)
(* Serve for TLC: users that set the transport in any of the three layers, *)
(* to modes that differ, with each combination of targets, commands,       *)
(* --stdio and MCP_TRACE_STDIO that decides something.                     *)
(***************************************************************************)
EXTENDS Serve

Modes == [flag : {Unset, "sse", "stdio", "bogus"},
          env  : {Unset, "streamable", "bogus"},
          file : {Unset, "stdio"}]

Shorthands == {<<FALSE, "none">>, <<TRUE, "none">>, <<TRUE, "command">>, <<TRUE, "more">>}

MCUsers ==
    {[transport |-> modes, target |-> target, command |-> command, fileArgs |-> args,
      stdio |-> short[1], words |-> short[2], envStdio |-> env, broken |-> broken] :
        modes \in Modes,
        target \in {{}, {"env", "file"}, {"flag", "env", "file"}},
        command \in SUBSET {"env", "file"},
        args \in BOOLEAN, short \in Shorthands,
        env \in {Unset, "true", "false"}, broken \in {FALSE}}
    \cup {[transport |-> [flag |-> "sse", env |-> Unset, file |-> Unset],
           target |-> {"flag"}, command |-> {}, fileArgs |-> FALSE,
           stdio |-> FALSE, words |-> "none", envStdio |-> Unset, broken |-> TRUE]}
=============================================================================
