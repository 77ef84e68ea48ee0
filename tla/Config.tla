------------------------------- MODULE Config -------------------------------
(***************************************************************************)
(* What a run is configured to do: RunE of run() in cmd/mcp-trace/main.go, *)
(* BindFlags and Load in internal/config.  Of the settings, those that     *)
(* decide how serve goes on: the transport, the upstream's address and the *)
(* subprocess.                                                             *)
(*                                                                         *)
(* Outside src/: viper v1.18.  A key is looked up layer by layer; a nested *)
(* key (stdio.command) is not looked up below a layer in which its parent  *)
(* (stdio) has a plain value; Unmarshal takes the keys that some layer     *)
(* other than the environment names.                                       *)
(***************************************************************************)
EXTENDS Naturals

Unset == "unset"
Transports == {"sse", "streamable", "stdio"}

\* viper's layers, the strongest first: v.Set, flags, environment, file, defaults.
Order == <<"set", "flag", "env", "file", "default">>
Layers == {Order[i] : i \in 1..5}

\* What the user gives: the transport by layer, the layers that hold a target
\* and a stdio.command (a layer stands for the value in it), whether the file
\* has stdio.args, --stdio and the words after it, MCP_TRACE_STDIO, and a config
\* file that is broken (or missing though --config names it).
User == [transport : [{"flag", "env", "file"} -> Transports \cup {Unset, "bogus"}],
         target    : SUBSET {"flag", "env", "file"},
         command   : SUBSET {"env", "file"},
         fileArgs  : BOOLEAN,
         stdio     : BOOLEAN,
         words     : {"none", "command", "more"},
         envStdio  : {Unset, "true", "false"},
         broken    : BOOLEAN]

\* Bug: the weakest layer wins.
FindWeakest(held) ==
    LET have == {i \in 1..5 : held[Order[i]] # Unset}
    IN  IF have = {} THEN Unset ELSE held[Order[CHOOSE i \in have : \A j \in have : i >= j]]

\* viper's find: the value in the strongest layer that has one.
Find(held) ==
    LET have == {i \in 1..5 : held[Order[i]] # Unset}
    IN  IF have = {} THEN Unset ELSE held[Order[CHOOSE i \in have : \A j \in have : i <= j]]

\* v.Set of RunE, the bound flags, AutomaticEnv and the file, key by key.
TransportKey(u) ==
    [l \in Layers |-> CASE l = "set"     -> IF u.stdio THEN "stdio" ELSE Unset
                        [] l = "default" -> "sse"
                        [] OTHER         -> u.transport[l]]

TargetKey(u) == [l \in Layers |-> IF l \in u.target THEN l ELSE Unset]

\* --stdio is not bound: in the override and in a file, stdio is a map.
StdioKey(u) ==
    [l \in Layers |-> CASE l = "set" /\ u.stdio                              -> "map"
                        [] l = "env"                                         -> u.envStdio
                        [] l = "file" /\ ("file" \in u.command \/ u.fileArgs) -> "map"
                        [] OTHER                                             -> Unset]

CommandKey(u) ==
    LET named == u.stdio \/ "file" \in u.command
        given == [set |-> u.stdio, env |-> named /\ "env" \in u.command,
                  file |-> "file" \in u.command /\ u.envStdio = Unset]
    IN  [l \in Layers |-> IF l \in DOMAIN given /\ given[l] THEN l ELSE Unset]

\* RunE sets stdio.args only if words follow the command.
ArgsKey(u) ==
    LET given == [set |-> u.stdio /\ u.words = "more",
                  file |-> u.fileArgs /\ u.envStdio = Unset]
    IN  [l \in Layers |-> IF l \in DOMAIN given /\ given[l] THEN l ELSE Unset]

Invalid == [transport |-> Unset, target |-> Unset, command |-> Unset, args |-> Unset]

\* Bug: the configuration is checked before the shorthand is applied.
LoadChecksEarly(u) ==
    LET asked == Find(TransportKey(u))
        cfg == [transport |-> IF Find(StdioKey(u)) = "true" THEN "stdio" ELSE asked,
                target |-> Find(TargetKey(u)), command |-> Find(CommandKey(u)),
                args |-> Find(ArgsKey(u))]
        valid == \/ asked \in {"sse", "streamable"} /\ cfg.target # Unset
                 \/ asked = "stdio" /\ cfg.command # Unset
    IN  IF (u.stdio => u.words # "none") /\ ~u.broken /\ valid THEN cfg ELSE Invalid

\* RunE and Load: --stdio wants a command; the file must read; GetBool("stdio")
\* overrides the transport; the transport's own setting is required.
Load(u) ==
    LET asked == Find(TransportKey(u))
        cfg == [transport |-> IF Find(StdioKey(u)) = "true" THEN "stdio" ELSE asked,
                target |-> Find(TargetKey(u)), command |-> Find(CommandKey(u)),
                args |-> Find(ArgsKey(u))]
        valid == \/ cfg.transport \in {"sse", "streamable"} /\ cfg.target # Unset
                 \/ cfg.transport = "stdio" /\ cfg.command # Unset
    IN  IF (u.stdio => u.words # "none") /\ ~u.broken /\ valid THEN cfg ELSE Invalid

-----------------------------------------------------------------------------
\* What README.md:226 and 247 promise: a setting comes from the flags, or else
\* from the environment, or else from the file; --stdio -- cmd args, and its form
\* in the environment, ask for the transport stdio.  Nothing says which of
\* MCP_TRACE_TRANSPORT and MCP_TRACE_STDIO comes first.
DocumentedTransports(u) ==
    LET flags == (IF u.stdio THEN {"stdio"} ELSE {u.transport["flag"]}) \ {Unset}
        env   == ({u.transport["env"]} \cup (IF u.envStdio = "true" THEN {"stdio"} ELSE {})) \ {Unset}
        file  == {u.transport["file"]} \ {Unset}
    IN  CASE flags # {}                            -> flags
          [] flags = {} /\ env # {}                -> env
          [] flags = {} /\ env = {} /\ file # {}   -> file
          [] OTHER                                 -> {"sse"}

Strongest(given) == CASE "flag" \in given -> "flag"
                      [] "flag" \notin given /\ "env" \in given -> "env"
                      [] given = {"file"} -> "file"
                      [] OTHER -> Unset

DocumentedTarget(u)  == Strongest(u.target)
DocumentedCommand(u) == IF u.stdio THEN "set" ELSE Strongest(u.command)
DocumentedArgs(u)    == CASE u.stdio /\ u.words = "more"                 -> "set"
                          [] ~(u.stdio /\ u.words = "more") /\ u.fileArgs -> "file"
                          [] OTHER                                        -> Unset

\* The two ways in which the code does not keep it: MCP_TRACE_STDIO=true overrules
\* --transport, and MCP_TRACE_STDIO, whatever its value, hides the file's arguments.
Overruled(u)  == ~u.stdio /\ u.transport["flag"] \notin {Unset, "stdio"} /\ u.envStdio = "true"
ArgsHidden(u) == u.fileArgs /\ u.envStdio # Unset /\ ~(u.stdio /\ u.words = "more")

\* A user whose configuration is accepted, and who is served by transport, has
\* what is documented, up to these two.
Honoured(u, transport) ==
    LET cfg == Load(u)
    IN  /\ transport \in DocumentedTransports(u) \/ Overruled(u)
        /\ transport = "stdio" => /\ cfg.command = DocumentedCommand(u) /\ cfg.command # Unset
                                  /\ cfg.args = DocumentedArgs(u) \/ ArgsHidden(u)
        /\ transport # "stdio" => cfg.target = DocumentedTarget(u) /\ cfg.target # Unset
=============================================================================
