---------------------------- MODULE ConfigProofs ----------------------------
(***************************************************************************)
(* What is proved of Config: how far a configuration that Load accepts is  *)
(* the one that the documentation promises, for every combination of       *)
(* settings.                                                               *)
(***************************************************************************)
EXTENDS Config, TLAPS

LEMMA LayersAre == Layers = {"set", "flag", "env", "file", "default"}
BY DEF Layers, Order

\* The layers above the one found are empty.
LEMMA FindIs ==
    ASSUME NEW held
    PROVE  /\ held["set"] # Unset => Find(held) = held["set"]
           /\ held["set"] = Unset /\ held["flag"] # Unset => Find(held) = held["flag"]
           /\ held["set"] = Unset /\ held["flag"] = Unset /\ held["env"] # Unset
              => Find(held) = held["env"]
           /\ held["set"] = Unset /\ held["flag"] = Unset /\ held["env"] = Unset
              => Find(held) = IF held["file"] # Unset THEN held["file"] ELSE held["default"]
<1> DEFINE have == {i \in 1..5 : held[Order[i]] # Unset}
<1>0. /\ Order[1] = "set" /\ Order[2] = "flag" /\ Order[3] = "env"
      /\ Order[4] = "file" /\ Order[5] = "default"
  BY DEF Order
<1>1. ASSUME NEW i \in have, \A j \in have : i <= j
      PROVE  Find(held) = held[Order[i]]
  <2>1. have # {} /\ \A k \in have : (\A j \in have : k <= j) => k = i
    BY <1>1
  <2>2. (CHOOSE k \in have : \A j \in have : k <= j) = i
    BY <1>1, <2>1
  <2>3. QED
    BY <2>1, <2>2 DEF Find
<1>2. have = {} => Find(held) = Unset
  BY DEF Find
<1>3. \A i \in have : i \in 1..5 /\ held[Order[i]] # Unset
  OBVIOUS
<1>4. CASE held["set"] # Unset
  <2>1. 1 \in have /\ \A j \in have : 1 <= j
    BY <1>0, <1>4
  <2>2. QED
    BY <1>0, <1>1, <1>4, <2>1
<1>5. CASE held["set"] = Unset /\ held["flag"] # Unset
  <2>1. 2 \in have /\ \A j \in have : 2 <= j
    BY <1>0, <1>5
  <2>2. QED
    BY <1>0, <1>1, <1>5, <2>1
<1>6. CASE held["set"] = Unset /\ held["flag"] = Unset /\ held["env"] # Unset
  <2>1. 3 \in have /\ \A j \in have : 3 <= j
    BY <1>0, <1>6
  <2>2. QED
    BY <1>0, <1>1, <1>6, <2>1
<1>7. CASE held["set"] = Unset /\ held["flag"] = Unset /\ held["env"] = Unset /\ held["file"] # Unset
  <2>1. 4 \in have /\ \A j \in have : 4 <= j
    BY <1>0, <1>7
  <2>2. QED
    BY <1>0, <1>1, <1>7, <2>1
<1>8. CASE /\ held["set"] = Unset /\ held["flag"] = Unset /\ held["env"] = Unset
           /\ held["file"] = Unset /\ held["default"] # Unset
  <2>1. 5 \in have /\ \A j \in have : 5 <= j
    BY <1>0, <1>8
  <2>2. QED
    BY <1>0, <1>1, <1>8, <2>1
<1>9. CASE /\ held["set"] = Unset /\ held["flag"] = Unset /\ held["env"] = Unset
           /\ held["file"] = Unset /\ held["default"] = Unset
  <2>1. have = {}
    BY <1>0, <1>9
  <2>2. QED
    BY <1>2, <1>9, <2>1
<1>10. QED
  BY <1>4, <1>5, <1>6, <1>7, <1>8, <1>9

\* What each key holds in each layer.
LEMMA TransportLayers ==
    ASSUME NEW u \in User
    PROVE  /\ TransportKey(u)["set"] = IF u.stdio THEN "stdio" ELSE Unset
           /\ \A l \in {"flag", "env", "file"} : TransportKey(u)[l] = u.transport[l]
           /\ TransportKey(u)["default"] = "sse"
BY LayersAre DEF TransportKey

LEMMA TargetLayers ==
    ASSUME NEW u \in User
    PROVE  /\ \A l \in Layers : TargetKey(u)[l] = IF l \in u.target THEN l ELSE Unset
           /\ TargetKey(u)["set"] = Unset
BY LayersAre DEF TargetKey, User

LEMMA StdioLayers ==
    ASSUME NEW u \in User
    PROVE  /\ u.stdio => StdioKey(u)["set"] = "map"
           /\ ~u.stdio => StdioKey(u)["set"] = Unset
           /\ StdioKey(u)["flag"] = Unset /\ StdioKey(u)["env"] = u.envStdio
           /\ StdioKey(u)["file"] \in {"map", Unset} /\ StdioKey(u)["default"] = Unset
BY LayersAre DEF StdioKey

LEMMA CommandLayers ==
    ASSUME NEW u \in User
    PROVE  /\ CommandKey(u)["set"] = IF u.stdio THEN "set" ELSE Unset
           /\ CommandKey(u)["flag"] = Unset /\ CommandKey(u)["default"] = Unset
           /\ CommandKey(u)["env"] = IF (u.stdio \/ "file" \in u.command) /\ "env" \in u.command
                                     THEN "env" ELSE Unset
           /\ CommandKey(u)["file"] = IF "file" \in u.command /\ u.envStdio = Unset
                                      THEN "file" ELSE Unset
BY LayersAre DEF CommandKey

LEMMA ArgsLayers ==
    ASSUME NEW u \in User
    PROVE  /\ ArgsKey(u)["set"] = IF u.stdio /\ u.words = "more" THEN "set" ELSE Unset
           /\ ArgsKey(u)["file"] = IF u.fileArgs /\ u.envStdio = Unset THEN "file" ELSE Unset
           /\ \A l \in {"flag", "env", "default"} : ArgsKey(u)[l] = Unset
BY LayersAre DEF ArgsKey

LEMMA Names == /\ Unset \notin Transports \cup {"bogus"} /\ Unset \notin Layers
               /\ Unset # "map" /\ Unset # "sse" /\ "stdio" \in Transports
               /\ "true" # "map" /\ "true" # Unset
BY LayersAre DEF Unset, Transports

LEMMA UserIs ==
    ASSUME NEW u \in User
    PROVE  /\ \A l \in {"flag", "env", "file"} : u.transport[l] \in Transports \cup {Unset, "bogus"}
           /\ u.target \subseteq {"flag", "env", "file"} /\ u.command \subseteq {"env", "file"}
           /\ u.stdio \in BOOLEAN /\ u.fileArgs \in BOOLEAN
           /\ u.words \in {"none", "command", "more"} /\ u.envStdio \in {Unset, "true", "false"}
BY DEF User

\* The target comes from the strongest layer that has one.
LEMMA TargetFound ==
    ASSUME NEW u \in User
    PROVE  Find(TargetKey(u)) = DocumentedTarget(u)
<1>1. /\ TargetKey(u)["set"] = Unset /\ TargetKey(u)["default"] = Unset
      /\ TargetKey(u)["flag"] = IF "flag" \in u.target THEN "flag" ELSE Unset
      /\ TargetKey(u)["env"] = IF "env" \in u.target THEN "env" ELSE Unset
      /\ TargetKey(u)["file"] = IF "file" \in u.target THEN "file" ELSE Unset
  BY TargetLayers, LayersAre, UserIs
<1>2. Find(TargetKey(u)) = IF "flag" \in u.target THEN "flag" ELSE
                           IF "env" \in u.target THEN "env" ELSE
                           IF "file" \in u.target THEN "file" ELSE Unset
  BY <1>1, FindIs, Names, LayersAre
<1>3. "flag" \notin u.target /\ "env" \notin u.target => (u.target = {"file"} <=> "file" \in u.target)
  BY UserIs
<1>4. QED
  BY <1>2, <1>3 DEF DocumentedTarget, Strongest

\* So does the command, where there is one.
LEMMA CommandFound ==
    ASSUME NEW u \in User, Find(CommandKey(u)) # Unset
    PROVE  Find(CommandKey(u)) = DocumentedCommand(u)
<1>1. u.stdio => Find(CommandKey(u)) = "set"
  BY FindIs, CommandLayers, Names, LayersAre
<1>2. ASSUME ~u.stdio PROVE Find(CommandKey(u)) = Strongest(u.command)
  <2>1. CASE "env" \in u.command /\ "file" \in u.command
    BY <1>2, <2>1, FindIs, CommandLayers, Names, LayersAre, UserIs DEF Strongest
  <2>2. CASE "file" \notin u.command
    BY <1>2, <2>2, FindIs, CommandLayers, Names, LayersAre
  <2>3. CASE "file" \in u.command /\ "env" \notin u.command
    <3>1. u.command = {"file"}
      BY <2>3, UserIs
    <3>2. Find(CommandKey(u)) = IF u.envStdio = Unset THEN "file" ELSE Unset
      BY <1>2, <2>3, FindIs, CommandLayers, Names, LayersAre
    <3>3. QED
      BY <3>1, <3>2 DEF Strongest
  <2>4. QED
    BY <2>1, <2>2, <2>3
<1>3. QED
  BY <1>1, <1>2, UserIs DEF DocumentedCommand

\* The arguments do too, unless they are hidden.
LEMMA ArgsFound ==
    ASSUME NEW u \in User
    PROVE  Find(ArgsKey(u)) # DocumentedArgs(u) <=> ArgsHidden(u)
<1>1. Find(ArgsKey(u)) = IF u.stdio /\ u.words = "more" THEN "set" ELSE
                         IF u.fileArgs /\ u.envStdio = Unset THEN "file" ELSE Unset
  BY FindIs, ArgsLayers, Names, LayersAre
<1>2. "file" # Unset
  BY Names, LayersAre
<1>3. QED
  BY <1>1, <1>2, UserIs DEF DocumentedArgs, ArgsHidden

\* The transport that is asked for, and what MCP_TRACE_STDIO makes of it.
LEMMA TransportFound ==
    ASSUME NEW u \in User
    PROVE  LET asked == Find(TransportKey(u))
               transport == IF Find(StdioKey(u)) = "true" THEN "stdio" ELSE asked
           IN  transport \notin DocumentedTransports(u) <=> Overruled(u)
<1> DEFINE f == u.transport["flag"]
           e == u.transport["env"]
           g == u.transport["file"]
           asked == Find(TransportKey(u))
           transport == IF Find(StdioKey(u)) = "true" THEN "stdio" ELSE asked
<1>1. asked = IF u.stdio THEN "stdio" ELSE IF f # Unset THEN f ELSE
              IF e # Unset THEN e ELSE IF g # Unset THEN g ELSE "sse"
  BY FindIs, TransportLayers, Names
<1>2. Find(StdioKey(u)) = "true" <=> ~u.stdio /\ u.envStdio = "true"
  <2>1. CASE u.stdio
    BY <2>1, FindIs, StdioLayers, Names
  <2>2. CASE ~u.stdio /\ u.envStdio # Unset
    BY <2>2, FindIs, StdioLayers
  <2>3. CASE ~u.stdio /\ u.envStdio = Unset
    <3>1. Find(StdioKey(u)) \in {"map", Unset}
      BY <2>3, FindIs, StdioLayers
    <3>2. QED
      BY <2>3, <3>1, Names
  <2>4. QED
    BY <2>1, <2>2, <2>3, UserIs
<1>3. CASE u.stdio
  BY <1>1, <1>2, <1>3, Names DEF DocumentedTransports, Overruled
<1>4. CASE ~u.stdio /\ f # Unset
  BY <1>1, <1>2, <1>4, Names DEF DocumentedTransports, Overruled
<1>5. CASE ~u.stdio /\ f = Unset
  <2>1. ~Overruled(u)
    BY <1>5 DEF Overruled
  <2>2. CASE u.envStdio = "true"
    <3>1. transport = "stdio"
      BY <1>2, <1>5, <2>2
    <3>2. "stdio" \in DocumentedTransports(u)
      BY <1>5, <2>2, Names DEF DocumentedTransports
    <3>3. QED
      BY <2>1, <3>1, <3>2
  <2>3. CASE u.envStdio # "true"
    <3>1. transport = IF e # Unset THEN e ELSE IF g # Unset THEN g ELSE "sse"
      BY <1>1, <1>2, <1>5, <2>3
    <3>2. transport \in DocumentedTransports(u)
      BY <1>5, <2>3, <3>1, Names DEF DocumentedTransports
    <3>3. QED
      BY <2>1, <3>2
  <2>4. QED
    BY <2>2, <2>3
<1>6. QED
  BY <1>3, <1>4, <1>5, UserIs

\* Whatever a user gives, what Load accepts is what the documented precedence
\* promises: flags, then the environment, then the file, for the transport, the
\* target, the command and the arguments, up to the two exceptions.
THEOREM LoadHonours == \A u \in User : Load(u) # Invalid => Honoured(u, Load(u).transport)
<1> SUFFICES ASSUME NEW u \in User, Load(u) # Invalid PROVE Honoured(u, Load(u).transport)
  OBVIOUS
<1> DEFINE asked == Find(TransportKey(u))
           cfg == [transport |-> IF Find(StdioKey(u)) = "true" THEN "stdio" ELSE asked,
                   target |-> Find(TargetKey(u)), command |-> Find(CommandKey(u)),
                   args |-> Find(ArgsKey(u))]
<1>1. Load(u) = cfg
      /\ \/ cfg.transport \in {"sse", "streamable"} /\ cfg.target # Unset
         \/ cfg.transport = "stdio" /\ cfg.command # Unset
  BY DEF Load
<1>2. cfg.transport \in DocumentedTransports(u) \/ Overruled(u)
  BY TransportFound
<1>3. cfg.command # Unset => cfg.command = DocumentedCommand(u)
  BY CommandFound
<1>4. cfg.args = DocumentedArgs(u) \/ ArgsHidden(u)
  BY ArgsFound
<1>5. cfg.target = DocumentedTarget(u)
  BY TargetFound
<1>6. QED
  <2> HIDE DEF cfg
  <2>1. QED
    BY <1>1, <1>2, <1>3, <1>4, <1>5 DEF Honoured

\* README.md:247, "CLI flags take the highest precedence", is broken for exactly
\* these users: MCP_TRACE_STDIO=true overrules another --transport; and "Environment
\* variables override config-file values" for these, whose arguments in the file no
\* variable overrides and who run without them.
THEOREM PrecedenceBroken ==
    \A u \in User : Load(u) # Invalid =>
        /\ Load(u).transport \notin DocumentedTransports(u) <=> Overruled(u)
        /\ Load(u).args # DocumentedArgs(u) <=> ArgsHidden(u)
<1> SUFFICES ASSUME NEW u \in User, Load(u) # Invalid
             PROVE  /\ Load(u).transport \notin DocumentedTransports(u) <=> Overruled(u)
                    /\ Load(u).args # DocumentedArgs(u) <=> ArgsHidden(u)
  OBVIOUS
<1>1. /\ Load(u).transport = IF Find(StdioKey(u)) = "true" THEN "stdio" ELSE Find(TransportKey(u))
      /\ Load(u).args = Find(ArgsKey(u))
  BY DEF Load
<1>2. QED
  BY <1>1, TransportFound, ArgsFound
=============================================================================
