----------------------- MODULE StreamableProxyProofs ------------------------
(***************************************************************************)
(* What is proved of StreamableProxy for every set of calls, every         *)
(* workload and response bodies of every length.                           *)
(*                                                                         *)
(* A handler shares nothing but the client's identity, so its invariant    *)
(* speaks of one call: where it stands decides whether its span is open    *)
(* (Staged), and how far it has read decides what it has gathered and      *)
(* found (Scans).  The identity passes from an initialize to the spans     *)
(* (NamesKnown).                                                           *)
(***************************************************************************)
EXTENDS StreamableProxy, SequenceTheorems, TLAPS

\* The answer as the code takes it, where Answer is the call's own: what it
\* finds in a stretch of lines, and what it first finds in the response.
EventMatch(c, i, j) == Match(c, {k \in i..j : IsData(body[c][k])})

Found(c) ==
    LET Dom == DOMAIN body[c]
        Answering(i, j) == i <= j /\ Event(body[c], i, j) /\ EventMatch(c, i, j) # {}
    IN IF form[c] = "json"
       THEN UNION {Declared(m.says) : m \in Match(c, Document(c))}
       ELSE UNION {UNION {Declared(m.says) : m \in EventMatch(c, ij[1], ij[2])} :
              ij \in {p \in Dom \X Dom : /\ Answering(p[1], p[2])
                                         /\ \A i, j \in Dom : Answering(i, j) => p[1] <= i}}

\* A call's span is open just while its handler may still end it; only an
\* initialize writes an identity.
Staged == \A c \in Calls :
    /\ pc[c] \in {"idle", "naming", "start"} => span[c] = "none"
    /\ pc[c] = "start" => Traced(c)
    /\ pc[c] = "naming" => post[c].method = "initialize"
    /\ pc[c] = "send" /\ Traced(c) => span[c] = "open"
    /\ pc[c] = "parse" => span[c] = "open" /\ Traced(c)
    /\ pc[c] = "failed" => span[c] \in {"none", "failed"}
    /\ span[c] # "none" => Traced(c)

\* The scanner at line n of b has passed no line that is too long.
Seen(b, n) == \A k \in 1..n - 1 : b[k].kind # "long"

\* The event it is in began at line i.
Begins(b, i, n) == /\ i \in 1..n
                   /\ i > 1 => b[i - 1].kind = "blank"
                   /\ \A k \in i..n - 1 : b[k].kind # "blank"

\* The data lines from i up to n.
Gathered(c, i, n) == {k \in i..n - 1 : IsData(body[c][k])}

\* It has gathered the data lines of the event it is in, and the events before
\* that were no answer.
Scans(c) == LET b == body[c]
                n == next[c]
            IN /\ n \in 1..Len(b) + 1 /\ Seen(b, n)
               /\ \E i \in 1..n : Begins(b, i, n) /\ data[c] = Gathered(c, i, n)
               /\ \A i, j \in DOMAIN b : i <= j /\ j + 1 < n /\ Event(b, i, j)
                                         => EventMatch(c, i, j) = {}

\* There is no body before Copy, and a scanner from there on.
Reads(c) ==
    /\ pc[c] \notin {"parse", "done"} => form[c] = "none"
    /\ form[c] = "none" => body[c] = <<>>
    /\ body[c] = <<>> => next[c] = 1 /\ data[c] = {}
    /\ pc[c] = "parse" => form[c] # "none" /\ body[c] # <<>>
    /\ pc[c] = "parse" /\ form[c] = "events" => Scans(c)

\* A handler that has returned has ended the span as its response says.
Decided(c) == pc[c] = "done" /\ body[c] # <<>> =>
    /\ Found(c) # {} => span[c] \in Found(c)
    /\ Found(c) = {} => span[c] = IF form[c] = "events" THEN "abandoned" ELSE "open"

Parses(c) == Reads(c) /\ Decided(c)

IInv == TypeOK /\ Staged /\ ClientRemembered /\ \A c \in Calls : Parses(c)

\* An initialize that has been taken announced the name.
Announced(name) == \E e \in Calls : /\ post[e].method = "initialize" /\ post[e].client = name
                                    /\ pc[e] \notin {"idle", "naming"}

\* The proxy makes up no identity: the one it holds and those on the spans are
\* empty, torn by a race, or what a client announced.
Known(name) == name \in {NoClient, Torn} \/ Announced(name)
NamesKnown == Known(client) /\ \A c \in Calls : Known(label[c])

\* What a step may do to a span: open it, or end it with the return of its
\* handler.
SpanStep(c) ==
    \/ span'[c] = span[c]
    \/ span[c] = "none" /\ span'[c] = "open" /\ pc[c] = "start"
    \/ /\ span[c] = "open" /\ span'[c] \in Final
       /\ <<pc[c], pc'[c]>> \in {<<"send", "failed">>, <<"parse", "done">>}

\* Every span is opened once and ended at most once, by the handler of its own
\* call and as the last thing that handler does.
SpanLife == [][\A c \in Calls : SpanStep(c)]_vars

-----------------------------------------------------------------------------
(* Type correctness *)

\* A scanned message gives a status, whatever it says.
LEMMA StatusFinal == \A m : Status(m) \in Final
BY DEF Status, Final

LEMMA TypeInit == Init => TypeOK
BY DEF Init, TypeOK

LEMMA TypeStep ==
    ASSUME TypeOK, [Next]_vars
    PROVE  TypeOK'
<1> USE DEF TypeOK
<1>1. ASSUME NEW c \in Calls, BadBody(c) \/ Arrive(c) PROVE TypeOK'
  BY <1>1 DEF BadBody, Arrive, Start
<1>2. ASSUME NEW c \in Calls, Remember(c) PROVE TypeOK'
  <2>1. post[c].client \in Clients \cup {NoClient}
    BY WorkloadAssumption DEF Request
  <2>2. QED
    BY <1>2, <2>1 DEF Remember, ParseClientInfo, Start
<1>3. ASSUME NEW c \in Calls, StartSpan(c) PROVE TypeOK'
  BY <1>3 DEF StartSpan
<1>4. ASSUME NEW c \in Calls, Fails(c) PROVE TypeOK'
  BY <1>4 DEF Fails, Final
<1>5. ASSUME NEW c \in Calls, Copy(c) PROVE TypeOK'
  <2>1. CASE ~Traced(c)
    BY <1>5, <2>1 DEF Copy
  <2>2. CASE Traced(c)
    <3>1. PICK f \in {"json", "events"}, b \in Bodies :
             /\ form' = [form EXCEPT ![c] = f] /\ body' = [body EXCEPT ![c] = b]
             /\ pc' = [pc EXCEPT ![c] = IF b = <<>> THEN "done" ELSE "parse"]
      BY <1>5, <2>2 DEF Copy
    <3>2. pc' \in [Calls -> {"idle", "naming", "start", "send", "parse", "failed", "done"}]
      BY <3>1
    <3>3. QED
      BY <1>5, <3>1, <3>2 DEF Copy
  <2>3. QED
    BY <2>1, <2>2
<1>6. ASSUME NEW c \in Calls, ParseJson(c) PROVE TypeOK'
  <2>1. span' = span \/ \E s \in Final : span' = [span EXCEPT ![c] = s]
    BY <1>6, StatusFinal DEF ParseJson
  <2>2. pc' = [pc EXCEPT ![c] = "done"] /\ UNCHANGED <<post, client, raced, label, form, body, next, data>>
    BY <1>6 DEF ParseJson
  <2>3. QED
    BY <2>1, <2>2
<1>7. ASSUME NEW c \in Calls, ScanData(c) PROVE TypeOK'
  <2>1. data' = data \/ data' = [data EXCEPT ![c] = data[c] \cup {next[c]}]
    BY <1>7 DEF ScanData
  <2>2. data' \in [Calls -> SUBSET Nat]
    BY <2>1
  <2>3. QED
    BY <1>7, <2>2 DEF ScanData
<1>8. ASSUME NEW c \in Calls, ScanBlank(c) PROVE TypeOK'
  <2>1. data' \in [Calls -> SUBSET Nat] /\ UNCHANGED <<post, client, raced, label, form, body>>
    BY <1>8 DEF ScanBlank
  <2>2. span' = span \/ \E s \in Final : span' = [span EXCEPT ![c] = s]
    BY <1>8, StatusFinal DEF ScanBlank
  <2>3. pc' = pc \/ pc' = [pc EXCEPT ![c] = "done"]
    BY <1>8 DEF ScanBlank
  <2>4. next' = next \/ next' = [next EXCEPT ![c] = next[c] + 1]
    BY <1>8 DEF ScanBlank
  <2>5. span' \in [Calls -> {"none", "open"} \cup Final]
    BY <2>2
  <2>6. next' \in [Calls -> Nat \ {0}]
    BY <2>4
  <2>7. QED
    BY <2>1, <2>3, <2>5, <2>6
<1>9. ASSUME NEW c \in Calls, ScanEnds(c) PROVE TypeOK'
  <2>1. \E s \in Final : span' = [span EXCEPT ![c] = s]
    BY <1>9, StatusFinal DEF ScanEnds, Final
  <2>2. QED
    BY <1>9, <2>1 DEF ScanEnds
<1>10. CASE UNCHANGED vars
  BY <1>10 DEF vars
<1>11. QED
  BY <1>1, <1>2, <1>3, <1>4, <1>5, <1>6, <1>7, <1>8, <1>9, <1>10 DEF Next
-----------------------------------------------------------------------------
(* Where a handler stands and what its span is *)

\* The stages of one call: it arrives, is named, opens a span and ends it.
Stage(c) ==
    \/ /\ pc[c] = "idle" /\ UNCHANGED <<span, client>>
       /\ \/ pc'[c] = "done"
          \/ pc'[c] = "naming" /\ post[c].method = "initialize"
          \/ pc'[c] = Start(c) /\ post[c].method # "initialize"
    \/ pc[c] = "naming" /\ pc'[c] = Start(c) /\ UNCHANGED span
    \/ pc[c] = "start" /\ pc'[c] = "send" /\ span'[c] = "open" /\ UNCHANGED client
    \/ /\ pc[c] = "send" /\ UNCHANGED client
       /\ \/ pc'[c] = "failed" /\ Traced(c) /\ span'[c] = "failed"
          \/ pc'[c] \in {"failed", "done"} /\ ~Traced(c) /\ span'[c] = span[c]
          \/ pc'[c] \in {"parse", "done"} /\ Traced(c) /\ span'[c] = span[c]
    \/ /\ pc[c] = "parse" /\ UNCHANGED client
       /\ \/ pc'[c] = "parse" /\ span'[c] = span[c]
          \/ pc'[c] = "done" /\ (span'[c] = span[c] \/ span'[c] \in Final)

LEMMA Stages ==
    ASSUME TypeOK, [Next]_vars
    PROVE  \/ UNCHANGED <<post, pc, span, client>>
           \/ \E c \in Calls : /\ Stage(c) /\ UNCHANGED post
                               /\ \A d \in Calls \ {c} : pc'[d] = pc[d] /\ span'[d] = span[d]
<1> USE DEF TypeOK
<1> DEFINE Alone(c) == /\ Stage(c) /\ UNCHANGED post
                       /\ \A d \in Calls \ {c} : pc'[d] = pc[d] /\ span'[d] = span[d]
<1>1. ASSUME NEW c \in Calls, BadBody(c) \/ Arrive(c) PROVE Alone(c)
  BY <1>1 DEF BadBody, Arrive, Stage
<1>2. ASSUME NEW c \in Calls, Remember(c) PROVE Alone(c)
  BY <1>2 DEF Remember, Stage
<1>3. ASSUME NEW c \in Calls, StartSpan(c) PROVE Alone(c)
  BY <1>3 DEF StartSpan, Stage
<1>4. ASSUME NEW c \in Calls, Fails(c) PROVE Alone(c)
  BY <1>4 DEF Fails, Stage
<1>5. ASSUME NEW c \in Calls, Copy(c) PROVE Alone(c)
  <2>1. CASE ~Traced(c)
    BY <1>5, <2>1 DEF Copy, Stage
  <2>2. CASE Traced(c)
    <3>1. PICK b \in Bodies : pc' = [pc EXCEPT ![c] = IF b = <<>> THEN "done" ELSE "parse"]
      BY <1>5, <2>2 DEF Copy
    <3>2. pc'[c] \in {"parse", "done"} /\ \A d \in Calls \ {c} : pc'[d] = pc[d]
      BY <3>1
    <3>3. QED
      BY <1>5, <2>2, <3>2 DEF Copy, Stage
  <2>3. QED
    BY <2>1, <2>2
<1>6. ASSUME NEW c \in Calls, pc[c] = "parse", UNCHANGED <<post, client>>,
             span' = span \/ \E s \in Final : span' = [span EXCEPT ![c] = s],
             pc' = [pc EXCEPT ![c] = "done"]
      PROVE  Alone(c)
  BY <1>6 DEF Stage
<1>7. ASSUME NEW c \in Calls, ParseJson(c) PROVE Alone(c)
  BY <1>6, <1>7, StatusFinal DEF ParseJson
<1>8. ASSUME NEW c \in Calls, ScanEnds(c) PROVE Alone(c)
  <2>1. \E s \in Final : span' = [span EXCEPT ![c] = s]
    BY <1>8, StatusFinal DEF ScanEnds, Final
  <2>2. QED
    BY <1>6, <1>8, <2>1 DEF ScanEnds
<1>9. ASSUME NEW c \in Calls, ScanBlank(c) PROVE Alone(c) \/ UNCHANGED <<post, pc, span, client>>
  <2>1. CASE UNCHANGED <<pc, span>>
    BY <1>9, <2>1 DEF ScanBlank
  <2>2. CASE pc' = [pc EXCEPT ![c] = "done"] /\ \E s \in Final : span' = [span EXCEPT ![c] = s]
    BY <1>6, <1>9, <2>2 DEF ScanBlank, Scanning
  <2>3. QED
    BY <1>9, <2>1, <2>2, StatusFinal DEF ScanBlank
<1>10. ASSUME NEW c \in Calls, ScanData(c) PROVE UNCHANGED <<post, pc, span, client>>
  BY <1>10 DEF ScanData
<1>11. QED
  BY <1>1, <1>2, <1>3, <1>4, <1>5, <1>7, <1>8, <1>9, <1>10 DEF Next, vars

LEMMA StagedStep ==
    ASSUME TypeOK, Staged, [Next]_vars
    PROVE  Staged'
<1>1. CASE UNCHANGED <<post, pc, span, client>>
  BY <1>1 DEF Staged, Traced
<1>2. ASSUME NEW c \in Calls, Stage(c), UNCHANGED post,
             \A d \in Calls \ {c} : pc'[d] = pc[d] /\ span'[d] = span[d]
      PROVE  Staged'
  <2>1. \A d \in Calls : Traced(d)' <=> Traced(d)
    BY <1>2 DEF Traced
  <2>2. Traced(c) => post[c].method # Unparseable
    BY DEF Traced
  <2>3. QED
    BY <1>2, <2>1 DEF Staged, Stage, Start
<1>3. QED
  BY <1>1, <1>2, Stages

\* Only an initialize makes the proxy forget who its client is.
LEMMA ClientStep ==
    ASSUME TypeOK, Staged, ClientRemembered, [Next]_vars
    PROVE  ClientRemembered'
<1> DEFINE Left == {"start", "send", "parse", "failed"}
           Blank(d) == post[d].method = "initialize" /\ post[d].client = NoClient
                       /\ pc[d] \notin {"idle", "naming"}
<1>1. CASE UNCHANGED <<post, pc, span, client>>
  BY <1>1 DEF ClientRemembered
<1>2. ASSUME NEW c \in Calls, Stage(c), UNCHANGED post, client' = NoClient,
             \A d \in Calls \ {c} : pc'[d] = pc[d] /\ span'[d] = span[d],
             NEW e \in Calls, post[e].method = "initialize", post[e].client # NoClient, pc'[e] \in Left
      PROVE  \E d \in Calls : Blank(d)'
  <2>1. ASSUME NEW d \in Calls, Blank(d) PROVE Blank(d)'
    BY <1>2, <2>1 DEF Stage, Start, TypeOK
  <2>2. CASE pc[c] # "naming"
    <3>1. client = NoClient
      BY <1>2, <2>2 DEF Stage
    <3>2. pc[e] \in Left
      BY <1>2, <2>2 DEF Stage, Start
    <3>3. QED
      BY <1>2, <2>1, <3>1, <3>2 DEF ClientRemembered
  <2>3. CASE pc[c] = "naming"
    <3>1. Remember(c)
      <4>1. pc'[c] # pc[c]
        BY <1>2, <2>3 DEF Stage, Start
      <4>2. QED
        BY <1>2, <2>3, <4>1
           DEF Next, vars, BadBody, Arrive, Remember, StartSpan, Fails, Copy, ParseJson, ScanData,
               ScanBlank, ScanEnds, Scanning, TypeOK
    <3>2. post[c].method = "initialize" /\ client' \in {post[c].client, Torn}
      BY <2>3, <3>1 DEF Staged, Remember, ParseClientInfo
    <3>3. Blank(c)'
      BY <1>2, <2>3, <3>2, TornAssumption DEF Stage, Start
    <3>4. QED
      BY <3>3
  <2>4. QED
    BY <2>2, <2>3
<1>3. QED
  <2> SUFFICES ASSUME NEW c \in Calls, Stage(c), UNCHANGED post,
                      \A d \in Calls \ {c} : pc'[d] = pc[d] /\ span'[d] = span[d]
               PROVE  ClientRemembered'
    BY <1>1, Stages
  <2>1. QED
    BY <1>2 DEF ClientRemembered

-----------------------------------------------------------------------------
(* Events *)

LEMMA BodiesTyped == \A b \in Bodies \cup {<<>>} : b \in Seq(Line)
BY BodyAssumption, EmptySeq

LEMMA Positions ==
    ASSUME NEW b \in Seq(Line)
    PROVE  Len(b) \in Nat /\ DOMAIN b = 1..Len(b)
BY LenProperties

\* How the events of a body lie to a scanner at n that is in one begun at i.
LEMMA Events ==
    ASSUME NEW b \in Seq(Line), NEW n \in 1..Len(b) + 1, Seen(b, n), NEW i, Begins(b, i, n)
    PROVE  /\ \A p, q \in DOMAIN b : p <= q /\ Event(b, p, q) /\ q + 1 >= n => p >= i
           /\ \A p, q \in DOMAIN b : p <= q /\ Event(b, p, q) /\ q + 1 = n => p = i
           /\ i < n /\ (n \in DOMAIN b => b[n].kind \in {"blank", "long"})
              => i \in DOMAIN b /\ n - 1 \in DOMAIN b /\ Event(b, i, n - 1)
           /\ ~(n \in DOMAIN b /\ b[n].kind # "long")
              => \A p, q \in DOMAIN b : Event(b, p, q) => q + 1 <= n
<1>1. Len(b) \in Nat /\ DOMAIN b = 1..Len(b) /\ n \in Nat /\ i \in 1..n
  BY Positions DEF Begins
<1>2. \A k \in 1..n - 1 : k \in DOMAIN b /\ k \in Visible(b)
  BY <1>1 DEF Seen, Visible
<1>3. \A k \in Visible(b) : k \in DOMAIN b /\ b[k].kind # "long"
  BY <1>1 DEF Visible
<1>4. n \in DOMAIN b /\ b[n].kind = "long" => \A k \in Visible(b) : k < n
  BY <1>1 DEF Visible
<1>5. ASSUME NEW p \in DOMAIN b, NEW q \in DOMAIN b, p <= q, Event(b, p, q), q + 1 >= n
      PROVE  p >= i
  <2> SUFFICES ASSUME p < i PROVE FALSE
    BY <1>1
  <2>1. i - 1 \in p..q /\ b[i - 1].kind = "blank"
    BY <1>1, <1>5 DEF Begins
  <2>2. QED
    BY <1>5, <2>1 DEF Event
<1>6. ASSUME NEW p \in DOMAIN b, NEW q \in DOMAIN b, p <= q, Event(b, p, q), q + 1 = n
      PROVE  p = i
  <2> SUFFICES ASSUME p > i PROVE FALSE
    BY <1>1, <1>5, <1>6
  <2>1. p - 1 \in i..n - 1 /\ p - 1 \in 1..n - 1
    BY <1>1, <1>6
  <2>2. b[p - 1].kind = "blank"
    BY <1>2, <1>6, <2>1 DEF Event
  <2>3. QED
    BY <2>1, <2>2 DEF Begins
<1>7. ASSUME i < n, n \in DOMAIN b => b[n].kind \in {"blank", "long"}
      PROVE  i \in DOMAIN b /\ n - 1 \in DOMAIN b /\ Event(b, i, n - 1)
  <2>1. i \in 1..n - 1 /\ n - 1 \in 1..n - 1 /\ n - 1 + 1 = n
    BY <1>1, <1>7
  <2>2. {i, n - 1} \subseteq Visible(b) /\ i \in DOMAIN b /\ n - 1 \in DOMAIN b
    BY <1>2, <2>1
  <2>3. i - 1 \in Visible(b) => b[i - 1].kind = "blank"
    BY <1>1, <1>3 DEF Begins
  <2>4. n \in Visible(b) => b[n].kind = "blank"
    BY <1>3, <1>7
  <2>5. QED
    BY <2>1, <2>2, <2>3, <2>4 DEF Event, Begins
<1>8. ASSUME ~(n \in DOMAIN b /\ b[n].kind # "long"), NEW p \in DOMAIN b, NEW q \in DOMAIN b, Event(b, p, q)
      PROVE  q + 1 <= n
  <2>1. q \in Visible(b)
    BY <1>8 DEF Event
  <2>2. CASE n \in DOMAIN b
    BY <1>1, <1>4, <1>8, <2>1, <2>2
  <2>3. CASE n \notin DOMAIN b
    BY <1>1, <2>3
  <2>4. QED
    BY <2>2, <2>3
<1>9. QED
  BY <1>5, <1>6, <1>7, <1>8

\* What an event stream's answer is, and when there is none.
LEMMA AnswerOfEvents ==
    ASSUME NEW c \in Calls, form[c] = "events"
    PROVE  /\ \A i, j \in DOMAIN body[c] :
                /\ i <= j /\ Event(body[c], i, j)
                /\ \A p, q \in DOMAIN body[c] : p <= q /\ Event(body[c], p, q) /\ EventMatch(c, p, q) # {}
                                                => i <= p
                => \A m \in EventMatch(c, i, j) : Declared(m.says) \subseteq Found(c)
           /\ (\A i, j \in DOMAIN body[c] : i <= j /\ Event(body[c], i, j) => EventMatch(c, i, j) = {})
              => Found(c) = {}
<1> DEFINE Dom == DOMAIN body[c]
           Answering(i, j) == i <= j /\ Event(body[c], i, j) /\ EventMatch(c, i, j) # {}
           First == {p \in Dom \X Dom : /\ Answering(p[1], p[2])
                                        /\ \A i, j \in Dom : Answering(i, j) => p[1] <= i}
           Said(ij) == UNION {Declared(m.says) : m \in EventMatch(c, ij[1], ij[2])}
<1>1. Found(c) = UNION {Said(ij) : ij \in First}
  BY DEF Found
<1>2. ASSUME NEW i \in Dom, NEW j \in Dom, i <= j, Event(body[c], i, j),
             \A p, q \in Dom : Answering(p, q) => i <= p,
             NEW m \in EventMatch(c, i, j)
      PROVE  Declared(m.says) \subseteq Found(c)
  <2>1. <<i, j>> \in First
    BY <1>2
  <2>2. Declared(m.says) \subseteq Said(<<i, j>>)
    OBVIOUS
  <2> HIDE DEF First, Said
  <2>3. QED
    BY <1>1, <2>1, <2>2
<1>3. ASSUME \A i, j \in Dom : ~Answering(i, j) PROVE Found(c) = {}
  <2>1. First = {}
    BY <1>3
  <2> HIDE DEF First
  <2>2. QED
    BY <1>1, <2>1
<1>4. QED
  BY <1>2, <1>3

\* No lines hold no message.
LEMMA NoLines == ASSUME NEW c \in Calls PROVE Match(c, {}) = {}
BY DEF Match, Parsed

\* The status is one the answer declares.
LEMMA StatusDeclared == \A m : Status(m) \in Declared(m.says)
BY DEF Status, Declared, IsError

\* Where an event ends, its answer decides, unless one before it did.
LEMMA EventEnds ==
    ASSUME TypeOK, NEW c \in Calls, form[c] = "events", Scans(c),
           next[c] \in DOMAIN body[c] => body[c][next[c]].kind \in {"blank", "long"}
    PROVE  /\ \A m \in Match(c, data[c]) : Status(m) \in Found(c)
           /\ Match(c, data[c]) = {} =>
                \A p, q \in DOMAIN body[c] : p <= q /\ q + 1 <= next[c] /\ Event(body[c], p, q)
                                             => EventMatch(c, p, q) = {}
           /\ Match(c, data[c]) = {} /\ ~(next[c] \in DOMAIN body[c] /\ body[c][next[c]].kind # "long")
              => Found(c) = {}
<1> DEFINE b == body[c]
           n == next[c]
<1>1. b \in Seq(Line) /\ n \in 1..Len(b) + 1 /\ Seen(b, n)
  BY BodiesTyped DEF TypeOK, Scans
<1>2. PICK i \in 1..n : Begins(b, i, n) /\ data[c] = Gathered(c, i, n)
  BY DEF Scans
<1>3. Len(b) \in Nat /\ DOMAIN b = 1..Len(b)
  BY <1>1, Positions
<1>4. \A p, q \in DOMAIN b : p <= q /\ q + 1 < n /\ Event(b, p, q) => EventMatch(c, p, q) = {}
  BY DEF Scans
<1>5. EventMatch(c, i, n - 1) = Match(c, data[c])
  BY <1>2 DEF EventMatch, Gathered
<1>6. ASSUME NEW m \in Match(c, data[c]) PROVE Status(m) \in Found(c)
  <2>1. i < n
    <3> SUFFICES ASSUME i = n PROVE FALSE
      BY <1>1, <1>2, <1>3
    <3>1. data[c] = {}
      BY <1>1, <1>2, <1>3 DEF Gathered
    <3>2. QED
      BY <1>6, <3>1, NoLines
  <2>2. i \in DOMAIN b /\ n - 1 \in DOMAIN b /\ Event(b, i, n - 1) /\ i <= n - 1
    BY <1>1, <1>2, <1>3, <2>1, Events
  <2>3. ASSUME NEW p \in DOMAIN b, NEW q \in DOMAIN b, p <= q, Event(b, p, q), EventMatch(c, p, q) # {}
        PROVE  i <= p
    <3>1. q + 1 >= n
      BY <1>1, <1>3, <1>4, <2>3
    <3>2. QED
      BY <1>1, <1>2, <2>3, <3>1, Events
  <2>4. Declared(m.says) \subseteq Found(c)
    BY <1>5, <1>6, <2>2, <2>3, AnswerOfEvents
  <2>5. QED
    BY <2>4, StatusDeclared
<1>7. ASSUME Match(c, data[c]) = {}, NEW p \in DOMAIN b, NEW q \in DOMAIN b,
             p <= q, q + 1 <= n, Event(b, p, q)
      PROVE  EventMatch(c, p, q) = {}
  <2>1. CASE q + 1 < n
    BY <1>4, <1>7, <2>1
  <2>2. CASE q + 1 = n
    <3>1. p = i
      BY <1>1, <1>2, <1>7, <2>2, Events
    <3>2. q = n - 1
      BY <1>1, <1>3, <2>2
    <3>3. QED
      BY <1>5, <1>7, <3>1, <3>2
  <2>3. QED
    BY <1>1, <1>3, <1>7, <2>1, <2>2
<1>8. ASSUME Match(c, data[c]) = {}, ~(n \in DOMAIN b /\ b[n].kind # "long") PROVE Found(c) = {}
  <2>1. \A p, q \in DOMAIN b : Event(b, p, q) => q + 1 <= n
    BY <1>1, <1>2, <1>8, Events
  <2>2. QED
    BY <1>7, <1>8, <2>1, AnswerOfEvents
<1>9. QED
  BY <1>6, <1>7, <1>8

\* What is said of a call's response speaks of nothing else.
LEMMA SameBody ==
    ASSUME NEW c \in Calls, UNCHANGED <<post, body[c]>>
    PROVE  /\ \A ds : Match(c, ds)' = Match(c, ds)
           /\ \A i, j : EventMatch(c, i, j)' = EventMatch(c, i, j)
           /\ \A i, n : Gathered(c, i, n)' = Gathered(c, i, n)
           /\ form'[c] = form[c] => Found(c)' = Found(c)
<1>1. \A ds : Match(c, ds)' = Match(c, ds)
  BY DEF Match, Taken
<1>2. \A i, j : EventMatch(c, i, j)' = EventMatch(c, i, j)
  BY DEF EventMatch, Match, Taken
<1>3. \A i, n : Gathered(c, i, n)' = Gathered(c, i, n)
  BY DEF Gathered
<1>4. form'[c] = form[c] => Found(c)' = Found(c)
  BY DEF Found, EventMatch, Match, Taken, Document
<1>5. QED
  BY <1>1, <1>2, <1>3, <1>4

LEMMA OthersParse ==
    ASSUME NEW d \in Calls, UNCHANGED <<post, pc[d], span[d], form[d], body[d], next[d], data[d]>>, Parses(d)
    PROVE  Parses(d)'
<1>1. /\ Found(d)' = Found(d)
      /\ \A i, j : EventMatch(d, i, j)' = EventMatch(d, i, j)
      /\ \A i, n : Gathered(d, i, n)' = Gathered(d, i, n)
  BY SameBody
<1>2. Scans(d) => Scans(d)'
  BY <1>1 DEF Scans
<1>3. QED
  BY <1>1, <1>2 DEF Parses, Reads, Decided

\* After a blank line an event begins.
LEMMA AfterBlank ==
    ASSUME NEW b, NEW n \in Nat \ {0}, b[n].kind = "blank"
    PROVE  Begins(b, n + 1, n + 1)
<1>1. n + 1 \in 1..n + 1 /\ n + 1 - 1 = n
  OBVIOUS
<1>2. b[n + 1 - 1].kind = "blank"
  BY <1>1
<1>3. \A k \in n + 1..n + 1 - 1 : b[k].kind # "blank"
  OBVIOUS
<1>4. QED
  BY <1>1, <1>2, <1>3 DEF Begins

\* One line on, the scanner is where it was, or at the start of an event.
LEMMA ScansOn ==
    ASSUME TypeOK, NEW c \in Calls, form[c] = "events", Scans(c), UNCHANGED <<post, body[c]>>,
           Scanning(c), next'[c] = next[c] + 1,
           \/ /\ body[c][next[c]].kind # "blank"
              /\ data'[c] = IF IsData(body[c][next[c]]) THEN data[c] \cup {next[c]} ELSE data[c]
           \/ /\ body[c][next[c]].kind = "blank" /\ data'[c] = {}
              /\ Match(c, data[c]) = {}
    PROVE  Scans(c)'
<1> DEFINE b == body[c]
           n == next[c]
<1>1. b \in Seq(Line) /\ n \in 1..Len(b) + 1 /\ Seen(b, n)
  BY BodiesTyped DEF TypeOK, Scans
<1>2. Len(b) \in Nat /\ DOMAIN b = 1..Len(b)
  BY <1>1, Positions
<1>3. n \in DOMAIN b /\ b[n].kind # "long" /\ n \in Nat \ {0}
  BY <1>1, <1>2 DEF Scanning
<1>4. n + 1 \in 1..Len(b) + 1 /\ Seen(b, n + 1)
  <2>1. n + 1 \in 1..Len(b) + 1
    BY <1>2, <1>3
  <2>2. \A k \in 1..n + 1 - 1 : k \in 1..n - 1 \/ k = n
    BY <1>3
  <2>3. QED
    BY <1>1, <1>3, <2>1, <2>2 DEF Seen
<1>5. PICK i \in 1..n : Begins(b, i, n) /\ data[c] = Gathered(c, i, n)
  BY DEF Scans
<1>6. \E k \in 1..n + 1 : Begins(b, k, n + 1) /\ data'[c] = Gathered(c, k, n + 1)
  <2>1. CASE b[n].kind # "blank"
    <3>1. i \in 1..n + 1 /\ Begins(b, i, n + 1)
      BY <1>3, <1>5, <2>1 DEF Begins
    <3>2. Gathered(c, i, n + 1) = IF IsData(b[n]) THEN Gathered(c, i, n) \cup {n} ELSE Gathered(c, i, n)
      <4>1. i..n + 1 - 1 = (i..n - 1) \cup {n}
        BY <1>3, <1>5
      <4>2. QED
        BY <4>1 DEF Gathered
    <3>3. QED
      BY <1>5, <2>1, <3>1, <3>2
  <2>2. CASE b[n].kind = "blank"
    <3>1. n + 1 \in 1..n + 1 /\ n + 1 - 1 = n /\ (n + 1)..(n + 1 - 1) = {}
      BY <1>3
    <3>2. Begins(b, n + 1, n + 1)
      BY <1>3, <2>2, AfterBlank
    <3>3. Gathered(c, n + 1, n + 1) = {}
      BY <3>1 DEF Gathered
    <3>4. QED
      BY <2>2, <3>1, <3>2, <3>3
  <2>3. QED
    BY <2>1, <2>2
<1>7. ASSUME NEW p \in DOMAIN b, NEW q \in DOMAIN b, p <= q, q + 1 < n + 1, Event(b, p, q)
      PROVE  EventMatch(c, p, q) = {}
  <2>1. CASE q + 1 < n
    BY <1>7, <2>1 DEF Scans
  <2>2. CASE q + 1 = n
    <3>1. n \in Visible(b)
      BY <1>2, <1>3, <1>4 DEF Visible, Seen
    <3>2. b[n].kind = "blank"
      BY <1>7, <2>2, <3>1 DEF Event
    <3>3. q + 1 <= n
      BY <1>3, <2>2
    <3>4. QED
      BY <1>7, <3>2, <3>3, EventEnds
  <2>3. QED
    BY <1>2, <1>3, <1>7, <2>1, <2>2
<1>8. QED
  BY <1>4, <1>6, <1>7, SameBody DEF Scans

LEMMA ParsesStep ==
    ASSUME TypeOK, Staged, NEW c \in Calls, Parses(c), [Next]_vars
    PROVE  Parses(c)'
<1> USE DEF TypeOK
<1> DEFINE Same(d) == UNCHANGED <<post, pc[d], span[d], form[d], body[d], next[d], data[d]>>
<1>0. Same(c) => Parses(c)'
  BY OthersParse
<1>1. ASSUME NEW d \in Calls, BadBody(d) \/ Arrive(d) \/ Remember(d) \/ StartSpan(d) \/ Fails(d)
      PROVE  Parses(c)'
  <2>1. UNCHANGED <<post, form, body, next, data>> /\ pc[d] \notin {"parse", "done"}
        /\ pc'[d] # "parse" /\ (d # c => pc'[c] = pc[c] /\ span'[c] = span[c])
    BY <1>1 DEF BadBody, Arrive, Remember, StartSpan, Fails, Start
  <2>2. CASE d # c
    BY <1>0, <2>1, <2>2
  <2>3. CASE d = c
    BY <2>1, <2>3 DEF Parses, Reads, Decided
  <2>4. QED
    BY <2>2, <2>3
<1>2. ASSUME NEW d \in Calls, Copy(d) PROVE Parses(c)'
  <2>1. pc[d] = "send" /\ UNCHANGED <<post, span, next, data>>
    BY <1>2 DEF Copy
  <2>2. CASE ~Traced(d)
    <3>1. pc' = [pc EXCEPT ![d] = "done"] /\ UNCHANGED <<form, body>>
      BY <1>2, <2>2 DEF Copy
    <3>2. CASE d # c
      BY <1>0, <2>1, <3>1, <3>2
    <3>3. CASE d = c
      BY <2>1, <3>1, <3>3 DEF Parses, Reads, Decided
    <3>4. QED
      BY <3>2, <3>3
  <2>3. CASE Traced(d)
    <3>1. PICK f \in {"json", "events"}, b \in Bodies :
             /\ form' = [form EXCEPT ![d] = f] /\ body' = [body EXCEPT ![d] = b]
             /\ pc' = [pc EXCEPT ![d] = IF b = <<>> THEN "done" ELSE "parse"]
      BY <1>2, <2>3 DEF Copy
    <3>2. CASE d # c
      BY <1>0, <2>1, <3>1, <3>2
    <3>3. CASE d = c
      <4>1. form'[c] = f /\ body'[c] = b /\ next'[c] = 1 /\ data'[c] = {}
            /\ pc'[c] = IF b = <<>> THEN "done" ELSE "parse"
        BY <2>1, <3>1, <3>3 DEF Parses, Reads
      <4>2. Scans(c)'
        <5>1. Len(b) \in Nat /\ DOMAIN b = 1..Len(b)
          BY BodiesTyped, Positions
        <5>2. 1 \in 1..Len(b) + 1 /\ Seen(b, 1) /\ 1 \in 1..1 /\ Begins(b, 1, 1)
          BY <5>1 DEF Seen, Begins
        <5>3. Gathered(c, 1, 1)' = {}
          BY DEF Gathered
        <5>4. \A q \in DOMAIN b : ~(q + 1 < 1)
          BY <5>1
        <5>5. QED
          BY <4>1, <5>2, <5>3, <5>4 DEF Scans
      <4>3. QED
        BY <4>1, <4>2 DEF Parses, Reads, Decided
    <3>4. QED
      BY <3>2, <3>3
  <2>4. QED
    BY <2>2, <2>3
\* The end of a parse: the span is the answer's, or abandoned.
<1>3. ASSUME NEW d \in Calls, pc[d] = "parse", UNCHANGED <<post, form, body>>, pc' = [pc EXCEPT ![d] = "done"],
             \A e \in Calls \ {d} : span'[e] = span[e] /\ next'[e] = next[e] /\ data'[e] = data[e],
             d = c => /\ Found(c) # {} => span'[c] \in Found(c)
                      /\ Found(c) = {} => span'[c] = IF form[c] = "events" THEN "abandoned" ELSE "open"
      PROVE  Parses(c)'
  <2>1. CASE d # c
    BY <1>0, <1>3, <2>1
  <2>2. CASE d = c
    <3>1. Found(c)' = Found(c)
      BY <1>3, SameBody
    <3>2. body[c] # <<>> /\ form[c] # "none"
      BY <1>3, <2>2 DEF Parses, Reads
    <3>3. pc'[c] = "done"
      BY <1>3, <2>2
    <3>4. Reads(c)'
      BY <1>3, <3>2, <3>3 DEF Reads
    <3>5. Decided(c)'
      BY <1>3, <2>2, <3>1 DEF Decided
    <3>6. QED
      BY <3>4, <3>5 DEF Parses
  <2>3. QED
    BY <2>1, <2>2
<1>4. ASSUME NEW d \in Calls, ParseJson(d) PROVE Parses(c)'
  <2>1. /\ pc[d] = "parse" /\ form[d] = "json" /\ pc' = [pc EXCEPT ![d] = "done"]
        /\ UNCHANGED <<post, form, body, next, data>>
        /\ \/ Match(d, Document(d)) = {} /\ span' = span
           \/ \E m \in Match(d, Document(d)) : span' = [span EXCEPT ![d] = Status(m)]
    BY <1>4 DEF ParseJson
  <2>2. Found(d) = UNION {Declared(m.says) : m \in Match(d, Document(d))}
    BY <2>1 DEF Found
  <2>3. /\ Found(d) # {} => span'[d] \in Found(d)
        /\ Found(d) = {} => span'[d] = "open"
    <3>1. CASE Match(d, Document(d)) = {} /\ span' = span
      BY <2>1, <2>2, <3>1 DEF Staged
    <3>2. ASSUME NEW m \in Match(d, Document(d)), span' = [span EXCEPT ![d] = Status(m)]
          PROVE  Found(d) # {} /\ span'[d] \in Found(d)
      <4>1. Status(m) \in Found(d)
        BY <2>2, StatusDeclared
      <4>2. QED
        BY <3>2, <4>1
    <3>3. QED
      BY <2>1, <3>1, <3>2
  <2>4. \A e \in Calls \ {d} : span'[e] = span[e]
    BY <2>1
  <2>5. QED
    BY <1>3, <2>1, <2>3, <2>4
<1>5. ASSUME NEW d \in Calls, ScanData(d) PROVE Parses(c)'
  <2>1. /\ UNCHANGED <<post, pc, span, form, body>> /\ Scanning(d) /\ body[d][next[d]].kind # "blank"
        /\ next' = [next EXCEPT ![d] = next[d] + 1]
        /\ data' = IF IsData(body[d][next[d]]) THEN [data EXCEPT ![d] = data[d] \cup {next[d]}] ELSE data
    BY <1>5 DEF ScanData
  <2>2. CASE d # c
    BY <1>0, <2>1, <2>2
  <2>3. CASE d = c
    <3>1. pc[c] = "parse" /\ form[c] = "events" /\ Scans(c) /\ body[c] # <<>>
      BY <2>1, <2>3 DEF Scanning, Parses, Reads
    <3>2. next'[c] = next[c] + 1
          /\ data'[c] = IF IsData(body[c][next[c]]) THEN data[c] \cup {next[c]} ELSE data[c]
      BY <2>1, <2>3
    <3>3. Scans(c)'
      BY <2>1, <2>3, <3>1, <3>2, ScansOn
    <3>4. QED
      BY <2>1, <3>1, <3>3 DEF Parses, Reads, Decided
  <2>4. QED
    BY <2>2, <2>3
<1>6. ASSUME NEW d \in Calls, ScanBlank(d) PROVE Parses(c)'
  <2>1. /\ UNCHANGED <<post, form, body>> /\ Scanning(d) /\ body[d][next[d]].kind = "blank"
        /\ data' = [data EXCEPT ![d] = {}] /\ pc[d] = "parse" /\ form[d] = "events"
    BY <1>6 DEF ScanBlank, Scanning
  <2>2. CASE Match(d, data[d]) = {} /\ next' = [next EXCEPT ![d] = next[d] + 1] /\ UNCHANGED <<pc, span>>
    <3>1. CASE d # c
      BY <1>0, <2>1, <2>2, <3>1
    <3>2. CASE d = c
      <4>1. Scans(c) /\ body[c] # <<>>
        BY <2>1, <3>2 DEF Parses, Reads
      <4>2. next'[c] = next[c] + 1 /\ data'[c] = {}
        BY <2>1, <2>2, <3>2
      <4>3. Scans(c)'
        BY <2>1, <2>2, <3>2, <4>1, <4>2, ScansOn
      <4>4. QED
        BY <2>1, <2>2, <3>2, <4>1, <4>3 DEF Parses, Reads, Decided
    <3>3. QED
      BY <3>1, <3>2
  <2>3. ASSUME NEW m \in Match(d, data[d]), span' = [span EXCEPT ![d] = Status(m)],
               pc' = [pc EXCEPT ![d] = "done"], next' = next
        PROVE  Parses(c)'
    <3>1. d = c => span'[c] \in Found(c)
      <4> SUFFICES ASSUME d = c PROVE Status(m) \in Found(c)
        BY <2>3
      <4>1. Scans(c)
        BY <2>1 DEF Parses, Reads
      <4>2. QED
        BY <2>1, <2>3, <4>1, EventEnds
    <3>2. \A e \in Calls \ {d} : span'[e] = span[e] /\ next'[e] = next[e] /\ data'[e] = data[e]
      BY <2>1, <2>3
    <3>3. QED
      BY <1>3, <2>1, <2>3, <3>1, <3>2
  <2>4. QED
    BY <1>6, <2>2, <2>3 DEF ScanBlank
<1>7. ASSUME NEW d \in Calls, ScanEnds(d) PROVE Parses(c)'
  <2>1. /\ UNCHANGED <<post, form, body, next>> /\ pc[d] = "parse" /\ form[d] = "events" /\ ~Scanning(d)
        /\ data' = [data EXCEPT ![d] = {}] /\ pc' = [pc EXCEPT ![d] = "done"]
        /\ \/ Match(d, data[d]) = {} /\ span' = [span EXCEPT ![d] = "abandoned"]
           \/ \E m \in Match(d, data[d]) : span' = [span EXCEPT ![d] = Status(m)]
    BY <1>7 DEF ScanEnds
  <2>2. ASSUME d = c PROVE /\ Found(c) # {} => span'[c] \in Found(c)
                           /\ Found(c) = {} => span'[c] = "abandoned"
    <3>1. Scans(c) /\ body[c] \in Seq(Line)
      BY <2>1, <2>2, BodiesTyped DEF Parses, Reads
    <3>2. ~(next[c] \in DOMAIN body[c] /\ body[c][next[c]].kind # "long")
      <4>1. DOMAIN body[c] = 1..Len(body[c]) /\ Len(body[c]) \in Nat
        BY <3>1, Positions
      <4>2. QED
        BY <2>1, <2>2, <4>1 DEF Scanning
    <3>3. CASE Match(c, data[c]) = {} /\ span' = [span EXCEPT ![c] = "abandoned"]
      <4>1. Found(c) = {}
        BY <2>1, <2>2, <3>1, <3>2, <3>3, EventEnds
      <4>2. QED
        BY <3>3, <4>1
    <3>4. ASSUME NEW m \in Match(c, data[c]), span' = [span EXCEPT ![c] = Status(m)]
          PROVE  span'[c] \in Found(c)
      <4>1. Status(m) \in Found(c)
        BY <2>1, <2>2, <3>1, <3>2, EventEnds
      <4>2. QED
        BY <3>4, <4>1
    <3>5. QED
      BY <2>1, <2>2, <3>3, <3>4
  <2>3. \A e \in Calls \ {d} : span'[e] = span[e] /\ next'[e] = next[e] /\ data'[e] = data[e]
    BY <2>1
  <2>4. QED
    BY <1>3, <2>1, <2>2, <2>3
<1>8. CASE UNCHANGED vars
  BY <1>0, <1>8 DEF vars
<1>9. QED
  BY <1>1, <1>2, <1>4, <1>5, <1>6, <1>7, <1>8 DEF Next

-----------------------------------------------------------------------------
(* What the code finds is the answer *)

\* A traced call has an id with a key.
LEMMA TracedKeyed == \A c \in Calls : Traced(c) => Keyed(post[c].id)
BY DEF Traced

\* In a clear response finishIfMatch takes no message but the call's answer.
LEMMA ClearMatches ==
    ASSUME NEW c \in Calls, Clear(c), Keyed(post[c].id), NEW ds \in SUBSET DOMAIN body[c]
    PROVE  Match(c, ds) = Own(c, ds)
<1>1. ASSUME NEW m \in Parsed(body[c], ds)
      PROVE  \E i \in ds : /\ body[c][i].kind \in {"doc", "head"}
                         /\ m = [id |-> body[c][i].id, says |-> body[c][i].says]
  BY <1>1 DEF Parsed
<1>2. ASSUME NEW m \in Parsed(body[c], ds) PROVE Taken(c, m) <=> AnswerTo(c, m)
  <2>1. PICK i \in ds : /\ body[c][i].kind \in {"doc", "head"}
                        /\ m = [id |-> body[c][i].id, says |-> body[c][i].says]
    BY <1>1, <1>2
  <2>2. i \in DOMAIN body[c] /\ m.id = body[c][i].id /\ m.says = body[c][i].says
    BY <2>1
  <2>3. Taken(c, m) => AnswerTo(c, m)
    BY <2>1, <2>2 DEF Clear, Taken, AnswerTo
  <2>4. AnswerTo(c, m) => Taken(c, m)
    BY DEF Taken, AnswerTo
  <2>5. QED
    BY <2>3, <2>4
<1>3. QED
  BY <1>2 DEF Match, Own

\* So what it finds there is what the call's first own answer declares.
LEMMA ClearFinds ==
    ASSUME TypeOK, NEW c \in Calls, Clear(c), Keyed(post[c].id)
    PROVE  Found(c) = Answer(c)
<1>1. Match(c, Document(c)) = Own(c, Document(c))
  <2>1. Document(c) \subseteq DOMAIN body[c]
    BY DEF Document
  <2>2. QED
    BY <2>1, ClearMatches
<1>2. ASSUME NEW i \in DOMAIN body[c], NEW j \in DOMAIN body[c]
      PROVE  EventMatch(c, i, j) = EventAnswer(c, i, j)
  <2>1. body[c] \in Seq(Line)
    BY BodiesTyped DEF TypeOK
  <2>2. Len(body[c]) \in Nat /\ DOMAIN body[c] = 1..Len(body[c])
    BY <2>1, Positions
  <2>3. {k \in i..j : IsData(body[c][k])} \subseteq DOMAIN body[c]
    BY <1>2, <2>2
  <2>4. QED
    BY <2>3, ClearMatches DEF EventMatch, EventAnswer
<1> DEFINE Dom == DOMAIN body[c]
           FirstFound == {p \in Dom \X Dom :
               /\ p[1] <= p[2] /\ Event(body[c], p[1], p[2]) /\ EventMatch(c, p[1], p[2]) # {}
               /\ \A i, j \in Dom : i <= j /\ Event(body[c], i, j) /\ EventMatch(c, i, j) # {} => p[1] <= i}
           FirstOwn == {p \in Dom \X Dom :
               /\ p[1] <= p[2] /\ Event(body[c], p[1], p[2]) /\ EventAnswer(c, p[1], p[2]) # {}
               /\ \A i, j \in Dom : i <= j /\ Event(body[c], i, j) /\ EventAnswer(c, i, j) # {} => p[1] <= i}
           Finds(p) == UNION {Declared(m.says) : m \in EventMatch(c, p[1], p[2])}
           Owns(p) == UNION {Declared(m.says) : m \in EventAnswer(c, p[1], p[2])}
<1>3. FirstFound = FirstOwn
  BY <1>2
<1>4. \A p \in FirstOwn : Finds(p) = Owns(p)
  BY <1>2
<1>5. CASE form[c] = "json"
  BY <1>1, <1>5 DEF Found, Answer
<1>6. CASE form[c] # "json"
  <2>1. Found(c) = UNION {Finds(p) : p \in FirstFound}
    BY <1>6 DEF Found
  <2>2. Answer(c) = UNION {Owns(p) : p \in FirstOwn}
    BY <1>6 DEF Answer
  <2> HIDE DEF FirstFound, FirstOwn, Finds, Owns
  <2>3. {Finds(p) : p \in FirstOwn} = {Owns(p) : p \in FirstOwn}
    BY <1>4
  <2>4. QED
    BY <1>3, <2>1, <2>2, <2>3
<1>7. QED
  BY <1>5, <1>6

-----------------------------------------------------------------------------
(* The theorems *)

LEMMA InvInit == Init => IInv
<1> SUFFICES ASSUME Init PROVE IInv
  OBVIOUS
<1>1. TypeOK /\ Staged /\ ClientRemembered
  BY TypeInit DEF Init, Staged, ClientRemembered
<1>2. \A c \in Calls : Parses(c)
  BY DEF Init, Parses, Reads, Decided
<1>3. QED
  BY <1>1, <1>2 DEF IInv

LEMMA InvStep == IInv /\ [Next]_vars => IInv'
<1> SUFFICES ASSUME IInv, [Next]_vars PROVE IInv'
  OBVIOUS
<1>1. TypeOK' /\ Staged' /\ ClientRemembered'
  BY TypeStep, StagedStep, ClientStep DEF IInv
<1>2. \A c \in Calls : Parses(c)'
  BY ParsesStep DEF IInv
<1>3. QED
  BY <1>1, <1>2 DEF IInv

\* Every reachable state is one of the invariant.
THEOREM Invariance == Spec => []IInv
BY InvInit, InvStep, PTL DEF Spec

\* The variables keep their types.
THEOREM TypeCorrect == Spec => []TypeOK
<1>1. IInv => TypeOK
  BY DEF IInv
<1>2. QED
  BY Invariance, <1>1, PTL

\* Whatever requests cross and whatever the upstream answers, only an
\* initialize makes the proxy forget its client.
THEOREM ClientKept == Spec => []ClientRemembered
<1>1. IInv => ClientRemembered
  BY DEF IInv
<1>2. QED
  BY Invariance, <1>1, PTL

LEMMA SpanSteps == IInv /\ [Next]_vars => [\A c \in Calls : SpanStep(c)]_vars
<1> SUFFICES ASSUME IInv, [Next]_vars, NEW c \in Calls PROVE SpanStep(c)
  OBVIOUS
<1>1. CASE UNCHANGED <<post, pc, span, client>>
  BY <1>1 DEF SpanStep
<1>2. ASSUME NEW d \in Calls, Stage(d), \A e \in Calls \ {d} : pc'[e] = pc[e] /\ span'[e] = span[e]
      PROVE  SpanStep(c)
  BY <1>2 DEF Stage, SpanStep, IInv, Staged, Final
<1>3. QED
  BY <1>1, <1>2, Stages DEF IInv

\* No span is ended twice, changed after its end, or ended before its handler's
\* last step, which the ledger leaves open.
THEOREM SpansLive == Spec => SpanLife
BY Invariance, SpanSteps, PTL DEF Spec, SpanLife

\* A handler that has read a response was to trace its call.
LEMMA ReadIsTraced ==
    ASSUME IInv, NEW c \in Calls, pc[c] = "done", body[c] # <<>>
    PROVE  Keyed(post[c].id)
<1>1. Decided(c) /\ (span[c] # "none" => Traced(c))
  BY DEF IInv, Parses, Staged
<1>2. Found(c) \subseteq {"ok", "error"}
  BY DEF Found, Declared
<1>3. span[c] # "none"
  BY <1>1, <1>2 DEF Decided
<1>4. QED
  BY <1>1, <1>3, TracedKeyed

\* In a clear response the answer that was found is the call's own.
LEMMA DecidedByOwn ==
    ASSUME IInv, NEW c \in Calls, pc[c] = "done", body[c] # <<>>, Clear(c)
    PROVE  Found(c) = Answer(c)
BY ReadIsTraced, ClearFinds DEF IInv

\* A response that holds its call's own answer ends the span with the outcome
\* of the first one, an event stream without one abandons it, however long the
\* body and whatever surrounds the answer, unless some message only passes for
\* it: the test of the code on the key alone is right wherever it can be.
THEOREM AnswerFound == Spec => []AnswerDecides
<1>1. IInv => AnswerDecides
  <2> SUFFICES ASSUME IInv, NEW c \in Calls, pc[c] = "done", body[c] # <<>>, Clear(c)
               PROVE  /\ Answer(c) # {} => span[c] \in Answer(c)
                      /\ Answer(c) = {} /\ form[c] = "events" => span[c] = "abandoned"
    BY DEF AnswerDecides
  <2>1. Decided(c) /\ Found(c) = Answer(c)
    BY DecidedByOwn DEF IInv, Parses
  <2>2. QED
    BY <2>1 DEF Decided
<1>2. QED
  BY Invariance, <1>1, PTL

\* TracedCallsEnd but for what streamable_leak shows, and the leak just there: a
\* traced call that was sent leaves its handler without a final status if and
\* only if its response was empty, or a JSON body in which nothing is found that
\* passes for its answer.
Unanswered(c) == body[c] = <<>> \/ (form[c] = "json" /\ Found(c) = {})

LeaksIfUnanswered ==
    \A c \in Calls :
        /\ pc[c] = "failed" => span[c] # "open"
        /\ pc[c] = "done" /\ span[c] # "none" =>
             (span[c] \notin Final <=> Unanswered(c))

\* An empty body comes with the handler's return, which leaves the span open.
EmptyLeaks == \A c \in Calls :
    pc[c] = "done" /\ body[c] = <<>> => span[c] \in {"none", "open"}

LEMMA EmptyStep ==
    ASSUME IInv, EmptyLeaks, [Next]_vars
    PROVE  EmptyLeaks'
<1> USE DEF IInv, TypeOK, EmptyLeaks
<1> SUFFICES ASSUME NEW c \in Calls, pc'[c] = "done", body'[c] = <<>>
             PROVE  span'[c] \in {"none", "open"}
  OBVIOUS
<1>1. CASE UNCHANGED <<pc[c], body[c], span[c]>>
  BY <1>1
<1>2. CASE UNCHANGED <<body[c]>> /\ pc[c] = "parse"
  BY <1>2 DEF Parses, Reads
<1>3. CASE pc[c] \in {"idle", "send"} /\ UNCHANGED span
  BY <1>3 DEF Staged
<1>4. ASSUME NEW d \in Calls, BadBody(d) \/ Copy(d)
      PROVE  \/ UNCHANGED <<pc[c], body[c], span[c]>>
             \/ pc[c] \in {"idle", "send"} /\ UNCHANGED span
  BY <1>4 DEF BadBody, Copy
<1>5. ASSUME NEW d \in Calls, Arrive(d) \/ Remember(d) \/ StartSpan(d) \/ Fails(d)
      PROVE  UNCHANGED <<pc[c], body[c], span[c]>>
  <2>1. d # c
    BY <1>5 DEF Arrive, Start, Remember, StartSpan, Fails
  <2>2. QED
    BY <1>5, <2>1 DEF Arrive, Start, Remember, StartSpan, Fails
<1>6. ASSUME NEW d \in Calls, ParseJson(d) \/ ScanData(d) \/ ScanBlank(d) \/ ScanEnds(d)
      PROVE  \/ UNCHANGED <<pc[c], body[c], span[c]>>
             \/ UNCHANGED <<body[c]>> /\ pc[c] = "parse"
  <2>1. pc[d] = "parse" /\ UNCHANGED body
    BY <1>6 DEF ParseJson, ScanData, ScanBlank, ScanEnds, Scanning
  <2>2. CASE d = c
    BY <2>1, <2>2
  <2>3. CASE d # c /\ ParseJson(d)
    BY <2>1, <2>3 DEF ParseJson
  <2>4. CASE d # c /\ ScanData(d)
    BY <2>1, <2>4 DEF ScanData
  <2>5. CASE d # c /\ ScanBlank(d)
    BY <2>1, <2>5 DEF ScanBlank
  <2>6. CASE d # c /\ ScanEnds(d)
    BY <2>1, <2>6 DEF ScanEnds
  <2>7. QED
    BY <1>6, <2>2, <2>3, <2>4, <2>5, <2>6
<1>7. CASE UNCHANGED vars
  BY <1>1, <1>7 DEF vars
<1>8. QED
  BY <1>1, <1>2, <1>3, <1>4, <1>5, <1>6, <1>7 DEF Next

THEOREM LeaksFound == Spec => []LeaksIfUnanswered
<1>1. Init => EmptyLeaks
  BY DEF Init, EmptyLeaks
<1>2. IInv /\ EmptyLeaks /\ [Next]_vars => EmptyLeaks'
  BY EmptyStep
<1>3. IInv /\ EmptyLeaks => LeaksIfUnanswered
  <2> SUFFICES ASSUME IInv, EmptyLeaks, NEW c \in Calls
               PROVE  /\ pc[c] = "failed" => span[c] # "open"
                      /\ pc[c] = "done" /\ span[c] # "none" =>
                           (span[c] \notin Final <=> Unanswered(c))
    BY DEF LeaksIfUnanswered
  <2>1. CASE pc[c] = "failed"
    BY <2>1 DEF IInv, Staged
  <2>2. CASE pc[c] = "done" /\ body[c] = <<>>
    BY <2>2 DEF EmptyLeaks, Unanswered, Final
  <2>3. CASE pc[c] = "done" /\ body[c] # <<>>
    <3>1. /\ Found(c) # {} => span[c] \in Found(c)
          /\ Found(c) = {} => span[c] = IF form[c] = "events" THEN "abandoned" ELSE "open"
      BY <2>3 DEF IInv, Parses, Decided
    <3>2. Found(c) \subseteq {"ok", "error"}
      BY DEF Found, Declared
    <3>3. form[c] # "events" => form[c] = "json"
      BY <2>3 DEF IInv, TypeOK, Parses, Reads
    <3>4. QED
      BY <2>3, <3>1, <3>2, <3>3 DEF Unanswered, Final
  <2>4. QED
    BY <2>1, <2>2, <2>3
<1>4. QED
  BY <1>1, <1>2, <1>3, Invariance, PTL DEF Spec

-----------------------------------------------------------------------------
(* The span ledger *)

\* No response declares anything before it is copied.
LEMMA NoAnswerYet ==
    ASSUME NEW c \in Calls, form[c] = "none", body[c] = <<>>
    PROVE  Answer(c) = {} /\ Clear(c)
<1>1. DOMAIN body[c] = {}
  OBVIOUS
<1>2. QED
  BY <1>1 DEF Answer, Clear

\* An answer declares an outcome, not a failure.
LEMMA AnswerSays == \A c \in Calls : Answer(c)' \subseteq {"ok", "error"}
BY DEF Answer, Declared

\* What a call's own answer is lies in its response.
LEMMA SameAnswer ==
    ASSUME NEW c \in Calls, UNCHANGED <<post, form[c], body[c]>>
    PROVE  Answer(c)' = Answer(c) /\ (Clear(c)' <=> Clear(c))
BY DEF Answer, EventAnswer, Own, AnswerTo, Document, Clear, Taken

\* What a step does to a call's response and to where its handler stands.
Heard(c) ==
    \/ UNCHANGED <<form[c], body[c], pc[c]>>
    \/ UNCHANGED <<form[c], body[c]>> /\ pc[c] # "failed"
    \/ pc[c] = "send" /\ form'[c] # "none"

LEMMA Hears ==
    ASSUME TypeOK, NEW c \in Calls, [Next]_vars
    PROVE  Heard(c) /\ UNCHANGED post
<1> USE DEF TypeOK
<1>1. ASSUME NEW d \in Calls, BadBody(d) \/ Arrive(d) \/ Remember(d) \/ StartSpan(d) \/ Fails(d)
      PROVE  Heard(c) /\ UNCHANGED post
  BY <1>1 DEF Heard, BadBody, Arrive, Remember, StartSpan, Fails
<1>2. ASSUME NEW d \in Calls, ParseJson(d) \/ ScanData(d) \/ ScanBlank(d) \/ ScanEnds(d)
      PROVE  Heard(c) /\ UNCHANGED post
  <2>1. UNCHANGED <<form, body, post>> /\ pc[d] = "parse" /\ (d # c => pc'[c] = pc[c])
    BY <1>2 DEF ParseJson, ScanData, ScanBlank, ScanEnds, Scanning
  <2>2. QED
    BY <2>1 DEF Heard
<1>3. ASSUME NEW d \in Calls, Copy(d) PROVE Heard(c) /\ UNCHANGED post
  <2>1. CASE ~Traced(d)
    BY <1>3, <2>1 DEF Copy, Heard
  <2>2. CASE Traced(d)
    <3>1. PICK f \in {"json", "events"}, b \in Bodies :
             /\ form' = [form EXCEPT ![d] = f] /\ body' = [body EXCEPT ![d] = b]
             /\ pc' = [pc EXCEPT ![d] = IF b = <<>> THEN "done" ELSE "parse"]
      BY <1>3, <2>2 DEF Copy
    <3>2. QED
      BY <1>3, <3>1 DEF Copy, Heard
  <2>3. QED
    BY <2>1, <2>2
<1>4. CASE UNCHANGED vars
  BY <1>4 DEF vars, Heard
<1>5. QED
  BY <1>1, <1>2, <1>3, <1>4 DEF Next

\* The facts the ledger has of a call: any of them, once its response holds a
\* message that only passes for its answer.
LedgerFate(c) == IF Clear(c) THEN Fate(c)
                 ELSE {"ok", "error", "failed", "cut", "cutByClient", "late"}

LEMMA FateSays == \A c \in Calls : Fate(c)' \subseteq {"ok", "error", "failed", "cut"}
BY AnswerSays DEF Fate

LEMMA FateGrows ==
    ASSUME TypeOK, NEW c \in Calls, Parses(c), [Next]_vars
    PROVE  LedgerFate(c) \subseteq LedgerFate(c)'
<1>1. Heard(c) /\ UNCHANGED post
  BY Hears
<1>2. CASE UNCHANGED <<form[c], body[c]>>
  <2>1. Answer(c)' = Answer(c) /\ (Clear(c)' <=> Clear(c))
    BY <1>1, <1>2, SameAnswer
  <2>2. pc[c] = "failed" => pc'[c] = "failed"
    BY <1>1 DEF Heard
  <2>3. Fate(c) \subseteq Fate(c)'
    BY <1>2, <2>1, <2>2 DEF Fate
  <2>4. QED
    BY <2>1, <2>3 DEF LedgerFate
<1>3. CASE pc[c] = "send" /\ form'[c] # "none"
  <2>1. form[c] = "none" /\ body[c] = <<>>
    BY <1>3 DEF Parses, Reads
  <2>2. Answer(c) = {} /\ Clear(c)
    BY <2>1, NoAnswerYet
  <2>3. LedgerFate(c) = {}
    BY <1>3, <2>1, <2>2 DEF Fate, LedgerFate
  <2>4. QED
    BY <2>3
<1>4. QED
  BY <1>1, <1>2, <1>3 DEF Heard

\* A span is ended by its call's own fate.
LEMMA SpanEarned ==
    ASSUME IInv, NEW c \in Calls, [Next]_vars, span'[c] # span[c]
    PROVE  \/ span[c] = "none" /\ span'[c] = "open"
           \/ /\ span[c] = "open" /\ span'[c] \in Final
              /\ \/ span'[c] \in LedgerFate(c)'
                 \/ span'[c] = "abandoned" /\ "cut" \in LedgerFate(c)'
<1>1. SpanStep(c) /\ Parses(c)' /\ IInv'
  BY SpanSteps, InvStep DEF IInv, vars
<1>2. CASE pc[c] = "start"
  BY <1>1, <1>2 DEF SpanStep
<1>3. ASSUME span[c] = "open", span'[c] \in Final, pc'[c] = "failed"
      PROVE  span'[c] = "failed" /\ "failed" \in LedgerFate(c)'
  BY <1>1, <1>3 DEF IInv, Staged, Final, Fate, LedgerFate
<1>4. ASSUME span[c] = "open", span'[c] \in Final, pc[c] = "parse", pc'[c] = "done"
      PROVE  \/ span'[c] \in LedgerFate(c)'
             \/ span'[c] = "abandoned" /\ "cut" \in LedgerFate(c)'
  <2>1. body'[c] # <<>>
    <3>1. body[c] # <<>>
      BY <1>4 DEF IInv, Parses, Reads
    <3>2. Heard(c)
      BY Hears DEF IInv
    <3>3. QED
      BY <1>4, <3>1, <3>2 DEF Heard
  <2>2. CASE ~Clear(c)'
    BY <1>4, <2>2 DEF LedgerFate, Final
  <2>3. CASE Clear(c)'
    <3>1. Found(c)' = Answer(c)'
      <4>1. UNCHANGED <<post, form[c], body[c]>>
        BY <1>4, Hears DEF Heard, IInv
      <4>2. Found(c)' = Found(c) /\ Answer(c)' = Answer(c) /\ Clear(c)
        BY <2>3, <4>1, SameBody, SameAnswer
      <4>3. Keyed(post[c].id)
        BY <1>4, TracedKeyed DEF IInv, Staged
      <4>4. QED
        BY <4>2, <4>3, ClearFinds DEF IInv
    <3>2. Decided(c)'
      BY <1>1 DEF Parses
    <3>3. CASE Answer(c)' # {}
      BY <1>4, <2>1, <2>3, <3>1, <3>2, <3>3 DEF Decided, Fate, LedgerFate
    <3>4. CASE Answer(c)' = {}
      <4>1. span'[c] = "abandoned" /\ form'[c] = "events"
        BY <1>4, <2>1, <3>1, <3>2, <3>4 DEF Decided, Final
      <4>2. QED
        BY <2>1, <2>3, <3>4, <4>1 DEF Fate, LedgerFate
    <3>5. QED
      BY <3>3, <3>4
  <2>4. QED
    BY <2>2, <2>3
<1>5. QED
  BY <1>1, <1>2, <1>3, <1>4 DEF SpanStep

LEMMA LedgerInit == Init => Ledger!Init
<1> SUFFICES ASSUME Init PROVE Ledger!Init
  OBVIOUS
<1>1. \A c \in Calls : Answer(c) = {} /\ Clear(c)
  BY NoAnswerYet DEF Init
<1>2. \A c \in Calls : LedgerFate(c) \subseteq Ledger!Facts
  BY <1>1 DEF Fate, LedgerFate, Ledger!Facts
<1>3. QED
  BY <1>2 DEF Init, LedgerFate, Ledger!Init

LEMMA LedgerStep == IInv /\ [Next]_vars => [Ledger!Next]_(Ledger!vars)
<1> SUFFICES ASSUME IInv, [Next]_vars, NEW c \in Calls PROVE Ledger!CallStep(c)
  BY DEF Ledger!Next
<1>1. LedgerFate(c) \subseteq LedgerFate(c)'
  BY FateGrows DEF IInv
<1>2. CASE span'[c] = span[c]
  BY <1>1, <1>2 DEF Ledger!CallStep, LedgerFate
<1>3. CASE span[c] = "none" /\ span'[c] = "open"
  BY <1>1, <1>3 DEF Ledger!CallStep, Ledger!Opens, LedgerFate
<1>4. ASSUME span[c] = "open", span'[c] \in Ledger!Final,
             Ledger!Because(span'[c]) \subseteq LedgerFate(c)'
      PROVE  Ledger!CallStep(c)
  BY <1>1, <1>4 DEF Ledger!CallStep, Ledger!Ends, LedgerFate
<1>5. CASE span[c] = "open" /\ span'[c] = "abandoned" /\ "cut" \in LedgerFate(c)'
  BY <1>4, <1>5 DEF Ledger!Because, Ledger!Final
<1>6. CASE span[c] = "open" /\ span'[c] \in Final /\ span'[c] \in LedgerFate(c)'
  <2>1. span'[c] \in {"ok", "error", "failed"}
    BY <1>6, FateSays DEF LedgerFate, Final
  <2>2. Ledger!Because(span'[c]) = {span'[c]} /\ span'[c] \in Ledger!Final
    BY <2>1 DEF Ledger!Because, Ledger!Final
  <2>3. QED
    BY <1>4, <1>6, <2>2
<1>7. QED
  BY <1>2, <1>3, <1>5, <1>6, SpanEarned

\* The proxy implements the ledger: every span is opened once and ended at most
\* once, and a call's with a clear response is ended as its own POST fared.
THEOREM Refinement == Spec => LedgerSpec
BY LedgerInit, LedgerStep, Invariance, PTL DEF Spec, LedgerSpec, Ledger!Spec
-----------------------------------------------------------------------------
(* Whose name a span carries *)

\* An identity moves from an initialize to the proxy, and from there to a span.
LEMMA NameMoves ==
    ASSUME TypeOK, [Next]_vars
    PROVE  \/ UNCHANGED <<client, label>>
           \/ \E c \in Calls : Remember(c) /\ UNCHANGED label
           \/ \E c \in Calls : StartSpan(c) /\ UNCHANGED client
BY DEF Next, vars, BadBody, Arrive, Remember, StartSpan, Fails, Copy, ParseJson, ScanData, ScanBlank,
       ScanEnds

LEMMA KnownStays ==
    ASSUME TypeOK, [Next]_vars, NEW name, Known(name)
    PROVE  Known(name)'
<1>1. CASE name \in {NoClient, Torn}
  BY <1>1 DEF Known
<1>2. CASE Announced(name)
  <2>1. PICK e \in Calls : /\ post[e].method = "initialize" /\ post[e].client = name
                           /\ pc[e] \notin {"idle", "naming"}
    BY <1>2 DEF Announced
  <2>2. pc'[e] \notin {"idle", "naming"} /\ UNCHANGED post
    BY <2>1, Stages DEF Stage, Start
  <2>3. QED
    BY <2>1, <2>2 DEF Known, Announced
<1>3. QED
  BY <1>1, <1>2 DEF Known

LEMMA NamesStep ==
    ASSUME TypeOK, Staged, NamesKnown, [Next]_vars
    PROVE  NamesKnown'
<1>1. \A name : Known(name) => Known(name)'
  BY KnownStays
<1>2. CASE UNCHANGED <<client, label>>
  BY <1>1, <1>2 DEF NamesKnown, Known, Announced
<1>3. ASSUME NEW c \in Calls, Remember(c), UNCHANGED label PROVE NamesKnown'
  <2>1. post[c].method = "initialize" /\ client' \in {post[c].client, Torn}
    BY <1>3 DEF Staged, Remember, ParseClientInfo
  <2>2. pc'[c] \notin {"idle", "naming"} /\ UNCHANGED post
    BY <1>3 DEF Remember, Start, TypeOK
  <2>3. Known(client)'
    BY <2>1, <2>2 DEF Known, Announced
  <2>4. QED
    BY <1>1, <1>3, <2>3 DEF NamesKnown, Known, Announced
<1>4. ASSUME NEW c \in Calls, StartSpan(c), UNCHANGED client PROVE NamesKnown'
  <2>1. PICK name \in {client, Torn} : label' = [label EXCEPT ![c] = name]
    BY <1>4 DEF StartSpan
  <2>2. Known(name)
    BY <2>1 DEF NamesKnown, Known
  <2>3. \A d \in Calls : label'[d] \in {name, label[d]}
    BY <2>1 DEF TypeOK
  <2>4. \A d \in Calls : Known(label[d])'
    <3> SUFFICES ASSUME NEW d \in Calls PROVE Known(label[d])'
      OBVIOUS
    <3>1. PICK m : m = label'[d] /\ Known(m)
      BY <2>2, <2>3 DEF NamesKnown
    <3>2. Known(m)'
      BY <1>1, <3>1
    <3>3. QED
      BY <3>1, <3>2 DEF Known, Announced
  <2>5. Known(client)'
    BY <1>1, <1>4 DEF NamesKnown, Known, Announced
  <2>6. QED
    BY <2>4, <2>5 DEF NamesKnown
<1>5. QED
  BY <1>2, <1>3, <1>4, NameMoves

\* Every identity on a span is one that an initialize announced, unless it is
\* empty or torn by a race.
THEOREM NamesAnnounced == Spec => []NamesKnown
<1>1. Init => NamesKnown
  BY DEF Init, NamesKnown, Known
<1>2. IInv /\ NamesKnown /\ [Next]_vars => NamesKnown'
  BY NamesStep DEF IInv
<1>3. QED
  BY <1>1, <1>2, Invariance, PTL DEF Spec

\* So a span's name can be wrong only where a second client has announced
\* itself, or two handlers race: this is all that NamesOwnClient lacks.
THEOREM WrongNames ==
    Spec => [](\A c \in Calls : label[c] \in {NoClient, Torn, post[c].client}
                 \/ \E e \in Calls : post[e].client # post[c].client /\ Announced(post[e].client))
<1>1. NamesKnown =>
        \A c \in Calls : label[c] \in {NoClient, Torn, post[c].client}
          \/ \E e \in Calls : post[e].client # post[c].client /\ Announced(post[e].client)
  BY DEF NamesKnown, Known, Announced
<1>2. QED
  BY <1>1, NamesAnnounced, PTL
=============================================================================
