# Verification of mcp-trace

mcp-trace is a transparent proxy between MCP clients and an MCP server that records every tool call
as an OpenTelemetry span. Its logic is the correlation of a request with an answer that arrives
elsewhere, later, or never. This directory holds TLA+ models of that logic, TLC configurations that
check them on small instances, and TLAPS proofs of the properties that matter most.

    tlc -config sse_core.cfg MCSseProxy        # any run: the table below gives module and cfg
    tlapm SseProxyProofs.tla                   # and every other *Proofs.tla

## 1. Inventory of the system

Paths are below `src/`.

| Component | Source | State | Operations |
|---|---|---|---|
| Request map | `internal/proxy/request_map.go` | map from (session, id) to an in-flight span, under a mutex | Store, Take, TakeSession, EvictStale |
| Method filter | `internal/proxy/filter.go` | two flags, constant | ShouldTrace |
| SSE proxy | `internal/proxy/sse.go` | request map; session records (endpoint, client) under a mutex; one goroutine per POST and per stream; the evictor | handlePost, handleSSE, handleSSEData, the deferred function at a stream's end, rememberClient, evictLoop |
| Streamable proxy | `internal/proxy/streamable.go` | client name and version without a lock; each span belongs to its handler | ServeHTTP, streamAndParseResponse, endSpanFromEventStream, finishIfMatch |
| Stdio proxy | `internal/proxy/stdio.go` | subprocess and its pipes, response channel, request map, client name and version without a lock, flags `running` and `stopped` | ServeHTTP, readResponses, monitorProcess, Stop |
| Process lifecycle | `cmd/mcp-trace/main.go` | context, subprocess error, listener; goroutines for signals and for ExitErr | run, serve: set-up, serving, the deferred calls |
| JSON-RPC parsing | `internal/proxy/rpc.go` | none | ParseRequest, ParseResponse, ParseClientInfo, IsError, IDString |
| Span statuses | `internal/telemetry/span.go` | one span | StartSpan, EndSpan |
| OTel provider | `internal/telemetry/otel.go` | the exporter and its batch of ended spans | New, Shutdown |
| Configuration | `internal/config/config.go`, `cmd/mcp-trace/main.go` | viper's layers: override, flags, environment, file, defaults; none after start | BindFlags, the `--stdio` shorthand of RunE, Load |
| Demo | `examples/demo` | none | generates traffic |

How they interact. A transport's HTTP handlers run concurrently. In the SSE transport the client
opens a stream (GET) and posts requests (POST); the server's answers come back on the stream, so the
POST handler stores a span in the request map and the stream's goroutine takes it. The evictor takes
what nobody took within the deadline, and the end of a stream takes what its session still has. In
the streamable transport the answer is the body of the POST's own response, so nothing is shared but
the client's identity. In the stdio transport all handlers share one stdin pipe and one response
channel, filled by one reader. `run` loads the configuration, which chooses the transport; `serve`
sets up the exporter, the proxy, the subprocess, the signal handler and the listener in that order,
any of which may fail, and takes them down in a fixed order while handlers may still run.

What is hard, and what correctness means (every hazard, with its line and its properties, is in
`PROJECT.json`):

- **SSE.** Answer before the POST returned; POST before its session's endpoint is registered; POST
  failing while answer, deadline and end of stream race for the same entry; a call stored after its
  stream has drained; equal ids of two clients; two writers of one session record; the client leaving
  while the reason of an abandoned span is chosen. *Correct:* no open span is lost, it ends once, with
  a status its own call earned, and nothing crosses from one session to another.
- **Streamable.** Any body: empty, cut, split events, priming events, other messages first, lines
  over the scanner's limit; ids that are numbers, strings, empty or null. *Correct:* the first answer
  in the body decides the span.
- **Stdio.** Full pipes and channel, a child that dies between answer and read, concurrent handlers
  on one channel, two writes per request, each of which may block; a retry under the id of a call given up on,
  whose late answer is still in the channel; a child that closes its stdout and lives on, prints a line
  over the scanner's limit or sends a request of its own; a client's name written while another
  handler reads it. *Correct:* a serial client loses no answer and has its name on its spans, no
  handler returns with an open span, and none hangs but on a child that lives and does not read or
  answer.
- **Process.** A signal, the child's own death, Stop's kill, in any order and at any point of the
  set-up; a step of the set-up that fails after others succeeded; spans that ended but are not
  exported yet. *Correct:* the process ends, leaves no orphan, hides neither a failure nor a death,
  does not report its own kill, and drops no ended span.
- **Configuration.** One key in five layers, a shorthand applied over them and a variable read after
  them, nested keys shadowed by a plain value. *Correct:* what is accepted is what the user asked
  for, by the documented precedence, and has what its transport needs.

## 2. Modules

    RequestMap   Filter          SpanLedger (abstract)
        \          /               |  implemented by SseProxy, StreamableProxy, StdioProxy
         SseProxy ---- MCSseProxy, SseProxyProofs <- SseProxyLiveProofs
         StreamableProxy (Filter, JsonRpc) ---- MCStreamableProxy, StreamableProxyProofs
         StdioProxy (RequestMap, Filter) ---- MCStdioProxy, StdioProxyProofs <- StdioProxyLiveProofs
         Serve (Config) ---- MCServe, ServeProofs (ConfigProofs) <- ServeLiveProofs
    Subprocess (abstract), implemented by Serve, taken for granted by StdioProxy

- **RequestMap** - each operator is the body of one method under the mutex. The Go map is a total
  function with `NoCall` for "absent". A removal is split into what it returns (`Entries`) and what
  it leaves (`Without`), over the set of keys the method looks at (`TakeKeys`, `SessionKeys`,
  `StaleKeys`). The key is a pair; the code joins session and id with a NUL, taken not to occur in
  a session id.
- **Filter** - `ShouldTrace` over the methods the code tells apart.
- **JsonRpc** - the forms an id and an answer may have, `IDString` and `IsError` over them, and what
  the README declares of an answer (`Declared`), which the code is compared with. A message with an id
  may also be a request of its sender's (`Says`), which `ParseResponse` reads like an answer.
- **Config** - pure operators: each key as a function from viper's layers to what the user put there
  (`TransportKey`, `StdioKey`, `CommandKey`, ...), viper's look-up (`Find`), and `Load`. The
  `Documented...` operators state, without viper's layers, what `src/README.md:226` and `:247` promise;
  `Overruled` and `ArgsHidden` are the two cases in which the code does not keep it, and `Honoured` is
  the promise up to these two.
- **SpanLedger** - the abstract specification: a call's span opens once, ends once, and the way it
  ends is borne out by a fact about that very call (answered ok, answered with an error, failed,
  stream over, client gone, past the deadline). Facts never go away. Ends are told apart by
  `mcp.status` and `error.message` together: `error` is an answer that is an error, and `failed`,
  `givenUp` and (stdio) `abandonedByUpstream` are the calls without one for which the code writes
  `mcp.status` error as well (see section 4). All three transports are shown to implement the ledger
  through `Ledger == INSTANCE SpanLedger WITH ...`. In the stdio transport, where handlers tell answers
  apart by id alone, the facts of a call are those of all calls with its id.
- **Subprocess** - what the actions of `StdioProxy` take for granted of `Start`, `Stop` and
  `monitorProcess`: the child starts before anything is called off, is waited for once and only when
  dead, `running` falls only after that, and its stdin is closed only when its context is done. It is
  shown of `Serve`, where signals, the watcher and main have a hand in it (`Life == INSTANCE
  Subprocess WITH` the monitor's place for `reaped` and `running`, and main's context and Stop's flag
  for `stop`).
- **SseProxy** - `pc[c]` is a POST's goroutine (`Arrive`, `StartSpan`, `StorePost`, `Route`,
  `PostAccepted`, `PostFails`), `stage[st]` a stream's (`Connect`, the `Read...` actions, `HandleEndpoint`,
  `HandleMessage`, `LeaveLoop`, `Forget`, `Drain`), `EvictTick` the evictor. An action is the code
  between two points where another goroutine can look: at most one critical section, one message out,
  or one span end that only this goroutine can reach. So registering the span, routing and sending
  are separate steps, and so are the two parts of the deferred function.
- **StreamableProxy** - `Arrive`, `Remember`, `StartSpan`, `Fails`, `Copy`, then `ParseJson` or the
  scanner line by line (`ScanData`, `ScanBlank`, `ScanEnds`); a message is taken for the answer by the
  key of its id and nothing else (`Taken`), and the data lines gathered are held by their places in the
  body. What the answer is (`Answer`) is told apart from this: without a scanner, by the id itself, and
  never a request. The identity fields are written without
  a lock: `StartSpan` may read `Torn` while a write is in progress, and of two writes that overlapped
  (`raced`) the later may leave `Torn` for good. Opening
  the upstream response and reading it are one step, for the parse starts only when the copy is complete.
- **StdioProxy** - `Handler(c)` (with `Remember` and `StartSpan` racing over the identity as in
  StreamableProxy), the reader (`ReadLine`, `ReadEnds`, `Send`, `SendCancelled`,
  `Close`), the monitor (`Reap`, `MarkStopped`), Stop (`Cancel`, `StopStdin`), and the child, which may
  answer, send a request of its own under one of the `ChildIds`, print a line over the limit, close its
  stdout and live on (`ChildMutes`), or die. Body and newline are two writes, as in the code. `out` holds
  the lines in the pipe and in the scanner's buffer, of which `Reap` takes away any end: what the
  scanner has buffered outlives the pipe.
- **Serve** - main goes through the set-up (`Configure`, which loads one user's settings, `Provide`,
  `Build`, `StartChild`, `Arm`, `Listen`; all but `Arm` may fail and return through what was deferred
  so far), serves, and ends (`Verdict` to `Exit`). One variable per further goroutine; the part of
  `StdioProxy` that ends the subprocess (Stop and monitorProcess up to ExitErr); and for each call
  what becomes of it: its connection accepted, which needs the listener, its span open, which does not,
  ended and in the batch, exported, lost. A signal before
  `signal.Notify` kills the process.

Operators whose comment begins with "Bug:" are mutants: a plausible mistake in the definition that
follows. Nothing refers to them; substituting one must break the property paired with it in
`PROJECT.json`, which shows that the property speaks about that code.

Outside `src/`, and modelled from how `src/` uses it: the upstream server (opens a fresh session per
stream, advertises it first and once, answers each request on its own session's stream, may send
requests of its own), the client (posts into sessions it was told of), the kernel's pipes and the
child, net/http's Shutdown, exec's kill at the end of the context, viper's layers, the SDK's batcher. The text on the wire between
upstream and scanner is elided: `ReadAnswer` is the server's emission and the scanner's reading in
one step, which loses no interleaving because nobody but that scanner can see the line in between.

## 3. Runs

| Run (cfg) | Module | What it asks | Bounds |
|---|---|---|---|
| `sse_core` | MCSseProxy | no span lost, answers close spans, nothing crosses sessions, endpoint and client remembered and forgotten, blame is true | 2 calls with equal ids in 2 sessions, 2 streams, every method traced |
| `sse_shared` | MCSseProxy | span ledger (refinement); no span and no table entry stays for ever | 1 stream; initialize then call, two clients without sessions, a body that does not parse, a reply to a server request; server requests under one id |
| `sse_duplex` | MCSseProxy | *violated:* a span that ended ok was answered | as `sse_shared`, the server's request has the id of a call |
| `streamable` | MCStreamableProxy | the first answer decides, where no other message has the call's key; identity remembered; span ledger | 3 requests, one traced; ids that are a number, a string, null, empty; every body of up to 3 core lines, up to 2 of the others, and all prefixes of a stream as real SDKs send it |
| `streamable_leak` | MCStreamableProxy | *violated:* a traced call's span ends | as above |
| `streamable_client` | MCStreamableProxy | *violated:* a span names its own client | as above |
| `stdio` | MCStdioProxy | no handler returns with an open span; a serial client loses no answer but to Wait, the context's end or a line over the limit, and names its spans; ledger; no handler hangs | 2 requests (`Introduces`: initialize, then a call; `Garbage`: a call under an id the child uses too, and a body that does not parse; `Notifies`: a call and a notification; `Retries`: a call and its retry, of a serial client; the others of a serial client and of two), pipes of 1 write and 1 line, channel of 1, one other message |
| `stdio_crosstalk` | MCStdioProxy | *violated:* a concurrent client loses no answer | as above, every workload of two clients too, a pipe of 2 writes |
| `stdio_lastanswer` | MCStdioProxy | *violated:* the span of an answered call says how it was answered | as above, a pipe of 2 writes |
| `serve` | MCServe | the configuration is honoured; Stop's own doing is not reported; without a signal the child is blamed only for its own death; nil only after a signal; no orphan on any way out; a signal that kills takes no call; ended spans are exported, open ones lost only at the very end; contract of the subprocess; the process ends | 2 calls, 6913 users |
| `serve_sigterm` | MCServe | *violated:* "subprocess died" means it died of its own | as above |
| `serve_drain` | MCServe | *violated:* a call is cut short only after the 10 s | as above |

Why the bounds are enough. Two calls are what a collision of ids, an overwritten entry, a mix-up of
sessions or a stolen channel message takes, and the proofs of section 5 remove the bound for every
safety property. One stream suffices in `sse_shared` because its workloads have one
session or none; two are in `sse_core`, with symmetry between streams (no liveness is checked there).
Every call is sent once: a client that reuses an id is two calls with one id. Capacities of one
in `stdio` make full pipes and a full channel ordinary states; a body then never stands in the pipe
beside its newline, and the violated runs, with two places, show what that adds. Two clients
that use one id at once are left out of `stdio` for its size (`Concurrent`); `stdio_crosstalk` starts from
them too, and the theorems speak of them as of all others. The users of
`MCServe` set the transport in each of the layers to values that differ, with every combination of
the targets, commands, shorthands and of `MCP_TRACE_STDIO` that decides something. Three lines hold the shapes the
event scanner distinguishes (data before blank, split data, an event without its blank line, a line
that ends the scan), and the longer SDK stream adds the sequence of events seen in practice.
`PipeCap`, `OutCap`, `ChanCap`, `MaxNotes` and `MaxLines` are the only numeric bounds.

Every cfg says `CHECK_DEADLOCK FALSE`: the workload is finite, and the process may end.

`SpanEventuallyEnds` speaks of every call, calls that share a key included: it excuses a span whose
entry another call stored over, and a stopped evictor.

Exemptions. In `SseProxy`, `Unshared(c)` says that no other call has `c`'s session and id (a server
without sessions gives all clients one id space, which the comment of `correlationKey` accepts), and
`Solo(c)` that no request of the server's own carries that id either; what happens without it is
`sse_duplex`. `SpanAccounted` needs neither: it speaks of every call, and the one excuse for a lost
span is that another traced call has been stored under its key (`StoredOver`). In `StreamableProxy`, `Clear(c)`
says that no message in the response has the call's key without being its answer: what `finishIfMatch`
then takes it for is left open, but not that the span opens once and ends at most once. In `StdioProxy`,
`Unshared(c)` says that no other call has `c`'s id; it excuses only concurrent clients, and a serial
client keeps every promise though it use an id again. `Solo(c)` adds that the child numbers no request
of its own with that id, and the ledger speaks of the calls whose ids the child does not use. `CutOff(c)`
is an answer behind a line over the limit, which the reader does not survive. `TableDrains`,
`HandlersReturn` and `EndsAfterAll` exempt no call.

Fairness. *SSE:* weak fairness of `StorePost` (a runnable goroutine runs), `Expire` (time passes) and
`EvictTick` (the ticker ticks); nothing is asked of client or upstream, and a stopped evictor is
excepted in the property. *Stdio:* weak fairness of the reader and of each handler's own steps; the
child may be silent, may never read, no timer is relied upon, and neither are the monitor and Stop:
where a handler may then stand for ever is spelled out in `AtRest`. *Serve:* weak fairness of the
goroutines, of each step of the set-up and of the five-second kill in Stop; signals, handlers, the
batcher and the child are free. Strong fairness, which Go's scheduler and channels would not justify,
is nowhere assumed.

## 4. What the violated runs show

1. `sse_duplex` - `handleSSEData` takes the entry under the id of any message. A server's own request
   with that id ends the span as ok; the real answer is then unknown. `finishIfMatch`
   (`streamable.go:278`) and the stdio handlers (`stdio.go:383`) compare the id alone as well: their
   models include it, without a violated run of their own, and the properties except it (`Clear`, `Solo`).
2. `streamable_leak` - an empty body, one that does not parse, or one with another id leaves the
   span open, and this transport has no evictor.
3. `streamable_client` - one identity for the whole proxy: the last initialize names every client.
   `WrongNames` is its extent: a name is wrong only if another client has initialized, or by a race.
4. `stdio_crosstalk` - a handler drops a response that is another's; its owner gets 504 after 30 s.
5. `stdio_lastanswer` - `cmd.Wait` closes the stdout pipe under the reader, and a child that answers
   and exits may lose its answer. Only so: `SerialDelivers` holds from the child's death until Wait
   has returned, for whatever is in the pipe, the reader or the channel. The span then ends with
   `mcp.status` error, though the child answered normally: `cleanupSpan` writes error for a failed write,
   a timeout, a client that left and a closed stdout alike, where `src/README.md:285-293` and
   `span.go:12-20` keep error for an answer that is one. The other transports write error for a POST that
   failed or was refused (`sse.go:453`, `streamable.go:115-140`): there the models tell it apart as
   `failed` and require that it be earned, without a violated run of their own.
6. `serve_sigterm` - cancelling the context kills the child before Stop has set `stopped`: an ordinary
   signal may end in "subprocess died".
7. `serve_drain` - `serve` does not wait for `Shutdown`, so spans in flight are lost at once. But not
   sooner: by `OpenLostLast`, whatever ends before the server is down, the subprocess is reaped and the
   batch is flushed is still exported.

Seen while modelling, without a run:

- *SSE.* An initialize handled after its stream ended re-creates a session record that nothing
  deletes (`EndpointForgotten` shows that at least its endpoint stays forgotten); a call stored after
  its stream drained ends as `timeout` though the README speaks of an open stream.
- *JSON-RPC.* A request with the id `""` counts as a notification; the ids `1` and `"1"` are one key;
  a result with `isError` whose content has not the expected shape counts as ok.
- *Streamable.* A span ends only when the copy of the whole stream does, and one that is abandoned
  does not name the side that broke it, which `src/README.md:292` promises of an SSE stream.
- *Stdio.* A handler can block in its write before its timer starts,
  for as long as the child lives and does not read (the last case of `AtRest`). The late answer to a
  call given up on is taken for that of its retry, if both have one id (`Fate` says so).
- *Configuration.* `MCP_TRACE_STDIO=true` overrules another explicit `--transport` (`Overruled`),
  against `src/README.md:247`, and with any value it hides the file's `stdio` section, so that the
  file's arguments are gone (`ArgsHidden`). `ConfigHonoured` excepts the two by name, and the theorem
  `PrecedenceBroken` says that they are the whole extent of it: an accepted configuration departs from
  what is documented in exactly these cases.
- *Process.* A signal after the subprocess started and before `signal.Notify` kills mcp-trace without
  its deferred calls: the subprocess sees only its stdin close. `KillsNoCall` shows that no call is
  lost by it.

## 5. Proofs

`SseProxyProofs` proves for **any** sets of calls, streams, sessions, ids, clients and workloads:

| Theorem | Statement |
|---|---|
| `TypeCorrect` | `Spec => []TypeOK` |
| `NoSpanLost` | `Spec => []SpanAccounted`, for every call |
| `AnswersClose` | `Spec => []AnswerClosesSpan` |
| `NoCrossRouting` | `Spec => []RoutesToOwnSession` |
| `ClientsNotMixed` | `Spec => []NamesOwnClient` |
| `NothingForgotten` | `Spec => []SessionRemembers` |
| `EndpointsForgotten` | `Spec => []EndpointForgotten` |
| `BlameIsTrue` | `Spec => []BlameTrue` |
| `Refinement` | `Spec => LedgerSpec` |
| `StatusesTrue` | `Spec => []StatusTrue`: what a solo call's final status says stays true of the call |
| `OkIsAnswered` | `Spec => []OkMeansAnswered`, if the server's own requests use no id of a client's |

`OkIsAnswered` is the other side of `sse_duplex`: what that run shows is the only way to a false ok.
The assumptions are those of the constants, which TLC evaluates: `NoneAssumption`,
`RouteAssumption`, `RecordAssumption` (the "absent" values are not values), `WorkloadAssumption` and `ServerIdAssumption` (the inputs are typed).

*The invariant.* `SpanAccounted` and `AnswerClosesSpan` are not inductive. `IInv` adds: `MapSound`
(an entry is under its own key, stored, and its span open - so whatever is taken may be ended),
`SpanStaged` (where a POST stands tells whether it has a span), `Sent` (only sent requests are
answered, and each was routed to its own session), `OwnEndpoint`, `StreamSound` (`handleSSE`'s
session id is the advertised one, except while the endpoint line is unhandled) and `AnswerSound` (a
message under a solo call's key is that call's answer). The heart is one lemma, `Removal`: taking any
set of keys and ending what it returns keeps `MapSound`, `SpanStaged` and `SpanAccounted`; POST
failure, answer, drain and eviction are its instances. A key that was stored over stays so
(`StaysOver`), and a call with no rival cannot be (`SoloAccounted`). A second invariant `SInv`, over the first,
speaks of sessions: no two streams carry one session, and a record loses its endpoint and its client
only when its stream ends. `RecordChanges` lists the four ways a record changes, and the step of
each conjunct goes by them.

*The refinement* maps a call's span and its facts; `FateGrows` shows that facts stay, `SpanEarned`
that a span changes only from none to open, and from open to a status its facts bear out.

`StdioProxyProofs` proves, for any sets of calls, ids and clients, any workload and pipes and a
channel of any capacity:

| Theorem | Statement |
|---|---|
| `TypeCorrect` | `Spec => []TypeOK` |
| `SpansEnd` | `Spec => []SpanEndsWithHandler` |
| `AnswersDelivered` | `Spec => []SerialDelivers` |
| `ClientNamed` | `Spec => []SerialNamesClient` |
| `Refinement` | `Spec => LedgerSpec` |
| `AnswersNotMixed` | `Spec => []NeverAnothers`: a call alone with its id, which the child does not use either, ends ok or error only if the child answered it so |

So a concurrent client may lose an answer (`stdio_crosstalk`), but no span is given another call's.

The assumptions: `NoneAssumption`, `WorkloadAssumption`, `CapAssumption`, `ChildIdAssumption`, `NoIdAssumption`. *The invariant* follows a request to the child and its answer back. `MapSound`,
`SpanStaged`, `OneAtATime` and `Held` (together `Table`) are about the handlers: an open span no
other handler can take is in the table, and its handler has not returned; `EndStep` is their common
step for an answer and a failure. `ReadOnce`: a body is written once and read once, so an answer is
final. `AnswerSound`: a message that passes for an answer, wherever it stands, is one the child gave
under that id, or a request of its own under one it uses - which makes the ledger refined though all handlers draw from one channel.
`NewlineNext` orders a serial handler's two writes: until its newline is written the child cannot
have answered, so the answer cannot be dropped before anyone waits for it. `SerialDelivers` is then
inductive: pipe, hand and channel pass an answer on (`LineGrows`, `LineMoves`), and the only receiver
is its own handler. It does not ask that the child be alive, only that it is not reaped: the pipe
outlives its writer, and nothing but `Reap`, the context and a line over the limit takes it from the reader. `ClientKnown` says when the identity is a name somebody announced.

`StreamableProxyProofs` proves, for any set of calls, any workload and bodies of any length, from
`WorkloadAssumption`, `BodyAssumption` and `TornAssumption` (a mixture of two identities is not the
empty one):

| Theorem | Statement |
|---|---|
| `TypeCorrect` | `Spec => []TypeOK` |
| `ClientKept` | `Spec => []ClientRemembered` |
| `AnswerFound` | `Spec => []AnswerDecides`, for responses that are `Clear` |
| `SpansLive` | `Spec => SpanLife`: a span opens once and ends at most once, by its own handler as that handler's last step |
| `LeaksFound` | `Spec => []LeaksIfUnanswered`: a span leaks if and only if the response was empty, or a JSON body without an answer to the call |
| `Refinement` | `Spec => LedgerSpec` |
| `NamesAnnounced` | `Spec => []NamesKnown`: every identity held or on a span is one that an initialize announced, or empty, or torn |
| `WrongNames` | a span's name is empty, torn or its own client's, unless another client has announced itself |

`LeaksFound` is the extent of `streamable_leak`; its case of an empty body needs `EmptyLeaks`, the other
is in `Decided`. `WrongNames` is that of `streamable_client`: an identity moves only from an initialize
to the proxy and from there to a span (`NameMoves`), and an announced name stays announced (`KnownStays`).
`Stages` reduces a step to a handful of moves of one call; `Staged` says what its span is at each.
`AnswerDecides` tells what the answer is without a scanner, by looking at the whole body, so its
invariant relates the scanner to the body: `Scans` says that the lines gathered are those of the
event the scanner is in, from where that event began (`Begins`), and that no event before it was an
answer. `Events` locates every event of a body relative to the scanner, and `EventEnds` is the heart:
where an event ends, its answer is the body's first, and if the lines are used up the body has none.
`ParsesStep` carries this through every action. The refinement follows: a response is known once and
for all at `Copy` (`Heard`), so the facts stay (`FateGrows`), and `Decided` is the final status borne out.

`ServeProofs` proves, for any set of calls and any set of users (`UsersAssumption`: they are typed):

| Theorem | Statement |
|---|---|
| `TypeCorrect` | `Spec => []TypeOK` |
| `StopsQuietly` | `Spec => []StopNotReported` |
| `DeathNotSwallowed` | `Spec => []NilMeansSignalled` |
| `BlamedRightly` | `Spec => []DiedOfItsOwn` |
| `ChildReaped` | `Spec => []NoOrphan` |
| `NoCallKilled` | `Spec => []KillsNoCall` |
| `EndedSpansKept` | `Spec => EndedIsExported` |
| `OpenSpansLast` | `Spec => OpenLostLast` |
| `OneSubprocess` | `Spec => SubprocessSpec` |
| `UserServed` | `Spec => ConfigHonoured` |

None of the properties is inductive. The strengthening `Inv` says which flag vouches for which goroutine: Stop's flag
comes before its doing (`FlagFirst`, `OwnDoing`), an exit that was not looked at is not reported
(`ReportOnce`), nothing is taken down without a signal or a recorded error (`Grounded`), main has
caught the signals before it listens (`Armed`), and has a provider that works until the batch is
flushed (`Traced`). `ChildSound` ties the child to its monitor and to the stdio transport. `BlamedRightly` needs
`KilledOnSignal` besides: the context is cancelled without a signal only by the watcher, for a child
that is dead already. It is the other side of `serve_sigterm`, where a signal came.

`OpenSpansLast` and `OneSubprocess` need to know when things may be called off (`OrderlyEnd`). `NotCalledOff`: before
the signals are caught nothing is cancelled and Stop's flag is down, so the child starts with its context
intact. `Shut`: the listener is open only while main serves, and main leaves only a listener that was shut
down or has failed. `LifeStep` then takes each step of Serve for a step of the subprocess or none.

*The configuration.* `ConfigProofs` proves `LoadHonours`, that what `Load` accepts is `Honoured`, for
every user, and `PrecedenceBroken`, that `Overruled` and `ArgsHidden` are exactly the users for whom
the transport and the arguments are not the documented ones. `FindIs` turns viper's look-up, a `CHOOSE` over
layers, into the four cases of its precedence; one lemma per key says what the layers hold, and
`TransportFound`, `TargetFound`, `CommandFound` and `ArgsFound` compare what is found with what is
documented. `UserServed` is the consequence in `Serve`, of the transport that is built.

*Liveness.* The prover does not know ENABLED, so fairness is taken apart. A goroutine runs if again
and again either it is not ready, by a condition on the state, or it takes a step; `GoroutinesRun` and
`ProxyRuns` say so of each. From this and `Spec` the `...LiveProofs` modules prove, again for every
value of the constants:

| Theorem | Statement |
|---|---|
| `ServeLiveProofs!EndsIfTheyRun` | `Spec /\ GoroutinesRun => EndsAfterAll` |
| `SseProxyLiveProofs!SpansEndIfItRuns` | `Spec /\ ProxyRuns => SpanEventuallyEnds` |
| `SseProxyLiveProofs!EntriesEvicted` | `Spec /\ ProxyRuns => EntriesLeave`: each call's entry goes, from each key |
| `StdioProxyLiveProofs!ReturnsIfTheyRun` | `Spec /\ ProxyRuns => EachHandlerReturns`: each handler is at rest again and again |
| `EndsUnderFairness`, `SpansEndUnderFairness`, `ReturnsUnderFairness` | the same from `FairSpec /\ []NeverHeldUp` |

What weak fairness lacks to give `ProxyRuns` is `NeverHeldUp`: where a goroutine is ready, its action is
ENABLED. It follows from the definitions of the actions alone, but no installed prover reasons about
ENABLED, so it is a hypothesis of the last three. Each proof is a chain of leads-to steps, one per stretch of code, each from
three facts: the state is kept unless the goal is reached, the goroutine's step reaches it, and the
goroutine is ready.

- *Serve.* From a signal or a death to the end: the watcher reports (`ReportCourse` says that every death
  is on its way to somebody who acts on it), the signal goroutine takes the listener down
  (`SignalCourse`: Shutdown closes it for good), main returns through the deferred
  calls, of which Stop waits for a child that it kills if need be.
- *SSE.* A POST that has opened its span stores it; a stored call that is neither ended nor stored over
  has its entry, which grows old and is evicted.
- *Stdio.* A handler moves from place to place until it rests (`HandlerLeaves`). One that waits when the
  child dies is the hard case (`OrphanWakes`): Wait returns, the reader gives what it holds to the
  channel, for which this very handler makes room, reads an error, closes the channel, and the handler
  drains it until it finds its answer, the error or the end. Counting the channel and the lines on the
  way down is an induction over a number; the prover has none for temporal formulas, so these two
  theorems assume `ChanCap <= 16`, the capacity of `make(chan *rpcResponse, 16)` (`stdio.go:84`), and
  `OutCap <= 4^12`, more lines than a pipe and the scanner's buffer of 8 MiB hold (`AsInTheCode`).

Only model-checked: `TableDrains`, which counts down the calls that
follow each other under one key (an induction over a set; `EntriesLeave` is each step of it);
`HandlersReturn`, which wants all handlers at rest at one moment (again an induction over the calls;
`EachHandlerReturns` is the part for each); and the violated runs, which are counterexamples. Every
other property of the passing runs has a theorem.

## 6. Not modelled

The `version` command and logging; settings other than the transport, its target and its subprocess,
and a file in which `stdio` itself is a plain value; what the exporters are built from and what they
send; the attributes of a span other than its status and its client (tool names, arguments); the
demo, which only generates traffic; methods other than GET and POST, which the reverse proxy passes through; header copying; forwarding of
the child's stderr; a second Start or Stop. Of JSON-RPC parsing the models keep which bodies parse,
the form and key of an id and whether a message is an error, not the text; `SseProxy` and
`StdioProxy` take ids as keys already. A line over 8 MiB is folded into the end of the stream (SSE),
or is a line kind of its own (the other two). The subprocess appears twice, in `StdioProxy` with its
pipes and in `Serve` with its end; that `Serve` implements `Subprocess` shows what `StdioProxy` takes
for granted, and a joint state space of calls in the pipes and of the shutdown is not built. Runs of
their own for a server's request in the streamable and stdio transports, for a failed POST's status in
the SSE and streamable ones, and for `MCP_TRACE_STDIO` over `--transport` are not built either: the
models contain the behaviour, the properties name it as an exception, and section 4 says what it is.

## 7. Plan

Done, in this order: RequestMap, Filter, SpanLedger, SseProxy with its proofs (the core: correlation
is what the program is for); StreamableProxy; StdioProxy; Serve with its proofs; then the set-up and
the configuration in Serve, ids and answers in JsonRpc, retries and identity in StdioProxy, and
`SpanAccounted` for calls that share a key; the proofs for StdioProxy, StreamableProxy and Config; the
proofs of liveness, and of the extent of what the violated runs show; and last the contract of the
subprocess, which ties StdioProxy to Serve, and what is lost on the way out.

Left open:

1. One state space for the calls in StdioProxy's pipes and the shutdown in Serve, beyond the contract.
2. In StreamableProxy, the copy and the parse of a stream that the server holds open.
