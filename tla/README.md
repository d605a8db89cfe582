# A verification of lugh's stage graph

lugh runs a template of *stages* (plugins) as a directed graph: each stage reads
the merged output of its parents and yields values to its children.  This
directory holds TLA+ models of that program, from the template's file to the
values that leave its stages, the TLC configurations that check them, and proofs
that hold for every graph, every pipe and any number of requests.

## 1. Inventory

| Part | Source | State it keeps | Operations | Makes it correct |
|---|---|---|---|---|
| Worker adapters | `core/graph/vertex.go` | `inputC`, `outputC`, a goroutine, a derived context | `Run`, `SetInput`, `Output`, `SendOutput`, `Close`, the `yield` closures | a stage sees every value of its parents once, in order; it closes its output behind its last value; every error is reported |
| Start barrier | `core/graph/context.go` | a wait group, a channel | `Initializing`, `Initialized`, `Synchronize` | nothing is sent before every stage is ready; everybody is released |
| Brokers and merges | `diwo` (external), used in `vertex.go`, `graphio.go` | subscribers, the value being handed on, closed flags | `NewBroker`, `Subscribe`, `Merge` | multicast without loss, the end behind the last value |
| IO graph | `core/graph/graphio.go` | the graph, `inputC`, `outputC` | `piping`, `start`, `Run`, `SetInput`, `Output`, `Split` | each edge wired once, before the barrier opens; a graph can be a stage of another graph |
| Command line | `cmd/cli/main.go` | error channel, signal channel | `RunTemplate`, `SendRawInput` | returns when everything is done or on an interrupt |
| Graph algorithms | `core/graph/graph.go`, `helper/collections/set` | adjacency | `AddVertices`, `SplitEdges`, `CloneFromEdge`, iterators | the graph is the one the stages declare; a split has one graph for each connected part |
| Plugin stream | `core/plugins/grpc` | a bidirectional stream, `clientStreamOutputDone`, a barrier of its own, chunk buffers | client `Run`, server `Run`/`input`, `RunLoop.Send`/`Recv` | the remote stage behaves as a local runner; the client drains its input |
| Loader, templates, include | `core/plugins/load`, `core/template`, `static/include` | registry of loaders and their wraps, variables | `Load`, `Register`, `WrapLoader`, `NewTemplate` | an included template sees the variables of the template that includes it, and only those |
| Plugin processes | `core/plugins/grpc/pluginctl.go` | the list of clients | `Connect`, `CleanupClients` | the processes that run are those of the stages that were loaded |
| Pipe | `static/pipe` | a list of stages, a barrier of its own | `Config`, `Run` | the pipe yields what its chain sends, with all its errors, and ends when its chain has |
| Webhook | `plugins/webhooks`, `helper/httpserver.go` | an HTTP server, its shutdown | `Produce`, `RunServer`, `shutdown` | a client is told ok if and only if its body was taken |
| Shell | `plugins/shell` | a child process, two bounded pipes | `Run`, `handleCmdInput`, `handleCmdOutput` | lines arrive in order; what may cut them off is known; both sides end |
| Proxy | `plugins/proxy/martianProxy` | listeners, a map of pending exchanges, a mutex | `getOptions`, `NewProxy`, `Run`, `ModifyRequest`, `ModifyResponse` | a pair of entries per exchange, nothing is yielded after the end |
| Distinct, static data plugins | `plugins/data`, `static/data`, ... | a set of hashes; none | `Work`, `Produce`, `Consume` | not modelled (section 6) |
| Web API, generated code, thin plugins | `cmd/webapi`, `*.pb.go`, ... | none of interest | | not modelled |

Stages interact through unbuffered Go channels only, except for the wait group of
the barrier and the context; a plugin's stage goes on behind a gRPC stream, and
some plugins have goroutines, processes or servers of their own behind it.  What is hard: one goroutine per stage, per broker
and per merged channel, all in arbitrary order; back-pressure through every one
of them; ends of streams that travel behind the values; errors on separate
channels that block their stage until they are read; cancellation seen by some
goroutines while others are blocked in a send; stages that stop reading; callbacks
that yield after the call they were given to has returned; a registry that loading
itself changes.
`PROJECT.json` lists each hazard at its line.

## 2. Plan

| Order | Module | Content | Abstract spec / theorem |
|---|---|---|---|
| 1 (done) | `Dataflow`, `Pipeline`, `MCPipeline`, `PipelineProofs` | the run of a wired graph | type, barrier, delivery, order, errors, the ends of the streams and of the run proved; `Spec => Promise!SafeSpec` |
| 2 (done) | `Startup`, `MCStartup`, `GraphProofs` | `piping`, `SetInput`, `Output`, `Run` over nested graphs, with the goroutines already started | wired before the barrier opens, `Output` before `Run`, no value missed: proved; it justifies the `Init` of `Pipeline` |
| 3 (done) | `PluginStream`, `MCPluginStream`, `PatientRunner`, `PluginStreamProofs` | client and server ends of a plugin stream, `RunLoop`, a crash of the plugin | payloads whole and in order, a clean return complete: proved; the client is a `PatientRunner`, which is what `Pipeline` takes a runner for: `Spec => Stage!Safety` |
| 4 (done) | `GraphBuild`, `MCGraphBuild`, `GraphProofs` | `AddVertices`, `UndirectedNeighbors`, `SplitEdges`, `CloneFromEdge` | the graph is the declared one, a split has a graph for each part: proved |
| 5 (done) | `Pipe`, `MCPipe`, `PipeProofs`, `Loading`, `MCLoading`, `LoadingProofs` | a chain inside a stage; templates, loader wraps, plugin processes | what a pipe yields, reports and has read; which variables an include has, which workers a template has, whose the plugin processes are: proved |
| 6 (done) | `Webhook`, `WebhookProofs`, `Shell`, `ShellProofs`, `MartianProxy`, `MartianProxyProofs` | the plugins with goroutines or processes of their own | answers, shutdown, lines and pairs: proved |

The order follows what the rest of the system relies on: the run of a graph
first, then how it comes into being, then the one stage with a protocol of its
own (the plugin stream), then the algorithms that shape graphs, then the stages
that keep state.  Every safety invariant and action property of the runs is proved;
the liveness properties are model-checked (section 5).

## 3. Modules

**`Pipeline`** models `RunTemplate` from the moment the vertices are wired.  A
node is a stage (`Worker`, `Producer`, `Consumer`, `Runner`, after the adapter
of `vertex.go` that runs it), the raw input (`Stdin`), or a broker around an
included graph: `InputRelay` for `IO.SetInput`, `OutputRelay` for `IO.Output`
and the broker its vertex puts behind it.  `Preds` is what `piping` wired.

* *Control.* `pc[n]` is where the goroutine of `n` stands.  `off` before `Run`,
  `init` and `barrier` around `ctx.Initialized()`, `recv` in the `select`,
  `work` inside the stage's own code, `send` in `SendOutput`, `err` and `fail` in
  a send on the error channel (`fail` when it is the last act), `close` in the
  deferred `Close`, `exit`, `done` once the error channel is closed.  `todo` is
  how many more values the current call yields.
* *Barrier.* `Run` counts a stage in and spawns its goroutine (a consumer closes
  its output there); `Initialized` counts it out; `Synchronize` waits for zero
  and releases; `PassBarrier` is the receive on `barrierC`.
* *Data.* The k-th value of node `p` is the number k.  `sent[p]` values went to
  the broker of `p`, `pend[p]` are the subscribers it still owes the last one,
  `slot[<<p,v>>]` is what the goroutine of `diwo.Merge` for that edge holds, and
  `got[<<p,v>>]` what `v` has read.  Channels are unbuffered, so a send and its
  receive are one action: `SendOutput`, `Merge`, `Forward`, `RecvData`,
  `RunnerRecv`.  Ends: `CloseOut` closes an output, `EndBroker` passes it on when
  nothing is owed, `InputClosed` is what the reader sees.
* *Errors.* `raised`, `held` (one place per stage, the goroutine of the error
  merge) and `seen`, what `RunTemplate` logged.
* *Outside.* `Interrupt` and `Cancel`, if `Events` has them.

Choices a reader should know.  A call of a stage's own code yields any number of
values up to `MaxYield`, and may fail if the stage is in `Faulty` (any call may
once the context is cancelled, since `yield` returns that error).  A runner may
read input while a value it yielded is still under way, because a plugin process
has its own goroutines, and returns when its input is closed, or earlier if it
is in `EarlyExit`.  A broker may serve its subscribers in any order, which allows
more than `diwo` does.  The error merges of nested graphs are one place per
stage.  An empty graph (`start` returns an error at once) is left out.
`SendRawInput` sends at most one value: its loop over the lines of stdin is not
reachable, because no file mode has both the character device and the named pipe
bit.

**`Dataflow`** is the abstract specification: numbered streams, readers that
take them in order and completely, a bound on how far a stage runs ahead of its
slowest reader, ends that travel behind the last value.  `Pipeline` maps
`produced <- sent`, `consumed <- got` and `finished <- closed` (with the ended
relays), and `ImplementsDataflow` says it keeps that promise, liveness included.

**`Startup`** models what comes before: `IO.Run` on a graph whose vertices may
be included graphs, again included graphs, and so on.

* *The nested loops.* `phase[g]` says whether `Run` of graph `g` is piping,
  starting its vertices, or has returned; `left[g]` are the vertices its current
  loop has still to visit.  The loops range over Go maps, so any of them is next
  (`Pipe`, `RunLeaf`, `RunSub`).  `InControl` is the call stack: `RunSub` is a call
  of `Run` on an included graph, and the caller goes on when it has returned.
* *The wiring.* `fed` and `entries` are the subscriptions of a vertex to its
  parents and to the input of its graph, `exits` those a merge makes behind an
  included graph.  `Output` on an included graph calls `Output` on its childless
  vertices, which may be included graphs: `Exits` is what one call reaches, stated
  as a least closed set.
* *What already runs.* Stages count themselves in and out and wait at the barrier
  meanwhile.  No value moves before it opens, but a consumer closes its output in
  `Run`, and that end travels through brokers and merges to included graphs whose
  vertices are not subscribed yet (`EndOutput`, `EndInput`).  `NothingMissed` says
  that only streams without values can end that early; `Silent` and `Dry` name them, the
  latter as a least set again.

`Startup` ends where `Pipeline` begins: with `StartsWired`, the state in which the
first stage passes the barrier has the wiring `Preds` declares and every stage
counted in, which is what `Init` and `Synchronize` of `Pipeline` take for granted.

**`PluginStream`** is one `Run` of a plugin: the two goroutines of `GRPCClient.Run`
(`ClientRun`, `ClientIn`), the two of `GRPCServer.Run` (`ServerRun`, `ServerIn`) and
the plugin's worker.  `stream` has the messages under way in both directions,
bounded by `Window` as gRPC's flow control bounds them, what a sender has still to
send of a payload, and how the stream ended.  A payload may be as long as the stream
carries: gRPC refuses to receive more than 4 MiB unless it is told otherwise
(`plugin.DefaultGRPCServer` does not), which a payload that is sent whole can meet, and
is then an end of the stream with an error, as in a `Crash`.  `Refused`, `Cancel` and `Crash` are the
faults.  A payload is its number and its length; `Send` and `Recv` are `RunLoop` as it
is: the loop of `Send` tests a chunk that is nil, so a payload over the limit goes in
one message and an empty one does not go at all, which `Whole` takes for granted
(`Through`); `Recv` would drop the parts of a cut payload, so the two mistakes must
be mended together, and the mutant of `Whole` mends one of them.  The worker is any
code behind any adapter: it reads while it sends, and may stop reading.  One client is
run once; a second `Run` would close `clientStreamOutputDone` again and panic.

**`PatientRunner`** says what `Pipeline` takes for granted of a runner that is not in
`EarlyExit`: it reads its input to the end, and returns after that unless its context
was cancelled or it could not start.  `ImplementsRunner` is the refinement, with
liveness.  `Pipeline` and `PluginStream` so compose: the graph sees a plugin's stage
only through that interface.  A client that could not start its stream (`Refused`)
returns without reading; `Pipeline` has that as a runner in `EarlyExit` that fails, so
the composition without `EarlyExit` is for streams that start.

**`GraphBuild`** builds the graph (`AddVertex`, then `AddEdge` over each stage's
parents in the same order) and splits it (`NextKey`, `VisitVertex`, `Piece`).  The stages come
from a Go map, so in any order.  A missing parent is noted in the error and the loop
goes on, a repeated edge ends it; `WithVertices` logs the error and runs the graph as
it is.  `UndirectedNeighbors` hides a successor's edge behind a predecessor's, and
`CloneFromEdge` of no edges clones the whole graph: so a part of a split is a spanning
tree that has lost the other edges, and the part of a vertex on its own is the whole
graph again.  `SplitCovers` states that as it is.  A connected part is what `PartOf`
says: the least set of vertices that no edge leaves, either way.  `lugh` itself does not
call `Split`.  The module's names begin with `Build` where `Startup` has one of the same
kind, because `GraphProofs` extends both.

**`Pipe`** is `Config` and `Run` of the pipe with the goroutines of its stages, each as
the adapter of its kind runs it (`pc`, `todo`), a barrier (`Initialized`,
`Synchronize`), and the loop that yields (`LoopElem`, `LoopErr`, `LoopEnd`).  A runner may
yield before it reads, read for as long as it likes and leave early; unlike in
`Pipeline`, it does not read while a value it yielded is under way.  `NilChannels` is the
slice made with a length: the merge of error channels waits for them and never ends,
which is why the unchecked receive of line 86 yields no nil values.  That `diwo.Merge`
treats a nil channel as one that never ends is an assumption about the library (it
ranges over it).  A pipe that ends in a consumer returns at once, and a
producer or a runner may end before the stages in front of it: `DrainedAtReturn` is
about chains of workers for that reason.  A pipe without steps (which hands its input
on) and one without an input (an error at once) are left out.

**`Webhook`** is `Produce`: `srv` is the goroutine of `RunServer` and, after it, the
producer's adapter; `start` is the goroutine of `e.Start`; `handler` are the requests.
`Shutdown` waits for the active handlers, `Timeout` does not; both assign the named
result.  An error of `Start`, of a port in use for example, is so overwritten and the
graph is told nothing: the model has that as the code does, and no property asks for it
or against it.  A handler that sends on the closed output panics, which `net/http` turns
into a dropped connection (`aborted`).  `AbortTold`: the graph has read the shutdown's
error by then, so no request is dropped in silence.  The goroutine of `Start` may stay blocked on `errCServer` for ever, which
costs no more than itself.

**`Shell`** is `Run` with `handleCmdInput` (`Take`, `Write`, `EndInput`), `handleCmdOutput`
in a goroutine nobody waits for (`Fill`, `Scan`, `SendOutput`), the child, and the two
pipes between them with `Room` for a few lines.  `Wait` reaps the child and closes
the plugin's end of its output: lines not read by then are lost, and the goroutine may
meet the closed output, which panics.  The reader itself also gives up, when yield
refuses or at a line of over 64 KiB (`Long`, the limit of a `bufio.Scanner`): its deferred
close shuts the child's output, what the scanner and the pipe hold is gone
(`EndOutput`), and the child dies when it prints again.  `Excused` names these three cuts.  `exec.Command` is given no context: a
cancellation reaches the child only as the end of its input.

**`MartianProxy`** is `getOptions`, the options `NewProxy` applies in that order, the
three listeners of `Run`, `Close`, the adapter, and the exchanges.  `px` is the proxy and
where `Produce` stands, `ex` the exchanges, `logger` the mutex and the map of
`WritterLogger`.  The mutex is held through `Yield` and `SendOutput`, as `writeEntries`
does.  A certificate file that exists and does not parse panics (`WithMitmCertsFile`).
The API server and its listener are never closed; they have no state of their own.
There is one logger per configuration.  `LogRequest` leaves out a repeated ID (an exchange
has one of its own) and a failure of `json.Marshal`.

**`Loading`** goes from the command line to the workers of every stage.  `stack` are the
templates being loaded: `Include` loads another template while its own is being loaded,
stages of a template come from a map, in any order.  `wraps` are the wrappers of the
program's one `include` loader, the newest first: `NewFile` adds one, and nothing takes
any off.  A variable's value is the place where it was set, so that a property can
tell whose it is.  `running` are the plugin processes: `Connect` starts one, also if it
fails then, and `CleanupClients` kills all.  The steps of a pipe load in their order and
start processes of their own (`Steps`), which run on if a later step does not load; a
step that is itself an include or a pipe is left out, and so is a signal that comes
before `signal.Notify`, which ends the program as `fatal` does.  What may fail is in `Outside`; a template
that is not one is in `Malformed`.  `fatal` is the `log.Fatalf` of the pipe, which skips
the deferred cleanup.  A template that includes itself loads for ever; the instances
have none.  `StageNames` is what YAML gives: a file maps each name to one stage, and a stage
without a variables section sets none.  `Over` is how one map of variables goes over
another.

**`MCPipeline`**, **`MCStartup`**, **`MCPluginStream`**, **`MCPipe`**,
**`MCGraphBuild`** and **`MCLoading`** give the instances for TLC.  The theorems are in
**`PipelineProofs`**, **`GraphProofs`** (of `GraphBuild` and `Startup`),
**`PluginStreamProofs`**, **`PipeProofs`**, **`LoadingProofs`**, **`WebhookProofs`**,
**`ShellProofs`** and **`MartianProxyProofs`**.

## 4. Runs

| Run | Instance | Checks | Shows |
|---|---|---|---|
| `chain` | stdin -> worker -> runner -> consumer, all may fail, interrupt | `TypeOK`, `BarrierHolds`, `ErrorsConserved`, `ReturnMeansDone`, `Terminates` | start-up in every order, errors from all stages at once, the end of every run |
| `diamond` | a producer feeds a consumer directly and through an included graph | `Delivery`, `CompleteAtClose`, `InOrder`, `ImplementsDataflow` | multicast to readers of different speed, ends across relays, refinement |
| `desert` | a root producer next to a root worker, then a runner that may leave; cancellation | `Delivery`, `EndsOrStuck` | every run that does not end waits behind a value owed to a stage that no longer reads |
| `startup` | nine vertices: a root graph that includes two graphs, one of which includes a third | `TypeOK`, `StartsWired`, `OutputFirst`, `NothingMissed`, `Opens` | every order of wiring and starting, with the ends of a consumer that is read by an included graph |
| `stream` | two values in, three out, one longer than the limit and one empty; window of one; refusal, cancellation, crash | `InputBeforeWork`, `Whole`, `CompleteReturn`, `ImplementsRunner` | payloads arrive whole and in order, a clean return is complete, the client drains its input |
| `pipe` | every pipe of one or two stages, six of three, two values, errors, cancellation | `NothingMadeUp`, `DrainedAtReturn`, `ErrorsAccounted`, `Returns` | the pipe is its chain, and returns |
| `graph` | four stages, up to three declarations | `BuiltAsDeclared`, `SplitCovers` | every declaration, right or wrong, in every order |
| `webhook` | three requests | `Answered`, `GracefulClose`, `AbortTold`, `ReturnsOnCancel` | requests against a shutdown that may time out |
| `shell` | four values, five lines, one of them empty and one over the scanner's limit; pipes of one | `LinesAccounted`, `Ends` | what cuts lines off and when; that `Run` ends |
| `har` | two exchanges, every configuration | `Paired`, `QuietAfterClose`, `LogsToStage`, `EndsOrUnread` | pairs, a quiet end, and the one way to be stuck |
| `loading` | two sets of templates, one that loads and one with every mistake | `VariablesReach`, `WhollyLoaded`, `ProcessesOwned` | includes in every order, with every failure |
| `leak` | the templates that load | `OnlyFromAround`, violated | an include gets another include's variables |

`desert` runs without a deadlock check because the program can really stop there:
a value of the raw input is owed to a root producer that has no input to read
(`vertex.go:177` never touches `inputC`), or the parents of a runner that
returned early are blocked in `SendOutput`.

`leak` is a finding about the code: a template adds its wrapper to the one `include`
loader of the program, the wrapper is meant "to pass template config to plugins"
(`template.go:23`), but it stays, and as the newest it is asked first.  An include
stage loaded after another include therefore gets the variables of the template the
other one included, over those of its own template.  Which ones depends on the order
of a map.  `VariablesReach` says what does hold: no variable is missing, and those a
stage sets itself are the stage's.

`shell`, `webhook`, `har`, `graph` and `loading` run without a deadlock check: they
end (a graph is built, a program has exited, a stage is done), and `shell` and `har`
may also stop behind an output that nobody reads any more, which `Ends` and
`EndsOrUnread` name.  `stream` and `pipe` loop when they have returned (`Over`) and are
checked for deadlocks.

*Bounds.* In `Pipeline`, `MaxYield` is the only bound on behaviour.  Two values fill the
broker and the merge of an edge at the same time, and the third blocks the
sender, so `diamond` yields up to two per call on both paths and `desert` up to
three before a reader that leaves.  Stages are three because the interesting
interactions are between a sender, a sibling and a reader.  The theorems have no
bound.  `startup` has no bound but its graph: three levels of nesting, an included
graph behind a consumer (its input ends during start-up), one nobody reads, and
one between two stages.

The other runs are small for the same reason.  With a window of one message every
further send blocks, so `stream` needs no more than a few values; the lengths 3, 1 and
0 against a limit of 2 are the cases of `RunLoop`.  Three stages give a pipe a first, a
last and one between; the six chains of three put each kind of stage first and in the
middle, and a chain of workers is one of them.  Four stages and three
declarations allow two connected parts of two stages, a part with a stage on its own, a
cycle of three, and a repeated, missing or own parent.  Three requests can be active,
answered and too late at once.  With room for one line in either pipe of the shell,
four values and five lines fill both, and lines come before and behind the long one.  Two exchanges are needed for a mutex.  The
templates of `loading` nest two levels with a sibling, what `OnlyFromAround` needs, and
have each failure of `LoadPlugin` once.

*Fairness.* Weak fairness for each goroutine: of a stage, a broker, a merge, and
`RunTemplate`.  The Go scheduler runs every goroutine that can run, and a
channel operation that stays ready is taken.  A Go `select` with several ready
cases may choose any; what must happen is that one of them does, which is what
fairness of the whole goroutine (and not of each action) states.  Interrupts,
cancellations and errors are never forced.  A stage's own code is assumed to
return.

In `PluginStream`, `Pipe`, `Webhook`, `Shell` and `MartianProxy` too each goroutine of the
program is weakly fair, and so are the child that the shell runs (until its input ends)
and the timer of the shutdown.  Crashes, cancellations, HTTP clients and whoever reads
the output of `webhook` or its errors are not.  In `MartianProxy` an exchange is
strongly fair: it waits for a mutex that another exchange may take first, and Go's
`sync.Mutex` goes to the waiter after a millisecond (its starvation mode), so nobody is
passed over for ever.  `GraphBuild` and `Loading` have no liveness property.

In `Startup` the goroutine of `RunTemplate` and those of the stages are fair; the
brokers need not be.

Each property has a mutant in its module, defined before the definition it
changes and commented as such, that the run's property refutes: a second
`wg.Done`, a missing wait, an overwritten error, and so on.

## 5. Proofs

`PipelineProofs` proves for every graph, any number of stages and values, and
all outside events:

* `TypeCorrect`, `BarrierCorrect`, `DeliveryCorrect`, `OrderCorrect`,
  `ErrorsCorrect`: the properties of the runs of that name;
* `SiblingsCorrect`: two readers of one stage are never more than two values
  apart (`SiblingsInStep`), a consequence of `Delivery`.

The assumptions are those of `Pipeline`: the kinds of nodes are disjoint, the
vertices are finitely many, nothing feeds the raw input, the bounds are numbers.

The inductive invariant `IInv` is `TypeOK` with five parts.  `Counted` says the
wait group counts exactly the stages between `Run` and `Initialized`; without it
neither `wg >= 0` nor the barrier is inductive.  `StdinPlain` confines the raw
input to the few places its goroutine can be in.  `DirectSlots` says an edge
without a merge has an empty slot, so that what is under way on it is `pend`
alone.  `Gate` is the barrier property strengthened with the state of `main` and
`released`.  `Delivery` is inductive with these.  `OrderCorrect` follows from
`Delivery` in the state before a step: what a reader may take is `got + 1`.

A second invariant, `Ends`, is about what is over.  `Quiet`: an ended
broker owes nothing and its source is closed.  `Silenced` and `Mute`: who closed
its output never sends again; the consumer, which closes at once, has nothing to
send.  `Drained` and `Finished`: a runner that saw the end of its input, and a
patient stage that is about to end, have a closed input.  `Left`: `RunTemplate`
returned by itself only when every stage was done.  None of them is inductive
without `Delivery`, which bounds what is still under way on an edge whose broker
has ended.  From `IInv` and `Ends` follow

* `CompleteCorrect`: a stage that closes its output has taken every value of its
  parents (`CompleteAtClose`);
* `ReturnCorrect`: when `RunTemplate` returns by itself nothing is under way
  (`ReturnMeansDone`).

The last theorem is `KeepsPromise`: `Pipeline` implements `Promise!SafeSpec`,
the safety part of `Dataflow`, for every graph without early returns
(`EarlyExit = {}`) and without a cancellation.  Both assumptions are needed: a
stage that leaves early does not read to the end.  The proof maps each action to
one action of `Dataflow` or a stutter (`StepRefines`); what makes a `Close` legal
there is that the stage's parents have ended and were read to the end, from `Ends`.

`GraphProofs` proves of `Startup`, for every nesting of graphs and every order of the loops
`TypeCorrect`, `StartsWiredCorrect`, `OutputFirstCorrect` and `NothingMissedCorrect`.  Its assumption is
`GraphsAreNested`; the conjunct on subsets of `Sub` says that no graph includes
itself, which a template that loads at all guarantees.  The invariant: `Walked`
(the state of the nested loops tells which vertices were run), `WiredSoFar` (the
subscriptions are those of the vertices visited by the loops of piping, no more),
`Counted` and `Gate`.  The step that wires an included graph rests on two lemmas
about `Exits`, `ExitsLeast` and `ExitsLevels`; that all graphs are done when the
root is rests on the nesting being well-founded (`RootDone`).  `NothingMissed` has an
invariant of its own, `EndsSilent`: only consumers close their outputs, and an end comes
out of silent vertices only and goes into dry graphs only; `ExitsBelow` carries that
through the merges of an included graph.

`PipeProofs` proves for pipes of any length, any stages and any input, `NothingMadeUpCorrect`,
`ErrorsAccountedCorrect` and `DrainedAtReturnCorrect`.  The invariant adds to `TypeOK` and
the first two properties: `Loaded`, that a pipe that runs has a stage; `Begun`, what is
true before the barrier opens; and `EndsInOrder`, that a worker whose output is closed
has ended after the stage before it, which is what makes the end of the last one mean
the end of all.

`WebhookProofs` proves `Answered`, `GracefulClose` and `AbortTold` for any set of
requests.  `Settled` says no handler is active once `RunServer` has returned, unless it
timed out, that a request is aborted by a closed output only, and `Told` follows the one
error from `RunServer`'s result to the graph.

`MartianProxyProofs` proves `Paired`, `QuietAfterClose` and `LogsToStage` for any set of
exchanges and every configuration.  `WriterFirst` is the order of the options; `Locked`
says the mutex is held by the one exchange whose entry is being yielded; `Quiet` bounds
when there are exchanges; `Entries` and `History` relate where an exchange stands to the
pending entry and to what was logged, and `Ordered` is `Paired` without the `CHOOSE`.
`Entries` and `History` are needed together: a response is logged for a pending entry,
whose request was logged or else was refused by a context that has ended.

`GraphProofs` also proves `BuiltAsDeclared` and `SplitCovers`, for any stages and
declarations.  `Listed`: the vertices come first, each once.  `Handled`: a declaration the
loop has passed is an edge or is named in the error, and no edge is there that was not
passed.  `Result` relates the error's kind to where the loop stopped.  For the split,
`Stacked`: the stack of `SplitEdges` has each vertex once, and the neighbours of those it
has read are on it.  `Joins`: the edges kept are one less than the vertices on the stack,
and join every one of them to the first.  Together they say that an emptied stack is a part
with a tree that spans it.  `PiecesMade`: the parts that are finished have their pieces.
`Finished` is a set that no edge leaves, so that the next part is one of its own
(`PartWalked`, `PieceFacts`).  The lemmas on `PartOf` (`PartFacts`) hold of any graph, and
are used of the template's and of each piece.

`PluginStreamProofs` proves `InputBeforeWork`, `Whole` and `CompleteReturn` for payloads
of any number and of any lengths the stream carries, every window and all faults, and
`RefinesRunner`: the client
implements `Stage!Safety`, the safety part of `PatientRunner`.  The assumption is
`StreamBounds`, which says that the bounds are numbers.  The invariant is `TypeOK` with
three parts.  `Control` is who waits for whom: `Gate` (the barrier of the server), `Ends`
(the two goroutines of the client) and `Closed` (a stream that ended well has nothing to
come).  `Upstream` accounts for the values the client took: those the worker read, what
the server holds, what is on the stream and what is still to be sent, put one behind the
other (`Route`), begin what was taken, and are all of it while the stream is open and the
output is not done.  `Downstream` does the same for the values and the errors the worker
made.  Only the whole route is invariant, since each step moves a payload from one place
to the next (`Sends`, `Receives`, `Joins`).

`LoadingProofs` proves `VariablesReach`, `WhollyLoaded` (`Whole` is the property of the
stream) and `ProcessesOwned` for any files, nested as
deep as they are, and any failures; its assumption is `StageNames`.  `Shape`: each template
on the stack has loaded the stages it no longer has to do, and those that are includes are
loaded or are next on the stack.  `Wraps`: the oldest wrapper is the command line's, and
each template being loaded has left its variables in one of them; that is why no
variable is missing, whatever wrappers came later.  `Places`: no two templates are at one
place, and each is joined to the one that includes it; without it the `CHOOSE` of
`VariablesReach` says nothing.  What an include gets through all wrappers, the newest first, is
an induction over their number (`Fits`, `Given`).  `Owned` says what runs as one union over
all templates, of the processes of the stages each has loaded: a step changes one member
of that union and adds the same processes to `running` (`OwnGrows`), and the names of a
file's stages being different, no other stage counts as loaded with it.

`ShellProofs` proves `LinesAccounted` for any lines, empty and over-long ones among them,
and pipes of any room.  `Account(k, m)`, for some `k` and `m`: the first `k` lines are
shown; unless the reader gave up there (`GaveUp`), the first `m` were read, the scanner has
those between, and the pipe has the rest unless the child was reaped after its end.
`Shut`: only the reader's end or `Wait` closes the plugin's end of the output.  `Sending`: the
goroutine never sends an empty line.

The library's induction theorems take an operator as a parameter, which the provers at
hand cannot instantiate.  Where a proof needs induction over a sequence or a number
(`Shown`, `Kept`, `Through`, `Wrapped`), it uses the least counterexample: `Least` follows
from `NatLessThanWellFounded` and `WFMin`, and `Induction` from `Least`.

Only model-checked: the liveness properties (`Terminates`, `EndsOrStuck`, `Opens`,
`Returns`, `ReturnsOnCancel`, `Ends`, `EndsOrUnread`, the fair parts of
`ImplementsDataflow` and `ImplementsRunner`), which are beyond the prover.

## 6. Not modelled

* `distinct`: its `Work` is sequential and its state is a set of hashes.  `main` makes it
  without a limit, so the code that forgets a hash is never reached.
* The static data plugins (`base64`, `forward`, `insert`, `regex`, `split`, `template`,
  `stdoutput`, `fileinput`) turn bytes into bytes in one call.  `fileinput.Config` decodes its
  configuration and drops it, so that as a producer it has no file to read.
* `katana`, `docker`, `enola`, `rawfile`, `leaks`, `output` and `rawinput` are thin wrappers
  over tools and files.
* The contents of values: lines of the shell are slices of the scanner's buffer, and
  `insert` appends to a slice that other readers of the same broker hold.  Both are
  questions of memory below these models.
* `AddSelfDescribeVertex`, `VertexEdges`, `Set.Remove` and its like, and the options of the
  proxy that no plugin uses: the program never calls them.
* `DrawGraphOnly`, logging, the web API stub, generated code and the fixtures of tests.
