# A TLA+ model of the inference payload processor

The inference payload processor (IPP) is an Envoy external processor: for every
HTTP request Envoy opens a gRPC stream, IPP runs plugins over the request's
headers and body (one of which may choose the model), answers with mutations,
and does the same for the response. A data layer beside the streams collects
what the choice is made from.

This directory models IPP's own logic in TLA+, checks it with TLC on small
instances and proves part of it with TLAPS for all instances. Paths below are
relative to `src/`.

## 1. Inventory

| Component | Code | State | Operations | Used by |
|---|---|---|---|---|
| ext_proc stream | `pkg/handlers/server.go`, `request.go`, `response.go`, `pkg/common/envoy` | per stream: two body buffers, two completion flags, the `RequestContext` | one handler per message type, `Send` | Envoy; notifies the data layer |
| message headers | `pkg/framework/interface/requesthandling/types.go` | headers, changed and removed ones | `SetHeader`, `RemoveHeader` | handlers, header plugins |
| data layer processor | `pkg/datalayer/processor.go` | mutex, flags, WaitGroup, bounded channel, goroutines | `Start`, `Stop`, `Register...`, `Notify`, the event loop | runner, loader, streams |
| request metadata extractor | `.../datalayer/requestmetadata` | counters per model | `Extract` | event loop; its counts are read by the in-flight scorer |
| model registry and model-config datasource | `pkg/datastore`, `.../datalayer/modelconfigcollector` | map of models with attribute maps; watched file | `GetOrCreateModel`, `DeleteModel`, `GetModels`, `Put`, `syncModels` | datasource goroutine, event loop, streams |
| adapter mapping | `.../requesthandling/basemodelextractor` | three maps | `Reconcile`, `configMapUpdateOrAddIfNotExist`, `configMapDelete`, `getBaseModel` | controller-runtime, streams |
| model selection | `pkg/modelselector`, `.../modelselector/{filter,scorer,picker}` | none of its own (reads attributes) | filter, scorers, picker | streams |
| request cost extractor and CostGuard | `.../datalayer/requestcostmetadata`, `.../scorer/costguard` | a digest and two times per model, published snapshots | `Extract`, `Score` | event loop, streams |
| session affinity | `.../scorer/sessionaffinity` | LRU cache with expiry | `Score`, `ProcessResponse` | streams |
| configuration loader | `pkg/config/loader` | the pipeline being built | `LoadConfiguration` and the functions it calls | runner |
| response payload | `pkg/handlers/response.go`, `.../datalayer/requestcostmetadata` | none (functions) | `parseSSEResponseBody`, `extractTokenCounts` | streams, cost extractor |
| runner and gRPC runnables | `cmd/runner`, `pkg/server`, `internal/runnable` | how far `Run` is, the context, two servers and their streams | `Run`, `GRPCServer` | the process |
| certificate reloader | `pkg/common/certs.go` | the pair in use, a timer | watch loop, reload callback | nobody yet (only its tests) |
| other | observability, API types, test doubles | | | see section 8 |

How they interact: the runner loads the configuration (which registers
collectors, datasources and extractors with the processor), starts the
processor and then the gRPC server. Every stream is a goroutine of its own; it
calls `Notify` twice at most. The event loop is one goroutine and hands each
event to every extractor. Extractors and the model-config datasource write the
registry; selections read it, attribute by attribute. The mapping of adapters
is written by a controller and read by streams.

What is hard in this code:

* many goroutines share the registry, and every call is atomic but no sequence
  of calls is: a sync, a selection and an extraction interleave call by call;
* registration, start and stop of the data layer overlap, with work done after
  the mutex has been released;
* Envoy decides about chunk sizes, re-deliveries, trailers and aborts;
* events are dropped when the channel is full;
* the config file and the ConfigMaps change while they are being read, and
  notifications may be late, merged or under another name;
* time: epochs and flushes of the digests, expiry of sessions, a debounce timer
  whose callbacks may overlap, a grace period;
* shutdown: one signal ends the event loop at once and the servers only when
  their last stream has ended;
* rounding and boundaries: chunk limits, floors, sums of prices, `U^(1/score)`.

What makes each component correct is stated as properties, listed with the runs
in section 4. `PROJECT.json` lists each hazard at its line with the properties
that watch it.

## 2. Modules

Ordered by importance: what every request passes first, then what is shared.

| Module | Models | State and actions |
|---|---|---|
| `ExtProcStream` | `Server.Process` with its handlers | `requestBody`, `responseBody`, `...Complete`, `profile`, `headersSent` as in the code; `toSend` is what a handler returned, `out` what was sent, `trace` the stages run. One action per message type (receiving it and running its handler: the state is the goroutine's own), one per `Send`. `envoy` is the proxy: it sends chunks of any size, may repeat a final chunk, use trailers or stop, and keeps the bytes it has got back (`got`). The i-th byte of a body is the number i, a byte written by a plugin is 0 |
| `InferenceMessage` | headers of a message | `Headers`, `mutatedHeaders`, `removedHeaders`; `upstream` is what Envoy has, `intended` the history of what plugins wanted. A key is a name with a spelling |
| `EventBus` | nothing in particular: what the processor promises of events | FIFO, bounded, each event handled once |
| `DatalayerProcessor` | `Processor` | the fields of the struct, the position of the goroutine that starts and stops it (`owner`), of each `RegisterDatasource` call (`registrar`) and of each goroutine (`worker`, `loop`). What runs under the mutex is one action, what follows is another. `RegisterExtractor` takes no mutex; it is one step because only the goroutine that loads the configuration calls it, before it calls `Start` |
| `InflightAccounting` | `RequestMetadataExtractor` with the streams | EXTENDS `EventBus`; a stream is what `ExtProcStream` shows of it: a request event, then a response event, each at most once |
| `Runner` | `Runner.Run`, `GRPCServer`, `AsRunnable`, the health server | EXTENDS `InflightAccounting`: the streams and the event loop live in the process. `main` is where `Run` is, `server` the two runnables, `conn` the streams, `mgr` the controller-runtime manager (external: it ends its runnables on a signal or a failure and waits for them for a grace period) |
| `ResponsePayload` | `parseSSEResponseBody`, the parsing at EndOfStream, `extractTokenCounts` | functions; `AmountsTo` is the reference they are checked against |
| `CertReloader` | `NewCertReloader` | the two files as versions, pending events, the timer, and callbacks that read one file after the other |
| `ModelRegistry` | datastore, attribute maps, model-config datasource, the extractors' writes | `store`, the position `pc` of the datasource in `Start`/`syncModels` (each call of the datastore is a step), the Model an extractor holds (`held`) |
| `AdaptersStore` | `AdaptersStore`, `ConfigMapReconciler`, predicate | the three maps, the work queue, and the reconciler split at its `Get`. `contents` is what the users of a behaviour write, one of the constant `Worlds`. `counted`, `miscounted` and `kept` are histories for the properties: the base model a ConfigMap was added under, the base models a removal went wrong for, the ConfigMaps found gone |
| `ModelSelector` | selector plugin, pipeline, model-group filter, in-flight and cost scorers, three pickers | one selection, every attribute read one step, attributes written in between; scores are rationals |
| `CostDigest` | `RequestCostMetadataExtractor`, `CostGuardScorer` | digest and times per model, snapshots, a clock; a digest is the sequence of its samples |
| `SessionAffinity` | `SessionAffinity` scorer | the cache in LRU order, one turn per client; a response names any model, not only the one the request was sent to, and reaches its client (`Deliver`) or does not (`Lose`). `since` and `absent` are histories: the sessions used after a session, and the ones not recorded or expired |
| `ConfigLoader` | `LoadConfiguration` | one action per function it calls, in order; in `buildModelSelector` one per profile, in any order, and one per request plugin of it |
| `ExtProcStreamProofs`, `InferenceMessageProofs`, `DatalayerProcessorProofs`, `RunnerProofs`, `ModelRegistryProofs`, `AdaptersStoreProofs`, `ModelSelectorProofs`, `CostDigestProofs` | | inductive invariants, lemmas and theorems of the module named (section 7). `ExtProcStreamProofs` also has those of `ResponsePayload` and `ConfigLoader`, on which the stream depends, `InferenceMessageProofs` those of `SessionAffinity`, whose id travels in a header, and `RunnerProofs` those of `CertReloader`: the specifications of the second modules have names with a letter in front (`LSpec`, `ASpec`, `CSpec`), as `Runner`'s has, so that both can be extended |
| `MC...` | | instances for TLC; `MCPlugins` has two modules without common state, `InferenceMessage` and `SessionAffinity`: one moves, the other rests in an initial state |

How they fit together:

* `DatalayerProcessor` implements `EventBus` (the channel, and the event in the
  loop's hands, are what waits; the bus closes when the loop exits; hence room
  for `BufferSize + 1`). `InflightAccounting` uses the bus in its place.
* `ExtProcStream!ServerSound`, what a stream assumes of its server, holds of
  every server that `ConfigLoader` builds (`BuiltServerSound`, proved).
* `ExtProcStream` fires the ResponseEvent whose body `ResponsePayload` defines;
  `CostDigest` takes its samples from such bodies.
* `ExtProcStream!StagesInOrder` shows that a stream notifies each event at most
  once and the request's first, which is how `InflightAccounting` models it.
* The attributes `ModelSelector` sees change at any moment are those written by
  `ModelRegistry` and `InflightAccounting`.

Definitions whose names begin with the name of another and end in what is wrong
with them, marked "Faulty" in their comment, are mutations: each replaces the
definition it follows to show that a property can fail.

## 3. What is abstracted

Names, models, prices and payloads are members of small sets. Where a handler
parses a whole body, parsing is a choice between "parses" and "does not"; in the
ResponseEvent, a streamed body is a sequence of lines, one for each byte that
`ExtProcStream` counts, and a line is an event or is skipped (no `data:`, empty,
`[DONE]`, not JSON). Of an event what is read is kept: the models it names, usage
at its two places, text and stop reason. `usageMetadata` (Google) and
`message.usage` (Anthropic's first event) are not among it: the code does not
merge them. Plugins are a choice
between what they may do: fail with a typed or another error, rewrite the body
or leave it. Logs, spans and metrics are left out. The t-digest is the
sequence of its samples in place of their centroids; its trimmed mean counts the
sample at the limit in part, as the library's does. `max_tokens` is an integer of
any sign: values that int64 does not hold, and sums that overflow it, are left
out, as are weights that are no numbers. An entry of the session cache leaves it
when its time is over; in the library it may occupy its place a little longer.
`exp` in CostGuard's softmax is left out: what is compared is the order of the
scores. Random choices are nondeterministic. External parts (Envoy, fsnotify,
controller-runtime's queue, the LRU library, float underflow) are modelled from
how the code uses them and marked external in the map.

## 4. Runs

`tlc -config <run>.cfg <module>`; the module is in `PROJECT.json`.

| Run | Checks | Bounds, and why they are enough |
|---|---|---|
| `stream` | `AnswersInOrder`, `BodyFidelity`, `ContentLengthHonoured`, `StagesInOrder`, `EventReportsResponse`, `CompletedBodyAnswered` | servers with and without body post-processors; limit 2 bytes, chunks of 0 to 2 bytes, two per direction, rewritten bodies of 1 to 3, rewritten chunks of 0 to 3: bodies below, at, above and twice the limit, and empty; one re-delivery. Six streams of four lines, of three providers: usage in one event, in two, overwritten, under "response", or absent |
| `processor` | `WgCountsGoroutines`, `NoSourceForgotten`, `StopQuiescesCollectors`, `ExtractorsInStep`, `ImplementsBus`, `StopReturns`, `EventsHandled` | a collector and a datasource, each registered before, during or after start and stop; two extractors, three events and a channel of one: it fills up while an event is dispatched. The safety properties are also proved for all sizes |
| `runner` | `CountExplained`, `GracefulDrain`, `RunReturns` | two streams, one of which has a negative `max_tokens`, room for two of their four events: either event of either stream may be dropped, and a response may meet the other stream's count; a signal or a failure of either server at any point |
| `registry` | `Converged`, `PublishedCountFresh`, `ListedModelsStay`, `ChangesApplied` | two models, three configs, a broken and a missing file, two writes (one may come during the sync of the other), all faults |
| `adapters` | `MappingServed`, `ResolvedAdapterListed`, `BaseModelsCounted`, `EventuallyServed` | two ConfigMaps, two base models and adapters, four changes: add, change, break, unlabel, terminate, delete. In one world each ConfigMap has its own adapter and one base model, which it may lose on the way out with its adapter or without; in the other the two share an adapter, change their base models and leave with another one or none |
| `selector` | `RequestHonoured`, `ScoringSound`, `DominatedNotPicked`, `HopelessNotPicked` | two models, prices and counts up to 2, two writes during a selection; three pickers; positive weights (the theorem on scores has weights of any sign) |
| `cost` | `SnapshotCurrent`, `SnapshotStable`, `CheapestNotBehind` | three responses (a cheap JSON one, a dear stream with its usage in two events, one without both counts); two models with up to four samples between them (two make a model explored), a window of two and a flush interval of one over three units of time: a boundary of the window is passed by a model with and without samples in between, and several samples fall between two flushes |
| `config` | `ReferencesServed`, `StreamsSound`, `SoleSelectorComplete` | every combination of sound and faulty sections with two profiles |
| `plugins` | `SetOrRemoved`, `EnvoyAgrees` | four headers, two values, four changes: set, remove, restore and set again |
| | `RecentSessionsKept`, `StickyTurns` | two clients, which may start with the same session, four ids, a cache of two entries, two models: an entry is evicted, expires, is overwritten by a late answer that names another model, and made by a response that never arrives |
| `certs` | `ReplacedByNewerPair`, `SettledPairServed` | each file replaced up to three times, alone or with the other, and two callbacks at a time: a reload meets a half-replaced pair, twice in a row, and another reload |

All of these pass. In the cost run nothing may get stuck; in the others the
system may really stop (a stream ends, the load is over, the processor was
stopped, the bound on changes is reached), so they do not look for deadlocks.
Symmetry is used only in runs without liveness properties.

Every module also defines its type invariant; each is proved (section 7).

## 5. Where the code and its documentation disagree

Two runs check what the documentation says, and TLC finds a behaviour of the
model that breaks it (the lines quoted are in `PROJECT.json`):

* `stream_doc`: `docs/architecture.md` says that the ResponseEvent is fired
  "before the response plugins run" (lines 181-182) and that pre- and
  post-processing "are not yet invoked by the request path" (104-107, 128-130).
  The code runs the response plugins, then the post-processors, then notifies the
  event. `StagesInOrder` states the order of the code; `DocumentedStages` says
  that a stream keeps to one of the two statements at least, and the
  counterexample refutes both (`ResponseEventBeforePlugins`, `PhasesReserved`).
* `adapters_delete_doc`: when a ConfigMap is gone, `Reconcile` deletes what an
  empty object lists, so the adapters of a deleted ConfigMap keep resolving
  (`DeletedNamesForgotten`).

The following were met the same way. Each is a property at the end of its module
that quotes the statement, with a configuration for it; TLC finds each of them
violated (of the two in `stream_served_doc` and in `config_doc` it reports one
first, both with `-continue -workers 1`):

| Configuration (module) | Statement | What happens |
|---|---|---|
| `stream_served_doc` (`MCStream`), `ReceivedRequestAnswered` | `docs/architecture.md:68-70` | a request that ends with trailers instead of EndOfStream is never handled: the headers and body stay unanswered |
| `stream_served_doc`, `PostProcessorsAlwaysInvoked` | `pkg/config/config.go:36-37` | a response to a request without a body by-passes the body post-processors |
| `processor_stop_doc` (`DatalayerProcessor`) | `pkg/datalayer/processor.go:181` | a datasource registered while `Stop` runs can be launched after `Stop` has returned |
| `registry_remount_doc` (`MCRegistry`) | `modelconfigcollector/plugin.go:120-121` | the directory of the config file is watched to handle ConfigMap remounts, but the events of a remount have other names than the file's and are skipped |
| `registry_start_doc` | `modelconfigcollector/README.md:28-29` | a change of the file between the initial read and the watch is not noticed |
| `registry_listed_doc`, `ExactlyListedModels` | `modelconfigcollector/README.md:28-29` | an extractor registers a model that no file lists |
| `registry_priced_doc`, `RegisteredModelsPriced` | `.../datalayer/pricing/pricing.go:35-37` | a model is registered before, or without, its prices, over which the cost-aware scorer panics |
| `adapters_served_doc` (`MCAdapters`), `EveryMappingServed` | `docs/configuration.md:193,221,222` | an adapter moved between ConfigMaps is lost if the one it left is reconciled last; a ConfigMap given another base model leaves the new one unknown |
| `selector_weight_doc` (`MCSelector`) | `picker/weightedrandom/picker.go:118` | with small weights a positive score may get the key of a zero score, and a model of score zero be picked |
| `cost_epoch_doc` (`MCCost`) | `requestcostmetadata/plugin.go:80-81` | the snapshot of a model without traffic outlives its epoch |
| `affinity_selected_doc` (`MCPlugins`), `RecordsSelected` | `sessionaffinity/README.md:3,12` | what is recorded for a session is the model the response names, not the one that was selected (`StickyTurns` is about the former) |
| `affinity_echo_doc`, `AlwaysEchoed` | `sessionaffinity/README.md:14` | a response that names no model is answered without the session id |
| `config_doc` (`MCConfig`), `LoadedConfigHasPicker` | `pkg/config/loader/configloader.go:66-68`, `docs/configuration.md:61` | a `profilePicker` that is none passes the load: the error is logged and not returned |
| `config_doc`, `ProfilesKeepSelectors` | `docs/plugins.md:142-143` | profiles sharing a model-selector get each other's filters, scorers and picker |
| `message_case_doc` (`MCPlugins`) | `pkg/handlers/request.go:52-54` | `Content-Length` is set next to the received `content-length` |
| `certs_overlap_doc` (`CertReloader`) | `pkg/common/certs.go:32,78` | a reload that began before the timer was reset publishes the old pair after the new one |

Two more without a configuration: a dropped RequestEvent makes the count too low
for the requests of others, by no more than its own share (`CountExplained`), and
the health server answers SERVING whatever the ext_proc server does.

The passing runs state what does hold in spite of these: `Converged` is about
changes that were noticed, `SetOrRemoved` about keys rather than names, and
`MappingServed` about users who keep to `OwnNames`. `CountExplained` allows for the
share of requests whose event was dropped and for tokens that negative limits took
away, `SettledPairServed` for reloads that overlapped, `HopelessNotPicked` for
scores too small for their key.

## 6. Fairness

* `ExtProcStream`: weak fairness of sending (a `Send` returns or fails). Nothing
  is assumed of Envoy, which may stop sending at any point.
* `DatalayerProcessor`: the scheduler runs every goroutine that can run (weak
  fairness of each). The event loop's `select` leaves when its context is done
  although events keep coming: Go chooses among ready cases at random, so strong
  fairness of `LoopExits`. A datasource's `Start` returns after its context is
  done: that is its interface's contract. Nobody has to start, stop, register or
  notify.
* `ModelRegistry`: both goroutines are scheduled. Nobody has to write the file.
* `AdaptersStore`: the worker runs, a back-off ends, and a `Get` that is retried
  again and again succeeds in the end (strong fairness, per ConfigMap).
* `Runner`: the goroutines of `Run`, the manager and the servers are scheduled,
  the grace period ends. No signal has to come, no server has to fail, and a
  stream may last for ever.
* `CertReloader`: the goroutine takes events, the timer fires, a callback that
  has begun ends. Nobody has to replace a file.
* The other modules have no liveness properties and no fairness.

## 7. Proofs

`tlapm <module>` for each of the modules ending in `Proofs`. Each defines an
inductive invariant (`IInv`, or the name given below), shows that the
specification keeps it (`Invariance`) with one step per action, and draws the
theorems below from it; the invariants were checked with TLC on the run's
instance first, except where it is said. They hold for every value of the
constants that satisfies the module's assumption, which TLC evaluates in each
run. In all of them the bounds of the model (numbers of changes, chunks, events,
units of time) are constants too, so a proof covers behaviours of any length.

**Stream** (`ExtProcStreamProofs`), for any servers and profiles that
`ConfigAssumption` allows, any chunk limit, chunking, rewritten bodies and number
of re-deliveries:

* `AnswersOrdered`: `AnswersInOrder`; `PipelineOrdered`: `StagesInOrder`;
  `BodyPreserved`: `BodyFidelity`; `LengthsHonoured`: `ContentLengthHonoured`;
  `TypeCorrect`.
* The order of what was sent depends on what is still to be sent, so the
  invariant is about `Said`, the two together. `SaidInv` says, for each position
  of Envoy in a direction, what may have been said: nothing for a request before
  it is complete, no EndOfStream for a response that is not. `FlowInv` ties
  Envoy's position to the flags on which the handlers return early, which is why
  a final chunk delivered again says nothing again. `TraceInv` bounds, in the
  same way, the stages that have run. The rest are lemmas on what each handler
  returns: `AnswersInOrder` of the messages of one handler, and that they may
  follow what was said (`Continues`).
* For the bodies, `BodyInv` says that a buffer holds what Envoy sent and that
  there is, for each direction, a body (empty before the first answer) of which
  Envoy has got a prefix while the chunks still to send lie end to end (`Layout`)
  over the rest, a chunk with EndOfStream last (`Account`). The body is Envoy's own
  bytes as far as no plugin wrote it, and has the length that a Content-Length
  promised. A response that is answered chunk by chunk has a case of its own: its
  bytes rise, with a plugin's bytes in between. `BodyInv` quantifies over all
  bodies, so TLC checked the two properties and not this invariant.
* The attempt showed that the model left out a case: a chunk processor may leave
  nothing of a chunk, and `BodyFidelity` was stated as if it could not. The model
  now lets it, and the property (`Intact`) is about the bytes no plugin rewrote.

**Response payload** (`ExtProcStreamProofs`), for any stream of lines, chunking
and re-deliveries:

* `EventReports`: `EventReportsResponse`. `BodyInv` gives that the buffer at
  EndOfStream is what Envoy sent, each byte once; the rest is `ParseAmounts`:
  `parseSSEResponseBody` of any lines is what `AmountsTo` says of them without
  merging.
* That is induction over the lines, for which the library's schemes cannot be
  used. It is done by least counterexample: naturals are well-founded (`NatMin`),
  a recursive function exists because there is no least length without one
  (`MergesExist`), and there is no least prefix of which the merged body says
  something else (`MergeAll`, by `MergeOne` for one line). The library's
  `FlattenSeq` is characterised in the same way (`Flattens`). For this the merge
  is a recursive function on the length of a prefix, and no fold.

**Configuration loader** (`ExtProcStreamProofs`), for any configurations, plugin
types and registry (`LoaderAssumption`: sections are lists, and the built-in
picker is registered):

* `LoadedReferencesServed`: `ReferencesServed`; `LoadedStreamsSound`:
  `StreamsSound`; `LoadedSelectorComplete`: `SoleSelectorComplete`; `LoaderTypes`.
* `LoaderInv` says, for each phase of the load, what the functions before it have
  established (`Done` numbers the phases); a load that failed has nothing to
  show. `WiringInv` is about the two loops of `buildModelSelector`: a selector has
  the plugins of the only profile using it exactly if the loops have passed the
  one reference to it (`Passed`), and is new before that.
* `BuiltServerSound` puts loader and stream together: a server built from a
  loaded configuration satisfies `ServerSound`, all that `ConfigAssumption` asks
  of a server. So the theorems on streams hold for every configuration that
  loads, and not for a set of servers chosen for the purpose.
* The attempt showed two things about the model. Wiring had been one step, with
  the profiles in an order fixed by a fold; it is now the loops of the code, in
  any order. And the sections of a configuration have to be known as lists:
  `LoaderAssumption` says so.

**Message headers** (`InferenceMessageProofs`), for any names, values and sets of
keys (`MessageAssumption`):

* `ChangesDescribeHeaders`: no key is both set and removed, and what is sent is
  the last value. It needs that a message has no changes before its headers
  arrive. `TypeOK` is part of the invariant.
* `HeadersArrive`: Envoy ends up with what the plugins made, provided every
  header is set in one spelling and removed in lower case only (`OneSpelling`,
  evaluated by TLC for the checked instance). The invariant `AgreeInv` says, per
  name, how the intended value is read off the changes and the received value
  (`Tracks`); the last step is that Envoy's application of such changes has
  exactly one outcome.

**Data layer processor** (`DatalayerProcessorProofs`), for any finite sets of
collectors and datasources, any number of extractors, set of events and capacity
(`ProcessorAssumption`):

* `LaunchedOnce`: `WgCountsGoroutines`; `NoneForgotten`: `NoSourceForgotten`;
  `StopIsQuiet`: `StopQuiescesCollectors`; `ExtractorsAgree`: `ExtractorsInStep`;
  `ProcessorImplementsBus`: the refinement of `EventBus`; `TypeCorrect`.
* The inductive invariant is `IInv == LifecycleInv /\ EventInv`. That the
  WaitGroup counts the live goroutines is not inductive alone: a launch adds one
  only if the source has no goroutine yet. `LaunchInv` says so: a source is
  launched, or in Start's snapshot, or in its registrar's hands, and never in
  two of these. `OwnerInv` ties the owner's position to the flags that
  registrations test, `QuietInv` carries the emptiness of the WaitGroup past
  `wg.Wait` (no collector is launched once `stopped` is set, as
  `RegisterCollector` launches under the mutex). `DispatchInv` says what the
  dispatch loop has done so far.
* For the refinement, `LoopFinishes` is the step that handles an event;
  everything else of the loop changes nothing the bus sees, because taking an
  event from the channel moves it from the head of `ch` to `current`.

**Runner and in-flight accounting** (`RunnerProofs`), for any finite set of
streams, any models, token limits of any sign and room on the bus (`AccountingAssumption`):

* `CountsExplained`: `CountExplained`; `StreamsDrain`: `GracefulDrain`;
  `TypeCorrect`.
* A count is exact only up to the request events that were dropped, and a bound
  is kept by a step only if each event is counted once. `OnceInv`: an event is
  waiting, handled or lost, and only one of these; `PhaseInv`: it is raised in
  one phase of its stream; `OrderInv`: a request is ahead of its response in the
  queue. Then the handling of an event moves one stream into or out of
  `SeenInFlight`, whose cardinality and tokens change by that stream
  (`TokensAdd`). Tokens are counted in two parts, what positive limits reserve and
  what negative ones owe: the floor at zero can forget only what is owed, by
  streams already handled (`Touched`). For draining, `DrainInv` follows the ext_proc server: a stream is
  open only while it serves, and the manager does not return in time before it
  has stopped.

**Certificate reloader** (`RunnerProofs`), for any number of replacements of
either file and any callbacks:

* `NewerPairs`: the action property `ReplacedByNewerPair`; `CertTypes`.
* `CertInv`: the pair in use fits and is not newer than the files, and as long as
  no two callbacks overlapped there is one at a time, whose certificate is at
  least as new as the pair it will replace.

**Model registry** (`ModelRegistryProofs`), for any models, prices, groups, file
contents and number of writes:

* `RegistryConverges`: `Converged`; `CountsAreFresh`: `PublishedCountFresh`;
  `ReloadKeepsListed`: the action property `ListedModelsStay`; `TypeCorrect`.
* `Converged` speaks of the moments between two syncs; `SyncInv` says, at each
  call of `syncModels`, which models are written and which are left, with what
  extractors may have created meanwhile. `ReadInv`: a config was read from the
  present file, or an event is still there. `CountInv`: a Model held by an
  extractor over its `Put` is the entry itself or no entry any more.

**Adapter mapping** (`AdaptersStoreProofs`), for any ConfigMaps, base models and
adapters and any sequence of changes, deliveries and retries:

* `MappingIsServed`: `MappingServed`; `BasesCounted`: `BaseModelsCounted`;
  `AdaptersListed`: `ResolvedAdapterListed`; `TypeCorrect`.
* The last three hold for any users. `MappingServed` has the condition `OwnNames`
  on what is written: an adapter belongs to one ConfigMap, as
  `docs/configuration.md` asks, and a ConfigMap keeps its base model or loses it.
  `adapters_served_doc` shows that it is needed. `BaseModelsCounted` leaves out
  the base models that a removal has miscounted, which happens exactly when the
  object names another base model than the one it was added under, or none.
* `IInv` is the invariant for one world; the step shows that a behaviour stays in
  its own (`WorldInv`). `CurrentInv` is about the object the
  reconciler fetched: it is what the cluster has, or the key is dirty and will be
  taken again, or neither carries the label. An adapter that resolves has a
  ConfigMap that wrote it last, and every step but its own leaves it (`StaysListed`);
  counters follow the set `CountedUnder` (`AddCounts`, `LeaveCounts`).
  For `MappingServed`, `StoreInv` says that under `OwnNames` the three maps agree (a
  base model may be counted too often, never too rarely), and `AppliedInv` that
  a valid ConfigMap that is not pending has been applied.

**Model selection** (`ModelSelectorProofs`), for any models, groups, prices and
counts, weights of any sign, and any number of attributes written meanwhile:

* `RequestsHonoured`: `RequestHonoured`; `ScoresSound`: `ScoringSound`;
  `BestIsPicked`: `DominatedNotPicked`; `ZeroIsNotPicked`: `HopelessNotPicked`;
  `TypeCorrect`.
* `DominatedNotPicked` speaks of positive weights: the code does not ask for them,
  but with a weight of zero a scorer has no say, and with a negative one the
  opposite. `ScoringSound` bounds a total by the sum of the negative weights and
  the sum of the positive ones.
* The invariant follows the phases: what the filter has kept (`FilterInv`), the
  counts read (`CountsInv`), the prices read once for the sum and once more for
  the scores (`SumInv`, `PricesInv`), each as far as the attribute did not change
  in between. The two pickers then need arithmetic: lemmas that a normalised
  score lies between 0 and 1, that it falls as count or price grows, and that a
  weighted sum is ordered as its parts are.
* The proof showed an overlap in `CostScore`: its cases for one candidate and for
  a sum of zero were both true for a single free model, where `CASE` leaves the
  choice open; the code tests the number of candidates first, and the guards now
  say so.

**Session affinity** (`InferenceMessageProofs`), for any clients, models, session ids
and capacity (`AffinityAssumption`):

* `RecentKept`: `RecentSessionsKept` and the type invariant; `TurnsStick`: the
  action property `StickyTurns`.
* `CacheInv`: no id is twice in the cache, every session that is ahead of another in it
  was used after the last use of that one (`InOrder`), and a session that was
  recorded and has not expired is in it or has as many others after it as the cache
  holds; an eviction happens only to a session with that many ahead of it
  (`ManyInFront`). `ClientInv`: a client's id was handed out, its turn carries the
  id it sends, and as long as nobody shares it, the entry names the model of the
  client's last answer. Both need what removing an entry and adding one at the
  front do to the places of the others (`Removed`, `PutInFront`).
* The attempt showed that the model let a response name only the model the
  request was sent to; `ProcessResponse` takes the name from the body, so now it
  may be any. `StickyTurns` is about the model that was named.

**Request costs** (`CostDigestProofs`), for any models, responses, prices, window
and flush interval:

* `SnapshotsAccount`: `SnapshotCurrent`; `SnapshotsRest`: the action property
  `SnapshotStable`; `CheapestLeads`: `CheapestNotBehind`; `TypeCorrect`.
* `SnapshotCurrent` is stated against the epochs that `windowDuration` defines on
  the samples alone (`IsEpochs`), not against the times that the extractor keeps.
* `CostAssumption` says what the proof needs of the response bodies: their token
  counts are a pair of numbers or none, which is what the type switch in
  `extractTokenCounts` lets through.
* `AccountInv`: the accumulator of a model is the last epoch of its log;
  `SnapshotInv`: a snapshot is that epoch as of the last flush. A snapshot may
  outlive its epoch (`cost_epoch_doc`), so the second is about the epoch of the
  flush and not about the present one.
* `CheapestLeads` is about arithmetic: the parts of a trimmed mean have positive
  weights, the last a fraction (`Shares`, `PartsThere`); a sum of costs lies between the least and
  the greatest cost times their number (`SumBounds`, by least counterexample), so
  a rank lies between them times `1 + Lambda` (`RankBounds`), and the greatest
  cost of the cheaper model separates the two ranks. For the median, the k-th
  lowest rank exists (`OrderStatistic`) and the lowest rank is not above the mean
  of two ranks (`LowestAboveNeutral`), so its score is at least the neutral one
  that under-explored candidates get. `DigestInv` adds to the invariant that
  what `Score` has read are digests.

Only model-checked: the liveness properties (`CompletedBodyAnswered`,
`StopReturns`, `EventsHandled`, `RunReturns`, `ChangesApplied`,
`EventuallyServed`, `SettledPairServed`), as fairness and ENABLED are out of the
prover's reach. Every safety property of a passing run has a theorem.

## 8. Not modelled

* Bytes of an SSE line or of a JSON body: trimming, prefixes, types of fields.
* Runner set-up in detail: flags, port validation, tracing, the metrics and pprof
  endpoints; each is a step that may fail. Making a self-signed certificate is
  such a step too.
* The health service answers SERVING and keeps no state. Of the base-model-to-header
  plugin the lookup (`AdaptersStore`) and the setting of the header
  (`InferenceMessage`) are modelled, each in its module, and not their composition.
* Observability, API types, generated code, test doubles, leader election (off
  for both servers): no state that the other parts read.
* Decoding of the configuration file (YAML, unknown fields).
* Collectors' own work: the repository has none beside the datasource.

## 9. Plan

Done: the modules above with their runs, and the proofs of section 7.

Worth modelling next: a composition of `ModelRegistry` and `ModelSelector` (a
selection during one sync, call by call); so far `ModelSelector` lets attributes
change at any moment, which includes it. Worth proving next: that
`InflightAccounting` over `DatalayerProcessor` in place of `EventBus` keeps
`CountExplained`, by the refinement that is proved.
