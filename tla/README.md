# zen-watcher in TLA+

This directory specifies zen-watcher in TLA+, checks the specifications with TLC on
small instances and proves the main safety results with TLAPS for all instances.
`PROJECT.json` lists the components, the runs, the source lines every definition
stands for, the disagreements found between code and documentation, and the
hazards the properties were chosen for.

## The system

zen-watcher runs in a Kubernetes cluster, in one or several replicas of which one
leads. Users write `Ingester` objects that name sources of events. The
**orchestrator** lists them, keeps one **adapter** running per source (an informer on a
custom resource, a webhook, the logs of pods) and starts a goroutine that reads the
adapter's channel. The goroutine adds events to the **batch** of the source. A full or
old batch is taken and each of its events goes through the **pipeline**: rate limit,
filter, deduplication (in either order), normalization, hooks, and creation of an
`Observation` behind an allowlist of resources and namespaces; the **Ingester store** says
which resource. The **garbage collector** deletes Observations whose time to live is over.
**Runtime configuration** comes from ConfigMaps: a ConfigManager merges a base and an
environment ConfigMap and hands the result to a callback in `main`, which also resizes the
**worker pool**; a ConfigMapLoader loads the filter's rules.

| part | module | what makes it hard |
|---|---|---|
| batch processor | BatchProcessor, EventDelivery | readers and flush goroutines meet at one batch with no lock held |
| pipeline | Pipeline | workers race on one content, the filter is replaced midway, answers of the API server are lost |
| orchestrator, status | Orchestrator | edits during a reload, failing sources, panics and restarts |
| runtime configuration | RuntimeConfig | callbacks under a lock, two writers of one filter |
| garbage collector | Collector | stale pages, two collectors, failing calls |
| Ingester store | IngesterStore | renamed and shared sources, broken watches |
| filter expressions | FilterExpression | precedence, words that are operators and fields |
| HTTP server, webhook adapter | WebhookServer | requests race for limiter and channel, idle limiters are removed, Stop closes the channel |
| informer adapter, shared informers | InformerAdapter | adapters join an informer late, watches are lost, channels are full |
| logs adapter | LogsAdapter | goroutines per pod, started, cancelled and stopped |
| worker pool, launcher | WorkerPool | the queue is replaced while workers, launcher and drain use it |
| replicas, leader election, shutdown | Deployment | crashes and expiring Leases between the steps of the start; goroutines main waits for |

The parts left out, with the reason, are in `PROJECT.json` and under *Not modelled*.

## Modules

`MC*` modules give the constants of the runs their values and `*Proofs` modules
hold the theorems. Names of actions and variables follow the source. Operators
introduced as mutants are faulty versions of the definition after them; with one in its
place the property named in `PROJECT.json` fails.

* **BatchProcessor** (`pkg/processor/batch_processor.go`, readers and `Stop` of
  `pkg/orchestrator/generic.go`). A reader or flush goroutine is a process with a
  `pc`; `TakeEvents` is one step because the batch's own lock covers it. `bp.mu` is a
  variable only while the sweep holds it over several steps. Age is a flag that may
  become true at any time.
* **EventDelivery** is the abstract promise: an event is accepted, picked up once,
  processed once. `BatchProcessor` implements it under `phaseBar`.
* **Pipeline** (`pkg/processor/pipeline.go`, the rate limiter of
  `generic_threshold_monitor.go`, `observation_creator.go`, `gvr_allowlist.go`,
  `crd_creator.go`). Every access to shared state is a step. An event is reduced to
  its content (`Key`) and to what is left of it in the fields that the key strategy
  compares (`Fields`), a filter to the set of contents it rejects (its rules are in
  zen-sdk), hooks to the namespaces they leave and to failure. Severity, and the metrics
  that are labelled with it, are left out: no property tells them apart. The deduper is
  zen-sdk's and external. It is used through `ShouldCreate`, which tests and inserts a key in
  one critical section and has a limit of its own on the events of a source
  (`PROCESSING_PIPELINE.md:102` and `:108`); the pipeline cannot tell the two reasons of a
  refusal apart (`Duplicate`, `OverRate`), and whether a duplicate counts towards the limit is
  left open. `Batching = TRUE` is the shipped program, which batches always and then passes no
  source configuration, so that every source has the fingerprint strategy; `FALSE` is the code
  of `processSingleEvents`, with more behaviours, and what the run uses. The converter of
  Ingesters sets no rate limit, so the limiter of the threshold monitor is reached only through
  a `SourceConfig` built otherwise.
* **Orchestrator** (`pkg/orchestrator`, life cycle of the adapters, webhook routes).
  The reload goroutine takes a step for each change that others can see: Stop of the old
  adapter, its removal from the manager, Start of the new one, the tracker, its addition, and
  the same for a source that is gone; `cur` is the entry in hand. `UpdateStatus` writes
  one Ingester's status, a single step because a conflicting write is refused by its
  resourceVersion. A panic ends the process (client-go's handlers panic again after
  logging) and `Restart` begins with empty memory. Identifiers of legacy Ingesters are
  free strings and get no status. An entry's `ver` stands for the fields an adapter is
  started with and no property names.
* **RuntimeConfig** (`pkg/config/config_manager.go`, `configmap_loader.go`,
  `handleConfigChange` and start order of `cmd/zen-watcher/main.go`). `mu` is who
  holds the ConfigManager's lock for writing. What the code does after waiting for its
  own lock cannot be reached and has no action. The name of the environment ConfigMap
  is assumed to be set.
* **Collector** (`pkg/gc/collector.go`, `setTTLIfNotSet`). Listing shows a snapshot,
  page by page; the decision uses the page, the deletion the present object.
* **IngesterStore** (`pkg/config/ingester_loader.go`, `ingester_extractors.go`, the GVR
  resolver of `main.go`). The API server, the watch and client-go's cache are external:
  `Edit` notifies while the watch is open, `Relist` notifies the difference after a
  break. A handler is one step. A spec is a record of the fields the converters decide
  on. The converter of the handlers and the one of the orchestrator's listing are written out
  separately, as in the code; that they agree on an Ingester with one source is proved
  (`ConvertersAgree`). `extractDestinations` is the code's loop, a recursive function of the
  rounds.
* **FilterExpression** (`pkg/filter/parser.go`, `expression.go`). The text is a sequence of
  tokens and a literal is one token; a function of the parser takes a position and
  returns a tree and the next position. `Documented` is the reference: it splits the text
  at the operator that binds least, as `FILTERING.md` describes, and shares no code with
  the parser. Nothing but tests builds an `ExpressionFilter` at present.
* **WebhookServer** (`pkg/server`, `pkg/adapter/generic/webhook_adapter.go`). A request is
  a process: rate limiter, `RequireAuth` and the adapter's handler are one step each and
  interleave with other requests, `Cleanup`, the reader and `StopAdapter`. A path is the
  sequence of its segments, because their number decides the limiter's key. zen-sdk's token
  bucket is external; it regains its tokens continuously, which is `Grain` steps of the clock
  for a token. The list of addresses is compared by prefix too, as the code does (`Longer`:
  an address followed by a colon and more).
* **InformerAdapter** (`pkg/adapter/generic/informer_adapter.go`,
  `internal/informers/manager.go`). client-go is external: an informer lists, follows or
  lists again, and every handler has a queue of its own. `history` is the sequence of
  changes of the resource, a version its position in it. A listing or a resync notifies
  the objects in any order.
* **LogsAdapter** (`pkg/adapter/generic/logs_adapter.go`). `watchPods` is a loop of
  `ListPods`, `LookUp` and `StartStream`, which are two critical sections, and `Sweep`; every
  stream is a process. **MCAdapters** holds the
  two adapters side by side: they share nothing but the process, so a behaviour is of one
  of the two.
* **WorkerPool** (`pkg/dispatcher/worker_pool.go`, `pkg/watcher/adapter_factory.go`,
  `handleConfigChange`). Who waits in a select waits on the queue that `workQueue` was
  when the select was entered, so queues are numbered and `workQueue` is the last. The
  launcher calls methods on a field that `handleConfigChange` may set to nil at any time
  (`StartPool`, `EnqueueBlocking`, `NilPool`), and ends with its context. In the
  shipped program the factory creates no adapters and the ConfigManager waits for itself
  before it calls back (RuntimeConfig): the module checks the pool against the sequence
  of calls that `handleConfigChange` is written for.
* **Deployment** (`cmd/zen-watcher/main.go`, `hpa_coordinator.go` as far as it can block).
  A replica is what main starts, in its order; `Kill` may come between any two steps. The
  Lease and the leader manager (zen-sdk, controller-runtime) are external. `count` is
  `REPLICA_COUNT`, which is 1 unless it is set, whatever the number of replicas. It composes the
  outcomes of RuntimeConfig (the ConfigManager returns or waits for itself) and
  Orchestrator (the first reload ends or blocks). **MCDeployment** explores the replicas,
  the runtime configuration and the pool one at a time (`kind`), since Deployment says of
  the ConfigManager only whether it comes back and WorkerPool lets `handleConfigChange` come
  at any time.

## Runs

| run | outcome | shows |
|---|---|---|
| batch | holds | at most once, no loss; sent events are processed while the orchestrator runs; Stop returns; EventDelivery is implemented, fairness included |
| pipeline | holds | one Observation per window for events the strategy takes for the same; what dedup drops has an original or exceeds the deduper's limit; filter and allowlist respected; counters and limiter consistent |
| orchestrator | holds | adapters, routes, trackers and gauges agree in every step of a reload; no adapter is stopped needlessly; adapters and status settle after the last edit, crashes included, unless a path stays claimed twice |
| orchestrator_update | violated | an edit that keeps the type of a source, here of a webhook's path, is not applied |
| config | holds | the source rules come to follow the filter ConfigMap even when the ConfigManager is stuck; main becomes ready when the ConfigManager does not take its lock |
| collector | holds | nothing deleted early or out of scope, nothing counted twice, every object in scope removed sometime |
| ingesters | holds | the store follows the Ingesters; the resolver names only usable destinations; events of a source with one owner end up where that owner says |
| filter | holds | a documented expression has its documented value, and the tree of an accepted text has all its tokens |
| web | holds | the rate holds in every stretch of time; only permitted requests become events; the answer tells what became of the event |
| adapters | holds | no change is lost or reordered between informer and reader; one cancellable stream per pod, and none for a pod that is gone |
| pool | holds | the queue is served until a resize or a stop; Stop returns, also when the context ends |
| deployment | holds | at most one active replica that has not lost the Lease, unless leader election is disabled and the configured count is one; a standby takes over; a shutdown completes, with three exceptions; older source rules are never put back; no event of the pool is in two places |

The violated run states what the comments of the code say; the `findings` of `PROJECT.json`
quote them. `configChanged` calls itself a simplified comparison (`generic.go:378`).

### Statements that do not hold

Met while modelling and without a run of their own. The first group is written out as
definitions, which TLC refutes on the instance of the module's run unless another is named:

* `SyncFailureReported` of Orchestrator: an informer that never syncs blocks all reloads
  without the error of `informer_adapter.go:125`;
* `UpdatesApplied` of RuntimeConfig: a usable base ConfigMap makes the ConfigManager wait
  for itself (`config_manager.go:317`, against `CONFIGURATION.md:301`); theorem
  `NotificationNeverRuns` shows that the callback never runs;
* `StopProcessesRemaining` of BatchProcessor: Stop leaves a young batch unprocessed
  (`batch_processor.go:172`, against the comments at 153 and 214);
* `TombstoneHandled` of IngesterStore: a deletion during a break of the watch is dropped,
  because the `ok` that is tested is the one of the failed first conversion
  (`ingester_loader.go:367`, against the comment at 363);
* `DocumentedParses` of FilterExpression: a text that goes on after EXISTS is rejected, the
  next word being taken as its right operand (`parser.go:188`, against the example at
  `FILTERING.md:703`); `MeansAsDocumented` excludes such texts;
* `CredentialsAccepted` of WebhookServer: `loadSecret` always fails, so a webhook with
  authentication of its own answers 401 to everybody (`webhook_adapter.go:287`, against
  the comment at 299);
* `IntendedRate` of WebhookServer: the rate per second is truncated but at least one, so
  that a limit below one per second is exceeded (`ratelimit_wrapper.go:63`); the instance
  needs `MaxTokens = 1`;
* `ExistingOnce` of InformerAdapter: the handlers report existing objects too
  (`informer_adapter.go:129`), so that these are sent twice, and an object deleted in
  between once more after its deletion;
* `PoolServes` of WorkerPool: after a resize a waiting worker stays on the old queue, and
  nothing serves the new one until it gets an item (`worker_pool.go:264`);
* `OnlyLeader` of Deployment: a lost Lease is only logged (`main.go:363`), and what had been
  started goes on beside the new leader (against `LEADER_ELECTION.md:86`).

The others are visible in the actions named:

* `onUpsert` of IngesterStore: the handlers use the converter for single sources, so that a
  multi-source Ingester is not stored and its events go to the default destination;
* `parseNumber` of FilterExpression: a negative number loses its sign (`parser.go:369`);
* `Both` of FilterExpression: a left operand of AND that is not boolean is ignored
  (`expression.go:407`);
* `Config(s)` of Pipeline: batched events ignore `dedup_first` (`batch_processor.go:191`
  passes no configuration; `PROCESSING_PIPELINE.md:38` calls the order configurable);
* `ApplyDedup` of Pipeline: a duplicate is counted in no metric (`pipeline.go:408`, against
  `OPERATIONAL_EXCELLENCE.md:1315`), and a key is remembered before the object exists, so
  that a failed creation suppresses its repetition until the window ends. An event that the
  deduper refuses for the number of its source's events is taken for a duplicate too;
* `UpdateStatus` of Orchestrator: an Ingester without a running source gets no status
  (`generic.go:439`, against `OPERATIONAL_EXCELLENCE.md:1332`). Two legacy Ingesters that
  name one source with different types restart each other's adapter at every reload;
  `NoNeedlessStop` excludes such listings;
* `RegisterPanics` of Orchestrator: two sources with one webhook path end the process in every
  first reload (`http.go:334`), so that it restarts for ever; `Converges` excludes them;
* `UpdateFilter` of RuntimeConfig: a loaded filter ConfigMap removes the namespace filter
  (`configmap_loader.go:261`, against `CONFIGURATION.md:262`);
* `HandleEvent` of RuntimeConfig: the deletion of any ConfigMap in the ConfigManager's
  namespace, by default also the filter's, makes it wait for its own lock
  (`config_manager.go:235`);
* `DefaultTTLSeconds` of Collector: seconds win over days (`observation_creator.go:719`,
  against `CONFIGURATION.md:88`);
* `EndOfLog` of LogsAdapter: a stream that ends while its pod runs keeps its entry in the
  map and is not started again; `Stop` takes an event out of a channel that holds one
  instead of closing it;
* `DrainTake` of WorkerPool: a drain of a closed queue receives nil items for ever, and
  Stop waits for it; the launcher tests `useWorkerPool` and calls the pool in two steps, and
  panics if the pool is detached in between (`NilPool`);
* `StartServices` of Deployment: the Ingester informer starts at once in every replica
  (`main.go:416`, against `LEADER_ELECTION.md:73`), and followers have no webhook routes,
  because the orchestrator registers them (against `LEADER_ELECTION.md:75`). A replica whose
  ConfigManager waits for itself may take the Lease and start nothing;
* `UpdateMetrics` of Deployment: with auto scaling the HA loop waits for its own lock
  (`hpa_coordinator.go:125`), and so does a shutdown.

### Bounds

* batch: two sources with a reader each, one flush goroutine, two events, batches of two.
  A reader, the sweep and the flush goroutine can all be on their way to one batch, and
  the sweep visits a second. The bound on a batch needs two readers of one source and
  four events to be able to fail; it is proved instead.
* pipeline: two workers and two sources with two events each, two dedup windows per content
  (`MaxWindows`), one regained token (`MaxRefills`). A race needs two workers and two events.
  The events of the first source differ in content and agree in the fields that its strategy
  compares; it filters first and is rate limited. Those of the second, which deduplicates
  first, have nothing in common, and the deduper takes one of them at a time. They are
  interchangeable, as the workers are. No source writes a denied resource; what may be
  written is told apart by the namespaces that hooks leave, and by the theorem.
* orchestrator: two Ingesters, two paths, two edits (`MaxEdits`) after any initial contents:
  enough to delete and recreate, or change a type there and back, while another Ingester is
  handled. The sources are informers, webhooks and logs; both Ingesters may ask for one path
  or name one legacy source, and one informer's resource may be missing from the cluster.
* config: the environment and the filter ConfigMap may exist at the start, and the base and
  the filter ConfigMap are edited twice (`MaxEdits`), with two filters. So the ConfigManager
  meets a usable ConfigMap at its start, later or never, and the loader follows a filter
  that is made, replaced, broken or deleted in each of these cases.
* collector: two objects created at time 0, with a TTL or without, pages of one, two
  collectors, time 0 to 3 (`MaxTime`), one failure (`MaxFailures`). Time 3 is past the
  end of both times to live.
* ingesters: two Ingesters, two edits, one break (`MaxBreaks`), five specs: two with one
  source and different destinations, one renamed, one without a usable destination, one
  with several sources. A source shared, left and taken again needs two edits.
* filter: every comparison operator on severities and numbers, conditions combined twice
  by NOT, AND, OR and parentheses, all texts of up to four tokens, four Observations.
* web: three requests, two webhooks, five environments, channels of one place, a limiter of
  one per second, a clock of two steps per second (`Grain`) from 0 to 3 (`MaxTime`), limiters
  removed after two idle steps (`EntryTTL`). Two requests meet in a limiter, at a channel, or
  on both sides of a full second; the third comes after the limiter was removed.
* adapters: two informer adapters on one or two informers, one object, three changes
  (`MaxChanges`; two with two informers), one resync (`MaxResyncs`), channels of one place;
  two pods, whose streams come and go for ever, two at a time (`MaxStreams`).
* pool: one worker, which the queue must be able to rely on, two events, queues of one and
  two places, three configurations (`MaxUpdates`), and a shutdown at any time.
* deployment: two replicas and five configurations, in which nothing is bounded: replicas
  crash and restart for ever. ConfigMaps as in config. A pool of two workers, two events,
  queues of one and two places and two configurations: two workers, the launcher and a
  drain can be at one queue. A behaviour runs one of the three, chosen at the start (`kind`);
  Deployment has of the ConfigManager only whether it comes back, and the pool lets a
  configuration come at any time, so their interplay is in the single modules.

`CHECK_DEADLOCK FALSE` is set where the modelled code itself stops: the reload
goroutine that waits for a cache, the goroutine that waits for its own lock, a filter that
was rejected, all requests answered, a process that has panicked.

### Fairness

Weak fairness for goroutines that can go on, tickers and time; the Go scheduler and
runtime timers give it. Strong fairness only for a reader's `AddEvent`, which competes
with the sweep for `bp.mu` (Go's mutex does not starve a waiter), and for `Acquire` of a
standing-by manager, which retries for as long as it runs (controller-runtime). A crashed
process is restarted (Kubernetes) in Orchestrator, while Deployment assumes nothing of
restarts; a Lease that is not renewed expires. A listing succeeds sometime, a broken watch
is resumed and the informer factory resyncs (client-go, every ten minutes). A goroutine
whose context is cancelled sees it, and a work item ends. Calling Stop, signals, crashes,
editing objects, new configurations, requests, failures and hooks are never fair.

## Proofs

Every result below is for any values of the constants that satisfy the named assumptions
of the module, the bounds included. An invariant that a run checks is seldom inductive;
the strengthening is `IInv` unless another name is given.

* **BatchProcessorProofs**: `TypeCorrect`, `ProcessedAtMostOnce`, `NothingLost`,
  `BatchBounded`, and `Implements` (the safety part of the refinement of EventDelivery).
  `AtMostOnce` needs that an event in a channel, batch or hand has not been processed and
  is in one place once (`OnePlace`); with `SomePlace` (a sent event is somewhere or
  processed) and `Control` this is inductive. The bound needs the number of readers about
  to take a batch, `BoundInv`. Assumptions: `MaxBatchSize` is positive, there are finitely
  many readers, readers and flush goroutines are distinct, every reader has a source.
* **PipelineProofs**: `PipelineTypes`, `AtMostOneObservation`, `FilterDecides`,
  `OnlyPermittedWrites`, `DuplicatesHaveOriginals`, `MetricsTrue`, `AdmittedWithinLimit`. The
  key is `Tickets`: of the events that a strategy takes for the same, one passes dedup in a
  window, and while that window is open what they have in common is in the cache. `Control`
  ties a worker's stage to its event's ticket and `Written` an object to a finished event
  with a ticket. `FilterInv` adds that a worker past the filter has an event some filter
  allowed, `OriginalInv` that a key in the cache is there for an event that passed in the
  current window, and `DroppedInv` that the events decided and what is left of a source's
  budget are together at least the budget, so that an event the deduper refuses has an
  original or came when others had used up the budget. `LimitInv` says that the admitted
  events and the tokens left are together at most the burst and the refills. `MetricsInv`
  needs of `IInv` that what a worker writes is a new object. Assumptions: events that any
  strategy takes for the same have one source (it is part of the dedup key), the deduper's
  burst is positive, hooks leave namespaces of `Namespaces`.
* **OrchestratorProofs**: `RoutesOwned`, `ReloadComplete`, `StatusIsTruthful`,
  `NothingStoppedNeedlessly`. What holds between two reloads holds in the middle of one of
  the listed entries that it has processed: `Processed` ties `active` and the adapters to the
  listing without `todo`, `Told` the tracker and the gauge to the adapters, `Pathed` a
  webhook adapter to a path. The source in hand is excepted and has invariants of its own:
  between Stop of the old adapter and Start of the new one it has no route (`HandRoutes`),
  and its entry is still to be carried out (`HandProcessed`). Assumptions: a source has one
  owner or is a legacy identifier, and the conversion delivers well-formed entries.
* **CollectorProofs**: `NothingDeletedEarly`, `OwnNamespaceOnly`, `DeletionsCountedOnce`.
  `Faithful`: an object that exists is the one a listing shows by its name, because names
  are not reused. `Ready(c)`: what is expired on the page stays expired, and the cutoff
  gets older. `CountInv`: the name of what was deleted is used up and names no object any
  more, so no second deletion is confirmed. Assumptions: the times to live and the limits
  are natural numbers, pages are not empty.
* **WebhookServerProofs**: `EventsAuthorised` by `AuthInv` (a request in the handler, in a
  channel or read from it was permitted), `RateIsHeld` by `RateInv`: what a key has let pass
  since any time and what its limiter holds are together at most what a full limiter holds and
  the time since then restores (`Spent`). A limiter idle for a second is full, and `EntryTTL`
  is at least a second, so its removal gives nothing away.
  `AnswersAreTrue` by `ReplyInv`: a request that is not done has no answer (`Basic`); the
  channel and what was read from it hold exactly the requests answered 200, each once
  (`Delivered`); the counters are those of the answers (`Dropped`, `Counted`).
* **AdaptersProofs**, of the two adapters of MCAdapters:
  * `FollowedOnce`, the invariant `OneStreamPerPod`: what the map forgets it cancels first,
    what is started had no entry. The look-up and the start are two critical sections:
    `NoEntry` says that a pod found absent stays so until the one goroutine that adds entries
    starts it.
  * `NoChangeMissed`, the invariant `NothingMissed`. What a reader knows after a sequence of
    events is its last one of the object (`After`), which is compositional: reading `p \o q`
    is reading `p`, then `q` (`AfterConcat`). A step that moves an event along leaves it as
    it is, and one that moves the store on appends what the store now says (`Informed`). The
    strengthening `InformerInv` adds that an adapter that has started listens (`Listening`)
    and one that has not has nothing on its way (`Fresh`). Assumption: finitely many objects.
* **IngesterStoreProofs**:
  * `StoreAlwaysFollows`, the invariant `StoreFollows`, which speaks of an empty queue only.
    `Follows` says what waits: of each Ingester, the last notification that a handler acts
    on, or the store when there is none, has what the informer's cache holds. Which
    notifications these are (`Decides`) is the code's: specs that cannot be converted and
    tombstones change nothing, which is why nothing is claimed of deletions after a break.
    `Watched` ties the cache to the objects. What the handlers store is compared with what the
    converter of the orchestrator's listing makes of the object; the two converters agree on
    an Ingester without a list of sources (`ConvertersAgree`).
  * `DestinationsAreValid`, the invariant `DestinationValid`, by `IndexInv`: an entry of the
    index by source is what the converter made of a spec with that source. What the loop
    of `extractDestinations` returns (`ExtractedNames`) takes an induction, done with the
    least number of rounds at which it would fail (`LeastNumber`).

  Assumptions: finitely many Ingesters, destinations are a list of records of texts, no
  configuration is `Absent`.
* **DeploymentProofs**, of the three parts of MCDeployment:
  * `TypeCorrect`, `AtMostOneActive`. `Election` ties the activity of a replica to its
    channel, the channel to its manager and the manager to the Lease, or, without leader
    election, to `EnforceSafeHA`. That check sees `REPLICA_COUNT` and not the replicas: with
    leader election disabled and a count of 1, its default, nothing guards them, and
    `SingleActive` excepts that case (`Unguarded`).
  * `SourcesStayCurrent`, `NotificationNeverRuns`, by `ConfigInv`. A goroutine of the
    ConfigManager that has merged a configuration holds the lock it waits for; so
    `handleConfigChange` runs only in `main`, before the loader starts. Assumption: `None`
    is no goroutine.
  * `InOnePlace`, the invariant `OnePlace` of the pool. `PoolInv` says it by kind of place
    (`Apart`: queues, workers, drains, launcher, processed, dropped) and within a kind
    (`QueuedOnce`, `WorkedOnce`, `DrainedOnce`); with the types, which say that who waits
    waits on a queue there is, this is inductive. Each step moves nothing, or one event from
    one place to another. Assumption: `None`, the nil item, is no event.

Only model-checked: all liveness and the fairness part of `Delivery`, which are beyond the
prover, and `MeansAsDocumented`, since the parser and its reference are recursive operators,
which no module with theorems can use.

## Not modelled

* Code that nothing in `cmd/zen-watcher` reaches: the optimizer and its state, the advisor,
  the destination batcher, the legacy threshold monitor, the balancer's choice of a replica,
  the HA dedup window, `EvaluateScaling` (the coordinator's ticker is stopped when `Start`
  returns), the merger of filter configurations, filtered informers, the webhook adapter's
  own server.
* Conversions whose content no property tells apart: field extraction and mapping, severity
  and priority, numbers in an Ingester's spec, fingerprints, log texts, metric names and
  labels. Which rules make the filter reject an Observation
  is decided in zen-sdk.
* One-shot tools and declarations: command line tools, SDK, types, client setup, the
  construction of the parts in `main`.
* Pages that only report: health, metrics, pprof.
* The orchestrator's Stop is modelled for batches only; `main` never calls it. A second
  adapter's resync period on a resource that has one already is ignored by the manager and
  not in the model. A TTL extended by a user between listing and deletion is outside
  `NeverEarly`: the deletion carries no precondition.
