------------------------------- MODULE Pipeline -------------------------------
(***************************************************************************)
(* The event pipeline: Processor.ProcessEvent (pkg/processor/pipeline.go)  *)
(* and what it calls, the threshold monitor, the filter, the hooks and the *)
(* ObservationCreator with its GVR allowlist and CRDCreator.               *)
(*                                                                         *)
(* Workers are the goroutines that call ProcessEvent: readers and flush    *)
(* goroutines of the batch processor run it concurrently on events of the  *)
(* same source.  What they share is the rate limiters, the filter          *)
(* configuration (replaced at run time), the deduplication cache and the   *)
(* API server; each access to one of them is a step.                       *)
(***************************************************************************)
EXTENDS Integers, FiniteSets

CONSTANTS
  Workers, Events, Sources, Keys,
  Source,        \* raw.Source of an event
  Key,           \* the content of an event: its fingerprint; also decides what
                 \* a filter says, which sees nothing else of the event
  Fields,        \* Fields[k]: the content that stands for all those equal to k
                 \* in the fields the key strategy compares
  SourceConfig,  \* SourceConfig[s]: generic.SourceConfig of a source
  DedupBurst,    \* events of a source the deduper's own rate limiter takes at once
  Batching,      \* the shipped orchestrator batches, and then passes no config
  Filters,       \* filter configurations, each the set of contents it rejects
  Gvr,           \* Gvr[s]: the GVR the resolver returns for a source
  AllowedGVRs, DeniedGVRs, AllowedNamespaces,
  Namespaces,    \* all namespaces, and ""
  HookNamespaces,\* the namespaces a registered hook may leave in metadata and
                 \* in spec.resource ("" for none): [meta, resource]
  MaxWindows,    \* bound: dedup windows of a key
  MaxRefills,    \* bound: tokens a rate limiter gains
  None

ASSUME SourceAssumption == Source \in [Events -> Sources] /\ Key \in [Events -> Keys]
ASSUME KeyAssumption == \* DedupKey.Source
  /\ \A k \in Keys : Fields[k] \in Keys
  /\ \A e, f \in Events :
       {Key[e], Fields[Key[e]]} \cap {Key[f], Fields[Key[f]]} # {} => Source[e] = Source[f]
Ends == {"rate_limited", "filtered", "deduped", "hook_error", "blocked",
         "create_error", "created"}
ASSUME NoneAssumption == None \notin Nat \cup Ends \cup {"working"}
ASSUME ConfigAssumption ==
  /\ \A s \in Sources : SourceConfig[s].burst \in Nat /\ SourceConfig[s].maxEvents \in Nat
  /\ DedupBurst \in Nat \ {0}
ASSUME FiltersAssumption == Filters \subseteq SUBSET Keys
ASSUME HooksAssumption == HookNamespaces \subseteq [meta : Namespaces, resource : Namespaces]
ASSUME NamespacesAssumption == {"", "default"} \subseteq Namespaces

VARIABLES
  pc,        \* pc[w]: the stage of ProcessEvent worker w is in
  ev,        \* ev[w]: the event it processes
  outcome,   \* outcome[e]: how ProcessEvent ended for e
  tokens,    \* tokens[s]: gtm.rateLimiters[s], None before the first event
  refills,   \* refills[s]: tokens gained so far
  rejects,   \* the filter configuration in force
  allowed,   \* history: a filter in force during e's processing allowed e
  seen,      \* keys in the dedup cache
  window,    \* window[k]: how often the cache has forgotten k
  bucket,    \* bucket[s]: events of s the deduper's rate limiter still takes
  ticket,    \* ticket[e]: the window in which dedup let e pass, None before
  place,     \* place[w]: the namespaces in metadata and in spec.resource
  objects,   \* objects created: [event, gvr, namespace]
  metrics    \* Prometheus counters

procVars == <<pc, ev, outcome>>
limitVars == <<tokens, refills>>
dedupVars == <<seen, window, bucket, ticket>>
filterVars == <<rejects, allowed>>
vars == <<procVars, limitVars, dedupVars, filterVars, place, objects, metrics>>

Outcomes == Ends \cup {None, "working"}
Counters == {"created", "create_errors"}
Stages == {"idle", "filter", "dedup", "hooks", "create"}

\* EventToObservation: no event has a namespace of its own or a resource.
DefaultPlace == [meta |-> "default", resource |-> ""]

\* The SourceConfig that ProcessEvent is given: processBatch passes nil.
NilConfig == [order |-> "", perMinute |-> 0, burst |-> 0, strategy |-> "", maxEvents |-> 0]
Config(s) == IF Batching THEN NilConfig ELSE SourceConfig[s]

Objects == [event : Events, gvr : AllowedGVRs \cup DeniedGVRs \cup {Gvr[s] : s \in Sources},
            namespace : Namespaces]

\* shouldCreateWithStrategy: the fingerprint unless the configuration names a strategy.
Strategy(s) == IF Config(s).strategy = "" THEN "fingerprint" ELSE Config(s).strategy

\* What the deduper takes for the same event: the key strategy compares the configured
\* fields, the others the whole content (extractDedupKey).
Id(e) == IF Strategy(Source[e]) = "key" THEN Fields[Key[e]] ELSE Key[e]

\* What the deduper takes of a source before it turns events away for their number:
\* its burst, with event-stream no more than maxEventsPerWindow.
Budget(s) ==
  IF Strategy(s) = "event-stream" /\ Config(s).maxEvents \in 1..DedupBurst
  THEN Config(s).maxEvents ELSE DedupBurst

TypeOK ==
  /\ pc \in [Workers -> Stages]
  /\ ev \in [Workers -> Events \cup {None}]
  /\ outcome \in [Events -> Outcomes]
  /\ tokens \in [Sources -> Nat \cup {None}]
  /\ refills \in [Sources -> Nat]
  /\ rejects \subseteq Keys
  /\ allowed \subseteq Events
  /\ seen \subseteq Keys
  /\ window \in [Keys -> Nat]
  /\ bucket \in [Sources -> Nat]
  /\ ticket \in [Events -> Nat \cup {None}]
  /\ place \in [Workers -> HookNamespaces \cup {DefaultPlace}]
  /\ objects \subseteq Objects
  /\ metrics \in [Counters -> Nat]

Init ==
  /\ pc = [w \in Workers |-> "idle"]
  /\ ev = [w \in Workers |-> None]
  /\ outcome = [e \in Events |-> None]
  /\ tokens = [s \in Sources |-> None]
  /\ refills = [s \in Sources |-> 0]
  /\ rejects \in Filters
  /\ allowed = {}
  /\ seen = {}
  /\ window = [k \in Keys |-> 0]
  /\ bucket = [s \in Sources |-> Budget(s)]
  /\ ticket = [e \in Events |-> None]
  /\ place = [w \in Workers |-> DefaultPlace]
  /\ objects = {}
  /\ metrics = [c \in Counters |-> 0]

\* ProcessEvent returns.
Finish(w, o) ==
  /\ pc' = [pc EXCEPT ![w] = "idle"]
  /\ ev' = [ev EXCEPT ![w] = None]
  /\ outcome' = [outcome EXCEPT ![ev[w]] = o]

Goto(w, stage) ==
  /\ pc' = [pc EXCEPT ![w] = stage]
  /\ UNCHANGED <<ev, outcome>>

-------------------------------------------------------------------------------
(* ProcessEvent, stage by stage.                                           *)

SwapOrder(s) == "dedup_first"

\* determineProcessingOrder: anything but the two orders means filter_first.
ProcessingOrder(s) ==
  IF Config(s).order = "dedup_first" THEN "dedup_first" ELSE "filter_first"

DedupFirst(e)  == ProcessingOrder(Source[e]) = "dedup_first"
FirstStage(e)  == IF DedupFirst(e) THEN "dedup" ELSE "filter"
SecondStage(e) == IF DedupFirst(e) THEN "filter" ELSE "dedup"

SkipSecond(e, stage) == "hooks"

After(e, stage) == IF stage = FirstStage(e) THEN SecondStage(e) ELSE "hooks"

\* gtm.allowRateLimit: the limiter of a source is made by its first event,
\* full, and every event takes a token.
Limited(s) == Config(s).perMinute > 0
FreshLimiter(s) == Config(s).burst
Tokens(s)  == IF tokens[s] = None THEN Config(s).burst ELSE tokens[s]
Allow(s)   == Tokens(s) > 0

\* ProcessEvent is called and CheckEvent lets the event through.  The
\* observation rates and custom thresholds it also looks at only log.
Begin(w, e) ==
  /\ pc[w] = "idle" /\ outcome[e] = None
  /\ Limited(Source[e]) => Allow(Source[e])
  /\ tokens' = IF Limited(Source[e])
               THEN [tokens EXCEPT ![Source[e]] = Tokens(Source[e]) - 1]
               ELSE tokens
  /\ pc' = [pc EXCEPT ![w] = FirstStage(e)]
  /\ ev' = [ev EXCEPT ![w] = e]
  /\ outcome' = [outcome EXCEPT ![e] = "working"]
  /\ allowed' = IF Key[e] \in rejects THEN allowed ELSE allowed \cup {e}
  /\ UNCHANGED <<refills, rejects, dedupVars, place, objects, metrics>>

\* CheckEvent returns false: the event is dropped, and logged.
RateLimited(w, e) ==
  /\ pc[w] = "idle" /\ outcome[e] = None
  /\ Limited(Source[e]) /\ ~Allow(Source[e])
  /\ tokens' = [tokens EXCEPT ![Source[e]] = 0]
  /\ outcome' = [outcome EXCEPT ![e] = "rate_limited"]
  /\ UNCHANGED <<pc, ev, refills, filterVars, dedupVars, place, objects, metrics>>

Rejected(e) == Key[e] \in rejects

\* applyFilter: AllowWithReason takes the configuration in force under f.mu.
ApplyFilter(w) ==
  /\ pc[w] = "filter"
  /\ IF Rejected(ev[w])
     THEN Finish(w, "filtered")
     ELSE Goto(w, After(ev[w], "filter"))
  /\ UNCHANGED <<limitVars, filterVars, dedupVars, place, objects, metrics>>

NotRemembered(S, k) == S

\* The key enters the dedup cache with the test that it is not there.
Remember(S, k) == S \cup {k}

Spend(s) == [bucket EXCEPT ![s] = IF @ > 0 THEN @ - 1 ELSE 0]

\* Strategy.ShouldCreate finds the key in the cache.  Whether it has asked the rate
\* limiter before is left open.
Duplicate(w) ==
  /\ Id(ev[w]) \in seen
  /\ Finish(w, "deduped")
  /\ bucket' \in {bucket, Spend(Source[ev[w]])}
  /\ UNCHANGED <<seen, window, ticket>>

\* It turns the event away because its source has sent too many.
OverRate(w) ==
  /\ bucket[Source[ev[w]]] = 0
  /\ Finish(w, "deduped")
  /\ UNCHANGED dedupVars

\* It lets the event pass and remembers the key, in the same critical section.
Fresh(w) ==
  LET k == Id(ev[w])
  IN  /\ k \notin seen /\ bucket[Source[ev[w]]] > 0
      /\ Goto(w, After(ev[w], "dedup"))
      /\ seen' = Remember(seen, k)
      /\ ticket' = [ticket EXCEPT ![ev[w]] = window[k]]
      /\ bucket' = Spend(Source[ev[w]])
      /\ UNCHANGED window

\* applyDedup: an event for which ShouldCreate is false is dropped as a duplicate,
\* whatever the reason, and logged.
ApplyDedup(w) ==
  /\ pc[w] = "dedup"
  /\ Duplicate(w) \/ OverRate(w) \/ Fresh(w)
  /\ UNCHANGED <<limitVars, filterVars, place, objects, metrics>>

\* hooks.Processor: a hook may set the namespaces, or fail.
Hooks(w) ==
  /\ pc[w] = "hooks"
  /\ \E ns \in HookNamespaces \cup {DefaultPlace} :
       place' = [place EXCEPT ![w] = ns]
  /\ Goto(w, "create")
  /\ UNCHANGED <<limitVars, filterVars, dedupVars, objects, metrics>>

HookFails(w) ==
  /\ pc[w] = "hooks"
  /\ Finish(w, "hook_error")
  /\ UNCHANGED <<limitVars, filterVars, dedupVars, place, objects, metrics>>

\* GVRAllowlist.IsAllowed for a namespaced write.
IsAllowed(gvr, ns) ==
  /\ gvr \notin DeniedGVRs
  /\ gvr \in AllowedGVRs
  /\ AllowedNamespaces # {} => ns \in AllowedNamespaces

NonEmpty(ns) == IF ns = "" THEN "default" ELSE ns
\* createObservation looks at metadata only, CreateCRD falls back on
\* spec.resource.namespace.
GateNamespace(w)  == NonEmpty(place[w].meta)
WriteNamespace(w) == NonEmpty(IF place[w].meta # "" THEN place[w].meta ELSE place[w].resource)

TrustGate(w) == IsAllowed(Gvr[Source[ev[w]]], GateNamespace(w))

\* createObservation checks the allowlist at the routing gate, CreateCRD
\* again with the namespace it writes to.
Permitted(w) ==
  /\ IsAllowed(Gvr[Source[ev[w]]], GateNamespace(w))
  /\ IsAllowed(Gvr[Source[ev[w]]], WriteNamespace(w))

NewObject(w) == [event |-> ev[w], gvr |-> Gvr[Source[ev[w]]],
                 namespace |-> WriteNamespace(w)]

CountAnyway ==
  metrics' = [metrics EXCEPT !["create_errors"] = @ + 1, !["created"] = @ + 1]

\* handleCreationError
CountCreateError == metrics' = [metrics EXCEPT !["create_errors"] = @ + 1]

\* The observation, with its namespaces, is gone when createObservation returns.
Discard(w) == place' = [place EXCEPT ![w] = DefaultPlace]

Blocked(w) ==
  /\ pc[w] = "create" /\ ~Permitted(w)
  /\ Finish(w, "blocked") /\ CountCreateError /\ Discard(w)
  /\ UNCHANGED <<limitVars, filterVars, dedupVars, objects>>

Create(w) ==
  /\ pc[w] = "create" /\ Permitted(w)
  /\ objects' = objects \cup {NewObject(w)}
  /\ Finish(w, "created") /\ Discard(w)
  /\ metrics' = [metrics EXCEPT !["created"] = @ + 1]
  /\ UNCHANGED <<limitVars, filterVars, dedupVars>>

\* The API server rejects the object, or the context is cancelled; the answer
\* may also be lost after the object was stored.
CreateFails(w) ==
  /\ pc[w] = "create" /\ Permitted(w)
  /\ objects' \in {objects, objects \cup {NewObject(w)}}
  /\ Finish(w, "create_error") /\ CountCreateError /\ Discard(w)
  /\ UNCHANGED <<limitVars, filterVars, dedupVars>>

-------------------------------------------------------------------------------
(* What happens around the pipeline.                                       *)

\* Filter.UpdateConfig, called by the ConfigMap loader and handleConfigChange.
UpdateFilter(F) ==
  /\ F # rejects
  /\ rejects' = F
  /\ allowed' = allowed \cup {e \in Events : outcome[e] = "working" /\ Key[e] \notin F}
  /\ UNCHANGED <<procVars, limitVars, dedupVars, place, objects, metrics>>

\* The window of a key ends, or the cache evicts it to make room.
Forget(k) ==
  /\ k \in seen /\ window[k] < MaxWindows
  /\ seen' = seen \ {k}
  /\ window' = [window EXCEPT ![k] = @ + 1]
  /\ UNCHANGED <<procVars, limitVars, filterVars, bucket, ticket, place, objects, metrics>>

\* The deduper's rate limiter regains what it has spent, with time or with a new window.
Regain(s) ==
  /\ bucket[s] < Budget(s)
  /\ bucket' = [bucket EXCEPT ![s] = @ + 1]
  /\ UNCHANGED <<procVars, limitVars, filterVars, seen, window, ticket, place, objects, metrics>>

\* A token bucket gains a token with time, up to its burst.
Refill(s) ==
  /\ tokens[s] # None /\ tokens[s] < Config(s).burst /\ refills[s] < MaxRefills
  /\ tokens' = [tokens EXCEPT ![s] = @ + 1]
  /\ refills' = [refills EXCEPT ![s] = @ + 1]
  /\ UNCHANGED <<procVars, filterVars, dedupVars, place, objects, metrics>>

\* Every event has been processed: the workers wait for more.
Drained ==
  /\ \A e \in Events : outcome[e] \in Ends
  /\ UNCHANGED vars

Work(w) ==
  \/ \E e \in Events : Begin(w, e) \/ RateLimited(w, e)
  \/ ApplyFilter(w) \/ ApplyDedup(w) \/ Hooks(w) \/ HookFails(w)
  \/ Blocked(w) \/ Create(w) \/ CreateFails(w)

Next ==
  \/ \E w \in Workers : Work(w)
  \/ \E F \in Filters : UpdateFilter(F)
  \/ \E k \in Keys : Forget(k)
  \/ \E s \in Sources : Refill(s) \/ Regain(s)
  \/ Drained

Spec == Init /\ [][Next]_vars

-------------------------------------------------------------------------------
(* Properties.                                                             *)

\* Two events that the strategy of their source takes for the same and that
\* are processed in one deduplication window lead to at most one object, however
\* their stages interleave on several workers and whatever the API server answers.
OneObservationPerWindow ==
  \A o, p \in objects :
    /\ Id(o.event) = Id(p.event)
    /\ ticket[o.event] = ticket[p.event]
    => o = p

\* An object is written only for an event that a filter in force at some time
\* of its processing allowed: replacing the filter mid-way opens no hole.
FilterRespected == \A o \in objects : o.event \in allowed

\* The events of a source that applyDedup has decided about.
Decided(s) == {f \in Events : Source[f] = s /\ (ticket[f] # None \/ outcome[f] = "deduped")}

\* Another event that the strategy takes for the same as e, that passed dedup and,
\* with filter_first, was not filtered.
Original(e) ==
  \E f \in Events \ {e} :
    /\ Id(f) = Id(e) /\ ticket[f] # None
    /\ SourceConfig[Source[e]].order = "filter_first" => outcome[f] # "filtered"

\* An event that applyDedup drops has an original, unless so many other events of its
\* source have reached the deduper that its limit on their number was exhausted: below
\* that limit nothing is lost that was not reported, whatever the strategy, the order
\* and the other workers.
DuplicateHasOriginal ==
  \A e \in Events : outcome[e] = "deduped" =>
    Original(e) \/ Cardinality(Decided(Source[e]) \ {e}) >= Budget(Source[e])

\* Whatever namespaces a hook leaves in the observation, nothing is written
\* outside the allowlist: CreateCRD checks the namespace it writes to.
WritesPermitted ==
  \A o \in objects :
    /\ o.gvr \in AllowedGVRs \ DeniedGVRs
    /\ AllowedNamespaces # {} => o.namespace \in AllowedNamespaces

\* The created counter never runs ahead of the objects, and an object it
\* misses (the answer of the API server was lost) was counted as an error.
MetricsAgree ==
  /\ metrics["created"] <= Cardinality(objects)
  /\ Cardinality(objects) <= metrics["created"] + metrics["create_errors"]

\* The rate limiter of a source admits its burst and what it regained since.
RateLimitHolds ==
  \A s \in Sources : Limited(s) =>
    Cardinality({e \in Events : /\ Source[e] = s
                                /\ outcome[e] \notin {None, "rate_limited"}})
      <= Config(s).burst + refills[s]

===============================================================================
