---------------------------- MODULE Orchestrator ----------------------------
(***************************************************************************)
(* The generic orchestrator (pkg/orchestrator): it polls the Ingester      *)
(* objects, keeps one adapter running per source, and reports the state of *)
(* every source in metrics and in the objects' status.  One goroutine runs *)
(* reloadAdapters, a second one publishes status; users edit the objects   *)
(* meanwhile, and a panic ends the process, which Kubernetes restarts.     *)
(*                                                                         *)
(* An Ingester is the set of its converted sources: one SourceConfig per   *)
(* source, with the source identifier, the ingester type, the webhook path *)
(* and a version that stands for every other field an adapter or its       *)
(* consumer is started with (resource and selectors of an informer, auth   *)
(* and buffer of a webhook, patterns of a log, normalization, dedup, order *)
(* of processing).  Filters and destinations are no part of it.  Owner[s]  *)
(* is the Ingester that the identifier namespace/name/sourceName of s      *)
(* names; it is None for the identifiers of legacy Ingesters, which are    *)
(* free strings.                                                           *)
(*                                                                         *)
(* The channel of an adapter is not a variable of its own: it is open as   *)
(* long as the adapter is in the manager and closed from its Stop on.      *)
(***************************************************************************)
EXTENDS Naturals, FiniteSets

CONSTANTS
    Ingesters,  \* the names of Ingester objects
    Sources,    \* source identifiers
    Paths,      \* webhook paths
    Owner,      \* Owner[s]: the Ingester that parsing s yields, or None
    Specs,      \* Specs[i]: the contents Ingester i may be given
    Absent,     \* sources whose informer's resource the cluster does not serve
    MaxEdits,   \* how often users change an Ingester
    None

Types == {"informer", "webhook", "logs", "unknown"}

\* A source of an Ingester as the conversion delivers it.  valid is FALSE if
\* NewAdapter, Validate or Start refuses it, for its type or another field.
Entry == [source : Sources, type : Types, valid : BOOLEAN,
          path : Paths \cup {None}, ver : Nat]

WellFormed(e) ==
    IF e.valid THEN e.type # "unknown" /\ (e.type = "webhook") = (e.path # None)
    ELSE e.path = None

ASSUME OwnerAssumption == Owner \in [Sources -> Ingesters \cup {None}]
ASSUME NoneAssumption ==
    /\ None \notin Ingesters \cup Sources \cup Paths
    /\ None \notin Entry
    /\ None \notin {"Running", "Stopped", "Error"}
ASSUME DeadAssumption == "dead" \notin Sources \cup {None}
ASSUME SpecsAssumption ==
    \A i \in Ingesters : \A spec \in Specs[i] :
        \A e \in spec : /\ e \in Entry
                        /\ WellFormed(e)
                        /\ Owner[e.source] \in {i, None}
ASSUME AbsentAssumption == Absent \subseteq Sources
ASSUME BoundAssumption == MaxEdits \in Nat

VARIABLES
    crds,      \* the Ingester objects in the API server; None if absent
    edits,     \* the user's edits so far
    status,    \* reason of the Ready condition in each object's status
    up,        \* the process runs
    pc,        \* where the reload goroutine is
    loops,     \* Start has returned: the two tickers run
    todo,      \* the listed entries not yet processed
    listed,    \* all the entries of the last listing, None before the first
    cur,       \* the listed entry whose adapter is being replaced, started
               \* or stopped, None if there is none
    active,    \* activeSources
    adapters,  \* adapterManager: source -> running entry, or None
    routes,    \* the server's mux: path -> source, "dead" or None
    stale,     \* a stopped informer or logs adapter still sends
    tracker,   \* statusUpdater: (Ingester, source) -> state, or None
    gauge      \* IngestersStatus: 1 active, 0 inactive, 2 for -1 (error)

api == <<crds, edits, status>>
memory == <<up, pc, loops, todo, listed, cur, active, adapters, routes, stale,
            tracker, gauge>>
vars == <<crds, edits, status, up, pc, loops, todo, listed, cur, active,
          adapters, routes, stale, tracker, gauge>>

-----------------------------------------------------------------------------

(* One element per converted source of every listed object. *)
Listing(objects) ==
    UNION {{[ing |-> i, entry |-> e] : e \in objects[i]} :
               i \in {j \in Ingesters : objects[j] # None}}

NoAdapters == [s \in Sources |-> None]
NoRoutes == [p \in Paths |-> None]
NoTrackers == [k \in Ingesters \X Sources |-> None]
NoGauge == [s \in Sources |-> 0]

Init ==
    /\ crds \in [Ingesters -> {None} \cup UNION {Specs[i] : i \in Ingesters}]
    /\ \A i \in Ingesters : crds[i] \in Specs[i] \cup {None}
    /\ edits = 0
    /\ status = [i \in Ingesters |-> None]
    /\ up = TRUE
    /\ pc = "idle" /\ loops = FALSE
    /\ todo = {} /\ listed = None /\ cur = None /\ active = {}
    /\ adapters = NoAdapters /\ routes = NoRoutes /\ stale = FALSE
    /\ tracker = NoTrackers /\ gauge = NoGauge

(* A panic outside an HTTP handler ends the process and loses its memory. *)
Crash ==
    /\ up' = FALSE
    /\ pc' = "idle" /\ loops' = FALSE
    /\ todo' = {} /\ listed' = None /\ cur' = None /\ active' = {}
    /\ adapters' = NoAdapters /\ routes' = NoRoutes /\ stale' = FALSE
    /\ tracker' = NoTrackers /\ gauge' = NoGauge

Restart == ~up /\ up' = TRUE
           /\ UNCHANGED <<api, pc, loops, todo, listed, cur, active, adapters,
                          routes, stale, tracker, gauge>>

(* A user creates, replaces or deletes an Ingester. *)
Edit(i) ==
    /\ edits < MaxEdits
    /\ \E spec \in (Specs[i] \cup {None}) \ {crds[i]} :
          /\ crds' = [crds EXCEPT ![i] = spec]
          /\ status' = [status EXCEPT ![i] = IF spec = None THEN None ELSE @]
    /\ edits' = edits + 1
    /\ UNCHANGED memory

-----------------------------------------------------------------------------
(* reloadAdapters: the listing. *)

List ==
    /\ up /\ pc = "idle"
    /\ todo' = Listing(crds)
    /\ listed' = Listing(crds)
    /\ active' = {}
    /\ pc' = "items"
    /\ UNCHANGED <<api, up, loops, cur, adapters, routes, stale, tracker, gauge>>

(* The List call fails: reloadAdapters returns.  The first reload is made  *)
(* by Start, which goes on to start the tickers.                           *)
ListFails ==
    /\ up /\ pc = "idle"
    /\ loops' = TRUE
    /\ UNCHANGED <<api, up, pc, todo, listed, cur, active, adapters, routes,
                   stale, tracker, gauge>>

(* reloadAdapters: processIngesterConfigItem, one listed entry at a time.  *)
(* The order is the API server's.  Between two calls that change what the  *)
(* status goroutine, a handler or a request sees, the others may run: the  *)
(* entry is in hand meanwhile, and pc says which call comes next.          *)

NeverChanged(s, e) == FALSE

(* configChanged looks at the ingester type only. *)
ConfigChanged(s, e) == adapters[s].type # e.type

(* The adapter of s is there and stays. *)
Keep(s, e) == adapters[s] # None /\ ~ConfigChanged(s, e)

RoutesKept(s) == routes

(* adapter.Stop of a webhook adapter closes its channel; the mux cannot    *)
(* unregister, so the route stays and leads to the closed channel.         *)
RoutesWithout(s) == [p \in Paths |-> IF routes[p] = s THEN "dead" ELSE routes[p]]

(* adapter.Stop of an informer adapter closes the channel its handlers     *)
(* send on and leaves the handlers registered with the shared informer.    *)
(* That of a logs adapter closes the channel of its streams, unless it     *)
(* finds an event there.                                                   *)
StaleAfterStop(s) == CASE adapters[s].type = "informer" -> {TRUE}
                       [] adapters[s].type = "logs" -> {stale, TRUE}
                       [] OTHER -> {stale}

Stop(s) == routes' = RoutesWithout(s) /\ stale' \in StaleAfterStop(s)

Pick(x) == /\ up /\ pc = "items" /\ x \in todo
           /\ todo' = todo \ {x}
           /\ active' = active \cup {x.entry.source}
           /\ gauge' = [gauge EXCEPT ![x.entry.source] = 1]
           /\ UNCHANGED <<api, up, loops, listed, adapters, tracker>>

KeepAdapter(x) ==
    /\ Pick(x)
    /\ Keep(x.entry.source, x.entry)
    /\ UNCHANGED <<pc, cur, routes, stale>>

(* The type has changed: the adapter is stopped ... *)
StopOld(x) ==
    LET s == x.entry.source IN
    /\ Pick(x)
    /\ adapters[s] # None /\ ConfigChanged(s, x.entry)
    /\ Stop(s)
    /\ cur' = x
    /\ pc' = "remove"

(* ... and removed from the manager. *)
RemoveOld ==
    /\ up /\ pc = "remove"
    /\ adapters' = [adapters EXCEPT ![cur.entry.source] = None]
    /\ pc' = "create"
    /\ UNCHANGED <<api, up, loops, todo, listed, cur, active, routes, stale,
                   tracker, gauge>>

NewSource(x) ==
    /\ Pick(x)
    /\ adapters[x.entry.source] = None
    /\ cur' = x
    /\ pc' = "create"
    /\ UNCHANGED <<routes, stale>>

(* createAndStartAdapterForSource *)

(* The mux accepts a path once: HandleFunc panics on a registered one. *)
Registrable(e) == e.valid /\ e.type = "webhook" => routes[e.path] = None

Starts(e) == /\ e.valid
             /\ Registrable(e)
             /\ ~(e.type = "informer" /\ e.source \in Absent)

StartAdapter ==
    /\ up /\ pc = "create"
    /\ Starts(cur.entry)
    /\ routes' = IF cur.entry.type = "webhook"
                 THEN [routes EXCEPT ![cur.entry.path] = cur.entry.source]
                 ELSE routes
    /\ pc' = "track"
    /\ UNCHANGED <<api, up, loops, todo, listed, cur, active, adapters, stale,
                   tracker, gauge>>

(* tracker.UpdateSourceState(..., Running) *)
TrackRunning ==
    /\ up /\ pc = "track"
    /\ tracker' = [tracker EXCEPT ![<<cur.ing, cur.entry.source>>] = "Running"]
    /\ pc' = "add"
    /\ UNCHANGED <<api, up, loops, todo, listed, cur, active, adapters, routes,
                   stale, gauge>>

AddAdapter ==
    /\ up /\ pc = "add"
    /\ adapters' = [adapters EXCEPT ![cur.entry.source] = cur.entry]
    /\ cur' = None
    /\ pc' = "items"
    /\ UNCHANGED <<api, up, loops, todo, listed, active, routes, stale,
                   tracker, gauge>>

(* NewAdapter, Validate or Start fails: handleAdapterError.  The gauge,    *)
(* set to 1 for every entry, becomes -1.                                   *)
AdapterError ==
    /\ up /\ pc = "create"
    /\ ~cur.entry.valid
    /\ tracker' = [tracker EXCEPT ![<<cur.ing, cur.entry.source>>] = "Error"]
    /\ gauge' = [gauge EXCEPT ![cur.entry.source] = 2]
    /\ cur' = None
    /\ pc' = "items"
    /\ UNCHANGED <<api, up, loops, todo, listed, active, adapters, routes, stale>>

(* The path is already registered: the mux panics in the reload goroutine. *)
RegisterPanics ==
    /\ up /\ pc = "create"
    /\ cur.entry.valid /\ ~Registrable(cur.entry)
    /\ Crash
    /\ UNCHANGED api

(* InformerAdapter.Start waits for a cache sync that cannot come; the only *)
(* way out is the end of the orchestrator's context.                       *)
StartBlocks ==
    /\ up /\ pc = "create"
    /\ cur.entry.valid /\ cur.entry.type = "informer" /\ cur.entry.source \in Absent
    /\ pc' = "blocked"
    /\ UNCHANGED <<api, up, loops, todo, listed, cur, active, adapters, routes,
                   stale, tracker, gauge>>

-----------------------------------------------------------------------------
(* reloadAdapters: adapters of sources that are gone. *)

NoneUnwanted == {}

EveryAdapter == {s \in Sources : adapters[s] # None}

Unwanted == {s \in Sources : adapters[s] # None /\ s \notin active}

StopForgotten(s) == tracker

(* The tracker is found by parsing the identifier, which works for owned   *)
(* sources only.                                                           *)
TrackStopped(s) ==
    IF Owner[s] = None THEN tracker
    ELSE [tracker EXCEPT ![<<Owner[s], s>>] = "Stopped"]

StopUnwanted(s) ==
    /\ up /\ pc = "items" /\ todo = {}
    /\ s \in Unwanted
    /\ tracker' = TrackStopped(s)
    /\ cur' = [ing |-> Owner[s], entry |-> adapters[s]]
    /\ pc' = "stop"
    /\ UNCHANGED <<api, up, loops, todo, listed, active, adapters, routes,
                   stale, gauge>>

StopAdapter ==
    /\ up /\ pc = "stop"
    /\ Stop(cur.entry.source)
    /\ pc' = "forget"
    /\ UNCHANGED <<api, up, loops, todo, listed, cur, active, adapters,
                   tracker, gauge>>

RemoveAdapter ==
    /\ up /\ pc = "forget"
    /\ adapters' = [adapters EXCEPT ![cur.entry.source] = None]
    /\ gauge' = [gauge EXCEPT ![cur.entry.source] = 0]
    /\ cur' = None
    /\ pc' = "items"
    /\ UNCHANGED <<api, up, loops, todo, listed, active, routes, stale, tracker>>

(* The first reload is made by Start itself, before the tickers exist. *)
EndReload ==
    /\ up /\ pc = "items" /\ todo = {}
    /\ Unwanted = {}
    /\ pc' = "idle"
    /\ loops' = TRUE
    /\ UNCHANGED <<api, up, todo, listed, cur, active, adapters, routes, stale,
                   tracker, gauge>>

-----------------------------------------------------------------------------
(* An object of a watched resource changes: the shared informer calls the  *)
(* handler of the stopped adapter too, which sends on a closed channel; or *)
(* the pod watcher of a stopped logs adapter follows a pod again, and a    *)
(* line matches.  These goroutines are not HTTP handlers: the panic is     *)
(* fatal.                                                                  *)
StaleHandlerPanics == up /\ stale /\ Crash /\ UNCHANGED api

States(i) == {tracker[<<i, s>>] : s \in Sources}

(* The Ready condition UpdateStatus computes from the tracker of i. *)
ReadyReason(i) ==
    IF "Error" \in States(i) THEN "SourceError"
    ELSE IF "Stopped" \in States(i) THEN "SourceStopped"
    ELSE "AllSourcesRunning"

UpdateStatusOnce(i) ==
    /\ up /\ loops
    /\ \E s \in Sources : adapters[s] # None /\ Owner[s] = i
    /\ crds[i] # None /\ status[i] = None
    /\ status' = [status EXCEPT ![i] = ReadyReason(i)]
    /\ UNCHANGED <<crds, edits, memory>>

(* updateAllIngesterStatus visits the Ingesters of the running adapters. *)
UpdateStatus(i) ==
    /\ up /\ loops
    /\ \E s \in Sources : adapters[s] # None /\ Owner[s] = i
    /\ crds[i] # None
    /\ status' = [status EXCEPT ![i] = ReadyReason(i)]
    /\ UNCHANGED <<crds, edits, memory>>

-----------------------------------------------------------------------------
Reload == \/ List
          \/ EndReload
          \/ \E x \in todo : KeepAdapter(x) \/ StopOld(x) \/ NewSource(x)
          \/ RemoveOld
          \/ StartAdapter \/ TrackRunning \/ AddAdapter
          \/ AdapterError \/ RegisterPanics \/ StartBlocks
          \/ \E s \in Sources : StopUnwanted(s)
          \/ StopAdapter \/ RemoveAdapter

Next == \/ Reload
        \/ ListFails
        \/ \E i \in Ingesters : Edit(i) \/ UpdateStatus(i)
        \/ StaleHandlerPanics
        \/ Restart

Spec == Init /\ [][Next]_vars

(* The two tickers fire for ever, a List call succeeds sometime, and       *)
(* Kubernetes restarts a dead pod.                                         *)
FairSpec == /\ Spec
            /\ WF_vars(Reload)
            /\ \A i \in Ingesters : WF_vars(UpdateStatus(i))
            /\ WF_vars(Restart)

-----------------------------------------------------------------------------
(* Type invariant. *)
TypeOK ==
    /\ \A i \in Ingesters : crds[i] \in Specs[i] \cup {None}
    /\ edits \in 0..MaxEdits
    /\ status \in [Ingesters -> {None, "SourceError", "SourceStopped",
                                 "AllSourcesRunning"}]
    /\ up \in BOOLEAN /\ loops \in BOOLEAN /\ stale \in BOOLEAN
    /\ pc \in {"idle", "items", "remove", "create", "track", "add", "blocked",
               "stop", "forget"}
    /\ \A x \in todo : x.ing \in Ingesters /\ x.entry \in Entry
    /\ IF pc \in {"idle", "items"} THEN cur = None ELSE cur.entry \in Entry
    /\ active \subseteq Sources
    /\ \A s \in Sources : adapters[s] = None \/ /\ adapters[s] \in Entry
                                                /\ adapters[s].source = s
    /\ routes \in [Paths -> Sources \cup {"dead", None}]
    /\ tracker \in [Ingesters \X Sources
                        -> {None, "Running", "Stopped", "Error"}]
    /\ gauge \in [Sources -> 0..2]

(* s is the source of the entry in hand. *)
InHand(s) == pc \notin {"idle", "items"} /\ cur.entry.source = s

(* The sources are named once in a listing. *)
Unique(l) == \A x, y \in l : x.entry.source = y.entry.source => x = y

Matches(l) ==
    /\ \A s \in Sources : adapters[s] # None =>
          \E x \in l : x.entry.source = s /\ x.entry.type = adapters[s].type
    /\ Unique(l) => \A x \in l : x.entry.valid =>
          /\ adapters[x.entry.source] # None
          /\ adapters[x.entry.source].type = x.entry.type

(* When a reload is over (reloadAdapters has returned), the running        *)
(* adapters are those of the listing: no adapter of a source that is gone  *)
(* or has another type, and, if no two Ingesters name the same source, one *)
(* adapter of the right type for each valid source.                        *)
AdaptersMatchListing == pc = "idle" /\ listed # None => Matches(listed)

(* A webhook path that leads to an open channel leads to the channel of    *)
(* the adapter the manager holds for that source and path, or is about to  *)
(* hold because its Start has just returned, so that a request answered    *)
(* 200 by handleWebhook has a goroutine that consumes it or is about to;   *)
(* and each adapter of a webhook that is not being stopped is reachable.   *)
RouteOwned ==
    /\ \A p \in Paths : routes[p] \in Sources =>
          \/ adapters[routes[p]] # None /\ adapters[routes[p]].path = p
          \/ pc \in {"track", "add"} /\ InHand(routes[p]) /\ cur.entry.path = p
    /\ \A s \in Sources :
          adapters[s] # None /\ adapters[s].type = "webhook"
          /\ ~(pc \in {"remove", "forget"} /\ InHand(s))
             => routes[adapters[s].path] = s

(* The state that the status tracker holds for a source of a multi-source  *)
(* Ingester is Running exactly while the adapter manager holds its adapter,*)
(* except for the one source that the reload goroutine is starting,        *)
(* replacing or stopping; and between reloads the gauge IngestersStatus is *)
(* 1 for exactly the sources that have a running adapter.                  *)
StatusTruthful ==
    /\ \A s \in Sources : Owner[s] # None /\ ~InHand(s) =>
         ((tracker[<<Owner[s], s>>] = "Running") <=> (adapters[s] # None))
    /\ up /\ pc = "idle" => \A s \in Sources : (gauge[s] = 1) <=> (adapters[s] # None)

(* The adapter of s is stopped or replaced although the listing, which     *)
(* names no source twice, has s with the same type.                        *)
NeedlessStop(s) ==
    /\ adapters[s] # None /\ adapters'[s] # adapters[s] /\ up'
    /\ Unique(listed)
    /\ \E x \in listed : x.entry.source = s /\ x.entry.type = adapters[s].type

(* While no two Ingesters name the same source, the process never stops or *)
(* replaces an adapter whose source is still listed with the same type: a  *)
(* reload does not interrupt the collection of a source nobody touched.    *)
NoNeedlessStop == [][\A s \in Sources : ~NeedlessStop(s)]_vars

(* No two of the valid webhook sources share a path. *)
DistinctPaths(l) ==
    \A x, y \in l : x.entry.valid /\ y.entry.valid /\ x.entry.path # None
                    /\ x.entry.path = y.entry.path => x = y

(* No cache sync keeps the reload goroutine waiting, and in the end no two *)
(* Ingesters name the same source and no two sources the same path.        *)
Undisturbed ==
    /\ [](pc # "blocked")
    /\ <>[](Unique(Listing(crds)) /\ DistinctPaths(Listing(crds)))

(* After the last edit the undisturbed process settles, possibly after     *)
(* crashing and restarting, in a state where it runs the adapters the      *)
(* Ingesters ask for: a restart clears what earlier contents of the        *)
(* Ingesters have left in the mux and in the informers.  Two sources with  *)
(* one path make every process panic in its first reload, for ever.        *)
Converges == Undisturbed => <>[](up /\ Matches(Listing(crds)))

(* In the undisturbed process the status of an Ingester that has a running *)
(* source ends up with the Ready condition its sources' states call for.   *)
StatusSettles ==
    Undisturbed => \A i \in Ingesters :
        <>[]((crds[i] # None /\ \E s \in Sources : adapters[s] # None /\ Owner[s] = i)
             => status[i] = ReadyReason(i))

(* "reloadAdapters reloads all adapters based on current Ingester CRDs"    *)
(* (generic.go:135), and skips one whose "Config unchanged" (:305): the    *)
(* adapter of a source ends up running with the configuration the Ingester *)
(* has now.                                                                *)
SpecApplied ==
    <>[](\A x \in Listing(crds) :
            x.entry.valid => adapters[x.entry.source] = x.entry)

(* InformerAdapter.Start announces an error for a cache that "did not sync *)
(* in time": a source whose resource the cluster does not serve ends up in *)
(* state Error.                                                            *)
SyncFailureReported ==
    \A i \in Ingesters, s \in Absent :
        <>[](\E x \in Listing(crds) : /\ x.ing = i /\ x.entry.source = s
                                      /\ x.entry.type = "informer")
            => <>(tracker[<<i, s>>] = "Error")
=============================================================================
