---------------------------- MODULE RuntimeConfig ----------------------------
(***************************************************************************)
(* Runtime configuration: the ConfigManager (base and environment          *)
(* ConfigMaps), the callback handleConfigChange that turns its result into *)
(* the global namespace filter, the ConfigMapLoader (source filters), and  *)
(* the part of main that starts them.                                      *)
(*                                                                         *)
(* Four goroutines share the ConfigManager's lock and the filter: main,    *)
(* starter (ConfigManager.Start), watcher (its informer's handlers) and    *)
(* loader (ConfigMapLoader.Start, then its informer's handlers, which run  *)
(* after it).  A watch delivers every change of its ConfigMaps in order;   *)
(* the ConfigManager's covers its namespace, which by default is also the  *)
(* one of the filter ConfigMap.                                            *)
(*                                                                         *)
(* A features.yaml is a function from the keys it sets to values: a key    *)
(* stands for section.field, so merging section by section is merging key  *)
(* by key.  The keys kept are those of namespace_filtering.  Bad is a      *)
(* ConfigMap without the expected entry or with one that does not parse.   *)
(* Of the lock only exclusive ownership matters: a reader that blocks      *)
(* nobody is one step.                                                     *)
(***************************************************************************)
EXTENDS Naturals, Sequences, TLC

CONSTANTS
    Features,    \* contents of base and environment ConfigMaps
    Filters,     \* contents of the filter ConfigMap
    AllowAll,    \* the filter without any rule
    Defaults,    \* what applyDefaults merges under the configuration
    Initial,     \* the ConfigMaps that may exist when the process starts
    Editable,    \* the ConfigMaps users change while it runs
    MaxEdits,    \* how often they do
    Bad, None

Own == {"base", "env"}
Names == Own \cup {"filter"}
Watched == <<"base", "env", "filter">>  \* by default all in zen-system
Managers == {"starter", "watcher"}
Threads == {"main"} \cup Managers

Contents(n) == (IF n = "filter" THEN Filters ELSE Features) \cup {Bad}

ASSUME BadAssumption == Bad # None /\ Bad \notin Features \cup Filters
ASSUME NoneAssumption == None \notin Features \cup Filters /\ None \notin Threads
ASSUME InitialAssumption == Initial \subseteq Names
ASSUME EditableAssumption == Editable \subseteq Names
ASSUME BoundAssumption == MaxEdits \in Nat

VARIABLES
    store,     \* the ConfigMaps in the API server, None if absent
    edits,
    queue,     \* the ConfigManager's informer: undelivered events
    watching,  \* ... and whether its factory has been started
    base, env, final,  \* baseConfig, envConfig, finalConfig
    mu,        \* the goroutine that holds cm.mu for writing, or None
    pc,        \* where main, starter and watcher are
    arg,       \* the ConfigMap a goroutine works on: <<name, content>>
    cfg,       \* the configuration handed to handleConfigChange
    old,       \* what filterInstance.GetConfig returned to it
    filter,    \* the filter's configuration: source rules, namespace filter
    loading,   \* the loader: "off", "load", "list" (Start), "watch"
    reloads,   \* the loader's informer: undelivered events
    lastGood,  \* lastGoodConfig of the loader
    ready      \* the HTTP server listens and answers "ready"

vars == <<store, edits, queue, watching, base, env, final, mu, pc, arg, cfg,
          old, filter, loading, reloads, lastGood, ready>>

manager == <<queue, watching, base, env, final, mu, arg>>
handling == <<cfg, old>>
loader == <<loading, reloads, lastGood>>

-----------------------------------------------------------------------------

Usable(c) == c # None /\ c # Bad

(* deepMerge: the environment takes precedence key by key. *)
DeepMerge(b, e) == e @@ b

ApplyDefaults(c) == DeepMerge(Defaults, c)

NoConfig == [k \in {} |-> None]

(* LoadFilterConfig, read when main builds the filter. *)
LoadFilterConfig(c) == [sources |-> IF Usable(c) THEN c ELSE AllowAll,
                        ns |-> None]

Init ==
    /\ store \in [Names -> {None, Bad} \cup Features \cup Filters]
    /\ \A n \in Names : store[n] \in IF n \in Initial THEN Contents(n) ELSE {None}
    /\ edits = 0
    /\ queue = <<>> /\ watching = FALSE
    /\ base = NoConfig /\ env = NoConfig /\ final = NoConfig
    /\ mu = None
    /\ pc = [t \in Threads |-> CASE t = "main" -> "get"
                                 [] t = "starter" -> "load_base"
                                 [] OTHER -> "idle"]
    /\ arg = [t \in Managers |-> None]
    /\ cfg = [t \in Threads |-> NoConfig]
    /\ old = [t \in Threads |-> None]
    /\ filter = LoadFilterConfig(store["filter"])
    /\ loading = "off" /\ reloads = <<>> /\ lastGood = None
    /\ ready = FALSE

(* A user creates, replaces or deletes a ConfigMap; the watches see it. *)
Edit(n) ==
    /\ edits < MaxEdits
    /\ \E c \in (Contents(n) \cup {None}) \ {store[n]} :
          /\ store' = [store EXCEPT ![n] = c]
          /\ queue' = IF watching THEN Append(queue, <<n, c>>) ELSE queue
          /\ reloads' = IF loading = "watch" /\ n = "filter"
                        THEN Append(reloads, c) ELSE reloads
    /\ edits' = edits + 1
    /\ UNCHANGED <<watching, base, env, final, mu, pc, arg, handling, filter,
                   loading, lastGood, ready>>

Goto(t, l) == pc' = [pc EXCEPT ![t] = l]

-----------------------------------------------------------------------------
(* ConfigManager.Start: loadInitialConfig, then the informer. *)

(* processConfigMap returns before it takes the lock when features.yaml is *)
(* missing or does not parse.                                              *)
Parsed(c) == Usable(c)

LockTooEarly ==
    /\ pc["starter"] = "load_base"
    /\ mu' = IF store["base"] = Bad THEN "starter" ELSE mu
    /\ LET c == store["base"] IN
       /\ arg' = [arg EXCEPT !["starter"] = <<"base", c>>]
       /\ Goto("starter", IF c = None THEN "sync"
                          ELSE IF Parsed(c) THEN "lock" ELSE "load_env")
    /\ UNCHANGED <<store, edits, queue, watching, base, env, final, handling,
                   filter, loader, ready>>

(* Get the base ConfigMap; if there is none, the environment's is not read.*)
LoadBase ==
    /\ pc["starter"] = "load_base"
    /\ LET c == store["base"] IN
       /\ arg' = [arg EXCEPT !["starter"] = <<"base", c>>]
       /\ Goto("starter", IF c = None THEN "sync"
                          ELSE IF Parsed(c) THEN "lock" ELSE "load_env")
    /\ UNCHANGED <<store, edits, queue, watching, base, env, final, mu,
                   handling, filter, loader, ready>>

LoadEnv ==
    /\ pc["starter"] = "load_env"
    /\ LET c == store["env"] IN
       /\ arg' = [arg EXCEPT !["starter"] = <<"env", c>>]
       /\ Goto("starter", IF Parsed(c) THEN "lock" ELSE "sync")
    /\ UNCHANGED <<store, edits, queue, watching, base, env, final, mu,
                   handling, filter, loader, ready>>

(* A Get fails: loadInitialConfig gives up and Start goes on. *)
LoadFails ==
    /\ pc["starter"] \in {"load_base", "load_env"}
    /\ Goto("starter", "sync")
    /\ UNCHANGED <<store, edits, manager, handling, filter, loader, ready>>

Existing == LET Event(n) == <<n, store[n]>>
                Present(e) == e[2] # None
            IN  SelectSeq([k \in DOMAIN Watched |-> Event(Watched[k])], Present)

(* The factory is started: its first listing arrives as additions. *)
StartInformer ==
    /\ pc["starter"] = "sync"
    /\ watching' = TRUE
    /\ queue' = Existing
    /\ Goto("starter", "done")
    /\ UNCHANGED <<store, edits, base, env, final, mu, arg, handling, filter,
                   loader, ready>>

(* Every minute the informer delivers the ConfigMaps it knows again. *)
Resync ==
    /\ watching /\ queue = <<>> /\ pc["watcher"] = "idle"
    /\ queue' = Existing
    /\ UNCHANGED <<store, edits, watching, base, env, final, mu, pc, arg,
                   handling, filter, loader, ready>>

(* handleConfigMapAdd, Update and Delete, up to the lock.  A deletion      *)
(* takes it whatever the name of the ConfigMap.                            *)
HandleEvent ==
    /\ pc["watcher"] = "idle" /\ queue # <<>>
    /\ queue' = Tail(queue)
    /\ arg' = [arg EXCEPT !["watcher"] = Head(queue)]
    /\ LET n == Head(queue)[1]
           c == Head(queue)[2] IN
       Goto("watcher", IF c = None \/ (n \in Own /\ Parsed(c))
                       THEN "lock" ELSE "idle")
    /\ UNCHANGED <<store, edits, watching, base, env, final, mu, handling,
                   filter, loader, ready>>

(* Lock, store the new part, mergeConfigurations. *)
LockAndMerge(t) ==
    /\ pc[t] = "lock" /\ mu = None
    /\ mu' = t
    /\ LET n == arg[t][1]
           c == IF arg[t][2] = None THEN NoConfig ELSE arg[t][2] IN
       /\ base' = IF n = "base" THEN c ELSE base
       /\ env' = IF n = "env" THEN c ELSE env
       /\ final' = DeepMerge(base', env')
    /\ Goto(t, "get")
    /\ UNCHANGED <<store, edits, queue, watching, arg, handling, filter,
                   loader, ready>>

(* GetConfigWithDefaults, by main or by notifyConfigChange: RLock waits    *)
(* until nobody holds the lock for writing.                                *)
GetConfigWithDefaults(t) ==
    /\ pc[t] = "get" /\ mu = None
    /\ cfg' = [cfg EXCEPT ![t] = ApplyDefaults(final)]
    /\ Goto(t, "read")
    /\ UNCHANGED <<store, edits, manager, old, filter, loader, ready>>

-----------------------------------------------------------------------------
(* handleConfigChange, the namespace filter: read the filter's             *)
(* configuration, then replace it by one with the same source rules.       *)

ReadFilter(t) ==
    /\ pc[t] = "read"
    /\ old' = [old EXCEPT ![t] = filter]
    /\ Goto(t, "write")
    /\ UNCHANGED <<store, edits, manager, cfg, filter, loader, ready>>

NsFilter(c, f) ==
    IF c["enabled"] THEN [enabled |-> TRUE, excluded |-> c["excluded"]]
    ELSE IF f.ns = None THEN None ELSE [f.ns EXCEPT !.enabled = FALSE]

(* The ConfigManager's goroutines hold the lock while they run the         *)
(* callback; the deferred Unlock of processConfigMap and                   *)
(* handleConfigMapDelete follows it.                                       *)
WriteFilter(t) ==
    /\ pc[t] = "write"
    /\ filter' = [sources |-> old[t].sources, ns |-> NsFilter(cfg[t], old[t])]
    /\ mu' = IF t = "main" THEN mu ELSE None
    /\ Goto(t, CASE t = "main" -> "serve"
                 [] t = "watcher" -> "idle"
                 [] t = "starter" ->
                        IF arg[t][1] = "base" THEN "load_env" ELSE "sync")
    /\ UNCHANGED <<store, edits, queue, watching, base, env, final, arg,
                   handling, loader, ready>>

(* main: httpServer.Start, SetReady, the rest of startAllServices. *)
Serve ==
    /\ pc["main"] = "serve"
    /\ ready' = TRUE
    /\ Goto("main", "done")
    /\ UNCHANGED <<store, edits, manager, handling, filter, loader>>

-----------------------------------------------------------------------------
(* ConfigMapLoader *)

StartedFirst == loading = "off"

(* main starts the loader after the server. *)
LoaderStarts == loading = "off" /\ ready

StartLoader ==
    /\ LoaderStarts
    /\ loading' = "load"
    /\ UNCHANGED <<store, edits, manager, pc, handling, filter, reloads,
                   lastGood, ready>>

(* updateFilter: the loaded configuration replaces the filter's as a       *)
(* whole; filter.json sets no namespace filter.                            *)
Loaded(c) == [sources |-> c, ns |-> None]

KeepFirst(c) ==
    IF Usable(c) /\ lastGood = None THEN filter' = Loaded(c) /\ lastGood' = c
    ELSE UNCHANGED <<filter, lastGood>>

(* handleConfigMapChange, and the initial load: an unusable ConfigMap and  *)
(* a deletion keep the last good configuration.                            *)
UpdateFilter(c) ==
    IF Usable(c) THEN filter' = Loaded(c) /\ lastGood' = c
    ELSE UNCHANGED <<filter, lastGood>>

(* loadConfigWithContext; if its Get fails nothing is loaded. *)
InitialLoad ==
    /\ loading = "load"
    /\ UpdateFilter(store["filter"]) \/ UNCHANGED <<filter, lastGood>>
    /\ loading' = "list"
    /\ UNCHANGED <<store, edits, manager, pc, handling, reloads, ready>>

(* The loader's informer lists: the ConfigMap arrives as an addition. *)
StartWatch ==
    /\ loading = "list"
    /\ loading' = "watch"
    /\ reloads' = IF store["filter"] = None THEN <<>> ELSE <<store["filter"]>>
    /\ UNCHANGED <<store, edits, manager, pc, handling, filter, lastGood, ready>>

HandleReload ==
    /\ reloads # <<>>
    /\ UpdateFilter(Head(reloads))
    /\ reloads' = Tail(reloads)
    /\ UNCHANGED <<store, edits, manager, pc, handling, loading, ready>>

-----------------------------------------------------------------------------
Step(t) == \/ LockAndMerge(t)
           \/ GetConfigWithDefaults(t)
           \/ ReadFilter(t)
           \/ WriteFilter(t)

Starter == LoadBase \/ LoadEnv \/ LoadFails \/ StartInformer

Loader == StartLoader \/ InitialLoad \/ StartWatch \/ HandleReload

Next == \/ \E t \in Threads : Step(t)
        \/ Starter \/ Serve \/ Loader
        \/ HandleEvent \/ Resync
        \/ \E n \in Editable : Edit(n)

Spec == Init /\ [][Next]_vars

(* Every goroutine that can step is scheduled. *)
FairSpec == /\ Spec
            /\ \A t \in Threads : WF_vars(Step(t))
            /\ WF_vars(Starter) /\ WF_vars(Serve) /\ WF_vars(Loader)
            /\ WF_vars(HandleEvent)

-----------------------------------------------------------------------------
(* Type invariant. *)
TypeOK ==
    /\ \A n \in Names : store[n] \in Contents(n) \cup {None}
    /\ edits \in 0..MaxEdits
    /\ watching \in BOOLEAN /\ ready \in BOOLEAN
    /\ mu \in Managers \cup {None}
    /\ \A t \in Threads :
          pc[t] \in {"get", "read", "write", "serve", "load_base", "load_env",
                     "sync", "lock", "idle", "done"}
    /\ loading \in {"off", "load", "list", "watch"}
    /\ lastGood \in Filters \cup {None}
    /\ filter.sources \in Filters \cup {AllowAll}
    /\ \A k \in DOMAIN final : k \in DOMAIN Defaults

(* Once the loader has loaded the filter ConfigMap, the source rules in    *)
(* force are those of the last good version it saw: handleConfigChange,    *)
(* which copies the rules it read earlier, never puts older ones back.     *)
SourcesCurrent == lastGood # None => filter.sources = lastGood

(* As long as the ConfigManager's ConfigMaps are missing or unusable and   *)
(* its watch delivers no deletion, main reaches the point where the HTTP   *)
(* server listens and reports ready, although it has to take the           *)
(* ConfigManager's lock on the way.                                        *)
StartupCompletes ==
    [](/\ \A n \in Own : ~Usable(store[n])
       /\ \A k \in DOMAIN queue : queue[k][2] # None)
        => <>ready

(* Changes of the filter ConfigMap take effect without restart             *)
(* (FILTERING.md): in a process that became ready the source rules end up  *)
(* being those of the ConfigMap, if it is usable, even if the              *)
(* ConfigManager is stuck.                                                 *)
FilterSettles ==
    <>[](ready /\ Usable(store["filter"]) => filter.sources = store["filter"])

(* "Configuration changes are applied immediately without pod restarts"    *)
(* (CONFIGURATION.md): the namespace filter in force ends up being the one *)
(* the base and environment ConfigMaps ask for.                            *)
Wanted == LET c(n) == IF Usable(store[n]) THEN store[n] ELSE NoConfig
          IN  ApplyDefaults(DeepMerge(c("base"), c("env")))
UpdatesApplied ==
    <>[](Wanted["enabled"] => filter.ns = [enabled |-> TRUE,
                                           excluded |-> Wanted["excluded"]])
=============================================================================
