----------------------------- MODULE Deployment -----------------------------
(***************************************************************************)
(* The replicas of zen-watcher: what main starts in a process, what waits  *)
(* for leader election, what ends at shutdown, and what main waits for.    *)
(* A process may be killed between any two steps and is started again.     *)
(*                                                                         *)
(* Leader election (zen-sdk, controller-runtime) and the Lease are         *)
(* external: a manager that leads holds the Lease and ends before the      *)
(* Lease expires if it cannot renew it; one that has ended is not started  *)
(* again.  The services that end as soon as the context is cancelled and   *)
(* wait for nothing (HTTP server, loader, launcher) are not kept apart.    *)
(* RuntimeConfig has the ConfigManager in full, which here either returns  *)
(* or waits for itself; a signal that comes early takes effect once main   *)
(* waits for it.                                                           *)
(***************************************************************************)
EXTENDS Naturals, FiniteSets

CONSTANTS
    Replicas,
    Configs,  \* the flags and environments looked at, see Init
    None

ASSUME ConfigsAssumption ==
    Configs \subseteq [mode : {"builtin", "disabled"}, count : Nat \ {0},
                       ha : {"off", "balancing", "scaling"}, absent : BOOLEAN,
                       features : BOOLEAN]

ASSUME NoneAssumption == None \notin Replicas

VARIABLES
    config,   \* the flags and the environment of the replicas
    pod,      \* the process: "down", "init", "serving", "draining"
    lease,    \* the holder of the Lease, or None
    manager,  \* leaderManager: "off", "standby", "leading", "ended"
    elected,  \* leaderElectedCh is closed
    cm,       \* the goroutine of ConfigManager.Start: "off", "loading", "stuck", "done"
    orch,     \* the goroutine of startGenericOrchestrator
    gc,       \* the goroutine of startGarbageCollector
    ha        \* the goroutine of startHAMetricsLoop

vars == <<config, pod, lease, manager, elected, cm, orch, gc, ha>>
services == <<cm, orch, gc, ha>>

TypeOK ==
    /\ config \in Configs
    /\ pod \in [Replicas -> {"down", "init", "serving", "draining"}]
    /\ lease \in Replicas \cup {None}
    /\ manager \in [Replicas -> {"off", "standby", "leading", "ended"}]
    /\ elected \in [Replicas -> BOOLEAN]
    /\ cm \in [Replicas -> {"off", "loading", "stuck", "done"}]
    /\ orch \in [Replicas -> {"off", "waiting", "reloading", "stuck", "running"}]
    /\ gc \in [Replicas -> {"off", "waiting", "running"}]
    /\ ha \in [Replicas -> {"off", "ticking", "locked"}]

(* mode: --leader-election-mode; count: REPLICA_COUNT, 1 if it is not set, *)
(* whatever the number of replicas; ha: LoadHAConfig, with or without auto *)
(* scaling; absent: an Ingester asks for a resource that the cluster does  *)
(* not serve; features: there is a usable base ConfigMap.                  *)
Init ==
    /\ config \in Configs
    /\ pod = [r \in Replicas |-> "down"] /\ lease = None
    /\ manager = [r \in Replicas |-> "off"] /\ elected = [r \in Replicas |-> FALSE]
    /\ orch = [r \in Replicas |-> "off"] /\ gc = [r \in Replicas |-> "off"]
    /\ ha = [r \in Replicas |-> "off"] /\ cm = [r \in Replicas |-> "off"]

-----------------------------------------------------------------------------
(* main *)

StartProcess(r) ==
    /\ pod[r] = "down"
    /\ pod' = [pod EXCEPT ![r] = "init"]
    /\ UNCHANGED <<config, lease, manager, elected, services>>

(* Everything a process had is gone with it, but for the Lease. *)
Gone(r) ==
    /\ pod' = [pod EXCEPT ![r] = "down"]
    /\ manager' = [manager EXCEPT ![r] = "off"] /\ elected' = [elected EXCEPT ![r] = FALSE]
    /\ orch' = [orch EXCEPT ![r] = "off"] /\ gc' = [gc EXCEPT ![r] = "off"]
    /\ ha' = [ha EXCEPT ![r] = "off"] /\ cm' = [cm EXCEPT ![r] = "off"]
    /\ UNCHANGED <<config, lease>>

(* EnforceSafeHA: several replicas need leader election. *)
EnforceSafeHA == config.count = 1 \/ config.mode = "builtin"

(* os.Exit(1) *)
Refuse(r) ==
    /\ pod[r] = "init" /\ ~EnforceSafeHA
    /\ Gone(r)

(* setupLeaderElection, and the goroutines of the manager and of the       *)
(* ConfigManager, which startAllServices starts before anything else; the  *)
(* latter waits for nothing when it finds no ConfigMap that it can use.    *)
(* Without leader election the channel is closed from the start.           *)
StartManager(r) ==
    /\ pod[r] = "init" /\ manager[r] = "off" /\ EnforceSafeHA
    /\ manager' = [manager EXCEPT ![r] = "standby"]
    /\ elected' = [elected EXCEPT ![r] = config.mode = "disabled"]
    /\ cm' = [cm EXCEPT ![r] = IF config.features THEN "loading" ELSE "done"]
    /\ UNCHANGED <<config, pod, lease, orch, gc, ha>>

(* ConfigManager.Start: processConfigMap calls its callbacks with the lock *)
(* held that they need.                                                    *)
LoadInitialConfig(r) ==
    /\ cm[r] = "loading"
    /\ cm' = [cm EXCEPT ![r] = "stuck"]
    /\ UNCHANGED <<config, pod, lease, manager, elected, orch, gc, ha>>

(* startHAComponents: there is a loop if HA is enabled; the balancer's     *)
(* strategy has a default, so that the loop has something to update.       *)
HALoop == IF config.ha = "off" THEN "off" ELSE "ticking"

CheckedOnce(r) ==
    LET service == IF elected[r] THEN "waiting" ELSE "off" IN
    /\ pod[r] = "init" /\ manager[r] # "off" /\ cm[r] # "stuck"
    /\ pod' = [pod EXCEPT ![r] = "serving"]
    /\ orch' = [orch EXCEPT ![r] = service] /\ gc' = [gc EXCEPT ![r] = service]
    /\ ha' = [ha EXCEPT ![r] = HALoop]
    /\ UNCHANGED <<config, lease, manager, elected, cm>>

(* The rest of startAllServices: main takes the lock of the ConfigManager, *)
(* the server is ready, the orchestrator and the garbage collector wait,   *)
(* the HA loop runs.                                                       *)
StartServices(r) ==
    /\ pod[r] = "init" /\ manager[r] # "off" /\ cm[r] # "stuck"
    /\ pod' = [pod EXCEPT ![r] = "serving"]
    /\ orch' = [orch EXCEPT ![r] = "waiting"] /\ gc' = [gc EXCEPT ![r] = "waiting"]
    /\ ha' = [ha EXCEPT ![r] = HALoop]
    /\ UNCHANGED <<config, lease, manager, elected, cm>>

(* SIGTERM cancels the context. *)
Terminate(r) ==
    /\ pod[r] = "serving"
    /\ pod' = [pod EXCEPT ![r] = "draining"]
    /\ UNCHANGED <<config, lease, manager, elected, services>>

(* wg.Wait returns: the orchestrator's goroutine is done once Start has    *)
(* returned, although the adapters run on.                                 *)
Exit(r) ==
    /\ pod[r] = "draining"
    /\ manager[r] = "ended" /\ cm[r] = "done"
    /\ orch[r] \in {"off", "running"} /\ gc[r] = "off" /\ ha[r] = "off"
    /\ Gone(r)

Kill(r) == pod[r] # "down" /\ Gone(r)

-----------------------------------------------------------------------------
(* The manager and the Lease *)

Acquire(r) ==
    /\ manager[r] = "standby" /\ config.mode = "builtin" /\ lease = None
    /\ lease' = r
    /\ manager' = [manager EXCEPT ![r] = "leading"] /\ elected' = [elected EXCEPT ![r] = TRUE]
    /\ UNCHANGED <<config, pod, services>>

(* The holder does not renew any more. *)
Expire ==
    /\ lease # None /\ manager[lease] # "leading"
    /\ lease' = None
    /\ UNCHANGED <<config, pod, manager, elected, services>>

(* The Lease could not be renewed: Start returns an error, which main      *)
(* logs.  The channel stays closed and the process goes on.                *)
LoseLease(r) ==
    /\ manager[r] = "leading"
    /\ manager' = [manager EXCEPT ![r] = "ended"]
    /\ UNCHANGED <<config, pod, lease, elected, services>>

-----------------------------------------------------------------------------
(* The services that wait for leader election *)

Unconditionally(r) ==
    /\ orch[r] = "waiting"
    /\ orch' = [orch EXCEPT ![r] = "reloading"]
    /\ UNCHANGED <<config, pod, lease, manager, elected, cm, gc, ha>>

StartOrchestrator(r) ==
    /\ orch[r] = "waiting" /\ elected[r]
    /\ orch' = [orch EXCEPT ![r] = "reloading"]
    /\ UNCHANGED <<config, pod, lease, manager, elected, cm, gc, ha>>

(* The first reloadAdapters, which waits for the caches with a context     *)
(* that nobody cancels.                                                    *)
Reloaded(r) ==
    /\ orch[r] = "reloading"
    /\ orch' = [orch EXCEPT ![r] = IF config.absent THEN "stuck" ELSE "running"]
    /\ UNCHANGED <<config, pod, lease, manager, elected, cm, gc, ha>>

StartGC(r) ==
    /\ gc[r] = "waiting" /\ elected[r]
    /\ gc' = [gc EXCEPT ![r] = "running"]
    /\ UNCHANGED <<config, pod, lease, manager, elected, cm, orch, ha>>

(* UpdateMetrics of the coordinator, if there is one, takes metricsMu and  *)
(* calls calculateLoad, which takes it again.                              *)
UpdateMetrics == IF config.ha = "scaling" THEN "locked" ELSE "ticking"

(* updateHAMetrics: first the coordinator, then the balancer and the       *)
(* server's status, whose locks are free.                                  *)
UpdateHAMetrics(r) ==
    /\ ha[r] = "ticking"
    /\ ha' = [ha EXCEPT ![r] = UpdateMetrics]
    /\ UNCHANGED <<config, pod, lease, manager, elected, cm, orch, gc>>

(* The context is cancelled: each goroutine sees it by itself. *)
ManagerEnds(r) ==
    /\ pod[r] = "draining" /\ manager[r] \in {"standby", "leading"}
    /\ manager' = [manager EXCEPT ![r] = "ended"]
    /\ UNCHANGED <<config, pod, lease, elected, services>>

OrchestratorEnds(r) ==
    /\ pod[r] = "draining" /\ orch[r] = "waiting"
    /\ orch' = [orch EXCEPT ![r] = "off"]
    /\ UNCHANGED <<config, pod, lease, manager, elected, cm, gc, ha>>

OnlyWhenElected(r) ==
    /\ pod[r] = "draining" /\ gc[r] = "running"
    /\ gc' = [gc EXCEPT ![r] = "off"]
    /\ UNCHANGED <<config, pod, lease, manager, elected, cm, orch, ha>>

GCEnds(r) ==
    /\ pod[r] = "draining" /\ gc[r] \in {"waiting", "running"}
    /\ gc' = [gc EXCEPT ![r] = "off"]
    /\ UNCHANGED <<config, pod, lease, manager, elected, cm, orch, ha>>

HAEnds(r) ==
    /\ pod[r] = "draining" /\ ha[r] = "ticking"
    /\ ha' = [ha EXCEPT ![r] = "off"]
    /\ UNCHANGED <<config, pod, lease, manager, elected, cm, orch, gc>>

-----------------------------------------------------------------------------

Main(r) == Refuse(r) \/ StartManager(r) \/ StartServices(r) \/ Exit(r)
Orchestrator(r) == StartOrchestrator(r) \/ Reloaded(r) \/ OrchestratorEnds(r)
Collector(r) == StartGC(r) \/ GCEnds(r)

Next ==
    \/ Expire
    \/ \E r \in Replicas :
          \/ StartProcess(r) \/ Main(r) \/ Terminate(r) \/ Kill(r)
          \/ LoadInitialConfig(r) \/ Acquire(r) \/ LoseLease(r) \/ ManagerEnds(r)
          \/ Orchestrator(r) \/ Collector(r) \/ UpdateHAMetrics(r) \/ HAEnds(r)

(* The goroutines of a process that is not killed run, and the manager     *)
(* that stands by gets a free Lease.                                       *)
Spec ==
    /\ Init /\ [][Next]_vars
    /\ WF_vars(Expire)
    /\ \A r \in Replicas :
          /\ WF_vars(Main(r)) /\ WF_vars(LoadInitialConfig(r))
          /\ SF_vars(Acquire(r)) /\ WF_vars(ManagerEnds(r))
          /\ WF_vars(Orchestrator(r)) /\ WF_vars(Collector(r)) /\ WF_vars(HAEnds(r))

-----------------------------------------------------------------------------

(* The replica watches the sources, or deletes Observations. *)
Active(r) == orch[r] \in {"reloading", "stuck", "running"} \/ gc[r] = "running"

(* Leader election is disabled, and the replicas are told that they are    *)
(* one: what EnforceSafeHA sees, REPLICA_COUNT, is 1 unless it is set.     *)
Unguarded == config.mode = "disabled" /\ config.count = 1

(* Whatever crashes, restarts and takeovers there are, at most one of the  *)
(* replicas that neither shut down nor lost the Lease watches the sources  *)
(* or collects garbage (startGenericOrchestrator, startGarbageCollector),  *)
(* unless nothing guards them.                                             *)
SingleActive ==
    ~Unguarded => \A r, s \in Replicas :
        /\ Active(r) /\ pod[r] = "serving" /\ manager[r] # "ended"
        /\ Active(s) /\ pod[s] = "serving" /\ manager[s] # "ended"
        => r = s

(* "Automatic Failover": while a replica stands by, some replica comes to  *)
(* watch the sources, however often the leader crashes (main); if it is    *)
(* the replica itself it leads and starts its services, unless it ends     *)
(* first.  A replica whose ConfigManager waits for itself is excepted: it  *)
(* may have the Lease and never start its services.                        *)
Failover ==
    \A r \in Replicas :
        (manager[r] = "standby" /\ config.mode = "builtin")
            ~> \/ manager[r] \in {"off", "ended"}
               \/ \E s \in Replicas : Active(s) \/ cm[s] = "stuck"

(* A process that is told to shut down exits (wg.Wait in main), unless the *)
(* HA loop or the ConfigManager is locked out by its own lock, or the      *)
(* first reload never ends.                                                *)
ShutdownCompletes ==
    \A r \in Replicas :
        pod[r] = "draining" ~> \/ pod[r] # "draining" \/ ha[r] = "locked"
                               \/ orch[r] = "stuck" \/ cm[r] = "stuck"

(* "Only leader processes informer-driven sources" (LEADER_ELECTION.md:86).*)
OnlyLeader == \A r, s \in Replicas : Active(r) /\ Active(s) => r = s
=============================================================================
