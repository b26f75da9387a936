---------------------------- MODULE MCDeployment ----------------------------
(***************************************************************************)
(* Bounded instances of Deployment and of two parts of the process that it *)
(* leaves out or abstracts: the runtime configuration and the worker pool. *)
(* Two replicas are told that they are two, or, by default, that they are  *)
(* one.  HA is off, balances or scales; in one configuration an Ingester   *)
(* asks for a resource that the cluster does not serve and there is a base *)
(* ConfigMap.                                                              *)
(*                                                                         *)
(* Deployment says of the ConfigManager only whether it comes back, and    *)
(* WorkerPool lets handleConfigChange come at any time, so the three are   *)
(* explored one at a time instead of in all their combinations: kind says  *)
(* which of them a behaviour runs, and the others stay as they were.       *)
(* MCRuntimeConfig and MCWorkerPool add the fairness of the two parts.     *)
(***************************************************************************)
EXTENDS Deployment

CONSTANTS Features, Filters, AllowAll, Defaults, Initial, Editable, MaxEdits, Bad,
          Items, Workers, InitialSize, Sizes, MaxUpdates

VARIABLES kind, store, edits, queue, watching, base, env, final, mu, pc, arg, cfg, old, filter,
          loading, reloads, lastGood, ready,
          updates, sizes, queues, closed, worker, drain, stop, caller, pool, shut, launcher,
          done, dropped, up

Config == INSTANCE RuntimeConfig
Pool == INSTANCE WorkerPool

ASSUME LockAssumption == None \notin Config!Threads
ASSUME ItemsAssumption == None \notin Items
ASSUME UpdatesAssumption == MaxUpdates \in Nat

configVars == <<store, edits, queue, watching, base, env, final, mu, pc, arg, cfg, old, filter,
                loading, reloads, lastGood, ready>>
poolVars == <<updates, sizes, queues, closed, worker, drain, stop, caller, pool, shut, launcher,
              done, dropped, up>>
allVars == <<kind, vars, configVars, poolVars>>

Flags(m, n, h, a, f) ==
    [mode |-> m, count |-> n, ha |-> h, absent |-> a, features |-> f]

MCConfigs == {Flags("builtin", 1, "off", TRUE, TRUE), Flags("builtin", 2, "balancing", FALSE, FALSE),
              Flags("builtin", 2, "scaling", FALSE, FALSE),
              Flags("disabled", 1, "off", FALSE, FALSE), Flags("disabled", 2, "off", FALSE, FALSE)}

CONSTANTS f1, f2

MCDefaults == [enabled |-> TRUE, excluded |-> "system"]
MCFeatures == {[excluded |-> "more"]}
MCFilters == {f1, f2}
AtStart == {"env", "filter"}
Edited == {"base", "filter"}

MCInit ==
    /\ Init /\ Config!Init /\ Pool!Init
    /\ kind \in {"replicas", "config", "pool"}
    /\ kind # "replicas" => config.mode = "disabled" /\ config.count = 2
    /\ kind # "config" => \A n \in Config!Names : store[n] \in {None, Bad}

Replica(A) == kind = "replicas" /\ A
ConfigOnly(A) == kind = "config" /\ A /\ UNCHANGED <<vars, poolVars>>
PoolOnly(A) == kind = "pool" /\ A /\ UNCHANGED <<vars, configVars>>

MCNext ==
    /\ \/ Replica(Next) /\ UNCHANGED <<configVars, poolVars>>
       \/ ConfigOnly(Config!Next)
       \/ PoolOnly(Pool!Next)
    /\ UNCHANGED kind

(* The fairness of Deployment, see there. *)
MCSpec ==
    /\ MCInit /\ [][MCNext]_allVars
    /\ WF_vars(Replica(Expire))
    /\ \A r \in Replicas :
          /\ WF_vars(Replica(Main(r))) /\ WF_vars(Replica(LoadInitialConfig(r)))
          /\ SF_vars(Replica(Acquire(r))) /\ WF_vars(Replica(ManagerEnds(r)))
          /\ WF_vars(Replica(Orchestrator(r))) /\ WF_vars(Replica(Collector(r)))
          /\ WF_vars(Replica(HAEnds(r)))

(* handleConfigChange and the ConfigMapLoader: once the loader has loaded  *)
(* the filter ConfigMap, older source rules are never put back.            *)
SourcesCurrent == Config!SourcesCurrent

(* The pool's UpdateConfig and worker: an event is in one place only.      *)
OnePlace == Pool!OnePlace
=============================================================================
