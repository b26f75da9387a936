---------------------------- MODULE MCAdapters ----------------------------
(***************************************************************************)
(* Bounded instances of the informer adapter and of the logs adapter.  The *)
(* two share no state but the process, which goes down as a whole, so they *)
(* are explored one at a time instead of in all their combinations: kind   *)
(* says which of them a behaviour runs, and the other stays as it was.     *)
(***************************************************************************)
EXTENDS InformerAdapter

CONSTANTS Pods, MaxStreams, None

VARIABLES kind, running, loop, active, todo, absent, watchers, streams, buffered, closed, stopped

Logs == INSTANCE LogsAdapter WITH events <- buffered

logsVars == <<running, loop, active, todo, absent, watchers, streams, buffered, closed, stopped>>
informerVars == <<custom, history, resyncs, informers, phase, listed, handlers, existing, events,
                  view>>
allVars == <<kind, logsVars, informerVars, up>>

CONSTANTS a1, a2

(* The two adapters share the default informer, or one has its own. *)
MCConfigs == {{}, {a2}}
MCMaxChanges(C) == IF C = {} THEN 3 ELSE 2

MCInit ==
    /\ Init /\ Logs!Init
    /\ kind \in {"informer", "logs"}
    /\ kind # "informer" => history = <<>> /\ custom = {}
    /\ kind # "logs" => running = {}

Informer(A) == kind = "informer" /\ A /\ UNCHANGED <<kind, logsVars>>
LogsOnly(A) == kind = "logs" /\ A /\ UNCHANGED <<kind, informerVars>>

MCNext == Informer(Next) \/ LogsOnly(Logs!Next)

(* The ticker of watchPods fires for ever, not every listing fails, and a  *)
(* goroutine whose context is cancelled gets to see it.                    *)
Spec ==
    /\ MCInit /\ [][MCNext]_allVars
    /\ WF_allVars(LogsOnly(Logs!Watch))
    /\ \A i \in Logs!Streams : WF_allVars(LogsOnly(Logs!SeesCancel(i)))

(* The logs adapter's watchPods and Stop: a log is followed by one         *)
(* goroutine at most, the one that the map of watchers can cancel.         *)
OneStreamPerPod == Logs!OneStreamPerPod

(* The logs adapter's watchPods: the log of a pod that is gone is let go.  *)
GoneUnwatched == Logs!GoneUnwatched
=============================================================================
