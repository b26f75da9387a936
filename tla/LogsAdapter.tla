---------------------------- MODULE LogsAdapter ----------------------------
(***************************************************************************)
(* The logs adapter (pkg/adapter/generic/logs_adapter.go): watchPods lists *)
(* the pods at every tick, starts a goroutine that follows the log of each *)
(* running pod, and cancels those of pods that are gone; each goroutine    *)
(* sends an event for every pattern that a line matches.  Stop may come    *)
(* between any two steps, and a send on the closed channel ends the whole  *)
(* process.                                                                *)
(*                                                                         *)
(* The context handed to Start is the orchestrator's own, which the        *)
(* program never cancels.  Lines that match no pattern leave no trace.     *)
(***************************************************************************)
EXTENDS Naturals

CONSTANTS
    Pods,
    Capacity,    \* buffer of the events channel (100)
    MaxStreams,  \* bound: goroutines that stream at a time
    None

VARIABLES
    running,   \* the pods that are in phase Running
    loop,      \* where watchPods is
    active,    \* activePods, from the last listing
    todo,      \* listed pods not yet done with
    absent,    \* the pod that was just looked up and has no entry, if any
    watchers,  \* a.watchers: pod -> its stream, 0 if it has no entry
    streams,   \* the goroutines that run streamPodLogs
    events,    \* how many events are in the channel
    closed,    \* the channel is closed
    stopped,   \* Stop was called
    up         \* the process runs

watcher == <<loop, active, todo, absent>>
channel == <<events, closed>>
vars == <<running, loop, active, todo, absent, watchers, streams,
          events, closed, stopped, up>>

Streams == 1 .. MaxStreams
Stream == [pod : Pods \cup {None}, cancelled : BOOLEAN, pc : {"open", "scan", "send", "ended"}]

TypeOK ==
    /\ running \subseteq Pods /\ active \subseteq Pods /\ todo \subseteq active
    /\ absent \subseteq todo
    /\ loop \in {"tick", "pods"}
    /\ watchers \in [Pods -> Streams \cup {0}]
    /\ streams \in [Streams -> Stream]
    /\ events \in Nat /\ closed \in BOOLEAN /\ stopped \in BOOLEAN /\ up \in BOOLEAN

Finished == [pod |-> None, cancelled |-> FALSE, pc |-> "ended"]

Init ==
    /\ running \in SUBSET Pods
    /\ loop = "tick" /\ active = {} /\ todo = {} /\ absent = {}
    /\ watchers = [p \in Pods |-> 0]
    /\ streams = [i \in Streams |-> Finished]
    /\ events = 0 /\ closed = FALSE /\ stopped = FALSE /\ up = TRUE

-----------------------------------------------------------------------------
(* The cluster: a pod starts running, or ends, or is deleted. *)

PodChanges(p) ==
    /\ running' = IF p \in running THEN running \ {p} ELSE running \cup {p}
    /\ UNCHANGED <<watcher, watchers, streams, channel, stopped, up>>

-----------------------------------------------------------------------------
(* watchPods *)

(* The listing.  If it fails the loop waits for the next tick. *)
ListPods ==
    /\ up /\ loop = "tick"
    /\ active' = running /\ todo' = running
    /\ loop' = "pods"
    /\ UNCHANGED <<running, absent, watchers, streams, channel, stopped, up>>

(* A goroutine that follows the log of p, registered under p. *)
Follow(p) ==
    LET free == {i \in Streams : streams[i].pc = "ended" /\ \A q \in Pods : watchers[q] # i}
        i == CHOOSE j \in free : TRUE
    IN  /\ free # {}
        /\ streams' = [streams EXCEPT ![i] = [pod |-> p, cancelled |-> FALSE, pc |-> "open"]]
        /\ watchers' = [watchers EXCEPT ![p] = i]

NeverExists(p) ==
    /\ up /\ loop = "pods" /\ absent = {} /\ p \in todo
    /\ absent' = {p} /\ UNCHANGED todo
    /\ UNCHANGED <<running, loop, active, watchers, streams, channel, stopped, up>>

(* A listed pod is looked up in the map, under the read lock. *)
LookUp(p) ==
    /\ up /\ loop = "pods" /\ absent = {} /\ p \in todo
    /\ \/ watchers[p] # 0 /\ todo' = todo \ {p} /\ UNCHANGED absent
       \/ watchers[p] = 0 /\ absent' = {p} /\ UNCHANGED todo
    /\ UNCHANGED <<running, loop, active, watchers, streams, channel, stopped, up>>

(* It had no entry: it gets one, under the write lock, and a goroutine. *)
StartStream(p) ==
    /\ up /\ p \in absent
    /\ todo' = todo \ {p} /\ absent' = {}
    /\ Follow(p)
    /\ UNCHANGED <<running, loop, active, channel, stopped, up>>

(* The streams of the pods in P are cancelled, in the map and as goroutines. *)
Cancelled(P) ==
    [i \in Streams |->
        IF streams[i].pc # "ended" /\ \E p \in P : watchers[p] = i
        THEN [streams[i] EXCEPT !.cancelled = TRUE]
        ELSE streams[i]]
Forgotten(P) == [p \in Pods |-> IF p \in P THEN 0 ELSE watchers[p]]

SweepNothing ==
    /\ up /\ loop = "pods" /\ todo = {}
    /\ loop' = "tick" /\ active' = {}
    /\ UNCHANGED <<running, watchers, todo, absent, streams, channel, stopped, up>>

(* The streams of pods that the listing does not show are cancelled. *)
Sweep ==
    /\ up /\ loop = "pods" /\ todo = {}
    /\ streams' = Cancelled(Pods \ active)
    /\ watchers' = Forgotten(Pods \ active)
    /\ loop' = "tick" /\ active' = {}
    /\ UNCHANGED <<running, todo, absent, channel, stopped, up>>

-----------------------------------------------------------------------------
(* streamPodLogs *)

Goto(i, pc) == streams' = [streams EXCEPT ![i].pc = pc]
End(i) == streams' = [streams EXCEPT ![i] = Finished]

(* The request for the log is answered, or fails and the goroutine ends. *)
OpenStream(i) ==
    /\ up /\ streams[i].pc = "open"
    /\ \/ ~streams[i].cancelled /\ Goto(i, "scan")
       \/ End(i)
    /\ UNCHANGED <<running, watcher, watchers, channel, stopped, up>>

(* A line that matches a pattern. *)
ReadLine(i) ==
    /\ up /\ streams[i].pc = "scan" /\ ~streams[i].cancelled
    /\ Goto(i, "send")
    /\ UNCHANGED <<running, watcher, watchers, channel, stopped, up>>

(* The log ends: the pod is gone, its container is restarted, the          *)
(* connection breaks or the context is cancelled.                          *)
EndOfLog(i) ==
    /\ up /\ streams[i].pc = "scan"
    /\ End(i)
    /\ UNCHANGED <<running, watcher, watchers, channel, stopped, up>>

(* The event goes into the channel; another pattern matches, or not. *)
SendEvent(i) ==
    /\ up /\ streams[i].pc = "send" /\ ~closed /\ events < Capacity
    /\ events' = events + 1
    /\ Goto(i, "scan") \/ Goto(i, "send")
    /\ UNCHANGED <<running, watcher, watchers, closed, stopped, up>>

(* select takes the case of the cancelled context. *)
GiveUp(i) ==
    /\ up /\ streams[i].pc = "send" /\ streams[i].cancelled
    /\ End(i)
    /\ UNCHANGED <<running, watcher, watchers, channel, stopped, up>>

(* select takes the case of the send, and the channel is closed. *)
SendPanics(i) ==
    /\ up /\ streams[i].pc = "send" /\ closed
    /\ up' = FALSE
    /\ UNCHANGED <<running, watcher, watchers, streams, channel, stopped>>

-----------------------------------------------------------------------------

(* Stop: cancels the streams, empties the map, and closes the channel if a *)
(* receive would block; if it does not block, an event is lost.            *)
Stop ==
    /\ up /\ ~stopped
    /\ stopped' = TRUE
    /\ streams' = Cancelled(Pods)
    /\ watchers' = Forgotten(Pods)
    /\ \/ events = 0 /\ closed' = TRUE /\ UNCHANGED events
       \/ events > 0 /\ events' = events - 1 /\ UNCHANGED closed
    /\ UNCHANGED <<running, watcher, up>>

(* processEvents of the orchestrator *)
ReadEvent ==
    /\ up /\ events > 0
    /\ events' = events - 1
    /\ UNCHANGED <<running, watcher, watchers, streams, closed, stopped, up>>

(* A goroutine ends because its context is cancelled. *)
SeesCancel(i) == streams[i].cancelled /\ (OpenStream(i) \/ EndOfLog(i) \/ GiveUp(i))

Watch == ListPods \/ Sweep \/ \E p \in Pods : LookUp(p) \/ StartStream(p)

Next ==
    \/ Watch \/ Stop \/ ReadEvent
    \/ \E p \in Pods : PodChanges(p)
    \/ \E i \in Streams :
          OpenStream(i) \/ ReadLine(i) \/ EndOfLog(i) \/ SendEvent(i) \/ GiveUp(i) \/ SendPanics(i)

Spec == Init /\ [][Next]_vars

-----------------------------------------------------------------------------

(* Following(i): the stream is not cancelled and has not ended. *)
Following(i) == ~streams[i].cancelled /\ streams[i].pc # "ended"

(* The streams that follow a log are the ones the map can cancel: at most  *)
(* one for each pod, and no goroutine is out of reach of the sweep and of  *)
(* Stop, although the map is read under one lock and written under another *)
(* and Stop may come between (watchPods, Stop).                            *)
OneStreamPerPod ==
    \A i \in Streams : Following(i) => watchers[streams[i].pod] = i

(* The log of a pod that is gone is let go, unless the pod is back first   *)
(* (the second half of watchPods).                                         *)
GoneUnwatched ==
    \A p \in Pods :
        p \notin running ~> \/ p \in running
                            \/ \A i \in Streams : streams[i].pod = p => ~Following(i)
                            \/ ~up

=============================================================================
