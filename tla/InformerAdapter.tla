--------------------------- MODULE InformerAdapter ---------------------------
(***************************************************************************)
(* The informer adapter (pkg/adapter/generic/informer_adapter.go) on the   *)
(* shared informers of the manager (internal/informers/manager.go).        *)
(* Adapters are started one after the other by the orchestrator; those     *)
(* that watch the same resource share an informer unless one of them asks  *)
(* for a resync period of its own.  An adapter gets the changes of the     *)
(* informer through its handlers, and what the cache holds when Start      *)
(* returns through a goroutine of its own; both send to one channel.       *)
(*                                                                         *)
(* client-go is external: an informer lists the resource, then applies the *)
(* changes one by one, or lists again after a lost watch, and gives every  *)
(* handler a queue of its own.  A version is the position of a change in   *)
(* the history of the cluster; 0 stands for "absent".                      *)
(***************************************************************************)
EXTENDS Naturals, Sequences, FiniteSetsExt

CONSTANTS
    Adapters, Objects,
    Configs,        \* sets of adapters that may have a resync period
    Capacity,       \* buffer of an events channel (100)
    MaxChanges(_),  \* bound: changes of the resource, in a configuration
    MaxResyncs      \* bound: periodic resyncs

ASSUME ConfigsAssumption == Configs \subseteq SUBSET Adapters
ASSUME ObjectsAssumption == Cardinality(Objects) \in Nat

VARIABLES
    custom,     \* the adapters with a resync period of their own
    history,    \* the changes of the resource: [obj, version]
    resyncs,    \* how many resyncs happened
    informers,  \* the informers of the two factories
    phase,      \* where Start and Stop of an adapter are
    listed,     \* the goroutine of Start has listed the store
    handlers,   \* the queue in front of an adapter's handlers
    existing,   \* what the goroutine of Start has yet to send
    events,     \* an adapter's events channel
    view,       \* what the handlers' events that were read say of an object
    up          \* the process runs

cluster == <<custom, history, resyncs>>
channels == <<handlers, existing, events, view>>
vars == <<custom, history, resyncs, informers, phase, listed, handlers, existing, events, view, up>>

(* The state of an object after n changes. *)
At(n, o) ==
    LET mine == {k \in 1 .. n : history[k].obj = o}
    IN  IF mine = {} THEN 0 ELSE history[Max(mine)].version

Factories == {"default", "custom"}

Init ==
    /\ custom \in Configs
    /\ history \in [{1} -> {[obj |-> o, version |-> 1] : o \in Objects}] \cup {<<>>}
    /\ resyncs = 0
    /\ informers = [f \in Factories |->
                      [synced |-> FALSE, pos |-> 0, store |-> [o \in Objects |-> 0],
                       listeners |-> {}]]
    /\ phase = [a \in Adapters |-> "new"] /\ listed = [a \in Adapters |-> FALSE]
    /\ handlers = [a \in Adapters |-> <<>>] /\ existing = [a \in Adapters |-> {}]
    /\ events = [a \in Adapters |-> <<>>]
    /\ view = [a \in Adapters |-> [o \in Objects |-> 0]]
    /\ up = TRUE

-----------------------------------------------------------------------------
(* The cluster and client-go *)

(* An object is created or updated (version > 0), or deleted. *)
Change(o) ==
    LET n == Len(history) + 1 IN
    /\ n <= MaxChanges(custom)
    /\ \/ history' = Append(history, [obj |-> o, version |-> n])
       \/ /\ At(Len(history), o) # 0
          /\ history' = Append(history, [obj |-> o, version |-> 0])
    /\ UNCHANGED <<custom, resyncs, informers, phase, listed, channels, up>>

(* The notifications that bring a handler to what a store says of the      *)
(* objects O, in any order.                                                *)
Notes(store, O) ==
    LET notes == {[obj |-> o, version |-> store[o], existing |-> FALSE] : o \in O}
    IN  UNION {Bijection(1 .. n, notes) : n \in 0 .. Cardinality(Objects)}

Distribute(f, store, O) ==
    \E notes \in Notes(store, O) :
        handlers' = [a \in Adapters |->
                       IF a \in informers[f].listeners THEN handlers[a] \o notes ELSE handlers[a]]

(* The informer moves on to the n-th change and tells its listeners. *)
Advance(f, n) ==
    LET from == informers[f].store
        to == [o \in Objects |-> At(n, o)]
    IN  /\ informers' = [informers EXCEPT ![f].store = to, ![f].pos = n, ![f].synced = TRUE]
        /\ Distribute(f, to, {o \in Objects : from[o] # to[o]})
        /\ UNCHANGED <<custom, history, resyncs, phase, listed, existing, events, view, up>>

(* The first list of a started informer, and a list after a lost watch. *)
List(f) ==
    /\ up /\ informers[f].listeners # {}
    /\ ~informers[f].synced \/ informers[f].pos < Len(history)
    /\ Advance(f, Len(history))

Watch(f) ==
    /\ up /\ informers[f].synced /\ informers[f].pos < Len(history)
    /\ Advance(f, informers[f].pos + 1)

(* A resync repeats what is in the store, as updates. *)
Resync ==
    /\ up /\ informers["custom"].synced /\ resyncs < MaxResyncs
    /\ resyncs' = resyncs + 1
    /\ LET s == informers["custom"].store
       IN  Distribute("custom", s, {o \in Objects : s[o] # 0})
    /\ UNCHANGED <<custom, history, informers, phase, listed, existing, events, view, up>>

-----------------------------------------------------------------------------
(* Start *)

(* GetInformer: a factory for the resource with its own resync period, or  *)
(* the default one.                                                        *)
GetInformer(a) == IF a \in custom THEN "custom" ELSE "default"

(* Start up to the wait: the handlers are added, which are told what the   *)
(* store of a running informer holds, and the factories are started.       *)
Start(a) ==
    LET f == GetInformer(a)
        s == informers[f].store
    IN
    /\ up /\ phase[a] = "new" /\ \A b \in Adapters : phase[b] # "waiting"
    /\ phase' = [phase EXCEPT ![a] = "waiting"]
    /\ informers' = [informers EXCEPT ![f].listeners = @ \cup {a}]
    /\ \E notes \in Notes(s, {o \in Objects : s[o] # 0}) :
          handlers' = [handlers EXCEPT ![a] = notes]
    /\ UNCHANGED <<cluster, listed, existing, events, view, up>>

(* WaitForCacheSync: every informer of every factory. *)
WaitForCacheSync ==
    \A f \in Factories : informers[f].listeners # {} => informers[f].synced

(* Start returns. *)
Started(a) ==
    /\ up /\ phase[a] = "waiting" /\ WaitForCacheSync
    /\ phase' = [phase EXCEPT ![a] = "running"]
    /\ UNCHANGED <<cluster, informers, listed, channels, up>>

(* The goroutine of Start lists the store ... *)
ListExisting(a) ==
    LET s == informers[GetInformer(a)].store IN
    /\ up /\ phase[a] \in {"running", "stopped"} /\ ~listed[a]
    /\ listed' = [listed EXCEPT ![a] = TRUE]
    /\ existing' = [existing EXCEPT
                      ![a] = {[obj |-> o, version |-> s[o], existing |-> TRUE] :
                                o \in {x \in Objects : s[x] # 0}}]
    /\ UNCHANGED <<cluster, informers, phase, handlers, events, view, up>>

Room(a) == phase[a] # "stopped" /\ Len(events[a]) < Capacity

(* ... and sends an event for each of what it holds. *)
SendExisting(a) ==
    /\ up /\ Room(a)
    /\ \E e \in existing[a] :
          /\ events' = [events EXCEPT ![a] = Append(@, e)]
          /\ existing' = [existing EXCEPT ![a] = @ \ {e}]
    /\ UNCHANGED <<cluster, informers, phase, listed, handlers, view, up>>

-----------------------------------------------------------------------------
(* createEventHandlers: AddFunc, UpdateFunc and DeleteFunc *)

DropWhenFull(a) ==
    /\ up /\ handlers[a] # <<>> /\ phase[a] # "stopped"
    /\ events' = IF Room(a) THEN [events EXCEPT ![a] = Append(@, Head(handlers[a]))] ELSE events
    /\ handlers' = [handlers EXCEPT ![a] = Tail(@)]
    /\ UNCHANGED <<cluster, informers, phase, listed, existing, view, up>>

(* The handler waits for room in the channel, and nothing else is handled. *)
Handle(a) ==
    /\ up /\ handlers[a] # <<>> /\ Room(a)
    /\ events' = [events EXCEPT ![a] = Append(@, Head(handlers[a]))]
    /\ handlers' = [handlers EXCEPT ![a] = Tail(@)]
    /\ UNCHANGED <<cluster, informers, phase, listed, existing, view, up>>

(* After Stop the handlers are still registered: the channel is closed. *)
SendPanics(a) ==
    /\ up /\ phase[a] = "stopped" /\ (handlers[a] # <<>> \/ existing[a] # {})
    /\ up' = FALSE
    /\ UNCHANGED <<cluster, informers, phase, listed, handlers, existing, events, view>>

-----------------------------------------------------------------------------

(* Stop closes stopCh and the channel.  A goroutine that still sends what  *)
(* exists sees one or the other.                                           *)
Stop(a) ==
    /\ up /\ phase[a] = "running"
    /\ phase' = [phase EXCEPT ![a] = "stopped"]
    /\ UNCHANGED <<cluster, informers, listed, channels, up>>

SeesStop(a) ==
    /\ up /\ phase[a] = "stopped" /\ existing[a] # {}
    /\ existing' = [existing EXCEPT ![a] = {}]
    /\ UNCHANGED <<cluster, informers, phase, listed, handlers, events, view, up>>

(* processEvents of the orchestrator *)
ReadEvent(a) ==
    /\ up /\ phase[a] \in {"running", "stopped"} /\ events[a] # <<>>
    /\ LET e == Head(events[a]) IN
       view' = IF e.existing THEN view ELSE [view EXCEPT ![a][e.obj] = e.version]
    /\ events' = [events EXCEPT ![a] = Tail(@)]
    /\ UNCHANGED <<cluster, informers, phase, listed, handlers, existing, up>>


Next ==
    \/ Resync
    \/ \E o \in Objects : Change(o)
    \/ \E f \in Factories : List(f) \/ Watch(f)
    \/ \E a \in Adapters :
          \/ Start(a) \/ Started(a) \/ ListExisting(a) \/ SendExisting(a)
          \/ Handle(a) \/ SendPanics(a) \/ Stop(a) \/ SeesStop(a) \/ ReadEvent(a)

-----------------------------------------------------------------------------

(* What a reader that took the state of o to be v takes it to be after the *)
(* events of q, if it goes by what the handlers sent.                      *)
After(q, o, v) ==
    LET mine == {k \in DOMAIN q : q[k].obj = o /\ ~q[k].existing}
    IN  IF mine = {} THEN v ELSE q[Max(mine)].version

(* What the reader of a knows of o once it has read all that is on its way. *)
WillKnow(a, o) == After(events[a] \o handlers[a], o, view[a][o])

(* No change is lost between the informer and the reader, and none comes   *)
(* out of order: whatever another adapter, the first listing, a lost watch *)
(* or a full channel does, the events on their way take the reader to what *)
(* the store of the informer holds (createEventHandlers, Start).           *)
NothingMissed ==
    \A a \in Adapters : \A o \in Objects :
        phase[a] # "new" => WillKnow(a, o) = informers[GetInformer(a)].store[o]

(* "informer handlers only fire for NEW events" (informer_adapter.go:129): *)
(* what the goroutine of Start reports no handler has reported.            *)
ExistingOnce ==
    \A a \in Adapters : \A e \in existing[a] : view[a][e.obj] # e.version
=============================================================================
