----------------------------- MODULE WorkerPool -----------------------------
(***************************************************************************)
(* The worker pool (pkg/dispatcher/worker_pool.go), the AdapterLauncher    *)
(* that hands it the events of source adapters, and handleConfigChange,    *)
(* which reconfigures it.  The launcher, the workers, the goroutines that  *)
(* move a queue's items after a resize, and the goroutines that run        *)
(* handleConfigChange (main, then the ConfigManager) share workQueue and   *)
(* the launcher's fields without a lock.                                   *)
(*                                                                         *)
(* A channel expression is evaluated when a select is entered: who waits   *)
(* on a queue waits on that queue, also after workQueue has been replaced. *)
(* config.Enabled is TRUE from NewWorkerPool on, since handleConfigChange  *)
(* disables the pool by Stop, so of UpdateConfig only the part below the   *)
(* two early returns is reached, and IsRunning is TRUE.                    *)
(***************************************************************************)
EXTENDS Naturals, Sequences, FiniteSets

CONSTANTS
    Items,       \* events of source adapters
    Workers,     \* as many as NewWorkerPool was told
    InitialSize, \* the queue size NewWorkerPool was told
    Sizes,       \* queue sizes of later configurations
    MaxUpdates,  \* bound: configurations applied
    None

ASSUME SizesAssumption == Sizes \cup {InitialSize} \subseteq Nat \ {0}
ASSUME NoneAssumption == None \notin Items
ASSUME UpdatesAssumption == MaxUpdates \in Nat

VARIABLES
    updates,  \* how many configurations were applied
    sizes,    \* the capacities of the queues made so far; the last is workQueue
    queues,   \* their contents; None stands for a nil work item
    closed,   \* the queues that are closed
    worker,   \* the workers: pc, the queue waited on, the item in hand
    drain,    \* the goroutine that drains an old queue
    stop,     \* stopOnce: "no", "waiting", "done"
    caller,   \* where a run of handleConfigChange is
    pool,     \* SetWorkerPool: the launcher uses the pool
    shut,     \* the context that main hands to the launcher is cancelled
    launcher, \* pc of the launcher, the event in hand, the queue to send to
    done,     \* events turned into observations, or failed
    dropped,  \* items dropped, with a warning, by a drain or at shutdown
    up        \* the process runs

queueVars == <<sizes, queues, closed>>
outcome == <<done, dropped>>
vars == <<updates, sizes, queues, closed, worker, drain, stop, caller, pool, shut,
          launcher, done, dropped, up>>

Callers == {"main", "manager"}  \* who runs handleConfigChange
Queues == 1 .. (MaxUpdates + 1)
workQueue == Len(sizes)
Full(q) == Len(queues[q]) >= sizes[q]
Elements(q) == {queues[q][k] : k \in DOMAIN queues[q]}

Init ==
    /\ updates = 0
    /\ sizes = <<InitialSize>>
    /\ queues = [q \in Queues |-> <<>>] /\ closed = {}
    /\ worker = [w \in Workers |-> [pc |-> "off", queue |-> 0, item |-> None]]
    /\ drain = [q \in Queues |-> [pc |-> "off", item |-> None]]
    /\ stop = "no" /\ caller = [c \in Callers |-> "idle"] /\ pool = FALSE
    /\ shut = FALSE
    /\ launcher = [pc |-> "off", item |-> None, queue |-> 0]
    /\ done = {} /\ dropped = {} /\ up = TRUE

Crash == up' = FALSE

(* main applies one configuration, the ConfigManager every later one. *)
Returns(c) == caller' = [caller EXCEPT ![c] = IF c = "main" THEN "done" ELSE "idle"]

-----------------------------------------------------------------------------
(* handleConfigChange *)

(* UpdateConfig: workers keep their number; a new queue size makes a new   *)
(* queue and a goroutine that drains the old one.                          *)
Enable(c) ==
    /\ up /\ caller[c] = "idle" /\ updates < MaxUpdates
    /\ updates' = updates + 1
    /\ caller' = [caller EXCEPT ![c] = "set"]
    /\ \E n \in Sizes \cup {InitialSize} :
          IF n = sizes[workQueue] THEN UNCHANGED <<sizes, drain>>
          ELSE /\ sizes' = Append(sizes, n)
               /\ drain' = [drain EXCEPT ![workQueue].pc = "take"]
    /\ UNCHANGED <<queues, closed, worker, stop, pool, shut, launcher, outcome, up>>

(* SetWorkerPool(workerPool) *)
UsePool(c) ==
    /\ up /\ caller[c] = "set"
    /\ pool' = TRUE
    /\ Returns(c)
    /\ UNCHANGED <<updates, queueVars, worker, drain, stop, shut, launcher, outcome, up>>

(* Stop, the first time: the queue is closed, the context is cancelled. *)
Disable(c) ==
    /\ up /\ caller[c] = "idle" /\ updates < MaxUpdates
    /\ updates' = updates + 1
    /\ caller' = [caller EXCEPT ![c] = "stopping"]
    /\ IF stop = "no" THEN stop' = "waiting" /\ closed' = closed \cup {workQueue}
       ELSE UNCHANGED <<stop, closed>>
    /\ UNCHANGED <<sizes, queues, worker, drain, pool, shut, launcher, outcome, up>>

NeverCancelled == FALSE

(* wp.cancel() has been called. *)
Cancelled == stop # "no"

(* wg.Wait and drainWg.Wait *)
StopDone ==
    /\ up /\ stop = "waiting"
    /\ \A w \in Workers : worker[w].pc \in {"off", "gone"}
    /\ \A q \in Queues : drain[q].pc = "off"
    /\ stop' = "done"
    /\ UNCHANGED <<updates, queueVars, worker, drain, caller, pool, shut, launcher, outcome, up>>

(* SetWorkerPool(nil), after Stop has returned. *)
UnsetPool(c) ==
    /\ up /\ caller[c] = "stopping" /\ stop = "done"
    /\ pool' = FALSE
    /\ Returns(c)
    /\ UNCHANGED <<updates, queueVars, worker, drain, stop, shut, launcher, outcome, up>>

-----------------------------------------------------------------------------
(* The goroutine of UpdateConfig that drains the old queue q *)

DrainTake(q) ==
    /\ up /\ drain[q].pc = "take"
    /\ \/ /\ queues[q] # <<>>
          /\ drain' = [drain EXCEPT ![q] = [pc |-> "put", item |-> Head(queues[q])]]
          /\ queues' = [queues EXCEPT ![q] = Tail(@)]
       \/ /\ queues[q] = <<>>  \* a closed queue gives nil items for ever
          /\ drain' = [drain EXCEPT ![q] = [pc |-> IF q \in closed THEN "put" ELSE "off",
                                            item |-> None]]
          /\ UNCHANGED queues
    /\ UNCHANGED <<updates, sizes, closed, worker, stop, caller, pool, shut, launcher, outcome, up>>

DropAndRetry(q) ==
    /\ up /\ drain[q].pc = "put" /\ workQueue \notin closed
    /\ IF Full(workQueue)
       THEN dropped' = dropped \cup ({drain[q].item} \ {None}) /\ UNCHANGED <<queues, drain>>
       ELSE /\ queues' = [queues EXCEPT ![workQueue] = Append(@, drain[q].item)]
            /\ drain' = [drain EXCEPT ![q] = [pc |-> "take", item |-> None]]
            /\ UNCHANGED dropped
    /\ UNCHANGED <<updates, sizes, closed, worker, stop, caller, pool, shut, launcher, done, up>>

(* The item goes into the new queue, or is dropped when that is full. *)
DrainPut(q) ==
    /\ up /\ drain[q].pc = "put" /\ workQueue \notin closed
    /\ drain' = [drain EXCEPT ![q] = [pc |-> "take", item |-> None]]
    /\ IF Full(workQueue)
       THEN dropped' = dropped \cup ({drain[q].item} \ {None}) /\ UNCHANGED queues
       ELSE /\ queues' = [queues EXCEPT ![workQueue] = Append(@, drain[q].item)]
            /\ UNCHANGED dropped
    /\ UNCHANGED <<updates, sizes, closed, worker, stop, caller, pool, shut, launcher, done, up>>

DrainPanics(q) ==
    /\ up /\ drain[q].pc = "put" /\ workQueue \in closed
    /\ Crash
    /\ UNCHANGED <<updates, queueVars, worker, drain, stop, caller, pool, shut, launcher, outcome>>

-----------------------------------------------------------------------------
(* worker *)

(* select evaluates wp.workQueue. *)
Select(w) ==
    /\ up /\ worker[w].pc = "loop"
    /\ worker' = [worker EXCEPT ![w] = [@ EXCEPT !.pc = "wait", !.queue = workQueue]]
    /\ UNCHANGED <<updates, queueVars, drain, stop, caller, pool, shut, launcher, outcome, up>>

Receive(w) ==
    LET q == worker[w].queue IN
    /\ up /\ worker[w].pc = "wait" /\ queues[q] # <<>>
    /\ worker' = [worker EXCEPT ![w] = [pc |-> "work", queue |-> 0, item |-> Head(queues[q])]]
    /\ queues' = [queues EXCEPT ![q] = Tail(@)]
    /\ UNCHANGED <<updates, sizes, closed, drain, stop, caller, pool, shut, launcher, outcome, up>>

Exits(w) == [worker EXCEPT ![w] = [pc |-> "gone", queue |-> 0, item |-> None]]

(* The queue is closed and empty, or the context is cancelled. *)
Exit(w) ==
    LET q == worker[w].queue IN
    /\ up /\ worker[w].pc = "wait"
    /\ Cancelled \/ (q \in closed /\ queues[q] = <<>>)
    /\ worker' = Exits(w)
    /\ UNCHANGED <<updates, queueVars, drain, stop, caller, pool, shut, launcher, outcome, up>>

StopsOnError(w) ==
    /\ up /\ worker[w].pc = "work"
    /\ done' = done \cup ({worker[w].item} \ {None})
    /\ worker' = Exits(w) \/ worker' = [worker EXCEPT ![w] = [pc |-> "loop", queue |-> 0, item |-> None]]
    /\ UNCHANGED <<updates, queueVars, drain, stop, caller, pool, shut, launcher, dropped, up>>

(* processWork: a failure is counted and logged, and the worker goes on. *)
ProcessWork(w) ==
    /\ up /\ worker[w].pc = "work"
    /\ done' = done \cup ({worker[w].item} \ {None})
    /\ worker' = [worker EXCEPT ![w] = [pc |-> "loop", queue |-> 0, item |-> None]]
    /\ UNCHANGED <<updates, queueVars, drain, stop, caller, pool, shut, launcher, dropped, up>>

-----------------------------------------------------------------------------
(* AdapterLauncher.Start *)

(* main applies the first configuration, then starts the launcher, which   *)
(* looks whether a pool is set.                                            *)
StartLauncher ==
    /\ up /\ launcher.pc = "off" /\ caller["main"] = "done"
    /\ launcher' = [launcher EXCEPT !.pc = IF pool THEN "start" ELSE "loop"]
    /\ UNCHANGED <<updates, queueVars, worker, drain, stop, caller, pool, shut, outcome, up>>

(* Start of the pool, called on the field, which may be nil by now. *)
StartPool ==
    /\ up /\ launcher.pc = "start" /\ pool
    /\ launcher' = [launcher EXCEPT !.pc = "loop"]
    /\ worker' = [w \in Workers |-> [worker[w] EXCEPT !.pc = "loop"]]
    /\ UNCHANGED <<updates, queueVars, drain, stop, caller, pool, shut, outcome, up>>

(* A method of the pool is called on the field, which is nil by now. *)
NilPool ==
    /\ up /\ launcher.pc \in {"start", "pool"} /\ ~pool
    /\ Crash
    /\ UNCHANGED <<updates, queueVars, worker, drain, stop, caller, pool, shut, launcher, outcome>>

InHand ==
    {launcher.item} \cup {worker[w].item : w \in Workers} \cup {drain[q].item : q \in Queues}
Queued == UNION {Elements(q) : q \in Queues}
New == Items \ (InHand \cup Queued \cup done \cup dropped)

(* An event comes; the launcher looks whether to use the pool. *)
TakeEvent ==
    /\ up /\ launcher.pc = "loop"
    /\ \E i \in New : launcher' = [launcher EXCEPT !.item = i,
                                                   !.pc = IF pool THEN "pool" ELSE "sync"]
    /\ UNCHANGED <<updates, queueVars, worker, drain, stop, caller, pool, shut, outcome, up>>

(* processEvent *)
ProcessEvent ==
    /\ up /\ launcher.pc = "sync"
    /\ done' = done \cup {launcher.item}
    /\ launcher' = [pc |-> "loop", item |-> None, queue |-> 0]
    /\ UNCHANGED <<updates, queueVars, worker, drain, stop, caller, pool, shut, dropped, up>>

(* EnqueueBlocking is called on the field and evaluates wp.workQueue. *)
EnqueueBlocking ==
    /\ up /\ launcher.pc = "pool" /\ pool
    /\ launcher' = [launcher EXCEPT !.pc = "send", !.queue = workQueue]
    /\ UNCHANGED <<updates, queueVars, worker, drain, stop, caller, pool, shut, outcome, up>>

Send ==
    LET q == launcher.queue IN
    /\ up /\ launcher.pc = "send" /\ q \notin closed /\ ~Full(q)
    /\ queues' = [queues EXCEPT ![q] = Append(@, launcher.item)]
    /\ launcher' = [pc |-> "loop", item |-> None, queue |-> 0]
    /\ UNCHANGED <<updates, sizes, closed, worker, drain, stop, caller, pool, shut, outcome, up>>

SendPanics ==
    /\ up /\ launcher.pc = "send" /\ launcher.queue \in closed
    /\ Crash
    /\ UNCHANGED <<updates, queueVars, worker, drain, stop, caller, pool, shut, launcher, outcome>>

(* main is told to shut down. *)
CancelContext ==
    /\ up /\ ~shut
    /\ shut' = TRUE
    /\ UNCHANGED <<updates, queueVars, worker, drain, stop, caller, pool, launcher, outcome, up>>

(* EnqueueBlocking returns the context's error, which Start logs. *)
EnqueueFails ==
    /\ up /\ launcher.pc = "send" /\ shut
    /\ dropped' = dropped \cup {launcher.item}
    /\ launcher' = [pc |-> "loop", item |-> None, queue |-> 0]
    /\ UNCHANGED <<updates, queueVars, worker, drain, stop, caller, pool, shut, done, up>>

LauncherEnds ==
    /\ up /\ launcher.pc = "loop" /\ shut
    /\ launcher' = [launcher EXCEPT !.pc = "gone"]
    /\ UNCHANGED <<updates, queueVars, worker, drain, stop, caller, pool, shut, outcome, up>>

-----------------------------------------------------------------------------

Reconfigure(c) == UsePool(c) \/ UnsetPool(c)
Work(w) == Select(w) \/ Receive(w) \/ Exit(w) \/ ProcessWork(w)
Drain(q) == DrainTake(q) \/ DrainPut(q) \/ DrainPanics(q)
Launch ==
    \/ StartLauncher \/ StartPool \/ NilPool \/ ProcessEvent
    \/ EnqueueBlocking \/ Send \/ SendPanics \/ EnqueueFails \/ LauncherEnds

Next ==
    \/ \E c \in Callers : Enable(c) \/ Disable(c) \/ Reconfigure(c)
    \/ StopDone \/ Launch \/ TakeEvent \/ CancelContext
    \/ \E w \in Workers : Work(w)
    \/ \E q \in Queues : Drain(q)

(* Every goroutine that can step is scheduled, and work ends. *)
Spec ==
    /\ Init /\ [][Next]_vars
    /\ \A c \in Callers : WF_vars(Reconfigure(c))
    /\ WF_vars(StopDone) /\ WF_vars(Launch)
    /\ \A w \in Workers : WF_vars(Work(w))
    /\ \A q \in Queues : WF_vars(Drain(q))

-----------------------------------------------------------------------------

(* The places an event is at, of all it can be at. *)
Places(i) ==
    (UNION {{<<"queue", q, k>> : k \in {j \in DOMAIN queues[q] : queues[q][j] = i}} : q \in Queues})
    \cup {<<"worker", w>> : w \in {v \in Workers : worker[v].item = i}}
    \cup {<<"drain", q>> : q \in {r \in Queues : drain[r].item = i}}
    \cup {<<"launcher">> : x \in {launcher.item} \cap {i}}
    \cup {<<"done">> : x \in done \cap {i}} \cup {<<"dropped">> : x \in dropped \cap {i}}

(* However a resize, the workers and the launcher interleave, an event is  *)
(* in one place only: no worker gets one that another has or had, and none *)
(* that was dropped is processed (UpdateConfig, worker).                   *)
OnePlace == \A i \in Items : \A p, r \in Places(i) : p = r

(* As long as the pool keeps its queue and is not stopped, an event that   *)
(* the queue of a started pool holds is processed.                         *)
Served ==
    \A i \in Items :
        (i \in Elements(1) /\ \E w \in Workers : worker[w].pc # "off")
            ~> (i \in done \/ workQueue # 1 \/ stop # "no" \/ ~up)

(* Stop returns: the workers end, those that wait on a queue that has been *)
(* replaced included.  The exception is a drain of a closed queue, which   *)
(* never comes to an end.                                                  *)
PoolStops ==
    stop = "waiting"
        ~> (stop = "done" \/ ~up \/ \E q \in closed : drain[q].pc # "off")

(* An event handed to the pool is processed, or dropped with a warning. *)
PoolServes == \A i \in Items : i \in Queued ~> (i \in done \cup dropped \/ ~up)
=============================================================================
