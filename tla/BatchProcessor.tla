---------------------------- MODULE BatchProcessor ----------------------------
(***************************************************************************)
(* Event batching: pkg/processor/batch_processor.go together with its one  *)
(* caller, the reader goroutines and the shutdown of pkg/orchestrator/     *)
(* generic.go.                                                             *)
(*                                                                         *)
(* A reader goroutine ranges over the channel of one running adapter and   *)
(* adds every event to the batch of its source.  A batch is taken as a     *)
(* whole, by the reader that found it ready or by a flush goroutine that   *)
(* the 100 ms sweep spawned, and its events then go one by one through     *)
(* Processor.ProcessEvent.  bp.mu guards the map of batches and nothing    *)
(* else: it is released before the batch is taken, so that two goroutines  *)
(* may be on their way to the same batch.                                  *)
(***************************************************************************)
EXTENDS Integers, Sequences, FiniteSets

CONSTANTS
  Sources,       \* source identifiers: the keys of bp.batches
  Readers,       \* processEvents goroutines, one per started adapter
  ReaderSource,  \* the source each of them reads.  An adapter that was
                 \* restarted leaves its old reader draining beside the new one
  Events,        \* raw events
  Flushers,      \* identities for the goroutines that a sweep spawns
  MaxBatchSize,  \* bp.maxBatchSize
  NoSource       \* the target of an idle flush goroutine

ASSUME ReaderSourceAssumption == ReaderSource \in [Readers -> Sources]
ASSUME MaxBatchSizeAssumption == MaxBatchSize \in Nat \ {0}
ASSUME ReadersFinite == IsFiniteSet(Readers)
ASSUME NoSourceAssumption == NoSource \notin Sources
ASSUME GoroutinesDistinct == Readers \cap Flushers = {}

Goroutines == Readers \cup Flushers

VARIABLES
  sent,      \* events the adapters have put into their channels so far
  stream,    \* stream[r]: events in the adapter channel reader r ranges over
  closed,    \* closed[r]: adapter.Stop has closed that channel
  known,     \* DOMAIN bp.batches
  batches,   \* batches[s]: EventBatch.Events of source s
  aged,      \* aged[s]: time.Since(Timestamp) >= MaxAge
  mu,        \* who holds bp.mu over several steps
  todo,      \* batches the running processAllBatches has still to visit
  pc,        \* pc[g]: control state of a reader or flush goroutine
  target,    \* target[g]: the source whose batch g takes
  work,      \* work[g]: events g took and has not processed yet
  loop,      \* control state of the processBatches goroutine
  stop,      \* control state of GenericOrchestrator.Stop
  runs,      \* runs[e]: how often ProcessEvent was called with event e
  owed       \* events that were in a batch when BatchProcessor.Stop was called

chanVars  == <<sent, stream, closed>>
batchVars == <<known, batches, aged>>
sweepVars == <<mu, todo, loop>>
goVars    == <<pc, target, work>>
vars == <<chanVars, batchVars, sweepVars, goVars, stop, runs, owed>>

Values(q) == {q[i] : i \in DOMAIN q}

ReaderStates  == {"off", "recv", "take", "process", "exited"}
FlusherStates == {"idle", "take", "process"}
StopStates    == {"running", "cancelled", "waiting", "sweep", "adapters", "done"}

TypeOK ==
  /\ sent \subseteq Events
  /\ stream \in [Readers -> Seq(Events)]
  /\ closed \in [Readers -> BOOLEAN]
  /\ known \subseteq Sources
  /\ batches \in [Sources -> Seq(Events)]
  /\ aged \in [Sources -> BOOLEAN]
  /\ mu \in {"free", "loop", "stop"}
  /\ todo \subseteq Sources
  /\ pc \in [Goroutines -> ReaderStates \cup FlusherStates]
  /\ target \in [Goroutines -> Sources \cup {NoSource}]
  /\ work \in [Goroutines -> Seq(Events)]
  /\ loop \in {"select", "sweep", "lastSweep", "exited"}
  /\ stop \in StopStates
  /\ runs \in [Events -> Nat]
  /\ owed \subseteq Events

Init ==
  /\ sent = {}
  /\ stream = [r \in Readers |-> <<>>]
  /\ closed = [r \in Readers |-> FALSE]
  /\ known = {}
  /\ batches = [s \in Sources |-> <<>>]
  /\ aged = [s \in Sources |-> FALSE]
  /\ mu = "free"
  /\ todo = {}
  /\ pc = [g \in Goroutines |-> IF g \in Readers THEN "off" ELSE "idle"]
  /\ target = [g \in Goroutines |->
                 IF g \in Readers THEN ReaderSource[g] ELSE NoSource]
  /\ work = [g \in Goroutines |-> <<>>]
  /\ loop = "select"
  /\ stop = "running"
  /\ runs = [e \in Events |-> 0]
  /\ owed = {}

-------------------------------------------------------------------------------
(* The adapters: what the readers see of them.                             *)

\* createAndStartAdapterForSource ends with "go o.processEvents".  The adapter
\* that ran before for this source has been stopped.
StartAdapter(r) ==
  /\ stop = "running" /\ pc[r] = "off"
  /\ \A q \in Readers \ {r} :
       ReaderSource[q] = ReaderSource[r] => pc[q] = "off" \/ closed[q]
  /\ pc' = [pc EXCEPT ![r] = "recv"]
  /\ UNCHANGED <<chanVars, batchVars, sweepVars, target, work, stop, runs, owed>>

\* An adapter sends an event on its channel.
Emit(r, e) ==
  /\ pc[r] # "off" /\ ~closed[r] /\ e \notin sent
  /\ sent' = sent \cup {e}
  /\ stream' = [stream EXCEPT ![r] = Append(@, e)]
  /\ UNCHANGED <<closed, batchVars, sweepVars, goVars, stop, runs, owed>>

\* adapter.Stop closes the channel: reloadAdapters stops one adapter while the
\* orchestrator runs, GenericOrchestrator.Stop stops all of them at its end.
StopAdapter(r) ==
  /\ stop \in {"running", "adapters"} /\ pc[r] # "off" /\ ~closed[r]
  /\ closed' = [closed EXCEPT ![r] = TRUE]
  /\ UNCHANGED <<sent, stream, batchVars, sweepVars, goVars, stop, runs, owed>>

-------------------------------------------------------------------------------
(* The reader goroutines.                                                  *)

\* IsReadyForProcessing of the batch of s when it holds n events.
OnlyWhenFull(s, n) == n >= MaxBatchSize
IsReadyForProcessing(s, n) == n >= MaxBatchSize \/ aged[s]

\* BatchProcessor.AddEvent up to the unlock: create the batch if needed, append,
\* ask whether it is ready.
AddEvent(r) ==
  LET s == ReaderSource[r]
      n == Len(batches[s]) + 1
  IN /\ pc[r] = "recv" /\ stream[r] # <<>> /\ mu = "free"
     /\ stream' = [stream EXCEPT ![r] = Tail(@)]
     /\ known' = known \cup {s}
     /\ batches' = [batches EXCEPT ![s] = Append(@, Head(stream[r]))]
     /\ pc' = [pc EXCEPT ![r] = IF IsReadyForProcessing(s, n) THEN "take" ELSE "recv"]
     /\ UNCHANGED <<sent, closed, aged, sweepVars, target, work, stop, runs, owed>>

\* The range loop of processBatchEvents ends on a closed and drained channel.
ReaderExit(r) ==
  /\ pc[r] = "recv" /\ closed[r] /\ stream[r] = <<>>
  /\ pc' = [pc EXCEPT ![r] = "exited"]
  /\ UNCHANGED <<chanVars, batchVars, sweepVars, target, work, stop, runs, owed>>

-------------------------------------------------------------------------------
(* processBatch, run inline by a reader or by a flush goroutine.           *)

Idle(g) == IF g \in Readers THEN "recv" ELSE "idle"
NoTarget(g) == IF g \in Readers THEN ReaderSource[g] ELSE NoSource

\* b.Events after TakeEvents, and the events left after one iteration of the loop.
KeepEvents(q) == q
NewEvents(q) == <<>>
Abandon(q) == <<>>
Rest(q) == Tail(q)

\* TakeEvents, and the early return when somebody else was faster.
TakeEvents(g) ==
  LET s == target[g]
  IN /\ pc[g] = "take"
     /\ batches' = [batches EXCEPT ![s] = NewEvents(@)]
     /\ aged' = [aged EXCEPT ![s] = FALSE]
     /\ work' = [work EXCEPT ![g] = batches[s]]
     /\ pc' = [pc EXCEPT ![g] = IF batches[s] = <<>> THEN Idle(g) ELSE "process"]
     /\ target' = [target EXCEPT ![g] =
                     IF batches[s] = <<>> THEN NoTarget(g) ELSE s]
     /\ UNCHANGED <<chanVars, known, sweepVars, stop, runs, owed>>

\* One iteration of the loop over the taken events; an error of ProcessEvent is
\* logged and the loop goes on.
ProcessEvent(g) ==
  LET e == Head(work[g])
  IN /\ pc[g] = "process"
     /\ runs' = [runs EXCEPT ![e] = @ + 1]
     /\ work' = [work EXCEPT ![g] = Rest(@)]
     /\ pc' = [pc EXCEPT ![g] = IF Rest(work[g]) = <<>> THEN Idle(g) ELSE "process"]
     /\ target' = [target EXCEPT ![g] =
                     IF Rest(work[g]) = <<>> THEN NoTarget(g) ELSE @]
     /\ UNCHANGED <<chanVars, batchVars, sweepVars, stop, owed>>

-------------------------------------------------------------------------------
(* processAllBatches, run by the processBatches goroutine and by Stop.     *)

\* MaxAge has passed since the batch was created or last taken.
Age(s) ==
  /\ s \in known /\ ~aged[s]
  /\ aged' = [aged EXCEPT ![s] = TRUE]
  /\ UNCHANGED <<chanVars, known, batches, sweepVars, goVars, stop, runs, owed>>

\* The ticker fires until Stop has stopped it.
Tick ==
  /\ loop = "select" /\ stop \in {"running", "cancelled"}
  /\ mu = "free"
  /\ loop' = "sweep" /\ mu' = "loop" /\ todo' = known
  /\ UNCHANGED <<chanVars, batchVars, goVars, stop, runs, owed>>

\* The select of processBatches takes <-bp.ctx.Done().
ContextDone ==
  /\ loop = "select" /\ stop \notin {"running", "cancelled"} /\ mu = "free"
  /\ loop' = "lastSweep" /\ mu' = "loop" /\ todo' = known
  /\ UNCHANGED <<chanVars, batchVars, goVars, stop, runs, owed>>

\* A batch that is ready and not empty gets a goroutine of its own; nobody waits
\* for that goroutine.
SweepSpawn(s, f) ==
  /\ mu # "free" /\ s \in todo /\ pc[f] = "idle"
  /\ IsReadyForProcessing(s, Len(batches[s])) /\ batches[s] # <<>>
  /\ todo' = todo \ {s}
  /\ pc' = [pc EXCEPT ![f] = "take"]
  /\ target' = [target EXCEPT ![f] = s]
  /\ UNCHANGED <<chanVars, batchVars, mu, loop, work, stop, runs, owed>>

SweepSkip(s) ==
  /\ mu # "free" /\ s \in todo
  /\ ~IsReadyForProcessing(s, Len(batches[s])) \/ batches[s] = <<>>
  /\ todo' = todo \ {s}
  /\ UNCHANGED <<chanVars, batchVars, mu, loop, goVars, stop, runs, owed>>

\* The loop of processBatches goes on after a tick and returns after Done.
NoReturn(l) == "select"
LoopAfter(l) == IF l = "sweep" THEN "select" ELSE "exited"

\* processAllBatches returns and releases bp.mu.
SweepEnd ==
  /\ mu # "free" /\ todo = {}
  /\ mu' = "free"
  /\ loop' = IF mu = "stop" THEN loop ELSE LoopAfter(loop)
  /\ stop' = IF mu = "stop" THEN "adapters" ELSE stop
  /\ UNCHANGED <<chanVars, batchVars, todo, goVars, runs, owed>>

-------------------------------------------------------------------------------
(* GenericOrchestrator.Stop and BatchProcessor.Stop.                       *)

\* o.cancel()
StopCancel ==
  /\ stop = "running" /\ stop' = "cancelled"
  /\ UNCHANGED <<chanVars, batchVars, sweepVars, goVars, runs, owed>>

\* bp.cancel() and bp.batchTicker.Stop()
StopCancelBatch ==
  /\ stop = "cancelled" /\ stop' = "waiting"
  /\ owed' = UNION {Values(batches[s]) : s \in Sources}
  /\ UNCHANGED <<chanVars, batchVars, sweepVars, goVars, runs>>

\* bp.wg.Wait() returns, and Stop itself runs processAllBatches.
StopSweep ==
  /\ stop = "waiting" /\ loop = "exited" /\ mu = "free"
  /\ stop' = "sweep" /\ mu' = "stop" /\ todo' = known
  /\ UNCHANGED <<chanVars, batchVars, loop, goVars, runs, owed>>

\* Every adapter has been stopped: GenericOrchestrator.Stop returns.
StopReturn ==
  /\ stop = "adapters" /\ \A r \in Readers : pc[r] = "off" \/ closed[r]
  /\ stop' = "done"
  /\ UNCHANGED <<chanVars, batchVars, sweepVars, goVars, runs, owed>>

-------------------------------------------------------------------------------
\* No goroutine has anything left to do.
Quiet ==
  /\ \A r \in Readers : pc[r] \in {"off", "exited"}
  /\ \A f \in Flushers : pc[f] = "idle"

Terminated == stop = "done" /\ Quiet /\ UNCHANGED vars

Next ==
  \/ \E r \in Readers : \/ StartAdapter(r) \/ StopAdapter(r)
                        \/ \E e \in Events : Emit(r, e)
                        \/ AddEvent(r) \/ ReaderExit(r)
  \/ \E g \in Goroutines : TakeEvents(g) \/ ProcessEvent(g)
  \/ \E s \in Sources : \/ Age(s) \/ SweepSkip(s)
                        \/ \E f \in Flushers : SweepSpawn(s, f)
  \/ Tick \/ ContextDone \/ SweepEnd
  \/ StopCancel \/ StopCancelBatch \/ StopSweep \/ StopReturn
  \/ Terminated

Spec == Init /\ [][Next]_vars

\* What the Go runtime and the ticker guarantee: a goroutine that can go on does,
\* a waiter of bp.mu is not starved, time passes, a timer fires.  Stop is called
\* by choice, but once called it goes on.
Fairness ==
  /\ \A r \in Readers : SF_vars(AddEvent(r)) /\ WF_vars(ReaderExit(r))
  /\ \A g \in Goroutines : WF_vars(TakeEvents(g)) /\ WF_vars(ProcessEvent(g))
  /\ \A s \in Sources : /\ WF_vars(Age(s)) /\ WF_vars(SweepSkip(s))
                        /\ WF_vars(\E f \in Flushers : SweepSpawn(s, f))
  /\ WF_vars(Tick) /\ WF_vars(ContextDone) /\ WF_vars(SweepEnd)
  /\ WF_vars(StopCancelBatch) /\ WF_vars(StopSweep) /\ WF_vars(StopReturn)
  /\ \A r \in Readers : WF_vars(stop = "adapters" /\ StopAdapter(r))

FairSpec == Spec /\ Fairness

-------------------------------------------------------------------------------
(* Properties.                                                             *)

\* No event goes through ProcessEvent twice, although a reader and a flush
\* goroutine may be on their way to the same batch and bp.mu is not held there.
AtMostOnce == \A e \in Events : runs[e] <= 1

Buffered ==
  (UNION {Values(stream[r]) : r \in Readers}) \cup
  (UNION {Values(batches[s]) : s \in Sources})
InHand == UNION {Values(work[g]) : g \in Goroutines}
Processed == {e \in Events : runs[e] > 0}

\* An event that an adapter has sent is in a channel, in a batch, in the hands of
\* one goroutine, or processed; no interleaving of AddEvent and TakeEvents loses it.
NoSilentLoss == sent = Buffered \cup InHand \cup Processed

\* A batch outgrows MaxBatchSize only by the readers that have found it ready and
\* have not taken it yet: fewer than the readers of its source.
BatchBound ==
  \A s \in Sources :
    Len(batches[s]) < MaxBatchSize + Cardinality({r \in Readers : ReaderSource[r] = s})

\* The refinement mapping to EventDelivery.
phaseBar ==
  [e \in Events |-> CASE runs[e] > 0             -> "done"
                     [] runs[e] = 0 /\ e \in InHand -> "active"
                     [] OTHER -> IF e \in sent THEN "accepted" ELSE "new"]

ED == INSTANCE EventDelivery WITH phase <- phaseBar

\* Batching delivers: each event is picked up once and then processed once, and
\* what a goroutine has taken it processes even when Stop does not wait for it.
Delivery == ED!FairSpec

\* While the orchestrator runs, the reader or the sweep gets every sent event
\* processed, however few events follow it.
EventuallyProcessed ==
  \A e \in Events : e \in sent ~> e \in Processed \/ stop # "running"

\* Stop returns: it waits for a goroutine that needs bp.mu.
StopReturns == stop = "cancelled" ~> stop = "done"

\* "Stop stops the batch processor and processes remaining batches"
\* (batch_processor.go:214): when Stop has returned and every goroutine is quiet,
\* the events that were in a batch when it was called have been processed.
StopProcessesRemaining == stop = "done" /\ Quiet => owed \subseteq Processed

===============================================================================
