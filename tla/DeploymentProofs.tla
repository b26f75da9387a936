-------------------------- MODULE DeploymentProofs --------------------------
(***************************************************************************)
(* The runtime configuration whatever the ConfigMaps contain and however   *)
(* often they change: two results rest on one fact of the code.            *)
(* notifyConfigChange runs while the caller holds the write lock, and      *)
(* takes the lock again to read the configuration.  A goroutine of the     *)
(* ConfigManager that has merged a configuration is therefore at "get"     *)
(* with the lock its own, and stays there, so that main, before it serves, *)
(* is the only one that copies source rules; and the loader starts later.  *)
(*                                                                         *)
(* The worker pool for any workers, events and queue sizes: an event is in *)
(* one place.  The invariant says this by kind of place (Apart) and within *)
(* a kind (QueuedOnce, WorkedOnce, DrainedOnce); each step either moves    *)
(* nothing or takes an event from one place and puts it into one other.    *)
(*                                                                         *)
(* The replicas, for any number of them and any configurations: at most    *)
(* one that neither shuts down nor lost the Lease is active.  SingleActive *)
(* is not inductive: it says nothing of who holds the Lease, nor of what   *)
(* the closed channel stands for.  Election ties the activity of a replica *)
(* to its channel, the channel to its manager and the manager to the       *)
(* Lease; and nothing starts that EnforceSafeHA refuses.                   *)
(***************************************************************************)
EXTENDS MCDeployment, Sequences, TLAPS

(* The runtime configuration *)

Labels == {"get", "read", "write", "serve", "load_base", "load_env",
           "sync", "lock", "idle", "done"}

(* No goroutine of the ConfigManager ever gets as far as the callback:     *)
(* handleConfigChange runs once, when main calls it at start.              *)
ManagerNeverNotifies == \A t \in Config!Managers : pc[t] \notin {"read", "write"}

ConfigInv ==
    /\ pc \in [Config!Threads -> Labels]
    /\ \A t \in Config!Managers : pc[t] = "get" => mu = t
    /\ \A t \in Config!Managers : pc[t] \notin {"read", "write", "serve"}
    /\ pc["main"] \in {"get", "read", "write", "serve", "done"}
    /\ ready => pc["main"] = "done"
    /\ loading # "off" => ready
    /\ reloads # <<>> => loading # "off"
    /\ lastGood # None => loading # "off"
    /\ Config!SourcesCurrent

(* The process starts with nothing loaded and no lock taken. *)
LEMMA InitConfigInv == Config!Init => ConfigInv
<1> SUFFICES ASSUME Config!Init PROVE ConfigInv
  BY Zenon
<1>1. pc["main"] = "get" /\ pc["starter"] = "load_base" /\ pc["watcher"] = "idle"
  BY Zenon DEF Config!Init, Config!Threads, Config!Managers
<1>2. pc \in [Config!Threads -> Labels]
  BY Zenon DEF Config!Init, Config!Threads, Config!Managers, Labels
<1> QED  BY <1>1, <1>2, Zenon DEF Config!Init, ConfigInv, Config!Managers, Config!SourcesCurrent

(* LockAndMerge, GetConfigWithDefaults, ReadFilter and WriteFilter: the    *)
(* last three are steps of main, taken before the server is ready.         *)
LEMMA StepConfigInv == ASSUME ConfigInv, NEW t \in Config!Threads, Config!Step(t) PROVE ConfigInv'
<1> USE DEF Config!Threads, Config!Managers, Labels
<1>1. CASE Config!LockAndMerge(t)
  BY <1>1, LockAssumption, Zenon DEF ConfigInv, Config!LockAndMerge, Config!Goto,
     Config!SourcesCurrent,
     Config!handling, Config!loader
<1>2. CASE Config!GetConfigWithDefaults(t)
  <2>1. t = "main"
    BY <1>2, LockAssumption, Zenon DEF ConfigInv, Config!GetConfigWithDefaults
  <2> QED  BY <1>2, <2>1, Zenon DEF ConfigInv, Config!GetConfigWithDefaults, Config!Goto,
              Config!SourcesCurrent,
                             Config!manager, Config!loader
<1>3. CASE Config!ReadFilter(t)
  <2>1. t = "main"
    BY <1>3, Zenon DEF ConfigInv, Config!ReadFilter
  <2> QED  BY <1>3, <2>1, Zenon DEF ConfigInv, Config!ReadFilter, Config!Goto,
              Config!SourcesCurrent,
              Config!manager, Config!loader
<1>4. CASE Config!WriteFilter(t)
  <2>1. t = "main"
    BY <1>4, Zenon DEF ConfigInv, Config!WriteFilter
  <2>2. lastGood = None /\ loading = "off" /\ reloads = <<>> /\ ~ready
    BY <1>4, <2>1, Zenon DEF ConfigInv, Config!WriteFilter
  <2>3. mu' = mu /\ pc' = [pc EXCEPT !["main"] = "serve"] /\ UNCHANGED <<Config!loader, ready>>
    BY <1>4, <2>1, Zenon DEF Config!WriteFilter, Config!Goto
  <2> QED  BY <2>1, <2>2, <2>3, Zenon DEF ConfigInv, Config!SourcesCurrent, Config!loader
<1> QED  BY <1>1, <1>2, <1>3, <1>4, Zenon DEF Config!Step

(* The loader: updateFilter sets the rules and lastGoodConfig together. *)
LEMMA LoaderConfigInv == ASSUME ConfigInv, Config!Loader PROVE ConfigInv'
<1>1. pc' = pc /\ mu' = mu /\ ready' = ready
  BY Zenon DEF Config!Loader, Config!StartLoader, Config!InitialLoad, Config!StartWatch,
     Config!HandleReload, Config!manager
<1>2. loading' # "off" /\ ready
  BY Zenon DEF ConfigInv, Config!Loader, Config!StartLoader, Config!LoaderStarts,
     Config!InitialLoad,
     Config!StartWatch, Config!HandleReload
<1>3. Config!SourcesCurrent'
  <2>1. ASSUME NEW c, Config!UpdateFilter(c) PROVE Config!SourcesCurrent'
    BY <2>1 DEF ConfigInv, Config!UpdateFilter, Config!Loaded, Config!SourcesCurrent
  <2>2. ASSUME UNCHANGED <<filter, lastGood>> PROVE Config!SourcesCurrent'
    BY <2>2, Zenon DEF ConfigInv, Config!SourcesCurrent
  <2> QED  BY <2>1, <2>2, Zenon DEF Config!Loader, Config!StartLoader, Config!InitialLoad,
              Config!StartWatch, Config!HandleReload
<1> QED  BY <1>1, <1>2, <1>3, Zenon DEF ConfigInv

(* Every step of the system keeps the invariant. *)
LEMMA NextConfigInv == ConfigInv /\ [Config!Next]_(Config!vars) => ConfigInv'
<1> SUFFICES ASSUME ConfigInv, [Config!Next]_(Config!vars) PROVE ConfigInv'
  BY Zenon
<1>1. CASE Config!Starter
  <2>1. UNCHANGED <<mu, filter, loading, reloads, lastGood, ready>>
    BY <1>1, Zenon DEF ConfigInv, Config!Starter, Config!LoadBase, Config!LoadEnv,
       Config!LoadFails, Config!StartInformer, Config!Threads, Config!Managers,
       Config!loader, Config!manager
  <2>2. PICK l \in {"sync", "lock", "load_env", "done"} : pc' = [pc EXCEPT !["starter"] = l]
    <3>1. CASE Config!LoadBase
      BY <3>1, Zenon DEF Config!LoadBase, Config!Goto
    <3>2. CASE Config!LoadEnv
      BY <3>2, Zenon DEF Config!LoadEnv, Config!Goto
    <3>3. CASE Config!LoadFails \/ Config!StartInformer
      BY <3>3, Zenon DEF Config!LoadFails, Config!StartInformer, Config!Goto
    <3> QED  BY <1>1, <3>1, <3>2, <3>3, Zenon DEF Config!Starter
  <2> QED  BY <2>1, <2>2, Zenon DEF ConfigInv, Config!SourcesCurrent, Config!Threads,
              Config!Managers, Labels
<1>2. CASE Config!Serve
  BY <1>2, Zenon DEF ConfigInv, Config!Serve, Config!Goto, Config!SourcesCurrent, Config!Threads,
     Config!Managers, Labels, Config!handling, Config!loader, Config!manager
<1>3. CASE Config!HandleEvent
  BY <1>3, Zenon DEF ConfigInv, Config!HandleEvent, Config!Goto, Config!SourcesCurrent,
     Config!Threads, Config!Managers, Labels, Config!handling, Config!loader
<1>4. CASE Config!Resync
  BY <1>4, ZenonT(30) DEF ConfigInv, Config!Resync, Config!SourcesCurrent, Config!handling,
     Config!loader
<1>5. CASE \E n \in Editable : Config!Edit(n)
  BY <1>5 DEF ConfigInv, Config!Edit, Config!SourcesCurrent, Config!handling
<1>6. CASE UNCHANGED Config!vars
  BY <1>6, ZenonT(30) DEF ConfigInv, Config!vars, Config!SourcesCurrent
<1> QED  BY <1>1, <1>2, <1>3, <1>4, <1>5, <1>6, StepConfigInv, LoaderConfigInv, Zenon DEF Config!Next

(* Once the loader has loaded the filter ConfigMap, the source rules in    *)
(* force are those of the last good version it saw, although               *)
(* handleConfigChange writes back rules it read earlier.                   *)
THEOREM SourcesStayCurrent == Config!Spec => []SourcesCurrent
<1>1. ConfigInv => SourcesCurrent
  BY Zenon DEF ConfigInv, SourcesCurrent
<1> QED  BY InitConfigInv, NextConfigInv, <1>1, PTL DEF Config!Spec

(* The ConfigManager never runs its callback: a goroutine of it that has a *)
(* configuration to announce waits for the lock it holds                   *)
(* (notifyConfigChange calls GetConfigWithDefaults under cm.mu).           *)
THEOREM NotificationNeverRuns == Config!Spec => []ManagerNeverNotifies
<1>1. ConfigInv => ManagerNeverNotifies
  BY Zenon DEF ConfigInv, ManagerNeverNotifies
<1> QED  BY InitConfigInv, NextConfigInv, <1>1, PTL DEF Config!Spec

-----------------------------------------------------------------------------
(* The worker pool: an event is in one place *)

(* Sending to a channel and receiving from it. *)
LEMMA Appending ==
    ASSUME NEW S, NEW q \in Seq(S), NEW e \in S
    PROVE  /\ Append(q, e) \in Seq(S) /\ Append(q, e) # <<>>
           /\ Len(Append(q, e)) = Len(q) + 1 /\ Append(q, e)[Len(q) + 1] = e
           /\ \A i \in 1..Len(q) : Append(q, e)[i] = q[i]
OBVIOUS

(* A receive takes the first element and moves the others up. *)
LEMMA HeadAndTail ==
    ASSUME NEW S, NEW q \in Seq(S), q # <<>>
    PROVE  /\ Head(q) \in S /\ Tail(q) \in Seq(S) /\ Len(Tail(q)) = Len(q) - 1
           /\ \A i \in 1..Len(Tail(q)) : Tail(q)[i] = q[i + 1]
OBVIOUS

Item == Items \cup {None}
Drainer == [pc : {"off", "take", "put"}, item : Item]
Labourer == [pc : {"off", "loop", "wait", "work", "gone"}, queue : Nat, item : Item]
Launcher == [pc : {"off", "start", "loop", "pool", "sync", "send", "gone"}, item : Item, queue : Nat]

PoolTypes ==
    /\ updates \in Nat /\ updates <= MaxUpdates
    /\ sizes \in Seq(Sizes \cup {InitialSize}) /\ Len(sizes) \in 1 .. (updates + 1)
    /\ queues \in [Pool!Queues -> Seq(Item)]
    /\ worker \in [Workers -> Labourer]
    /\ drain \in [Pool!Queues -> Drainer]
    /\ launcher \in Launcher
    /\ \A w \in Workers : worker[w].pc = "wait" => worker[w].queue \in Pool!Queues
    /\ launcher.pc = "send" => launcher.queue \in Pool!Queues

Queued(i) == \E q \in Pool!Queues : \E k \in DOMAIN queues[q] : queues[q][k] = i
QueuedOnce(i) ==
    \A q, r \in Pool!Queues : \A j \in DOMAIN queues[q] : \A k \in DOMAIN queues[r] :
        queues[q][j] = i /\ queues[r][k] = i => q = r /\ j = k
Worked(i) == \E w \in Workers : worker[w].item = i
WorkedOnce(i) == \A v, w \in Workers : worker[v].item = i /\ worker[w].item = i => v = w
Drained(i) == \E q \in Pool!Queues : drain[q].item = i
DrainedOnce(i) == \A q, r \in Pool!Queues : drain[q].item = i /\ drain[r].item = i => q = r
Launched(i) == launcher.item = i

(* An event is at one kind of place at most ... *)
Apart(i) ==
    /\ Queued(i) => ~(Worked(i) \/ Drained(i) \/ Launched(i) \/ i \in done \/ i \in dropped)
    /\ Worked(i) => ~(Drained(i) \/ Launched(i) \/ i \in done \/ i \in dropped)
    /\ Drained(i) => ~(Launched(i) \/ i \in done \/ i \in dropped)
    /\ Launched(i) => ~(i \in done \/ i \in dropped)
    /\ ~(i \in done /\ i \in dropped)

(* ... and at one of its kind. *)
Single(i) == QueuedOnce(i) /\ WorkedOnce(i) /\ DrainedOnce(i) /\ Apart(i)

PoolInv == PoolTypes /\ \A i \in Items : Single(i)

(* The queue in use is one of those the bound allows. *)
LEMMA WorkQueue == ASSUME PoolTypes PROVE Pool!workQueue \in Pool!Queues /\ Pool!workQueue \in Nat
BY UpdatesAssumption DEF PoolTypes, Pool!workQueue, Pool!Queues

(* Taking the head of a queue: its other items stay where they were. *)
LEMMA TakeHead ==
    ASSUME PoolTypes, NEW q \in Pool!Queues, queues[q] # <<>>,
           queues' = [queues EXCEPT ![q] = Tail(queues[q])]
    PROVE  /\ Head(queues[q]) \in Item /\ queues' \in [Pool!Queues -> Seq(Item)]
           /\ Queued(Head(queues[q]))
           /\ \A i : /\ Queued(i)' => Queued(i)
                     /\ QueuedOnce(i) => QueuedOnce(i)'
                     /\ QueuedOnce(i) /\ i = Head(queues[q]) => ~Queued(i)'
<1>1. PICK s \in Seq(Item) : s = queues[q] /\ s # <<>>
  BY Zenon DEF PoolTypes
<1>2. /\ Head(s) \in Item /\ Head(s) = s[1] /\ Tail(s) \in Seq(Item) /\ Len(s) \in Nat
      /\ Len(s) > 0 /\ DOMAIN s = 1..Len(s) /\ DOMAIN Tail(s) = 1..(Len(s) - 1)
      /\ \A k \in 1..(Len(s) - 1) : Tail(s)[k] = s[k + 1]
  BY <1>1, HeadAndTail
<1>3. PICK t : t = Tail(s)
  BY Zenon
<1>4. queues' \in [Pool!Queues -> Seq(Item)]
  BY <1>1, <1>2, Zenon DEF PoolTypes
<1>5. queues'[q] = t /\ \A r \in Pool!Queues \ {q} : queues'[r] = queues[r]
  BY <1>1, <1>3, Zenon DEF PoolTypes
<1>6. \A k \in DOMAIN t : k \in Nat /\ k + 1 \in DOMAIN s /\ k + 1 # 1 /\ t[k] = s[k + 1]
  BY <1>2, <1>3
<1>7. ASSUME NEW r \in Pool!Queues, NEW k \in DOMAIN queues'[r]
      PROVE  \E j \in DOMAIN queues[r] : /\ queues[r][j] = queues'[r][k]
                                         /\ r = q => j = k + 1 /\ k \in Nat
                                         /\ r # q => j = k
  BY <1>1, <1>5, <1>6, <1>7
<1>8. ASSUME NEW i PROVE Queued(i)' => Queued(i)
  BY <1>7 DEF Queued
<1>9. ASSUME NEW i, QueuedOnce(i) PROVE QueuedOnce(i)'
  <2> SUFFICES ASSUME NEW r \in Pool!Queues, NEW p \in Pool!Queues, NEW j \in DOMAIN queues'[r],
                      NEW k \in DOMAIN queues'[p], queues'[r][j] = i, queues'[p][k] = i
               PROVE  r = p /\ j = k
    BY DEF QueuedOnce
  <2>1. PICK a \in DOMAIN queues[r] : /\ queues[r][a] = i
                                      /\ r = q => a = j + 1 /\ j \in Nat
                                      /\ r # q => a = j
    BY <1>7
  <2>2. PICK b \in DOMAIN queues[p] : /\ queues[p][b] = i
                                      /\ p = q => b = k + 1 /\ k \in Nat
                                      /\ p # q => b = k
    BY <1>7
  <2>3. r = p /\ a = b
    BY <1>9, <2>1, <2>2 DEF QueuedOnce
  <2>4. CASE r = q
    BY <2>1, <2>2, <2>3, <2>4
  <2>5. CASE r # q
    BY <2>1, <2>2, <2>3, <2>5, Zenon
  <2> QED  BY <2>3, <2>4, <2>5, Zenon
<1>10. ASSUME NEW i, QueuedOnce(i), i = Head(s), Queued(i)' PROVE FALSE
  <2>0. PICK r \in Pool!Queues : \E k \in DOMAIN queues'[r] : queues'[r][k] = i
    BY <1>10, Zenon DEF Queued
  <2>1. PICK k \in DOMAIN queues'[r] : queues'[r][k] = i
    BY <2>0, Zenon
  <2>2. PICK j \in DOMAIN queues[r] : /\ queues[r][j] = i
                                      /\ r = q => j = k + 1 /\ k \in Nat
                                      /\ r # q => j = k
    BY <1>7, <2>1
  <2>3. 1 \in DOMAIN queues[q] /\ queues[q][1] = i
    BY <1>1, <1>2, <1>10
  <2>4. r = q /\ j = 1
    BY <1>10, <2>2, <2>3, Zenon DEF QueuedOnce
  <2>5. k \in DOMAIN t /\ j = k + 1
    BY <1>5, <2>1, <2>2, <2>4, Zenon
  <2> QED  BY <1>6, <2>4, <2>5, Zenon
<1>11. Queued(Head(s))
  BY <1>1, <1>2 DEF Queued
<1> QED  BY <1>1, <1>2, <1>4, <1>8, <1>9, <1>10, <1>11, Zenon

(* Appending to a queue. *)
LEMMA PutLast ==
    ASSUME PoolTypes, NEW q \in Pool!Queues, NEW x \in Item,
           queues' = [queues EXCEPT ![q] = Append(queues[q], x)]
    PROVE  /\ queues' \in [Pool!Queues -> Seq(Item)]
           /\ \A i : /\ i # x => (Queued(i)' => Queued(i)) /\ (QueuedOnce(i) => QueuedOnce(i)')
                     /\ i = x /\ ~Queued(i) => QueuedOnce(i)'
<1>1. PICK s \in Seq(Item) : s = queues[q]
  BY Zenon DEF PoolTypes
<1>2. PICK t : t = Append(s, x)
  BY Zenon
<1>3. /\ Len(s) \in Nat /\ DOMAIN s = 1..Len(s) /\ DOMAIN t = 1..(Len(s) + 1) /\ t \in Seq(Item)
      /\ t[Len(s) + 1] = x /\ \A k \in 1..Len(s) : t[k] = s[k]
  BY <1>2, Appending, SMTT(30)
<1>4. queues' \in [Pool!Queues -> Seq(Item)]
  BY <1>1, <1>2, <1>3, Zenon DEF PoolTypes
<1>5. queues'[q] = t /\ \A r \in Pool!Queues \ {q} : queues'[r] = queues[r]
  BY <1>1, <1>2, Zenon DEF PoolTypes
<1>6. ASSUME NEW r \in Pool!Queues, NEW k \in DOMAIN queues'[r]
      PROVE  \/ k \in DOMAIN queues[r] /\ queues[r][k] = queues'[r][k]
             \/ r = q /\ k = Len(s) + 1 /\ queues'[r][k] = x
  <2>1. CASE r = q
    BY <1>1, <1>3, <1>5, <1>6, <2>1
  <2>2. CASE r # q
    BY <1>5, <1>6, <2>2, Zenon
  <2> QED  BY <2>1, <2>2, Zenon
<1>7. ASSUME NEW i, i # x PROVE (Queued(i)' => Queued(i)) /\ (QueuedOnce(i) => QueuedOnce(i)')
  <2>1. Queued(i)' => Queued(i)
    BY <1>6, <1>7 DEF Queued
  <2>2. QueuedOnce(i) => QueuedOnce(i)'
    BY <1>6, <1>7 DEF QueuedOnce
  <2> QED  BY <2>1, <2>2, Zenon
<1>8. ASSUME NEW i, i = x, ~Queued(i) PROVE QueuedOnce(i)'
  <2>1. \A r \in Pool!Queues : \A k \in DOMAIN queues'[r] :
           queues'[r][k] = i => r = q /\ k = Len(s) + 1
    BY <1>6, <1>8 DEF Queued
  <2> QED  BY <2>1, Zenon DEF QueuedOnce
<1> QED  BY <1>4, <1>7, <1>8, Zenon

(* A worker whose record is replaced: the item it had is no longer with a  *)
(* worker, unless it is the new one.                                       *)
LEMMA WorkerTakes ==
    ASSUME PoolTypes, NEW w \in Workers, NEW e, worker' = [worker EXCEPT ![w] = e]
    PROVE  \A i : /\ i # e.item /\ WorkedOnce(i) => /\ Worked(i)' => Worked(i)
                                                    /\ WorkedOnce(i)'
                                                    /\ i = worker[w].item => ~Worked(i)'
                  /\ i = e.item /\ ~Worked(i) => WorkedOnce(i)'
<1>1. worker'[w] = e /\ \A v \in Workers \ {w} : worker'[v] = worker[v]
  BY Zenon DEF PoolTypes
<1> QED  BY <1>1, Zenon DEF Worked, WorkedOnce

(* The same for the goroutine that drains a queue. *)
LEMMA DrainTakes ==
    ASSUME PoolTypes, NEW q \in Pool!Queues, NEW e, drain' = [drain EXCEPT ![q] = e]
    PROVE  \A i : /\ i # e.item /\ DrainedOnce(i) => /\ Drained(i)' => Drained(i)
                                                     /\ DrainedOnce(i)'
                                                     /\ i = drain[q].item => ~Drained(i)'
                  /\ i = e.item /\ ~Drained(i) => DrainedOnce(i)'
<1>1. drain'[q] = e /\ \A r \in Pool!Queues \ {q} : drain'[r] = drain[r]
  BY Zenon DEF PoolTypes
<1> QED  BY <1>1, Zenon DEF Drained, DrainedOnce

(* What is not touched stays where it was. *)
LEMMA SameQueues ==
    ASSUME queues' = queues
    PROVE  \A i : Queued(i)' = Queued(i) /\ QueuedOnce(i)' = QueuedOnce(i)
BY SMTT(30) DEF Queued, QueuedOnce

(* The same for what workers hold. *)
LEMMA SameWorkers ==
    ASSUME \A w \in Workers : worker'[w].item = worker[w].item
    PROVE  \A i : Worked(i)' = Worked(i) /\ WorkedOnce(i)' = WorkedOnce(i)
BY Zenon DEF Worked, WorkedOnce

(* The same for what drains hold. *)
LEMMA SameDrains ==
    ASSUME \A q \in Pool!Queues : drain'[q].item = drain[q].item
    PROVE  \A i : Drained(i)' = Drained(i) /\ DrainedOnce(i)' = DrainedOnce(i)
BY Zenon DEF Drained, DrainedOnce

(* A step that moves nothing. *)
LEMMA NothingMoves ==
    ASSUME queues' = queues, \A w \in Workers : worker'[w].item = worker[w].item,
           \A q \in Pool!Queues : drain'[q].item = drain[q].item,
           launcher'.item = launcher.item, done' = done, dropped' = dropped, PoolInv
    PROVE  \A i \in Items : Single(i)'
BY SameQueues, SameWorkers, SameDrains, Zenon DEF PoolInv, Single, Apart, Launched

(* handleConfigChange moves nothing. *)
LEMMA CallerPoolInv ==
    ASSUME PoolInv, NEW c \in Pool!Callers,
           Pool!Enable(c) \/ Pool!Disable(c) \/ Pool!Reconfigure(c) \/ Pool!StopDone
    PROVE  PoolInv'
<1> USE DEF PoolInv
<1>1. CASE Pool!Enable(c)
  <2>1. PICK n \in Sizes \cup {InitialSize} :
           \/ UNCHANGED <<sizes, drain>>
           \/ /\ sizes' = Append(sizes, n)
              /\ drain' = [drain EXCEPT ![Pool!workQueue].pc = "take"]
    BY <1>1, Zenon DEF Pool!Enable
  <2>2. /\ updates' = updates + 1 /\ updates < MaxUpdates
        /\ UNCHANGED <<queues, worker, launcher, done, dropped>>
    BY <1>1, Zenon DEF Pool!Enable, Pool!outcome
  <2>3. /\ sizes' \in Seq(Sizes \cup {InitialSize}) /\ Len(sizes') \in 1 .. (updates' + 1)
        /\ updates' \in Nat /\ updates' <= MaxUpdates
    <3>1. /\ sizes \in Seq(Sizes \cup {InitialSize}) /\ Len(sizes) \in Nat /\ updates \in Nat
          /\ Len(sizes) \in 1 .. (updates + 1)
      BY SMTT(30) DEF PoolTypes
    <3>2. CASE sizes' = sizes
      BY <2>2, <3>1, <3>2, UpdatesAssumption
    <3>3. CASE sizes' = Append(sizes, n)
      <4>1. sizes' \in Seq(Sizes \cup {InitialSize}) /\ Len(sizes') = Len(sizes) + 1
        BY <3>1, <3>3, Appending
      <4> QED  BY <2>2, <3>1, <4>1, UpdatesAssumption
    <3> QED  BY <2>1, <3>2, <3>3, Zenon
  <2>4. /\ drain' \in [Pool!Queues -> Drainer]
        /\ \A q \in Pool!Queues : drain'[q].item = drain[q].item
    <3>1. drain \in [Pool!Queues -> Drainer]
      BY Zenon DEF PoolTypes
    <3>2. PICK wq : wq = Pool!workQueue
      BY Zenon
    <3>3. drain' = drain \/ drain' = [drain EXCEPT ![wq].pc = "take"]
      BY <2>1, <3>2, Zenon
    <3> QED  BY <3>1, <3>3, SMTT(30) DEF Drainer
  <2>5. PoolTypes'
    BY <2>2, <2>3, <2>4, Zenon DEF PoolTypes, Pool!Queues
  <2> QED  BY <2>2, <2>4, <2>5, NothingMoves, Zenon
<1>2. CASE Pool!Disable(c) \/ Pool!Reconfigure(c) \/ Pool!StopDone
  <2>1. /\ updates' \in Nat /\ updates' <= MaxUpdates /\ updates' >= updates
        /\ UNCHANGED <<sizes, queues, worker, drain, launcher, done, dropped>>
    <3>1. UNCHANGED <<sizes, queues, worker, drain, launcher, done, dropped>>
      BY <1>2, Zenon DEF Pool!Disable, Pool!Reconfigure, Pool!UsePool, Pool!UnsetPool,
         Pool!StopDone, Pool!outcome, Pool!queueVars
    <3>2. updates' = updates \/ (updates' = updates + 1 /\ updates < MaxUpdates)
      BY <1>2, Zenon DEF Pool!Disable, Pool!Reconfigure, Pool!UsePool, Pool!UnsetPool, Pool!StopDone
    <3>3. updates \in Nat /\ updates <= MaxUpdates
      BY Zenon DEF PoolTypes
    <3> QED  BY <3>1, <3>2, <3>3, UpdatesAssumption
  <2>2. PoolTypes'
    BY <2>1, SMTT(30) DEF PoolTypes, Pool!Queues
  <2> QED  BY <2>1, <2>2, NothingMoves, Zenon
<1> QED  BY <1>1, <1>2, Zenon

(* The drain: an item goes from the head of the old queue to its hand, and *)
(* from there to the new queue, or is dropped.                             *)
LEMMA DrainPoolInv ==
    ASSUME PoolInv, NEW q \in Pool!Queues, Pool!Drain(q)
    PROVE  PoolInv'
<1> USE DEF PoolInv
<1>1. /\ UNCHANGED <<updates, sizes, worker, launcher, done>>
      /\ \A i : /\ Worked(i)' = Worked(i) /\ WorkedOnce(i)' = WorkedOnce(i)
                /\ Launched(i)' = Launched(i)
  <2>1. UNCHANGED <<updates, sizes, worker, launcher, done>>
    BY Zenon DEF Pool!Drain, Pool!DrainTake, Pool!DrainPut, Pool!DrainPanics, Pool!outcome,
       Pool!queueVars
  <2> QED  BY <2>1, SameWorkers, Zenon DEF Launched
<1>2. ASSUME queues' \in [Pool!Queues -> Seq(Item)],
             drain' \in [Pool!Queues -> Drainer]
      PROVE  PoolTypes'
  BY <1>1, <1>2, Zenon DEF PoolTypes, Pool!Queues
<1>3. ASSUME NEW e \in Drainer, drain' = [drain EXCEPT ![q] = e]
      PROVE  drain' \in [Pool!Queues -> Drainer]
  BY <1>3, Zenon DEF PoolTypes
<1>4. CASE Pool!DrainTake(q) /\ queues[q] # <<>>
  <2>1. PICK x : x = Head(queues[q])
    BY Zenon
  <2>2. PICK e : e = [pc |-> "put", item |-> x] 
    BY Zenon
  <2>3. /\ drain' = [drain EXCEPT ![q] = e] /\ queues' = [queues EXCEPT ![q] = Tail(queues[q])]
        /\ UNCHANGED dropped
    BY <1>4, <2>1, <2>2, ZenonT(30) DEF Pool!DrainTake, Pool!outcome
  <2>4. /\ x \in Item /\ queues' \in [Pool!Queues -> Seq(Item)] /\ Queued(x)
        /\ \A i : /\ Queued(i)' => Queued(i)
                  /\ QueuedOnce(i) => QueuedOnce(i)'
                  /\ QueuedOnce(i) /\ i = x => ~Queued(i)'
    BY <1>4, <2>1, <2>3, TakeHead, Zenon
  <2>5. \A i : /\ i # x /\ DrainedOnce(i) => (Drained(i)' => Drained(i)) /\ DrainedOnce(i)'
               /\ i = x /\ ~Drained(i) => DrainedOnce(i)'
    <3>1. e.item = x
      BY <2>2, Zenon
    <3> QED  BY <2>3, <3>1, DrainTakes, Zenon
  <2>6. ASSUME NEW i \in Items PROVE Single(i)'
    <3>1. CASE i = x
      BY <1>1, <2>3, <2>4, <2>5, <3>1, Zenon DEF Single, Apart
    <3>2. CASE i # x
      BY <1>1, <2>3, <2>4, <2>5, <3>2, Zenon DEF Single, Apart
    <3> QED  BY <3>1, <3>2, Zenon
  <2>7. e \in Drainer
    BY <2>2, <2>4, Zenon DEF Drainer
  <2>8. PoolTypes'
    BY <1>2, <1>3, <2>3, <2>4, <2>7, Zenon
  <2> QED  BY <2>6, <2>8, Zenon
<1>5. CASE Pool!DrainTake(q) /\ queues[q] = <<>>
  <2>0. PICK e : e = [pc |-> IF q \in closed THEN "put" ELSE "off", item |-> None]
    BY Zenon
  <2>1. /\ drain' = [drain EXCEPT ![q] = e] /\ e.item = None
        /\ e \in Drainer
    <3>1. drain' = [drain EXCEPT ![q] = e]
      BY <1>5, <2>0, Zenon DEF Pool!DrainTake
    <3>2. e.item = None /\ e \in Drainer
      BY <2>0, Zenon DEF Drainer, Item
    <3> QED  BY <3>1, <3>2, Zenon
  <2>2. UNCHANGED <<queues, dropped>>
    BY <1>5, Zenon DEF Pool!DrainTake, Pool!outcome
  <2>3. \A i \in Items : DrainedOnce(i) => (Drained(i)' => Drained(i)) /\ DrainedOnce(i)'
    BY <2>1, DrainTakes, ItemsAssumption, Zenon
  <2>4. ASSUME NEW i \in Items PROVE Single(i)'
    BY <1>1, <2>2, <2>3, SameQueues, Zenon DEF Single, Apart
  <2>5. PoolTypes'
    <3>1. queues' \in [Pool!Queues -> Seq(Item)]
      BY <2>2, ZenonT(30) DEF PoolTypes
    <3> QED  BY <1>2, <1>3, <2>1, <3>1, Zenon
  <2> QED  BY <2>4, <2>5, Zenon
<1>6. CASE Pool!DrainPut(q)
  <2>1. PICK x : x = drain[q].item /\ x \in Item
    BY Zenon DEF PoolTypes, Drainer
  <2>0. PICK e : e = [pc |-> "take", item |-> None]
    BY Zenon
  <2>2. /\ drain' = [drain EXCEPT ![q] = e] /\ e.item = None
        /\ e \in Drainer
    <3>1. drain' = [drain EXCEPT ![q] = e]
      BY <1>6, <2>0, Zenon DEF Pool!DrainPut
    <3>2. e.item = None /\ e \in Drainer
      BY <2>0, Zenon DEF Drainer, Item
    <3> QED  BY <3>1, <3>2, Zenon
  <2>3. \A i \in Items : DrainedOnce(i) => /\ Drained(i)' => Drained(i)
                                           /\ DrainedOnce(i)'
                                           /\ i = x => ~Drained(i)'
    BY <2>1, <2>2, DrainTakes, ItemsAssumption, Zenon
  <2>4. Drained(x)
    BY <2>1, Zenon DEF Drained
  <2>5. CASE queues' = queues /\ dropped' = dropped \cup ({x} \ {None})
    <3>1. ASSUME NEW i \in Items PROVE Single(i)'
      BY <1>1, <2>3, <2>4, <2>5, SameQueues, Zenon DEF Single, Apart
    <3>2. PoolTypes'
      BY <1>2, <1>3, <2>2, <2>5, Zenon DEF PoolTypes, Item
    <3> QED  BY <3>1, <3>2, Zenon
  <2>6. CASE /\ queues' = [queues EXCEPT ![Pool!workQueue] = Append(queues[Pool!workQueue], x)]
             /\ UNCHANGED dropped
    <3>1. /\ queues' \in [Pool!Queues -> Seq(Item)]
          /\ \A i : /\ i # x => (Queued(i)' => Queued(i)) /\ (QueuedOnce(i) => QueuedOnce(i)')
                    /\ i = x /\ ~Queued(i) => QueuedOnce(i)'
      BY <2>1, <2>6, PutLast, WorkQueue, ZenonT(30)
    <3>2. ASSUME NEW i \in Items PROVE Single(i)'
      <4>1. CASE i = x
        BY <1>1, <2>3, <2>4, <2>6, <3>1, <4>1, Zenon DEF Single, Apart
      <4>2. CASE i # x
        BY <1>1, <2>3, <2>6, <3>1, <4>2, Zenon DEF Single, Apart
      <4> QED  BY <4>1, <4>2, Zenon
    <3>3. PoolTypes'
      BY <1>2, <1>3, <2>2, <3>1, ZenonT(30) DEF Item
    <3> QED  BY <3>2, <3>3, Zenon
  <2> QED  BY <1>6, <2>1, <2>5, <2>6, Zenon DEF Pool!DrainPut
<1>7. CASE Pool!DrainPanics(q)
  <2>1. UNCHANGED <<queues, drain, dropped>>
    BY <1>7, ZenonT(30) DEF Pool!DrainPanics, Pool!queueVars, Pool!outcome
  <2>2. PoolTypes'
    BY <1>2, <2>1, Zenon DEF PoolTypes
  <2> QED  BY <1>1, <2>1, <2>2, NothingMoves, Zenon
<1> QED  BY <1>4, <1>5, <1>6, <1>7, Zenon DEF Pool!Drain, Pool!DrainTake

(* A worker: an item goes from the head of a queue to its hand, and is     *)
(* processed.                                                              *)
LEMMA WorkPoolInv ==
    ASSUME PoolInv, NEW w \in Workers, Pool!Work(w)
    PROVE  PoolInv'
<1> USE DEF PoolInv
<1>1. /\ UNCHANGED <<updates, sizes, drain, launcher, dropped>>
      /\ \A i : /\ Drained(i)' = Drained(i) /\ DrainedOnce(i)' = DrainedOnce(i)
                /\ Launched(i)' = Launched(i)
  <2>1. UNCHANGED <<updates, sizes, drain, launcher, dropped>>
    BY Zenon DEF Pool!Work, Pool!Select, Pool!Receive, Pool!Exit, Pool!ProcessWork, Pool!outcome,
           Pool!queueVars
  <2> QED  BY <2>1, SameDrains, Zenon DEF Launched
<1>2. ASSUME queues' \in [Pool!Queues -> Seq(Item)], NEW e \in Labourer,
             worker' = [worker EXCEPT ![w] = e], e.pc = "wait" => e.queue \in Pool!Queues
      PROVE  PoolTypes'
  <2>1. worker' \in [Workers -> Labourer] /\ worker'[w] = e
    BY <1>2, Zenon DEF PoolTypes
  <2>2. ASSUME NEW v \in Workers, worker'[v].pc = "wait" PROVE worker'[v].queue \in Pool!Queues
    <3>1. CASE v = w
      BY <1>2, <2>1, <2>2, <3>1, Zenon
    <3>2. CASE v # w
      BY <1>2, <2>2, <3>2, Zenon DEF PoolTypes
    <3> QED  BY <3>1, <3>2, Zenon
  <2> QED  BY <1>1, <1>2, <2>1, <2>2, Zenon DEF PoolTypes, Pool!Queues
<1>3. CASE Pool!Select(w)
  <2>1. PICK e : e = [worker[w] EXCEPT !.pc = "wait", !.queue = Pool!workQueue]
    BY Zenon
  <2>2. /\ worker' = [worker EXCEPT ![w] = e] /\ UNCHANGED <<queues, done>>
    BY <1>3, <2>1, Zenon DEF Pool!Select, Pool!queueVars, Pool!outcome
  <2>3. /\ e \in Labourer /\ e.item = worker[w].item
        /\ e.pc = "wait" => e.queue \in Pool!Queues
    <3>1. worker[w] \in Labourer
      BY Zenon DEF PoolTypes
    <3>2. PICK wq \in Pool!Queues : wq = Pool!workQueue /\ wq \in Nat
      BY WorkQueue, Zenon
    <3>3. e = [worker[w] EXCEPT !.pc = "wait", !.queue = wq]
      BY <2>1, <3>2, Zenon
    <3> QED  BY <3>1, <3>2, <3>3, ZenonT(30) DEF Labourer
  <2>4. \A v \in Workers : worker'[v].item = worker[v].item
    BY <2>2, <2>3, Zenon DEF PoolTypes
  <2>5. PoolTypes'
    BY <1>2, <2>2, <2>3, Zenon DEF PoolTypes
  <2> QED  BY <1>1, <2>2, <2>4, <2>5, NothingMoves, Zenon
<1>4. CASE Pool!Receive(w)
  <2>1. PICK q \in Pool!Queues : q = worker[w].queue
    BY <1>4, Zenon DEF Pool!Receive, PoolTypes
  <2>2. PICK x : x = Head(queues[q])
    BY Zenon
  <2>3. PICK e : e = [pc |-> "work", queue |-> 0, item |-> x]
    BY Zenon
  <2>4. /\ queues[q] # <<>> /\ worker' = [worker EXCEPT ![w] = e]
        /\ queues' = [queues EXCEPT ![q] = Tail(queues[q])] /\ UNCHANGED done
    BY <1>4, <2>1, <2>2, <2>3, ZenonT(30) DEF Pool!Receive, Pool!outcome
  <2>5. /\ x \in Item /\ queues' \in [Pool!Queues -> Seq(Item)] /\ Queued(x)
        /\ \A i : /\ Queued(i)' => Queued(i)
                  /\ QueuedOnce(i) => QueuedOnce(i)'
                  /\ QueuedOnce(i) /\ i = x => ~Queued(i)'
    BY <2>2, <2>4, TakeHead, Zenon
  <2>6. e.item = x /\ e.pc # "wait" /\ e \in Labourer
    BY <2>3, <2>5, Zenon DEF Labourer
  <2>7. \A i : /\ i # x /\ WorkedOnce(i) => (Worked(i)' => Worked(i)) /\ WorkedOnce(i)'
               /\ i = x /\ ~Worked(i) => WorkedOnce(i)'
    BY <2>4, <2>6, WorkerTakes, Zenon
  <2>8. ASSUME NEW i \in Items PROVE Single(i)'
    <3>1. CASE i = x
      BY <1>1, <2>4, <2>5, <2>7, <3>1, Zenon DEF Single, Apart
    <3>2. CASE i # x
      BY <1>1, <2>4, <2>5, <2>7, <3>2, Zenon DEF Single, Apart
    <3> QED  BY <3>1, <3>2, Zenon
  <2>9. PoolTypes'
    BY <1>2, <2>4, <2>5, <2>6, Zenon
  <2> QED  BY <2>8, <2>9, Zenon
<1>5. CASE Pool!Exit(w) \/ Pool!ProcessWork(w)
  <2>1. PICK e : /\ worker' = [worker EXCEPT ![w] = e]
                 /\ \/ e = [pc |-> "gone", queue |-> 0, item |-> None]
                    \/ e = [pc |-> "loop", queue |-> 0, item |-> None]
    BY <1>5, ZenonT(30) DEF Pool!Exit, Pool!Exits, Pool!ProcessWork
  <2>2. e.item = None /\ e.pc # "wait" /\ e \in Labourer
    BY <2>1, SMTT(30) DEF Labourer, Item
  <2>3. /\ UNCHANGED queues
        /\ done' = done \/ done' = done \cup ({worker[w].item} \ {None})
    BY <1>5, Zenon DEF Pool!Exit, Pool!ProcessWork, Pool!queueVars, Pool!outcome
  <2>4. \A i \in Items : WorkedOnce(i) => /\ Worked(i)' => Worked(i)
                                          /\ WorkedOnce(i)'
                                          /\ i = worker[w].item => ~Worked(i)'
    BY <2>1, <2>2, WorkerTakes, ItemsAssumption, Zenon
  <2>5. ASSUME NEW i \in Items PROVE Single(i)'
    <3>1. CASE i = worker[w].item
      <4>1. Worked(i)
        BY <3>1, Zenon DEF Worked
      <4> QED  BY <1>1, <2>3, <2>4, <3>1, <4>1, SameQueues, ZenonT(30) DEF Single, Apart
    <3>2. CASE i # worker[w].item
      <4>1. i \in done' <=> i \in done
        BY <2>3, <3>2, Zenon
      <4> QED  BY <1>1, <2>3, <2>4, <4>1, SameQueues, Zenon DEF Single, Apart
    <3> QED  BY <3>1, <3>2, Zenon
  <2>6. PoolTypes'
    BY <1>2, <2>1, <2>2, <2>3, Zenon DEF PoolTypes
  <2> QED  BY <2>5, <2>6, Zenon
<1> QED  BY <1>3, <1>4, <1>5, Zenon DEF Pool!Work

(* At shutdown the launcher drops the event in its hand. *)
LEMMA EnqueueFailsPoolInv == ASSUME PoolInv, Pool!EnqueueFails PROVE PoolInv'
<1> USE DEF PoolInv
<1>1. /\ dropped' = dropped \cup {launcher.item}
      /\ UNCHANGED <<updates, sizes, queues, worker, drain, done>>
      /\ launcher' = [pc |-> "loop", item |-> None, queue |-> 0]
  BY Zenon DEF Pool!EnqueueFails, Pool!queueVars
<1>2. launcher' \in Launcher /\ launcher'.pc # "send" /\ launcher'.item = None
  BY <1>1, Zenon DEF Launcher, Item
<1>3. ASSUME NEW j \in Items PROVE Single(j)'
  BY <1>1, <1>2, SameQueues, SameWorkers, SameDrains, ItemsAssumption, Zenon
  DEF Single, Apart, Launched
<1>4. PoolTypes'
  BY <1>1, <1>2, Zenon DEF PoolTypes, Pool!Queues
<1> QED  BY <1>3, <1>4, Zenon

(* The launcher: an event is new, then in its hand, then in a queue or     *)
(* processed.                                                              *)
LEMMA LaunchPoolInv ==
    ASSUME PoolInv, Pool!Launch \/ Pool!TakeEvent \/ Pool!CancelContext
    PROVE  PoolInv'
<1> USE DEF PoolInv
<1> SUFFICES ASSUME ~Pool!EnqueueFails PROVE PoolInv'
  BY EnqueueFailsPoolInv, Zenon
<1>1. UNCHANGED <<updates, sizes, drain, dropped>>
  BY ZenonT(30) DEF Pool!Launch, Pool!StartLauncher, Pool!StartPool, Pool!NilPool,
     Pool!ProcessEvent, Pool!EnqueueBlocking, Pool!Send, Pool!SendPanics, Pool!LauncherEnds,
     Pool!TakeEvent, Pool!CancelContext, Pool!queueVars, Pool!outcome
<1>2. ASSUME queues' \in [Pool!Queues -> Seq(Item)], worker' = worker, launcher' \in Launcher,
             launcher'.pc = "send" => launcher'.queue \in Pool!Queues
      PROVE  PoolTypes'
  BY <1>1, <1>2, Zenon DEF PoolTypes, Pool!Queues
<1>3. launcher \in Launcher /\ launcher.item \in Item
  BY Zenon DEF PoolTypes, Launcher
<1>4. CASE Pool!StartPool
  <2>1. /\ launcher' = [launcher EXCEPT !.pc = "loop"] /\ UNCHANGED <<queues, done>>
        /\ worker' = [w \in Workers |-> [worker[w] EXCEPT !.pc = "loop"]]
    BY <1>4, Zenon DEF Pool!StartPool, Pool!queueVars, Pool!outcome
  <2>2. launcher' \in Launcher /\ launcher'.pc # "send" /\ launcher'.item = launcher.item
    BY <1>3, <2>1, Zenon DEF Launcher
  <2>3. ASSUME NEW w \in Workers
        PROVE  /\ worker'[w] \in Labourer /\ worker'[w].item = worker[w].item
               /\ worker'[w].pc = "wait" => worker'[w].queue \in Pool!Queues
    <3>1. worker[w] \in Labourer
      BY Zenon DEF PoolTypes
    <3> QED  BY <2>1, <3>1, Zenon DEF Labourer
  <2>4. worker' \in [Workers -> Labourer]
    BY <2>1, <2>3, Zenon DEF PoolTypes
  <2>5. PoolTypes'
    BY <1>1, <2>1, <2>2, <2>3, <2>4, Zenon DEF PoolTypes, Pool!Queues
  <2> QED  BY <1>1, <2>1, <2>2, <2>3, <2>5, NothingMoves, Zenon
<1>5. CASE Pool!TakeEvent
  <2>1. PICK i \in Pool!New : launcher' = [launcher EXCEPT !.item = i,
                                              !.pc = IF pool THEN "pool" ELSE "sync"]
    BY <1>5, ZenonT(30) DEF Pool!TakeEvent
  <2>2. UNCHANGED <<queues, worker, done>>
    BY <1>5, Zenon DEF Pool!TakeEvent, Pool!queueVars, Pool!outcome
  <2>3. i \in Items /\ ~Queued(i) /\ ~Worked(i) /\ ~Drained(i) /\ i \notin done \cup dropped
    BY <2>1 DEF Pool!New, Pool!InHand, Pool!Queued, Pool!Elements, Queued, Worked, Drained
  <2>4. launcher' \in Launcher /\ launcher'.pc # "send" /\ launcher'.item = i
    BY <1>3, <2>1, <2>3, ZenonT(30) DEF Launcher, Item
  <2>5. ASSUME NEW j \in Items PROVE Single(j)'
    BY <1>1, <2>2, <2>3, <2>4, SameQueues, SameWorkers, SameDrains, ZenonT(30) DEF Single, Apart,
       Launched
  <2>6. PoolTypes'
    BY <1>2, <2>2, <2>4, Zenon DEF PoolTypes
  <2> QED  BY <2>5, <2>6, Zenon
<1>6. CASE Pool!ProcessEvent
  <2>1. /\ done' = done \cup {launcher.item} /\ UNCHANGED <<queues, worker>>
        /\ launcher' = [pc |-> "loop", item |-> None, queue |-> 0]
    BY <1>6, Zenon DEF Pool!ProcessEvent, Pool!queueVars, Pool!outcome
  <2>2. launcher' \in Launcher /\ launcher'.pc # "send" /\ launcher'.item = None
    BY <2>1, Zenon DEF Launcher, Item
  <2>3. ASSUME NEW j \in Items PROVE Single(j)'
    BY <1>1, <2>1, <2>2, SameQueues, SameWorkers, SameDrains, ItemsAssumption, Zenon
    DEF Single, Apart, Launched
  <2>4. PoolTypes'
    BY <1>2, <2>1, <2>2, Zenon DEF PoolTypes
  <2> QED  BY <2>3, <2>4, Zenon
<1>7. CASE \/ Pool!StartLauncher \/ Pool!NilPool \/ Pool!EnqueueBlocking \/ Pool!SendPanics
           \/ Pool!LauncherEnds \/ Pool!CancelContext
  <2>1. /\ UNCHANGED <<queues, worker, done>>
        /\ \/ launcher' = launcher
           \/ launcher' = [launcher EXCEPT !.pc = "send", !.queue = Pool!workQueue]
           \/ \E l \in {"start", "loop", "gone"} : launcher' = [launcher EXCEPT !.pc = l]
    BY <1>7, Zenon DEF Pool!StartLauncher, Pool!NilPool, Pool!EnqueueBlocking, Pool!SendPanics,
       Pool!LauncherEnds, Pool!CancelContext, Pool!queueVars, Pool!outcome
  <2>2. PICK wq \in Pool!Queues : wq = Pool!workQueue /\ wq \in Nat
    BY WorkQueue, Zenon
  <2>3. /\ launcher' \in Launcher /\ launcher'.item = launcher.item
        /\ launcher'.pc = "send" => launcher'.queue \in Pool!Queues
    <3>1. CASE launcher' = launcher
      BY <1>3, <3>1, Zenon DEF PoolTypes
    <3>2. CASE launcher' = [launcher EXCEPT !.pc = "send", !.queue = wq]
      BY <1>3, <2>2, <3>2, ZenonT(30) DEF Launcher
    <3>3. ASSUME NEW l \in {"start", "loop", "gone"}, launcher' = [launcher EXCEPT !.pc = l]
          PROVE  launcher' \in Launcher /\ launcher'.item = launcher.item /\ launcher'.pc # "send"
      BY <1>3, <3>3, Zenon DEF Launcher
    <3> QED  BY <2>1, <2>2, <3>1, <3>2, <3>3, Zenon
  <2>4. PoolTypes'
    BY <1>2, <2>1, <2>3, Zenon DEF PoolTypes
  <2> QED  BY <1>1, <2>1, <2>3, <2>4, NothingMoves, Zenon
<1>8. CASE Pool!Send
  <2>1. PICK q \in Pool!Queues, x \in Item : q = launcher.queue /\ x = launcher.item
    BY <1>3, <1>8, Zenon DEF Pool!Send, PoolTypes
  <2>2. /\ queues' = [queues EXCEPT ![q] = Append(queues[q], x)] /\ UNCHANGED <<worker, done>>
        /\ launcher' = [pc |-> "loop", item |-> None, queue |-> 0]
    BY <1>8, <2>1, Zenon DEF Pool!Send, Pool!outcome
  <2>3. launcher' \in Launcher /\ launcher'.pc # "send" /\ launcher'.item = None
    BY <2>2, Zenon DEF Launcher, Item
  <2>4. /\ queues' \in [Pool!Queues -> Seq(Item)]
        /\ \A i : /\ i # x => (Queued(i)' => Queued(i)) /\ (QueuedOnce(i) => QueuedOnce(i)')
                  /\ i = x /\ ~Queued(i) => QueuedOnce(i)'
    BY <2>2, PutLast, Zenon
  <2>5. ASSUME NEW i \in Items PROVE Single(i)'
    <3>1. CASE i = x
      <4>1. Launched(i)
        BY <2>1, <3>1, Zenon DEF Launched
      <4>2. ~Launched(i)'
        BY <2>3, ItemsAssumption, Zenon DEF Launched
      <4> QED  BY <1>1, <2>2, <2>4, <3>1, <4>1, <4>2, SameWorkers, SameDrains,
                  ZenonT(30) DEF Single, Apart
    <3>2. CASE i # x
      <4>1. ~Launched(i)'
        BY <2>3, ItemsAssumption, Zenon DEF Launched
      <4> QED  BY <1>1, <2>2, <2>4, <3>2, <4>1, SameWorkers, SameDrains, Zenon DEF Single, Apart
    <3> QED  BY <3>1, <3>2, Zenon
  <2>6. PoolTypes'
    BY <1>2, <2>2, <2>3, <2>4, Zenon
  <2> QED  BY <2>5, <2>6, Zenon
<1> QED  BY <1>4, <1>5, <1>6, <1>7, <1>8, Zenon DEF Pool!Launch

(* Every step keeps the invariant of the pool. *)
LEMMA NextPoolInv == PoolInv /\ [Pool!Next]_(Pool!vars) => PoolInv'
<1> SUFFICES ASSUME PoolInv, [Pool!Next]_(Pool!vars) PROVE PoolInv'
  BY Zenon
<1>1. CASE UNCHANGED Pool!vars
  <2>1. /\ UNCHANGED <<updates, sizes, queues, worker, drain, launcher, done, dropped>>
    BY <1>1, Zenon DEF Pool!vars
  <2>2. PoolTypes'
    BY <2>1, Zenon DEF PoolInv, PoolTypes, Pool!Queues
  <2> QED  BY <2>1, <2>2, NothingMoves, Zenon DEF PoolInv
<1>2. CASE Pool!Next
  <2>1. "main" \in Pool!Callers
    BY Zenon DEF Pool!Callers
  <2> QED  BY <1>2, <2>1, CallerPoolInv, DrainPoolInv, WorkPoolInv, LaunchPoolInv, Zenon DEF Pool!Next
<1> QED  BY <1>1, <1>2, Zenon

(* At first every queue and hand is empty. *)
LEMMA InitPoolInv == Pool!Init => PoolInv
<1> SUFFICES ASSUME Pool!Init PROVE PoolInv
  BY Zenon
<1>1. /\ updates = 0 /\ sizes = <<InitialSize>> /\ queues = [q \in Pool!Queues |-> <<>>]
      /\ worker = [w \in Workers |-> [pc |-> "off", queue |-> 0, item |-> None]]
      /\ drain = [q \in Pool!Queues |-> [pc |-> "off", item |-> None]]
      /\ launcher = [pc |-> "off", item |-> None, queue |-> 0]
      /\ done = {} /\ dropped = {}
  BY Zenon DEF Pool!Init
<1>2. sizes \in Seq(Sizes \cup {InitialSize}) /\ Len(sizes) = 1
  BY <1>1, SMTT(30)
<1>3. PoolTypes
  <2>1. queues \in [Pool!Queues -> Seq(Item)] /\ drain \in [Pool!Queues -> Drainer]
    BY <1>1, SMTT(30) DEF Drainer, Item
  <2>2. worker \in [Workers -> Labourer] /\ launcher \in Launcher
    BY <1>1, Zenon DEF Labourer, Launcher, Item
  <2>3. (\A w \in Workers : worker[w].pc # "wait") /\ launcher.pc # "send"
    BY <1>1, Zenon
  <2> QED  BY <1>1, <1>2, <2>1, <2>2, <2>3, UpdatesAssumption, SMTT(30) DEF PoolTypes
<1>4. ASSUME NEW i \in Items
      PROVE  /\ \A q \in Pool!Queues : DOMAIN queues[q] = {} /\ drain[q].item # i
             /\ \A w \in Workers : worker[w].item # i
             /\ launcher.item # i
  BY <1>1, ItemsAssumption, SMTT(30)
<1>5. ASSUME NEW i \in Items PROVE Single(i)
  BY <1>1, <1>4, ZenonT(30) DEF Single, Apart, Queued, QueuedOnce, Worked, WorkedOnce, Drained,
     DrainedOnce,
                    Launched
<1> QED  BY <1>3, <1>5, Zenon DEF PoolInv

(* What the invariant says in the terms of Places. *)
LEMMA SinglePlace ==
    ASSUME NEW i \in Items, Single(i), NEW p \in Pool!Places(i), NEW r \in Pool!Places(i)
    PROVE  p = r
<1> DEFINE Found(s) ==
        \/ \E q \in Pool!Queues : \E k \in DOMAIN queues[q] :
              queues[q][k] = i /\ s = <<"queue", q, k>>
        \/ \E w \in Workers : worker[w].item = i /\ s = <<"worker", w>>
        \/ \E q \in Pool!Queues : drain[q].item = i /\ s = <<"drain", q>>
        \/ launcher.item = i /\ s = <<"launcher">>
        \/ i \in done /\ s = <<"done">>
        \/ i \in dropped /\ s = <<"dropped">>
<1>1. ASSUME NEW s \in Pool!Places(i) PROVE Found(s)
  <2> DEFINE InQueue(q) ==
                 {<<"queue", q, k>> : k \in {j \in DOMAIN queues[q] : queues[q][j] = i}}
             Hands == {<<"worker", w>> : w \in {v \in Workers : worker[v].item = i}}
             Drains == {<<"drain", q>> : q \in {d \in Pool!Queues : drain[d].item = i}}
             Rest == {<<"launcher">> : x \in {launcher.item} \cap {i}}
                     \cup {<<"done">> : x \in done \cap {i}}
                     \cup {<<"dropped">> : x \in dropped \cap {i}}
  <2>1. s \in UNION {InQueue(q) : q \in Pool!Queues} \/ s \in Hands \/ s \in Drains \/ s \in Rest
    BY <1>1, ZenonT(30) DEF Pool!Places
  <2>2. CASE s \in UNION {InQueue(q) : q \in Pool!Queues}
    <3>1. PICK q \in Pool!Queues : s \in InQueue(q)
      BY <2>2, Zenon
    <3> QED  BY <3>1, Zenon
  <2>3. CASE s \in Hands
    BY <2>3, Zenon
  <2>4. CASE s \in Drains
    BY <2>4, Zenon
  <2>5. CASE s \in Rest
    BY <2>5, Zenon
  <2> QED  BY <2>1, <2>2, <2>3, <2>4, <2>5, ZenonT(30)
<1>2. Found(p) /\ Found(r)
  BY <1>1, Zenon
<1>3. CASE \E q \in Pool!Queues : \E k \in DOMAIN queues[q] :
              queues[q][k] = i /\ p = <<"queue", q, k>>
  <2>1. Queued(i)
    BY <1>3, Zenon DEF Queued
  <2>2. \E q \in Pool!Queues : \E k \in DOMAIN queues[q] :
           queues[q][k] = i /\ r = <<"queue", q, k>>
    BY <1>2, <2>1, Zenon DEF Single, Apart, Worked, Drained, Launched
  <2> QED  BY <1>3, <2>2, Zenon DEF Single, QueuedOnce
<1>4. CASE \E w \in Workers : worker[w].item = i /\ p = <<"worker", w>>
  <2>1. Worked(i)
    BY <1>4, Zenon DEF Worked
  <2>2. \E w \in Workers : worker[w].item = i /\ r = <<"worker", w>>
    BY <1>2, <2>1, Zenon DEF Single, Apart, Queued, Drained, Launched
  <2> QED  BY <1>4, <2>2, Zenon DEF Single, WorkedOnce
<1>5. CASE \E q \in Pool!Queues : drain[q].item = i /\ p = <<"drain", q>>
  <2>1. Drained(i)
    BY <1>5, Zenon DEF Drained
  <2>2. \E q \in Pool!Queues : drain[q].item = i /\ r = <<"drain", q>>
    BY <1>2, <2>1, Zenon DEF Single, Apart, Queued, Worked, Launched
  <2> QED  BY <1>5, <2>2, Zenon DEF Single, DrainedOnce
<1>6. CASE \/ launcher.item = i /\ p = <<"launcher">>
           \/ i \in done /\ p = <<"done">>
           \/ i \in dropped /\ p = <<"dropped">>
  <2>1. ~Queued(i) /\ ~Worked(i) /\ ~Drained(i)
    BY <1>6, Zenon DEF Single, Apart, Launched
  <2>2. \/ launcher.item = i /\ r = <<"launcher">>
        \/ i \in done /\ r = <<"done">>
        \/ i \in dropped /\ r = <<"dropped">>
    BY <1>2, <2>1, Zenon DEF Queued, Worked, Drained
  <2> QED  BY <1>6, <2>2, SMTT(30) DEF Single, Apart, Launched
<1> QED  BY <1>2, <1>3, <1>4, <1>5, <1>6, ZenonT(30)

(* However UpdateConfig replaces the queue, and however the goroutines     *)
(* that drain the old ones, the workers and the launcher interleave, an    *)
(* event is in one place: one position of one queue, one hand, or          *)
(* processed, or dropped.                                                  *)
THEOREM InOnePlace == Pool!Spec => []OnePlace
<1>1. PoolInv => OnePlace
  BY SinglePlace, Zenon DEF PoolInv, OnePlace, Pool!OnePlace
<1> QED  BY InitPoolInv, NextPoolInv, <1>1, PTL DEF Pool!Spec

-----------------------------------------------------------------------------
(* The replicas *)

(* A replica is active only once its channel is closed (the selects of     *)
(* startGenericOrchestrator and startGarbageCollector); with leader        *)
(* election the manager closes it when it leads, and what leads has the    *)
(* Lease; a manager exists only where EnforceSafeHA had no objection.      *)
Election ==
    \A r \in Replicas :
        /\ Active(r) => elected[r]
        /\ elected[r] => manager[r] # "off"
        /\ elected[r] /\ config.mode = "builtin" => manager[r] \in {"leading", "ended"}
        /\ manager[r] = "leading" => lease = r
        /\ manager[r] # "off" => EnforceSafeHA

IInv == TypeOK /\ Election

USE ConfigsAssumption, NoneAssumption

(* The initial state, no process running, satisfies the invariant. *)
LEMMA InitIInv == Init => IInv
<1> SUFFICES ASSUME Init PROVE IInv
  BY Zenon
<1>1. TypeOK
  BY Zenon DEF Init, TypeOK
<1>2. Election
  BY Zenon DEF Init, Election, Active
<1> QED  BY <1>1, <1>2, Zenon DEF IInv

(* The end of a process, however it comes about, keeps the invariant: what *)
(* is gone is not active (os.Exit, the return of main, a crash).           *)
LEMMA GoneIInv ==
    ASSUME IInv, NEW r \in Replicas, Gone(r)
    PROVE  IInv'
<1>1. TypeOK'
  BY Zenon DEF IInv, TypeOK, Gone
<1>2. Election'
  BY SMTT(30) DEF IInv, TypeOK, Election, Active, EnforceSafeHA, Gone
<1> QED  BY <1>1, <1>2, Zenon DEF IInv

(* The steps of main that start something keep the invariant.              *)
LEMMA MainIInv ==
    ASSUME IInv, NEW r \in Replicas,
           StartProcess(r) \/ StartManager(r) \/ LoadInitialConfig(r)
              \/ StartServices(r) \/ Terminate(r)
    PROVE  IInv'
<1> USE DEF IInv, TypeOK
<1>1. CASE StartProcess(r)
  BY <1>1, Zenon DEF StartProcess, services, Election, Active, EnforceSafeHA
<1>2. CASE StartManager(r)
  <2>1. TypeOK'
    BY <1>2, Zenon DEF StartManager
  <2>2. Election'
    BY <1>2, SMTT(30) DEF StartManager, Election, Active, EnforceSafeHA
  <2> QED  BY <2>1, <2>2, Zenon
<1>3. CASE LoadInitialConfig(r)
  BY <1>3, Zenon DEF LoadInitialConfig, Election, Active, EnforceSafeHA
<1>4. CASE StartServices(r)
  <2>1. TypeOK'
    BY <1>4, Zenon DEF StartServices, HALoop
  <2>2. Election'
    BY <1>4, SMTT(30) DEF StartServices, Election, Active, EnforceSafeHA
  <2> QED  BY <2>1, <2>2, Zenon
<1>5. CASE Terminate(r)
  BY <1>5, Zenon DEF Terminate, services, Election, Active, EnforceSafeHA
<1> QED  BY <1>1, <1>2, <1>3, <1>4, <1>5, ZenonT(30)

(* The manager and the Lease: who leads has it, and it expires only under  *)
(* a manager that does not lead any more.                                  *)
LEMMA ManagerIInv ==
    ASSUME IInv,
           Expire \/ \E r \in Replicas : Acquire(r) \/ LoseLease(r) \/ ManagerEnds(r)
    PROVE  IInv'
<1> USE DEF IInv, TypeOK
<1>1. CASE Expire
  BY <1>1, Zenon DEF Expire, services, Election, Active, EnforceSafeHA
<1>2. ASSUME NEW r \in Replicas, Acquire(r)
      PROVE  IInv'
  <2>1. TypeOK'
    BY <1>2, Zenon DEF Acquire, services
  <2>2. Election'
    BY <1>2, SMTT(30) DEF Acquire, services, Election, Active, EnforceSafeHA
  <2> QED  BY <2>1, <2>2, Zenon
<1>3. ASSUME NEW r \in Replicas, LoseLease(r) \/ ManagerEnds(r)
      PROVE  IInv'
  <2>1. TypeOK'
    BY <1>3, SMTT(30) DEF LoseLease, ManagerEnds, services
  <2>2. Election'
    <3>1. /\ manager[r] # "off" /\ manager' = [manager EXCEPT ![r] = "ended"]
          /\ UNCHANGED <<config, lease, elected, orch, gc>>
      BY <1>3, Zenon DEF LoseLease, ManagerEnds, services
    <3> QED  BY <3>1, SMTT(30) DEF Election, Active, EnforceSafeHA
  <2> QED  BY <2>1, <2>2, Zenon
<1> QED  BY <1>1, <1>2, <1>3, Zenon

(* The services start once the channel is closed, and end by themselves.   *)
LEMMA ServicesIInv ==
    ASSUME IInv, NEW r \in Replicas,
           Orchestrator(r) \/ Collector(r) \/ UpdateHAMetrics(r) \/ HAEnds(r)
    PROVE  IInv'
<1>0. ASSUME UNCHANGED <<config, lease, manager, elected>>,
             \A s \in Replicas : Active(s)' => Active(s) \/ elected[s]
      PROVE  Election'
  BY <1>0, ZenonT(30) DEF IInv, Election, EnforceSafeHA
<1>1. CASE Orchestrator(r)
  <2>1. UNCHANGED <<config, pod, lease, manager, elected, cm, gc, ha>>
    BY <1>1, Zenon DEF Orchestrator, StartOrchestrator, Reloaded, OrchestratorEnds
  <2>2. orch \in [Replicas -> {"off", "waiting", "reloading", "stuck", "running"}]
    BY Zenon DEF IInv, TypeOK
  <2>3. PICK o \in {"off", "waiting", "reloading", "stuck", "running"} :
          /\ orch' = [orch EXCEPT ![r] = o]
          /\ o = "off" \/ elected[r] \/ orch[r] = "reloading"
    <3>1. CASE StartOrchestrator(r)
      BY <3>1, Zenon DEF StartOrchestrator
    <3>2. CASE Reloaded(r)
      <4>1. PICK o : o = IF config.absent THEN "stuck" ELSE "running"
        BY Zenon
      <4>2. o \in {"off", "waiting", "reloading", "stuck", "running"}
        BY <4>1, Zenon
      <4> QED  BY <3>2, <4>1, <4>2, Zenon DEF Reloaded
    <3>3. CASE OrchestratorEnds(r)
      BY <3>3, Zenon DEF OrchestratorEnds
    <3> QED  BY <1>1, <3>1, <3>2, <3>3, Zenon DEF Orchestrator
  <2>4. TypeOK'
    <3>1. orch' \in [Replicas -> {"off", "waiting", "reloading", "stuck", "running"}]
      BY <2>2, <2>3, Zenon
    <3> QED  BY <2>1, <3>1, Zenon DEF IInv, TypeOK
  <2>5. ASSUME NEW s \in Replicas PROVE Active(s)' => Active(s) \/ elected[s]
    BY <2>1, <2>2, <2>3, Zenon DEF Active
  <2> QED  BY <1>0, <2>1, <2>4, <2>5, Zenon DEF IInv
<1>2. CASE Collector(r)
  <2>1. UNCHANGED <<config, pod, lease, manager, elected, cm, orch, ha>>
    BY <1>2, Zenon DEF Collector, StartGC, GCEnds
  <2>2. gc \in [Replicas -> {"off", "waiting", "running"}]
    BY Zenon DEF IInv, TypeOK
  <2>3. PICK g \in {"off", "waiting", "running"} :
          gc' = [gc EXCEPT ![r] = g] /\ (g = "off" \/ elected[r])
    BY <1>2, Zenon DEF Collector, StartGC, GCEnds
  <2>4. TypeOK'
    <3>1. gc' \in [Replicas -> {"off", "waiting", "running"}]
      BY <2>2, <2>3, Zenon
    <3> QED  BY <2>1, <3>1, Zenon DEF IInv, TypeOK
  <2>5. ASSUME NEW s \in Replicas PROVE Active(s)' => Active(s) \/ elected[s]
    BY <2>1, <2>2, <2>3, Zenon DEF Active
  <2> QED  BY <1>0, <2>1, <2>4, <2>5, Zenon DEF IInv
<1>3. CASE UpdateHAMetrics(r) \/ HAEnds(r)
  <2>1. UNCHANGED <<config, pod, lease, manager, elected, cm, orch, gc>>
    BY <1>3, Zenon DEF UpdateHAMetrics, HAEnds
  <2>2. ha' \in [Replicas -> {"off", "ticking", "locked"}]
    <3>1. ha \in [Replicas -> {"off", "ticking", "locked"}]
      BY Zenon DEF IInv, TypeOK
    <3>2. PICK h \in {"off", "ticking", "locked"} : ha' = [ha EXCEPT ![r] = h]
      <4>1. UpdateMetrics \in {"off", "ticking", "locked"}
        BY Zenon DEF UpdateMetrics
      <4> QED  BY <1>3, <4>1, Zenon DEF UpdateHAMetrics, HAEnds
    <3> QED  BY <3>1, <3>2, Zenon
  <2>3. TypeOK'
    BY <2>1, <2>2, Zenon DEF IInv, TypeOK
  <2>4. ASSUME NEW s \in Replicas PROVE Active(s)' => Active(s)
    BY <2>1, Zenon DEF Active
  <2> QED  BY <1>0, <2>1, <2>3, <2>4, Zenon DEF IInv
<1> QED  BY <1>1, <1>2, <1>3, Zenon

(* Every step of the deployment keeps the invariant. *)
LEMMA NextIInv == IInv /\ [Next]_vars => IInv'
<1> SUFFICES ASSUME IInv, [Next]_vars PROVE IInv'
  BY Zenon
<1>1. ASSUME NEW r \in Replicas, Refuse(r) \/ Exit(r) \/ Kill(r)
      PROVE  IInv'
  BY <1>1, GoneIInv, ZenonT(30) DEF Refuse, Exit, Kill
<1>2. CASE UNCHANGED vars
  BY <1>2, ZenonT(30) DEF IInv, TypeOK, Election, Active, EnforceSafeHA, vars
<1> QED
  BY <1>1, <1>2, MainIInv, ManagerIInv, ServicesIInv, ZenonT(30) DEF Next, Main

(* The invariant gives SingleActive: two active replicas that did not end  *)
(* would both have the Lease, as without leader election nothing starts    *)
(* that several replicas were announced for (EnforceSafeHA).               *)
LEMMA IInvSingleActive == IInv => SingleActive
<1> SUFFICES ASSUME IInv, ~Unguarded, NEW r \in Replicas, NEW s \in Replicas,
                    Active(r), manager[r] # "ended", Active(s), manager[s] # "ended"
             PROVE  r = s
  BY ZenonT(30) DEF SingleActive
<1>1. elected[r] /\ elected[s]
  BY ZenonT(30) DEF IInv, Election
<1>2. EnforceSafeHA
  BY <1>1, Zenon DEF IInv, Election
<1>3. config.mode = "builtin"
  <2>1. config.mode \in {"builtin", "disabled"}
    BY ConfigsAssumption DEF IInv, TypeOK
  <2> QED  BY <1>2, <2>1, Zenon DEF EnforceSafeHA, Unguarded
<1> QED  BY <1>1, <1>3, ZenonT(30) DEF IInv, Election

(* The variables keep their types. *)
THEOREM TypeCorrect == Spec => []TypeOK
<1>1. IInv => TypeOK
  BY Zenon DEF IInv
<1> QED  BY <1>1, InitIInv, NextIInv, PTL DEF Spec

(* Whatever crashes, restarts, expiries and shutdowns there are, and for   *)
(* any number of replicas, at most one that neither shuts down nor lost    *)
(* the Lease watches the sources or collects garbage, unless leader        *)
(* election is disabled for replicas that are told they are one (main).    *)
THEOREM AtMostOneActive == Spec => []SingleActive
  BY InitIInv, NextIInv, IInvSingleActive, PTL DEF Spec
=============================================================================
