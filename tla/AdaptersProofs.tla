--------------------------- MODULE AdaptersProofs ---------------------------
(***************************************************************************)
(* The two adapters that feed from the cluster, for any pods, goroutines,  *)
(* adapters, objects and lengths of history.                               *)
(*                                                                         *)
(* The logs adapter: the log of a pod is followed by one goroutine at      *)
(* most, and the map of watchers can cancel it.  OneStreamPerPod is        *)
(* inductive together with the types and with NoEntry: what the map        *)
(* forgets it cancels first, and a pod that was looked up and had no entry *)
(* has none when its stream is registered, as Stop adds nothing.           *)
(*                                                                         *)
(* The informer adapter: no change is missed.  What a reader knows after a *)
(* sequence of events is compositional (AfterConcat), so a step that moves *)
(* an event along leaves it as it is, and one that moves the store on adds *)
(* what the store now says.  That this reaches every adapter of the        *)
(* informer, and no other, needs to be known of the listeners (Listening), *)
(* and that Start finds nothing on its way (Fresh).                        *)
(***************************************************************************)
EXTENDS MCAdapters, WellFoundedInduction, TLAPS

(* What concatenation, Append, Head and Tail do to the elements of a       *)
(* channel.                                                                *)
LEMMA Concatenation ==
    ASSUME NEW S, NEW p \in Seq(S), NEW q \in Seq(S)
    PROVE  /\ p \o q \in Seq(S) /\ Len(p \o q) = Len(p) + Len(q)
           /\ \A i \in 1..(Len(p) + Len(q)) :
                 (p \o q)[i] = IF i <= Len(p) THEN p[i] ELSE q[i - Len(p)]
OBVIOUS

(* A send puts the element behind the others (Append). *)
LEMMA Appending ==
    ASSUME NEW S, NEW q \in Seq(S), NEW e \in S
    PROVE  /\ Append(q, e) \in Seq(S) /\ Append(q, e) # <<>>
           /\ Len(Append(q, e)) = Len(q) + 1 /\ Append(q, e)[Len(q) + 1] = e
           /\ \A i \in 1..Len(q) : Append(q, e)[i] = q[i]
OBVIOUS

(* A receive takes the first element and moves the others up. *)
LEMMA HeadAndTail ==
    ASSUME NEW S, NEW q \in Seq(S), q # <<>>
    PROVE  /\ Head(q) \in S /\ Tail(q) \in Seq(S) /\ Len(Tail(q)) = Len(q) - 1
           /\ \A i \in 1..Len(Tail(q)) : Tail(q)[i] = q[i + 1]
OBVIOUS

(* What a sequence holds is what it is a sequence of. *)
LEMMA ElementOf == ASSUME NEW S, NEW q \in Seq(S), NEW i \in 1..Len(q) PROVE q[i] \in S
OBVIOUS

(* Two sequences with the same elements are equal. *)
LEMMA SameSequence ==
    ASSUME NEW S, NEW p \in Seq(S), NEW q \in Seq(S),
           Len(p) = Len(q), \A i \in 1..Len(p) : p[i] = q[i]
    PROVE  p = q
OBVIOUS

(* A send is the concatenation with a sequence of one element. *)
LEMMA AppendConcat ==
    ASSUME NEW S, NEW q \in Seq(S), NEW e \in S
    PROVE  Append(q, e) = q \o <<e>>
OBVIOUS

NoEntry == \A p \in absent : watchers[p] = 0 /\ loop = "pods"

LogsInv ==
    /\ Logs!TypeOK /\ NoEntry
    /\ \A i \in Logs!Streams : Logs!Following(i) => streams[i].pod \in Pods
    /\ Logs!OneStreamPerPod

(* What becomes of the record of a goroutine that is cancelled, moves on   *)
(* or ends is such a record (streamPodLogs).                               *)
LEMMA StreamFields ==
    /\ Logs!Finished \in Logs!Stream
    /\ \A s \in Logs!Stream :
          /\ [s EXCEPT !.cancelled = TRUE] \in Logs!Stream
          /\ \A pc \in {"open", "scan", "send"} : [s EXCEPT !.pc = pc] \in Logs!Stream
<1>1. Logs!Finished \in Logs!Stream
  BY Zenon DEF Logs!Finished, Logs!Stream
<1>2. ASSUME NEW s \in Logs!Stream, NEW b \in BOOLEAN
      PROVE  [s EXCEPT !.cancelled = b] \in Logs!Stream
  <2>1. [s EXCEPT !.cancelled = b] = [pod |-> s.pod, cancelled |-> b, pc |-> s.pc]
    BY DEF Logs!Stream
  <2>2. s.pod \in Pods \cup {None} /\ s.pc \in {"open", "scan", "send", "ended"}
    BY Zenon DEF Logs!Stream
  <2>3. [pod |-> s.pod, cancelled |-> b, pc |-> s.pc] \in Logs!Stream
    BY <2>2, Zenon DEF Logs!Stream
  <2> QED  BY <2>1, <2>3, Zenon
<1>3. ASSUME NEW s \in Logs!Stream, NEW pc \in {"open", "scan", "send"}
      PROVE  [s EXCEPT !.pc = pc] \in Logs!Stream
  <2>1. [s EXCEPT !.pc = pc] = [pod |-> s.pod, cancelled |-> s.cancelled, pc |-> pc]
    BY DEF Logs!Stream
  <2>2. s.pod \in Pods \cup {None} /\ s.cancelled \in BOOLEAN
    BY Zenon DEF Logs!Stream
  <2>3. [pod |-> s.pod, cancelled |-> s.cancelled, pc |-> pc] \in Logs!Stream
    BY <2>2, Zenon DEF Logs!Stream
  <2> QED  BY <2>1, <2>3, Zenon
<1> QED  BY <1>1, <1>2, <1>3, Zenon

(* At the start nothing is followed. *)
LEMMA InitLogsInv == Logs!Init => LogsInv
<1> SUFFICES ASSUME Logs!Init PROVE LogsInv
  BY Zenon
<1>1. streams \in [Logs!Streams -> Logs!Stream]
  BY StreamFields, Zenon DEF Logs!Init
<1>2. \A i \in Logs!Streams : streams[i].pc = "ended"
  BY Zenon DEF Logs!Init, Logs!Finished
<1> QED
  BY <1>1, <1>2, Zenon DEF Logs!Init, LogsInv, NoEntry, Logs!TypeOK, Logs!OneStreamPerPod,
                           Logs!Following

(* Cancelling the streams of P and forgetting them in the map, as the      *)
(* sweep of watchPods and Stop do under one lock, leaves no stream that    *)
(* the map does not know.                                                  *)
LEMMA CancelLogsInv ==
    ASSUME LogsInv, NEW P, P \subseteq Pods,
           streams' = Logs!Cancelled(P), watchers' = Logs!Forgotten(P)
    PROVE  /\ streams' \in [Logs!Streams -> Logs!Stream]
           /\ watchers' \in [Pods -> Logs!Streams \cup {0}]
           /\ \A i \in Logs!Streams : Logs!Following(i)' => streams'[i].pod \in Pods
           /\ Logs!OneStreamPerPod' /\ \A p \in Pods : watchers[p] = 0 => watchers'[p] = 0
<1>1. streams' \in [Logs!Streams -> Logs!Stream]
  BY StreamFields, Zenon DEF LogsInv, Logs!TypeOK, Logs!Cancelled
<1>2. watchers' \in [Pods -> Logs!Streams \cup {0}]
  BY Zenon DEF LogsInv, Logs!TypeOK, Logs!Forgotten
<1>3. ASSUME NEW i \in Logs!Streams, Logs!Following(i)'
      PROVE  streams'[i].pod \in Pods /\ watchers'[streams'[i].pod] = i
  <2>1. streams'[i] = streams[i] /\ \A p \in P : watchers[p] # i
    BY <1>3, Zenon DEF LogsInv, Logs!TypeOK, Logs!Stream, Logs!Cancelled, Logs!Following
  <2>2. streams[i].pod \in Pods /\ watchers[streams[i].pod] = i
    BY <1>3, <2>1, Zenon DEF LogsInv, Logs!Following, Logs!OneStreamPerPod
  <2> QED  BY <2>1, <2>2, Zenon DEF Logs!Forgotten
<1>4. \A p \in Pods : watchers[p] = 0 => watchers'[p] = 0
  BY Zenon DEF Logs!Forgotten
<1> QED  BY <1>1, <1>2, <1>3, <1>4, Zenon DEF Logs!OneStreamPerPod

(* A stream that is started had no entry in the map, and takes the place   *)
(* of a goroutine that has ended and that the map does not know.           *)
LEMMA FollowLogsInv ==
    ASSUME LogsInv, NEW p \in Pods, watchers[p] = 0, Logs!Follow(p)
    PROVE  /\ streams' \in [Logs!Streams -> Logs!Stream]
           /\ watchers' \in [Pods -> Logs!Streams \cup {0}]
           /\ \A i \in Logs!Streams : Logs!Following(i)' => streams'[i].pod \in Pods
           /\ Logs!OneStreamPerPod'
<1> DEFINE free == {i \in Logs!Streams : streams[i].pc = "ended" /\ \A q \in Pods : watchers[q] # i}
           n == CHOOSE j \in free : TRUE
<1>1. n \in free
  BY Zenon DEF Logs!Follow
<1>2. /\ streams' = [streams EXCEPT ![n] = [pod |-> p, cancelled |-> FALSE, pc |-> "open"]]
      /\ watchers' = [watchers EXCEPT ![p] = n]
  BY Zenon DEF Logs!Follow
<1> HIDE DEF n
<1>3. streams' \in [Logs!Streams -> Logs!Stream]
  BY <1>1, <1>2, Zenon DEF LogsInv, Logs!TypeOK, Logs!Stream
<1>4. watchers' \in [Pods -> Logs!Streams \cup {0}]
  BY <1>1, <1>2, Zenon DEF LogsInv, Logs!TypeOK
<1>5. ASSUME NEW i \in Logs!Streams, Logs!Following(i)'
      PROVE  streams'[i].pod \in Pods /\ watchers'[streams'[i].pod] = i
  <2>1. CASE i = n
    BY <1>1, <1>2, <2>1, Zenon DEF LogsInv, Logs!TypeOK
  <2>2. CASE i # n
    <3>1. streams'[i] = streams[i]
      BY <1>1, <1>2, <2>2, Zenon DEF LogsInv, Logs!TypeOK
    <3>2. streams[i].pod \in Pods /\ watchers[streams[i].pod] = i
      BY <1>5, <3>1, Zenon DEF LogsInv, Logs!Following, Logs!OneStreamPerPod
    <3>3. i # 0
      BY DEF Logs!Streams
    <3> QED  BY <1>2, <3>1, <3>2, <3>3, Zenon DEF LogsInv, Logs!TypeOK
  <2> QED  BY <2>1, <2>2, Zenon
<1> QED  BY <1>3, <1>4, <1>5, Zenon DEF Logs!OneStreamPerPod

(* A step of the goroutine i: it moves on or ends, and the map stays.      *)
LEMMA StreamLogsInv ==
    ASSUME LogsInv, NEW i \in Logs!Streams, UNCHANGED watchers,
           \/ Logs!End(i)
           \/ \E pc \in {"open", "scan", "send"} : streams[i].pc # "ended" /\ Logs!Goto(i, pc)
    PROVE  /\ streams' \in [Logs!Streams -> Logs!Stream]
           /\ \A j \in Logs!Streams : Logs!Following(j)' => streams'[j].pod \in Pods
           /\ Logs!OneStreamPerPod'
<1>1. streams' \in [Logs!Streams -> Logs!Stream]
  <2>1. CASE Logs!End(i)
    BY <2>1, StreamFields, Zenon DEF LogsInv, Logs!TypeOK, Logs!End
  <2>2. ASSUME NEW pc \in {"open", "scan", "send"}, Logs!Goto(i, pc)
        PROVE  streams' \in [Logs!Streams -> Logs!Stream]
    BY <2>2, StreamFields, Zenon DEF LogsInv, Logs!TypeOK, Logs!Goto
  <2> QED  BY <2>1, <2>2, Zenon
<1>2. ASSUME NEW j \in Logs!Streams, Logs!Following(j)'
      PROVE  streams'[j].pod = streams[j].pod /\ Logs!Following(j)
  BY <1>2 DEF LogsInv, Logs!TypeOK, Logs!Stream, Logs!End, Logs!Goto, Logs!Finished, Logs!Following
<1> QED  BY <1>1, <1>2, Zenon DEF LogsInv, Logs!OneStreamPerPod

(* The informer adapter never brings the process back up. *)
LEMMA InformerUp == Next => up' \in {up, FALSE}
BY Zenon DEF Next, Resync, Change, List, Watch, Advance, Start, Started, ListExisting, SendExisting,
       Handle, SendPanics, Stop, SeesStop, ReadEvent

(* Every step of the adapter and of the cluster keeps the invariant, and   *)
(* so does a step of another component in the same process.                *)
LEMMA NextLogsInv ==
    ASSUME LogsInv, Logs!Next \/ (UNCHANGED logsVars /\ up' \in {up, FALSE})
    PROVE  LogsInv'
<1>1. CASE UNCHANGED logsVars /\ up' \in {up, FALSE}
  <2>1. up' \in BOOLEAN
    BY <1>1, Zenon DEF LogsInv, Logs!TypeOK
  <2>2. UNCHANGED <<running, loop, active, todo, absent, watchers, streams, buffered, closed, stopped>>
    BY <1>1, Zenon DEF logsVars
  <2> QED  BY <2>1, <2>2, Zenon DEF LogsInv, NoEntry, Logs!TypeOK, Logs!OneStreamPerPod, Logs!Following
<1>2. CASE Logs!ListPods
  <2>1. absent = {} /\ absent' = {}
    BY <1>2, Zenon DEF Logs!ListPods, LogsInv, NoEntry
  <2> QED  BY <1>2, <2>1, Zenon DEF LogsInv, NoEntry, Logs!TypeOK, Logs!OneStreamPerPod, Logs!Following,
                           Logs!ListPods, Logs!channel
<1>3. CASE Logs!ReadEvent \/ \E p \in Pods : Logs!PodChanges(p)
  BY <1>3 DEF LogsInv, NoEntry, Logs!TypeOK, Logs!OneStreamPerPod, Logs!Following,
              Logs!ReadEvent, Logs!PodChanges, Logs!watcher, Logs!channel
<1>4. ASSUME NEW p \in Pods, Logs!StartStream(p)
      PROVE  LogsInv'
  <2>1. watchers[p] = 0 /\ Logs!Follow(p)
    BY <1>4, Zenon DEF LogsInv, NoEntry, Logs!StartStream
  <2>2. /\ absent' = {} /\ todo' = todo \ {p}
        /\ UNCHANGED <<running, loop, active, buffered, closed, stopped, up>>
    BY <1>4, Zenon DEF Logs!StartStream, Logs!channel
  <2>3. Logs!TypeOK' /\ NoEntry'
    BY <2>1, <2>2, FollowLogsInv, Zenon DEF LogsInv, NoEntry, Logs!TypeOK
  <2> QED  BY <2>1, <2>3, FollowLogsInv, Zenon DEF LogsInv
<1>5. ASSUME NEW p \in Pods, Logs!LookUp(p)
      PROVE  LogsInv'
  <2>1. UNCHANGED <<running, loop, active, watchers, streams, buffered, closed, stopped, up>>
    BY <1>5, Zenon DEF Logs!LookUp, Logs!channel
  <2>2. /\ todo' \subseteq active /\ absent' \subseteq todo'
        /\ \A q \in absent' : watchers[q] = 0 /\ loop = "pods"
    BY <1>5, Zenon DEF Logs!LookUp, LogsInv, Logs!TypeOK
  <2> QED  BY <2>1, <2>2, Zenon DEF LogsInv, NoEntry, Logs!TypeOK, Logs!OneStreamPerPod, Logs!Following
<1>6. CASE Logs!Sweep
  <2>1. absent = {} /\ absent' = {}
    BY <1>6, Zenon DEF Logs!Sweep, LogsInv, Logs!TypeOK
  <2> QED  BY <1>6, <2>1, CancelLogsInv, ZenonT(30) DEF LogsInv, NoEntry, Logs!TypeOK, Logs!Sweep, Logs!channel
<1>7. CASE Logs!Stop
  <2>1. buffered' \in Nat
    BY <1>7 DEF LogsInv, Logs!TypeOK, Logs!Stop
  <2>2. closed' \in BOOLEAN /\ stopped' \in BOOLEAN
    BY <1>7, Zenon DEF LogsInv, Logs!TypeOK, Logs!Stop
  <2>3. UNCHANGED <<running, loop, active, todo, absent, up>>
    BY <1>7, Zenon DEF Logs!Stop, Logs!watcher
  <2>4. streams' = Logs!Cancelled(Pods) /\ watchers' = Logs!Forgotten(Pods)
    BY <1>7, Zenon DEF Logs!Stop
  <2> QED  BY <2>1, <2>2, <2>3, <2>4, CancelLogsInv, Zenon DEF LogsInv, NoEntry, Logs!TypeOK
<1>8. ASSUME NEW i \in Logs!Streams,
             Logs!OpenStream(i) \/ Logs!ReadLine(i) \/ Logs!EndOfLog(i) \/ Logs!GiveUp(i)
      PROVE  LogsInv'
  <2>1. \/ Logs!End(i)
        \/ \E pc \in {"open", "scan", "send"} : streams[i].pc # "ended" /\ Logs!Goto(i, pc)
    BY <1>8, Zenon DEF Logs!OpenStream, Logs!ReadLine, Logs!EndOfLog, Logs!GiveUp
  <2>2. UNCHANGED <<running, Logs!watcher, watchers, Logs!channel, stopped, up>>
    BY <1>8, Zenon DEF Logs!OpenStream, Logs!ReadLine, Logs!EndOfLog, Logs!GiveUp
  <2> QED  BY <2>1, <2>2, StreamLogsInv, Zenon DEF LogsInv, NoEntry, Logs!TypeOK, Logs!watcher, Logs!channel
<1>9. ASSUME NEW i \in Logs!Streams, Logs!SendEvent(i)
      PROVE  LogsInv'
  <2>1. \E pc \in {"open", "scan", "send"} : streams[i].pc # "ended" /\ Logs!Goto(i, pc)
    BY <1>9, Zenon DEF Logs!SendEvent
  <2>2. /\ buffered' \in Nat
        /\ UNCHANGED <<running, Logs!watcher, watchers, closed, stopped, up>>
    BY <1>9 DEF Logs!SendEvent, LogsInv, Logs!TypeOK
  <2> QED  BY <2>1, <2>2, StreamLogsInv, Zenon DEF LogsInv, NoEntry, Logs!TypeOK, Logs!watcher
<1>10. ASSUME NEW i \in Logs!Streams, Logs!SendPanics(i)
      PROVE  LogsInv'
  BY <1>10, Zenon DEF LogsInv, NoEntry, Logs!TypeOK, Logs!OneStreamPerPod, Logs!Following,
                     Logs!SendPanics, Logs!watcher, Logs!channel
<1> QED
  BY <1>1, <1>2, <1>3, <1>4, <1>5, <1>6, <1>7, <1>8, <1>9, <1>10, Zenon DEF Logs!Next, Logs!Watch

(* The log of a pod is followed by at most one goroutine, which the map of *)
(* watchers can cancel, for any pods, listings, ends of streams, sweeps    *)
(* and Stop (watchPods, streamPodLogs, Stop).                              *)
THEOREM FollowedOnce == Spec => []OneStreamPerPod
<1>1. MCInit => LogsInv
  BY InitLogsInv, Zenon DEF MCInit
<1>2. LogsInv /\ [MCNext]_allVars => LogsInv'
  <2> SUFFICES ASSUME LogsInv, [MCNext]_allVars PROVE LogsInv'
    BY Zenon
  <2>1. CASE UNCHANGED allVars
    BY <2>1, NextLogsInv, Zenon DEF allVars
  <2>2. CASE Informer(Next)
    BY <2>2, NextLogsInv, InformerUp, Zenon DEF Informer
  <2>3. CASE LogsOnly(Logs!Next)
    BY <2>3, NextLogsInv, Zenon DEF LogsOnly
  <2> QED  BY <2>1, <2>2, <2>3, Zenon DEF MCNext
<1>3. LogsInv => OneStreamPerPod
  BY Zenon DEF LogsInv, OneStreamPerPod
<1> QED  BY <1>1, <1>2, <1>3, PTL DEF Spec

-----------------------------------------------------------------------------
(* The informer adapter: what a sequence of events tells its reader *)

Event == [obj : Objects, version : Nat, existing : BOOLEAN]

(* The j-th event of q is one about o that a handler sent. *)
Mine(q, o, j) == q[j].obj = o /\ ~q[j].existing

(* k is the position of the last of them. *)
LastMine(q, o, k) ==
    k \in 1..Len(q) /\ Mine(q, o, k) /\ \A j \in 1..Len(q) : j > k => ~Mine(q, o, j)
NoneMine(q, o) == \A j \in 1..Len(q) : ~Mine(q, o, j)

(* A set of positions has a last one. *)
LEMMA MaxOfPositions ==
    ASSUME NEW n \in Nat, NEW S, S \subseteq 1..n, S # {}
    PROVE  Max(S) \in S /\ \A y \in S : Max(S) >= y
<1> DEFINE T == {n - k : k \in S}
<1>1. T \subseteq Nat /\ T # {}
  <2>1. \A k \in S : k \in 1..n /\ n - k \in Nat
    OBVIOUS
  <2> QED  BY <2>1, Zenon
<1>2. \A k \in S : n - k \in T
  BY Zenon
<1>3. \A x \in T : \E k \in S : x = n - k
  BY Zenon
<1> HIDE DEF T
<1>4. PICK x \in T : \A y \in T : ~(<<y, x>> \in OpToRel(<, Nat))
  BY <1>1, NatLessThanWellFounded, WFMin, Zenon
<1>5. ASSUME NEW y \in T, y < x
      PROVE  FALSE
  <2>1. <<y, x>> \in Nat \X Nat /\ <<y, x>>[1] < <<y, x>>[2]
    BY <1>1, <1>5, Zenon
  <2>2. <<y, x>> \in OpToRel(<, Nat)
    BY <2>1, Zenon DEF OpToRel
  <2> QED  BY <1>4, <2>2, Zenon
<1>6. PICK k \in S : x = n - k
  BY <1>3, <1>4, Zenon
<1>7. \A j \in S : ~(n - j < x)
  BY <1>2, <1>5, Zenon
<1>8. \A j \in S : k >= j
  BY <1>6, <1>7
<1> QED  BY <1>6, <1>8, Zenon DEF Max

(* The last event of an object that a handler sent decides; events of      *)
(* other objects, and those of the goroutine of Start, say nothing.        *)
LEMMA AfterLast ==
    ASSUME NEW q \in Seq(Event), NEW o, NEW v
    PROVE  /\ \A k : LastMine(q, o, k) => After(q, o, v) = q[k].version
           /\ NoneMine(q, o) => After(q, o, v) = v
           /\ NoneMine(q, o) \/ \E k : LastMine(q, o, k)
<1> DEFINE mine == {j \in DOMAIN q : q[j].obj = o /\ ~q[j].existing}
<1>1. Len(q) \in Nat /\ DOMAIN q = 1..Len(q)
  OBVIOUS
<1>2. After(q, o, v) = IF mine = {} THEN v ELSE q[Max(mine)].version
  BY Zenon DEF After
<1>3. \A j : j \in mine <=> j \in 1..Len(q) /\ Mine(q, o, j)
  BY <1>1, Zenon DEF Mine
<1> HIDE DEF mine
<1>4. ASSUME mine # {}
      PROVE  Max(mine) \in mine /\ \A j \in mine : Max(mine) >= j
  <2>1. mine \subseteq 1..Len(q)
    BY <1>3, Zenon
  <2> QED  BY <1>1, <1>4, <2>1, MaxOfPositions, Zenon
<1>5. ASSUME NEW k, LastMine(q, o, k)
      PROVE  After(q, o, v) = q[k].version
  <2>1. k \in mine /\ \A j \in mine : ~(j > k)
    BY <1>3, <1>5, Zenon DEF LastMine
  <2>2. PICK m : m = Max(mine) /\ m \in mine /\ \A j \in mine : m >= j
    BY <1>4, <2>1, Zenon
  <2>3. m \in 1..Len(q) /\ k \in 1..Len(q) /\ m >= k /\ ~(m > k)
    BY <1>3, <2>1, <2>2, Zenon
  <2>4. m = k
    BY <1>1, <2>3
  <2> QED  BY <1>2, <2>1, <2>2, <2>4, Zenon
<1>6. ASSUME NoneMine(q, o) PROVE After(q, o, v) = v
  BY <1>2, <1>3, <1>6, Zenon DEF NoneMine
<1>7. ASSUME ~NoneMine(q, o) PROVE \E k : LastMine(q, o, k)
  <2>1. mine # {}
    BY <1>3, <1>7, Zenon DEF NoneMine
  <2>2. PICK m : m = Max(mine) /\ m \in mine /\ \A j \in mine : m >= j
    BY <1>4, <2>1, Zenon
  <2>3. m \in 1..Len(q) /\ Mine(q, o, m)
    BY <1>3, <2>2, Zenon
  <2>4. \A j \in 1..Len(q) : j > m => ~Mine(q, o, j)
    BY <1>1, <1>3, <2>2, <2>3
  <2> QED  BY <2>3, <2>4, Zenon DEF LastMine
<1> QED  BY <1>5, <1>6, <1>7, Zenon

(* A reader that reads p and then q ends where q takes it from where p did. *)
LEMMA AfterConcat ==
    ASSUME NEW p \in Seq(Event), NEW q \in Seq(Event), NEW o, NEW v
    PROVE  After(p \o q, o, v) = After(q, o, After(p, o, v))
<1>0. /\ p \o q \in Seq(Event) /\ Len(p \o q) = Len(p) + Len(q)
      /\ \A i \in 1..(Len(p) + Len(q)) :
            (p \o q)[i] = IF i <= Len(p) THEN p[i] ELSE q[i - Len(p)]
  BY ONLY p \in Seq(Event), q \in Seq(Event), Concatenation, Zenon
<1>1. PICK r :
        /\ r = p \o q /\ r \in Seq(Event) /\ Len(r) = Len(p) + Len(q)
        /\ \A i \in 1..(Len(p) + Len(q)) : r[i] = IF i <= Len(p) THEN p[i] ELSE q[i - Len(p)]
  BY ONLY <1>0, Zenon
<1>2. Len(p) \in Nat /\ Len(q) \in Nat
  OBVIOUS
<1>r. r \in Seq(Event)
  BY <1>1, Zenon
<1>3. \A i \in 1..Len(p) : i \in 1..Len(r) /\ r[i] = p[i]
  BY <1>1, <1>2
<1>4. \A i \in 1..Len(q) : Len(p) + i \in 1..Len(r) /\ r[Len(p) + i] = q[i]
  <2>1. ASSUME NEW i \in 1..Len(q)
        PROVE  /\ Len(p) + i \in 1..(Len(p) + Len(q)) /\ ~(Len(p) + i <= Len(p))
               /\ (Len(p) + i) - Len(p) = i
    BY <1>2
  <2> QED  BY <1>1, <2>1, Zenon
<1>5. \A j \in 1..Len(r) : j \in 1..Len(p) \/ (j - Len(p) \in 1..Len(q) /\ r[j] = q[j - Len(p)])
  BY <1>1, <1>2
<1>6. ASSUME NEW k, LastMine(q, o, k)
      PROVE  After(r, o, v) = After(q, o, After(p, o, v))
  <2>1. k \in 1..Len(q) /\ Mine(q, o, k) /\ \A j \in 1..Len(q) : j > k => ~Mine(q, o, j)
    BY <1>6, Zenon DEF LastMine
  <2>2. ASSUME NEW j \in 1..Len(r), j > Len(p) + k
        PROVE  ~Mine(r, o, j)
    <3>1. j - Len(p) \in 1..Len(q) /\ r[j] = q[j - Len(p)] /\ j - Len(p) > k
      BY <1>2, <1>5, <2>1, <2>2
    <3> QED  BY <2>1, <3>1, Zenon DEF Mine
  <2>3. PICK n : n = Len(p) + k /\ n \in 1..Len(r) /\ r[n] = q[k]
    BY <1>4, <2>1, Zenon
  <2>4. LastMine(r, o, n)
    BY <2>1, <2>2, <2>3, Zenon DEF LastMine, Mine
  <2>5. After(r, o, v) = r[n].version
    BY <1>r, <2>4, AfterLast, Zenon
  <2>6. After(q, o, After(p, o, v)) = q[k].version
    BY <1>6, AfterLast, Zenon
  <2> QED  BY <2>3, <2>5, <2>6, Zenon
<1>7. ASSUME NoneMine(q, o)
      PROVE  After(r, o, v) = After(q, o, After(p, o, v))
  <2>1. After(q, o, After(p, o, v)) = After(p, o, v)
    BY <1>7, AfterLast, Zenon
  <2>2. \A j \in 1..Len(r) : Mine(r, o, j) => j \in 1..Len(p) /\ Mine(p, o, j)
    BY <1>3, <1>5, <1>7, Zenon DEF Mine, NoneMine
  <2>3. CASE NoneMine(p, o)
    <3>1. NoneMine(r, o)
      BY <2>2, <2>3, Zenon DEF NoneMine
    <3>2. After(r, o, v) = v
      BY <1>r, <3>1, AfterLast, Zenon
    <3>3. After(p, o, v) = v
      BY <2>3, AfterLast, Zenon
    <3> QED  BY <2>1, <3>2, <3>3, Zenon
  <2>4. ASSUME NEW k, LastMine(p, o, k)
        PROVE  After(r, o, v) = After(p, o, v)
    <3>1. After(p, o, v) = p[k].version
      BY <2>4, AfterLast, Zenon
    <3>2. LastMine(r, o, k) /\ r[k] = p[k]
      <4>1. k \in 1..Len(p) /\ Mine(p, o, k) /\ \A j \in 1..Len(p) : j > k => ~Mine(p, o, j)
        BY <2>4, Zenon DEF LastMine
      <4>2. k \in 1..Len(r) /\ r[k] = p[k] /\ Mine(r, o, k)
        BY <1>3, <4>1, Zenon DEF Mine
      <4>3. \A j \in 1..Len(r) : j > k => ~Mine(r, o, j)
        BY <2>2, <4>1, Zenon
      <4> QED  BY <4>2, <4>3, Zenon DEF LastMine
    <3>3. After(r, o, v) = r[k].version
      BY <1>r, <3>2, AfterLast, SMTT(30)
    <3> QED  BY <3>1, <3>2, <3>3, Zenon
  <2> QED  BY <2>1, <2>3, <2>4, AfterLast, Zenon
<1>8. After(r, o, v) = After(q, o, After(p, o, v))
  BY <1>6, <1>7, AfterLast, Zenon
<1> QED  BY <1>1, <1>8, Zenon

(* What a single event tells. *)
Read(e, o, v) == IF e.obj = o /\ ~e.existing THEN e.version ELSE v

(* What one event tells. *)
LEMMA AfterOne ==
    ASSUME NEW e \in Event, NEW o, NEW v
    PROVE  /\ <<e>> \in Seq(Event) /\ After(<<e>>, o, v) = Read(e, o, v)
<1> DEFINE q == <<e>>
<1>1. q \in Seq(Event) /\ Len(q) = 1 /\ q[1] = e
  OBVIOUS
<1> HIDE DEF q
<1>2. CASE e.obj = o /\ ~e.existing
  <2>1. LastMine(q, o, 1)
    BY <1>1, <1>2 DEF LastMine, Mine
  <2> QED  BY <1>1, <1>2, <2>1, AfterLast, Zenon DEF Read, q
<1>3. CASE ~(e.obj = o /\ ~e.existing)
  <2>1. NoneMine(q, o)
    BY <1>1, <1>3 DEF NoneMine, Mine
  <2> QED  BY <1>1, <1>3, <2>1, AfterLast, Zenon DEF Read, q
<1> QED  BY <1>2, <1>3, Zenon

(* An event at the end of the channel is read last (Handle, SendExisting). *)
LEMMA AfterAppend ==
    ASSUME NEW q \in Seq(Event), NEW e \in Event, NEW o, NEW v
    PROVE  After(Append(q, e), o, v) = Read(e, o, After(q, o, v))
<1>1. Append(q, e) = q \o <<e>> /\ <<e>> \in Seq(Event)
  BY AppendConcat, AfterOne, Zenon
<1>2. After(q \o <<e>>, o, v) = After(<<e>>, o, After(q, o, v))
  <2>1. PICK h : h = <<e>> /\ h \in Seq(Event)
    BY <1>1, Zenon
  <2>2. After(q \o h, o, v) = After(h, o, After(q, o, v))
    <3>1. q \in Seq(Event) /\ h \in Seq(Event)
      BY <2>1, Zenon
    <3> QED  BY ONLY <3>1, AfterConcat, SMT
  <2> QED  BY <2>1, <2>2, Zenon
<1> QED  BY <1>1, <1>2, AfterOne, Zenon

(* The event at its head is read first (ReadEvent). *)
LEMMA AfterHead ==
    ASSUME NEW q \in Seq(Event), q # <<>>, NEW o, NEW v
    PROVE  /\ Head(q) \in Event /\ Tail(q) \in Seq(Event)
           /\ After(q, o, v) = After(Tail(q), o, Read(Head(q), o, v))
<1>1. Head(q) \in Event /\ Tail(q) \in Seq(Event)
  BY HeadAndTail, Zenon
<1>2. PICK h : h = <<Head(q)>> /\ h \in Seq(Event)
  BY <1>1, AfterOne, Zenon
<1>3. h \o Tail(q) = q
  <2>1. /\ Len(Tail(q)) = Len(q) - 1 /\ \A i \in 1..Len(Tail(q)) : Tail(q)[i] = q[i + 1]
    BY HeadAndTail, Zenon
  <2>2. PICK t : t = Tail(q) /\ t \in Seq(Event)
    BY <1>1, Zenon
  <2>3. /\ h \o t \in Seq(Event) /\ Len(h \o t) = Len(h) + Len(t)
        /\ \A i \in 1..(Len(h) + Len(t)) : (h \o t)[i] = IF i <= Len(h) THEN h[i] ELSE t[i - Len(h)]
    BY ONLY <1>2, <2>2, Concatenation
  <2>4. Len(h) = 1 /\ h[1] = q[1] /\ Len(q) \in Nat /\ Len(q) > 0
    BY <1>2
  <2>5. ASSUME NEW i \in 1..Len(q) PROVE (h \o t)[i] = q[i]
    <3>1. i \in 1..(Len(h) + Len(t)) /\ (i <= Len(h) <=> i = 1)
      BY <2>1, <2>2, <2>4
    <3>2. CASE i = 1
      BY <2>3, <2>4, <3>1, <3>2, Zenon
    <3>3. CASE i # 1
      <4>1. i - 1 \in 1..Len(t) /\ (i - 1) + 1 = i
        BY <2>1, <2>2, <2>4, <3>3
      <4>2. t[i - 1] = q[i]
        BY <2>1, <2>2, <4>1, Zenon
      <4> QED  BY <2>3, <2>4, <3>1, <3>3, <4>2, Zenon
    <3> QED  BY <3>2, <3>3, Zenon
  <2>6. Len(h \o t) = Len(q)
    BY <2>1, <2>2, <2>3, <2>4
  <2>7. h \o t = q
    BY <2>3, <2>5, <2>6, SameSequence, Zenon
  <2> QED  BY <2>2, <2>7, Zenon
<1>4. After(h \o Tail(q), o, v) = After(Tail(q), o, After(h, o, v))
  <2>1. PICK t : t = Tail(q) /\ t \in Seq(Event)
    BY <1>1, Zenon
  <2>2. After(h \o t, o, v) = After(t, o, After(h, o, v))
    <3>1. h \in Seq(Event) /\ t \in Seq(Event)
      BY <1>2, <2>1, Zenon
    <3> QED  BY ONLY <3>1, AfterConcat, SMT
  <2> QED  BY <2>1, <2>2, Zenon
<1>5. After(h, o, v) = Read(Head(q), o, v)
  BY <1>1, <1>2, AfterOne, Zenon
<1> QED  BY <1>1, <1>3, <1>4, <1>5, Zenon

(* Whoever reads N knows of the objects of O what to says, and nothing new *)
(* of the others.                                                          *)
Tells(N, to, O) ==
    /\ N \in Seq(Event)
    /\ \A o \in Objects : \A v : After(N, o, v) = IF o \in O THEN to[o] ELSE v

(* The notifications of Notes are about the objects of O, once each, and   *)
(* leave the reader with what the store holds of them.                     *)
LEMMA NotesTell ==
    ASSUME NEW to \in [Objects -> Nat], NEW O \in SUBSET Objects, NEW N \in Notes(to, O)
    PROVE  Tells(N, to, O)
<1> DEFINE note(o) == [obj |-> o, version |-> to[o], existing |-> FALSE]
           S == {note(o) : o \in O}
<1>1. PICK c \in 0..Cardinality(Objects) : N \in Bijection(1..c, S)
  BY Zenon DEF Notes
<1>2. S \subseteq Event
  <2>1. \A o \in O : o \in Objects /\ to[o] \in Nat
    BY Zenon
  <2>2. \A o \in O : note(o) \in Event
    BY <2>1, Zenon DEF Event
  <2> QED  BY <2>2, Zenon
<1>3. c \in Nat
  BY ObjectsAssumption
<1>4. /\ N \in [1..c -> S]
      /\ \A j, k \in 1..c : N[j] = N[k] => j = k
      /\ \A e \in S : \E k \in 1..c : N[k] = e
  <2>1. /\ N \in [1..c -> S] /\ IsInjective(N)
        /\ \A e \in S : \E k \in 1..c : N[k] = e
    BY <1>1, Zenon DEF Bijection, Injection, Surjection
  <2> QED  BY <2>1, Zenon DEF IsInjective
<1>5. \A e \in S : e.obj \in O /\ e = note(e.obj)
  <2>1. \A o \in O : note(o).obj = o
    BY Zenon
  <2> QED  BY <2>1, Zenon
<1>6. \A o \in O : note(o) \in S /\ note(o).obj = o
  BY Zenon
<1>7. \A o \in O : note(o).version = to[o] /\ ~note(o).existing
  BY Zenon
<1> HIDE DEF S, note
<1>8. N \in Seq(Event) /\ Len(N) = c
  BY <1>2, <1>3, <1>4
<1>9. ASSUME NEW o \in Objects, NEW v
      PROVE  After(N, o, v) = IF o \in O THEN to[o] ELSE v
  <2>1. CASE o \in O
    <3>1. PICK e \in S : e = note(o) /\ e.obj = o /\ e.version = to[o] /\ ~e.existing
      BY <1>6, <1>7, <2>1, Zenon
    <3>2. PICK k \in 1..c : N[k] = e
      BY <1>4, Zenon
    <3>3. LastMine(N, o, k)
      <4>1. k \in 1..Len(N) /\ Mine(N, o, k)
        BY <1>8, <3>1, <3>2, Zenon DEF Mine
      <4>2. ASSUME NEW j \in 1..Len(N), j > k, Mine(N, o, j) PROVE FALSE
        <5>1. j \in 1..c /\ N[j] \in S /\ N[j].obj = o
          BY <1>4, <1>8, <4>2, Zenon DEF Mine
        <5>2. N[j] = N[k]
          BY <1>5, <3>1, <3>2, <5>1, Zenon
        <5>3. j = k
          BY <1>4, <5>1, <5>2, Zenon
        <5> QED  BY <4>2, <5>3
      <4> QED  BY <4>1, <4>2, Zenon DEF LastMine
    <3>4. After(N, o, v) = N[k].version
      BY <1>8, <3>3, AfterLast, Zenon
    <3> QED  BY <2>1, <3>1, <3>2, <3>4, Zenon
  <2>2. CASE o \notin O
    <3>1. NoneMine(N, o)
      BY <1>4, <1>5, <1>8, <2>2 DEF NoneMine, Mine
    <3> QED  BY <1>8, <2>2, <3>1, AfterLast, Zenon
  <2> QED  BY <2>1, <2>2, Zenon
<1> QED  BY <1>8, <1>9, Zenon DEF Tells

-----------------------------------------------------------------------------
(* The informer adapter: no change is missed *)

Informers ==
    [synced : BOOLEAN, pos : Nat, store : [Objects -> Nat], listeners : SUBSET Adapters]

InformerTypes ==
    /\ history \in Seq([obj : Objects, version : Nat])
    /\ informers \in [Factories -> Informers]
    /\ phase \in [Adapters -> {"new", "waiting", "running", "stopped"}]
    /\ handlers \in [Adapters -> Seq(Event)] /\ events \in [Adapters -> Seq(Event)]
    /\ existing \in [Adapters -> SUBSET {e \in Event : e.existing}]
    /\ view \in [Adapters -> [Objects -> Nat]]

(* An adapter is a listener of its informer, and of no other, from Start on. *)
Listening ==
    \A f \in Factories : \A a \in Adapters :
        a \in informers[f].listeners <=> phase[a] # "new" /\ GetInformer(a) = f

(* Nothing is on its way to an adapter that is not started. *)
Fresh ==
    \A a \in Adapters : phase[a] = "new" =>
        /\ handlers[a] = <<>> /\ events[a] = <<>> /\ existing[a] = {}
        /\ view[a] = [o \in Objects |-> 0]

(* What the channel and then the handlers' queue will tell. *)
Knows(a, o) == After(handlers[a], o, After(events[a], o, view[a][o]))

(* Knows in the next state, in terms of the next state. *)
LEMMA KnowsNext ==
    ASSUME NEW a, NEW o
    PROVE  Knows(a, o)' = After(handlers'[a], o, After(events'[a], o, view'[a][o]))
BY Zenon DEF Knows, After

UpToDate ==
    \A a \in Adapters : \A o \in Objects :
        phase[a] # "new" => Knows(a, o) = informers[GetInformer(a)].store[o]

InformerInv == InformerTypes /\ Listening /\ Fresh /\ UpToDate

(* The state of an object after n changes is a version. *)
LEMMA AtType ==
    ASSUME history \in Seq([obj : Objects, version : Nat]), NEW n \in Nat, n <= Len(history),
           NEW o \in Objects
    PROVE  At(n, o) \in Nat
<1> DEFINE mine == {k \in 1..n : history[k].obj = o}
<1>1. CASE mine = {}
  BY <1>1, Zenon DEF At
<1>2. CASE mine # {}
  <2>1. Max(mine) \in mine
    BY <1>2, MaxOfPositions, Zenon
  <2>2. At(n, o) = history[Max(mine)].version
    BY <1>2, Zenon DEF At
  <2>3. ASSUME NEW k \in mine PROVE history[k].version \in Nat
    <3>1. k \in 1..Len(history)
      OBVIOUS
    <3>2. history[k] \in [obj : Objects, version : Nat]
      <4>1. PICK h : h = history
        BY Zenon
      <4> QED  BY <3>1, <4>1, ElementOf, Zenon
    <3> QED  BY <3>2, Zenon
  <2> QED  BY <2>1, <2>2, <2>3, Zenon
<1> QED  BY <1>1, <1>2, Zenon

(* The listeners of f, and no others, come to know what to says of O. *)
Informed(f, to, O) ==
    /\ handlers' \in [Adapters -> Seq(Event)]
    /\ \A a \in Adapters : a \notin informers[f].listeners => handlers'[a] = handlers[a]
    /\ \A a \in Adapters : \A o \in Objects :
          Knows(a, o)' = IF a \in informers[f].listeners /\ o \in O THEN to[o] ELSE Knows(a, o)

(* Every listener of f gets the notifications at the end of its queue,     *)
(* and knows in the end what they say.                                     *)
LEMMA DistributeTells ==
    ASSUME InformerInv, NEW f \in Factories, NEW to \in [Objects -> Nat],
           NEW O \in SUBSET Objects, Distribute(f, to, O),
           UNCHANGED <<phase, events, view>>
    PROVE  Informed(f, to, O)
<1>2. PICK n \in Notes(to, O) :
        handlers' = [a \in Adapters |->
                       IF a \in informers[f].listeners THEN handlers[a] \o n ELSE handlers[a]]
  BY Zenon DEF Distribute
<1>1. /\ n \in Seq(Event)
      /\ \A o \in Objects : \A v : After(n, o, v) = IF o \in O THEN to[o] ELSE v
  <2>1. Tells(n, to, O)
    BY ONLY to \in [Objects -> Nat], O \in SUBSET Objects, n \in Notes(to, O), NotesTell, Zenon
  <2> QED  BY <2>1, Zenon DEF Tells
<1>3. \A a \in Adapters : handlers[a] \in Seq(Event)
  BY Zenon DEF InformerInv, InformerTypes
<1>4. \A a \in Adapters : handlers[a] \o n \in Seq(Event)
  BY <1>1, <1>3, Concatenation, Zenon
<1>5. handlers' \in [Adapters -> Seq(Event)]
  BY <1>2, <1>3, <1>4, Zenon
<1>6. ASSUME NEW a \in Adapters, NEW o \in Objects
      PROVE  Knows(a, o)' = IF a \in informers[f].listeners /\ o \in O
                            THEN to[o] ELSE Knows(a, o)
  <2>1. PICK w : w = After(events[a], o, view[a][o])
    BY Zenon
  <2>2. Knows(a, o)' = After(handlers'[a], o, w) /\ Knows(a, o) = After(handlers[a], o, w)
    BY <2>1, KnowsNext, Zenon DEF Knows
  <2>3. CASE a \in informers[f].listeners
    <3>1. PICK h : h = handlers[a] /\ h \in Seq(Event)
      BY <1>3, Zenon
    <3>2. handlers'[a] = h \o n
      BY <1>2, <2>3, <3>1, Zenon
    <3>3. After(h \o n, o, w) = After(n, o, After(h, o, w))
      <4>1. h \in Seq(Event) /\ n \in Seq(Event)
        BY <1>1, <3>1, Zenon
      <4> QED  BY ONLY <4>1, AfterConcat, SMT
    <3> QED  BY <1>1, <2>2, <2>3, <3>1, <3>2, <3>3, Zenon
  <2>4. CASE a \notin informers[f].listeners
    BY <1>2, <2>2, <2>4, Zenon
  <2> QED  BY <2>3, <2>4, Zenon
<1> QED  BY <1>2, <1>5, <1>6, Zenon DEF Informed

(* client-go moves the store on and tells every listener, or repeats what  *)
(* the store holds.                                                        *)
LEMMA AdvanceInv ==
    ASSUME InformerInv, NEW f \in Factories, NEW n \in Nat, n <= Len(history), Advance(f, n)
    PROVE  InformerInv'
<1> DEFINE from == informers[f].store
           to == [o \in Objects |-> At(n, o)]
           O == {o \in Objects : from[o] # to[o]}
<1>1. to \in [Objects -> Nat]
  BY AtType, Zenon DEF InformerInv, InformerTypes
<1>2. /\ informers' = [informers EXCEPT ![f].store = to, ![f].pos = n, ![f].synced = TRUE]
      /\ Distribute(f, to, O)
      /\ UNCHANGED <<custom, history, resyncs, phase, listed, existing, events, view, up>>
  BY Zenon DEF Advance
<1>3. informers[f] \in Informers /\ O \in SUBSET Objects
  BY Zenon DEF InformerInv, InformerTypes
<1>4. \A o \in Objects : o \notin O => to[o] = from[o]
  BY Zenon
<1> HIDE DEF from, to, O
<1>5. /\ handlers' \in [Adapters -> Seq(Event)]
      /\ \A a \in Adapters : a \notin informers[f].listeners => handlers'[a] = handlers[a]
      /\ \A a \in Adapters : \A o \in Objects :
            Knows(a, o)' = IF a \in informers[f].listeners /\ o \in O THEN to[o] ELSE Knows(a, o)
  <2>1. PICK t, P : t = to /\ P = O
    BY Zenon
  <2>2. t \in [Objects -> Nat] /\ P \in SUBSET Objects /\ Distribute(f, t, P)
    BY <1>1, <1>2, <1>3, <2>1, Zenon
  <2>3. UNCHANGED <<phase, events, view>>
    BY <1>2, Zenon
  <2>4. Informed(f, t, P)
    BY <2>2, <2>3, DistributeTells, Zenon
  <2> QED  BY <2>1, <2>4, Zenon DEF Informed
<1>6. /\ informers' \in [Factories -> Informers]
      /\ informers'[f].store = to
      /\ \A g \in Factories : informers'[g].listeners = informers[g].listeners
      /\ \A g \in Factories \ {f} : informers'[g] = informers[g]
  <2>1. informers \in [Factories -> Informers]
    BY Zenon DEF InformerInv, InformerTypes
  <2>2. PICK i : /\ i = [informers[f] EXCEPT !.store = to, !.pos = n, !.synced = TRUE]
                 /\ informers' = [informers EXCEPT ![f] = i]
    BY <1>2, <2>1, Zenon
  <2>3. i = [synced |-> TRUE, pos |-> n, store |-> to, listeners |-> informers[f].listeners]
    BY <1>3, <2>2, Zenon DEF Informers
  <2>4. informers[f].listeners \in SUBSET Adapters
    BY <1>3, Zenon DEF Informers
  <2>5. i \in Informers /\ i.store = to /\ i.listeners = informers[f].listeners
    BY <1>1, <2>3, <2>4, Zenon DEF Informers
  <2> QED  BY <2>1, <2>2, <2>5, Zenon
<1>7. InformerTypes'
  BY <1>2, <1>5, <1>6, Zenon DEF InformerInv, InformerTypes
<1>8. Listening'
  BY <1>2, <1>6, Zenon DEF InformerInv, Listening, GetInformer
<1>9. Fresh'
  <2>1. \A a \in Adapters : phase[a] = "new" => a \notin informers[f].listeners
    BY Zenon DEF InformerInv, Listening
  <2> QED  BY <1>2, <1>5, <2>1, Zenon DEF InformerInv, Fresh
<1>10. ASSUME NEW a \in Adapters, NEW o \in Objects, phase'[a] # "new"
       PROVE  Knows(a, o)' = informers'[GetInformer(a)'].store[o]
  <2>1. phase[a] # "new" /\ GetInformer(a)' = GetInformer(a) /\ GetInformer(a) \in Factories
    BY <1>2, <1>10, Zenon DEF GetInformer, Factories
  <2>2. Knows(a, o) = informers[GetInformer(a)].store[o]
    BY <2>1, Zenon DEF InformerInv, UpToDate
  <2>3. a \in informers[f].listeners <=> GetInformer(a) = f
    BY <2>1, Zenon DEF InformerInv, Listening
  <2>4. CASE GetInformer(a) = f
    BY <1>4, <1>5, <1>6, <2>1, <2>2, <2>3, <2>4, Zenon DEF from
  <2>5. CASE GetInformer(a) # f
    BY <1>5, <1>6, <2>1, <2>2, <2>3, <2>5, Zenon
  <2> QED  BY <2>4, <2>5, Zenon
<1> QED  BY <1>7, <1>8, <1>9, <1>10, Zenon DEF InformerInv, UpToDate

(* A resync tells every listener what the store holds. *)
LEMMA ResyncInv == ASSUME InformerInv, Resync PROVE InformerInv'
<1> DEFINE s == informers["custom"].store
           O == {o \in Objects : s[o] # 0}
<1>1. /\ Distribute("custom", s, O)
      /\ UNCHANGED <<custom, history, informers, phase, listed, existing, events, view, up>>
  BY Zenon DEF Resync
<1>2. "custom" \in Factories /\ s \in [Objects -> Nat] /\ O \in SUBSET Objects
  BY Zenon DEF InformerInv, InformerTypes, Informers, Factories
<1> HIDE DEF s, O
<1>3. /\ handlers' \in [Adapters -> Seq(Event)]
      /\ \A a \in Adapters : a \notin informers["custom"].listeners => handlers'[a] = handlers[a]
      /\ \A a \in Adapters : \A o \in Objects :
            Knows(a, o)' = IF a \in informers["custom"].listeners /\ o \in O
                           THEN s[o] ELSE Knows(a, o)
  <2>1. PICK t, P : t = s /\ P = O
    BY Zenon
  <2>2. t \in [Objects -> Nat] /\ P \in SUBSET Objects /\ Distribute("custom", t, P)
    BY <1>1, <1>2, <2>1, Zenon
  <2>3. UNCHANGED <<phase, events, view>> /\ "custom" \in Factories
    BY <1>1, <1>2, Zenon
  <2>4. Informed("custom", t, P)
    BY <2>2, <2>3, DistributeTells, Zenon
  <2> QED  BY <2>1, <2>4, Zenon DEF Informed
<1>4. InformerTypes'
  BY <1>1, <1>3, Zenon DEF InformerInv, InformerTypes
<1>5. Listening'
  BY <1>1, Zenon DEF InformerInv, Listening, GetInformer
<1>6. Fresh'
  <2>1. \A a \in Adapters : phase[a] = "new" => a \notin informers["custom"].listeners
    BY <1>2, Zenon DEF InformerInv, Listening
  <2> QED  BY <1>1, <1>3, <2>1, Zenon DEF InformerInv, Fresh
<1>7. ASSUME NEW a \in Adapters, NEW o \in Objects, phase'[a] # "new"
      PROVE  Knows(a, o)' = informers'[GetInformer(a)'].store[o]
  <2>1. phase[a] # "new" /\ GetInformer(a)' = GetInformer(a) /\ informers' = informers
    BY <1>1, <1>7, Zenon DEF GetInformer
  <2>2. Knows(a, o) = informers[GetInformer(a)].store[o]
    BY <2>1, Zenon DEF InformerInv, UpToDate
  <2>3. a \in informers["custom"].listeners <=> GetInformer(a) = "custom"
    BY <1>2, <2>1, Zenon DEF InformerInv, Listening
  <2> QED  BY <1>3, <2>1, <2>2, <2>3, Zenon DEF s
<1> QED  BY <1>4, <1>5, <1>6, <1>7, Zenon DEF InformerInv, UpToDate

(* A new listener is told what the store of its informer holds. *)
LEMMA StartInv == ASSUME InformerInv, NEW a \in Adapters, Start(a) PROVE InformerInv'
<1> DEFINE f == GetInformer(a)
           s == informers[f].store
           O == {o \in Objects : s[o] # 0}
<1>1. /\ phase[a] = "new" /\ phase' = [phase EXCEPT ![a] = "waiting"]
      /\ informers' = [informers EXCEPT ![f].listeners = @ \cup {a}]
      /\ \E n \in Notes(s, O) : handlers' = [handlers EXCEPT ![a] = n]
      /\ UNCHANGED <<cluster, listed, existing, events, view, up>>
  BY Zenon DEF Start
<1>2. /\ f \in Factories /\ informers[f] \in Informers
      /\ s \in [Objects -> Nat] /\ O \in SUBSET Objects
  BY Zenon DEF InformerInv, InformerTypes, Informers, Factories, GetInformer
<1>3. \A o \in Objects : o \notin O => s[o] = 0
  BY Zenon
<1>4. \A b \in Adapters : GetInformer(b)' = GetInformer(b) /\ GetInformer(b) \in Factories
  BY <1>1, Zenon DEF GetInformer, Factories, cluster
<1> HIDE DEF f, s, O
<1>0. PICK n \in Notes(s, O) : handlers' = [handlers EXCEPT ![a] = n]
  BY <1>1, Zenon
<1>5. /\ n \in Seq(Event)
      /\ \A o \in Objects : \A v : After(n, o, v) = IF o \in O THEN s[o] ELSE v
  <2>1. PICK t, P : t = s /\ P = O
    BY Zenon
  <2>2. n \in Notes(t, P) /\ t \in [Objects -> Nat] /\ P \in SUBSET Objects
    BY <1>2, <2>1, Zenon
  <2>3. Tells(n, t, P)
    BY ONLY <2>2, NotesTell, Zenon
  <2> QED  BY <2>1, <2>3, Zenon DEF Tells
<1>6. /\ informers' \in [Factories -> Informers]
      /\ \A g \in Factories : informers'[g].store = informers[g].store
      /\ informers'[f].listeners = informers[f].listeners \cup {a}
      /\ \A g \in Factories \ {f} : informers'[g] = informers[g]
  <2>1. informers \in [Factories -> Informers]
    BY Zenon DEF InformerInv, InformerTypes
  <2>2. PICK i : /\ i = [informers[f] EXCEPT !.listeners = informers[f].listeners \cup {a}]
                 /\ informers' = [informers EXCEPT ![f] = i]
    BY <1>1, <1>2, <2>1, Zenon
  <2>3. i = [synced |-> informers[f].synced, pos |-> informers[f].pos, store |-> informers[f].store,
             listeners |-> informers[f].listeners \cup {a}]
    BY <1>2, <2>2, Zenon DEF Informers
  <2>4. /\ informers[f].listeners \cup {a} \in SUBSET Adapters /\ informers[f].synced \in BOOLEAN
        /\ informers[f].pos \in Nat /\ informers[f].store \in [Objects -> Nat]
    BY <1>2, Zenon DEF Informers
  <2>5. i \in Informers
    BY <2>3, <2>4, Zenon DEF Informers
  <2>6. i.store = informers[f].store /\ i.listeners = informers[f].listeners \cup {a}
    BY <2>3, Zenon
  <2> QED  BY <1>2, <2>1, <2>2, <2>5, <2>6, Zenon
<1>7. InformerTypes'
  <2>1. handlers' \in [Adapters -> Seq(Event)]
    BY <1>0, <1>5, Zenon DEF InformerInv, InformerTypes
  <2>2. phase' \in [Adapters -> {"new", "waiting", "running", "stopped"}]
    BY <1>1, Zenon DEF InformerInv, InformerTypes
  <2> QED  BY <1>1, <1>6, <2>1, <2>2, Zenon DEF InformerInv, InformerTypes, cluster
<1>8. /\ phase'[a] = "waiting" /\ handlers'[a] = n
      /\ \A b \in Adapters \ {a} : phase'[b] = phase[b] /\ handlers'[b] = handlers[b]
  BY <1>0, <1>1, Zenon DEF InformerInv, InformerTypes
<1>9. Listening'
  <2> SUFFICES ASSUME NEW g \in Factories, NEW b \in Adapters
               PROVE  b \in informers'[g].listeners <=> phase'[b] # "new" /\ GetInformer(b)' = g
    BY Zenon DEF Listening
  <2>1. b \in informers[g].listeners <=> phase[b] # "new" /\ GetInformer(b) = g
    BY Zenon DEF InformerInv, Listening
  <2> QED  BY <1>2, <1>4, <1>6, <1>8, <2>1 DEF f
<1>10. Fresh'
  BY <1>1, <1>8, Zenon DEF InformerInv, Fresh
<1>11. ASSUME NEW b \in Adapters, NEW o \in Objects, phase'[b] # "new"
       PROVE  Knows(b, o)' = informers'[GetInformer(b)'].store[o]
  <2>1. informers'[GetInformer(b)'].store[o] = informers[GetInformer(b)].store[o]
    BY <1>4, <1>6, Zenon
  <2>2. CASE b = a
    <3>1. events'[a] = <<>> /\ view'[a][o] = 0
      BY <1>1, Zenon DEF InformerInv, Fresh
    <3>2. After(<<>>, o, 0) = 0
      BY SMTT(30) DEF After
    <3>3. Knows(a, o)' = After(n, o, 0)
      <4>1. Knows(a, o)' = After(handlers'[a], o, After(events'[a], o, view'[a][o]))
        BY KnowsNext, Zenon
      <4> QED  BY <1>8, <3>1, <3>2, <4>1, Zenon
    <3> QED  BY <1>3, <1>5, <2>1, <2>2, <3>3, Zenon DEF s, f
  <2>3. CASE b # a
    <3>1. Knows(b, o)' = Knows(b, o)
      BY <1>1, <1>8, <2>3, KnowsNext, Zenon DEF Knows
    <3>2. phase[b] # "new"
      BY <1>8, <1>11, <2>3, Zenon
    <3> QED  BY <2>1, <3>1, <3>2, Zenon DEF InformerInv, UpToDate
  <2> QED  BY <2>2, <2>3, Zenon
<1> QED  BY <1>7, <1>9, <1>10, <1>11, Zenon DEF InformerInv, UpToDate

(* A step that moves events of one adapter, between its queue, its channel *)
(* and its reader, and leaves it with what it will know.                   *)
LEMMA MoveInv ==
    ASSUME InformerInv, NEW a \in Adapters, phase[a] # "new",
           UNCHANGED <<custom, history, informers, phase>>,
           handlers' \in [Adapters -> Seq(Event)], events' \in [Adapters -> Seq(Event)],
           existing' \in [Adapters -> SUBSET {e \in Event : e.existing}],
           view' \in [Adapters -> [Objects -> Nat]],
           \A b \in Adapters \ {a} : /\ handlers'[b] = handlers[b] /\ events'[b] = events[b]
                                     /\ existing'[b] = existing[b] /\ view'[b] = view[b],
           \A o \in Objects : Knows(a, o)' = Knows(a, o)
    PROVE  InformerInv'
<1>1. InformerTypes'
  BY Zenon DEF InformerInv, InformerTypes
<1>2. Listening'
  BY DEF InformerInv, Listening, GetInformer
<1>3. Fresh'
  BY Zenon DEF InformerInv, Fresh
<1>4. ASSUME NEW b \in Adapters, NEW o \in Objects, phase'[b] # "new"
      PROVE  Knows(b, o)' = informers'[GetInformer(b)'].store[o]
  <2>1. Knows(b, o)' = Knows(b, o)
    <3>1. CASE b # a
      <4>1. /\ handlers'[b] = handlers[b] /\ events'[b] = events[b] /\ view'[b] = view[b]
        BY <3>1, Zenon
      <4> QED  BY <4>1, KnowsNext, Zenon DEF Knows
    <3> QED  BY <3>1, Zenon
  <2>2. phase[b] # "new" /\ GetInformer(b)' = GetInformer(b)
    BY <1>4, Zenon DEF GetInformer
  <2> QED  BY <2>1, <2>2 DEF InformerInv, UpToDate
<1> QED  BY <1>1, <1>2, <1>3, <1>4, Zenon DEF InformerInv, UpToDate

(* A handler's event moves from the queue to the channel. *)
LEMMA HandleInv == ASSUME InformerInv, NEW a \in Adapters, Handle(a) PROVE InformerInv'
<1>1. /\ handlers[a] # <<>>
      /\ events' = [events EXCEPT ![a] = Append(events[a], Head(handlers[a]))]
      /\ handlers' = [handlers EXCEPT ![a] = Tail(handlers[a])]
      /\ UNCHANGED <<custom, history, informers, phase, existing, view>>
  BY Zenon DEF Handle, cluster
<1>2. PICK h, q : h = handlers[a] /\ q = events[a] /\ h \in Seq(Event) /\ q \in Seq(Event)
  BY Zenon DEF InformerInv, InformerTypes
<1>3. /\ Head(h) \in Event /\ Tail(h) \in Seq(Event)
      /\ \A o, v : After(h, o, v) = After(Tail(h), o, Read(Head(h), o, v))
  BY <1>1, <1>2, AfterHead, SMTT(30)
<1>4. /\ Append(q, Head(h)) \in Seq(Event)
      /\ \A o, v : After(Append(q, Head(h)), o, v) = Read(Head(h), o, After(q, o, v))
  BY <1>2, <1>3, AfterAppend, Appending, Zenon
<1>5. phase[a] # "new"
  BY <1>1, Zenon DEF InformerInv, Fresh
<1>6. /\ handlers'[a] = Tail(h) /\ events'[a] = Append(q, Head(h))
      /\ handlers' \in [Adapters -> Seq(Event)] /\ events' \in [Adapters -> Seq(Event)]
      /\ \A b \in Adapters \ {a} : handlers'[b] = handlers[b] /\ events'[b] = events[b]
  BY <1>1, <1>2, <1>3, <1>4, Zenon DEF InformerInv, InformerTypes
<1>7. ASSUME NEW o \in Objects PROVE Knows(a, o)' = Knows(a, o)
  <2>1. Knows(a, o)' = After(handlers'[a], o, After(events'[a], o, view[a][o]))
    BY <1>1, KnowsNext, Zenon DEF Knows
  <2>2. Knows(a, o)' = After(Tail(h), o, Read(Head(h), o, After(q, o, view[a][o])))
    BY <1>4, <1>6, <2>1, Zenon
  <2>3. Knows(a, o) = After(h, o, After(q, o, view[a][o]))
    BY <1>2, Zenon DEF Knows
  <2> QED  BY <1>3, <2>2, <2>3, Zenon
<1>8. /\ existing' \in [Adapters -> SUBSET {e \in Event : e.existing}]
      /\ view' \in [Adapters -> [Objects -> Nat]]
  BY <1>1, Zenon DEF InformerInv, InformerTypes
<1> QED  BY <1>1, <1>5, <1>6, <1>7, <1>8, MoveInv, Zenon

(* What the goroutine of Start sends is not counted. *)
LEMMA SendExistingInv ==
    ASSUME InformerInv, NEW a \in Adapters, SendExisting(a) PROVE InformerInv'
<1>1. PICK e \in existing[a] :
          /\ events' = [events EXCEPT ![a] = Append(events[a], e)]
          /\ existing' = [existing EXCEPT ![a] = existing[a] \ {e}]
          /\ UNCHANGED <<custom, history, informers, phase, handlers, view>>
  BY Zenon DEF SendExisting, cluster
<1>2. PICK q : q = events[a] /\ q \in Seq(Event)
  BY Zenon DEF InformerInv, InformerTypes
<1>3. e \in Event /\ e.existing
  BY Zenon DEF InformerInv, InformerTypes
<1>4. /\ Append(q, e) \in Seq(Event)
      /\ \A o, v : After(Append(q, e), o, v) = Read(e, o, After(q, o, v))
  BY <1>2, <1>3, AfterAppend, Appending, Zenon
<1>5. phase[a] # "new"
  BY Zenon DEF InformerInv, Fresh
<1>6. /\ events'[a] = Append(q, e) /\ events' \in [Adapters -> Seq(Event)]
      /\ existing' \in [Adapters -> SUBSET {x \in Event : x.existing}]
      /\ \A b \in Adapters \ {a} : events'[b] = events[b] /\ existing'[b] = existing[b]
  BY <1>1, <1>2, <1>4, Zenon DEF InformerInv, InformerTypes
<1>7. ASSUME NEW o \in Objects PROVE Knows(a, o)' = Knows(a, o)
  <2>1. Knows(a, o)' = After(handlers[a], o, After(events'[a], o, view[a][o]))
    BY <1>1, KnowsNext, Zenon DEF Knows
  <2>2. After(events'[a], o, view[a][o]) = After(q, o, view[a][o])
    BY <1>3, <1>4, <1>6, Zenon DEF Read
  <2> QED  BY <1>2, <2>1, <2>2, Zenon DEF Knows
<1>8. /\ handlers' \in [Adapters -> Seq(Event)]
      /\ view' \in [Adapters -> [Objects -> Nat]]
  BY <1>1, Zenon DEF InformerInv, InformerTypes
<1> QED  BY <1>1, <1>5, <1>6, <1>7, <1>8, MoveInv, Zenon

(* The reader takes over what the event at the head of the channel says. *)
LEMMA ReadEventInv ==
    ASSUME InformerInv, NEW a \in Adapters, ReadEvent(a) PROVE InformerInv'
<1>1. PICK q, e : q = events[a] /\ q \in Seq(Event) /\ q # <<>> /\ e = Head(q)
  BY Zenon DEF InformerInv, InformerTypes, ReadEvent
<1>2. /\ phase[a] # "new"
      /\ view' = IF e.existing THEN view ELSE [view EXCEPT ![a][e.obj] = e.version]
      /\ events' = [events EXCEPT ![a] = Tail(q)]
      /\ UNCHANGED <<custom, history, informers, phase, handlers, existing>>
  BY <1>1, Zenon DEF ReadEvent, cluster
<1>3. /\ e \in Event /\ Tail(q) \in Seq(Event)
      /\ \A o, v : After(q, o, v) = After(Tail(q), o, Read(e, o, v))
  BY <1>1, AfterHead
<1>4. e.obj \in Objects /\ e.version \in Nat
  BY <1>3, Zenon DEF Event
<1>5. /\ view' \in [Adapters -> [Objects -> Nat]]
      /\ \A b \in Adapters \ {a} : view'[b] = view[b]
      /\ \A o \in Objects : view'[a][o] = Read(e, o, view[a][o])
  <2>1. CASE e.existing
    BY <1>2, <2>1, Zenon DEF InformerInv, InformerTypes, Read
  <2>2. CASE ~e.existing
    <3>1. view' = [view EXCEPT ![a][e.obj] = e.version] /\ view \in [Adapters -> [Objects -> Nat]]
      BY <1>2, <2>2, Zenon DEF InformerInv, InformerTypes
    <3>2. view' \in [Adapters -> [Objects -> Nat]]
      BY <1>4, <3>1, Zenon
    <3> QED  BY <1>4, <2>2, <3>1, <3>2, Zenon DEF Read
  <2> QED  BY <2>1, <2>2, Zenon
<1>6. /\ events'[a] = Tail(q) /\ events' \in [Adapters -> Seq(Event)]
      /\ \A b \in Adapters \ {a} : events'[b] = events[b]
  BY <1>2, <1>3, Zenon DEF InformerInv, InformerTypes
<1>7. ASSUME NEW o \in Objects PROVE Knows(a, o)' = Knows(a, o)
  <2>1. Knows(a, o)' = After(handlers[a], o, After(events'[a], o, view'[a][o]))
    BY <1>2, KnowsNext, Zenon DEF Knows
  <2>2. After(events'[a], o, view'[a][o]) = After(q, o, view[a][o])
    BY <1>3, <1>5, <1>6
  <2> QED  BY <1>1, <2>1, <2>2, Zenon DEF Knows
<1>8. /\ handlers' \in [Adapters -> Seq(Event)]
      /\ existing' \in [Adapters -> SUBSET {x \in Event : x.existing}]
  BY <1>2, Zenon DEF InformerInv, InformerTypes
<1> QED  BY <1>2, <1>5, <1>6, <1>7, <1>8, MoveInv, Zenon

(* The goroutine of Start lists the store. *)
LEMMA ListExistingInv ==
    ASSUME InformerInv, NEW a \in Adapters, ListExisting(a) PROVE InformerInv'
<1> DEFINE s == informers[GetInformer(a)].store
           E == {[obj |-> o, version |-> s[o], existing |-> TRUE] :
                   o \in {x \in Objects : s[x] # 0}}
<1>1. /\ phase[a] # "new" /\ existing' = [existing EXCEPT ![a] = E]
      /\ UNCHANGED <<custom, history, informers, phase, handlers, events, view>>
  BY Zenon DEF ListExisting, cluster
<1>2. s \in [Objects -> Nat]
  BY Zenon DEF InformerInv, InformerTypes, Informers, GetInformer, Factories
<1> HIDE DEF s
<1>3. E \subseteq {e \in Event : e.existing}
  <2>1. ASSUME NEW o \in Objects
        PROVE  [obj |-> o, version |-> s[o], existing |-> TRUE] \in {e \in Event : e.existing}
    <3>1. s[o] \in Nat
      BY <1>2, Zenon
    <3>2. [obj |-> o, version |-> s[o], existing |-> TRUE] \in Event
      BY <3>1, Zenon DEF Event
    <3> QED  BY <3>2, Zenon
  <2> QED  BY <2>1, Zenon
<1> HIDE DEF E
<1>4. existing \in [Adapters -> SUBSET {e \in Event : e.existing}]
  BY Zenon DEF InformerInv, InformerTypes
<1>5. /\ existing' \in [Adapters -> SUBSET {e \in Event : e.existing}]
      /\ \A b \in Adapters \ {a} : existing'[b] = existing[b]
  BY <1>1, <1>3, <1>4, Zenon
<1>6. \A o \in Objects : Knows(a, o)' = Knows(a, o)
  BY <1>1, KnowsNext, Zenon DEF Knows
<1>7. /\ handlers' \in [Adapters -> Seq(Event)] /\ events' \in [Adapters -> Seq(Event)]
      /\ view' \in [Adapters -> [Objects -> Nat]]
  BY <1>1, Zenon DEF InformerInv, InformerTypes
<1> QED  BY <1>1, <1>5, <1>6, <1>7, MoveInv, Zenon

(* Start's goroutine gives up its list; the handlers go on. *)
LEMMA SeesStopInv == ASSUME InformerInv, NEW a \in Adapters, SeesStop(a) PROVE InformerInv'
<1>1. /\ phase[a] # "new" /\ existing' = [existing EXCEPT ![a] = {}]
      /\ UNCHANGED <<custom, history, informers, phase, handlers, events, view>>
  BY Zenon DEF SeesStop, cluster
<1>2. existing \in [Adapters -> SUBSET {e \in Event : e.existing}]
  BY Zenon DEF InformerInv, InformerTypes
<1>3. /\ existing' \in [Adapters -> SUBSET {e \in Event : e.existing}]
      /\ \A b \in Adapters \ {a} : existing'[b] = existing[b]
  BY <1>1, <1>2, Zenon
<1>4. \A o \in Objects : Knows(a, o)' = Knows(a, o)
  BY <1>1, KnowsNext, Zenon DEF Knows
<1>5. /\ handlers' \in [Adapters -> Seq(Event)] /\ events' \in [Adapters -> Seq(Event)]
      /\ view' \in [Adapters -> [Objects -> Nat]]
  BY <1>1, Zenon DEF InformerInv, InformerTypes
<1> QED  BY <1>1, <1>3, <1>4, <1>5, MoveInv, Zenon

(* Start returns and Stop: neither starts an adapter that is new. *)
LEMMA PhaseInv ==
    ASSUME InformerInv, NEW a \in Adapters, NEW p \in {"running", "stopped"}, phase[a] # "new",
           phase' = [phase EXCEPT ![a] = p],
           UNCHANGED <<custom, history, informers, handlers, events, existing, view>>
    PROVE  InformerInv'
<1>1. /\ phase' \in [Adapters -> {"new", "waiting", "running", "stopped"}]
      /\ \A b \in Adapters : phase'[b] = "new" <=> phase[b] = "new"
  BY Zenon DEF InformerInv, InformerTypes
<1>2. InformerTypes' /\ Listening' /\ Fresh'
  BY <1>1, Zenon DEF InformerInv, InformerTypes, Listening, Fresh, GetInformer
<1>3. \A b \in Adapters : \A o \in Objects : Knows(b, o)' = Knows(b, o)
  BY KnowsNext, Zenon DEF Knows
<1>4. UpToDate'
  BY <1>1, <1>3 DEF InformerInv, UpToDate, GetInformer
<1> QED  BY <1>2, <1>4, Zenon DEF InformerInv

(* Nothing the adapters hold changes with the resource, or with the end of *)
(* the process.                                                            *)
LEMMA FrameInv ==
    ASSUME InformerInv, history' \in Seq([obj : Objects, version : Nat]),
           UNCHANGED <<custom, informers, phase, handlers, events, existing, view>>
    PROVE  InformerInv'
<1>1. InformerTypes' /\ Listening' /\ Fresh'
  BY Zenon DEF InformerInv, InformerTypes, Listening, Fresh, GetInformer
<1>2. \A b \in Adapters : \A o \in Objects : Knows(b, o)' = Knows(b, o)
  BY KnowsNext, Zenon DEF Knows
<1>3. UpToDate'
  BY <1>2, Zenon DEF InformerInv, UpToDate, GetInformer
<1> QED  BY <1>1, <1>3, Zenon DEF InformerInv

(* Every step keeps the invariant. *)
LEMMA NextInformerInv ==
    ASSUME InformerInv, Next \/ UNCHANGED informerVars
    PROVE  InformerInv'
<1>1. CASE UNCHANGED informerVars
  <2>1. /\ UNCHANGED <<custom, informers, phase, handlers, events, existing, view>>
        /\ history' = history
    BY <1>1, Zenon DEF informerVars
  <2> QED  BY <2>1, FrameInv, Zenon DEF InformerInv, InformerTypes
<1>2. ASSUME NEW o \in Objects, Change(o) PROVE InformerInv'
  <2>1. UNCHANGED <<custom, informers, phase, handlers, events, existing, view>>
    BY <1>2, Zenon DEF Change, channels
  <2>2. history' \in Seq([obj : Objects, version : Nat])
    <3>1. PICK v \in Nat : history' = Append(history, [obj |-> o, version |-> v])
      <4>1. Len(history) + 1 \in Nat
        BY DEF InformerInv, InformerTypes
      <4> QED  BY <1>2, <4>1, Zenon DEF Change
    <3>2. [obj |-> o, version |-> v] \in [obj : Objects, version : Nat]
      BY Zenon
    <3>3. history \in Seq([obj : Objects, version : Nat])
      BY Zenon DEF InformerInv, InformerTypes
    <3> QED  BY <3>1, <3>2, <3>3, Appending, Zenon
  <2> QED  BY <2>1, <2>2, FrameInv, Zenon
<1>3. ASSUME NEW f \in Factories, List(f) \/ Watch(f) PROVE InformerInv'
  <2>1. Len(history) \in Nat /\ informers[f].pos \in Nat
    BY SMTT(30) DEF InformerInv, InformerTypes, Informers
  <2>2. PICK n \in Nat : n <= Len(history) /\ Advance(f, n)
    BY <1>3, <2>1, SMTT(30) DEF List, Watch
  <2> QED  BY <2>2, AdvanceInv, Zenon
<1>4. ASSUME NEW a \in Adapters, SendPanics(a) PROVE InformerInv'
  <2>1. /\ UNCHANGED <<custom, informers, phase, handlers, events, existing, view>>
        /\ history' = history
    BY <1>4, Zenon DEF SendPanics, cluster
  <2> QED  BY <2>1, FrameInv, Zenon DEF InformerInv, InformerTypes
<1>5. ASSUME NEW a \in Adapters, Started(a) PROVE InformerInv'
  <2>1. /\ phase[a] # "new" /\ phase' = [phase EXCEPT ![a] = "running"]
        /\ UNCHANGED <<custom, history, informers, handlers, events, existing, view>>
    BY <1>5, Zenon DEF Started, cluster, channels
  <2> QED  BY <2>1, PhaseInv, Zenon
<1>6. ASSUME NEW a \in Adapters, Stop(a) PROVE InformerInv'
  <2>1. /\ phase[a] # "new" /\ phase' = [phase EXCEPT ![a] = "stopped"]
        /\ UNCHANGED <<custom, history, informers, handlers, events, existing, view>>
    BY <1>6, Zenon DEF Stop, cluster, channels
  <2> QED  BY <2>1, PhaseInv, Zenon
<1> QED
  BY <1>1, <1>2, <1>3, <1>4, <1>5, <1>6, ResyncInv, StartInv, HandleInv, SendExistingInv,
     ReadEventInv, ListExistingInv, SeesStopInv, Zenon DEF Next

(* At the start no adapter is started. *)
LEMMA InitInformerInv == Init => InformerInv
<1> SUFFICES ASSUME Init PROVE InformerInv
  BY Zenon
<1>1. history \in Seq([obj : Objects, version : Nat])
  <2>1. CASE history = <<>>
    BY <2>1
  <2>2. ASSUME NEW h \in [{1} -> {[obj |-> o, version |-> 1] : o \in Objects}]
        PROVE  h \in Seq([obj : Objects, version : Nat])
    <3>1. PICK o \in Objects : h[1] = [obj |-> o, version |-> 1]
      BY Zenon
    <3>2. [obj |-> o, version |-> 1] \in [obj : Objects, version : Nat]
      BY Zenon
    <3>3. {1} = 1..1
      OBVIOUS
    <3>4. PICK T : T = [obj : Objects, version : Nat]
      BY Zenon
    <3>5. PICK n \in Nat : h \in [1..n -> T]
      BY <3>1, <3>2, <3>3, <3>4, SMTT(30)
    <3>6. h \in Seq(T)
      BY <3>5, SMTT(30)
    <3> QED  BY <3>4, <3>6, Zenon
  <2> QED  BY <2>1, <2>2, Zenon DEF Init
<1>2. informers \in [Factories -> Informers]
  <2>1. [synced |-> FALSE, pos |-> 0, store |-> [o \in Objects |-> 0],
         listeners |-> {}] \in Informers
    BY Zenon DEF Informers
  <2> QED  BY <2>1, Zenon DEF Init
<1>3. /\ phase = [a \in Adapters |-> "new"]
      /\ handlers = [a \in Adapters |-> <<>>] /\ existing = [a \in Adapters |-> {}]
      /\ events = [a \in Adapters |-> <<>>] /\ view = [a \in Adapters |-> [o \in Objects |-> 0]]
  BY Zenon DEF Init
<1>4. InformerTypes
  BY <1>1, <1>2, <1>3, SMTT(30) DEF InformerTypes
<1>5. \A f \in Factories : informers[f].listeners = {}
  BY Zenon DEF Init
<1>6. Listening /\ Fresh /\ UpToDate
  BY <1>3, <1>5, Zenon DEF Listening, Fresh, UpToDate
<1> QED  BY <1>4, <1>6, Zenon DEF InformerInv

(* The events on their way take the reader of an informer adapter to what  *)
(* the store of its informer holds, for any number of adapters that share  *)
(* the informers, any objects, changes, lists, resyncs and places in the   *)
(* channel (createEventHandlers, Start, Stop, the manager's GetInformer).  *)
THEOREM NoChangeMissed == Spec => []NothingMissed
<1>1. MCInit => InformerInv
  BY InitInformerInv, Zenon DEF MCInit
<1>2. InformerInv /\ [MCNext]_allVars => InformerInv'
  <2> SUFFICES ASSUME InformerInv, [MCNext]_allVars PROVE InformerInv'
    BY Zenon
  <2>1. Next \/ UNCHANGED informerVars
    BY Zenon DEF MCNext, allVars, Informer, LogsOnly
  <2> QED  BY <2>1, NextInformerInv, Zenon
<1>3. InformerInv => NothingMissed
  <2> SUFFICES ASSUME InformerInv, NEW a \in Adapters, NEW o \in Objects, phase[a] # "new"
               PROVE  WillKnow(a, o) = informers[GetInformer(a)].store[o]
    BY Zenon DEF NothingMissed
  <2>1. PICK q, h : q = events[a] /\ h = handlers[a] /\ q \in Seq(Event) /\ h \in Seq(Event)
    BY Zenon DEF InformerInv, InformerTypes
  <2>2. After(q \o h, o, view[a][o]) = After(h, o, After(q, o, view[a][o]))
    <3>1. q \in Seq(Event) /\ h \in Seq(Event)
      BY <2>1, Zenon
    <3> QED  BY ONLY <3>1, AfterConcat, SMT
  <2>3. WillKnow(a, o) = Knows(a, o)
    BY <2>1, <2>2, Zenon DEF WillKnow, Knows
  <2> QED  BY <2>3, Zenon DEF InformerInv, UpToDate
<1> QED  BY <1>1, <1>2, <1>3, PTL DEF Spec

=============================================================================
