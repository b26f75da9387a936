------------------------------ MODULE Collector ------------------------------
(***************************************************************************)
(* Retention of Observations: setTTLIfNotSet of the observation creator    *)
(* gives an object its time to live, and the garbage collector (pkg/gc)    *)
(* lists the objects page by page and deletes the expired ones.  A process *)
(* that lost its leadership keeps collecting, so several collectors may    *)
(* run at once.  The API server may refuse a listing or a deletion, let a  *)
(* continue token expire, or delete an object and lose the answer; a run   *)
(* may exceed its timeout.                                                 *)
(*                                                                         *)
(* An object's name is its number, which also is the order in which the    *)
(* API server lists.  Names are not reused (they are generated).  Pages of *)
(* one listing show the objects as they were when it began.                *)
(***************************************************************************)
EXTENDS Integers, FiniteSets, FiniteSetsExt

CONSTANTS
    Objects,       \* names: a set of positive integers
    Collectors,    \* the processes that run a collector
    Namespaces,    \* namespaces of Observations
    WatchNamespace,\* WATCH_NAMESPACE, or None
    ChunkSize,     \* GCListChunkSize
    TTLs,          \* values of spec.ttlSecondsAfterCreation; 0: not set
    DefaultTTL,    \* ttlDays of the collector, in units of time
    EnvSeconds,    \* OBSERVATION_TTL_SECONDS, 0 if not set, negative if set
                   \* to anything but a positive number
    EnvDays,       \* OBSERVATION_TTL_DAYS, 0 if not set
    DayLength,     \* a day, in units of time
    MinTTL, MaxTTL,\* DefaultTTLMinSeconds, DefaultTTLMaxSeconds
    CreateUntil,   \* no object is created after this time
    MaxTime,       \* the clock stops here
    MaxFailures,   \* failing calls and timeouts
    None

ASSUME ObjectsAssumption == IsFiniteSet(Objects) /\ Objects \subseteq Nat \ {0}
ASSUME ChunkAssumption == ChunkSize \in Nat \ {0}
ASSUME TTLAssumption ==
    /\ TTLs \subseteq Nat /\ DefaultTTL \in Nat \ {0}
    /\ EnvSeconds \in Int /\ EnvDays \in Nat /\ DayLength \in Nat \ {0}
    /\ MinTTL \in Nat \ {0} /\ MaxTTL \in Nat /\ MinTTL <= MaxTTL
ASSUME BoundAssumption ==
    CreateUntil \in Nat /\ MaxTime \in Nat /\ MaxFailures \in Nat
ASSUME NamespaceAssumption == WatchNamespace \in Namespaces \cup {None}

VARIABLES
    now,
    objects,   \* name -> [created, ttl, ns], or None
    names,     \* names in use so far
    pc,        \* of each collector: "wait", "list", "chunk", "delete"
    snap,      \* the objects as the current listing sees them
    token,     \* the last name listed; 0 at the start of a listing
    chunk,     \* names of the current page still to process
    cutoff,    \* cutoffTime of the current run
    deleted,   \* ObservationsDeleted of each process
    failures,
    gone       \* history: the deletions collectors caused

vars == <<now, objects, names, pc, snap, token, chunk, cutoff, deleted,
          failures, gone>>
run == <<snap, token, chunk, cutoff>>

-----------------------------------------------------------------------------
(* setTTLIfNotSet *)

Clamp(t) == IF t < MinTTL THEN MinTTL ELSE IF t > MaxTTL THEN MaxTTL ELSE t

(* OBSERVATION_TTL_DAYS is looked at only if OBSERVATION_TTL_SECONDS is    *)
(* not set; if that is set and unusable the default applies.               *)
DefaultTTLSeconds == IF EnvSeconds > 0 THEN EnvSeconds
                     ELSE IF EnvSeconds = 0 /\ EnvDays > 0
                     THEN EnvDays * DayLength
                     ELSE 7 * DayLength

SetTTLIfNotSet(ttl) == IF ttl > 0 THEN ttl ELSE Clamp(DefaultTTLSeconds)

-----------------------------------------------------------------------------
NoObjects == [o \in Objects |-> None]

Init ==
    /\ now = 0
    /\ objects = NoObjects /\ names = {}
    /\ pc = [c \in Collectors |-> "wait"]
    /\ snap = [c \in Collectors |-> NoObjects]
    /\ token = [c \in Collectors |-> 0]
    /\ chunk = [c \in Collectors |-> {}]
    /\ cutoff = [c \in Collectors |-> 0]
    /\ deleted = [c \in Collectors |-> 0]
    /\ failures = 0
    /\ gone = {}

Tick == /\ now < MaxTime
        /\ now' = now + 1
        /\ UNCHANGED <<objects, names, pc, run, deleted, failures, gone>>

(* An Observation appears: written by the observation creator, which sets  *)
(* the TTL, or by somebody else, who may not.                              *)
CreateObservation(o, ns) ==
    /\ now <= CreateUntil
    /\ o \notin names
    /\ \E given \in TTLs : \E ttl \in {SetTTLIfNotSet(given), given} :
          objects' = [objects EXCEPT ![o] = [created |-> now, ttl |-> ttl, ns |-> ns]]
    /\ names' = names \cup {o}
    /\ UNCHANGED <<now, pc, run, deleted, failures, gone>>

(* A user or another controller deletes an Observation. *)
DeleteByUser(o) ==
    /\ objects[o] # None
    /\ objects' = [objects EXCEPT ![o] = None]
    /\ UNCHANGED <<now, names, pc, run, deleted, failures, gone>>

-----------------------------------------------------------------------------
Goto(c, l) == pc' = [pc EXCEPT ![c] = l]

(* The run's local variables go out of scope. *)
EndRun(c) == /\ Goto(c, "wait")
             /\ snap' = [snap EXCEPT ![c] = NoObjects]
             /\ token' = [token EXCEPT ![c] = 0]
             /\ chunk' = [chunk EXCEPT ![c] = {}]
             /\ cutoff' = [cutoff EXCEPT ![c] = 0]

(* runGC starts: the cutoff, and the first request, which fixes what the   *)
(* pages of the listing show.                                              *)
RunGC(c) ==
    /\ pc[c] = "wait"
    /\ cutoff' = [cutoff EXCEPT ![c] = now - DefaultTTL]
    /\ snap' = [snap EXCEPT ![c] = objects]
    /\ Goto(c, "list")
    /\ UNCHANGED <<now, objects, names, token, chunk, deleted, failures, gone>>

InScope(x) == WatchNamespace = None \/ x.ns = WatchNamespace

EveryNamespace(c) == {o \in Objects : o > token[c] /\ snap[c][o] # None}

Remaining(c) == {o \in Objects : /\ o > token[c]
                                 /\ snap[c][o] # None
                                 /\ InScope(snap[c][o])}

(* The next ChunkSize objects of the listing. *)
Page(c) == {o \in Remaining(c) :
               Cardinality({p \in Remaining(c) : p < o}) < ChunkSize}

(* The next page arrives. *)
ListPage(c) ==
    /\ pc[c] = "list"
    /\ chunk' = [chunk EXCEPT ![c] = Page(c)]
    /\ token' = [token EXCEPT ![c] = Max(Page(c) \cup {token[c]})]
    /\ Goto(c, "chunk")
    /\ UNCHANGED <<now, objects, names, snap, cutoff, deleted, failures, gone>>

(* The listing fails, its continue token has expired or the run is out of  *)
(* time: the run is over.                                                  *)
ListFails(c) ==
    /\ pc[c] = "list"
    /\ failures < MaxFailures
    /\ failures' = failures + 1
    /\ EndRun(c)
    /\ UNCHANGED <<now, objects, names, deleted, gone>>

(* sdkttl.IsExpired *)
IsExpired(x, time) == time > x.created + x.ttl

DefaultOnly(x, time, limit) == x.created < limit

SpecOnly(x, time, limit) == x.ttl > 0 /\ IsExpired(x, time)

(* The object's own TTL decides if it is set, else the collector's.        *)
ShouldDelete(x, time, limit) ==
    IF x.ttl > 0 THEN IsExpired(x, time) ELSE x.created < limit

(* The page is worked off in order. *)
Decide(c) ==
    /\ pc[c] = "chunk" /\ chunk[c] # {}
    /\ LET o == Min(chunk[c]) IN
       IF ShouldDelete(snap[c][o], now, cutoff[c])
       THEN Goto(c, "delete") /\ UNCHANGED chunk
       ELSE chunk' = [chunk EXCEPT ![c] = @ \ {o}] /\ UNCHANGED pc
    /\ UNCHANGED <<now, objects, names, snap, token, cutoff, deleted,
                   failures, gone>>

Advance(c, o) == /\ chunk' = [chunk EXCEPT ![c] = @ \ {o}]
               /\ Goto(c, "chunk")
               /\ UNCHANGED <<now, names, snap, token, cutoff>>

Record(c, o, answered) ==
    gone \cup {[name |-> o, x |-> objects[o], at |-> now, by |-> c,
                answered |-> answered]}

CountAttempt(c, o) == [deleted EXCEPT ![c] = @ + 1]

(* The counter is incremented when the API server confirms the deletion;   *)
(* "not found" is an error like any other.                                 *)
CountDeleted(c, o) == IF objects[o] # None THEN [deleted EXCEPT ![c] = @ + 1]
                      ELSE deleted

Delete(c) ==
    LET o == Min(chunk[c]) IN
    /\ pc[c] = "delete"
    /\ objects' = [objects EXCEPT ![o] = None]
    /\ deleted' = CountDeleted(c, o)
    /\ gone' = IF objects[o] # None THEN Record(c, o, TRUE) ELSE gone
    /\ Advance(c, o)
    /\ UNCHANGED failures

(* The call fails, before or after the object was deleted. *)
DeleteFails(c) ==
    LET o == Min(chunk[c]) IN
    /\ pc[c] = "delete"
    /\ failures < MaxFailures
    /\ failures' = failures + 1
    /\ \/ UNCHANGED <<objects, gone>>
       \/ /\ objects[o] # None
          /\ objects' = [objects EXCEPT ![o] = None]
          /\ gone' = Record(c, o, FALSE)
    /\ Advance(c, o)
    /\ UNCHANGED deleted

(* The answer carried a continue token. *)
MorePages(c) == Remaining(c) # {}

(* The page is done: get the next one or end the run. *)
EndOfPage(c) ==
    /\ pc[c] = "chunk" /\ chunk[c] = {}
    /\ IF MorePages(c) THEN Goto(c, "list") /\ UNCHANGED run ELSE EndRun(c)
    /\ UNCHANGED <<now, objects, names, deleted, failures, gone>>

Collect(c) == RunGC(c) \/ ListPage(c) \/ Decide(c) \/ Delete(c) \/ EndOfPage(c)

Next == \/ Tick
        \/ \E o \in Objects : \/ \E ns \in Namespaces : CreateObservation(o, ns)
                              \/ DeleteByUser(o)
        \/ \E c \in Collectors : Collect(c) \/ ListFails(c) \/ DeleteFails(c)

Spec == Init /\ [][Next]_vars

(* Time passes and the collector's ticker and calls go on. *)
FairSpec == /\ Spec /\ WF_vars(Tick)
            /\ \A c \in Collectors : WF_vars(Collect(c))

-----------------------------------------------------------------------------
Expired(x, time) == IF x.ttl > 0 THEN IsExpired(x, time)
                    ELSE time > x.created + DefaultTTL

(* Type invariant. *)
TypeOK ==
    /\ now \in 0..MaxTime
    /\ \A o \in Objects : objects[o] = None \/
          /\ objects[o].created \in 0..MaxTime
          /\ objects[o].ttl \in TTLs \cup MinTTL..MaxTTL
          /\ objects[o].ns \in Namespaces
    /\ names \subseteq Objects
    /\ pc \in [Collectors -> {"wait", "list", "chunk", "delete"}]
    /\ token \in [Collectors -> Objects \cup {0}]
    /\ chunk \in [Collectors -> SUBSET Objects]
    /\ deleted \in [Collectors -> 0..Cardinality(Objects)]
    /\ failures \in 0..MaxFailures

(* No collector deletes an Observation before its own TTL, or the default  *)
(* one if it has none, has run out, although it decides from a listing     *)
(* that is old by the time it deletes; and a TTL that the creator set is   *)
(* not below the minimum, whatever the environment says (setTTLIfNotSet).  *)
NeverEarly ==
    \A g \in gone : /\ Expired(g.x, g.at)
                    /\ g.x.ttl \notin TTLs => g.at > g.x.created + MinTTL

(* With WATCH_NAMESPACE set, no collector deletes anything elsewhere. *)
ScopeRespected == \A g \in gone : InScope(g.x)

(* The counter of a process counts exactly the deletions that the API      *)
(* server confirmed to it, and no object is deleted twice: two collectors  *)
(* that find the same expired object do not both count it, and an object   *)
(* somebody else deleted in the meantime is not counted.                   *)
CountersExact ==
    /\ \A c \in Collectors :
          deleted[c] = Cardinality({g \in gone : g.by = c /\ g.answered})
    /\ \A g, h \in gone : g.name = h.name => g = h

(* Every Observation in scope is removed sometime: failed calls, aborted   *)
(* runs and objects on later pages only delay it.                          *)
Collected ==
    \A o \in Objects :
        (objects[o] # None /\ InScope(objects[o])) ~> (objects[o] = None)
=============================================================================
