--------------------------- MODULE CollectorProofs ---------------------------
(***************************************************************************)
(* No collector deletes an Observation early or outside its namespace, for *)
(* any number of objects, processes, TTLs and page sizes.                  *)
(*                                                                         *)
(* A collector decides from a listing and deletes later, by name.  The     *)
(* proof is that the listing cannot mislead it: names are not reused, so   *)
(* an object that still exists is the one listed (Faithful); what was      *)
(* expired stays expired while time passes; and the cutoff, which is       *)
(* computed once per run, only gets older (Ready).                         *)
(***************************************************************************)
EXTENDS Collector, FiniteSetTheorems, WellFoundedInduction, TLAPS

Observation == [created : Nat, ttl : TTLs \cup MinTTL..MaxTTL, ns : Namespaces]

Types ==
    /\ now \in Nat
    /\ objects \in [Objects -> Observation \cup {None}]
    /\ pc \in [Collectors -> {"wait", "list", "chunk", "delete"}]
    /\ snap \in [Collectors -> [Objects -> Observation \cup {None}]]
    /\ chunk \in [Collectors -> SUBSET Objects]
    /\ cutoff \in [Collectors -> Int]

(* An object that exists is the one that a listing shows by its name. *)
Faithful ==
    /\ \A o \in Objects : objects[o] # None => o \in names
    /\ \A c \in Collectors, o \in Objects :
          snap[c][o] # None =>
             /\ o \in names
             /\ objects[o] # None => objects[o] = snap[c][o]

(* What a collector knows where it is. *)
Ready(c) ==
    /\ pc[c] \in {"wait", "list"} => chunk[c] = {}
    /\ pc[c] # "wait" => cutoff[c] + DefaultTTL <= now
    /\ \A o \in chunk[c] : snap[c][o] # None /\ InScope(snap[c][o])
    /\ pc[c] = "delete" =>
          /\ chunk[c] # {}
          /\ ShouldDelete(snap[c][Min(chunk[c])], now, cutoff[c])

IInv == /\ Types
        /\ Faithful
        /\ \A c \in Collectors : Ready(c)
        /\ NeverEarly
        /\ ScopeRespected

-----------------------------------------------------------------------------
(* The next object of a page that is not done is one of the page. *)
LEMMA MinOfPage ==
    ASSUME NEW S, S \subseteq Objects, S # {}
    PROVE  Min(S) \in S
<1>1. S \subseteq Nat
  BY ObjectsAssumption, Zenon
<1>2. \E x \in S : \A y \in S : ~(<<y, x>> \in OpToRel(<, Nat))
  BY <1>1, NatLessThanWellFounded, WFMin, Zenon
<1>3. PICK x \in S : \A y \in S : ~(<<y, x>> \in OpToRel(<, Nat))
  BY <1>2, Zenon
<1>4. ASSUME NEW y \in S, y < x
      PROVE  FALSE
  <2>1. <<y, x>> \in Nat \X Nat /\ <<y, x>>[1] < <<y, x>>[2]
    BY <1>1, <1>4, Zenon
  <2>2. <<y, x>> \in OpToRel(<, Nat)
    BY <2>1, Zenon DEF OpToRel
  <2> QED  BY <1>3, <2>2, Zenon
<1>5. \A y \in S : x =< y
  BY <1>1, <1>4
<1> QED  BY <1>5, Zenon DEF Min

(* A TTL that setTTLIfNotSet chooses is within the limits. *)
LEMMA ChosenTTL ==
    ASSUME NEW given \in TTLs
    PROVE  SetTTLIfNotSet(given) \in TTLs \cup MinTTL..MaxTTL
<1>1. DefaultTTLSeconds \in Int
  BY TTLAssumption DEF DefaultTTLSeconds
<1>2. Clamp(DefaultTTLSeconds) \in MinTTL..MaxTTL
  BY <1>1, TTLAssumption DEF Clamp
<1> QED  BY <1>2, Zenon DEF SetTTLIfNotSet

(* An Observation's times are numbers. *)
LEMMA Times ==
    ASSUME NEW x \in Observation
    PROVE  x.created \in Nat /\ x.ttl \in Nat
<1>1. x.created \in Nat /\ x.ttl \in TTLs \cup MinTTL..MaxTTL
  BY Zenon DEF Observation
<1>2. TTLs \subseteq Nat /\ MinTTL \in Nat /\ MaxTTL \in Nat
  BY TTLAssumption, Zenon
<1>3. CASE x.ttl \in TTLs
  BY <1>1, <1>2, <1>3, Zenon
<1>4. CASE x.ttl \in MinTTL..MaxTTL
  BY <1>1, <1>2, <1>4
<1> QED  BY <1>1, <1>3, <1>4, Zenon

(* What the collector decided to delete stays deletable while time passes. *)
LEMMA StillDeletable ==
    ASSUME NEW x \in Observation, NEW t \in Nat, NEW u \in Nat, t <= u,
           NEW limit \in Int, ShouldDelete(x, t, limit)
    PROVE  ShouldDelete(x, u, limit)
  BY Times DEF ShouldDelete, IsExpired

(* What a collector may delete has expired, and not before the minimum. *)
LEMMA DeletableExpired ==
    ASSUME NEW x \in Observation, NEW t \in Nat, NEW limit \in Int,
           limit + DefaultTTL <= t, ShouldDelete(x, t, limit)
    PROVE  /\ Expired(x, t)
           /\ x.ttl \notin TTLs => t > x.created + MinTTL
<1>1. x.created \in Nat /\ x.ttl \in TTLs \cup MinTTL..MaxTTL
  BY Zenon DEF Observation
<1>2. x.ttl \in Nat
  BY Times, Zenon
<1>3. Expired(x, t)
  BY <1>1, <1>2, TTLAssumption DEF Expired, ShouldDelete, IsExpired
<1>4. ASSUME x.ttl \notin TTLs PROVE t > x.created + MinTTL
  BY <1>1, <1>2, <1>4, TTLAssumption DEF ShouldDelete, IsExpired
<1> QED  BY <1>3, <1>4, Zenon

-----------------------------------------------------------------------------
(* Nothing exists and nobody collects at the start. *)
LEMMA InitIInv == Init => IInv
<1> SUFFICES ASSUME Init PROVE IInv
  BY Zenon
<1>1. Types
  BY DEF Init, Types, NoObjects
<1>2. Faithful
  BY Zenon DEF Init, Faithful, NoObjects
<1>3. \A c \in Collectors : Ready(c)
  BY Zenon DEF Init, Ready
<1> QED  BY <1>1, <1>2, <1>3, Zenon DEF Init, IInv, NeverEarly, ScopeRespected

(* Time passes. *)
LEMMA TickIInv == ASSUME IInv, Tick PROVE IInv'
<1>1. Types' /\ Faithful' /\ NeverEarly' /\ ScopeRespected'
  BY DEF IInv, Tick, Types, Faithful, NeverEarly, ScopeRespected, run
<1>2. ASSUME NEW c \in Collectors PROVE Ready(c)'
  <2>1. Ready(c) /\ UNCHANGED <<pc, chunk, snap, cutoff>> /\ now' = now + 1
    BY Zenon DEF IInv, Tick, run
  <2>2. /\ (pc[c] \in {"wait", "list"} => chunk[c] = {})'
        /\ (\A o \in chunk[c] : snap[c][o] # None /\ InScope(snap[c][o]))'
    BY <2>1, Zenon DEF Ready
  <2>3. (pc[c] # "wait" => cutoff[c] + DefaultTTL <= now)'
    BY <2>1, TTLAssumption DEF Ready, IInv, Types
  <2>4. ASSUME pc[c] = "delete"
        PROVE  /\ chunk[c] # {}
               /\ ShouldDelete(snap[c][Min(chunk[c])], now', cutoff[c])
    <3>1. chunk[c] # {} /\ ShouldDelete(snap[c][Min(chunk[c])], now, cutoff[c])
      BY <2>1, <2>4, Zenon DEF Ready
    <3>2. Min(chunk[c]) \in chunk[c] /\ chunk[c] \subseteq Objects
      BY <3>1, MinOfPage, Zenon DEF IInv, Types
    <3>3. snap[c][Min(chunk[c])] \in Observation
      BY <2>1, <3>2 DEF IInv, Types, Ready
    <3>4. now \in Nat /\ now' \in Nat /\ now <= now' /\ cutoff[c] \in Int
      BY <2>1 DEF IInv, Types
    <3> QED  BY <3>1, <3>3, <3>4, StillDeletable, Zenon
  <2> QED  BY <2>1, <2>2, <2>3, <2>4, Zenon DEF Ready
<1> QED  BY <1>1, <1>2, Zenon DEF IInv

(* An object is created under a new name, or deleted by a user: a listing  *)
(* shows nothing of a new name.                                            *)
LEMMA UserIInv ==
    ASSUME IInv, NEW o \in Objects,
           DeleteByUser(o) \/ \E ns \in Namespaces : CreateObservation(o, ns)
    PROVE  IInv'
<1>1. UNCHANGED <<now, pc, run, gone>> /\ names \subseteq names'
  BY Zenon DEF DeleteByUser, CreateObservation
<1>2. \E x \in Observation \cup {None} :
         /\ objects' = [objects EXCEPT ![o] = x]
         /\ x = None \/ (o \notin names /\ o \in names')
  <2>1. CASE DeleteByUser(o)
    BY <2>1, Zenon DEF DeleteByUser
  <2>2. ASSUME NEW ns \in Namespaces, CreateObservation(o, ns)
        PROVE  \E x \in Observation :
                  objects' = [objects EXCEPT ![o] = x] /\ o \notin names /\ o \in names'
    <3>1. PICK given \in TTLs : \E ttl \in {SetTTLIfNotSet(given), given} :
             objects' = [objects EXCEPT ![o] = [created |-> now, ttl |-> ttl, ns |-> ns]]
      BY <2>2, Zenon DEF CreateObservation
    <3>2. PICK ttl \in {SetTTLIfNotSet(given), given} :
             objects' = [objects EXCEPT ![o] = [created |-> now, ttl |-> ttl, ns |-> ns]]
      BY <3>1, Zenon
    <3>3. [created |-> now, ttl |-> ttl, ns |-> ns] \in Observation
      BY <3>2, ChosenTTL, Zenon DEF Observation, IInv, Types
    <3> QED  BY <2>2, <3>2, <3>3, Zenon DEF CreateObservation
  <2> QED  BY <2>1, <2>2, Zenon
<1>3. Types'
  BY <1>1, <1>2, Zenon DEF IInv, Types, run
<1>4. Faithful'
  BY <1>1, <1>2 DEF IInv, Types, Faithful, run
<1>5. (\A c \in Collectors : Ready(c))' /\ NeverEarly' /\ ScopeRespected'
  BY <1>1, Zenon DEF IInv, Ready, NeverEarly, ScopeRespected, run
<1> QED  BY <1>3, <1>4, <1>5, Zenon DEF IInv

(* The steps of a run that delete nothing. *)
LEMMA RunIInv ==
    ASSUME IInv, NEW c \in Collectors,
           RunGC(c) \/ ListPage(c) \/ Decide(c) \/ EndOfPage(c) \/ ListFails(c)
    PROVE  IInv'
<1>1. UNCHANGED <<now, objects, names, gone>>
  BY Zenon DEF RunGC, ListPage, Decide, EndOfPage, ListFails
<1>2. /\ \A d \in Collectors \ {c} : /\ pc'[d] = pc[d] /\ snap'[d] = snap[d]
                                     /\ chunk'[d] = chunk[d] /\ cutoff'[d] = cutoff[d]
      /\ snap'[c] \in {snap[c], objects, NoObjects}
  BY DEF RunGC, ListPage, Decide, EndOfPage, ListFails, EndRun, Goto, run, IInv, Types
<1>3. Page(c) \subseteq {o \in Objects : snap[c][o] # None /\ InScope(snap[c][o])}
  BY Zenon DEF Page, Remaining
<1>4. Types'
  <2>1. pc' \in [Collectors -> {"wait", "list", "chunk", "delete"}]
    BY Zenon DEF RunGC, ListPage, Decide, EndOfPage, ListFails, EndRun, Goto, IInv, Types
  <2>2. snap' \in [Collectors -> [Objects -> Observation \cup {None}]]
    <3>1. objects \in [Objects -> Observation \cup {None}]
          /\ NoObjects \in [Objects -> Observation \cup {None}]
      BY Zenon DEF NoObjects, IInv, Types
    <3>2. \E s \in {snap[c], objects, NoObjects} : snap' = [snap EXCEPT ![c] = s]
      BY Zenon DEF RunGC, ListPage, Decide, EndOfPage, ListFails, EndRun, run, IInv, Types
    <3> QED  BY <3>1, <3>2 DEF IInv, Types
  <2>3. chunk' \in [Collectors -> SUBSET Objects]
    <3>1. chunk[c] \subseteq Objects /\ Page(c) \subseteq Objects
      BY <1>3, Zenon DEF IInv, Types
    <3>2. chunk' = chunk \/ \E p \in SUBSET Objects : chunk' = [chunk EXCEPT ![c] = p]
      BY <3>1, ZenonT(30) DEF RunGC, ListPage, Decide, EndOfPage, ListFails, EndRun, run
    <3> QED  BY <3>2, Zenon DEF IInv, Types
  <2>4. cutoff' \in [Collectors -> Int]
    BY TTLAssumption DEF RunGC, ListPage, Decide, EndOfPage, ListFails, EndRun, run,
                         IInv, Types
  <2> QED  BY <1>1, <2>1, <2>2, <2>3, <2>4, Zenon DEF IInv, Types
<1>5. Faithful'
  BY <1>1, <1>2 DEF IInv, Types, Faithful, NoObjects
<1>6. ASSUME NEW d \in Collectors \ {c} PROVE Ready(d)'
  BY <1>1, <1>2, <1>6 DEF IInv, Ready
<1>7. Ready(c)'
  <2>1. CASE RunGC(c)
    BY <2>1, TTLAssumption DEF IInv, Types, Ready, RunGC, Goto
  <2>2. CASE ListPage(c)
    BY <2>2, <1>3, Zenon DEF IInv, Types, Ready, ListPage, Goto
  <2>3. CASE Decide(c)
    <3>1. pc[c] = "chunk" /\ chunk[c] # {} /\ UNCHANGED <<now, snap, cutoff>>
      BY <2>3, Zenon DEF Decide
    <3>2. CASE /\ ShouldDelete(snap[c][Min(chunk[c])], now, cutoff[c])
               /\ Goto(c, "delete") /\ UNCHANGED chunk
      BY <3>1, <3>2, Zenon DEF IInv, Types, Ready, Goto
    <3>3. CASE chunk' = [chunk EXCEPT ![c] = @ \ {Min(chunk[c])}] /\ UNCHANGED pc
      BY <3>1, <3>3, Zenon DEF IInv, Types, Ready
    <3> QED  BY <2>3, <3>2, <3>3, Zenon DEF Decide
  <2>4. CASE EndRun(c)
    BY <2>4, Zenon DEF IInv, Types, Ready, EndRun, Goto
  <2>5. CASE EndOfPage(c) /\ Goto(c, "list") /\ UNCHANGED run
    BY <2>5, Zenon DEF IInv, Types, Ready, EndOfPage, Goto, run
  <2> QED  BY <2>1, <2>2, <2>3, <2>4, <2>5, Zenon DEF EndOfPage, ListFails
<1> QED  BY <1>1, <1>4, <1>5, <1>6, <1>7, Zenon DEF IInv, NeverEarly, ScopeRespected

(* A deletion, confirmed or not: if the object was there it is the one the *)
(* collector decided about.                                                *)
LEMMA DeleteIInv ==
    ASSUME IInv, NEW c \in Collectors, Delete(c) \/ DeleteFails(c)
    PROVE  IInv'
<1> DEFINE o == Min(chunk[c])
           x == snap[c][o]
<1>1. /\ pc[c] = "delete"
      /\ chunk' = [chunk EXCEPT ![c] = @ \ {o}] /\ Goto(c, "chunk")
      /\ UNCHANGED <<now, names, snap, cutoff>>
      /\ objects' \in {objects, [objects EXCEPT ![o] = None]}
  BY Zenon DEF Delete, DeleteFails, Advance
<1>2. o \in chunk[c] /\ o \in Objects
  BY <1>1, MinOfPage, Zenon DEF IInv, Types, Ready
<1>3. x \in Observation /\ x # None /\ InScope(x) /\ ShouldDelete(x, now, cutoff[c])
  BY <1>1, <1>2 DEF IInv, Types, Ready
<1>4. Expired(x, now) /\ (x.ttl \notin TTLs => now > x.created + MinTTL)
  BY <1>1, <1>3, DeletableExpired, Zenon DEF IInv, Types, Ready
<1>5. \A g \in gone' : g \in gone \/ (g.x = x /\ g.at = now)
  <2>1. objects[o] # None => objects[o] = x
    BY <1>2, <1>3, Zenon DEF IInv, Faithful
  <2>2. gone' = gone \/ (objects[o] # None /\ \E b : gone' = Record(c, o, b))
    BY Zenon DEF Delete, DeleteFails
  <2> QED  BY <2>1, <2>2 DEF Record
<1>6. NeverEarly'
  BY <1>4, <1>5, Zenon DEF IInv, NeverEarly
<1>7. ScopeRespected'
  BY <1>3, <1>5, Zenon DEF IInv, ScopeRespected
<1>8. Types'
  BY <1>1, <1>2, Zenon DEF IInv, Types, Goto
<1>9. Faithful'
  BY <1>1, <1>2, SMTT(30) DEF IInv, Types, Faithful
<1>10. ASSUME NEW d \in Collectors PROVE Ready(d)'
  BY <1>1, SMTT(30) DEF IInv, Types, Ready, Goto
<1> QED  BY <1>6, <1>7, <1>8, <1>9, <1>10, Zenon DEF IInv

(* Every step keeps the invariant. *)
LEMMA NextIInv == IInv /\ [Next]_vars => IInv'
<1> SUFFICES ASSUME IInv, [Next]_vars PROVE IInv'
  BY Zenon
<1>1. CASE UNCHANGED vars
  BY <1>1, Zenon DEF IInv, Types, Faithful, Ready, NeverEarly, ScopeRespected, vars
<1> QED  BY <1>1, TickIInv, UserIInv, RunIInv, DeleteIInv, Zenon DEF Next, Collect

(* No collector deletes an Observation before its TTL, or the default one, *)
(* has run out (shouldDeleteObservation decides from a listing; runGC      *)
(* deletes later).                                                         *)
THEOREM NothingDeletedEarly == Spec => []NeverEarly
<1>1. IInv => NeverEarly
  BY Zenon DEF IInv
<1> QED  BY InitIInv, NextIInv, <1>1, PTL DEF Spec

(* With WATCH_NAMESPACE set, no collector deletes anything elsewhere. *)
THEOREM OwnNamespaceOnly == Spec => []ScopeRespected
<1>1. IInv => ScopeRespected
  BY Zenon DEF IInv
<1> QED  BY InitIInv, NextIInv, <1>1, PTL DEF Spec

-----------------------------------------------------------------------------
(* The counters. *)

Confirmed(c) == {g \in gone : g.by = c /\ g.answered}

(* What a collector deleted is gone for good: its name is not used again. *)
CountInv ==
    /\ IsFiniteSet(gone)
    /\ deleted \in [Collectors -> Nat]
    /\ \A g \in gone : g.name \in names /\ g.name \in Objects /\ objects[g.name] = None
    /\ CountersExact

(* A step that deletes nothing for a collector and brings no name back. *)
LEMMA CountKept ==
    ASSUME CountInv, UNCHANGED <<gone, deleted>>, names \subseteq names',
           \A o \in Objects : o \in names /\ objects[o] = None => objects'[o] = None
    PROVE  CountInv'
<1>1. (\A g \in gone : g.name \in names /\ g.name \in Objects /\ objects[g.name] = None)'
  BY Zenon DEF CountInv
<1>2. CountersExact'
  BY Zenon DEF CountInv, CountersExact
<1> QED  BY <1>1, <1>2, Zenon DEF CountInv

(* An object goes, by the hand of collector c. *)
LEMMA CountGone ==
    ASSUME IInv, CountInv, NEW c \in Collectors, NEW o \in Objects, objects[o] # None,
           NEW b \in BOOLEAN, gone' = Record(c, o, b), names' = names,
           objects' = [objects EXCEPT ![o] = None],
           deleted' = IF b THEN [deleted EXCEPT ![c] = @ + 1] ELSE deleted
    PROVE  CountInv'
<1> DEFINE new == [name |-> o, x |-> objects[o], at |-> now, by |-> c, answered |-> b]
<1>1. gone' = gone \cup {new} /\ new.name = o /\ new.by = c /\ new.answered = b
  BY Zenon DEF Record
<1>2. \A g \in gone : g.name # o
  BY Zenon DEF CountInv
<1>3. new \notin gone
  BY <1>1, <1>2, Zenon
<1> HIDE DEF new
<1>4. IsFiniteSet(gone') /\ IsFiniteSet(gone)
  BY <1>1, FS_AddElement DEF CountInv
<1>5. (\A g \in gone : g.name \in names /\ g.name \in Objects /\ objects[g.name] = None)'
  <2>1. o \in names /\ objects'[o] = None /\ \A p \in Objects \ {o} : objects'[p] = objects[p]
    BY Zenon DEF IInv, Types, Faithful
  <2> QED  BY <1>1, <2>1, Zenon DEF CountInv
<1>6. deleted' \in [Collectors -> Nat]
  BY DEF CountInv
<1>7. ASSUME NEW d \in Collectors
      PROVE  deleted'[d] = Cardinality(Confirmed(d)')
  <2>1. deleted[d] = Cardinality(Confirmed(d)) /\ IsFiniteSet(Confirmed(d))
    BY <1>4, FS_Subset, Zenon DEF CountInv, CountersExact, Confirmed
  <2>2. CASE d = c /\ b
    <3>1. Confirmed(d)' = Confirmed(d) \cup {new} /\ new \notin Confirmed(d)
      BY <1>1, <1>3, <2>2, Zenon DEF Confirmed
    <3>2. Cardinality(Confirmed(d)') = Cardinality(Confirmed(d)) + 1
      BY <2>1, <3>1, FS_AddElement, Zenon
    <3> QED  BY <2>1, <2>2, <3>2, Zenon DEF CountInv
  <2>3. CASE ~(d = c /\ b)
    <3>1. Confirmed(d)' = Confirmed(d)
      BY <1>1, <2>3, Zenon DEF Confirmed
    <3>2. deleted'[d] = deleted[d]
      BY <2>3, Zenon DEF CountInv
    <3> QED  BY <2>1, <3>1, <3>2, Zenon
  <2> QED  BY <2>2, <2>3, Zenon
<1>8. \A g, h \in gone' : g.name = h.name => g = h
  BY <1>1, <1>2, Zenon DEF CountInv, CountersExact
<1> QED  BY <1>4, <1>5, <1>6, <1>7, <1>8, Zenon DEF CountInv, CountersExact, Confirmed

(* A deletion by a collector, confirmed or not. *)
LEMMA DeleteCounts ==
    ASSUME IInv, CountInv, NEW c \in Collectors, Delete(c) \/ DeleteFails(c)
    PROVE  CountInv'
<1> DEFINE o == Min(chunk[c])
<1>1. o \in Objects /\ names' = names
  <2>1. pc[c] = "delete" /\ names' = names
    BY Zenon DEF Delete, DeleteFails, Advance
  <2>2. chunk[c] # {} /\ chunk[c] \subseteq Objects
    BY <2>1, Zenon DEF IInv, Types, Ready
  <2> QED  BY <2>1, <2>2, MinOfPage, Zenon
<1>2. objects \in [Objects -> Observation \cup {None}]
  BY Zenon DEF IInv, Types
<1>3. CASE Delete(c) /\ objects[o] # None
  <2>1. /\ objects' = [objects EXCEPT ![o] = None] /\ gone' = Record(c, o, TRUE)
        /\ deleted' = [deleted EXCEPT ![c] = @ + 1]
    BY <1>3, Zenon DEF Delete, CountDeleted
  <2> QED  BY <1>1, <1>3, <2>1, CountGone, Zenon
<1>4. CASE DeleteFails(c) /\ gone' # gone
  <2>1. /\ objects' = [objects EXCEPT ![o] = None] /\ gone' = Record(c, o, FALSE)
        /\ deleted' = deleted /\ objects[o] # None
    BY <1>4, Zenon DEF DeleteFails
  <2> QED  BY <1>1, <2>1, CountGone, Zenon
<1>5. CASE (Delete(c) /\ objects[o] = None) \/ (DeleteFails(c) /\ gone' = gone)
  <2>1. /\ UNCHANGED <<gone, deleted>>
        /\ objects' \in {objects, [objects EXCEPT ![o] = None]}
    BY <1>5, Zenon DEF Delete, DeleteFails, CountDeleted
  <2>2. \A p \in Objects : objects[p] = None => objects'[p] = None
    BY <1>2, <2>1, Zenon
  <2> QED  BY <1>1, <2>1, <2>2, CountKept, Zenon
<1> QED  BY <1>3, <1>4, <1>5, Zenon

(* Every step keeps CountInv. *)
LEMMA NextCounts == IInv /\ CountInv /\ [Next]_vars => CountInv'
<1> SUFFICES ASSUME IInv, CountInv, [Next]_vars PROVE CountInv'
  BY Zenon
<1>1. CASE \E c \in Collectors : Delete(c) \/ DeleteFails(c)
  BY <1>1, DeleteCounts, Zenon
<1>2. CASE \E o \in Objects : DeleteByUser(o) \/ \E ns \in Namespaces : CreateObservation(o, ns)
  <2>1. PICK o \in Objects : DeleteByUser(o) \/ \E ns \in Namespaces : CreateObservation(o, ns)
    BY <1>2, Zenon
  <2>2. UNCHANGED <<gone, deleted>> /\ names \subseteq names'
    BY <2>1, Zenon DEF DeleteByUser, CreateObservation
  <2>3. \E x : /\ objects' = [objects EXCEPT ![o] = x]
               /\ x = None \/ o \notin names
    BY <2>1, Zenon DEF DeleteByUser, CreateObservation
  <2>4. \A p \in Objects : p \in names /\ objects[p] = None => objects'[p] = None
    BY <2>3, Zenon DEF IInv, Types
  <2> QED  BY <2>2, <2>4, CountKept, Zenon
<1>3. CASE UNCHANGED <<objects, names, gone, deleted>>
  BY <1>3, CountKept, Zenon
<1>4. \/ \E c \in Collectors : Delete(c) \/ DeleteFails(c)
      \/ \E o \in Objects : DeleteByUser(o) \/ \E ns \in Namespaces : CreateObservation(o, ns)
      \/ UNCHANGED <<objects, names, gone, deleted>>
  BY Zenon DEF Next, Tick, Collect, RunGC, ListPage, Decide, EndOfPage, ListFails, vars
<1> QED  BY <1>1, <1>2, <1>3, <1>4, Zenon

(* ObservationsDeleted of a process is the number of deletions the API     *)
(* server confirmed to it, and no two of them are of one object, however   *)
(* many processes collect at once.                                         *)
THEOREM DeletionsCountedOnce == Spec => []CountersExact
<1>1. Init => CountInv
  <2> SUFFICES ASSUME Init PROVE CountInv
    BY Zenon
  <2>1. gone = {} /\ \A c \in Collectors : {g \in gone : g.by = c /\ g.answered} = {}
    BY Zenon DEF Init
  <2>2. CountersExact
    BY <2>1, FS_EmptySet, Zenon DEF Init, CountersExact
  <2> QED  BY <2>1, <2>2, FS_EmptySet, Zenon DEF Init, CountInv
<1>2. CountInv => CountersExact
  BY Zenon DEF CountInv
<1> QED  BY InitIInv, NextIInv, <1>1, NextCounts, <1>2, PTL DEF Spec

=============================================================================
