------------------------- MODULE OrchestratorProofs -------------------------
(***************************************************************************)
(* The orchestrator for any number of Ingesters, sources and edits: routes *)
(* lead to running adapters, status and gauge tell what runs, a finished   *)
(* reload has done what its listing asked for, and no reload interrupts a  *)
(* source nobody touched.                                                  *)
(*                                                                         *)
(* What is true between two reloads is true in the middle of one of what   *)
(* the reload has processed so far: of the listed entries no longer in     *)
(* todo, whose sources are those of active.                                *)
(***************************************************************************)
EXTENDS Orchestrator, TLAPS

(* A listed entry, as the conversion delivers it. *)
Item(x) == /\ x.ing \in Ingesters /\ x.entry \in Entry /\ WellFormed(x.entry)
           /\ Owner[x.entry.source] \in {x.ing, None}

(* The stages of an entry in hand: its adapter is replaced or started, or  *)
(* stopped for good.                                                       *)
Replacing == {"remove", "create", "track", "add", "blocked"}
Stopping == {"stop", "forget"}

TypeInv ==
    /\ crds \in [Ingesters -> {None} \cup UNION {Specs[i] : i \in Ingesters}]
    /\ \A i \in Ingesters : crds[i] \in Specs[i] \cup {None}
    /\ pc \in {"idle", "items"} \cup Replacing \cup Stopping
    /\ \A x \in todo : Item(x)
    /\ pc \in Replacing => Item(cur)
    /\ pc \in Stopping => cur.entry.source \in Sources
    /\ adapters \in [Sources -> Entry \cup {None}]
    /\ routes \in [Paths -> Sources \cup {"dead", None}]
    /\ tracker \in [Ingesters \X Sources -> {None, "Running", "Stopped", "Error"}]
    /\ gauge \in [Sources -> 0..2]

(* The adapter of a webhook has a path, and an adapter its source. *)
Pathed == \A s \in Sources : adapters[s] # None =>
             /\ adapters[s].source = s
             /\ adapters[s].type = "webhook" => adapters[s].path \in Paths

(* What the routes and the manager hold of the source in hand: no route    *)
(* between Stop of the old adapter and Start of the new one, no adapter    *)
(* between removal and addition.                                           *)
HandRoutes ==
    /\ pc \in {"remove", "create", "blocked", "forget"} =>
          \A p \in Paths : routes[p] # cur.entry.source
    /\ pc \in {"create", "track", "add", "blocked"} => adapters[cur.entry.source] = None
    /\ pc \in {"track", "add"} =>
          /\ cur.entry.valid
          /\ cur.entry.type = "webhook" => routes[cur.entry.path] = cur.entry.source

(* Tracker and gauge agree with the manager at every step of a reload. *)
Told ==
    /\ \A s \in Sources : ~InHand(s) =>
          /\ Owner[s] # None =>
                ((tracker[<<Owner[s], s>>] = "Running") <=> (adapters[s] # None))
          /\ (gauge[s] = 1) <=> (adapters[s] # None)
    /\ pc \in Replacing => gauge[cur.entry.source] = 1
    /\ pc = "add" => tracker[<<cur.ing, cur.entry.source>>] = "Running"
    /\ pc \in Stopping /\ Owner[cur.entry.source] # None =>
          tracker[<<Owner[cur.entry.source], cur.entry.source>>] # "Running"

(* How far a reload has come, of the entry in hand and of the others. *)
HandProcessed ==
    /\ pc \in Replacing => cur \in listed \ todo
    /\ pc = "remove" => /\ adapters[cur.entry.source] # None
                        /\ adapters[cur.entry.source].type # cur.entry.type
    /\ pc \in Stopping => todo = {} /\ cur.entry.source \notin active

Processed ==
    pc # "idle" =>
       /\ \A x \in listed : Item(x)
       /\ todo \subseteq listed
       /\ active = {x.entry.source : x \in listed \ todo}
       /\ \A s \in active : adapters[s] # None /\ ~(pc = "remove" /\ cur.entry.source = s) =>
             \E x \in listed : x.entry.source = s /\ x.entry.type = adapters[s].type
       /\ Unique(listed) =>
             \A x \in listed \ todo : x.entry.valid /\ ~(pc \in Replacing /\ x = cur) =>
                /\ adapters[x.entry.source] # None
                /\ adapters[x.entry.source].type = x.entry.type

IInv == /\ TypeInv /\ Pathed /\ RouteOwned /\ HandRoutes /\ Told
        /\ HandProcessed /\ Processed /\ AdaptersMatchListing

-----------------------------------------------------------------------------
(* What List delivers. *)
LEMMA ListingItems ==
    ASSUME TypeInv
    PROVE  \A x \in Listing(crds) : Item(x)
<1> SUFFICES ASSUME NEW i \in Ingesters, crds[i] # None, NEW e \in crds[i]
             PROVE  Item([ing |-> i, entry |-> e])
  BY Zenon DEF Listing
<1>1. crds[i] \in Specs[i]
  BY Zenon DEF TypeInv
<1>2. e \in Entry /\ WellFormed(e) /\ Owner[e.source] \in {i, None}
  BY <1>1, SpecsAssumption, Zenon
<1> QED  BY <1>2, Zenon DEF Item

(* A valid webhook has a path. *)
LEMMA ValidPath ==
    ASSUME NEW e \in Entry, WellFormed(e), e.valid, e.type = "webhook"
    PROVE  e.path \in Paths
<1>1. e.path # None
  BY Zenon DEF WellFormed
<1>2. e.path \in Paths \cup {None}
  BY Zenon DEF Entry
<1> QED  BY <1>1, <1>2, Zenon

-----------------------------------------------------------------------------
(* Nothing runs at the start, nor after a crash. *)
Empty ==
    /\ crds \in [Ingesters -> {None} \cup UNION {Specs[i] : i \in Ingesters}]
    /\ \A i \in Ingesters : crds[i] \in Specs[i] \cup {None}
    /\ pc = "idle" /\ todo = {} /\ listed = None
    /\ adapters = NoAdapters /\ routes = NoRoutes
    /\ tracker = NoTrackers /\ gauge = NoGauge

(* A process that begins with empty memory satisfies the invariant. *)
LEMMA EmptyIInv == Empty => IInv
<1> SUFFICES ASSUME Empty PROVE IInv
  BY Zenon
<1> USE DEF Empty
<1>1. TypeInv
  BY DEF TypeInv, NoAdapters, NoRoutes, NoTrackers, NoGauge, Replacing, Stopping
<1>2. Pathed /\ RouteOwned
  BY NoneAssumption, Zenon DEF Pathed, RouteOwned, NoAdapters, NoRoutes, InHand
<1>3. Told
  <2> SUFFICES ASSUME NEW s \in Sources
               PROVE  /\ Owner[s] # None => tracker[<<Owner[s], s>>] # "Running"
                      /\ gauge[s] # 1 /\ adapters[s] = None
    BY Zenon DEF Told, InHand, Replacing, Stopping
  <2>1. Owner[s] # None => <<Owner[s], s>> \in Ingesters \X Sources
    BY OwnerAssumption, Zenon
  <2> QED  BY <2>1, NoneAssumption DEF NoAdapters, NoTrackers, NoGauge
<1>4. HandRoutes /\ HandProcessed
  BY Zenon DEF HandRoutes, HandProcessed, Replacing, Stopping
<1> QED  BY <1>1, <1>2, <1>3, <1>4, Zenon DEF IInv, Processed, AdaptersMatchListing

(* So does the first one. *)
LEMMA InitIInv == Init => IInv
  BY EmptyIInv, Zenon DEF Init, Empty

(* The key under which the tracker knows an owned source. *)
LEMMA OwnKey ==
    ASSUME NEW x, Item(x), NEW t \in Sources, Owner[t] # None
    PROVE  /\ <<x.ing, x.entry.source>> \in Ingesters \X Sources
           /\ <<Owner[t], t>> \in Ingesters \X Sources
           /\ t = x.entry.source => <<Owner[t], t>> = <<x.ing, x.entry.source>>
           /\ t # x.entry.source => <<Owner[t], t>> # <<x.ing, x.entry.source>>
  BY OwnerAssumption, Zenon DEF Item, Entry

(* What a step does to the entry in hand: x is taken up ... *)
LEMMA PickFacts ==
    ASSUME IInv, NEW x \in todo, Pick(x)
    PROVE  /\ pc = "items" /\ Item(x) /\ x.entry \in Entry /\ x.entry.source \in Sources
           /\ x \in listed
           /\ todo' = todo \ {x} /\ active' = active \cup {x.entry.source}
           /\ gauge' = [gauge EXCEPT ![x.entry.source] = 1]
           /\ UNCHANGED <<crds, listed, adapters, tracker>>
  BY Zenon DEF IInv, TypeInv, Processed, Item, Entry, Pick, api

(* ... or it goes one stage further. *)
LEMMA HandFacts ==
    ASSUME IInv, pc \in Replacing
    PROVE  /\ Item(cur) /\ cur.entry \in Entry /\ cur.entry.source \in Sources
           /\ cur.ing \in Ingesters /\ cur \in listed \ todo
  BY Zenon DEF IInv, TypeInv, HandProcessed, Item, Entry

(* Taking up an entry leaves the others as they were, if the adapters stay *)
(* and the entry is in hand or its adapter has the right type.             *)
LEMMA PickProcessed ==
    ASSUME IInv, NEW x \in todo, pc = "items", Item(x), x \in listed,
           todo' = todo \ {x}, active' = active \cup {x.entry.source},
           UNCHANGED <<listed, adapters>>,
           \/ /\ pc' = "items" /\ adapters[x.entry.source] # None
              /\ adapters[x.entry.source].type = x.entry.type
           \/ pc' = "remove" /\ cur' = x
           \/ pc' = "create" /\ cur' = x /\ adapters[x.entry.source] = None
    PROVE  Processed'
<1>1. /\ \A y \in listed : Item(y)
      /\ todo \subseteq listed
      /\ active = {y.entry.source : y \in listed \ todo}
      /\ \A t \in active : adapters[t] # None =>
            \E y \in listed : y.entry.source = t /\ y.entry.type = adapters[t].type
      /\ Unique(listed) => \A y \in listed \ todo : y.entry.valid =>
            /\ adapters[y.entry.source] # None
            /\ adapters[y.entry.source].type = y.entry.type
  BY Zenon DEF IInv, Processed, Replacing
<1>2. todo' \subseteq listed /\ active' = {y.entry.source : y \in listed \ todo'}
  BY <1>1
<1>3. ASSUME NEW t \in active', adapters[t] # None, ~(pc' = "remove" /\ cur'.entry.source = t)
      PROVE  \E y \in listed : y.entry.source = t /\ y.entry.type = adapters[t].type
  <2>1. CASE t \in active
    BY <1>1, <1>3, <2>1, Zenon
  <2>2. CASE t = x.entry.source
    BY <1>3, <2>2, Zenon
  <2> QED  BY <2>1, <2>2, Zenon
<1>4. ASSUME Unique(listed), NEW y \in listed \ todo', y.entry.valid,
             ~(pc' \in Replacing /\ y = cur')
      PROVE  /\ adapters[y.entry.source] # None
             /\ adapters[y.entry.source].type = y.entry.type
  <2>1. CASE y = x
    BY <1>4, <2>1, Zenon DEF Replacing
  <2>2. CASE y # x
    BY <1>1, <1>4, <2>2, Zenon
  <2> QED  BY <2>1, <2>2, Zenon
<1> QED  BY <1>1, <1>2, <1>3, <1>4, ZenonT(30) DEF Processed, Item, Unique

(* The adapter is there and stays. *)
LEMMA KeepIInv ==
    ASSUME IInv, NEW x \in todo, KeepAdapter(x)
    PROVE  IInv'
<1> DEFINE s == x.entry.source
<1>1. /\ pc = "items" /\ Item(x) /\ s \in Sources /\ x \in listed
      /\ todo' = todo \ {x} /\ active' = active \cup {s}
      /\ gauge' = [gauge EXCEPT ![s] = 1]
      /\ UNCHANGED <<crds, listed, adapters, tracker>>
  BY PickFacts, Zenon DEF KeepAdapter
<1>2. /\ UNCHANGED <<pc, cur, routes>>
      /\ adapters[s] # None /\ adapters[s].type = x.entry.type
  BY Zenon DEF KeepAdapter, Keep, ConfigChanged
<1>3. gauge[s] = 1
  BY <1>1, <1>2, Zenon DEF IInv, Told, InHand
<1>4. gauge' = gauge
  BY <1>1, <1>3, Zenon DEF IInv, TypeInv
<1>5. TypeInv' /\ Pathed' /\ RouteOwned' /\ HandRoutes' /\ Told' /\ HandProcessed'
  <2>1. TypeInv'
    BY <1>1, <1>2, <1>4, Zenon DEF IInv, TypeInv, Item, Replacing, Stopping
  <2>2. Pathed' /\ RouteOwned' /\ HandRoutes'
    BY <1>1, <1>2, Zenon DEF IInv, Pathed, RouteOwned, HandRoutes, InHand
  <2>3. Told'
    BY <1>1, <1>2, <1>4, ZenonT(30) DEF IInv, Told, InHand
  <2>4. HandProcessed'
    BY <1>1, <1>2, Zenon DEF HandProcessed, Replacing, Stopping
  <2> QED  BY <2>1, <2>2, <2>3, <2>4, Zenon
<1>6. Processed'
  BY <1>1, <1>2, PickProcessed, Zenon DEF IInv
<1> QED  BY <1>1, <1>2, <1>5, <1>6, Zenon DEF IInv, AdaptersMatchListing

(* The old adapter is stopped, or there is none: the entry is in hand. *)
LEMMA TakeIInv ==
    ASSUME IInv, NEW x \in todo, StopOld(x) \/ NewSource(x)
    PROVE  IInv'
<1> DEFINE s == x.entry.source
<1>1. /\ pc = "items" /\ Item(x) /\ s \in Sources /\ x \in listed
      /\ todo' = todo \ {x} /\ active' = active \cup {s}
      /\ gauge' = [gauge EXCEPT ![s] = 1]
      /\ UNCHANGED <<crds, listed, adapters, tracker>>
  BY PickFacts, Zenon DEF StopOld, NewSource
<1>2. /\ cur' = x /\ pc' \in {"remove", "create"}
      /\ pc' = "remove" => /\ routes' = RoutesWithout(s)
                           /\ adapters[s] # None /\ adapters[s].type # x.entry.type
      /\ pc' = "create" => routes' = routes /\ adapters[s] = None
  BY Zenon DEF StopOld, NewSource, Stop, ConfigChanged
<1>3. gauge' \in [Sources -> 0..2] /\ gauge'[s] = 1
      /\ \A t \in Sources \ {s} : gauge'[t] = gauge[t]
  <2>1. 1 \in 0..2 /\ gauge \in [Sources -> 0..2]
    BY DEF IInv, TypeInv
  <2> QED  BY <1>1, <2>1, Zenon
<1>4. /\ routes' \in [Paths -> Sources \cup {"dead", None}]
      /\ \A p \in Paths : /\ routes'[p] # s
                          /\ routes[p] # s => routes'[p] = routes[p]
                          /\ routes'[p] # routes[p] => routes'[p] = "dead"
  <2>1. CASE pc' = "remove"
    <3>1. routes' = [p \in Paths |-> IF routes[p] = s THEN "dead" ELSE routes[p]]
      BY <1>2, <2>1, Zenon DEF RoutesWithout
    <3>2. routes \in [Paths -> Sources \cup {"dead", None}] /\ s # "dead"
      BY <1>1, DeadAssumption, Zenon DEF IInv, TypeInv
    <3> HIDE DEF s
    <3> QED  BY <3>1, <3>2, Zenon
  <2>2. CASE pc' = "create"
    <3>1. routes' = routes /\ adapters[s] = None
      BY <1>2, <2>2, Zenon
    <3>2. \A p \in Paths : routes[p] # s
      BY <1>1, <3>1, Zenon DEF IInv, RouteOwned, InHand
    <3> QED  BY <3>1, <3>2, Zenon DEF IInv, TypeInv
  <2> QED  BY <1>2, <2>1, <2>2, Zenon
<1>5. TypeInv'
  BY <1>1, <1>2, <1>3, <1>4, Zenon DEF IInv, TypeInv, Item, Replacing, Stopping
<1>6. Pathed' /\ HandRoutes'
  BY <1>1, <1>2, <1>4, Zenon DEF IInv, Pathed, HandRoutes
<1>7. RouteOwned'
  <2>1. ASSUME NEW p \in Paths, routes'[p] \in Sources
        PROVE  adapters[routes'[p]] # None /\ adapters[routes'[p]].path = p
    <3>1. routes'[p] = routes[p]
      BY <1>4, <2>1, DeadAssumption, Zenon
    <3> QED  BY <1>1, <2>1, <3>1, Zenon DEF IInv, RouteOwned
  <2>2. ASSUME NEW t \in Sources, adapters[t] # None, adapters[t].type = "webhook",
               ~(pc' = "remove" /\ cur'.entry.source = t)
        PROVE  routes'[adapters[t].path] = t
    <3>1. t # s
      BY <1>2, <2>2, Zenon DEF InHand
    <3>2. adapters[t].path \in Paths /\ routes[adapters[t].path] = t
      BY <1>1, <2>2, Zenon DEF IInv, Pathed, RouteOwned
    <3> QED  BY <1>4, <3>1, <3>2, Zenon
  <2> QED  BY <1>1, <2>1, <2>2, Zenon DEF RouteOwned, InHand
<1>8. Told'
  <2>1. ASSUME NEW t \in Sources, t # s
        PROVE  /\ Owner[t] # None =>
                     ((tracker'[<<Owner[t], t>>] = "Running") <=> (adapters'[t] # None))
               /\ (gauge'[t] = 1) <=> (adapters'[t] # None)
    BY <1>1, <1>3, <2>1, Zenon DEF IInv, Told, InHand
  <2> QED  BY <1>2, <1>3, <2>1, Zenon DEF Told, InHand, Stopping
<1>9. HandProcessed'
  BY <1>1, <1>2, Zenon DEF HandProcessed, Stopping
<1>10. Processed'
  BY <1>1, <1>2, PickProcessed, Zenon
<1> QED  BY <1>2, <1>5, <1>6, <1>7, <1>8, <1>9, <1>10, Zenon DEF IInv, AdaptersMatchListing

(* The source of the entry in hand, and what a stage does to nothing else. *)
LEMMA OthersTold ==
    ASSUME IInv, NEW s \in Sources, pc \in {"idle", "items"} \/ cur.entry.source = s,
           NEW t \in Sources, t # s,
           adapters'[t] = adapters[t], gauge'[t] = gauge[t],
           Owner[t] # None => tracker'[<<Owner[t], t>>] = tracker[<<Owner[t], t>>]
    PROVE  /\ Owner[t] # None =>
                 ((tracker'[<<Owner[t], t>>] = "Running") <=> (adapters'[t] # None))
           /\ (gauge'[t] = 1) <=> (adapters'[t] # None)
<1>1. ~InHand(t)
  BY Zenon DEF InHand
<1> QED  BY <1>1, Zenon DEF IInv, Told

(* An entry in hand moves on, and neither the listing nor the adapters do. *)
LEMMA StageProcessed ==
    ASSUME IInv, pc \in Replacing \cup Stopping, pc # "remove",
           UNCHANGED <<listed, todo, active, adapters>>,
           \/ pc' \in Replacing \ {"remove"} /\ pc \in Replacing /\ cur' = cur
           \/ pc' = "forget" /\ pc \in Stopping /\ cur' = cur
           \/ pc' = "items" /\ pc \in Replacing /\ ~cur.entry.valid
    PROVE  HandProcessed' /\ Processed'
<1>1. /\ \A y \in listed : Item(y)
      /\ todo \subseteq listed
      /\ active = {y.entry.source : y \in listed \ todo}
      /\ \A t \in active : adapters[t] # None =>
            \E y \in listed : y.entry.source = t /\ y.entry.type = adapters[t].type
      /\ Unique(listed) =>
            \A y \in listed \ todo : y.entry.valid /\ ~(pc \in Replacing /\ y = cur) =>
               /\ adapters[y.entry.source] # None
               /\ adapters[y.entry.source].type = y.entry.type
  BY Zenon DEF IInv, Processed, Replacing, Stopping
<1>2. HandProcessed'
  BY Zenon DEF IInv, HandProcessed, Replacing, Stopping
<1>3. Unique(listed) =>
            \A y \in listed \ todo : y.entry.valid /\ ~(pc' \in Replacing /\ y = cur') =>
               /\ adapters[y.entry.source] # None
               /\ adapters[y.entry.source].type = y.entry.type
  BY <1>1, Zenon DEF Replacing, Stopping
<1>4. Processed'
  BY <1>1, <1>3, ZenonT(30) DEF Processed, Item, Unique, Replacing, Stopping
<1> QED  BY <1>2, <1>4, Zenon

(* Start of the new adapter returns, on a path the mux did not know. *)
LEMMA StartIInv ==
    ASSUME IInv, StartAdapter
    PROVE  IInv'
<1> PICK e : e = cur.entry
  BY Zenon
<1> DEFINE s == e.source
<1>1. /\ pc = "create" /\ pc' = "track"
      /\ UNCHANGED <<crds, todo, listed, cur, active, adapters, tracker, gauge>>
      /\ routes' = IF e.type = "webhook" THEN [routes EXCEPT ![e.path] = s] ELSE routes
      /\ Starts(e)
  BY Zenon DEF StartAdapter, api
<1>2. Item(cur) /\ e \in Entry /\ s \in Sources
  BY <1>1, HandFacts, Zenon DEF Replacing
<1>3. e.valid /\ (e.type = "webhook" => e.path \in Paths /\ routes[e.path] = None)
  BY <1>1, <1>2, ValidPath, Zenon DEF Starts, Registrable, Item
<1>4. adapters[s] = None /\ \A p \in Paths : routes[p] # s
  BY <1>1, Zenon DEF IInv, HandRoutes
<1>5. /\ routes' \in [Paths -> Sources \cup {"dead", None}]
      /\ \A p \in Paths : IF e.type = "webhook" /\ p = e.path THEN routes'[p] = s
                          ELSE routes'[p] = routes[p]
  BY <1>1, <1>2, <1>3, Zenon DEF IInv, TypeInv
<1>6. TypeInv'
  BY <1>1, <1>5, Zenon DEF IInv, TypeInv, Item, Replacing, Stopping
<1>7. Pathed' /\ HandRoutes'
  <2>1. Pathed'
    BY <1>1, Zenon DEF IInv, Pathed
  <2>2. e.type = "webhook" => routes'[e.path] = s
    BY <1>3, <1>5, Zenon
  <2> QED  BY <1>1, <1>3, <1>4, <2>1, <2>2, Zenon DEF HandRoutes
<1>8. RouteOwned'
  <2>1. ASSUME NEW p \in Paths, routes'[p] \in Sources
        PROVE  \/ adapters[routes'[p]] # None /\ adapters[routes'[p]].path = p
               \/ s = routes'[p] /\ e.path = p
    <3>1. CASE e.type = "webhook" /\ p = e.path
      BY <1>5, <3>1, Zenon
    <3>2. CASE ~(e.type = "webhook" /\ p = e.path)
      BY <1>1, <1>5, <2>1, <3>2, Zenon DEF IInv, RouteOwned
    <3> QED  BY <3>1, <3>2, Zenon
  <2>2. ASSUME NEW t \in Sources, adapters[t] # None, adapters[t].type = "webhook"
        PROVE  routes'[adapters[t].path] = t
    <3>1. adapters[t].path \in Paths /\ routes[adapters[t].path] = t
      BY <1>1, <2>2, Zenon DEF IInv, Pathed, RouteOwned
    <3> QED  BY <1>3, <1>5, <2>2, <3>1, NoneAssumption, Zenon
  <2> QED  BY <1>1, <2>1, <2>2, Zenon DEF RouteOwned, InHand
<1>9. Told'
  BY <1>1, Zenon DEF IInv, Told, InHand, Replacing, Stopping
<1>10. HandProcessed' /\ Processed'
  BY <1>1, StageProcessed, Zenon DEF Replacing
<1> QED  BY <1>1, <1>6, <1>7, <1>8, <1>9, <1>10, Zenon DEF IInv, AdaptersMatchListing

(* The tracker hears of the source in hand, as Running, Error or Stopped;  *)
(* it hears of no other.                                                   *)
LEMMA TrackerStep ==
    ASSUME IInv, NEW x, Item(x), NEW st \in {"Running", "Error"},
           tracker' = [tracker EXCEPT ![<<x.ing, x.entry.source>>] = st]
    PROVE  /\ tracker' \in [Ingesters \X Sources -> {None, "Running", "Stopped", "Error"}]
           /\ tracker'[<<x.ing, x.entry.source>>] = st
           /\ Owner[x.entry.source] # None =>
                 tracker'[<<Owner[x.entry.source], x.entry.source>>] = st
           /\ \A t \in Sources : t # x.entry.source /\ Owner[t] # None =>
                 tracker'[<<Owner[t], t>>] = tracker[<<Owner[t], t>>]
<1> DEFINE k == <<x.ing, x.entry.source>>
<1>1. k \in Ingesters \X Sources /\ x.entry.source \in Sources
  BY Zenon DEF Item, Entry
<1>2. tracker \in [Ingesters \X Sources -> {None, "Running", "Stopped", "Error"}]
  BY Zenon DEF IInv, TypeInv
<1>3. tracker' \in [Ingesters \X Sources -> {None, "Running", "Stopped", "Error"}]
  BY <1>2, Zenon
<1>4. tracker'[k] = st
  BY <1>1, <1>2, Zenon
<1>5. Owner[x.entry.source] # None => <<Owner[x.entry.source], x.entry.source>> = k
  BY Zenon DEF Item
<1>6. ASSUME NEW t \in Sources, t # x.entry.source, Owner[t] # None
      PROVE  tracker'[<<Owner[t], t>>] = tracker[<<Owner[t], t>>]
  BY <1>2, <1>6, OwnKey, Zenon
<1> QED  BY <1>3, <1>4, <1>5, <1>6, Zenon

LEMMA TrackIInv ==
    ASSUME IInv, TrackRunning
    PROVE  IInv'
<1>1. /\ pc = "track" /\ pc' = "add"
      /\ UNCHANGED <<crds, todo, listed, cur, active, adapters, routes, gauge>>
      /\ tracker' = [tracker EXCEPT ![<<cur.ing, cur.entry.source>>] = "Running"]
  BY Zenon DEF TrackRunning, api
<1>2. Item(cur) /\ cur.entry.source \in Sources
  BY <1>1, HandFacts, Zenon DEF Replacing
<1>3. /\ tracker' \in [Ingesters \X Sources -> {None, "Running", "Stopped", "Error"}]
      /\ tracker'[<<cur.ing, cur.entry.source>>] = "Running"
      /\ \A t \in Sources : t # cur.entry.source /\ Owner[t] # None =>
            tracker'[<<Owner[t], t>>] = tracker[<<Owner[t], t>>]
  BY <1>1, <1>2, TrackerStep, Zenon
<1>4. TypeInv'
  BY <1>1, <1>3, Zenon DEF IInv, TypeInv, Item, Replacing, Stopping
<1>5. Pathed' /\ HandRoutes' /\ RouteOwned'
  BY <1>1, Zenon DEF IInv, Pathed, HandRoutes, RouteOwned, InHand
<1>6. Told'
  <2>1. gauge'[cur.entry.source] = 1
    BY <1>1, Zenon DEF IInv, Told, Replacing
  <2>2. ASSUME NEW t \in Sources, t # cur.entry.source
        PROVE  /\ Owner[t] # None =>
                     ((tracker'[<<Owner[t], t>>] = "Running") <=> (adapters'[t] # None))
               /\ (gauge'[t] = 1) <=> (adapters'[t] # None)
    BY <1>1, <1>2, <1>3, <2>2, OthersTold, Zenon
  <2> QED  BY <1>1, <1>3, <2>1, <2>2, Zenon DEF Told, InHand, Stopping
<1>7. HandProcessed' /\ Processed'
  BY <1>1, StageProcessed, Zenon DEF Replacing
<1> QED  BY <1>1, <1>4, <1>5, <1>6, <1>7, Zenon DEF IInv, AdaptersMatchListing

(* NewAdapter, Validate or Start fails: no adapter, no route. *)
LEMMA ErrorIInv ==
    ASSUME IInv, AdapterError
    PROVE  IInv'
<1> PICK x : x = cur
  BY Zenon
<1> DEFINE s == x.entry.source
<1>1. /\ pc = "create" /\ pc' = "items" /\ ~x.entry.valid
      /\ UNCHANGED <<crds, todo, listed, active, adapters, routes>>
      /\ tracker' = [tracker EXCEPT ![<<x.ing, s>>] = "Error"]
      /\ gauge' = [gauge EXCEPT ![s] = 2]
  BY Zenon DEF AdapterError, api
<1>2. Item(x) /\ s \in Sources
  BY <1>1, HandFacts, Zenon DEF Replacing
<1>3. /\ tracker' \in [Ingesters \X Sources -> {None, "Running", "Stopped", "Error"}]
      /\ Owner[s] # None => tracker'[<<Owner[s], s>>] = "Error"
      /\ \A t \in Sources : t # s /\ Owner[t] # None =>
            tracker'[<<Owner[t], t>>] = tracker[<<Owner[t], t>>]
  BY <1>1, <1>2, TrackerStep, Zenon
<1>4. gauge' \in [Sources -> 0..2] /\ gauge'[s] # 1
      /\ \A t \in Sources \ {s} : gauge'[t] = gauge[t]
  <2>1. 2 \in 0..2 /\ 2 # 1 /\ gauge \in [Sources -> 0..2]
    BY DEF IInv, TypeInv
  <2> QED  BY <1>1, <1>2, <2>1, Zenon
<1>5. TypeInv'
  BY <1>1, <1>3, <1>4, Zenon DEF IInv, TypeInv, Item, Replacing, Stopping
<1>6. adapters[s] = None
  BY <1>1, Zenon DEF IInv, HandRoutes
<1>7. Pathed' /\ HandRoutes' /\ RouteOwned'
  BY <1>1, Zenon DEF IInv, Pathed, HandRoutes, RouteOwned, InHand
<1>8. Told'
  <2>1. ASSUME NEW t \in Sources, t # s
        PROVE  /\ Owner[t] # None =>
                     ((tracker'[<<Owner[t], t>>] = "Running") <=> (adapters'[t] # None))
               /\ (gauge'[t] = 1) <=> (adapters'[t] # None)
    <3>1. /\ adapters'[t] = adapters[t] /\ gauge'[t] = gauge[t]
          /\ Owner[t] # None => tracker'[<<Owner[t], t>>] = tracker[<<Owner[t], t>>]
      BY <1>1, <1>3, <1>4, <2>1, Zenon
    <3>2. cur.entry.source = s /\ s \in Sources
      BY <1>2, Zenon
    <3> QED  BY <2>1, <3>1, <3>2, OthersTold, Zenon
  <2> QED  BY <1>1, <1>3, <1>4, <1>6, <2>1, Zenon DEF Told, InHand, Replacing, Stopping
<1>9. HandProcessed' /\ Processed'
  BY <1>1, StageProcessed, Zenon DEF Replacing
<1> QED  BY <1>1, <1>5, <1>7, <1>8, <1>9, Zenon DEF IInv, AdaptersMatchListing

(* Start of the new adapter does not return. *)
LEMMA BlockIInv ==
    ASSUME IInv, StartBlocks
    PROVE  IInv'
<1>1. /\ pc = "create" /\ pc' = "blocked"
      /\ UNCHANGED <<crds, todo, listed, cur, active, adapters, routes, tracker, gauge>>
  BY Zenon DEF StartBlocks, api
<1>2. TypeInv'
  BY <1>1, Zenon DEF IInv, TypeInv, Item, Replacing, Stopping
<1>3. Pathed' /\ HandRoutes' /\ RouteOwned'
  BY <1>1, Zenon DEF IInv, Pathed, HandRoutes, RouteOwned, InHand
<1>4. Told'
  BY <1>1, Zenon DEF IInv, Told, InHand, Replacing, Stopping
<1>5. HandProcessed' /\ Processed'
  BY <1>1, StageProcessed, Zenon DEF Replacing
<1> QED  BY <1>1, <1>2, <1>3, <1>4, <1>5, Zenon DEF IInv, AdaptersMatchListing

(* The new adapter is handed to the manager. *)
LEMMA AddIInv ==
    ASSUME IInv, AddAdapter
    PROVE  IInv'
<1> PICK x : x = cur
  BY Zenon
<1> DEFINE s == x.entry.source
<1>1. /\ pc = "add" /\ pc' = "items"
      /\ UNCHANGED <<crds, todo, listed, active, routes, tracker, gauge>>
      /\ adapters' = [adapters EXCEPT ![s] = x.entry]
  BY Zenon DEF AddAdapter, api
<1>2. Item(x) /\ x.entry \in Entry /\ s \in Sources /\ x \in listed \ todo /\ x.entry # None
  BY <1>1, HandFacts, NoneAssumption, Zenon DEF Replacing
<1>3. /\ adapters' \in [Sources -> Entry \cup {None}] /\ adapters'[s] = x.entry
      /\ \A t \in Sources \ {s} : adapters'[t] = adapters[t]
  BY <1>1, <1>2, Zenon DEF IInv, TypeInv
<1>4. /\ adapters[s] = None /\ x.entry.valid
      /\ x.entry.type = "webhook" => x.entry.path \in Paths /\ routes[x.entry.path] = s
  BY <1>1, <1>2, ValidPath, Zenon DEF IInv, HandRoutes, Item
<1>5. TypeInv'
  BY <1>1, <1>3, Zenon DEF IInv, TypeInv, Item, Replacing, Stopping
<1>6. Pathed' /\ HandRoutes'
  BY <1>1, <1>3, <1>4, Zenon DEF IInv, Pathed, HandRoutes
<1>7. RouteOwned'
  <2>1. ASSUME NEW p \in Paths, routes[p] \in Sources
        PROVE  adapters'[routes[p]] # None /\ adapters'[routes[p]].path = p
    <3>1. CASE routes[p] = s
      <4>1. x.entry.path = p
        BY <1>1, <1>4, <2>1, <3>1, Zenon DEF IInv, RouteOwned, InHand
      <4> QED  BY <1>2, <1>3, <3>1, <4>1, Zenon
    <3>2. CASE routes[p] # s
      BY <1>1, <1>3, <2>1, <3>2, Zenon DEF IInv, RouteOwned, InHand
    <3> QED  BY <3>1, <3>2, Zenon
  <2>2. ASSUME NEW t \in Sources, adapters'[t] # None, adapters'[t].type = "webhook"
        PROVE  routes[adapters'[t].path] = t
    <3>1. CASE t = s
      BY <1>3, <1>4, <2>2, <3>1, Zenon
    <3>2. CASE t # s
      BY <1>1, <1>3, <2>2, <3>2, Zenon DEF IInv, RouteOwned
    <3> QED  BY <3>1, <3>2, Zenon
  <2> QED  BY <1>1, <2>1, <2>2, Zenon DEF RouteOwned, InHand
<1>8. Told'
  <2>1. ASSUME NEW t \in Sources, t # s
        PROVE  /\ Owner[t] # None =>
                     ((tracker'[<<Owner[t], t>>] = "Running") <=> (adapters'[t] # None))
               /\ (gauge'[t] = 1) <=> (adapters'[t] # None)
    <3>1. /\ adapters'[t] = adapters[t] /\ gauge'[t] = gauge[t]
          /\ Owner[t] # None => tracker'[<<Owner[t], t>>] = tracker[<<Owner[t], t>>]
      BY <1>1, <1>3, <2>1, Zenon
    <3>2. cur.entry.source = s /\ s \in Sources
      BY <1>2, Zenon
    <3> QED  BY <2>1, <3>1, <3>2, OthersTold, Zenon
  <2>2. gauge'[s] = 1 /\ (Owner[s] # None => tracker'[<<Owner[s], s>>] = "Running")
    BY <1>1, <1>2, Zenon DEF IInv, Told, Replacing, Item
  <2> QED  BY <1>1, <1>2, <1>3, <2>1, <2>2, Zenon DEF Told, InHand, Replacing, Stopping
<1>9. HandProcessed'
  BY <1>1, Zenon DEF HandProcessed, Replacing, Stopping
<1>10. Processed'
  <2>1. /\ \A y \in listed : Item(y) /\ y.entry.source \in Sources
        /\ todo \subseteq listed
        /\ active = {y.entry.source : y \in listed \ todo}
    BY <1>1, Zenon DEF IInv, Processed, Item, Entry
  <2>2. ASSUME NEW t \in active, adapters'[t] # None
        PROVE  \E y \in listed : y.entry.source = t /\ y.entry.type = adapters'[t].type
    <3>1. CASE t = s
      BY <1>2, <1>3, <3>1, Zenon
    <3>2. CASE t # s
      <4>1. t \in Sources
        BY <2>1, <2>2, Zenon
      <4>2. adapters'[t] = adapters[t]
        BY <1>3, <3>2, <4>1, Zenon
      <4>3. \E y \in listed : y.entry.source = t /\ y.entry.type = adapters[t].type
        BY <1>1, <2>2, <4>2, ZenonT(30) DEF IInv, Processed
      <4> QED  BY <4>2, <4>3, Zenon
    <3> QED  BY <3>1, <3>2, Zenon
  <2>3. ASSUME Unique(listed), NEW y \in listed \ todo, y.entry.valid
        PROVE  adapters'[y.entry.source] # None /\ adapters'[y.entry.source].type = y.entry.type
    <3>1. CASE y = x
      BY <1>2, <1>3, <3>1, Zenon
    <3>2. CASE y # x
      <4>1. y.entry.source # s /\ y.entry.source \in Sources
        BY <1>2, <2>1, <2>3, <3>2, Zenon DEF Unique
      <4>2. adapters[y.entry.source] # None /\ adapters[y.entry.source].type = y.entry.type
        BY <1>1, <2>3, <3>2, Zenon DEF IInv, Processed
      <4> QED  BY <1>3, <4>1, <4>2, Zenon
    <3> QED  BY <3>1, <3>2, Zenon
  <2> QED  BY <1>1, <2>1, <2>2, <2>3, Zenon DEF Processed, Item, Unique, Replacing
<1> QED  BY <1>1, <1>5, <1>6, <1>7, <1>8, <1>9, <1>10, Zenon DEF IInv, AdaptersMatchListing

(* A stopped adapter leaves the manager, to be replaced or because         *)
(* its source is gone.                                                     *)
LEMMA RemoveIInv ==
    ASSUME IInv, RemoveOld \/ RemoveAdapter
    PROVE  IInv'
<1> PICK x : x = cur
  BY Zenon
<1> DEFINE s == x.entry.source
<1>1. /\ adapters' = [adapters EXCEPT ![s] = None]
      /\ UNCHANGED <<crds, todo, listed, active, routes, tracker>>
      /\ \/ pc = "remove" /\ pc' = "create" /\ cur' = cur /\ gauge' = gauge
         \/ pc = "forget" /\ pc' = "items" /\ gauge' = [gauge EXCEPT ![s] = 0]
  BY Zenon DEF RemoveOld, RemoveAdapter, api
<1>2. /\ s \in Sources
      /\ pc = "remove" => Item(x) /\ x \in listed \ todo
      /\ pc = "forget" => todo = {} /\ s \notin active
  BY <1>1, HandFacts, Zenon DEF IInv, TypeInv, HandProcessed, Replacing, Stopping
<1>3. /\ adapters' \in [Sources -> Entry \cup {None}] /\ adapters'[s] = None
      /\ \A t \in Sources \ {s} : adapters'[t] = adapters[t]
  BY <1>1, <1>2, Zenon DEF IInv, TypeInv
<1>4. \A p \in Paths : routes[p] # s
  BY <1>1, Zenon DEF IInv, HandRoutes
<1>5. /\ gauge' \in [Sources -> 0..2]
      /\ \A t \in Sources \ {s} : gauge'[t] = gauge[t]
      /\ pc' = "create" => gauge'[s] = 1
      /\ pc' = "items" => gauge'[s] # 1
  <2>1. 0 \in 0..2 /\ 0 # 1 /\ gauge \in [Sources -> 0..2]
    BY DEF IInv, TypeInv
  <2>2. pc = "remove" => gauge[s] = 1
    BY Zenon DEF IInv, Told, Replacing
  <2> HIDE DEF s
  <2> QED  BY <1>1, <1>2, <2>1, <2>2, Zenon
<1>6. TypeInv'
  BY <1>1, <1>2, <1>3, <1>5, Zenon DEF IInv, TypeInv, Item, Replacing, Stopping
<1>7. Pathed' /\ HandRoutes'
  <2>1. Pathed'
    BY <1>3, Zenon DEF IInv, Pathed
  <2> QED  BY <1>1, <1>3, <1>4, <2>1, Zenon DEF HandRoutes
<1>8. RouteOwned'
  <2>1. ASSUME NEW p \in Paths, routes[p] \in Sources
        PROVE  adapters'[routes[p]] # None /\ adapters'[routes[p]].path = p
    BY <1>1, <1>3, <1>4, <2>1, Zenon DEF IInv, RouteOwned, InHand
  <2>2. ASSUME NEW t \in Sources, adapters'[t] # None, adapters'[t].type = "webhook"
        PROVE  routes[adapters'[t].path] = t
    <3>1. t # s /\ adapters'[t] = adapters[t]
      BY <1>3, <2>2, Zenon
    <3> QED  BY <2>2, <3>1, Zenon DEF IInv, RouteOwned, InHand
  <2> QED  BY <1>1, <2>1, <2>2, Zenon DEF RouteOwned, InHand
<1>9. Told'
  <2>1. ASSUME NEW t \in Sources, t # s
        PROVE  /\ Owner[t] # None =>
                     ((tracker'[<<Owner[t], t>>] = "Running") <=> (adapters'[t] # None))
               /\ (gauge'[t] = 1) <=> (adapters'[t] # None)
    <3>1. /\ adapters'[t] = adapters[t] /\ gauge'[t] = gauge[t]
          /\ Owner[t] # None => tracker'[<<Owner[t], t>>] = tracker[<<Owner[t], t>>]
      BY <1>1, <1>3, <1>5, <2>1, Zenon
    <3>2. cur.entry.source = s /\ s \in Sources
      BY <1>2, Zenon
    <3> QED  BY <2>1, <3>1, <3>2, OthersTold, Zenon
  <2>2. CASE pc' = "create"
    BY <1>1, <1>5, <2>1, <2>2, Zenon DEF Told, InHand, Stopping
  <2>3. CASE pc' = "items"
    <3>1. pc = "forget"
      BY <1>1, <2>3, Zenon
    <3>2. Owner[s] # None => tracker'[<<Owner[s], s>>] # "Running"
      BY <1>1, <3>1, Zenon DEF IInv, Told, Stopping
    <3> QED  BY <1>3, <1>5, <2>1, <2>3, <3>2, Zenon DEF Told, InHand, Replacing, Stopping
  <2> QED  BY <1>1, <2>2, <2>3, Zenon
<1>10. HandProcessed'
  BY <1>1, <1>2, Zenon DEF HandProcessed, Replacing, Stopping
<1>11. Processed'
  <2>1. /\ \A y \in listed : Item(y) /\ y.entry.source \in Sources
        /\ todo \subseteq listed
        /\ active = {y.entry.source : y \in listed \ todo}
    BY <1>1, Zenon DEF IInv, Processed, Item, Entry
  <2>2. ASSUME NEW t \in active, adapters'[t] # None
        PROVE  \E y \in listed : y.entry.source = t /\ y.entry.type = adapters'[t].type
    <3>1. t \in Sources
      BY <2>1, <2>2, Zenon
    <3>2. t # s /\ adapters'[t] = adapters[t]
      BY <1>3, <2>2, <3>1, Zenon
    <3>3. \E y \in listed : y.entry.source = t /\ y.entry.type = adapters[t].type
      BY <1>1, <2>2, <3>2, ZenonT(30) DEF IInv, Processed
    <3> QED  BY <3>2, <3>3, Zenon
  <2>3. ASSUME Unique(listed), NEW y \in listed \ todo, y.entry.valid,
               pc' = "create" => y # x
        PROVE  adapters'[y.entry.source] # None /\ adapters'[y.entry.source].type = y.entry.type
    <3>1. y.entry.source # s /\ y.entry.source \in Sources
      BY <1>1, <1>2, <2>1, <2>3, Zenon DEF Unique
    <3>2. adapters[y.entry.source] # None /\ adapters[y.entry.source].type = y.entry.type
      BY <1>1, <2>3, <3>1, Zenon DEF IInv, Processed
    <3> QED  BY <1>3, <3>1, <3>2, Zenon
  <2> QED  BY <1>1, <2>1, <2>2, <2>3, Zenon DEF Processed, Item, Unique, Replacing
<1> QED  BY <1>1, <1>6, <1>7, <1>8, <1>9, <1>10, <1>11, Zenon DEF IInv, AdaptersMatchListing

(* An adapter that nobody lists: the tracker is told first ... *)
LEMMA UnwantedIInv ==
    ASSUME IInv, NEW s \in Sources, StopUnwanted(s)
    PROVE  IInv'
<1>1. /\ pc = "items" /\ pc' = "stop" /\ todo = {} /\ adapters[s] # None /\ s \notin active
      /\ UNCHANGED <<crds, todo, listed, active, adapters, routes, gauge>>
      /\ tracker' = TrackStopped(s) /\ cur'.entry.source = adapters[s].source
  BY Zenon DEF StopUnwanted, Unwanted, api
<1>2. cur'.entry.source = s
  BY <1>1, Zenon DEF IInv, Pathed
<1>3. /\ tracker' \in [Ingesters \X Sources -> {None, "Running", "Stopped", "Error"}]
      /\ Owner[s] # None => tracker'[<<Owner[s], s>>] = "Stopped"
      /\ \A t \in Sources : t # s /\ Owner[t] # None =>
            tracker'[<<Owner[t], t>>] = tracker[<<Owner[t], t>>]
  <2>1. tracker \in [Ingesters \X Sources -> {None, "Running", "Stopped", "Error"}]
    BY Zenon DEF IInv, TypeInv
  <2>2. \A t \in Sources : Owner[t] # None => <<Owner[t], t>> \in Ingesters \X Sources
    BY OwnerAssumption, Zenon
  <2> QED  BY <1>1, <2>1, <2>2, Zenon DEF TrackStopped
<1>4. TypeInv'
  BY <1>1, <1>2, <1>3, Zenon DEF IInv, TypeInv, Item, Replacing, Stopping
<1>5. Pathed' /\ HandRoutes' /\ RouteOwned'
  BY <1>1, Zenon DEF IInv, Pathed, HandRoutes, RouteOwned, InHand
<1>6. Told'
  <2>1. ASSUME NEW t \in Sources, t # s
        PROVE  /\ Owner[t] # None =>
                     ((tracker'[<<Owner[t], t>>] = "Running") <=> (adapters'[t] # None))
               /\ (gauge'[t] = 1) <=> (adapters'[t] # None)
    BY <1>1, <1>3, <2>1, OthersTold, Zenon
  <2> QED  BY <1>1, <1>2, <1>3, <2>1, Zenon DEF Told, InHand, Replacing
<1>7. HandProcessed'
  BY <1>1, <1>2, Zenon DEF HandProcessed, Replacing
<1>8. Processed'
  BY <1>1, ZenonT(30) DEF IInv, Processed, Item, Unique, Replacing
<1> QED  BY <1>1, <1>4, <1>5, <1>6, <1>7, <1>8, Zenon DEF IInv, AdaptersMatchListing

(* ... and then the adapter. *)
LEMMA StopIInv ==
    ASSUME IInv, StopAdapter
    PROVE  IInv'
<1> PICK s : s = cur.entry.source
  BY Zenon
<1>1. /\ pc = "stop" /\ pc' = "forget" /\ routes' = RoutesWithout(s)
      /\ UNCHANGED <<crds, todo, listed, cur, active, adapters, tracker, gauge>>
  BY Zenon DEF StopAdapter, Stop, api
<1>2. s \in Sources /\ s # "dead"
  BY <1>1, DeadAssumption, Zenon DEF IInv, TypeInv, Stopping
<1>3. /\ routes' \in [Paths -> Sources \cup {"dead", None}]
      /\ \A p \in Paths : /\ routes'[p] # s
                          /\ routes[p] # s => routes'[p] = routes[p]
                          /\ routes'[p] # routes[p] => routes'[p] = "dead"
  BY <1>1, <1>2, Zenon DEF IInv, TypeInv, RoutesWithout
<1>4. TypeInv'
  BY <1>1, <1>3, Zenon DEF IInv, TypeInv, Item, Replacing, Stopping
<1>5. Pathed' /\ HandRoutes'
  BY <1>1, <1>3, Zenon DEF IInv, Pathed, HandRoutes
<1>6. RouteOwned'
  <2>1. ASSUME NEW p \in Paths, routes'[p] \in Sources
        PROVE  adapters[routes'[p]] # None /\ adapters[routes'[p]].path = p
    <3>1. routes'[p] = routes[p]
      BY <1>3, <2>1, DeadAssumption, Zenon
    <3> QED  BY <1>1, <2>1, <3>1, Zenon DEF IInv, RouteOwned
  <2>2. ASSUME NEW t \in Sources, adapters[t] # None, adapters[t].type = "webhook", t # s
        PROVE  routes'[adapters[t].path] = t
    <3>1. adapters[t].path \in Paths /\ routes[adapters[t].path] = t
      BY <1>1, <2>2, Zenon DEF IInv, Pathed, RouteOwned
    <3> QED  BY <1>3, <2>2, <3>1, Zenon
  <2> QED  BY <1>1, <2>1, <2>2, Zenon DEF RouteOwned, InHand
<1>7. Told'
  BY <1>1, Zenon DEF IInv, Told, InHand, Replacing, Stopping
<1>8. HandProcessed' /\ Processed'
  BY <1>1, StageProcessed, Zenon DEF Stopping, Replacing
<1> QED  BY <1>1, <1>4, <1>5, <1>6, <1>7, <1>8, Zenon DEF IInv, AdaptersMatchListing

(* Every step keeps the invariant. *)
LEMMA NextIInv == IInv /\ [Next]_vars => IInv'
<1> SUFFICES ASSUME IInv, [Next]_vars PROVE IInv'
  BY Zenon
<1>1. CASE List
  <2>1. /\ pc = "idle" /\ pc' = "items" /\ todo' = Listing(crds) /\ listed' = Listing(crds)
        /\ active' = {} /\ UNCHANGED <<crds, cur, adapters, routes, tracker, gauge>>
    BY <1>1, Zenon DEF List, api
  <2>2. \A x \in Listing(crds) : Item(x)
    BY ListingItems, Zenon DEF IInv
  <2>3. TypeInv'
    BY <2>1, <2>2, Zenon DEF IInv, TypeInv, Item, Replacing, Stopping
  <2>4. Pathed' /\ RouteOwned' /\ HandRoutes'
    BY <2>1, Zenon DEF IInv, Pathed, RouteOwned, HandRoutes, InHand
  <2>5. Told' /\ HandProcessed'
    BY <2>1, Zenon DEF IInv, Told, InHand, HandProcessed, Replacing, Stopping
  <2>6. Processed'
    BY <2>1, <2>2, Zenon DEF Processed, Item, Replacing
  <2> QED  BY <2>1, <2>3, <2>4, <2>5, <2>6, Zenon DEF IInv, AdaptersMatchListing
<1>2. CASE EndReload
  <2>1. /\ pc = "items" /\ pc' = "idle" /\ todo = {} /\ Unwanted = {}
        /\ UNCHANGED <<crds, todo, listed, cur, active, adapters, routes, tracker, gauge>>
    BY <1>2, Zenon DEF EndReload, api
  <2>2. \A s \in Sources : adapters[s] # None => s \in active
    BY <2>1, Zenon DEF Unwanted
  <2>3. Matches(listed)
    BY <2>1, <2>2, Zenon DEF IInv, Processed, Matches, Replacing
  <2>4. AdaptersMatchListing'
    BY <2>1, <2>3, Zenon DEF AdaptersMatchListing, Matches, Unique
  <2>5. TypeInv'
    BY <2>1, Zenon DEF IInv, TypeInv, Item, Replacing, Stopping
  <2>6. Pathed' /\ RouteOwned' /\ HandRoutes'
    BY <2>1, Zenon DEF IInv, Pathed, RouteOwned, HandRoutes, InHand
  <2>7. Told' /\ HandProcessed'
    BY <2>1, Zenon DEF IInv, Told, InHand, HandProcessed, Replacing, Stopping
  <2>8. Processed'
    BY <2>1, Zenon DEF Processed
  <2> QED  BY <2>4, <2>5, <2>6, <2>7, <2>8, Zenon DEF IInv
<1>3. ASSUME UNCHANGED <<pc, todo, listed, cur, active, adapters, routes, tracker, gauge>>,
             crds' \in [Ingesters -> {None} \cup UNION {Specs[i] : i \in Ingesters}],
             \A i \in Ingesters : crds'[i] \in Specs[i] \cup {None}
      PROVE  IInv'
  <2>1. TypeInv'
    BY <1>3, Zenon DEF IInv, TypeInv, Item
  <2>2. Pathed' /\ RouteOwned' /\ HandRoutes'
    BY <1>3, Zenon DEF IInv, Pathed, RouteOwned, HandRoutes, InHand
  <2>3. Told' /\ HandProcessed'
    BY <1>3, Zenon DEF IInv, Told, InHand, HandProcessed
  <2>4. Processed'
    BY <1>3, ZenonT(60) DEF IInv, Processed, Item, Unique
  <2>5. AdaptersMatchListing'
    BY <1>3, Zenon DEF IInv, AdaptersMatchListing, Matches, Unique
  <2> QED  BY <2>1, <2>2, <2>3, <2>4, <2>5, Zenon DEF IInv
<1>4. CASE ListFails \/ Restart \/ (\E i \in Ingesters : UpdateStatus(i)) \/ UNCHANGED vars
  <2>1. UNCHANGED <<crds, pc, todo, listed, cur, active, adapters, routes, tracker, gauge>>
    BY <1>4, Zenon DEF ListFails, Restart, UpdateStatus, vars, api, memory
  <2>2. /\ crds' \in [Ingesters -> {None} \cup UNION {Specs[i] : i \in Ingesters}]
        /\ \A i \in Ingesters : crds'[i] \in Specs[i] \cup {None}
    BY <2>1, Zenon DEF IInv, TypeInv
  <2> QED  BY <1>3, <2>1, <2>2, Zenon
<1>5. ASSUME NEW i \in Ingesters, Edit(i) PROVE IInv'
  <2>1. /\ \E spec \in Specs[i] \cup {None} : crds' = [crds EXCEPT ![i] = spec]
        /\ UNCHANGED <<pc, todo, listed, cur, active, adapters, routes, tracker, gauge>>
    BY <1>5, Zenon DEF Edit, memory
  <2>2. /\ crds' \in [Ingesters -> {None} \cup UNION {Specs[j] : j \in Ingesters}]
        /\ \A j \in Ingesters : crds'[j] \in Specs[j] \cup {None}
    BY <2>1 DEF IInv, TypeInv
  <2> QED  BY <1>3, <2>1, <2>2, Zenon
<1>6. CASE StaleHandlerPanics \/ RegisterPanics
  <2>1. Crash /\ UNCHANGED crds
    BY <1>6, Zenon DEF StaleHandlerPanics, RegisterPanics, api
  <2>2. /\ crds' \in [Ingesters -> {None} \cup UNION {Specs[j] : j \in Ingesters}]
        /\ \A j \in Ingesters : crds'[j] \in Specs[j] \cup {None}
    BY <2>1, Zenon DEF IInv, TypeInv
  <2>3. Empty'
    BY <2>1, <2>2, Zenon DEF Crash, Empty, NoAdapters, NoRoutes, NoTrackers, NoGauge
  <2> QED  BY <2>3, EmptyIInv, PTL
<1> QED  BY <1>1, <1>2, <1>4, <1>5, <1>6, KeepIInv, TakeIInv, StartIInv, TrackIInv,
              ErrorIInv, BlockIInv, AddIInv, RemoveIInv, UnwantedIInv, StopIInv, Zenon
         DEF Next, Reload

(* A webhook path with an open channel leads to the adapter in the manager *)
(* for it, and every running webhook adapter is reachable, through         *)
(* replacements, stops, panics and restarts (WebhookAdapter.Start, Stop).  *)
THEOREM RoutesOwned == Spec => []RouteOwned
<1>1. IInv => RouteOwned
  BY Zenon DEF IInv
<1> QED  BY InitIInv, NextIInv, <1>1, PTL DEF Spec

(* Between reloads the running adapters are those the last listing asked   *)
(* for (reloadAdapters).                                                   *)
THEOREM ReloadComplete == Spec => []AdaptersMatchListing
<1>1. IInv => AdaptersMatchListing
  BY Zenon DEF IInv
<1> QED  BY InitIInv, NextIInv, <1>1, PTL DEF Spec

(* The tracker's state and the gauge of a source tell whether its adapter  *)
(* runs (createAndStartAdapter, handleAdapterError, stopAdapter).          *)
THEOREM StatusIsTruthful == Spec => []StatusTruthful
<1>1. IInv => StatusTruthful
  BY Zenon DEF IInv, TypeInv, Told, StatusTruthful, InHand
<1> QED  BY InitIInv, NextIInv, <1>1, PTL DEF Spec

(* A step that takes the adapter of s away does it for an entry of another *)
(* type, or because no listed entry has the source.                        *)
LEMMA StopsNeeded ==
    ASSUME IInv, Next, NEW s \in Sources
    PROVE  ~NeedlessStop(s)
<1> SUFFICES ASSUME NeedlessStop(s) PROVE FALSE
  BY Zenon
<1>1. /\ adapters[s] # None /\ adapters'[s] # adapters[s] /\ up' /\ Unique(listed)
      /\ \E y \in listed : y.entry.source = s /\ y.entry.type = adapters[s].type
  BY Zenon DEF NeedlessStop
<1>2. CASE RemoveOld
  <2>1. pc = "remove" /\ adapters' = [adapters EXCEPT ![cur.entry.source] = None]
    BY <1>2, Zenon DEF RemoveOld
  <2>2. cur.entry.source = s
    BY <1>1, <2>1, Zenon DEF IInv, TypeInv
  <2>3. cur \in listed /\ adapters[s].type # cur.entry.type
    BY <2>1, <2>2, Zenon DEF IInv, HandProcessed, Replacing
  <2> QED  BY <1>1, <2>2, <2>3, Zenon DEF Unique
<1>3. CASE RemoveAdapter
  <2>1. pc = "forget" /\ adapters' = [adapters EXCEPT ![cur.entry.source] = None]
    BY <1>3, Zenon DEF RemoveAdapter
  <2>2. cur.entry.source = s
    BY <1>1, <2>1, Zenon DEF IInv, TypeInv
  <2>3. todo = {} /\ s \notin active /\ active = {y.entry.source : y \in listed \ todo}
    BY <2>1, <2>2, Zenon DEF IInv, HandProcessed, Processed, Stopping
  <2> QED  BY <1>1, <2>3, Zenon
<1>4. CASE AddAdapter
  <2>1. pc = "add" /\ adapters' = [adapters EXCEPT ![cur.entry.source] = cur.entry]
    BY <1>4, Zenon DEF AddAdapter
  <2>2. cur.entry.source = s
    BY <1>1, <2>1, Zenon DEF IInv, TypeInv
  <2> QED  BY <1>1, <2>1, <2>2, Zenon DEF IInv, HandRoutes
<1>5. CASE UNCHANGED adapters \/ ~up'
  BY <1>1, <1>5, Zenon
<1> QED  BY <1>2, <1>3, <1>4, <1>5, Zenon
   DEF Next, Reload, List, EndReload, KeepAdapter, StopOld, NewSource, Pick, StartAdapter,
       TrackRunning, AdapterError, RegisterPanics, StartBlocks, StopUnwanted, StopAdapter,
       ListFails, Edit, UpdateStatus, StaleHandlerPanics, Restart, Crash, memory

(* While no two Ingesters name the same source, no reload stops or         *)
(* replaces the adapter of a source that is listed as before               *)
(* (configChanged, reloadAdapters).                                        *)
THEOREM NothingStoppedNeedlessly == Spec => NoNeedlessStop
<1>1. IInv /\ [Next]_vars => [\A s \in Sources : ~NeedlessStop(s)]_vars
  BY StopsNeeded, Zenon
<1> QED  BY InitIInv, NextIInv, <1>1, PTL DEF Spec, NoNeedlessStop
=============================================================================
