--------------------------- MODULE IngesterStore ---------------------------
(***************************************************************************)
(* The store of Ingester configurations (pkg/config/ingester_loader.go,    *)
(* ingester_extractors.go): an informer watches the Ingesters, converts    *)
(* each one and keeps it under its name and, in a second index, under its  *)
(* source.  The GVR resolver of cmd/zen-watcher/main.go looks a source up  *)
(* in that index to find where its events are written.                     *)
(*                                                                         *)
(* Watch, cache and resync are client-go's and external.  The handlers run *)
(* in one goroutine, one notification after the other, and only they read  *)
(* the first index, so a handler is one step although AddOrUpdate and      *)
(* Delete take the locks of the two indexes one by one.                    *)
(***************************************************************************)
EXTENDS Integers, Sequences, FiniteSets, Functions

CONSTANTS
  Ingesters,    \* namespaced names
  Specs,        \* what users may write, fields below
  Absent,       \* no object, no configuration, a setting that is not given
  Observations, \* the default destination
  MaxEdits,     \* bound on the users' edits
  MaxBreaks     \* bound on the breaks of the watch

ASSUME BoundsAssumption == MaxEdits \in Nat /\ MaxBreaks \in Nat

ASSUME SpecsAssumption ==
  \A spec \in Specs : spec.destinations \in Seq([type : STRING, gvr : STRING, value : STRING])

ASSUME IngestersAssumption == Cardinality(Ingesters) \in Nat

VARIABLES
  objects,   \* the Ingesters in the API server
  cache,     \* the Ingesters the informer knows
  connected, \* whether the watch is open
  queue,     \* notifications the handlers have not seen
  store,     \* CRDStore: name -> configuration
  bySource,  \* source -> configuration
  edits, breaks

vars == <<objects, cache, connected, queue, store, bySource, edits, breaks>>

-------------------------------------------------------------------------------
(* Conversion.  A spec has the fields source, ingester ("" when missing),  *)
(* sources (a sequence of [name, type, section]), destinations (of [type,  *)
(* gvr, value]), sections (the settings given at top level), processing    *)
(* (order and the dedup and filter given there), deduplication and filters *)
(* (their older places).  The contents of a section, normalization and the *)
(* thresholds of processing are left out: nothing here reads them.         *)

\* A destination's gvr is "absent", "partial" (no version or no resource), "invalid"
\* or a resource; "" is the empty GVR.
ResolveGVR(d) ==
  CASE d.gvr = "invalid"              -> ""
    [] d.gvr \in {"absent", "partial"} -> d.value
    [] OTHER                          -> d.gvr

DestinationUsable(d) == d.type = "crd" /\ ResolveGVR(d) # ""

\* Mutant of extractDestinations: destinations without a GVR are kept.
AnyDestination(ds) ==
  LET usable == SelectSeq(ds, LAMBDA d : d.type = "crd")
  IN  [i \in DOMAIN usable |-> ResolveGVR(usable[i])]

\* The loop over the destinations: kept[i] is the result after the first i.
extractDestinations(ds) ==
  LET kept[i \in 0..Len(ds)] ==
        IF i = 0 THEN <<>>
        ELSE IF DestinationUsable(ds[i]) THEN Append(kept[i - 1], ResolveGVR(ds[i]))
        ELSE kept[i - 1]
  IN  kept[Len(ds)]

\* "enabled" under processing.dedup defaults to true, in the older place to false.
extractDedup(spec) ==
  IF spec.processing.dedup # Absent THEN [enabled |-> spec.processing.dedup # "false"]
  ELSE IF spec.deduplication # Absent THEN [enabled |-> spec.deduplication = "true"]
  ELSE Absent

extractFilter(spec) ==
  IF spec.processing.filter # Absent THEN spec.processing.filter ELSE spec.filters

\* What the sources of an Ingester have in common.
extractSharedConfig[spec \in Specs] ==
  [destinations |-> extractDestinations(spec.destinations),
   order        |-> spec.processing.order,
   filter       |-> extractFilter(spec),
   dedup        |-> extractDedup(spec)]

Config(n, source, ingester, sections, shared) ==
  [name |-> n, source |-> source, ingester |-> ingester, sections |-> sections,
   destinations |-> shared.destinations, order |-> shared.order, filter |-> shared.filter,
   dedup |-> shared.dedup]

LegacyUsable(spec) ==
  /\ spec.source # "" /\ spec.ingester # ""
  /\ extractDestinations(spec.destinations) # <<>>

\* ConvertToIngesterConfig, which the handlers use: it extracts each part by itself.
ConvertToIngesterConfig(n, spec) ==
  IF spec # Absent /\ LegacyUsable(spec)
  THEN [name |-> n, source |-> spec.source, ingester |-> spec.ingester,
        sections |-> spec.sections, destinations |-> extractDestinations(spec.destinations),
        order |-> spec.processing.order, filter |-> extractFilter(spec),
        dedup |-> extractDedup(spec)]
  ELSE Absent

\* convertMultiSourceIngester: an entry without name or type, of an unknown type, or
\* without the settings of its type is skipped.
EntryUsable(e) ==
  e.name # "" /\ e.type \in {"informer", "webhook", "logs"} /\ e.section

convertMultiSourceIngester(n, spec) ==
  LET shared == extractSharedConfig[spec]
      usable == SelectSeq(spec.sources, EntryUsable)
  IN  IF shared.destinations = <<>> THEN <<>>
      ELSE [i \in DOMAIN usable |->
              Config(n, n \o "/" \o usable[i].name, usable[i].type, {usable[i].type}, shared)]

\* convertLegacyIngester takes what is not specific to the source from extractSharedConfig.
convertLegacyIngester(n, spec) ==
  Config(n, spec.source, spec.ingester, spec.sections, extractSharedConfig[spec])

\* ConvertToIngesterConfigs, which the orchestrator uses.
ConvertToIngesterConfigs(n, spec) ==
  IF spec = Absent THEN <<>>
  ELSE IF spec.sources # <<>> THEN convertMultiSourceIngester(n, spec)
  ELSE IF LegacyUsable(spec) THEN <<convertLegacyIngester(n, spec)>>
  ELSE <<>>

\* No configuration is Absent.
ASSUME AbsentAssumption ==
  \A n \in Ingesters, spec \in Specs :
    LegacyUsable(spec) => convertLegacyIngester(n, spec) # Absent

-------------------------------------------------------------------------------
(* The two indexes.                                                        *)

With(f, k, v) == [x \in DOMAIN f \cup {k} |-> IF x = k THEN v ELSE f[x]]

\* Mutant of Put: a source already there is kept.
PutOnce(c) ==
  /\ store' = With(store, c.name, c)
  /\ bySource' = IF c.source \in DOMAIN bySource THEN bySource
                 ELSE With(bySource, c.source, c)

\* AddOrUpdate overwrites both entries.
Put(c) ==
  /\ store' = With(store, c.name, c)
  /\ bySource' = With(bySource, c.source, c)

\* Delete removes the entry of the source the Ingester had when it was last stored.
Without(f, k) == [x \in DOMAIN f \ {k} |-> f[x]]

Delete(n) ==
  IF n \in DOMAIN store
  THEN /\ store' = Without(store, n)
       /\ bySource' = Without(bySource, store[n].source)
  ELSE UNCHANGED <<store, bySource>>

\* The GVR resolver of main.go; every stored destination is of type crd.
Resolve(s) == IF s \in DOMAIN bySource THEN bySource[s].destinations[1] ELSE Observations

-------------------------------------------------------------------------------
Note(event, n, spec) == [event |-> event, name |-> n, spec |-> spec]

\* The orders in which client-go may go through a set of Ingesters.
Orders(S) == UNION {Bijection(1..c, S) : c \in 0..Cardinality(Ingesters)}

Init ==
  /\ objects \in [Ingesters -> Specs \cup {Absent}]
  /\ cache = [n \in Ingesters |-> Absent]
  /\ connected = FALSE
  /\ queue = <<>>
  /\ store = <<>> /\ bySource = <<>>
  /\ edits = 0 /\ breaks = 0

\* A user creates, changes or deletes an Ingester.  An open watch tells the informer.
Edit(n, spec) ==
  /\ edits < MaxEdits /\ spec # objects[n]
  /\ edits' = edits + 1
  /\ objects' = [objects EXCEPT ![n] = spec]
  /\ IF connected
     THEN /\ cache' = [cache EXCEPT ![n] = spec]
          /\ queue' = Append(queue,
               IF spec = Absent THEN Note("delete", n, cache[n])
               ELSE IF cache[n] = Absent THEN Note("add", n, spec)
               ELSE Note("update", n, spec))
     ELSE UNCHANGED <<cache, queue>>
  /\ UNCHANGED <<connected, store, bySource, breaks>>

\* The watch ends and changes go unseen until the informer lists again.
Break ==
  /\ connected /\ breaks < MaxBreaks
  /\ connected' = FALSE /\ breaks' = breaks + 1
  /\ UNCHANGED <<objects, cache, queue, store, bySource, edits>>

\* The first list and those after a break: the objects that differ from the cache are
\* notified, the ones that are gone last and as DeletedFinalStateUnknown.
Relist ==
  /\ ~connected
  /\ connected' = TRUE
  /\ cache' = objects
  /\ LET gone == {n \in Ingesters : cache[n] # Absent /\ objects[n] = Absent}
         new  == {n \in Ingesters : objects[n] \notin {cache[n], Absent}}
     IN  \E upserts \in Orders(new), tombstones \in Orders(gone) :
           queue' = queue
             \o ([i \in DOMAIN upserts |->
                    Note(IF cache[upserts[i]] = Absent THEN "add" ELSE "update",
                         upserts[i], objects[upserts[i]])]
                 \o [i \in DOMAIN tombstones |->
                       Note("tombstone", tombstones[i], cache[tombstones[i]])])
  /\ UNCHANGED <<objects, store, bySource, edits, breaks>>

\* The factory repeats what it knows as updates every ten minutes (here: when the
\* handlers have nothing else to do).
Resync ==
  /\ queue = <<>>
  /\ \E known \in Orders({n \in Ingesters : cache[n] # Absent}) :
       queue' = [i \in DOMAIN known |-> Note("update", known[i], cache[known[i]])]
  /\ UNCHANGED <<objects, cache, connected, store, bySource, edits, breaks>>

\* Mutant of onUpsert: updates are ignored.
OnlyNew(n, spec) ==
  LET c == ConvertToIngesterConfig(n, spec)
  IN  IF c # Absent /\ n \notin DOMAIN store THEN Put(c) ELSE UNCHANGED <<store, bySource>>

\* onAdd and onUpdate do the same: what cannot be converted is ignored.
onUpsert(n, spec) ==
  LET c == ConvertToIngesterConfig(n, spec)
  IN  IF c # Absent THEN Put(c) ELSE UNCHANGED <<store, bySource>>

\* onDelete: the ok that is tested after the unpacking of a DeletedFinalStateUnknown is
\* the one of the failed first conversion, so a tombstone is dropped.
onDelete(note) ==
  IF note.event = "tombstone" THEN UNCHANGED <<store, bySource>> ELSE Delete(note.name)

Handle ==
  /\ queue # <<>>
  /\ LET note == Head(queue)
     IN  IF note.event \in {"add", "update"} THEN onUpsert(note.name, note.spec)
         ELSE onDelete(note)
  /\ queue' = Tail(queue)
  /\ UNCHANGED <<objects, cache, connected, edits, breaks>>

Next ==
  \/ \E n \in Ingesters, spec \in Specs \cup {Absent} : Edit(n, spec)
  \/ Break \/ Relist \/ Resync \/ Handle

Spec == Init /\ [][Next]_vars

\* The informer's goroutines run, it lists again after a break, and its resync ticks.
FairSpec == Spec /\ WF_vars(Handle) /\ WF_vars(Relist) /\ WF_vars(Resync)

-------------------------------------------------------------------------------
(* Properties.                                                             *)

Sources == {spec.source : spec \in Specs}

\* The indexes hold configurations under their own name and source.
TypeOK ==
  /\ objects \in [Ingesters -> Specs \cup {Absent}]
  /\ cache \in [Ingesters -> Specs \cup {Absent}]
  /\ connected \in BOOLEAN
  /\ DOMAIN store \subseteq Ingesters /\ DOMAIN bySource \subseteq Sources
  /\ \A n \in DOMAIN store : \E spec \in Specs : store[n] = ConvertToIngesterConfig(n, spec)
  /\ \A s \in DOMAIN bySource : bySource[s].source = s /\ bySource[s].name \in Ingesters
  /\ edits \in 0..MaxEdits /\ breaks \in 0..MaxBreaks

Live == {n \in Ingesters : objects[n] # Absent}

Quiet == connected /\ queue = <<>>

\* Once the handlers have seen everything, the store holds what the orchestrator's
\* converter (ConvertToIngesterConfigs) makes of every single-source Ingester, although
\* the handlers use another one, and nothing that was deleted under an open watch.
StoreFollows ==
  Quiet =>
    /\ \A n \in Live :
         LET cs == ConvertToIngesterConfigs(n, objects[n])
         IN  objects[n].sources = <<>> /\ cs # <<>>
               => n \in DOMAIN store /\ store[n] = cs[1]
    /\ breaks = 0 => DOMAIN store \subseteq Live

\* The resolver never answers with the empty or an invalid GVR, nor with a destination of
\* another kind: it names the default or what a usable crd destination of some spec
\* with that source names (extractDestinations, main.go's resolver).
DestinationValid ==
  \A s \in Sources :
    \/ Resolve(s) = Observations
    \/ \E spec \in Specs : \E i \in DOMAIN spec.destinations :
         LET d == spec.destinations[i]
         IN  /\ spec.source = s /\ d.type = "crd" /\ d.gvr # "invalid"
             /\ Resolve(s) # ""
             /\ Resolve(s) = (IF d.gvr \in {"absent", "partial"} THEN d.value ELSE d.gvr)

\* A source the orchestrator runs for a single-source Ingester and that no other live
\* Ingester names.
Sole(n) ==
  /\ objects[n] # Absent /\ objects[n].sources = <<>>
  /\ ConvertToIngesterConfigs(n, objects[n]) # <<>>
  /\ \A m \in Live \ {n} : objects[m].source # objects[n].source

Resolved ==
  \A n \in Ingesters : Sole(n) =>
    LET c == ConvertToIngesterConfigs(n, objects[n])[1]
    IN  Resolve(c.source) = c.destinations[1]

\* In the end the events of such a source go where its Ingester says, whatever was
\* renamed, shared or deleted before: an index entry that another Ingester's Delete took
\* away, or that is left of an older owner, is written again by the resync.
Settles == <>[]Resolved

\* onDelete's comment: "Handle DeletedFinalStateUnknown".
TombstoneHandled == Quiet => DOMAIN store \subseteq Live

=============================================================================
