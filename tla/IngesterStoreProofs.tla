------------------------ MODULE IngesterStoreProofs ------------------------
(***************************************************************************)
(* The store of Ingester configurations follows the Ingesters, for any     *)
(* Ingesters, specs and numbers of edits and breaks of the watch.          *)
(*                                                                         *)
(* StoreFollows only speaks of the moments at which nothing is waiting.    *)
(* The invariant says what waits: of each Ingester, the last notification  *)
(* in the queue that a handler acts on, or the store when there is none,   *)
(* has what the informer's cache holds (Follows).  Which notifications the *)
(* handlers act on (Decides) is the heart of it: a spec that cannot be     *)
(* converted and a tombstone leave the store as it is.                     *)
(*                                                                         *)
(* The index by source holds nothing but what the converter made, and what *)
(* extractDestinations leaves to it names usable destinations.  That a     *)
(* loop runs to its end and what it returns are shown with the least       *)
(* number of rounds for which this would fail (LeastNumber).               *)
(***************************************************************************)
EXTENDS IngesterStore, WellFoundedInduction, TLAPS

Notes ==
    [event : {"add", "update", "delete", "tombstone"}, name : Ingesters,
     spec : Specs \cup {Absent}]

(* The handlers change the entry of n when they see this notification. *)
Decides(note, n) ==
    /\ note.name = n
    /\ \/ note.event = "delete"
       \/ /\ note.event \in {"add", "update"}
          /\ ConvertToIngesterConfig(n, note.spec) # Absent

(* What they leave there. *)
Outcome(note) ==
    IF note.event = "delete" THEN Absent ELSE ConvertToIngesterConfig(note.name, note.spec)

Held(n) == IF n \in DOMAIN store THEN store[n] ELSE Absent

(* As an entry of n, v is what the informer knows of n. *)
Right(n, v) ==
    /\ ConvertToIngesterConfig(n, cache[n]) # Absent => v = ConvertToIngesterConfig(n, cache[n])
    /\ breaks = 0 /\ cache[n] = Absent => v = Absent

Undecided(q, n) == \A k \in 1..Len(q) : ~Decides(q[k], n)

LastDecides(q, n, k) ==
    /\ k \in 1..Len(q) /\ Decides(q[k], n)
    /\ \A j \in 1..Len(q) : j > k => ~Decides(q[j], n)

FollowsOne(n) ==
    \/ Undecided(queue, n) /\ Right(n, Held(n))
    \/ \E k \in 1..Len(queue) : LastDecides(queue, n, k) /\ Right(n, Outcome(queue[k]))

Follows == \A n \in Ingesters : FollowsOne(n)

StoreTypes ==
    /\ objects \in [Ingesters -> Specs \cup {Absent}]
    /\ cache \in [Ingesters -> Specs \cup {Absent}]
    /\ connected \in BOOLEAN
    /\ queue \in Seq(Notes)
    /\ DOMAIN store \subseteq Ingesters
    /\ \A n \in DOMAIN store : store[n] # Absent
    /\ breaks \in Nat

(* An open watch keeps the cache up to date, and before the first listing  *)
(* there is nothing in it.                                                 *)
Watched ==
    /\ connected => cache = objects
    /\ ~connected /\ breaks = 0 => \A n \in Ingesters : cache[n] = Absent

IInv == StoreTypes /\ Watched /\ Follows

-----------------------------------------------------------------------------
(* Sequences of notifications.                                             *)

(* What concatenation does to the elements of a queue. *)
LEMMA Concatenation ==
    ASSUME NEW S, NEW p \in Seq(S), NEW q \in Seq(S)
    PROVE  /\ p \o q \in Seq(S) /\ Len(p \o q) = Len(p) + Len(q)
           /\ \A i \in 1..(Len(p) + Len(q)) :
                 (p \o q)[i] = IF i <= Len(p) THEN p[i] ELSE q[i - Len(p)]
OBVIOUS

(* What is put behind a queue decides, or else what was there still does. *)
LEMMA DecidesConcat ==
    ASSUME NEW p \in Seq(Notes), NEW q \in Seq(Notes), NEW n
    PROVE  /\ p \o q \in Seq(Notes)
           /\ Undecided(q, n) /\ Undecided(p, n) => Undecided(p \o q, n)
           /\ \A k \in 1..Len(p) :
                 Undecided(q, n) /\ LastDecides(p, n, k)
                   => LastDecides(p \o q, n, k) /\ (p \o q)[k] = p[k]
           /\ \A k \in 1..Len(q) :
                 LastDecides(q, n, k)
                   => LastDecides(p \o q, n, Len(p) + k) /\ (p \o q)[Len(p) + k] = q[k]
<1>1. PICK r :
        /\ r = p \o q /\ r \in Seq(Notes) /\ Len(r) = Len(p) + Len(q)
        /\ \A i \in 1..(Len(p) + Len(q)) : r[i] = IF i <= Len(p) THEN p[i] ELSE q[i - Len(p)]
  <2>1. /\ p \o q \in Seq(Notes) /\ Len(p \o q) = Len(p) + Len(q)
        /\ \A i \in 1..(Len(p) + Len(q)) : (p \o q)[i] = IF i <= Len(p) THEN p[i] ELSE q[i - Len(p)]
    BY ONLY p \in Seq(Notes), q \in Seq(Notes), Concatenation, Zenon
  <2> QED  BY ONLY <2>1, Zenon
<1>2. Len(p) \in Nat /\ Len(q) \in Nat
  OBVIOUS
<1>3. \A i \in 1..Len(p) : i \in 1..Len(r) /\ r[i] = p[i]
  BY <1>1, <1>2
<1>4. \A i \in 1..Len(q) : Len(p) + i \in 1..Len(r) /\ r[Len(p) + i] = q[i]
  <2>1. ASSUME NEW i \in 1..Len(q)
        PROVE  /\ Len(p) + i \in 1..(Len(p) + Len(q)) /\ ~(Len(p) + i <= Len(p))
               /\ (Len(p) + i) - Len(p) = i
    BY <1>2
  <2> QED  BY <1>1, <2>1, Zenon
<1>5. \A j \in 1..Len(r) :
        j \in 1..Len(p) \/ (j - Len(p) \in 1..Len(q) /\ j > Len(p) /\ r[j] = q[j - Len(p)])
  BY <1>1, <1>2
<1>6. Undecided(q, n) /\ Undecided(p, n) => Undecided(r, n)
  BY <1>3, <1>5, Zenon DEF Undecided
<1>7. ASSUME NEW k \in 1..Len(p), Undecided(q, n), LastDecides(p, n, k)
      PROVE  LastDecides(r, n, k) /\ r[k] = p[k]
  <2>1. ASSUME NEW j \in 1..Len(r), j > k PROVE ~Decides(r[j], n)
    BY <1>3, <1>5, <1>7, <2>1, Zenon DEF Undecided, LastDecides
  <2> QED  BY <1>3, <1>7, <2>1, Zenon DEF LastDecides
<1>8. ASSUME NEW k \in 1..Len(q), LastDecides(q, n, k)
      PROVE  LastDecides(r, n, Len(p) + k) /\ r[Len(p) + k] = q[k]
  <2>1. ASSUME NEW j \in 1..Len(r), j > Len(p) + k PROVE ~Decides(r[j], n)
    <3>1. j - Len(p) \in 1..Len(q) /\ j - Len(p) > k /\ r[j] = q[j - Len(p)]
      BY <1>2, <1>5, <2>1
    <3> QED  BY <1>8, <3>1, Zenon DEF LastDecides
  <2> QED  BY <1>4, <1>8, <2>1, Zenon DEF LastDecides
<1> QED  BY <1>1, <1>6, <1>7, <1>8, Zenon

(* The notifications r are about the Ingesters of S in some order, one     *)
(* each, so that at most one decides about an Ingester.                    *)
OneEach(S, order, r) ==
    /\ r \in Seq(Notes)
    /\ \A i \in DOMAIN order : order[i] \in S
    /\ \A n \in S : \E i \in DOMAIN order : order[i] = n
    /\ \A n : (\A i \in DOMAIN order : order[i] = n => ~Decides(r[i], n)) => Undecided(r, n)
    /\ \A i \in DOMAIN order :
          Decides(r[i], order[i]) => i \in 1..Len(r) /\ LastDecides(r, order[i], i)

(* This is what a listing and a resync put into the queue. *)
LEMMA InOrder ==
    ASSUME NEW S, NEW order \in Orders(S), NEW r \in [DOMAIN order -> Notes],
           \A i \in DOMAIN order : r[i].name = order[i]
    PROVE  OneEach(S, order, r)
<1>1. PICK c \in 0..Cardinality(Ingesters) : order \in Bijection(1..c, S)
  BY Zenon DEF Orders
<1>2. c \in Nat
  BY IngestersAssumption
<1>3. /\ order \in [1..c -> S] /\ DOMAIN order = 1..c
      /\ \A i, j \in 1..c : order[i] = order[j] => i = j
      /\ \A n \in S : \E i \in 1..c : order[i] = n
  BY <1>1, Zenon DEF Bijection, Injection, Surjection, IsInjective
<1>4. r \in Seq(Notes) /\ Len(r) = c
  BY <1>2, <1>3
<1>5. \A i \in 1..c : order[i] \in S
  BY <1>3, Zenon
<1>6. ASSUME NEW n, \A i \in DOMAIN order : order[i] = n => ~Decides(r[i], n)
      PROVE  Undecided(r, n)
  BY <1>3, <1>4, <1>6, Zenon DEF Undecided, Decides
<1>7. ASSUME NEW i \in DOMAIN order, Decides(r[i], order[i])
      PROVE  i \in 1..Len(r) /\ LastDecides(r, order[i], i)
  <2>1. ASSUME NEW j \in 1..c, j > i PROVE ~Decides(r[j], order[i])
    <3>1. j # i
      BY <1>3, <2>1
    <3> QED  BY <1>3, <3>1, SMTT(30) DEF Decides
  <2> QED  BY <1>3, <1>4, <1>7, <2>1, Zenon DEF LastDecides
<1> QED  BY <1>3, <1>4, <1>5, <1>6, <1>7, Zenon DEF OneEach

-----------------------------------------------------------------------------
(* The converter: what it makes of a spec bears the name of the Ingester,  *)
(* and of no spec it makes nothing.                                        *)
LEMMA Converted ==
    ASSUME NEW n \in Ingesters
    PROVE  /\ ConvertToIngesterConfig(n, Absent) = Absent
           /\ \A spec : ConvertToIngesterConfig(n, spec) # Absent
                          => ConvertToIngesterConfig(n, spec).name = n
BY Zenon DEF ConvertToIngesterConfig

(* The two converters agree on an Ingester without a list of sources       *)
(* (ConvertToIngesterConfig, convertLegacyIngester).                       *)
LEMMA ConvertersAgree ==
    ASSUME NEW n \in Ingesters, NEW spec \in Specs, spec # Absent, spec.sources = <<>>,
           ConvertToIngesterConfigs(n, spec) # <<>>
    PROVE  /\ ConvertToIngesterConfigs(n, spec)[1] = ConvertToIngesterConfig(n, spec)
           /\ ConvertToIngesterConfig(n, spec) # Absent
<1>1. LegacyUsable(spec)
  BY Zenon DEF ConvertToIngesterConfigs
<1>2. PICK c : c = convertLegacyIngester(n, spec)
  BY Zenon
<1>3. /\ extractSharedConfig[spec].destinations = extractDestinations(spec.destinations)
      /\ extractSharedConfig[spec].order = spec.processing.order
      /\ extractSharedConfig[spec].filter = extractFilter(spec)
      /\ extractSharedConfig[spec].dedup = extractDedup(spec)
  BY Zenon DEF extractSharedConfig
<1>4. ConvertToIngesterConfigs(n, spec) = <<c>>
  BY <1>1, <1>2, Zenon DEF ConvertToIngesterConfigs
<1>5. ConvertToIngesterConfig(n, spec) = c
  BY <1>1, <1>2, <1>3, Zenon DEF ConvertToIngesterConfig, convertLegacyIngester, Config
<1>6. c # Absent
  BY <1>1, <1>2, AbsentAssumption, Zenon
<1> QED  BY <1>4, <1>5, <1>6

-----------------------------------------------------------------------------
(* The steps.                                                              *)

(* At the start the queue, the cache and the store are empty. *)
LEMMA InitIInv == Init => IInv
<1> SUFFICES ASSUME Init PROVE IInv
  BY Zenon
<1>1. StoreTypes
  <2>1. DOMAIN store = {} /\ queue \in Seq(Notes) /\ breaks \in Nat
    BY DEF Init
  <2>2. objects \in [Ingesters -> Specs \cup {Absent}] /\ connected \in BOOLEAN
    BY Zenon DEF Init
  <2>3. cache \in [Ingesters -> Specs \cup {Absent}]
    BY Zenon DEF Init
  <2> QED  BY <2>1, <2>2, <2>3, Zenon DEF StoreTypes
<1>2. Watched
  BY Zenon DEF Init, Watched
<1>3. ASSUME NEW n \in Ingesters PROVE FollowsOne(n)
  <2>1. cache[n] = Absent /\ queue = <<>> /\ store = <<>>
    BY Zenon DEF Init
  <2>2. Undecided(queue, n)
    BY <2>1 DEF Undecided
  <2>3. Held(n) = Absent
    BY <2>1 DEF Held
  <2> QED  BY <2>1, <2>2, <2>3, Converted, Zenon DEF FollowsOne, Right
<1> QED  BY <1>1, <1>2, <1>3, Zenon DEF IInv, Follows

(* Notifications behind the others that do not decide about n leave it     *)
(* followed, if what is right for n stays so (Edit, Relist).               *)
LEMMA Beside ==
    ASSUME NEW n \in Ingesters, NEW r \in Seq(Notes), queue \in Seq(Notes),
           FollowsOne(n), queue' = queue \o r, store' = store, Undecided(r, n),
           \A v : Right(n, v) => Right(n, v)'
    PROVE  FollowsOne(n)'
<1>0. PICK q : q = queue /\ q \in Seq(Notes)
  BY Zenon
<1>1. PICK t : t = q \o r
  BY Zenon
<1>2. queue' = t
  BY <1>0, <1>1, Zenon
<1>3. /\ Undecided(q, n) => Undecided(t, n)
      /\ \A k \in 1..Len(q) :
            LastDecides(q, n, k) => LastDecides(t, n, k) /\ t[k] = q[k]
  <2>1. /\ Undecided(q, n) => Undecided(q \o r, n)
        /\ \A k \in 1..Len(q) :
              LastDecides(q, n, k) => LastDecides(q \o r, n, k) /\ (q \o r)[k] = q[k]
    BY <1>0, DecidesConcat, SMTT(30)
  <2> QED  BY ONLY <1>1, <2>1, Zenon
<1>4. CASE Undecided(queue, n) /\ Right(n, Held(n))
  <2>1. Held(n)' = Held(n)
    BY Zenon DEF Held
  <2>2. Right(n, Held(n))'
    <3>1. PICK v : v = Held(n)
      BY Zenon
    <3>2. Right(n, v)'
      BY <1>4, <3>1, Zenon
    <3> QED  BY <2>1, <3>1, <3>2, Zenon DEF Right
  <2>3. Undecided(queue', n)
    BY <1>0, <1>2, <1>3, <1>4, ZenonT(30)
  <2> QED  BY <2>2, <2>3, Zenon DEF FollowsOne, Undecided, Decides
<1>5. ASSUME NEW k \in 1..Len(queue), LastDecides(queue, n, k), Right(n, Outcome(queue[k]))
      PROVE  FollowsOne(n)'
  <2>1. LastDecides(t, n, k) /\ t[k] = queue[k]
    BY <1>0, <1>3, <1>5, Zenon
  <2>2. PICK v : v = Outcome(queue[k])
    BY Zenon
  <2>3. Right(n, v)'
    BY <1>5, <2>2, Zenon
  <2>4. Outcome(queue'[k]) = v
    BY <1>2, <2>1, <2>2, Zenon
  <2>5. k \in 1..Len(queue') /\ LastDecides(queue', n, k)
    BY <1>2, <2>1, Zenon DEF LastDecides
  <2> QED  BY <2>3, <2>4, <2>5, Zenon DEF FollowsOne, Right, Outcome, LastDecides, Decides
<1> QED  BY <1>4, <1>5, Zenon DEF FollowsOne

(* A last notification that decides, with what is right for n, makes it    *)
(* followed.                                                               *)
LEMMA Decided ==
    ASSUME NEW n \in Ingesters, NEW k \in 1..Len(queue'), LastDecides(queue', n, k),
           NEW v, Outcome(queue'[k]) = v, Right(n, v)'
    PROVE  FollowsOne(n)'
BY Zenon DEF FollowsOne, Right, Outcome, LastDecides, Decides

(* The same of what was put behind the others. *)
LEMMA DecidedLast ==
    ASSUME NEW n \in Ingesters, NEW r \in Seq(Notes), queue \in Seq(Notes),
           queue' = queue \o r, NEW k \in 1..Len(r), LastDecides(r, n, k),
           NEW v, Outcome(r[k]) = v, Right(n, v)'
    PROVE  FollowsOne(n)'
<1>0. PICK q : q = queue /\ q \in Seq(Notes)
  BY Zenon
<1>1. PICK t : t = q \o r
  BY Zenon
<1>2. queue' = t
  BY <1>0, <1>1, Zenon
<1>3. LastDecides(t, n, Len(q) + k) /\ t[Len(q) + k] = r[k]
  <2>1. q \in Seq(Notes) /\ r \in Seq(Notes)
    BY <1>0, Zenon
  <2>2. \A i \in 1..Len(r) :
          LastDecides(r, n, i)
            => LastDecides(q \o r, n, Len(q) + i) /\ (q \o r)[Len(q) + i] = r[i]
    BY ONLY <2>1, DecidesConcat, ZenonT(30)
  <2> QED  BY <1>1, <2>2, Zenon
<1>4. PICK j : j = Len(q) + k
  BY Zenon
<1>5. j \in 1..Len(queue') /\ LastDecides(queue', n, j) /\ Outcome(queue'[j]) = v
  BY <1>2, <1>3, <1>4, Zenon DEF LastDecides
<1> QED  BY <1>5, Decided, Zenon

(* One notification put behind the others (the watch). *)
LEMMA OneNote ==
    ASSUME NEW q \in Seq(Notes), NEW note \in Notes
    PROVE  /\ <<note>> \in Seq(Notes) /\ Append(q, note) = q \o <<note>>
           /\ 1 \in 1..Len(<<note>>) /\ <<note>>[1] = note
           /\ \A n : /\ ~Decides(note, n) => Undecided(<<note>>, n)
                     /\ Decides(note, n) => LastDecides(<<note>>, n, 1)
<1>1. PICK r : r = <<note>>
  BY Zenon
<1>2. r \in Seq(Notes) /\ Append(q, note) = q \o r
  BY <1>1
<1>3. Len(r) = 1 /\ r[1] = note /\ \A k \in 1..1 : k = 1 /\ ~(k > 1)
  BY <1>1
<1>4. \A n : /\ ~Decides(note, n) => Undecided(r, n)
             /\ Decides(note, n) => LastDecides(r, n, 1)
  BY <1>3, SMTT(30) DEF Undecided, LastDecides
<1>5. 1 \in 1..Len(r)
  BY <1>3
<1> QED  BY <1>1, <1>2, <1>3, <1>4, <1>5, Zenon

(* An edit is told at once when the watch is open. *)
LEMMA EditIInv ==
    ASSUME IInv, NEW n \in Ingesters, NEW spec \in Specs \cup {Absent}, Edit(n, spec)
    PROVE  IInv'
<1>0. StoreTypes /\ Watched /\ Follows
  BY Zenon DEF IInv
<1>1. /\ objects' = [objects EXCEPT ![n] = spec]
      /\ UNCHANGED <<connected, store, bySource, breaks>>
  BY Zenon DEF Edit
<1>2. objects' \in [Ingesters -> Specs \cup {Absent}]
  BY <1>0, <1>1, Zenon DEF StoreTypes
<1>3. CASE ~connected
  <2>1. UNCHANGED <<cache, queue>>
    BY <1>3, Zenon DEF Edit
  <2>2. StoreTypes'
    BY <1>0, <1>1, <1>2, <2>1, Zenon DEF StoreTypes
  <2>3. Watched'
    BY <1>0, <1>1, <1>3, <2>1, Zenon DEF Watched
  <2>4. Follows'
    BY <1>0, <1>1, <2>1 DEF Follows, FollowsOne, Undecided, LastDecides, Decides,
       Outcome, Held, Right
  <2> QED  BY <2>2, <2>3, <2>4, Zenon DEF IInv
<1>4. CASE connected
  <2> DEFINE event == IF spec = Absent THEN "delete" ELSE IF cache[n] = Absent THEN "add"
                      ELSE "update"
             told == IF spec = Absent THEN cache[n] ELSE spec
  <2>1. PICK note : note = [event |-> event, name |-> n, spec |-> told]
    BY Zenon
  <2>2. cache' = [cache EXCEPT ![n] = spec] /\ queue' = Append(queue, note)
    BY <1>4, <2>1, Zenon DEF Edit, Note
  <2>3. /\ note \in Notes /\ note.event = event /\ note.name = n /\ note.spec = told
    <3>1. cache[n] \in Specs \cup {Absent}
      BY <1>0, Zenon DEF StoreTypes
    <3>2. told \in Specs \cup {Absent} /\ event \in {"add", "update", "delete", "tombstone"}
      BY <3>1, Zenon
    <3> HIDE DEF told, event
    <3> QED  BY <2>1, <3>2, Zenon DEF Notes
  <2>4. queue \in Seq(Notes) /\ breaks \in Nat /\ cache \in [Ingesters -> Specs \cup {Absent}]
    BY <1>0, Zenon DEF StoreTypes
  <2>5. PICK r :
          /\ r = <<note>> /\ r \in Seq(Notes) /\ 1 \in 1..Len(r) /\ r[1] = note
          /\ queue' = queue \o r /\ queue' \in Seq(Notes)
          /\ \A m : /\ ~Decides(note, m) => Undecided(r, m)
                    /\ Decides(note, m) => LastDecides(r, m, 1)
    <3>1. PICK q : q = queue /\ q \in Seq(Notes)
      BY <2>4, Zenon
    <3>2. PICK r : r = <<note>>
      BY Zenon
    <3>3. /\ r \in Seq(Notes) /\ Append(q, note) = q \o r /\ 1 \in 1..Len(r) /\ r[1] = note
          /\ \A m : /\ ~Decides(note, m) => Undecided(r, m)
                    /\ Decides(note, m) => LastDecides(r, m, 1)
      BY <2>3, <3>1, <3>2, OneNote, Zenon
    <3>4. q \o r \in Seq(Notes)
      BY ONLY <3>1, <3>3, Concatenation, Zenon
    <3> QED  BY <2>2, <3>1, <3>2, <3>3, <3>4, Zenon
  <2>6. ASSUME NEW m \in Ingesters PROVE FollowsOne(m)'
    <3>1. FollowsOne(m)
      BY <1>0, Zenon DEF Follows
    <3>2. CASE m # n
      <4>1. Undecided(r, m)
        BY <2>3, <2>5, <3>2, Zenon DEF Decides
      <4>2. cache'[m] = cache[m]
        BY <2>2, <2>4, <3>2, Zenon
      <4>3. \A v : Right(m, v) => Right(m, v)'
        BY <1>1, <4>2, Zenon DEF Right
      <4> QED  BY <1>1, <2>4, <2>5, <3>1, <4>1, <4>3, Beside, Zenon
    <3>3. CASE m = n
      <4>1. cache'[n] = spec
        BY <2>2, <2>4, Zenon
      <4>2. CASE Decides(note, n)
        <5>1. PICK v : v = Outcome(note)
          BY Zenon
        <5>2. Right(n, v)'
          <6>1. CASE spec = Absent
            <7>1. v = Absent /\ ConvertToIngesterConfig(n, spec) = Absent
              BY <2>3, <5>1, <6>1, Converted, Zenon DEF Outcome
            <7> QED  BY <4>1, <7>1, Zenon DEF Right
          <6>2. CASE spec # Absent
            <7>1. v = ConvertToIngesterConfig(n, spec)
              BY <2>3, <5>1, <6>2, Zenon DEF Outcome
            <7> QED  BY <4>1, <6>2, <7>1, Zenon DEF Right
          <6> QED  BY <6>1, <6>2, Zenon
        <5>3. LastDecides(r, n, 1) /\ Outcome(r[1]) = v
          BY <2>5, <4>2, <5>1, Zenon
        <5> QED  BY <2>4, <2>5, <3>3, <5>2, <5>3, DecidedLast, Zenon
      <4>3. CASE ~Decides(note, n)
        <5>1. spec # Absent
          BY <2>3, <4>3, Zenon DEF Decides
        <5>2. ConvertToIngesterConfig(n, spec) = Absent
          BY <2>3, <4>3, <5>1, Zenon DEF Decides
        <5>3. \A v : Right(n, v)'
          BY <4>1, <5>1, <5>2, Zenon DEF Right
        <5>4. Undecided(r, n)
          BY <2>5, <4>3, Zenon
        <5> QED  BY <1>1, <2>4, <2>5, <3>1, <3>3, <5>3, <5>4, Beside, Zenon
      <4> QED  BY <4>2, <4>3, Zenon
    <3> QED  BY <3>2, <3>3, Zenon
  <2>7. StoreTypes'
    <3>1. cache' \in [Ingesters -> Specs \cup {Absent}]
      BY <2>2, <2>4, Zenon
    <3> QED  BY <1>0, <1>1, <1>2, <2>5, <3>1, Zenon DEF StoreTypes
  <2>8. Watched'
    <3>1. cache' = objects' /\ connected'
      BY <1>0, <1>1, <1>4, <2>2, Zenon DEF Watched
    <3> QED  BY <3>1, Zenon DEF Watched
  <2> QED  BY <2>6, <2>7, <2>8, Zenon DEF IInv, Follows
<1> QED  BY <1>0, <1>3, <1>4, Zenon DEF StoreTypes

(* After a break nothing is claimed of deleted Ingesters. *)
LEMMA BreakIInv == IInv /\ Break => IInv'
<1> SUFFICES ASSUME IInv, Break PROVE IInv'
  BY Zenon
<1>0. StoreTypes /\ Watched /\ Follows
  BY Zenon DEF IInv
<1>1. /\ connected' = FALSE /\ breaks' = breaks + 1
      /\ UNCHANGED <<objects, cache, queue, store>>
  BY Zenon DEF Break
<1>2. breaks' \in Nat /\ breaks' # 0
  BY <1>0, <1>1 DEF StoreTypes
<1>3. StoreTypes'
  BY <1>0, <1>1, <1>2, Zenon DEF StoreTypes
<1>4. Watched'
  BY <1>1, <1>2, Zenon DEF Watched
<1>5. ASSUME NEW n \in Ingesters PROVE FollowsOne(n)'
  <2>1. FollowsOne(n)
    BY <1>0, Zenon DEF Follows
  <2> QED
    BY <1>1, <1>2, <2>1 DEF FollowsOne, Undecided, LastDecides, Decides, Outcome, Held, Right
<1> QED  BY <1>3, <1>4, <1>5, Zenon DEF IInv, Follows

(* A listing tells what is new.  What is gone is told by notifications     *)
(* that decide nothing; before the first break there is no such Ingester.  *)
LEMMA RelistIInv == IInv /\ Relist => IInv'
<1> SUFFICES ASSUME IInv, Relist PROVE IInv'
  BY Zenon
<1> DEFINE gone == {n \in Ingesters : cache[n] # Absent /\ objects[n] = Absent}
           new  == {n \in Ingesters : objects[n] \notin {cache[n], Absent}}
           upsert(n) == Note(IF cache[n] = Absent THEN "add" ELSE "update", n, objects[n])
           tombstone(n) == Note("tombstone", n, cache[n])
<1>0. StoreTypes /\ Watched /\ Follows
  BY Zenon DEF IInv
<1>1. /\ ~connected /\ connected' = TRUE /\ cache' = objects
      /\ UNCHANGED <<objects, store, breaks>>
  BY ZenonT(30) DEF Relist
<1>2. PICK upserts \in Orders(new), tombstones \in Orders(gone) :
        queue' = queue \o ([i \in DOMAIN upserts |-> upsert(upserts[i])]
                           \o [i \in DOMAIN tombstones |-> tombstone(tombstones[i])])
  BY Zenon DEF Relist
<1>3. PICK u, t : /\ u = [i \in DOMAIN upserts |-> upsert(upserts[i])]
                  /\ t = [i \in DOMAIN tombstones |-> tombstone(tombstones[i])]
  BY Zenon
<1>4. \A n \in Ingesters : /\ upsert(n) \in Notes /\ upsert(n).name = n
                           /\ upsert(n).event \in {"add", "update"}
                           /\ upsert(n).spec = objects[n]
                           /\ tombstone(n) \in Notes /\ tombstone(n).name = n
                           /\ tombstone(n).event = "tombstone"
  <2>1. \A n \in Ingesters : cache[n] \in Specs \cup {Absent} /\ objects[n] \in Specs \cup {Absent}
    BY <1>0, Zenon DEF StoreTypes
  <2> QED  BY <2>1, Zenon DEF Note, Notes
<1> HIDE DEF upsert, tombstone
<1>5. /\ \A i \in DOMAIN upserts : upserts[i] \in new
      /\ \A i \in DOMAIN tombstones : tombstones[i] \in gone
  <2>1. ASSUME NEW S, NEW order \in Orders(S) PROVE \A i \in DOMAIN order : order[i] \in S
    <3>1. PICK c \in 0..Cardinality(Ingesters) : order \in Bijection(1..c, S)
      BY Zenon DEF Orders
    <3>2. order \in [1..c -> S]
      BY <3>1, Zenon DEF Bijection, Injection
    <3> QED  BY <3>2, Zenon
  <2> HIDE DEF new, gone
  <2> QED  BY <2>1, Zenon
<1>6. new \subseteq Ingesters /\ gone \subseteq Ingesters
  BY Zenon
<1>7. /\ u \in [DOMAIN upserts -> Notes] /\ \A i \in DOMAIN upserts : u[i] = upsert(upserts[i])
      /\ t \in [DOMAIN tombstones -> Notes]
      /\ \A i \in DOMAIN tombstones : t[i] = tombstone(tombstones[i])
  <2> HIDE DEF new, gone
  <2> QED  BY <1>3, <1>4, <1>5, <1>6, Zenon
<1>8. /\ u \in Seq(Notes)
      /\ \A n \in new : \E i \in DOMAIN upserts : upserts[i] = n
      /\ \A n : (\A i \in DOMAIN upserts : upserts[i] = n => ~Decides(u[i], n)) => Undecided(u, n)
      /\ \A i \in DOMAIN upserts :
            Decides(u[i], upserts[i]) => i \in 1..Len(u) /\ LastDecides(u, upserts[i], i)
  <2> HIDE DEF new
  <2>1. \A i \in DOMAIN upserts : u[i].name = upserts[i]
    BY <1>4, <1>5, <1>6, <1>7
  <2>2. upserts \in Orders(new) /\ u \in [DOMAIN upserts -> Notes]
    BY <1>7, Zenon
  <2>3. OneEach(new, upserts, u)
    BY <2>1, <2>2, InOrder, Zenon
  <2> QED  BY <2>3, Zenon DEF OneEach
<1>9. t \in Seq(Notes) /\ \A n : Undecided(t, n)
  <2> HIDE DEF gone
  <2>1. \A i \in DOMAIN tombstones : t[i].name = tombstones[i] /\ t[i].event = "tombstone"
    BY <1>4, <1>5, <1>6, <1>7
  <2>2. \A n : \A i \in DOMAIN tombstones : ~Decides(t[i], n)
    BY <2>1, Zenon DEF Decides
  <2>3. tombstones \in Orders(gone) /\ t \in [DOMAIN tombstones -> Notes]
    BY <1>7, Zenon
  <2>4. OneEach(gone, tombstones, t)
    BY <2>1, <2>3, InOrder, Zenon
  <2> QED  BY <2>2, <2>4, Zenon DEF OneEach
<1>10. PICK r : r = u \o t
  BY Zenon
<1>11. /\ r \in Seq(Notes)
       /\ \A n : /\ Undecided(u, n) => Undecided(r, n)
                 /\ \A k \in 1..Len(u) :
                       LastDecides(u, n, k) => LastDecides(r, n, k) /\ r[k] = u[k]
  <2>1. u \in Seq(Notes) /\ t \in Seq(Notes)
    BY <1>8, <1>9, Zenon
  <2>2. /\ u \o t \in Seq(Notes)
        /\ \A n : /\ Undecided(t, n) /\ Undecided(u, n) => Undecided(u \o t, n)
                  /\ \A k \in 1..Len(u) :
                        Undecided(t, n) /\ LastDecides(u, n, k)
                          => LastDecides(u \o t, n, k) /\ (u \o t)[k] = u[k]
    BY ONLY <2>1, DecidesConcat, ZenonT(30)
  <2> QED  BY <1>9, <1>10, <2>2, Zenon
<1>12. queue \in Seq(Notes) /\ queue' = queue \o r /\ queue' \in Seq(Notes)
  <2>1. queue \in Seq(Notes)
    BY <1>0, Zenon DEF StoreTypes
  <2>2. queue \o r \in Seq(Notes)
    BY ONLY <1>11, <2>1, Concatenation, Zenon
  <2> QED  BY <1>2, <1>3, <1>10, <2>1, <2>2, Zenon
<1>13. ASSUME NEW n \in Ingesters PROVE FollowsOne(n)'
  <2>1. FollowsOne(n)
    BY <1>0, Zenon DEF Follows
  <2>2. cache'[n] = objects[n]
    BY <1>1, Zenon
  <2>3. CASE n \in new /\ ConvertToIngesterConfig(n, objects[n]) # Absent
    <3>1. PICK i \in DOMAIN upserts : upserts[i] = n
      BY <1>8, <2>3, Zenon
    <3>2. u[i].name = n /\ u[i].event \in {"add", "update"} /\ u[i].spec = objects[n]
      BY <1>4, <1>7, <3>1
    <3>3. Decides(u[i], n)
      BY <2>3, <3>2, Zenon DEF Decides
    <3>4. i \in 1..Len(u) /\ LastDecides(r, n, i) /\ r[i] = u[i]
      BY <1>8, <1>11, <3>1, <3>3, Zenon
    <3>5. PICK v : v = ConvertToIngesterConfig(n, objects[n])
      BY Zenon
    <3>6. Outcome(r[i]) = v
      BY <3>2, <3>4, <3>5, Zenon DEF Outcome
    <3>7. objects[n] # Absent
      BY <2>3, Zenon
    <3>8. Right(n, v)'
      BY <2>2, <3>5, <3>7, Zenon DEF Right
    <3>9. i \in 1..Len(r)
      BY <3>4, Zenon DEF LastDecides
    <3> QED  BY <1>11, <1>12, <3>4, <3>6, <3>8, <3>9, DecidedLast, Zenon
  <2>4. CASE ~(n \in new /\ ConvertToIngesterConfig(n, objects[n]) # Absent)
    <3>1. Undecided(r, n)
      <4>1. ASSUME NEW i \in DOMAIN upserts, upserts[i] = n PROVE ~Decides(u[i], n)
        <5>1. n \in new
          BY <1>5, <4>1, Zenon
        <5>2. u[i].event \in {"add", "update"} /\ u[i].spec = objects[n]
          BY <1>4, <1>7, <4>1
        <5> QED  BY <2>4, <5>1, <5>2, Zenon DEF Decides
      <4> QED  BY <1>8, <1>11, <4>1, Zenon
    <3>2. ASSUME NEW v, Right(n, v) PROVE Right(n, v)'
      <4>1. CASE objects[n] = cache[n]
        BY <1>1, <2>2, <3>2, <4>1, Zenon DEF Right
      <4>2. CASE n \in new
        <5>1. ConvertToIngesterConfig(n, objects[n]) = Absent /\ objects[n] # Absent
          BY <2>4, <4>2, Zenon
        <5> QED  BY <2>2, <5>1, Zenon DEF Right
      <4>3. CASE objects[n] # cache[n] /\ objects[n] = Absent
        <5>1. ConvertToIngesterConfig(n, objects[n]) = Absent
          BY <4>3, Converted, Zenon
        <5>2. breaks' # 0
          BY <1>0, <1>1, <4>3, Zenon DEF Watched
        <5> QED  BY <2>2, <5>1, <5>2, Zenon DEF Right
      <4> QED  BY <4>1, <4>2, <4>3, Zenon
    <3> QED  BY <1>1, <1>11, <1>12, <2>1, <3>1, <3>2, Beside, Zenon
  <2> QED  BY <2>3, <2>4, Zenon
<1>14. StoreTypes'
  BY <1>0, <1>1, <1>12, Zenon DEF StoreTypes
<1>15. Watched'
  BY <1>1, Zenon DEF Watched
<1> QED  BY <1>13, <1>14, <1>15, Zenon DEF IInv, Follows

(* A resync tells again what the cache holds. *)
LEMMA ResyncIInv == IInv /\ Resync => IInv'
<1> SUFFICES ASSUME IInv, Resync PROVE IInv'
  BY Zenon
<1> DEFINE there == {n \in Ingesters : cache[n] # Absent}
           repeat(n) == Note("update", n, cache[n])
<1>0. StoreTypes /\ Watched /\ Follows
  BY Zenon DEF IInv
<1>1. queue = <<>> /\ UNCHANGED <<objects, cache, connected, store, breaks>>
  BY Zenon DEF Resync
<1>2. PICK known \in Orders(there) : queue' = [i \in DOMAIN known |-> repeat(known[i])]
  BY Zenon DEF Resync
<1>3. PICK r : r = queue'
  BY Zenon
<1>4. \A n \in Ingesters : /\ repeat(n) \in Notes /\ repeat(n).name = n
                           /\ repeat(n).event = "update" /\ repeat(n).spec = cache[n]
  <2>1. \A n \in Ingesters : cache[n] \in Specs \cup {Absent}
    BY <1>0, Zenon DEF StoreTypes
  <2> QED  BY <2>1, Zenon DEF Note, Notes
<1> HIDE DEF repeat
<1>5. there \subseteq Ingesters
  BY Zenon
<1>6. \A i \in DOMAIN known : known[i] \in there
  <2>1. PICK c \in 0..Cardinality(Ingesters) : known \in Bijection(1..c, there)
    BY Zenon DEF Orders
  <2>2. known \in [1..c -> there]
    BY <2>1, Zenon DEF Bijection, Injection
  <2> HIDE DEF there
  <2> QED  BY <2>2, Zenon
<1>7. /\ r \in [DOMAIN known -> Notes] /\ \A i \in DOMAIN known : r[i] = repeat(known[i])
      /\ \A i \in DOMAIN known : r[i].name = known[i]
  <2> HIDE DEF there
  <2> QED  BY <1>2, <1>3, <1>4, <1>5, <1>6, Zenon
<1>8. OneEach(there, known, r)
  <2> HIDE DEF there
  <2> QED  BY <1>7, InOrder, Zenon
<1>9. ASSUME NEW n \in Ingesters PROVE FollowsOne(n)'
  <2>1. Right(n, Held(n))
    BY <1>0, <1>1 DEF Follows, FollowsOne
  <2>2. CASE n \in there /\ ConvertToIngesterConfig(n, cache[n]) # Absent
    <3>1. PICK i \in DOMAIN known : known[i] = n
      BY <1>8, <2>2, Zenon DEF OneEach
    <3>2. r[i].name = n /\ r[i].event = "update" /\ r[i].spec = cache[n]
      BY <1>4, <1>7, <3>1
    <3>3. Decides(r[i], n)
      BY <2>2, <3>2, Zenon DEF Decides
    <3>4. i \in 1..Len(queue') /\ LastDecides(queue', n, i)
      BY <1>3, <1>8, <3>1, <3>3, Zenon DEF OneEach
    <3>5. PICK v : v = ConvertToIngesterConfig(n, cache[n])
      BY Zenon
    <3>6. Outcome(queue'[i]) = v
      BY <1>3, <3>2, <3>5, Zenon DEF Outcome
    <3>7. cache[n] # Absent
      BY <2>2, Zenon
    <3>8. Right(n, v)'
      BY <1>1, <3>5, <3>7, Zenon DEF Right
    <3> QED  BY <3>4, <3>6, <3>8, Decided, Zenon
  <2>3. CASE ~(n \in there /\ ConvertToIngesterConfig(n, cache[n]) # Absent)
    <3>1. ASSUME NEW i \in DOMAIN known, known[i] = n PROVE ~Decides(r[i], n)
      <4>1. n \in there
        BY <1>6, <3>1, Zenon
      <4>2. r[i].event = "update" /\ r[i].spec = cache[n]
        BY <1>4, <1>7, <3>1
      <4> QED  BY <2>3, <4>1, <4>2, Zenon DEF Decides
    <3>2. Undecided(queue', n)
      BY <1>3, <1>8, <3>1, Zenon DEF OneEach
    <3>3. Right(n, Held(n))'
      BY <1>1, <2>1, Zenon DEF Right, Held
    <3> QED  BY <3>2, <3>3, Zenon DEF FollowsOne, Undecided, Decides
  <2> QED  BY <2>2, <2>3, Zenon
<1>10. StoreTypes'
  <2>1. queue' \in Seq(Notes)
    BY <1>3, <1>8, Zenon DEF OneEach
  <2> QED  BY <1>0, <1>1, <2>1, Zenon DEF StoreTypes
<1>11. Watched'
  BY <1>0, <1>1, Zenon DEF Watched
<1> QED  BY <1>9, <1>10, <1>11, Zenon DEF IInv, Follows

(* The handlers leave in the store what the notification decides, and      *)
(* nothing else (onAdd, onUpdate, onDelete).                               *)
LEMMA Handled ==
    ASSUME NEW note \in Notes, DOMAIN store \subseteq Ingesters,
           \A n \in DOMAIN store : store[n] # Absent,
           IF note.event \in {"add", "update"} THEN onUpsert(note.name, note.spec)
           ELSE onDelete(note)
    PROVE  /\ DOMAIN store' \subseteq Ingesters /\ \A n \in DOMAIN store' : store'[n] # Absent
           /\ \A n \in Ingesters :
                 Held(n)' = IF Decides(note, n) THEN Outcome(note) ELSE Held(n)
<1>0. note.name \in Ingesters /\ note.event \in {"add", "update", "delete", "tombstone"}
  BY Zenon DEF Notes
<1>1. PICK c : c = ConvertToIngesterConfig(note.name, note.spec)
  BY Zenon
<1>2. CASE note.event \in {"add", "update"} /\ c # Absent
  <2>1. c.name = note.name
    BY <1>0, <1>1, <1>2, Converted, Zenon
  <2>2. store' = With(store, note.name, c)
    BY <1>1, <1>2, <2>1, Zenon DEF onUpsert, Put
  <2>3. /\ DOMAIN store' = DOMAIN store \cup {note.name}
        /\ \A n \in DOMAIN store' : store'[n] = IF n = note.name THEN c ELSE store[n]
    BY <2>2, Zenon DEF With
  <2>4. Outcome(note) = c /\ \A n : Decides(note, n) <=> n = note.name
    BY <1>1, <1>2, Zenon DEF Outcome, Decides
  <2> QED  BY <1>0, <1>2, <2>3, <2>4, Zenon DEF Held
<1>3. CASE note.event = "delete"
  <2>1. Delete(note.name)
    BY <1>3, Zenon DEF onDelete
  <2>2. /\ DOMAIN store' = DOMAIN store \ {note.name}
        /\ \A n \in DOMAIN store' : store'[n] = store[n]
    <3>1. CASE note.name \in DOMAIN store
      <4>1. store' = Without(store, note.name)
        BY <2>1, <3>1, Zenon DEF Delete
      <4> QED  BY <4>1, Zenon DEF Without
    <3>2. CASE note.name \notin DOMAIN store
      <4>1. store' = store
        BY <2>1, <3>2, Zenon DEF Delete
      <4> QED  BY <3>2, <4>1, Zenon
    <3> QED  BY <3>1, <3>2, Zenon
  <2>3. Outcome(note) = Absent /\ \A n : Decides(note, n) <=> n = note.name
    BY <1>3, Zenon DEF Outcome, Decides
  <2> QED  BY <1>0, <2>2, <2>3, Zenon DEF Held
<1>4. CASE note.event = "tombstone" \/ (note.event \in {"add", "update"} /\ c = Absent)
  <2>1. store' = store
    BY <1>1, <1>4, Zenon DEF onUpsert, onDelete
  <2>2. \A n : ~Decides(note, n)
    BY <1>1, <1>4, Zenon DEF Decides
  <2> QED  BY <2>1, <2>2, Zenon DEF Held
<1> QED  BY <1>0, <1>2, <1>3, <1>4, Zenon

(* What the queue without its first notification decides. *)
LEMMA DecidesTail ==
    ASSUME NEW q \in Seq(Notes), q # <<>>, NEW n
    PROVE  /\ Head(q) \in Notes /\ Tail(q) \in Seq(Notes)
           /\ Undecided(q, n) => ~Decides(Head(q), n) /\ Undecided(Tail(q), n)
           /\ \A k \in 1..Len(q) :
                 LastDecides(q, n, k)
                   => IF k = 1 THEN q[k] = Head(q) /\ Undecided(Tail(q), n)
                      ELSE /\ k - 1 \in 1..Len(Tail(q)) /\ Tail(q)[k - 1] = q[k]
                           /\ LastDecides(Tail(q), n, k - 1)
<1>1. PICK t : t = Tail(q)
  BY Zenon
<1>2. /\ Head(q) \in Notes /\ t \in Seq(Notes) /\ Len(t) = Len(q) - 1 /\ Len(q) \in Nat
      /\ Len(q) >= 1 /\ Head(q) = q[1] /\ \A i \in 1..Len(t) : t[i] = q[i + 1]
  BY <1>1
<1>3. \A i \in 1..Len(t) : i + 1 \in 1..Len(q) /\ i + 1 > 1 /\ t[i] = q[i + 1]
  BY <1>2
<1>4. Undecided(q, n) => ~Decides(Head(q), n) /\ Undecided(t, n)
  <2>1. 1 \in 1..Len(q)
    BY <1>2
  <2> QED  BY <1>2, <1>3, <2>1, Zenon DEF Undecided
<1>5. ASSUME NEW k \in 1..Len(q), LastDecides(q, n, k), k = 1
      PROVE  q[k] = Head(q) /\ Undecided(t, n)
  BY <1>2, <1>3, <1>5, Zenon DEF LastDecides, Undecided
<1>6. ASSUME NEW k \in 1..Len(q), LastDecides(q, n, k), k # 1
      PROVE  k - 1 \in 1..Len(t) /\ t[k - 1] = q[k] /\ LastDecides(t, n, k - 1)
  <2>1. k - 1 \in 1..Len(t) /\ (k - 1) + 1 = k
    BY <1>2, <1>6
  <2>2. t[k - 1] = q[k]
    BY <1>3, <2>1, Zenon
  <2>3. ASSUME NEW j \in 1..Len(t), j > k - 1 PROVE ~Decides(t[j], n)
    <3>1. j + 1 \in 1..Len(q) /\ j + 1 > k /\ t[j] = q[j + 1]
      BY <1>2, <1>3, <2>3
    <3> QED  BY <1>6, <3>1, Zenon DEF LastDecides
  <2> QED  BY <1>6, <2>1, <2>2, <2>3, Zenon DEF LastDecides
<1> QED  BY <1>1, <1>2, <1>4, <1>5, <1>6, Zenon

(* The handlers work off the queue from the front. *)
LEMMA HandleIInv == IInv /\ Handle => IInv'
<1> SUFFICES ASSUME IInv, Handle PROVE IInv'
  BY Zenon
<1>0. StoreTypes /\ Watched /\ Follows
  BY Zenon DEF IInv
<1>1. queue # <<>> /\ queue' = Tail(queue) /\ UNCHANGED <<objects, cache, connected, breaks>>
  BY Zenon DEF Handle
<1>2. PICK q : q = queue /\ q \in Seq(Notes) /\ q # <<>>
  BY <1>0, <1>1, Zenon DEF StoreTypes
<1>3. PICK note : note = Head(q) /\ note \in Notes
  BY <1>2, DecidesTail, Zenon
<1>4. PICK t : t = Tail(q) /\ t \in Seq(Notes) /\ queue' = t
  BY <1>1, <1>2, DecidesTail, Zenon
<1>5. /\ DOMAIN store' \subseteq Ingesters /\ \A n \in DOMAIN store' : store'[n] # Absent
      /\ \A n \in Ingesters : Held(n)' = IF Decides(note, n) THEN Outcome(note) ELSE Held(n)
  <2>1. IF note.event \in {"add", "update"} THEN onUpsert(note.name, note.spec)
        ELSE onDelete(note)
    BY <1>2, <1>3, Zenon DEF Handle
  <2>2. DOMAIN store \subseteq Ingesters /\ \A n \in DOMAIN store : store[n] # Absent
    BY <1>0, Zenon DEF StoreTypes
  <2> QED  BY <1>3, <2>1, <2>2, Handled, Zenon
<1>6. StoreTypes'
  BY <1>0, <1>1, <1>4, <1>5, Zenon DEF StoreTypes
<1>7. Watched'
  BY <1>0, <1>1, Zenon DEF Watched
<1>8. ASSUME NEW n \in Ingesters PROVE FollowsOne(n)'
  <2>0. \A v : Right(n, v) <=> Right(n, v)'
    BY <1>1, Zenon DEF Right
  <2>1. FollowsOne(n)
    BY <1>0, Zenon DEF Follows
  <2>2. /\ Undecided(q, n) => ~Decides(note, n) /\ Undecided(t, n)
        /\ \A k \in 1..Len(q) :
              LastDecides(q, n, k)
                => IF k = 1 THEN q[k] = note /\ Undecided(t, n)
                   ELSE k - 1 \in 1..Len(t) /\ t[k - 1] = q[k] /\ LastDecides(t, n, k - 1)
    BY <1>2, <1>3, <1>4, DecidesTail
  <2>3. ASSUME NEW v, Held(n)' = v, Right(n, v), Undecided(t, n) PROVE FollowsOne(n)'
    <3>1. Right(n, Held(n))'
      BY <2>0, <2>3, Zenon DEF Right
    <3> QED  BY <1>4, <2>3, <3>1, Zenon DEF FollowsOne, Undecided, Decides
  <2>4. CASE Undecided(queue, n) /\ Right(n, Held(n))
    <3>1. Undecided(t, n) /\ Held(n)' = Held(n)
      BY <1>2, <1>5, <2>2, <2>4, Zenon
    <3>2. PICK v : v = Held(n)
      BY Zenon
    <3> QED  BY <2>3, <2>4, <3>1, <3>2, Zenon
  <2>5. ASSUME NEW k \in 1..Len(queue), LastDecides(queue, n, k), Right(n, Outcome(queue[k]))
        PROVE  FollowsOne(n)'
    <3>1. PICK v : v = Outcome(q[k])
      BY Zenon
    <3>2. k \in 1..Len(q) /\ LastDecides(q, n, k) /\ Right(n, v)
      BY <1>2, <2>5, <3>1, Zenon
    <3>3. CASE k = 1
      <4>1. q[k] = note /\ Undecided(t, n)
        BY <2>2, <3>2, <3>3, Zenon
      <4>2. Decides(note, n)
        BY <3>2, <4>1, Zenon DEF LastDecides
      <4>3. Held(n)' = v
        BY <1>5, <3>1, <4>1, <4>2, Zenon
      <4> QED  BY <2>3, <3>2, <4>1, <4>3, Zenon
    <3>4. CASE k # 1
      <4>1. k - 1 \in 1..Len(t) /\ t[k - 1] = q[k] /\ LastDecides(t, n, k - 1)
        BY <2>2, <3>2, <3>4, Zenon
      <4>2. PICK j : j = k - 1
        BY Zenon
      <4>3. j \in 1..Len(queue') /\ LastDecides(queue', n, j) /\ Outcome(queue'[j]) = v
        BY <1>4, <3>1, <4>1, <4>2, Zenon
      <4>4. Right(n, v)'
        BY <2>0, <3>2, Zenon
      <4> QED  BY <4>3, <4>4, Decided, Zenon
    <3> QED  BY <3>3, <3>4, Zenon
  <2> QED  BY <2>1, <2>4, <2>5, Zenon DEF FollowsOne
<1> QED  BY <1>6, <1>7, <1>8, Zenon DEF IInv, Follows

-----------------------------------------------------------------------------
(* Every step of the users, the informer and the handlers keeps the        *)
(* invariant.                                                              *)
LEMMA NextIInv == IInv /\ [Next]_vars => IInv'
<1> SUFFICES ASSUME IInv, [Next]_vars PROVE IInv'
  BY Zenon
<1>1. CASE UNCHANGED vars
  <2>1. UNCHANGED <<objects, cache, connected, queue, store, breaks>>
    BY <1>1, ZenonT(30) DEF vars
  <2>2. Follows'
    BY <2>1 DEF IInv, Follows, FollowsOne, Undecided, LastDecides, Decides, Outcome, Held, Right
  <2> QED  BY <2>1, <2>2, Zenon DEF IInv, StoreTypes, Watched
<1>2. ASSUME NEW n \in Ingesters, NEW spec \in Specs \cup {Absent}, Edit(n, spec)
      PROVE  IInv'
  BY <1>2, EditIInv, Zenon
<1> QED  BY <1>1, <1>2, BreakIInv, RelistIInv, ResyncIInv, HandleIInv, Zenon DEF Next

(* With an open watch and an empty queue the invariant is about the store  *)
(* and the objects themselves.                                             *)
LEMMA IInvStoreFollows == IInv => StoreFollows
<1> SUFFICES ASSUME IInv, Quiet PROVE
       /\ \A n \in Live :
            LET cs == ConvertToIngesterConfigs(n, objects[n])
            IN  objects[n].sources = <<>> /\ cs # <<>> => n \in DOMAIN store /\ store[n] = cs[1]
       /\ breaks = 0 => DOMAIN store \subseteq Live
  BY Zenon DEF StoreFollows
<1>0. StoreTypes /\ cache = objects /\ queue = <<>>
  BY Zenon DEF IInv, Watched, Quiet
<1>1. ASSUME NEW n \in Ingesters PROVE Right(n, Held(n))
  BY <1>0 DEF IInv, Follows, FollowsOne
<1>2. ASSUME NEW n \in Live, objects[n].sources = <<>>,
             ConvertToIngesterConfigs(n, objects[n]) # <<>>
      PROVE  n \in DOMAIN store /\ store[n] = ConvertToIngesterConfigs(n, objects[n])[1]
  <2>1. n \in Ingesters /\ objects[n] # Absent
    BY Zenon DEF Live
  <2>2. objects[n] \in Specs
    BY <1>0, <2>1, Zenon DEF StoreTypes
  <2>3. /\ ConvertToIngesterConfigs(n, objects[n])[1] = ConvertToIngesterConfig(n, objects[n])
        /\ ConvertToIngesterConfig(n, objects[n]) # Absent
    BY <1>2, <2>1, <2>2, ConvertersAgree, Zenon
  <2>4. Held(n) = ConvertToIngesterConfig(n, objects[n])
    BY <1>0, <1>1, <2>1, <2>3, Zenon DEF Right
  <2> QED  BY <2>3, <2>4, Zenon DEF Held
<1>3. ASSUME breaks = 0, NEW n \in DOMAIN store PROVE n \in Live
  <2>1. n \in Ingesters /\ store[n] # Absent
    BY <1>0, Zenon DEF StoreTypes
  <2>2. Held(n) # Absent
    BY <2>1, Zenon DEF Held
  <2>3. objects[n] # Absent
    BY <1>0, <1>1, <1>3, <2>1, <2>2, Zenon DEF Right
  <2> QED  BY <2>1, <2>3, Zenon DEF Live
<1> QED  BY <1>2, <1>3, Zenon

(* Once the handlers have seen everything, the store holds what the        *)
(* orchestrator's converter makes of every single-source Ingester, and,    *)
(* until the watch has broken, of no Ingester that was deleted             *)
(* (onAdd, onUpdate, onDelete, AddOrUpdate, Delete).                       *)
THEOREM StoreAlwaysFollows == Spec => []StoreFollows
BY InitIInv, NextIInv, IInvStoreFollows, PTL DEF Spec

-----------------------------------------------------------------------------
(* The destinations a spec is left with.  extractDestinations is a loop;   *)
(* what it returns is shown by its steps, the first one that went wrong    *)
(* being impossible.                                                       *)

(* A set of natural numbers has a least one. *)
LEMMA LeastNumber ==
    ASSUME NEW T, T \subseteq Nat, T # {}
    PROVE  \E m \in T : \A k \in T : ~(k < m)
<1>1. PICK x \in T : \A y \in T : ~(<<y, x>> \in OpToRel(<, Nat))
  BY NatLessThanWellFounded, WFMin, Zenon
<1>2. ASSUME NEW y \in T, y < x PROVE FALSE
  <2>1. <<y, x>> \in Nat \X Nat /\ <<y, x>>[1] < <<y, x>>[2]
    BY <1>2, Zenon
  <2>2. <<y, x>> \in OpToRel(<, Nat)
    BY <2>1, Zenon DEF OpToRel
  <2> QED  BY <1>1, <2>2, Zenon
<1> QED  BY <1>2, Zenon

Destination == [type : STRING, gvr : STRING, value : STRING]

(* One round of the loop, with result as it was before it. *)
Round(d, result) ==
    IF DestinationUsable(d) THEN Append(result, ResolveGVR(d)) ELSE result

(* f[i] is the result after i rounds. *)
Rounds(ds, f, n) ==
    f = [i \in 0..n |-> IF i = 0 THEN <<>> ELSE Round(ds[i], f[i - 1])]

(* The loop can be run to any length. *)
LEMMA RoundsExist ==
    ASSUME NEW ds
    PROVE  \A n \in Nat : \E f : Rounds(ds, f, n)
<1> DEFINE T == {n \in Nat : ~\E f : Rounds(ds, f, n)}
<1>1. SUFFICES ASSUME T # {} PROVE FALSE
  BY Zenon
<1>2. T \subseteq Nat
  BY Zenon
<1>3. PICK n \in T : \A k \in T : ~(k < n)
  <2> HIDE DEF T
  <2> QED  BY <1>1, <1>2, LeastNumber, Zenon
<1>4. n \in Nat /\ ~\E f : Rounds(ds, f, n)
  BY <1>3, Zenon
<1>5. CASE n = 0
  <2>1. PICK f : f = [i \in 0..0 |-> <<>>]
    BY Zenon
  <2>2. f = [i \in 0..0 |-> IF i = 0 THEN <<>> ELSE Round(ds[i], f[i - 1])]
    BY <2>1
  <2> QED  BY <1>4, <1>5, <2>2, Zenon DEF Rounds
<1>6. CASE n # 0
  <2>1. n - 1 \in Nat /\ n - 1 < n
    BY <1>4, <1>6
  <2>2. PICK f : Rounds(ds, f, n - 1)
    BY <1>3, <2>1, Zenon
  <2>3. \A i \in 0..(n - 1) : f[i] = IF i = 0 THEN <<>> ELSE Round(ds[i], f[i - 1])
    BY <2>2, Zenon DEF Rounds
  <2>4. PICK g : g = [i \in 0..n |-> IF i = n THEN Round(ds[n], f[n - 1]) ELSE f[i]]
    BY Zenon
  <2>5. ASSUME NEW i \in 0..n
        PROVE  g[i] = IF i = 0 THEN <<>> ELSE Round(ds[i], g[i - 1])
    <3>1. CASE i = n
      <4>1. n - 1 \in 0..n /\ n - 1 # n
        BY <1>4, <2>1
      <4>2. g[n - 1] = f[n - 1] /\ g[n] = Round(ds[n], f[n - 1])
        BY <2>4, <3>1, <4>1, Zenon
      <4> QED  BY <1>6, <3>1, <4>2, Zenon
    <3>2. CASE i # n /\ i # 0
      <4>1. i \in 0..(n - 1) /\ i - 1 \in 0..n /\ i - 1 # n
        BY <1>4, <3>2
      <4>2. g[i] = f[i] /\ g[i - 1] = f[i - 1]
        BY <2>4, <3>2, <4>1, Zenon
      <4> QED  BY <2>3, <3>2, <4>1, <4>2, Zenon
    <3>3. CASE i # n /\ i = 0
      <4>1. 0 \in 0..(n - 1)
        BY <1>4, <3>3
      <4>2. g[0] = f[0]
        BY <2>4, <3>3, Zenon
      <4> QED  BY <2>3, <3>3, <4>1, <4>2, Zenon
    <3> QED  BY <3>1, <3>2, <3>3, Zenon
  <2>6. g = [i \in 0..n |-> IF i = 0 THEN <<>> ELSE Round(ds[i], g[i - 1])]
    BY <2>4, <2>5, Zenon
  <2> QED  BY <1>4, <2>6, Zenon DEF Rounds
<1> QED  BY <1>5, <1>6, Zenon

(* extractDestinations returns the result after the last round. *)
LEMMA Loops ==
    ASSUME NEW ds, Len(ds) \in Nat
    PROVE  \E f : Rounds(ds, f, Len(ds)) /\ extractDestinations(ds) = f[Len(ds)]
<1> DEFINE kept == CHOOSE f : f = [i \in 0..Len(ds) |->
                     IF i = 0 THEN <<>>
                     ELSE IF DestinationUsable(ds[i]) THEN Append(f[i - 1], ResolveGVR(ds[i]))
                     ELSE f[i - 1]]
<1>1. extractDestinations(ds) = kept[Len(ds)]
  BY Zenon DEF extractDestinations
<1>2. \E f : Rounds(ds, f, Len(ds))
  BY RoundsExist, Zenon
<1>3. Rounds(ds, kept, Len(ds))
  BY <1>2, Zenon DEF Rounds, Round
<1> QED  BY <1>1, <1>3, Zenon

(* What the loop returns names usable destinations only. *)
GVRs(ds) == {ResolveGVR(ds[i]) : i \in 1..Len(ds)}
Names(ds, result) ==
    /\ result \in Seq(GVRs(ds))
    /\ \A j \in 1..Len(result) :
          \E i \in 1..Len(ds) : DestinationUsable(ds[i]) /\ result[j] = ResolveGVR(ds[i])

(* A round that begins with such a result ends with one. *)
LEMMA RoundNames ==
    ASSUME NEW ds \in Seq(Destination), NEW i \in 1..Len(ds), NEW result, Names(ds, result)
    PROVE  Names(ds, Round(ds[i], result))
<1>0. PICK S : S = GVRs(ds)
  BY Zenon
<1>1. PICK g : g = ResolveGVR(ds[i]) /\ g \in S
  BY <1>0, Zenon DEF GVRs
<1>2. result \in Seq(S)
  BY <1>0, Zenon DEF Names
<1>3. CASE DestinationUsable(ds[i])
  <2>1. PICK t : t = Append(result, g)
    BY Zenon
  <2>2. /\ t \in Seq(S) /\ Len(t) = Len(result) + 1 /\ Len(result) \in Nat
        /\ t[Len(result) + 1] = g /\ \A j \in 1..Len(result) : t[j] = result[j]
    BY <1>1, <1>2, <2>1
  <2>3. \A j \in 1..Len(t) : j \in 1..Len(result) \/ j = Len(result) + 1
    BY <2>2
  <2>4. Names(ds, t)
    BY <1>0, <1>1, <1>3, <2>2, <2>3, Zenon DEF Names
  <2> QED  BY <1>1, <1>3, <2>1, <2>4, Zenon DEF Round
<1>4. CASE ~DestinationUsable(ds[i])
  BY <1>4, Zenon DEF Round
<1> QED  BY <1>3, <1>4, Zenon

(* extractDestinations returns the GVRs of usable destinations. *)
LEMMA ExtractedNames ==
    ASSUME NEW ds \in Seq(Destination)
    PROVE  Names(ds, extractDestinations(ds))
<1>0. Len(ds) \in Nat
  OBVIOUS
<1>1. PICK f : Rounds(ds, f, Len(ds)) /\ extractDestinations(ds) = f[Len(ds)]
  BY <1>0, Loops, Zenon
<1>2. \A i \in 0..Len(ds) : f[i] = IF i = 0 THEN <<>> ELSE Round(ds[i], f[i - 1])
  BY <1>1, Zenon DEF Rounds
<1> DEFINE T == {n \in 0..Len(ds) : ~Names(ds, f[n])}
<1>3. T = {}
  <2>1. SUFFICES ASSUME T # {} PROVE FALSE
    BY Zenon
  <2>2. T \subseteq Nat
    BY <1>0
  <2>3. PICK n \in T : \A k \in T : ~(k < n)
    <3> HIDE DEF T
    <3> QED  BY <2>1, <2>2, LeastNumber, Zenon
  <2>4. n \in 0..Len(ds) /\ ~Names(ds, f[n])
    BY <2>3, Zenon
  <2>5. CASE n = 0
    <3>1. f[n] = <<>>
      BY <1>2, <2>4, <2>5, Zenon
    <3>2. Names(ds, <<>>)
      BY DEF Names
    <3> QED  BY <2>4, <3>1, <3>2, Zenon
  <2>6. CASE n # 0
    <3>1. n \in 1..Len(ds) /\ n - 1 \in 0..Len(ds) /\ n - 1 < n
      BY <1>0, <2>4, <2>6
    <3>2. Names(ds, f[n - 1])
      BY <2>3, <3>1, Zenon
    <3>3. Names(ds, Round(ds[n], f[n - 1]))
      BY <3>1, <3>2, RoundNames, Zenon
    <3>4. f[n] = Round(ds[n], f[n - 1])
      BY <1>2, <2>4, <2>6, Zenon
    <3> QED  BY <2>4, <3>3, <3>4, Zenon
  <2> QED  BY <2>5, <2>6, Zenon
<1>4. Len(ds) \in 0..Len(ds)
  BY <1>0
<1> QED  BY <1>1, <1>3, <1>4, Zenon

(* c is what some spec of that source is converted to. *)
Converts(s, c) ==
    \E n \in Ingesters, spec \in Specs :
        /\ spec # Absent /\ LegacyUsable(spec) /\ spec.source = s
        /\ c = ConvertToIngesterConfig(n, spec)

(* Every entry of the index by source is one the converter made. *)
IndexInv == IInv /\ \A s \in DOMAIN bySource : Converts(s, bySource[s])

(* The handlers put into the index only what they converted, under its     *)
(* source (AddOrUpdate, Delete).                                           *)
LEMMA HandledIndex ==
    ASSUME NEW note \in Notes, \A s \in DOMAIN bySource : Converts(s, bySource[s]),
           IF note.event \in {"add", "update"} THEN onUpsert(note.name, note.spec)
           ELSE onDelete(note)
    PROVE  \A s \in DOMAIN bySource' : Converts(s, bySource'[s])
<1>0. note.name \in Ingesters /\ note.spec \in Specs \cup {Absent}
  BY Zenon DEF Notes
<1>1. CASE bySource' = bySource
  BY <1>1, Zenon
<1>2. ASSUME NEW x, bySource' = Without(bySource, x)
      PROVE  \A s \in DOMAIN bySource' : Converts(s, bySource'[s])
  <2>1. \A s \in DOMAIN bySource' : s \in DOMAIN bySource /\ bySource'[s] = bySource[s]
    BY <1>2, Zenon DEF Without
  <2> QED  BY <2>1, Zenon
<1>3. CASE /\ ConvertToIngesterConfig(note.name, note.spec) # Absent
           /\ Put(ConvertToIngesterConfig(note.name, note.spec))
  <2>1. PICK c : c = ConvertToIngesterConfig(note.name, note.spec)
    BY Zenon
  <2>2. /\ note.spec # Absent /\ LegacyUsable(note.spec)
        /\ c = ConvertToIngesterConfig(note.name, note.spec)
    BY <1>3, <2>1, Zenon DEF ConvertToIngesterConfig
  <2>3. note.spec \in Specs
    BY <1>0, <2>2, Zenon
  <2>4. c.source = note.spec.source
    BY <2>2, Zenon DEF ConvertToIngesterConfig
  <2>5. Converts(c.source, c)
    BY <1>0, <2>2, <2>3, <2>4, Zenon DEF Converts
  <2>6. bySource' = With(bySource, c.source, c)
    BY <1>3, <2>1, Zenon DEF Put
  <2>7. \A s \in DOMAIN bySource' : /\ s # c.source => s \in DOMAIN bySource
                                    /\ bySource'[s] = IF s = c.source THEN c ELSE bySource[s]
    BY <2>6, Zenon DEF With
  <2> QED  BY <2>5, <2>7, Zenon
<1>4. CASE note.event \in {"add", "update"}
  BY <1>1, <1>3, <1>4, Zenon DEF onUpsert
<1>5. CASE note.event \notin {"add", "update"}
  BY <1>1, <1>2, <1>5, Zenon DEF onDelete, Delete
<1> QED  BY <1>4, <1>5, Zenon

(* Nothing but the handlers writes to the index. *)
LEMMA NextIndexInv == IndexInv /\ [Next]_vars => IndexInv'
<1> SUFFICES ASSUME IndexInv, [Next]_vars PROVE IndexInv'
  BY Zenon
<1>1. IInv /\ IInv'
  BY NextIInv, Zenon DEF IndexInv
<1>2. CASE bySource' = bySource
  BY <1>1, <1>2, Zenon DEF IndexInv
<1>3. CASE Handle
  <2>1. PICK note : note = Head(queue)
    BY Zenon
  <2>2. note \in Notes
    <3>1. queue \in Seq(Notes) /\ queue # <<>>
      BY <1>1, <1>3, Zenon DEF IInv, StoreTypes, Handle
    <3> QED  BY <2>1, <3>1
  <2>3. IF note.event \in {"add", "update"} THEN onUpsert(note.name, note.spec)
        ELSE onDelete(note)
    BY <1>3, <2>1, Zenon DEF Handle
  <2>4. \A s \in DOMAIN bySource' : Converts(s, bySource'[s])
    BY <2>2, <2>3, HandledIndex, Zenon DEF IndexInv
  <2> QED  BY <1>1, <2>4, Zenon DEF IndexInv
<1>4. ASSUME NEW n \in Ingesters, NEW spec \in Specs \cup {Absent}, Edit(n, spec)
      PROVE  bySource' = bySource
  BY <1>4, Zenon DEF Edit
<1>5. Break \/ Relist \/ Resync \/ UNCHANGED vars => bySource' = bySource
  BY Zenon DEF Break, Relist, Resync, vars
<1> QED  BY <1>2, <1>3, <1>4, <1>5, Zenon DEF Next

(* g is the GVR of a usable destination of a spec with that source. *)
NamedBy(s, g) ==
    \E spec \in Specs : \E i \in DOMAIN spec.destinations :
        LET d == spec.destinations[i]
        IN  /\ spec.source = s /\ d.type = "crd" /\ d.gvr # "invalid" /\ g # ""
            /\ g = (IF d.gvr \in {"absent", "partial"} THEN d.value ELSE d.gvr)

(* The first destination of an entry of the index is such a GVR. *)
LEMMA ConvertsValid ==
    ASSUME NEW s, NEW c, Converts(s, c)
    PROVE  NamedBy(s, c.destinations[1])
<1>1. PICK n \in Ingesters, spec \in Specs :
        /\ spec # Absent /\ LegacyUsable(spec) /\ spec.source = s
        /\ c = ConvertToIngesterConfig(n, spec)
  BY Zenon DEF Converts
<1>2. PICK ds : ds = spec.destinations /\ ds \in Seq(Destination)
  BY SpecsAssumption, Zenon DEF Destination
<1>3. PICK r : r = extractDestinations(ds)
  BY Zenon
<1>5. c.destinations = r /\ r # <<>>
  BY <1>1, <1>2, <1>3, Zenon DEF ConvertToIngesterConfig, LegacyUsable
<1>6. Names(ds, r)
  BY <1>2, <1>3, ExtractedNames, Zenon
<1>7. 1 \in 1..Len(r)
  <2>1. PICK S : r \in Seq(S)
    BY <1>6, Zenon DEF Names
  <2> QED  BY <1>5, <2>1
<1>8. PICK i \in 1..Len(ds) : DestinationUsable(ds[i]) /\ r[1] = ResolveGVR(ds[i])
  BY <1>6, <1>7, Zenon DEF Names
<1>9. i \in DOMAIN ds
  BY <1>2
<1>10. PICK d : d = ds[i]
  BY Zenon
<1>11. /\ d.type = "crd" /\ d.gvr # "invalid" /\ r[1] # ""
       /\ r[1] = (IF d.gvr \in {"absent", "partial"} THEN d.value ELSE d.gvr)
  BY <1>8, <1>10, Zenon DEF DestinationUsable, ResolveGVR
<1> QED  BY <1>1, <1>2, <1>5, <1>9, <1>10, <1>11, Zenon DEF NamedBy

(* The resolver of main.go never answers with the empty or an invalid GVR, *)
(* nor with a destination of another kind: it names the default or what a  *)
(* usable crd destination of some spec with that source names              *)
(* (extractDestinations).                                                  *)
THEOREM DestinationsAreValid == Spec => []DestinationValid
<1>1. Init => IndexInv
  <2>1. Init => \A s \in DOMAIN bySource : Converts(s, bySource[s])
    BY DEF Init
  <2> QED  BY <2>1, InitIInv, Zenon DEF IndexInv
<1>2. IndexInv => DestinationValid
  <2>1. ASSUME IndexInv, NEW s \in Sources, s \in DOMAIN bySource
        PROVE  Converts(s, bySource[s]) /\ Resolve(s) = bySource[s].destinations[1]
    BY <2>1, Zenon DEF IndexInv, Resolve
  <2>2. \A s \in Sources : s \notin DOMAIN bySource => Resolve(s) = Observations
    BY Zenon DEF Resolve
  <2>3. ASSUME IndexInv, NEW s \in Sources
        PROVE  \/ Resolve(s) = Observations
               \/ \E spec \in Specs : \E i \in DOMAIN spec.destinations :
                     LET d == spec.destinations[i]
                     IN  /\ spec.source = s /\ d.type = "crd" /\ d.gvr # "invalid"
                         /\ Resolve(s) # ""
                         /\ Resolve(s) =
                              (IF d.gvr \in {"absent", "partial"} THEN d.value ELSE d.gvr)
    <3>1. Resolve(s) = Observations \/ NamedBy(s, Resolve(s))
      BY <2>1, <2>2, <2>3, ConvertsValid, Zenon
    <3> QED  BY <3>1, Zenon DEF NamedBy
  <2> QED  BY <2>3, Zenon DEF DestinationValid
<1> QED  BY <1>1, <1>2, NextIndexInv, PTL DEF Spec
=============================================================================
